----------------------------- MODULE PidRegistry -----------------------------
(***************************************************************************)
(* What the PID registry of DDE Linux 2.6 promises (spec section 4.2 and  *)
(* the PID property of section 8): an associative store of id -> task.   *)
(* attach and detach change it atomically; a lookup is a call that takes *)
(* effect at one instant between its start and its return and returns    *)
(* the task registered for the id at that instant, or NULL.               *)
(***************************************************************************)
EXTENDS FiniteSets

CONSTANTS
    Tasks,     \* tasks; a task's id is the task itself
    Lookers,   \* threads calling find_task_by_pid_type
    NULL

VARIABLES
    reg,       \* the set of <<id, task>> entries
    phase,     \* per looker: "idle" | "called" | "resolved"
    arg,       \* per looker: the id looked up
    lin,       \* per looker: the answer fixed at the linearization point
    out        \* per looker: the answer returned

vars == <<reg, phase, arg, lin, out>>

Answers == Tasks \cup {NULL}

\* The task registered for id n, or NULL.
Registered(n) == IF \E e \in reg : e[1] = n
                 THEN (CHOOSE e \in reg : e[1] = n)[2]
                 ELSE NULL

Init ==
    /\ reg = {}
    /\ phase = [l \in Lookers |-> "idle"]
    /\ arg = [l \in Lookers |-> NULL]
    /\ lin = [l \in Lookers |-> NULL]
    /\ out = [l \in Lookers |-> NULL]

Attach(t) ==
    /\ reg' = reg \cup {<<t, t>>}
    /\ UNCHANGED <<phase, arg, lin, out>>

Detach(t) ==
    /\ reg' = {e \in reg : e[2] # t}
    /\ UNCHANGED <<phase, arg, lin, out>>

Call(l, n) ==
    /\ phase[l] = "idle"
    /\ phase' = [phase EXCEPT ![l] = "called"]
    /\ arg' = [arg EXCEPT ![l] = n]
    /\ UNCHANGED <<reg, lin, out>>

Resolve(l) ==
    /\ phase[l] = "called"
    /\ phase' = [phase EXCEPT ![l] = "resolved"]
    /\ lin' = [lin EXCEPT ![l] = Registered(arg[l])]
    /\ UNCHANGED <<reg, arg, out>>

Return(l) ==
    /\ phase[l] = "resolved"
    /\ phase' = [phase EXCEPT ![l] = "idle"]
    /\ out' = [out EXCEPT ![l] = lin[l]]
    /\ UNCHANGED <<reg, arg, lin>>

Next ==
    \/ \E t \in Tasks : Attach(t) \/ Detach(t)
    \/ \E l \in Lookers : \/ \E n \in Tasks : Call(l, n)
                          \/ Resolve(l) \/ Return(l)

Spec == Init /\ [][Next]_vars

====
