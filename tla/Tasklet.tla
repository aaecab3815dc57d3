------------------------------ MODULE Tasklet ------------------------------
(***************************************************************************)
(* What a tasklet promises its driver (Linux 2.6 linux/interrupt.h, which  *)
(* softirq.c implements), one tasklet at a time and with no lists, no     *)
(* daemon and no softirq mask:                                             *)
(*                                                                         *)
(*   - tasklet_schedule owes the tasklet one run; scheduling it again      *)
(*     before that run starts adds nothing;                                *)
(*   - a run pays what is owed, and starts only when a run is owed, the    *)
(*     tasklet is not running already and its disable count is zero;       *)
(*   - tasklet_disable / tasklet_enable raise and lower the count;         *)
(*   - an owed run of an enabled tasklet is eventually made, and a run     *)
(*     ends.                                                               *)
(*                                                                         *)
(* tasklet_kill appears here only by what it leaves behind: it takes the   *)
(* owed run away from later tasklet_schedule calls while it waits, so     *)
(* those calls are steps that change nothing.                              *)
(***************************************************************************)
EXTENDS Naturals

CONSTANT Tasklets

VARIABLES
    owed,      \* [t -> BOOLEAN]: a run of t is owed
    running,   \* [t -> BOOLEAN]: t->func runs
    disabled   \* [t -> Nat]: the disable count

avars == <<owed, running, disabled>>

Init ==
    /\ owed = [t \in Tasklets |-> FALSE]
    /\ running = [t \in Tasklets |-> FALSE]
    /\ disabled = [t \in Tasklets |-> 0]

Schedule(t) ==
    /\ owed' = [owed EXCEPT ![t] = TRUE]
    /\ UNCHANGED <<running, disabled>>

Run(t) ==
    /\ owed[t] /\ ~running[t] /\ disabled[t] = 0
    /\ owed' = [owed EXCEPT ![t] = FALSE]
    /\ running' = [running EXCEPT ![t] = TRUE]
    /\ UNCHANGED disabled

Finish(t) ==
    /\ running[t]
    /\ running' = [running EXCEPT ![t] = FALSE]
    /\ UNCHANGED <<owed, disabled>>

Disable(t) ==
    /\ disabled' = [disabled EXCEPT ![t] = @ + 1]
    /\ UNCHANGED <<owed, running>>

Enable(t) ==
    /\ disabled[t] > 0
    /\ disabled' = [disabled EXCEPT ![t] = @ - 1]
    /\ UNCHANGED <<owed, running>>

Next ==
    \E t \in Tasklets :
        Schedule(t) \/ Run(t) \/ Finish(t) \/ Disable(t) \/ Enable(t)

\* The safety part: every step is one of the above, or changes nothing.
Safe == Init /\ [][Next]_avars

\* With progress: an owed run that stays possible is made, a run ends.
Spec == Safe /\ \A t \in Tasklets : WF_avars(Run(t)) /\ WF_avars(Finish(t))

=============================================================================
