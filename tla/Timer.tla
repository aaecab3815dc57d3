------------------------------- MODULE Timer -------------------------------
(***************************************************************************)
(* The timer service of DDE Linux 2.6                                      *)
(* (src/src/lib/dde_linux26/arch/dde_kit/timer.c).                         *)
(*                                                                         *)
(* A struct timer_list keeps the handle dde_kit_timer_add returned in      *)
(* timer->dde_kit_timer.  add_timer arms a dde_kit alarm and stores its    *)
(* handle, del_timer reads the handle, asks the dde_kit whether it is      *)
(* still pending, deletes it and clears the field, __mod_timer is          *)
(* del_timer, a store of the new expiry and add_timer, and timer_pending   *)
(* reads the field and asks the dde_kit.  None of this takes a lock, so    *)
(* each access of the timer struct and each dde_kit call is a step.        *)
(*                                                                         *)
(* The dde_kit timer thread is the environment: it takes an armed alarm    *)
(* off its list and then runs the timer function.  A handle names one      *)
(* arming; the model never reuses one.                                     *)
(***************************************************************************)
EXTENDS Naturals, FiniteSets

CONSTANTS
    Threads,          \* driver threads calling the timer API
    Timers,           \* the struct timer_lists of the drivers
    Expiries,         \* values drivers store in timer->expires
    Handles,          \* dde_kit timer handles, one per arming
    NoHandle,         \* the value 0 of timer->dde_kit_timer
    MaxCalls,         \* bound: timer API calls the drivers make in all
    AddOnlyInactive   \* drivers call add_timer only on a timer not pending

ASSUME /\ NoHandle \notin Handles /\ AddOnlyInactive \in BOOLEAN
       /\ MaxCalls \in Nat /\ Cardinality(Handles) >= MaxCalls

VARIABLES
    dde_kit_timer,  \* [t -> handle or NoHandle]: timer->dde_kit_timer
    expires,        \* [t -> expiry]: timer->expires
    armed,          \* alarms on the dde_kit timer list
    alarm,          \* [h -> [timer, exp]]: what handle h was armed with
    used,           \* handles the dde_kit has returned so far
    running,        \* alarm whose function the timer thread is about to run
    \* per driver thread
    pc, op, tm, hl, pend, newexp,
    calls,          \* API calls made so far
    \* history
    cbRan,          \* alarms whose timer function has run
    delWon          \* alarms whose del_timer returned 1

timerVars == <<dde_kit_timer, expires>>
kitVars == <<armed, alarm, used, running>>
threadVars == <<pc, op, tm, hl, pend, newexp, calls>>
vars == <<timerVars, kitVars, threadVars, cbRan, delWon>>

Ops == {"add", "del", "del_sync", "mod", "pending"}
PCs == {"idle", "add_arm", "add_store", "del_read", "del_pending", "del_del",
        "del_clear", "mod_exp", "pend_read", "pend_query"}

\* A driver thread is inside a call on timer t.
Busy(t) == \E p \in Threads : pc[p] # "idle" /\ tm[p] = t

\* Alarms of t the dde_kit will still fire.
AlarmsOf(t) == {h \in armed : alarm[h].timer = t}

Init ==
    /\ dde_kit_timer = [t \in Timers |-> NoHandle]
    /\ expires \in [Timers -> Expiries]
    /\ armed = {} /\ used = {} /\ running = NoHandle
    /\ alarm = [h \in Handles |-> [timer |-> CHOOSE t \in Timers : TRUE,
                                   exp |-> CHOOSE e \in Expiries : TRUE]]
    /\ pc = [p \in Threads |-> "idle"]
    /\ op = [p \in Threads |-> "add"]
    /\ tm = [p \in Threads |-> CHOOSE t \in Timers : TRUE]
    /\ hl = [p \in Threads |-> NoHandle]
    /\ pend = [p \in Threads |-> FALSE]
    /\ newexp = [p \in Threads |-> CHOOSE e \in Expiries : TRUE]
    /\ calls = 0
    /\ cbRan = {} /\ delWon = {}

Goto(p, from, to) == pc[p] = from /\ pc' = [pc EXCEPT ![p] = to]

\* A driver thread enters an API call on timer t.
Enter(p, o, t, start) ==
    /\ pc[p] = "idle" /\ calls < MaxCalls
    /\ calls' = calls + 1
    /\ pc' = [pc EXCEPT ![p] = start]
    /\ op' = [op EXCEPT ![p] = o]
    /\ tm' = [tm EXCEPT ![p] = t]

\* The call returns; the thread's handle local dies.
Return(p) ==
    /\ pc' = [pc EXCEPT ![p] = "idle"]
    /\ hl' = [hl EXCEPT ![p] = NoHandle]

-----------------------------------------------------------------------------
(* add_timer (timer.c 55-65), also the tail of __mod_timer (line 110).     *)
AddTimer(p, t) ==
    /\ AddOnlyInactive => AlarmsOf(t) = {}
    /\ Enter(p, "add", t, "add_arm")
    /\ UNCHANGED <<timerVars, kitVars, hl, pend, newexp, cbRan, delWon>>

\* timer.c 62-64: dde_kit_timer_add arms an alarm with the stored expiry.
AddArm(p) ==
    /\ Goto(p, "add_arm", "add_store")
    /\ \E h \in Handles \ used :
          /\ armed' = armed \cup {h}
          /\ used' = used \cup {h}
          /\ alarm' = [alarm EXCEPT ![h] = [timer |-> tm[p], exp |-> expires[tm[p]]]]
          /\ hl' = [hl EXCEPT ![p] = h]
    /\ UNCHANGED <<timerVars, running, op, tm, pend, newexp, calls, cbRan, delWon>>

\* timer.c 62: the handle is stored in timer->dde_kit_timer.
AddStore(p) ==
    /\ pc[p] = "add_store"
    /\ dde_kit_timer' = [dde_kit_timer EXCEPT ![tm[p]] = hl[p]]
    /\ Return(p)
    /\ UNCHANGED <<expires, kitVars, op, tm, pend, newexp, calls, cbRan, delWon>>

-----------------------------------------------------------------------------
(* del_timer (timer.c 74-88); del_timer_sync is del_timer (90-93).         *)
DelTimer(p, t, o) ==
    /\ Enter(p, o, t, "del_read")
    /\ UNCHANGED <<timerVars, kitVars, hl, pend, newexp, cbRan, delWon>>

\* __mod_timer (96-113) starts with del_timer.
ModTimer(p, t, e) ==
    /\ Enter(p, "mod", t, "del_read")
    /\ newexp' = [newexp EXCEPT ![p] = e]
    /\ UNCHANGED <<timerVars, kitVars, hl, pend, cbRan, delWon>>

\* del_timer ends: for __mod_timer go on to the new expiry, else return
\* pending; a return of 1 claims the alarm for the caller.
DelDone(p, r) ==
    IF op[p] = "mod"
    THEN /\ pc' = [pc EXCEPT ![p] = "mod_exp"]
         /\ hl' = [hl EXCEPT ![p] = NoHandle]
         /\ UNCHANGED delWon
    ELSE /\ Return(p)
         /\ delWon' = IF r THEN delWon \cup {hl[p]} ELSE delWon

\* del_timer without the NULL check of line 80.
DelReadNoNullCheck(p) ==
    /\ Goto(p, "del_read", "del_pending")
    /\ hl' = [hl EXCEPT ![p] = dde_kit_timer[tm[p]]]
    /\ pend' = [pend EXCEPT ![p] = FALSE]
    /\ UNCHANGED <<timerVars, kitVars, op, tm, newexp, calls, cbRan, delWon>>

\* timer.c 78-80: read the handle; without one, pending stays 0.
DelRead(p) ==
    /\ pc[p] = "del_read"
    /\ pend' = [pend EXCEPT ![p] = FALSE]
    /\ IF dde_kit_timer[tm[p]] = NoHandle
       THEN DelDone(p, FALSE)
       ELSE /\ pc' = [pc EXCEPT ![p] = "del_pending"]
            /\ hl' = [hl EXCEPT ![p] = dde_kit_timer[tm[p]]]
            /\ UNCHANGED delWon
    /\ UNCHANGED <<timerVars, kitVars, op, tm, newexp, calls, cbRan>>

\* timer.c 81: dde_kit_timer_pending.
DelPending(p) ==
    /\ Goto(p, "del_pending", "del_del")
    /\ pend' = [pend EXCEPT ![p] = hl[p] \in armed]
    /\ UNCHANGED <<timerVars, kitVars, op, tm, hl, newexp, calls, cbRan, delWon>>

\* timer.c 82: dde_kit_timer_del; an alarm already taken off is unaffected.
DelDel(p) ==
    /\ Goto(p, "del_del", "del_clear")
    /\ armed' = armed \ {hl[p]}
    /\ UNCHANGED <<timerVars, alarm, used, running, op, tm, hl, pend, newexp,
                   calls, cbRan, delWon>>

\* timer.c 83-87: clear the field and return pending.
DelClear(p) ==
    /\ pc[p] = "del_clear"
    /\ dde_kit_timer' = [dde_kit_timer EXCEPT ![tm[p]] = NoHandle]
    /\ DelDone(p, pend[p])
    /\ UNCHANGED <<expires, kitVars, op, tm, pend, newexp, calls, cbRan>>

\* __mod_timer with lines 109 and 110 swapped: the alarm is armed with the
\* old expiry and the new one is stored afterwards.
ModExpAfterArm(p) ==
    /\ Goto(p, "mod_exp", "add_store")
    /\ \E h \in Handles \ used :
          /\ armed' = armed \cup {h}
          /\ used' = used \cup {h}
          /\ alarm' = [alarm EXCEPT ![h] = [timer |-> tm[p], exp |-> expires[tm[p]]]]
          /\ hl' = [hl EXCEPT ![p] = h]
    /\ expires' = [expires EXCEPT ![tm[p]] = newexp[p]]
    /\ UNCHANGED <<dde_kit_timer, running, op, tm, pend, newexp, calls, cbRan,
                   delWon>>

\* timer.c 109: timer->expires = expires, then add_timer.
ModExp(p) ==
    /\ Goto(p, "mod_exp", "add_arm")
    /\ expires' = [expires EXCEPT ![tm[p]] = newexp[p]]
    /\ UNCHANGED <<dde_kit_timer, kitVars, op, tm, hl, pend, newexp, calls,
                   cbRan, delWon>>

-----------------------------------------------------------------------------
(* timer_pending (timer.c 122-130).                                        *)
TimerPending(p, t) ==
    /\ Enter(p, "pending", t, "pend_read")
    /\ UNCHANGED <<timerVars, kitVars, hl, pend, newexp, cbRan, delWon>>

\* timer.c 128: a zero handle answers 0 without asking the dde_kit.
PendRead(p) ==
    /\ pc[p] = "pend_read"
    /\ IF dde_kit_timer[tm[p]] = NoHandle
       THEN /\ pend' = [pend EXCEPT ![p] = FALSE]
            /\ Return(p)
       ELSE /\ pc' = [pc EXCEPT ![p] = "pend_query"]
            /\ hl' = [hl EXCEPT ![p] = dde_kit_timer[tm[p]]]
            /\ UNCHANGED pend
    /\ UNCHANGED <<timerVars, kitVars, op, tm, newexp, calls, cbRan, delWon>>

\* timer.c 129: dde_kit_timer_pending.
PendQuery(p) ==
    /\ pc[p] = "pend_query"
    /\ pend' = [pend EXCEPT ![p] = hl[p] \in armed]
    /\ Return(p)
    /\ UNCHANGED <<timerVars, kitVars, op, tm, newexp, calls, cbRan, delWon>>

-----------------------------------------------------------------------------
(* The dde_kit timer thread: take an expired alarm off the list, then run  *)
(* the timer function with its data.                                       *)
Expire(h) ==
    /\ h \in armed /\ running = NoHandle
    /\ armed' = armed \ {h}
    /\ running' = h
    /\ UNCHANGED <<timerVars, alarm, used, threadVars, cbRan, delWon>>

RunFunction ==
    /\ running # NoHandle
    /\ cbRan' = cbRan \cup {running}
    /\ running' = NoHandle
    /\ UNCHANGED <<timerVars, armed, alarm, used, threadVars, delWon>>

Thread(p) ==
    \/ \E t \in Timers : AddTimer(p, t) \/ TimerPending(p, t)
    \/ \E t \in Timers, o \in {"del", "del_sync"} : DelTimer(p, t, o)
    \/ \E t \in Timers, e \in Expiries : ModTimer(p, t, e)
    \/ AddArm(p) \/ AddStore(p)
    \/ DelRead(p) \/ DelPending(p) \/ DelDel(p) \/ DelClear(p) \/ ModExp(p)
    \/ PendRead(p) \/ PendQuery(p)

Next ==
    \/ \E p \in Threads : Thread(p)
    \/ \E h \in Handles : Expire(h)
    \/ RunFunction

Spec == Init /\ [][Next]_vars

-----------------------------------------------------------------------------
\* Types; a thread holds a handle only between reading and using it.
TypeOK ==
    /\ dde_kit_timer \in [Timers -> Handles \cup {NoHandle}]
    /\ expires \in [Timers -> Expiries]
    /\ armed \subseteq used /\ used \subseteq Handles
    /\ alarm \in [Handles -> [timer : Timers, exp : Expiries]]
    /\ running \in Handles \cup {NoHandle}
    /\ pc \in [Threads -> PCs] /\ op \in [Threads -> Ops]
    /\ tm \in [Threads -> Timers] /\ pend \in [Threads -> BOOLEAN]
    /\ newexp \in [Threads -> Expiries] /\ calls \in 0..MaxCalls
    /\ hl \in [Threads -> Handles \cup {NoHandle}]
    /\ \A p \in Threads :
          hl[p] # NoHandle <=>
             pc[p] \in {"add_store", "del_pending", "del_del", "del_clear",
                        "pend_query"}
    /\ cbRan \subseteq used /\ delWon \subseteq used

\* A timer has at most one live alarm: re-arming it through add_timer or
\* __mod_timer never leaves the earlier alarm armed beside the new one.
\* add_timer on a pending timer (timer.c 62) and two threads in __mod_timer
\* (timer.c 107-110) break it; the run timer_api excludes both, as the
\* Linux contract does, so no run checks it.
AtMostOneAlarm == \A t \in Timers : Cardinality(AlarmsOf(t)) <= 1

\* Outside a call on it, a timer's live alarm carries the expiry last
\* stored in timer->expires: after mod_timer(T') it fires at T', not T.
LatestExpiry ==
    \A t \in Timers : ~Busy(t) => \A h \in AlarmsOf(t) : alarm[h].exp = expires[t]

\* An arming ends one way: either del_timer returns 1 for it (it was
\* pending and is cancelled) or its timer function runs, never both.
DelOrFunction == cbRan \cap delWon = {}

====
