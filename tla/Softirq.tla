------------------------------ MODULE Softirq ------------------------------
(***************************************************************************)
(* The DDE Linux 2.6 softirq / tasklet engine                              *)
(* (src/src/lib/dde_linux26/arch/dde_kit/softirq.c).                       *)
(*                                                                         *)
(* One daemon thread (dde_linux26_softirq_thread) blocks on softirq_sem    *)
(* and, when woken, runs do_softirq: it snapshots and resets the pending   *)
(* mask, runs the action of every class in the snapshot (lowest number     *)
(* first) and repeats while the mask is non-empty, at most                 *)
(* MAX_SOFTIRQ_RETRIES times.  The two registered actions, tasklet_action  *)
(* and tasklet_hi_action, detach their whole tasklet list under the list   *)
(* lock and then run, or re-queue, every tasklet of the detached list.     *)
(*                                                                         *)
(* Driver threads (interrupt threads and kernel threads, the set Threads)  *)
(* call the tasklet API concurrently with the daemon: tasklet_schedule /   *)
(* tasklet_hi_schedule, tasklet_disable / tasklet_enable and tasklet_kill. *)
(* Every step of the model is one atomic access of the code: a section     *)
(* under a dde_kit lock, one bit operation, or one plain read or write of  *)
(* the unprotected pending mask.  raise_softirq_irqoff_cpu updates the     *)
(* mask with a plain read-modify-write (or_softirq_pending); local_irq_save*)
(* does not exclude the other host threads, so that read and that write    *)
(* are two steps.                                                          *)
(***************************************************************************)
EXTENDS Naturals, SequencesExt

CONSTANTS
    Tasklets,             \* the tasklet_structs of the drivers
    Threads,              \* driver threads calling the tasklet API
    Nrs,                  \* softirqs the drivers schedule tasklets on
    MAX_SOFTIRQ_RETRIES,  \* softirq.c: passes of __do_softirq per wake-up
    MaxCalls              \* bound: tasklet API calls the drivers make in all

\* Softirq numbers of Linux 2.6 (linux/interrupt.h).
HI_SOFTIRQ == 0
TASKLET_SOFTIRQ == 5

\* Only these two classes get an action (open_softirq in softirq_init).
SoftirqNrs == {HI_SOFTIRQ, TASKLET_SOFTIRQ}

ASSUME /\ Nrs \subseteq SoftirqNrs /\ Nrs # {}
       /\ MAX_SOFTIRQ_RETRIES \in Nat \ {0} /\ MaxCalls \in Nat
       /\ Tasklets # {} /\ Threads # {}

VARIABLES
    softirq_pending,  \* irq_stat[0].__softirq_pending, as a set of numbers
    softirq_sem,      \* count of the daemon's wake-up semaphore
    tasklet_vec,      \* [nr -> list]: tasklet_vec and tasklet_hi_vec, head first
    state,            \* [t -> SUBSET {"SCHED","RUN"}]: t->state
    count,            \* [t -> Nat]: t->count, the disable count
    \* the daemon thread
    dpc,              \* its program counter
    pending,          \* __do_softirq's local snapshot, classes not yet run
    retries,          \* __do_softirq's retry counter
    h,                \* the class whose action runs
    list,             \* tasklet_action's detached list
    cur,              \* the tasklet tasklet_action is looking at
    dread,            \* the mask value read by the daemon's raise
    \* the driver threads
    pc,               \* [p -> program counter]
    arg,              \* [p -> tasklet the call is about]
    nr,               \* [p -> softirq of a tasklet_schedule call]
    tread,            \* [p -> mask value read by the thread's raise]
    holds,            \* [p -> tasklets p has disabled and not re-enabled]
    calls             \* API calls made so far (bounded by MaxCalls)

daemonVars == <<dpc, pending, retries, h, list, cur, dread>>
threadVars == <<pc, arg, nr, tread, holds, calls>>
vars == <<softirq_pending, softirq_sem, tasklet_vec, state, count,
          daemonVars, threadVars>>

DaemonPCs == {"down", "do_softirq", "snap", "clear", "next", "detach",
              "item", "func", "requeue", "rq_or", "rq_up", "bug"}
ThreadPCs == {"idle", "enqueue", "or_read", "or_write", "sem_up",
              "kill_tas", "kill_yield", "kill_unlock_wait", "kill_clear",
              "dis_unlock_wait"}

\* The tasklet list of softirq n is locked by the daemon while it re-queues
\* (softirq.c lines 157-161); every other locked section is one step.
LockedByDaemon(n) == dpc \in {"rq_or", "rq_up"} /\ h = n

\* Occurrences of t in the two tasklet lists and the detached list.
Occurrences(t) ==
    LET In(s) == Len(SelectSeq(s, LAMBDA x : x = t))
    IN  In(tasklet_vec[HI_SOFTIRQ]) + In(tasklet_vec[TASKLET_SOFTIRQ]) + In(list)

Queued(t) == Occurrences(t) > 0

-----------------------------------------------------------------------------
(* dde_linux26_softirq_init: empty lists and mask, semaphore at 0, every   *)
(* tasklet as tasklet_init leaves it, all threads outside the API.         *)
Init ==
    /\ softirq_pending = {}
    /\ softirq_sem = 0
    /\ tasklet_vec = [n \in SoftirqNrs |-> <<>>]
    /\ state = [t \in Tasklets |-> {}]
    /\ count = [t \in Tasklets |-> 0]
    /\ dpc = "down" /\ pending = {} /\ retries = 0 /\ h = HI_SOFTIRQ
    /\ list = <<>> /\ dread = {}
    /\ cur = CHOOSE t \in Tasklets : TRUE
    /\ pc = [p \in Threads |-> "idle"]
    /\ arg = [p \in Threads |-> CHOOSE t \in Tasklets : TRUE]
    /\ nr = [p \in Threads |-> TASKLET_SOFTIRQ]
    /\ tread = [p \in Threads |-> {}]
    /\ holds = [p \in Threads |-> {}]
    /\ calls = 0

-----------------------------------------------------------------------------
(***************************************************************************)
(* The daemon: dde_linux26_softirq_thread, do_softirq, __do_softirq.       *)
(***************************************************************************)
DGoto(from, to) == dpc = from /\ dpc' = to

\* dde_kit_sem_down(softirq_sem).
SemDown ==
    /\ DGoto("down", "do_softirq")
    /\ softirq_sem > 0
    /\ softirq_sem' = softirq_sem - 1
    /\ UNCHANGED <<softirq_pending, tasklet_vec, state, count, pending,
                   retries, h, list, cur, dread, threadVars>>

\* do_softirq: run __do_softirq only if some softirq is pending.
DoSoftirq ==
    /\ dpc = "do_softirq"
    /\ IF softirq_pending # {}
         THEN dpc' = "snap" /\ retries' = MAX_SOFTIRQ_RETRIES
         ELSE dpc' = "down" /\ UNCHANGED retries
    /\ UNCHANGED <<softirq_pending, softirq_sem, tasklet_vec, state, count,
                   pending, h, list, cur, dread, threadVars>>

\* pending = local_softirq_pending();
Snapshot ==
    /\ DGoto("snap", "clear")
    /\ pending' = softirq_pending
    /\ UNCHANGED <<softirq_pending, softirq_sem, tasklet_vec, state, count,
                   retries, h, list, cur, dread, threadVars>>

\* set_softirq_pending(0);  a separate store, after the snapshot.
ResetPending ==
    /\ DGoto("clear", "next")
    /\ softirq_pending' = {}
    /\ UNCHANGED <<softirq_sem, tasklet_vec, state, count, pending,
                   retries, h, list, cur, dread, threadVars>>

\* The bit loop: run the action of the lowest pending class; once the
\* snapshot is exhausted, repeat while (local_softirq_pending() && --retries).
NextSoftirq ==
    /\ dpc = "next"
    /\ IF pending # {}
         THEN /\ h' = Min(pending)
              /\ pending' = pending \ {h'}
              /\ dpc' = "detach"
              /\ UNCHANGED retries
         ELSE /\ UNCHANGED <<h, pending>>
              /\ IF softirq_pending # {} /\ retries > 1
                   THEN dpc' = "snap" /\ retries' = retries - 1
                   ELSE dpc' = "down" /\ UNCHANGED retries
    /\ UNCHANGED <<softirq_pending, softirq_sem, tasklet_vec, state, count,
                   list, cur, dread, threadVars>>

\* tasklet_action / tasklet_hi_action: detach the whole list under its lock.
Detach ==
    /\ DGoto("detach", "item")
    /\ list' = tasklet_vec[h]
    /\ tasklet_vec' = [tasklet_vec EXCEPT ![h] = <<>>]
    /\ UNCHANGED <<softirq_pending, softirq_sem, state, count, pending,
                   retries, h, cur, dread, threadVars>>

\* Mutant of TakeTasklet: the disable count is not consulted.
TakeTaskletIgnoringCount ==
    /\ dpc = "item"
    /\ IF list = <<>>
         THEN dpc' = "next" /\ UNCHANGED <<state, list, cur>>
         ELSE LET t == Head(list) IN
              /\ list' = Tail(list)
              /\ cur' = t
              /\ CASE "RUN" \notin state[t] /\ "SCHED" \in state[t] ->
                        dpc' = "func" /\ state' = [state EXCEPT ![t] = {"RUN"}]
                   [] "RUN" \notin state[t] ->
                        dpc' = "bug" /\ UNCHANGED state
                   [] OTHER ->
                        dpc' = "requeue" /\ UNCHANGED state
    /\ UNCHANGED <<softirq_pending, softirq_sem, tasklet_vec, count, pending,
                   retries, h, dread, threadVars>>

\* Mutant of TakeTasklet: SCHED is tested, not cleared, before the run.
TakeTaskletKeepingSched ==
    /\ dpc = "item"
    /\ IF list = <<>>
         THEN dpc' = "next" /\ UNCHANGED <<state, list, cur>>
         ELSE LET t == Head(list) IN
              /\ list' = Tail(list)
              /\ cur' = t
              /\ CASE "RUN" \notin state[t] /\ count[t] = 0 /\ "SCHED" \in state[t] ->
                        dpc' = "func" /\ state' = [state EXCEPT ![t] = @ \cup {"RUN"}]
                   [] "RUN" \notin state[t] /\ count[t] = 0 ->
                        dpc' = "bug" /\ UNCHANGED state
                   [] OTHER ->
                        dpc' = "requeue" /\ UNCHANGED state
    /\ UNCHANGED <<softirq_pending, softirq_sem, tasklet_vec, count, pending,
                   retries, h, dread, threadVars>>

\* One element of the detached list: tasklet_trylock, the disable count and
\* test_and_clear_bit(SCHED) (BUG() if it was clear); a locked or disabled
\* tasklet goes to the re-queue path.  An empty list ends the action.
TakeTasklet ==
    /\ dpc = "item"
    /\ IF list = <<>>
         THEN dpc' = "next" /\ UNCHANGED <<state, list, cur>>
         ELSE LET t == Head(list) IN
              /\ list' = Tail(list)
              /\ cur' = t
              /\ CASE "RUN" \notin state[t] /\ count[t] = 0 /\ "SCHED" \in state[t] ->
                        dpc' = "func" /\ state' = [state EXCEPT ![t] = {"RUN"}]
                   [] "RUN" \notin state[t] /\ count[t] = 0 ->
                        dpc' = "bug" /\ UNCHANGED state
                   [] OTHER ->
                        dpc' = "requeue" /\ UNCHANGED state
    /\ UNCHANGED <<softirq_pending, softirq_sem, tasklet_vec, count, pending,
                   retries, h, dread, threadVars>>

\* t->func(t->data) has run; tasklet_unlock(t).
RunFunc ==
    /\ DGoto("func", "item")
    /\ state' = [state EXCEPT ![cur] = @ \ {"RUN"}]
    /\ UNCHANGED <<softirq_pending, softirq_sem, tasklet_vec, count, pending,
                   retries, h, list, cur, dread, threadVars>>

\* Re-queue at the head under the list lock and read the mask for the raise.
Requeue ==
    /\ DGoto("requeue", "rq_or")
    /\ tasklet_vec' = [tasklet_vec EXCEPT ![h] = Cons(cur, @)]
    /\ dread' = softirq_pending
    /\ UNCHANGED <<softirq_pending, softirq_sem, state, count, pending,
                   retries, h, list, cur, threadVars>>

\* Mutant of RequeueRaise: the re-queue path does not raise the softirq.
RequeueWithoutRaise ==
    /\ DGoto("rq_or", "rq_up")
    /\ dread' = {}
    /\ UNCHANGED <<softirq_pending, softirq_sem, tasklet_vec, state, count,
                   pending, retries, h, list, cur, threadVars>>

\* The store of or_softirq_pending, from the value read before.
RequeueRaise ==
    /\ DGoto("rq_or", "rq_up")
    /\ softirq_pending' = dread \cup {h}
    /\ dread' = {}  \* the local is dead
    /\ UNCHANGED <<softirq_sem, tasklet_vec, state, count, pending,
                   retries, h, list, cur, threadVars>>

\* dde_kit_sem_up(softirq_sem), then the list lock is released.
RequeueWake ==
    /\ DGoto("rq_up", "item")
    /\ softirq_sem' = softirq_sem + 1
    /\ UNCHANGED <<softirq_pending, tasklet_vec, state, count, pending,
                   retries, h, list, cur, dread, threadVars>>

Daemon == SemDown \/ DoSoftirq \/ Snapshot \/ ResetPending \/ NextSoftirq
          \/ Detach \/ TakeTasklet \/ RunFunc \/ Requeue \/ RequeueRaise
          \/ RequeueWake

-----------------------------------------------------------------------------
(***************************************************************************)
(* Driver threads: the tasklet API.                                        *)
(***************************************************************************)
TGoto(p, from, to) == pc[p] = from /\ pc' = [pc EXCEPT ![p] = to]

\* A new call of the drivers, within the MaxCalls bound.  tasklet_enable,
\* which ends a disable section, is not counted.
Call == calls < MaxCalls /\ calls' = calls + 1

\* Mutant of TaskletSchedule: __tasklet_schedule called without the gate.
TaskletScheduleUngated(p, t, n) ==
    /\ pc[p] = "idle"
    /\ Call
    /\ arg' = [arg EXCEPT ![p] = t]
    /\ nr' = [nr EXCEPT ![p] = n]
    /\ state' = [state EXCEPT ![t] = @ \cup {"SCHED"}]
    /\ pc' = [pc EXCEPT ![p] = "enqueue"]
    /\ UNCHANGED <<softirq_pending, softirq_sem, tasklet_vec, count,
                   daemonVars, tread, holds>>

\* tasklet_schedule / tasklet_hi_schedule: test_and_set_bit(SCHED); only a
\* tasklet that was not scheduled goes on to __tasklet_schedule.
TaskletSchedule(p, t, n) ==
    /\ pc[p] = "idle"
    /\ Call
    /\ arg' = [arg EXCEPT ![p] = t]
    /\ nr' = [nr EXCEPT ![p] = n]
    /\ state' = [state EXCEPT ![t] = @ \cup {"SCHED"}]
    /\ pc' = [pc EXCEPT ![p] = IF "SCHED" \in state[t] THEN "idle" ELSE "enqueue"]
    /\ UNCHANGED <<softirq_pending, softirq_sem, tasklet_vec, count,
                   daemonVars, tread, holds>>

\* __tasklet_enqueue: push at the head under the list lock.
TaskletEnqueue(p) ==
    /\ TGoto(p, "enqueue", "or_read")
    /\ ~LockedByDaemon(nr[p])
    /\ tasklet_vec' = [tasklet_vec EXCEPT ![nr[p]] = Cons(arg[p], @)]
    /\ UNCHANGED <<softirq_pending, softirq_sem, state, count, daemonVars,
                   arg, nr, tread, holds, calls>>

\* raise_softirq_irqoff_cpu: __raise_softirq_irqoff reads the mask ...
RaiseRead(p) ==
    /\ TGoto(p, "or_read", "or_write")
    /\ tread' = [tread EXCEPT ![p] = softirq_pending]
    /\ UNCHANGED <<softirq_pending, softirq_sem, tasklet_vec, state, count,
                   daemonVars, arg, nr, holds, calls>>

\* ... stores the value read with the bit set ...
RaiseWrite(p) ==
    /\ TGoto(p, "or_write", "sem_up")
    /\ softirq_pending' = tread[p] \cup {nr[p]}
    /\ tread' = [tread EXCEPT ![p] = {}]  \* the local is dead
    /\ UNCHANGED <<softirq_sem, tasklet_vec, state, count, daemonVars,
                   arg, nr, holds, calls>>

\* ... and wakes the daemon: dde_kit_sem_up(softirq_sem).
RaiseWake(p) ==
    /\ TGoto(p, "sem_up", "idle")
    /\ softirq_sem' = softirq_sem + 1
    /\ UNCHANGED <<softirq_pending, tasklet_vec, state, count, daemonVars,
                   arg, nr, tread, holds, calls>>

\* tasklet_kill(t).  A caller does not kill a tasklet it holds disabled:
\* that waits for itself.
TaskletKill(p, t) ==
    /\ pc[p] = "idle"
    /\ holds[p] = {}
    /\ Call
    /\ pc' = [pc EXCEPT ![p] = "kill_tas"]
    /\ arg' = [arg EXCEPT ![p] = t]
    /\ UNCHANGED <<softirq_pending, softirq_sem, tasklet_vec, state, count,
                   daemonVars, nr, tread, holds>>

\* Mutant of KillTestAndSet: no wait for a scheduled tasklet.
KillWithoutLoop(p) ==
    /\ TGoto(p, "kill_tas", "kill_unlock_wait")
    /\ state' = [state EXCEPT ![arg[p]] = @ \cup {"SCHED"}]
    /\ UNCHANGED <<softirq_pending, softirq_sem, tasklet_vec, count,
                   daemonVars, arg, nr, tread, holds, calls>>

\* while (test_and_set_bit(TASKLET_STATE_SCHED, &t->state)) ...
KillTestAndSet(p) ==
    /\ pc[p] = "kill_tas"
    /\ state' = [state EXCEPT ![arg[p]] = @ \cup {"SCHED"}]
    /\ pc' = [pc EXCEPT ![p] = IF "SCHED" \in state[arg[p]]
                                 THEN "kill_yield" ELSE "kill_unlock_wait"]
    /\ UNCHANGED <<softirq_pending, softirq_sem, tasklet_vec, count,
                   daemonVars, arg, nr, tread, holds, calls>>

\* ... do yield(); while (test_bit(TASKLET_STATE_SCHED, &t->state));
KillYield(p) ==
    /\ TGoto(p, "kill_yield", "kill_tas")
    /\ "SCHED" \notin state[arg[p]]
    /\ UNCHANGED <<softirq_pending, softirq_sem, tasklet_vec, state, count,
                   daemonVars, arg, nr, tread, holds, calls>>

\* Mutant of KillUnlockWait: tasklet_unlock_wait left out.
KillNoUnlockWait(p) ==
    /\ TGoto(p, "kill_unlock_wait", "kill_clear")
    /\ UNCHANGED <<softirq_pending, softirq_sem, tasklet_vec, state, count,
                   daemonVars, arg, nr, tread, holds, calls>>

\* tasklet_unlock_wait(t): spin while RUN is set.
KillUnlockWait(p) ==
    /\ TGoto(p, "kill_unlock_wait", "kill_clear")
    /\ "RUN" \notin state[arg[p]]
    /\ UNCHANGED <<softirq_pending, softirq_sem, tasklet_vec, state, count,
                   daemonVars, arg, nr, tread, holds, calls>>

\* Mutant of KillClear: SCHED is never released.
KillKeepsSched(p) ==
    /\ TGoto(p, "kill_clear", "idle")
    /\ UNCHANGED <<softirq_pending, softirq_sem, tasklet_vec, state, count,
                   daemonVars, arg, nr, tread, holds, calls>>

\* clear_bit(TASKLET_STATE_SCHED, &t->state).
KillClear(p) ==
    /\ TGoto(p, "kill_clear", "idle")
    /\ state' = [state EXCEPT ![arg[p]] = @ \ {"SCHED"}]
    /\ UNCHANGED <<softirq_pending, softirq_sem, tasklet_vec, count,
                   daemonVars, arg, nr, tread, holds, calls>>

\* tasklet_disable: atomic_inc(&t->count) (tasklet_disable_nosync) ...
TaskletDisable(p, t) ==
    /\ pc[p] = "idle"
    /\ t \notin holds[p]
    /\ Call
    /\ count' = [count EXCEPT ![t] = @ + 1]
    /\ pc' = [pc EXCEPT ![p] = "dis_unlock_wait"]
    /\ arg' = [arg EXCEPT ![p] = t]
    /\ UNCHANGED <<softirq_pending, softirq_sem, tasklet_vec, state,
                   daemonVars, nr, tread, holds>>

\* ... then tasklet_unlock_wait(t): on return t is disabled and not running.
DisableUnlockWait(p) ==
    /\ TGoto(p, "dis_unlock_wait", "idle")
    /\ "RUN" \notin state[arg[p]]
    /\ holds' = [holds EXCEPT ![p] = @ \cup {arg[p]}]
    /\ UNCHANGED <<softirq_pending, softirq_sem, tasklet_vec, state, count,
                   daemonVars, arg, nr, tread, calls>>

\* Mutant of TaskletEnable: an enable without a matching disable.
TaskletEnableUnbalanced(p, t) ==
    /\ pc[p] = "idle"
    /\ count' = [count EXCEPT ![t] = @ - 1]
    /\ holds' = [holds EXCEPT ![p] = @ \ {t}]
    /\ UNCHANGED <<softirq_pending, softirq_sem, tasklet_vec, state,
                   daemonVars, pc, arg, nr, tread, calls>>

\* tasklet_enable: atomic_dec(&t->count), by the thread that disabled t.
TaskletEnable(p, t) ==
    /\ pc[p] = "idle"
    /\ t \in holds[p]
    /\ count' = [count EXCEPT ![t] = @ - 1]
    /\ holds' = [holds EXCEPT ![p] = @ \ {t}]
    /\ UNCHANGED <<softirq_pending, softirq_sem, tasklet_vec, state,
                   daemonVars, pc, arg, nr, tread, calls>>

\* The steps of a call already under way.
ThreadStep(p) ==
    \/ TaskletEnqueue(p) \/ RaiseRead(p) \/ RaiseWrite(p) \/ RaiseWake(p)
    \/ KillTestAndSet(p) \/ KillYield(p) \/ KillUnlockWait(p) \/ KillClear(p)
    \/ DisableUnlockWait(p)

\* A call a driver may make at any time.
ThreadCall(p) ==
    \E t \in Tasklets :
        \/ \E n \in Nrs : TaskletSchedule(p, t, n)
        \/ TaskletKill(p, t)
        \/ TaskletDisable(p, t)
        \/ TaskletEnable(p, t)

Next ==
    \/ Daemon
    \/ \E p \in Threads : ThreadStep(p) \/ ThreadCall(p)

(***************************************************************************)
(* Fairness.  The daemon and every call under way are host threads that   *)
(* the host scheduler keeps running: weak fairness.  A busy-wait of        *)
(* tasklet_kill or tasklet_disable only needs its condition to stay true.  *)
(* A driver may stop making calls, but one holding a tasklet disabled      *)
(* enables it again at some point (the drivers' disable sections are       *)
(* bounded).                                                               *)
(***************************************************************************)
Fairness ==
    /\ WF_vars(Daemon)
    /\ \A p \in Threads : WF_vars(ThreadStep(p))
    /\ \A p \in Threads, t \in Tasklets : WF_vars(TaskletEnable(p, t))

Spec == Init /\ [][Next]_vars /\ Fairness

-----------------------------------------------------------------------------
(***************************************************************************)
(* Properties.                                                             *)
(***************************************************************************)
TypeOK ==
    /\ softirq_pending \subseteq SoftirqNrs
    /\ softirq_sem \in Nat
    /\ tasklet_vec \in [SoftirqNrs -> Seq(Tasklets)]
    /\ state \in [Tasklets -> SUBSET {"SCHED", "RUN"}]
    /\ count \in [Tasklets -> Nat]
    /\ dpc \in DaemonPCs /\ pending \subseteq SoftirqNrs
    /\ retries \in 0..MAX_SOFTIRQ_RETRIES /\ h \in SoftirqNrs
    /\ list \in Seq(Tasklets) /\ cur \in Tasklets /\ dread \subseteq SoftirqNrs
    /\ pc \in [Threads -> ThreadPCs] /\ arg \in [Threads -> Tasklets]
    /\ nr \in [Threads -> Nrs] /\ tread \in [Threads -> SUBSET SoftirqNrs]
    /\ holds \in [Threads -> SUBSET Tasklets]
    /\ calls \in 0..MaxCalls

\* The BUG() of tasklet_action / tasklet_hi_action never fires: a tasklet
\* the daemon takes off a detached list to run still has SCHED set.
NoBUG == dpc # "bug"

\* The tasklet lists are intrusive (t->next): a tasklet is on at most one
\* of tasklet_vec, tasklet_hi_vec and the daemon's detached list, once.
ListsIntact == \A t \in Tasklets : Occurrences(t) <= 1

\* Once tasklet_disable(t) has returned, t->func does not run until the
\* thread calls tasklet_enable(t).
DisabledNotRunning ==
    \A p \in Threads : dpc = "func" => cur \notin holds[p]

\* When tasklet_kill(t) releases SCHED, t is on no list and not running.
KillQuiesces ==
    \A p \in Threads :
        pc[p] = "kill_clear" => ~Queued(arg[p]) /\ "RUN" \notin state[arg[p]]

\* A tasklet on a list is taken off it by the daemon (run, or found
\* disabled): tasklet_schedule leads to a run unless the tasklet is disabled.
QueuedEventuallyServed ==
    \A t \in Tasklets : Queued(t) ~> (~Queued(t) \/ count[t] > 0)

\* Every tasklet_kill call returns.
KillReturns ==
    \A p \in Threads : pc[p] = "kill_tas" ~> pc[p] = "idle"

\* tasklet_kill owns SCHED from its successful test_and_set_bit until its
\* clear_bit: a tasklet_schedule in between finds SCHED set and does nothing.
KillOwnsSched(t) ==
    \E p \in Threads : pc[p] \in {"kill_unlock_wait", "kill_clear"} /\ arg[p] = t

\* The engine seen as the abstract tasklets of module Tasklet: a run is owed
\* while SCHED is set by a tasklet_schedule, t runs while RUN is set, and
\* the disable count is t->count.
Abstract == INSTANCE Tasklet WITH
    owed <- [t \in Tasklets |-> "SCHED" \in state[t] /\ ~KillOwnsSched(t)],
    running <- [t \in Tasklets |-> "RUN" \in state[t]],
    disabled <- count

\* tasklet_schedule, tasklet_action / tasklet_hi_action (with their re-queue
\* of a disabled tasklet), tasklet_disable, tasklet_enable and tasklet_kill
\* together behave as the abstract tasklet: every run of t->func pays for
\* exactly one tasklet_schedule made since the last run began, never starts
\* while t runs or is disabled, and no step drops an owed run except a
\* run.
TaskletSafe == Abstract!Safe

\* ... and, for drivers that schedule on one softirq class, an owed run of
\* an enabled tasklet is made and every run of t->func ends.
TaskletLive == Abstract!Spec

=============================================================================
