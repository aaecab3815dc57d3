------------------------------- MODULE Sched -------------------------------
(***************************************************************************)
(* The scheduler shim of DDE Linux 2.6                                     *)
(* (src/src/lib/dde_linux26/arch/dde_kit/sched.c).                         *)
(*                                                                         *)
(* A task sleeps by setting current->state to TASK_(UN)INTERRUPTIBLE and   *)
(* calling schedule(), which downs the task's sleep semaphore SLEEP_LOCK   *)
(* (created at 0 by init_dde_linux26_thread); in TASK_RUNNING schedule()   *)
(* only yields.  try_to_wake_up, behind wake_up_process and every wait     *)
(* queue wake-up, sets the state to TASK_RUNNING and ups the semaphore,    *)
(* whatever the state was.  schedule_timeout arms an on-stack timer whose  *)
(* function process_timeout wakes the task, calls schedule(), deletes the  *)
(* timer and returns the time left.                                        *)
(*                                                                         *)
(* One driver task alternates between the two ways drivers sleep: the      *)
(* wait_event loop of linux/wait.h (sleep until a condition holds) and a   *)
(* delay schedule_timeout_(un)interruptible(n).  A second thread makes the *)
(* condition true and wakes the task; the dde_kit timer thread fires the   *)
(* timeout.  The timer is reduced to what schedule_timeout needs of it;    *)
(* module Timer checks the timer API itself.                               *)
(***************************************************************************)
EXTENDS Naturals

CONSTANTS
    MaxEpisodes,   \* bound: sleeps (waits and delays) the task makes
    MaxWakes       \* bound: events the waker signals

ASSUME MaxEpisodes \in Nat /\ MaxWakes \in Nat

States == {"TASK_RUNNING", "TASK_INTERRUPTIBLE", "TASK_UNINTERRUPTIBLE"}

VARIABLES
    state,        \* current->state of the task
    sleep_lock,   \* count of the task's SLEEP_LOCK semaphore
    cond,         \* the condition the task's wait_event waits for
    tpc,          \* the task's program counter
    episodes,     \* sleeps started so far
    timer,        \* schedule_timeout's timer is on the dde_kit list
    wpc,          \* the waker's program counter
    wakes,        \* events signalled so far
    kpc,          \* the dde_kit timer thread running process_timeout
    \* history of the current delay
    delayWoken    \* the waker woke the task during this delay

vars == <<state, sleep_lock, cond, tpc, episodes, timer, wpc, wakes, kpc,
          delayWoken>>

TaskPCs == {"idle", "w_set", "w_check", "w_sched", "w_down", "w_done",
            "d_add", "d_sched", "d_down", "d_del"}

\* The task is inside schedule_timeout between add_timer and del_timer.
InDelay == tpc \in {"d_add", "d_sched", "d_down"}

Init ==
    /\ state = "TASK_RUNNING"
    /\ sleep_lock = 0
    /\ cond = FALSE
    /\ tpc = "idle" /\ episodes = 0
    /\ timer = FALSE
    /\ wpc = "idle" /\ wakes = 0
    /\ kpc = "idle"
    /\ delayWoken = FALSE

TGoto(from, to) == tpc = from /\ tpc' = to

-----------------------------------------------------------------------------
(* schedule() (sched.c 20-35), from the point where it reads the state.    *)
(* TASK_RUNNING: dde_kit_thread_schedule, a yield; otherwise block in      *)
(* dde_kit_sem_down(SLEEP_LOCK) until the count is positive.               *)
Schedule(from, down, after) ==
    /\ tpc = from
    /\ tpc' = IF state = "TASK_RUNNING" THEN after ELSE down
    /\ UNCHANGED <<state, sleep_lock, cond, episodes, timer, wpc, wakes, kpc,
                   delayWoken>>

\* A down that does not wait for the count to be positive.
SemDownNoWait(from, after) ==
    /\ tpc = from
    /\ sleep_lock' = sleep_lock - 1
    /\ tpc' = after
    /\ UNCHANGED <<state, cond, episodes, timer, wpc, wakes, kpc, delayWoken>>

SemDown(from, after) ==
    /\ tpc = from /\ sleep_lock > 0
    /\ sleep_lock' = sleep_lock - 1
    /\ tpc' = after
    /\ UNCHANGED <<state, cond, episodes, timer, wpc, wakes, kpc, delayWoken>>

-----------------------------------------------------------------------------
(* The wait_event loop of linux/wait.h: set the state, test the condition, *)
(* schedule, repeat; the state is set back to TASK_RUNNING at the end.     *)
(* The task consumes the event it waited for.                              *)
WaitEvent ==
    /\ tpc = "idle" /\ episodes < MaxEpisodes
    /\ episodes' = episodes + 1
    /\ tpc' = "w_set"
    /\ UNCHANGED <<state, sleep_lock, cond, timer, wpc, wakes, kpc, delayWoken>>

WaitSetState ==
    /\ TGoto("w_set", "w_check")
    /\ state' = "TASK_UNINTERRUPTIBLE"
    /\ UNCHANGED <<sleep_lock, cond, episodes, timer, wpc, wakes, kpc, delayWoken>>

WaitCheck ==
    /\ tpc = "w_check"
    /\ tpc' = IF cond THEN "w_done" ELSE "w_sched"
    /\ UNCHANGED <<state, sleep_lock, cond, episodes, timer, wpc, wakes, kpc,
                   delayWoken>>

WaitSchedule == Schedule("w_sched", "w_down", "w_set")
WaitDown == SemDown("w_down", "w_set")

WaitDone ==
    /\ TGoto("w_done", "idle")
    /\ state' = "TASK_RUNNING"
    /\ cond' = FALSE
    /\ UNCHANGED <<sleep_lock, episodes, timer, wpc, wakes, kpc, delayWoken>>

-----------------------------------------------------------------------------
(* schedule_timeout_uninterruptible (sched.c 98-102),                     *)
(* schedule_timeout_interruptible (91-95) and schedule_timeout (73-88).    *)
(* The two wrappers differ only in the state they store, which the shim's  *)
(* schedule() and try_to_wake_up treat alike.  The timer is a new one on   *)
(* the stack of each call.                                                 *)
StartDelay(st) ==
    /\ tpc = "idle" /\ episodes < MaxEpisodes
    /\ episodes' = episodes + 1
    /\ state' = st
    /\ tpc' = "d_add"
    /\ delayWoken' = FALSE
    /\ UNCHANGED <<sleep_lock, cond, timer, wpc, wakes, kpc>>

Delay == StartDelay("TASK_UNINTERRUPTIBLE")

\* Also msleep_interruptible (timer.c 142-147), which is this call.
DelayInterruptible == StartDelay("TASK_INTERRUPTIBLE")

\* schedule_timeout without its timer: the task sleeps with nothing to
\* wake it but the waker.
DelayAddTimerDropped ==
    /\ TGoto("d_add", "d_sched")
    /\ UNCHANGED <<state, sleep_lock, cond, episodes, timer, wpc, wakes, kpc,
                   delayWoken>>

\* sched.c 78-81: set up and add the timer.
DelayAddTimer ==
    /\ TGoto("d_add", "d_sched")
    /\ timer' = TRUE
    /\ UNCHANGED <<state, sleep_lock, cond, episodes, wpc, wakes, kpc, delayWoken>>

DelaySchedule == Schedule("d_sched", "d_down", "d_del")
DelayDown == SemDown("d_down", "d_del")

\* sched.c 83-87: del_timer and return.  A timer the timer thread has
\* already taken off its list, whose process_timeout has not run yet, is
\* beyond del_timer's reach.
DelayDelTimer ==
    /\ TGoto("d_del", "idle")
    /\ timer' = FALSE
    /\ UNCHANGED <<state, sleep_lock, cond, episodes, wpc, wakes, kpc, delayWoken>>

-----------------------------------------------------------------------------
(* try_to_wake_up (sched.c 56-64): two steps, the state store and the      *)
(* semaphore up.  The waker reaches it through the wait queue's wake_up,  *)
(* process_timeout through wake_up_process from the timer                 *)
(* thread.                                                                 *)

Queued == {"w_set", "w_check", "w_sched", "w_down", "w_done"}
TtwuState(pcv, from, to) ==
    /\ pcv = from
    /\ state' = "TASK_RUNNING"
    /\ to

\* try_to_wake_up that changes the state but never ups the semaphore.
TtwuUpDropped(pcv, from, to) ==
    /\ pcv = from
    /\ to
    /\ UNCHANGED sleep_lock

TtwuUp(pcv, from, to) ==
    /\ pcv = from
    /\ sleep_lock' = sleep_lock + 1
    /\ to

\* The waker makes the event true and calls wake_up on the wait queue,
\* which goes on to try_to_wake_up only if the task is queued on it
\* (between prepare_to_wait and finish_wait).
Signal ==
    /\ wpc = "idle" /\ wakes < MaxWakes /\ ~cond
    /\ wakes' = wakes + 1
    /\ cond' = TRUE
    /\ wpc' = IF tpc \in Queued THEN "state" ELSE "idle"
    /\ UNCHANGED <<state, sleep_lock, tpc, episodes, timer, kpc, delayWoken>>

WakerState ==
    /\ TtwuState(wpc, "state", wpc' = "up")
    /\ delayWoken' = (delayWoken \/ InDelay)
    /\ UNCHANGED <<sleep_lock, cond, tpc, episodes, timer, wakes, kpc>>

WakerUp ==
    /\ TtwuUp(wpc, "up", wpc' = "idle")
    /\ delayWoken' = (delayWoken \/ InDelay)
    /\ UNCHANGED <<state, cond, tpc, episodes, timer, wakes, kpc>>

\* The dde_kit timer thread takes the expired timer off its list, then runs
\* process_timeout (sched.c 67-70), which is wake_up_process.
TimerExpire ==
    /\ timer /\ kpc = "idle"
    /\ timer' = FALSE
    /\ kpc' = "state"
    /\ UNCHANGED <<state, sleep_lock, cond, tpc, episodes, wpc, wakes, delayWoken>>

TimeoutState ==
    /\ TtwuState(kpc, "state", kpc' = "up")
    /\ UNCHANGED <<sleep_lock, cond, tpc, episodes, timer, wpc, wakes, delayWoken>>

TimeoutUp ==
    /\ TtwuUp(kpc, "up", kpc' = "idle")
    /\ UNCHANGED <<state, cond, tpc, episodes, timer, wpc, wakes, delayWoken>>

-----------------------------------------------------------------------------
TaskStep ==
    \/ WaitSetState \/ WaitCheck \/ WaitSchedule \/ WaitDown \/ WaitDone
    \/ DelayAddTimer \/ DelaySchedule \/ DelayDown \/ DelayDelTimer

WakerStep == WakerState \/ WakerUp
TimerStep == TimerExpire \/ TimeoutState \/ TimeoutUp

Next == WaitEvent \/ Delay \/ DelayInterruptible \/ TaskStep \/ Signal \/ WakerStep \/ TimerStep

\* Host threads that can run are eventually scheduled, and the dde_kit
\* fires an armed timer eventually.  Starting a sleep or signalling an
\* event is the drivers' choice and is not forced.
Fairness == WF_vars(TaskStep) /\ WF_vars(WakerStep) /\ WF_vars(TimerStep)

Spec == Init /\ [][Next]_vars /\ Fairness

-----------------------------------------------------------------------------
TypeOK ==
    /\ state \in States /\ sleep_lock \in Nat /\ cond \in BOOLEAN
    /\ tpc \in TaskPCs /\ episodes \in 0..MaxEpisodes
    /\ timer \in BOOLEAN
    /\ wpc \in {"idle", "state", "up"} /\ wakes \in 0..MaxWakes
    /\ kpc \in {"idle", "state", "up"} /\ delayWoken \in BOOLEAN

\* A wake_up issued for an event the task waits for is never lost: once
\* the event is signalled and the task is in its wait_event loop, the loop
\* ends (sched.c schedule/try_to_wake_up).
WakeNotLost == (cond /\ tpc \in {"w_set", "w_check", "w_sched", "w_down"}) ~> (tpc = "w_done")

\* Every schedule_timeout returns: its timer, or a wake-up, ends the sleep.
DelayEnds == (tpc = "d_sched") ~> (tpc = "idle")

\* schedule_timeout returns before its timer fired only when the waker
\* woke the task during the delay: neither a wake-up meant for an earlier
\* wait nor the late process_timeout of an earlier delay cuts it short.
DelayHonoured == (tpc = "d_del") => (~timer \/ delayWoken)

====
