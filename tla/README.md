# TLA+ models of the DDE Linux 2.6 compatibility core

This directory holds TLA+ models of the DDE Linux 2.6 library in
`src/src/lib/dde_linux26/arch/dde_kit/`. The library runs unmodified Linux 2.6
drivers as ordinary threads on the Genode/DDE kit. Each module is written
from the C source. Where a Linux header inline is not in this repository
(`tasklet_schedule`, `tasklet_disable`, `tasklet_enable`, `tasklet_trylock`,
`tasklet_unlock_wait`), it is modelled from its Linux 2.6 definition and the
map marks it `spec_modelled`.

## 1. Inventory

### Parts of the system and how they interact

| Part | Source | State | Operations | Concurrency |
|---|---|---|---|---|
| Softirq / tasklet engine | `softirq.c` | `__softirq_pending` mask (no lock); `softirq_sem`; `tasklet_vec` and `tasklet_hi_vec` (intrusive head-insert lists, each behind a dde_kit lock); per tasklet `state` bits SCHED/RUN and the disable `count` | `raise_softirq(_irqoff)`, `__tasklet_schedule`, `__tasklet_hi_schedule`, `tasklet_kill`, `tasklet_init`; daemon: `dde_linux26_softirq_thread`, `do_softirq`, `__do_softirq`, `tasklet_action`, `tasklet_hi_action`; `dde_linux26_raise_softirq`; `dde_linux26_softirq_init` | one daemon thread against every driver, IRQ and kernel thread |
| Interrupt dispatch | `irq.c` | `used_irqs` list of descriptors, each with `count`, `shared` and an `action` chain | `request_irq` → `claim_irq`, `free_irq` → `release_irq` (unimplemented), `disable_irq`, `enable_irq`; `irq_handler` on the per-IRQ dde_kit thread | one thread per attached IRQ, plus the callers of `request_irq`; the list has no lock (`FIXME list locking`) |
| Timer service | `timer.c` | `timer->dde_kit_timer` handle per `timer_list`; the alarms themselves live in the dde_kit | `add_timer`, `del_timer`, `del_timer_sync`, `__mod_timer`/`mod_timer`, `timer_pending`, `msleep(_interruptible)` | the dde_kit timer thread runs `timer->function` asynchronously |
| Scheduler shim | `sched.c` | `current->state`; the per-thread sleep semaphore `SLEEP_LOCK` | `schedule`, `yield`, `try_to_wake_up`, `schedule_timeout(_(un)interruptible)` | any thread can wake any other; timers wake sleepers |
| Thread and PID registry | `process.c`, `init_task.c` | `_pid_task_list` (locked), per-thread `dde_linux26_thread_data` | `attach_pid`, `detach_pid`, `find_task_by_pid_type`, `kernel_thread` / `__kthread_helper`, `do_exit`, `dde_linux26_process_add_worker`, `dde_linux26_process_from_dde_kit` | every thread registers itself; any thread looks ids up |
| Audio-out front end | `src/src/drivers/audio_out/main.cc` | `channel_acquired[LEFT, RIGHT]`, the semaphore `channel_sema`, one packet stream per session | `Root_policy::aquire`, `_create_session`, `~Session_component`, `flush`; the playback thread `Root::entry` | the entrypoint thread against the playback thread; clients submit packets |
| ALSA device table | `src/src/drivers/audio_out/dde.c` | `alsa_devices[MAX_DEVICES]`: name, descriptor and ALSA file of each device that opened | `dde_linux26_audio_init_devices`; the POSIX emulation `open`, `access`, `fcntl`, `ioctl` via `get_dev_by_name` / `get_dev_by_fd` | filled once at driver start-up, read afterwards by alsa-lib |
| Initialisation | `init.c` | none | `dde_linux26_init` calls the subsystem inits in sequence | single-threaded |
| Memory, resources, PCI, inodes, evdev, net, SCSI, USB, printk, stubs | the other files | wrappers over dde_kit and Genode | — | through the parts above |

The parts interact in this way:
- An interrupt thread runs `irq_handler`. The handler calls the driver's handlers, which typically `tasklet_schedule`. The schedule queues the tasklet, sets a pending bit and posts `softirq_sem`.
- The softirq daemon wakes on `softirq_sem` and drains the pending classes.
- Timers fire on the dde_kit timer thread and call driver functions. Those functions may schedule tasklets too, or wake sleepers via `process_timeout` → `wake_up_process` → `try_to_wake_up`.
- Every thread that runs Linux code is a task: `dde_linux26_process_add_worker` (or `dde_linux26_process_from_dde_kit`) gives it a task struct and a sleep semaphore and attaches its id; `do_exit` detaches it.
- The audio-out driver is one of the library's users. Its entrypoint creates and destroys sessions while its playback thread, adopted as a task, feeds ALSA. The spec counts drivers as collaborators of the core; this one is modelled for its own thread protocol. At start-up it scans the ALSA devices into its table and opens card 0's first playback pcm through that table. It accepts sessions only when that succeeded.

### The behaviours that make this code hard
- `__softirq_pending` is written by every thread with a plain read-modify-write (`or_softirq_pending`, `softirq.c:45`). The daemon reads it and then clears it as two steps (`softirq.c:209-212`). `local_irq_save` excludes nothing here: the other host threads keep running.
- Tasklets follow a multi-bit protocol: SCHED gates queuing, RUN is the run lock, and `count` is the disable count. A disabled tasklet is requeued and re-raised on every pass (`softirq.c:157-161`).
- `tasklet_kill` busy-waits on SCHED with `yield`, then on RUN.
- `claim_irq` walks and extends an unlocked list. Its error path frees a descriptor that is still linked (`irq.c:93-106`).
- `add_timer` overwrites a live handle (`timer.c:62`). `del_timer` tests and then deletes (`timer.c:80-83`).
- The sleep semaphore counts wake-ups, not states (`sched.c:30`, `sched.c:61`).

### Properties each part should have
- **Softirq/tasklet:** never BUG() in `tasklet_action`; a tasklet is on at most one list, once; a disabled tasklet does not run; `tasklet_kill` returns only when the tasklet is idle and unqueued; every queued enabled tasklet eventually runs; every `tasklet_kill` returns.
- **Irq:** one descriptor per IRQ number; an exclusive IRQ has at most one action; each registered handler is called on each interrupt; no freed descriptor remains on `used_irqs`.
- **Timer:** a timer function runs at most once per `add_timer` and never after `del_timer` returned; `timer_pending` agrees with the dde_kit.
- **Sched:** a sleeping task is woken only by a `wake_up` after it went to sleep, or by its timeout; `schedule_timeout` returns.
- **Process:** `find_task_by_pid_type` never returns a task that has been detached; a lookup answers as the registry stood at one instant of the call.
- **Audio:** the playback thread never uses a session that is NULL or destroyed; closing a session returns.

`PROJECT.json` lists every part with its status, and every hazard at its source line.

## 2. Plan

The modules, in order of importance, and where they stand:
1. **`Softirq`** (done, section 3). The daemon and the tasklet API: every C step that touches shared state is one action.
2. **`Irq`** (done, section 4). `claim_irq`/`request_irq` with the unlocked list and `irq_handler`'s dispatch.
3. **`Timer`** (done, section 5). `add_timer`, `del_timer`, `__mod_timer` and `timer_pending` over an abstract dde_kit alarm set that fires nondeterministically.
4. **`Sched`** (done, section 6). `schedule`, `try_to_wake_up`, `process_timeout` and `schedule_timeout`, with the sleep semaphore as a counter and the timer reduced to on-list or not.
5. **`Process`** and **`PidRegistry`** (done, section 7). The PID registry, a thread's life cycle, and the refinement of the abstract registry.
6. **`Audio`** (done, section 8). The audio-out driver's sessions and playback thread.
   - **`SoundDevices`** (done, section 8). The driver's start-up: the ALSA device scan, composed with `Audio` in `MCAudio`.
7. **`Tasklet`** (done, section 3). The abstract promise of the tasklet API, with `Softirq` shown to implement it.
8. Still to come:
   - **`IrqSoftirq`**, which composes `Irq` with `Softirq`: an IRQ thread's handler calls `TaskletSchedule`, and `irq_handler`'s closing check is `dde_linux26_raise_softirq`.
   - `Sched` composed with the full `Timer`, and a second sleeping task.

Some cases are not kept as runs of their own. They are reproduced by changing one constant of a passing run's cfg; sections 4, 5 and 8 say which.

## 3. The `Softirq` module

### Correspondence with the code
- The daemon's program counter `dpc` walks the code:
  - `down` is `softirq.c:268`;
  - `do_softirq` is lines 237-238;
  - `snap` and `clear` are lines 209 and 212;
  - `next` is the bit loop and retry test at lines 215-227;
  - `detach`, `item`, `func` and `requeue` are `tasklet_action` lines 136-159;
  - `rq_or` and `rq_up` are the raise at line 160, made under the list lock;
  - `bug` is `BUG()` at line 149.
- Local variables of `__do_softirq` and `tasklet_action` (`pending`, `retries`, `h`, `list`, `cur`) are variables of the model.
- `tasklet_action` and `tasklet_hi_action` are the same code on different lists. The model has one set of actions indexed by the class `h`.
- A driver thread is idle or inside one API call:
  - `TaskletSchedule` is the header's `test_and_set_bit(SCHED)`, followed by `__tasklet_schedule` / `__tasklet_hi_schedule`;
  - `TaskletEnqueue` is the locked head insert (lines 98-101);
  - `RaiseRead`, `RaiseWrite` and `RaiseWake` are the non-atomic OR at line 45 and the `sem_up` at line 47;
  - `TaskletKill` … `KillClear` are lines 78-89;
  - `TaskletDisable` and `DisableUnlockWait` are `atomic_inc` + `tasklet_unlock_wait`, and `TaskletEnable` is `atomic_dec`.
- A step is one lock-protected section, one atomic bit operation, or one plain memory access.
- `MaxCalls` bounds the API calls that change state (schedule, kill, disable). Enable is not counted, so a thread can always give back a disable.

### Runs
| Run | cfg | Checks | Result |
|---|---|---|---|
| `softirq_safety` | `MCSoftirq_safety.cfg` | `TypeOK`, `NoBUG`, `ListsIntact`, `DisabledNotRunning`, `KillQuiesces`, `TaskletSafe` | pass: 4.87 M distinct states (under VIEW), about 2 min |
| `softirq_live` | `MCSoftirq_live.cfg` | `KillReturns`, `TaskletLive` | pass: 624 k states, about 1 min 40 s |
| `softirq_lost_raise` | `MCSoftirq_lost_raise.cfg` | `QueuedEventuallyServed` | **violation**, the lost pending bit |

- **`NoBUG`.** `tasklet_action` never finds SCHED clear on a tasklet it detached. This needs `tasklet_kill`'s loop to re-set SCHED before waiting.
- **`ListsIntact`.** No tasklet is on the lists twice. The SCHED gate of `tasklet_schedule` must hold against the daemon's requeue.
- **`DisabledNotRunning`.** The daemon never runs the function of a tasklet that a thread has disabled and not re-enabled. This needs the count check at line 147 and `tasklet_unlock_wait` in `tasklet_disable`.
- **`KillQuiesces`.** When `tasklet_kill` clears SCHED, the tasklet is on no list and not running.
- **`QueuedEventuallyServed`** (checked only by `softirq_lost_raise`). A queued tasklet is eventually run, or disabled.
- **`KillReturns`.** Every `tasklet_kill` returns.
- **`TaskletSafe`** and **`TaskletLive`.** `Softirq` implements the abstract tasklet contract of `Tasklet.tla` (see below): safety in the safety run, safety with its fairness in the liveness run.

### The abstract contract `Tasklet` and the refinement
`Tasklet.tla` states what a driver may rely on, one tasklet at a time, with no lists, no daemon and no pending mask:
- `Schedule(t)` owes the tasklet one run; a second schedule before the run adds nothing;
- `Run(t)` pays what is owed, and only when the tasklet is not running and its disable count is zero; `Finish(t)` ends the run;
- `Disable(t)` and `Enable(t)` move the count;
- under weak fairness of `Run` and `Finish`, an owed run of an enabled tasklet is made and every run ends.

`Softirq` maps onto it (`Abstract == INSTANCE Tasklet WITH ...`):
- `owed[t]` is SCHED in `t->state`, except while a `tasklet_kill` owns that bit (its thread is between re-setting SCHED and clearing it, `softirq.c:84-89`); a schedule that hits the bit then is a no-op in the contract too;
- `running[t]` is RUN in `t->state`;
- `disabled[t]` is `t->count`.

The mapping makes `tasklet_action`'s `tasklet_trylock` with `test_and_clear_bit(SCHED)` (lines 146-148, one step of the model) the abstract `Run`, and the clear of RUN (line 151) the abstract `Finish`. A daemon that kept SCHED while it took the run lock would let a tasklet be run twice for one schedule, and `TaskletSafe` fails; a requeue of a disabled tasklet without the re-raise at line 160 leaves the owed run unmade, and `TaskletLive` fails. The lost pending bit of `softirq_lost_raise` breaks `TaskletLive` in the same way; the liveness run uses a single softirq class, where that race cannot arise.

Each property has a mutant, a plausible bug in the mapped code that TLC catches (see `PROJECT.json` "mutants"):
- schedule without the SCHED gate;
- a kill that does not loop;
- no `unlock_wait` in kill;
- a kill that keeps SCHED;
- a daemon that ignores `count`;
- a requeue without re-raise (for `TaskletLive`);
- an unbalanced enable;
- a daemon that takes the run lock but keeps SCHED (for `TaskletSafe`).

**Finding (`softirq_lost_raise`).**
- The trace:
  1. A thread schedules t1 on `TASKLET_SOFTIRQ` and the daemon is woken.
  2. Another thread queues a tasklet on `HI_SOFTIRQ` and sets bit 0 just after the daemon's snapshot (line 209).
  3. The daemon clears the mask (line 212). The HI bit is gone, though its tasklet is on `tasklet_hi_vec`.
  4. The semaphore token that thread posted is consumed by the daemon's next `down`. That pass finds an empty mask, and `do_softirq` does nothing.
- Result: the tasklet stays queued with SCHED set, so every later `tasklet_hi_schedule` of it is a no-op. Any `tasklet_kill` of it spins forever.
- The same loss happens with the non-atomic OR at line 45 when two threads raise at once.
- With a single class in use (`softirq_live`) the next schedule's raise repairs the mask, and the property holds.

### Bounds and why they are enough
- **Two threads and two tasklets.** That is enough for two racing callers on one tasklet (schedule vs. kill, kill vs. kill, disable vs. daemon) and for two tasklets on one list, which exercises the head insert and the detached list.
- **`MAX_SOFTIRQ_RETRIES = 2`** instead of 10. Two passes give both the "retry" and the "give up" branch of line 227, and each extra pass repeats the same shape.
- **`MaxCalls = 6` for safety, 4 for liveness.** This allows schedule-kill-schedule cycles and a disable/enable pair across both threads.
- **`SemConstraint`** (`softirq_sem <= 3`). It cuts the unbounded semaphore growth caused by requeueing a disabled tasklet (hazard at `softirq.c:160`). Every behaviour with a larger count repeats one with count 3, because the daemon only tests the count for non-zero.
- **State-space reductions.** The safety run uses a VIEW that drops dead locals and thread/tasklet symmetry. The liveness run uses neither, because both are unsound for liveness.

### Fairness
- **Weak fairness on the daemon.** It is a dedicated dde_kit thread that never blocks except on `softirq_sem`.
- **Weak fairness on each thread's steps inside a call.** A host thread that is executing is eventually scheduled.
- **Weak fairness on `TaskletEnable`.** A driver that disables a tasklet enables it again, as the Linux API requires.
- **No fairness on starting new calls.** Drivers call the API when they choose to.

### Deadlock checking
The runs set `CHECK_DEADLOCK FALSE`:
- after the call budget the system rests with the daemon asleep;
- the lost raise can really leave every thread spinning in `tasklet_kill`.

## 4. The `Irq` module

### Correspondence with the code
- `used_irqs` is a sequence of descriptor names from the pool `Descs`, head first. `allocated` is the set `dde_kit_simple_malloc` has handed out and not freed.
- Each descriptor field is a function over `Descs`: `irq`, `shared`, `dcount` (`count`) and `action` (the chain, head first). `attached` is the set of descriptors that have a dde_kit interrupt thread.
- An irqaction's fields `irq` and `flags & SA_SHIRQ` are `aline` and `aflags`. `result` is what `request_irq` returned for it. The ghost `seqno` numbers the `request_irq` calls in order; `Requested` reads it.
- A caller thread's `pc` walks `request_irq` → `claim_irq`:
  - `RequestIrq` is lines 151-168, where the irqaction allocation may fail;
  - `ClaimSearch` is the walk at lines 82-83;
  - `ClaimAlloc` is lines 88-94, including reading `used_irqs` for `irq->next`;
  - `ClaimLink` is line 95;
  - `ClaimAttach` is lines 98-106, where the attach may fail when `AttachCanFail` is set, and the failure frees the descriptor;
  - `ClaimCheck` is line 110;
  - `ClaimAdd` is lines 113-114, the count and the read of the chain head;
  - `ClaimAddLink` is line 115 and the return.
- Nothing in `claim_irq` is locked. Each read and each write of a shared pointer is therefore its own step, and the list walk reads the whole list at once. The walk is a single snapshot because a head-inserted list only grows at the head.
- `SetIrqEnabled` is `disable_irq`, `disable_irq_nosync` and `enable_irq`.
- `IrqHandler(d)` is one interrupt on `d`'s thread: it runs the whole chain (lines 55-56) and records it in `invoked`.
- `free_irq` and `release_irq` only warn, so they are not actions.

### Runs
| Run | cfg | Checks | Result |
|---|---|---|---|
| `irq_claim` | `MCIrq_claim.cfg` | `TypeOK`, `OneDescriptorPerLine`, `ExclusiveClaim` | pass: 198 k states, 5 s |
| `irq_attach_fail` | `MCIrq_attach_fail.cfg` | `HandlerReachable` | **violation** |

- **`irq_claim`.** One driver thread makes three `request_irq` calls over two lines, with any mix of `SA_SHIRQ` flags, allocation failures, attach failures, and `disable_irq`/`enable_irq`. Meanwhile interrupts arrive on every attached line at any time. Drivers request their interrupts from their probe code, one after another.
- **What it shows.**
  - A line has one descriptor, even after a failed attach left a freed descriptor on the list.
  - An exclusive request is alone on the interrupt threads of its line. `ExclusiveClaim` ranges over the descriptors that have an interrupt thread: the freed descriptor of a failed attach keeps the failed claim's `shared` flag and can collect actions, but no thread serves it (that is the finding below).
- **Mutants.** Four mutants are caught:
  - a search that never looks past the head;
  - a search without the set-up branch;
  - a check that ignores the new request's flag;
  - a link that drops the old list.

**Finding (`irq_attach_fail`), a code bug.**
1. `claim_irq` links the new descriptor (line 95) before it attaches.
2. When the attach fails, it frees the descriptor (line 104) without unlinking it.
3. The next `request_irq` for that line finds the freed descriptor, adds its action to it and returns 0.
4. No interrupt thread serves it, so the handler is never called.

**Two concurrent callers.** The spec says the descriptor chain is protected by a lock and that a line has one descriptor. `claim_irq` has no lock ("FIXME list locking"). With `Callers <- TwoCallers` in `MCIrq_claim.cfg`, TLC finds `OneDescriptorPerLine` violated: two threads requesting one line both miss it, and each creates and attaches its own descriptor. The head insert at lines 94-95 can also drop a descriptor of another line from the list. No run keeps this case, because drivers request their interrupts one after another.

### Bounds
- **Three irqactions over two lines.** Enough for a second request on a line whose descriptor lies behind another line's descriptor in the list, which is where a search that only checks the head goes wrong.
- **Three descriptors.** Enough for one more descriptor than there are lines, so a duplicate can actually be allocated.
- **Symmetry** over descriptors and callers. The invariants are safety properties that do not name either.

## 5. The `Timer` module

### Correspondence with the code
- `dde_kit_timer` and `expires` are the two fields of `struct timer_list` that `timer.c` uses.
- The dde_kit timer list is modelled as:
  - `armed`, the set of live alarm handles;
  - `alarm[h]`, the timer and expiry handle `h` was armed with;
  - `used`, the handles given out so far;
  - `running`, an alarm taken off the list whose function is still to run.
- A handle names one arming and is never reused. That is the strongest assumption that can be made about the dde_kit without its source.
- A driver thread's `pc` walks the calls:
  - `add_timer`: `AddTimer` → `AddArm` (`dde_kit_timer_add`) → `AddStore` (the store of line 62);
  - `del_timer` and `del_timer_sync`: `DelTimer` → `DelRead` (line 80) → `DelPending` (line 81) → `DelDel` (line 82) → `DelClear` (line 83);
  - `__mod_timer`: `ModTimer` → the del_timer steps → `ModExp` (line 109) → the add_timer steps;
  - `timer_pending`: `TimerPending` → `PendRead` → `PendQuery`.
- `timer.c` takes no lock, so every access is a step of its own.
- The timer thread takes an alarm off the list (`Expire`) and later runs its function (`RunFunction`). These two actions model the dde_kit, outside this repository (`spec_modelled`).
- The history variables `cbRan` and `delWon` record the alarms whose function ran and those for which `del_timer` returned 1.

### Runs
| Run | cfg | Checks | Result |
|---|---|---|---|
| `timer_api` | `MCTimer_api.cfg` | `TypeOK`, `LatestExpiry` | pass: 131 k states, 3 s |
| `timer_del_race` | `MCTimer_del_race.cfg` | `DelOrFunction` | **violation** |

- **`timer_api`.** One driver thread makes four calls of any kind on two timers with two expiry values, while alarms fire at any time. `add_timer` is used only on a timer with no live alarm, which is the Linux precondition (`BUG_ON(timer_pending(timer))`).
- **What it shows.** Outside a call on it, a timer's live alarm carries the expiry last stored by `__mod_timer`, while alarms of both timers fire between its steps.
- **Mutants.** Two mutants are caught:
  - lines 109/110 swapped;
  - `del_timer` without the NULL check.

**`add_timer` on a pending timer, the spec against the code.**
- The spec's timer entry says adding a pending timer cancels and re-arms it, with no duplicate firing.
- `add_timer` overwrites `timer->dde_kit_timer` and leaves the first alarm armed. That alarm still fires, and `del_timer` can no longer reach it.
- `Timer` defines `AtMostOneAlarm`: a timer has at most one live alarm. With `AddOnlyInactive = FALSE` and `INVARIANT AtMostOneAlarm` in `MCTimer_api.cfg`, TLC finds it violated. In `timer_api`, with one thread and no re-add, the property would only restate `__mod_timer`'s delete-then-add, so the run does not check it. No run keeps this case: Linux forbids `add_timer` on a pending timer (`BUG_ON`), and drivers use `mod_timer` for it.

**Finding (`timer_del_race`), a code bug.**
- `del_timer` asks `dde_kit_timer_pending` and then calls `dde_kit_timer_del`, as two separate steps.
- An alarm that fires in between is reported as pending (return 1), and its function runs as well.

### Bounds
- **Four calls and two expiry values.** Four calls allow add, mod, del and pending in sequence. Two expiry values are enough to tell an old expiry from a new one.
- **Two timers.** The per-timer properties are checked while another timer's alarms come and go.
- **Symmetry over handles.** Handles are plain names.
- **Deadlock checking is off.** After the last call and the last alarm, nothing is left to do.
- **One driver thread.** Two threads calling `mod_timer` on one timer break `AtMostOneAlarm` in the same way as the re-add (hazard at `timer.c:107`): with `Threads <- TwoThreads`, `MaxCalls = 3` and `INVARIANT AtMostOneAlarm`, TLC finds the violation.

## 6. The `Sched` module

### Correspondence with the code
- `state` is `current->state` of one driver task, and `sleep_lock` is the count of its `SLEEP_LOCK` semaphore. `init_dde_linux26_thread` creates the semaphore at 0 (`process.c:215`).
- `Schedule(from, down, after)` is `schedule()` (`sched.c:20-35`). In `TASK_RUNNING` it yields and goes on. In a sleeping state it goes to `down`, where `SemDown` waits for a positive count and takes it (line 30).
- The task sleeps in one of two ways, chosen freely up to `MaxEpisodes` sleeps:
  - the `wait_event` loop of `linux/wait.h`: `WaitSetState` (`prepare_to_wait`), `WaitCheck`, `WaitSchedule`/`WaitDown`, and `WaitDone` (`finish_wait`), which also consumes the event. This is Linux header code outside this repository (`spec_modelled`);
  - `schedule_timeout_uninterruptible` or `schedule_timeout_interruptible` (and `msleep_interruptible` in `timer.c`, which is the latter): `Delay` (lines 98-101) or `DelayInterruptible` (lines 91-95), both `StartDelay` with their state, then `DelayAddTimer` (lines 73-81), `DelaySchedule`/`DelayDown` (line 82), `DelayDelTimer` (lines 83-87). The shim's `schedule()` and `try_to_wake_up` treat the two sleeping states alike.
- `try_to_wake_up` (lines 56-63) is two steps, the state store `TtwuState` (line 60) and the up `TtwuUp` (line 61), run by two callers:
  - the waker, which makes the event true and calls `wake_up` on the wait queue (`Signal`). `wake_up` goes on to `try_to_wake_up` only if the task is on the queue, between `prepare_to_wait` and `finish_wait`;
  - the dde_kit timer thread, which takes the timer off its list (`TimerExpire`) and runs `process_timeout` (lines 67-70).
- `timer` says whether `schedule_timeout`'s on-stack timer is on the dde_kit list. The timer API's own races are checked in module `Timer`.
- `delayWoken` is a history variable: the waker began a wake-up while the current delay was running.

### Runs
| Run | cfg | Checks | Result |
|---|---|---|---|
| `sched_live` | `MCSched_live.cfg` | `TypeOK`, `WakeNotLost`, `DelayEnds` | pass: 2 k states |
| `sched_stale_token` | `MCSched_stale_token.cfg` | `DelayHonoured` | **violation** |

- **`sched_live`.** A task makes three sleeps in any order of waits and delays. A waker signals two events, and the timer thread fires at any time.
- **What it shows.**
  - Every wait ends once its event is signalled, even when the state store and the up of `try_to_wake_up` straddle the task's `prepare_to_wait` and `schedule()`.
  - Every delay returns.
- **Mutants.** Three mutants are caught:
  - `try_to_wake_up` without its up;
  - `schedule_timeout` without `add_timer`;
  - a down that does not wait for the count.

**Finding (`sched_stale_token`), a gap in the spec.**
- The spec says that a wake of a task that is not blocked accumulates a signal, which a later block call safely absorbs.
- The trace: the waker's `wake_up` finds the task queued, and the task then sees the event and leaves its wait. The waker's `try_to_wake_up` lands afterwards and leaves a token.
- The task's next sleep is a `schedule_timeout_uninterruptible` delay. `schedule()` takes the token at once, so the delay returns before its timer fires, with nobody having woken it.
- A `process_timeout` of an earlier delay that runs after that delay's `del_timer` leaves the same kind of token.

### Bounds, fairness and deadlock
- **Three sleeps and two events.** They are enough for a wait followed by a delay, and for a delay followed by a second delay.
- **Weak fairness** holds on the task's steps, the waker's wake-up and the timer thread. These are host threads scheduled by the dde_kit, and the dde_kit fires an armed timer. Starting a sleep or signalling an event is not forced.
- **Deadlock checking is off.** The task stops after its last sleep.

## 7. The `Process` and `PidRegistry` modules

### Correspondence with the code
- `PidRegistry` is the abstract registry of spec sections 4.2 and 8. `reg` is a set of id/task pairs, changed atomically by `Attach` and `Detach`. A lookup is a call (`Call`), one instant at which its answer is fixed (`Resolve`), and a return (`Return`).
- `Process` models `process.c`:
  - `lst` is `_pid_task_list`, head first, as a sequence of record names from the pool `Nodes`;
  - `mem[n]` is the contents of record `n`: `{pid, ts}`. kfree does not clear it. kmalloc hands out a record that was never used, or, with `ReuseFreed`, any record that is not allocated (`Allocatable`, `kmalloc.c:122-153`: kmalloc draws from dde_kit slab caches, which reuse freed objects);
  - a task's id is the task itself, and so is its task struct;
  - a thread's `tpc` walks its life: `Spawn` (`kernel_thread`), `AddWorker` (`__kthread_helper` → `dde_linux26_process_add_worker`) or `Adopt` (`dde_linux26_process_from_dde_kit`), `AttachAlloc` (lines 60-62: kmalloc and fill), `AttachLink` (lines 65-69: the head insert under the lock), `Exit` (`do_exit` → `detach_pid`, lines 73-91: unlink and kfree under the lock);
  - a looker's `lpc` walks `find_task_by_pid_type`: `Call`, `Scan` (lines 98-102 and 106: the walk under the lock) and `Read` (line 103: `pt->ts`, read after the unlock).
- Every list access is under `_pid_task_list_lock`, so each critical section is one step.
- The history variable `lscan` is `pt->ts` as it was under the lock: the instant at which a lookup takes effect. The refinement mapping sends `lst` to `reg`, the looker's `lpc` to the abstract phase, and `lscan` to the abstract answer fixed at `Resolve`.

### Runs
| Run | cfg | Checks | Result |
|---|---|---|---|
| `process_registry` | `MCProcess_registry.cfg` | `TypeOK`, `ListIntact`, `RegistrySpec` | pass: 599 k states, 20 s |
| `process_reuse` | `MCProcess_reuse.cfg` | `RegistrySpec` | **violation** |

- **`process_registry`.** Three threads are spawned or adopted, attach and exit, while two threads look ids up. kmalloc never hands out a freed record.
- **What it shows.**
  - The list holds each record once, only allocated records, and exactly one record per running thread (`ListIntact`).
  - `attach_pid`, `detach_pid` and `find_task_by_pid_type` implement `PidRegistry` (`RegistrySpec == Registry!Spec`): every lookup returns what the registry held at one instant of the call.
- **Mutants.** Three mutants are caught: `attach_pid` that does not fill the record, `detach_pid` that kfrees without unlinking, and a lookup that only checks the head.

**Finding (`process_reuse`), a code bug.**
1. A looker finds thread t1's record under the lock and unlocks (line 102).
2. t1 exits; `detach_pid` unlinks and kfrees the record.
3. Thread t2 attaches; kmalloc hands it the same record, which `attach_pid` fills with t2.
4. The looker reads `pt->ts` (line 103) and returns t2 for t1's id.

The spec says a lookup after `detach(t)` never returns `t` and that a lookup returns the task attached for the id. Here it returns a task that was never attached for the id at all. In C the read at line 103 is a read of freed memory.

### Bounds
- **Three threads, two lookers, three records.** Three records let every thread hold one in the passing run. The violation needs only two threads, one looker and two records.
- **No symmetry.** `RegistrySpec` is a temporal property, for which TLC's symmetry reduction is not sound.
- **Deadlock checking is on.** Once every thread is dead, the lookers can still call.

## 8. The `Audio` module

### Correspondence with the code
- `acquired` is `channel_acquired`. A session is represented by its channel's incarnation bit `gen`, which tells a destroyed session from its successor.
- `cnt` and `waiters` are `channel_sema`: a Genode semaphore whose `down()` decrements the count and blocks in FIFO order when the count went negative, and whose `up()` increments it and wakes the first waiter, which then owns the unit.
- `sub[ch]` counts packets the client submitted and the driver has not taken; `flight[ch]` counts packets taken and not yet acknowledged. `QueueSize` bounds the two together, as the packet stream's size does.
- The entrypoint `ep` runs, one at a time:
  - `Open`: `Root_policy::aquire` (`Aquire`, lines 104-129: a channel that has a session is Unavailable), `_create_session` (lines 195-212) and the constructor (`Construct`, lines 49-55: register, then `channel_sema.up()`);
  - the destructor in two steps: `CloseDown` (line 59: `down()`, which may block) and `CloseClear` (lines 60-62: clear `channel_acquired`, free the buffer);
  - `Flush` (lines 69-73): acknowledge every submitted packet.
- The playback thread `pb` runs `Root::entry`: `PbDown` (each of the two downs, lines 157-158), `PbRead` (lines 160-161, the read of both sessions into `snap`), `PbGet` (the blocking `get_packet` on the left, then the right channel, lines 166 and 169), `PbAck` (lines 176-186: play, retried until ALSA accepts it, and acknowledge) and `PbUp` (each of the two ups, lines 188-189).
- `Submit` is a client putting a packet into its session's stream.
- `audio_out_active` is set by `main()` (lines 233-240) and fixed afterwards. `MCAudio`'s `DriverInit` makes it `AudioInitOk(present)` of `SoundDevices`. When `dde_linux26_audio_init` fails, `main()` still announces the service and starts the playback thread, which blocks in its first `down()`. `_create_session` refuses every request (lines 200-201): `Refused`, a step that changes nothing.

### Runs
| Run | cfg | Checks | Result |
|---|---|---|---|
| `audio_sessions` | `MCAudio_sessions.cfg` | `TypeOK`, `SnapshotCurrent`, `ScanFindsDevices` | pass: 51 k states, 2 s |

- **`audio_sessions`.** On each of the 64 hardware choices the start-up scan runs. Where it succeeded, both channels are opened, flushed, closed and reopened in any order while clients submit into two-packet streams and the playback thread cycles. The parent keeps one session open (`CloseLast = FALSE`).
- **What it shows.** From its read of `channel_acquired` until it gives its units back, the playback thread works on the two sessions registered now: neither is NULL and no destructor has run on either. Only the two semaphore units it holds keep the destructor out.
- **Mutants.** Three mutants are caught: a pcm loop without its `dev_num < MAX_DEVICES` test (`ScanFindsDevices`), a destructor that clears `channel_acquired` before its `down()`, and session creation without the aquire check.

**Closing the last session deadlocks the driver (`main.cc:59`).** With `CloseLast = TRUE`, TLC reports a deadlock after four steps:
1. The left session is opened; its constructor ups `channel_sema` to 1.
2. The playback thread takes that unit and blocks in its second `down()`.
3. The left session is closed. The destructor's `down()` blocks on the entrypoint.
4. Only a new session could up the semaphore, and creating one needs the blocked entrypoint.

The same happens whenever the last open session is closed while the playback thread waits for its second unit. The passing run therefore keeps one session open, and this case has no run of its own.

### The driver's start-up: `SoundDevices`
`MCAudio` composes `Audio` with `SoundDevices`. `DriverInit` chooses the hardware and sets `audio_out_active` from it; `DriverSpec` keeps the hardware fixed while the sessions run (`Next /\ UNCHANGED present`).

**`SoundDevices`** models `dde.c`:
- `present` is the hardware: for each card's control device (minor 0) and each playback pcm (minors 16 and up), whether the ALSA core's `open` succeeds.
- `InitDevices` is `dde_linux26_audio_init_devices`. Its two loops are the RECURSIVE operators `ScanCards` (lines 305-345) and `ScanPcms` (lines 324-344). Both loops stop at `MAX_DEVICES`. A card whose control device fails is skipped with its pcms. Each registered slot gets the descriptor `dev_num + 3` (`Register`).
- The table is the sequence of filled slots. A name is the node it names, since the `snprintf` formats are injective.
- `GetDevByName` and `GetDevByFd` are the lookups, using `SelectInSeq` of SequencesExt. `PosixOpen`, `PosixAccess` and `FdKnown` are `open`, `access`, and the lookup step of `fcntl`/`ioctl`. Each returns `-errno` where the code sets `errno` and returns -1.
- `AudioInitOk` is `dde_linux26_audio_init`: alsa-lib's `snd_pcm_open("hw:0,0")` opens card 0's control device and first pcm through `open`. The hardware-parameter calls that follow (`audio.c` 100-156) are assumed to succeed.

The scan is a pure computation on a state fixed at boot, so its property is a state invariant of the composed run:
- `ScanFindsDevices` compares the scan with a loop-free reference `Expected`: all nodes that open, card by card, truncated to `MAX_DEVICES`. It requires the table to hold exactly those nodes with the right pcm count. Every registered node must open to a descriptor of at least 3 that `fcntl`/`ioctl` map back to the same node. Every other node must be `ENOENT`. With two cards of two pcms (six nodes) and four slots, truncation happens inside the pcm loop, at a card boundary, and not at all.

### Bounds
- **Hardware: two cards, two playback pcms each, four table slots.** This covers every outcome of the scan's two stop tests, and all 64 hardware choices are initial states, including those where card 0 is missing and the driver refuses every session.
- **Two channels, two packets per stream.** Two packets let a client keep one packet queued while the thread holds another, which is when a close must wait.
- **Deadlock checking is on.** With a session always open, some client or thread can always move. When the start-up failed, the entrypoint keeps answering requests with `Root::Unavailable`.

## 9. Not modelled, and why
- **Not modelled yet; planned (section 2):** the softirq check at the end of `irq_handler` (with `IrqSoftirq`), `yield`, and a second sleeping task.
- **Memory allocators, resources, PCI, inodes, evdev, net, SCSI and printk:** wrappers over dde_kit and Genode, with no concurrency of their own. `kmalloc`'s own part is sequential arithmetic. Its one defect, the `size_t` wrap of `size += sizeof(void *)` (`kmalloc.c:125`), makes a request within one pointer of `ULONG_MAX` return a few bytes; a single call `kmalloc(ULONG_MAX)` reaches it, so it is listed as a hazard for a unit test. The one effect of the dde_kit slab that matters to a model, the reuse of freed records, is the `ReuseFreed` constant of `Process`. `res.c` has two bugs listed as hazards without a model: `ioremap`'s range test is inverted (`res.c:134`), and `release_mem_region` leaves the region on the list that `ioremap` searches (`res.c:101`). Both are reached by one caller making calls in sequence, which a unit test covers better than a model checker.
- **USB host controller and virtual device:** the URB life cycle is run by the Linux USB core, which is not in this repository, and `vhcd_urb_dequeue` is unimplemented. A model would consist mostly of assumptions about that core. The hazard list records the URB reference that `vhcd_urb_enqueue` takes and never drops when it rejects interrupt, bulk and isochronous pipes (`usb_vhcd.c:402`).
- **Drivers and tests**, apart from the audio-out sessions and its device table: the ALSA core and alsa-lib behind `dde.c` (`unlocked_ioctl`, `mmap`, `poll`) are Linux and library code outside this repository, and are reduced to which devices open. The rest is device I/O, register programming and session plumbing.
- **Audio packet streams:** each packet-stream operation is one step. `flush()` and the playback thread taking packets from the same sink at once (`main.cc:72`) is a race inside Genode's ring buffer, below this model's level.
- **Tasklet functions:** their bodies are abstract. A function that reschedules its own tasklet is covered by the threads' schedule calls.
