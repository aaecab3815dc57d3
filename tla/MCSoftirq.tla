----------------------------- MODULE MCSoftirq -----------------------------
(***************************************************************************)
(* Model-checking instance of Softirq: two driver threads, two tasklets,   *)
(* at most two passes of __do_softirq per wake-up (the code has 10; two    *)
(* already make the retry and the give-up path reachable).                 *)
(***************************************************************************)
EXTENDS Softirq

CONSTANTS p1, p2, t1, t2

MCThreads == {p1, p2}
MCTasklets == {t1, t2}

\* Every tasklet_schedule call and every re-queue posts softirq_sem and the
\* daemon takes one post per pass, so the count has no bound in the code: a
\* tasklet kept disabled makes it grow.  The model stops exploring beyond
\* SemBound posts.
SemBound == 3
SemConstraint == softirq_sem <= SemBound

\* Drivers using both tasklet_schedule and tasklet_hi_schedule.
BothNrs == {HI_SOFTIRQ, TASKLET_SOFTIRQ}
\* Drivers using tasklet_schedule only.
TaskletNrOnly == {TASKLET_SOFTIRQ}

\* Symmetry of threads and of tasklets, for the safety run only.
Symmetry == Permutations(MCThreads) \cup Permutations(MCTasklets)

(***************************************************************************)
(* The locals of a call or of the daemon loop that the code no longer      *)
(* reads are left out of the state fingerprint: a thread back in "idle"    *)
(* and the daemon blocked in "down" keep nothing from their last call.     *)
(***************************************************************************)
ThreadView(p) ==
    CASE pc[p] = "idle" -> <<>>
      [] pc[p] = "or_write" -> <<arg[p], nr[p], tread[p]>>
      [] pc[p] \in {"enqueue", "or_read", "sem_up"} -> <<arg[p], nr[p]>>
      [] OTHER -> <<arg[p]>>

DaemonView ==
    CASE dpc \in {"down", "do_softirq"} -> <<dpc>>
      [] dpc \in {"snap", "clear"} -> <<dpc, retries>>
      [] dpc = "next" -> <<dpc, retries, pending>>
      [] dpc \in {"detach", "item"} -> <<dpc, retries, pending, h, list>>
      [] dpc = "rq_or" -> <<dpc, retries, pending, h, list, dread>>
      [] OTHER -> <<dpc, retries, pending, h, list, cur>>

View == <<softirq_pending, softirq_sem, tasklet_vec, state, count, holds, calls,
          pc, [p \in Threads |-> ThreadView(p)], DaemonView>>
=============================================================================
