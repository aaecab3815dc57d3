\* Liveness of the tasklet engine for drivers that only use tasklet_schedule
\* (one softirq class: the lost pending bit needs two, see softirq_lost_raise).
CONSTANTS
    p1 = p1
    p2 = p2
    t1 = t1
    t2 = t2
    Threads <- MCThreads
    Tasklets <- MCTasklets
    Nrs <- TaskletNrOnly
    MAX_SOFTIRQ_RETRIES = 2
    MaxCalls = 4
SPECIFICATION Spec
\* Once the MaxCalls calls are made every thread is idle and the daemon
\* sleeps on softirq_sem: the resting state of the system.
CHECK_DEADLOCK FALSE
CONSTRAINT SemConstraint
PROPERTIES
    KillReturns
    TaskletLive
