\* With both tasklet lists in use, a raise from a driver thread that falls
\* between the daemon's snapshot of the pending mask and its reset is lost.
CONSTANTS
    p1 = p1
    p2 = p2
    t1 = t1
    t2 = t2
    Threads <- MCThreads
    Tasklets <- MCTasklets
    Nrs <- BothNrs
    MAX_SOFTIRQ_RETRIES = 2
    MaxCalls = 3
SPECIFICATION Spec
\* Once the MaxCalls calls are made the system rests.
CHECK_DEADLOCK FALSE
CONSTRAINT SemConstraint
PROPERTIES
    QueuedEventuallyServed
