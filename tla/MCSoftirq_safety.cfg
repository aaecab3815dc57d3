\* Safety of the tasklet engine with both tasklet lists in use.
CONSTANTS
    p1 = p1
    p2 = p2
    t1 = t1
    t2 = t2
    Threads <- MCThreads
    Tasklets <- MCTasklets
    Nrs <- BothNrs
    MAX_SOFTIRQ_RETRIES = 2
    MaxCalls = 6
SPECIFICATION Spec
\* The lost pending bit (run softirq_lost_raise) lets every thread end up
\* waiting in tasklet_kill: the code can stop there, so no deadlock check.
CHECK_DEADLOCK FALSE
CONSTRAINT SemConstraint
INVARIANTS
    TypeOK
    NoBUG
    ListsIntact
    DisabledNotRunning
    KillQuiesces
PROPERTIES
    TaskletSafe
VIEW View
SYMMETRY Symmetry
