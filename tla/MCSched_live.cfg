\* Wake-ups and timeouts end every sleep, under weak fairness of the task,
\* the waker and the dde_kit timer thread.
CONSTANTS
    MaxEpisodes <- MCMaxEpisodes
    MaxWakes <- MCMaxWakes
SPECIFICATION Spec
INVARIANTS TypeOK
PROPERTIES WakeNotLost DelayEnds
\* The task stops once it has made its sleeps.
CHECK_DEADLOCK FALSE
