\* A wake-up left on SLEEP_LOCK by an earlier sleep ends a later delay
\* before its timer fires.
CONSTANTS
    MaxEpisodes <- MCMaxEpisodes
    MaxWakes <- MCMaxWakes
SPECIFICATION Spec
INVARIANT DelayHonoured
CHECK_DEADLOCK FALSE
