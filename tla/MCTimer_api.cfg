\* One driver thread using add_timer (on inactive timers only, as Linux
\* requires), del_timer, del_timer_sync, mod_timer and timer_pending on two
\* timers while the dde_kit timer thread fires alarms.
CONSTANTS
    p1 = p1  p2 = p2  tA = tA  tB = tB  h1 = h1  h2 = h2  h3 = h3  h4 = h4
    NoHandle = NoHandle
    Threads <- OneThread
    Timers <- TwoTimers
    Expiries <- MCExpiries
    Handles <- MCHandles
    MaxCalls = 4
    AddOnlyInactive = TRUE
SPECIFICATION Spec
\* After MaxCalls calls and the last alarm the system rests.
CHECK_DEADLOCK FALSE
INVARIANTS
    TypeOK
    LatestExpiry
SYMMETRY Symmetry
