\* Both channels opened, closed and reopened by the parent, which keeps
\* one session open; clients submit packets into two-slot streams.  Boot
\* runs over any hardware of two cards with two playback pcms each, more
\* nodes than the four slots of the table; where card 0 is missing, every
\* session request is refused.
CONSTANTS
    L = L
    R = R
    Left <- L
    Right <- R
    NULL = NULL
    QueueSize = 2
    CloseLast = FALSE
    SNDRV_CARDS = 2
    SNDRV_MINOR_PCMS = 2
    MAX_DEVICES = 4

SPECIFICATION DriverSpec

INVARIANTS
    TypeOK
    SnapshotCurrent
    ScanFindsDevices
