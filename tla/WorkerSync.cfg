\* One worker runs on under failing fetches and probes, the other is killed,
\* runs into its limits and is started again.
CONSTANTS
    a = a
    b = b
    a1 = a1
    b1 = b1
    Clone = {a, b}
    Work = {a1, b1}
    Owner <- OwnerOf
    Clash <- OnePair
    SyncTries <- TheTries
    MaxCycles <- TheCycles
    FailLimit <- TheFailures
    MaxStarts = 3
    Faults <- TheFaults
SPECIFICATION Spec
INVARIANTS
    WorkKept
    ConflictsWeighed
PROPERTIES
    FailedStaysLocal
    WorkArrives
    StopEnds
\* Every worker may be off with no start left.
CHECK_DEADLOCK FALSE
