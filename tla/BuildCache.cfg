\* Two units; up to four builds and edits, in any order.  An edit leaves a
\* file alone between a read of it and its first stat.
CONSTANTS
    a = a
    b = b
    Jobs <- TwoJobs
    MaxEvents = 4
    Races = {}
SPECIFICATION BuildSpec
INVARIANTS
    AcceptedIsCurrent
    CheckOnlyTruthful
    KeptUnitsStay
PROPERTIES
    BuildEnds
\* Every build is over once the last one has ended.
CHECK_DEADLOCK FALSE
