\* Three threads race for two nested statics; initializers may throw twice.
CONSTANTS
    main = main
    worker = worker
    other = other
    a = a
    b = b
    Nobody = Nobody
    Threads <- ThreeThreads
    Main <- main
    Objects <- TwoObjects
    Nests <- AThenB
    MaxCallbacks = 1
    MaxThrows = 2
SPECIFICATION Spec
INVARIANTS
    OneBuilder
PROPERTIES
    PassedMeansBuilt
    SleepersWake
    ExitDestroysAll
\* The process has exited once the callbacks have run.
CHECK_DEADLOCK FALSE
