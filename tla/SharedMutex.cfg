\* Four threads, two calls each: readers and writers queue on each other.
CONSTANTS
    t1 = t1
    t2 = t2
    t3 = t3
    t4 = t4
    Threads <- FourThreads
    MaxCalls = 2
SPECIFICATION Spec
INVARIANTS
    NoLostWakeup
PROPERTIES
    EveryCallReturns
    ImplementsRWLock
\* Every thread has used up its calls.
CHECK_DEADLOCK FALSE
