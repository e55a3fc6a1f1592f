\* Two threads that nest up to four activations of user code, throw two
\* exceptions and hand exception_ptr handles to each other.
CONSTANTS
    t1 = t1
    t2 = t2
    e1 = e1
    e2 = e2
    NoException = NoException
    Threads <- TwoThreads
    Exceptions <- TwoExceptions
    MaxDepth = 4
    MaxHandles = 2
SYMMETRY Symmetry
SPECIFICATION Spec
INVARIANTS
    UncaughtExact
    CaughtIsHandlers
    UnwindStaysInside
    FreedOnce
\* The program may end in abort().
CHECK_DEADLOCK FALSE
