\* Two threads, three states, the whole API.  rt_find_state walks 8 levels; of
\* stacks up to three deep, two are walked.
CONSTANTS
    t1 = t1
    t2 = t2
    sA = sA
    sB = sB
    sC = sC
    NoThread = NoThread
    NoState = NoState
    Threads <- TwoThreads
    States <- ThreeStates
    Races = {}
    Levels = 2
    MaxFrames = 3
    MaxFiles = 3
    MaxMacros = 2
    MaxStack = 1
SYMMETRY Interchangeable
SPECIFICATION Spec
INVARIANTS
    GlobalsOwned
    GlobalsClean
    JumpBufferLive
    FramesInsideFiles
    ErrorChargedToCaller
    RuntimeList
    ExitReturnsHome
