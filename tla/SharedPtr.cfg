\* Three threads, four owners, two watchers and a weak_ptr inside the object.
CONSTANTS
    t1 = t1
    t2 = t2
    t3 = t3
    p1 = p1
    p2 = p2
    p3 = p3
    p4 = p4
    w1 = w1
    w2 = w2
    m1 = m1
    Threads <- ThreeThreads
    Pointers <- FourPointers
    Weaks <- ThreeWeaks
    Members <- OneMember
SPECIFICATION Spec
INVARIANTS
    NothingDangles
PROPERTIES
    NothingLeaks
    ImplementsOwnership
\* The object and its block are gone.
CHECK_DEADLOCK FALSE
