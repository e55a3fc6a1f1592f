\* All programs of a main object and three members in two archives.
CONSTANTS
    f = f
    g = g
    h = h
    impf = impf
    main = main
    m1 = m1
    m2 = m2
    m3 = m3
    A1 = A1
    A2 = A2
    Names = {f, g, h, impf}
    None = None
    ImportOf <- WithoutPrefix
    Programs <- Linked
SPECIFICATION LinkSpec
INVARIANTS
    Complete
    OneProvider
PROPERTIES
    LinkEnds
\* A link that is done stays done.
CHECK_DEADLOCK FALSE
