\* Every thread may be the first caller.
CONSTANTS
    t1 = t1
    t2 = t2
    t3 = t3
    t4 = t4
    t5 = t5
    t6 = t6
    NoCaller = NoCaller
    Callers <- SixCallers
    Early <- AllEarly
SPECIFICATION SemSpec
INVARIANT MutualExclusion
