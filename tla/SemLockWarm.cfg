\* One thread initialises the lock before the others call.
CONSTANTS
    t1 = t1
    t2 = t2
    t3 = t3
    t4 = t4
    t5 = t5
    t6 = t6
    NoCaller = NoCaller
    Callers <- SixCallers
    Early <- FirstAlone
SPECIFICATION SemSpec
PROPERTY ImplementsMutex
