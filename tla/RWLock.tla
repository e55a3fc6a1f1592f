------------------------------- MODULE RWLock -------------------------------
(***************************************************************************)
(* What a reader-writer lock promises: a writer excludes every other       *)
(* holder, readers share.  SharedMutex implements it.                      *)
(***************************************************************************)
CONSTANT Threads

VARIABLES writers, readers      \* the threads that hold the lock

vars == <<writers, readers>>

Init == writers = {} /\ readers = {}

AcquireExclusive(t) ==
    /\ writers = {} /\ readers = {}
    /\ writers' = {t}
    /\ UNCHANGED readers

AcquireShared(t) ==
    /\ writers = {}
    /\ t \notin readers
    /\ readers' = readers \cup {t}
    /\ UNCHANGED writers

ReleaseExclusive(t) ==
    /\ t \in writers
    /\ writers' = {}
    /\ UNCHANGED readers

ReleaseShared(t) ==
    /\ t \in readers
    /\ readers' = readers \ {t}
    /\ UNCHANGED writers

Next ==
    \E t \in Threads :
        \/ AcquireExclusive(t) \/ AcquireShared(t)
        \/ ReleaseExclusive(t) \/ ReleaseShared(t)

Spec == Init /\ [][Next]_vars

=============================================================================
