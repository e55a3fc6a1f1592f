------------------------------- MODULE Mutex -------------------------------
(***************************************************************************)
(* What a CPRIMESem promises its users: at most one thread is between      *)
(* wait_sem and post_sem.  The semaphore itself is specified in SemLock.   *)
(***************************************************************************)
CONSTANTS Threads

VARIABLE inside     \* the threads between wait_sem and post_sem

Init == inside = {}

Acquire(t) == inside = {} /\ inside' = {t}

Release(t) == t \in inside /\ inside' = inside \ {t}

Next == \E t \in Threads : Acquire(t) \/ Release(t)

Spec == Init /\ [][Next]_inside

=============================================================================
