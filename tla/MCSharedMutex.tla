--------------------------- MODULE MCSharedMutex ---------------------------
(* Instances of SharedMutex. *)
EXTENDS SharedMutex

CONSTANTS t1, t2, t3, t4

FourThreads == {t1, t2, t3, t4}

=============================================================================
