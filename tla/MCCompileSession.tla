-------------------------- MODULE MCCompileSession --------------------------
(* Instances of CompileSession: threads and states are interchangeable. *)
EXTENDS CompileSession, TLC

CONSTANTS t1, t2, sA, sB, sC

TwoThreads == {t1, t2}
ThreeStates == {sA, sB, sC}

Interchangeable == Permutations(Threads) \cup Permutations(States)

=============================================================================
