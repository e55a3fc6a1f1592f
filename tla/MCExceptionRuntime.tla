------------------------ MODULE MCExceptionRuntime ------------------------
(* Instances of ExceptionRuntime. *)
EXTENDS ExceptionRuntime, TLC

CONSTANTS t1, t2, e1, e2

TwoThreads == {t1, t2}
TwoExceptions == {e1, e2}

(* Neither threads nor exceptions are told apart. *)
Symmetry == Permutations({t1, t2}) \cup Permutations({e1, e2})

=============================================================================
