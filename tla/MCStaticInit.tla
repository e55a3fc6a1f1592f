---------------------------- MODULE MCStaticInit ----------------------------
(* Instances of StaticInit: the initializer of a reaches the declaration   *)
(* of b.                                                                   *)
EXTENDS StaticInit

CONSTANTS main, worker, other, a, b

ThreeThreads == {main, worker, other}
TwoObjects == {a, b}
AThenB == {<<a, b>>}

=============================================================================
