---------------------------- MODULE MCSharedPtr ----------------------------
(* Instances of SharedPtr. *)
EXTENDS SharedPtr

CONSTANTS t1, t2, t3, p1, p2, p3, p4, w1, w2, m1

ThreeThreads == {t1, t2, t3}
FourPointers == {p1, p2, p3, p4}
ThreeWeaks == {w1, w2, m1}
OneMember == {m1}

=============================================================================
