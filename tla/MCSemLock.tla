----------------------------- MODULE MCSemLock -----------------------------
(* Instances of SemLock: one thread, or all of them, may meet the lock     *)
(* before it has been initialised.                                         *)
EXTENDS SemLock

CONSTANTS t1, t2, t3, t4, t5, t6

SixCallers == {t1, t2, t3, t4, t5, t6}
FirstAlone == {t1}
AllEarly == SixCallers

=============================================================================
