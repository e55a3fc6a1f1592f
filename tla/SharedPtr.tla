----------------------------- MODULE SharedPtr -----------------------------
(***************************************************************************)
(* std::shared_ptr and std::weak_ptr of the C++ runtime headers: one object *)
(* and its control block, the pointers that own it or watch it, and the    *)
(* threads that copy, lock and destroy them.  The two counters are atomic; *)
(* every access to one is a step.  A single pointer is not used by one     *)
(* thread while another changes it, which its callers see to.              *)
(***************************************************************************)
EXTENDS Naturals, FiniteSets

CONSTANTS
    Threads,
    Pointers,       \* the shared_ptr objects
    Weaks,          \* the weak_ptr objects ...
    Members         \* ... of which these are members of the object itself

ASSUME SharedPtrAssumption ==
    /\ IsFiniteSet(Pointers)
    /\ IsFiniteSet(Weaks)
    /\ Members \subseteq Weaks

VARIABLES
    strong, weak,       \* the counters of __cpc_shared_control
    owning, watching,   \* the pointers whose control is this block
    alive,              \* the object has not been disposed of
    freed,              \* the block has been deleted
    pc,                 \* per thread: where it is in release() or lock()
    n,                  \* per thread: the count lock() last read, else 0
    locking             \* per thread: the weak_ptr lock() runs on, if any

vars == <<strong, weak, owning, watching, alive, freed, pc, n, locking>>

Places == {"idle", "dispose", "release", "delete", "exchange"}

Init ==
    /\ strong = 1 /\ weak = 1
    /\ \E p \in Pointers : owning = {p}
    /\ watching = {}
    /\ alive = TRUE /\ freed = FALSE
    /\ pc = [t \in Threads |-> "idle"]
    /\ n = [t \in Threads |-> 0]
    /\ locking = [t \in Threads |-> {}]

(* Nobody runs lock() on w: it may be moved from or destroyed. *)
Unused(w) == \A t \in Threads : w \notin locking[t]

-----------------------------------------------------------------------------
(* shared_ptr(const shared_ptr &) *)
Copy(q) ==
    /\ owning # {}
    /\ q \notin owning
    /\ strong' = strong + 1
    /\ owning' = owning \cup {q}
    /\ UNCHANGED <<weak, watching, alive, freed, pc, n, locking>>

(* shared_ptr(shared_ptr &&) and swap() with an empty pointer *)
Move(p, q) ==
    /\ p \in owning /\ q \notin owning
    /\ owning' = (owning \ {p}) \cup {q}
    /\ UNCHANGED <<strong, weak, watching, alive, freed, pc, n, locking>>

(* An owner makes or reaches any weak_ptr, a member included; without one, *)
(* another watcher is copied, or a member by the destructor of the object. *)
CanCopy(w) ==
    \/ owning # {}
    \/ /\ w \notin Members
       /\ \/ watching \ Members # {}
          \/ watching # {} /\ \E t \in Threads : pc[t] = "dispose"

(* weak_ptr(const shared_ptr &) and weak_ptr(const weak_ptr &) *)
Watch(w) ==
    /\ w \notin watching
    /\ CanCopy(w)
    /\ weak' = weak + 1
    /\ watching' = watching \cup {w}
    /\ UNCHANGED <<strong, owning, alive, freed, pc, n, locking>>

MoveWeak(v, w) ==
    /\ v \in watching /\ w \notin watching
    /\ v \notin Members /\ w \notin Members
    /\ Unused(v)
    /\ watching' = (watching \ {v}) \cup {w}
    /\ UNCHANGED <<strong, weak, owning, alive, freed, pc, n, locking>>

(* Faulty variant: every pointer that leaves disposes of the object while  *)
(* another one is left.                                                    *)
DropDisposesEarly(t, p) ==
    /\ pc[t] = "idle"
    /\ p \in owning
    /\ strong' = strong - 1
    /\ owning' = owning \ {p}
    /\ pc' = [pc EXCEPT ![t] = IF strong \in {1, 2} THEN "dispose" ELSE "idle"]
    /\ UNCHANGED <<weak, watching, alive, freed, n, locking>>

(* release(): the last owner disposes of the object *)
Drop(t, p) ==
    /\ pc[t] = "idle"
    /\ p \in owning
    /\ strong' = strong - 1
    /\ owning' = owning \ {p}
    /\ pc' = [pc EXCEPT ![t] = IF strong = 1 THEN "dispose" ELSE "idle"]
    /\ UNCHANGED <<weak, watching, alive, freed, n, locking>>

(* release_weak() by a pointer or, with watching unchanged, by the group of *)
(* the owners.                                                             *)
ReleaseWeak(t) ==
    /\ weak' = weak - 1
    /\ pc' = [pc EXCEPT ![t] = IF weak = 1 THEN "delete" ELSE "idle"]
    /\ UNCHANGED <<strong, owning, freed, n, locking>>

(* ~weak_ptr() *)
DropWeak(t, w) ==
    /\ pc[t] = "idle"
    /\ w \in watching
    /\ Unused(w)
    /\ w \in Members => owning # {}
    /\ watching' = watching \ {w}
    /\ UNCHANGED alive
    /\ ReleaseWeak(t)

(* dispose() destroys the members of the object first. *)
DropMember(t, w) ==
    /\ pc[t] = "dispose"
    /\ w \in watching \cap Members
    /\ watching' = watching \ {w}
    /\ weak' = weak - 1
    /\ freed' = (freed \/ weak = 1)
    /\ UNCHANGED <<strong, owning, alive, pc, n, locking>>

(* Faulty variant: the owners' common weak count is kept. *)
DisposeOnly(t) ==
    /\ pc[t] = "dispose"
    /\ watching \cap Members = {}
    /\ alive' = FALSE
    /\ pc' = [pc EXCEPT ![t] = "idle"]
    /\ UNCHANGED <<strong, weak, owning, watching, freed, n, locking>>

(* the destructor of the object *)
Dispose(t) ==
    /\ pc[t] = "dispose"
    /\ watching \cap Members = {}
    /\ alive' = FALSE
    /\ pc' = [pc EXCEPT ![t] = "release"]
    /\ UNCHANGED <<strong, weak, owning, watching, freed, n, locking>>

(* release_weak() after dispose() *)
ReleaseGroup(t) ==
    /\ pc[t] = "release"
    /\ UNCHANGED <<alive, watching>>
    /\ ReleaseWeak(t)

(* delete this *)
Delete(t) ==
    /\ pc[t] = "delete"
    /\ freed' = TRUE
    /\ pc' = [pc EXCEPT ![t] = "idle"]
    /\ UNCHANGED <<strong, weak, owning, watching, alive, n, locking>>

-----------------------------------------------------------------------------
(* lock() reads the count: nobody owns the object, or it tries to join. *)
Lock(t, w) ==
    /\ pc[t] = "idle"
    /\ w \in watching \ Members
    /\ n' = [n EXCEPT ![t] = strong]
    /\ IF strong = 0
         THEN UNCHANGED <<pc, locking>>
         ELSE /\ pc' = [pc EXCEPT ![t] = "exchange"]
              /\ locking' = [locking EXCEPT ![t] = {w}]
    /\ UNCHANGED <<strong, weak, owning, watching, alive, freed>>

(* lock() returns. *)
EndLock(t) ==
    /\ pc' = [pc EXCEPT ![t] = "idle"]
    /\ n' = [n EXCEPT ![t] = 0]
    /\ locking' = [locking EXCEPT ![t] = {}]

(* Faulty variant: the count read before is trusted. *)
JoinUnchecked(t, q) ==
    /\ pc[t] = "exchange"
    /\ q \notin owning
    /\ strong' = strong + 1
    /\ owning' = owning \cup {q}
    /\ EndLock(t)
    /\ UNCHANGED <<weak, watching, alive, freed>>

(* compare_exchange_weak succeeds and q is the result, *)
Join(t, q) ==
    /\ pc[t] = "exchange"
    /\ strong = n[t]
    /\ q \notin owning
    /\ strong' = strong + 1
    /\ owning' = owning \cup {q}
    /\ EndLock(t)
    /\ UNCHANGED <<weak, watching, alive, freed>>

(* or stores the count it found, and lock() goes on or returns empty. *)
Retry(t) ==
    /\ pc[t] = "exchange"
    /\ strong # n[t]
    /\ IF strong = 0
         THEN EndLock(t)
         ELSE n' = [n EXCEPT ![t] = strong] /\ UNCHANGED <<pc, locking>>
    /\ UNCHANGED <<strong, weak, owning, watching, alive, freed>>

(* The steps a thread takes once it has begun *)
Finish(t) ==
    \/ \E w \in Weaks : DropMember(t, w)
    \/ \E q \in Pointers : Join(t, q)
    \/ Dispose(t) \/ ReleaseGroup(t) \/ Delete(t) \/ Retry(t)

Next ==
    \/ \E q \in Pointers : Copy(q)
    \/ \E p, q \in Pointers : Move(p, q)
    \/ \E w \in Weaks : Watch(w)
    \/ \E v, w \in Weaks : MoveWeak(v, w)
    \/ \E t \in Threads :
          \/ \E p \in Pointers : Drop(t, p) \/ Join(t, p)
          \/ \E w \in Weaks : DropWeak(t, w) \/ DropMember(t, w) \/ Lock(t, w)
          \/ Dispose(t) \/ ReleaseGroup(t) \/ Delete(t) \/ Retry(t)

(* A thread inside release() or lock() runs on. *)
Fairness == \A t \in Threads : WF_vars(Finish(t))

Spec == Init /\ [][Next]_vars /\ Fairness

-----------------------------------------------------------------------------
At(place) == {t \in Threads : pc[t] = place}

(* The owners' common weak count is given up only after dispose(). *)
Group == owning # {} \/ At("dispose") # {} \/ At("release") # {}

TypeOK ==
    /\ strong \in Nat /\ weak \in Nat
    /\ owning \subseteq Pointers /\ watching \subseteq Weaks
    /\ alive \in BOOLEAN /\ freed \in BOOLEAN
    /\ pc \in [Threads -> Places]
    /\ n \in [Threads -> Nat]
    /\ locking \in [Threads -> SUBSET Weaks]

(* The counters are the pointers, with one weak count for all the owners.  *)
CountsExact ==
    /\ strong = Cardinality(owning)
    /\ weak = Cardinality(watching) + IF Group THEN 1 ELSE 0

(* Whoever can reach the object or the block finds it there: owners and    *)
(* the one thread that disposes, watchers, and threads inside a method.    *)
NothingDangles ==
    /\ owning # {} => alive
    /\ \A t \in At("dispose") : alive /\ At("dispose") = {t} /\ owning = {}
    /\ owning # {} \/ watching # {} \/ (\E t \in Threads : pc[t] # "idle") => ~freed
    /\ \A t \in At("delete") : At("delete") = {t}

(* Once the last owner has left, lock() brings nobody back. *)
NoResurrection == [][strong = 0 => strong' = 0]_vars

(* The object dies with its last owner even while it is watched, and the   *)
(* block with the last pointer of either kind.                             *)
NothingLeaks ==
    /\ owning = {} ~> ~alive
    /\ (owning = {} /\ watching = {}) ~> freed

Shared == INSTANCE Ownership WITH owners <- owning

ImplementsOwnership == Shared!Spec

=============================================================================
