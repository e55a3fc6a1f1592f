-------------------------- MODULE SharedPtrProofs --------------------------
(***************************************************************************)
(* For every set of threads and every finite number of pointers: the two   *)
(* counters are exact, nothing dangles, a dead object stays dead, and      *)
(* shared_ptr and weak_ptr implement Ownership.                            *)
(***************************************************************************)
EXTENDS SharedPtr, FiniteSetTheorems, TLAPS

(* The object lives until dispose() ends; after that one thread is left to  *)
(* give up the owners' weak count.                                         *)
DisposedInOrder ==
    /\ alive <=> owning # {} \/ At("dispose") # {}
    /\ \A t \in At("release") : At("release") = {t} /\ owning = {} /\ At("dispose") = {}

(* The block is deleted by the thread that took the weak count to zero.     *)
DeletedAtZero == weak = 0 <=> freed \/ At("delete") # {}

(* lock() runs on a watcher, with a count it has found not to be zero.      *)
LockHoldsWatcher ==
    \A t \in Threads :
        IF pc[t] = "exchange"
          THEN n[t] # 0 /\ locking[t] # {} /\ locking[t] \subseteq watching \ Members
          ELSE locking[t] = {}

IInv ==
    /\ TypeOK
    /\ CountsExact
    /\ NothingDangles
    /\ DisposedInOrder
    /\ DeletedAtZero
    /\ LockHoldsWatcher

-----------------------------------------------------------------------------
(* How the size of a set of pointers follows the pointers that join it.    *)
LEMMA Counting ==
    ASSUME NEW T, IsFiniteSet(T), NEW S \in SUBSET T
    PROVE  /\ Cardinality(S) \in Nat
           /\ Cardinality(S) = 0 <=> S = {}
           /\ \A x : x \notin S => Cardinality(S \cup {x}) = Cardinality(S) + 1
           /\ \A x \in S : Cardinality(S \ {x}) = Cardinality(S) - 1
<1>1. IsFiniteSet(S)
  BY FS_Subset
<1>2. Cardinality(S) \in Nat
  BY <1>1, FS_CardinalityType
<1>3. Cardinality(S) = 0 <=> S = {}
  BY <1>1, FS_EmptySet
<1>4. ASSUME NEW x, x \notin S
      PROVE  Cardinality(S \cup {x}) = Cardinality(S) + 1
  BY <1>1, <1>4, FS_AddElement
<1>5. ASSUME NEW x \in S
      PROVE  Cardinality(S \ {x}) = Cardinality(S) - 1
  BY <1>1, FS_RemoveElement
<1>6. QED
  BY <1>2, <1>3, <1>4, <1>5

(* The owners are counted, *)
LEMMA CountOwners ==
    ASSUME TypeOK
    PROVE  /\ Cardinality(owning) \in Nat
           /\ Cardinality(owning) = 0 <=> owning = {}
           /\ \A q : q \notin owning => Cardinality(owning \cup {q}) = Cardinality(owning) + 1
           /\ \A q \in owning : Cardinality(owning \ {q}) = Cardinality(owning) - 1
           /\ \A p \in owning : \A q : q \notin owning =>
                  Cardinality((owning \ {p}) \cup {q}) = Cardinality(owning)
<1>1. IsFiniteSet(Pointers) /\ owning \in SUBSET Pointers
  BY SharedPtrAssumption DEF TypeOK
<1>2. ASSUME NEW p \in owning, NEW q, q \notin owning
      PROVE  Cardinality((owning \ {p}) \cup {q}) = Cardinality(owning)
  <2>1. owning \ {p} \in SUBSET Pointers /\ q \notin owning \ {p}
    BY <1>1, <1>2
  <2>2. Cardinality((owning \ {p}) \cup {q}) = Cardinality(owning \ {p}) + 1
    BY <1>1, <2>1, Counting
  <2>3. Cardinality(owning \ {p}) = Cardinality(owning) - 1 /\ Cardinality(owning) \in Nat
    BY <1>1, <1>2, Counting
  <2>4. QED
    BY <2>2, <2>3
<1>3. QED
  BY <1>1, <1>2, Counting

(* and so are the watchers. *)
LEMMA CountWatchers ==
    ASSUME TypeOK
    PROVE  /\ Cardinality(watching) \in Nat
           /\ Cardinality(watching) = 0 <=> watching = {}
           /\ \A q : q \notin watching => Cardinality(watching \cup {q}) = Cardinality(watching) + 1
           /\ \A q \in watching : Cardinality(watching \ {q}) = Cardinality(watching) - 1
           /\ \A p \in watching : \A q : q \notin watching =>
                  Cardinality((watching \ {p}) \cup {q}) = Cardinality(watching)
<1>1. IsFiniteSet(Weaks) /\ watching \in SUBSET Weaks
  BY SharedPtrAssumption DEF TypeOK
<1>2. ASSUME NEW p \in watching, NEW q, q \notin watching
      PROVE  Cardinality((watching \ {p}) \cup {q}) = Cardinality(watching)
  <2>1. watching \ {p} \in SUBSET Weaks /\ q \notin watching \ {p}
    BY <1>1, <1>2
  <2>2. Cardinality((watching \ {p}) \cup {q}) = Cardinality(watching \ {p}) + 1
    BY <1>1, <2>1, Counting
  <2>3. Cardinality(watching \ {p}) = Cardinality(watching) - 1 /\ Cardinality(watching) \in Nat
    BY <1>1, <1>2, Counting
  <2>4. QED
    BY <2>2, <2>3
<1>3. QED
  BY <1>1, <1>2, Counting

(* One pointer owns the object and nobody has begun anything.              *)
LEMMA InitIInv == Init => IInv
<1> SUFFICES ASSUME Init PROVE IInv
  OBVIOUS
<1>1. PICK p \in Pointers : owning = {p}
  BY DEF Init
<1>2. Cardinality(owning) = 1 /\ Cardinality(watching) = 0
  BY <1>1, FS_Singleton, FS_EmptySet DEF Init
<1>3. TypeOK
  BY <1>1 DEF Init, TypeOK, Places
<1>4. QED
  BY <1>1, <1>2, <1>3
     DEF Init, IInv, CountsExact, Group, At, NothingDangles, DisposedInOrder,
         DeletedAtZero, LockHoldsWatcher

-----------------------------------------------------------------------------
(* The steps that leave pc alone *)
LEMMA PointersMove ==
    ASSUME IInv,
           \/ \E q \in Pointers : Copy(q)
           \/ \E p, q \in Pointers : Move(p, q)
           \/ \E w \in Weaks : Watch(w)
           \/ \E v, w \in Weaks : MoveWeak(v, w)
    PROVE  IInv'
<1> USE CountOwners, CountWatchers
        DEF IInv, TypeOK, CountsExact, Group, At, NothingDangles, DisposedInOrder,
            DeletedAtZero, LockHoldsWatcher
<1>1. ASSUME NEW q \in Pointers, Copy(q)
      PROVE  IInv'
  BY <1>1 DEF Copy
<1>2. ASSUME NEW p \in Pointers, NEW q \in Pointers, Move(p, q)
      PROVE  IInv'
  BY <1>2 DEF Move
<1>3. ASSUME NEW w \in Weaks, Watch(w)
      PROVE  IInv'
  BY <1>3 DEF Watch, CanCopy
<1>4. ASSUME NEW v \in Weaks, NEW w \in Weaks, MoveWeak(v, w)
      PROVE  IInv'
  BY <1>4 DEF MoveWeak, Unused
<1>5. QED
  BY <1>1, <1>2, <1>3, <1>4

(* The steps of release() and release_weak() *)
LEMMA ThreadsRelease ==
    ASSUME IInv, NEW t \in Threads,
           \/ \E p \in Pointers : Drop(t, p)
           \/ \E w \in Weaks : DropWeak(t, w) \/ DropMember(t, w)
           \/ Dispose(t) \/ ReleaseGroup(t) \/ Delete(t)
    PROVE  IInv'
<1> USE CountOwners, CountWatchers
        DEF IInv, TypeOK, Places, CountsExact, Group, At, NothingDangles, DisposedInOrder,
            DeletedAtZero, LockHoldsWatcher
<1>1. ASSUME NEW p \in Pointers, Drop(t, p)
      PROVE  IInv'
  <2>1. /\ pc[t] = "idle" /\ p \in owning /\ owning' = owning \ {p}
        /\ strong' = strong - 1
        /\ UNCHANGED <<weak, watching, alive, freed, n, locking>>
    BY <1>1 DEF Drop
  <2>2. strong' = Cardinality(owning') /\ strong' \in Nat /\ (strong' = 0 <=> owning' = {})
    <3>1. Cardinality(owning \ {p}) = Cardinality(owning) - 1
      BY <2>1, CountOwners
    <3>2. owning \ {p} \in SUBSET Pointers /\ IsFiniteSet(Pointers)
      BY SharedPtrAssumption
    <3>3. /\ Cardinality(owning \ {p}) \in Nat
          /\ Cardinality(owning \ {p}) = 0 <=> owning \ {p} = {}
      BY <3>2, Counting
    <3>4. QED
      BY <2>1, <3>1, <3>3
  <2>3. CASE strong = 1
    <3>1. pc' = [pc EXCEPT ![t] = "dispose"] /\ owning' = {}
      BY <1>1, <2>1, <2>2, <2>3 DEF Drop
    <3>2. QED
      BY <2>1, <2>2, <3>1
  <2>4. CASE strong # 1
    <3>1. pc' = pc /\ owning' # {}
      BY <1>1, <2>1, <2>2, <2>4 DEF Drop
    <3>2. QED
      BY <2>1, <2>2, <3>1
  <2>5. QED
    BY <2>3, <2>4
<1>2. ASSUME NEW w \in Weaks, DropWeak(t, w)
      PROVE  IInv'
  <2>1. TypeOK'
    BY <1>2 DEF DropWeak, ReleaseWeak, Unused
  <2>2. CountsExact'
    BY <1>2 DEF DropWeak, ReleaseWeak, Unused
  <2>3. NothingDangles'
    BY <1>2 DEF DropWeak, ReleaseWeak, Unused
  <2>4. DisposedInOrder'
    BY <1>2 DEF DropWeak, ReleaseWeak, Unused
  <2>5. DeletedAtZero'
    BY <1>2 DEF DropWeak, ReleaseWeak, Unused
  <2>6. LockHoldsWatcher'
    BY <1>2 DEF DropWeak, ReleaseWeak, Unused
  <2>7. QED
    BY <2>1, <2>2, <2>3, <2>4, <2>5, <2>6
<1>3. ASSUME NEW w \in Weaks, DropMember(t, w)
      PROVE  IInv'
  <2>1. TypeOK'
    BY <1>3 DEF DropMember
  <2>2. CountsExact'
    BY <1>3 DEF DropMember
  <2>3. NothingDangles'
    BY <1>3 DEF DropMember
  <2>4. DisposedInOrder'
    BY <1>3 DEF DropMember
  <2>5. DeletedAtZero'
    BY <1>3 DEF DropMember
  <2>6. LockHoldsWatcher'
    BY <1>3 DEF DropMember
  <2>7. QED
    BY <2>1, <2>2, <2>3, <2>4, <2>5, <2>6
<1>4. ASSUME Dispose(t)
      PROVE  IInv'
  <2>1. TypeOK'
    BY <1>4 DEF Dispose
  <2>2. CountsExact'
    BY <1>4 DEF Dispose
  <2>3. NothingDangles'
    BY <1>4 DEF Dispose
  <2>4. DisposedInOrder'
    BY <1>4 DEF Dispose
  <2>5. DeletedAtZero'
    BY <1>4 DEF Dispose
  <2>6. LockHoldsWatcher'
    BY <1>4 DEF Dispose
  <2>7. QED
    BY <2>1, <2>2, <2>3, <2>4, <2>5, <2>6
<1>5. ASSUME ReleaseGroup(t)
      PROVE  IInv'
  <2>1. TypeOK'
    BY <1>5 DEF ReleaseGroup, ReleaseWeak
  <2>2. CountsExact'
    BY <1>5 DEF ReleaseGroup, ReleaseWeak
  <2>3. NothingDangles'
    BY <1>5 DEF ReleaseGroup, ReleaseWeak
  <2>4. DisposedInOrder'
    BY <1>5 DEF ReleaseGroup, ReleaseWeak
  <2>5. DeletedAtZero'
    BY <1>5 DEF ReleaseGroup, ReleaseWeak
  <2>6. LockHoldsWatcher'
    BY <1>5 DEF ReleaseGroup, ReleaseWeak
  <2>7. QED
    BY <2>1, <2>2, <2>3, <2>4, <2>5, <2>6
<1>6. ASSUME Delete(t)
      PROVE  IInv'
  BY <1>6 DEF Delete
<1>7. QED
  BY <1>1, <1>2, <1>3, <1>4, <1>5, <1>6

(* The steps of lock() *)
LEMMA ThreadsLock ==
    ASSUME IInv, NEW t \in Threads,
           \/ \E w \in Weaks : Lock(t, w)
           \/ \E q \in Pointers : Join(t, q)
           \/ Retry(t)
    PROVE  IInv'
<1> USE CountOwners, CountWatchers
        DEF IInv, TypeOK, Places, CountsExact, Group, At, NothingDangles, DisposedInOrder,
            DeletedAtZero, LockHoldsWatcher
<1>1. ASSUME NEW w \in Weaks, Lock(t, w)
      PROVE  IInv'
  <2>1. TypeOK'
    BY <1>1 DEF Lock
  <2>2. CountsExact'
    BY <1>1 DEF Lock
  <2>3. NothingDangles'
    BY <1>1 DEF Lock
  <2>4. DisposedInOrder'
    BY <1>1 DEF Lock
  <2>5. DeletedAtZero'
    BY <1>1 DEF Lock
  <2>6. LockHoldsWatcher'
    <3>1. CASE strong = 0
      <4>1. pc' = pc /\ locking' = locking /\ watching' = watching /\ pc[t] = "idle"
            /\ \A u \in Threads \ {t} : n'[u] = n[u]
        BY <1>1, <3>1 DEF Lock
      <4>2. QED
        BY <4>1
    <3>2. CASE strong # 0
      <4>1. /\ pc' = [pc EXCEPT ![t] = "exchange"] /\ locking' = [locking EXCEPT ![t] = {w}]
            /\ n' = [n EXCEPT ![t] = strong]
            /\ w \in watching \ Members /\ watching' = watching
        BY <1>1, <3>2 DEF Lock
      <4>2. QED
        BY <3>2, <4>1
    <3>3. QED
      BY <3>1, <3>2
  <2>7. QED
    BY <2>1, <2>2, <2>3, <2>4, <2>5, <2>6
<1>2. ASSUME NEW q \in Pointers, Join(t, q)
      PROVE  IInv'
  BY <1>2 DEF Join, EndLock
<1>3. ASSUME Retry(t)
      PROVE  IInv'
  <2>1. TypeOK'
    BY <1>3 DEF Retry, EndLock
  <2>2. CountsExact'
    BY <1>3 DEF Retry, EndLock
  <2>3. NothingDangles'
    BY <1>3 DEF Retry, EndLock
  <2>4. DisposedInOrder'
    BY <1>3 DEF Retry, EndLock
  <2>5. DeletedAtZero'
    BY <1>3 DEF Retry, EndLock
  <2>6. LockHoldsWatcher'
    BY <1>3 DEF Retry, EndLock
  <2>7. QED
    BY <2>1, <2>2, <2>3, <2>4, <2>5, <2>6
<1>4. QED
  BY <1>1, <1>2, <1>3

(* Every step keeps the strengthened invariant. *)
LEMMA NextIInv ==
    ASSUME IInv, [Next]_vars
    PROVE  IInv'
<1>1. CASE UNCHANGED vars
  BY <1>1
     DEF vars, IInv, TypeOK, CountsExact, Group, At, NothingDangles, DisposedInOrder,
         DeletedAtZero, LockHoldsWatcher
<1>2. CASE Next
  BY <1>2, PointersMove, ThreadsRelease, ThreadsLock DEF Next
<1>3. QED
  BY <1>1, <1>2

(* The strengthened invariant is an invariant of the specification. *)
LEMMA Invariance == Spec => []IInv
<1>1. IInv /\ [Next]_vars => IInv'
  BY NextIInv
<1>2. QED
  BY InitIInv, <1>1, PTL DEF Spec

-----------------------------------------------------------------------------
(* The two counters of the control block are the pointers that exist, for   *)
(* any number of threads and pointers.                                     *)
THEOREM ExactCounts == Spec => []CountsExact
<1>1. IInv => CountsExact
  BY DEF IInv
<1>2. QED
  BY Invariance, <1>1, PTL

(* Whoever holds a pointer, or is inside a method, finds the object or the  *)
(* block it uses still there, and one thread disposes and deletes.         *)
THEOREM NoDangling == Spec => []NothingDangles
<1>1. IInv => NothingDangles
  BY DEF IInv
<1>2. QED
  BY Invariance, <1>1, PTL

(* lock() never joins an object whose last owner has left: the count stays *)
(* at zero.                                                                *)
THEOREM StaysDead == Spec => NoResurrection
<1>1. ASSUME IInv, [Next]_vars
      PROVE  [strong = 0 => strong' = 0]_vars
  <2>1. strong = 0 => owning = {}
    BY <1>1, CountOwners DEF IInv, CountsExact
  <2>2. \A t \in Threads : pc[t] = "exchange" => n[t] # 0
    BY <1>1 DEF IInv, LockHoldsWatcher
  <2>3. ASSUME Next, strong = 0
        PROVE  strong' = 0
    BY <2>1, <2>2, <2>3
       DEF Next, Copy, Move, Watch, MoveWeak, Drop, Join, DropWeak, DropMember, Lock,
           Dispose, ReleaseGroup, ReleaseWeak, Delete, Retry
  <2>4. QED
    BY <1>1, <2>3
<1>2. QED
  BY Invariance, <1>1, PTL DEF Spec, NoResurrection

(* shared_ptr and weak_ptr implement shared ownership of one object.        *)
THEOREM Refinement == Spec => ImplementsOwnership
<1>1. Init => Shared!Init
  BY DEF Init, Shared!Init
<1>2. ASSUME IInv, [Next]_vars
      PROVE  [Shared!Next]_(Shared!vars)
  <2>1. strong = 0 <=> owning = {}
    BY <1>2, CountOwners DEF IInv, CountsExact
  <2>2. ASSUME NEW q \in Pointers, Copy(q)
        PROVE  Shared!Share(q)
    BY <2>2 DEF Copy, Shared!Share
  <2>3. ASSUME NEW p \in Pointers, NEW q \in Pointers, Move(p, q)
        PROVE  Shared!Move(p, q)
    BY <2>3 DEF Move, Shared!Move
  <2>4. ASSUME NEW t \in Threads, NEW p \in Pointers, Drop(t, p)
        PROVE  Shared!Leave(p)
    BY <2>4 DEF Drop, Shared!Leave
  <2>5. ASSUME NEW t \in Threads, NEW q \in Pointers, Join(t, q)
        PROVE  Shared!Share(q)
    <3>1. owning # {}
      BY <1>2, <2>1, <2>5 DEF Join, IInv, LockHoldsWatcher
    <3>2. QED
      BY <2>5, <3>1 DEF Join, Shared!Share
  <2>6. ASSUME NEW t \in Threads, Dispose(t)
        PROVE  Shared!Destroy
    BY <1>2, <2>6 DEF Dispose, Shared!Destroy, IInv, NothingDangles, At
  <2>7. ASSUME \/ \E w \in Weaks : Watch(w)
               \/ \E v, w \in Weaks : MoveWeak(v, w)
               \/ \E t \in Threads, w \in Weaks : DropWeak(t, w) \/ DropMember(t, w) \/ Lock(t, w)
               \/ \E t \in Threads : ReleaseGroup(t) \/ Delete(t) \/ Retry(t)
               \/ UNCHANGED vars
        PROVE  UNCHANGED Shared!vars
    BY <2>7 DEF Watch, MoveWeak, DropWeak, DropMember, Lock, ReleaseGroup, ReleaseWeak,
                Delete, Retry, vars, Shared!vars
  <2>8. QED
    BY <1>2, <2>2, <2>3, <2>4, <2>5, <2>6, <2>7 DEF Next, Shared!Next
<1>3. QED
  BY Invariance, <1>1, <1>2, PTL DEF Spec, ImplementsOwnership, Shared!Spec

=============================================================================
