------------------------- MODULE SharedMutexProofs -------------------------
(***************************************************************************)
(* For every finite set of threads and every number of calls: shared_mutex *)
(* counts its holders and waiters exactly, a writer excludes every other   *)
(* holder, no wake-up is lost, and the class implements RWLock.            *)
(***************************************************************************)
EXTENDS SharedMutex, FiniteSetTheorems, TLAPS

(* The counters decide what the methods do, so each property needs them to *)
(* be exact; and that they stay exact needs the lock to be exclusive.      *)
IInv ==
    /\ TypeOK
    /\ CountersExact
    /\ WriterExcludes
    /\ NoLostWakeup

-----------------------------------------------------------------------------
(* How the size of a set of threads follows the threads that join or leave *)
(* it.                                                                     *)
LEMMA Counting ==
    ASSUME NEW S \in SUBSET Threads
    PROVE  /\ Cardinality(S) \in Nat
           /\ Cardinality(S) = 0 <=> S = {}
           /\ \A x : x \notin S => Cardinality(S \cup {x}) = Cardinality(S) + 1
           /\ \A x \in S : Cardinality(S \ {x}) = Cardinality(S) - 1
<1>1. IsFiniteSet(S)
  BY SharedMutexAssumption, FS_Subset
<1>2. Cardinality(S) \in Nat
  BY <1>1, FS_CardinalityType
<1>3. Cardinality(S) = 0 <=> S = {}
  BY <1>1, FS_EmptySet
<1>4. ASSUME NEW x, x \notin S
      PROVE  Cardinality(S \cup {x}) = Cardinality(S) + 1
  BY <1>1, <1>4, FS_AddElement
<1>5. ASSUME NEW x \in S
      PROVE  Cardinality(S \ {x}) = Cardinality(S) - 1
  BY <1>1, FS_RemoveElement
<1>6. QED
  BY <1>2, <1>3, <1>4, <1>5

(* The sets the counters count are sets of threads. *)
LEMMA Holders ==
    /\ Readers \in SUBSET Threads
    /\ Writers \in SUBSET Threads
    /\ WaitingWriters \in SUBSET Threads
BY DEF Readers, Writers, WaitingWriters, Asleep

(* A counter is zero exactly when nobody is counted. *)
LEMMA ZeroMeansNobody ==
    ASSUME CountersExact
    PROVE  /\ m_readers = 0 <=> Readers = {}
           /\ m_writer = 0 <=> Writers = {}
           /\ m_waiting_writers = 0 <=> WaitingWriters = {}
<1>1. /\ Cardinality(Readers) = 0 <=> Readers = {}
      /\ Cardinality(Writers) = 0 <=> Writers = {}
      /\ Cardinality(WaitingWriters) = 0 <=> WaitingWriters = {}
  BY Holders, Counting
<1>2. QED
  BY <1>1 DEF CountersExact

(* Nobody has called yet. *)
LEMMA InitIInv == Init => IInv
<1> SUFFICES ASSUME Init PROVE IInv
  OBVIOUS
<1>1. TypeOK
  BY SharedMutexAssumption DEF Init, TypeOK, Places
<1>2. Readers = {} /\ Writers = {} /\ WaitingWriters = {} /\ Asleep("reader_sleeps") = {}
  BY DEF Init, Readers, Writers, WaitingWriters, Asleep
<1>3. CountersExact
  BY <1>2, FS_EmptySet DEF Init, CountersExact
<1>4. QED
  BY <1>1, <1>2, <1>3 DEF IInv, WriterExcludes, NoLostWakeup

-----------------------------------------------------------------------------
(* A thread takes the lock for itself, having waited or not. *)
LEMMA TakeExclusive ==
    ASSUME IInv, NEW t \in Threads,
           m_writer = 0, m_readers = 0, m_writer' = 1, m_readers' = 0,
           pc' = [pc EXCEPT ![t] = "writes"],
           calls' \in [Threads -> 0..MaxCalls],
           \/ pc[t] = "out" /\ m_waiting_writers' = m_waiting_writers
           \/ pc[t] = "writer_awake" /\ m_waiting_writers' = m_waiting_writers - 1
    PROVE  IInv'
<1> USE DEF IInv
<1>1. Readers = {} /\ Writers = {}
  BY ZeroMeansNobody
<1>2. /\ Readers' = {}
      /\ Writers' = {t}
      /\ WaitingWriters' = WaitingWriters \ {t}
  BY <1>1 DEF TypeOK, Readers, Writers, WaitingWriters, Asleep
<1>3. CountersExact'
  <2>1. Cardinality({t}) = 1 /\ Cardinality({}) = 0
    BY FS_Singleton, FS_EmptySet
  <2>2. pc[t] = "out" => WaitingWriters \ {t} = WaitingWriters
    BY DEF WaitingWriters, Asleep
  <2>3. pc[t] = "writer_awake" => t \in WaitingWriters
    BY DEF WaitingWriters, Asleep
  <2>4. m_waiting_writers' = Cardinality(WaitingWriters \ {t})
    BY <2>2, <2>3, Holders, Counting DEF CountersExact
  <2>5. QED
    BY <1>2, <2>1, <2>4 DEF CountersExact
<1>4. TypeOK'
  <2>1. m_waiting_writers' \in Nat
    BY <1>2, <1>3, Holders, Counting DEF CountersExact
  <2>2. m_writer' \in 0..1 /\ m_readers' \in Nat
    BY DEF TypeOK
  <2>3. pc' \in [Threads -> Places]
    BY DEF TypeOK, Places
  <2>4. QED
    BY <2>1, <2>2, <2>3 DEF TypeOK
<1>5. QED
  BY <1>2, <1>3, <1>4 DEF WriterExcludes, NoLostWakeup

(* A thread takes a share of the lock. *)
LEMMA TakeShare ==
    ASSUME IInv, NEW t \in Threads,
           Open, m_readers' = m_readers + 1,
           UNCHANGED <<m_writer, m_waiting_writers>>,
           pc[t] \in {"out", "reader_awake"},
           pc' = [pc EXCEPT ![t] = "reads"],
           calls' \in [Threads -> 0..MaxCalls]
    PROVE  IInv'
<1> USE DEF IInv
<1>1. Writers = {} /\ WaitingWriters = {}
  BY ZeroMeansNobody DEF Open
<1>2. /\ Readers' = Readers \cup {t}
      /\ t \notin Readers
      /\ Writers' = Writers
      /\ WaitingWriters' = WaitingWriters
      /\ Asleep("reader_sleeps")' = Asleep("reader_sleeps")
  BY DEF TypeOK, Readers, Writers, WaitingWriters, Asleep
<1>3. Cardinality(Readers \cup {t}) = Cardinality(Readers) + 1
  BY <1>2, Holders, Counting
<1>4. CountersExact'
  BY <1>2, <1>3 DEF CountersExact
<1>5. TypeOK'
  <2>1. m_readers' \in Nat /\ m_writer' \in 0..1 /\ m_waiting_writers' \in Nat
    BY DEF TypeOK
  <2>2. pc' \in [Threads -> Places]
    BY DEF TypeOK, Places
  <2>3. QED
    BY <2>1, <2>2 DEF TypeOK
<1>6. WriterExcludes' /\ NoLostWakeup'
  <2>1. WriterExcludes'
    BY <1>1, <1>2 DEF WriterExcludes
  <2>2. Asleep("reader_sleeps") = {}
    BY <1>1 DEF Open, NoLostWakeup
  <2>3. NoLostWakeup'
    BY <1>1, <1>2, <2>2 DEF NoLostWakeup
  <2>4. QED
    BY <2>1, <2>3
<1>7. QED
  BY <1>4, <1>5, <1>6

(* A thread goes to sleep, or back to sleep, because the lock is taken or a *)
(* writer is ahead of it.                                                  *)
LEMMA GoToSleep ==
    ASSUME IInv, NEW t \in Threads,
           UNCHANGED <<m_readers, m_writer>>,
           calls' \in [Threads -> 0..MaxCalls],
           \/ /\ pc[t] = "out" /\ m_waiting_writers' = m_waiting_writers + 1
              /\ ~ (m_writer = 0 /\ m_readers = 0)
              /\ pc' = [pc EXCEPT ![t] = "writer_sleeps"]
           \/ /\ pc[t] = "writer_awake" /\ m_waiting_writers' = m_waiting_writers
              /\ ~ (m_writer = 0 /\ m_readers = 0)
              /\ pc' = [pc EXCEPT ![t] = "writer_sleeps"]
           \/ /\ pc[t] \in {"out", "reader_awake"} /\ m_waiting_writers' = m_waiting_writers
              /\ ~ Open
              /\ pc' = [pc EXCEPT ![t] = "reader_sleeps"]
    PROVE  IInv'
<1> USE DEF IInv
<1>1. TypeOK'
  <2>1. pc' \in [Threads -> Places]
    BY DEF TypeOK, Places
  <2>2. QED
    BY <2>1 DEF TypeOK
<1>2. Readers' = Readers /\ Writers' = Writers
  BY DEF TypeOK, Readers, Writers
<1>3. m_waiting_writers' = Cardinality(WaitingWriters')
  <2>1. CASE pc[t] = "out" /\ pc' = [pc EXCEPT ![t] = "writer_sleeps"]
    <3>1. WaitingWriters' = WaitingWriters \cup {t} /\ t \notin WaitingWriters
      BY <2>1 DEF TypeOK, WaitingWriters, Asleep
    <3>2. Cardinality(WaitingWriters \cup {t}) = Cardinality(WaitingWriters) + 1
      BY <3>1, Holders, Counting
    <3>3. m_waiting_writers' = m_waiting_writers + 1
      BY <2>1 DEF TypeOK
    <3>4. QED
      BY <3>1, <3>2, <3>3 DEF CountersExact
  <2>2. CASE ~ (pc[t] = "out" /\ pc' = [pc EXCEPT ![t] = "writer_sleeps"])
    <3>1. WaitingWriters' = WaitingWriters
      BY <2>2 DEF TypeOK, WaitingWriters, Asleep
    <3>2. QED
      BY <2>2, <3>1 DEF CountersExact
  <2>3. QED
    BY <2>1, <2>2
<1>4. CountersExact'
  BY <1>2, <1>3 DEF CountersExact
<1>5. WriterExcludes'
  BY <1>2 DEF WriterExcludes
<1>6. NoLostWakeup'
  <2>1. CASE pc' = [pc EXCEPT ![t] = "writer_sleeps"]
    <3>1. ~ (m_writer = 0 /\ m_readers = 0)
      BY <2>1 DEF TypeOK
    <3>2. /\ Asleep("reader_sleeps")' = Asleep("reader_sleeps")
          /\ WaitingWriters' # {}
      BY <2>1 DEF TypeOK, WaitingWriters, Asleep
    <3>3. QED
      BY <3>1, <3>2 DEF NoLostWakeup
  <2>2. CASE pc' = [pc EXCEPT ![t] = "reader_sleeps"]
    <3>1. ~ Open
      BY <2>2 DEF TypeOK
    <3>2. m_writer = 1 \/ WaitingWriters # {}
      BY <3>1, ZeroMeansNobody DEF Open, TypeOK
    <3>3. /\ WaitingWriters' = WaitingWriters
          /\ Asleep("writer_awake")' = Asleep("writer_awake")
      BY <2>2 DEF TypeOK, WaitingWriters, Asleep
    <3>4. QED
      BY <3>2, <3>3 DEF NoLostWakeup
  <2>3. QED
    BY <2>1, <2>2
<1>7. QED
  BY <1>1, <1>4, <1>5, <1>6

-----------------------------------------------------------------------------
(* notify_one moves no thread in or out of a counted set but the one that   *)
(* leaves, and leaves some waiting writer awake.                           *)
LEMMA WriterNotified ==
    ASSUME TypeOK, NEW t \in Threads, pc[t] \in {"writes", "reads"}, NotifyWriter(t)
    PROVE  /\ pc' \in [Threads -> Places]
           /\ Writers' = Writers \ {t} /\ Readers' = Readers \ {t}
           /\ WaitingWriters' = WaitingWriters
           /\ Asleep("reader_sleeps")' = Asleep("reader_sleeps")
           /\ WaitingWriters # {} => Asleep("writer_awake")' # {}
<1> USE DEF Places, Writers, Readers, WaitingWriters, Asleep
<1> DEFINE left == [pc EXCEPT ![t] = "out"]
<1>1. CASE Asleep("writer_sleeps") = {}
  <2>1. pc' = left
    BY <1>1 DEF NotifyWriter
  <2>2. QED
    BY <1>1, <2>1 DEF TypeOK
<1>2. CASE Asleep("writer_sleeps") # {}
  <2>1. PICK w \in Asleep("writer_sleeps") : pc' = [left EXCEPT ![w] = "writer_awake"]
    BY <1>2 DEF NotifyWriter
  <2>2. w \in Threads /\ pc[w] = "writer_sleeps" /\ w # t
    BY <2>1
  <2>3. \A u \in Threads : pc'[u] = IF u = w THEN "writer_awake"
                                    ELSE IF u = t THEN "out" ELSE pc[u]
    BY <2>1, <2>2 DEF TypeOK
  <2>4. pc' \in [Threads -> Places]
    BY <2>1, <2>2 DEF TypeOK
  <2>5. Writers' = Writers \ {t} /\ Readers' = Readers \ {t}
    BY <2>2, <2>3
  <2>6. /\ WaitingWriters' = WaitingWriters
        /\ Asleep("reader_sleeps")' = Asleep("reader_sleeps")
    BY <2>2, <2>3
  <2>7. w \in Asleep("writer_awake")'
    BY <2>2, <2>3
  <2>8. QED
    BY <2>4, <2>5, <2>6, <2>7
<1>3. QED
  BY <1>1, <1>2

(* notify_all leaves no reader asleep and no counted set changed, but for   *)
(* the thread that leaves.                                                 *)
LEMMA ReadersNotified ==
    ASSUME TypeOK, NEW t \in Threads, pc[t] = "writes", NotifyReaders(t)
    PROVE  /\ pc' \in [Threads -> Places]
           /\ Writers' = Writers \ {t} /\ Readers' = Readers
           /\ WaitingWriters' = WaitingWriters
           /\ Asleep("reader_sleeps")' = {}
<1>1. /\ pc' \in [Threads -> Places]
      /\ \A u \in Threads : pc'[u] = IF u = t THEN "out"
                                     ELSE IF pc[u] = "reader_sleeps" THEN "reader_awake"
                                     ELSE pc[u]
  BY DEF TypeOK, Places, NotifyReaders
<1>2. QED
  BY <1>1 DEF Writers, Readers, WaitingWriters, Asleep

(* unlock() passes the lock on to the writers, or to the readers when no    *)
(* writer waits.                                                           *)
LEMMA UnlockKeepsIInv ==
    ASSUME IInv, NEW t \in Threads, Unlock(t)
    PROVE  IInv'
<1> USE DEF IInv
<1>1. pc[t] = "writes" /\ Writers = {t} /\ Readers = {}
  BY DEF Unlock, WriterExcludes, Writers
<1>2. /\ pc' \in [Threads -> Places]
      /\ Writers' = {} /\ Readers' = {}
      /\ WaitingWriters' = WaitingWriters
      /\ WaitingWriters # {} => Asleep("writer_awake")' # {}
      /\ WaitingWriters # {} \/ Asleep("reader_sleeps")' = {}
  <2>1. CASE m_waiting_writers # 0
    BY <1>1, <2>1, WriterNotified, ZeroMeansNobody DEF Unlock
  <2>2. CASE m_waiting_writers = 0
    BY <1>1, <2>2, ReadersNotified, ZeroMeansNobody DEF Unlock
  <2>3. QED
    BY <2>1, <2>2
<1>3. m_writer' = 0 /\ UNCHANGED <<m_readers, m_waiting_writers, calls>>
  BY DEF Unlock
<1>4. TypeOK'
  BY <1>2, <1>3 DEF TypeOK
<1>5. CountersExact'
  BY <1>1, <1>2, <1>3, FS_EmptySet DEF CountersExact
<1>6. WriterExcludes' /\ NoLostWakeup'
  BY <1>2, <1>3 DEF WriterExcludes, NoLostWakeup
<1>7. QED
  BY <1>4, <1>5, <1>6

(* unlock_shared(): the last reader leaves a waiting writer awake. *)
LEMMA UnlockSharedKeepsIInv ==
    ASSUME IInv, NEW t \in Threads, UnlockShared(t)
    PROVE  IInv'
<1> USE DEF IInv
<1>1. pc[t] = "reads" /\ t \in Readers /\ Writers = {}
  BY DEF UnlockShared, WriterExcludes, Writers, Readers
<1>2. /\ m_readers' = m_readers - 1
      /\ UNCHANGED <<m_writer, m_waiting_writers, calls>>
  BY DEF UnlockShared
<1>3. /\ pc' \in [Threads -> Places]
      /\ Writers' = {} /\ Readers' = Readers \ {t}
      /\ WaitingWriters' = WaitingWriters
      /\ Asleep("reader_sleeps")' = Asleep("reader_sleeps")
      /\ m_readers - 1 = 0 /\ WaitingWriters # {} => Asleep("writer_awake")' # {}
  <2>1. CASE m_readers - 1 = 0 /\ m_waiting_writers # 0
    BY <1>1, <2>1, WriterNotified DEF UnlockShared
  <2>2. CASE ~ (m_readers - 1 = 0 /\ m_waiting_writers # 0)
    <3>1. pc' = [pc EXCEPT ![t] = "out"]
      BY <2>2 DEF UnlockShared
    <3>2. ~ (m_readers - 1 = 0 /\ WaitingWriters # {})
      BY <2>2, ZeroMeansNobody
    <3>3. QED
      BY <1>1, <3>1, <3>2 DEF TypeOK, Places, Writers, Readers, WaitingWriters, Asleep
  <2>3. QED
    BY <2>1, <2>2
<1>4. CountersExact'
  <2>1. Cardinality(Readers \ {t}) = Cardinality(Readers) - 1
    BY <1>1, Holders, Counting
  <2>2. QED
    BY <1>1, <1>2, <1>3, <2>1 DEF CountersExact
<1>5. TypeOK'
  <2>1. m_readers' \in Nat
    BY <1>3, <1>4, Holders, Counting DEF CountersExact
  <2>2. QED
    BY <1>2, <1>3, <2>1 DEF TypeOK
<1>6. WriterExcludes' /\ NoLostWakeup'
  BY <1>2, <1>3 DEF WriterExcludes, NoLostWakeup
<1>7. QED
  BY <1>4, <1>5, <1>6

(* A wake-up nobody sent only makes a sleeper test again. *)
LEMMA SpuriousKeepsIInv ==
    ASSUME IInv, NEW t \in Threads, WakeSpuriously(t)
    PROVE  IInv'
<1> USE DEF IInv
<1>1. /\ pc' \in [Threads -> Places]
      /\ Writers' = Writers /\ Readers' = Readers
      /\ WaitingWriters' = WaitingWriters
      /\ Asleep("writer_awake") \subseteq Asleep("writer_awake")'
      /\ Asleep("reader_sleeps")' \subseteq Asleep("reader_sleeps")
  <2>1. CASE pc[t] = "writer_sleeps" /\ pc' = [pc EXCEPT ![t] = "writer_awake"]
    BY <2>1 DEF TypeOK, Places, Writers, Readers, WaitingWriters, Asleep
  <2>2. CASE pc[t] = "reader_sleeps" /\ pc' = [pc EXCEPT ![t] = "reader_awake"]
    BY <2>2 DEF TypeOK, Places, Writers, Readers, WaitingWriters, Asleep
  <2>3. QED
    BY <2>1, <2>2 DEF WakeSpuriously
<1>2. UNCHANGED <<m_readers, m_writer, m_waiting_writers, calls>>
  BY DEF WakeSpuriously
<1>3. TypeOK' /\ CountersExact'
  BY <1>1, <1>2 DEF TypeOK, CountersExact
<1>4. WriterExcludes' /\ NoLostWakeup'
  BY <1>1, <1>2 DEF WriterExcludes, NoLostWakeup
<1>5. QED
  BY <1>3, <1>4

(* Only the call count moves when a try fails, and nothing in a stutter.    *)
LEMMA NothingTaken ==
    ASSUME IInv, UNCHANGED <<m_readers, m_writer, m_waiting_writers, pc>>,
           calls' \in [Threads -> 0..MaxCalls]
    PROVE  IInv'
BY DEF IInv, TypeOK, CountersExact, WriterExcludes, NoLostWakeup,
       Readers, Writers, WaitingWriters, Asleep

(* A call is counted within the bound. *)
LEMMA CallCounted ==
    ASSUME TypeOK, NEW t \in Threads, Begin(t)
    PROVE  calls' \in [Threads -> 0..MaxCalls] /\ pc[t] = "out"
BY SharedMutexAssumption DEF TypeOK, Begin

(* Every method step keeps the strengthened invariant. *)
LEMMA NextIInv ==
    ASSUME IInv, [Next]_vars
    PROVE  IInv'
<1>0. TypeOK
  BY DEF IInv
<1>1. ASSUME NEW t \in Threads, Lock(t)
      PROVE  IInv'
  BY <1>0, <1>1, CallCounted, TakeExclusive, GoToSleep DEF Lock
<1>2. ASSUME NEW t \in Threads, LockAgain(t)
      PROVE  IInv'
  BY <1>0, <1>2, TakeExclusive, GoToSleep DEF LockAgain, TypeOK
<1>3. ASSUME NEW t \in Threads, TryLock(t)
      PROVE  IInv'
  BY <1>0, <1>3, CallCounted, TakeExclusive, NothingTaken DEF TryLock
<1>4. ASSUME NEW t \in Threads, LockShared(t)
      PROVE  IInv'
  BY <1>0, <1>4, CallCounted, TakeShare, GoToSleep DEF LockShared
<1>5. ASSUME NEW t \in Threads, LockSharedAgain(t)
      PROVE  IInv'
  BY <1>0, <1>5, TakeShare, GoToSleep DEF LockSharedAgain, TypeOK
<1>6. ASSUME NEW t \in Threads, TryLockShared(t)
      PROVE  IInv'
  BY <1>0, <1>6, CallCounted, TakeShare, NothingTaken DEF TryLockShared
<1>7. CASE UNCHANGED vars
  BY <1>0, <1>7, NothingTaken DEF vars, TypeOK
<1>8. QED
  BY <1>1, <1>2, <1>3, <1>4, <1>5, <1>6, <1>7,
     UnlockKeepsIInv, UnlockSharedKeepsIInv, SpuriousKeepsIInv DEF Next

(* The strengthened invariant is an invariant of the specification. *)
LEMMA Invariance == Spec => []IInv
<1>1. IInv /\ [Next]_vars => IInv'
  BY NextIInv
<1>2. QED
  BY InitIInv, <1>1, PTL DEF Spec

-----------------------------------------------------------------------------
(* "a writer excludes every other holder" (shared_mutex, class comment),   *)
(* for any number of threads.                                              *)
THEOREM Exclusion == Spec => []WriterExcludes
<1>1. IInv => WriterExcludes
  BY DEF IInv
<1>2. QED
  BY Invariance, <1>1, PTL

(* The unsigned counters never wrap and never keep a free lock shut.        *)
THEOREM ExactCounters == Spec => []CountersExact
<1>1. IInv => CountersExact
  BY DEF IInv
<1>2. QED
  BY Invariance, <1>1, PTL

(* unlock() and unlock_shared() wake enough: a free lock with a waiting     *)
(* writer has one awake, and a reader sleeps only behind a writer.         *)
THEOREM WakeupsKept == Spec => []NoLostWakeup
<1>1. IInv => NoLostWakeup
  BY DEF IInv
<1>2. QED
  BY Invariance, <1>1, PTL

(* shared_mutex is a reader-writer lock: every step of a method acquires or *)
(* releases it as RWLock allows, or leaves the holders alone.              *)
THEOREM Refinement == Spec => ImplementsRWLock
<1>1. Init => Abstract!Init
  BY DEF Init, Abstract!Init, Writers, Readers
<1>2. ASSUME IInv, [Next]_vars
      PROVE  [Abstract!Next]_(Abstract!vars)
  <2> USE <1>2 DEF IInv
  <2>1. ASSUME NEW t \in Threads, pc' = [pc EXCEPT ![t] = "writes"],
               pc[t] \in {"out", "writer_awake"}, m_writer = 0, m_readers = 0
        PROVE  Abstract!AcquireExclusive(t)
    <3>1. Writers = {} /\ Readers = {}
      BY <2>1, ZeroMeansNobody
    <3>2. Writers' = {t} /\ Readers' = {}
      BY <2>1, <3>1 DEF TypeOK, Writers, Readers
    <3>3. QED
      BY <3>1, <3>2 DEF Abstract!AcquireExclusive
  <2>2. ASSUME NEW t \in Threads, pc' = [pc EXCEPT ![t] = "reads"],
               pc[t] \in {"out", "reader_awake"}, Open
        PROVE  Abstract!AcquireShared(t)
    <3>1. Writers = {} /\ t \notin Readers
      BY <2>2, ZeroMeansNobody DEF Open, Readers
    <3>2. Writers' = Writers /\ Readers' = Readers \cup {t}
      BY <2>2 DEF TypeOK, Writers, Readers
    <3>3. QED
      BY <3>1, <3>2 DEF Abstract!AcquireShared
  <2>3. ASSUME NEW t \in Threads, NEW place \in {"writer_sleeps", "reader_sleeps", "writer_awake", "reader_awake"},
               pc' = [pc EXCEPT ![t] = place], pc[t] \notin {"reads", "writes"}
        PROVE  UNCHANGED <<Writers, Readers>>
    BY <2>3 DEF TypeOK, Writers, Readers
  <2>4. ASSUME NEW t \in Threads, Unlock(t)
        PROVE  Abstract!ReleaseExclusive(t)
    <3>1. pc[t] = "writes" /\ t \in Writers /\ Writers = {t} /\ Readers = {}
      BY <2>4 DEF Unlock, WriterExcludes, Writers
    <3>2. Writers' = Writers \ {t} /\ Readers' = Readers
      BY <2>4, <3>1, WriterNotified, ReadersNotified DEF Unlock
    <3>3. QED
      BY <3>1, <3>2 DEF Abstract!ReleaseExclusive
  <2>5. ASSUME NEW t \in Threads, UnlockShared(t)
        PROVE  Abstract!ReleaseShared(t)
    <3>1. pc[t] = "reads" /\ t \in Readers /\ Writers = {}
      BY <2>5 DEF UnlockShared, WriterExcludes, Writers, Readers
    <3>2. Writers' = Writers \ {t} /\ Readers' = Readers \ {t}
      <4>1. CASE NotifyWriter(t)
        BY <3>1, <4>1, WriterNotified
      <4>2. CASE pc' = [pc EXCEPT ![t] = "out"]
        BY <3>1, <4>2 DEF TypeOK, Writers, Readers
      <4>3. QED
        BY <2>5, <4>1, <4>2 DEF UnlockShared
    <3>3. QED
      BY <3>1, <3>2 DEF Abstract!ReleaseShared
  <2>6. ASSUME UNCHANGED pc
        PROVE  UNCHANGED <<Writers, Readers>>
    BY <2>6 DEF Writers, Readers
  <2>7. ASSUME NEW t \in Threads, Lock(t) \/ LockAgain(t) \/ TryLock(t)
        PROVE  Abstract!AcquireExclusive(t) \/ UNCHANGED <<Writers, Readers>>
    BY <2>1, <2>3, <2>6, <2>7 DEF Lock, LockAgain, TryLock, Begin
  <2>8. ASSUME NEW t \in Threads, LockShared(t) \/ LockSharedAgain(t) \/ TryLockShared(t)
        PROVE  Abstract!AcquireShared(t) \/ UNCHANGED <<Writers, Readers>>
    BY <2>2, <2>3, <2>6, <2>8 DEF LockShared, LockSharedAgain, TryLockShared, Begin
  <2>9. ASSUME NEW t \in Threads, WakeSpuriously(t)
        PROVE  UNCHANGED <<Writers, Readers>>
    BY <2>3, <2>9 DEF WakeSpuriously
  <2>10. CASE UNCHANGED vars
    BY <2>6, <2>10 DEF vars, Abstract!vars
  <2>11. QED
    BY <2>4, <2>5, <2>7, <2>8, <2>9, <2>10, <1>2 DEF Next, Abstract!Next, Abstract!vars
<1>3. QED
  BY Invariance, <1>1, <1>2, PTL DEF Spec, ImplementsRWLock, Abstract!Spec

=============================================================================
