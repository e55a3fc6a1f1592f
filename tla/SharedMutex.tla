---------------------------- MODULE SharedMutex ----------------------------
(***************************************************************************)
(* std::shared_mutex of the C++ runtime headers, on the mutex and the two  *)
(* condition variables it is built from.  Everything a method does under   *)
(* m_state is one step; waiting on a condition variable releases m_state   *)
(* and ends the step.  A sleeper may wake without having been notified, as *)
(* SleepConditionVariableSRW allows.                                       *)
(***************************************************************************)
EXTENDS Naturals, FiniteSets

CONSTANTS
    Threads,
    MaxCalls        \* bound: locks a thread takes in its life

ASSUME SharedMutexAssumption == IsFiniteSet(Threads) /\ MaxCalls \in Nat

VARIABLES
    m_readers, m_writer, m_waiting_writers,
    pc,             \* per thread: its place in the methods
    calls           \* per thread: how many locks it has asked for

vars == <<m_readers, m_writer, m_waiting_writers, pc, calls>>

(* Outside, or in one of the blocking methods, or holding the lock. *)
Places == {"out", "writer_sleeps", "writer_awake", "writes",
           "reader_sleeps", "reader_awake", "reads"}

Asleep(place) == {t \in Threads : pc[t] = place}

(* A writer in lock() is asleep on m_writers_ready or awake to test again; *)
(* a reader in lock_shared() likewise on m_readers_ready.                  *)
WaitingWriters == Asleep("writer_sleeps") \cup Asleep("writer_awake")
Writers == {t \in Threads : pc[t] = "writes"}
Readers == {t \in Threads : pc[t] = "reads"}

Init ==
    /\ m_readers = 0 /\ m_writer = 0 /\ m_waiting_writers = 0
    /\ pc = [t \in Threads |-> "out"]
    /\ calls = [t \in Threads |-> 0]

Begin(t) ==
    /\ pc[t] = "out"
    /\ calls[t] < MaxCalls
    /\ calls' = [calls EXCEPT ![t] = @ + 1]

(* m_writers_ready.notify_one() and m_readers_ready.notify_all(), with t   *)
(* leaving the lock: the wake-ups are lost when nobody sleeps.             *)
NotifyWriter(t) ==
    LET left == [pc EXCEPT ![t] = "out"] IN
    IF Asleep("writer_sleeps") = {} THEN pc' = left
    ELSE \E w \in Asleep("writer_sleeps") : pc' = [left EXCEPT ![w] = "writer_awake"]

NotifyReaders(t) ==
    pc' = [u \in Threads |-> IF u = t THEN "out"
                             ELSE IF pc[u] = "reader_sleeps" THEN "reader_awake"
                             ELSE pc[u]]

-----------------------------------------------------------------------------
(* lock(): announce the writer, then take the lock or sleep *)
Lock(t) ==
    /\ Begin(t)
    /\ IF m_writer = 0 /\ m_readers = 0
         THEN /\ m_writer' = 1
              /\ pc' = [pc EXCEPT ![t] = "writes"]
              /\ UNCHANGED <<m_readers, m_waiting_writers>>
         ELSE /\ m_waiting_writers' = m_waiting_writers + 1
              /\ pc' = [pc EXCEPT ![t] = "writer_sleeps"]
              /\ UNCHANGED <<m_readers, m_writer>>

(* Faulty variant: the woken writer does not test the lock again. *)
LockAgainUntested(t) ==
    /\ pc[t] = "writer_awake"
    /\ m_writer' = 1
    /\ m_waiting_writers' = m_waiting_writers - 1
    /\ pc' = [pc EXCEPT ![t] = "writes"]
    /\ UNCHANGED <<m_readers, calls>>

(* The woken writer tests again. *)
LockAgain(t) ==
    /\ pc[t] = "writer_awake"
    /\ IF m_writer = 0 /\ m_readers = 0
         THEN /\ m_writer' = 1
              /\ m_waiting_writers' = m_waiting_writers - 1
              /\ pc' = [pc EXCEPT ![t] = "writes"]
         ELSE /\ pc' = [pc EXCEPT ![t] = "writer_sleeps"]
              /\ UNCHANGED <<m_writer, m_waiting_writers>>
    /\ UNCHANGED <<m_readers, calls>>

(* try_lock(): waiting writers do not keep it out *)
TryLock(t) ==
    /\ Begin(t)
    /\ IF m_writer = 0 /\ m_readers = 0
         THEN m_writer' = 1 /\ pc' = [pc EXCEPT ![t] = "writes"]
         ELSE UNCHANGED <<m_writer, pc>>
    /\ UNCHANGED <<m_readers, m_waiting_writers>>

(* Faulty variant: unlock() wakes the readers although writers wait. *)
UnlockForReaders(t) ==
    /\ pc[t] = "writes"
    /\ m_writer' = 0
    /\ NotifyReaders(t)
    /\ UNCHANGED <<m_readers, m_waiting_writers, calls>>

(* unlock(): one waiting writer goes first, else every reader *)
Unlock(t) ==
    /\ pc[t] = "writes"
    /\ m_writer' = 0
    /\ IF m_waiting_writers # 0 THEN NotifyWriter(t) ELSE NotifyReaders(t)
    /\ UNCHANGED <<m_readers, m_waiting_writers, calls>>

(* Readers stay out while a writer holds the lock or waits for it. *)
Open == m_writer = 0 /\ m_waiting_writers = 0

(* lock_shared(), on arrival and after a wake-up *)
LockShared(t) ==
    /\ Begin(t)
    /\ IF Open
         THEN m_readers' = m_readers + 1 /\ pc' = [pc EXCEPT ![t] = "reads"]
         ELSE pc' = [pc EXCEPT ![t] = "reader_sleeps"] /\ UNCHANGED m_readers
    /\ UNCHANGED <<m_writer, m_waiting_writers>>

LockSharedAgain(t) ==
    /\ pc[t] = "reader_awake"
    /\ IF Open
         THEN m_readers' = m_readers + 1 /\ pc' = [pc EXCEPT ![t] = "reads"]
         ELSE pc' = [pc EXCEPT ![t] = "reader_sleeps"] /\ UNCHANGED m_readers
    /\ UNCHANGED <<m_writer, m_waiting_writers, calls>>

TryLockShared(t) ==
    /\ Begin(t)
    /\ IF Open
         THEN m_readers' = m_readers + 1 /\ pc' = [pc EXCEPT ![t] = "reads"]
         ELSE UNCHANGED <<m_readers, pc>>
    /\ UNCHANGED <<m_writer, m_waiting_writers>>

(* Faulty variant: the reader count is tested before it is decremented. *)
UnlockSharedLate(t) ==
    /\ pc[t] = "reads"
    /\ m_readers' = m_readers - 1
    /\ IF m_readers = 0 /\ m_waiting_writers # 0
         THEN NotifyWriter(t)
         ELSE pc' = [pc EXCEPT ![t] = "out"]
    /\ UNCHANGED <<m_writer, m_waiting_writers, calls>>

(* unlock_shared(): the last reader wakes a waiting writer *)
UnlockShared(t) ==
    /\ pc[t] = "reads"
    /\ m_readers' = m_readers - 1
    /\ IF m_readers - 1 = 0 /\ m_waiting_writers # 0
         THEN NotifyWriter(t)
         ELSE pc' = [pc EXCEPT ![t] = "out"]
    /\ UNCHANGED <<m_writer, m_waiting_writers, calls>>

(* A sleeper wakes although nobody notified it. *)
WakeSpuriously(t) ==
    /\ \/ pc[t] = "writer_sleeps" /\ pc' = [pc EXCEPT ![t] = "writer_awake"]
       \/ pc[t] = "reader_sleeps" /\ pc' = [pc EXCEPT ![t] = "reader_awake"]
    /\ UNCHANGED <<m_readers, m_writer, m_waiting_writers, calls>>

Holder(t) ==
    \/ LockAgain(t) \/ Unlock(t) \/ LockSharedAgain(t) \/ UnlockShared(t)

Next ==
    \E t \in Threads :
        \/ Lock(t) \/ TryLock(t) \/ LockShared(t) \/ TryLockShared(t)
        \/ LockAgain(t) \/ Unlock(t) \/ LockSharedAgain(t) \/ UnlockShared(t)
        \/ WakeSpuriously(t)

(* A thread that is not asleep runs on, and a holder releases in the end.  *)
Fairness == \A t \in Threads : WF_vars(Holder(t))

Spec == Init /\ [][Next]_vars /\ Fairness

-----------------------------------------------------------------------------
TypeOK ==
    /\ m_readers \in Nat /\ m_writer \in 0..1 /\ m_waiting_writers \in Nat
    /\ pc \in [Threads -> Places]
    /\ calls \in [Threads -> 0..MaxCalls]

(* The counters are the holders and waiters: an unsigned that lost count   *)
(* would wrap or keep the lock shut.                                       *)
CountersExact ==
    /\ m_readers = Cardinality(Readers)
    /\ m_waiting_writers = Cardinality(WaitingWriters)
    /\ m_writer = Cardinality(Writers)

(* "a writer excludes every other holder" (shared_mutex, class comment) *)
WriterExcludes == \A t \in Writers : Writers = {t} /\ Readers = {}

(* No wake-up is lost: while the lock is free a waiting writer is awake,   *)
(* and readers sleep only behind a writer.                                 *)
NoLostWakeup ==
    /\ m_writer = 0 /\ m_readers = 0 /\ WaitingWriters # {} => Asleep("writer_awake") # {}
    /\ Asleep("reader_sleeps") # {} => m_writer = 1 \/ WaitingWriters # {}

(* Every method returns: whoever waits gets the lock in the end, the       *)
(* number of calls being finite.                                           *)
EveryCallReturns == \A t \in Threads : (pc[t] # "out") ~> (pc[t] = "out")

(* shared_mutex implements a reader-writer lock. *)
Abstract == INSTANCE RWLock WITH writers <- Writers, readers <- Readers

ImplementsRWLock == Abstract!Spec

=============================================================================
