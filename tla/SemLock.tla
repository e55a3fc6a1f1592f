------------------------------ MODULE SemLock ------------------------------
(***************************************************************************)
(* CPRIMESem (src/include/cprime/cprime.h): a Windows critical section     *)
(* that the first caller of wait_sem initialises.  The test of init, the   *)
(* initialisation and the setting of init are separate steps: nothing      *)
(* orders the threads that arrive before init has been set.                *)
(*                                                                         *)
(* A critical section re-initialised while a thread is inside is unowned.  *)
(* Leaving a critical section one does not own corrupts it: the model lets *)
(* the owner stay or be lost.                                              *)
(*                                                                         *)
(* The names are such that a module may extend this one together with the  *)
(* specification of a user of the semaphore.                               *)
(***************************************************************************)
CONSTANTS
    Callers,
    NoCaller,
    Early           \* the threads that may call before init has been set

ASSUME CallerAssumption == NoCaller \notin Callers
ASSUME EarlyAssumption == Early \subseteq Callers

VARIABLES
    sem_init,       \* p->init
    sem_owner,      \* the thread that owns p->cs, or NoCaller
    sem_pc          \* where each thread is in wait_sem / post_sem

sem_vars == <<sem_init, sem_owner, sem_pc>>

SemInit ==
    /\ sem_init = FALSE
    /\ sem_owner = NoCaller
    /\ sem_pc = [t \in Callers |-> "out"]

(* if (!p->init); a thread outside Early makes its first call later *)
Test(t) ==
    /\ sem_pc[t] = "out"
    /\ t \in Early \/ sem_init
    /\ sem_pc' = [sem_pc EXCEPT ![t] = IF sem_init THEN "enter" ELSE "initialize"]
    /\ UNCHANGED <<sem_init, sem_owner>>

(* InitializeCriticalSection(&p->cs) *)
Initialize(t) ==
    /\ sem_pc[t] = "initialize"
    /\ sem_owner' = NoCaller
    /\ sem_pc' = [sem_pc EXCEPT ![t] = "publish"]
    /\ UNCHANGED sem_init

(* p->init = 1 *)
Publish(t) ==
    /\ sem_pc[t] = "publish"
    /\ sem_init' = TRUE
    /\ sem_pc' = [sem_pc EXCEPT ![t] = "enter"]
    /\ UNCHANGED sem_owner

(* Faulty variant: the section is entered without waiting for its owner. *)
EnterSectionWithoutWaiting(t) ==
    /\ sem_pc[t] = "enter"
    /\ sem_owner' = t
    /\ sem_pc' = [sem_pc EXCEPT ![t] = "in"]
    /\ UNCHANGED sem_init

(* EnterCriticalSection(&p->cs) *)
EnterSection(t) ==
    /\ sem_pc[t] = "enter"
    /\ sem_owner = NoCaller
    /\ sem_owner' = t
    /\ sem_pc' = [sem_pc EXCEPT ![t] = "in"]
    /\ UNCHANGED sem_init

(* LeaveCriticalSection(&p->cs) *)
LeaveSection(t) ==
    /\ sem_pc[t] = "in"
    /\ sem_owner' \in IF sem_owner = t THEN {NoCaller} ELSE {sem_owner, NoCaller}
    /\ sem_pc' = [sem_pc EXCEPT ![t] = "out"]
    /\ UNCHANGED sem_init

SemNext ==
    \E t \in Callers :
        \/ Test(t)
        \/ Initialize(t)
        \/ Publish(t)
        \/ EnterSection(t)
        \/ LeaveSection(t)

SemSpec == SemInit /\ [][SemNext]_sem_vars

-----------------------------------------------------------------------------
Inside == {t \in Callers : sem_pc[t] = "in"}

SemTypeOK ==
    /\ sem_init \in BOOLEAN
    /\ sem_owner \in Callers \cup {NoCaller}
    /\ sem_pc \in [Callers -> {"out", "initialize", "publish", "enter", "in"}]

(* cprime_compile (libcprime.c) relies on the lock: "Other threads need to *)
(* wait until we're done."  Two threads are never inside together.         *)
MutualExclusion == \A s, t \in Inside : s = t

(* As long as only one thread can meet the uninitialised lock, wait_sem    *)
(* and post_sem are the lock of Mutex.                                     *)
Lock == INSTANCE Mutex WITH Threads <- Callers, inside <- Inside

ImplementsMutex == Lock!Spec

(* No thread is inside the section while another still prepares it, and a  *)
(* section is prepared only while init is clear.                           *)
PreparedBeforeUse ==
    \A t \in Callers : sem_pc[t] \in {"initialize", "publish"} => Inside = {} /\ ~sem_init

(* EnterCriticalSection and LeaveCriticalSection agree on the owner: the   *)
(* thread inside is the one the section records.                           *)
OwnerIsInside == \A t \in Callers : (sem_pc[t] = "in") <=> (sem_owner = t)

=============================================================================
