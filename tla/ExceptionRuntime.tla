-------------------------- MODULE ExceptionRuntime --------------------------
(***************************************************************************)
(* The exception runtime of native C++ programs (exception.c) under user   *)
(* code that throws, catches, rethrows and keeps exception_ptr handles.  A *)
(* thread's stack holds the activations the runtime can meet: blocks with  *)
(* handlers, objects to destroy, noexcept functions, handlers at work, and *)
(* the code the runtime itself calls: destructors, the copy of a catch     *)
(* parameter, the terminate handler.  A position in the stack stands for   *)
(* the frame address the runtime compares.                                 *)
(***************************************************************************)
EXTENDS Integers, FiniteSets, Sequences, FiniteSetsExt, SequencesExt

CONSTANTS
    Threads,
    Exceptions,         \* the exception objects, allocated again when free
    MaxDepth,           \* bound: activations that user code stacks up, in all threads
    MaxHandles,         \* bound: exception_ptr handles held, in all threads
    NoException

ASSUME NoExceptionAssumption == NoException \notin Exceptions

VARIABLES
    stack,              \* per thread: its activations, the innermost last
    unwinding,          \* per thread: the unwind in progress
    caught, uncaught, terminating, boundary,    \* CpcEhThread
    status,             \* per exception: free, being constructed or live
    references,         \* per exception
    handles,            \* per thread: the exceptions it holds a handle to
    aborted,
    tls, tlsInit,       \* cpc_eh_tls, the keys counted, and cpc_eh_tls_init
    keyStep,            \* per thread: where it is in cpc_eh_init_thread_key
    slot                \* per thread: the key its CpcEhThread is stored under

program == <<stack, unwinding, status, references, handles>>
threadState == <<caught, uncaught, terminating, boundary>>
key == <<tls, tlsInit, keyStep, slot>>
vars == <<program, threadState, key, aborted>>

(* What runs when nothing is being unwound *)
Calm == [exc |-> NoException, target |-> 0]

Activation(kind, exc) ==
    [kind |-> kind, exc |-> exc, takes |-> {}, boundary |-> 0, unwinding |-> Calm]

Try(takes) == [Activation("try", NoException) EXCEPT !.takes = takes]

(* Code the runtime calls, with the boundary and the unwind to go back to. *)
Copy(e, b) == [Activation("copy", e) EXCEPT !.boundary = b]

Destructor(e, b, u) ==
    [kind |-> "destructor", exc |-> e, takes |-> {}, boundary |-> b, unwinding |-> u]

Depth(t) == Len(stack[t])
Top(t) == Last(stack[t])
Below(t) == Front(stack[t])

Init ==
    /\ stack = [t \in Threads |-> <<>>]
    /\ unwinding = [t \in Threads |-> Calm]
    /\ caught = [t \in Threads |-> <<>>]
    /\ uncaught = [t \in Threads |-> 0]
    /\ terminating = [t \in Threads |-> FALSE]
    /\ boundary = [t \in Threads |-> 0]
    /\ status = [e \in Exceptions |-> "free"]
    /\ references = [e \in Exceptions |-> 0]
    /\ handles = [t \in Threads |-> {}]
    /\ aborted = FALSE
    /\ tls = 0
    /\ tlsInit = 0
    /\ keyStep = [t \in Threads |-> "none"]
    /\ slot = [t \in Threads |-> 0]

(* User code runs in t. *)
Running(t) == ~aborted /\ unwinding[t] = Calm /\ keyStep[t] = "none"

(* The innermost activation is of this kind. *)
Inside(t, kind) == Running(t) /\ stack[t] # <<>> /\ Top(t).kind = kind

SetStack(t, s) == stack' = [stack EXCEPT ![t] = s]

-----------------------------------------------------------------------------
(* cpc_eh_thread: the key, once in the program, and a state, once in each   *)
(* thread.  A call finds both, *)
Has(t) == tlsInit = 2 /\ slot[t] = tls

(* Faulty variant: looked at and set without an interlock. *)
FirstUnlocked(init) == init # 2

(* or the first one makes the key *)
First(init) == init = 0

(* while the others wait for it. *)
InitKey(t) ==
    /\ Running(t) /\ tlsInit # 2
    /\ tlsInit' = IF First(tlsInit) THEN 1 ELSE tlsInit
    /\ keyStep' = [keyStep EXCEPT ![t] = IF First(tlsInit) THEN "make" ELSE "wait"]
    /\ UNCHANGED <<program, threadState, tls, slot, aborted>>

MakeKey(t) ==
    /\ ~aborted /\ keyStep[t] = "make"
    /\ tls' = tls + 1
    /\ keyStep' = [keyStep EXCEPT ![t] = "publish"]
    /\ UNCHANGED <<program, threadState, tlsInit, slot, aborted>>

PublishKey(t) ==
    /\ ~aborted /\ keyStep[t] = "publish"
    /\ tlsInit' = 2
    /\ keyStep' = [keyStep EXCEPT ![t] = "none"]
    /\ UNCHANGED <<program, threadState, tls, slot, aborted>>

AwaitKey(t) ==
    /\ ~aborted /\ keyStep[t] = "wait" /\ tlsInit = 2
    /\ keyStep' = [keyStep EXCEPT ![t] = "none"]
    /\ UNCHANGED <<program, threadState, tls, tlsInit, slot, aborted>>

(* Under this key t has no state yet: it gets a blank one. *)
MakeState(t) ==
    /\ ~aborted /\ keyStep[t] = "none" /\ tlsInit = 2 /\ slot[t] # tls
    /\ slot' = [slot EXCEPT ![t] = tls]
    /\ caught' = [caught EXCEPT ![t] = <<>>]
    /\ uncaught' = [uncaught EXCEPT ![t] = 0]
    /\ terminating' = [terminating EXCEPT ![t] = FALSE]
    /\ boundary' = [boundary EXCEPT ![t] = 0]
    /\ UNCHANGED <<program, tls, tlsInit, keyStep, aborted>>

(* Room for another activation.  As a bound too, a thread has called the    *)
(* runtime, for uncaught_exceptions() say, before it nests any.            *)
Roomy(t) ==
    /\ Running(t) /\ Has(t)
    /\ Cardinality(UNION {{u} \X DOMAIN stack[u] : u \in Threads}) < MaxDepth

-----------------------------------------------------------------------------
(* Ordinary control flow.  A block without a handler for anything thrown is *)
(* passed as if it was not there.                                          *)
Enter(t) ==
    /\ Roomy(t)
    /\ \/ \E kind \in {"object", "noexcept"} :
              SetStack(t, Append(stack[t], Activation(kind, NoException)))
       \/ \E takes \in (SUBSET Exceptions) \ {{}} : SetStack(t, Append(stack[t], Try(takes)))
    /\ UNCHANGED <<unwinding, caught, uncaught, terminating, boundary,
                   status, references, handles, aborted>>

Leave(t) ==
    /\ \E kind \in {"object", "noexcept", "try"} : Inside(t, kind)
    /\ SetStack(t, Below(t))
    /\ UNCHANGED <<unwinding, caught, uncaught, terminating, boundary,
                   status, references, handles, aborted>>

(* terminate(), with the exception that caused it or without one, above the *)
(* activations s: the terminate handler runs, at most once in a thread.    *)
Terminate(t, s, e) ==
    /\ caught' = [caught EXCEPT ![t] =
                     IF e = NoException THEN @ ELSE Append(@, [exc |-> e, at |-> Len(s) + 1])]
    /\ IF terminating[t]
         THEN aborted' = TRUE /\ UNCHANGED <<terminating, boundary, stack>>
         ELSE /\ terminating' = [terminating EXCEPT ![t] = TRUE]
              /\ boundary' = [boundary EXCEPT ![t] = Len(s) + 1]
              /\ SetStack(t, Append(s, Activation("terminate", e)))
              /\ UNCHANGED aborted
    /\ unwinding' = [unwinding EXCEPT ![t] = Calm]

(* Faulty variant: the search passes noexcept functions. *)
DecidingHandlers(t, s, e) ==
    {i \in DOMAIN s : i <= boundary[t] \/ e \in s[i].takes}

(* The innermost activation of s that decides about e: one the search may  *)
(* not pass, or a handler for e.                                           *)
Deciding(t, s, e) ==
    {i \in DOMAIN s : i <= boundary[t] \/ s[i].kind = "noexcept" \/ e \in s[i].takes}

(* cpc_eh_raise: e is in flight.  It is unwound to a handler, or there is  *)
(* none to be reached and the program terminates.                          *)
Raise(t, s, e) ==
    LET D == Deciding(t, s, e) IN
    /\ uncaught' = [uncaught EXCEPT ![t] = @ + 1]
    /\ IF D # {} /\ Max(D) > boundary[t] /\ e \in s[Max(D)].takes
         THEN /\ unwinding' = [unwinding EXCEPT ![t] = [exc |-> e, target |-> Max(D)]]
              /\ SetStack(t, s)
              /\ UNCHANGED <<caught, terminating, boundary, aborted>>
         ELSE Terminate(t, s, e)

(* throw: the exception is allocated, constructed by user code, thrown.     *)
Allocate(t, e) ==
    /\ Roomy(t)
    /\ status[e] = "free"
    /\ status' = [status EXCEPT ![e] = "constructed"]
    /\ references' = [references EXCEPT ![e] = 1]
    /\ SetStack(t, Append(stack[t], Activation("construct", e)))
    /\ UNCHANGED <<unwinding, caught, uncaught, terminating, boundary, handles, aborted>>

Throw(t) ==
    /\ Inside(t, "construct")
    /\ status' = [status EXCEPT ![Top(t).exc] = "live"]
    /\ Raise(t, Below(t), Top(t).exc)
    /\ UNCHANGED <<references, handles>>

(* Faulty variant: throw; passes on the handler's reference. *)
RethrowUncounted(t) ==
    /\ Running(t)
    /\ caught[t] # <<>>
    /\ Raise(t, stack[t], Last(caught[t]).exc)
    /\ UNCHANGED <<status, references, handles>>

(* throw; in a handler, or outside of every handler *)
Rethrow(t) ==
    /\ Running(t)
    /\ IF caught[t] = <<>>
         THEN Terminate(t, stack[t], NoException) /\ UNCHANGED <<references, uncaught>>
         ELSE LET e == Last(caught[t]).exc IN
              /\ references' = [references EXCEPT ![e] = @ + 1]
              /\ Raise(t, stack[t], e)
    /\ UNCHANGED <<status, handles>>

-----------------------------------------------------------------------------
(* A reference to e is given up above the activations s, with the unwind u *)
(* to go on with: the last one destroys the object behind a boundary.      *)
Release(t, s, e, u) ==
    /\ references' = [references EXCEPT ![e] = @ - 1]
    /\ IF references[e] = 1
         THEN /\ SetStack(t, Append(s, Destructor(e, boundary[t], u)))
              /\ boundary' = [boundary EXCEPT ![t] = Len(s) + 1]
              /\ unwinding' = [unwinding EXCEPT ![t] = Calm]
         ELSE SetStack(t, s) /\ UNCHANGED <<boundary, unwinding>>

(* A destructor the runtime called returns. *)
EndDestructor(t) ==
    /\ Inside(t, "destructor")
    /\ SetStack(t, Below(t))
    /\ boundary' = [boundary EXCEPT ![t] = Top(t).boundary]
    /\ unwinding' = [unwinding EXCEPT ![t] = Top(t).unwinding]
    /\ status' = [e \in Exceptions |-> IF e = Top(t).exc THEN "free" ELSE status[e]]
    /\ UNCHANGED <<caught, uncaught, terminating, references, handles, aborted>>

(* begin_catch: the activation becomes a handler of e. *)
BeginCatch(t, s, e) ==
    /\ SetStack(t, Append(s, Activation("handler", e)))
    /\ caught' = [caught EXCEPT ![t] = Append(@, [exc |-> e, at |-> Len(s) + 1])]
    /\ uncaught' = [uncaught EXCEPT ![t] = @ - 1]

(* Faulty variant: end_catch leaves no handler behind. *)
EndCatchClears(t, s, u) ==
    /\ caught' = [caught EXCEPT ![t] = <<>>]
    /\ Release(t, s, Top(t).exc, u)
    /\ UNCHANGED <<terminating, aborted>>

(* end_catch by the innermost handler, above the activations s; the handler *)
(* must be the one that caught last.                                       *)
EndCatch(t, s, u) ==
    IF caught[t] = <<>> \/ Last(caught[t]).at # Depth(t)
      THEN Terminate(t, s, NoException) /\ UNCHANGED references
      ELSE /\ caught' = [caught EXCEPT ![t] = Front(@)]
           /\ Release(t, s, Top(t).exc, u)
           /\ UNCHANGED <<terminating, aborted>>

LeaveHandler(t) ==
    /\ Inside(t, "handler")
    /\ EndCatch(t, Below(t), Calm)
    /\ UNCHANGED <<uncaught, status, handles>>

-----------------------------------------------------------------------------
(* The unwind leaves the innermost activation. *)
UnwindOne(t) ==
    /\ ~aborted /\ unwinding[t] # Calm /\ Depth(t) > unwinding[t].target
    /\ \/ /\ Top(t).kind = "try"
          /\ SetStack(t, Below(t))
          /\ UNCHANGED <<unwinding, caught, terminating, boundary, status, references, aborted>>
       \/ /\ Top(t).kind = "object"
          /\ SetStack(t, Append(Below(t), Destructor(NoException, boundary[t], unwinding[t])))
          /\ boundary' = [boundary EXCEPT ![t] = Depth(t)]
          /\ unwinding' = [unwinding EXCEPT ![t] = Calm]
          /\ UNCHANGED <<caught, terminating, status, references, aborted>>
       \/ /\ Top(t).kind = "construct"
          /\ SetStack(t, Below(t))
          /\ status' = [status EXCEPT ![Top(t).exc] = "free"]
          /\ references' = [references EXCEPT ![Top(t).exc] = 0]
          /\ UNCHANGED <<unwinding, caught, terminating, boundary, aborted>>
       \/ /\ Top(t).kind = "handler"
          /\ EndCatch(t, Below(t), unwinding[t])
          /\ UNCHANGED status
    /\ UNCHANGED <<uncaught, handles>>

(* The handler is reached.  It takes the exception at once, *)
Land(t) ==
    /\ ~aborted /\ unwinding[t] # Calm /\ Depth(t) = unwinding[t].target
    /\ BeginCatch(t, Below(t), unwinding[t].exc)
    /\ unwinding' = [unwinding EXCEPT ![t] = Calm]
    /\ UNCHANGED <<terminating, boundary, status, references, handles, aborted>>

(* or first copies it into its parameter, which may not throw. *)
LandCopying(t) ==
    /\ ~aborted /\ unwinding[t] # Calm /\ Depth(t) = unwinding[t].target
    /\ SetStack(t, Append(Below(t), Copy(unwinding[t].exc, boundary[t])))
    /\ boundary' = [boundary EXCEPT ![t] = Depth(t)]
    /\ unwinding' = [unwinding EXCEPT ![t] = Calm]
    /\ UNCHANGED <<caught, uncaught, terminating, status, references, handles, aborted>>

EndCopy(t) ==
    /\ Inside(t, "copy")
    /\ boundary' = [boundary EXCEPT ![t] = Top(t).boundary]
    /\ BeginCatch(t, Below(t), Top(t).exc)
    /\ UNCHANGED <<unwinding, terminating, status, references, handles, aborted>>

(* The terminate handler returns. *)
EndTerminate(t) ==
    /\ Inside(t, "terminate")
    /\ aborted' = TRUE
    /\ UNCHANGED <<stack, unwinding, caught, uncaught, terminating, boundary,
                   status, references, handles>>

-----------------------------------------------------------------------------
MoreHandles == Cardinality(UNION {{t} \X handles[t] : t \in Threads}) < MaxHandles

(* current_exception() *)
CurrentException(t) ==
    /\ Running(t) /\ caught[t] # <<>> /\ MoreHandles
    /\ LET e == Last(caught[t]).exc IN
       /\ e \notin handles[t]
       /\ references' = [references EXCEPT ![e] = @ + 1]
       /\ handles' = [handles EXCEPT ![t] = @ \cup {e}]
    /\ UNCHANGED <<stack, unwinding, caught, uncaught, terminating, boundary, status, aborted>>

(* A copy of the exception_ptr of t goes to u. *)
RetainException(t, u, e) ==
    /\ Running(t) /\ e \in handles[t] /\ e \notin handles[u] /\ MoreHandles
    /\ references' = [references EXCEPT ![e] = @ + 1]
    /\ handles' = [handles EXCEPT ![u] = @ \cup {e}]
    /\ UNCHANGED <<stack, unwinding, caught, uncaught, terminating, boundary, status, aborted>>

RethrowException(t, e) ==
    /\ Running(t) /\ e \in handles[t]
    /\ references' = [references EXCEPT ![e] = @ + 1]
    /\ Raise(t, stack[t], e)
    /\ UNCHANGED <<status, handles>>

(* An exception_ptr is destroyed. *)
ReleaseException(t, e) ==
    /\ Roomy(t) /\ e \in handles[t]
    /\ handles' = [handles EXCEPT ![t] = @ \ {e}]
    /\ Release(t, stack[t], e, Calm)
    /\ UNCHANGED <<caught, uncaught, terminating, status, aborted>>

(* What t does without the runtime's state of the thread, or with the one *)
(* it was given before; *)
WithoutState(t) ==
    \/ Enter(t) \/ Leave(t)
    \/ EndDestructor(t) \/ EndTerminate(t)
    \/ \E e \in Exceptions :
          \/ Allocate(t, e) \/ ReleaseException(t, e)
          \/ \E u \in Threads : RetainException(t, u, e)

(* what begins with cpc_eh_thread. *)
WithState(t) ==
    \/ Throw(t) \/ Rethrow(t) \/ LeaveHandler(t)
    \/ UnwindOne(t) \/ Land(t) \/ LandCopying(t) \/ EndCopy(t)
    \/ CurrentException(t)
    \/ \E e \in Exceptions : RethrowException(t, e)

Next ==
    \E t \in Threads :
        \/ WithoutState(t) /\ UNCHANGED key
        \/ Has(t) /\ WithState(t) /\ UNCHANGED key
        \/ InitKey(t) \/ MakeKey(t) \/ PublishKey(t) \/ AwaitKey(t) \/ MakeState(t)

Spec == Init /\ [][Next]_vars

-----------------------------------------------------------------------------
(* An activation keeps an exception in flight: a destructor has interrupted *)
(* its unwind, it is being copied, or it is the cause of termination.      *)
KeepsInFlight(a) ==
    a.unwinding # Calm \/ (a.kind \in {"copy", "terminate"} /\ a.exc # NoException)

(* Where t has an exception in flight; 0 stands for the unwind in progress. *)
InFlight(t) ==
    {i \in DOMAIN stack[t] : KeepsInFlight(stack[t][i])}
    \cup (IF unwinding[t] = Calm THEN {} ELSE {0})

(* uncaught_exceptions() is the number of exceptions in flight, however    *)
(* throws, cleanups and handlers nest.                                     *)
UncaughtExact == ~aborted => \A t \in Threads : uncaught[t] = Cardinality(InFlight(t))

(* An activation holds e: in flight, as its handler, or while it constructs *)
(* it; a destructor called for e does not.                                 *)
Holds(a, e) == a.unwinding.exc = e \/ (a.kind # "destructor" /\ a.exc = e)

(* Where t holds e: activations, the unwind in progress (0), and an        *)
(* exception_ptr (-1).                                                     *)
HeldAt(t, e) ==
    {i \in DOMAIN stack[t] : Holds(stack[t][i], e)}
    \cup (IF unwinding[t].exc = e THEN {0} ELSE {})
    \cup (IF e \in handles[t] THEN {-1} ELSE {})

DestroyedAt(t, e) ==
    {i \in DOMAIN stack[t] : stack[t][i].kind = "destructor" /\ stack[t][i].exc = e}

Holders(e) == UNION {{t} \X HeldAt(t, e) : t \in Threads}
Destroyers(e) == UNION {{t} \X DestroyedAt(t, e) : t \in Threads}

(* An exception lives as long as anything holds it, is destroyed by one     *)
(* thread, once, and then freed.                                           *)
FreedOnce ==
    ~aborted => \A e \in Exceptions :
        /\ status[e] = "free" <=> Holders(e) = {} /\ Destroyers(e) = {}
        /\ \A p, q \in Destroyers(e) : p = q
        /\ Destroyers(e) # {} => Holders(e) = {}

(* What throw; and current_exception may mean: a handler at work, or the   *)
(* terminate handler, if an exception caused termination.                  *)
HandlesOne(a) ==
    a.kind = "handler" \/ (a.kind = "terminate" /\ a.exc # NoException)

(* The chain of catch contexts names the handlers at work, innermost last,  *)
(* so throw; and current_exception mean the right exception, that which    *)
(* caused termination included.                                            *)
CaughtIsHandlers ==
    ~aborted => \A t \in Threads :
        /\ {caught[t][k] : k \in DOMAIN caught[t]} =
               {[exc |-> stack[t][i].exc, at |-> i] :
                    i \in {j \in DOMAIN stack[t] : HandlesOne(stack[t][j])}}
        /\ \A j, k \in DOMAIN caught[t] : j < k => caught[t][j].at < caught[t][k].at

(* An exception never leaves a destructor, a parameter copy, the terminate  *)
(* handler or a noexcept function, and never passes a handler for it.      *)
UnwindStaysInside ==
    \A t \in Threads : unwinding[t] # Calm =>
        /\ unwinding[t].target \in DOMAIN stack[t]
        /\ unwinding[t].exc \in stack[t][unwinding[t].target].takes
        /\ \A i \in unwinding[t].target + 1 .. Depth(t) :
              /\ stack[t][i].kind \notin {"copy", "destructor", "terminate", "noexcept"}
              /\ unwinding[t].exc \notin stack[t][i].takes

=============================================================================
