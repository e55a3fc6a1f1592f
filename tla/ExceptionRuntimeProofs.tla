----------------------- MODULE ExceptionRuntimeProofs -----------------------
(***************************************************************************)
(* The safety properties of the exception runtime for any threads,         *)
(* exceptions and depth of nesting.                                        *)
(***************************************************************************)
EXTENDS ExceptionRuntime, FiniteSetTheorems, WellFoundedInduction, TLAPS

(* The activations there can be: who names an exception, who takes some,   *)
(* and whose unwind goes on later.                                         *)
Unwinds == {Calm} \cup [exc : Exceptions, target : Nat]

Kinds == {"try", "object", "noexcept", "construct", "handler", "copy", "destructor", "terminate"}

WellFormed(a) ==
    /\ a.kind \in {"try", "object", "noexcept"} => a.exc = NoException
    /\ a.kind \in {"construct", "handler", "copy"} => a.exc \in Exceptions
    /\ a.kind # "try" => a.takes = {}
    /\ a.kind # "destructor" => a.unwinding = Calm

Activations ==
    {a \in [kind : Kinds, exc : Exceptions \cup {NoException}, takes : SUBSET Exceptions,
            boundary : Nat, unwinding : Unwinds] : WellFormed(a)}

Contexts == [exc : Exceptions, at : Nat]

TypeOK ==
    /\ stack \in [Threads -> Seq(Activations)]
    /\ unwinding \in [Threads -> Unwinds]
    /\ caught \in [Threads -> Seq(Contexts)]
    /\ uncaught \in [Threads -> Int]
    /\ terminating \in [Threads -> BOOLEAN]
    /\ boundary \in [Threads -> Nat]
    /\ status \in [Exceptions -> {"free", "constructed", "live"}]
    /\ references \in [Exceptions -> Int]
    /\ handles \in [Threads -> SUBSET Exceptions]
    /\ aborted \in BOOLEAN
    /\ keyStep \in [Threads -> {"none", "make", "publish", "wait"}]
    /\ DOMAIN slot = Threads

-----------------------------------------------------------------------------
(* One thread makes the key, and a thread without a state is untouched. *)
OneKeyMaker ==
    \A t \in Threads : keyStep[t] \in {"make", "publish"} =>
        /\ tlsInit = 1
        /\ \A v \in Threads : keyStep[v] \in {"make", "publish"} => v = t

BlankUntilMade ==
    \A t \in Threads : ~Has(t) =>
        /\ stack[t] = <<>> /\ unwinding[t] = Calm
        /\ caught[t] = <<>> /\ uncaught[t] = 0 /\ terminating[t] = FALSE /\ boundary[t] = 0

(* The unwind u can go on over the first n activations of s: to a handler, *)
(* past nothing that stops it or takes its exception.                      *)
Path(s, n, u) ==
    u # Calm =>
        /\ u.target \in 1 .. n
        /\ u.exc \in s[u.target].takes
        /\ \A i \in u.target + 1 .. n :
              /\ s[i].kind \notin {"copy", "destructor", "terminate", "noexcept"}
              /\ u.exc \notin s[i].takes

(* The search that stops at b meets no code the runtime called above it. *)
Fence(s, n, b) ==
    \A i \in 1 .. n : i > b => s[i].kind \notin {"copy", "destructor", "terminate"}

(* Both, for the thread and for what each activation will put back. *)
SavedRouted(s) ==
    \A i \in DOMAIN s :
        /\ Path(s, i - 1, s[i].unwinding)
        /\ s[i].kind \in {"copy", "destructor"} => Fence(s, i - 1, s[i].boundary)

Routed(s, u, b) ==
    /\ Path(s, Len(s), u)
    /\ Fence(s, Len(s), b)
    /\ SavedRouted(s)

AllRouted == \A t \in Threads : Routed(stack[t], unwinding[t], boundary[t])

-----------------------------------------------------------------------------
(* Where an exception is being constructed, by a throw expression that is  *)
(* the only one to hold it.                                                *)
ConstructedAt(t, e) ==
    {i \in DOMAIN stack[t] : stack[t][i].kind = "construct" /\ stack[t][i].exc = e}

Constructors(e) == UNION {{t} \X ConstructedAt(t, e) : t \in Threads}

(* What the count r and the status st of an exception say of those that    *)
(* hold it, H, that destroy it, D, and that construct it, C.               *)
Books(H, D, C, r, st) ==
    /\ IsFiniteSet(H) /\ r = Cardinality(H)
    /\ st = "free" <=> H = {} /\ D = {}
    /\ \A p, q \in D : p = q
    /\ D # {} => H = {}
    /\ C \subseteq H
    /\ C # {} => r = 1

AllBooks ==
    ~aborted => \A e \in Exceptions :
        Books(Holders(e), Destroyers(e), Constructors(e), references[e], status[e])

-----------------------------------------------------------------------------
(* The catch contexts c are those of the handlers at work in the stack s.  *)
ContextsOf(c) == {c[k] : k \in DOMAIN c}

HandlerPlaces(s) ==
    {[exc |-> s[i].exc, at |-> i] : i \in {j \in DOMAIN s : HandlesOne(s[j])}}

Chain(s, c) ==
    /\ ContextsOf(c) = HandlerPlaces(s)
    /\ \A j, k \in DOMAIN c : j < k => c[j].at < c[k].at

(* n exceptions are in flight in the stack s and the unwind u. *)
Flight(s, u) ==
    {i \in DOMAIN s : KeepsInFlight(s[i])} \cup (IF u = Calm THEN {} ELSE {0})

Count(s, u, n) == IsFiniteSet(Flight(s, u)) /\ n = Cardinality(Flight(s, u))

Ledger(s, u, c, n) == Chain(s, c) /\ Count(s, u, n)

AllLedgers ==
    ~aborted => \A t \in Threads : Ledger(stack[t], unwinding[t], caught[t], uncaught[t])

IInv ==
    /\ TypeOK
    /\ OneKeyMaker
    /\ BlankUntilMade
    /\ AllRouted
    /\ AllLedgers
    /\ AllBooks

-----------------------------------------------------------------------------
(* Sequences: one more element, and the same without the last. *)
LEMMA AppendFacts ==
    ASSUME NEW S, NEW s \in Seq(S), NEW a \in S
    PROVE  /\ Append(s, a) \in Seq(S) /\ Append(s, a) # <<>>
           /\ Len(s) \in Nat /\ Len(Append(s, a)) = Len(s) + 1
           /\ DOMAIN s = 1 .. Len(s) /\ DOMAIN Append(s, a) = 1 .. Len(s) + 1
           /\ \A i \in 1 .. Len(s) : Append(s, a)[i] = s[i]
           /\ Append(s, a)[Len(s) + 1] = a
OBVIOUS

(* A sequence is its front and its last element. *)
LEMMA FrontFacts ==
    ASSUME NEW S, NEW s \in Seq(S), s # <<>>
    PROVE  /\ Front(s) \in Seq(S) /\ Last(s) \in S
           /\ Len(s) \in Nat /\ Len(s) > 0 /\ Len(Front(s)) = Len(s) - 1
           /\ s = Append(Front(s), Last(s))
<1>1. /\ Len(s) \in Nat /\ Len(s) > 0
      /\ Last(s) \in S
  BY DEF Last
<1>2. Front(s) = [i \in 1 .. Len(s) - 1 |-> s[i]]
  BY <1>1 DEF Front
<1>3. Front(s) \in Seq(S) /\ Len(Front(s)) = Len(s) - 1
  BY <1>1, <1>2
<1>4. s = Append(Front(s), Last(s))
  BY <1>1, <1>2, <1>3 DEF Last
<1>5. QED
  BY <1>1, <1>3, <1>4

-----------------------------------------------------------------------------
(* What the activations that the actions push are. *)
LEMMA Pushed ==
    /\ Calm \in Unwinds
    /\ \A kind \in {"object", "noexcept"} :
          Activation(kind, NoException) \in Activations
    /\ \A takes \in SUBSET Exceptions : Try(takes) \in Activations
    /\ \A e \in Exceptions :
          /\ Activation("construct", e) \in Activations
          /\ Activation("handler", e) \in Activations
    /\ \A e \in Exceptions \cup {NoException} : Activation("terminate", e) \in Activations
    /\ \A kind, e : /\ Activation(kind, e).kind = kind /\ Activation(kind, e).exc = e
                    /\ Activation(kind, e).takes = {} /\ Activation(kind, e).unwinding = Calm
    /\ \A takes : Try(takes).kind = "try" /\ Try(takes).takes = takes
BY DEF Calm, Unwinds, Activation, Try, Activations, WellFormed, Kinds

(* The copy of a catch parameter that LandCopying pushes. *)
LEMMA PushedCopy ==
    ASSUME NEW e \in Exceptions, NEW b \in Nat
    PROVE  /\ Copy(e, b) \in Activations
           /\ Copy(e, b).kind = "copy" /\ Copy(e, b).exc = e /\ Copy(e, b).boundary = b
BY DEF Calm, Unwinds, Activation, Copy, Activations, WellFormed, Kinds

(* The destructors that Release and UnwindOne push. *)
LEMMA PushedDestructor ==
    ASSUME NEW e \in Exceptions \cup {NoException}, NEW b \in Nat, NEW u \in Unwinds
    PROVE  /\ Destructor(e, b, u) \in Activations
           /\ Destructor(e, b, u).kind = "destructor" /\ Destructor(e, b, u).exc = e
           /\ Destructor(e, b, u).boundary = b /\ Destructor(e, b, u).unwinding = u
BY DEF Destructor, Activations, WellFormed, Kinds

(* The fields of an activation. *)
LEMMA ActivationFields ==
    ASSUME NEW a \in Activations
    PROVE  /\ a.kind \in Kinds /\ a.exc \in Exceptions \cup {NoException}
           /\ a.takes \subseteq Exceptions /\ a.boundary \in Nat /\ a.unwinding \in Unwinds
           /\ WellFormed(a)
BY DEF Activations

(* An unwind in progress names an exception. *)
LEMMA UnwindFields ==
    ASSUME NEW u \in Unwinds, u # Calm
    PROVE  u.exc \in Exceptions /\ u.target \in Nat
BY DEF Unwinds

(* Max, as the search uses it. *)
LEMMA MaxIsIn ==
    ASSUME NEW n \in Nat, NEW D \in SUBSET (1 .. n), D # {}
    PROVE  Max(D) \in D /\ \A i \in D : i <= Max(D)
<1> DEFINE Gaps == {n - i : i \in D}
<1>1. Gaps \in SUBSET Nat /\ Gaps # {}
  <2>1. \A i \in D : n - i \in Nat
    OBVIOUS
  <2>2. QED
    BY <2>1
<1>2. PICK x \in Gaps : \A y \in Gaps : ~ (<<y, x>> \in OpToRel(<, Nat))
  BY <1>1, NatLessThanWellFounded, WFMin
<1>3. ASSUME NEW y \in Gaps
      PROVE  x <= y
  <2>1. ASSUME y < x
        PROVE  FALSE
    <3>1. <<y, x>> \in Nat \X Nat /\ <<y, x>>[1] < <<y, x>>[2]
      BY <2>1, <1>1
    <3>2. <<y, x>> \in OpToRel(<, Nat)
      BY <3>1, Zenon DEF OpToRel
    <3>3. QED
      BY <1>2, <3>2
  <2>2. QED
    BY <2>1, <1>1
<1>4. PICK m \in D : x = n - m
  BY <1>2
<1>5. ASSUME NEW i \in D
      PROVE  m >= i
  <2>1. n - i \in Gaps
    OBVIOUS
  <2>2. m \in Nat /\ i \in Nat
    <3>1. D \subseteq 1 .. n
      OBVIOUS
    <3> HIDE DEF Gaps
    <3>2. m \in 1 .. n /\ i \in 1 .. n
      BY <3>1
    <3>3. QED
      BY <3>2
  <2>3. n - m <= n - i
    BY <2>1, <1>3, <1>4
  <2>4. QED
    BY <2>2, <2>3
<1>6. \E k \in D : \A i \in D : k >= i
  BY <1>4, <1>5
<1>7. Max(D) \in D /\ \A i \in D : Max(D) >= i
  BY <1>6 DEF Max
<1>8. QED
  BY <1>7

-----------------------------------------------------------------------------
(* Types.  What the operations that the actions share leave behind. *)
LEMMA TerminateTypes ==
    ASSUME TypeOK, NEW t \in Threads, NEW s \in Seq(Activations),
           NEW e \in Exceptions \cup {NoException}, Terminate(t, s, e)
    PROVE  /\ stack' \in [Threads -> Seq(Activations)]
           /\ unwinding' \in [Threads -> Unwinds]
           /\ caught' \in [Threads -> Seq(Contexts)]
           /\ terminating' \in [Threads -> BOOLEAN]
           /\ boundary' \in [Threads -> Nat]
           /\ aborted' \in BOOLEAN
<1> USE DEF TypeOK
<1>1. Append(s, Activation("terminate", e)) \in Seq(Activations) /\ Len(s) + 1 \in Nat
  BY Pushed, AppendFacts
<1>2. stack' \in [Threads -> Seq(Activations)]
  BY <1>1 DEF Terminate, SetStack
<1>3. unwinding' \in [Threads -> Unwinds]
  BY Pushed DEF Terminate
<1>4. caught' \in [Threads -> Seq(Contexts)]
  <2>1. CASE e = NoException
    BY <2>1 DEF Terminate
  <2>2. CASE e \in Exceptions
    <3>1. [exc |-> e, at |-> Len(s) + 1] \in Contexts
      BY <1>1, <2>2 DEF Contexts
    <3>2. Append(caught[t], [exc |-> e, at |-> Len(s) + 1]) \in Seq(Contexts)
      BY <3>1
    <3>3. QED
      BY <3>2, <2>2, NoExceptionAssumption DEF Terminate
  <2>3. QED
    BY <2>1, <2>2
<1>5. /\ terminating' \in [Threads -> BOOLEAN]
      /\ boundary' \in [Threads -> Nat]
      /\ aborted' \in BOOLEAN
  BY <1>1 DEF Terminate
<1>6. QED
  BY <1>2, <1>3, <1>4, <1>5

(* What the search finds is an activation, the innermost that decides. *)
LEMMA DecidingFacts ==
    ASSUME NEW t, NEW s \in Seq(Activations), NEW e, Deciding(t, s, e) # {}
    PROVE  /\ Max(Deciding(t, s, e)) \in Deciding(t, s, e)
           /\ Max(Deciding(t, s, e)) \in 1 .. Len(s)
           /\ \A i \in Deciding(t, s, e) : i <= Max(Deciding(t, s, e))
<1>1. Len(s) \in Nat /\ Deciding(t, s, e) \in SUBSET (1 .. Len(s))
  BY DEF Deciding
<1>2. QED
  BY <1>1, MaxIsIn

(* Raise leaves the types behind. *)
LEMMA RaiseTypes ==
    ASSUME TypeOK, NEW t \in Threads, NEW s \in Seq(Activations), NEW e \in Exceptions,
           Raise(t, s, e)
    PROVE  /\ stack' \in [Threads -> Seq(Activations)]
           /\ unwinding' \in [Threads -> Unwinds]
           /\ caught' \in [Threads -> Seq(Contexts)]
           /\ uncaught' \in [Threads -> Int]
           /\ terminating' \in [Threads -> BOOLEAN]
           /\ boundary' \in [Threads -> Nat]
           /\ aborted' \in BOOLEAN
<1> DEFINE D == Deciding(t, s, e)
<1>1. uncaught' \in [Threads -> Int]
  BY DEF TypeOK, Raise
<1>2. CASE D # {} /\ Max(D) > boundary[t] /\ e \in s[Max(D)].takes
  <2>1. [exc |-> e, target |-> Max(D)] \in Unwinds
    <3>1. Len(s) \in Nat /\ Max(D) \in 1 .. Len(s)
      BY <1>2, DecidingFacts
    <3>2. QED
      BY <3>1 DEF Unwinds
  <2>2. /\ unwinding' = [unwinding EXCEPT ![t] = [exc |-> e, target |-> Max(D)]]
        /\ SetStack(t, s)
        /\ UNCHANGED <<caught, terminating, boundary, aborted>>
    BY <1>2 DEF Raise
  <2>3. QED
    BY <1>1, <2>1, <2>2 DEF TypeOK, SetStack
<1>3. CASE ~ (D # {} /\ Max(D) > boundary[t] /\ e \in s[Max(D)].takes)
  <2>1. Terminate(t, s, e)
    BY <1>3 DEF Raise
  <2>2. QED
    BY <1>1, <2>1, TerminateTypes
<1>4. QED
  BY <1>2, <1>3

(* So does Release, *)
LEMMA ReleaseTypes ==
    ASSUME TypeOK, NEW t \in Threads, NEW s \in Seq(Activations), NEW e \in Exceptions,
           NEW u \in Unwinds, Release(t, s, e, u)
    PROVE  /\ stack' \in [Threads -> Seq(Activations)]
           /\ unwinding' \in [Threads -> Unwinds]
           /\ boundary' \in [Threads -> Nat]
           /\ references' \in [Exceptions -> Int]
<1> USE DEF TypeOK
<1> DEFINE a == Destructor(e, boundary[t], u)
<1>1. a \in Activations
  BY PushedDestructor
<1> HIDE DEF a
<1>2. Append(s, a) \in Seq(Activations) /\ Len(s) + 1 \in Nat
  BY <1>1, AppendFacts
<1>3. references' = [references EXCEPT ![e] = references[e] - 1]
  BY DEF Release
<1>4. CASE references[e] = 1
  <2>1. /\ SetStack(t, Append(s, a))
        /\ boundary' = [boundary EXCEPT ![t] = Len(s) + 1]
        /\ unwinding' = [unwinding EXCEPT ![t] = Calm]
    BY <1>4 DEF Release, a
  <2>2. QED
    BY <1>2, <1>3, <2>1, Pushed DEF SetStack
<1>5. CASE references[e] # 1
  <2>1. SetStack(t, s) /\ UNCHANGED <<boundary, unwinding>>
    BY <1>5 DEF Release
  <2>2. QED
    BY <1>3, <2>1 DEF SetStack
<1>6. QED
  BY <1>4, <1>5

(* and BeginCatch, *)
LEMMA BeginCatchTypes ==
    ASSUME TypeOK, NEW t \in Threads, NEW s \in Seq(Activations), NEW e \in Exceptions,
           BeginCatch(t, s, e)
    PROVE  /\ stack' \in [Threads -> Seq(Activations)]
           /\ caught' \in [Threads -> Seq(Contexts)]
           /\ uncaught' \in [Threads -> Int]
<1> USE DEF TypeOK
<1>1. Append(s, Activation("handler", e)) \in Seq(Activations)
  BY Pushed, AppendFacts
<1>2. [exc |-> e, at |-> Len(s) + 1] \in Contexts
  BY DEF Contexts
<1>3. Append(caught[t], [exc |-> e, at |-> Len(s) + 1]) \in Seq(Contexts)
  BY <1>2
<1>4. QED
  BY <1>1, <1>3 DEF BeginCatch, SetStack

(* and EndCatch. *)
LEMMA EndCatchTypes ==
    ASSUME TypeOK, NEW t \in Threads, NEW s \in Seq(Activations), Top(t).exc \in Exceptions,
           NEW u \in Unwinds, EndCatch(t, s, u)
    PROVE  /\ stack' \in [Threads -> Seq(Activations)]
           /\ unwinding' \in [Threads -> Unwinds]
           /\ caught' \in [Threads -> Seq(Contexts)]
           /\ terminating' \in [Threads -> BOOLEAN]
           /\ boundary' \in [Threads -> Nat]
           /\ references' \in [Exceptions -> Int]
           /\ aborted' \in BOOLEAN
<1>1. CASE caught[t] = <<>> \/ Last(caught[t]).at # Depth(t)
  <2>1. Terminate(t, s, NoException) /\ UNCHANGED references
    BY <1>1 DEF EndCatch
  <2>2. QED
    BY <2>1, TerminateTypes DEF TypeOK
<1>2. CASE ~ (caught[t] = <<>> \/ Last(caught[t]).at # Depth(t))
  <2>1. /\ Release(t, s, Top(t).exc, u)
        /\ caught' = [caught EXCEPT ![t] = Front(caught[t])]
        /\ UNCHANGED <<terminating, aborted>>
    BY <1>2 DEF EndCatch
  <2>2. caught[t] \in Seq(Contexts) /\ caught[t] # <<>>
    BY <1>2 DEF TypeOK
  <2>3. Front(caught[t]) \in Seq(Contexts)
    BY <2>2, FrontFacts
  <2>4. caught' \in [Threads -> Seq(Contexts)]
    BY <2>1, <2>3 DEF TypeOK
  <2>5. QED
    BY <2>1, <2>4, ReleaseTypes DEF TypeOK
<1>3. QED
  BY <1>1, <1>2

(* The innermost activation and those below it. *)
LEMMA TopFacts ==
    ASSUME TypeOK, NEW t \in Threads, stack[t] # <<>>
    PROVE  /\ Below(t) \in Seq(Activations) /\ Top(t) \in Activations
           /\ Len(Below(t)) \in Nat /\ Depth(t) = Len(Below(t)) + 1
           /\ stack[t] = Append(Below(t), Top(t))
<1>1. stack[t] \in Seq(Activations)
  BY DEF TypeOK
<1>2. QED
  BY <1>1, FrontFacts DEF Below, Top, Depth

(* An unwind in progress has somewhere to go, so there is an activation. *)
LEMMA UnwindingFacts ==
    ASSUME TypeOK, AllRouted, NEW t \in Threads, unwinding[t] # Calm
    PROVE  /\ stack[t] # <<>> /\ unwinding[t].exc \in Exceptions
           /\ unwinding[t].target \in 1 .. Depth(t)
<1>1. unwinding[t].target \in 1 .. Depth(t)
  BY DEF AllRouted, Routed, Path, Depth
<1>2. stack[t] \in Seq(Activations) /\ unwinding[t] \in Unwinds
  BY DEF TypeOK
<1>3. QED
  BY <1>1, <1>2, UnwindFields DEF Depth

(* The last catch context names an exception. *)
LEMMA CaughtFacts ==
    ASSUME TypeOK, NEW t \in Threads, caught[t] # <<>>
    PROVE  /\ Last(caught[t]) \in Contexts /\ Last(caught[t]).exc \in Exceptions
           /\ Front(caught[t]) \in Seq(Contexts)
<1>1. caught[t] \in Seq(Contexts)
  BY DEF TypeOK
<1>2. Last(caught[t]) \in Contexts /\ Front(caught[t]) \in Seq(Contexts)
  BY <1>1, FrontFacts
<1>3. QED
  BY <1>2 DEF Contexts

(* Every step keeps the types. *)
LEMMA ProgramTypes ==
    ASSUME TypeOK, AllRouted, NEW t \in Threads, WithoutState(t) \/ WithState(t), UNCHANGED key
    PROVE  TypeOK'
<1> USE DEF key
<1>1. CASE Enter(t)
  <2>1. stack[t] \in Seq(Activations)
    BY DEF TypeOK
  <2>2. ASSUME NEW a \in Activations, SetStack(t, Append(stack[t], a))
        PROVE  stack' \in [Threads -> Seq(Activations)]
    BY <2>1, <2>2, AppendFacts DEF TypeOK, SetStack
  <2>3. stack' \in [Threads -> Seq(Activations)]
    BY <1>1, <2>2, Pushed DEF Enter
  <2>4. QED
    BY <1>1, <2>3 DEF Enter, TypeOK
<1>2. CASE Leave(t)
  <2>1. stack[t] # <<>>
    BY <1>2 DEF Leave, Inside
  <2>2. QED
    BY <1>2, <2>1, TopFacts DEF Leave, SetStack, TypeOK
<1>3. CASE EndDestructor(t)
  <2>1. stack[t] # <<>>
    BY <1>3 DEF EndDestructor, Inside
  <2>2. Top(t).boundary \in Nat /\ Top(t).unwinding \in Unwinds /\ Below(t) \in Seq(Activations)
    BY <2>1, TopFacts, ActivationFields
  <2>3. status' \in [Exceptions -> {"free", "constructed", "live"}]
    BY <1>3 DEF EndDestructor, TypeOK
  <2>4. QED
    BY <1>3, <2>2, <2>3 DEF EndDestructor, SetStack, TypeOK
<1>4. CASE EndTerminate(t)
  BY <1>4 DEF EndTerminate, TypeOK
<1>5. ASSUME NEW e \in Exceptions, Allocate(t, e)
      PROVE  TypeOK'
  <2>1. stack[t] \in Seq(Activations)
    BY DEF TypeOK
  <2>2. Append(stack[t], Activation("construct", e)) \in Seq(Activations)
    BY <2>1, Pushed, AppendFacts
  <2>3. QED
    BY <1>5, <2>2 DEF Allocate, SetStack, TypeOK
<1>6. ASSUME NEW e \in Exceptions, ReleaseException(t, e)
      PROVE  TypeOK'
  <2>1. stack[t] \in Seq(Activations)
    BY DEF TypeOK
  <2>2. Release(t, stack[t], e, Calm)
    BY <1>6 DEF ReleaseException
  <2>3. handles' \in [Threads -> SUBSET Exceptions]
    BY <1>6 DEF ReleaseException, TypeOK
  <2>4. UNCHANGED <<caught, uncaught, terminating, status, aborted>>
    BY <1>6 DEF ReleaseException
  <2>5. QED
    BY <2>1, <2>2, <2>3, <2>4, ReleaseTypes, Pushed DEF TypeOK
<1>7. ASSUME NEW e \in Exceptions, NEW v \in Threads, RetainException(t, v, e)
      PROVE  TypeOK'
  BY <1>7 DEF RetainException, TypeOK
<1>8. CASE Throw(t)
  <2>1. stack[t] # <<>> /\ Top(t).kind = "construct"
    BY <1>8 DEF Throw, Inside
  <2>2. Below(t) \in Seq(Activations) /\ Top(t).exc \in Exceptions
    BY <2>1, TopFacts, ActivationFields DEF WellFormed
  <2>3. Raise(t, Below(t), Top(t).exc) /\ UNCHANGED <<references, handles>>
    BY <1>8 DEF Throw
  <2>4. status' \in [Exceptions -> {"free", "constructed", "live"}]
    BY <1>8, <2>2 DEF Throw, TypeOK
  <2>5. QED
    BY <2>2, <2>3, <2>4, RaiseTypes DEF TypeOK
<1>9. CASE Rethrow(t)
  <2>1. stack[t] \in Seq(Activations)
    BY DEF TypeOK
  <2>2. UNCHANGED <<status, handles>>
    BY <1>9 DEF Rethrow
  <2>3. CASE caught[t] = <<>>
    <3>1. Terminate(t, stack[t], NoException) /\ UNCHANGED <<references, uncaught>>
      BY <1>9, <2>3 DEF Rethrow
    <3>2. QED
      BY <2>1, <2>2, <3>1, TerminateTypes DEF TypeOK
  <2>4. CASE caught[t] # <<>>
    <3>1. /\ references' = [references EXCEPT ![Last(caught[t]).exc] = @ + 1]
          /\ Raise(t, stack[t], Last(caught[t]).exc)
      BY <1>9, <2>4 DEF Rethrow
    <3>2. references' \in [Exceptions -> Int]
      BY <2>4, <3>1, CaughtFacts DEF TypeOK
    <3>3. QED
      BY <2>1, <2>2, <2>4, <3>1, <3>2, CaughtFacts, RaiseTypes DEF TypeOK
  <2>5. QED
    BY <2>3, <2>4
<1>10. CASE LeaveHandler(t)
  <2>1. stack[t] # <<>> /\ Top(t).kind = "handler"
    BY <1>10 DEF LeaveHandler, Inside
  <2>2. Below(t) \in Seq(Activations) /\ Top(t).exc \in Exceptions
    BY <2>1, TopFacts, ActivationFields DEF WellFormed
  <2>3. EndCatch(t, Below(t), Calm) /\ UNCHANGED <<uncaught, status, handles>>
    BY <1>10 DEF LeaveHandler
  <2>4. QED
    BY <2>2, <2>3, EndCatchTypes, Pushed DEF TypeOK
<1>11. CASE UnwindOne(t)
  <2>1. unwinding[t] # Calm /\ unwinding[t] \in Unwinds /\ boundary[t] \in Nat
    BY <1>11 DEF UnwindOne, TypeOK
  <2>2. stack[t] # <<>>
    BY <2>1, UnwindingFacts
  <2>3. /\ Below(t) \in Seq(Activations) /\ Top(t) \in Activations /\ Depth(t) \in Nat
    BY <2>2, TopFacts
  <2>4. UNCHANGED <<uncaught, handles>>
    BY <1>11 DEF UnwindOne
  <2>5. CASE Top(t).kind = "try"
    <3>1. /\ SetStack(t, Below(t))
          /\ UNCHANGED <<unwinding, caught, terminating, boundary, status, references, aborted>>
      BY <1>11, <2>5 DEF UnwindOne
    <3>2. QED
      BY <2>3, <2>4, <3>1 DEF SetStack, TypeOK
  <2>6. CASE Top(t).kind = "object"
    <3>1. /\ SetStack(t, Append(Below(t), Destructor(NoException, boundary[t], unwinding[t])))
          /\ boundary' = [boundary EXCEPT ![t] = Depth(t)]
          /\ unwinding' = [unwinding EXCEPT ![t] = Calm]
          /\ UNCHANGED <<caught, terminating, status, references, aborted>>
      BY <1>11, <2>6 DEF UnwindOne
    <3>2. Append(Below(t), Destructor(NoException, boundary[t], unwinding[t])) \in
              Seq(Activations)
      BY <2>1, <2>3, PushedDestructor, AppendFacts
    <3>3. QED
      BY <2>3, <2>4, <3>1, <3>2, Pushed DEF SetStack, TypeOK
  <2>7. CASE Top(t).kind = "construct"
    <3>1. /\ SetStack(t, Below(t))
          /\ status' = [status EXCEPT ![Top(t).exc] = "free"]
          /\ references' = [references EXCEPT ![Top(t).exc] = 0]
          /\ UNCHANGED <<unwinding, caught, terminating, boundary, aborted>>
      BY <1>11, <2>7 DEF UnwindOne
    <3>2. /\ status' \in [Exceptions -> {"free", "constructed", "live"}]
          /\ references' \in [Exceptions -> Int]
      <4>1. Top(t).exc \in Exceptions
        BY <2>3, <2>7, ActivationFields DEF WellFormed
      <4>2. QED
        BY <3>1, <4>1 DEF TypeOK
    <3>3. stack' \in [Threads -> Seq(Activations)]
      BY <2>3, <3>1 DEF SetStack, TypeOK
    <3>4. QED
      BY <2>4, <3>1, <3>2, <3>3 DEF TypeOK
  <2>8. CASE Top(t).kind = "handler"
    <3>1. EndCatch(t, Below(t), unwinding[t]) /\ UNCHANGED status
      BY <1>11, <2>8 DEF UnwindOne
    <3>2. Top(t).exc \in Exceptions
      BY <2>3, <2>8, ActivationFields DEF WellFormed
    <3>3. QED
      BY <2>1, <2>3, <2>4, <3>1, <3>2, EndCatchTypes DEF TypeOK
  <2>9. QED
    BY <1>11, <2>5, <2>6, <2>7, <2>8 DEF UnwindOne
<1>12. CASE Land(t)
  <2>1. stack[t] # <<>> /\ unwinding[t].exc \in Exceptions
    BY <1>12, UnwindingFacts DEF Land
  <2>2. BeginCatch(t, Below(t), unwinding[t].exc)
    BY <1>12 DEF Land
  <2>3. unwinding' \in [Threads -> Unwinds]
    BY <1>12, Pushed DEF Land, TypeOK
  <2>4. QED
    BY <1>12, <2>1, <2>2, <2>3, TopFacts, BeginCatchTypes DEF Land, TypeOK
<1>13. CASE LandCopying(t)
  <2>1. stack[t] # <<>> /\ unwinding[t].exc \in Exceptions /\ boundary[t] \in Nat
    BY <1>13, UnwindingFacts DEF LandCopying, TypeOK
  <2>2. /\ Append(Below(t), Copy(unwinding[t].exc, boundary[t])) \in Seq(Activations)
        /\ Depth(t) \in Nat
    BY <2>1, TopFacts, PushedCopy, AppendFacts
  <2>3. QED
    BY <1>13, <2>2, Pushed DEF LandCopying, SetStack, TypeOK
<1>14. CASE EndCopy(t)
  <2>1. stack[t] # <<>> /\ Top(t).kind = "copy"
    BY <1>14 DEF EndCopy, Inside
  <2>2. /\ Below(t) \in Seq(Activations)
        /\ Top(t).exc \in Exceptions /\ Top(t).boundary \in Nat
    BY <2>1, TopFacts, ActivationFields DEF WellFormed
  <2>3. BeginCatch(t, Below(t), Top(t).exc)
    BY <1>14 DEF EndCopy
  <2>4. boundary' \in [Threads -> Nat]
    BY <1>14, <2>2 DEF EndCopy, TypeOK
  <2>5. QED
    BY <1>14, <2>2, <2>3, <2>4, BeginCatchTypes DEF EndCopy, TypeOK
<1>15. CASE CurrentException(t)
  <2>1. Last(caught[t]).exc \in Exceptions
    BY <1>15, CaughtFacts DEF CurrentException
  <2>2. QED
    BY <1>15, <2>1 DEF CurrentException, TypeOK
<1>16. ASSUME NEW e \in Exceptions, RethrowException(t, e)
      PROVE  TypeOK'
  <2>1. stack[t] \in Seq(Activations)
    BY DEF TypeOK
  <2>2. Raise(t, stack[t], e) /\ UNCHANGED <<status, handles>>
    BY <1>16 DEF RethrowException
  <2>3. references' \in [Exceptions -> Int]
    BY <1>16 DEF RethrowException, TypeOK
  <2>4. QED
    BY <2>1, <2>2, <2>3, RaiseTypes DEF TypeOK
<1>17. QED
  BY <1>1, <1>2, <1>3, <1>4, <1>5, <1>6, <1>7, <1>8, <1>9, <1>10, <1>11, <1>12, <1>13,
     <1>14, <1>15, <1>16 DEF WithoutState, WithState

-----------------------------------------------------------------------------
(* What a thread does to its stack and state leaves the other threads'     *)
(* alone.                                                                  *)
Elsewhere(t) ==
    \A v \in Threads : v # t =>
        /\ stack'[v] = stack[v] /\ unwinding'[v] = unwinding[v]
        /\ caught'[v] = caught[v] /\ uncaught'[v] = uncaught[v]
        /\ terminating'[v] = terminating[v] /\ boundary'[v] = boundary[v]

(* Terminate moves t alone, *)
LEMMA TerminateElsewhere ==
    ASSUME TypeOK, NEW t \in Threads, NEW s, NEW e, Terminate(t, s, e), UNCHANGED uncaught
    PROVE  Elsewhere(t)
BY DEF TypeOK, Terminate, SetStack, Elsewhere

(* as Raise, *)
LEMMA RaiseElsewhere ==
    ASSUME TypeOK, NEW t \in Threads, NEW s, NEW e, Raise(t, s, e)
    PROVE  Elsewhere(t)
<1> DEFINE D == Deciding(t, s, e)
<1>1. \A v \in Threads : v # t => uncaught'[v] = uncaught[v]
  BY DEF Raise, TypeOK
<1>2. CASE D # {} /\ Max(D) > boundary[t] /\ e \in s[Max(D)].takes
  <2>1. /\ unwinding' = [unwinding EXCEPT ![t] = [exc |-> e, target |-> Max(D)]]
        /\ SetStack(t, s)
        /\ UNCHANGED <<caught, terminating, boundary, aborted>>
    BY <1>2 DEF Raise
  <2>2. QED
    BY <1>1, <2>1 DEF TypeOK, SetStack, Elsewhere
<1>3. CASE ~ (D # {} /\ Max(D) > boundary[t] /\ e \in s[Max(D)].takes)
  <2>1. Terminate(t, s, e)
    BY <1>3 DEF Raise
  <2>2. QED
    BY <1>1, <2>1 DEF TypeOK, Terminate, SetStack, Elsewhere
<1>4. QED
  BY <1>2, <1>3

(* Release *)
LEMMA ReleaseElsewhere ==
    ASSUME TypeOK, NEW t \in Threads, NEW s, NEW e, NEW u, Release(t, s, e, u),
           \A v \in Threads : v # t => caught'[v] = caught[v],
           UNCHANGED <<uncaught, terminating>>
    PROVE  Elsewhere(t)
BY DEF TypeOK, Release, SetStack, Elsewhere

(* and EndCatch do. *)
LEMMA EndCatchElsewhere ==
    ASSUME TypeOK, NEW t \in Threads, NEW s, NEW u, EndCatch(t, s, u), UNCHANGED uncaught
    PROVE  Elsewhere(t)
<1>1. CASE caught[t] = <<>> \/ Last(caught[t]).at # Depth(t)
  BY <1>1, TerminateElsewhere DEF EndCatch
<1>2. CASE ~ (caught[t] = <<>> \/ Last(caught[t]).at # Depth(t))
  <2>1. /\ Release(t, s, Top(t).exc, u) /\ UNCHANGED terminating
        /\ caught' = [caught EXCEPT ![t] = Front(@)]
    BY <1>2 DEF EndCatch
  <2>2. \A v \in Threads : v # t => caught'[v] = caught[v]
    BY <2>1 DEF TypeOK
  <2>3. QED
    BY <2>1, <2>2, ReleaseElsewhere
<1>3. QED
  BY <1>1, <1>2

(* So a step of t moves no other thread's stack or state. *)
LEMMA OneMoves ==
    ASSUME TypeOK, NEW t \in Threads, WithoutState(t) \/ WithState(t)
    PROVE  Elsewhere(t)
<1>1. CASE Enter(t) \/ Leave(t) \/ EndDestructor(t) \/ EndTerminate(t)
  BY <1>1 DEF Enter, Leave, EndDestructor, EndTerminate, SetStack, TypeOK, Elsewhere
<1>2. ASSUME NEW e \in Exceptions, Allocate(t, e)
      PROVE  Elsewhere(t)
  BY <1>2 DEF Allocate, SetStack, TypeOK, Elsewhere
<1>3. ASSUME NEW e \in Exceptions, ReleaseException(t, e)
      PROVE  Elsewhere(t)
  BY <1>3, ReleaseElsewhere DEF ReleaseException
<1>4. ASSUME NEW e \in Exceptions, NEW v \in Threads, RetainException(t, v, e)
      PROVE  Elsewhere(t)
  BY <1>4 DEF RetainException, Elsewhere
<1>5. CASE Throw(t)
  BY <1>5, RaiseElsewhere DEF Throw
<1>6. CASE Rethrow(t)
  BY <1>6, TerminateElsewhere, RaiseElsewhere DEF Rethrow
<1>7. CASE LeaveHandler(t)
  BY <1>7, EndCatchElsewhere DEF LeaveHandler
<1>8. CASE UnwindOne(t)
  <2>1. UNCHANGED uncaught
    BY <1>8 DEF UnwindOne
  <2>2. CASE Top(t).kind = "handler"
    BY <1>8, <2>1, <2>2, EndCatchElsewhere DEF UnwindOne
  <2>3. CASE Top(t).kind # "handler"
    BY <1>8, <2>3 DEF UnwindOne, SetStack, TypeOK, Elsewhere
  <2>4. QED
    BY <2>2, <2>3
<1>9. CASE Land(t) \/ LandCopying(t) \/ EndCopy(t)
  BY <1>9 DEF Land, LandCopying, EndCopy, BeginCatch, SetStack, TypeOK, Elsewhere
<1>10. CASE CurrentException(t)
  BY <1>10 DEF CurrentException, Elsewhere
<1>11. ASSUME NEW e \in Exceptions, RethrowException(t, e)
      PROVE  Elsewhere(t)
  BY <1>11, RaiseElsewhere DEF RethrowException
<1>12. QED
  BY <1>1, <1>2, <1>3, <1>4, <1>5, <1>6, <1>7, <1>8, <1>9, <1>10, <1>11
     DEF WithoutState, WithState

-----------------------------------------------------------------------------
(* A thread that runs the program has a state: user code asked for it, or  *)
(* the runtime did, before anything was put on the stack.                  *)
LEMMA MovesWithState ==
    ASSUME BlankUntilMade, NEW t \in Threads,
           WithoutState(t) \/ (Has(t) /\ WithState(t))
    PROVE  Has(t) \/ UNCHANGED <<stack, unwinding, threadState>>
<1>1. CASE Has(t)
  BY <1>1
<1>2. CASE ~ Has(t)
  <2>1. stack[t] = <<>>
    BY <1>2 DEF BlankUntilMade
  <2>2. ~ Leave(t) /\ ~ EndDestructor(t) /\ ~ EndTerminate(t) /\ ~ Enter(t)
    BY <1>2, <2>1 DEF Leave, EndDestructor, EndTerminate, Enter, Inside, Roomy
  <2>3. \A e \in Exceptions : ~ Allocate(t, e) /\ ~ ReleaseException(t, e)
    BY <1>2 DEF Allocate, ReleaseException, Roomy
  <2>4. PICK e \in Exceptions, v \in Threads : RetainException(t, v, e)
    BY <1>2, <2>2, <2>3 DEF WithoutState
  <2>5. QED
    BY <2>4 DEF RetainException, threadState
<1>3. QED
  BY <1>1, <1>2

(* The key is made once, and the state of a thread is blank until then. *)
LEMMA ProgramBlank ==
    ASSUME TypeOK, OneKeyMaker, BlankUntilMade, NEW t \in Threads, UNCHANGED key,
           WithoutState(t) \/ (Has(t) /\ WithState(t))
    PROVE  OneKeyMaker' /\ BlankUntilMade'
<1>1. OneKeyMaker'
  BY DEF OneKeyMaker, key
<1>2. \A v \in Threads : Has(v)' = Has(v)
  BY DEF Has, key
<1>3. CASE UNCHANGED <<stack, unwinding, threadState>>
  BY <1>1, <1>2, <1>3 DEF BlankUntilMade, threadState
<1>4. CASE Has(t)
  <2>1. Elsewhere(t)
    BY OneMoves
  <2>2. QED
    BY <1>1, <1>2, <1>4, <2>1 DEF BlankUntilMade, Elsewhere
<1>5. QED
  BY <1>3, <1>4, MovesWithState

(* What makes the key or gives a thread its state does nothing else. *)
KeyStep(t) ==
    InitKey(t) \/ MakeKey(t) \/ PublishKey(t) \/ AwaitKey(t) \/ MakeState(t)

(* The steps of cpc_eh_init_thread_key preserve what they can disturb. *)
LEMMA KeySteps ==
    ASSUME TypeOK, OneKeyMaker, BlankUntilMade, NEW t \in Threads, KeyStep(t)
    PROVE  /\ UNCHANGED <<program, threadState, aborted>>
           /\ OneKeyMaker' /\ BlankUntilMade'
           /\ TypeOK'
<1>1. CASE MakeState(t)
  <2>1. ~ Has(t)
    BY <1>1 DEF MakeState, Has
  <2>2. caught[t] = <<>> /\ uncaught[t] = 0 /\ terminating[t] = FALSE /\ boundary[t] = 0
    BY <2>1 DEF BlankUntilMade
  <2>3. caught' = caught
    BY <1>1, <2>2 DEF MakeState, TypeOK
  <2>4. uncaught' = uncaught
    BY <1>1, <2>2 DEF MakeState, TypeOK
  <2>5. terminating' = terminating
    BY <1>1, <2>2 DEF MakeState, TypeOK
  <2>6. boundary' = boundary
    BY <1>1, <2>2 DEF MakeState, TypeOK
  <2>7. UNCHANGED <<program, tls, tlsInit, keyStep, aborted>>
    BY <1>1 DEF MakeState
  <2>8. OneKeyMaker'
    BY <2>7 DEF OneKeyMaker
  <2>9. \A v \in Threads : Has(v) => Has(v)'
    BY <1>1 DEF MakeState, Has, TypeOK
  <2>10. BlankUntilMade'
    BY <2>3, <2>4, <2>5, <2>6, <2>7, <2>9 DEF BlankUntilMade, program
  <2>11. DOMAIN slot' = Threads
    BY <1>1 DEF MakeState, TypeOK
  <2>12. QED
    BY <2>3, <2>4, <2>5, <2>6, <2>7, <2>8, <2>10, <2>11 DEF TypeOK, program, threadState
<1>2. CASE InitKey(t) \/ MakeKey(t) \/ PublishKey(t) \/ AwaitKey(t)
  <2>1. UNCHANGED <<program, threadState, aborted, slot>>
    BY <1>2 DEF InitKey, MakeKey, PublishKey, AwaitKey
  <2>2. TypeOK'
    BY <1>2, <2>1 DEF InitKey, MakeKey, PublishKey, AwaitKey, TypeOK, program, threadState
  <2>3. OneKeyMaker'
    BY <1>2 DEF InitKey, First, MakeKey, PublishKey, AwaitKey, OneKeyMaker, TypeOK
  <2>4. (\A v \in Threads : ~ Has(v)) \/ (\A v \in Threads : Has(v)' = Has(v))
    BY <1>2 DEF InitKey, MakeKey, PublishKey, AwaitKey, OneKeyMaker, Has, TypeOK
  <2>5. BlankUntilMade'
    BY <2>1, <2>4 DEF BlankUntilMade, program, threadState
  <2>6. QED
    BY <2>1, <2>2, <2>3, <2>5
<1>3. QED
  BY <1>1, <1>2 DEF KeyStep

-----------------------------------------------------------------------------
(* Where unwinds go and where searches stop, as the stack grows and        *)
(* shrinks.                                                                *)
LEMMA PrefixAgrees ==
    ASSUME NEW s \in Seq(Activations), NEW a \in Activations, NEW n \in Nat, n <= Len(s)
    PROVE  /\ \A u : Path(Append(s, a), n, u) <=> Path(s, n, u)
           /\ \A b : Fence(Append(s, a), n, b) <=> Fence(s, n, b)
<1>1. /\ Len(s) \in Nat
      /\ \A i \in 1 .. Len(s) : Append(s, a)[i] = s[i]
  BY AppendFacts
<1>2. \A i \in 1 .. n : Append(s, a)[i] = s[i]
  BY <1>1
<1>3. ASSUME NEW u
      PROVE  Path(Append(s, a), n, u) <=> Path(s, n, u)
  <2>1. CASE u.target \in 1 .. n
    <3>1. \A i \in u.target + 1 .. n : i \in 1 .. n
      BY <2>1
    <3>2. QED
      BY <1>2, <2>1, <3>1 DEF Path
  <2>2. CASE u.target \notin 1 .. n
    BY <2>2 DEF Path
  <2>3. QED
    BY <2>1, <2>2
<1>4. QED
  BY <1>2, <1>3 DEF Fence

(* What the activations will put back, with one more of them. *)
LEMMA SavedAppend ==
    ASSUME NEW s \in Seq(Activations), NEW a \in Activations
    PROVE  SavedRouted(Append(s, a)) <=>
               /\ SavedRouted(s)
               /\ Path(s, Len(s), a.unwinding)
               /\ a.kind \in {"copy", "destructor"} => Fence(s, Len(s), a.boundary)
<1> DEFINE q == Append(s, a)
<1> DEFINE Right(z, i) ==
        /\ Path(z, i - 1, z[i].unwinding)
        /\ z[i].kind \in {"copy", "destructor"} => Fence(z, i - 1, z[i].boundary)
<1>1. /\ Len(s) \in Nat /\ DOMAIN s = 1 .. Len(s) /\ DOMAIN q = 1 .. Len(s) + 1
      /\ \A i \in 1 .. Len(s) : q[i] = s[i]
      /\ q[Len(s) + 1] = a
  BY AppendFacts
<1>2. ASSUME NEW i \in 1 .. Len(s)
      PROVE  Right(q, i) <=> Right(s, i)
  <2>1. i - 1 \in Nat /\ i - 1 <= Len(s) /\ q[i] = s[i]
    BY <1>1
  <2>2. /\ Path(q, i - 1, s[i].unwinding) <=> Path(s, i - 1, s[i].unwinding)
        /\ Fence(q, i - 1, s[i].boundary) <=> Fence(s, i - 1, s[i].boundary)
    BY <2>1, PrefixAgrees
  <2>3. QED
    BY <2>1, <2>2
<1>3. Right(q, Len(s) + 1) <=>
          /\ Path(s, Len(s), a.unwinding)
          /\ a.kind \in {"copy", "destructor"} => Fence(s, Len(s), a.boundary)
  <2>1. Len(s) + 1 - 1 = Len(s) /\ q[Len(s) + 1] = a
    BY <1>1
  <2>2. /\ Path(q, Len(s), a.unwinding) <=> Path(s, Len(s), a.unwinding)
        /\ Fence(q, Len(s), a.boundary) <=> Fence(s, Len(s), a.boundary)
    BY <1>1, PrefixAgrees
  <2>3. QED
    BY <2>1, <2>2
<1>4. SavedRouted(q) <=> \A i \in 1 .. Len(s) + 1 : Right(q, i)
  BY <1>1 DEF SavedRouted
<1>5. SavedRouted(s) <=> \A i \in 1 .. Len(s) : Right(s, i)
  BY <1>1 DEF SavedRouted
<1>6. \A i : i \in 1 .. Len(s) + 1 <=> i \in 1 .. Len(s) \/ i = Len(s) + 1
  BY <1>1
<1> HIDE DEF Right, q
<1>7. SavedRouted(q) <=> SavedRouted(s) /\ Right(q, Len(s) + 1)
  BY <1>2, <1>4, <1>5, <1>6
<1>8. QED
  BY <1>3, <1>7 DEF q

(* Ordinary code is entered, *)
LEMMA RoutedPush ==
    ASSUME NEW s \in Seq(Activations), NEW b \in Nat, Routed(s, Calm, b), NEW a \in Activations,
           a.kind \notin {"copy", "destructor", "terminate"}
    PROVE  Routed(Append(s, a), Calm, b)
<1>1. a.unwinding = Calm
  BY ActivationFields DEF WellFormed
<1>2. Path(Append(s, a), Len(Append(s, a)), Calm) /\ Path(s, Len(s), a.unwinding)
  BY <1>1 DEF Path
<1>3. SavedRouted(Append(s, a))
  BY <1>2, SavedAppend DEF Routed
<1>4. Fence(Append(s, a), Len(Append(s, a)), b)
  BY AppendFacts DEF Routed, Fence
<1>5. QED
  BY <1>2, <1>3, <1>4 DEF Routed

(* or the runtime calls code that no exception may leave; *)
LEMMA RoutedCall ==
    ASSUME NEW s \in Seq(Activations), NEW u, NEW b \in Nat, Routed(s, u, b),
           NEW a \in Activations, a.unwinding \in {Calm, u},
           a.kind \in {"copy", "destructor"} => a.boundary = b
    PROVE  Routed(Append(s, a), Calm, Len(s) + 1)
<1>1. Path(Append(s, a), Len(Append(s, a)), Calm) /\ Path(s, Len(s), a.unwinding)
  BY DEF Routed, Path
<1>2. SavedRouted(Append(s, a))
  BY <1>1, SavedAppend DEF Routed
<1>3. Fence(Append(s, a), Len(Append(s, a)), Len(s) + 1)
  BY AppendFacts DEF Fence
<1>4. QED
  BY <1>1, <1>2, <1>3 DEF Routed

(* the innermost activation ends, while the unwind goes further, *)
LEMMA RoutedPop ==
    ASSUME NEW s \in Seq(Activations), NEW a \in Activations, NEW u \in Unwinds, NEW b \in Nat,
           Routed(Append(s, a), u, b), u # Calm => u.target # Len(s) + 1
    PROVE  Routed(s, u, b)
<1>1. /\ Len(s) \in Nat /\ Len(Append(s, a)) = Len(s) + 1
      /\ \A i \in 1 .. Len(s) : Append(s, a)[i] = s[i]
  BY AppendFacts
<1>2. Path(Append(s, a), Len(s), u)
  <2>1. Path(Append(s, a), Len(s) + 1, u)
    BY <1>1 DEF Routed
  <2>2. QED
    BY <1>1, <2>1, UnwindFields DEF Path
<1>3. Fence(Append(s, a), Len(s), b)
  BY <1>1 DEF Routed, Fence
<1>4. SavedRouted(s)
  BY SavedAppend DEF Routed
<1>5. QED
  BY <1>1, <1>2, <1>3, <1>4, PrefixAgrees DEF Routed

(* and an unwind is over, or given up. *)
LEMMA RoutedCalm ==
    ASSUME NEW s, NEW u, NEW b, Routed(s, u, b)
    PROVE  Routed(s, Calm, b)
BY DEF Routed, Path

(* What the runtime called returns. *)
LEMMA RoutedReturn ==
    ASSUME NEW s \in Seq(Activations), NEW a \in Activations, NEW u, NEW b,
           Routed(Append(s, a), u, b), a.kind \in {"copy", "destructor"}
    PROVE  Routed(s, a.unwinding, a.boundary)
BY SavedAppend DEF Routed

(* The search finds a handler. *)
LEMMA RoutedSearch ==
    ASSUME TypeOK, NEW t \in Threads, NEW s \in Seq(Activations), NEW e \in Exceptions,
           Routed(s, Calm, boundary[t]),
           Deciding(t, s, e) # {},
           Max(Deciding(t, s, e)) > boundary[t],
           e \in s[Max(Deciding(t, s, e))].takes
    PROVE  Routed(s, [exc |-> e, target |-> Max(Deciding(t, s, e))], boundary[t])
<1> DEFINE m == Max(Deciding(t, s, e))
<1> DEFINE u == [exc |-> e, target |-> m]
<1>1. m \in 1 .. Len(s) /\ Len(s) \in Nat /\ boundary[t] \in Nat
  BY DecidingFacts DEF TypeOK
<1>2. ASSUME NEW i \in m + 1 .. Len(s)
      PROVE  /\ s[i].kind \notin {"copy", "destructor", "terminate", "noexcept"}
             /\ e \notin s[i].takes
  <2>1. i \in DOMAIN s /\ i > m /\ i > boundary[t]
    BY <1>1
  <2>2. i \notin Deciding(t, s, e)
    BY <2>1, <1>1, DecidingFacts
  <2>3. s[i].kind # "noexcept" /\ e \notin s[i].takes
    BY <2>1, <2>2 DEF Deciding
  <2>4. s[i].kind \notin {"copy", "destructor", "terminate"}
    BY <2>1, <1>1 DEF Routed, Fence
  <2>5. QED
    BY <2>3, <2>4
<1>3. Path(s, Len(s), u)
  BY <1>1, <1>2 DEF Path
<1>4. QED
  BY <1>3 DEF Routed

(* The operations that the actions share keep the thread's unwinds and     *)
(* boundaries right.                                                       *)
RoutedNext(t) == Routed(stack'[t], unwinding'[t], boundary'[t])

(* The routes after Terminate, *)
LEMMA TerminateRouted ==
    ASSUME TypeOK, AllRouted, NEW t \in Threads, NEW s \in Seq(Activations),
           Routed(s, Calm, boundary[t]), NEW e \in Exceptions \cup {NoException},
           Terminate(t, s, e)
    PROVE  RoutedNext(t)
<1> DEFINE a == Activation("terminate", e)
<1>1. unwinding'[t] = Calm
  BY DEF Terminate, TypeOK
<1>2. CASE terminating[t]
  <2>1. stack' = stack /\ boundary' = boundary
    BY <1>2 DEF Terminate
  <2>2. QED
    BY <1>1, <2>1, RoutedCalm DEF AllRouted, RoutedNext
<1>3. CASE ~ terminating[t]
  <2>1. stack'[t] = Append(s, a) /\ boundary'[t] = Len(s) + 1
    BY <1>3 DEF Terminate, SetStack, TypeOK
  <2>2. a \in Activations /\ a.kind = "terminate" /\ a.unwinding = Calm
    BY Pushed
  <2>3. boundary[t] \in Nat
    BY DEF TypeOK
  <2>4. QED
    BY <1>1, <2>1, <2>2, <2>3, RoutedCall DEF RoutedNext
<1>4. QED
  BY <1>2, <1>3

(* after Raise, *)
LEMMA RaiseRouted ==
    ASSUME TypeOK, AllRouted, NEW t \in Threads, NEW s \in Seq(Activations),
           Routed(s, Calm, boundary[t]), NEW e \in Exceptions, Raise(t, s, e)
    PROVE  RoutedNext(t)
<1> DEFINE D == Deciding(t, s, e)
<1>1. CASE D # {} /\ Max(D) > boundary[t] /\ e \in s[Max(D)].takes
  <2>1. /\ unwinding' = [unwinding EXCEPT ![t] = [exc |-> e, target |-> Max(D)]]
        /\ SetStack(t, s)
        /\ UNCHANGED <<caught, terminating, boundary, aborted>>
    BY <1>1 DEF Raise
  <2>2. /\ unwinding'[t] = [exc |-> e, target |-> Max(D)]
        /\ stack'[t] = s /\ boundary'[t] = boundary[t]
    BY <2>1 DEF SetStack, TypeOK
  <2>3. QED
    BY <1>1, <2>2, RoutedSearch DEF RoutedNext
<1>2. CASE ~ (D # {} /\ Max(D) > boundary[t] /\ e \in s[Max(D)].takes)
  <2>1. Terminate(t, s, e)
    BY <1>2 DEF Raise
  <2>2. QED
    BY <2>1, TerminateRouted
<1>3. QED
  BY <1>1, <1>2

(* after Release *)
LEMMA ReleaseRouted ==
    ASSUME TypeOK, NEW t \in Threads, NEW s \in Seq(Activations),
           Routed(s, unwinding[t], boundary[t]), NEW e \in Exceptions,
           Release(t, s, e, unwinding[t])
    PROVE  RoutedNext(t)
<1> DEFINE a == Destructor(e, boundary[t], unwinding[t])
<1>1. boundary[t] \in Nat /\ unwinding[t] \in Unwinds
  BY DEF TypeOK
<1>2. CASE references[e] = 1
  <2>1. /\ SetStack(t, Append(s, a))
        /\ boundary' = [boundary EXCEPT ![t] = Len(s) + 1]
        /\ unwinding' = [unwinding EXCEPT ![t] = Calm]
    BY <1>2 DEF Release
  <2>2. stack'[t] = Append(s, a) /\ boundary'[t] = Len(s) + 1 /\ unwinding'[t] = Calm
    BY <2>1 DEF SetStack, TypeOK
  <2>3. a \in Activations /\ a.boundary = boundary[t] /\ a.unwinding = unwinding[t]
    BY <1>1, PushedDestructor
  <2>4. QED
    BY <1>1, <2>2, <2>3, RoutedCall DEF RoutedNext
<1>3. CASE references[e] # 1
  <2>1. stack'[t] = s /\ boundary'[t] = boundary[t] /\ unwinding'[t] = unwinding[t]
    BY <1>3 DEF Release, SetStack, TypeOK
  <2>2. QED
    BY <2>1 DEF RoutedNext
<1>4. QED
  BY <1>2, <1>3

(* and after EndCatch. *)
LEMMA EndCatchRouted ==
    ASSUME TypeOK, AllRouted, NEW t \in Threads, NEW s \in Seq(Activations),
           Routed(s, unwinding[t], boundary[t]), Top(t).exc \in Exceptions,
           EndCatch(t, s, unwinding[t])
    PROVE  RoutedNext(t)
<1>1. CASE caught[t] = <<>> \/ Last(caught[t]).at # Depth(t)
  BY <1>1, RoutedCalm, TerminateRouted DEF EndCatch
<1>2. CASE ~ (caught[t] = <<>> \/ Last(caught[t]).at # Depth(t))
  BY <1>2, ReleaseRouted DEF EndCatch
<1>3. QED
  BY <1>1, <1>2

(* Every step keeps every unwind on its way. *)
LEMMA ProgramRouted ==
    ASSUME TypeOK, AllRouted, NEW t \in Threads, WithoutState(t) \/ WithState(t)
    PROVE  AllRouted'
<1> DEFINE s == stack[t]
<1> DEFINE b == boundary[t]
<1>1. s \in Seq(Activations) /\ b \in Nat /\ unwinding[t] \in Unwinds /\ Routed(s, unwinding[t], b)
  BY DEF TypeOK, AllRouted
<1>2. s # <<>> => /\ Below(t) \in Seq(Activations) /\ Top(t) \in Activations
                  /\ Depth(t) = Len(Below(t)) + 1 /\ Len(Below(t)) \in Nat
                  /\ s = Append(Below(t), Top(t))
  BY TopFacts
<1>3. SUFFICES RoutedNext(t)
  BY OneMoves DEF Elsewhere, AllRouted, RoutedNext
<1> HIDE DEF s, b
<1>4. ASSUME s # <<>>, unwinding[t] # Calm => unwinding[t].target # Depth(t)
      PROVE  Routed(Below(t), unwinding[t], b)
  BY <1>1, <1>2, <1>4, RoutedPop
<1>5. ASSUME s # <<>>
      PROVE  Routed(Below(t), Calm, b)
  <2>1. Routed(s, Calm, b)
    BY <1>1, RoutedCalm
  <2>2. QED
    BY <1>1, <1>2, <1>5, <2>1, RoutedPop, Pushed
<1>6. ASSUME Running(t), NEW a \in Activations, a.kind \notin {"copy", "destructor", "terminate"},
             SetStack(t, Append(s, a)), UNCHANGED <<unwinding, boundary>>
      PROVE  RoutedNext(t)
  <2>1. /\ unwinding[t] = Calm /\ stack'[t] = Append(s, a)
        /\ unwinding'[t] = Calm /\ boundary'[t] = b
    BY <1>6 DEF Running, SetStack, TypeOK, b
  <2>2. QED
    BY <1>1, <1>6, <2>1, RoutedPush DEF RoutedNext
<1>7. CASE Enter(t)
  <2>1. Running(t) /\ UNCHANGED <<unwinding, boundary>>
    BY <1>7 DEF Enter, Roomy
  <2>2. PICK a \in Activations : /\ a.kind \in {"object", "noexcept", "try"}
                                /\ SetStack(t, Append(s, a))
    BY <1>7, Pushed DEF Enter, s
  <2>3. QED
    BY <1>6, <2>1, <2>2
<1>8. CASE Leave(t)
  <2>1. /\ s # <<>> /\ unwinding[t] = Calm
        /\ stack'[t] = Below(t) /\ unwinding'[t] = unwinding[t] /\ boundary'[t] = b
    BY <1>8 DEF Leave, Inside, Running, SetStack, TypeOK, s, b
  <2>2. QED
    BY <1>5, <2>1 DEF RoutedNext
<1>9. CASE EndDestructor(t)
  <2>1. /\ s # <<>> /\ Top(t).kind = "destructor"
        /\ stack'[t] = Below(t) /\ unwinding'[t] = Top(t).unwinding
        /\ boundary'[t] = Top(t).boundary
    BY <1>9 DEF EndDestructor, Inside, SetStack, TypeOK, s
  <2>2. Routed(Append(Below(t), Top(t)), unwinding[t], b)
    BY <1>1, <1>2, <2>1
  <2>3. Routed(Below(t), Top(t).unwinding, Top(t).boundary)
    BY <1>2, <2>1, <2>2, RoutedReturn
  <2>4. QED
    BY <2>1, <2>3 DEF RoutedNext
<1>10. CASE EndTerminate(t)
  BY <1>1, <1>10 DEF EndTerminate, RoutedNext, s, b
<1>11. ASSUME NEW e \in Exceptions, Allocate(t, e)
       PROVE  RoutedNext(t)
  <2>1. /\ Running(t) /\ UNCHANGED <<unwinding, boundary>>
        /\ SetStack(t, Append(s, Activation("construct", e)))
    BY <1>11 DEF Allocate, Roomy, s
  <2>2. QED
    BY <1>6, <2>1, Pushed
<1>12. ASSUME NEW e \in Exceptions, ReleaseException(t, e)
       PROVE  RoutedNext(t)
  <2>1. unwinding[t] = Calm /\ Release(t, s, e, Calm)
    BY <1>12 DEF ReleaseException, Roomy, Running, s
  <2>2. QED
    BY <1>1, <2>1, ReleaseRouted DEF b
<1>13. ASSUME NEW e \in Exceptions, NEW v \in Threads, RetainException(t, v, e)
       PROVE  RoutedNext(t)
  BY <1>1, <1>13 DEF RetainException, RoutedNext, s, b
<1>14. CASE Throw(t)
  <2>1. s # <<>> /\ Top(t).kind = "construct" /\ Raise(t, Below(t), Top(t).exc)
    BY <1>14 DEF Throw, Inside, s
  <2>2. Top(t).exc \in Exceptions
    BY <1>2, <2>1, ActivationFields DEF WellFormed
  <2>3. QED
    BY <1>2, <1>5, <2>1, <2>2, RaiseRouted DEF b
<1>15. CASE Rethrow(t)
  <2>1. Routed(s, Calm, b)
    BY <1>1, RoutedCalm
  <2>2. CASE caught[t] = <<>>
    <3>1. Terminate(t, s, NoException)
      BY <1>15, <2>2 DEF Rethrow, s
    <3>2. QED
      BY <1>1, <2>1, <3>1, TerminateRouted DEF b
  <2>3. CASE caught[t] # <<>>
    <3>1. Raise(t, s, Last(caught[t]).exc)
      BY <1>15, <2>3 DEF Rethrow, s
    <3>2. QED
      BY <1>1, <2>1, <2>3, <3>1, CaughtFacts, RaiseRouted DEF b
  <2>4. QED
    BY <2>2, <2>3
<1>16. CASE LeaveHandler(t)
  <2>1. /\ s # <<>> /\ Top(t).kind = "handler" /\ unwinding[t] = Calm
        /\ EndCatch(t, Below(t), Calm)
    BY <1>16 DEF LeaveHandler, Inside, Running, s
  <2>2. Top(t).exc \in Exceptions
    BY <1>2, <2>1, ActivationFields DEF WellFormed
  <2>3. QED
    BY <1>2, <1>5, <2>1, <2>2, EndCatchRouted DEF b
<1>17. CASE UnwindOne(t)
  <2>1. /\ unwinding[t] # Calm /\ Depth(t) > unwinding[t].target
    BY <1>17 DEF UnwindOne
  <2>2. s # <<>> /\ unwinding[t].target \in 1 .. Depth(t)
    BY <2>1, UnwindingFacts DEF s
  <2>3. Routed(Below(t), unwinding[t], b)
    BY <1>2, <1>4, <2>1, <2>2
  <2>4. CASE Top(t).kind \in {"try", "construct"}
    <3>1. stack'[t] = Below(t) /\ unwinding'[t] = unwinding[t] /\ boundary'[t] = b
      BY <1>17, <2>4 DEF UnwindOne, SetStack, TypeOK, b
    <3>2. QED
      BY <2>3, <3>1 DEF RoutedNext
  <2>5. CASE Top(t).kind = "object"
    <3> DEFINE a == Destructor(NoException, b, unwinding[t])
    <3>1. /\ stack'[t] = Append(Below(t), a)
          /\ boundary'[t] = Depth(t) /\ unwinding'[t] = Calm
      BY <1>17, <2>5 DEF UnwindOne, SetStack, TypeOK, b
    <3>2. a \in Activations /\ a.boundary = b /\ a.unwinding = unwinding[t]
      <4>1. \A e \in Exceptions \cup {NoException}, c \in Nat, u \in Unwinds :
                /\ Destructor(e, c, u) \in Activations
                /\ Destructor(e, c, u).boundary = c /\ Destructor(e, c, u).unwinding = u
        BY PushedDestructor
      <4>2. QED
        BY <1>1, <4>1
    <3>3. QED
      BY <1>1, <1>2, <2>2, <2>3, <3>1, <3>2, RoutedCall DEF RoutedNext
  <2>6. CASE Top(t).kind = "handler"
    <3>1. EndCatch(t, Below(t), unwinding[t])
      BY <1>17, <2>6 DEF UnwindOne
    <3>2. Top(t).exc \in Exceptions
      BY <1>2, <2>2, <2>6, ActivationFields DEF WellFormed
    <3>3. QED
      BY <1>2, <2>2, <2>3, <3>1, <3>2, EndCatchRouted DEF b
  <2>7. QED
    BY <1>17, <2>4, <2>5, <2>6 DEF UnwindOne
<1>18. CASE Land(t)
  <2>1. s # <<>> /\ unwinding[t].exc \in Exceptions
    BY <1>18, UnwindingFacts DEF Land, s
  <2>2. /\ stack'[t] = Append(Below(t), Activation("handler", unwinding[t].exc))
        /\ unwinding'[t] = Calm /\ boundary'[t] = b
    BY <1>18 DEF Land, BeginCatch, SetStack, TypeOK, b
  <2>3. QED
    BY <1>1, <1>2, <1>5, <2>1, <2>2, RoutedPush, Pushed DEF RoutedNext
<1>19. CASE LandCopying(t)
  <2>1. s # <<>> /\ unwinding[t].exc \in Exceptions
    BY <1>19, UnwindingFacts DEF LandCopying, s
  <2> DEFINE a == Copy(unwinding[t].exc, b)
  <2>2. /\ stack'[t] = Append(Below(t), a)
        /\ boundary'[t] = Depth(t) /\ unwinding'[t] = Calm
    BY <1>19 DEF LandCopying, SetStack, TypeOK, b
  <2>3. a \in Activations /\ a.kind = "copy" /\ a.boundary = b
    BY <1>1, <2>1, PushedCopy
  <2>4. a.unwinding = Calm
    BY <2>3, ActivationFields DEF WellFormed
  <2>5. QED
    BY <1>1, <1>2, <1>5, <2>1, <2>2, <2>3, <2>4, RoutedCall DEF RoutedNext
<1>20. CASE EndCopy(t)
  <2>1. /\ s # <<>> /\ Top(t).kind = "copy" /\ unwinding[t] = Calm
        /\ stack'[t] = Append(Below(t), Activation("handler", Top(t).exc))
        /\ boundary'[t] = Top(t).boundary /\ unwinding'[t] = unwinding[t]
    BY <1>20 DEF EndCopy, Inside, Running, BeginCatch, SetStack, TypeOK, s
  <2>2. /\ Top(t).exc \in Exceptions /\ Top(t).boundary \in Nat /\ Top(t).unwinding = Calm
    BY <1>2, <2>1, ActivationFields DEF WellFormed
  <2>3. Routed(Below(t), Calm, Top(t).boundary)
    <3>1. Routed(Append(Below(t), Top(t)), unwinding[t], b)
      BY <1>1, <1>2, <2>1
    <3>2. Routed(Below(t), Top(t).unwinding, Top(t).boundary)
      BY <1>2, <2>1, <3>1, RoutedReturn
    <3>3. QED
      BY <2>2, <3>2
  <2>4. QED
    BY <1>2, <2>1, <2>2, <2>3, RoutedPush, Pushed DEF RoutedNext
<1>21. CASE CurrentException(t)
  BY <1>1, <1>21 DEF CurrentException, RoutedNext, s, b
<1>22. ASSUME NEW e \in Exceptions, RethrowException(t, e)
       PROVE  RoutedNext(t)
  <2>1. Raise(t, s, e) /\ Routed(s, Calm, b)
    BY <1>1, <1>22, RoutedCalm DEF RethrowException, s
  <2>2. QED
    BY <1>1, <2>1, RaiseRouted DEF b
<1>23. QED
  BY <1>7, <1>8, <1>9, <1>10, <1>11, <1>12, <1>13, <1>14, <1>15, <1>16, <1>17, <1>18, <1>19,
     <1>20, <1>21, <1>22 DEF WithoutState, WithState

-----------------------------------------------------------------------------
(* The handlers at work and the exceptions in flight, as the stack grows   *)
(* and shrinks.                                                            *)
LEMMA PlacesAppend ==
    ASSUME NEW s \in Seq(Activations), NEW a \in Activations
    PROVE  /\ HandlerPlaces(Append(s, a)) =
                  HandlerPlaces(s) \cup
                  (IF HandlesOne(a) THEN {[exc |-> a.exc, at |-> Len(s) + 1]} ELSE {})
           /\ \A p \in HandlerPlaces(s) : p.at \in 1 .. Len(s)
           /\ Len(s) \in Nat
<1> DEFINE q == Append(s, a)
<1>1. /\ Len(s) \in Nat /\ DOMAIN s = 1 .. Len(s) /\ DOMAIN q = 1 .. Len(s) + 1
      /\ \A i \in 1 .. Len(s) : q[i] = s[i]
      /\ q[Len(s) + 1] = a
  BY AppendFacts
<1>2. \A i : i \in 1 .. Len(s) + 1 <=> i \in 1 .. Len(s) \/ i = Len(s) + 1
  BY <1>1
<1> HIDE DEF q
<1>3. HandlerPlaces(q) =
          HandlerPlaces(s) \cup
          (IF HandlesOne(a) THEN {[exc |-> a.exc, at |-> Len(s) + 1]} ELSE {})
  <2>1. ASSUME NEW p
        PROVE  p \in HandlerPlaces(q) <=>
                   \/ p \in HandlerPlaces(s)
                   \/ HandlesOne(a) /\ p = [exc |-> a.exc, at |-> Len(s) + 1]
    <3>1. p \in HandlerPlaces(q) <=>
              \E i \in 1 .. Len(s) + 1 : HandlesOne(q[i]) /\ p = [exc |-> q[i].exc, at |-> i]
      BY <1>1 DEF HandlerPlaces
    <3>2. p \in HandlerPlaces(s) <=>
              \E i \in 1 .. Len(s) : HandlesOne(s[i]) /\ p = [exc |-> s[i].exc, at |-> i]
      BY <1>1 DEF HandlerPlaces
    <3>3. QED
      BY <1>1, <1>2, <3>1, <3>2
  <2>2. QED
    BY <2>1
<1>4. \A p \in HandlerPlaces(s) : p.at \in 1 .. Len(s)
  BY <1>1 DEF HandlerPlaces
<1>5. QED
  BY <1>1, <1>3, <1>4 DEF q

(* The contexts of a chain with one more at its end. *)
LEMMA ContextsAppend ==
    ASSUME NEW c \in Seq(Contexts), NEW x \in Contexts
    PROVE  /\ ContextsOf(Append(c, x)) = ContextsOf(c) \cup {x}
           /\ Append(c, x) \in Seq(Contexts)
<1>1. /\ Len(c) \in Nat /\ DOMAIN c = 1 .. Len(c) /\ DOMAIN Append(c, x) = 1 .. Len(c) + 1
      /\ \A i \in 1 .. Len(c) : Append(c, x)[i] = c[i]
      /\ Append(c, x)[Len(c) + 1] = x
      /\ Append(c, x) \in Seq(Contexts)
  BY AppendFacts
<1>2. \A i : i \in 1 .. Len(c) + 1 <=> i \in 1 .. Len(c) \/ i = Len(c) + 1
  BY <1>1
<1>3. QED
  BY <1>1, <1>2 DEF ContextsOf

(* A handler begins: a context more at the end of the chain. *)
LEMMA ChainPush ==
    ASSUME NEW s \in Seq(Activations), NEW a \in Activations, HandlesOne(a), a.exc \in Exceptions,
           NEW c \in Seq(Contexts), Chain(s, c)
    PROVE  Chain(Append(s, a), Append(c, [exc |-> a.exc, at |-> Len(s) + 1]))
<1> DEFINE x == [exc |-> a.exc, at |-> Len(s) + 1]
<1> DEFINE q == Append(c, x)
<1>1. Len(s) \in Nat /\ \A p \in HandlerPlaces(s) : p.at \in 1 .. Len(s)
  BY PlacesAppend
<1>2. x \in Contexts /\ x.at = Len(s) + 1
  BY <1>1 DEF Contexts
<1>3. /\ Len(c) \in Nat /\ DOMAIN c = 1 .. Len(c) /\ DOMAIN q = 1 .. Len(c) + 1
      /\ \A i \in 1 .. Len(c) : q[i] = c[i]
      /\ q[Len(c) + 1] = x
  BY <1>2, AppendFacts
<1> HIDE DEF x, q
<1>4. \A i \in DOMAIN c : c[i].at <= Len(s)
  BY <1>1 DEF Chain, ContextsOf
<1>5. ContextsOf(q) = HandlerPlaces(Append(s, a))
  BY <1>2, ContextsAppend, PlacesAppend DEF Chain, q, x
<1>6. ASSUME NEW j \in DOMAIN q, NEW k \in DOMAIN q, j < k
      PROVE  q[j].at < q[k].at
  <2>1. j \in DOMAIN c /\ q[j] = c[j]
    BY <1>3, <1>6
  <2>2. CASE k \in DOMAIN c
    BY <1>3, <1>6, <2>1, <2>2 DEF Chain
  <2>3. CASE k = Len(c) + 1
    <3>1. c[j].at \in Int /\ c[j].at <= Len(s)
      BY <1>1, <1>4, <2>1 DEF Chain, ContextsOf
    <3>2. QED
      BY <1>1, <1>2, <1>3, <2>1, <2>3, <3>1
  <2>4. QED
    BY <1>3, <2>2, <2>3
<1>7. QED
  BY <1>5, <1>6 DEF Chain, q, x

(* An activation that handles nothing leaves the chain as it is. *)
LEMMA ChainPlain ==
    ASSUME NEW s \in Seq(Activations), NEW a \in Activations, ~ HandlesOne(a), NEW c
    PROVE  Chain(Append(s, a), c) <=> Chain(s, c)
BY PlacesAppend DEF Chain

(* A handler on top is named by the last context. *)
LEMMA ChainPop ==
    ASSUME NEW s \in Seq(Activations), NEW a \in Activations, HandlesOne(a), a.exc \in Exceptions,
           NEW c \in Seq(Contexts), Chain(Append(s, a), c)
    PROVE  /\ c # <<>> /\ Last(c).at = Len(s) + 1 /\ Last(c).exc = a.exc
           /\ Chain(s, Front(c))
<1> DEFINE x == [exc |-> a.exc, at |-> Len(s) + 1]
<1> DEFINE f == Front(c)
<1> DEFINE l == Last(c)
<1>1. /\ Len(s) \in Nat /\ x.at = Len(s) + 1 /\ x.exc = a.exc
      /\ \A p \in HandlerPlaces(s) : p.at \in 1 .. Len(s)
  BY PlacesAppend
<1> HIDE DEF x
<1>2. ContextsOf(c) = HandlerPlaces(s) \cup {x}
  BY PlacesAppend DEF Chain, x
<1>3. c # <<>>
  <2>1. \E k \in DOMAIN c : c[k] = x
    BY <1>2 DEF ContextsOf
  <2>2. QED
    BY <2>1
<1>4. /\ f \in Seq(Contexts) /\ l \in Contexts
      /\ Len(c) \in Nat /\ Len(c) > 0 /\ Len(f) = Len(c) - 1
      /\ c = Append(f, l)
  BY <1>3, FrontFacts
<1> HIDE DEF f, l
<1>5. /\ DOMAIN f = 1 .. Len(f) /\ DOMAIN c = 1 .. Len(f) + 1 /\ Len(f) \in Nat
      /\ \A i \in 1 .. Len(f) : c[i] = f[i]
      /\ c[Len(f) + 1] = l
  BY <1>4, AppendFacts
<1>6. \A k \in DOMAIN c : c[k].at \in Int /\ c[k].at <= Len(s) + 1
  BY <1>1, <1>2 DEF ContextsOf
<1>7. l = x
  <2>1. PICK k \in DOMAIN c : c[k] = x
    BY <1>2 DEF ContextsOf
  <2>2. k < Len(f) + 1 => c[k].at < c[Len(f) + 1].at
    BY <1>5 DEF Chain
  <2>3. ~ (c[k].at < c[Len(f) + 1].at)
    BY <1>1, <1>5, <1>6, <2>1
  <2>4. k = Len(f) + 1
    BY <1>5, <2>1, <2>2, <2>3
  <2>5. QED
    BY <1>5, <2>1, <2>4
<1>8. \A k \in DOMAIN f : f[k].at < Len(s) + 1
  BY <1>1, <1>5, <1>7 DEF Chain
<1>9. x \notin ContextsOf(f) /\ x \notin HandlerPlaces(s)
  BY <1>1, <1>5, <1>8 DEF ContextsOf
<1>10. ContextsOf(c) = ContextsOf(f) \cup {x}
  BY <1>4, <1>7, ContextsAppend
<1>11. ContextsOf(f) = HandlerPlaces(s)
  <2>1. ContextsOf(f) \cup {x} = HandlerPlaces(s) \cup {x}
    BY <1>2, <1>10
  <2>2. \A p : p \in ContextsOf(f) <=> p \in HandlerPlaces(s)
    BY <1>9, <2>1
  <2>3. QED
    BY <2>2
<1>12. \A j, k \in DOMAIN f : j < k => f[j].at < f[k].at
  BY <1>5 DEF Chain
<1>13. QED
  BY <1>1, <1>3, <1>7, <1>11, <1>12 DEF Chain, f, l

(* What throw; and current_exception mean is held by the activation that   *)
(* the last context names.                                                 *)
LEMMA ChainLast ==
    ASSUME NEW s \in Seq(Activations), NEW c \in Seq(Contexts), Chain(s, c), c # <<>>
    PROVE  \E i \in DOMAIN s : HandlesOne(s[i]) /\ s[i].exc = Last(c).exc
<1>1. Len(c) \in DOMAIN c /\ Last(c) = c[Len(c)]
  BY DEF Last
<1>2. Last(c) \in HandlerPlaces(s)
  BY <1>1 DEF Chain, ContextsOf
<1>3. QED
  BY <1>2 DEF HandlerPlaces

-----------------------------------------------------------------------------
(* What is in flight in a stack with one more activation. *)
LEMMA FlightAppend ==
    ASSUME NEW s \in Seq(Activations), NEW a \in Activations, NEW u
    PROVE  /\ Flight(Append(s, a), u) =
                  Flight(s, u) \cup (IF KeepsInFlight(a) THEN {Len(s) + 1} ELSE {})
           /\ Len(s) + 1 \notin Flight(s, u)
           /\ Flight(s, Calm) = Flight(s, u) \ {0}
           /\ u # Calm => 0 \in Flight(s, u) /\ Flight(s, u) = Flight(s, Calm) \cup {0}
           /\ 0 \notin Flight(s, Calm)
<1> DEFINE q == Append(s, a)
<1>1. /\ Len(s) \in Nat /\ DOMAIN s = 1 .. Len(s) /\ DOMAIN q = 1 .. Len(s) + 1
      /\ \A i \in 1 .. Len(s) : q[i] = s[i]
      /\ q[Len(s) + 1] = a
  BY AppendFacts
<1>2. \A i : i \in 1 .. Len(s) + 1 <=> i \in 1 .. Len(s) \/ i = Len(s) + 1
  BY <1>1
<1> HIDE DEF q
<1>3. {i \in DOMAIN q : KeepsInFlight(q[i])} =
          {i \in DOMAIN s : KeepsInFlight(s[i])}
          \cup (IF KeepsInFlight(a) THEN {Len(s) + 1} ELSE {})
  BY <1>1, <1>2
<1>4. Flight(q, u) = Flight(s, u) \cup (IF KeepsInFlight(a) THEN {Len(s) + 1} ELSE {})
  BY <1>3 DEF Flight
<1>5. QED
  BY <1>1, <1>4 DEF Flight, q

(* An activation that keeps nothing in flight does not count, *)
LEMMA CountPlain ==
    ASSUME NEW s \in Seq(Activations), NEW a \in Activations, ~ KeepsInFlight(a), NEW u, NEW n
    PROVE  Count(Append(s, a), u, n) <=> Count(s, u, n)
BY FlightAppend DEF Count

(* one that does counts for one, *)
LEMMA CountKept ==
    ASSUME NEW s \in Seq(Activations), NEW a \in Activations, KeepsInFlight(a), NEW u,
           NEW n \in Int
    PROVE  Count(Append(s, a), u, n) <=> Count(s, u, n - 1)
<1> DEFINE F == Flight(s, u)
<1> DEFINE G == Flight(Append(s, a), u)
<1>1. G = F \cup {Len(s) + 1} /\ Len(s) + 1 \notin F /\ Len(s) + 1 \in G /\ F = G \ {Len(s) + 1}
  BY FlightAppend
<1> HIDE DEF F, G
<1>2. IsFiniteSet(F) => /\ IsFiniteSet(G) /\ Cardinality(F) \in Nat
                        /\ Cardinality(G) = Cardinality(F) + 1
  BY <1>1, FS_AddElement, FS_CardinalityType
<1>3. IsFiniteSet(G) => IsFiniteSet(F)
  BY <1>1, FS_RemoveElement
<1>4. QED
  BY <1>2, <1>3 DEF Count, F, G

(* and so does an unwind in progress. *)
LEMMA CountUnwinding ==
    ASSUME NEW s \in Seq(Activations), NEW u, u # Calm, NEW n \in Int
    PROVE  Count(s, u, n) <=> Count(s, Calm, n - 1)
<1> DEFINE F == Flight(s, Calm)
<1> DEFINE G == Flight(s, u)
<1>1. G = F \cup {0} /\ 0 \notin F /\ 0 \in G /\ F = G \ {0}
  <2>1. DOMAIN s = 1 .. Len(s) /\ Len(s) \in Nat
    OBVIOUS
  <2>2. QED
    BY <2>1 DEF Flight
<1> HIDE DEF F, G
<1>2. IsFiniteSet(F) => /\ IsFiniteSet(G) /\ Cardinality(F) \in Nat
                        /\ Cardinality(G) = Cardinality(F) + 1
  BY <1>1, FS_AddElement, FS_CardinalityType
<1>3. IsFiniteSet(G) => IsFiniteSet(F)
  BY <1>1, FS_RemoveElement
<1>4. QED
  BY <1>2, <1>3 DEF Count, F, G

(* An activation neither of whose kind is in the ledger. *)
LEMMA LedgerPlain ==
    ASSUME NEW s \in Seq(Activations), NEW a \in Activations,
           a.kind \in {"try", "object", "noexcept", "construct"} \/
           (a.kind = "terminate" /\ a.exc = NoException),
           NEW u, NEW c, NEW n
    PROVE  Ledger(Append(s, a), u, c, n) <=> Ledger(s, u, c, n)
<1>1. ~ HandlesOne(a) /\ ~ KeepsInFlight(a)
  BY ActivationFields DEF WellFormed, HandlesOne, KeepsInFlight
<1>2. QED
  BY <1>1, ChainPlain, CountPlain DEF Ledger

(* An exception is raised: it will be unwound, *)
LEMMA LedgerRaise ==
    ASSUME NEW s \in Seq(Activations), NEW u, u # Calm, NEW c, NEW n \in Int,
           Ledger(s, Calm, c, n)
    PROVE  Ledger(s, u, c, n + 1)
BY CountUnwinding DEF Ledger

(* or it is the cause of termination. *)
LEMMA LedgerTerminate ==
    ASSUME NEW s \in Seq(Activations), NEW e \in Exceptions, NEW c \in Seq(Contexts),
           NEW n \in Int, Ledger(s, Calm, c, n)
    PROVE  Ledger(Append(s, Activation("terminate", e)), Calm,
                  Append(c, [exc |-> e, at |-> Len(s) + 1]), n + 1)
<1> DEFINE a == Activation("terminate", e)
<1>1. a \in Activations /\ a.kind = "terminate" /\ a.exc = e
  BY Pushed
<1> HIDE DEF a
<1>2. HandlesOne(a) /\ KeepsInFlight(a)
  BY <1>1, NoExceptionAssumption DEF HandlesOne, KeepsInFlight
<1>3. Count(Append(s, a), Calm, n + 1)
  BY <1>1, <1>2, CountKept DEF Ledger
<1>4. Chain(Append(s, a), Append(c, [exc |-> e, at |-> Len(s) + 1]))
  BY <1>1, <1>2, ChainPush DEF Ledger
<1>5. QED
  BY <1>3, <1>4 DEF Ledger, a

(* A destructor is called, and the unwind goes on when it returns. *)
LEMMA LedgerDestructor ==
    ASSUME NEW s \in Seq(Activations), NEW a \in Activations, a.kind = "destructor",
           NEW c, NEW n \in Int
    PROVE  Ledger(Append(s, a), Calm, c, n) <=> Ledger(s, a.unwinding, c, n)
<1>1. ~ HandlesOne(a)
  BY DEF HandlesOne
<1>2. CASE a.unwinding = Calm
  <2>1. ~ KeepsInFlight(a)
    BY <1>2 DEF KeepsInFlight
  <2>2. QED
    BY <1>1, <1>2, <2>1, ChainPlain, CountPlain DEF Ledger
<1>3. CASE a.unwinding # Calm
  <2>1. KeepsInFlight(a)
    BY <1>3 DEF KeepsInFlight
  <2>2. QED
    BY <1>1, <1>3, <2>1, ChainPlain, CountKept, CountUnwinding DEF Ledger
<1>4. QED
  BY <1>2, <1>3

(* The exception arrives and is copied, *)
LEMMA LedgerCopy ==
    ASSUME NEW s \in Seq(Activations), NEW a \in Activations, a.kind = "copy",
           NEW c, NEW n \in Int
    PROVE  /\ Ledger(Append(s, a), Calm, c, n) <=> Ledger(s, Calm, c, n - 1)
           /\ \A u : u # Calm /\ Ledger(s, u, c, n) => Ledger(Append(s, a), Calm, c, n)
<1>1. ~ HandlesOne(a) /\ KeepsInFlight(a)
  BY ActivationFields, NoExceptionAssumption DEF WellFormed, HandlesOne, KeepsInFlight
<1>2. Ledger(Append(s, a), Calm, c, n) <=> Ledger(s, Calm, c, n - 1)
  BY <1>1, ChainPlain, CountKept DEF Ledger
<1>3. QED
  BY <1>2, CountUnwinding DEF Ledger

(* it is caught, *)
LEMMA LedgerHandler ==
    ASSUME NEW s \in Seq(Activations), NEW e \in Exceptions, NEW c \in Seq(Contexts),
           NEW n \in Int, Ledger(s, Calm, c, n)
    PROVE  Ledger(Append(s, Activation("handler", e)), Calm,
                  Append(c, [exc |-> e, at |-> Len(s) + 1]), n)
<1> DEFINE a == Activation("handler", e)
<1>1. a \in Activations /\ a.kind = "handler" /\ a.exc = e /\ a.unwinding = Calm
  BY Pushed
<1> HIDE DEF a
<1>2. HandlesOne(a) /\ ~ KeepsInFlight(a)
  BY <1>1 DEF HandlesOne, KeepsInFlight
<1>3. Chain(Append(s, a), Append(c, [exc |-> e, at |-> Len(s) + 1]))
  BY <1>1, <1>2, ChainPush DEF Ledger
<1>4. QED
  BY <1>1, <1>2, <1>3, CountPlain DEF Ledger, a

(* and the handler ends. *)
LEMMA LedgerEndCatch ==
    ASSUME NEW s \in Seq(Activations), NEW a \in Activations, a.kind = "handler",
           NEW u, NEW c \in Seq(Contexts), NEW n, Ledger(Append(s, a), u, c, n)
    PROVE  /\ c # <<>> /\ Last(c).at = Len(s) + 1
           /\ Ledger(s, u, Front(c), n)
<1>1. HandlesOne(a) /\ ~ KeepsInFlight(a) /\ a.exc \in Exceptions
  BY ActivationFields DEF WellFormed, HandlesOne, KeepsInFlight
<1>2. QED
  BY <1>1, ChainPop, CountPlain DEF Ledger

-----------------------------------------------------------------------------
(* The operations that the actions share keep the thread's ledger, unless  *)
(* the program aborts.                                                     *)
LedgerNext(t) ==
    ~aborted' => Ledger(stack'[t], unwinding'[t], caught'[t], uncaught'[t])

(* The ledger after Terminate, *)
LEMMA TerminateLedger ==
    ASSUME TypeOK, NEW t \in Threads, NEW s \in Seq(Activations),
           Ledger(s, Calm, caught[t], uncaught[t]),
           NEW e \in Exceptions \cup {NoException}, Terminate(t, s, e),
           uncaught'[t] = IF e = NoException THEN uncaught[t] ELSE uncaught[t] + 1
    PROVE  LedgerNext(t)
<1>1. CASE terminating[t]
  BY <1>1 DEF Terminate, LedgerNext
<1>2. CASE ~ terminating[t]
  <2>1. /\ stack'[t] = Append(s, Activation("terminate", e))
        /\ unwinding'[t] = Calm
        /\ caught'[t] = IF e = NoException THEN caught[t]
                        ELSE Append(caught[t], [exc |-> e, at |-> Len(s) + 1])
    BY <1>2 DEF Terminate, SetStack, TypeOK
  <2>2. caught[t] \in Seq(Contexts) /\ uncaught[t] \in Int
    BY DEF TypeOK
  <2>3. CASE e = NoException
    <3>1. Activation("terminate", e) \in Activations
      BY Pushed
    <3>2. Activation("terminate", e).kind = "terminate" /\ Activation("terminate", e).exc = e
      BY Pushed
    <3>3. QED
      BY <2>1, <2>2, <2>3, <3>1, <3>2, LedgerPlain DEF LedgerNext
  <2>4. CASE e \in Exceptions
    BY <2>1, <2>2, <2>4, NoExceptionAssumption, LedgerTerminate DEF LedgerNext
  <2>5. QED
    BY <2>3, <2>4
<1>3. QED
  BY <1>1, <1>2

(* after Raise *)
LEMMA RaiseLedger ==
    ASSUME TypeOK, NEW t \in Threads, NEW s \in Seq(Activations),
           Ledger(s, Calm, caught[t], uncaught[t]), NEW e \in Exceptions, Raise(t, s, e)
    PROVE  LedgerNext(t)
<1> DEFINE D == Deciding(t, s, e)
<1>1. uncaught'[t] = uncaught[t] + 1 /\ uncaught[t] \in Int
  BY DEF Raise, TypeOK
<1>2. CASE D # {} /\ Max(D) > boundary[t] /\ e \in s[Max(D)].takes
  <2>1. /\ unwinding' = [unwinding EXCEPT ![t] = [exc |-> e, target |-> Max(D)]]
        /\ SetStack(t, s)
        /\ UNCHANGED <<caught, terminating, boundary, aborted>>
    BY <1>2 DEF Raise
  <2>2. /\ unwinding'[t] = [exc |-> e, target |-> Max(D)]
        /\ stack'[t] = s /\ caught'[t] = caught[t]
    BY <2>1 DEF SetStack, TypeOK
  <2>3. unwinding'[t] # Calm
    BY <2>2, NoExceptionAssumption DEF Calm
  <2>4. QED
    BY <1>1, <2>2, <2>3, LedgerRaise DEF LedgerNext
<1>3. CASE ~ (D # {} /\ Max(D) > boundary[t] /\ e \in s[Max(D)].takes)
  <2>1. Terminate(t, s, e)
    BY <1>3 DEF Raise
  <2>2. QED
    BY <1>1, <2>1, NoExceptionAssumption, TerminateLedger
<1>4. QED
  BY <1>2, <1>3

(* and after Release. *)
LEMMA ReleaseLedger ==
    ASSUME TypeOK, NEW t \in Threads, NEW s \in Seq(Activations), NEW e \in Exceptions,
           Ledger(s, unwinding[t], caught'[t], uncaught'[t]), uncaught'[t] \in Int,
           Release(t, s, e, unwinding[t])
    PROVE  LedgerNext(t)
<1> DEFINE a == Destructor(e, boundary[t], unwinding[t])
<1>1. CASE references[e] = 1
  <2>1. /\ SetStack(t, Append(s, a))
        /\ unwinding' = [unwinding EXCEPT ![t] = Calm]
    BY <1>1 DEF Release
  <2>2. stack'[t] = Append(s, a) /\ unwinding'[t] = Calm
    BY <2>1 DEF SetStack, TypeOK
  <2>3. boundary[t] \in Nat /\ unwinding[t] \in Unwinds
    BY DEF TypeOK
  <2>4. a \in Activations /\ a.kind = "destructor" /\ a.unwinding = unwinding[t]
    BY <2>3, PushedDestructor
  <2>5. QED
    BY <2>2, <2>4, LedgerDestructor DEF LedgerNext
<1>2. CASE references[e] # 1
  <2>1. stack'[t] = s /\ unwinding'[t] = unwinding[t]
    BY <1>2 DEF Release, SetStack, TypeOK
  <2>2. QED
    BY <2>1 DEF LedgerNext
<1>3. QED
  BY <1>1, <1>2

(* The handler that ends is the one that caught last: the runtime's check  *)
(* never fails.                                                            *)
LEMMA EndCatchIs ==
    ASSUME TypeOK, AllLedgers, ~ aborted, NEW t \in Threads, stack[t] # <<>>,
           Top(t).kind = "handler", NEW u, EndCatch(t, Below(t), u)
    PROVE  /\ Top(t).exc \in Exceptions
           /\ Release(t, Below(t), Top(t).exc, u)
           /\ caught'[t] = Front(caught[t])
           /\ UNCHANGED <<terminating, aborted>>
           /\ Ledger(Below(t), unwinding[t], caught'[t], uncaught[t])
<1>1. /\ Below(t) \in Seq(Activations) /\ Top(t) \in Activations
      /\ Depth(t) = Len(Below(t)) + 1
      /\ stack[t] = Append(Below(t), Top(t))
      /\ caught[t] \in Seq(Contexts)
  BY TopFacts DEF TypeOK
<1>2. Ledger(Append(Below(t), Top(t)), unwinding[t], caught[t], uncaught[t])
  BY <1>1 DEF AllLedgers
<1>3. /\ caught[t] # <<>> /\ Last(caught[t]).at = Depth(t)
      /\ Ledger(Below(t), unwinding[t], Front(caught[t]), uncaught[t])
  BY <1>1, <1>2, LedgerEndCatch
<1>4. /\ Release(t, Below(t), Top(t).exc, u)
      /\ caught' = [caught EXCEPT ![t] = Front(@)]
      /\ UNCHANGED <<terminating, aborted>>
  BY <1>3 DEF EndCatch
<1>5. caught'[t] = Front(caught[t])
  BY <1>4 DEF TypeOK
<1>6. QED
  BY <1>1, <1>3, <1>4, <1>5, ActivationFields DEF WellFormed

(* Every step keeps every thread's ledger. *)
LEMMA ProgramLedgers ==
    ASSUME TypeOK, AllRouted, AllLedgers, NEW t \in Threads, WithoutState(t) \/ WithState(t)
    PROVE  AllLedgers'
<1> DEFINE s == stack[t]
<1> DEFINE c == caught[t]
<1> DEFINE n == uncaught[t]
<1>1. ~ aborted /\ (~ aborted' => ~ aborted)
  BY DEF WithoutState, WithState, Enter, Leave, EndDestructor, EndTerminate, Allocate,
         ReleaseException, RetainException, Throw, Rethrow, LeaveHandler, UnwindOne, Land,
         LandCopying, EndCopy, CurrentException, RethrowException, Roomy, Inside, Running
<1>2. /\ s \in Seq(Activations) /\ c \in Seq(Contexts) /\ n \in Int /\ boundary[t] \in Nat
      /\ unwinding[t] \in Unwinds
      /\ Ledger(s, unwinding[t], c, n)
  BY <1>1 DEF TypeOK, AllLedgers
<1>3. s # <<>> => /\ Below(t) \in Seq(Activations) /\ Top(t) \in Activations
                  /\ Depth(t) = Len(Below(t)) + 1 /\ Len(Below(t)) \in Nat
                  /\ s = Append(Below(t), Top(t))
  BY TopFacts
<1>4. SUFFICES LedgerNext(t)
  BY <1>1, OneMoves DEF Elsewhere, AllLedgers, LedgerNext
<1> HIDE DEF s, c, n
<1>5. CASE Enter(t)
  <2>1. PICK a \in Activations : /\ a.kind \in {"object", "noexcept", "try"}
                                /\ SetStack(t, Append(s, a))
    BY <1>5, Pushed DEF Enter, s
  <2>2. /\ stack'[t] = Append(s, a) /\ unwinding'[t] = unwinding[t]
        /\ caught'[t] = c /\ uncaught'[t] = n
    BY <1>5, <2>1 DEF Enter, SetStack, TypeOK, c, n
  <2>3. QED
    BY <1>2, <2>1, <2>2, LedgerPlain DEF LedgerNext
<1>6. CASE Leave(t)
  <2>1. /\ s # <<>> /\ Top(t).kind \in {"object", "noexcept", "try"}
        /\ stack'[t] = Below(t) /\ unwinding'[t] = unwinding[t]
        /\ caught'[t] = c /\ uncaught'[t] = n
    BY <1>6 DEF Leave, Inside, SetStack, TypeOK, s, c, n
  <2>2. Ledger(Append(Below(t), Top(t)), unwinding[t], c, n)
    BY <1>2, <1>3, <2>1
  <2>3. QED
    BY <1>3, <2>1, <2>2, LedgerPlain DEF LedgerNext
<1>7. CASE EndDestructor(t)
  <2>1. /\ s # <<>> /\ Top(t).kind = "destructor" /\ unwinding[t] = Calm
        /\ stack'[t] = Below(t) /\ unwinding'[t] = Top(t).unwinding
        /\ caught'[t] = c /\ uncaught'[t] = n
    BY <1>7 DEF EndDestructor, Inside, Running, SetStack, TypeOK, s, c, n
  <2>2. Ledger(Append(Below(t), Top(t)), Calm, c, n)
    BY <1>2, <1>3, <2>1
  <2>3. QED
    BY <1>2, <1>3, <2>1, <2>2, LedgerDestructor DEF LedgerNext
<1>8. CASE EndTerminate(t)
  BY <1>8 DEF EndTerminate, LedgerNext
<1>9. ASSUME NEW e \in Exceptions, Allocate(t, e)
      PROVE  LedgerNext(t)
  <2>1. /\ stack'[t] = Append(s, Activation("construct", e)) /\ unwinding'[t] = unwinding[t]
        /\ caught'[t] = c /\ uncaught'[t] = n
    BY <1>9 DEF Allocate, SetStack, TypeOK, s, c, n
  <2>2. /\ Activation("construct", e) \in Activations
        /\ Activation("construct", e).kind = "construct"
    BY Pushed
  <2>3. QED
    BY <1>2, <2>1, <2>2, LedgerPlain DEF LedgerNext
<1>10. ASSUME NEW e \in Exceptions, ReleaseException(t, e)
       PROVE  LedgerNext(t)
  <2>1. /\ unwinding[t] = Calm /\ Release(t, s, e, unwinding[t])
        /\ caught'[t] = c /\ uncaught'[t] = n
    BY <1>10 DEF ReleaseException, Roomy, Running, s, c, n
  <2>2. QED
    BY <1>2, <2>1, ReleaseLedger
<1>11. ASSUME NEW e \in Exceptions, NEW v \in Threads, RetainException(t, v, e)
       PROVE  LedgerNext(t)
  BY <1>2, <1>11 DEF RetainException, LedgerNext, s, c, n
<1>12. CASE Throw(t)
  <2>1. /\ s # <<>> /\ Top(t).kind = "construct" /\ unwinding[t] = Calm
        /\ Raise(t, Below(t), Top(t).exc)
    BY <1>12 DEF Throw, Inside, Running, s
  <2>2. Ledger(Append(Below(t), Top(t)), Calm, c, n)
    BY <1>2, <1>3, <2>1
  <2>3. Ledger(Below(t), Calm, c, n)
    BY <1>3, <2>1, <2>2, LedgerPlain
  <2>4. Top(t).exc \in Exceptions
    BY <1>3, <2>1, ActivationFields DEF WellFormed
  <2>5. QED
    BY <1>3, <2>1, <2>3, <2>4, RaiseLedger DEF c, n
<1>13. CASE Rethrow(t)
  <2>1. Ledger(s, Calm, c, n)
    BY <1>2, <1>13 DEF Rethrow, Running
  <2>2. CASE c = <<>>
    <3>1. Terminate(t, s, NoException) /\ UNCHANGED uncaught
      BY <1>13, <2>2 DEF Rethrow, s, c
    <3>2. QED
      BY <1>2, <2>1, <3>1, TerminateLedger DEF c, n
  <2>3. CASE c # <<>>
    <3>1. Raise(t, s, Last(c).exc)
      BY <1>13, <2>3 DEF Rethrow, s, c
    <3>2. Last(c).exc \in Exceptions
      BY <2>3, CaughtFacts DEF c
    <3>3. QED
      BY <1>2, <2>1, <3>1, <3>2, RaiseLedger DEF c, n
  <2>4. QED
    BY <2>2, <2>3
<1>14. CASE LeaveHandler(t)
  <2>1. /\ s # <<>> /\ Top(t).kind = "handler" /\ unwinding[t] = Calm
        /\ EndCatch(t, Below(t), unwinding[t]) /\ uncaught' = uncaught
    BY <1>14 DEF LeaveHandler, Inside, Running, s
  <2>2. QED
    BY <1>1, <1>2, <1>3, <2>1, EndCatchIs, ReleaseLedger DEF s, n
<1>15. CASE UnwindOne(t)
  <2>1. unwinding[t] # Calm /\ uncaught' = uncaught
    BY <1>15 DEF UnwindOne
  <2>2. s # <<>>
    BY <2>1, UnwindingFacts DEF s
  <2>3. Ledger(Append(Below(t), Top(t)), unwinding[t], c, n)
    BY <1>2, <1>3, <2>2
  <2>4. CASE Top(t).kind \in {"try", "construct"}
    <3>1. stack'[t] = Below(t) /\ unwinding'[t] = unwinding[t] /\ caught'[t] = c
      BY <1>15, <2>4 DEF UnwindOne, SetStack, TypeOK, c
    <3>2. QED
      BY <1>3, <2>1, <2>2, <2>3, <2>4, <3>1, LedgerPlain DEF LedgerNext, n
  <2>5. CASE Top(t).kind = "object"
    <3> DEFINE a == Destructor(NoException, boundary[t], unwinding[t])
    <3>1. stack'[t] = Append(Below(t), a) /\ unwinding'[t] = Calm /\ caught'[t] = c
      BY <1>15, <2>5 DEF UnwindOne, SetStack, TypeOK, c
    <3>2. a \in Activations /\ a.kind = "destructor" /\ a.unwinding = unwinding[t]
      <4>1. \A e \in Exceptions \cup {NoException}, b \in Nat, u \in Unwinds :
                /\ Destructor(e, b, u) \in Activations
                /\ Destructor(e, b, u).kind = "destructor" /\ Destructor(e, b, u).unwinding = u
        BY PushedDestructor
      <4>2. QED
        BY <1>2, <4>1
    <3>3. Ledger(Below(t), unwinding[t], c, n)
      BY <1>3, <2>2, <2>3, <2>5, LedgerPlain
    <3>4. QED
      BY <1>2, <1>3, <2>1, <2>2, <3>1, <3>2, <3>3, LedgerDestructor DEF LedgerNext, n
  <2>6. CASE Top(t).kind = "handler"
    <3>1. EndCatch(t, Below(t), unwinding[t])
      BY <1>15, <2>6 DEF UnwindOne
    <3>2. QED
      BY <1>1, <1>2, <1>3, <2>1, <2>2, <2>6, <3>1, EndCatchIs, ReleaseLedger DEF s, n
  <2>7. QED
    BY <1>15, <2>4, <2>5, <2>6 DEF UnwindOne
<1>16. ASSUME unwinding[t] # Calm, Depth(t) = unwinding[t].target
       PROVE  /\ s # <<>> /\ unwinding[t].exc \in Exceptions
              /\ Top(t).kind = "try"
              /\ Ledger(Below(t), unwinding[t], c, n)
              /\ Ledger(Below(t), Calm, c, n - 1)
  <2>1. s # <<>> /\ unwinding[t].exc \in Exceptions
    BY <1>16, UnwindingFacts DEF s
  <2>2. Top(t).kind = "try"
    <3>1. s[Depth(t)].takes # {}
      BY <1>16 DEF AllRouted, Routed, Path, s
    <3>2. Top(t) = s[Depth(t)]
      BY DEF Top, Last, Depth, s
    <3>3. QED
      BY <1>3, <2>1, <3>1, <3>2, ActivationFields DEF WellFormed
  <2>3. Ledger(Append(Below(t), Top(t)), unwinding[t], c, n)
    BY <1>2, <1>3, <2>1
  <2>4. Ledger(Below(t), unwinding[t], c, n)
    BY <1>3, <2>1, <2>2, <2>3, LedgerPlain
  <2>5. Ledger(Below(t), Calm, c, n - 1)
    BY <1>2, <1>3, <1>16, <2>1, <2>4, CountUnwinding DEF Ledger
  <2>6. QED
    BY <2>1, <2>2, <2>4, <2>5
<1>17. CASE Land(t)
  <2>1. unwinding[t] # Calm /\ Depth(t) = unwinding[t].target
    BY <1>17 DEF Land
  <2>2. /\ stack'[t] = Append(Below(t), Activation("handler", unwinding[t].exc))
        /\ unwinding'[t] = Calm /\ uncaught'[t] = n - 1
        /\ caught'[t] = Append(c, [exc |-> unwinding[t].exc, at |-> Len(Below(t)) + 1])
    BY <1>17 DEF Land, BeginCatch, SetStack, TypeOK, c, n
  <2>3. n - 1 \in Int
    BY <1>2
  <2>4. QED
    BY <1>2, <1>3, <1>16, <2>1, <2>2, <2>3, LedgerHandler DEF LedgerNext
<1>18. CASE LandCopying(t)
  <2> DEFINE a == Copy(unwinding[t].exc, boundary[t])
  <2>1. unwinding[t] # Calm /\ Depth(t) = unwinding[t].target
    BY <1>18 DEF LandCopying
  <2>2. /\ stack'[t] = Append(Below(t), a)
        /\ unwinding'[t] = Calm /\ caught'[t] = c /\ uncaught'[t] = n
    BY <1>18 DEF LandCopying, SetStack, TypeOK, c, n
  <2>3. a \in Activations /\ a.kind = "copy"
    BY <1>2, <1>16, <2>1, PushedCopy
  <2>4. QED
    BY <1>2, <1>3, <1>16, <2>1, <2>2, <2>3, LedgerCopy DEF LedgerNext
<1>19. CASE EndCopy(t)
  <2>1. /\ s # <<>> /\ Top(t).kind = "copy" /\ unwinding[t] = Calm
        /\ stack'[t] = Append(Below(t), Activation("handler", Top(t).exc))
        /\ unwinding'[t] = unwinding[t] /\ uncaught'[t] = n - 1
        /\ caught'[t] = Append(c, [exc |-> Top(t).exc, at |-> Len(Below(t)) + 1])
    BY <1>19 DEF EndCopy, Inside, Running, BeginCatch, SetStack, TypeOK, s, c, n
  <2>2. Top(t).exc \in Exceptions /\ n - 1 \in Int
    BY <1>2, <1>3, <2>1, ActivationFields DEF WellFormed
  <2>3. Ledger(Append(Below(t), Top(t)), Calm, c, n)
    BY <1>2, <1>3, <2>1
  <2>4. Ledger(Below(t), Calm, c, n - 1)
    BY <1>2, <1>3, <2>1, <2>3, LedgerCopy
  <2>5. QED
    BY <1>2, <1>3, <2>1, <2>2, <2>4, LedgerHandler DEF LedgerNext
<1>20. CASE CurrentException(t)
  BY <1>2, <1>20 DEF CurrentException, LedgerNext, s, c, n
<1>21. ASSUME NEW e \in Exceptions, RethrowException(t, e)
       PROVE  LedgerNext(t)
  <2>1. Raise(t, s, e) /\ unwinding[t] = Calm
    BY <1>21 DEF RethrowException, Running, s
  <2>2. QED
    BY <1>2, <2>1, RaiseLedger DEF c, n
<1>22. QED
  BY <1>5, <1>6, <1>7, <1>8, <1>9, <1>10, <1>11, <1>12, <1>13, <1>14, <1>15, <1>17, <1>18, <1>19,
     <1>20, <1>21 DEF WithoutState, WithState

-----------------------------------------------------------------------------
(* The books of one exception.  Another holder is found a reference by one *)
(* who has it, *)
LEMMA BooksAdd ==
    ASSUME NEW H, NEW D, NEW C, NEW r, NEW st, Books(H, D, C, r, st),
           NEW h \in H, h \notin C, NEW p, p \notin H
    PROVE  Books(H \cup {p}, D, C, r + 1, st)
<1>1. IsFiniteSet(H) /\ r = Cardinality(H) /\ r \in Nat
  BY FS_CardinalityType DEF Books
<1>2. IsFiniteSet(H \cup {p}) /\ Cardinality(H \cup {p}) = r + 1
  BY <1>1, FS_AddElement
<1>3. C = {}
  <2>1. ASSUME NEW q \in C
        PROVE  FALSE
    <3>1. q \in H /\ Cardinality(H) = 1
      BY <2>1 DEF Books
    <3>2. \E x : H = {x}
      BY <1>1, <3>1, FS_Singleton
    <3>3. QED
      BY <2>1, <3>1, <3>2
  <2>2. QED
    BY <2>1
<1>4. QED
  BY <1>2, <1>3 DEF Books

(* a holder passes it on to another place, *)
LEMMA BooksMove ==
    ASSUME NEW H, NEW D, NEW C, NEW r, NEW st, Books(H, D, C, r, st),
           NEW p \in H, p \notin C, NEW q, q \notin H
    PROVE  Books((H \ {p}) \cup {q}, D, C, r, st)
<1>1. IsFiniteSet(H) /\ r = Cardinality(H) /\ r \in Nat
  BY FS_CardinalityType DEF Books
<1>2. IsFiniteSet(H \ {p}) /\ Cardinality(H \ {p}) = r - 1
  BY <1>1, FS_RemoveElement
<1>3. /\ IsFiniteSet((H \ {p}) \cup {q})
      /\ Cardinality((H \ {p}) \cup {q}) = r
  <2> DEFINE G == H \ {p}
  <2>1. IsFiniteSet(G) /\ Cardinality(G) = r - 1 /\ q \notin G
    BY <1>2
  <2> HIDE DEF G
  <2>2. IsFiniteSet(G \cup {q}) /\ Cardinality(G \cup {q}) = r
    BY <1>1, <2>1, FS_AddElement
  <2>3. QED
    BY <2>2 DEF G
<1>4. H # {} /\ (H \ {p}) \cup {q} # {} /\ C \subseteq (H \ {p}) \cup {q}
  BY DEF Books
<1>5. D = {}
  BY <1>4 DEF Books
<1>6. QED
  BY <1>3, <1>4, <1>5 DEF Books

(* gives it up, *)
LEMMA BooksDrop ==
    ASSUME NEW H, NEW D, NEW C, NEW r, NEW st, Books(H, D, C, r, st),
           NEW p \in H, p \notin C, r # 1
    PROVE  Books(H \ {p}, D, C, r - 1, st)
<1>1. IsFiniteSet(H) /\ r = Cardinality(H) /\ r \in Nat
  BY FS_CardinalityType DEF Books
<1>2. IsFiniteSet(H \ {p}) /\ Cardinality(H \ {p}) = r - 1
  BY <1>1, FS_RemoveElement
<1>3. H \ {p} # {}
  <2>1. Cardinality({}) = 0 /\ r - 1 # 0
    BY <1>1, FS_EmptySet
  <2>2. QED
    BY <1>2, <2>1
<1>4. C = {} /\ D = {} /\ st # "free"
  BY DEF Books
<1>5. QED
  BY <1>2, <1>3, <1>4 DEF Books

(* or is the last to and calls the destructor, *)
LEMMA BooksLast ==
    ASSUME NEW H, NEW D, NEW C, NEW st, Books(H, D, C, 1, st),
           NEW p \in H, p \notin C
    PROVE  H = {p} /\ D = {} /\ C = {}
<1>1. IsFiniteSet(H) /\ 1 = Cardinality(H)
  BY DEF Books
<1>2. H = {p}
  BY <1>1, FS_Singleton
<1>3. C = {} /\ D = {} /\ st # "free"
  BY <1>2 DEF Books
<1>4. QED
  BY <1>2, <1>3, FS_EmptySet DEF Books

(* which frees the exception when it returns. *)
LEMMA BooksFreed ==
    ASSUME NEW H, NEW D, NEW C, NEW r, NEW st, Books(H, D, C, r, st), NEW d \in D
    PROVE  /\ H = {} /\ D = {d} /\ C = {}
           /\ Books({}, {}, {}, r, "free")
<1>1. H = {} /\ D = {d} /\ C = {}
  BY DEF Books
<1>2. QED
  BY <1>1 DEF Books

(* A throw expression allocates it, *)
LEMMA BooksNew ==
    ASSUME NEW H, NEW D, NEW C, NEW r, Books(H, D, C, r, "free"), NEW p
    PROVE  /\ H = {} /\ D = {} /\ C = {}
           /\ Books({p}, {}, {p}, 1, "constructed")
<1>1. H = {} /\ D = {} /\ C = {}
  BY DEF Books
<1>2. IsFiniteSet({p}) /\ Cardinality({p}) = 1
  BY FS_Singleton
<1>3. QED
  BY <1>1, <1>2 DEF Books

(* and throws it, or is unwound itself. *)
LEMMA BooksBuilt ==
    ASSUME NEW H, NEW D, NEW C, NEW r, NEW st, Books(H, D, C, r, st), NEW p \in C
    PROVE  /\ H = {p} /\ D = {} /\ C = {p}
           /\ \A q : Books({q}, {}, {}, r, "live")
           /\ Books({}, {}, {}, 0, "free")
<1>1. IsFiniteSet(H) /\ Cardinality(H) = 1 /\ r = 1 /\ p \in H /\ C \subseteq H
  BY DEF Books
<1>2. H = {p}
  BY <1>1, FS_Singleton
<1>3. D = {} /\ C = {p}
  BY <1>1, <1>2 DEF Books
<1>4. \A q : IsFiniteSet({q}) /\ Cardinality({q}) = 1
  BY FS_Singleton
<1>5. QED
  BY <1>1, <1>2, <1>3, <1>4, FS_EmptySet DEF Books

-----------------------------------------------------------------------------
(* Where a thread with the stack s, the unwind u and the handles h holds,  *)
(* destroys and constructs e.                                              *)
Held(s, u, h, e) ==
    {i \in DOMAIN s : Holds(s[i], e)}
    \cup (IF u.exc = e THEN {0} ELSE {})
    \cup (IF e \in h THEN {-1} ELSE {})

Destroyed(s, e) == {i \in DOMAIN s : s[i].kind = "destructor" /\ s[i].exc = e}

Constructed(s, e) == {i \in DOMAIN s : s[i].kind = "construct" /\ s[i].exc = e}

(* The places of e with one more activation, and without the unwind. *)
LEMMA HeldParts ==
    ASSUME NEW s \in Seq(Activations), NEW a \in Activations, NEW u, NEW h, NEW e \in Exceptions
    PROVE  /\ Held(s, u, h, e) =
                  Held(s, Calm, h, e) \cup (IF u.exc = e THEN {0} ELSE {})
           /\ Held(Append(s, a), u, h, e) =
                  Held(s, u, h, e) \cup (IF Holds(a, e) THEN {Len(s) + 1} ELSE {})
           /\ 0 \notin Held(s, Calm, h, e)
           /\ Len(s) + 1 \notin Held(s, u, h, e)
           /\ Len(s) + 1 # 0 /\ Len(s) + 1 # -1
<1> DEFINE q == Append(s, a)
<1>1. /\ Len(s) \in Nat /\ DOMAIN s = 1 .. Len(s) /\ DOMAIN q = 1 .. Len(s) + 1
      /\ \A i \in 1 .. Len(s) : q[i] = s[i]
      /\ q[Len(s) + 1] = a
  BY AppendFacts
<1>2. \A i : i \in 1 .. Len(s) + 1 <=> i \in 1 .. Len(s) \/ i = Len(s) + 1
  BY <1>1
<1>3. Calm.exc # e
  BY NoExceptionAssumption DEF Calm
<1> HIDE DEF q
<1>4. {i \in DOMAIN q : Holds(q[i], e)} =
          {i \in DOMAIN s : Holds(s[i], e)} \cup (IF Holds(a, e) THEN {Len(s) + 1} ELSE {})
  BY <1>1, <1>2
<1>5. Held(q, u, h, e) = Held(s, u, h, e) \cup (IF Holds(a, e) THEN {Len(s) + 1} ELSE {})
  BY <1>4 DEF Held
<1>6. Held(s, u, h, e) = Held(s, Calm, h, e) \cup (IF u.exc = e THEN {0} ELSE {})
  BY <1>3 DEF Held
<1>7. 0 \notin Held(s, Calm, h, e) /\ Len(s) + 1 \notin Held(s, u, h, e)
  BY <1>1, <1>3 DEF Held
<1>8. QED
  BY <1>1, <1>5, <1>6, <1>7 DEF q

(* The same for those that destroy or construct e. *)
LEMMA BuiltParts ==
    ASSUME NEW s \in Seq(Activations), NEW a \in Activations, NEW e
    PROVE  /\ Destroyed(Append(s, a), e) =
                  Destroyed(s, e) \cup
                  (IF a.kind = "destructor" /\ a.exc = e THEN {Len(s) + 1} ELSE {})
           /\ Constructed(Append(s, a), e) =
                  Constructed(s, e) \cup
                  (IF a.kind = "construct" /\ a.exc = e THEN {Len(s) + 1} ELSE {})
           /\ Len(s) + 1 \notin Destroyed(s, e) /\ Len(s) + 1 \notin Constructed(s, e)
           /\ 0 \notin Constructed(s, e) /\ -1 \notin Constructed(s, e)
           /\ Destroyed(s, e) \cup Constructed(s, e) \subseteq 1 .. Len(s)
<1> DEFINE q == Append(s, a)
<1>1. /\ Len(s) \in Nat /\ DOMAIN s = 1 .. Len(s) /\ DOMAIN q = 1 .. Len(s) + 1
      /\ \A i \in 1 .. Len(s) : q[i] = s[i]
      /\ q[Len(s) + 1] = a
  BY AppendFacts
<1>2. \A i : i \in 1 .. Len(s) + 1 <=> i \in 1 .. Len(s) \/ i = Len(s) + 1
  BY <1>1
<1> HIDE DEF q
<1>3. Destroyed(q, e) =
          Destroyed(s, e) \cup
          (IF a.kind = "destructor" /\ a.exc = e THEN {Len(s) + 1} ELSE {})
  BY <1>1, <1>2 DEF Destroyed
<1>4. Constructed(q, e) =
          Constructed(s, e) \cup
          (IF a.kind = "construct" /\ a.exc = e THEN {Len(s) + 1} ELSE {})
  BY <1>1, <1>2 DEF Constructed
<1>5. QED
  BY <1>1, <1>3, <1>4 DEF Destroyed, Constructed, q

(* These are the places of a thread before a step and after it. *)
LEMMA AtNow ==
    ASSUME NEW t, NEW e
    PROVE  /\ HeldAt(t, e) = Held(stack[t], unwinding[t], handles[t], e)
           /\ DestroyedAt(t, e) = Destroyed(stack[t], e)
           /\ ConstructedAt(t, e) = Constructed(stack[t], e)
           /\ HeldAt(t, e)' = Held(stack'[t], unwinding'[t], handles'[t], e)
           /\ DestroyedAt(t, e)' = Destroyed(stack'[t], e)
           /\ ConstructedAt(t, e)' = Constructed(stack'[t], e)
BY DEF HeldAt, Held, DestroyedAt, Destroyed, ConstructedAt, Constructed

-----------------------------------------------------------------------------
(* One thread's tokens change, so the program's do. *)
OthersKeep(t, e) ==
    \A v \in Threads : v # t =>
        /\ HeldAt(v, e)' = HeldAt(v, e)
        /\ DestroyedAt(v, e)' = DestroyedAt(v, e)
        /\ ConstructedAt(v, e)' = ConstructedAt(v, e)

(* A place of t as a member of the sets over all threads. *)
LEMMA Tokens ==
    ASSUME NEW t \in Threads, NEW e, NEW i
    PROVE  /\ <<t, i>> \in Holders(e) <=> i \in HeldAt(t, e)
           /\ <<t, i>> \in Destroyers(e) <=> i \in DestroyedAt(t, e)
           /\ <<t, i>> \in Constructors(e) <=> i \in ConstructedAt(t, e)
BY DEF Holders, Destroyers, Constructors

(* The places of the threads, f, as pairs. *)
Spread(f) == UNION {{v} \X f[v] : v \in Threads}

(* The pairs of a spread are the places of the threads. *)
LEMMA Spreads ==
    ASSUME NEW f
    PROVE  /\ \A v \in Threads : \A i : <<v, i>> \in Spread(f) <=> i \in f[v]
           /\ \A p \in Spread(f) : \E v \in Threads : \E i \in f[v] : p = <<v, i>>
<1>1. \A p : p \in Spread(f) <=> \E v \in Threads : p \in {v} \X f[v]
  BY DEF Spread
<1>2. \A v, i, x, S : <<x, i>> \in {v} \X S <=> x = v /\ i \in S
  OBVIOUS
<1>3. ASSUME NEW v \in Threads, NEW i
      PROVE  <<v, i>> \in Spread(f) <=> i \in f[v]
  <2>1. <<v, i>> \in Spread(f) <=> \E w \in Threads : <<v, i>> \in {w} \X f[w]
    BY <1>1
  <2>2. QED
    BY <1>2, <2>1
<1>4. ASSUME NEW p \in Spread(f)
      PROVE  \E v \in Threads : \E i \in f[v] : p = <<v, i>>
  <2>1. PICK v \in Threads : p \in {v} \X f[v]
    BY <1>1
  <2>2. p = <<v, p[2]>> /\ p[2] \in f[v]
    BY <2>1
  <2>3. QED
    BY <2>2
<1>5. QED
  BY <1>3, <1>4

(* What becomes of the pairs A when those of t, first in a, are now in b. *)
Follows(t, a, b, A, B) ==
    /\ b = a => B = A
    /\ \A j : b = a \cup {j} => B = A \cup {<<t, j>>}
    /\ \A i : b = a \ {i} => B = A \ {<<t, i>>}
    /\ \A i, j : b = (a \ {i}) \cup {j} => B = (A \ {<<t, i>>}) \cup {<<t, j>>}

(* They follow t when the places of the others stay. *)
LEMMA SpreadOne ==
    ASSUME NEW t \in Threads, NEW f, NEW g, \A v \in Threads : v # t => g[v] = f[v]
    PROVE  Follows(t, f[t], g[t], Spread(f), Spread(g))
<1>1. /\ \A v \in Threads : \A i : <<v, i>> \in Spread(f) <=> i \in f[v]
      /\ \A p \in Spread(f) : \E v \in Threads : \E i \in f[v] : p = <<v, i>>
  BY Spreads
<1>2. /\ \A v \in Threads : \A i : <<v, i>> \in Spread(g) <=> i \in g[v]
      /\ \A p \in Spread(g) : \E v \in Threads : \E i \in g[v] : p = <<v, i>>
  BY Spreads
<1>3. ASSUME NEW P, \A p \in P : \E v \in Threads : \E i : p = <<v, i>>,
             \A v \in Threads : \A i : <<v, i>> \in P <=> i \in g[v]
      PROVE  Spread(g) = P
  <2>1. ASSUME NEW p \in Spread(g)
        PROVE  p \in P
    <3>1. PICK v \in Threads : \E i \in g[v] : p = <<v, i>>
      BY <1>2
    <3>2. QED
      BY <1>3, <3>1
  <2>2. ASSUME NEW p \in P
        PROVE  p \in Spread(g)
    <3>1. PICK v \in Threads : \E i : p = <<v, i>>
      BY <1>3
    <3> PICK i : p = <<v, i>>
      BY <3>1
    <3>2. i \in g[v]
      BY <1>3, <2>2, <3>1
    <3>3. QED
      BY <1>2, <3>1, <3>2
  <2>3. QED
    BY <2>1, <2>2
<1>4. ASSUME g[t] = f[t]
      PROVE  Spread(g) = Spread(f)
  <2>1. \A p \in Spread(f) : \E v \in Threads : \E i : p = <<v, i>>
    BY <1>1
  <2>2. \A v \in Threads : \A i : <<v, i>> \in Spread(f) <=> i \in g[v]
    <3>1. \A v \in Threads : g[v] = f[v]
      BY <1>4
    <3>2. QED
      BY <1>1, <3>1
  <2>3. QED
    BY <1>3, <2>1, <2>2
<1>5. ASSUME NEW j, g[t] = f[t] \cup {j}
      PROVE  Spread(g) = Spread(f) \cup {<<t, j>>}
  <2> DEFINE P == Spread(f) \cup {<<t, j>>}
  <2>1. \A p \in P : \E v \in Threads : \E i : p = <<v, i>>
    BY <1>1
  <2>2. \A v \in Threads : \A i : <<v, i>> \in P <=> i \in g[v]
    BY <1>1, <1>5
  <2> HIDE DEF P
  <2>3. Spread(g) = P
    BY <1>3, <2>1, <2>2
  <2>4. QED
    BY <2>3 DEF P
<1>6. ASSUME NEW i, g[t] = f[t] \ {i}
      PROVE  Spread(g) = Spread(f) \ {<<t, i>>}
  <2> DEFINE P == Spread(f) \ {<<t, i>>}
  <2>1. \A p \in P : \E v \in Threads : \E k : p = <<v, k>>
    BY <1>1
  <2>2. \A v \in Threads : \A k : <<v, k>> \in P <=> k \in g[v]
    BY <1>1, <1>6
  <2> HIDE DEF P
  <2>3. Spread(g) = P
    BY <1>3, <2>1, <2>2
  <2>4. QED
    BY <2>3 DEF P
<1>7. ASSUME NEW i, NEW j, g[t] = (f[t] \ {i}) \cup {j}
      PROVE  Spread(g) = (Spread(f) \ {<<t, i>>}) \cup {<<t, j>>}
  <2> DEFINE P == (Spread(f) \ {<<t, i>>}) \cup {<<t, j>>}
  <2>1. \A p \in P : \E v \in Threads : \E k : p = <<v, k>>
    BY <1>1
  <2>2. \A v \in Threads : \A k : <<v, k>> \in P <=> k \in g[v]
    BY <1>1, <1>7
  <2> HIDE DEF P
  <2>3. Spread(g) = P
    BY <1>3, <2>1, <2>2
  <2>4. QED
    BY <2>3 DEF P
<1>8. QED
  BY <1>4, <1>5, <1>6, <1>7 DEF Follows

(* So for the holders, the destroyers and the constructors of e. *)
LEMMA TokenChange ==
    ASSUME NEW t \in Threads, NEW e, OthersKeep(t, e)
    PROVE  /\ Follows(t, HeldAt(t, e), HeldAt(t, e)', Holders(e), Holders(e)')
           /\ Follows(t, DestroyedAt(t, e), DestroyedAt(t, e)', Destroyers(e), Destroyers(e)')
           /\ Follows(t, ConstructedAt(t, e), ConstructedAt(t, e)',
                      Constructors(e), Constructors(e)')
<1> DEFINE f == [v \in Threads |-> HeldAt(v, e)]
<1> DEFINE g == [v \in Threads |-> HeldAt(v, e)']
<1> DEFINE fd == [v \in Threads |-> DestroyedAt(v, e)]
<1> DEFINE gd == [v \in Threads |-> DestroyedAt(v, e)']
<1> DEFINE fc == [v \in Threads |-> ConstructedAt(v, e)]
<1> DEFINE gc == [v \in Threads |-> ConstructedAt(v, e)']
<1>1. /\ Holders(e) = Spread(f) /\ Holders(e)' = Spread(g)
      /\ f[t] = HeldAt(t, e) /\ g[t] = HeldAt(t, e)'
      /\ \A v \in Threads : v # t => g[v] = f[v]
  BY DEF Holders, Spread, OthersKeep
<1>2. /\ Destroyers(e) = Spread(fd) /\ Destroyers(e)' = Spread(gd)
      /\ fd[t] = DestroyedAt(t, e) /\ gd[t] = DestroyedAt(t, e)'
      /\ \A v \in Threads : v # t => gd[v] = fd[v]
  BY DEF Destroyers, Spread, OthersKeep
<1>3. /\ Constructors(e) = Spread(fc) /\ Constructors(e)' = Spread(gc)
      /\ fc[t] = ConstructedAt(t, e) /\ gc[t] = ConstructedAt(t, e)'
      /\ \A v \in Threads : v # t => gc[v] = fc[v]
  BY DEF Constructors, Spread, OthersKeep
<1> HIDE DEF f, g, fd, gd, fc, gc
<1>4. Follows(t, f[t], g[t], Spread(f), Spread(g))
  BY <1>1, SpreadOne
<1>5. Follows(t, fd[t], gd[t], Spread(fd), Spread(gd))
  BY <1>2, SpreadOne
<1>6. Follows(t, fc[t], gc[t], Spread(fc), Spread(gc))
  BY <1>3, SpreadOne
<1>7. QED
  BY <1>1, <1>2, <1>3, <1>4, <1>5, <1>6

-----------------------------------------------------------------------------
(* What a step of t does to the books of e, by what becomes of its own     *)
(* places: nothing, *)
BooksNow(e) == Books(Holders(e), Destroyers(e), Constructors(e), references[e], status[e])

SameCharge(e) == references'[e] = references[e] /\ status'[e] = status[e]

SameBuilt(t, e) ==
    DestroyedAt(t, e)' = DestroyedAt(t, e) /\ ConstructedAt(t, e)' = ConstructedAt(t, e)

(* The places and the count stay, *)
LEMMA KeepsTokens ==
    ASSUME NEW t \in Threads, NEW e, BooksNow(e), OthersKeep(t, e), SameBuilt(t, e), SameCharge(e),
           HeldAt(t, e)' = HeldAt(t, e)
    PROVE  BooksNow(e)'
BY TokenChange DEF Follows, BooksNow, SameCharge, SameBuilt

(* a reference more, found by way of the holder h, *)
LEMMA AddsToken ==
    ASSUME NEW t \in Threads, NEW e, BooksNow(e), OthersKeep(t, e), SameBuilt(t, e),
           NEW h \in Holders(e), h \notin Constructors(e),
           NEW j, j \notin HeldAt(t, e), HeldAt(t, e)' = HeldAt(t, e) \cup {j},
           references'[e] = references[e] + 1, status'[e] = status[e]
    PROVE  BooksNow(e)'
<1>1. Holders(e)' = Holders(e) \cup {<<t, j>>} /\ <<t, j>> \notin Holders(e)
  BY TokenChange, Tokens DEF Follows
<1>2. Books(Holders(e) \cup {<<t, j>>}, Destroyers(e), Constructors(e), references[e] + 1, status[e])
  BY <1>1, BooksAdd DEF BooksNow
<1>3. QED
  BY <1>1, <1>2, TokenChange DEF Follows, BooksNow, SameBuilt

(* one passed on, *)
LEMMA MovesToken ==
    ASSUME NEW t \in Threads, NEW e, BooksNow(e), OthersKeep(t, e), SameBuilt(t, e), SameCharge(e),
           NEW i \in HeldAt(t, e), i \notin ConstructedAt(t, e), NEW j, j \notin HeldAt(t, e),
           HeldAt(t, e)' = (HeldAt(t, e) \ {i}) \cup {j}
    PROVE  BooksNow(e)'
<1>1. Holders(e)' = (Holders(e) \ {<<t, i>>}) \cup {<<t, j>>}
  BY TokenChange DEF Follows
<1>2. <<t, i>> \in Holders(e) /\ <<t, i>> \notin Constructors(e) /\ <<t, j>> \notin Holders(e)
  BY Tokens
<1>3. Books((Holders(e) \ {<<t, i>>}) \cup {<<t, j>>}, Destroyers(e), Constructors(e),
            references[e], status[e])
  BY <1>2, BooksMove DEF BooksNow
<1>4. QED
  BY <1>1, <1>3, TokenChange DEF Follows, BooksNow, SameCharge, SameBuilt

(* one given up while there are others, *)
LEMMA DropsToken ==
    ASSUME NEW t \in Threads, NEW e, BooksNow(e), OthersKeep(t, e), SameBuilt(t, e),
           NEW i \in HeldAt(t, e), i \notin ConstructedAt(t, e),
           HeldAt(t, e)' = HeldAt(t, e) \ {i},
           references[e] # 1, references'[e] = references[e] - 1, status'[e] = status[e]
    PROVE  BooksNow(e)'
<1>1. Holders(e)' = Holders(e) \ {<<t, i>>}
  BY TokenChange DEF Follows
<1>2. <<t, i>> \in Holders(e) /\ <<t, i>> \notin Constructors(e)
  BY Tokens
<1>3. Books(Holders(e) \ {<<t, i>>}, Destroyers(e), Constructors(e), references[e] - 1, status[e])
  BY <1>2, BooksDrop DEF BooksNow
<1>4. QED
  BY <1>1, <1>3, TokenChange DEF Follows, BooksNow, SameBuilt

(* the last one given up, to the destructor at d, *)
LEMMA LastToken ==
    ASSUME NEW t \in Threads, NEW e, BooksNow(e), OthersKeep(t, e),
           NEW i \in HeldAt(t, e), i \notin ConstructedAt(t, e), NEW d,
           HeldAt(t, e)' = HeldAt(t, e) \ {i},
           DestroyedAt(t, e)' = DestroyedAt(t, e) \cup {d},
           ConstructedAt(t, e)' = ConstructedAt(t, e),
           references[e] = 1, references'[e] = references[e] - 1, status'[e] = status[e]
    PROVE  BooksNow(e)'
<1>1. /\ Holders(e)' = Holders(e) \ {<<t, i>>}
      /\ Destroyers(e)' = Destroyers(e) \cup {<<t, d>>}
      /\ Constructors(e)' = Constructors(e)
  BY TokenChange DEF Follows
<1>2. <<t, i>> \in Holders(e) /\ <<t, i>> \notin Constructors(e)
  BY Tokens
<1>3. /\ Holders(e) = {<<t, i>>} /\ Destroyers(e) = {} /\ Constructors(e) = {}
      /\ status[e] # "free"
  <2> DEFINE p == <<t, i>>
  <2>1. /\ Books(Holders(e), Destroyers(e), Constructors(e), 1, status[e])
        /\ p \in Holders(e) /\ p \notin Constructors(e)
    BY <1>2 DEF BooksNow
  <2> HIDE DEF p
  <2>2. Holders(e) = {p} /\ Destroyers(e) = {} /\ Constructors(e) = {}
    BY <2>1, BooksLast
  <2>3. status[e] # "free"
    BY <2>1 DEF Books
  <2>4. QED
    BY <2>2, <2>3 DEF p
<1>4. /\ Holders(e)' = {} /\ Destroyers(e)' = {<<t, d>>} /\ Constructors(e)' = {}
      /\ references'[e] = 0
  BY <1>1, <1>3
<1>5. QED
  BY <1>3, <1>4, FS_EmptySet DEF BooksNow, Books

(* which frees the exception, *)
LEMMA FreesToken ==
    ASSUME NEW t \in Threads, NEW e, BooksNow(e), OthersKeep(t, e), NEW d \in DestroyedAt(t, e),
           HeldAt(t, e) = {} => HeldAt(t, e)' = {},
           DestroyedAt(t, e)' = DestroyedAt(t, e) \ {d},
           ConstructedAt(t, e)' = ConstructedAt(t, e),
           references'[e] = references[e], status'[e] = "free"
    PROVE  BooksNow(e)'
<1>1. /\ Destroyers(e)' = Destroyers(e) \ {<<t, d>>}
      /\ Constructors(e)' = Constructors(e)
      /\ <<t, d>> \in Destroyers(e)
  BY TokenChange, Tokens DEF Follows
<1>2. /\ Holders(e) = {} /\ Destroyers(e) = {<<t, d>>} /\ Constructors(e) = {}
      /\ Books({}, {}, {}, references[e], "free")
  BY <1>1, BooksFreed DEF BooksNow
<1>3. HeldAt(t, e) = {}
  BY <1>2, Tokens
<1>4. Holders(e)' = Holders(e)
  BY <1>3, TokenChange DEF Follows
<1>5. QED
  BY <1>1, <1>2, <1>4 DEF BooksNow

(* one made, *)
LEMMA NewToken ==
    ASSUME NEW t \in Threads, NEW e, BooksNow(e), OthersKeep(t, e), status[e] = "free",
           NEW j, HeldAt(t, e)' = HeldAt(t, e) \cup {j},
           DestroyedAt(t, e)' = DestroyedAt(t, e),
           ConstructedAt(t, e)' = ConstructedAt(t, e) \cup {j},
           references'[e] = 1, status'[e] = "constructed"
    PROVE  BooksNow(e)'
<1>1. /\ Holders(e)' = Holders(e) \cup {<<t, j>>}
      /\ Destroyers(e)' = Destroyers(e)
      /\ Constructors(e)' = Constructors(e) \cup {<<t, j>>}
  BY TokenChange DEF Follows
<1>2. /\ Holders(e) = {} /\ Destroyers(e) = {} /\ Constructors(e) = {}
      /\ Books({<<t, j>>}, {}, {<<t, j>>}, 1, "constructed")
  BY BooksNew DEF BooksNow
<1>3. QED
  BY <1>1, <1>2 DEF BooksNow

(* one thrown when it is constructed, from its place i to its place j, *)
LEMMA ThrowsToken ==
    ASSUME NEW t \in Threads, NEW e, BooksNow(e), OthersKeep(t, e), NEW i \in ConstructedAt(t, e),
           NEW j, HeldAt(t, e)' = (HeldAt(t, e) \ {i}) \cup {j},
           DestroyedAt(t, e)' = DestroyedAt(t, e),
           ConstructedAt(t, e)' = ConstructedAt(t, e) \ {i},
           references'[e] = references[e], status'[e] = "live"
    PROVE  BooksNow(e)'
<1>1. /\ Holders(e)' = (Holders(e) \ {<<t, i>>}) \cup {<<t, j>>}
      /\ Destroyers(e)' = Destroyers(e)
      /\ Constructors(e)' = Constructors(e) \ {<<t, i>>}
      /\ <<t, i>> \in Constructors(e)
  BY TokenChange, Tokens DEF Follows
<1>2. /\ Holders(e) = {<<t, i>>} /\ Destroyers(e) = {} /\ Constructors(e) = {<<t, i>>}
      /\ references[e] = 1
  <2> DEFINE p == <<t, i>>
  <2>1. /\ Books(Holders(e), Destroyers(e), Constructors(e), references[e], status[e])
        /\ p \in Constructors(e)
    BY <1>1 DEF BooksNow
  <2> HIDE DEF p
  <2>2. Holders(e) = {p} /\ Destroyers(e) = {} /\ Constructors(e) = {p}
    BY <2>1, BooksBuilt
  <2>3. references[e] = 1
    BY <2>1 DEF Books
  <2>4. QED
    BY <2>2, <2>3 DEF p
<1>3. Holders(e)' = {<<t, j>>} /\ Destroyers(e)' = {} /\ Constructors(e)' = {}
  BY <1>1, <1>2
<1>4. IsFiniteSet({<<t, j>>}) /\ Cardinality({<<t, j>>}) = 1
  BY FS_Singleton
<1>5. QED
  BY <1>2, <1>3, <1>4 DEF BooksNow, Books

(* and one unwound before. *)
LEMMA UnwindsToken ==
    ASSUME NEW t \in Threads, NEW e, BooksNow(e), OthersKeep(t, e), NEW i \in ConstructedAt(t, e),
           HeldAt(t, e)' = HeldAt(t, e) \ {i},
           DestroyedAt(t, e)' = DestroyedAt(t, e),
           ConstructedAt(t, e)' = ConstructedAt(t, e) \ {i},
           references'[e] = 0, status'[e] = "free"
    PROVE  BooksNow(e)'
<1>1. /\ Holders(e)' = Holders(e) \ {<<t, i>>}
      /\ Destroyers(e)' = Destroyers(e)
      /\ Constructors(e)' = Constructors(e) \ {<<t, i>>}
      /\ <<t, i>> \in Constructors(e)
  BY TokenChange, Tokens DEF Follows
<1>2. /\ Holders(e) = {<<t, i>>} /\ Destroyers(e) = {} /\ Constructors(e) = {<<t, i>>}
      /\ Books({}, {}, {}, 0, "free")
  BY <1>1, BooksBuilt DEF BooksNow
<1>3. Holders(e)' = {} /\ Destroyers(e)' = {} /\ Constructors(e)' = {}
  BY <1>1, <1>2
<1>4. QED
  BY <1>2, <1>3 DEF BooksNow

-----------------------------------------------------------------------------
(* What an activation holds: a destructor the exception it interrupted,    *)
(* any other its own.                                                      *)
LEMMA HoldsIs ==
    ASSUME NEW a \in Activations, NEW e \in Exceptions
    PROVE  /\ a.kind # "destructor" => (Holds(a, e) <=> a.exc = e)
           /\ a.kind = "destructor" => (Holds(a, e) <=> a.unwinding.exc = e)
<1>1. a.kind # "destructor" => a.unwinding.exc # e
  BY ActivationFields, NoExceptionAssumption DEF WellFormed, Calm
<1>2. QED
  BY <1>1 DEF Holds

(* The places H, D and C of e in a thread with the stack s, *)
Bare(s, u, h, e, H, D, C) ==
    /\ H = Held(s, Calm, h, e) \cup (IF u.exc = e THEN {0} ELSE {})
    /\ D = Destroyed(s, e) /\ C = Constructed(s, e)
    /\ 0 \notin Held(s, Calm, h, e) /\ 0 \notin C /\ -1 \notin C

(* and in one that has the activation a above s. *)
Above(s, a, u, h, e, H, D, C) ==
    /\ H = (Held(s, Calm, h, e) \cup (IF u.exc = e THEN {0} ELSE {}))
               \cup (IF Holds(a, e) THEN {Len(s) + 1} ELSE {})
    /\ D = Destroyed(s, e) \cup
               (IF a.kind = "destructor" /\ a.exc = e THEN {Len(s) + 1} ELSE {})
    /\ C = Constructed(s, e) \cup
               (IF a.kind = "construct" /\ a.exc = e THEN {Len(s) + 1} ELSE {})
    /\ 0 \notin Held(s, Calm, h, e) /\ Len(s) + 1 \notin Held(s, Calm, h, e)
    /\ Len(s) + 1 \notin Destroyed(s, e) /\ Len(s) + 1 \notin Constructed(s, e)
    /\ 0 # Len(s) + 1 /\ 0 \notin C

(* Both describe the places, *)
LEMMA PlacesAbove ==
    ASSUME NEW s \in Seq(Activations), NEW a \in Activations, NEW u, NEW h, NEW e \in Exceptions
    PROVE  Above(s, a, u, h, e, Held(Append(s, a), u, h, e), Destroyed(Append(s, a), e),
                 Constructed(Append(s, a), e))
<1>1. Held(s, u, h, e) = Held(s, Calm, h, e) \cup (IF u.exc = e THEN {0} ELSE {})
  BY HeldParts
<1>2. /\ Held(Append(s, a), u, h, e) =
             Held(s, u, h, e) \cup (IF Holds(a, e) THEN {Len(s) + 1} ELSE {})
      /\ 0 \notin Held(s, Calm, h, e) /\ Len(s) + 1 # 0
  BY HeldParts
<1>3. Len(s) + 1 \notin Held(s, Calm, h, e)
  BY HeldParts
<1>4. 0 \notin Constructed(Append(s, a), e)
  <2>1. Append(s, a) \in Seq(Activations)
    BY AppendFacts
  <2>2. QED
    BY <2>1, BuiltParts
<1>5. /\ Destroyed(Append(s, a), e) =
             Destroyed(s, e) \cup
             (IF a.kind = "destructor" /\ a.exc = e THEN {Len(s) + 1} ELSE {})
      /\ Constructed(Append(s, a), e) =
             Constructed(s, e) \cup
             (IF a.kind = "construct" /\ a.exc = e THEN {Len(s) + 1} ELSE {})
      /\ Len(s) + 1 \notin Destroyed(s, e) /\ Len(s) + 1 \notin Constructed(s, e)
  BY BuiltParts
<1>6. QED
  BY <1>1, <1>2, <1>3, <1>4, <1>5 DEF Above

(* whatever the stack is. *)
LEMMA PlacesBare ==
    ASSUME NEW s \in Seq(Activations), NEW u, NEW h, NEW e \in Exceptions
    PROVE  Bare(s, u, h, e, Held(s, u, h, e), Destroyed(s, e), Constructed(s, e))
<1>1. Calm.exc # e
  BY NoExceptionAssumption DEF Calm
<1>2. 0 \notin Constructed(s, e) /\ -1 \notin Constructed(s, e)
  BY DEF Constructed
<1>3. 0 \notin {i \in DOMAIN s : Holds(s[i], e)}
  OBVIOUS
<1>4. QED
  BY <1>1, <1>2, <1>3 DEF Held, Bare

(* So before a step of t, *)
LEMMA PlacesNow ==
    ASSUME TypeOK, NEW t \in Threads, NEW f \in Exceptions
    PROVE  /\ Bare(stack[t], unwinding[t], handles[t], f,
                   HeldAt(t, f), DestroyedAt(t, f), ConstructedAt(t, f))
           /\ stack[t] # <<>> =>
                  Above(Below(t), Top(t), unwinding[t], handles[t], f,
                        HeldAt(t, f), DestroyedAt(t, f), ConstructedAt(t, f))
<1>1. /\ HeldAt(t, f) = Held(stack[t], unwinding[t], handles[t], f)
      /\ DestroyedAt(t, f) = Destroyed(stack[t], f)
      /\ ConstructedAt(t, f) = Constructed(stack[t], f)
  BY AtNow
<1>2. Bare(stack[t], unwinding[t], handles[t], f, Held(stack[t], unwinding[t], handles[t], f),
           Destroyed(stack[t], f), Constructed(stack[t], f))
  BY PlacesBare DEF TypeOK
<1>3. ASSUME stack[t] # <<>>
      PROVE  Above(Below(t), Top(t), unwinding[t], handles[t], f,
                   Held(stack[t], unwinding[t], handles[t], f),
                   Destroyed(stack[t], f), Constructed(stack[t], f))
  <2>1. /\ Below(t) \in Seq(Activations) /\ Top(t) \in Activations
        /\ stack[t] = Append(Below(t), Top(t))
    BY <1>3, TopFacts
  <2>2. QED
    BY <2>1, PlacesAbove
<1>4. QED
  BY <1>1, <1>2, <1>3

(* and after one. *)
LEMMA PlacesNext ==
    ASSUME NEW t \in Threads, NEW s \in Seq(Activations), NEW f \in Exceptions
    PROVE  /\ stack'[t] = s =>
                  Bare(s, unwinding'[t], handles'[t], f,
                       HeldAt(t, f)', DestroyedAt(t, f)', ConstructedAt(t, f)')
           /\ \A a \in Activations : stack'[t] = Append(s, a) =>
                  Above(s, a, unwinding'[t], handles'[t], f,
                        HeldAt(t, f)', DestroyedAt(t, f)', ConstructedAt(t, f)')
<1>1. /\ HeldAt(t, f)' = Held(stack'[t], unwinding'[t], handles'[t], f)
      /\ DestroyedAt(t, f)' = Destroyed(stack'[t], f)
      /\ ConstructedAt(t, f)' = Constructed(stack'[t], f)
  BY AtNow
<1>2. Bare(s, unwinding'[t], handles'[t], f, Held(s, unwinding'[t], handles'[t], f),
           Destroyed(s, f), Constructed(s, f))
  BY PlacesBare
<1>3. \A a \in Activations :
          Above(s, a, unwinding'[t], handles'[t], f,
                Held(Append(s, a), unwinding'[t], handles'[t], f),
                Destroyed(Append(s, a), f), Constructed(Append(s, a), f))
  BY PlacesAbove
<1>4. QED
  BY <1>1, <1>2, <1>3

(* The other threads are out of it. *)
LEMMA OthersStay ==
    ASSUME NEW t \in Threads, Elsewhere(t), \A v \in Threads : v # t => handles'[v] = handles[v],
           NEW f
    PROVE  OthersKeep(t, f)
BY AtNow DEF Elsewhere, OthersKeep

(* An exception that is raised, or that causes termination, is held by the *)
(* unwind to its handler or by the terminate handler.                      *)
LEMMA TerminatePlaces ==
    ASSUME TypeOK, NEW t \in Threads, NEW s \in Seq(Activations),
           NEW e \in Exceptions \cup {NoException}, Terminate(t, s, e), ~ aborted'
    PROVE  \A f \in Exceptions :
              /\ HeldAt(t, f)' = Held(s, Calm, handles'[t], f)
                                     \cup (IF f = e THEN {Len(s) + 1} ELSE {})
              /\ Len(s) + 1 \notin Held(s, Calm, handles'[t], f)
              /\ DestroyedAt(t, f)' = Destroyed(s, f)
              /\ ConstructedAt(t, f)' = Constructed(s, f)
<1> DEFINE a == Activation("terminate", e)
<1>1. SetStack(t, Append(s, a)) /\ unwinding' = [unwinding EXCEPT ![t] = Calm]
  BY DEF Terminate
<1>2. stack'[t] = Append(s, a) /\ unwinding'[t] = Calm
  BY <1>1 DEF SetStack, TypeOK
<1>3. a \in Activations /\ a.kind = "terminate" /\ a.exc = e
  BY Pushed
<1> HIDE DEF a
<1>4. ASSUME NEW f \in Exceptions
      PROVE  /\ HeldAt(t, f)' = Held(s, Calm, handles'[t], f)
                                    \cup (IF f = e THEN {Len(s) + 1} ELSE {})
             /\ Len(s) + 1 \notin Held(s, Calm, handles'[t], f)
             /\ DestroyedAt(t, f)' = Destroyed(s, f)
             /\ ConstructedAt(t, f)' = Constructed(s, f)
  <2>1. (Holds(a, f) <=> f = e) /\ unwinding'[t].exc # f
    BY <1>2, <1>3, HoldsIs, NoExceptionAssumption DEF Calm
  <2>2. Above(s, a, unwinding'[t], handles'[t], f,
              HeldAt(t, f)', DestroyedAt(t, f)', ConstructedAt(t, f)')
    BY <1>2, <1>3, PlacesNext
  <2>3. QED
    BY <1>3, <2>1, <2>2 DEF Above
<1>5. QED
  BY <1>4

(* Raising puts the exception in one place, j. *)
LEMMA RaisePlaces ==
    ASSUME TypeOK, NEW t \in Threads, NEW s \in Seq(Activations), NEW e \in Exceptions,
           Raise(t, s, e), ~ aborted'
    PROVE  \E j : \A f \in Exceptions :
              /\ HeldAt(t, f)' = Held(s, Calm, handles'[t], f)
                                     \cup (IF f = e THEN {j} ELSE {})
              /\ j \notin Held(s, Calm, handles'[t], f)
              /\ DestroyedAt(t, f)' = Destroyed(s, f)
              /\ ConstructedAt(t, f)' = Constructed(s, f)
<1>1. CASE Terminate(t, s, e)
  BY <1>1, TerminatePlaces
<1>2. CASE ~ Terminate(t, s, e)
  <2>1. PICK m : /\ unwinding' = [unwinding EXCEPT ![t] = [exc |-> e, target |-> m]]
                 /\ SetStack(t, s)
    BY <1>2 DEF Raise
  <2>2. unwinding'[t].exc = e /\ stack'[t] = s
    BY <2>1 DEF SetStack, TypeOK
  <2>3. ASSUME NEW f \in Exceptions
        PROVE  /\ HeldAt(t, f)' = Held(s, Calm, handles'[t], f) \cup (IF f = e THEN {0} ELSE {})
               /\ 0 \notin Held(s, Calm, handles'[t], f)
               /\ DestroyedAt(t, f)' = Destroyed(s, f)
               /\ ConstructedAt(t, f)' = Constructed(s, f)
    <3>1. Bare(s, unwinding'[t], handles'[t], f,
               HeldAt(t, f)', DestroyedAt(t, f)', ConstructedAt(t, f)')
      BY <2>2, PlacesNext
    <3>2. QED
      BY <2>2, <3>1 DEF Bare
  <2>4. QED
    BY <2>3
<1>3. QED
  BY <1>1, <1>2

(* The books are right after a step that goes on. *)
BooksNext(f) == ~ aborted' => BooksNow(f)'

(* Giving up the reference to e at the place i leaves all books right. *)
LEMMA ReleaseBooks ==
    ASSUME TypeOK, NEW t \in Threads, NEW s \in Seq(Activations), NEW e \in Exceptions,
           Release(t, s, e, unwinding[t]),
           NEW f \in Exceptions, BooksNow(f), OthersKeep(t, f), status'[f] = status[f],
           NEW i, i \notin Held(s, unwinding[t], handles'[t], e), i \notin Constructed(s, e),
           HeldAt(t, f) = Held(s, unwinding[t], handles'[t], f) \cup (IF f = e THEN {i} ELSE {}),
           DestroyedAt(t, f) = Destroyed(s, f), ConstructedAt(t, f) = Constructed(s, f)
    PROVE  BooksNow(f)'
<1> DEFINE d == Destructor(e, boundary[t], unwinding[t])
<1> DEFINE n == Len(s) + 1
<1> DEFINE G == Held(s, Calm, handles'[t], f)
<1> DEFINE u == unwinding[t]
<1>1. /\ references'[f] = IF f = e THEN references[f] - 1 ELSE references[f]
      /\ references[e] = 1 =>
            stack'[t] = Append(s, d) /\ unwinding'[t] = Calm
      /\ references[e] # 1 => stack'[t] = s /\ unwinding'[t] = u
  BY DEF Release, SetStack, TypeOK
<1>2. /\ d \in Activations /\ d.kind = "destructor" /\ d.exc = e /\ d.unwinding = u
      /\ Calm.exc # f
  <2>1. boundary[t] \in Nat /\ unwinding[t] \in Unwinds
    BY DEF TypeOK
  <2>2. QED
    BY <2>1, PushedDestructor, NoExceptionAssumption DEF Calm
<1> HIDE DEF d
<1>3. /\ Held(s, u, handles'[t], f) = G \cup (IF u.exc = f THEN {0} ELSE {})
      /\ 0 \notin G
  BY Pushed, HeldParts
<1>4. CASE references[e] # 1
  <2>1. /\ HeldAt(t, f)' = G \cup (IF u.exc = f THEN {0} ELSE {})
        /\ DestroyedAt(t, f)' = Destroyed(s, f)
        /\ ConstructedAt(t, f)' = Constructed(s, f)
    <3>1. Bare(s, unwinding'[t], handles'[t], f,
               HeldAt(t, f)', DestroyedAt(t, f)', ConstructedAt(t, f)')
      BY <1>1, <1>4, PlacesNext
    <3>2. QED
      BY <1>1, <1>4, <3>1 DEF Bare
  <2>2. CASE f = e
    <3>1. HeldAt(t, f)' = HeldAt(t, f) \ {i} /\ i \in HeldAt(t, f) /\ i \notin ConstructedAt(t, f)
      BY <1>3, <2>1, <2>2
    <3>2. QED
      BY <1>1, <1>4, <2>1, <2>2, <3>1, DropsToken DEF SameBuilt
  <2>3. CASE f # e
    <3>1. HeldAt(t, f)' = HeldAt(t, f)
      BY <1>3, <2>1, <2>3
    <3>2. QED
      BY <1>1, <2>1, <2>3, <3>1, KeepsTokens DEF SameBuilt, SameCharge
  <2>4. QED
    BY <2>2, <2>3
<1>5. CASE references[e] = 1
  <2>1. Above(s, d, unwinding'[t], handles'[t], f,
              HeldAt(t, f)', DestroyedAt(t, f)', ConstructedAt(t, f)')
    BY <1>1, <1>2, <1>5, PlacesNext
  <2>2. Holds(d, f) <=> u.exc = f
    BY <1>2, HoldsIs
  <2>3. /\ HeldAt(t, f)' = G \cup (IF u.exc = f THEN {n} ELSE {})
        /\ DestroyedAt(t, f)' = Destroyed(s, f) \cup (IF f = e THEN {n} ELSE {})
        /\ ConstructedAt(t, f)' = Constructed(s, f)
        /\ n \notin G /\ n # 0
    BY <1>1, <1>2, <1>5, <2>1, <2>2 DEF Above
  <2> HIDE DEF n, G, u
  <2>4. CASE f = e
    <3>1. i \in HeldAt(t, f) /\ i \notin ConstructedAt(t, f)
      BY <2>4
    <3>2. u.exc # f
      <4>1. <<t, i>> \in Holders(f) /\ <<t, i>> \notin Constructors(f)
        BY <3>1, Tokens
      <4>2. Holders(f) = {<<t, i>>}
        <5> DEFINE p == <<t, i>>
        <5>1. Books(Holders(f), Destroyers(f), Constructors(f), 1, status[f])
          BY <1>5, <2>4 DEF BooksNow
        <5>2. p \in Holders(f) /\ p \notin Constructors(f)
          BY <4>1
        <5> HIDE DEF p
        <5>3. Holders(f) = {p}
          BY <5>1, <5>2, BooksLast
        <5>4. QED
          BY <5>3 DEF p
      <4>3. ASSUME u.exc = f
            PROVE  FALSE
        <5>1. 0 \in HeldAt(t, f) /\ i # 0
          BY <1>3, <2>4, <4>3 DEF u
        <5>2. <<t, 0>> \in Holders(f)
          BY <5>1, Tokens
        <5>3. QED
          BY <4>2, <5>1, <5>2
      <4>4. QED
        BY <4>3
    <3>3. /\ HeldAt(t, f)' = HeldAt(t, f) \ {i}
          /\ DestroyedAt(t, f)' = DestroyedAt(t, f) \cup {n}
          /\ ConstructedAt(t, f)' = ConstructedAt(t, f)
      BY <1>3, <2>3, <2>4, <3>2 DEF u
    <3>4. QED
      BY <1>1, <1>5, <2>4, <3>1, <3>3, LastToken
  <2>5. CASE f # e /\ u.exc = f
    <3>1. /\ 0 \in HeldAt(t, f) /\ n \notin HeldAt(t, f)
          /\ HeldAt(t, f)' = (HeldAt(t, f) \ {0}) \cup {n}
      BY <1>3, <2>3, <2>5 DEF u
    <3>2. 0 \notin ConstructedAt(t, f)
      BY PlacesNow DEF Bare
    <3>3. QED
      BY <1>1, <2>3, <2>5, <3>1, <3>2, MovesToken DEF SameBuilt, SameCharge
  <2>6. CASE f # e /\ u.exc # f
    <3>1. HeldAt(t, f)' = HeldAt(t, f)
      BY <1>3, <2>3, <2>6 DEF u
    <3>2. QED
      BY <1>1, <2>3, <2>6, <3>1, KeepsTokens DEF SameBuilt, SameCharge
  <2>7. QED
    BY <2>4, <2>5, <2>6
<1>6. QED
  BY <1>4, <1>5

(* The books stay right. *)
LEMMA ProgramBooks ==
    ASSUME TypeOK, AllRouted, AllLedgers, AllBooks, NEW t \in Threads, WithoutState(t) \/ WithState(t)
    PROVE  AllBooks'
<1> DEFINE s == stack[t]
<1> DEFINE b == Below(t)
<1> DEFINE h == handles[t]
<1> DEFINE u == unwinding[t]
<1>1. ~ aborted
  BY DEF WithoutState, WithState, Enter, Leave, EndDestructor, EndTerminate, Allocate,
         ReleaseException, RetainException, Throw, Rethrow, LeaveHandler, UnwindOne, Land,
         LandCopying, EndCopy, CurrentException, RethrowException, Roomy, Inside, Running
<1>2. SUFFICES ASSUME NEW f \in Exceptions, ~ aborted'
               PROVE  BooksNow(f)'
  BY DEF AllBooks, BooksNow
<1>3. BooksNow(f)
  BY <1>1 DEF AllBooks, BooksNow
<1>4. /\ s \in Seq(Activations) /\ u \in Unwinds /\ boundary[t] \in Nat
      /\ Calm.exc # f /\ Calm.exc = NoException
      /\ Bare(s, u, h, f, HeldAt(t, f), DestroyedAt(t, f), ConstructedAt(t, f))
  BY PlacesNow, NoExceptionAssumption DEF TypeOK, Calm
<1>5. s # <<>> => /\ b \in Seq(Activations) /\ Top(t) \in Activations
                  /\ Depth(t) = Len(b) + 1 /\ Len(b) \in Nat
                  /\ Above(b, Top(t), u, h, f, HeldAt(t, f), DestroyedAt(t, f), ConstructedAt(t, f))
                  /\ WellFormed(Top(t))
                  /\ Top(t).kind # "destructor" => (Holds(Top(t), f) <=> Top(t).exc = f)
                  /\ Top(t).kind = "destructor" => (Holds(Top(t), f) <=> Top(t).unwinding.exc = f)
  <2>1. ASSUME s # <<>>
        PROVE  /\ b \in Seq(Activations) /\ Top(t) \in Activations
               /\ Depth(t) = Len(b) + 1 /\ Len(b) \in Nat
    BY <2>1, TopFacts
  <2>2. ASSUME s # <<>>
        PROVE  Above(b, Top(t), u, h, f, HeldAt(t, f), DestroyedAt(t, f), ConstructedAt(t, f))
    BY <2>2, PlacesNow
  <2> HIDE DEF s, b, h, u
  <2>3. QED
    BY <2>1, <2>2, ActivationFields, HoldsIs
<1>6. (\A v \in Threads : v # t => handles'[v] = handles[v]) => OthersKeep(t, f)
  BY OneMoves, OthersStay
<1>7. UNCHANGED handles => OthersKeep(t, f) /\ handles'[t] = h
  BY <1>6
(* How the places end up. *)
<1>8. \A r \in Seq(Activations) :
          /\ stack'[t] = r =>
                 Bare(r, unwinding'[t], handles'[t], f,
                      HeldAt(t, f)', DestroyedAt(t, f)', ConstructedAt(t, f)')
          /\ \A a \in Activations : stack'[t] = Append(r, a) =>
                 Above(r, a, unwinding'[t], handles'[t], f,
                       HeldAt(t, f)', DestroyedAt(t, f)', ConstructedAt(t, f)')
  BY PlacesNext
<1>9. \A a \in Activations :
          /\ a.kind # "destructor" => (Holds(a, f) <=> a.exc = f)
          /\ a.kind = "destructor" => (Holds(a, f) <=> a.unwinding.exc = f)
  BY HoldsIs
<1> HIDE DEF s, b, h, u
<1>10. CASE Enter(t)
  <2>1. PICK a \in Activations : /\ a.kind \in {"object", "noexcept", "try"}
                                /\ SetStack(t, Append(s, a))
    BY <1>10, Pushed DEF Enter, s
  <2>2. /\ stack'[t] = Append(s, a) /\ unwinding'[t] = u
        /\ UNCHANGED <<status, references, handles>>
    BY <1>10, <2>1 DEF Enter, SetStack, TypeOK, u
  <2>3. Above(s, a, u, h, f, HeldAt(t, f)', DestroyedAt(t, f)', ConstructedAt(t, f)')
    BY <1>4, <1>7, <1>8, <2>2
  <2>4. ~ Holds(a, f)
    BY <1>4, <1>9, <2>1, ActivationFields DEF WellFormed
  <2>5. HeldAt(t, f)' = HeldAt(t, f) /\ SameBuilt(t, f)
    BY <1>4, <2>1, <2>3, <2>4 DEF Above, Bare, SameBuilt
  <2>6. QED
    BY <1>3, <1>7, <2>2, <2>5, KeepsTokens DEF SameCharge
<1>11. CASE Leave(t)
  <2>1. /\ s # <<>> /\ Top(t).kind \in {"object", "noexcept", "try"}
        /\ stack'[t] = b /\ unwinding'[t] = u
        /\ UNCHANGED <<status, references, handles>>
    BY <1>11 DEF Leave, Inside, SetStack, TypeOK, s, b, u
  <2>2. Bare(b, u, h, f, HeldAt(t, f)', DestroyedAt(t, f)', ConstructedAt(t, f)')
    BY <1>5, <1>7, <1>8, <2>1
  <2>3. ~ Holds(Top(t), f)
    BY <1>4, <1>5, <2>1 DEF WellFormed
  <2>4. HeldAt(t, f)' = HeldAt(t, f) /\ SameBuilt(t, f)
    BY <1>5, <2>1, <2>2, <2>3 DEF Above, Bare, SameBuilt
  <2>5. QED
    BY <1>3, <1>7, <2>1, <2>4, KeepsTokens DEF SameCharge
<1>12. CASE EndDestructor(t)
  <2>1. /\ s # <<>> /\ Top(t).kind = "destructor" /\ u = Calm
        /\ stack'[t] = b /\ unwinding'[t] = Top(t).unwinding
        /\ UNCHANGED <<references, handles>>
        /\ status'[f] = IF f = Top(t).exc THEN "free" ELSE status[f]
    BY <1>12 DEF EndDestructor, Inside, Running, SetStack, TypeOK, s, b, u
  <2>2. Bare(b, Top(t).unwinding, h, f, HeldAt(t, f)', DestroyedAt(t, f)', ConstructedAt(t, f)')
    BY <1>5, <1>7, <1>8, <2>1
  <2>3. CASE f = Top(t).exc
    <3>1. DestroyedAt(t, f)' = DestroyedAt(t, f) \ {Len(b) + 1} /\ Len(b) + 1 \in DestroyedAt(t, f)
      BY <1>5, <2>1, <2>2, <2>3 DEF Above, Bare
    <3>2. ConstructedAt(t, f)' = ConstructedAt(t, f)
      BY <1>5, <2>1, <2>2 DEF Above, Bare
    <3>3. HeldAt(t, f) = {} => HeldAt(t, f)' = {}
      BY <1>4, <1>5, <2>1, <2>2 DEF Above, Bare
    <3>4. QED
      BY <1>3, <1>7, <2>1, <2>3, <3>1, <3>2, <3>3, FreesToken
  <2>4. CASE f # Top(t).exc
    <3>1. SameBuilt(t, f) /\ SameCharge(f)
      BY <1>5, <2>1, <2>2, <2>4 DEF Above, Bare, SameBuilt, SameCharge
    <3>2. CASE Top(t).unwinding.exc # f
      <4>1. HeldAt(t, f)' = HeldAt(t, f)
        BY <1>4, <1>5, <2>1, <2>2, <3>2 DEF Above, Bare
      <4>2. QED
        BY <1>3, <1>7, <2>1, <3>1, <4>1, KeepsTokens
    <3>3. CASE Top(t).unwinding.exc = f
      <4>1. /\ Len(b) + 1 \in HeldAt(t, f) /\ 0 \notin HeldAt(t, f)
            /\ HeldAt(t, f)' = (HeldAt(t, f) \ {Len(b) + 1}) \cup {0}
            /\ Len(b) + 1 \notin ConstructedAt(t, f)
        BY <1>4, <1>5, <2>1, <2>2, <3>3 DEF Above, Bare
      <4>2. QED
        BY <1>3, <1>7, <2>1, <3>1, <4>1, MovesToken
    <3>4. QED
      BY <3>2, <3>3
  <2>5. QED
    BY <2>3, <2>4
<1>13. CASE EndTerminate(t)
  BY <1>2, <1>13 DEF EndTerminate
<1>14. ASSUME NEW e \in Exceptions, Allocate(t, e)
       PROVE  BooksNow(f)'
  <2> DEFINE a == Activation("construct", e)
  <2>1. /\ stack'[t] = Append(s, a) /\ unwinding'[t] = u /\ UNCHANGED handles
        /\ status[e] = "free"
        /\ status'[f] = IF f = e THEN "constructed" ELSE status[f]
        /\ references'[f] = IF f = e THEN 1 ELSE references[f]
    BY <1>14 DEF Allocate, SetStack, TypeOK, s, u
  <2>2. a \in Activations /\ a.kind = "construct" /\ a.exc = e
    BY Pushed
  <2> HIDE DEF a
  <2>3. Above(s, a, u, h, f, HeldAt(t, f)', DestroyedAt(t, f)', ConstructedAt(t, f)')
    BY <1>4, <1>7, <1>8, <2>1, <2>2
  <2>4. Holds(a, f) <=> f = e
    BY <1>9, <2>2
  <2>5. DestroyedAt(t, f)' = DestroyedAt(t, f)
    BY <1>4, <2>2, <2>3 DEF Above, Bare
  <2>6. CASE f = e
    <3>1. /\ HeldAt(t, f)' = HeldAt(t, f) \cup {Len(s) + 1}
          /\ ConstructedAt(t, f)' = ConstructedAt(t, f) \cup {Len(s) + 1}
      BY <1>4, <2>2, <2>3, <2>4, <2>6 DEF Above, Bare
    <3>2. QED
      BY <1>3, <1>7, <2>1, <2>5, <2>6, <3>1, NewToken
  <2>7. CASE f # e
    <3>1. HeldAt(t, f)' = HeldAt(t, f) /\ ConstructedAt(t, f)' = ConstructedAt(t, f)
      BY <1>4, <2>2, <2>3, <2>4, <2>7 DEF Above, Bare
    <3>2. QED
      BY <1>3, <1>7, <2>1, <2>5, <2>7, <3>1, KeepsTokens DEF SameBuilt, SameCharge
  <2>8. QED
    BY <2>6, <2>7
<1>15. ASSUME NEW e \in Exceptions, ReleaseException(t, e)
       PROVE  BooksNow(f)'
  <2>1. /\ u = Calm /\ e \in h /\ UNCHANGED status
        /\ handles'[t] = h \ {e} /\ \A v \in Threads : v # t => handles'[v] = handles[v]
        /\ Release(t, s, e, unwinding[t])
    BY <1>15 DEF ReleaseException, Roomy, Running, TypeOK, s, h, u
  <2>2. OthersKeep(t, f)
    BY <1>6, <2>1
  <2>3. /\ -1 \notin Held(s, u, handles'[t], e) /\ -1 \notin Constructed(s, e)
        /\ Held(s, u, h, f) = Held(s, u, handles'[t], f) \cup (IF f = e THEN {-1} ELSE {})
    BY <1>4, <2>1 DEF Held, Constructed
  <2>4. /\ HeldAt(t, f) = Held(s, u, h, f) /\ DestroyedAt(t, f) = Destroyed(s, f)
        /\ ConstructedAt(t, f) = Constructed(s, f)
    BY AtNow DEF s, u, h
  <2>5. QED
    BY <1>3, <1>4, <2>1, <2>2, <2>3, <2>4, ReleaseBooks DEF u
<1>16. ASSUME caught[t] # <<>>
       PROVE  /\ Last(caught[t]).exc \in Exceptions
              /\ \E p \in Holders(Last(caught[t]).exc) : p \notin Constructors(Last(caught[t]).exc)
  <2> DEFINE e == Last(caught[t]).exc
  <2>1. e \in Exceptions
    BY <1>16, CaughtFacts
  <2>2. PICK k \in DOMAIN s : HandlesOne(s[k]) /\ s[k].exc = e
    <3>1. caught[t] \in Seq(Contexts) /\ Chain(s, caught[t])
      BY <1>1 DEF TypeOK, AllLedgers, Ledger, s
    <3>2. QED
      BY <1>4, <1>16, <3>1, ChainLast
  <2>3. k \in HeldAt(t, e) /\ k \notin ConstructedAt(t, e)
    BY <2>2 DEF HeldAt, ConstructedAt, Holds, HandlesOne, s
  <2> HIDE DEF e
  <2>4. <<t, k>> \in Holders(e) /\ <<t, k>> \notin Constructors(e)
    BY <2>3, Tokens
  <2>5. QED
    BY <2>1, <2>4 DEF e
<1>17. CASE Throw(t)
  <2> DEFINE e == Top(t).exc
  <2>1. /\ s # <<>> /\ Top(t).kind = "construct" /\ u = Calm /\ UNCHANGED <<references, handles>>
        /\ status'[f] = IF f = e THEN "live" ELSE status[f]
        /\ Raise(t, b, e)
    BY <1>17 DEF Throw, Inside, Running, TypeOK, s, b, u
  <2>2. e \in Exceptions
    BY <1>5, <2>1 DEF WellFormed
  <2> HIDE DEF e
  <2>3. PICK j : /\ HeldAt(t, f)' = Held(b, Calm, h, f) \cup (IF f = e THEN {j} ELSE {})
                 /\ DestroyedAt(t, f)' = Destroyed(b, f)
                 /\ ConstructedAt(t, f)' = Constructed(b, f)
    <3>1. b \in Seq(Activations) /\ handles'[t] = h
      BY <1>5, <1>7, <2>1
    <3>2. PICK j : \A g \in Exceptions :
              /\ HeldAt(t, g)' = Held(b, Calm, handles'[t], g) \cup (IF g = e THEN {j} ELSE {})
              /\ j \notin Held(b, Calm, handles'[t], g)
              /\ DestroyedAt(t, g)' = Destroyed(b, g)
              /\ ConstructedAt(t, g)' = Constructed(b, g)
      BY <1>2, <2>1, <2>2, <3>1, RaisePlaces
    <3>3. QED
      BY <3>1, <3>2
  <2>4. CASE f = e
    <3>1. /\ Len(b) + 1 \in ConstructedAt(t, f)
          /\ HeldAt(t, f)' = (HeldAt(t, f) \ {Len(b) + 1}) \cup {j}
          /\ DestroyedAt(t, f)' = DestroyedAt(t, f)
          /\ ConstructedAt(t, f)' = ConstructedAt(t, f) \ {Len(b) + 1}
      BY <1>4, <1>5, <2>1, <2>3, <2>4 DEF Above, e
    <3>2. QED
      BY <1>3, <1>7, <2>1, <2>4, <3>1, ThrowsToken
  <2>5. CASE f # e
    <3>1. HeldAt(t, f)' = HeldAt(t, f) /\ SameBuilt(t, f)
      BY <1>4, <1>5, <2>1, <2>3, <2>5 DEF Above, SameBuilt, e
    <3>2. QED
      BY <1>3, <1>7, <2>1, <2>5, <3>1, KeepsTokens DEF SameCharge
  <2>6. QED
    BY <2>4, <2>5
<1>18. ASSUME NEW e \in Exceptions, Raise(t, s, e), u = Calm, UNCHANGED <<status, handles>>,
              references'[f] = IF f = e THEN references[f] + 1 ELSE references[f],
              \E p \in Holders(e) : p \notin Constructors(e)
       PROVE  BooksNow(f)'
  <2>1. PICK j : /\ HeldAt(t, f)' = Held(s, Calm, h, f) \cup (IF f = e THEN {j} ELSE {})
                 /\ j \notin Held(s, Calm, h, f)
                 /\ DestroyedAt(t, f)' = Destroyed(s, f)
                 /\ ConstructedAt(t, f)' = Constructed(s, f)
    BY <1>2, <1>4, <1>7, <1>18, RaisePlaces
  <2>2. SameBuilt(t, f) /\ HeldAt(t, f) = Held(s, Calm, h, f)
    BY <1>4, <1>18, <2>1 DEF Bare, SameBuilt
  <2>3. CASE f = e
    <3>1. PICK p \in Holders(f) : p \notin Constructors(f)
      BY <1>18, <2>3
    <3>2. j \notin HeldAt(t, f) /\ HeldAt(t, f)' = HeldAt(t, f) \cup {j}
      BY <2>1, <2>2, <2>3
    <3>3. QED
      BY <1>3, <1>7, <1>18, <2>2, <2>3, <3>1, <3>2, AddsToken
  <2>4. CASE f # e
    <3>1. HeldAt(t, f)' = HeldAt(t, f)
      BY <2>1, <2>2, <2>4
    <3>2. QED
      BY <1>3, <1>7, <1>18, <2>2, <2>4, <3>1, KeepsTokens DEF SameCharge
  <2>5. QED
    BY <2>3, <2>4
<1>19. CASE Rethrow(t)
  <2>1. u = Calm /\ UNCHANGED <<status, handles>>
    BY <1>19 DEF Rethrow, Running, u
  <2>2. CASE caught[t] = <<>>
    <3>1. Terminate(t, s, NoException) /\ UNCHANGED references
      BY <1>19, <2>2 DEF Rethrow, s
    <3>2. /\ HeldAt(t, f)' = Held(s, Calm, h, f)
          /\ DestroyedAt(t, f)' = Destroyed(s, f)
          /\ ConstructedAt(t, f)' = Constructed(s, f)
      <4>1. /\ HeldAt(t, f)' = Held(s, Calm, handles'[t], f)
                                   \cup (IF f = NoException THEN {Len(s) + 1} ELSE {})
            /\ DestroyedAt(t, f)' = Destroyed(s, f)
            /\ ConstructedAt(t, f)' = Constructed(s, f)
        BY <1>2, <1>4, <3>1, TerminatePlaces
      <4>2. QED
        BY <1>4, <1>7, <2>1, <4>1
    <3>3. HeldAt(t, f)' = HeldAt(t, f) /\ SameBuilt(t, f)
      BY <1>4, <2>1, <3>2 DEF Bare, SameBuilt
    <3>4. QED
      BY <1>3, <1>7, <2>1, <3>1, <3>3, KeepsTokens DEF SameCharge
  <2>3. CASE caught[t] # <<>>
    <3> DEFINE e == Last(caught[t]).exc
    <3>1. /\ Raise(t, s, e)
          /\ references'[f] = IF f = e THEN references[f] + 1 ELSE references[f]
      BY <1>19, <2>3 DEF Rethrow, TypeOK, s
    <3>2. e \in Exceptions /\ \E p \in Holders(e) : p \notin Constructors(e)
      BY <1>16, <2>3
    <3> HIDE DEF e
    <3>3. QED
      BY <1>18, <2>1, <3>1, <3>2
  <2>4. QED
    BY <2>2, <2>3
(* The handler on top ends. *)
<1>20. ASSUME s # <<>>, Top(t).kind = "handler", EndCatch(t, b, unwinding[t]),
              UNCHANGED <<status, handles>>
       PROVE  BooksNow(f)'
  <2> DEFINE e == Top(t).exc
  <2>1. e \in Exceptions /\ Release(t, b, e, unwinding[t])
    BY <1>1, <1>20, EndCatchIs DEF s, b
  <2> HIDE DEF e
  <2>2. /\ Len(b) + 1 \notin Held(b, u, h, e)
        /\ Len(b) + 1 \notin Constructed(b, e)
        /\ Held(b, u, h, f) = Held(b, Calm, h, f) \cup (IF u.exc = f THEN {0} ELSE {})
    BY <1>5, <1>20, <2>1, Pushed, HeldParts, BuiltParts
  <2>3. /\ HeldAt(t, f) = Held(b, u, h, f) \cup (IF f = e THEN {Len(b) + 1} ELSE {})
        /\ DestroyedAt(t, f) = Destroyed(b, f) /\ ConstructedAt(t, f) = Constructed(b, f)
    BY <1>5, <1>20, <2>2 DEF Above, e
  <2>4. OthersKeep(t, f) /\ handles'[t] = h /\ status'[f] = status[f]
    BY <1>7, <1>20
  <2>5. QED
    BY <1>3, <1>5, <1>20, <2>1, <2>2, <2>3, <2>4, ReleaseBooks DEF u
<1>21. CASE LeaveHandler(t)
  <2>1. /\ s # <<>> /\ Top(t).kind = "handler" /\ UNCHANGED <<status, handles>>
        /\ EndCatch(t, b, unwinding[t])
    BY <1>21 DEF LeaveHandler, Inside, Running, s, b
  <2>2. QED
    BY <1>20, <2>1
<1>22. CASE UnwindOne(t)
  <2>1. u # Calm /\ UNCHANGED handles /\ s # <<>>
    BY <1>22, UnwindingFacts DEF UnwindOne, u, s
  <2>2. CASE Top(t).kind = "try"
    <3>1. stack'[t] = b /\ unwinding'[t] = u /\ UNCHANGED <<status, references>>
      BY <1>22, <2>2 DEF UnwindOne, SetStack, TypeOK, b, u
    <3>2. Bare(b, u, h, f, HeldAt(t, f)', DestroyedAt(t, f)', ConstructedAt(t, f)')
      BY <1>5, <1>7, <1>8, <2>1, <3>1
    <3>3. ~ Holds(Top(t), f)
      BY <1>4, <1>5, <2>1, <2>2 DEF WellFormed
    <3>4. HeldAt(t, f)' = HeldAt(t, f) /\ SameBuilt(t, f)
      BY <1>5, <2>1, <2>2, <3>2, <3>3 DEF Above, Bare, SameBuilt
    <3>5. QED
      BY <1>3, <1>7, <2>1, <3>1, <3>4, KeepsTokens DEF SameCharge
  <2>3. CASE Top(t).kind = "construct"
    <3> DEFINE e == Top(t).exc
    <3>1. /\ stack'[t] = b /\ unwinding'[t] = u
          /\ status'[f] = IF f = e THEN "free" ELSE status[f]
          /\ references'[f] = IF f = e THEN 0 ELSE references[f]
      BY <1>22, <2>3 DEF UnwindOne, SetStack, TypeOK, b, u
    <3>2. Bare(b, u, h, f, HeldAt(t, f)', DestroyedAt(t, f)', ConstructedAt(t, f)')
      BY <1>5, <1>7, <1>8, <2>1, <3>1
    <3>3. (Holds(Top(t), f) <=> f = e) /\ DestroyedAt(t, f)' = DestroyedAt(t, f)
      BY <1>5, <2>1, <2>3, <3>2 DEF Above, Bare
    <3>4. CASE f = e
      <4>1. /\ Len(b) + 1 \in ConstructedAt(t, f)
            /\ HeldAt(t, f)' = HeldAt(t, f) \ {Len(b) + 1}
            /\ ConstructedAt(t, f)' = ConstructedAt(t, f) \ {Len(b) + 1}
        BY <1>5, <2>1, <2>3, <3>2, <3>3, <3>4 DEF Above, Bare
      <4>2. QED
        BY <1>3, <1>7, <2>1, <3>1, <3>3, <3>4, <4>1, UnwindsToken
    <3>5. CASE f # e
      <4>1. HeldAt(t, f)' = HeldAt(t, f) /\ SameBuilt(t, f)
        BY <1>5, <2>1, <2>3, <3>2, <3>3, <3>5 DEF Above, Bare, SameBuilt
      <4>2. QED
        BY <1>3, <1>7, <2>1, <3>1, <3>5, <4>1, KeepsTokens DEF SameCharge
    <3>6. QED
      BY <3>4, <3>5
  <2>4. CASE Top(t).kind = "object"
    <3> DEFINE d == Destructor(NoException, boundary[t], unwinding[t])
    <3>1. /\ stack'[t] = Append(b, d) /\ unwinding'[t] = Calm /\ UNCHANGED <<status, references>>
      BY <1>22, <2>4 DEF UnwindOne, SetStack, TypeOK, b
    <3>2. d \in Activations /\ d.kind = "destructor" /\ d.exc = NoException /\ d.unwinding = u
      <4>1. \A bound \in Nat, w \in Unwinds :
                /\ Destructor(NoException, bound, w) \in Activations
                /\ Destructor(NoException, bound, w).kind = "destructor"
                /\ Destructor(NoException, bound, w).exc = NoException
                /\ Destructor(NoException, bound, w).unwinding = w
        BY PushedDestructor
      <4>2. boundary[t] \in Nat /\ unwinding[t] \in Unwinds /\ unwinding[t] = u
        BY <1>4 DEF u
      <4>3. QED
        BY <4>1, <4>2
    <3> HIDE DEF d
    <3>3. Above(b, d, Calm, h, f, HeldAt(t, f)', DestroyedAt(t, f)', ConstructedAt(t, f)')
      BY <1>5, <1>7, <1>8, <2>1, <3>1, <3>2
    <3>4. (Holds(d, f) <=> u.exc = f) /\ d.exc # f /\ ~ Holds(Top(t), f)
      BY <1>4, <1>5, <1>9, <2>1, <2>4, <3>2 DEF WellFormed
    <3>5. SameBuilt(t, f) /\ SameCharge(f)
      BY <1>5, <2>1, <2>4, <3>1, <3>2, <3>3, <3>4 DEF Above, SameBuilt, SameCharge
    <3>6. CASE u.exc = f
      <4>1. /\ 0 \in HeldAt(t, f) /\ 0 \notin ConstructedAt(t, f) /\ Len(b) + 1 \notin HeldAt(t, f)
            /\ HeldAt(t, f)' = (HeldAt(t, f) \ {0}) \cup {Len(b) + 1}
        BY <1>4, <1>5, <2>1, <3>3, <3>4, <3>6 DEF Above
      <4>2. QED
        BY <1>3, <1>7, <2>1, <3>5, <4>1, MovesToken
    <3>7. CASE u.exc # f
      <4>1. HeldAt(t, f)' = HeldAt(t, f)
        BY <1>4, <1>5, <2>1, <3>3, <3>4, <3>7 DEF Above
      <4>2. QED
        BY <1>3, <1>7, <2>1, <3>5, <4>1, KeepsTokens
    <3>8. QED
      BY <3>6, <3>7
  <2>5. CASE Top(t).kind = "handler"
    <3>1. EndCatch(t, b, unwinding[t]) /\ UNCHANGED status
      BY <1>22, <2>5 DEF UnwindOne, b
    <3>2. QED
      BY <1>20, <2>1, <2>5, <3>1
  <2>6. QED
    BY <1>22, <2>2, <2>3, <2>4, <2>5 DEF UnwindOne
(* The unwind arrives, and what takes over from it is the activation a. *)
<1>23. ASSUME u # Calm, Depth(t) = u.target, NEW a \in Activations,
              stack'[t] = Append(b, a), unwinding'[t] = Calm,
              a.kind \in {"handler", "copy"}, a.exc = u.exc,
              UNCHANGED <<status, references, handles>>
       PROVE  BooksNow(f)'
  <2>1. s # <<>>
    BY <1>23, UnwindingFacts DEF s, u
  <2>2. Top(t).kind = "try"
    <3>1. s[Depth(t)].takes # {}
      BY <1>23 DEF AllRouted, Routed, Path, s, u
    <3>2. Top(t) = s[Depth(t)]
      BY DEF Top, Last, Depth, s
    <3>3. QED
      BY <1>5, <2>1, <3>1, <3>2 DEF WellFormed
  <2>3. Above(b, a, Calm, h, f, HeldAt(t, f)', DestroyedAt(t, f)', ConstructedAt(t, f)')
    BY <1>5, <1>7, <1>8, <1>23, <2>1
  <2>4. (Holds(a, f) <=> u.exc = f) /\ ~ Holds(Top(t), f)
    BY <1>4, <1>5, <1>9, <1>23, <2>1, <2>2 DEF WellFormed
  <2>5. SameBuilt(t, f) /\ SameCharge(f)
    BY <1>5, <1>23, <2>1, <2>2, <2>3 DEF Above, SameBuilt, SameCharge
  <2>6. CASE u.exc = f
    <3>1. /\ 0 \in HeldAt(t, f) /\ 0 \notin ConstructedAt(t, f) /\ Len(b) + 1 \notin HeldAt(t, f)
          /\ HeldAt(t, f)' = (HeldAt(t, f) \ {0}) \cup {Len(b) + 1}
      BY <1>4, <1>5, <2>1, <2>3, <2>4, <2>6 DEF Above
    <3>2. QED
      BY <1>3, <1>7, <1>23, <2>5, <3>1, MovesToken
  <2>7. CASE u.exc # f
    <3>1. HeldAt(t, f)' = HeldAt(t, f)
      BY <1>4, <1>5, <2>1, <2>3, <2>4, <2>7 DEF Above
    <3>2. QED
      BY <1>3, <1>7, <1>23, <2>5, <3>1, KeepsTokens
  <2>8. QED
    BY <2>6, <2>7
<1>24. CASE Land(t)
  <2>1. /\ u # Calm /\ Depth(t) = u.target /\ unwinding'[t] = Calm
        /\ stack'[t] = Append(b, Activation("handler", u.exc))
        /\ UNCHANGED <<status, references, handles>>
    BY <1>24 DEF Land, BeginCatch, SetStack, TypeOK, b, u
  <2>2. u.exc \in Exceptions
    BY <2>1, UnwindingFacts DEF u
  <2>3. /\ Activation("handler", u.exc) \in Activations
        /\ Activation("handler", u.exc).kind = "handler" /\ Activation("handler", u.exc).exc = u.exc
    BY <2>2, Pushed
  <2>4. QED
    BY <1>23, <2>1, <2>3
<1>25. CASE LandCopying(t)
  <2>1. /\ u # Calm /\ Depth(t) = u.target /\ unwinding'[t] = Calm
        /\ stack'[t] = Append(b, Copy(u.exc, boundary[t]))
        /\ UNCHANGED <<status, references, handles>>
    BY <1>25 DEF LandCopying, SetStack, TypeOK, b, u
  <2>2. u.exc \in Exceptions
    BY <2>1, UnwindingFacts DEF u
  <2>3. /\ Copy(u.exc, boundary[t]) \in Activations
        /\ Copy(u.exc, boundary[t]).kind = "copy" /\ Copy(u.exc, boundary[t]).exc = u.exc
    BY <1>4, <2>2, PushedCopy
  <2>4. QED
    BY <1>23, <2>1, <2>3
<1>26. CASE EndCopy(t)
  <2> DEFINE a == Activation("handler", Top(t).exc)
  <2>1. /\ s # <<>> /\ Top(t).kind = "copy" /\ unwinding'[t] = u
        /\ stack'[t] = Append(b, a)
        /\ UNCHANGED <<status, references, handles>>
    BY <1>26 DEF EndCopy, Inside, BeginCatch, SetStack, TypeOK, s, b, u
  <2>2. Top(t).exc \in Exceptions
    BY <1>5, <2>1 DEF WellFormed
  <2>3. a \in Activations /\ a.kind = "handler" /\ a.exc = Top(t).exc
    BY <2>2, Pushed
  <2> HIDE DEF a
  <2>4. Above(b, a, u, h, f, HeldAt(t, f)', DestroyedAt(t, f)', ConstructedAt(t, f)')
    BY <1>5, <1>7, <1>8, <2>1, <2>3
  <2>5. Holds(a, f) <=> Holds(Top(t), f)
    BY <1>5, <1>9, <2>1, <2>3
  <2>6. HeldAt(t, f)' = HeldAt(t, f) /\ SameBuilt(t, f)
    BY <1>5, <2>1, <2>3, <2>4, <2>5 DEF Above, SameBuilt
  <2>7. QED
    BY <1>3, <1>7, <2>1, <2>6, KeepsTokens DEF SameCharge
(* The thread v gets a handle to e, which is held already. *)
<1>27. ASSUME NEW e \in Exceptions, NEW v \in Threads, e \notin handles[v],
              UNCHANGED <<stack, unwinding, status>>,
              handles' = [handles EXCEPT ![v] = @ \cup {e}],
              references' = [references EXCEPT ![e] = @ + 1],
              \E p \in Holders(e) : p \notin Constructors(e)
       PROVE  BooksNow(f)'
  <2>1. /\ handles'[v] = handles[v] \cup {e}
        /\ \A w \in Threads : w # v => handles'[w] = handles[w]
        /\ references'[f] = IF f = e THEN references[f] + 1 ELSE references[f]
    BY <1>27 DEF TypeOK
  <2>2. OthersKeep(v, f)
    BY <1>27, <2>1 DEF OthersKeep, HeldAt, DestroyedAt, ConstructedAt
  <2>3. SameBuilt(v, f)
    BY <1>27 DEF SameBuilt, DestroyedAt, ConstructedAt
  <2>4. CASE f = e
    <3>1. PICK p \in Holders(f) : p \notin Constructors(f)
      BY <1>27, <2>4
    <3>2. HeldAt(v, f)' = HeldAt(v, f) \cup {-1} /\ -1 \notin HeldAt(v, f)
      <4>1. -1 \notin DOMAIN stack[v] /\ -1 # 0
        <5>1. stack[v] \in Seq(Activations)
          BY DEF TypeOK
        <5>2. DOMAIN stack[v] = 1 .. Len(stack[v]) /\ Len(stack[v]) \in Nat
          BY <5>1
        <5>3. QED
          BY <5>2
      <4>2. QED
        BY <1>27, <2>1, <2>4, <4>1 DEF HeldAt
    <3>3. QED
      BY <1>3, <1>27, <2>1, <2>2, <2>3, <2>4, <3>1, <3>2, AddsToken
  <2>5. CASE f # e
    <3>1. HeldAt(v, f)' = HeldAt(v, f)
      BY <1>27, <2>1, <2>5 DEF HeldAt
    <3>2. QED
      BY <1>3, <1>27, <2>1, <2>2, <2>3, <2>5, <3>1, KeepsTokens DEF SameCharge
  <2>6. QED
    BY <2>4, <2>5
<1>28. CASE CurrentException(t)
  <2> DEFINE e == Last(caught[t]).exc
  <2>1. /\ caught[t] # <<>> /\ e \notin handles[t]
        /\ UNCHANGED <<stack, unwinding, status>>
        /\ handles' = [handles EXCEPT ![t] = @ \cup {e}]
        /\ references' = [references EXCEPT ![e] = @ + 1]
    BY <1>28 DEF CurrentException
  <2>2. e \in Exceptions /\ \E p \in Holders(e) : p \notin Constructors(e)
    BY <1>16, <2>1
  <2> HIDE DEF e
  <2>3. QED
    BY <1>27, <2>1, <2>2
<1>29. ASSUME NEW e \in Exceptions, e \in handles[t]
       PROVE  \E p \in Holders(e) : p \notin Constructors(e)
  <2>1. -1 \in HeldAt(t, e)
    BY <1>29 DEF HeldAt
  <2>2. -1 \notin ConstructedAt(t, e)
    BY PlacesNow DEF Bare
  <2>3. QED
    BY <2>1, <2>2, Tokens
<1>30. ASSUME NEW e \in Exceptions, RethrowException(t, e)
       PROVE  BooksNow(f)'
  <2>1. /\ e \in handles[t] /\ u = Calm /\ UNCHANGED <<status, handles>> /\ Raise(t, s, e)
        /\ references'[f] = IF f = e THEN references[f] + 1 ELSE references[f]
    BY <1>30 DEF RethrowException, Running, TypeOK, s, u
  <2>2. QED
    BY <1>18, <1>29, <2>1
<1>31. ASSUME NEW e \in Exceptions, NEW v \in Threads, RetainException(t, v, e)
       PROVE  BooksNow(f)'
  <2>1. /\ e \in handles[t] /\ e \notin handles[v]
        /\ UNCHANGED <<stack, unwinding, status>>
        /\ handles' = [handles EXCEPT ![v] = @ \cup {e}]
        /\ references' = [references EXCEPT ![e] = @ + 1]
    BY <1>31 DEF RetainException
  <2>2. QED
    BY <1>27, <1>29, <2>1
<1>32. QED
  BY <1>10, <1>11, <1>12, <1>13, <1>14, <1>15, <1>31, <1>17, <1>19, <1>21, <1>22, <1>24, <1>25,
     <1>26, <1>28, <1>30 DEF WithoutState, WithState

-----------------------------------------------------------------------------
(* At the start nothing is thrown. *)
LEMMA InitIInv ==
    ASSUME Init
    PROVE  IInv
<1>1. TypeOK
  <2>1. <<>> \in Seq(Activations) /\ <<>> \in Seq(Contexts) /\ Calm \in Unwinds
    BY Pushed
  <2>2. stack \in [Threads -> Seq(Activations)] /\ caught \in [Threads -> Seq(Contexts)]
    BY <2>1 DEF Init
  <2>3. unwinding \in [Threads -> Unwinds]
    BY <2>1 DEF Init
  <2>4. terminating \in [Threads -> BOOLEAN] /\ aborted \in BOOLEAN
    BY Zenon DEF Init
  <2>5. uncaught \in [Threads -> Int] /\ boundary \in [Threads -> Nat]
    BY DEF Init
  <2>6. /\ status \in [Exceptions -> {"free", "constructed", "live"}]
        /\ references \in [Exceptions -> Int] /\ handles \in [Threads -> SUBSET Exceptions]
    BY DEF Init
  <2>7. keyStep \in [Threads -> {"none", "make", "publish", "wait"}] /\ DOMAIN slot = Threads
    BY DEF Init
  <2>8. QED
    BY <2>2, <2>3, <2>4, <2>5, <2>6, <2>7 DEF TypeOK
<1>2. OneKeyMaker
  BY DEF Init, OneKeyMaker
<1>3. BlankUntilMade
  BY DEF Init, BlankUntilMade
<1>4. AllRouted
  <2>1. \A t \in Threads : stack[t] = <<>> /\ unwinding[t] = Calm /\ boundary[t] = 0
    BY DEF Init
  <2>2. Routed(<<>>, Calm, 0)
    BY DEF Routed, Path, Fence, SavedRouted
  <2>3. QED
    BY <2>1, <2>2 DEF AllRouted
<1>5. AllLedgers
  <2>1. \A t \in Threads : /\ stack[t] = <<>> /\ unwinding[t] = Calm
                          /\ caught[t] = <<>> /\ uncaught[t] = 0
    BY DEF Init
  <2>2. Flight(<<>>, Calm) = {}
    BY DEF Flight
  <2>3. Count(<<>>, Calm, 0)
    BY <2>2, FS_EmptySet DEF Count
  <2>4. Chain(<<>>, <<>>)
    BY DEF Chain, ContextsOf, HandlerPlaces
  <2>5. Ledger(<<>>, Calm, <<>>, 0)
    BY <2>3, <2>4 DEF Ledger
  <2>6. QED
    BY <2>1, <2>5 DEF AllLedgers
<1>6. AllBooks
  <2>1. ASSUME NEW e \in Exceptions
        PROVE  Books(Holders(e), Destroyers(e), Constructors(e), references[e], status[e])
    <3>1. \A t \in Threads : stack[t] = <<>> /\ unwinding[t] = Calm /\ handles[t] = {}
      BY DEF Init
    <3>2. Calm.exc # e
      BY NoExceptionAssumption DEF Calm
    <3>3. \A t \in Threads : HeldAt(t, e) = {} /\ DestroyedAt(t, e) = {} /\ ConstructedAt(t, e) = {}
      BY <3>1, <3>2 DEF HeldAt, DestroyedAt, ConstructedAt
    <3>4. Holders(e) = {} /\ Destroyers(e) = {} /\ Constructors(e) = {}
      BY <3>3 DEF Holders, Destroyers, Constructors
    <3>5. references[e] = 0 /\ status[e] = "free"
      BY DEF Init
    <3>6. QED
      BY <3>4, <3>5, FS_EmptySet DEF Books
  <2>2. QED
    BY <2>1 DEF AllBooks
<1>7. QED
  BY <1>1, <1>2, <1>3, <1>4, <1>5, <1>6 DEF IInv

(* A step that moves no activation and no handle keeps the books. *)
LEMMA BooksKept ==
    ASSUME AllBooks,
           UNCHANGED <<stack, unwinding, handles, references, status, aborted>>
    PROVE  AllBooks'
<1>1. \A t, e : /\ HeldAt(t, e)' = HeldAt(t, e) /\ DestroyedAt(t, e)' = DestroyedAt(t, e)
               /\ ConstructedAt(t, e)' = ConstructedAt(t, e)
  BY DEF HeldAt, DestroyedAt, ConstructedAt
<1>2. \A e : /\ Holders(e)' = Holders(e) /\ Destroyers(e)' = Destroyers(e)
            /\ Constructors(e)' = Constructors(e)
  BY <1>1 DEF Holders, Destroyers, Constructors
<1>3. QED
  BY <1>2 DEF AllBooks

(* Every step keeps the account of what is thrown. *)
LEMMA NextIInv ==
    ASSUME IInv, [Next]_vars
    PROVE  IInv'
<1> USE DEF IInv
<1>1. CASE UNCHANGED vars
  <2>1. UNCHANGED <<stack, unwinding, status, references, handles, caught, uncaught, terminating,
                    boundary, tls, tlsInit, keyStep, slot, aborted>>
    BY <1>1 DEF vars, program, threadState, key
  <2>2. TypeOK' /\ OneKeyMaker' /\ BlankUntilMade'
    BY <2>1 DEF TypeOK, OneKeyMaker, BlankUntilMade, Has
  <2>3. AllRouted' /\ AllLedgers'
    BY <2>1 DEF AllRouted, AllLedgers
  <2>4. AllBooks'
    BY <2>1, BooksKept
  <2>5. QED
    BY <2>2, <2>3, <2>4
<1>2. ASSUME NEW t \in Threads, KeyStep(t)
      PROVE  IInv'
  <2>1. /\ UNCHANGED <<program, threadState, aborted>>
        /\ TypeOK' /\ OneKeyMaker' /\ BlankUntilMade'
    BY <1>2, KeySteps
  <2>2. UNCHANGED <<stack, unwinding, status, references, handles, caught, uncaught,
                    boundary, aborted>>
    BY <2>1 DEF program, threadState
  <2>3. AllRouted' /\ AllLedgers'
    BY <2>2 DEF AllRouted, AllLedgers
  <2>4. AllBooks'
    BY <2>2, BooksKept
  <2>5. QED
    BY <2>1, <2>3, <2>4
<1>3. ASSUME NEW t \in Threads, WithoutState(t) \/ (Has(t) /\ WithState(t)), UNCHANGED key
      PROVE  IInv'
  <2>1. TypeOK'
    BY <1>3, ProgramTypes
  <2>2. OneKeyMaker' /\ BlankUntilMade'
    BY <1>3, ProgramBlank
  <2>3. AllRouted'
    BY <1>3, ProgramRouted
  <2>4. AllLedgers'
    BY <1>3, ProgramLedgers
  <2>5. AllBooks'
    BY <1>3, ProgramBooks
  <2>6. QED
    BY <2>1, <2>2, <2>3, <2>4, <2>5
<1> HIDE DEF IInv
<1>4. QED
  BY <1>1, <1>2, <1>3 DEF Next, KeyStep

(* The inductive invariant. *)
THEOREM Invariance == Spec => []IInv
<1>1. Init => IInv
  BY InitIInv
<1>2. IInv /\ [Next]_vars => IInv'
  BY NextIInv
<1>3. QED
  BY <1>1, <1>2, PTL DEF Spec

(* The stacks hold activations the runtime can meet, the contexts and the  *)
(* unwinds name exceptions (CpcEhThread, CpcException).                    *)
THEOREM TypeCorrect == Spec => []TypeOK
<1>1. IInv => TypeOK
  BY DEF IInv
<1>2. QED
  BY <1>1, Invariance, PTL

(* uncaught_exceptions() is the number of exceptions in flight in the      *)
(* thread (__cpc_eh_uncaught_exceptions).                                  *)
THEOREM InFlightCounted == Spec => []UncaughtExact
<1>1. IInv => UncaughtExact
  <2>1. \A t : InFlight(t) = Flight(stack[t], unwinding[t])
    BY DEF InFlight, Flight
  <2>2. QED
    BY <2>1 DEF IInv, AllLedgers, Ledger, Count, UncaughtExact
<1>2. QED
  BY <1>1, Invariance, PTL

(* The catch contexts are those of the handlers at work, in their order, so *)
(* that throw; and current_exception() mean the right exception            *)
(* (cpc_eh_begin_catch, __cpc_eh_end_catch).                               *)
THEOREM CatchChainRight == Spec => []CaughtIsHandlers
<1>1. IInv => CaughtIsHandlers
  BY DEF IInv, AllLedgers, Ledger, Chain, ContextsOf, HandlerPlaces, CaughtIsHandlers
<1>2. QED
  BY <1>1, Invariance, PTL

(* An unwind ends at the innermost handler for its exception and passes     *)
(* nothing that may not throw (cpc_eh_raise, the boundaries).              *)
THEOREM UnwindConfined == Spec => []UnwindStaysInside
<1>1. IInv => UnwindStaysInside
  <2>1. ASSUME TypeOK, AllRouted, NEW t \in Threads, unwinding[t] # Calm
        PROVE  /\ unwinding[t].target \in DOMAIN stack[t]
               /\ unwinding[t].exc \in stack[t][unwinding[t].target].takes
               /\ \A i \in unwinding[t].target + 1 .. Depth(t) :
                     /\ stack[t][i].kind \notin {"copy", "destructor", "terminate", "noexcept"}
                     /\ unwinding[t].exc \notin stack[t][i].takes
    <3>1. Path(stack[t], Len(stack[t]), unwinding[t])
      BY <2>1 DEF AllRouted, Routed
    <3>2. stack[t] \in Seq(Activations)
      BY <2>1 DEF TypeOK
    <3>3. QED
      BY <2>1, <3>1, <3>2 DEF Path, Depth
  <2>2. QED
    BY <2>1 DEF IInv, UnwindStaysInside
<1>2. QED
  BY <1>1, Invariance, PTL

(* An exception is destroyed once, by one thread, when nothing holds it any *)
(* more, and freed then (__cpc_eh_release_exception).                      *)
THEOREM FreedExactlyOnce == Spec => []FreedOnce
<1>1. IInv => FreedOnce
  BY DEF IInv, AllBooks, Books, FreedOnce
<1>2. QED
  BY <1>1, Invariance, PTL

=============================================================================
