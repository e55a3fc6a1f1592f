-------------------------- MODULE StaticInitProofs --------------------------
(***************************************************************************)
(* For any threads, local statics and nesting of their initializers: an    *)
(* object is under construction by one thread at a time, nobody passes a   *)
(* declaration before its object exists and is registered, and objects are *)
(* destroyed once, each by the callback that was registered for it.        *)
(***************************************************************************)
EXTENDS StaticInit, TLAPS

RegisterPlaces == {"register", "atexit", "release"}
PushedPlaces == {"atexit", "release"}

(* The lock outlives a step only across the call of atexit. *)
LockHeld == \A t \in Threads : lock = t <=> at[t] = "atexit"

(* A thread that registers does so for the object it has just constructed; *)
(* once pushed the object is in the registry, at its head while the lock   *)
(* is held.                                                                *)
RegistersTop ==
    /\ \A t \in Threads : at[t] \in RegisterPlaces =>
          frames[t] # <<>> /\ top[t] = Last(frames[t]) /\ built[top[t]]
    /\ \A t \in Threads : at[t] \in PushedPlaces => top[t] \in Range(destructors)
    /\ lock # Nobody => destructors # <<>> /\ Head(destructors) = top[lock]

(* What is in the registry is complete, or its constructor is about to say *)
(* so; until exit every complete object is there.                          *)
RegistryComplete ==
    /\ \A g \in Range(destructors) :
          guard[g] = 2 \/ \E t \in Threads : at[t] \in PushedPlaces /\ top[t] = g
    /\ ~exiting => \A g \in Objects : guard[g] = 2 => g \in Range(destructors)

(* After the call of exit only Main runs. *)
ExitAlone ==
    exiting => \A t \in Threads \ {Main} : at[t] = "body" /\ frames[t] = <<>>

(* f shows where each entry of a registry d has its callback among o. *)
Places(f, d, o) ==
    /\ f \in [DOMAIN d -> DOMAIN o]
    /\ \A i, j \in DOMAIN d : i < j => f[i] < f[j]
    /\ \A i \in DOMAIN d : o[f[i]] = d[i]
    /\ \A k \in DOMAIN o : o[k] # UserCallback => \E i \in DOMAIN d : f[i] = k

(* The entries whose callback has been registered. *)
Registered == IF lock = Nobody THEN destructors ELSE Tail(destructors)

InOrder == \E f : Places(f, Registered, onexit)

IInv ==
    /\ TypeOK
    /\ OneBuilder
    /\ DestroyOnce
    /\ LockHeld
    /\ RegistersTop
    /\ RegistryComplete
    /\ ExitAlone
    /\ InOrder

-----------------------------------------------------------------------------
(* Sequences that grow and shrink at either end. *)
LEMMA Appended ==
    ASSUME NEW S, NEW s \in Seq(S), NEW x \in S
    PROVE  /\ Append(s, x) \in Seq(S)
           /\ Append(s, x) # <<>>
           /\ Last(Append(s, x)) = x
           /\ Range(Append(s, x)) = Range(s) \cup {x}
           /\ IsInjective(s) /\ x \notin Range(s) => IsInjective(Append(s, x))
<1> DEFINE a == Append(s, x)
<1>1. a \in Seq(S) /\ Len(a) = Len(s) + 1 /\ a[Len(s) + 1] = x
  OBVIOUS
<1>2. \A i \in 1..Len(s) : a[i] = s[i]
  OBVIOUS
<1>3. DOMAIN a = 1..(Len(s) + 1) /\ DOMAIN s = 1..Len(s) /\ Len(s) \in Nat
  OBVIOUS
<1>4. a # <<>> /\ Last(a) = x
  BY <1>1 DEF Last
<1>5. Range(a) = Range(s) \cup {x}
  <2>1. \A y \in Range(a) : y \in Range(s) \cup {x}
    BY <1>1, <1>2, <1>3 DEF Range
  <2>2. \A y \in Range(s) : y \in Range(a)
    BY <1>2, <1>3 DEF Range
  <2>3. x \in Range(a)
    BY <1>1, <1>3 DEF Range
  <2>4. QED
    BY <2>1, <2>2, <2>3
<1>6. IsInjective(s) /\ x \notin Range(s) => IsInjective(a)
  BY <1>1, <1>2, <1>3 DEF IsInjective, Range
<1>7. QED
  BY <1>1, <1>4, <1>5, <1>6

LEMMA WithoutLast ==
    ASSUME NEW S, NEW s \in Seq(S), s # <<>>
    PROVE  /\ Last(s) \in S /\ Last(s) \in Range(s)
           /\ Front(s) \in Seq(S)
           /\ IsInjective(s) => /\ IsInjective(Front(s))
                                /\ Range(Front(s)) = Range(s) \ {Last(s)}
<1> DEFINE f == Front(s)
<1>1. Len(s) \in Nat /\ Len(s) >= 1 /\ DOMAIN s = 1..Len(s)
  OBVIOUS
<1>2. Last(s) = s[Len(s)] /\ Last(s) \in S /\ Last(s) \in Range(s)
  BY <1>1 DEF Last, Range
<1>3. f \in Seq(S) /\ DOMAIN f = 1..(Len(s) - 1) /\ \A i \in 1..(Len(s) - 1) : f[i] = s[i]
  BY <1>1 DEF Front
<1>4. ASSUME IsInjective(s)
      PROVE  IsInjective(f) /\ Range(f) = Range(s) \ {Last(s)}
  <2>1. IsInjective(f)
    BY <1>1, <1>3, <1>4 DEF IsInjective
  <2>2. \A y \in Range(f) : y \in Range(s) \ {Last(s)}
    BY <1>1, <1>2, <1>3, <1>4 DEF IsInjective, Range
  <2>3. \A y \in Range(s) \ {Last(s)} : y \in Range(f)
    BY <1>1, <1>2, <1>3 DEF Range
  <2>4. QED
    BY <2>1, <2>2, <2>3
<1>5. QED
  BY <1>2, <1>3, <1>4

LEMMA Pushed ==
    ASSUME NEW S, NEW s \in Seq(S), NEW x \in S
    PROVE  LET p == <<x>> \o s IN
           /\ p \in Seq(S) /\ Len(p) = Len(s) + 1 /\ p # <<>>
           /\ p[1] = x /\ \A i \in 1..Len(s) : p[i + 1] = s[i]
           /\ Head(p) = x /\ Tail(p) = s
           /\ Range(p) = Range(s) \cup {x}
           /\ IsInjective(s) /\ x \notin Range(s) => IsInjective(p)
<1> DEFINE p == <<x>> \o s
<1>1. p \in Seq(S) /\ Len(p) = Len(s) + 1 /\ Len(s) \in Nat
  OBVIOUS
<1>2. p[1] = x /\ \A i \in 1..Len(s) : p[i + 1] = s[i]
  OBVIOUS
<1>3. DOMAIN p = 1..(Len(s) + 1) /\ DOMAIN s = 1..Len(s)
  BY <1>1
<1>4. Head(p) = x /\ Tail(p) = s
  <2>1. Head(p) = x
    BY <1>1, <1>2
  <2>2. Tail(p) \in Seq(S) /\ Len(Tail(p)) = Len(s)
    BY <1>1
  <2>3. \A i \in 1..Len(s) : Tail(p)[i] = s[i]
    BY <1>1, <1>2
  <2>4. QED
    BY <2>1, <2>2, <2>3
<1>5. Range(p) = Range(s) \cup {x}
  <2>1. \A y \in Range(p) : y \in Range(s) \cup {x}
    <3>1. ASSUME NEW i \in 1..(Len(s) + 1), i # 1
          PROVE  p[i] = s[i - 1] /\ i - 1 \in 1..Len(s)
      <4>1. i - 1 \in 1..Len(s) /\ (i - 1) + 1 = i
        BY <1>1, <3>1
      <4>2. p[(i - 1) + 1] = s[i - 1]
        BY <1>2, <4>1
      <4>3. QED
        BY <4>1, <4>2
    <3>2. QED
      BY <1>2, <1>3, <3>1 DEF Range
  <2>2. \A y \in Range(s) : y \in Range(p)
    <3>1. ASSUME NEW i \in 1..Len(s)
          PROVE  s[i] \in Range(p)
      <4>1. i + 1 \in DOMAIN p /\ p[i + 1] = s[i]
        BY <1>1, <1>2, <1>3
      <4>2. QED
        BY <4>1 DEF Range
    <3>2. QED
      BY <1>3, <3>1 DEF Range
  <2>3. x \in Range(p)
    BY <1>1, <1>2, <1>3 DEF Range
  <2>4. QED
    BY <2>1, <2>2, <2>3
<1>6. ASSUME IsInjective(s), x \notin Range(s)
      PROVE  IsInjective(p)
  <2>1. ASSUME NEW i \in 1..(Len(s) + 1), i # 1
        PROVE  p[i] = s[i - 1] /\ i - 1 \in DOMAIN s
    <3>1. i - 1 \in 1..Len(s) /\ (i - 1) + 1 = i
      BY <1>1, <2>1
    <3>2. p[(i - 1) + 1] = s[i - 1]
      BY <1>2, <3>1
    <3>3. QED
      BY <1>3, <3>1, <3>2
  <2>2. QED
    BY <1>2, <1>3, <1>6, <2>1 DEF IsInjective, Range
<1>7. QED
  BY <1>1, <1>2, <1>4, <1>5, <1>6

LEMMA WithoutHead ==
    ASSUME NEW S, NEW s \in Seq(S), s # <<>>
    PROVE  /\ Head(s) \in S /\ Head(s) \in Range(s) /\ Head(s) = s[1]
           /\ Tail(s) \in Seq(S) /\ Len(Tail(s)) = Len(s) - 1
           /\ \A i \in 1..(Len(s) - 1) : Tail(s)[i] = s[i + 1]
           /\ IsInjective(s) => /\ IsInjective(Tail(s))
                                /\ Range(Tail(s)) = Range(s) \ {Head(s)}
<1> DEFINE u == Tail(s)
<1>1. Len(s) \in Nat /\ Len(s) >= 1 /\ DOMAIN s = 1..Len(s)
  OBVIOUS
<1>2. Head(s) = s[1] /\ Head(s) \in S /\ Head(s) \in Range(s)
  BY <1>1 DEF Range
<1>3. u \in Seq(S) /\ Len(u) = Len(s) - 1 /\ DOMAIN u = 1..(Len(s) - 1)
  BY <1>1
<1>4. \A i \in 1..(Len(s) - 1) : u[i] = s[i + 1]
  BY <1>1
<1>5. ASSUME IsInjective(s)
      PROVE  IsInjective(u) /\ Range(u) = Range(s) \ {Head(s)}
  <2>1. \A i \in 1..(Len(s) - 1) : i + 1 \in 1..Len(s) /\ i + 1 # 1
    BY <1>1
  <2>2. IsInjective(u)
    BY <1>1, <1>3, <1>4, <1>5, <2>1 DEF IsInjective
  <2>3. \A y \in Range(u) : y \in Range(s) \ {Head(s)}
    BY <1>1, <1>2, <1>3, <1>4, <1>5, <2>1 DEF IsInjective, Range
  <2>4. ASSUME NEW i \in 1..Len(s), i # 1
        PROVE  i - 1 \in 1..(Len(s) - 1) /\ u[i - 1] = s[i]
    <3>1. i - 1 \in 1..(Len(s) - 1) /\ (i - 1) + 1 = i
      BY <1>1, <2>4
    <3>2. u[i - 1] = s[(i - 1) + 1]
      BY <1>4, <3>1
    <3>3. QED
      BY <3>1, <3>2
  <2>5. ASSUME NEW i \in 1..Len(s), s[i] # Head(s)
        PROVE  s[i] \in Range(u)
    <3>1. i # 1
      BY <1>2, <2>5
    <3>2. i - 1 \in DOMAIN u /\ u[i - 1] = s[i]
      BY <1>3, <2>4, <3>1
    <3>3. QED
      BY <3>2 DEF Range
  <2>6. \A y \in Range(s) \ {Head(s)} : y \in Range(u)
    BY <1>1, <2>5 DEF Range
  <2>7. QED
    BY <2>2, <2>3, <2>6
<1>6. QED
  BY <1>2, <1>3, <1>4, <1>5

-----------------------------------------------------------------------------
(* The callbacks of the registered objects keep their order when callbacks *)
(* are added and run, at the head of the table. *)
LEMMA UserAdded ==
    ASSUME NEW d \in Seq(Objects), NEW o \in Seq(Objects \cup {UserCallback}),
           \E f : Places(f, d, o)
    PROVE  \E f : Places(f, d, <<UserCallback>> \o o)
<1>1. PICK f : Places(f, d, o)
  OBVIOUS
<1> DEFINE p == <<UserCallback>> \o o
           e == [i \in DOMAIN d |-> f[i] + 1]
<1>2. /\ p \in Seq(Objects \cup {UserCallback}) /\ Len(p) = Len(o) + 1 /\ p[1] = UserCallback
      /\ \A i \in 1..Len(o) : p[i + 1] = o[i]
  BY Pushed
<1>3. /\ DOMAIN o = 1..Len(o) /\ DOMAIN p = 1..(Len(o) + 1) /\ Len(o) \in Nat
      /\ DOMAIN d = 1..Len(d)
  BY <1>2
<1> HIDE DEF p
<1>4. e \in [DOMAIN d -> DOMAIN p]
  BY <1>1, <1>3 DEF Places
<1>5. \A i, j \in DOMAIN d : i < j => e[i] < e[j]
  BY <1>1, <1>3 DEF Places
<1>6. \A i \in DOMAIN d : p[e[i]] = d[i]
  BY <1>1, <1>2, <1>3 DEF Places
<1>7. ASSUME NEW k \in DOMAIN p, p[k] # UserCallback
      PROVE  \E i \in DOMAIN d : e[i] = k
  <2>1. k - 1 \in DOMAIN o /\ (k - 1) + 1 = k
    BY <1>2, <1>3, <1>7
  <2>2. o[k - 1] = p[k]
    BY <1>2, <1>3, <2>1
  <2>3. PICK i \in DOMAIN d : f[i] = k - 1
    BY <1>1, <1>7, <2>1, <2>2 DEF Places
  <2>4. QED
    BY <2>1, <2>3
<1>8. Places(e, d, p)
  BY <1>4, <1>5, <1>6, <1>7 DEF Places
<1>9. QED
  BY <1>8 DEF p

LEMMA ObjectAdded ==
    ASSUME NEW d \in Seq(Objects), NEW o \in Seq(Objects \cup {UserCallback}),
           d # <<>>, \E f : Places(f, Tail(d), o)
    PROVE  \E f : Places(f, d, <<Head(d)>> \o o)
<1>1. PICK f : Places(f, Tail(d), o)
  OBVIOUS
<1> DEFINE p == <<Head(d)>> \o o
           e == [i \in DOMAIN d |-> IF i = 1 THEN 1 ELSE f[i - 1] + 1]
<1>2. Head(d) \in Objects \cup {UserCallback} /\ Head(d) = d[1]
  BY WithoutHead
<1>3. /\ p \in Seq(Objects \cup {UserCallback}) /\ Len(p) = Len(o) + 1 /\ p[1] = Head(d)
      /\ \A i \in 1..Len(o) : p[i + 1] = o[i]
  BY <1>2, Pushed
<1>4. /\ DOMAIN o = 1..Len(o) /\ DOMAIN p = 1..(Len(o) + 1) /\ Len(o) \in Nat
      /\ DOMAIN d = 1..Len(d) /\ Len(d) \in Nat /\ Len(d) >= 1
      /\ DOMAIN Tail(d) = 1..(Len(d) - 1)
  BY <1>3, WithoutHead
<1>5. \A i \in 1..(Len(d) - 1) : Tail(d)[i] = d[i + 1]
  BY WithoutHead
<1> HIDE DEF p
<1>6. ASSUME NEW i \in DOMAIN d, i # 1
      PROVE  /\ i - 1 \in DOMAIN Tail(d) /\ e[i] = f[i - 1] + 1
             /\ f[i - 1] \in DOMAIN o /\ o[f[i - 1]] = d[i]
  <2>1. i - 1 \in DOMAIN Tail(d) /\ (i - 1) + 1 = i
    BY <1>4, <1>6
  <2>2. Tail(d)[i - 1] = d[i]
    BY <1>4, <1>5, <2>1
  <2>3. QED
    BY <1>1, <1>6, <2>1, <2>2 DEF Places
<1>7. 1 \in DOMAIN d /\ e[1] = 1
  BY <1>4
<1>8. e \in [DOMAIN d -> DOMAIN p]
  BY <1>4, <1>6, <1>7
<1>9. \A i, j \in DOMAIN d : i < j => e[i] < e[j]
  <2>1. ASSUME NEW i \in DOMAIN d, NEW j \in DOMAIN d, i < j
        PROVE  e[i] < e[j]
    <3>1. j # 1 /\ e[j] = f[j - 1] + 1 /\ f[j - 1] \in Nat /\ f[j - 1] >= 1
      BY <1>4, <1>6, <2>1
    <3>2. CASE i = 1
      BY <1>7, <3>1, <3>2
    <3>3. CASE i # 1
      <4>1. /\ e[i] = f[i - 1] + 1 /\ f[i - 1] \in Nat
            /\ i - 1 \in DOMAIN Tail(d) /\ j - 1 \in DOMAIN Tail(d) /\ i - 1 < j - 1
        BY <1>4, <1>6, <2>1, <3>1, <3>3
      <4>2. f[i - 1] < f[j - 1]
        BY <1>1, <4>1 DEF Places
      <4>3. QED
        BY <3>1, <4>1, <4>2
    <3>4. QED
      BY <3>2, <3>3
  <2>2. QED
    BY <2>1
<1>10. ASSUME NEW i \in DOMAIN d
       PROVE  p[e[i]] = d[i]
  <2>1. CASE i = 1
    BY <1>2, <1>3, <1>7, <2>1
  <2>2. CASE i # 1
    BY <1>3, <1>4, <1>6, <2>2
  <2>3. QED
    BY <2>1, <2>2
<1>11. ASSUME NEW k \in DOMAIN p, p[k] # UserCallback
       PROVE  \E i \in DOMAIN d : e[i] = k
  <2>1. CASE k = 1
    BY <1>7, <2>1
  <2>2. CASE k # 1
    <3>1. k - 1 \in DOMAIN o /\ (k - 1) + 1 = k
      BY <1>4, <2>2
    <3>2. o[k - 1] = p[k]
      BY <1>3, <1>4, <3>1
    <3>3. PICK i \in DOMAIN Tail(d) : f[i] = k - 1
      BY <1>1, <1>11, <3>1, <3>2 DEF Places
    <3>4. i + 1 \in DOMAIN d /\ i + 1 # 1 /\ (i + 1) - 1 = i
      BY <1>4
    <3>5. e[i + 1] = f[i] + 1
      BY <3>4
    <3>6. QED
      BY <3>1, <3>3, <3>4, <3>5
  <2>3. QED
    BY <2>1, <2>2
<1>12. Places(e, d, p)
  BY <1>8, <1>9, <1>10, <1>11 DEF Places
<1>13. QED
  BY <1>12 DEF p

LEMMA UserRun ==
    ASSUME NEW d \in Seq(Objects), NEW o \in Seq(Objects \cup {UserCallback}),
           o # <<>>, Head(o) = UserCallback, \E f : Places(f, d, o)
    PROVE  \E f : Places(f, d, Tail(o))
<1>1. PICK f : Places(f, d, o)
  OBVIOUS
<1> DEFINE e == [i \in DOMAIN d |-> f[i] - 1]
<1>2. /\ o[1] = UserCallback /\ Len(o) \in Nat /\ DOMAIN o = 1..Len(o)
      /\ DOMAIN Tail(o) = 1..(Len(o) - 1) /\ DOMAIN d = 1..Len(d)
      /\ \A i \in 1..(Len(o) - 1) : Tail(o)[i] = o[i + 1]
  BY WithoutHead
<1>3. ASSUME NEW i \in DOMAIN d
      PROVE  /\ f[i] \in 2..Len(o) /\ e[i] \in DOMAIN Tail(o) /\ e[i] + 1 = f[i]
             /\ Tail(o)[e[i]] = d[i]
  <2>1. d[i] \in Objects /\ f[i] \in 1..Len(o) /\ o[f[i]] = d[i]
    BY <1>1, <1>2 DEF Places
  <2>2. f[i] # 1
    BY <1>2, <2>1, StaticAssumption
  <2>3. f[i] \in 2..Len(o) /\ e[i] \in 1..(Len(o) - 1) /\ e[i] + 1 = f[i]
    BY <1>2, <2>1, <2>2
  <2>4. Tail(o)[e[i]] = o[e[i] + 1]
    BY <1>2, <2>3
  <2>5. QED
    BY <1>2, <2>1, <2>3, <2>4
<1>4. e \in [DOMAIN d -> DOMAIN Tail(o)]
  BY <1>3
<1>5. \A i, j \in DOMAIN d : i < j => e[i] < e[j]
  BY <1>1, <1>3 DEF Places
<1>6. ASSUME NEW k \in DOMAIN Tail(o), Tail(o)[k] # UserCallback
      PROVE  \E i \in DOMAIN d : e[i] = k
  <2>1. k + 1 \in DOMAIN o /\ o[k + 1] = Tail(o)[k] /\ (k + 1) - 1 = k
    BY <1>2
  <2>2. PICK i \in DOMAIN d : f[i] = k + 1
    BY <1>1, <1>6, <2>1 DEF Places
  <2>3. QED
    BY <2>1, <2>2
<1>7. Places(e, d, Tail(o))
  BY <1>3, <1>4, <1>5, <1>6 DEF Places
<1>8. QED
  BY <1>7

LEMMA ObjectRun ==
    ASSUME NEW d \in Seq(Objects), NEW o \in Seq(Objects \cup {UserCallback}),
           o # <<>>, Head(o) # UserCallback, \E f : Places(f, d, o)
    PROVE  d # <<>> /\ Head(d) = Head(o) /\ \E f : Places(f, Tail(d), Tail(o))
<1>1. PICK f : Places(f, d, o)
  OBVIOUS
<1>2. /\ Head(o) = o[1] /\ Len(o) \in Nat /\ Len(o) >= 1 /\ DOMAIN o = 1..Len(o)
      /\ DOMAIN Tail(o) = 1..(Len(o) - 1) /\ DOMAIN d = 1..Len(d) /\ Len(d) \in Nat
      /\ \A i \in 1..(Len(o) - 1) : Tail(o)[i] = o[i + 1]
  BY WithoutHead
<1>3. PICK first \in DOMAIN d : f[first] = 1
  BY <1>1, <1>2 DEF Places
<1>4. d # <<>> /\ 1 \in DOMAIN d
  BY <1>2, <1>3
<1>5. f[1] = 1
  <2>1. f[1] \in 1..Len(o)
    BY <1>1, <1>2, <1>4 DEF Places
  <2>2. 1 < first => f[1] < f[first]
    BY <1>1, <1>3, <1>4 DEF Places
  <2>3. QED
    BY <1>2, <1>3, <2>1, <2>2
<1>6. Head(d) = Head(o)
  <2>1. o[f[1]] = d[1]
    BY <1>1, <1>4 DEF Places
  <2>2. QED
    BY <1>2, <1>4, <1>5, <2>1, WithoutHead
<1>7. /\ DOMAIN Tail(d) = 1..(Len(d) - 1)
      /\ \A i \in 1..(Len(d) - 1) : Tail(d)[i] = d[i + 1]
  BY <1>2, <1>4, WithoutHead
<1> DEFINE e == [i \in DOMAIN Tail(d) |-> f[i + 1] - 1]
<1>8. ASSUME NEW i \in DOMAIN Tail(d)
      PROVE  /\ i + 1 \in DOMAIN d /\ i + 1 # 1 /\ f[i + 1] \in 2..Len(o)
             /\ e[i] \in DOMAIN Tail(o) /\ e[i] + 1 = f[i + 1]
             /\ Tail(o)[e[i]] = Tail(d)[i]
  <2>1. i + 1 \in DOMAIN d /\ 1 < i + 1
    BY <1>2, <1>7
  <2>2. f[1] < f[i + 1] /\ f[i + 1] \in 1..Len(o) /\ o[f[i + 1]] = d[i + 1]
    BY <1>1, <1>2, <1>4, <2>1 DEF Places
  <2>3. e[i] = f[i + 1] - 1 /\ e[i] \in 1..(Len(o) - 1) /\ e[i] + 1 = f[i + 1]
    BY <1>2, <1>5, <2>2
  <2>4. Tail(o)[e[i]] = o[e[i] + 1]
    BY <1>2, <2>3
  <2>5. QED
    BY <1>2, <1>5, <1>7, <2>1, <2>2, <2>3, <2>4
<1>9. e \in [DOMAIN Tail(d) -> DOMAIN Tail(o)]
  BY <1>8
<1>10. \A i, j \in DOMAIN Tail(d) : i < j => e[i] < e[j]
  <2>1. ASSUME NEW i \in DOMAIN Tail(d), NEW j \in DOMAIN Tail(d), i < j
        PROVE  e[i] < e[j]
    <3>1. i + 1 < j + 1
      BY <1>7, <2>1
    <3>2. f[i + 1] < f[j + 1]
      BY <1>1, <1>8, <3>1 DEF Places
    <3>3. QED
      BY <1>2, <1>8, <3>2
  <2>2. QED
    BY <2>1
<1>11. ASSUME NEW k \in DOMAIN Tail(o), Tail(o)[k] # UserCallback
       PROVE  \E i \in DOMAIN Tail(d) : e[i] = k
  <2>1. k + 1 \in DOMAIN o /\ o[k + 1] = Tail(o)[k] /\ (k + 1) - 1 = k /\ k + 1 # 1
    BY <1>2
  <2>2. PICK i \in DOMAIN d : f[i] = k + 1
    BY <1>1, <1>11, <2>1 DEF Places
  <2>3. i # 1
    BY <1>5, <2>1, <2>2
  <2>4. i - 1 \in DOMAIN Tail(d) /\ (i - 1) + 1 = i
    BY <1>2, <1>7, <2>3
  <2>5. e[i - 1] = f[i] - 1
    BY <2>4
  <2>6. QED
    BY <2>1, <2>2, <2>4, <2>5
<1>12. Places(e, Tail(d), Tail(o))
  BY <1>8, <1>9, <1>10, <1>11 DEF Places
<1>13. QED
  BY <1>4, <1>6, <1>12

-----------------------------------------------------------------------------
(* A thread that registers an object is its only constructor, and only a   *)
(* thread at one of these places can hold the lock. *)
LEMMA Registering ==
    ASSUME IInv
    PROVE  /\ \A t \in Threads : at[t] \in RegisterPlaces =>
                 /\ frames[t] # <<>> /\ top[t] = Last(frames[t])
                 /\ top[t] \in Constructing(t) /\ guard[top[t]] = 1
           /\ \A t, u \in Threads :
                 at[t] \in RegisterPlaces /\ at[u] \in RegisterPlaces /\ top[t] = top[u]
                    => t = u
           /\ \A t \in Threads : at[t] \in PushedPlaces => at[t] \in RegisterPlaces
           /\ lock \in Threads => at[lock] = "atexit"
           /\ \A t \in Threads : at[t] # "atexit" => lock # t
<1>1. ASSUME NEW t \in Threads, at[t] \in RegisterPlaces
      PROVE  /\ frames[t] # <<>> /\ top[t] = Last(frames[t])
             /\ top[t] \in Constructing(t) /\ guard[top[t]] = 1
  <2>1. frames[t] # <<>> /\ top[t] = Last(frames[t])
    BY <1>1 DEF IInv, RegistersTop
  <2>2. frames[t] \in Seq(Objects) /\ top[t] \in Objects
    BY DEF IInv, TypeOK
  <2>3. top[t] \in Constructing(t)
    BY <2>1, <2>2, WithoutLast DEF Constructing
  <2>4. QED
    BY <2>1, <2>2, <2>3 DEF IInv, OneBuilder
<1>2. ASSUME NEW t \in Threads, NEW u \in Threads,
             at[t] \in RegisterPlaces, at[u] \in RegisterPlaces, top[t] = top[u]
      PROVE  t = u
  <2>1. top[t] \in Objects
    BY DEF IInv, TypeOK
  <2>2. QED
    BY <1>1, <1>2, <2>1 DEF IInv, OneBuilder
<1>3. \A t \in Threads : at[t] \in PushedPlaces => at[t] \in RegisterPlaces
  BY DEF PushedPlaces, RegisterPlaces
<1>4. /\ lock \in Threads => at[lock] = "atexit"
      /\ \A t \in Threads : at[t] # "atexit" => lock # t
  BY DEF IInv, LockHeld
<1>5. QED
  BY <1>1, <1>2, <1>3, <1>4

LEMMA InitIInv == Init => IInv
<1> SUFFICES ASSUME Init
             PROVE  IInv
  OBVIOUS
<1> USE DEF Init
<1>1. TypeOK
  BY StaticAssumption DEF TypeOK
<1>2. Range(<<>>) = {} /\ IsInjective(<<>>)
  BY DEF Range, IsInjective
<1>3. OneBuilder
  BY <1>2 DEF OneBuilder, Constructing
<1>4. DestroyOnce
  BY <1>2 DEF DestroyOnce
<1>5. LockHeld
  BY StaticAssumption DEF LockHeld
<1>6. RegistersTop
  BY DEF RegistersTop, RegisterPlaces, PushedPlaces
<1>7. RegistryComplete
  BY <1>2 DEF RegistryComplete
<1>8. ExitAlone
  BY DEF ExitAlone
<1>9. InOrder
  <2>1. Registered = <<>> /\ onexit = <<>> /\ DOMAIN <<>> = {}
    BY DEF Registered
  <2>2. Places(<<>>, <<>>, <<>>)
    BY DEF Places
  <2>3. QED
    BY <2>1, <2>2 DEF InOrder
<1>10. QED
  BY <1>1, <1>3, <1>4, <1>5, <1>6, <1>7, <1>8, <1>9 DEF IInv

-----------------------------------------------------------------------------
(* Arriving at a declaration, sleeping there and passing it. *)
LEMMA StepArrive ==
    ASSUME IInv, NEW t \in Threads,
           (\E g \in Objects : Reach(t, g)) \/ Pass(t) \/ Sleep(t)
    PROVE  IInv'
<1>1. /\ at[t] \in {"body", "acquire"} /\ at' = [at EXCEPT ![t] = at'[t]]
      /\ at'[t] \in {"body", "acquire", "asleep"}
      /\ exiting => t = Main
      /\ top' \in [Threads -> Objects] /\ \A u \in Threads \ {t} : top'[u] = top[u]
      /\ UNCHANGED <<guard, built, lock, frames, destructors, onexit, exiting>>
  <2>1. at \in [Threads -> {"body", "acquire", "asleep", "register", "atexit", "release"}]
        /\ top \in [Threads -> Objects]
    BY DEF IInv, TypeOK
  <2>2. CASE \E g \in Objects : Reach(t, g)
    BY <2>1, <2>2 DEF Reach, Move, Goto
  <2>3. CASE Pass(t)
    BY <2>1, <2>3 DEF Pass, Move, Goto, IInv, ExitAlone
  <2>4. CASE Sleep(t)
    BY <2>1, <2>4 DEF Sleep, Move, Goto, IInv, ExitAlone
  <2>5. QED
    BY <2>2, <2>3, <2>4
<1>2. /\ at \in [Threads -> {"body", "acquire", "asleep", "register", "atexit", "release"}]
      /\ top \in [Threads -> Objects]
      /\ lock \in Threads \cup {Nobody}
  BY DEF IInv, TypeOK
<1>3. /\ at[t] \notin RegisterPlaces /\ at'[t] \notin RegisterPlaces /\ lock # t
      /\ \A u \in Threads \ {t} : at'[u] = at[u] /\ top'[u] = top[u]
      /\ \A u \in Threads : at[u] \in PushedPlaces => at[u] \in RegisterPlaces
  BY <1>1, <1>2, Registering DEF RegisterPlaces
<1>4. TypeOK'
  BY <1>1, <1>2 DEF IInv, TypeOK
<1>5. OneBuilder' /\ DestroyOnce'
  BY <1>1 DEF IInv, OneBuilder, DestroyOnce, Constructing
<1>6. LockHeld'
  BY <1>1, <1>2 DEF IInv, LockHeld
<1>7. RegistersTop'
  <2>1. ASSUME NEW u \in Threads, at'[u] \in RegisterPlaces
        PROVE  u # t /\ at[u] \in RegisterPlaces /\ top'[u] = top[u]
    BY <1>3, <2>1
  <2>2. PushedPlaces \subseteq RegisterPlaces
    BY DEF PushedPlaces, RegisterPlaces
  <2>3. \A u \in Threads : at'[u] \in PushedPlaces => at[u] \in PushedPlaces /\ top'[u] = top[u]
    BY <1>3, <2>2
  <2>4. lock # Nobody => top'[lock] = top[lock]
    BY <1>2, <1>3
  <2>5. QED
    BY <1>1, <2>1, <2>3, <2>4 DEF IInv, RegistersTop
<1>8. RegistryComplete'
  <2>1. \A u \in Threads : at[u] \in PushedPlaces => at'[u] = at[u] /\ top'[u] = top[u]
    BY <1>3
  <2>2. QED
    BY <1>1, <2>1 DEF IInv, RegistryComplete
<1>9. ExitAlone'
  BY <1>1, <1>3 DEF IInv, ExitAlone
<1>10. InOrder'
  BY <1>1 DEF IInv, InOrder, Registered
<1>11. QED
  BY <1>4, <1>5, <1>6, <1>7, <1>8, <1>9, <1>10 DEF IInv

(* The guard is free, so nobody constructs the object. *)
LEMMA StepBegin ==
    ASSUME IInv, NEW t \in Threads, Begin(t)
    PROVE  IInv'
<1> DEFINE g == top[t]
<1>1. /\ at \in [Threads -> {"body", "acquire", "asleep", "register", "atexit", "release"}]
      /\ top \in [Threads -> Objects] /\ guard \in [Objects -> 0..2]
      /\ frames \in [Threads -> Seq(Objects)]
      /\ lock = Nobody /\ guard[g] = 0 /\ at[t] = "acquire"
      /\ at' = [at EXCEPT ![t] = "body"] /\ guard' = [guard EXCEPT ![g] = 1]
      /\ frames' = [frames EXCEPT ![t] = Append(frames[t], g)]
      /\ UNCHANGED <<built, lock, top, destructors, onexit, exiting>>
  BY DEF IInv, TypeOK, Begin, Move, Goto
<1>2. g \in Objects /\ \A u \in Threads : g \notin Constructing(u)
  <2>1. g \in Objects /\ guard[g] # 1
    BY <1>1
  <2>2. guard[g] = 1 <=> \E u \in Threads : g \in Constructing(u)
    BY <2>1 DEF IInv, OneBuilder
  <2>3. QED
    BY <2>1, <2>2
<1>3. /\ frames'[t] \in Seq(Objects) /\ IsInjective(frames'[t])
      /\ Constructing(t)' = Constructing(t) \cup {g}
      /\ \A u \in Threads \ {t} : frames'[u] = frames[u] /\ Constructing(u)' = Constructing(u)
  <2>1. frames[t] \in Seq(Objects) /\ IsInjective(frames[t]) /\ frames'[t] = Append(frames[t], g)
    BY <1>1, <1>2 DEF IInv, OneBuilder
  <2>2. QED
    BY <1>1, <1>2, <2>1, Appended DEF Constructing
<1>4. /\ \A u \in Threads : at'[u] \in RegisterPlaces => u # t /\ at[u] \in RegisterPlaces
      /\ \A u \in Threads : at'[u] \in PushedPlaces => u # t /\ at[u] \in PushedPlaces
      /\ \A u \in Threads : at[u] \in PushedPlaces => at'[u] = at[u]
      /\ \A u \in Threads : at[u] \in PushedPlaces => top[u] # g
  <2>1. \A u \in Threads : at[u] \in PushedPlaces => top[u] \in Constructing(u)
    BY Registering
  <2>2. QED
    BY <1>1, <1>2, <2>1 DEF RegisterPlaces, PushedPlaces
<1>5. TypeOK'
  BY <1>1, <1>2, <1>3 DEF IInv, TypeOK
<1>6. OneBuilder'
  <2>1. ASSUME NEW h \in Objects
        PROVE  /\ (guard[h] = 1 <=> \E u \in Threads : h \in Constructing(u))'
               /\ (\A u, v \in Threads :
                      h \in Constructing(u) /\ h \in Constructing(v) => u = v)'
    <3>1. CASE h = g
      BY <1>1, <1>2, <1>3, <3>1
    <3>2. CASE h # g
      <4>1. guard'[h] = guard[h] /\ \A u \in Threads : h \in Constructing(u)' <=> h \in Constructing(u)
        BY <1>1, <1>3, <3>2
      <4>2. QED
        BY <4>1 DEF IInv, OneBuilder
    <3>3. QED
      BY <3>1, <3>2
  <2>2. \A u \in Threads : IsInjective(frames'[u])
    BY <1>2, <1>3 DEF IInv, OneBuilder
  <2>3. QED
    BY <2>1, <2>2 DEF OneBuilder
<1>7. DestroyOnce'
  BY <1>1 DEF IInv, DestroyOnce
<1>8. LockHeld'
  BY <1>1 DEF IInv, LockHeld
<1>9. RegistersTop'
  BY <1>1, <1>3, <1>4 DEF IInv, RegistersTop
<1>10. RegistryComplete'
  BY <1>1, <1>2, <1>4 DEF IInv, RegistryComplete, DestroyOnce
<1>11. ExitAlone'
  BY <1>1 DEF IInv, ExitAlone
<1>12. InOrder'
  BY <1>1 DEF IInv, InOrder, Registered
<1>13. QED
  BY <1>5, <1>6, <1>7, <1>8, <1>9, <1>10, <1>11, <1>12 DEF IInv

-----------------------------------------------------------------------------
(* The object is built, and its thread goes on to register it. *)
LEMMA StepConstruct ==
    ASSUME IInv, NEW t \in Threads, Construct(t)
    PROVE  IInv'
<1> DEFINE g == Last(frames[t])
<1>1. /\ at \in [Threads -> {"body", "acquire", "asleep", "register", "atexit", "release"}]
      /\ top \in [Threads -> Objects] /\ built \in [Objects -> BOOLEAN]
      /\ lock \in Threads \cup {Nobody}
      /\ frames[t] # <<>> /\ frames[t] \in Seq(Objects) /\ at[t] = "body"
      /\ at' = [at EXCEPT ![t] = "register"] /\ top' = [top EXCEPT ![t] = g]
      /\ built' = [built EXCEPT ![g] = TRUE]
      /\ UNCHANGED <<guard, lock, frames, destructors, onexit, exiting>>
  BY DEF IInv, TypeOK, Construct, Move, Goto
<1>2. g \in Objects /\ g \in Constructing(t)
  BY <1>1, WithoutLast DEF Constructing
<1>3. \A h \in Objects : built[h] => built'[h]
  BY <1>1, <1>2
<1>4. built'[g] /\ top'[t] = g /\ at'[t] = "register" /\ at'[t] \notin PushedPlaces /\ lock # t
  BY <1>1, <1>2, Registering DEF PushedPlaces
<1>5. \A u \in Threads \ {t} : at'[u] = at[u] /\ top'[u] = top[u]
  BY <1>1
<1>6. TypeOK'
  BY <1>1, <1>2 DEF IInv, TypeOK
<1>7. OneBuilder'
  BY <1>1 DEF IInv, OneBuilder, Constructing
<1>8. DestroyOnce'
  <2>1. Range(destructors) \subseteq Objects
    BY DEF IInv, TypeOK, Range
  <2>2. QED
    BY <1>1, <1>3, <2>1 DEF IInv, DestroyOnce
<1>9. LockHeld'
  BY <1>1 DEF IInv, LockHeld
<1>10. RegistersTop'
  <2>1. \A u \in Threads : at'[u] \in RegisterPlaces =>
            frames[u] # <<>> /\ top'[u] = Last(frames[u]) /\ built'[top'[u]]
    <3>1. ASSUME NEW u \in Threads \ {t}, at[u] \in RegisterPlaces
          PROVE  frames[u] # <<>> /\ top[u] = Last(frames[u]) /\ built'[top[u]]
      BY <1>1, <1>3, <3>1 DEF IInv, RegistersTop
    <3>2. QED
      BY <1>1, <1>4, <1>5, <3>1
  <2>2. \A u \in Threads : at'[u] \in PushedPlaces => top'[u] \in Range(destructors)
    BY <1>4, <1>5 DEF IInv, RegistersTop
  <2>3. lock # Nobody => top'[lock] = top[lock]
    BY <1>1, <1>4, <1>5
  <2>4. QED
    BY <1>1, <2>1, <2>2, <2>3 DEF IInv, RegistersTop
<1>11. RegistryComplete'
  <2>1. \A u \in Threads : at[u] \in PushedPlaces => at'[u] = at[u] /\ top'[u] = top[u]
    BY <1>1, <1>5 DEF PushedPlaces
  <2>2. QED
    BY <1>1, <2>1 DEF IInv, RegistryComplete
<1>12. ExitAlone'
  BY <1>1 DEF IInv, ExitAlone
<1>13. InOrder'
  BY <1>1 DEF IInv, InOrder, Registered
<1>14. QED
  BY <1>6, <1>7, <1>8, <1>9, <1>10, <1>11, <1>12, <1>13 DEF IInv

(* An object is pushed once: it would otherwise be complete, or another    *)
(* thread would be registering it. *)
LEMMA StepRegisterPush ==
    ASSUME IInv, NEW t \in Threads, RegisterPush(t)
    PROVE  IInv'
<1> DEFINE g == top[t]
<1>1. /\ at \in [Threads -> {"body", "acquire", "asleep", "register", "atexit", "release"}]
      /\ top \in [Threads -> Objects] /\ destructors \in Seq(Objects)
      /\ lock = Nobody /\ at[t] = "register"
      /\ at' = [at EXCEPT ![t] = "atexit"] /\ lock' = t
      /\ destructors' = <<g>> \o destructors
      /\ UNCHANGED <<guard, built, frames, top, onexit, exiting>>
  BY DEF IInv, TypeOK, RegisterPush, Move, Goto
<1>2. /\ g \in Objects /\ guard[g] = 1 /\ built[g]
      /\ frames[t] # <<>> /\ g = Last(frames[t])
  BY <1>1, Registering DEF RegisterPlaces, IInv, RegistersTop
<1>3. g \notin Range(destructors)
  <2>1. ASSUME g \in Range(destructors)
        PROVE  FALSE
    <3>1. PICK u \in Threads : at[u] \in PushedPlaces /\ top[u] = g
      BY <1>2, <2>1 DEF IInv, RegistryComplete
    <3>2. u = t
      BY <1>1, <3>1, Registering DEF RegisterPlaces
    <3>3. QED
      BY <1>1, <3>1, <3>2 DEF PushedPlaces
  <2>2. QED
    BY <2>1
<1>4. /\ destructors' \in Seq(Objects) /\ destructors' # <<>>
      /\ Head(destructors') = g /\ Tail(destructors') = destructors
      /\ Range(destructors') = Range(destructors) \cup {g}
      /\ IsInjective(destructors')
  BY <1>1, <1>2, <1>3, Pushed DEF IInv, DestroyOnce
<1>5. /\ \A u \in Threads : at'[u] \in RegisterPlaces => at[u] \in RegisterPlaces
      /\ \A u \in Threads : at'[u] \in PushedPlaces => u = t \/ at[u] \in PushedPlaces
      /\ \A u \in Threads : at[u] \in PushedPlaces => at'[u] \in PushedPlaces
      /\ at'[t] \in PushedPlaces
  BY <1>1 DEF RegisterPlaces, PushedPlaces
<1>6. TypeOK'
  BY <1>1, <1>4 DEF IInv, TypeOK
<1>7. OneBuilder'
  BY <1>1 DEF IInv, OneBuilder, Constructing
<1>8. DestroyOnce'
  BY <1>1, <1>2, <1>4 DEF IInv, DestroyOnce
<1>9. LockHeld'
  <2>1. ASSUME NEW u \in Threads
        PROVE  lock' = u <=> at'[u] = "atexit"
    <3>1. at[u] # "atexit"
      BY <1>1, StaticAssumption DEF IInv, LockHeld
    <3>2. QED
      BY <1>1, <3>1
  <2>2. QED
    BY <2>1 DEF LockHeld
<1>10. RegistersTop'
  <2>1. \A u \in Threads : at'[u] \in PushedPlaces => top[u] \in Range(destructors')
    BY <1>4, <1>5 DEF IInv, RegistersTop
  <2>2. QED
    BY <1>1, <1>4, <1>5, <2>1 DEF IInv, RegistersTop
<1>11. RegistryComplete'
  BY <1>1, <1>4, <1>5 DEF IInv, RegistryComplete
<1>12. ExitAlone'
  BY <1>1 DEF IInv, ExitAlone
<1>13. InOrder'
  <2>1. Registered' = Registered
    BY <1>1, <1>4, StaticAssumption DEF Registered
  <2>2. QED
    BY <1>1, <2>1 DEF IInv, InOrder
<1>14. QED
  BY <1>6, <1>7, <1>8, <1>9, <1>10, <1>11, <1>12, <1>13 DEF IInv

(* The callback joins the exit callbacks, and the lock is given up. *)
LEMMA StepRegisterCallback ==
    ASSUME IInv, NEW t \in Threads, RegisterCallback(t)
    PROVE  IInv'
<1> DEFINE g == top[t]
<1>1. /\ at \in [Threads -> {"body", "acquire", "asleep", "register", "atexit", "release"}]
      /\ top \in [Threads -> Objects] /\ destructors \in Seq(Objects)
      /\ onexit \in Seq(Objects \cup {UserCallback})
      /\ at[t] = "atexit" /\ at' = [at EXCEPT ![t] = "release"] /\ lock' = Nobody
      /\ onexit' = <<g>> \o onexit
      /\ UNCHANGED <<guard, built, frames, top, destructors, exiting>>
  BY DEF IInv, TypeOK, RegisterCallback, Move, Goto
<1>2. lock = t /\ lock # Nobody /\ destructors # <<>> /\ Head(destructors) = g
  BY <1>1, StaticAssumption DEF IInv, LockHeld, RegistersTop
<1>3. onexit' \in Seq(Objects \cup {UserCallback})
  BY <1>1, Pushed
<1>4. /\ \A u \in Threads : at'[u] \in RegisterPlaces => at[u] \in RegisterPlaces
      /\ \A u \in Threads : at'[u] \in PushedPlaces <=> at[u] \in PushedPlaces
  BY <1>1 DEF RegisterPlaces, PushedPlaces
<1>5. TypeOK'
  BY <1>1, <1>3 DEF IInv, TypeOK
<1>6. OneBuilder' /\ DestroyOnce'
  BY <1>1 DEF IInv, OneBuilder, DestroyOnce, Constructing
<1>7. LockHeld'
  <2>1. \A u \in Threads : at[u] = "atexit" <=> u = t
    BY <1>2 DEF IInv, LockHeld
  <2>2. QED
    BY <1>1, <2>1, StaticAssumption DEF LockHeld
<1>8. RegistersTop'
  BY <1>1, <1>4 DEF IInv, RegistersTop
<1>9. RegistryComplete'
  BY <1>1, <1>4 DEF IInv, RegistryComplete
<1>10. ExitAlone'
  BY <1>1 DEF IInv, ExitAlone
<1>11. InOrder'
  <2>1. Registered = Tail(destructors) /\ Registered' = destructors
    BY <1>1, <1>2 DEF Registered
  <2>2. \E f : Places(f, Tail(destructors), onexit)
    BY <2>1 DEF IInv, InOrder
  <2>3. \E f : Places(f, destructors, <<Head(destructors)>> \o onexit)
    BY <1>1, <1>2, <2>2, ObjectAdded
  <2>4. QED
    BY <1>1, <1>2, <2>1, <2>3 DEF InOrder
<1>12. QED
  BY <1>5, <1>6, <1>7, <1>8, <1>9, <1>10, <1>11 DEF IInv

(* A construction ends: complete if the thread has registered the object,  *)
(* and open again if the initializer has thrown. *)
LEMMA StepFinish ==
    ASSUME IInv, NEW t \in Threads, NEW state \in {0, 2}, Finish(t, state),
           frames[t] # <<>>, UNCHANGED built,
           at[t] = IF state = 2 THEN "release" ELSE "body"
    PROVE  IInv'
<1> DEFINE g == Last(frames[t])
<1>1. /\ at \in [Threads -> {"body", "acquire", "asleep", "register", "atexit", "release"}]
      /\ top \in [Threads -> Objects] /\ guard \in [Objects -> 0..2]
      /\ frames \in [Threads -> Seq(Objects)]
      /\ lock = Nobody /\ guard' = [guard EXCEPT ![g] = state] /\ at' = Woken(t)
      /\ frames' = [frames EXCEPT ![t] = Front(frames[t])]
      /\ UNCHANGED <<built, lock, top, destructors, onexit, exiting>>
  BY DEF IInv, TypeOK, Finish
<1>2. /\ g \in Objects /\ g \in Constructing(t) /\ IsInjective(frames[t])
      /\ Front(frames[t]) \in Seq(Objects) /\ IsInjective(Front(frames[t]))
      /\ Range(Front(frames[t])) = Range(frames[t]) \ {g}
  BY <1>1, WithoutLast DEF IInv, OneBuilder, Constructing
<1>3. /\ frames'[t] \in Seq(Objects) /\ IsInjective(frames'[t])
      /\ Constructing(t)' = Constructing(t) \ {g}
      /\ \A u \in Threads \ {t} : frames'[u] = frames[u] /\ Constructing(u)' = Constructing(u)
  BY <1>1, <1>2 DEF Constructing
<1>4. /\ guard[g] = 1
      /\ \A u \in Threads : g \in Constructing(u) => u = t
  BY <1>2 DEF IInv, OneBuilder
<1>5. /\ at'[t] = "body"
      /\ \A u \in Threads \ {t} :
            at'[u] = at[u] \/ (at[u] = "asleep" /\ at'[u] = "acquire")
  BY <1>1 DEF Woken
<1>6. /\ \A u \in Threads : at'[u] \in RegisterPlaces => u # t /\ at[u] \in RegisterPlaces
      /\ \A u \in Threads : at'[u] \in PushedPlaces => u # t /\ at[u] \in PushedPlaces
      /\ \A u \in Threads : at[u] \in PushedPlaces => u = t \/ at'[u] = at[u]
  BY <1>5 DEF RegisterPlaces, PushedPlaces
<1>7. TypeOK'
  <2>1. at' \in [Threads -> {"body", "acquire", "asleep", "register", "atexit", "release"}]
    BY <1>1 DEF Woken
  <2>2. guard' \in [Objects -> 0..2] /\ frames' \in [Threads -> Seq(Objects)]
    BY <1>1, <1>2
  <2>3. QED
    BY <1>1, <2>1, <2>2 DEF IInv, TypeOK
<1>8. OneBuilder'
  <2>1. ASSUME NEW h \in Objects
        PROVE  /\ (guard[h] = 1 <=> \E u \in Threads : h \in Constructing(u))'
               /\ (\A u, v \in Threads :
                      h \in Constructing(u) /\ h \in Constructing(v) => u = v)'
    <3>1. CASE h = g
      <4>1. guard'[g] # 1
        BY <1>1, <1>2
      <4>2. \A u \in Threads : g \notin Constructing(u)'
        BY <1>3, <1>4
      <4>3. QED
        BY <3>1, <4>1, <4>2
    <3>2. CASE h # g
      <4>1. guard'[h] = guard[h] /\ \A u \in Threads : h \in Constructing(u)' <=> h \in Constructing(u)
        BY <1>1, <1>3, <3>2
      <4>2. QED
        BY <4>1 DEF IInv, OneBuilder
    <3>3. QED
      BY <3>1, <3>2
  <2>2. \A u \in Threads : IsInjective(frames'[u])
    BY <1>2, <1>3 DEF IInv, OneBuilder
  <2>3. QED
    BY <2>1, <2>2 DEF OneBuilder
<1>9. DestroyOnce'
  BY <1>1 DEF IInv, DestroyOnce
<1>10. LockHeld'
  BY <1>1, <1>5, StaticAssumption DEF IInv, LockHeld
<1>11. RegistersTop'
  BY <1>1, <1>3, <1>6 DEF IInv, RegistersTop
<1>12. RegistryComplete'
  <2>1. CASE state = 2
    <3>1. at[t] \in PushedPlaces /\ top[t] = g /\ g \in Range(destructors)
      BY <2>1, Registering DEF PushedPlaces, IInv, RegistersTop
    <3>2. ASSUME NEW h \in Range(destructors)
          PROVE  guard'[h] = 2 \/ \E u \in Threads : at'[u] \in PushedPlaces /\ top[u] = h
      <4>1. h \in Objects
        BY DEF IInv, TypeOK, Range
      <4>2. CASE h = g
        BY <1>1, <1>2, <2>1, <4>2
      <4>3. CASE h # g
        BY <1>1, <1>6, <3>1, <4>1, <4>3 DEF IInv, RegistryComplete
      <4>4. QED
        BY <4>2, <4>3
    <3>3. ASSUME ~exiting, NEW h \in Objects, guard'[h] = 2
          PROVE  h \in Range(destructors)
      BY <1>1, <3>1, <3>3 DEF IInv, RegistryComplete
    <3>4. QED
      BY <1>1, <3>2, <3>3 DEF RegistryComplete
  <2>2. CASE state = 0
    <3>1. at[t] \notin PushedPlaces
      BY <2>2 DEF PushedPlaces
    <3>2. g \notin Range(destructors)
      <4>1. \A u \in Threads : at[u] \in PushedPlaces /\ top[u] = g => u = t
        BY <1>4, Registering
      <4>2. QED
        BY <1>4, <3>1, <4>1 DEF IInv, RegistryComplete
    <3>3. ASSUME NEW h \in Range(destructors)
          PROVE  guard'[h] = 2 \/ \E u \in Threads : at'[u] \in PushedPlaces /\ top[u] = h
      <4>1. h \in Objects /\ h # g
        BY <3>2 DEF IInv, TypeOK, Range
      <4>2. QED
        BY <1>1, <1>6, <3>1, <4>1 DEF IInv, RegistryComplete
    <3>4. ASSUME ~exiting, NEW h \in Objects, guard'[h] = 2
          PROVE  h \in Range(destructors)
      BY <1>1, <2>2, <3>4 DEF IInv, RegistryComplete
    <3>5. QED
      BY <1>1, <3>3, <3>4 DEF RegistryComplete
  <2>3. QED
    BY <2>1, <2>2
<1>13. ExitAlone'
  BY <1>1, <1>5 DEF IInv, ExitAlone
<1>14. InOrder'
  BY <1>1 DEF IInv, InOrder, Registered
<1>15. QED
  BY <1>7, <1>8, <1>9, <1>10, <1>11, <1>12, <1>13, <1>14 DEF IInv

LEMMA StepRelease ==
    ASSUME IInv, NEW t \in Threads, Release(t)
    PROVE  IInv'
<1>1. at[t] = "release" /\ Finish(t, 2) /\ UNCHANGED built
  BY DEF Release
<1>2. frames[t] # <<>>
  BY <1>1, Registering DEF RegisterPlaces
<1>3. QED
  BY <1>1, <1>2, StepFinish

LEMMA StepThrow ==
    ASSUME IInv, NEW t \in Threads, Throw(t)
    PROVE  IInv'
<1>1. at[t] = "body" /\ frames[t] # <<>> /\ Finish(t, 0) /\ UNCHANGED built
  BY DEF Throw
<1>2. QED
  BY <1>1, StepFinish

-----------------------------------------------------------------------------
(* Callbacks of the program's own come and go between those of objects. *)
LEMMA StepAtexit ==
    ASSUME IInv, NEW t \in Threads, Atexit(t)
    PROVE  IInv'
<1>1. /\ onexit' = <<UserCallback>> \o onexit
      /\ UNCHANGED <<guard, built, lock, frames, at, top, destructors, exiting>>
  BY DEF Atexit
<1>2. onexit \in Seq(Objects \cup {UserCallback}) /\ Registered \in Seq(Objects)
  <2>1. lock # Nobody => destructors # <<>>
    BY DEF IInv, RegistersTop
  <2>2. destructors \in Seq(Objects)
    BY DEF IInv, TypeOK
  <2>3. QED
    BY <2>1, <2>2, WithoutHead DEF Registered, IInv, TypeOK
<1>3. onexit' \in Seq(Objects \cup {UserCallback})
  BY <1>1, <1>2, Pushed
<1>4. TypeOK'
  BY <1>1, <1>3 DEF IInv, TypeOK
<1>5. InOrder'
  <2>1. \E f : Places(f, Registered, onexit')
    BY <1>1, <1>2, UserAdded DEF IInv, InOrder
  <2>2. Registered' = Registered
    BY <1>1 DEF Registered
  <2>3. QED
    BY <2>1, <2>2 DEF InOrder
<1>6. QED
  BY <1>1, <1>4, <1>5 DEF IInv, OneBuilder, DestroyOnce, LockHeld, RegistersTop,
     RegistryComplete, ExitAlone, Constructing

LEMMA StepExit ==
    ASSUME IInv, Exit
    PROVE  IInv'
BY DEF Exit, IInv, TypeOK, OneBuilder, DestroyOnce, LockHeld, RegistersTop,
       RegistryComplete, ExitAlone, InOrder, Registered, Constructing

(* While exit runs the callbacks nobody registers. *)
LEMMA ExitingQuiet ==
    ASSUME IInv, Exiting
    PROVE  /\ \A t \in Threads : at[t] = "body"
           /\ \A t \in Threads : at[t] \notin RegisterPlaces /\ at[t] \notin PushedPlaces
           /\ lock = Nobody
<1>1. \A t \in Threads : at[t] = "body"
  BY DEF IInv, ExitAlone, Exiting
<1>2. lock \in Threads \cup {Nobody}
  BY DEF IInv, TypeOK
<1>3. QED
  BY <1>1, <1>2 DEF RegisterPlaces, PushedPlaces, IInv, LockHeld

LEMMA StepRunUser ==
    ASSUME IInv, RunUser
    PROVE  IInv'
<1>1. /\ Exiting /\ onexit # <<>> /\ Head(onexit) = UserCallback /\ onexit' = Tail(onexit)
      /\ UNCHANGED <<guard, built, lock, frames, at, top, destructors, exiting>>
  BY DEF RunUser
<1>2. /\ onexit \in Seq(Objects \cup {UserCallback}) /\ destructors \in Seq(Objects)
      /\ Registered = destructors /\ Registered' = destructors
  BY <1>1, ExitingQuiet DEF IInv, TypeOK, Registered
<1>3. TypeOK'
  BY <1>1, <1>2, WithoutHead DEF IInv, TypeOK
<1>4. InOrder'
  <2>1. \E f : Places(f, destructors, onexit')
    BY <1>1, <1>2, UserRun DEF IInv, InOrder
  <2>2. QED
    BY <1>2, <2>1 DEF InOrder
<1>5. QED
  BY <1>1, <1>3, <1>4 DEF IInv, OneBuilder, DestroyOnce, LockHeld, RegistersTop,
     RegistryComplete, ExitAlone, Constructing

(* The callback that runs is that of the object at the head of the registry. *)
LEMMA RunsItsOwn ==
    ASSUME IInv, RunOne
    PROVE  /\ destructors # <<>> /\ Head(destructors) = Head(onexit)
           /\ Registered = destructors /\ Registered' = destructors'
           /\ \E f : Places(f, Tail(destructors), Tail(onexit))
<1>1. /\ Exiting /\ onexit # <<>> /\ Head(onexit) # UserCallback /\ UNCHANGED lock
  BY DEF RunOne
<1>2. /\ onexit \in Seq(Objects \cup {UserCallback}) /\ destructors \in Seq(Objects)
      /\ Registered = destructors /\ Registered' = destructors'
  BY <1>1, ExitingQuiet DEF IInv, TypeOK, Registered
<1>3. \E f : Places(f, destructors, onexit)
  BY <1>2 DEF IInv, InOrder
<1>4. QED
  BY <1>1, <1>2, <1>3, ObjectRun

LEMMA StepRunOne ==
    ASSUME IInv, RunOne
    PROVE  IInv'
<1> DEFINE g == Head(destructors)
<1>1. /\ Exiting /\ exiting /\ onexit # <<>> /\ onexit' = Tail(onexit)
      /\ destructors' = Tail(destructors) /\ built' = [built EXCEPT ![g] = FALSE]
      /\ UNCHANGED <<guard, lock, frames, at, top, exiting>>
  BY DEF RunOne, Exiting
<1>2. /\ onexit \in Seq(Objects \cup {UserCallback}) /\ destructors \in Seq(Objects)
      /\ built \in [Objects -> BOOLEAN]
  BY DEF IInv, TypeOK
<1>3. /\ g \in Objects /\ destructors' \in Seq(Objects) /\ IsInjective(destructors')
      /\ Range(destructors') = Range(destructors) \ {g}
  BY <1>1, <1>2, RunsItsOwn, WithoutHead DEF IInv, DestroyOnce
<1>4. /\ \A t \in Threads : at[t] \notin RegisterPlaces /\ at[t] \notin PushedPlaces
      /\ lock = Nobody
  BY <1>1, ExitingQuiet
<1>5. TypeOK'
  <2>1. onexit' \in Seq(Objects \cup {UserCallback})
    BY <1>1, <1>2, WithoutHead
  <2>2. built' \in [Objects -> BOOLEAN]
    BY <1>1, <1>2
  <2>3. QED
    BY <1>1, <1>3, <2>1, <2>2 DEF IInv, TypeOK
<1>6. OneBuilder'
  BY <1>1 DEF IInv, OneBuilder, Constructing
<1>7. DestroyOnce'
  <2>1. Range(destructors) \subseteq Objects
    BY <1>2 DEF Range
  <2>2. QED
    BY <1>1, <1>2, <1>3, <2>1 DEF IInv, DestroyOnce
<1>8. LockHeld'
  BY <1>1 DEF IInv, LockHeld
<1>9. RegistersTop'
  BY <1>1, <1>4 DEF RegistersTop
<1>10. RegistryComplete'
  BY <1>1, <1>3, <1>4 DEF IInv, RegistryComplete
<1>11. ExitAlone'
  BY <1>1 DEF IInv, ExitAlone
<1>12. InOrder'
  BY <1>1, RunsItsOwn DEF InOrder
<1>13. QED
  BY <1>5, <1>6, <1>7, <1>8, <1>9, <1>10, <1>11, <1>12 DEF IInv

-----------------------------------------------------------------------------
LEMMA NextIInv == IInv /\ [Next]_vars => IInv'
<1> SUFFICES ASSUME IInv, [Next]_vars
             PROVE  IInv'
  OBVIOUS
<1>1. ASSUME NEW t \in Threads, Step(t)
      PROVE  IInv'
  BY <1>1, StepArrive, StepBegin, StepConstruct, StepRegisterPush,
     StepRegisterCallback, StepRelease, StepThrow, StepAtexit DEF Step
<1>2. CASE UNCHANGED vars
  BY <1>2 DEF vars, IInv, TypeOK, OneBuilder, DestroyOnce, LockHeld, RegistersTop,
     RegistryComplete, ExitAlone, InOrder, Registered, Constructing
<1>3. QED
  BY <1>1, <1>2, StepExit, StepRunUser, StepRunOne DEF Next

LEMMA Invariance == Spec => []IInv
BY InitIInv, NextIInv, PTL DEF Spec

(* The type invariant of the guards, the constructions and the registry. *)
THEOREM TypeCorrect == Spec => []TypeOK
<1>1. IInv => TypeOK
  BY DEF IInv
<1>2. QED
  BY <1>1, Invariance, PTL

(* A guard that says "under construction" has exactly one constructing     *)
(* thread, and no thread constructs behind another guard                   *)
(* (__cpc_static_acquire, __cpc_static_abort). *)
THEOREM BuiltByOne == Spec => []OneBuilder
<1>1. IInv => OneBuilder
  BY DEF IInv
<1>2. QED
  BY <1>1, Invariance, PTL

(* The destructor registry holds constructed objects, none of them twice   *)
(* (__cpc_register_static_destructor). *)
THEOREM DestroyedOnce == Spec => []DestroyOnce
<1>1. IInv => DestroyOnce
  BY DEF IInv
<1>2. QED
  BY <1>1, Invariance, PTL

(* Whoever passes a declaration without constructing finds the object      *)
(* built and registered: the test of the guard without the lock is sound.  *)
THEOREM PassingIsSafe == Spec => PassedMeansBuilt
<1>1. ASSUME IInv, [Next]_vars, NEW t \in Threads,
             at[t] = "acquire", at'[t] = "body", frames'[t] = frames[t], ~exiting
      PROVE  built[top[t]] /\ top[t] \in Range(destructors)
  <2>1. /\ at \in [Threads -> {"body", "acquire", "asleep", "register", "atexit", "release"}]
        /\ frames \in [Threads -> Seq(Objects)] /\ top[t] \in Objects
    BY <1>1 DEF IInv, TypeOK
  <2>2. ASSUME NEW u \in Threads, Step(u)
        PROVE  Pass(t)
    <3>1. u = t
      <4>1. CASE Release(u) \/ Throw(u)
        BY <1>1, <2>1, <4>1 DEF Release, Throw, Finish, Woken
      <4>2. CASE ~(Release(u) \/ Throw(u))
        BY <1>1, <2>1, <2>2, <4>2 DEF Step, Reach, Pass, Sleep, Begin, Construct,
           RegisterPush, RegisterCallback, Atexit, Move, Goto
      <4>3. QED
        BY <4>1, <4>2
    <3>2. ~Begin(t)
      <4>1. ASSUME Begin(t)
            PROVE  FALSE
        <5>1. frames'[t] = Append(frames[t], top[t]) /\ frames[t] \in Seq(Objects)
          BY <2>1, <4>1 DEF Begin
        <5>2. Len(frames'[t]) = Len(frames[t]) + 1 /\ Len(frames[t]) \in Nat
          BY <2>1, <5>1
        <5>3. QED
          BY <1>1, <5>2
      <4>2. QED
        BY <4>1
    <3>3. QED
      BY <1>1, <2>1, <2>2, <3>1, <3>2 DEF Step, Reach, Pass, Sleep, Construct,
         RegisterPush, RegisterCallback, Release, Throw, Atexit, Move, Goto
  <2>3. guard[top[t]] = 2
    BY <1>1, <2>2 DEF Next, vars, Exit, RunUser, RunOne, Pass
  <2>4. QED
    BY <1>1, <2>1, <2>3 DEF IInv, RegistryComplete, DestroyOnce
<1>2. IInv /\ [Next]_vars => [\A t \in Threads :
          at[t] = "acquire" /\ at'[t] = "body" /\ frames'[t] = frames[t] /\ ~exiting =>
             built[top[t]] /\ top[t] \in Range(destructors)]_vars
  BY <1>1
<1>3. QED
  BY <1>2, Invariance, PTL DEF Spec, PassedMeansBuilt

(* Destruction takes an object at its own place in the reverse order of    *)
(* the exit callbacks, although the callback destroys whatever object      *)
(* heads the registry (cpc_run_one_static_destructor). *)
THEOREM DestroyedInPlace == Spec => OwnPosition
<1>1. ASSUME IInv, [Next]_vars, NEW g \in Objects, built[g], ~built'[g]
      PROVE  onexit = <<g>> \o onexit'
  <2>1. built \in [Objects -> BOOLEAN] /\ onexit \in Seq(Objects \cup {UserCallback})
    BY <1>1 DEF IInv, TypeOK
  <2>2. RunOne
    BY <1>1, <2>1 DEF Next, vars, Step, Reach, Pass, Sleep, Begin, Construct,
       RegisterPush, RegisterCallback, Release, Throw, Finish, Atexit, Exit, RunUser
  <2>3. /\ onexit # <<>> /\ onexit' = Tail(onexit) /\ Head(onexit) = Head(destructors)
        /\ built' = [built EXCEPT ![Head(destructors)] = FALSE]
    BY <1>1, <2>2, RunsItsOwn DEF RunOne
  <2>4. g = Head(onexit)
    BY <1>1, <2>1, <2>3
  <2>5. QED
    BY <2>1, <2>3, <2>4
<1>2. IInv /\ [Next]_vars => [\A g \in Objects :
          built[g] /\ ~built'[g] => onexit = <<g>> \o onexit']_vars
  BY <1>1
<1>3. QED
  BY <1>2, Invariance, PTL DEF Spec, OwnPosition

=============================================================================
