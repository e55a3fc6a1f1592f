------------------------ MODULE TemplateReplayProofs ------------------------
(***************************************************************************)
(* For any templates, nested to any depth: the recovery jump is that of    *)
(* the innermost probe unless a definition is replayed above it, the       *)
(* parser's globals are those the running activations account for, and no  *)
(* definition of a class is replayed twice.                                *)
(***************************************************************************)
EXTENDS TemplateReplay, Integers, FiniteSetTheorems, WellFoundedInduction, TLAPS

Kinds == {"probe", "deduce", "interface", "alias", "qualified", "drain",
          "quiet", "item", "define", "forward", "assemble", "invalid",
          "struct", "body"}

States == {"none", "assembling", "queued", "wanted", "open", "done", "declared",
           "demanded", "body"}

Globals == [jump : Nat, probes : Int, alias : Int, scoped : BOOLEAN,
            classes : Int, compiling : Int, quiet : Int]

Frames == [kind : Kinds, spec : Specs \cup {Nothing}, saved : Globals]

Probing(x) == x.kind \in {"probe", "interface"}

Defining(x) ==
    \/ x.kind \in {"deduce", "item", "define", "body"}
    \/ x.kind = "assemble" /\ x.spec \in Classes

(* What the first k activations of s make of the jump. *)
InContext(s, k, j) ==
    /\ j \in 0..k
    /\ j # 0 => Probing(s[j])
    /\ j # 0 => \A i \in 1..k : i > j => ~Probing(s[i]) /\ ~Defining(s[i])
    /\ j = 0 => \A i \in 1..k : Probing(s[i]) =>
                   \E d \in 1..k : i <= d /\ Defining(s[d])

(* The jump when the first k activations are left: the next one saved it.  *)
JumpAt(s, g, k) == IF k < Len(s) THEN s[k + 1].saved.jump ELSE g.jump

Chained(s, g) == \A k \in 0..Len(s) : InContext(s, k, JumpAt(s, g, k))

(* The activation assembles the definition of a class. *)
Pending(x) == x.kind \in {"forward", "assemble"} /\ x.spec \in Classes

FrameOK(x, sp) ==
    /\ x.kind = "forward" => x.spec \in Classes
    /\ x.kind = "interface" => x.spec \in Functions
    /\ Pending(x) => sp[x.spec] = "assembling"
    /\ x.kind \in {"item", "define"} /\ x.spec \in Classes =>
          sp[x.spec] \in {"open", "done"}

(* The interface of a function is probed directly above the activation     *)
(* that assembles it. *)
Assembling(x) == x.kind = "assemble" /\ x.spec \in Functions

(* A class is assembled by one activation. *)
Founded(s, sp) ==
    /\ \A i \in 1..Len(s) : FrameOK(s[i], sp)
    /\ \A i, j \in 1..Len(s) :
          Pending(s[i]) /\ Pending(s[j]) /\ s[i].spec = s[j].spec => i = j
    /\ \A i \in 1..Len(s) :
          s[i].kind = "interface" => i > 1 /\ Assembling(s[i - 1])

Good(s, g, sp) ==
    /\ s \in Seq(Frames) /\ g \in Globals
    /\ Chained(s, g)
    /\ Founded(s, sp)

(* A definition has been replayed only if its class is no longer queued.   *)
Counted(sp, r) ==
    \A c \in Classes :
        /\ r[c] \in {0, 1}
        /\ sp[c] \in {"none", "assembling", "queued", "wanted", "open", "done"}
        /\ sp[c] \in {"none", "assembling", "queued", "wanted"} => r[c] = 0

Tables(sp, r) ==
    /\ sp \in [Specs -> States] /\ r \in [Classes -> Nat]
    /\ Counted(sp, r)

IInv == Good(stack, globals, spec) /\ Tables(spec, replays)

-----------------------------------------------------------------------------
(* The stack. *)

LEMMA SamePrefix ==
    ASSUME NEW s, NEW t, NEW k \in Nat, NEW j, InContext(s, k, j),
           \A i \in 1..k : t[i] = s[i]
    PROVE  InContext(t, k, j)
<1>1. j # 0 => j \in 1..k
  BY DEF InContext
<1>2. j # 0 => /\ Probing(t[j])
               /\ \A i \in 1..k : i > j => ~Probing(t[i]) /\ ~Defining(t[i])
  BY <1>1 DEF InContext
<1>3. ASSUME j = 0, NEW i \in 1..k, Probing(t[i])
      PROVE  \E d \in 1..k : i <= d /\ Defining(t[d])
  BY <1>3 DEF InContext
<1> QED
  BY <1>2, <1>3 DEF InContext

LEMMA Pushed ==
    ASSUME NEW s \in Seq(Frames), NEW x \in Frames
    PROVE  /\ Append(s, x) \in Seq(Frames)
           /\ Len(Append(s, x)) = Len(s) + 1
           /\ \A i \in 1..Len(s) : Append(s, x)[i] = s[i]
           /\ Append(s, x)[Len(s) + 1] = x
OBVIOUS

LEMMA CutOff ==
    ASSUME NEW s \in Seq(Frames), NEW p \in 1..Len(s)
    PROVE  /\ SubSeq(s, 1, p - 1) \in Seq(Frames)
           /\ Len(SubSeq(s, 1, p - 1)) = p - 1
           /\ \A i \in 1..(p - 1) : SubSeq(s, 1, p - 1)[i] = s[i]
OBVIOUS

(* An activation that neither probes nor defines keeps the jump.           *)
LEMMA ContextOfNeutral ==
    ASSUME NEW s \in Seq(Frames), NEW x \in Frames, NEW j,
           InContext(s, Len(s), j), ~Probing(x), ~Defining(x)
    PROVE  InContext(Append(s, x), Len(s) + 1, j)
<1> DEFINE t == Append(s, x)
           n == Len(s)
<1>1. /\ n \in Nat
      /\ \A i \in 1..n : t[i] = s[i]
      /\ t[n + 1] = x
  BY Pushed
<1> HIDE DEF t, n
<1>2. InContext(t, n, j)
  BY <1>1, SamePrefix DEF n
<1>3. \A i \in 1..(n + 1) : i \in 1..n \/ i = n + 1
  BY <1>1
<1>4. j \in 0..(n + 1)
  BY <1>1, <1>2 DEF InContext
<1>5. ASSUME NEW i \in 1..(n + 1), j # 0, i > j
      PROVE  ~Probing(t[i]) /\ ~Defining(t[i])
  BY <1>1, <1>2, <1>3, <1>5 DEF InContext
<1>6. ASSUME NEW i \in 1..(n + 1), j = 0, Probing(t[i])
      PROVE  \E d \in 1..(n + 1) : i <= d /\ Defining(t[d])
  <2>1. i \in 1..n
    BY <1>1, <1>3, <1>6
  <2>2. PICK d \in 1..n : i <= d /\ Defining(t[d])
    BY <2>1, <1>2, <1>6 DEF InContext
  <2> QED
    BY <2>2, <1>1
<1>7. InContext(t, n + 1, j)
  BY <1>2, <1>4, <1>5, <1>6 DEF InContext
<1> QED
  BY <1>7 DEF t, n

(* A probe takes the jump, a definition clears it. *)
LEMMA ContextOfOther ==
    ASSUME NEW s \in Seq(Frames), NEW x \in Frames, NEW j,
           \/ Probing(x) /\ j = Len(s) + 1
           \/ Defining(x) /\ j = 0
    PROVE  InContext(Append(s, x), Len(s) + 1, j)
<1> DEFINE t == Append(s, x)
           n == Len(s)
<1>1. n \in Nat /\ t[n + 1] = x
  BY Pushed
<1> HIDE DEF t
<1>2. CASE Probing(x) /\ j = n + 1
  BY <1>1, <1>2 DEF InContext, t
<1>3. CASE Defining(x) /\ j = 0
  <2>1. \A i \in 1..(n + 1) : i <= n + 1 /\ Defining(t[n + 1])
    BY <1>1, <1>3
  <2> QED
    BY <2>1, <1>1, <1>3 DEF InContext, t
<1> QED
  BY <1>2, <1>3

LEMMA Push ==
    ASSUME NEW s, NEW g, NEW sp, Good(s, g, sp),
           NEW x \in Frames, x.saved.jump = g.jump, FrameOK(x, sp),
           \A i \in 1..Len(s) : Pending(x) /\ Pending(s[i]) => s[i].spec # x.spec,
           x.kind = "interface" => Len(s) > 0 /\ Assembling(s[Len(s)]),
           NEW h \in Globals,
           InContext(Append(s, x), Len(s) + 1, h.jump)
    PROVE  Good(Append(s, x), h, sp)
<1> DEFINE t == Append(s, x)
           n == Len(s)
<1>1. s \in Seq(Frames) /\ n \in Nat
  BY DEF Good
<1>2. /\ t \in Seq(Frames) /\ Len(t) = n + 1
      /\ \A i \in 1..n : t[i] = s[i]
      /\ t[n + 1] = x
  BY <1>1, Pushed
<1>x. InContext(t, n + 1, h.jump)
  OBVIOUS
<1> HIDE DEF t, n
<1>3. \A i \in 1..(n + 1) : i \in 1..n \/ i = n + 1
  BY <1>1
<1>4. ASSUME NEW k \in 0..(n + 1)
      PROVE  InContext(t, k, JumpAt(t, h, k))
  <2>1. CASE k = n + 1
    BY <2>1, <1>x, <1>2, <1>1 DEF JumpAt
  <2>2. CASE k \in 0..n
    <3>1. JumpAt(t, h, k) = JumpAt(s, g, k)
      <4>1. CASE k = n
        BY <4>1, <1>1, <1>2 DEF JumpAt, n
      <4>2. CASE k < n
        <5>1. k + 1 \in 1..n /\ k < n + 1
          BY <2>2, <4>2, <1>1
        <5> QED
          BY <4>2, <5>1, <1>2 DEF JumpAt, n
      <4> QED
        BY <2>2, <4>1, <4>2, <1>1
    <3>2. InContext(s, k, JumpAt(s, g, k))
      BY <2>2 DEF Good, Chained, n
    <3> QED
      BY <3>1, <3>2, <2>2, <1>1, <1>2, SamePrefix
  <2> QED
    BY <2>1, <2>2, <1>1
<1>5. Founded(s, sp)
  BY DEF Good
<1>6. ASSUME NEW i \in 1..(n + 1)
      PROVE  FrameOK(t[i], sp)
  BY <1>2, <1>3, <1>5 DEF Founded, n
<1>7. ASSUME NEW i \in 1..(n + 1), NEW j \in 1..(n + 1),
             Pending(t[i]), Pending(t[j]), t[i].spec = t[j].spec
      PROVE  i = j
  BY <1>2, <1>3, <1>5, <1>7 DEF Founded, n
<1>8. ASSUME NEW i \in 1..(n + 1), t[i].kind = "interface"
      PROVE  i > 1 /\ Assembling(t[i - 1])
  <2>1. CASE i = n + 1
    <3>1. n > 0 /\ Assembling(s[n])
      BY <2>1, <1>2, <1>8 DEF n
    <3>2. i - 1 = n /\ n \in 1..n
      BY <3>1, <2>1, <1>1
    <3> QED
      BY <3>1, <3>2, <1>1, <1>2, <2>1
  <2>2. CASE i \in 1..n
    <3>1. i > 1 /\ Assembling(s[i - 1])
      BY <2>2, <1>2, <1>5, <1>8 DEF Founded, n
    <3>2. i - 1 \in 1..n
      BY <3>1, <2>2, <1>1
    <3> QED
      BY <3>1, <3>2, <1>2
  <2> QED
    BY <2>1, <2>2, <1>3
<1>9. Founded(t, sp)
  BY <1>2, <1>6, <1>7, <1>8 DEF Founded
<1> QED
  BY <1>2, <1>4, <1>9 DEF Good, Chained, t

(* Everything from activation p on is left: the jump is the one it saved.  *)
LEMMA Cut ==
    ASSUME NEW s, NEW g, NEW sp, Good(s, g, sp), NEW p \in 1..Len(s),
           NEW h \in Globals,
           InContext(s, p - 1, h.jump)
    PROVE  Good(SubSeq(s, 1, p - 1), h, sp)
<1> DEFINE t == SubSeq(s, 1, p - 1)
           n == Len(s)
<1>1. s \in Seq(Frames) /\ n \in Nat /\ p \in 1..n
  BY DEF Good
<1>2. /\ t \in Seq(Frames) /\ Len(t) = p - 1
      /\ \A i \in 1..(p - 1) : t[i] = s[i]
  BY <1>1, CutOff
<1> HIDE DEF t, n
<1>3. \A i \in 1..(p - 1) : i \in 1..n
  BY <1>1
<1>4. ASSUME NEW k \in 0..(p - 1)
      PROVE  InContext(t, k, JumpAt(t, h, k))
  <2>1. k \in Nat /\ k \in 0..n /\ \A i \in 1..k : i \in 1..(p - 1)
    BY <1>1
  <2>2. InContext(s, k, JumpAt(t, h, k))
    <3>1. CASE k = p - 1
      BY <3>1, <1>2, <1>1 DEF JumpAt
    <3>2. CASE k < p - 1
      <4>1. k + 1 \in 1..(p - 1) /\ k < n
        BY <3>2, <1>1
      <4>2. JumpAt(t, h, k) = JumpAt(s, g, k)
        BY <3>2, <4>1, <1>2 DEF JumpAt, n
      <4> QED
        BY <4>2, <2>1 DEF Good, Chained, n
    <3> QED
      BY <3>1, <3>2, <1>1
  <2> QED
    BY <2>1, <2>2, <1>2, SamePrefix
<1>5. Founded(s, sp)
  BY DEF Good
<1>6. \A i \in 1..(p - 1) : FrameOK(t[i], sp)
  BY <1>2, <1>3, <1>5 DEF Founded, n
<1>7. \A i, j \in 1..(p - 1) :
         Pending(t[i]) /\ Pending(t[j]) /\ t[i].spec = t[j].spec => i = j
  BY <1>2, <1>3, <1>5 DEF Founded, n
<1>8. ASSUME NEW i \in 1..(p - 1), t[i].kind = "interface"
      PROVE  i > 1 /\ Assembling(t[i - 1])
  <2>1. i > 1 /\ Assembling(s[i - 1])
    BY <1>2, <1>3, <1>5, <1>8 DEF Founded, n
  <2>2. i - 1 \in 1..(p - 1)
    BY <2>1, <1>1
  <2> QED
    BY <2>1, <2>2, <1>2
<1>9. Founded(t, sp)
  BY <1>2, <1>6, <1>7, <1>8 DEF Founded
<1> QED
  BY <1>2, <1>4, <1>9 DEF Good, Chained, t

(* An activation that puts back the jump it saved ends. *)
LEMMA Pop ==
    ASSUME NEW s, NEW g, NEW sp, Good(s, g, sp), NEW p \in 1..Len(s),
           NEW h \in Globals, h.jump = s[p].saved.jump
    PROVE  Good(SubSeq(s, 1, p - 1), h, sp) /\ InContext(s, p - 1, h.jump)
<1>1. s \in Seq(Frames) /\ Len(s) \in Nat
  BY DEF Good
<1>2. p - 1 \in 0..Len(s) /\ p - 1 < Len(s) /\ (p - 1) + 1 = p
  BY <1>1
<1>3. JumpAt(s, g, p - 1) = h.jump
  BY <1>2 DEF JumpAt
<1>4. InContext(s, p - 1, h.jump)
  BY <1>2, <1>3 DEF Good, Chained
<1> QED
  BY <1>4, Cut

(* An activation that is no probe and no definition leaves the jump.       *)
LEMMA ContextBelow ==
    ASSUME NEW s, NEW k \in Nat \ {0}, NEW j, InContext(s, k, j),
           ~Probing(s[k]), ~Defining(s[k])
    PROVE  InContext(s, k - 1, j)
<1>1. j \in 0..(k - 1)
  BY DEF InContext
<1>2. ASSUME NEW i \in 1..(k - 1), j # 0, i > j
      PROVE  ~Probing(s[i]) /\ ~Defining(s[i])
  BY <1>2 DEF InContext
<1>3. ASSUME NEW i \in 1..(k - 1), j = 0, Probing(s[i])
      PROVE  \E d \in 1..(k - 1) : i <= d /\ Defining(s[d])
  <2>1. i \in 1..k
    OBVIOUS
  <2>2. PICK d \in 1..k : i <= d /\ Defining(s[d])
    BY <2>1, <1>3 DEF InContext
  <2>3. d # k
    BY <2>2
  <2> QED
    BY <2>2, <2>3
<1>4. j # 0 => Probing(s[j])
  BY DEF InContext
<1> QED
  BY <1>1, <1>2, <1>3, <1>4 DEF InContext

LEMMA Drop ==
    ASSUME NEW s, NEW g, NEW sp, Good(s, g, sp), Len(s) > 0,
           ~Probing(s[Len(s)]), ~Defining(s[Len(s)]),
           NEW h \in Globals, h.jump = g.jump
    PROVE  Good(SubSeq(s, 1, Len(s) - 1), h, sp)
<1>1. s \in Seq(Frames) /\ Len(s) \in Nat
  BY DEF Good
<1>2. JumpAt(s, g, Len(s)) = h.jump
  BY <1>1 DEF JumpAt
<1>3. InContext(s, Len(s), h.jump)
  BY <1>1, <1>2 DEF Good, Chained
<1>4. InContext(s, Len(s) - 1, h.jump)
  BY <1>1, <1>3, ContextBelow
<1> QED
  BY <1>1, <1>4, Cut

LEMMA Current ==
    ASSUME NEW s, NEW g, NEW sp, Good(s, g, sp)
    PROVE  InContext(s, Len(s), g.jump)
<1>1. Len(s) \in Nat
  BY DEF Good
<1>2. JumpAt(s, g, Len(s)) = g.jump
  BY <1>1 DEF JumpAt
<1> QED
  BY <1>1, <1>2 DEF Good, Chained

(* Only the jump is chained through the stack. *)
LEMMA OtherGlobals ==
    ASSUME NEW s, NEW g, NEW sp, Good(s, g, sp),
           NEW h \in Globals, h.jump = g.jump
    PROVE  Good(s, h, sp)
<1>1. \A k : JumpAt(s, h, k) = JumpAt(s, g, k)
  BY DEF JumpAt
<1> QED
  BY <1>1 DEF Good, Chained

(* Nor does the stack mind that a class that none of it assembles or       *)
(* defines is taken further. *)
LEMMA OtherTable ==
    ASSUME NEW s, NEW g, NEW sp, NEW sp2, Good(s, g, sp),
           \A i \in 1..Len(s) : FrameOK(s[i], sp2)
    PROVE  Good(s, g, sp2)
BY DEF Good, Founded

LEMMA PushNeutral ==
    ASSUME NEW s, NEW g, NEW sp, Good(s, g, sp),
           NEW x \in Frames, x.saved.jump = g.jump, FrameOK(x, sp),
           ~Probing(x), ~Defining(x),
           \A i \in 1..Len(s) : Pending(x) /\ Pending(s[i]) => s[i].spec # x.spec,
           NEW h \in Globals, h.jump = g.jump
    PROVE  Good(Append(s, x), h, sp)
<1>1. InContext(s, Len(s), h.jump)
  BY Current
<1>2. s \in Seq(Frames)
  BY DEF Good
<1>3. InContext(Append(s, x), Len(s) + 1, h.jump)
  BY <1>1, <1>2, ContextOfNeutral
<1>4. x.kind # "interface"
  BY DEF Probing
<1> QED
  BY <1>3, <1>4, Push

LEMMA PushOther ==
    ASSUME NEW s, NEW g, NEW sp, Good(s, g, sp),
           NEW x \in Frames, x.saved.jump = g.jump, FrameOK(x, sp),
           NEW h \in Globals,
           \/ Probing(x) /\ h.jump = Len(s) + 1
           \/ Defining(x) /\ h.jump = 0,
           \A i \in 1..Len(s) : Pending(x) /\ Pending(s[i]) => s[i].spec # x.spec,
           x.kind = "interface" => Len(s) > 0 /\ Assembling(s[Len(s)])
    PROVE  Good(Append(s, x), h, sp)
<1>1. s \in Seq(Frames)
  BY DEF Good
<1>2. InContext(Append(s, x), Len(s) + 1, h.jump)
  BY <1>1, ContextOfOther
<1> QED
  BY <1>2, Push

-----------------------------------------------------------------------------
(* The tables. *)

(* An entry of the table changes and the activations on the stack allow it.*)
LEMMA Keeps ==
    ASSUME NEW s, NEW g, NEW sp, Good(s, g, sp), sp \in [Specs -> States],
           NEW c, NEW v,
           c \in Classes => \/ sp[c] \in {"none", "queued", "wanted"}
                            \/ sp[c] = "assembling" /\ v = "assembling"
                            \/ sp[c] \in {"open", "done"} /\ v \in {"open", "done"}
    PROVE  Good(s, g, [sp EXCEPT ![c] = v])
<1> DEFINE sp2 == [sp EXCEPT ![c] = v]
<1>1. ASSUME NEW i \in 1..Len(s)
      PROVE  FrameOK(s[i], sp2)
  <2>1. FrameOK(s[i], sp)
    BY DEF Good, Founded
  <2>2. s[i].spec \in Classes => s[i].spec \in Specs
    BY DEF Specs
  <2>3. CASE s[i].spec = c /\ c \in Classes
    <3>1. sp2[c] = v
      BY <2>2, <2>3
    <3> QED
      BY <2>1, <2>3, <3>1 DEF FrameOK, Pending
  <2>4. CASE ~(s[i].spec = c /\ c \in Classes)
    <3>1. s[i].spec \in Classes => sp2[s[i].spec] = sp[s[i].spec]
      BY <2>2, <2>4
    <3> QED
      BY <2>1, <3>1 DEF FrameOK, Pending
  <2> QED
    BY <2>3, <2>4
<1> QED
  BY <1>1, OtherTable

LEMMA Advance ==
    ASSUME NEW sp, NEW r, Tables(sp, r), NEW c, NEW v,
           c \in Specs => v \in States,
           c \in Classes =>
               \/ v \in {"open", "done"}
               \/ /\ v \in {"assembling", "queued", "wanted"}
                  /\ sp[c] \in {"none", "assembling", "queued", "wanted"}
    PROVE  Tables([sp EXCEPT ![c] = v], r)
<1> DEFINE sp2 == [sp EXCEPT ![c] = v]
<1>1. sp \in [Specs -> States] /\ Counted(sp, r)
  BY DEF Tables
<1>2. sp2 \in [Specs -> States]
  BY <1>1
<1>3. ASSUME NEW d \in Classes
      PROVE  /\ r[d] \in {0, 1}
             /\ sp2[d] \in {"none", "assembling", "queued", "wanted", "open", "done"}
             /\ sp2[d] \in {"none", "assembling", "queued", "wanted"} => r[d] = 0
  <2>1. d \in Specs
    BY DEF Specs
  <2>2. CASE d = c
    BY <1>1, <2>1, <2>2 DEF Counted
  <2>3. CASE d # c
    BY <1>1, <2>1, <2>3 DEF Counted
  <2> QED
    BY <2>2, <2>3
<1> QED
  BY <1>1, <1>2, <1>3 DEF Tables, Counted

LEMMA Take ==
    ASSUME IInv, NEW s \in Specs, spec[s] \in Work
    PROVE  /\ Tables(Taken(s), Replayed(s))
           /\ Good(stack, globals, Taken(s))
           /\ s \in Classes => Taken(s)[s] = "open"
<1>1. spec \in [Specs -> States] /\ Counted(spec, replays)
  BY DEF IInv, Tables
<1>2. PICK v \in States : /\ Taken(s) = [spec EXCEPT ![s] = v]
                          /\ s \in Classes => v = "open"
  BY <1>1 DEF Taken, States
<1>3. s \in Classes => spec[s] \in {"queued", "wanted"}
  BY <1>1 DEF Work, Counted
<1>4. Good(stack, globals, Taken(s))
  <2>1. Good(stack, globals, [spec EXCEPT ![s] = v])
    <3>1. Good(stack, globals, spec)
      BY DEF IInv
    <3> QED
      BY <1>1, <1>2, <1>3, <3>1, Keeps
  <2> QED
    BY <1>2, <2>1
<1>5. Tables(Taken(s), replays)
  <2>1. Tables([spec EXCEPT ![s] = v], replays)
    <3>1. Tables(spec, replays)
      BY DEF IInv
    <3> QED
      BY <1>2, <3>1, Advance
  <2> QED
    BY <1>2, <2>1
<1>6. s \in Classes => Taken(s)[s] = "open"
  BY <1>1, <1>2
<1>7. CASE s \in Classes
  <2>1. /\ Taken(s) \in [Specs -> States]
        /\ Replayed(s) = [replays EXCEPT ![s] = @ + 1]
        /\ replays \in [Classes -> Nat] /\ replays[s] = 0
    BY <1>1, <1>3, <1>5, <1>7 DEF Tables, Replayed, Counted
  <2>2. Replayed(s) \in [Classes -> Nat]
    <3>1. replays[s] + 1 \in Nat
      BY <2>1
    <3> QED
      BY <2>1, <3>1
  <2>3. ASSUME NEW d \in Classes
        PROVE  /\ Replayed(s)[d] \in {0, 1}
               /\ Taken(s)[d] \in {"none", "assembling", "queued", "wanted", "open", "done"}
               /\ Taken(s)[d] \in {"none", "assembling", "queued", "wanted"} =>
                     Replayed(s)[d] = 0
    <3>1. CASE d = s
      BY <3>1, <2>1, <1>6
    <3>2. CASE d # s
      <4>1. Replayed(s)[d] = replays[d]
        BY <2>1, <3>2
      <4> QED
        BY <4>1, <1>5 DEF Tables, Counted
    <3> QED
      BY <3>1, <3>2
  <2> QED
    BY <1>4, <1>6, <2>1, <2>2, <2>3 DEF Tables, Counted
<1>8. CASE s \notin Classes
  BY <1>4, <1>5, <1>8 DEF Replayed
<1> QED
  BY <1>7, <1>8

-----------------------------------------------------------------------------
(* The steps. *)

LEMMA OnTop ==
    ASSUME IInv, Here # "unit"
    PROVE  /\ Len(stack) \in Nat \ {0} /\ Len(stack) \in 1..Len(stack)
           /\ Top \in Frames /\ Top = stack[Len(stack)] /\ Top.kind = Here
           /\ Top.saved \in Globals /\ FrameOK(Top, spec)
           /\ Below = SubSeq(stack, 1, Len(stack) - 1)
<1>1. stack \in Seq(Frames) /\ stack # <<>>
  BY DEF IInv, Good, Here
<1>2. Len(stack) \in Nat \ {0} /\ Len(stack) \in 1..Len(stack)
  BY <1>1
<1>3. Top \in Frames
  BY <1>1, <1>2 DEF Top
<1>4. Top.saved \in Globals
  BY <1>3 DEF Frames
<1>5. FrameOK(Top, spec)
  BY <1>2 DEF IInv, Good, Founded, Top
<1> QED
  BY <1>1, <1>2, <1>3, <1>4, <1>5 DEF Top, Here, Below

LEMMA NewFrame ==
    ASSUME NEW kind \in Kinds, NEW s \in Specs \cup {Nothing}, globals \in Globals
    PROVE  /\ Frame(kind, s) \in Frames
           /\ Frame(kind, s).kind = kind /\ Frame(kind, s).spec = s
           /\ Frame(kind, s).saved.jump = globals.jump
BY DEF Frame, Frames

LEMMA Drained ==
    ASSUME NEW frames, NEW g, NEW sp, NEW quiet \in BOOLEAN,
           Good(frames, g, sp), DrainOn(frames, g, quiet)
    PROVE  Good(stack', globals', sp)
<1>1. CASE Drains
  <2> DEFINE kind == IF quiet THEN "quiet" ELSE "drain"
             x == [kind |-> kind, spec |-> Nothing, saved |-> g]
             q == IF quiet THEN g.quiet + 1 ELSE g.quiet
             h == [g EXCEPT !.compiling = @ + 1, !.scoped = FALSE, !.quiet = q]
  <2>1. g \in Globals
    BY DEF Good
  <2>2. h \in Globals /\ h.jump = g.jump
    <3>1. g.quiet \in Int /\ g.compiling \in Int
      BY <2>1 DEF Globals
    <3>2. q \in Int /\ g.compiling + 1 \in Int
      BY <3>1
    <3> HIDE DEF q
    <3> QED
      BY <2>1, <3>2 DEF Globals
  <2>3. x \in Frames
    BY <2>1 DEF Frames, Kinds
  <2>4. x.saved.jump = g.jump /\ x.kind \in {"quiet", "drain"}
    OBVIOUS
  <2>5. stack' = Append(frames, x) /\ globals' = h
    BY <1>1 DEF DrainOn
  <2> HIDE DEF x, h
  <2>6. /\ ~Probing(x) /\ ~Defining(x) /\ ~Pending(x) /\ FrameOK(x, sp)
    BY <2>4 DEF Probing, Defining, Pending, FrameOK
  <2>7. Good(Append(frames, x), h, sp)
    BY <2>2, <2>3, <2>4, <2>6, PushNeutral
  <2> QED
    BY <2>5, <2>7
<1>2. CASE ~Drains
  BY <1>2 DEF DrainOn
<1> QED
  BY <1>1, <1>2

(* Steps of the tables' owner are elsewhere. *)
LEMMA TablesStay ==
    ASSUME IInv, UNCHANGED <<spec, replays>>,
           Good(stack', globals', spec)
    PROVE  IInv'
BY DEF IInv, Good, Chained, Founded, Tables, Counted


LEMMA Entered ==
    ASSUME IInv, NEW kind \in Kinds, NEW s \in Specs \cup {Nothing},
           NEW h \in Globals, Enter(kind, s, h), UNCHANGED <<spec, replays>>,
           kind \notin {"forward", "assemble", "interface", "item", "define"},
           \/ kind \in {"deduce", "body"} /\ h.jump = 0
           \/ kind = "probe" /\ h.jump = Len(stack) + 1
           \/ kind \notin {"deduce", "body", "probe"} /\ h.jump = globals.jump
    PROVE  IInv'
<1> DEFINE x == Frame(kind, s)
<1>1. Good(stack, globals, spec) /\ globals \in Globals
  BY DEF IInv, Good
<1>2. /\ x \in Frames /\ x.kind = kind /\ x.saved.jump = globals.jump
  BY <1>1, NewFrame
<1>3. stack' = Append(stack, x) /\ globals' = h
  BY DEF Enter
<1> HIDE DEF x
<1>4. FrameOK(x, spec) /\ ~Pending(x) /\ x.kind # "interface"
  BY <1>2 DEF FrameOK, Pending
<1>5. Good(Append(stack, x), h, spec)
  <2>1. CASE kind \in {"deduce", "body"} /\ h.jump = 0
    <3>1. Defining(x)
      BY <1>2, <2>1 DEF Defining
    <3> QED
      BY <1>1, <1>2, <1>4, <2>1, <3>1, PushOther
  <2>2. CASE kind = "probe" /\ h.jump = Len(stack) + 1
    <3>1. Probing(x)
      BY <1>2, <2>2 DEF Probing
    <3> QED
      BY <1>1, <1>2, <1>4, <2>2, <3>1, PushOther
  <2>3. CASE kind \notin {"deduce", "body", "probe"} /\ h.jump = globals.jump
    <3>1. ~Probing(x) /\ ~Defining(x)
      BY <1>2, <2>3 DEF Probing, Defining
    <3> QED
      BY <1>1, <1>2, <1>4, <2>3, <3>1, PushNeutral
  <2> QED
    BY <2>1, <2>2, <2>3
<1> QED
  BY <1>3, <1>5, TablesStay

LEMMA ProbedTyped ==
    ASSUME globals \in Globals, NEW j \in Nat
    PROVE  Probed(j) \in Globals /\ Probed(j).jump = j
<1>1. globals.probes + 1 \in Int
  <2>1. globals.probes \in Int
    BY DEF Globals
  <2> QED
    BY <2>1
<1>2. Probed(j) = [globals EXCEPT !.jump = j, !.probes = globals.probes + 1,
                                  !.scoped = FALSE]
  BY DEF Probed
<1> QED
  BY <1>1, <1>2 DEF Globals

LEMMA StepEnter ==
    ASSUME IInv,
           \/ \E kind \in {"probe", "deduce"} : Probe(kind)
           \/ Alias \/ Qualified \/ Body
           \/ \E c \in Specs : Struct(c)
    PROVE  IInv'
<1>1. globals \in Globals /\ Len(stack) + 1 \in Nat
  BY DEF IInv, Good
<1>2. ASSUME NEW kind \in {"probe", "deduce"}, Probe(kind)
      PROVE  IInv'
  <2> DEFINE j == IF kind = "deduce" THEN 0 ELSE Len(stack) + 1
  <2>1. j \in Nat
    BY <1>1
  <2> HIDE DEF j
  <2>2. Probed(j) \in Globals /\ Probed(j).jump = j
    BY <1>1, <2>1, ProbedTyped
  <2>3. Enter(kind, Nothing, Probed(j)) /\ UNCHANGED <<spec, replays>>
    BY <1>2 DEF Probe, j
  <2>4. kind \in Kinds
    BY DEF Kinds
  <2>5. \/ kind = "deduce" /\ Probed(j).jump = 0
        \/ kind = "probe" /\ Probed(j).jump = Len(stack) + 1
    BY <2>2 DEF j
  <2> QED
    BY <2>2, <2>3, <2>4, <2>5, Entered
<1>3. CASE Alias
  <2> DEFINE h == [globals EXCEPT !.alias = @ + 1]
  <2>1. h \in Globals /\ h.jump = globals.jump
    BY <1>1 DEF Globals
  <2>2. Enter("alias", Nothing, h) /\ UNCHANGED <<spec, replays>>
    BY <1>3 DEF Alias
  <2> HIDE DEF h
  <2> QED
    BY <2>1, <2>2, Entered DEF Kinds
<1>4. CASE Qualified
  <2> DEFINE h == [globals EXCEPT !.alias = 0]
  <2>1. h \in Globals /\ h.jump = globals.jump
    BY <1>1 DEF Globals
  <2>2. Enter("qualified", Nothing, h) /\ UNCHANGED <<spec, replays>>
    BY <1>4 DEF Qualified
  <2> HIDE DEF h
  <2> QED
    BY <2>1, <2>2, Entered DEF Kinds
<1>5. CASE Body
  <2> DEFINE h == [globals EXCEPT !.jump = 0, !.scoped = TRUE]
  <2>1. h \in Globals /\ h.jump = 0
    BY <1>1 DEF Globals
  <2>2. Enter("body", Nothing, h) /\ UNCHANGED <<spec, replays>>
    BY <1>5 DEF Body
  <2> HIDE DEF h
  <2> QED
    BY <2>1, <2>2, Entered DEF Kinds
<1>6. ASSUME NEW c \in Specs, Struct(c)
      PROVE  IInv'
  <2> DEFINE h == [globals EXCEPT !.classes = @ + 1]
  <2>1. h \in Globals /\ h.jump = globals.jump
    BY <1>1 DEF Globals
  <2>2. Enter("struct", c, h) /\ UNCHANGED <<spec, replays>>
    BY <1>6 DEF Struct
  <2> HIDE DEF h
  <2> QED
    BY <2>1, <2>2, Entered DEF Kinds
<1> QED
  BY <1>2, <1>3, <1>4, <1>5, <1>6

(* What a probe puts back, and whose jump it is. *)
LEMMA RestoredTyped ==
    ASSUME globals \in Globals, NEW x \in Frames
    PROVE  Restored(x) \in Globals /\ Restored(x).jump = x.saved.jump
<1>1. x.saved \in Globals
  BY DEF Frames
<1> QED
  BY <1>1 DEF Restored, Globals

LEMMA StepProbeEnds == IInv /\ ProbeEnds => IInv'
<1> SUFFICES ASSUME IInv, ProbeEnds
             PROVE  IInv'
  OBVIOUS
<1>1. Here # "unit"
  BY DEF ProbeEnds
<1>2. Good(stack, globals, spec) /\ globals \in Globals
  BY DEF IInv, Good
<1>3. Restored(Top) \in Globals /\ Restored(Top).jump = stack[Len(stack)].saved.jump
  BY <1>1, <1>2, OnTop, RestoredTyped
<1>4. Good(Below, Restored(Top), spec)
  BY <1>1, <1>2, <1>3, OnTop, Pop
<1> QED
  BY <1>4, TablesStay DEF ProbeEnds

LEMMA StepBodyEnds == IInv /\ BodyEnds => IInv'
<1> SUFFICES ASSUME IInv, BodyEnds
             PROVE  IInv'
  OBVIOUS
<1> DEFINE h == [globals EXCEPT !.jump = Top.saved.jump, !.scoped = FALSE]
<1>1. Here # "unit"
  BY DEF BodyEnds
<1>2. Good(stack, globals, spec) /\ globals \in Globals
  BY DEF IInv, Good
<1>3. Top.saved \in Globals /\ Top = stack[Len(stack)]
  BY <1>1, OnTop
<1>4. h \in Globals /\ h.jump = stack[Len(stack)].saved.jump
  BY <1>2, <1>3 DEF Globals
<1>5. stack' = Below /\ globals' = h /\ UNCHANGED <<spec, replays>>
  BY DEF BodyEnds
<1> HIDE DEF h
<1>6. Good(Below, h, spec)
  BY <1>1, <1>2, <1>4, OnTop, Pop
<1> QED
  BY <1>5, <1>6, TablesStay

(* The activations that leave the jump alone. *)
LEMMA Left ==
    ASSUME IInv, NEW h \in Globals, h.jump = globals.jump,
           Here \in {"alias", "qualified", "drain", "quiet", "struct", "forward"}
    PROVE  Good(Below, h, spec)
<1>1. Here # "unit"
  OBVIOUS
<1>2. Good(stack, globals, spec)
  BY DEF IInv
<1>3. ~Probing(stack[Len(stack)]) /\ ~Defining(stack[Len(stack)])
  BY <1>1, OnTop DEF Probing, Defining
<1>4. Len(stack) > 0 /\ Below = SubSeq(stack, 1, Len(stack) - 1)
  <2>1. Len(stack) \in Nat \ {0}
    BY <1>1, OnTop
  <2> QED
    BY <2>1 DEF Below
<1> QED
  BY <1>2, <1>3, <1>4, Drop

LEMMA StepNameEnds == IInv /\ NameEnds => IInv'
<1> SUFFICES ASSUME IInv, NameEnds
             PROVE  IInv'
  OBVIOUS
<1> DEFINE q == IF Here = "alias" THEN globals.alias - 1 ELSE Top.saved.alias
           h == [globals EXCEPT !.alias = q]
<1>1. Here \in {"alias", "qualified"} /\ Here # "unit"
  BY DEF NameEnds
<1>2. globals \in Globals /\ Top.saved \in Globals
  BY <1>1, OnTop DEF IInv, Good
<1>3. q \in Int
  <2>1. globals.alias \in Int /\ Top.saved.alias \in Int
    BY <1>2 DEF Globals
  <2> QED
    BY <2>1
<1>4. stack' = Below /\ globals' = h /\ UNCHANGED <<spec, replays>>
  BY DEF NameEnds
<1> HIDE DEF q
<1>5. h \in Globals /\ h.jump = globals.jump
  BY <1>2, <1>3 DEF Globals
<1> HIDE DEF h
<1> QED
  BY <1>1, <1>4, <1>5, Left, TablesStay

LEMMA StepDrainEnds == IInv /\ DrainEnds => IInv'
<1> SUFFICES ASSUME IInv, DrainEnds
             PROVE  IInv'
  OBVIOUS
<1> DEFINE q == IF Here = "quiet" THEN globals.quiet - 1 ELSE globals.quiet
           h == [globals EXCEPT !.compiling = @ - 1,
                                !.scoped = Top.saved.scoped, !.quiet = q]
<1>1. Here \in {"drain", "quiet"} /\ Here # "unit"
  BY DEF DrainEnds
<1>2. globals \in Globals /\ Top.saved \in Globals
  BY <1>1, OnTop DEF IInv, Good
<1>3. q \in Int /\ globals.compiling - 1 \in Int /\ Top.saved.scoped \in BOOLEAN
  <2>1. globals.quiet \in Int /\ globals.compiling \in Int
    BY <1>2 DEF Globals
  <2>2. Top.saved.scoped \in BOOLEAN
    BY <1>2 DEF Globals
  <2> QED
    BY <2>1, <2>2
<1>4. stack' = Below /\ globals' = h /\ UNCHANGED <<spec, replays>>
  BY DEF DrainEnds
<1> HIDE DEF q
<1>5. h \in Globals /\ h.jump = globals.jump
  BY <1>2, <1>3 DEF Globals
<1> HIDE DEF h
<1> QED
  BY <1>1, <1>4, <1>5, Left, TablesStay


LEMMA InvariantAgain ==
    ASSUME Good(stack', globals', spec'), Tables(spec', replays')
    PROVE  IInv'
BY DEF IInv, Good, Chained, Founded, Tables, Counted

(* The globals that a replay starts with. *)
LEMMA ClearedTyped ==
    ASSUME globals \in Globals
    PROVE  LET g == [globals EXCEPT !.jump = 0, !.classes = 0]
               h == [globals EXCEPT !.jump = 0, !.classes = 0, !.scoped = FALSE]
           IN g \in Globals /\ g.jump = 0 /\ h \in Globals /\ h.jump = 0
<1>1. ASSUME NEW c \in Int, NEW b \in BOOLEAN
      PROVE  LET g == [globals EXCEPT !.jump = 0, !.classes = c]
                 h == [globals EXCEPT !.jump = 0, !.classes = c, !.scoped = b]
             IN g \in Globals /\ g.jump = 0 /\ h \in Globals /\ h.jump = 0
  BY DEF Globals
<1>2. 0 \in Int /\ FALSE \in BOOLEAN
  OBVIOUS
<1> QED
  BY <1>1, <1>2

(* The replay of a definition that has been taken from the worklist.       *)
LEMMA ReplayEntered ==
    ASSUME IInv, NEW kind \in {"item", "define"}, NEW s \in Specs,
           spec[s] \in Work, NEW h \in Globals, h.jump = 0,
           Enter(kind, s, h), spec' = Taken(s), replays' = Replayed(s)
    PROVE  IInv'
<1> DEFINE x == Frame(kind, s)
<1>1. /\ Tables(Taken(s), Replayed(s))
      /\ Good(stack, globals, Taken(s))
      /\ s \in Classes => Taken(s)[s] = "open"
  BY Take
<1>2. globals \in Globals /\ kind \in Kinds
  BY DEF IInv, Good, Kinds
<1>3. /\ x \in Frames /\ x.kind = kind /\ x.spec = s
      /\ x.saved.jump = globals.jump
  BY <1>2, NewFrame
<1>4. stack' = Append(stack, x) /\ globals' = h
  BY DEF Enter
<1> HIDE DEF x
<1>5. /\ FrameOK(x, Taken(s)) /\ Defining(x)
      /\ ~Pending(x) /\ x.kind # "interface"
  BY <1>1, <1>3 DEF FrameOK, Pending, Defining
<1>6. Good(Append(stack, x), h, Taken(s))
  BY <1>1, <1>3, <1>5, PushOther
<1> QED
  BY <1>1, <1>4, <1>6, InvariantAgain

LEMMA StepItem == \A s \in Specs : IInv /\ Item(s) => IInv'
<1> SUFFICES ASSUME NEW s \in Specs, IInv, Item(s)
             PROVE  IInv'
  OBVIOUS
<1> DEFINE h == [globals EXCEPT !.jump = 0, !.classes = 0]
<1>1. globals \in Globals
  BY DEF IInv, Good
<1>2. h \in Globals /\ h.jump = 0
  BY <1>1, ClearedTyped
<1>3. /\ spec[s] \in Work /\ Enter("item", s, h)
      /\ spec' = Taken(s) /\ replays' = Replayed(s)
  BY DEF Item
<1> HIDE DEF h
<1> QED
  BY <1>2, <1>3, ReplayEntered

(* A class that was being defined is done. *)
LEMMA Defined ==
    ASSUME IInv, Here \in {"item", "define"}, NEW h \in Globals,
           h.jump = Top.saved.jump, NEW v,
           Top.spec \in Specs => v \in States,
           Top.spec \in Classes => v \in {"open", "done"},
           stack' = Below, globals' = h,
           spec' = [spec EXCEPT ![Top.spec] = v], replays' = replays
    PROVE  IInv'
<1>1. Here # "unit"
  OBVIOUS
<1>2. Good(stack, globals, spec) /\ Tables(spec, replays)
  BY DEF IInv
<1>3. h.jump = stack[Len(stack)].saved.jump
  BY <1>1, OnTop
<1>4. Good(Below, h, spec)
  BY <1>1, <1>2, <1>3, OnTop, Pop
<1>5. Top.spec \in Classes => spec[Top.spec] \in {"open", "done"}
  BY <1>1, OnTop DEF FrameOK
<1>6. Good(Below, h, [spec EXCEPT ![Top.spec] = v])
  <2>1. spec \in [Specs -> States]
    BY <1>2 DEF Tables
  <2> QED
    BY <2>1, <1>4, <1>5, Keeps
<1>7. Tables([spec EXCEPT ![Top.spec] = v], replays)
  BY <1>2, Advance
<1> QED
  BY <1>6, <1>7, InvariantAgain

LEMMA StepItemEnds == IInv /\ ItemEnds => IInv'
<1> SUFFICES ASSUME IInv, ItemEnds
             PROVE  IInv'
  OBVIOUS
<1> DEFINE h == [globals EXCEPT !.jump = Top.saved.jump,
                                !.classes = Top.saved.classes]
           v == IF spec[Top.spec] = "open" THEN "done" ELSE spec[Top.spec]
<1>1. Here \in {"item", "define"} /\ Here # "unit"
  BY DEF ItemEnds
<1>2. globals \in Globals /\ spec \in [Specs -> States]
  BY DEF IInv, Good, Tables
<1>3. Top.saved \in Globals /\ FrameOK(Top, spec) /\ Top.kind = Here
  BY <1>1, OnTop
<1>4. h \in Globals /\ h.jump = Top.saved.jump
  BY <1>2, <1>3 DEF Globals
<1>5. Top.spec \in Specs => v \in States
  BY <1>2 DEF States
<1>6. Top.spec \in Classes => v \in {"open", "done"}
  BY <1>1, <1>3 DEF FrameOK
<1>7. /\ stack' = Below /\ globals' = h /\ replays' = replays
      /\ spec' = [spec EXCEPT ![Top.spec] = v]
  BY DEF ItemEnds
<1> HIDE DEF h, v
<1> QED
  BY <1>1, <1>4, <1>5, <1>6, <1>7, Defined

LEMMA StepDefineEnds == IInv /\ DefineEnds => IInv'
<1> SUFFICES ASSUME IInv, DefineEnds
             PROVE  IInv'
  OBVIOUS
<1> DEFINE h == [globals EXCEPT !.jump = Top.saved.jump,
                                !.classes = Top.saved.classes,
                                !.scoped = Top.saved.scoped]
<1>1. Here \in {"item", "define"} /\ Here # "unit"
  BY DEF DefineEnds
<1>2. globals \in Globals
  BY DEF IInv, Good
<1>3. Top.saved \in Globals
  BY <1>1, OnTop
<1>4. h \in Globals /\ h.jump = Top.saved.jump
  BY <1>2, <1>3 DEF Globals
<1>5. /\ stack' = Below /\ globals' = h /\ replays' = replays
      /\ spec' = [spec EXCEPT ![Top.spec] = "done"]
  BY DEF DefineEnds
<1>6. "done" \in States
  BY DEF States
<1> HIDE DEF h
<1> QED
  BY <1>1, <1>4, <1>5, <1>6, Defined

LEMMA StepDefineNow == \A c \in Classes : IInv /\ DefineNow(c) => IInv'
<1> SUFFICES ASSUME NEW c \in Classes, IInv, DefineNow(c)
             PROVE  IInv'
  OBVIOUS
<1>1. Good(stack, globals, spec) /\ globals \in Globals /\ c \in Specs
  BY DEF IInv, Good, Specs
<1>2. CASE Drains
  <2> DEFINE sp == [spec EXCEPT ![c] = "wanted"]
  <2>1. /\ DrainOn(stack, globals, TRUE)
        /\ spec' = sp /\ replays' = replays /\ spec[c] \in {"queued", "wanted"}
    BY <1>2 DEF DefineNow
  <2>2. spec \in [Specs -> States] /\ Tables(spec, replays) /\ "wanted" \in States
    BY DEF IInv, Tables, States
  <2>3. Good(stack, globals, sp)
    BY <1>1, <2>1, <2>2, Keeps
  <2>4. Tables(sp, replays)
    BY <2>1, <2>2, Advance
  <2> HIDE DEF sp
  <2>5. Good(stack', globals', sp)
    BY <2>1, <2>3, <1>1, Drained
  <2> QED
    BY <2>1, <2>4, <2>5, InvariantAgain
<1>3. CASE ~Drains
  <2> DEFINE h == [globals EXCEPT !.jump = 0, !.classes = 0, !.scoped = FALSE]
  <2>1. h \in Globals /\ h.jump = 0
    BY <1>1, ClearedTyped
  <2>2. /\ Enter("define", c, h)
        /\ spec' = Taken(c) /\ replays' = Replayed(c)
    BY <1>3 DEF DefineNow
  <2>3. spec[c] \in Work
    BY DEF DefineNow, Work
  <2> HIDE DEF h
  <2> QED
    BY <2>1, <2>2, <2>3, <1>1, ReplayEntered
<1> QED
  BY <1>2, <1>3

LEMMA StepStructEnds == IInv /\ StructEnds => IInv'
<1> SUFFICES ASSUME IInv, StructEnds
             PROVE  IInv'
  OBVIOUS
<1> DEFINE h == [globals EXCEPT !.classes = @ - 1]
           v == IF Top.spec = Source THEN "done" ELSE spec[Top.spec]
           sp == [spec EXCEPT ![Top.spec] = v]
<1>1. Here = "struct" /\ Here # "unit"
  BY DEF StructEnds
<1>2. /\ globals \in Globals /\ Good(stack, globals, spec)
      /\ spec \in [Specs -> States] /\ Tables(spec, replays)
  BY DEF IInv, Good, Tables
<1>3. h \in Globals /\ h.jump = globals.jump
  BY <1>2 DEF Globals
<1>4. spec' = sp /\ replays' = replays
  BY DEF StructEnds
<1>5. \/ DrainOn(Below, h, TRUE)
      \/ stack' = Below /\ globals' = h
  BY DEF StructEnds
<1> HIDE DEF h
<1>6. Good(Below, h, spec)
  BY <1>1, <1>3, Left
<1>7. sp = IF Top.spec = Source THEN [spec EXCEPT ![Source] = "done"] ELSE spec
  BY <1>2
<1> HIDE DEF v, sp
<1>8. Source \notin Classes
  BY ConstantsAssumption
<1>9. Good(Below, h, sp) /\ Tables(sp, replays)
  <2>1. CASE Top.spec = Source
    <3>1. Good(Below, h, [spec EXCEPT ![Source] = "done"])
      BY <1>2, <1>6, <1>8, Keeps
    <3>2. "done" \in States
      BY DEF States
    <3>3. Tables([spec EXCEPT ![Source] = "done"], replays)
      BY <1>2, <1>8, <3>2, Advance
    <3> QED
      BY <2>1, <3>1, <3>3, <1>7
  <2>2. CASE Top.spec # Source
    BY <2>2, <1>2, <1>6, <1>7
  <2> QED
    BY <2>1, <2>2
<1>10. Good(stack', globals', sp)
  BY <1>5, <1>9, Drained
<1> QED
  BY <1>4, <1>9, <1>10, InvariantAgain


(* No activation assembles a class that is none yet, and only one the same.*)
LEMMA OneAssembles ==
    ASSUME NEW s, NEW g, NEW sp, Good(s, g, sp), NEW c \in Classes
    PROVE  /\ sp[c] # "assembling" =>
                 \A i \in 1..Len(s) : ~(Pending(s[i]) /\ s[i].spec = c)
           /\ \A p \in 1..Len(s) : Pending(s[p]) /\ s[p].spec = c =>
                 \A i \in 1..(p - 1) : ~(Pending(s[i]) /\ s[i].spec = c)
<1>1. Len(s) \in Nat
  BY DEF Good
<1>2. ASSUME NEW p \in 1..Len(s), NEW i \in 1..(p - 1)
      PROVE  i \in 1..Len(s) /\ i # p
  BY <1>1
<1> QED
  BY <1>2 DEF Good, Founded, FrameOK

(* The activation that assembles a class begins, with or without a drain   *)
(* before it. *)
LEMMA PushAssembly ==
    ASSUME NEW s, NEW sp, Good(s, globals, sp),
           NEW c \in Classes, sp[c] = "assembling",
           \A i \in 1..Len(s) : ~(Pending(s[i]) /\ s[i].spec = c),
           NEW kind \in {"forward", "assemble"}
    PROVE  LET h == IF kind = "forward" THEN globals ELSE OutOfContext
           IN Good(Append(s, Frame(kind, c)), h, sp)
<1> DEFINE x == Frame(kind, c)
<1>1. globals \in Globals /\ c \in Specs /\ kind \in Kinds
  BY DEF Good, Specs, Kinds
<1>2. /\ x \in Frames /\ x.kind = kind /\ x.spec = c
      /\ x.saved.jump = globals.jump
  BY <1>1, NewFrame
<1>3. OutOfContext \in Globals /\ OutOfContext.jump = 0
  BY <1>1 DEF OutOfContext, Globals
<1> HIDE DEF x
<1>4. FrameOK(x, sp) /\ x.kind # "interface"
  BY <1>2 DEF FrameOK, Pending
<1>5. \A i \in 1..Len(s) : Pending(x) /\ Pending(s[i]) => s[i].spec # x.spec
  BY <1>2
<1>6. CASE kind = "forward"
  <2>1. ~Probing(x) /\ ~Defining(x)
    BY <1>2, <1>6 DEF Probing, Defining
  <2>2. Good(Append(s, x), globals, sp)
    BY <1>1, <1>2, <1>4, <1>5, <2>1, PushNeutral
  <2> QED
    BY <1>6, <2>2 DEF x
<1>7. CASE kind = "assemble"
  <2>1. Defining(x)
    BY <1>2, <1>7 DEF Defining
  <2>2. Good(Append(s, x), OutOfContext, sp)
    BY <1>2, <1>3, <1>4, <1>5, <2>1, PushOther
  <2> QED
    BY <1>7, <2>2 DEF x
<1> QED
  BY <1>6, <1>7

LEMMA StepInstantiateClass ==
    \A c \in Classes : IInv /\ InstantiateClass(c) => IInv'
<1> SUFFICES ASSUME NEW c \in Classes, IInv, InstantiateClass(c)
             PROVE  IInv'
  OBVIOUS
<1> DEFINE sp == [spec EXCEPT ![c] = "assembling"]
<1>1. /\ spec[c] = "none" /\ spec' = sp /\ replays' = replays
      /\ IF Drains THEN DrainOn(Append(stack, Frame("forward", c)), globals, TRUE)
         ELSE Enter("assemble", c, OutOfContext)
  BY DEF InstantiateClass
<1>2. /\ Good(stack, globals, spec) /\ Tables(spec, replays)
      /\ spec \in [Specs -> States] /\ c \in Specs
  BY DEF IInv, Tables, Specs
<1>3. sp[c] = "assembling"
  BY <1>2
<1>4. Good(stack, globals, sp)
  BY <1>1, <1>2, Keeps
<1>5. Tables(sp, replays)
  <2>1. "assembling" \in States
    BY DEF States
  <2> QED
    BY <1>1, <1>2, <2>1, Advance
<1>6. \A i \in 1..Len(stack) : ~(Pending(stack[i]) /\ stack[i].spec = c)
  BY <1>1, <1>2, OneAssembles
<1> HIDE DEF sp
<1>7. CASE Drains
  <2>1. Good(Append(stack, Frame("forward", c)), globals, sp)
    BY <1>3, <1>4, <1>6, PushAssembly
  <2>2. Good(stack', globals', sp)
    BY <1>1, <1>7, <2>1, Drained
  <2> QED
    BY <1>1, <1>5, <2>2, InvariantAgain
<1>8. CASE ~Drains
  <2>1. Good(Append(stack, Frame("assemble", c)), OutOfContext, sp)
    BY <1>3, <1>4, <1>6, PushAssembly
  <2>2. stack' = Append(stack, Frame("assemble", c)) /\ globals' = OutOfContext
    BY <1>1, <1>8 DEF Enter
  <2> QED
    BY <1>1, <1>5, <2>1, <2>2, InvariantAgain
<1> QED
  BY <1>7, <1>8

LEMMA StepForwarded == IInv /\ Forwarded => IInv'
<1> SUFFICES ASSUME IInv, Forwarded
             PROVE  IInv'
  OBVIOUS
<1> DEFINE c == Top.spec
           n == Len(stack)
<1>1. Here = "forward" /\ Here # "unit"
  BY DEF Forwarded
<1>2. /\ n \in Nat \ {0} /\ n \in 1..n /\ Top = stack[n]
      /\ c \in Classes /\ spec[c] = "assembling" /\ Pending(Top)
      /\ Below = SubSeq(stack, 1, n - 1)
  BY <1>1, OnTop DEF FrameOK, Pending
<1>3. Good(stack, globals, spec) /\ globals \in Globals /\ stack \in Seq(Frames)
  BY DEF IInv, Good
<1>4. Good(Below, globals, spec)
  BY <1>1, <1>3, Left
<1>5. \A i \in 1..(n - 1) : ~(Pending(stack[i]) /\ stack[i].spec = c)
  BY <1>2, <1>3, OneAssembles
<1>6. Len(Below) = n - 1 /\ \A i \in 1..(n - 1) : Below[i] = stack[i]
  BY <1>2, <1>3, CutOff
<1>7. \A i \in 1..Len(Below) : ~(Pending(Below[i]) /\ Below[i].spec = c)
  BY <1>5, <1>6
<1>8. Good(Append(Below, Frame("assemble", c)), OutOfContext, spec)
  <2>1. c \in Classes /\ spec[c] = "assembling"
    BY <1>2
  <2> HIDE DEF c
  <2> QED
    BY <2>1, <1>4, <1>7, PushAssembly
<1>9. /\ stack' = Append(Below, Frame("assemble", c)) /\ globals' = OutOfContext
      /\ UNCHANGED <<spec, replays>>
  BY DEF Forwarded, Assembled, Frame
<1> QED
  BY <1>8, <1>9, TablesStay

LEMMA StepClassAssembled == IInv /\ ClassAssembled => IInv'
<1> SUFFICES ASSUME IInv, ClassAssembled
             PROVE  IInv'
  OBVIOUS
<1> DEFINE c == Top.spec
           n == Len(stack)
           h == [globals EXCEPT !.jump = Top.saved.jump]
           sp == [spec EXCEPT ![c] = "queued"]
<1>1. Here = "assemble" /\ Here # "unit" /\ c \in Classes
  BY DEF ClassAssembled
<1>2. /\ spec' = sp /\ replays' = replays /\ DrainOn(Below, h, TRUE)
  BY DEF ClassAssembled
<1>3. /\ n \in Nat \ {0} /\ n \in 1..n /\ Top = stack[n]
      /\ Below = SubSeq(stack, 1, n - 1) /\ Top.saved \in Globals
      /\ spec[c] = "assembling" /\ Pending(Top)
  BY <1>1, OnTop DEF FrameOK, Pending
<1>4. /\ Good(stack, globals, spec) /\ Tables(spec, replays)
      /\ globals \in Globals /\ stack \in Seq(Frames)
      /\ spec \in [Specs -> States]
  BY DEF IInv, Good, Tables
<1>5. h \in Globals /\ h.jump = stack[n].saved.jump
  BY <1>3, <1>4 DEF Globals
<1> HIDE DEF h
<1>6. Good(Below, h, spec)
  BY <1>3, <1>4, <1>5, Pop
<1>7. \A i \in 1..(n - 1) : ~(Pending(stack[i]) /\ stack[i].spec = c)
  BY <1>1, <1>3, <1>4, OneAssembles
<1>8. Len(Below) = n - 1 /\ \A i \in 1..(n - 1) : Below[i] = stack[i]
  BY <1>3, <1>4, CutOff
<1>9. ASSUME NEW i \in 1..Len(Below)
      PROVE  FrameOK(Below[i], sp)
  <2>1. FrameOK(Below[i], spec)
    BY <1>6 DEF Good, Founded
  <2>2. ~(Pending(Below[i]) /\ Below[i].spec = c)
    BY <1>7, <1>8
  <2>3. Below[i].spec \in Classes /\ Below[i].spec # c =>
           sp[Below[i].spec] = spec[Below[i].spec]
    BY <1>4 DEF Specs
  <2> QED
    BY <2>1, <2>2, <2>3, <1>3 DEF FrameOK, Pending
<1>10. Good(Below, h, sp)
  BY <1>6, <1>9, OtherTable
<1>11. Tables(sp, replays)
  <2>1. "queued" \in States
    BY DEF States
  <2> QED
    BY <1>3, <1>4, <2>1, Advance
<1> HIDE DEF sp
<1>12. Good(stack', globals', sp)
  BY <1>2, <1>10, Drained
<1> QED
  BY <1>2, <1>11, <1>12, InvariantAgain

LEMMA StepInstantiateFunction ==
    \A x \in Functions : IInv /\ InstantiateFunction(x) => IInv'
<1> SUFFICES ASSUME NEW y \in Functions, IInv, InstantiateFunction(y)
             PROVE  IInv'
  OBVIOUS
<1> DEFINE v == IF Materialize THEN "demanded" ELSE "assembling"
           x == Frame("assemble", y)
<1>1. /\ Enter("assemble", y, globals)
      /\ spec' = [spec EXCEPT ![y] = v] /\ replays' = replays
  BY DEF InstantiateFunction
<1>2. v \in States
  BY DEF States
<1> HIDE DEF v
<1>3. /\ Good(stack, globals, spec) /\ Tables(spec, replays)
      /\ globals \in Globals /\ spec \in [Specs -> States]
      /\ y \in Specs /\ y \notin Classes
  BY ConstantsAssumption DEF IInv, Good, Tables, Specs
<1>4. Good(stack, globals, [spec EXCEPT ![y] = v])
  BY <1>3, Keeps
<1>5. Tables([spec EXCEPT ![y] = v], replays)
  BY <1>2, <1>3, Advance
<1>6. /\ x \in Frames /\ x.kind = "assemble" /\ x.spec = y
      /\ x.saved.jump = globals.jump
  BY <1>3, NewFrame DEF Kinds
<1>7. stack' = Append(stack, x) /\ globals' = globals
  BY <1>1 DEF Enter
<1> HIDE DEF x
<1>8. /\ FrameOK(x, [spec EXCEPT ![y] = v])
      /\ ~Pending(x) /\ ~Probing(x) /\ ~Defining(x)
  BY <1>3, <1>6 DEF FrameOK, Pending, Probing, Defining
<1>9. Good(Append(stack, x), globals, [spec EXCEPT ![y] = v])
  BY <1>3, <1>4, <1>6, <1>8, PushNeutral
<1> QED
  BY <1>1, <1>5, <1>7, <1>9, InvariantAgain

LEMMA StepFunctionAssembled == IInv /\ FunctionAssembled => IInv'
<1> SUFFICES ASSUME IInv, FunctionAssembled
             PROVE  IInv'
  OBVIOUS
<1> DEFINE y == Top.spec
           n == Len(stack)
<1>1. Here = "assemble" /\ Here # "unit" /\ y \in Functions
  BY DEF FunctionAssembled
<1>2. /\ n \in Nat \ {0} /\ n \in 1..n /\ Top = stack[n]
      /\ Below = SubSeq(stack, 1, n - 1) /\ Top.saved \in Globals
      /\ Top.kind = "assemble"
  BY <1>1, OnTop
<1>3. /\ Good(stack, globals, spec) /\ Tables(spec, replays)
      /\ globals \in Globals /\ spec \in [Specs -> States]
      /\ y \in Specs /\ y \notin Classes
  BY <1>1, ConstantsAssumption DEF IInv, Good, Tables, Specs
<1>4. CASE Drains
  <2> DEFINE v == IF spec[y] = "demanded" THEN "body" ELSE "queued"
             h == [globals EXCEPT !.jump = Top.saved.jump]
  <2>1. /\ stack' = Below /\ globals' = h /\ replays' = replays
        /\ spec' = [spec EXCEPT ![y] = v]
    BY <1>4 DEF FunctionAssembled
  <2>2. v \in States
    BY DEF States
  <2>3. h \in Globals /\ h.jump = stack[n].saved.jump
    BY <1>2, <1>3 DEF Globals
  <2> HIDE DEF v, h
  <2>4. Good(Below, h, spec)
    BY <1>2, <1>3, <2>3, Pop
  <2>5. Good(Below, h, [spec EXCEPT ![y] = v])
    BY <1>3, <2>4, Keeps
  <2>6. Tables([spec EXCEPT ![y] = v], replays)
    BY <1>3, <2>2, Advance
  <2> QED
    BY <2>1, <2>5, <2>6, InvariantAgain
<1>5. CASE ~Drains
  <2> DEFINE x == Frame("interface", y)
             h == Probed(n + 1)
  <2>1. Enter("interface", y, h) /\ UNCHANGED <<spec, replays>>
    BY <1>5 DEF FunctionAssembled
  <2>2. stack' = Append(stack, x) /\ globals' = h
    BY <2>1 DEF Enter
  <2>3. h \in Globals /\ h.jump = n + 1
    BY <1>2, <1>3, ProbedTyped
  <2>4. /\ x \in Frames /\ x.kind = "interface" /\ x.spec = y
        /\ x.saved.jump = globals.jump
    BY <1>3, NewFrame DEF Kinds
  <2> HIDE DEF x, h
  <2>5. FrameOK(x, spec) /\ ~Pending(x) /\ Probing(x)
    BY <1>1, <2>4 DEF FrameOK, Pending, Probing
  <2>6. n > 0 /\ Assembling(stack[n])
    BY <1>1, <1>2 DEF Assembling
  <2>7. Good(Append(stack, x), h, spec)
    BY <1>3, <2>3, <2>4, <2>5, <2>6, PushOther
  <2> QED
    BY <2>1, <2>2, <2>7, TablesStay
<1> QED
  BY <1>4, <1>5


LEMMA StepInterfaceEnds == IInv /\ InterfaceEnds => IInv'
<1> SUFFICES ASSUME IInv, InterfaceEnds
             PROVE  IInv'
  OBVIOUS
<1> DEFINE y == Top.spec
           n == Len(stack)
           h == Restored(Top)
           v == IF spec[y] = "demanded" THEN "body" ELSE "declared"
<1>1. Here = "interface" /\ Here # "unit"
  BY DEF InterfaceEnds
<1>2. /\ stack' = SubSeq(stack, 1, n - 2) /\ globals' = h
      /\ spec' = [spec EXCEPT ![y] = v] /\ replays' = replays
  BY DEF InterfaceEnds
<1>3. /\ n \in Nat \ {0} /\ n \in 1..n /\ Top = stack[n] /\ Top \in Frames
      /\ Top.kind = "interface" /\ y \in Functions
  BY <1>1, OnTop DEF FrameOK
<1>4. /\ Good(stack, globals, spec) /\ Tables(spec, replays)
      /\ globals \in Globals /\ spec \in [Specs -> States]
      /\ y \in Specs /\ y \notin Classes
  BY <1>3, ConstantsAssumption DEF IInv, Good, Tables, Specs
<1>5. h \in Globals /\ h.jump = stack[n].saved.jump
  BY <1>3, <1>4, RestoredTyped
<1>6. n > 1 /\ Assembling(stack[n - 1])
  BY <1>3, <1>4 DEF Good, Founded
<1>7. ~Probing(stack[n - 1]) /\ ~Defining(stack[n - 1])
  BY <1>6, ConstantsAssumption DEF Assembling, Probing, Defining
<1>8. v \in States
  BY DEF States
<1> HIDE DEF h, v, y
<1>9. InContext(stack, n - 1, h.jump)
  BY <1>3, <1>4, <1>5, Pop
<1>10. n - 1 \in Nat \ {0} /\ n - 1 \in 1..n /\ (n - 1) - 1 = n - 2
  BY <1>3, <1>6
<1>11. InContext(stack, (n - 1) - 1, h.jump)
  BY <1>7, <1>9, <1>10, ContextBelow
<1>12. Good(SubSeq(stack, 1, (n - 1) - 1), h, spec)
  BY <1>4, <1>5, <1>10, <1>11, Cut
<1>13. Good(stack', h, [spec EXCEPT ![y] = v])
  BY <1>2, <1>4, <1>10, <1>12, Keeps
<1>14. Tables([spec EXCEPT ![y] = v], replays)
  BY <1>4, <1>8, Advance
<1> QED
  BY <1>2, <1>13, <1>14, InvariantAgain

LEMMA LastReplaced ==
    ASSUME NEW s \in Seq(Frames), NEW m \in 1..Len(s), NEW x \in Frames
    PROVE  [SubSeq(s, 1, m) EXCEPT ![m] = x] = Append(SubSeq(s, 1, m - 1), x)
<1> DEFINE rest == SubSeq(s, 1, m)
           u == SubSeq(s, 1, m - 1)
           t == [rest EXCEPT ![m] = x]
           w == Append(u, x)
<1>1. m \in Nat \ {0} /\ Len(s) \in Nat /\ m <= Len(s)
  OBVIOUS
<1>2. /\ rest \in Seq(Frames) /\ Len(rest) = m
      /\ \A i \in 1..m : rest[i] = s[i]
  BY <1>1
<1>3. /\ u \in Seq(Frames) /\ Len(u) = m - 1
      /\ \A i \in 1..(m - 1) : u[i] = s[i]
  BY <1>1, CutOff
<1> HIDE DEF rest, u
<1>4. rest \in [1..m -> Frames]
  BY <1>2
<1>5. t \in [1..m -> Frames] /\ \A i \in 1..m : t[i] = IF i = m THEN x ELSE s[i]
  BY <1>1, <1>2, <1>4
<1>6. /\ w \in Seq(Frames) /\ Len(w) = m
      /\ \A i \in 1..(m - 1) : w[i] = u[i]
      /\ w[m] = x
  BY <1>1, <1>3
<1> HIDE DEF t, w
<1>7. \A i \in 1..m : i = m \/ i \in 1..(m - 1)
  BY <1>1
<1>8. w \in [1..m -> Frames] /\ \A i \in 1..m : w[i] = IF i = m THEN x ELSE s[i]
  BY <1>3, <1>6, <1>7
<1>9. t = w
  BY <1>5, <1>8
<1> QED
  BY <1>9 DEF t, w, rest, u

(* The function whose interface is invalid takes the place of the one that *)
(* was being assembled. *)
LEMMA MarkedInvalid ==
    ASSUME NEW s \in Seq(Frames), NEW m \in 1..Len(s), NEW rest,
           rest = SubSeq(s, 1, m)
    PROVE  LET x == [s[m] EXCEPT !.kind = "invalid"]
           IN /\ x \in Frames /\ x.kind = "invalid" /\ x.saved = s[m].saved
              /\ [rest EXCEPT ![Len(rest)].kind = "invalid"] =
                    Append(SubSeq(s, 1, m - 1), x)
<1> DEFINE x == [s[m] EXCEPT !.kind = "invalid"]
<1>1. s[m] \in Frames /\ Len(s) \in Nat
  OBVIOUS
<1>2. x \in Frames /\ x.kind = "invalid" /\ x.saved = s[m].saved
  BY <1>1 DEF Frames, Kinds
<1>3. Len(rest) = m /\ rest \in Seq(Frames) /\ rest[m] = s[m]
  BY <1>1
<1>4. [rest EXCEPT ![Len(rest)].kind = "invalid"] = [rest EXCEPT ![m] = x]
  BY <1>3
<1>5. [SubSeq(s, 1, m) EXCEPT ![m] = x] = Append(SubSeq(s, 1, m - 1), x)
  <2> HIDE DEF x
  <2> QED
    BY <1>2, LastReplaced
<1> QED
  BY <1>2, <1>4, <1>5

(* The function whose interface is invalid is assembled no longer. *)
LEMMA Relabelled ==
    ASSUME NEW s, NEW g, NEW sp, Good(s, g, sp), NEW m \in 1..Len(s),
           Assembling(s[m]), NEW h \in Globals, InContext(s, m, h.jump)
    PROVE  LET rest == SubSeq(s, 1, m)
           IN Good([rest EXCEPT ![Len(rest)].kind = "invalid"], h, sp)
<1> DEFINE rest == SubSeq(s, 1, m)
           u == SubSeq(s, 1, m - 1)
           x == [s[m] EXCEPT !.kind = "invalid"]
<1>1. s \in Seq(Frames) /\ Len(s) \in Nat /\ s[m] \in Frames
  BY DEF Good
<1>2. s[m].saved \in Globals
  BY <1>1 DEF Frames
<1>3. /\ x \in Frames /\ x.kind = "invalid" /\ x.saved = s[m].saved
  BY <1>1 DEF Frames, Kinds
<1>4. [rest EXCEPT ![Len(rest)].kind = "invalid"] = Append(u, x)
  BY <1>1, MarkedInvalid
<1> HIDE DEF x
<1>5. Good(u, s[m].saved, sp)
  BY <1>2, Pop
<1>6. ~Probing(s[m]) /\ ~Defining(s[m])
  BY ConstantsAssumption DEF Assembling, Probing, Defining
<1>7. InContext(s, m - 1, h.jump)
  BY <1>6, ContextBelow
<1>8. /\ u \in Seq(Frames) /\ Len(u) = m - 1
      /\ \A i \in 1..(m - 1) : u[i] = s[i]
  BY <1>1, CutOff
<1> HIDE DEF u
<1>9. InContext(u, Len(u), h.jump)
  BY <1>7, <1>8, SamePrefix
<1>10. /\ ~Probing(x) /\ ~Defining(x) /\ ~Pending(x) /\ FrameOK(x, sp)
       /\ x.kind # "interface"
  BY <1>3 DEF Probing, Defining, Pending, FrameOK
<1>11. InContext(Append(u, x), Len(u) + 1, h.jump)
  BY <1>3, <1>8, <1>9, <1>10, ContextOfNeutral
<1>12. Good(Append(u, x), h, sp)
  BY <1>3, <1>5, <1>10, <1>11, Push
<1> QED
  BY <1>4, <1>12

LEMMA StepRecover == IInv /\ Recover => IInv'
<1> SUFFICES ASSUME IInv, Recover
             PROVE  IInv'
  OBVIOUS
<1> DEFINE p == globals.jump
           h == Restored(stack[p])
           rest == SubSeq(stack, 1, p - 1)
<1>1. /\ p # 0 /\ globals' = h /\ UNCHANGED <<spec, replays>>
      /\ stack' = IF stack[p].kind = "interface"
                  THEN [rest EXCEPT ![Len(rest)].kind = "invalid"] ELSE rest
  BY DEF Recover
<1>2. /\ Good(stack, globals, spec) /\ globals \in Globals
      /\ stack \in Seq(Frames) /\ Len(stack) \in Nat
  BY DEF IInv, Good
<1>3. p \in 0..Len(stack) /\ p \in 1..Len(stack)
  BY <1>1, <1>2, Current DEF InContext
<1> HIDE DEF p
<1>4. stack[p] \in Frames
  BY <1>2, <1>3
<1>5. h \in Globals /\ h.jump = stack[p].saved.jump
  BY <1>2, <1>4, RestoredTyped
<1> HIDE DEF h
<1>6. Good(rest, h, spec) /\ InContext(stack, p - 1, h.jump)
  BY <1>2, <1>3, <1>5, Pop
<1>7. CASE stack[p].kind = "interface"
  <2>1. p > 1 /\ Assembling(stack[p - 1])
    BY <1>2, <1>3, <1>7 DEF Good, Founded
  <2>2. p - 1 \in 1..Len(stack)
    BY <1>2, <1>3, <2>1
  <2>3. Good([rest EXCEPT ![Len(rest)].kind = "invalid"], h, spec)
    BY <1>2, <1>5, <1>6, <2>1, <2>2, Relabelled
  <2> QED
    BY <1>1, <1>7, <2>3, TablesStay
<1>8. CASE stack[p].kind # "interface"
  BY <1>1, <1>6, <1>8, TablesStay
<1> QED
  BY <1>7, <1>8

(* Nothing has been parsed, instantiated or replayed. *)
LEMMA Afresh ==
    ASSUME NEW g \in Globals, g.jump = 0
    PROVE  /\ Good(<<>>, g, [s \in Specs |-> "none"])
           /\ Tables([s \in Specs |-> "none"], [c \in Classes |-> 0])
<1>1. Len(<<>>) = 0 /\ <<>> \in Seq(Frames)
  OBVIOUS
<1>2. ASSUME NEW k \in 0..0
      PROVE  InContext(<<>>, k, JumpAt(<<>>, g, k))
  BY <1>1 DEF InContext, JumpAt
<1>3. Good(<<>>, g, [s \in Specs |-> "none"])
  BY <1>1, <1>2 DEF Good, Chained, Founded
<1>4. Classes \subseteq Specs
  BY DEF Specs
<1> QED
  BY <1>3, <1>4 DEF Tables, Counted, States

LEMMA StepNextUnit == IInv /\ NextUnit => IInv'
<1> SUFFICES ASSUME IInv, NextUnit
             PROVE  IInv'
  OBVIOUS
<1> DEFINE h == [Neutral EXCEPT !.quiet = globals.quiet]
<1>1. globals.quiet \in Int
  BY DEF IInv, Good, Globals
<1>2. h \in Globals /\ h.jump = 0
  <2>1. Neutral \in Globals /\ Neutral.jump = 0
    BY DEF Neutral, Globals
  <2> QED
    BY <1>1, <2>1 DEF Globals
<1>3. /\ stack' = <<>> /\ globals' = h
      /\ spec' = [s \in Specs |-> "none"] /\ replays' = [c \in Classes |-> 0]
  BY DEF NextUnit
<1> HIDE DEF h
<1> QED
  BY <1>2, <1>3, Afresh, InvariantAgain

LEMMA InitIInv == Init => IInv
<1>1. Neutral \in Globals /\ Neutral.jump = 0
  BY DEF Neutral, Globals
<1> QED
  BY <1>1, Afresh DEF Init, IInv

LEMMA StepFinalDrain == IInv /\ FinalDrain => IInv'
<1> SUFFICES ASSUME IInv, FinalDrain
             PROVE  IInv'
  OBVIOUS
<1>1. Good(stack, globals, spec)
  BY DEF IInv
<1>2. DrainOn(stack, globals, FALSE) /\ UNCHANGED <<spec, replays>>
  BY DEF FinalDrain
<1>3. Good(stack', globals', spec)
  BY <1>1, <1>2, Drained
<1> QED
  BY <1>2, <1>3, TablesStay

LEMMA NextIInv == IInv /\ [Next]_vars => IInv'
<1> SUFFICES ASSUME IInv, [Next]_vars
             PROVE  IInv'
  OBVIOUS
<1>1. Good(stack, globals, spec)
  BY DEF IInv
<1>2. CASE UNCHANGED <<stack, globals, spec, replays>>
  <2>1. Good(stack', globals', spec)
    BY <1>1, <1>2
  <2> QED
    BY <1>2, <2>1, TablesStay
<1>3. CASE \/ \E kind \in {"probe", "deduce"} : Probe(kind)
           \/ Alias \/ Qualified \/ Body
           \/ \E c \in Specs : Struct(c)
  BY <1>3, StepEnter
<1>4. CASE ProbeEnds \/ NameEnds \/ BodyEnds \/ DrainEnds
  BY <1>4, StepProbeEnds, StepNameEnds, StepBodyEnds, StepDrainEnds
<1>5. CASE \E s \in Specs : Item(s)
  BY <1>5, StepItem
<1>6. CASE \E x \in Functions : InstantiateFunction(x)
  BY <1>6, StepInstantiateFunction
<1>7. CASE \E c \in Classes : InstantiateClass(c) \/ DefineNow(c)
  BY <1>7, StepInstantiateClass, StepDefineNow
<1>8. CASE ItemEnds \/ Forwarded \/ ClassAssembled \/ DefineEnds \/ StructEnds
  BY <1>8, StepItemEnds, StepForwarded, StepClassAssembled, StepDefineEnds,
     StepStructEnds
<1>9. CASE FunctionAssembled \/ InterfaceEnds
  BY <1>9, StepFunctionAssembled, StepInterfaceEnds
<1>10. CASE Error \/ EndUnit
  BY <1>10, StepRecover, StepNextUnit DEF Error, EndUnit
<1>11. CASE Finalize
  BY <1>2, <1>11 DEF Finalize
<1>12. CASE FinalDrain
  BY <1>12, StepFinalDrain
<1>13. CASE UNCHANGED vars
  BY <1>2, <1>13 DEF vars
<1> QED
  BY <1>3, <1>4, <1>5, <1>6, <1>7, <1>8, <1>9, <1>10, <1>11, <1>12, <1>13
     DEF Next

LEMMA Invariance == Spec => []IInv
<1>1. Init => IInv
  BY InitIInv
<1>2. IInv /\ [Next]_vars => IInv'
  BY NextIInv
<1> QED
  BY <1>1, <1>2, PTL DEF Spec

-----------------------------------------------------------------------------
(* The innermost of a set of activations. *)
LEMMA LastIsIn ==
    ASSUME NEW n \in Nat, NEW S \in SUBSET (1..n), S # {}
    PROVE  Last(S) \in S /\ \A i \in S : i <= Last(S)
<1> DEFINE T == {n - i : i \in S}
<1>1. T \in SUBSET Nat /\ T # {}
  <2>1. \A i \in S : n - i \in Nat
    OBVIOUS
  <2>2. PICK i \in S : TRUE
    OBVIOUS
  <2>3. n - i \in T
    OBVIOUS
  <2> QED
    BY <2>1, <2>3
<1>2. PICK x \in T : \A y \in T : ~ (<<y, x>> \in OpToRel(<, Nat))
  BY <1>1, NatLessThanWellFounded, WFMin
<1>3. PICK j \in S : x = n - j
  OBVIOUS
<1>4. ASSUME NEW i \in S
      PROVE  i <= j
  <2>1. ASSUME j < i
        PROVE  FALSE
    <3>1. n - i \in T /\ n - i \in Nat /\ x \in Nat /\ n - i < x
      BY <1>3, <2>1
    <3>2. <<n - i, x>> \in Nat \X Nat /\ <<n - i, x>>[1] < <<n - i, x>>[2]
      BY <3>1
    <3>3. <<n - i, x>> \in OpToRel(<, Nat)
      BY <3>2, Zenon DEF OpToRel
    <3> QED
      BY <1>2, <3>1, <3>3
  <2> QED
    BY <2>1, <1>3
<1> QED
  BY <1>3, <1>4 DEF Last

LEMMA JumpOfInnermost == IInv => ImmediateContext
<1> SUFFICES ASSUME IInv
             PROVE  ImmediateContext
  OBVIOUS
<1> DEFINE n == Len(stack)
           P == At({"probe", "interface"})
           D == Definitions
<1>1. n \in Nat /\ DOMAIN stack = 1..n /\ stack \in Seq(Frames)
  BY DEF IInv, Good
<1>2. InContext(stack, n, globals.jump)
  BY Current DEF IInv
<1>3. \A i : i \in P <=> i \in 1..n /\ Probing(stack[i])
  BY <1>1 DEF At, Probing
<1>4. \A i : i \in D <=> i \in 1..n /\ Defining(stack[i])
  BY <1>1 DEF At, Definitions, Defining
<1> HIDE DEF P, D, n
<1>5. P \in SUBSET (1..n) /\ D \in SUBSET (1..n)
  BY <1>3, <1>4
<1>6. \A S \in SUBSET (1..n) : \E k \in 0..n :
         /\ k = Last(S)
         /\ S = {} => k = 0
         /\ S # {} => k \in S /\ \A i \in S : i <= k
  <2> TAKE S \in SUBSET (1..n)
  <2>1. CASE S = {}
    <3>1. Last(S) = 0 /\ 0 \in 0..n
      BY <1>1, <2>1 DEF Last
    <3> QED
      BY <2>1, <3>1
  <2>2. CASE S # {}
    <3>1. Last(S) \in S /\ \A i \in S : i <= Last(S)
      BY <1>1, <2>2, LastIsIn
    <3>2. \A i \in S : i \in 0..n
      BY <1>1
    <3> QED
      BY <2>2, <3>1, <3>2
  <2> QED
    BY <2>1, <2>2
<1>7. PICK p \in 0..n : /\ p = Last(P)
                        /\ P = {} => p = 0
                        /\ P # {} => p \in P /\ \A i \in P : i <= p
  BY <1>5, <1>6
<1>8. PICK d \in 0..n : /\ d = Last(D)
                        /\ D = {} => d = 0
                        /\ D # {} => d \in D /\ \A i \in D : i <= d
  BY <1>5, <1>6
<1>9. globals.jump = IF p > d THEN p ELSE 0
  <2> DEFINE j == globals.jump
  <2>1. CASE j # 0
    <3>1. j \in P /\ j \in 1..n
      BY <1>1, <1>2, <1>3, <2>1 DEF InContext
    <3>2. \A i \in P : i <= j
      BY <1>1, <1>2, <1>3, <1>5, <2>1, <3>1 DEF InContext
    <3>3. p = j
      BY <1>1, <1>7, <3>1, <3>2
    <3>4. j \notin D
      BY <1>3, <1>4, <3>1 DEF Probing, Defining
    <3>5. \A i \in D : i < j
      BY <1>1, <1>2, <1>4, <1>5, <2>1, <3>1, <3>4 DEF InContext
    <3>6. d < j
      BY <1>1, <1>8, <3>1, <3>5
    <3> QED
      BY <3>3, <3>6, <3>1, <1>1
  <2>2. CASE j = 0
    <3>1. ASSUME P # {}
          PROVE  p <= d
      <4>1. PICK e \in 1..n : p <= e /\ Defining(stack[e])
        BY <1>2, <1>3, <1>7, <2>2, <3>1 DEF InContext
      <4>2. e \in D /\ e <= d
        BY <1>4, <1>8, <4>1
      <4> QED
        BY <1>1, <4>1, <4>2
    <3>2. p <= d
      BY <1>1, <1>7, <3>1
    <3> QED
      BY <1>1, <2>2, <3>2
  <2> QED
    BY <2>1, <2>2
<1>10. globals.jump = IF Last(P) > Last(D) THEN Last(P) ELSE 0
  BY <1>7, <1>8, <1>9
<1> QED
  BY <1>10 DEF ImmediateContext, P, D

(* However probes, instantiations, drains and replays are nested, and      *)
(* whatever error abandons some of them: only an error in the immediate    *)
(* context of a substitution is recovered, by the probe that runs innermost*)
(* (error1, template_probe_type_ex, gen_function, the class replays). *)
THEOREM OnlyImmediateErrorsRecover == Spec => []ImmediateContext
BY Invariance, JumpOfInnermost, PTL

(* The definition of a class is replayed at most once, by the worklist or  *)
(* by the declaration that needs it at once                                *)
(* (compile_pending_template_specs,                                        *)
(* compile_pending_template_class_definition_now). *)
THEOREM ClassesDefinedOnce == Spec => []DefinedOnce
<1>1. IInv => DefinedOnce
  BY DEF IInv, Tables, Counted, DefinedOnce
<1> QED
  BY <1>1, Invariance, PTL

-----------------------------------------------------------------------------
(* The globals each activation accounts for. *)

Counting == {"probe", "interface", "deduce"}
Replaying == {"item", "define"}
Draining == {"drain", "quiet"}
Scopes == {"probe", "interface", "deduce", "define", "drain", "quiet", "body"}

(* What an activation that found the globals g makes of them, while it     *)
(* runs and whenever those it called have ended.  Replays and bodies begin *)
(* without a scope. *)
Hands(kind, g, h, fin) ==
    /\ h.probes = IF kind \in Counting THEN g.probes + 1 ELSE g.probes
    /\ h.alias = IF kind = "alias" THEN g.alias + 1
                 ELSE IF kind = "qualified" THEN 0 ELSE g.alias
    /\ h.classes = IF kind = "struct" THEN g.classes + 1
                   ELSE IF kind \in Replaying THEN 0 ELSE g.classes
    /\ h.scoped = IF kind \in Scopes THEN kind = "body" ELSE g.scoped
    /\ kind \in {"item", "body"} => g.scoped = FALSE
    /\ fin \/ h.compiling = IF kind \in Draining THEN g.compiling + 1
                            ELSE g.compiling

Same(h, g, fin) ==
    /\ h.probes = g.probes /\ h.alias = g.alias /\ h.classes = g.classes
    /\ h.scoped = g.scoped
    /\ fin \/ h.compiling = g.compiling

(* The globals when the first k activations are left: the next one saved   *)
(* them.  In the final phase an error leaves a drain open for good.        *)
GlobalsAt(s, g, k) == IF k < Len(s) THEN s[k + 1].saved ELSE g

Linked(s, g, fin) ==
    /\ Same(GlobalsAt(s, g, 0), Neutral, fin)
    /\ \A k \in 1..Len(s) : Hands(s[k].kind, s[k].saved, GlobalsAt(s, g, k), fin)

(* Which activation calls which: what an error can abandon together.       *)
Placed(s, fin) ==
    \A i \in 1..Len(s) :
        /\ s[i].kind = "struct" => i = 1 \/ s[i - 1].kind \in Replaying
        /\ s[i].kind = "item" => i > 1 /\ s[i - 1].kind \in Draining
        /\ fin \/ s[i].kind = "item" \/ i = 1 \/ s[i - 1].kind \notin Draining

Sound(s, g, fin) ==
    /\ s \in Seq(Frames) /\ g \in Globals
    /\ Linked(s, g, fin)
    /\ Placed(s, fin)

Accounted == Sound(stack, globals, finalizing)

(* An activation begins with the globals it found. *)
LEMMA Begins ==
    ASSUME NEW s, NEW g, NEW fin, Sound(s, g, fin),
           NEW x \in Frames, x.saved = g,
           NEW h \in Globals, Hands(x.kind, g, h, fin),
           x.kind = "struct" => Len(s) = 0 \/ s[Len(s)].kind \in Replaying,
           x.kind = "item" => Len(s) > 0 /\ s[Len(s)].kind \in Draining,
           \/ fin \/ x.kind = "item"
           \/ Len(s) = 0 \/ s[Len(s)].kind \notin Draining
    PROVE  Sound(Append(s, x), h, fin)
<1> DEFINE t == Append(s, x)
           n == Len(s)
<1>1. s \in Seq(Frames) /\ n \in Nat
  BY DEF Sound
<1>2. /\ t \in Seq(Frames) /\ Len(t) = n + 1
      /\ \A i \in 1..n : t[i] = s[i]
      /\ t[n + 1] = x
  BY <1>1, Pushed
<1> HIDE DEF t
<1>3. ASSUME NEW k \in 0..n
      PROVE  GlobalsAt(t, h, k) = GlobalsAt(s, g, k)
  <2>1. CASE k = n
    <3>1. k < n + 1 /\ ~(k < n) /\ t[k + 1] = x
      BY <2>1, <1>1, <1>2
    <3> QED
      BY <3>1, <1>2 DEF GlobalsAt
  <2>2. CASE k < n
    <3>1. k + 1 \in 1..n /\ k < n + 1
      BY <2>2, <1>1
    <3> QED
      BY <2>2, <3>1, <1>2 DEF GlobalsAt
  <2> QED
    BY <2>1, <2>2, <1>1
<1>4. GlobalsAt(t, h, n + 1) = h
  BY <1>1, <1>2 DEF GlobalsAt
<1>5. ASSUME NEW k \in 1..(n + 1)
      PROVE  Hands(t[k].kind, t[k].saved, GlobalsAt(t, h, k), fin)
  <2>1. CASE k = n + 1
    BY <2>1, <1>2, <1>4
  <2>2. CASE k \in 1..n
    <3>1. k \in 0..n
      BY <2>2
    <3>2. Hands(s[k].kind, s[k].saved, GlobalsAt(s, g, k), fin)
      BY <2>2 DEF Sound, Linked
    <3> QED
      BY <2>2, <3>1, <3>2, <1>2, <1>3
  <2> QED
    BY <2>1, <2>2, <1>1
<1>6. Same(GlobalsAt(t, h, 0), Neutral, fin)
  <2>1. 0 \in 0..n
    BY <1>1
  <2> QED
    BY <2>1, <1>3 DEF Sound, Linked
<1>7. Linked(t, h, fin)
  BY <1>2, <1>5, <1>6 DEF Linked
<1>8. Placed(t, fin)
  <2>1. ASSUME NEW i \in 1..n
        PROVE  /\ t[i].kind = "struct" => i = 1 \/ t[i - 1].kind \in Replaying
               /\ t[i].kind = "item" => i > 1 /\ t[i - 1].kind \in Draining
               /\ fin \/ t[i].kind = "item" \/ i = 1 \/ t[i - 1].kind \notin Draining
    <3>1. i = 1 \/ i - 1 \in 1..n
      BY <1>1
    <3>2. /\ s[i].kind = "struct" => i = 1 \/ s[i - 1].kind \in Replaying
          /\ s[i].kind = "item" => i > 1 /\ s[i - 1].kind \in Draining
          /\ fin \/ s[i].kind = "item" \/ i = 1 \/ s[i - 1].kind \notin Draining
      BY DEF Sound, Placed
    <3> QED
      BY <3>1, <3>2, <1>2
  <2>2. /\ x.kind = "struct" => n + 1 = 1 \/ t[(n + 1) - 1].kind \in Replaying
        /\ x.kind = "item" => n + 1 > 1 /\ t[(n + 1) - 1].kind \in Draining
        /\ fin \/ x.kind = "item" \/ n + 1 = 1 \/ t[(n + 1) - 1].kind \notin Draining
    <3>1. n = 0 \/ (n \in 1..n /\ (n + 1) - 1 = n /\ n + 1 > 1)
      BY <1>1
    <3> QED
      BY <3>1, <1>1, <1>2
  <2>3. \A i \in 1..(n + 1) : i \in 1..n \/ i = n + 1
    BY <1>1
  <2> QED
    BY <2>1, <2>2, <2>3, <1>2 DEF Placed
<1> QED
  BY <1>2, <1>7, <1>8 DEF Sound, t

(* Everything from activation p on ends, and the globals are those it found.*)
LEMMA Ends ==
    ASSUME NEW s, NEW g, NEW fin, Sound(s, g, fin), NEW p \in 1..Len(s),
           NEW h \in Globals, Same(h, s[p].saved, fin)
    PROVE  Sound(SubSeq(s, 1, p - 1), h, fin)
<1> DEFINE t == SubSeq(s, 1, p - 1)
           n == Len(s)
<1>1. s \in Seq(Frames) /\ n \in Nat /\ p \in 1..n /\ p - 1 \in Nat
  BY DEF Sound
<1>2. /\ t \in Seq(Frames) /\ Len(t) = p - 1
      /\ \A i \in 1..(p - 1) : t[i] = s[i]
  BY <1>1, CutOff
<1> HIDE DEF t
<1>3. ASSUME NEW k \in 0..(p - 1)
      PROVE  Same(GlobalsAt(t, h, k), GlobalsAt(s, g, k), fin)
  <2>1. CASE k = p - 1
    <3>1. k < n /\ ~(k < p - 1) /\ k + 1 = p
      BY <2>1, <1>1
    <3>2. GlobalsAt(t, h, k) = h /\ GlobalsAt(s, g, k) = s[p].saved
      BY <3>1, <1>2 DEF GlobalsAt
    <3> QED
      BY <3>2
  <2>2. CASE k < p - 1
    <3>1. k + 1 \in 1..(p - 1) /\ k < n
      BY <2>2, <1>1
    <3>2. GlobalsAt(t, h, k) = GlobalsAt(s, g, k)
      BY <2>2, <3>1, <1>2 DEF GlobalsAt
    <3> QED
      BY <3>2 DEF Same
  <2> QED
    BY <2>1, <2>2, <1>1
<1>4. ASSUME NEW k \in 1..(p - 1)
      PROVE  Hands(t[k].kind, t[k].saved, GlobalsAt(t, h, k), fin)
  <2>1. k \in 0..(p - 1) /\ k \in 1..n
    BY <1>1
  <2>2. Hands(s[k].kind, s[k].saved, GlobalsAt(s, g, k), fin)
    BY <2>1 DEF Sound, Linked
  <2>3. Same(GlobalsAt(t, h, k), GlobalsAt(s, g, k), fin)
    BY <2>1, <1>3
  <2>4. Hands(s[k].kind, s[k].saved, GlobalsAt(t, h, k), fin)
    BY <2>2, <2>3 DEF Hands, Same
  <2> QED
    BY <2>4, <1>2
<1>5. Same(GlobalsAt(t, h, 0), Neutral, fin)
  <2>1. 0 \in 0..(p - 1)
    BY <1>1
  <2>2. Same(GlobalsAt(s, g, 0), Neutral, fin)
    BY DEF Sound, Linked
  <2>3. Same(GlobalsAt(t, h, 0), GlobalsAt(s, g, 0), fin)
    BY <2>1, <1>3
  <2> QED
    BY <2>2, <2>3 DEF Same
<1>6. ASSUME NEW i \in 1..(p - 1)
      PROVE  /\ t[i].kind = "struct" => i = 1 \/ t[i - 1].kind \in Replaying
             /\ t[i].kind = "item" => i > 1 /\ t[i - 1].kind \in Draining
             /\ fin \/ t[i].kind = "item" \/ i = 1 \/ t[i - 1].kind \notin Draining
  <2>1. i \in 1..n /\ (i = 1 \/ i - 1 \in 1..(p - 1))
    BY <1>1
  <2>2. /\ s[i].kind = "struct" => i = 1 \/ s[i - 1].kind \in Replaying
        /\ s[i].kind = "item" => i > 1 /\ s[i - 1].kind \in Draining
        /\ fin \/ s[i].kind = "item" \/ i = 1 \/ s[i - 1].kind \notin Draining
    BY <2>1 DEF Sound, Placed
  <2> QED
    BY <2>1, <2>2, <1>2
<1> QED
  BY <1>2, <1>4, <1>5, <1>6 DEF Sound, Linked, Placed, t

(* The globals that the running activation makes of those it found.        *)
LEMMA TopHands ==
    ASSUME IInv, Accounted, Here # "unit"
    PROVE  Hands(Here, Top.saved, globals, finalizing)
<1>1. /\ Len(stack) \in Nat \ {0} /\ Len(stack) \in 1..Len(stack)
      /\ Top = stack[Len(stack)] /\ Top.kind = Here
  BY OnTop
<1>2. GlobalsAt(stack, globals, Len(stack)) = globals
  BY <1>1 DEF GlobalsAt
<1> QED
  BY <1>1, <1>2 DEF Accounted, Sound, Linked

(* The running activation ends and the globals are those it found.         *)
LEMMA Returns ==
    ASSUME IInv, Accounted, Here # "unit", NEW h \in Globals,
           Same(h, Top.saved, finalizing)
    PROVE  Sound(Below, h, finalizing)
<1>1. /\ Len(stack) \in 1..Len(stack) /\ Top = stack[Len(stack)]
      /\ Below = SubSeq(stack, 1, Len(stack) - 1)
  BY OnTop
<1>2. Sound(stack, globals, finalizing) /\ Same(h, stack[Len(stack)].saved, finalizing)
  BY <1>1 DEF Accounted
<1> QED
  BY <1>1, <1>2, Ends

(* The accounts of a step that leaves the phase alone. *)
LEMMA SoundAgain ==
    ASSUME Sound(stack', globals', finalizing), finalizing' = finalizing
    PROVE  Accounted'
<1>1. \A s, g : Sound(s, g, finalizing)' <=> Sound(s', g', finalizing')
  BY DEF Sound, Linked, Placed, Same, Hands, GlobalsAt
<1> QED
  BY DEF Accounted, Sound, Linked, Placed, Same, Hands, GlobalsAt

(* An activation is called. *)
LEMMA Called ==
    ASSUME IInv, Accounted, finalizing' = finalizing,
           NEW kind \in Kinds, NEW y \in Specs \cup {Nothing},
           NEW h \in Globals, Enter(kind, y, h),
           Hands(kind, globals, h, finalizing),
           kind = "struct" => Here \in {"unit", "item", "define"},
           kind = "item" => Here \in {"drain", "quiet"},
           finalizing \/ kind = "item" \/ Here \notin {"drain", "quiet"}
    PROVE  Accounted'
<1> DEFINE x == Frame(kind, y)
           n == Len(stack)
<1>1. globals \in Globals /\ stack \in Seq(Frames) /\ n \in Nat
  BY DEF IInv, Good
<1>2. x \in Frames /\ x.kind = kind /\ x.saved = globals
  BY <1>1, NewFrame DEF Frame
<1>3. stack' = Append(stack, x) /\ globals' = h
  BY DEF Enter
<1>4. /\ n = 0 => Here = "unit"
      /\ n > 0 => Here = stack[n].kind /\ Here # "unit"
  <2>1. n = 0 => stack = <<>>
    BY <1>1
  <2>2. n > 0 => stack # <<>> /\ stack[n] \in Frames
    BY <1>1
  <2>3. \A z \in Frames : z.kind # "unit"
    BY DEF Frames, Kinds
  <2> QED
    BY <2>1, <2>2, <2>3 DEF Here
<1>5. Sound(stack, globals, finalizing)
  BY DEF Accounted
<1> HIDE DEF x
<1>6. /\ kind = "struct" => n = 0 \/ stack[n].kind \in Replaying
      /\ kind = "item" => n > 0 /\ stack[n].kind \in Draining
      /\ finalizing \/ kind = "item" \/ n = 0 \/ stack[n].kind \notin Draining
  <2>1. n = 0 \/ n > 0
    BY <1>1
  <2>2. kind = "struct" => n = 0 \/ stack[n].kind \in Replaying
    BY <1>4, <2>1 DEF Replaying
  <2>3. kind = "item" => n > 0 /\ stack[n].kind \in Draining
    BY <1>4, <2>1 DEF Draining
  <2>4. finalizing \/ kind = "item" \/ n = 0 \/ stack[n].kind \notin Draining
    BY <1>4, <2>1 DEF Draining
  <2> QED
    BY <2>2, <2>3, <2>4
<1>7. Sound(Append(stack, x), h, finalizing)
  BY <1>2, <1>5, <1>6, Begins
<1> QED
  BY <1>3, <1>7, SoundAgain

(* A drain is called, unless one is live. *)
LEMMA DrainBegins ==
    ASSUME NEW frames, NEW g, NEW quiet \in BOOLEAN,
           Sound(frames, g, finalizing), DrainOn(frames, g, quiet),
           finalizing' = finalizing,
           \/ finalizing
           \/ Len(frames) = 0 \/ frames[Len(frames)].kind \notin Draining
    PROVE  Accounted'
<1>1. CASE Drains
  <2> DEFINE kind == IF quiet THEN "quiet" ELSE "drain"
             x == [kind |-> kind, spec |-> Nothing, saved |-> g]
             q == IF quiet THEN g.quiet + 1 ELSE g.quiet
             h == [g EXCEPT !.compiling = @ + 1, !.scoped = FALSE, !.quiet = q]
  <2>1. g \in Globals
    BY DEF Sound
  <2>2. q \in Int /\ g.compiling + 1 \in Int
    <3>1. g.quiet \in Int /\ g.compiling \in Int
      BY <2>1 DEF Globals
    <3> QED
      BY <3>1
  <2>3. x \in Frames /\ x.saved = g /\ x.kind = kind
    BY <2>1 DEF Frames, Kinds
  <2>4. stack' = Append(frames, x) /\ globals' = h
    BY <1>1 DEF DrainOn
  <2>5. kind \in Draining /\ kind \notin {"struct", "item"}
    BY DEF Draining
  <2> HIDE DEF x, q, kind
  <2>6. /\ h \in Globals /\ h.probes = g.probes /\ h.alias = g.alias
        /\ h.classes = g.classes /\ h.scoped = FALSE
        /\ h.compiling = g.compiling + 1
    BY <2>1, <2>2 DEF Globals
  <2> HIDE DEF h
  <2>7. Hands(kind, g, h, finalizing)
    BY <2>5, <2>6 DEF Hands, Draining, Counting, Replaying, Scopes
  <2>8. Sound(Append(frames, x), h, finalizing)
    BY <2>3, <2>5, <2>6, <2>7, Begins
  <2> QED
    BY <2>4, <2>8, SoundAgain
<1>2. CASE ~Drains
  BY <1>2, SoundAgain DEF DrainOn
<1> QED
  BY <1>1, <1>2

(* Below an activation that is no replay no drain waits. *)
LEMMA NoDrainBelow ==
    ASSUME IInv, Accounted, Here \notin {"unit", "item"}
    PROVE  \/ finalizing
           \/ Len(Below) = 0 \/ Below[Len(Below)].kind \notin Draining
<1> DEFINE n == Len(stack)
<1>1. /\ n \in Nat \ {0} /\ n \in 1..n /\ stack[n].kind = Here
      /\ stack \in Seq(Frames) /\ Below = SubSeq(stack, 1, n - 1)
  BY OnTop DEF IInv, Good
<1>2. finalizing \/ n = 1 \/ stack[n - 1].kind \notin Draining
  BY <1>1 DEF Accounted, Sound, Placed
<1>3. Len(Below) = n - 1 /\ \A i \in 1..(n - 1) : Below[i] = stack[i]
  BY <1>1, CutOff
<1>4. n = 1 \/ n - 1 \in 1..(n - 1)
  <2> HIDE DEF n
  <2> QED
    BY <1>1
<1> QED
  BY <1>1, <1>2, <1>3, <1>4

(* What each of the activations that parse hands on, field by field. *)
LEMMA HandsOf ==
    ASSUME NEW g, NEW h, NEW fin, h.compiling = g.compiling
    PROVE  /\ \A kind \in {"assemble", "forward", "invalid"} :
                 Same(h, g, fin) => Hands(kind, g, h, fin)
           /\ \A kind \in Counting :
                 /\ h.probes = g.probes + 1 /\ h.alias = g.alias
                 /\ h.classes = g.classes /\ h.scoped = FALSE
                 => Hands(kind, g, h, fin)
           /\ /\ h.probes = g.probes /\ h.alias = g.alias + 1
              /\ h.classes = g.classes /\ h.scoped = g.scoped
              => Hands("alias", g, h, fin)
           /\ /\ h.probes = g.probes /\ h.alias = 0
              /\ h.classes = g.classes /\ h.scoped = g.scoped
              => Hands("qualified", g, h, fin)
           /\ /\ h.probes = g.probes /\ h.alias = g.alias
              /\ h.classes = 0 /\ h.scoped = g.scoped /\ g.scoped = FALSE
              => Hands("item", g, h, fin)
           /\ /\ h.probes = g.probes /\ h.alias = g.alias
              /\ h.classes = 0 /\ h.scoped = FALSE
              => Hands("define", g, h, fin)
           /\ /\ h.probes = g.probes /\ h.alias = g.alias
              /\ h.classes = g.classes + 1 /\ h.scoped = g.scoped
              => Hands("struct", g, h, fin)
           /\ /\ h.probes = g.probes /\ h.alias = g.alias
              /\ h.classes = g.classes /\ h.scoped = TRUE /\ g.scoped = FALSE
              => Hands("body", g, h, fin)
BY DEF Hands, Same, Counting, Replaying, Draining, Scopes

(* The globals of a probe that begins. *)
LEMMA ProbedHands ==
    ASSUME globals \in Globals, NEW j \in Nat, NEW kind \in Counting
    PROVE  Probed(j) \in Globals /\ Hands(kind, globals, Probed(j), finalizing)
<1> DEFINE h == Probed(j)
<1>1. globals.probes \in Int /\ globals.probes + 1 \in Int
  <2>1. globals.probes \in Int
    BY DEF Globals
  <2> QED
    BY <2>1
<1>2. h = [globals EXCEPT !.jump = j, !.probes = globals.probes + 1, !.scoped = FALSE]
  BY DEF Probed
<1> HIDE DEF h
<1>3. /\ h \in Globals /\ h.probes = globals.probes + 1 /\ h.alias = globals.alias
      /\ h.classes = globals.classes /\ h.scoped = FALSE
      /\ h.compiling = globals.compiling
  BY <1>1, <1>2 DEF Globals
<1>4. Hands(kind, globals, h, finalizing)
  BY <1>3, HandsOf
<1> QED
  BY <1>3, <1>4 DEF h

(* A replay or a body begins without a scope: a drain has put it aside.    *)
LEMMA Unscoped ==
    ASSUME IInv, Accounted, Here \in {"unit", "item", "drain", "quiet"}
    PROVE  globals.scoped = FALSE
<1>1. CASE Here = "unit"
  <2>1. stack = <<>>
    <3>1. stack # <<>> => Top \in Frames /\ Top.kind = Here
      <4>1. stack # <<>> => Len(stack) \in 1..Len(stack)
        BY DEF IInv, Good
      <4> QED
        BY <4>1 DEF IInv, Good, Here, Top
    <3> QED
      BY <1>1, <3>1 DEF Frames, Kinds
  <2>2. GlobalsAt(stack, globals, 0) = globals
    BY <2>1 DEF GlobalsAt
  <2> QED
    BY <2>2 DEF Accounted, Sound, Linked, Same, Neutral
<1>2. CASE Here \in {"item", "drain", "quiet"}
  <2>1. Hands(Here, Top.saved, globals, finalizing)
    BY <1>2, TopHands
  <2> QED
    BY <1>2, <2>1 DEF Hands, Scopes
<1> QED
  BY <1>1, <1>2

(* Somewhere that parses no drain waits for its item. *)
LEMMA ParsingPlaces ==
    Parsing => Here \notin {"drain", "quiet"}
BY DEF Parsing

(* A probe, a name, a body or a class body begins. *)
LEMMA AccountEnter ==
    ASSUME IInv, Accounted,
           \/ \E kind \in {"probe", "deduce"} : Probe(kind)
           \/ Alias \/ Qualified \/ Body
           \/ \E c \in Specs : Struct(c)
    PROVE  Accounted'
<1>1. globals \in Globals /\ Len(stack) + 1 \in Nat
  BY DEF IInv, Good
<1>2. ASSUME NEW kind \in {"probe", "deduce"}, Probe(kind)
      PROVE  Accounted'
  <2> DEFINE j == IF kind = "deduce" THEN 0 ELSE Len(stack) + 1
  <2>1. j \in Nat
    BY <1>1
  <2>2. Enter(kind, Nothing, Probed(j)) /\ finalizing' = finalizing /\ Parsing
    BY <1>2 DEF Probe
  <2> HIDE DEF j
  <2>3. kind \in Counting /\ kind \in Kinds /\ kind \notin {"struct", "item"}
    BY DEF Counting, Kinds
  <2>4. Probed(j) \in Globals /\ Hands(kind, globals, Probed(j), finalizing)
    BY <1>1, <2>1, <2>3, ProbedHands
  <2> QED
    BY <2>2, <2>3, <2>4, ParsingPlaces, Called
<1>3. CASE Alias
  <2> DEFINE h == [globals EXCEPT !.alias = @ + 1]
  <2>1. Enter("alias", Nothing, h) /\ finalizing' = finalizing /\ Parsing
    BY <1>3 DEF Alias
  <2>2. /\ h \in Globals /\ h.probes = globals.probes /\ h.alias = globals.alias + 1
        /\ h.classes = globals.classes /\ h.scoped = globals.scoped
        /\ h.compiling = globals.compiling
    BY <1>1 DEF Globals
  <2> HIDE DEF h
  <2>3. Hands("alias", globals, h, finalizing)
    BY <2>2, HandsOf
  <2> QED
    BY <2>1, <2>2, <2>3, ParsingPlaces, Called DEF Kinds
<1>4. CASE Qualified
  <2> DEFINE h == [globals EXCEPT !.alias = 0]
  <2>1. Enter("qualified", Nothing, h) /\ finalizing' = finalizing /\ Parsing
    BY <1>4 DEF Qualified
  <2>2. /\ h \in Globals /\ h.probes = globals.probes /\ h.alias = 0
        /\ h.classes = globals.classes /\ h.scoped = globals.scoped
        /\ h.compiling = globals.compiling
    BY <1>1 DEF Globals
  <2> HIDE DEF h
  <2>3. Hands("qualified", globals, h, finalizing)
    BY <2>2, HandsOf
  <2> QED
    BY <2>1, <2>2, <2>3, ParsingPlaces, Called DEF Kinds
<1>5. CASE Body
  <2> DEFINE h == [globals EXCEPT !.jump = 0, !.scoped = TRUE]
  <2>1. /\ Enter("body", Nothing, h) /\ finalizing' = finalizing
        /\ Here \in {"unit", "item"}
    BY <1>5 DEF Body
  <2>2. /\ h \in Globals /\ h.probes = globals.probes /\ h.alias = globals.alias
        /\ h.classes = globals.classes /\ h.scoped = TRUE
        /\ h.compiling = globals.compiling
    BY <1>1 DEF Globals
  <2> HIDE DEF h
  <2>3. globals.scoped = FALSE
    BY <2>1, Unscoped
  <2>4. Hands("body", globals, h, finalizing)
    BY <2>2, <2>3, HandsOf
  <2> QED
    BY <2>1, <2>2, <2>4, Called DEF Kinds
<1>6. ASSUME NEW c \in Specs, Struct(c)
      PROVE  Accounted'
  <2> DEFINE h == [globals EXCEPT !.classes = @ + 1]
  <2>1. /\ Enter("struct", c, h) /\ finalizing' = finalizing
        /\ Here \in {"unit", "item", "define"}
    BY <1>6 DEF Struct
  <2>2. /\ h \in Globals /\ h.probes = globals.probes /\ h.alias = globals.alias
        /\ h.classes = globals.classes + 1 /\ h.scoped = globals.scoped
        /\ h.compiling = globals.compiling
    BY <1>1 DEF Globals
  <2> HIDE DEF h
  <2>3. Hands("struct", globals, h, finalizing)
    BY <2>2, HandsOf
  <2> QED
    BY <2>1, <2>2, <2>3, Called DEF Kinds
<1> QED
  BY <1>2, <1>3, <1>4, <1>5, <1>6

(* A drain replays a definition. *)
LEMMA AccountItem == \A s \in Specs : IInv /\ Accounted /\ Item(s) => Accounted'
<1> SUFFICES ASSUME NEW s \in Specs, IInv, Accounted, Item(s)
             PROVE  Accounted'
  OBVIOUS
<1> DEFINE h == [globals EXCEPT !.jump = 0, !.classes = 0]
<1>1. globals \in Globals
  BY DEF IInv, Good
<1>2. /\ Enter("item", s, h) /\ finalizing' = finalizing
      /\ Here \in {"drain", "quiet"}
  BY DEF Item
<1>3. h \in Globals
  BY <1>1, ClearedTyped
<1>4. /\ h.probes = globals.probes /\ h.alias = globals.alias
      /\ h.classes = 0 /\ h.scoped = globals.scoped
      /\ h.compiling = globals.compiling
  BY <1>1 DEF Globals
<1> HIDE DEF h
<1>5. globals.scoped = FALSE
  BY <1>2, Unscoped
<1>6. Hands("item", globals, h, finalizing)
  BY <1>4, <1>5, HandsOf
<1> QED
  BY <1>2, <1>3, <1>6, Called DEF Kinds

(* A queued class is wanted: it is drained or defined now. *)
LEMMA AccountDefineNow ==
    \A c \in Classes : IInv /\ Accounted /\ DefineNow(c) => Accounted'
<1> SUFFICES ASSUME NEW c \in Classes, IInv, Accounted, DefineNow(c)
             PROVE  Accounted'
  OBVIOUS
<1>1. globals \in Globals /\ c \in Specs /\ Sound(stack, globals, finalizing)
  BY DEF IInv, Good, Specs, Accounted
<1>2. Parsing /\ finalizing' = finalizing
  BY DEF DefineNow
<1>3. CASE Drains
  <2>1. DrainOn(stack, globals, TRUE)
    BY <1>3 DEF DefineNow
  <2>2. Len(stack) = 0 \/ stack[Len(stack)].kind \notin Draining
    <3>1. stack \in Seq(Frames)
      BY DEF IInv, Good
    <3>2. stack # <<>> => Here = stack[Len(stack)].kind
      BY DEF Here
    <3> QED
      BY <1>2, <3>1, <3>2, ParsingPlaces DEF Draining
  <2> QED
    BY <1>1, <1>2, <2>1, <2>2, DrainBegins
<1>4. CASE ~Drains
  <2> DEFINE h == [globals EXCEPT !.jump = 0, !.classes = 0, !.scoped = FALSE]
  <2>1. Enter("define", c, h)
    BY <1>4 DEF DefineNow
  <2>2. h \in Globals
    BY <1>1, ClearedTyped
  <2>3. /\ h.probes = globals.probes /\ h.alias = globals.alias
        /\ h.classes = 0 /\ h.scoped = FALSE
        /\ h.compiling = globals.compiling
    BY <1>1 DEF Globals
  <2> HIDE DEF h
  <2>4. Hands("define", globals, h, finalizing)
    BY <2>3, HandsOf
  <2> QED
    BY <1>1, <1>2, <2>1, <2>2, <2>4, ParsingPlaces, Called DEF Kinds
<1> QED
  BY <1>3, <1>4

(* A class or a function begins to be assembled. *)
LEMMA AssemblyHands ==
    ASSUME globals \in Globals
    PROVE  /\ OutOfContext \in Globals
           /\ Same(OutOfContext, globals, finalizing)
           /\ \A kind \in {"assemble", "forward", "invalid"} :
                 /\ Hands(kind, globals, globals, finalizing)
                 /\ Hands(kind, globals, OutOfContext, finalizing)
<1>1. /\ OutOfContext \in Globals
      /\ OutOfContext.probes = globals.probes /\ OutOfContext.alias = globals.alias
      /\ OutOfContext.classes = globals.classes
      /\ OutOfContext.scoped = globals.scoped
      /\ OutOfContext.compiling = globals.compiling
  BY DEF OutOfContext, Globals
<1>2. /\ Same(OutOfContext, globals, finalizing)
      /\ Same(globals, globals, finalizing)
  BY <1>1 DEF Same
<1> QED
  BY <1>1, <1>2, HandsOf

(* A class is forwarded and drained, or assembled. *)
LEMMA AccountInstantiateClass ==
    \A c \in Classes : IInv /\ Accounted /\ InstantiateClass(c) => Accounted'
<1> SUFFICES ASSUME NEW c \in Classes, IInv, Accounted, InstantiateClass(c)
             PROVE  Accounted'
  OBVIOUS
<1>1. /\ globals \in Globals /\ stack \in Seq(Frames) /\ c \in Specs
      /\ Sound(stack, globals, finalizing)
  BY DEF IInv, Good, Specs, Accounted
<1>2. /\ Parsing /\ finalizing' = finalizing
      /\ IF Drains THEN DrainOn(Append(stack, Frame("forward", c)), globals, TRUE)
         ELSE Enter("assemble", c, OutOfContext)
  BY DEF InstantiateClass
<1>3. CASE Drains
  <2> DEFINE x == Frame("forward", c)
  <2>1. /\ x \in Frames /\ x.saved = globals /\ x.kind = "forward"
    BY <1>1, NewFrame DEF Frame, Kinds
  <2>2. DrainOn(Append(stack, x), globals, TRUE)
    BY <1>2, <1>3
  <2> HIDE DEF x
  <2>3. Len(stack) = 0 \/ stack[Len(stack)].kind \notin Draining
    <3>1. stack # <<>> => Here = stack[Len(stack)].kind
      BY DEF Here
    <3> QED
      BY <1>1, <1>2, <3>1, ParsingPlaces DEF Draining
  <2>4. Hands(x.kind, globals, globals, finalizing)
    BY <1>1, <2>1, AssemblyHands
  <2>5. Sound(Append(stack, x), globals, finalizing)
    BY <1>1, <2>1, <2>3, <2>4, Begins
  <2>6. /\ Len(Append(stack, x)) = Len(stack) + 1
        /\ Append(stack, x)[Len(stack) + 1] = x
    BY <1>1, <2>1, Pushed
  <2>7. Append(stack, x)[Len(Append(stack, x))].kind \notin Draining
    BY <2>1, <2>6 DEF Draining
  <2> QED
    BY <1>2, <2>2, <2>5, <2>7, DrainBegins
<1>4. CASE ~Drains
  <2>1. Enter("assemble", c, OutOfContext)
    BY <1>2, <1>4
  <2>2. /\ OutOfContext \in Globals
        /\ Hands("assemble", globals, OutOfContext, finalizing)
    BY <1>1, AssemblyHands
  <2> QED
    BY <1>1, <1>2, <2>1, <2>2, ParsingPlaces, Called DEF Kinds
<1> QED
  BY <1>3, <1>4

(* A function is assembled. *)
LEMMA AccountInstantiateFunction ==
    \A y \in Functions : IInv /\ Accounted /\ InstantiateFunction(y) => Accounted'
<1> SUFFICES ASSUME NEW y \in Functions, IInv, Accounted, InstantiateFunction(y)
             PROVE  Accounted'
  OBVIOUS
<1>1. globals \in Globals /\ y \in Specs
  BY DEF IInv, Good, Specs
<1>2. /\ Enter("assemble", y, globals) /\ finalizing' = finalizing
      /\ finalizing \/ Parsing
  BY DEF InstantiateFunction, Materialize
<1>3. Hands("assemble", globals, globals, finalizing)
  BY <1>1, AssemblyHands
<1> QED
  BY <1>1, <1>2, <1>3, ParsingPlaces, Called DEF Kinds

(* An activation that kept the account of its caller ends: globals that    *)
(* only differ in the jump are those it found. *)
LEMMA PassedOn ==
    ASSUME IInv, Accounted, Here \in {"assemble", "forward", "invalid"},
           NEW h, Same(h, globals, finalizing)
    PROVE  Same(h, Top.saved, finalizing)
<1>1. Hands(Here, Top.saved, globals, finalizing)
  BY TopHands
<1> QED
  BY <1>1 DEF Hands, Same, Counting, Replaying, Draining, Scopes

(* The forwarded class is assembled in its place. *)
LEMMA AccountForwarded == IInv /\ Accounted /\ Forwarded => Accounted'
<1> SUFFICES ASSUME IInv, Accounted, Forwarded
             PROVE  Accounted'
  OBVIOUS
<1> DEFINE x == Assembled(Top.spec)
<1>1. Here = "forward" /\ Here # "unit"
  BY DEF Forwarded
<1>2. globals \in Globals /\ Top.spec \in Specs \cup {Nothing}
  BY <1>1, OnTop DEF IInv, Good, Frames
<1>3. x \in Frames /\ x.kind = "assemble" /\ x.saved = globals
  BY <1>2 DEF Assembled, Frames, Kinds
<1>4. /\ stack' = Append(Below, x) /\ globals' = OutOfContext
      /\ finalizing' = finalizing
  BY DEF Forwarded
<1> HIDE DEF x
<1>5. Same(globals, Top.saved, finalizing)
  <2>1. Same(globals, globals, finalizing)
    BY DEF Same
  <2> QED
    BY <1>1, <2>1, PassedOn
<1>6. Sound(Below, globals, finalizing)
  BY <1>1, <1>2, <1>5, Returns
<1>7. \/ finalizing
      \/ Len(Below) = 0 \/ Below[Len(Below)].kind \notin Draining
  BY <1>1, NoDrainBelow
<1>8. /\ OutOfContext \in Globals
      /\ Hands("assemble", globals, OutOfContext, finalizing)
  BY <1>2, AssemblyHands
<1>9. Sound(Append(Below, x), OutOfContext, finalizing)
  BY <1>3, <1>6, <1>7, <1>8, Begins
<1> QED
  BY <1>4, <1>9, SoundAgain

(* An assembled class is queued and drained. *)
LEMMA AccountClassAssembled == IInv /\ Accounted /\ ClassAssembled => Accounted'
<1> SUFFICES ASSUME IInv, Accounted, ClassAssembled
             PROVE  Accounted'
  OBVIOUS
<1> DEFINE h == [globals EXCEPT !.jump = Top.saved.jump]
<1>1. Here = "assemble" /\ Here # "unit"
  BY DEF ClassAssembled
<1>2. globals \in Globals /\ Top.saved \in Globals
  BY <1>1, OnTop DEF IInv, Good
<1>3. DrainOn(Below, h, TRUE) /\ finalizing' = finalizing
  BY DEF ClassAssembled
<1>4. h \in Globals /\ Same(h, globals, finalizing)
  BY <1>2 DEF Globals, Same
<1> HIDE DEF h
<1>5. Sound(Below, h, finalizing)
  BY <1>1, <1>4, PassedOn, Returns
<1>6. \/ finalizing
      \/ Len(Below) = 0 \/ Below[Len(Below)].kind \notin Draining
  BY <1>1, NoDrainBelow
<1> QED
  BY <1>3, <1>5, <1>6, DrainBegins

(* A class body ends, and may start a drain. *)
LEMMA AccountStructEnds == IInv /\ Accounted /\ StructEnds => Accounted'
<1> SUFFICES ASSUME IInv, Accounted, StructEnds
             PROVE  Accounted'
  OBVIOUS
<1> DEFINE h == [globals EXCEPT !.classes = @ - 1]
<1>1. Here = "struct" /\ Here # "unit"
  BY DEF StructEnds
<1>2. globals \in Globals /\ Top.saved \in Globals
  BY <1>1, OnTop DEF IInv, Good
<1>3. /\ finalizing' = finalizing
      /\ DrainOn(Below, h, TRUE) \/ (stack' = Below /\ globals' = h)
  BY DEF StructEnds
<1>4. /\ h \in Globals /\ h.probes = globals.probes /\ h.alias = globals.alias
      /\ h.classes = globals.classes - 1 /\ h.scoped = globals.scoped
      /\ h.compiling = globals.compiling
  BY <1>2 DEF Globals
<1> HIDE DEF h
<1>5. Same(h, Top.saved, finalizing)
  <2>1. Hands("struct", Top.saved, globals, finalizing)
    BY <1>1, TopHands
  <2>2. globals.classes = Top.saved.classes + 1 /\ Top.saved.classes \in Int
    BY <1>2, <2>1 DEF Hands, Globals
  <2>3. h.classes = Top.saved.classes
    BY <1>4, <2>2
  <2> QED
    BY <1>4, <2>1, <2>3 DEF Hands, Same, Counting, Draining, Scopes
<1>6. Sound(Below, h, finalizing)
  BY <1>1, <1>4, <1>5, Returns
<1>7. \/ finalizing
      \/ Len(Below) = 0 \/ Below[Len(Below)].kind \notin Draining
  BY <1>1, NoDrainBelow
<1> QED
  BY <1>3, <1>6, <1>7, DrainBegins, SoundAgain

(* The running activation ends, its account settled. *)
LEMMA Settled ==
    ASSUME IInv, Accounted, Here # "unit", finalizing' = finalizing,
           NEW h \in Globals, Same(h, Top.saved, finalizing),
           stack' = Below, globals' = h
    PROVE  Accounted'
<1>1. Sound(Below, h, finalizing)
  BY Returns
<1> QED
  BY <1>1, SoundAgain

(* What a probe puts back. *)
LEMMA RestoredFields ==
    ASSUME globals \in Globals, NEW x \in Frames
    PROVE  /\ Restored(x) \in Globals
           /\ Restored(x).probes = x.saved.probes
           /\ Restored(x).scoped = x.saved.scoped
           /\ Restored(x).alias = x.saved.alias
           /\ Restored(x).classes = globals.classes
           /\ Restored(x).compiling = globals.compiling
<1>1. x.saved \in Globals
  BY DEF Frames
<1> QED
  BY <1>1 DEF Restored, Globals

(* A probe succeeds. *)
LEMMA AccountProbeEnds == IInv /\ Accounted /\ ProbeEnds => Accounted'
<1> SUFFICES ASSUME IInv, Accounted, ProbeEnds
             PROVE  Accounted'
  OBVIOUS
<1>1. /\ Here \in {"probe", "deduce"} /\ Here # "unit"
      /\ stack' = Below /\ globals' = Restored(Top) /\ finalizing' = finalizing
  BY DEF ProbeEnds
<1>2. globals \in Globals /\ Top \in Frames
  BY <1>1, OnTop DEF IInv, Good
<1>3. Hands(Here, Top.saved, globals, finalizing)
  BY <1>1, TopHands
<1>4. Same(Restored(Top), Top.saved, finalizing)
  BY <1>1, <1>2, <1>3, RestoredFields DEF Hands, Same, Replaying, Draining
<1>5. Restored(Top) \in Globals
  BY <1>2, RestoredFields
<1> QED
  BY <1>1, <1>4, <1>5, Settled

(* A name ends. *)
LEMMA AccountNameEnds == IInv /\ Accounted /\ NameEnds => Accounted'
<1> SUFFICES ASSUME IInv, Accounted, NameEnds
             PROVE  Accounted'
  OBVIOUS
<1> DEFINE q == IF Here = "alias" THEN globals.alias - 1 ELSE Top.saved.alias
           h == [globals EXCEPT !.alias = q]
<1>1. /\ Here \in {"alias", "qualified"} /\ Here # "unit"
      /\ stack' = Below /\ globals' = h /\ finalizing' = finalizing
  BY DEF NameEnds
<1>2. globals \in Globals /\ Top.saved \in Globals
  BY <1>1, OnTop DEF IInv, Good
<1>3. Hands(Here, Top.saved, globals, finalizing)
  BY <1>1, TopHands
<1>4. q = Top.saved.alias
  <2>1. CASE Here = "alias"
    <3>1. globals.alias = Top.saved.alias + 1 /\ Top.saved.alias \in Int
      BY <1>2, <1>3, <2>1 DEF Hands, Globals
    <3> QED
      BY <2>1, <3>1
  <2>2. CASE Here = "qualified"
    BY <2>2
  <2> QED
    BY <1>1, <2>1, <2>2
<1> HIDE DEF q
<1>5. /\ h \in Globals /\ h.probes = globals.probes /\ h.alias = Top.saved.alias
      /\ h.classes = globals.classes /\ h.scoped = globals.scoped
      /\ h.compiling = globals.compiling
  BY <1>2, <1>4 DEF Globals
<1> HIDE DEF h
<1>6. Same(h, Top.saved, finalizing)
  BY <1>1, <1>3, <1>5 DEF Hands, Same, Counting, Replaying, Draining, Scopes
<1> QED
  BY <1>1, <1>5, <1>6, Settled

(* A replay ends. *)
LEMMA AccountReplayEnds ==
    IInv /\ Accounted /\ (ItemEnds \/ DefineEnds) => Accounted'
<1> SUFFICES ASSUME IInv, Accounted, ItemEnds \/ DefineEnds
             PROVE  Accounted'
  OBVIOUS
<1>1. CASE ItemEnds
  <2> DEFINE h == [globals EXCEPT !.jump = Top.saved.jump,
                                  !.classes = Top.saved.classes]
  <2>1. /\ Here = "item" /\ Here # "unit"
        /\ stack' = Below /\ globals' = h /\ finalizing' = finalizing
    BY <1>1 DEF ItemEnds
  <2>2. globals \in Globals /\ Top.saved \in Globals
    BY <2>1, OnTop DEF IInv, Good
  <2>3. Hands(Here, Top.saved, globals, finalizing)
    BY <2>1, TopHands
  <2>4. /\ h \in Globals /\ h.probes = globals.probes /\ h.alias = globals.alias
        /\ h.classes = Top.saved.classes /\ h.scoped = globals.scoped
        /\ h.compiling = globals.compiling
    BY <2>2 DEF Globals
  <2> HIDE DEF h
  <2>5. Same(h, Top.saved, finalizing)
    BY <2>1, <2>3, <2>4 DEF Hands, Same, Counting, Draining, Scopes
  <2> QED
    BY <2>1, <2>4, <2>5, Settled
<1>2. CASE DefineEnds
  <2> DEFINE h == [globals EXCEPT !.jump = Top.saved.jump,
                                  !.classes = Top.saved.classes,
                                  !.scoped = Top.saved.scoped]
  <2>1. /\ Here = "define" /\ Here # "unit"
        /\ stack' = Below /\ globals' = h /\ finalizing' = finalizing
    BY <1>2 DEF DefineEnds
  <2>2. globals \in Globals /\ Top.saved \in Globals
    BY <2>1, OnTop DEF IInv, Good
  <2>3. Hands(Here, Top.saved, globals, finalizing)
    BY <2>1, TopHands
  <2>4. /\ h \in Globals /\ h.probes = globals.probes /\ h.alias = globals.alias
        /\ h.classes = Top.saved.classes /\ h.scoped = Top.saved.scoped
        /\ h.compiling = globals.compiling
    BY <2>2 DEF Globals
  <2> HIDE DEF h
  <2>5. Same(h, Top.saved, finalizing)
    BY <2>1, <2>3, <2>4 DEF Hands, Same, Counting, Draining
  <2> QED
    BY <2>1, <2>4, <2>5, Settled
<1> QED
  BY <1>1, <1>2

(* A drain ends with the worklist blocked. *)
LEMMA AccountDrainEnds == IInv /\ Accounted /\ DrainEnds => Accounted'
<1> SUFFICES ASSUME IInv, Accounted, DrainEnds
             PROVE  Accounted'
  OBVIOUS
<1> DEFINE q == IF Here = "quiet" THEN globals.quiet - 1 ELSE globals.quiet
           h == [globals EXCEPT !.compiling = @ - 1,
                                !.scoped = Top.saved.scoped, !.quiet = q]
<1>1. /\ Here \in {"drain", "quiet"} /\ Here # "unit"
      /\ stack' = Below /\ globals' = h /\ finalizing' = finalizing
  BY DEF DrainEnds
<1>2. globals \in Globals /\ Top.saved \in Globals
  BY <1>1, OnTop DEF IInv, Good
<1>3. Hands(Here, Top.saved, globals, finalizing)
  BY <1>1, TopHands
<1>4. q \in Int /\ globals.compiling - 1 \in Int /\ Top.saved.scoped \in BOOLEAN
  <2>1. globals.quiet \in Int /\ globals.compiling \in Int
    BY <1>2 DEF Globals
  <2>2. Top.saved.scoped \in BOOLEAN
    BY <1>2 DEF Globals
  <2> QED
    BY <2>1, <2>2
<1> HIDE DEF q
<1>5. /\ h \in Globals /\ h.probes = globals.probes /\ h.alias = globals.alias
      /\ h.classes = globals.classes /\ h.scoped = Top.saved.scoped
      /\ h.compiling = globals.compiling - 1
  BY <1>2, <1>4 DEF Globals
<1> HIDE DEF h
<1>6. finalizing \/ h.compiling = Top.saved.compiling
  <2>1. CASE ~finalizing
    <3>1. globals.compiling = Top.saved.compiling + 1 /\ Top.saved.compiling \in Int
      BY <1>1, <1>2, <1>3, <2>1 DEF Hands, Globals, Draining
    <3> QED
      BY <3>1, <1>5
  <2> QED
    BY <2>1
<1>7. Same(h, Top.saved, finalizing)
  BY <1>1, <1>3, <1>5, <1>6 DEF Hands, Same, Counting, Replaying
<1> QED
  BY <1>1, <1>5, <1>7, Settled

(* A body ends; it began without a scope. *)
LEMMA AccountBodyEnds == IInv /\ Accounted /\ BodyEnds => Accounted'
<1> SUFFICES ASSUME IInv, Accounted, BodyEnds
             PROVE  Accounted'
  OBVIOUS
<1> DEFINE h == [globals EXCEPT !.jump = Top.saved.jump, !.scoped = FALSE]
<1>1. /\ Here = "body" /\ Here # "unit"
      /\ stack' = Below /\ globals' = h /\ finalizing' = finalizing
  BY DEF BodyEnds
<1>2. globals \in Globals /\ Top.saved \in Globals
  BY <1>1, OnTop DEF IInv, Good
<1>3. Hands(Here, Top.saved, globals, finalizing)
  BY <1>1, TopHands
<1>4. /\ h \in Globals /\ h.probes = globals.probes /\ h.alias = globals.alias
      /\ h.classes = globals.classes /\ h.scoped = FALSE
      /\ h.compiling = globals.compiling
  BY <1>2 DEF Globals
<1> HIDE DEF h
<1>5. Same(h, Top.saved, finalizing)
  BY <1>1, <1>3, <1>4 DEF Hands, Same, Counting, Replaying, Draining
<1> QED
  BY <1>1, <1>4, <1>5, Settled

(* An assembled function is queued or its interface probed. *)
LEMMA AccountFunctionAssembled ==
    IInv /\ Accounted /\ FunctionAssembled => Accounted'
<1> SUFFICES ASSUME IInv, Accounted, FunctionAssembled
             PROVE  Accounted'
  OBVIOUS
<1>1. Here = "assemble" /\ Here # "unit" /\ finalizing' = finalizing
  BY DEF FunctionAssembled
<1>2. /\ globals \in Globals /\ Top.saved \in Globals
      /\ Top.spec \in Specs \cup {Nothing} /\ Len(stack) + 1 \in Nat
  BY <1>1, OnTop DEF IInv, Good, Frames
<1>3. CASE Drains
  <2> DEFINE h == [globals EXCEPT !.jump = Top.saved.jump]
  <2>1. stack' = Below /\ globals' = h
    BY <1>3 DEF FunctionAssembled
  <2>2. h \in Globals /\ Same(h, globals, finalizing)
    BY <1>2 DEF Globals, Same
  <2> HIDE DEF h
  <2>3. Same(h, Top.saved, finalizing)
    BY <1>1, <2>2, PassedOn
  <2> QED
    BY <1>1, <2>1, <2>2, <2>3, Settled
<1>4. CASE ~Drains
  <2>1. Enter("interface", Top.spec, Probed(Len(stack) + 1))
    BY <1>4 DEF FunctionAssembled
  <2>2. "interface" \in Counting /\ "interface" \in Kinds
    BY DEF Counting, Kinds
  <2>3. /\ Probed(Len(stack) + 1) \in Globals
        /\ Hands("interface", globals, Probed(Len(stack) + 1), finalizing)
    BY <1>2, <2>2, ProbedHands
  <2> QED
    BY <1>1, <1>2, <2>1, <2>2, <2>3, Called
<1> QED
  BY <1>3, <1>4

(* The interface ends with the function it is of: neither has changed more *)
(* than the probe puts back. *)
LEMMA AccountInterfaceEnds == IInv /\ Accounted /\ InterfaceEnds => Accounted'
<1> SUFFICES ASSUME IInv, Accounted, InterfaceEnds
             PROVE  Accounted'
  OBVIOUS
<1> DEFINE n == Len(stack)
           h == Restored(Top)
           m == n - 1
<1>1. /\ Here = "interface" /\ Here # "unit" /\ finalizing' = finalizing
      /\ stack' = SubSeq(stack, 1, n - 2) /\ globals' = h
  BY DEF InterfaceEnds
<1>2. /\ n \in Nat \ {0} /\ n \in 1..n /\ Top = stack[n] /\ Top \in Frames
      /\ Top.kind = "interface" /\ globals \in Globals
  BY <1>1, OnTop DEF IInv, Good
<1>3. n > 1 /\ Assembling(stack[m])
  BY <1>2 DEF IInv, Good, Founded
<1>4. Hands(Here, Top.saved, globals, finalizing)
  BY <1>1, TopHands
<1>5. h \in Globals /\ Same(h, Top.saved, finalizing)
  BY <1>1, <1>2, <1>4, RestoredFields DEF Hands, Same, Replaying, Draining
<1> HIDE DEF h, n
<1>6. m \in 1..n /\ m < n /\ m + 1 = n /\ m - 1 = n - 2
  BY <1>2, <1>3
<1>7. Hands("assemble", stack[m].saved, Top.saved, finalizing)
  <2>1. GlobalsAt(stack, globals, m) = Top.saved
    BY <1>2, <1>6 DEF GlobalsAt, n
  <2>2. Hands(stack[m].kind, stack[m].saved, GlobalsAt(stack, globals, m), finalizing)
    BY <1>6 DEF Accounted, Sound, Linked, n
  <2> QED
    BY <1>3, <2>1, <2>2 DEF Assembling
<1>8. Same(h, stack[m].saved, finalizing)
  BY <1>5, <1>7 DEF Hands, Same, Counting, Replaying, Draining, Scopes
<1> HIDE DEF m
<1>9. Sound(SubSeq(stack, 1, m - 1), h, finalizing)
  <2>1. Sound(stack, globals, finalizing) /\ m \in 1..Len(stack)
    BY <1>6 DEF Accounted, n
  <2> QED
    BY <1>5, <1>8, <2>1, Ends
<1> QED
  BY <1>1, <1>6, <1>9, SoundAgain

(* Numbers of a kind have a least one. *)
LEMMA Least ==
    ASSUME NEW T \in SUBSET Nat, T # {}
    PROVE  \E x \in T : \A y \in T : x <= y
<1> DEFINE R == OpToRel(<, Nat)
<1>1. IsWellFoundedOn(R, Nat)
  BY NatLessThanWellFounded, Zenon DEF R
<1>2. T \subseteq Nat
  OBVIOUS
<1>3. \A p \in Nat \X Nat : p[1] < p[2] => p \in R
  BY Zenon DEF OpToRel
<1> HIDE DEF R
<1>4. PICK x \in T : \A y \in T : ~ (<<y, x>> \in R)
  BY <1>1, <1>2, WFMin
<1>5. ASSUME NEW y \in T, y < x
      PROVE  FALSE
  <2>1. x \in Nat /\ y \in Nat
    OBVIOUS
  <2>2. <<y, x>> \in Nat \X Nat /\ <<y, x>>[1] < <<y, x>>[2]
    BY <1>5, <2>1
  <2>3. <<y, x>> \in R
    BY <1>3, <2>2
  <2> QED
    BY <1>4, <2>3
<1>6. \A y \in T : x <= y
  <2> TAKE y \in T
  <2>1. x \in Nat /\ y \in Nat
    OBVIOUS
  <2> QED
    BY <1>5, <2>1
<1> QED
  BY <1>6

(* What holds at m and is passed on from each place to the next holds at n.*)
LEMMA Climb ==
    ASSUME NEW m \in Nat, NEW n \in Nat, m <= n, NEW S, m \in S,
           \A k \in m..n : k < n /\ k \in S => k + 1 \in S
    PROVE  n \in S
<1> DEFINE T == {k \in m..n : k \notin S}
<1>1. SUFFICES ASSUME n \notin S
               PROVE  FALSE
  OBVIOUS
<1>2. T \in SUBSET Nat /\ T # {}
  <2>1. n \in T /\ \A k \in T : k \in Nat
    BY <1>1
  <2> QED
    BY <2>1
<1>3. \A k : k \in T <=> k \in m..n /\ k \notin S
  OBVIOUS
<1> HIDE DEF T
<1>4. PICK x \in T : \A y \in T : x <= y
  BY <1>2, Least
<1>5. x \in m..n /\ x \notin S /\ x # m
  BY <1>3
<1>6. x - 1 \in m..n /\ x - 1 < n /\ (x - 1) + 1 = x
  BY <1>5
<1>7. x - 1 \notin S
  BY <1>5, <1>6
<1>8. x - 1 \in T /\ ~(x <= x - 1)
  BY <1>3, <1>5, <1>6, <1>7
<1> QED
  BY <1>4, <1>8

(* Activations that leave the open classes and the drains alone hand on    *)
(* those that the first of them found. *)
LEMMA Carried ==
    ASSUME NEW s, NEW g, NEW fin, Sound(s, g, fin), NEW p \in 1..Len(s),
           \A i \in p..Len(s) :
              /\ s[i].kind \notin Replaying /\ s[i].kind # "struct"
              /\ fin \/ s[i].kind \notin Draining
    PROVE  /\ g.classes = s[p].saved.classes
           /\ fin \/ g.compiling = s[p].saved.compiling
<1> DEFINE n == Len(s)
           c == s[p].saved
           Kept(k) == /\ GlobalsAt(s, g, k).classes = c.classes
                      /\ fin \/ GlobalsAt(s, g, k).compiling = c.compiling
           S == {k \in 0..n : Kept(k)}
           m == p - 1
<1>1. n \in Nat /\ p \in 1..n /\ m \in Nat /\ m <= n /\ m \in 0..n
  BY DEF Sound
<1>2. m \in S
  <2>1. m < n /\ m + 1 = p
    BY <1>1
  <2>2. GlobalsAt(s, g, m) = c
    BY <2>1 DEF GlobalsAt
  <2> QED
    BY <1>1, <2>2
<1>3. ASSUME NEW k \in m..n, k < n, k \in S
      PROVE  k + 1 \in S
  <2>1. k + 1 \in p..n /\ k + 1 \in 1..n /\ k + 1 \in 0..n
    BY <1>1, <1>3
  <2>2. Kept(k) /\ GlobalsAt(s, g, k) = s[k + 1].saved
    BY <1>3 DEF GlobalsAt
  <2>3. Hands(s[k + 1].kind, s[k + 1].saved, GlobalsAt(s, g, k + 1), fin)
    BY <2>1 DEF Sound, Linked
  <2>4. /\ s[k + 1].kind \notin Replaying /\ s[k + 1].kind # "struct"
        /\ fin \/ s[k + 1].kind \notin Draining
    BY <2>1
  <2>5. Kept(k + 1)
    BY <2>2, <2>3, <2>4 DEF Hands
  <2> QED
    BY <2>1, <2>5
<1> HIDE DEF S, m, n
<1>4. n \in S
  BY <1>1, <1>2, <1>3, Climb
<1>5. Kept(n) /\ GlobalsAt(s, g, n) = g
  BY <1>1, <1>4 DEF S, n, GlobalsAt
<1> QED
  BY <1>5

(* An error that a probe recovers has left no class and no drain open: a   *)
(* replay would have cleared the jump. *)
LEMMA Abandoned ==
    ASSUME IInv, Accounted, globals.jump # 0, Fail
    PROVE  /\ globals.jump \in 1..Len(stack)
           /\ Probing(stack[globals.jump])
           /\ \A i \in globals.jump..Len(stack) :
                 /\ stack[i].kind \notin Replaying /\ stack[i].kind # "struct"
                 /\ finalizing \/ stack[i].kind \notin Draining
<1> DEFINE n == Len(stack)
           p == globals.jump
<1>1. n \in Nat /\ stack \in Seq(Frames)
  BY DEF IInv, Good
<1>2. /\ p \in 1..n /\ Probing(stack[p])
      /\ \A i \in 1..n : i > p => ~Probing(stack[i]) /\ ~Defining(stack[i])
  <2>1. InContext(stack, n, p)
    BY Current DEF IInv
  <2> QED
    BY <1>1, <2>1 DEF InContext
<1>3. Placed(stack, finalizing)
  BY DEF Accounted, Sound
<1>4. Here = stack[n].kind
  BY <1>1, <1>2 DEF Here
<1> HIDE DEF n, p
<1>5. ASSUME NEW i \in p..n
      PROVE  /\ stack[i].kind \notin Replaying /\ stack[i].kind # "struct"
             /\ finalizing \/ stack[i].kind \notin Draining
  <2>1. i \in 1..n /\ (i = p \/ i > p)
    BY <1>1, <1>2
  <2>2. stack[i].kind \notin Replaying
    BY <1>2, <2>1 DEF Replaying, Probing, Defining
  <2>3. stack[i].kind # "struct"
    <3>1. ASSUME stack[i].kind = "struct"
          PROVE  FALSE
      <4>1. i # p
        BY <1>2, <3>1 DEF Probing
      <4>2. i - 1 \in 1..n /\ i # 1 /\ (i - 1 = p \/ i - 1 > p)
        BY <1>1, <1>2, <2>1, <4>1
      <4>3. stack[i - 1].kind \in Replaying
        BY <1>3, <2>1, <3>1, <4>2 DEF Placed, n
      <4> QED
        BY <1>2, <4>2, <4>3 DEF Replaying, Probing, Defining
    <3> QED
      BY <3>1
  <2>4. finalizing \/ stack[i].kind \notin Draining
    <3>1. ASSUME ~finalizing, stack[i].kind \in Draining
          PROVE  FALSE
      <4>1. CASE i = n
        BY <1>4, <3>1, <4>1 DEF Fail, Parsing, Draining
      <4>2. CASE i # n
        <5>1. i + 1 \in 1..n /\ i + 1 # 1 /\ i + 1 > p /\ (i + 1) - 1 = i
          BY <1>1, <1>2, <2>1, <4>2
        <5>2. stack[i + 1].kind = "item"
          BY <1>3, <3>1, <5>1 DEF Placed, n
        <5> QED
          BY <1>2, <5>1, <5>2 DEF Defining
      <4> QED
        BY <4>1, <4>2
    <3> QED
      BY <3>1
  <2> QED
    BY <2>2, <2>3, <2>4
<1> QED
  BY <1>2, <1>5 DEF n, p

(* An error is recovered by the probe the jump names. *)
LEMMA AccountRecover == IInv /\ Accounted /\ Fail /\ Recover => Accounted'
<1> SUFFICES ASSUME IInv, Accounted, Fail, Recover
             PROVE  Accounted'
  OBVIOUS
<1> DEFINE p == globals.jump
           h == Restored(stack[p])
           rest == SubSeq(stack, 1, p - 1)
<1>1. /\ p # 0 /\ globals' = h /\ finalizing' = finalizing
      /\ stack' = IF stack[p].kind = "interface"
                  THEN [rest EXCEPT ![Len(rest)].kind = "invalid"] ELSE rest
  BY DEF Recover
<1>2. /\ Sound(stack, globals, finalizing) /\ stack \in Seq(Frames)
      /\ globals \in Globals /\ Len(stack) \in Nat
  BY DEF Accounted, Sound
<1>3. /\ p \in 1..Len(stack)
      /\ \A i \in p..Len(stack) :
            /\ stack[i].kind \notin Replaying /\ stack[i].kind # "struct"
            /\ finalizing \/ stack[i].kind \notin Draining
  BY <1>1, Abandoned
<1> HIDE DEF p
<1>4. stack[p] \in Frames
  BY <1>2, <1>3
<1>5. /\ globals.classes = stack[p].saved.classes
      /\ finalizing \/ globals.compiling = stack[p].saved.compiling
  BY <1>2, <1>3, Carried
<1>6. h \in Globals /\ Same(h, stack[p].saved, finalizing)
  BY <1>2, <1>4, <1>5, RestoredFields DEF Same
<1> HIDE DEF h
<1>7. Sound(rest, h, finalizing)
  BY <1>2, <1>3, <1>6, Ends
<1>8. CASE stack[p].kind = "interface"
  <2> DEFINE m == p - 1
             x == [stack[m] EXCEPT !.kind = "invalid"]
             u == SubSeq(stack, 1, m - 1)
  <2>1. p > 1 /\ Assembling(stack[m])
    BY <1>3, <1>8 DEF IInv, Good, Founded
  <2>2. m \in 1..Len(stack) /\ m < Len(stack) /\ m + 1 = p
    BY <1>2, <1>3, <2>1
  <2>3. /\ x \in Frames /\ x.kind = "invalid" /\ x.saved = stack[m].saved
        /\ [rest EXCEPT ![Len(rest)].kind = "invalid"] = Append(u, x)
    <3>1. rest = SubSeq(stack, 1, m)
      OBVIOUS
    <3> HIDE DEF m, rest
    <3> QED
      BY <1>2, <2>2, <3>1, MarkedInvalid
  <2> HIDE DEF x, m, rest
  <2>4. Hands("assemble", stack[m].saved, stack[p].saved, finalizing)
    <3>1. GlobalsAt(stack, globals, m) = stack[p].saved
      BY <2>2 DEF GlobalsAt
    <3>2. Hands(stack[m].kind, stack[m].saved, GlobalsAt(stack, globals, m), finalizing)
      BY <1>2, <2>2 DEF Sound, Linked
    <3> QED
      BY <2>1, <3>1, <3>2 DEF Assembling
  <2>5. Hands("invalid", stack[m].saved, h, finalizing)
    BY <1>6, <2>4 DEF Hands, Same, Counting, Replaying, Draining, Scopes
  <2>6. Sound(u, stack[m].saved, finalizing)
    <3>0. stack[m] \in Frames
      BY <1>2, <2>2
    <3>1. stack[m].saved \in Globals
      BY <3>0 DEF Frames
    <3>2. Same(stack[m].saved, stack[m].saved, finalizing)
      BY DEF Same
    <3> QED
      BY <1>2, <2>2, <3>1, <3>2, Ends
  <2>7. \/ finalizing \/ Len(u) = 0 \/ u[Len(u)].kind \notin Draining
    <3>1. finalizing \/ m = 1 \/ stack[m - 1].kind \notin Draining
      BY <1>2, <2>1, <2>2 DEF Sound, Placed, Assembling
    <3>2. Len(u) = m - 1 /\ \A i \in 1..(m - 1) : u[i] = stack[i]
      BY <1>2, <2>2, CutOff
    <3>3. m = 1 \/ m - 1 \in 1..(m - 1)
      BY <2>2
    <3> QED
      BY <3>1, <3>2, <3>3
  <2> HIDE DEF u
  <2>8. Sound(Append(u, x), h, finalizing)
    BY <1>6, <2>3, <2>5, <2>6, <2>7, Begins
  <2> QED
    BY <1>1, <1>8, <2>3, <2>8, SoundAgain
<1>9. CASE stack[p].kind # "interface"
  BY <1>1, <1>7, <1>9, SoundAgain
<1> QED
  BY <1>8, <1>9

(* The next input begins with the neutral globals. *)
LEMMA AccountNextUnit == IInv /\ Accounted /\ NextUnit => Accounted'
<1> SUFFICES ASSUME IInv, Accounted, NextUnit
             PROVE  Accounted'
  OBVIOUS
<1> DEFINE h == [Neutral EXCEPT !.quiet = globals.quiet]
<1>1. stack' = <<>> /\ globals' = h
  BY DEF NextUnit
<1>2. globals.quiet \in Int
  BY DEF IInv, Good, Globals
<1>3. /\ h \in Globals /\ h.probes = Neutral.probes /\ h.alias = Neutral.alias
      /\ h.classes = Neutral.classes /\ h.scoped = Neutral.scoped
      /\ h.compiling = Neutral.compiling
  <2>1. Neutral \in Globals
    BY DEF Neutral, Globals
  <2> QED
    BY <1>2, <2>1 DEF Globals
<1> HIDE DEF h
<1>4. /\ \A fin : Same(h, Neutral, fin)
      /\ <<>> \in Seq(Frames) /\ Len(<<>>) = 0
      /\ GlobalsAt(<<>>, h, 0) = h
  BY <1>3 DEF Same, GlobalsAt
<1> QED
  BY <1>1, <1>3, <1>4
     DEF Accounted, Sound, Linked, Placed, GlobalsAt, Same, Hands

(* Nothing runs and the globals are neutral. *)
LEMMA InitAccounted == Init => Accounted
<1>1. Neutral \in Globals
  BY DEF Neutral, Globals
<1> QED
  BY <1>1 DEF Init, Accounted, Sound, Linked, Placed, GlobalsAt, Same

(* The globals are accounted for whether or not the phase changes: it does *)
(* so when nothing runs. *)
LEMMA AccountFinalize == IInv /\ Accounted /\ Finalize => Accounted'
<1> SUFFICES ASSUME IInv, Accounted, Finalize
             PROVE  Accounted'
  OBVIOUS
<1>1. /\ stack = <<>> /\ finalizing' = TRUE
      /\ stack' = stack /\ globals' = globals
  BY DEF Finalize
<1>2. Len(stack) = 0
  BY <1>1
<1>3. Sound(stack, globals, TRUE)
  BY <1>2 DEF Accounted, Sound, Linked, Placed, Same
<1> QED
  BY <1>1, <1>3 DEF Accounted, Sound, Linked, Placed, GlobalsAt, Same, Hands

(* The final phase drains. *)
LEMMA AccountFinalDrain == IInv /\ Accounted /\ FinalDrain => Accounted'
<1> SUFFICES ASSUME IInv, Accounted, FinalDrain
             PROVE  Accounted'
  OBVIOUS
<1>1. /\ stack = <<>> /\ DrainOn(stack, globals, FALSE)
      /\ finalizing' = finalizing
  BY DEF FinalDrain
<1>2. Len(stack) = 0
  BY <1>1
<1>3. Sound(stack, globals, finalizing)
  BY DEF Accounted
<1> QED
  BY <1>1, <1>2, <1>3, DrainBegins

(* Every step keeps the account. *)
LEMMA NextAccounted == IInv /\ Accounted /\ [Next]_vars => Accounted'
<1> SUFFICES ASSUME IInv, Accounted, [Next]_vars
             PROVE  Accounted'
  OBVIOUS
<1>1. CASE \/ \E kind \in {"probe", "deduce"} : Probe(kind)
           \/ Alias \/ Qualified \/ Body
           \/ \E c \in Specs : Struct(c)
  BY <1>1, AccountEnter
<1>2. CASE ProbeEnds \/ NameEnds \/ BodyEnds \/ DrainEnds
  BY <1>2, AccountProbeEnds, AccountNameEnds, AccountBodyEnds, AccountDrainEnds
<1>3. CASE \E s \in Specs : Item(s)
  BY <1>3, AccountItem
<1>4. CASE \E y \in Functions : InstantiateFunction(y)
  BY <1>4, AccountInstantiateFunction
<1>5. CASE \E c \in Classes : InstantiateClass(c) \/ DefineNow(c)
  BY <1>5, AccountInstantiateClass, AccountDefineNow
<1>6. CASE ItemEnds \/ DefineEnds \/ Forwarded \/ ClassAssembled \/ StructEnds
  BY <1>6, AccountReplayEnds, AccountForwarded, AccountClassAssembled,
     AccountStructEnds
<1>7. CASE FunctionAssembled \/ InterfaceEnds
  BY <1>7, AccountFunctionAssembled, AccountInterfaceEnds
<1>8. CASE Error \/ EndUnit
  BY <1>8, AccountRecover, AccountNextUnit DEF Error, EndUnit
<1>9. CASE Finalize \/ FinalDrain
  BY <1>9, AccountFinalize, AccountFinalDrain
<1>10. CASE UNCHANGED vars
  BY <1>10, SoundAgain DEF vars, Accounted
<1> QED
  BY <1>1, <1>2, <1>3, <1>4, <1>5, <1>6, <1>7, <1>8, <1>9, <1>10 DEF Next

(* Whatever is parsed, instantiated, recovered or abandoned, the globals   *)
(* are those the running activations have made of the neutral ones. *)
LEMMA AlwaysAccounted == Spec => []Accounted
<1>1. Init => IInv /\ Accounted
  BY InitIInv, InitAccounted
<1>2. IInv /\ Accounted /\ [Next]_vars => IInv' /\ Accounted'
  BY NextIInv, NextAccounted
<1> QED
  BY <1>1, <1>2, PTL DEF Spec

-----------------------------------------------------------------------------
(* The first k activations of s of the kinds K with none of R above them.  *)
Since(s, k, K, R) ==
    {i \in 1..k : s[i].kind \in K /\ \A q \in i..k : s[q].kind \notin R}

(* A count that grows with each activation of K and starts again with each *)
(* of R is the number of those of K above the last of R. *)
LEMMA Tally ==
    ASSUME NEW s, NEW n \in Nat, NEW K, NEW R, K \cap R = {},
           NEW c, c[0] = 0, \A k \in 0..n : c[k] \in Int,
           \A k \in 1..n : c[k] = IF s[k].kind \in K THEN c[k - 1] + 1
                                  ELSE IF s[k].kind \in R THEN 0 ELSE c[k - 1]
    PROVE  c[n] = Cardinality(Since(s, n, K, R))
<1> DEFINE A(k) == Since(s, k, K, R)
           S == {k \in 0..n : c[k] = Cardinality(A(k))}
<1>1. \A k \in Nat : IsFiniteSet(A(k))
  <2> TAKE k \in Nat
  <2>1. 1 \in Int /\ k \in Int
    OBVIOUS
  <2>2. IsFiniteSet(1..k)
    BY <2>1, FS_Interval
  <2>3. A(k) \subseteq 1..k
    BY DEF Since
  <2> HIDE DEF A
  <2> QED
    BY <2>2, <2>3, FS_Subset
<1>2. 0 \in S
  <2>1. A(0) = {}
    BY DEF Since
  <2>2. Cardinality(A(0)) = 0
    BY <2>1, FS_EmptySet
  <2> QED
    BY <2>2
<1>3. ASSUME NEW k \in 0..n, k < n, k \in S
      PROVE  k + 1 \in S
  <2>1. k + 1 \in 1..n /\ k + 1 \in 0..n /\ (k + 1) - 1 = k /\ k \in Nat
    BY <1>3
  <2>2. c[k] = Cardinality(A(k)) /\ c[k] \in Int
    BY <1>3
  <2>3. \A i \in 1..k : i..(k + 1) = (i..k) \cup {k + 1}
    BY <2>1
  <2>4. 1..(k + 1) = (1..k) \cup {k + 1} /\ (k + 1)..(k + 1) = {k + 1}
    BY <2>1
  <2>5. CASE s[k + 1].kind \in K
    <3>1. s[k + 1].kind \notin R
      BY <2>5
    <3>2. A(k + 1) = A(k) \cup {k + 1}
      <4>1. \A i \in 1..k : i \in A(k + 1) <=> i \in A(k)
        BY <2>3, <2>4, <3>1 DEF Since
      <4>2. k + 1 \in A(k + 1)
        BY <2>4, <2>5, <3>1 DEF Since
      <4>3. \A i : i \in A(k + 1) => i \in 1..k \/ i = k + 1
        BY <2>4 DEF Since
      <4>4. \A i \in A(k) : i \in 1..k
        BY DEF Since
      <4> QED
        BY <4>1, <4>2, <4>3, <4>4
    <3>3. k + 1 \notin A(k)
      BY <2>1 DEF Since
    <3>4. IsFiniteSet(A(k))
      BY <1>1, <2>1
    <3> HIDE DEF A
    <3>5. Cardinality(A(k + 1)) = Cardinality(A(k)) + 1
      BY <3>2, <3>3, <3>4, FS_AddElement
    <3>6. c[k + 1] = c[k] + 1
      BY <2>1, <2>5
    <3> QED
      BY <2>1, <2>2, <3>5, <3>6
  <2>6. CASE s[k + 1].kind \notin K /\ s[k + 1].kind \in R
    <3>1. A(k + 1) = {}
      BY <2>3, <2>4, <2>6 DEF Since
    <3>2. Cardinality(A(k + 1)) = 0
      BY <3>1, FS_EmptySet
    <3>3. c[k + 1] = 0
      BY <2>1, <2>6
    <3> QED
      BY <2>1, <3>2, <3>3
  <2>7. CASE s[k + 1].kind \notin K /\ s[k + 1].kind \notin R
    <3>1. A(k + 1) = A(k)
      <4>1. \A i \in 1..k : i \in A(k + 1) <=> i \in A(k)
        BY <2>3, <2>4, <2>7 DEF Since
      <4>2. \A i : i \in A(k + 1) => i \in 1..k
        BY <2>4, <2>7 DEF Since
      <4>3. \A i \in A(k) : i \in 1..k
        BY DEF Since
      <4> QED
        BY <4>1, <4>2, <4>3
    <3>2. c[k + 1] = c[k]
      BY <2>1, <2>7
    <3> QED
      BY <2>1, <2>2, <3>1, <3>2
  <2> QED
    BY <2>5, <2>6, <2>7
<1> HIDE DEF S
<1>4. n \in S
  BY <1>2, <1>3, Climb
<1> QED
  BY <1>4 DEF S

(* Above the innermost activation of the kinds R there is none of them.    *)
LEMMA AboveLast ==
    ASSUME IInv, NEW R
    PROVE  /\ Last(At(R)) \in 0..Len(stack)
           /\ Last(At(R)) = 0 <=> At(R) = {}
           /\ Last(At(R)) # 0 => stack[Last(At(R))].kind \in R
           /\ \A i \in 1..Len(stack) :
                 i > Last(At(R)) <=> \A q \in i..Len(stack) : stack[q].kind \notin R
<1> DEFINE n == Len(stack)
           T == At(R)
           l == Last(T)
<1>1. n \in Nat /\ DOMAIN stack = 1..n
  BY DEF IInv, Good
<1>2. \A i : i \in T <=> i \in 1..n /\ stack[i].kind \in R
  BY <1>1 DEF At
<1>3. T \in SUBSET (1..n)
  BY <1>2
<1> HIDE DEF T, n
<1>4. /\ l \in 0..n /\ (l = 0 <=> T = {}) /\ (l # 0 => l \in T)
      /\ \A i \in T : i <= l
  <2>1. CASE T = {}
    <3>1. l = 0
      BY <2>1 DEF Last
    <3> QED
      BY <1>1, <2>1, <3>1
  <2>2. CASE T # {}
    <3>1. l \in T /\ \A i \in T : i <= l
      BY <1>1, <1>3, <2>2, LastIsIn
    <3> HIDE DEF l
    <3> QED
      BY <1>1, <1>2, <2>2, <3>1
  <2> QED
    BY <2>1, <2>2
<1> HIDE DEF l
<1>5. ASSUME NEW i \in 1..n
      PROVE  i > l <=> \A q \in i..n : stack[q].kind \notin R
  <2>1. ASSUME i > l, NEW q \in i..n
        PROVE  stack[q].kind \notin R
    <3>1. q \in 1..n /\ q > l
      BY <1>1, <1>4, <2>1
    <3> QED
      BY <1>2, <1>4, <3>1
  <2>2. ASSUME ~(i > l)
        PROVE  \E q \in i..n : stack[q].kind \in R
    <3>1. l \in i..n /\ l \in T
      BY <1>1, <1>4, <2>2
    <3> QED
      BY <1>2, <3>1
  <2> QED
    BY <2>1, <2>2
<1>6. l # 0 => stack[l].kind \in R
  BY <1>2, <1>4
<1> QED
  BY <1>4, <1>5, <1>6 DEF l, T, n

(* The globals that the first k activations account for. *)
LEMMA Accounts ==
    ASSUME IInv, Accounted
    PROVE  LET Found(k) == GlobalsAt(stack, globals, k)
           IN /\ \A k \in 0..Len(stack) : Found(k) \in Globals
              /\ Same(Found(0), Neutral, finalizing)
              /\ Found(Len(stack)) = globals
              /\ \A k \in 1..Len(stack) :
                    /\ Found(k - 1) = stack[k].saved
                    /\ Hands(stack[k].kind, Found(k - 1), Found(k), finalizing)
<1> DEFINE n == Len(stack)
           Found(k) == GlobalsAt(stack, globals, k)
<1>1. n \in Nat /\ stack \in Seq(Frames) /\ globals \in Globals
  BY DEF IInv, Good
<1>2. ASSUME NEW k \in 1..n
      PROVE  Found(k - 1) = stack[k].saved /\ stack[k].saved \in Globals
  <2>1. k - 1 < n /\ (k - 1) + 1 = k
    BY <1>1
  <2>2. stack[k] \in Frames
    BY <1>1
  <2> QED
    BY <2>1, <2>2 DEF GlobalsAt, Frames
<1>3. Found(n) = globals
  BY <1>1 DEF GlobalsAt
<1>4. ASSUME NEW k \in 0..n
      PROVE  Found(k) \in Globals
  <2>1. CASE k = n
    BY <2>1, <1>1, <1>3
  <2>2. CASE k < n
    <3>1. k + 1 \in 1..n /\ (k + 1) - 1 = k
      BY <1>1, <2>2
    <3>2. Found((k + 1) - 1) \in Globals
      BY <1>2, <3>1
    <3> QED
      BY <3>1, <3>2
  <2> QED
    BY <2>1, <2>2, <1>1
<1>5. Same(Found(0), Neutral, finalizing)
  BY DEF Accounted, Sound, Linked
<1>6. ASSUME NEW k \in 1..n
      PROVE  Hands(stack[k].kind, Found(k - 1), Found(k), finalizing)
  <2>1. Hands(stack[k].kind, stack[k].saved, Found(k), finalizing)
    BY DEF Accounted, Sound, Linked
  <2> QED
    BY <1>2, <2>1
<1> QED
  BY <1>2, <1>3, <1>4, <1>5, <1>6

(* A global that counts the activations of K since the last of R. *)
LEMMA CountedAbove ==
    ASSUME IInv, NEW K, NEW R, K \cap R = {},
           NEW c, c[0] = 0, \A k \in 0..Len(stack) : c[k] \in Int,
           \A k \in 1..Len(stack) :
              c[k] = IF stack[k].kind \in K THEN c[k - 1] + 1
                     ELSE IF stack[k].kind \in R THEN 0 ELSE c[k - 1]
    PROVE  c[Len(stack)] = Cardinality({i \in At(K) : i > Last(At(R))})
<1>1. Len(stack) \in Nat /\ DOMAIN stack = 1..Len(stack)
  BY DEF IInv, Good
<1>2. Since(stack, Len(stack), K, R) = {i \in At(K) : i > Last(At(R))}
  <2>1. \A i \in 1..Len(stack) :
           i > Last(At(R)) <=> \A q \in i..Len(stack) : stack[q].kind \notin R
    BY AboveLast
  <2>2. \A i : i \in At(K) <=> i \in 1..Len(stack) /\ stack[i].kind \in K
    BY <1>1 DEF At
  <2> QED
    BY <2>1, <2>2 DEF Since
<1>3. c[Len(stack)] = Cardinality(Since(stack, Len(stack), K, R))
  BY <1>1, Tally
<1> QED
  BY <1>2, <1>3

(* All activations are above none. *)
LEMMA NothingAbove ==
    ASSUME IInv, NEW K
    PROVE  {i \in At(K) : i > Last(At({}))} = At(K)
<1>1. Len(stack) \in Nat /\ DOMAIN stack = 1..Len(stack)
  BY DEF IInv, Good
<1>2. At({}) = {}
  BY DEF At
<1>3. Last(At({})) = 0
  BY <1>2 DEF Last
<1>4. \A i \in At(K) : i > 0
  BY <1>1 DEF At
<1> QED
  BY <1>3, <1>4

(* A local scope is that of the innermost body, unless something that puts *)
(* scopes aside runs above it. *)
LEMMA ScopeOfInnermost ==
    ASSUME IInv, Accounted
    PROVE  LET scope == Last(At(Scopes))
           IN globals.scoped = (scope # 0 /\ stack[scope].kind = "body")
<1> DEFINE n == Len(stack)
           Found(k) == GlobalsAt(stack, globals, k)
           l == Last(At(Scopes))
           b == stack[l].kind = "body"
           S == {k \in 0..n : k >= l /\ Found(k).scoped = (l # 0 /\ b)}
<1>1. n \in Nat
  BY DEF IInv, Good
<1>2. /\ l \in 0..n
      /\ l # 0 => stack[l].kind \in Scopes
      /\ \A i \in 1..n : i > l => stack[i].kind \notin Scopes
  <2>1. /\ l \in 0..n
        /\ l # 0 => stack[l].kind \in Scopes
        /\ \A i \in 1..n : i > l <=> \A q \in i..n : stack[q].kind \notin Scopes
    BY AboveLast
  <2>2. \A i \in 1..n : i \in i..n
    BY <1>1
  <2> QED
    BY <2>1, <2>2
<1>3. /\ Same(Found(0), Neutral, finalizing) /\ Found(n) = globals
      /\ \A k \in 1..n : Hands(stack[k].kind, Found(k - 1), Found(k), finalizing)
  BY Accounts
<1> HIDE DEF Found, n, l
<1>4. l \in S
  <2>1. CASE l = 0
    <3>1. Found(l).scoped = FALSE
      BY <1>3, <2>1 DEF Same, Neutral
    <3>2. (l # 0 /\ b) = FALSE
      BY <2>1
    <3>3. Found(l).scoped = (l # 0 /\ b)
      BY <3>1, <3>2
    <3>4. l >= l
      BY <1>1, <1>2
    <3> QED
      BY <1>2, <3>3, <3>4
  <2>2. CASE l # 0
    <3>1. l \in 1..n
      BY <1>1, <1>2, <2>2
    <3>2. Found(l).scoped = b
      BY <1>2, <1>3, <2>2, <3>1 DEF Hands
    <3>3. l >= l
      BY <1>1, <1>2
    <3> QED
      BY <1>2, <2>2, <3>2, <3>3
  <2> QED
    BY <2>1, <2>2
<1>5. ASSUME NEW k \in l..n, k < n, k \in S
      PROVE  k + 1 \in S
  <2>1. /\ k + 1 \in 1..n /\ k + 1 \in 0..n /\ k + 1 > l /\ k + 1 >= l
        /\ (k + 1) - 1 = k
    BY <1>1, <1>2, <1>5
  <2>2. Found(k + 1).scoped = Found(k).scoped
    <3>1. Hands(stack[k + 1].kind, Found(k), Found(k + 1), finalizing)
      BY <1>3, <2>1
    <3>2. stack[k + 1].kind \notin Scopes
      BY <1>2, <2>1
    <3> QED
      BY <3>1, <3>2 DEF Hands
  <2>3. Found(k).scoped = (l # 0 /\ b)
    BY <1>5
  <2> QED
    BY <2>1, <2>2, <2>3
<1>6. l \in Nat /\ l <= n
  BY <1>1, <1>2
<1> HIDE DEF S
<1>7. n \in S
  BY <1>1, <1>4, <1>5, <1>6, Climb
<1>8. Found(n).scoped = (l # 0 /\ b)
  BY <1>7 DEF S
<1> QED
  BY <1>3, <1>8 DEF l

(* The account is what CallerRestored says of the five globals. *)
LEMMA AccountsRestored == IInv /\ Accounted => CallerRestored
<1> SUFFICES ASSUME IInv, Accounted
             PROVE  CallerRestored
  OBVIOUS
<1> DEFINE n == Len(stack)
           Found(k) == GlobalsAt(stack, globals, k)
<1>1. /\ \A k \in 0..n : Found(k) \in Globals
      /\ Same(Found(0), Neutral, finalizing)
      /\ Found(n) = globals
      /\ \A k \in 1..n : Hands(stack[k].kind, Found(k - 1), Found(k), finalizing)
  BY Accounts
<1>2. /\ n \in Nat /\ 0 \in 0..n /\ n \in 0..n
      /\ \A k \in 1..n : k \in 0..n /\ k - 1 \in 0..n
  BY DEF IInv, Good
<1>3. ASSUME NEW k \in 0..n
      PROVE  /\ Found(k).probes \in Int /\ Found(k).alias \in Int
             /\ Found(k).classes \in Int /\ Found(k).compiling \in Int
  <2>1. Found(k) \in Globals
    BY <1>1
  <2> HIDE DEF Found
  <2> QED
    BY <2>1 DEF Globals
<1> HIDE DEF Found, n
<1>4. globals.probes = Cardinality(At({"probe", "interface", "deduce"}))
  <2> DEFINE c == [k \in 0..n |-> Found(k).probes]
             K == {"probe", "interface", "deduce"}
  <2>1. c[0] = 0 /\ c[n] = globals.probes
    BY <1>1, <1>2 DEF Same, Neutral
  <2>2. \A k \in 0..n : c[k] \in Int
    BY <1>3
  <2>3. \A k \in 1..n : c[k] = IF stack[k].kind \in K THEN c[k - 1] + 1
                               ELSE IF stack[k].kind \in {} THEN 0 ELSE c[k - 1]
    BY <1>1, <1>2 DEF Hands, Counting
  <2>4. K \cap {} = {}
    OBVIOUS
  <2> HIDE DEF c, K
  <2>5. c[n] = Cardinality({i \in At(K) : i > Last(At({}))})
    BY <2>1, <2>2, <2>3, <2>4, CountedAbove DEF n
  <2>6. {i \in At(K) : i > Last(At({}))} = At(K)
    BY NothingAbove
  <2> QED
    BY <2>1, <2>5, <2>6 DEF K
<1>5. globals.alias = Cardinality({i \in At({"alias"}) : i > Last(At({"qualified"}))})
  <2> DEFINE c == [k \in 0..n |-> Found(k).alias]
             K == {"alias"}
             R == {"qualified"}
  <2>1. c[0] = 0 /\ c[n] = globals.alias
    BY <1>1, <1>2 DEF Same, Neutral
  <2>2. \A k \in 0..n : c[k] \in Int
    BY <1>3
  <2>3. \A k \in 1..n : c[k] = IF stack[k].kind \in K THEN c[k - 1] + 1
                               ELSE IF stack[k].kind \in R THEN 0 ELSE c[k - 1]
    BY <1>1, <1>2 DEF Hands
  <2>4. K \cap R = {}
    OBVIOUS
  <2> HIDE DEF c, K, R
  <2>5. c[n] = Cardinality({i \in At(K) : i > Last(At(R))})
    BY <2>1, <2>2, <2>3, <2>4, CountedAbove DEF n
  <2> QED
    BY <2>1, <2>5 DEF K, R
<1>6. globals.classes =
         Cardinality({i \in At({"struct"}) : i > Last(At({"item", "define"}))})
  <2> DEFINE c == [k \in 0..n |-> Found(k).classes]
             K == {"struct"}
             R == {"item", "define"}
  <2>1. c[0] = 0 /\ c[n] = globals.classes
    BY <1>1, <1>2 DEF Same, Neutral
  <2>2. \A k \in 0..n : c[k] \in Int
    BY <1>3
  <2>3. \A k \in 1..n : c[k] = IF stack[k].kind \in K THEN c[k - 1] + 1
                               ELSE IF stack[k].kind \in R THEN 0 ELSE c[k - 1]
    BY <1>1, <1>2 DEF Hands, Replaying
  <2>4. K \cap R = {}
    OBVIOUS
  <2> HIDE DEF c, K, R
  <2>5. c[n] = Cardinality({i \in At(K) : i > Last(At(R))})
    BY <2>1, <2>2, <2>3, <2>4, CountedAbove DEF n
  <2> QED
    BY <2>1, <2>5 DEF K, R
<1>7. ASSUME ~finalizing
      PROVE  globals.compiling = Cardinality(At({"drain", "quiet"}))
  <2> DEFINE c == [k \in 0..n |-> Found(k).compiling]
             K == {"drain", "quiet"}
  <2>1. c[0] = 0 /\ c[n] = globals.compiling
    BY <1>1, <1>2, <1>7 DEF Same, Neutral
  <2>2. \A k \in 0..n : c[k] \in Int
    BY <1>3
  <2>3. \A k \in 1..n : c[k] = IF stack[k].kind \in K THEN c[k - 1] + 1
                               ELSE IF stack[k].kind \in {} THEN 0 ELSE c[k - 1]
    BY <1>1, <1>2, <1>7 DEF Hands, Draining
  <2>4. K \cap {} = {}
    OBVIOUS
  <2> HIDE DEF c, K
  <2>5. c[n] = Cardinality({i \in At(K) : i > Last(At({}))})
    BY <2>1, <2>2, <2>3, <2>4, CountedAbove DEF n
  <2>6. {i \in At(K) : i > Last(At({}))} = At(K)
    BY NothingAbove
  <2> QED
    BY <2>1, <2>5, <2>6 DEF K
<1>8. LET scope == Last(At(Scopes))
      IN globals.scoped = (scope # 0 /\ stack[scope].kind = "body")
  BY ScopeOfInnermost
<1> QED
  BY <1>4, <1>5, <1>6, <1>7, <1>8 DEF CallerRestored, Scopes

(* Whatever was parsed, instantiated, recovered or abandoned in between,   *)
(* the globals are those the running activations account for, so that a    *)
(* failed probe hands its caller the globals it was handed                 *)
(* (template_probe_type_ex, compile_pending_template_specs). *)
THEOREM CallersRestored == Spec => []CallerRestored
BY Invariance, AlwaysAccounted, AccountsRestored, PTL

=============================================================================
