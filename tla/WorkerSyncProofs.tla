-------------------------- MODULE WorkerSyncProofs --------------------------
(***************************************************************************)
(* For any clones, work and faults: no work is lost, published changes to  *)
(* the same lines have been weighed against each other, and a clone whose  *)
(* last probe failed publishes nothing.                                    *)
(***************************************************************************)
EXTENDS WorkerSync, WellFoundedInduction, TLAPS

(* The work that is published or in a clone. *)
Present == base \cup UNION {Unpublished(c) : c \in Clone}

Commits == (SUBSET Work) \ {{}}

TypeOK ==
    /\ base \in SUBSET Work
    /\ upstream \in [Clone -> SUBSET Work] /\ onto \in [Clone -> SUBSET Work]
    /\ local \in [Clone -> Seq(Commits)] /\ todo \in [Clone -> Seq(Commits)]
    /\ settled \in [Clone -> BOOLEAN] /\ dirty \in [Clone -> SUBSET Work]
    /\ seen \in [Work -> SUBSET Work]
    /\ made \in [Clone -> SUBSET Work]

ScriptOK ==
    /\ pc \in [Clone -> Places] /\ ok \in [Clone -> BOOLEAN]
    /\ gate \in [Clone -> {"none", "empty", "0", "1"}]
    /\ lost \in [Clone -> BOOLEAN]
    /\ probe \in [Clone -> {"none", "pass", "fail"}]

(* One of the two was made, or settled, knowing the other. *)
Known(v, w) == v # w /\ {v, w} \in Clash => v \in seen[w] \/ w \in seen[v]

(* What is, or can be put, on top of `onto' without another conflict. *)
Stacked(c) ==
    In(local[c]) \cup dirty[c] \cup (IF settled[c] THEN todo[c][1] ELSE {})

CloneOK(c) ==
    /\ upstream[c] \subseteq base /\ onto[c] \subseteq base
    /\ settled[c] => todo[c] # <<>>
    /\ \A w \in Unpublished(c) : Owner[w] = c
    /\ \A w \in Stacked(c), v \in onto[c] : Known(v, w)
    /\ made[c] \subseteq base \cup Unpublished(c)
    /\ Unpublished(c) \subseteq made[c]
    /\ \A w \in base : Owner[w] = c => w \in made[c]

(* A sync goes on only with the rebase finished. *)
Synchronizing(c) == pc[c] \in {"fetch", "rebase", "push"} => todo[c] = <<>>

(* The gate remembers a failed probe for the next worker, once written. *)
GateKept(c) ==
    probe[c] = "fail" /\ ~lost[c] =>
        /\ pc[c] # "off" => ~ok[c]
        /\ pc[c] \notin {"open", "write"} => gate[c] = "0"

IInv ==
    /\ TypeOK /\ ScriptOK /\ ConflictsWeighed
    /\ \A c \in Clone : CloneOK(c)
    /\ \A c \in Clone : Synchronizing(c)
    /\ \A c \in Clone : GateKept(c)

-----------------------------------------------------------------------------
(* Commits. *)

LEMMA InEach ==
    ASSUME NEW s \in Seq(Commits)
    PROVE  /\ \A w : w \in In(s) <=> \E i \in 1..Len(s) : w \in s[i]
           /\ \A i \in 1..Len(s) : s[i] \in Commits
           /\ Len(s) \in Nat
           /\ In(s) \subseteq Work
<1>1. DOMAIN s = 1..Len(s) /\ \A i \in 1..Len(s) : s[i] \in Commits
  OBVIOUS
<1>2. Len(s) \in Nat
  OBVIOUS
<1>3. \A w : w \in In(s) <=> \E i \in 1..Len(s) : w \in s[i]
  BY <1>1 DEF In, Range
<1>4. In(s) \subseteq Work
  BY <1>1, <1>3 DEF Commits
<1> QED
  BY <1>1, <1>2, <1>3, <1>4

LEMMA InAppend ==
    ASSUME NEW s \in Seq(Commits), NEW x \in Commits
    PROVE  Append(s, x) \in Seq(Commits) /\ In(Append(s, x)) = In(s) \cup x
<1> DEFINE t == Append(s, x)
           n == Len(s)
<1>1. /\ t \in Seq(Commits) /\ Len(t) = n + 1 /\ n \in Nat
      /\ \A i \in 1..n : t[i] = s[i]
      /\ t[n + 1] = x
  OBVIOUS
<1> HIDE DEF t
<1>2. \A i : i \in 1..(n + 1) <=> i \in 1..n \/ i = n + 1
  BY <1>1
<1>3. /\ \A w : w \in In(t) <=> \E i \in 1..(n + 1) : w \in t[i]
      /\ \A w : w \in In(s) <=> \E i \in 1..n : w \in s[i]
  BY <1>1, InEach
<1>4. \A w : w \in In(t) <=> w \in In(s) \/ w \in x
  BY <1>1, <1>2, <1>3
<1>5. In(t) = In(s) \cup x
  BY <1>4
<1> QED
  BY <1>1, <1>5 DEF t

LEMMA InNone == In(<<>>) = {} /\ <<>> \in Seq(Commits)
BY DEF In, Range

LEMMA InTail ==
    ASSUME NEW s \in Seq(Commits), s # <<>>
    PROVE  /\ s[1] \in Commits /\ Tail(s) \in Seq(Commits)
           /\ In(s) = s[1] \cup In(Tail(s))
<1> DEFINE t == Tail(s)
           n == Len(s)
<1>1. /\ n \in Nat \ {0} /\ t \in Seq(Commits) /\ Len(t) = n - 1
      /\ \A i \in 1..(n - 1) : t[i] = s[i + 1]
      /\ s[1] \in Commits
  OBVIOUS
<1> HIDE DEF t
<1>2. /\ \A w : w \in In(t) <=> \E i \in 1..(n - 1) : w \in t[i]
      /\ \A w : w \in In(s) <=> \E i \in 1..n : w \in s[i]
  BY <1>1, InEach
<1>3. /\ \A i \in 1..(n - 1) : i + 1 \in 1..n
      /\ \A i \in 1..n : i # 1 => i - 1 \in 1..(n - 1) /\ (i - 1) + 1 = i
      /\ 1 \in 1..n
  BY <1>1
<1>4. ASSUME NEW w \in In(s)
      PROVE  w \in s[1] \cup In(t)
  <2>1. PICK i \in 1..n : w \in s[i]
    BY <1>2, <1>4
  <2>2. CASE i # 1
    <3>1. t[i - 1] = s[(i - 1) + 1] /\ (i - 1) + 1 = i
      BY <1>1, <1>3, <2>2
    <3>2. w \in t[i - 1] /\ i - 1 \in 1..(n - 1)
      BY <1>3, <2>1, <2>2, <3>1
    <3> QED
      BY <1>2, <3>2
  <2> QED
    BY <2>1, <2>2
<1>5. ASSUME NEW w \in s[1] \cup In(t)
      PROVE  w \in In(s)
  <2>1. CASE w \in s[1]
    BY <1>2, <1>3, <2>1
  <2>2. CASE w \in In(t)
    <3>1. PICK i \in 1..(n - 1) : w \in t[i]
      BY <1>2, <2>2
    <3>2. w \in s[i + 1] /\ i + 1 \in 1..n
      BY <1>1, <1>3, <3>1
    <3> QED
      BY <1>2, <3>2
  <2> QED
    BY <1>5, <2>1, <2>2
<1>6. In(s) = s[1] \cup In(t)
  BY <1>4, <1>5
<1> QED
  BY <1>1, <1>6 DEF t

(* A sequence of commits in two parts, the first one on top of others.     *)
LEMMA InParts ==
    ASSUME NEW k \in Seq(Commits), NEW s \in Seq(Commits), NEW n \in 0..Len(s)
    PROVE  /\ k \o SubSeq(s, 1, n) \in Seq(Commits)
           /\ SubSeq(s, n + 1, Len(s)) \in Seq(Commits)
           /\ \A w : w \in In(k \o SubSeq(s, 1, n)) =>
                 w \in In(k) \/ \E i \in 1..n : w \in s[i]
           /\ In(k \o SubSeq(s, 1, n)) \cup In(SubSeq(s, n + 1, Len(s)))
                 = In(k) \cup In(s)
<1> DEFINE m == Len(k)
           l == Len(s)
           a == SubSeq(s, 1, n)
           t == k \o a
           r == SubSeq(s, n + 1, l)
<1>1. m \in Nat /\ l \in Nat /\ n \in Nat /\ n <= l
  OBVIOUS
<1>2. /\ a \in Seq(Commits) /\ Len(a) = n
      /\ \A i \in 1..n : a[i] = s[i]
  BY <1>1
<1>3. /\ r \in Seq(Commits) /\ Len(r) = l - n
      /\ \A i \in 1..(l - n) : r[i] = s[n + i]
  BY <1>1
<1> HIDE DEF a, r
<1>4. /\ t \in Seq(Commits) /\ Len(t) = m + n
      /\ \A i \in 1..m : t[i] = k[i]
      /\ \A i \in 1..n : t[m + i] = a[i]
  BY <1>1, <1>2
<1> HIDE DEF t
<1>5. /\ \A w : w \in In(t) <=> \E i \in 1..(m + n) : w \in t[i]
      /\ \A w : w \in In(r) <=> \E i \in 1..(l - n) : w \in r[i]
      /\ \A w : w \in In(s) <=> \E i \in 1..l : w \in s[i]
      /\ \A w : w \in In(k) <=> \E i \in 1..m : w \in k[i]
  BY <1>3, <1>4, InEach
<1>6. /\ \A i \in 1..(m + n) : i \in 1..m \/ (i - m \in 1..n /\ m + (i - m) = i)
      /\ \A i \in 1..m : i \in 1..(m + n)
      /\ \A i \in 1..n : m + i \in 1..(m + n) /\ i \in 1..l
      /\ \A i \in 1..(l - n) : n + i \in 1..l
      /\ \A i \in 1..l : i \in 1..n \/ (i - n \in 1..(l - n) /\ n + (i - n) = i)
  BY <1>1
<1>7. ASSUME NEW w \in In(t)
      PROVE  w \in In(k) \/ \E i \in 1..n : w \in s[i]
  <2>1. PICK i \in 1..(m + n) : w \in t[i]
    BY <1>5
  <2>2. CASE i \in 1..m
    BY <2>1, <2>2, <1>4, <1>5
  <2>3. CASE i - m \in 1..n /\ m + (i - m) = i
    <3>1. t[i] = s[i - m]
      BY <2>3, <1>2, <1>4
    <3> QED
      BY <2>1, <2>3, <3>1
  <2> QED
    BY <2>2, <2>3, <1>6
<1>8. ASSUME NEW w \in In(r)
      PROVE  w \in In(s)
  BY <1>3, <1>5, <1>6
<1>9. ASSUME NEW w \in In(k)
      PROVE  w \in In(t)
  BY <1>4, <1>5, <1>6
<1>10. ASSUME NEW w \in In(s)
       PROVE  w \in In(t) \cup In(r)
  <2>1. PICK i \in 1..l : w \in s[i]
    BY <1>5
  <2>2. CASE i \in 1..n
    <3>1. t[m + i] = s[i]
      BY <2>2, <1>2, <1>4
    <3> QED
      BY <2>1, <2>2, <3>1, <1>5, <1>6
  <2>3. CASE i - n \in 1..(l - n) /\ n + (i - n) = i
    <3>1. r[i - n] = s[i]
      BY <2>3, <1>3
    <3> QED
      BY <2>1, <2>3, <3>1, <1>5
  <2> QED
    BY <2>2, <2>3, <1>6
<1>11. \A i \in 1..n : i \in 1..l
  BY <1>6
<1>12. ASSUME NEW w \in In(t)
       PROVE  w \in In(k) \cup In(s)
  BY <1>5, <1>7, <1>11
<1>13. In(t) \cup In(r) = In(k) \cup In(s)
  BY <1>8, <1>9, <1>10, <1>12
<1> QED
  BY <1>3, <1>4, <1>7, <1>13 DEF t, a, r

LEMMA MinIsIn ==
    ASSUME NEW S \in SUBSET Nat, S # {}
    PROVE  Min(S) \in S /\ \A i \in S : Min(S) <= i
<1>1. PICK x \in S : \A y \in S : ~ (<<y, x>> \in OpToRel(<, Nat))
  BY NatLessThanWellFounded, WFMin
<1>2. ASSUME NEW y \in S
      PROVE  x <= y
  <2>1. ASSUME y < x
        PROVE  FALSE
    <3>1. <<y, x>> \in Nat \X Nat /\ <<y, x>>[1] < <<y, x>>[2]
      BY <2>1
    <3>2. <<y, x>> \in OpToRel(<, Nat)
      BY <3>1, Zenon DEF OpToRel
    <3> QED
      BY <1>1, <3>2
  <2> QED
    BY <2>1
<1> QED
  BY <1>2 DEF Min

(* What a rebase replays before it stops applies. *)
LEMMA AppliesRight ==
    ASSUME NEW s \in Seq(Commits), NEW tree
    PROVE  /\ Applies(s, tree) \in 0..Len(s)
           /\ \A i \in 1..Applies(s, tree) : ~Conflicted(s[i], tree)
<1> DEFINE stops == {i \in DOMAIN s : Conflicted(s[i], tree)}
<1>1. DOMAIN s = 1..Len(s) /\ Len(s) \in Nat
  OBVIOUS
<1>2. CASE stops = {}
  <2>1. Applies(s, tree) = Len(s)
    BY <1>2 DEF Applies
  <2> QED
    BY <1>1, <1>2, <2>1
<1>3. CASE stops # {}
  <2>1. stops \in SUBSET Nat
    BY <1>1
  <2>2. PICK m : m = Min(stops) /\ m \in stops /\ \A i \in stops : m <= i
    BY <1>3, <2>1, MinIsIn
  <2>3. Applies(s, tree) = m - 1 /\ m \in 1..Len(s)
    BY <1>1, <1>3, <2>2 DEF Applies
  <2>4. ASSUME NEW i \in 1..(m - 1), Conflicted(s[i], tree)
        PROVE  FALSE
    <3>1. i \in DOMAIN s /\ i < m
      BY <1>1, <2>3
    <3>2. i \in stops
      BY <2>4, <3>1
    <3>3. m <= i
      BY <2>2, <3>2, Zenon
    <3>4. m \in Nat /\ i \in Nat
      BY <1>1, <2>3, <3>1
    <3> QED
      BY <3>1, <3>3, <3>4
  <2> QED
    BY <1>1, <2>3, <2>4
<1> QED
  BY <1>2, <1>3


(* A replay loses no commit, and puts on the tree only what does not       *)
(* conflict with it. *)
LEMMA Replayed ==
    ASSUME TypeOK, NEW c \in Clone, NEW tree \in SUBSET Work,
           NEW kept \in Seq(Commits), NEW commits \in Seq(Commits),
           Replay(c, tree, kept, commits)
    PROVE  /\ onto' \in [Clone -> SUBSET Work] /\ settled' \in [Clone -> BOOLEAN]
           /\ local' \in [Clone -> Seq(Commits)] /\ todo' \in [Clone -> Seq(Commits)]
           /\ \A d \in Clone \ {c} : /\ onto'[d] = onto[d] /\ local'[d] = local[d]
                                     /\ todo'[d] = todo[d] /\ settled'[d] = settled[d]
           /\ onto'[c] = tree /\ settled'[c] = FALSE
           /\ In(local'[c]) \cup In(todo'[c]) = In(kept) \cup In(commits)
           /\ \A w \in In(local'[c]) : w \in In(kept) \/ \A v \in tree : Known(v, w)
<1> DEFINE whole == tree \cup In(kept)
           n == Applies(commits, whole)
           lo == kept \o SubSeq(commits, 1, n)
           re == SubSeq(commits, n + 1, Len(commits))
<1>1. /\ onto' = [onto EXCEPT ![c] = tree]
      /\ local' = [local EXCEPT ![c] = lo]
      /\ todo' = [todo EXCEPT ![c] = re]
      /\ settled' = [settled EXCEPT ![c] = FALSE]
  BY DEF Replay
<1>2. n \in 0..Len(commits) /\ \A i \in 1..n : ~Conflicted(commits[i], whole)
  BY AppliesRight
<1> HIDE DEF n
<1>3. /\ lo \in Seq(Commits) /\ re \in Seq(Commits)
      /\ \A w : w \in In(lo) => w \in In(kept) \/ \E i \in 1..n : w \in commits[i]
      /\ In(lo) \cup In(re) = In(kept) \cup In(commits)
  BY <1>2, InParts
<1>4. ASSUME NEW w \in In(lo), w \notin In(kept), NEW v \in tree
      PROVE  Known(v, w)
  <2>1. PICK i \in 1..n : w \in commits[i]
    BY <1>3, <1>4
  <2>2. ~Conflicted(commits[i], whole)
    BY <1>2
  <2>3. v \in seen[w] \/ {w, v} \notin Clash
    BY <2>1, <2>2 DEF Conflicted
  <2>4. {w, v} = {v, w}
    OBVIOUS
  <2> QED
    BY <2>3, <2>4 DEF Known
<1> HIDE DEF lo, re
<1>5. /\ onto \in [Clone -> SUBSET Work] /\ settled \in [Clone -> BOOLEAN]
      /\ local \in [Clone -> Seq(Commits)] /\ todo \in [Clone -> Seq(Commits)]
  BY DEF TypeOK
<1>6. /\ onto' \in [Clone -> SUBSET Work] /\ settled' \in [Clone -> BOOLEAN]
      /\ local' \in [Clone -> Seq(Commits)] /\ todo' \in [Clone -> Seq(Commits)]
  BY <1>1, <1>3, <1>5
<1>7. /\ onto'[c] = tree /\ local'[c] = lo /\ todo'[c] = re /\ settled'[c] = FALSE
  BY <1>1, <1>5
<1>8. \A d \in Clone \ {c} : /\ onto'[d] = onto[d] /\ local'[d] = local[d]
                             /\ todo'[d] = todo[d] /\ settled'[d] = settled[d]
  BY <1>1, <1>5
<1> QED
  BY <1>3, <1>4, <1>6, <1>7, <1>8

-----------------------------------------------------------------------------
(* One clone moves. *)

LEMMA OneMoves ==
    ASSUME IInv, NEW c \in Clone, base \subseteq base',
           \A w \in base' \ base : Owner[w] = c,
           \A d \in Clone \ {c} :
              /\ upstream'[d] = upstream[d] /\ onto'[d] = onto[d]
              /\ local'[d] = local[d] /\ todo'[d] = todo[d]
              /\ settled'[d] = settled[d] /\ dirty'[d] = dirty[d]
              /\ made'[d] = made[d] /\ pc'[d] = pc[d] /\ ok'[d] = ok[d]
              /\ gate'[d] = gate[d] /\ probe'[d] = probe[d] /\ lost'[d] = lost[d],
           \A w \in Present : seen[w] \subseteq seen'[w],
           TypeOK', ScriptOK', ConflictsWeighed',
           CloneOK(c)', Synchronizing(c)', GateKept(c)'
    PROVE  IInv'
<1>1. ASSUME NEW d \in Clone, d # c
      PROVE  CloneOK(d)' /\ Synchronizing(d)' /\ GateKept(d)'
  <2>1. CloneOK(d) /\ Synchronizing(d) /\ GateKept(d)
    BY DEF IInv
  <2>2. /\ upstream'[d] = upstream[d] /\ onto'[d] = onto[d]
        /\ local'[d] = local[d] /\ todo'[d] = todo[d]
        /\ settled'[d] = settled[d] /\ dirty'[d] = dirty[d]
        /\ made'[d] = made[d] /\ pc'[d] = pc[d] /\ ok'[d] = ok[d]
        /\ gate'[d] = gate[d] /\ probe'[d] = probe[d] /\ lost'[d] = lost[d]
    BY <1>1
  <2>3. Unpublished(d)' = Unpublished(d) /\ Stacked(d)' = Stacked(d)
    BY <2>2 DEF Unpublished, Stacked
  <2>4. ASSUME NEW w \in Stacked(d), NEW v \in onto[d]
        PROVE  Known(v, w)'
    <3>1. Known(v, w)
      BY <2>1 DEF CloneOK
    <3>2. w \in Unpublished(d)
      <4>1. settled[d] => todo[d] \in Seq(Commits) /\ todo[d] # <<>>
        BY <2>1 DEF CloneOK, IInv, TypeOK
      <4>2. settled[d] => todo[d][1] \subseteq In(todo[d])
        BY <4>1, InTail
      <4> QED
        BY <4>2 DEF Stacked, Unpublished
    <3>3. v \in Present /\ w \in Present
      BY <2>1, <3>2 DEF Present, CloneOK
    <3>4. seen[v] \subseteq seen'[v] /\ seen[w] \subseteq seen'[w]
      BY <3>3
    <3> QED
      BY <3>1, <3>4 DEF Known
  <2>5. CloneOK(d)'
    BY <2>1, <2>2, <2>3, <2>4 DEF CloneOK
  <2> QED
    BY <2>1, <2>2, <2>5 DEF Synchronizing, GateKept
<1> QED
  BY <1>1 DEF IInv

(* Its repository stays as it is. *)
LEMMA OnlyScriptMoves ==
    ASSUME IInv, NEW c \in Clone, UNCHANGED <<repo, seen, made>>,
           \A d \in Clone \ {c} :
              /\ pc'[d] = pc[d] /\ ok'[d] = ok[d]
              /\ gate'[d] = gate[d] /\ probe'[d] = probe[d] /\ lost'[d] = lost[d],
           ScriptOK', Synchronizing(c)', GateKept(c)'
    PROVE  IInv'
<1>1. CloneOK(c) /\ TypeOK /\ ConflictsWeighed
  BY DEF IInv
<1>2. /\ base' = base /\ upstream' = upstream /\ onto' = onto /\ local' = local
      /\ todo' = todo /\ settled' = settled /\ dirty' = dirty /\ seen' = seen
  BY DEF repo
<1>3. TypeOK' /\ ConflictsWeighed'
  BY <1>1, <1>2 DEF TypeOK, ConflictsWeighed
<1>4. Unpublished(c)' = Unpublished(c) /\ Stacked(c)' = Stacked(c)
  BY <1>2 DEF Unpublished, Stacked
<1>5. CloneOK(c)'
  BY <1>1, <1>2, <1>4 DEF CloneOK, Known
<1> QED
  BY <1>2, <1>3, <1>5, OneMoves

(* A step of a running script. *)
LEMMA Went ==
    ASSUME IInv, NEW c \in Clone, pc[c] \notin {"off", "open", "write"}, NEW place \in Places,
           Goto(c, place), UNCHANGED <<gate, ok, probe, lost>>
    PROVE  /\ ScriptOK' /\ GateKept(c)' /\ pc'[c] = place
           /\ \A d \in Clone \ {c} :
                 /\ pc'[d] = pc[d] /\ ok'[d] = ok[d]
                 /\ gate'[d] = gate[d] /\ probe'[d] = probe[d] /\ lost'[d] = lost[d]
<1>1. ScriptOK /\ GateKept(c)
  BY DEF IInv
<1>2. pc' = [pc EXCEPT ![c] = place] /\ pc \in [Clone -> Places]
  BY <1>1 DEF Goto, ScriptOK
<1>3. pc' \in [Clone -> Places] /\ pc'[c] = place
  BY <1>2
<1>4. \A d \in Clone \ {c} : pc'[d] = pc[d]
  BY <1>2
<1> QED
  BY <1>1, <1>3, <1>4 DEF ScriptOK, GateKept

LEMMA QuietStep ==
    ASSUME IInv, NEW c \in Clone, pc[c] \notin {"off", "open", "write"}, NEW place \in Places,
           Goto(c, place), UNCHANGED <<repo, seen, made, gate, ok, probe, lost>>,
           place \in {"fetch", "rebase", "push"} => todo[c] = <<>>
    PROVE  IInv'
<1>1. /\ ScriptOK' /\ GateKept(c)' /\ pc'[c] = place
      /\ \A d \in Clone \ {c} :
            /\ pc'[d] = pc[d] /\ ok'[d] = ok[d]
            /\ gate'[d] = gate[d] /\ probe'[d] = probe[d] /\ lost'[d] = lost[d]
  BY Went
<1>2. made' = made /\ todo' = todo
  BY DEF repo
<1>3. Synchronizing(c)'
  BY <1>1, <1>2 DEF Synchronizing
<1> QED
  BY <1>1, <1>2, <1>3, OnlyScriptMoves


-----------------------------------------------------------------------------
(* The steps that leave the repository as it is. *)

LEMMA StepStart == \A c \in Clone : IInv /\ Start(c) => IInv'
<1> SUFFICES ASSUME NEW c \in Clone, IInv, Start(c)
             PROVE  IInv'
  OBVIOUS
<1>1. ScriptOK /\ GateKept(c) /\ TypeOK /\ CloneOK(c)
  BY DEF IInv
<1>2. /\ pc[c] = "off" /\ pc' = [pc EXCEPT ![c] = "commit"]
      /\ ok' = [ok EXCEPT ![c] = (gate[c] # "0")]
      /\ UNCHANGED <<repo, gate, seen, probe, lost, made>>
  BY DEF Start, Goto, Restored, quality, history
<1>3. /\ pc' \in [Clone -> Places] /\ ok' \in [Clone -> BOOLEAN]
      /\ pc'[c] = "commit" /\ ok'[c] = (gate[c] # "0")
      /\ \A d \in Clone \ {c} : pc'[d] = pc[d] /\ ok'[d] = ok[d]
  BY <1>1, <1>2 DEF ScriptOK, Places
<1>4. ScriptOK'
  BY <1>1, <1>2, <1>3 DEF ScriptOK
<1>5. GateKept(c)' /\ Synchronizing(c)'
  BY <1>1, <1>2, <1>3 DEF GateKept, Synchronizing
<1> QED
  BY <1>2, <1>3, <1>4, <1>5, OnlyScriptMoves

LEMMA StepKill == \A c \in Clone : IInv /\ Kill(c) => IInv'
<1> SUFFICES ASSUME NEW c \in Clone, IInv, Kill(c)
             PROVE  IInv'
  OBVIOUS
<1>1. ScriptOK /\ GateKept(c)
  BY DEF IInv
<1>2. /\ pc[c] # "off" /\ pc' = [pc EXCEPT ![c] = "off"]
      /\ lost' = [lost EXCEPT ![c] = @ \/ pc[c] \in {"open", "write"}]
      /\ UNCHANGED <<repo, seen, made, gate, ok, probe>>
  BY DEF Kill, Goto, script, quality
<1>3. /\ pc' \in [Clone -> Places] /\ pc'[c] = "off"
      /\ \A d \in Clone \ {c} : pc'[d] = pc[d]
  BY <1>1, <1>2 DEF ScriptOK, Places
<1>4. /\ lost' \in [Clone -> BOOLEAN]
      /\ lost'[c] = (lost[c] \/ pc[c] \in {"open", "write"})
      /\ \A d \in Clone \ {c} : lost'[d] = lost[d]
  BY <1>1, <1>2 DEF ScriptOK
<1>5. ScriptOK'
  BY <1>1, <1>2, <1>3, <1>4 DEF ScriptOK
<1>6. GateKept(c)' /\ Synchronizing(c)'
  BY <1>1, <1>2, <1>3, <1>4 DEF GateKept, Synchronizing
<1> QED
  BY <1>2, <1>3, <1>4, <1>5, <1>6, OnlyScriptMoves

LEMMA StepRequestStop == \A c \in Clone : IInv /\ RequestStop(c) => IInv'
<1> SUFFICES ASSUME NEW c \in Clone, IInv, RequestStop(c)
             PROVE  IInv'
  OBVIOUS
<1>1. UNCHANGED <<repo, seen, made, gate, ok, probe, lost, pc>>
  BY DEF RequestStop, script, quality, history
<1>2. ScriptOK /\ GateKept(c) /\ Synchronizing(c) /\ TypeOK /\ CloneOK(c)
  BY DEF IInv
<1>3. ScriptOK' /\ GateKept(c)' /\ Synchronizing(c)'
  BY <1>1, <1>2 DEF ScriptOK, GateKept, Synchronizing, repo
<1> QED
  BY <1>1, <1>3, OnlyScriptMoves

LEMMA StepQuiet ==
    \A c \in Clone :
        IInv /\ (\/ FetchFails(c) \/ RebaseNothing(c) \/ RebaseRefused(c)
                 \/ KeepLocal(c) \/ PushRefused(c) \/ Stop(c) \/ BeginCycle(c)
                 \/ AgentIdles(c)) => IInv'
<1> SUFFICES ASSUME NEW c \in Clone, IInv,
                    \/ FetchFails(c) \/ RebaseNothing(c) \/ RebaseRefused(c)
                    \/ KeepLocal(c) \/ PushRefused(c) \/ Stop(c) \/ BeginCycle(c)
                    \/ AgentIdles(c)
             PROVE  IInv'
  OBVIOUS
<1>1. Synchronizing(c)
  BY DEF IInv
<1>2. /\ pc[c] \notin {"off", "open", "write"}
      /\ UNCHANGED <<repo, seen, made, gate, ok, probe, lost>>
      /\ \E place \in Places :
            /\ Goto(c, place)
            /\ place \in {"fetch", "rebase", "push"} =>
                  pc[c] \in {"fetch", "rebase", "push"}
  <2>1. CASE FetchFails(c)
    BY <2>1 DEF FetchFails, quality, history, Places
  <2>2. CASE RebaseNothing(c)
    BY <2>2 DEF RebaseNothing, quality, history, Places
  <2>3. CASE RebaseRefused(c)
    BY <2>3 DEF RebaseRefused, quality, history, Places
  <2>4. CASE KeepLocal(c)
    BY <2>4 DEF KeepLocal, quality, history, Places
  <2>5. CASE PushRefused(c)
    <3>1. Goto(c, "boundary") \/ Goto(c, "fetch")
      BY <2>5 DEF PushRefused
    <3> QED
      BY <2>5, <3>1 DEF PushRefused, quality, history, Places
  <2>6. CASE Stop(c)
    BY <2>6 DEF Stop, script, quality, history, Places
  <2>7. CASE BeginCycle(c)
    BY <2>7 DEF BeginCycle, quality, history, Places
  <2>8. CASE AgentIdles(c)
    <3>1. Goto(c, "check") \/ Goto(c, "off")
      BY <2>8 DEF AgentIdles, AgentExits
    <3> QED
      BY <2>8, <3>1 DEF AgentIdles, quality, history, Places
  <2> QED
    BY <2>1, <2>2, <2>3, <2>4, <2>5, <2>6, <2>7, <2>8
<1>3. PICK place \in Places :
         /\ Goto(c, place)
         /\ place \in {"fetch", "rebase", "push"} => todo[c] = <<>>
  BY <1>1, <1>2 DEF Synchronizing
<1> QED
  BY <1>2, <1>3, QuietStep

(* Everything in the tree is published or still here. *)
LEMMA TreeKept ==
    ASSUME IInv, NEW c \in Clone
    PROVE  /\ Tree(c) \subseteq base \cup Unpublished(c)
           /\ Tree(c) \in SUBSET Work /\ HeadTree(c) \in SUBSET Work
           /\ onto[c] \subseteq Tree(c) /\ dirty[c] \subseteq Tree(c)
           /\ Unpublished(c) \in SUBSET Work
<1>1. TypeOK /\ CloneOK(c)
  BY DEF IInv
<1>2. /\ local[c] \in Seq(Commits) /\ todo[c] \in Seq(Commits)
      /\ onto[c] \subseteq base /\ base \in SUBSET Work
      /\ dirty[c] \in SUBSET Work
  BY <1>1 DEF TypeOK, CloneOK
<1>3. /\ In(local[c]) \subseteq Work /\ In(todo[c]) \subseteq Work
      /\ todo[c] # <<>> => todo[c][1] \subseteq In(todo[c])
  BY <1>2, InEach, InTail
<1> QED
  BY <1>2, <1>3 DEF Tree, HeadTree, Unpublished

LEMMA StepCheck == \A c \in Clone : IInv /\ Check(c) => IInv'
<1> SUFFICES ASSUME NEW c \in Clone, IInv, Check(c)
             PROVE  IInv'
  OBVIOUS
<1> DEFINE passes == ProbePasses(c)
<1>1. ScriptOK
  BY DEF IInv
<1>2. passes \in BOOLEAN
  BY DEF ProbePasses, Passes
<1>3. /\ ok' = [ok EXCEPT ![c] = passes]
      /\ probe' = [probe EXCEPT ![c] = IF passes THEN "pass" ELSE "fail"]
      /\ lost' = [lost EXCEPT ![c] = FALSE]
      /\ pc' = [pc EXCEPT ![c] = "open"]
      /\ UNCHANGED <<repo, seen, made, gate>>
  BY DEF Check, NewGate, Goto, quality
<1> HIDE DEF passes
<1>4. /\ ok' \in [Clone -> BOOLEAN] /\ ok'[c] = passes
      /\ pc' \in [Clone -> Places] /\ pc'[c] = "open"
      /\ \A d \in Clone \ {c} : pc'[d] = pc[d] /\ ok'[d] = ok[d]
  BY <1>1, <1>2, <1>3 DEF ScriptOK, Places
<1>5. /\ probe' \in [Clone -> {"none", "pass", "fail"}]
      /\ probe'[c] = IF passes THEN "pass" ELSE "fail"
      /\ \A d \in Clone \ {c} : probe'[d] = probe[d]
  BY <1>1, <1>3 DEF ScriptOK
<1>6. /\ lost' \in [Clone -> BOOLEAN]
      /\ \A d \in Clone \ {c} : lost'[d] = lost[d]
  BY <1>1, <1>3 DEF ScriptOK
<1>7. ScriptOK' /\ GateKept(c)' /\ Synchronizing(c)'
  BY <1>1, <1>2, <1>3, <1>4, <1>5, <1>6 DEF ScriptOK, GateKept, Synchronizing
<1> QED
  BY <1>3, <1>4, <1>5, <1>6, <1>7, OnlyScriptMoves

(* The result goes to gate-state.txt. *)
LEMMA StepGate == \A c \in Clone : IInv /\ (OpenGate(c) \/ WriteGate(c)) => IInv'
<1> SUFFICES ASSUME NEW c \in Clone, IInv, OpenGate(c) \/ WriteGate(c)
             PROVE  IInv'
  OBVIOUS
<1>1. ScriptOK /\ GateKept(c)
  BY DEF IInv
<1>2. PICK place \in {"write", "commit", "off"}, written \in {"empty", "0", "1"} :
         /\ pc' = [pc EXCEPT ![c] = place] /\ gate' = [gate EXCEPT ![c] = written]
         /\ \/ pc[c] = "open" /\ place = "write"
            \/ pc[c] = "write" /\ place # "write" /\ (~ok[c] => written = "0")
         /\ UNCHANGED <<repo, seen, made, ok, probe, lost>>
  <2>1. CASE OpenGate(c)
    BY <2>1 DEF OpenGate, Goto, script, quality, history
  <2>2. CASE WriteGate(c)
    <3>1. Goto(c, "off") \/ Goto(c, "commit")
      BY <2>2 DEF WriteGate
    <3>2. /\ pc[c] = "write"
          /\ gate' = [gate EXCEPT ![c] = IF ok[c] THEN "1" ELSE "0"]
          /\ UNCHANGED <<repo, seen, made, ok, probe, lost>>
      BY <2>2 DEF WriteGate, script, quality, history
    <3> QED
      BY <3>1, <3>2 DEF Goto
  <2> QED
    BY <2>1, <2>2
<1>3. /\ pc' \in [Clone -> Places] /\ pc'[c] = place
      /\ \A d \in Clone \ {c} : pc'[d] = pc[d]
  BY <1>1, <1>2 DEF ScriptOK, Places
<1>4. /\ gate' \in [Clone -> {"none", "empty", "0", "1"}] /\ gate'[c] = written
      /\ \A d \in Clone \ {c} : gate'[d] = gate[d]
  BY <1>1, <1>2 DEF ScriptOK
<1>5. ScriptOK'
  BY <1>1, <1>2, <1>3, <1>4 DEF ScriptOK
<1>6. GateKept(c)' /\ Synchronizing(c)'
  BY <1>1, <1>2, <1>3, <1>4 DEF GateKept, Synchronizing
<1> QED
  BY <1>2, <1>3, <1>4, <1>5, <1>6, OnlyScriptMoves

-----------------------------------------------------------------------------
(* The steps that move work. *)

LEMMA OwnWorkAgrees ==
    ASSUME NEW v \in Work, NEW w \in Work, Owner[v] = Owner[w]
    PROVE  Known(v, w)
BY ClashAssumption DEF Known

LEMMA Facts ==
    ASSUME IInv, NEW c \in Clone
    PROVE  /\ base \in SUBSET Work /\ upstream[c] \subseteq base
           /\ onto[c] \subseteq base /\ dirty[c] \subseteq Work
           /\ local[c] \in Seq(Commits) /\ todo[c] \in Seq(Commits)
           /\ In(local[c]) \subseteq Work /\ In(todo[c]) \subseteq Work
           /\ \A w \in Unpublished(c) : Owner[w] = c
           /\ \A w \in Stacked(c), v \in onto[c] : Known(v, w)
           /\ made[c] \subseteq base \cup Unpublished(c)
           /\ Unpublished(c) \subseteq made[c]
           /\ \A w \in base : Owner[w] = c => w \in made[c]
           /\ settled[c] \in BOOLEAN /\ (settled[c] => todo[c] # <<>>)
           /\ todo[c] # <<>> => /\ todo[c][1] \in Commits
                                /\ todo[c][1] \subseteq In(todo[c])
<1>1. TypeOK /\ CloneOK(c)
  BY DEF IInv
<1>2. /\ base \in SUBSET Work /\ local[c] \in Seq(Commits)
      /\ todo[c] \in Seq(Commits) /\ dirty[c] \subseteq Work
      /\ settled[c] \in BOOLEAN
  BY <1>1 DEF TypeOK
<1>3. /\ In(local[c]) \subseteq Work /\ In(todo[c]) \subseteq Work
      /\ todo[c] # <<>> => /\ todo[c][1] \in Commits
                           /\ todo[c][1] \subseteq In(todo[c])
  BY <1>2, InEach, InTail
<1> QED
  BY <1>1, <1>2, <1>3 DEF CloneOK

LEMMA StepCommitWork == \A c \in Clone : IInv /\ CommitWork(c) => IInv'
<1> SUFFICES ASSUME NEW c \in Clone, IInv, CommitWork(c)
             PROVE  IInv'
  OBVIOUS
<1>1. /\ pc[c] \notin {"off", "open", "write"} /\ Goto(c, "sync") /\ "sync" \in Places
      /\ UNCHANGED <<base, upstream, onto, todo, settled, seen, made, gate, ok, probe, lost>>
  BY DEF CommitWork, script, quality, history, Places
<1>2. CASE UNCHANGED <<local, dirty>>
  BY <1>1, <1>2, QuietStep DEF repo
<1>3. CASE Committed(c)
  <2> DEFINE lo == IF dirty[c] = {} THEN local[c] ELSE Append(local[c], dirty[c])
  <2>1. local' = [local EXCEPT ![c] = lo] /\ dirty' = [dirty EXCEPT ![c] = {}]
    BY <1>3 DEF Committed
  <2>2. lo \in Seq(Commits) /\ In(lo) = In(local[c]) \cup dirty[c]
    <3>1. CASE dirty[c] = {}
      BY <3>1, Facts
    <3>2. CASE dirty[c] # {}
      <4>1. dirty[c] \in Commits
        BY <3>2, Facts DEF Commits
      <4> QED
        BY <3>2, <4>1, Facts, InAppend
    <3> QED
      BY <3>1, <3>2
  <2> HIDE DEF lo
  <2>3. TypeOK /\ ConflictsWeighed
    BY DEF IInv
  <2>4. /\ local' \in [Clone -> Seq(Commits)] /\ dirty' \in [Clone -> SUBSET Work]
        /\ local'[c] = lo /\ dirty'[c] = {}
        /\ \A d \in Clone \ {c} : local'[d] = local[d] /\ dirty'[d] = dirty[d]
    BY <2>1, <2>2, <2>3 DEF TypeOK
  <2>5. TypeOK' /\ ConflictsWeighed'
    BY <1>1, <2>3, <2>4 DEF TypeOK, ConflictsWeighed
  <2>6. Unpublished(c)' = Unpublished(c) /\ Stacked(c)' = Stacked(c)
    BY <1>1, <2>2, <2>4 DEF Unpublished, Stacked
  <2>7. CloneOK(c)'
    <3>1. CloneOK(c)
      BY DEF IInv
    <3> QED
      BY <1>1, <2>6, <3>1 DEF CloneOK, Known
  <2>8. /\ ScriptOK' /\ GateKept(c)' /\ pc'[c] = "sync"
        /\ \A d \in Clone \ {c} :
              /\ pc'[d] = pc[d] /\ ok'[d] = ok[d]
              /\ gate'[d] = gate[d] /\ probe'[d] = probe[d] /\ lost'[d] = lost[d]
    BY <1>1, Went
  <2>9. Synchronizing(c)'
    BY <2>8 DEF Synchronizing
  <2> QED
    BY <1>1, <2>4, <2>5, <2>7, <2>8, <2>9, OneMoves
<1> QED
  BY <1>2, <1>3 DEF CommitWork

LEMMA StepFetch == \A c \in Clone : IInv /\ Fetch(c) => IInv'
<1> SUFFICES ASSUME NEW c \in Clone, IInv, Fetch(c)
             PROVE  IInv'
  OBVIOUS
<1>1. /\ pc[c] = "fetch" /\ Goto(c, "rebase") /\ "rebase" \in Places
      /\ upstream' = [upstream EXCEPT ![c] = base]
      /\ UNCHANGED <<base, onto, local, todo, settled, dirty, seen, made, gate,
                     ok, probe, lost>>
  BY DEF Fetch, quality, history, Places
<1>2. TypeOK /\ ConflictsWeighed /\ CloneOK(c) /\ Synchronizing(c)
  BY DEF IInv
<1>3. /\ upstream' \in [Clone -> SUBSET Work] /\ upstream'[c] = base
      /\ \A d \in Clone \ {c} : upstream'[d] = upstream[d]
  BY <1>1, <1>2 DEF TypeOK
<1>4. TypeOK' /\ ConflictsWeighed'
  BY <1>1, <1>2, <1>3 DEF TypeOK, ConflictsWeighed
<1>5. Unpublished(c)' = Unpublished(c) /\ Stacked(c)' = Stacked(c)
  BY <1>1 DEF Unpublished, Stacked
<1>6. CloneOK(c)'
  BY <1>1, <1>2, <1>3, <1>5 DEF CloneOK, Known
<1>7. /\ ScriptOK' /\ GateKept(c)' /\ pc'[c] = "rebase"
      /\ \A d \in Clone \ {c} :
            /\ pc'[d] = pc[d] /\ ok'[d] = ok[d]
            /\ gate'[d] = gate[d] /\ probe'[d] = probe[d] /\ lost'[d] = lost[d]
  BY <1>1, Went
<1>8. Synchronizing(c)'
  BY <1>1, <1>2 DEF Synchronizing
<1> QED
  BY <1>1, <1>3, <1>4, <1>6, <1>7, <1>8, OneMoves


(* A replay on a published tree that the kept commits, and what is not     *)
(* committed, fit on. *)
LEMMA ReplayStep ==
    ASSUME IInv, NEW c \in Clone, NEW tree \in SUBSET Work, tree \subseteq base,
           NEW kept \in Seq(Commits), NEW commits \in Seq(Commits),
           Replay(c, tree, kept, commits),
           In(kept) \cup In(commits) = In(local[c]) \cup In(todo[c]),
           seen' \in [Work -> SUBSET Work],
           \A w \in Work : seen[w] \subseteq seen'[w],
           \A w \in In(kept), v \in tree : Known(v, w)',
           \A w \in dirty[c], v \in tree : Known(v, w),
           UNCHANGED <<base, upstream, dirty, made>>,
           NEW place \in Places, Goto(c, place), pc[c] \notin {"off", "open", "write"},
           UNCHANGED <<gate, ok, probe, lost>>,
           place \in {"fetch", "rebase", "push"} => todo'[c] = <<>>
    PROVE  IInv'
<1>1. /\ onto' \in [Clone -> SUBSET Work] /\ settled' \in [Clone -> BOOLEAN]
      /\ local' \in [Clone -> Seq(Commits)] /\ todo' \in [Clone -> Seq(Commits)]
      /\ \A d \in Clone \ {c} : /\ onto'[d] = onto[d] /\ local'[d] = local[d]
                                /\ todo'[d] = todo[d] /\ settled'[d] = settled[d]
      /\ onto'[c] = tree /\ settled'[c] = FALSE
      /\ In(local'[c]) \cup In(todo'[c]) = In(kept) \cup In(commits)
      /\ \A w \in In(local'[c]) : w \in In(kept) \/ \A v \in tree : Known(v, w)
  BY Replayed DEF IInv
<1>2. TypeOK /\ ConflictsWeighed /\ CloneOK(c)
  BY DEF IInv
<1>3. TypeOK'
  BY <1>1, <1>2 DEF TypeOK
<1>4. ASSUME NEW v \in Work, NEW w \in Work, Known(v, w)
      PROVE  Known(v, w)'
  BY <1>4 DEF Known
<1>5. ConflictsWeighed'
  <2>1. base \subseteq Work
    BY <1>2 DEF TypeOK
  <2> QED
    BY <1>2, <2>1 DEF ConflictsWeighed
<1>6. Unpublished(c)' = Unpublished(c)
  BY <1>1 DEF Unpublished
<1>7. ASSUME NEW w \in Stacked(c)', NEW v \in tree
      PROVE  Known(v, w)'
  <2>1. w \in In(local'[c]) \/ w \in dirty[c]
    BY <1>1 DEF Stacked
  <2>2. w \in Work /\ v \in Work
    <3>1. In(local'[c]) \subseteq Work /\ dirty[c] \subseteq Work
      BY <1>1, InEach, Facts
    <3> QED
      BY <2>1, <3>1
  <2>3. CASE w \in In(kept)
    BY <2>3
  <2>4. CASE w \in dirty[c]
    <3>1. Known(v, w)
      BY <2>4
    <3> QED
      BY <2>2, <3>1, <1>4
  <2>5. CASE w \in In(local'[c]) /\ w \notin In(kept)
    <3>1. Known(v, w)
      BY <1>1, <2>5
    <3> QED
      BY <2>2, <3>1, <1>4
  <2> QED
    BY <2>1, <2>3, <2>4, <2>5
<1>8. CloneOK(c)'
  <2>1. /\ upstream'[c] \subseteq base' /\ onto'[c] \subseteq base'
        /\ (settled'[c] => todo'[c] # <<>>)
    BY <1>1, <1>2 DEF CloneOK
  <2>2. \A w \in Unpublished(c)' : Owner[w] = c
    BY <1>2, <1>6 DEF CloneOK
  <2>3. \A w \in Stacked(c)', v \in onto'[c] : Known(v, w)'
    BY <1>1, <1>7
  <2>4. /\ made'[c] \subseteq base' \cup Unpublished(c)'
        /\ Unpublished(c)' \subseteq made'[c]
        /\ \A w \in base' : Owner[w] = c => w \in made'[c]
    BY <1>2, <1>6 DEF CloneOK
  <2> QED
    BY <2>1, <2>2, <2>3, <2>4 DEF CloneOK
<1>9. /\ ScriptOK' /\ GateKept(c)' /\ pc'[c] = place
      /\ \A d \in Clone \ {c} :
            /\ pc'[d] = pc[d] /\ ok'[d] = ok[d]
            /\ gate'[d] = gate[d] /\ probe'[d] = probe[d] /\ lost'[d] = lost[d]
  BY Went
<1>10. Synchronizing(c)'
  BY <1>9 DEF Synchronizing
<1>11. \A w \in Present : seen[w] \subseteq seen'[w]
  <2>1. Present \subseteq Work
    BY TreeKept, Facts DEF Present
  <2> QED
    BY <2>1
<1> QED
  BY <1>1, <1>3, <1>5, <1>8, <1>9, <1>10, <1>11, OneMoves

(* The stopped commit, settled, and those after it. *)
LEMMA StoppedCommit ==
    ASSUME IInv, NEW c \in Clone, Rebasing(c)
    PROVE  /\ Append(local[c], todo[c][1]) \in Seq(Commits)
           /\ Tail(todo[c]) \in Seq(Commits)
           /\ In(Append(local[c], todo[c][1])) = In(local[c]) \cup todo[c][1]
           /\ In(Append(local[c], todo[c][1])) \cup In(Tail(todo[c]))
                 = In(local[c]) \cup In(todo[c])
<1>1. /\ local[c] \in Seq(Commits) /\ todo[c] \in Seq(Commits) /\ todo[c] # <<>>
  BY Facts DEF Rebasing
<1>2. /\ todo[c][1] \in Commits /\ Tail(todo[c]) \in Seq(Commits)
      /\ In(todo[c]) = todo[c][1] \cup In(Tail(todo[c]))
  BY <1>1, InTail
<1>3. /\ Append(local[c], todo[c][1]) \in Seq(Commits)
      /\ In(Append(local[c], todo[c][1])) = In(local[c]) \cup todo[c][1]
  BY <1>1, <1>2, InAppend
<1> QED
  BY <1>2, <1>3

LEMMA StepBeginSync == \A c \in Clone : IInv /\ BeginSync(c) => IInv'
<1> SUFFICES ASSUME NEW c \in Clone, IInv, BeginSync(c)
             PROVE  IInv'
  OBVIOUS
<1>1. /\ pc[c] \notin {"off", "open", "write"} /\ Continue(c)
      /\ UNCHANGED <<base, upstream, dirty, seen, made, gate, ok, probe, lost>>
  BY DEF BeginSync, quality, history
<1>2. PICK place \in Places :
         /\ Goto(c, place)
         /\ place \in {"fetch", "rebase", "push"} => todo'[c] = <<>>
  <2>1. CASE todo'[c] # <<>>
    BY <2>1 DEF BeginSync, Rebasing, Places
  <2>2. CASE todo'[c] = <<>>
    BY <2>2 DEF BeginSync, Rebasing, Places
  <2> QED
    BY <2>1, <2>2
<1>3. CASE settled[c]
  <2> DEFINE kept == Append(local[c], todo[c][1])
             commits == Tail(todo[c])
  <2>1. Rebasing(c) /\ todo[c] # <<>>
    BY <1>3, Facts DEF Rebasing
  <2>2. Replay(c, onto[c], kept, commits)
    BY <1>1, <1>3 DEF Continue
  <2>3. /\ kept \in Seq(Commits) /\ commits \in Seq(Commits)
        /\ In(kept) = In(local[c]) \cup todo[c][1]
        /\ In(kept) \cup In(commits) = In(local[c]) \cup In(todo[c])
    BY <2>1, StoppedCommit
  <2> HIDE DEF kept, commits
  <2>4. /\ \A w \in In(kept), v \in onto[c] : Known(v, w)
        /\ \A w \in dirty[c], v \in onto[c] : Known(v, w)
    BY <1>3, <2>3, Facts DEF Stacked
  <2>5. \A w \in In(kept), v \in onto[c] : Known(v, w)'
    BY <1>1, <2>4 DEF Known
  <2>6. onto[c] \in SUBSET Work /\ onto[c] \subseteq base
    BY Facts
  <2>7. seen' \in [Work -> SUBSET Work] /\ \A w \in Work : seen[w] \subseteq seen'[w]
    BY <1>1 DEF IInv, TypeOK
  <2> QED
    BY <1>1, <1>2, <2>2, <2>3, <2>4, <2>5, <2>6, <2>7, ReplayStep
<1>4. CASE ~settled[c]
  <2>1. UNCHANGED <<onto, local, todo, settled>>
    BY <1>1, <1>4 DEF Continue
  <2>2. UNCHANGED <<repo, seen, made, gate, ok, probe, lost>>
    BY <1>1, <2>1 DEF repo
  <2>3. place \in {"fetch", "rebase", "push"} => todo[c] = <<>>
    BY <1>2, <2>1
  <2> QED
    BY <1>1, <1>2, <2>2, <2>3, QuietStep
<1> QED
  BY <1>3, <1>4

LEMMA StepRebase == \A c \in Clone : IInv /\ Rebase(c) => IInv'
<1> SUFFICES ASSUME NEW c \in Clone, IInv, Rebase(c)
             PROVE  IInv'
  OBVIOUS
<1>1. /\ pc[c] = "rebase" /\ dirty[c] = {}
      /\ Replay(c, upstream[c], <<>>, local[c])
      /\ UNCHANGED <<base, upstream, dirty, seen, made, gate, ok, probe, lost>>
  BY DEF Rebase, quality, history
<1>2. PICK place \in Places :
         /\ Goto(c, place)
         /\ place \in {"fetch", "rebase", "push"} => todo'[c] = <<>>
  <2>1. CASE todo'[c] # <<>>
    BY <2>1 DEF Rebase, Rebasing, Places
  <2>2. CASE todo'[c] = <<>>
    BY <2>2 DEF Rebase, Rebasing, Places
  <2> QED
    BY <2>1, <2>2
<1>3. todo[c] = <<>>
  BY <1>1 DEF IInv, Synchronizing
<1>4. In(<<>>) \cup In(local[c]) = In(local[c]) \cup In(todo[c])
  BY <1>3
<1>5. /\ \A w \in In(<<>>), v \in upstream[c] : Known(v, w)'
      /\ \A w \in dirty[c], v \in upstream[c] : Known(v, w)
  BY <1>1, InNone
<1>6. /\ upstream[c] \in SUBSET Work /\ upstream[c] \subseteq base
      /\ local[c] \in Seq(Commits) /\ <<>> \in Seq(Commits)
  BY Facts, InNone
<1>7. seen' \in [Work -> SUBSET Work] /\ \A w \in Work : seen[w] \subseteq seen'[w]
  BY <1>1 DEF IInv, TypeOK
<1>8. pc[c] \notin {"off", "open", "write"}
  BY <1>1
<1> QED
  BY <1>1, <1>2, <1>4, <1>5, <1>6, <1>7, <1>8, ReplayStep

LEMMA StepPush == \A c \in Clone : IInv /\ Push(c) => IInv'
<1> SUFFICES ASSUME NEW c \in Clone, IInv, Push(c)
             PROVE  IInv'
  OBVIOUS
<1> DEFINE new == onto[c] \cup In(local[c])
<1>1. /\ pc[c] = "push" /\ base = onto[c] /\ base' = new
      /\ upstream' = [upstream EXCEPT ![c] = base']
      /\ onto' = [onto EXCEPT ![c] = base'] /\ local' = [local EXCEPT ![c] = <<>>]
      /\ Goto(c, "boundary") /\ "boundary" \in Places
      /\ UNCHANGED <<todo, settled, dirty, seen, made, gate, ok, probe, lost>>
  BY DEF Push, Taken, HeadTree, quality, history, Places
<1> HIDE DEF new
<1>2. TypeOK /\ ConflictsWeighed /\ CloneOK(c) /\ Synchronizing(c)
  BY DEF IInv
<1>3. todo[c] = <<>> /\ ~settled[c]
  BY <1>1, <1>2, Facts DEF Synchronizing
<1>4. new \in SUBSET Work /\ base \subseteq new /\ new = base \cup In(local[c])
  BY <1>1, Facts DEF new
<1>5. /\ upstream' \in [Clone -> SUBSET Work] /\ onto' \in [Clone -> SUBSET Work]
      /\ local' \in [Clone -> Seq(Commits)]
      /\ upstream'[c] = new /\ onto'[c] = new /\ local'[c] = <<>>
      /\ \A d \in Clone \ {c} : /\ upstream'[d] = upstream[d] /\ onto'[d] = onto[d]
                                /\ local'[d] = local[d]
  BY <1>1, <1>2, <1>4, InNone DEF TypeOK
<1>6. TypeOK'
  BY <1>1, <1>2, <1>4, <1>5 DEF TypeOK
<1>7. \A w \in In(local[c]) : Owner[w] = c /\ w \in Work
  BY Facts DEF Unpublished
<1>8. \A w \in dirty[c] : Owner[w] = c /\ w \in Work
  BY Facts DEF Unpublished
<1>9. \A w \in In(local[c]) \cup dirty[c], v \in base : Known(v, w)
  BY <1>1, Facts DEF Stacked
<1>10. ASSUME NEW w \in In(local[c]) \cup dirty[c], NEW v \in new
       PROVE  Known(v, w)
  <2>1. CASE v \in base
    BY <1>9, <2>1
  <2>2. CASE v \in In(local[c])
    <3>1. Owner[v] = Owner[w] /\ v \in Work /\ w \in Work
      BY <1>7, <1>8, <2>2
    <3> QED
      BY <3>1, OwnWorkAgrees
  <2> QED
    BY <1>4, <2>1, <2>2
<1>11. ASSUME NEW v, NEW w, Known(v, w)
       PROVE  Known(v, w)' /\ Known(w, v)
  <2>1. {v, w} = {w, v}
    OBVIOUS
  <2> QED
    BY <1>1, <1>11, <2>1 DEF Known
<1>12. ConflictsWeighed'
  <2>1. ASSUME NEW v \in new, NEW w \in new
        PROVE  Known(v, w)'
    <3>1. CASE w \in In(local[c])
      BY <1>10, <1>11, <3>1
    <3>2. CASE v \in In(local[c])
      BY <1>10, <1>11, <3>2
    <3>3. CASE v \in base /\ w \in base
      BY <1>2, <1>11, <3>3 DEF ConflictsWeighed, Known
    <3> QED
      BY <1>4, <3>1, <3>2, <3>3
  <2> QED
    BY <1>1, <2>1 DEF ConflictsWeighed, Known
<1>13. /\ Unpublished(c)' = dirty[c] /\ Stacked(c)' = dirty[c]
       /\ Unpublished(c) = In(local[c]) \cup dirty[c]
  BY <1>1, <1>3, <1>5, InNone DEF Unpublished, Stacked
<1>14. CloneOK(c)'
  <2>1. /\ upstream'[c] \subseteq base' /\ onto'[c] \subseteq base'
        /\ ~settled'[c]
    BY <1>1, <1>3, <1>5
  <2>2. \A w \in Unpublished(c)' : Owner[w] = c
    BY <1>8, <1>13
  <2>3. \A w \in Stacked(c)', v \in onto'[c] : Known(v, w)'
    BY <1>5, <1>10, <1>11, <1>13
  <2>4. /\ made'[c] \subseteq base' \cup Unpublished(c)'
        /\ Unpublished(c)' \subseteq made'[c]
        /\ \A w \in base' : Owner[w] = c => w \in made'[c]
    BY <1>1, <1>2, <1>4, <1>13, Facts
  <2> QED
    BY <2>1, <2>2, <2>3, <2>4 DEF CloneOK
<1>15. /\ ScriptOK' /\ GateKept(c)' /\ pc'[c] = "boundary"
       /\ \A d \in Clone \ {c} :
             /\ pc'[d] = pc[d] /\ ok'[d] = ok[d]
             /\ gate'[d] = gate[d] /\ probe'[d] = probe[d] /\ lost'[d] = lost[d]
  BY <1>1, Went
<1>16. Synchronizing(c)'
  BY <1>15 DEF Synchronizing
<1>17. base \subseteq base' /\ base' \ base \subseteq In(local[c])
  BY <1>1, <1>4
<1>18. \A w \in base' \ base : Owner[w] = c
  BY <1>7, <1>17
<1>19. \A w \in Present : seen[w] \subseteq seen'[w]
  BY <1>1
<1> QED
  BY <1>1, <1>5, <1>6, <1>12, <1>14, <1>15, <1>16, <1>17, <1>18,
     <1>19, OneMoves

LEMMA AgentPlace ==
    ASSUME NEW c \in Clone, AgentExits(c)
    PROVE  \E place \in Places : Goto(c, place) /\ place \in {"check", "off"}
BY DEF AgentExits, Places

LEMMA StepAgentWorks == \A c \in Clone : IInv /\ AgentWorks(c) => IInv'
<1> SUFFICES ASSUME NEW c \in Clone, IInv, AgentWorks(c)
             PROVE  IInv'
  OBVIOUS
<1>1. /\ pc[c] \notin {"off", "open", "write"}
      /\ UNCHANGED <<base, upstream, onto, local, todo, settled, gate, ok, probe, lost>>
  BY DEF AgentWorks, history
<1>2. PICK place \in Places : Goto(c, place) /\ place \in {"check", "off"}
  BY AgentPlace DEF AgentWorks
<1>3. PICK w \in Work \ made[c] :
         /\ Owner[w] = c
         /\ made' = [made EXCEPT ![c] = @ \cup {w}]
         /\ dirty' = [dirty EXCEPT ![c] = @ \cup {w}]
         /\ seen' = [seen EXCEPT ![w] = Tree(c)]
  BY DEF AgentWorks
<1>4. TypeOK /\ ConflictsWeighed /\ CloneOK(c)
  BY DEF IInv
<1>5. Tree(c) \in SUBSET Work /\ onto[c] \subseteq Tree(c)
  BY TreeKept
<1>6. /\ dirty' \in [Clone -> SUBSET Work] /\ dirty'[c] = dirty[c] \cup {w}
      /\ made' \in [Clone -> SUBSET Work] /\ made'[c] = made[c] \cup {w}
      /\ \A d \in Clone \ {c} : dirty'[d] = dirty[d] /\ made'[d] = made[d]
  BY <1>3, <1>4 DEF TypeOK
<1>7. /\ seen' \in [Work -> SUBSET Work] /\ seen'[w] = Tree(c)
      /\ \A v \in Work \ {w} : seen'[v] = seen[v]
  BY <1>3, <1>4, <1>5 DEF TypeOK
<1>8. TypeOK'
  BY <1>1, <1>4, <1>6, <1>7 DEF TypeOK
<1>9. Present \subseteq Work
  BY TreeKept, Facts DEF Present
<1>10. \A v \in Present : v \in Work /\ seen'[v] = seen[v]
  <2>1. w \notin base /\ \A d \in Clone : w \notin Unpublished(d)
    BY <1>3, Facts
  <2> QED
    BY <1>7, <1>9, <2>1 DEF Present
<1>11. base \subseteq Present /\ Unpublished(c) \subseteq Present
  BY DEF Present
<1>12. ConflictsWeighed'
  BY <1>1, <1>4, <1>10, <1>11 DEF ConflictsWeighed
<1>13. /\ Unpublished(c)' = Unpublished(c) \cup {w}
       /\ Stacked(c)' = Stacked(c) \cup {w}
  BY <1>1, <1>6 DEF Unpublished, Stacked
<1>14. Stacked(c) \subseteq Unpublished(c)
  BY Facts DEF Stacked, Unpublished
<1>15. CloneOK(c)'
  <2>1. /\ upstream'[c] \subseteq base' /\ onto'[c] \subseteq base'
        /\ (settled'[c] => todo'[c] # <<>>)
    BY <1>1, <1>4 DEF CloneOK
  <2>2. \A v \in Unpublished(c)' : Owner[v] = c
    BY <1>3, <1>4, <1>13 DEF CloneOK
  <2>3. ASSUME NEW x \in Stacked(c)', NEW v \in onto[c]
        PROVE  Known(v, x)'
    <3>1. CASE x = w
      BY <1>5, <1>7, <3>1 DEF Known
    <3>2. CASE x \in Stacked(c)
      <4>1. Known(v, x)
        BY <3>2, Facts
      <4>2. v \in Present /\ x \in Present
        BY <1>11, <1>14, <3>2, Facts
      <4> QED
        BY <1>10, <4>1, <4>2 DEF Known
    <3> QED
      BY <1>13, <3>1, <3>2
  <2>4. /\ made'[c] \subseteq base' \cup Unpublished(c)'
        /\ Unpublished(c)' \subseteq made'[c]
        /\ \A v \in base' : Owner[v] = c => v \in made'[c]
    BY <1>1, <1>4, <1>6, <1>13 DEF CloneOK
  <2> QED
    BY <1>1, <2>1, <2>2, <2>3, <2>4 DEF CloneOK
<1>16. /\ ScriptOK' /\ GateKept(c)' /\ pc'[c] = place
       /\ \A d \in Clone \ {c} :
             /\ pc'[d] = pc[d] /\ ok'[d] = ok[d]
             /\ gate'[d] = gate[d] /\ probe'[d] = probe[d] /\ lost'[d] = lost[d]
  BY <1>1, <1>2, Went
<1>17. Synchronizing(c)'
  BY <1>2, <1>16 DEF Synchronizing
<1> QED
  BY <1>1, <1>6, <1>8, <1>10, <1>12, <1>15, <1>16, <1>17, OneMoves

(* The agent learns what is in the tree of the stopped commit. *)
LEMMA WeighedRight ==
    ASSUME IInv, NEW c \in Clone, Rebasing(c), seen' = Weighed(c)
    PROVE  /\ seen' \in [Work -> SUBSET Work]
           /\ \A w \in Work : seen[w] \subseteq seen'[w]
           /\ \A w \in todo[c][1], v \in onto[c] : Known(v, w)'
           /\ todo[c] # <<>>
<1>1. /\ seen \in [Work -> SUBSET Work] /\ Tree(c) \in SUBSET Work
      /\ onto[c] \subseteq Tree(c)
  BY TreeKept DEF IInv, TypeOK
<1>2. /\ seen' \in [Work -> SUBSET Work]
      /\ \A w \in Work : seen'[w] =
            IF w \in todo[c][1] THEN seen[w] \cup Tree(c) ELSE seen[w]
  BY <1>1 DEF Weighed
<1>3. todo[c][1] \in Commits /\ todo[c] # <<>>
  BY Facts DEF Rebasing
<1>4. todo[c][1] \subseteq Work
  BY <1>3 DEF Commits
<1> QED
  BY <1>1, <1>2, <1>3, <1>4 DEF Known

LEMMA StepAgentSettles == \A c \in Clone : IInv /\ AgentSettles(c) => IInv'
<1> SUFFICES ASSUME NEW c \in Clone, IInv, AgentSettles(c)
             PROVE  IInv'
  OBVIOUS
<1>1. /\ pc[c] \notin {"off", "open", "write"} /\ Rebasing(c) /\ seen' = Weighed(c)
      /\ settled' = [settled EXCEPT ![c] = TRUE]
      /\ UNCHANGED <<base, upstream, onto, local, todo, dirty, made, gate, ok, probe, lost>>
  BY DEF AgentSettles, history
<1>2. PICK place \in Places : Goto(c, place) /\ place \in {"check", "off"}
  BY AgentPlace DEF AgentSettles
<1>3. /\ seen' \in [Work -> SUBSET Work]
      /\ \A w \in Work : seen[w] \subseteq seen'[w]
      /\ \A w \in todo[c][1], v \in onto[c] : Known(v, w)'
      /\ todo[c] # <<>>
  BY <1>1, WeighedRight
<1>4. TypeOK /\ ConflictsWeighed /\ CloneOK(c)
  BY DEF IInv
<1>5. /\ settled' \in [Clone -> BOOLEAN] /\ settled'[c] = TRUE
      /\ \A d \in Clone \ {c} : settled'[d] = settled[d]
  BY <1>1, <1>4 DEF TypeOK
<1>6. TypeOK'
  BY <1>1, <1>3, <1>4, <1>5 DEF TypeOK
<1>7. ConflictsWeighed'
  <2>1. base \subseteq Work
    BY Facts
  <2> QED
    BY <1>1, <1>3, <1>4, <2>1 DEF ConflictsWeighed
<1>8. /\ Unpublished(c)' = Unpublished(c)
      /\ Stacked(c)' = In(local[c]) \cup dirty[c] \cup todo[c][1]
  BY <1>1, <1>5 DEF Unpublished, Stacked
<1>9. CloneOK(c)'
  <2>1. /\ upstream'[c] \subseteq base' /\ onto'[c] \subseteq base'
        /\ todo'[c] # <<>>
    BY <1>1, <1>3, <1>4 DEF CloneOK
  <2>2. ASSUME NEW w \in Stacked(c)', NEW v \in onto[c]
        PROVE  Known(v, w)'
    <3>1. CASE w \in todo[c][1]
      BY <1>3, <3>1
    <3>2. CASE w \in In(local[c]) \cup dirty[c]
      <4>1. Known(v, w)
        BY <3>2, Facts DEF Stacked
      <4>2. v \in Work /\ w \in Work
        BY <3>2, Facts
      <4> QED
        BY <1>3, <4>1, <4>2 DEF Known
    <3> QED
      BY <1>8, <3>1, <3>2
  <2>3. /\ \A w \in Unpublished(c)' : Owner[w] = c
        /\ made'[c] \subseteq base' \cup Unpublished(c)'
        /\ Unpublished(c)' \subseteq made'[c]
        /\ \A w \in base' : Owner[w] = c => w \in made'[c]
    BY <1>1, <1>4, <1>8 DEF CloneOK
  <2> QED
    BY <1>1, <2>1, <2>2, <2>3 DEF CloneOK
<1>10. /\ ScriptOK' /\ GateKept(c)' /\ pc'[c] = place
       /\ \A d \in Clone \ {c} :
             /\ pc'[d] = pc[d] /\ ok'[d] = ok[d]
             /\ gate'[d] = gate[d] /\ probe'[d] = probe[d] /\ lost'[d] = lost[d]
  BY <1>1, <1>2, Went
<1>11. Synchronizing(c)'
  BY <1>2, <1>10 DEF Synchronizing
<1>12. \A w \in Present : seen[w] \subseteq seen'[w]
  <2>1. Present \subseteq Work
    BY TreeKept, Facts DEF Present
  <2> QED
    BY <1>3, <2>1
<1> QED
  BY <1>1, <1>5, <1>6, <1>7, <1>9, <1>10, <1>11, <1>12, OneMoves

LEMMA StepAgentFinishes == \A c \in Clone : IInv /\ AgentFinishes(c) => IInv'
<1> SUFFICES ASSUME NEW c \in Clone, IInv, AgentFinishes(c)
             PROVE  IInv'
  OBVIOUS
<1> DEFINE kept == Append(local[c], todo[c][1])
           commits == Tail(todo[c])
<1>1. /\ pc[c] \notin {"off", "open", "write"} /\ Rebasing(c) /\ seen' = Weighed(c)
      /\ Replay(c, onto[c], kept, commits)
      /\ UNCHANGED <<base, upstream, dirty, made, gate, ok, probe, lost>>
  BY DEF AgentFinishes, history
<1>2. PICK place \in Places : Goto(c, place) /\ place \in {"check", "off"}
  BY AgentPlace DEF AgentFinishes
<1>3. /\ kept \in Seq(Commits) /\ commits \in Seq(Commits)
      /\ In(kept) = In(local[c]) \cup todo[c][1]
      /\ In(kept) \cup In(commits) = In(local[c]) \cup In(todo[c])
  BY <1>1, StoppedCommit
<1> HIDE DEF kept, commits
<1>4. /\ seen' \in [Work -> SUBSET Work]
      /\ \A w \in Work : seen[w] \subseteq seen'[w]
      /\ \A w \in todo[c][1], v \in onto[c] : Known(v, w)'
  BY <1>1, WeighedRight
<1>5. /\ onto[c] \in SUBSET Work /\ onto[c] \subseteq base
      /\ In(local[c]) \subseteq Work
      /\ \A w \in In(local[c]) \cup dirty[c], v \in onto[c] : Known(v, w)
  BY Facts DEF Stacked
<1>6. ASSUME NEW w \in In(kept), NEW v \in onto[c]
      PROVE  Known(v, w)'
  <2>1. CASE w \in todo[c][1]
    BY <1>4, <2>1
  <2>2. CASE w \in In(local[c])
    <3>1. Known(v, w) /\ v \in Work /\ w \in Work
      BY <1>5, <2>2
    <3> QED
      BY <1>4, <3>1 DEF Known
  <2> QED
    BY <1>3, <2>1, <2>2
<1>7. \A w \in dirty[c], v \in onto[c] : Known(v, w)
  BY <1>5
<1>8. place \notin {"fetch", "rebase", "push"}
  BY <1>2
<1> QED
  BY <1>1, <1>2, <1>3, <1>4, <1>5, <1>6, <1>7, <1>8, ReplayStep

-----------------------------------------------------------------------------
(* The invariant. *)

LEMMA InitIInv == Init => IInv
<1> SUFFICES ASSUME Init
             PROVE  IInv
  OBVIOUS
<1>1. TypeOK /\ ScriptOK /\ ConflictsWeighed
  BY InNone DEF Init, TypeOK, ScriptOK, ConflictsWeighed, Places
<1>2. ASSUME NEW c \in Clone
      PROVE  CloneOK(c) /\ Synchronizing(c) /\ GateKept(c)
  <2>1. Unpublished(c) = {} /\ Stacked(c) = {}
    BY InNone DEF Init, Unpublished, Stacked
  <2>2. CloneOK(c)
    BY <2>1 DEF Init, CloneOK
  <2> QED
    BY <2>2 DEF Init, Synchronizing, GateKept
<1> QED
  BY <1>1, <1>2 DEF IInv

LEMMA StillIInv == IInv /\ UNCHANGED vars => IInv'
<1> SUFFICES ASSUME IInv, UNCHANGED vars
             PROVE  IInv'
  OBVIOUS
<1>1. UNCHANGED <<base, upstream, onto, local, todo, settled, dirty, seen, made,
                  pc, ok, gate, probe, lost>>
  BY DEF vars, repo, script, quality, history
<1>2. TypeOK' /\ ScriptOK' /\ ConflictsWeighed'
  BY <1>1 DEF IInv, TypeOK, ScriptOK, ConflictsWeighed
<1>3. ASSUME NEW c \in Clone
      PROVE  CloneOK(c)' /\ Synchronizing(c)' /\ GateKept(c)'
  <2>1. CloneOK(c) /\ Synchronizing(c) /\ GateKept(c)
    BY DEF IInv
  <2>2. Unpublished(c)' = Unpublished(c) /\ Stacked(c)' = Stacked(c)
    BY <1>1 DEF Unpublished, Stacked
  <2> QED
    BY <1>1, <2>1, <2>2 DEF CloneOK, Synchronizing, GateKept, Known
<1> QED
  BY <1>2, <1>3 DEF IInv

LEMMA LoopIInv == \A c \in Clone : IInv /\ Loop(c) => IInv'
BY StepCommitWork, StepBeginSync, StepFetch, StepQuiet, StepRebase, StepPush,
   StepAgentWorks, StepAgentSettles, StepAgentFinishes, StepCheck, StepGate
   DEF Loop, RunCodex

LEMMA NextIInv == IInv /\ [Next]_vars => IInv'
<1>1. ASSUME IInv, Next
      PROVE  IInv'
  BY <1>1, LoopIInv, StepStart, StepKill, StepRequestStop DEF Next
<1> QED
  BY <1>1, StillIInv

LEMMA Invariance == Spec => []IInv
BY InitIInv, NextIInv, PTL DEF Spec

-----------------------------------------------------------------------------
(* What holds of every execution. *)

(* Whatever an agent made, probed or not, is published or still in its     *)
(* clone, whatever commits fail, rebases stop and workers are killed       *)
(* (commit_work, rebase_onto and push_work of worker.cmd, which never      *)
(* reset or discard).                                                      *)
THEOREM NoWorkIsLost == Spec => []WorkKept
<1>1. IInv => WorkKept
  BY DEF IInv, CloneOK, WorkKept
<1> QED
  BY <1>1, Invariance, PTL

(* Of two published changes to the same source lines one was made or       *)
(* settled by an agent that saw the other: the script replays a commit by  *)
(* itself only where git finds no conflict (rebase_onto), and goes past a  *)
(* stopped one only when it has been settled (sync's --continue).          *)
THEOREM NoSilentMerge == Spec => []ConflictsWeighed
<1>1. IInv => ConflictsWeighed
  BY DEF IInv
<1> QED
  BY <1>1, Invariance, PTL

LEMMA OnlyPushPublishes ==
    ASSUME [Next]_vars
    PROVE  base' = base \/ \E d \in Clone : Push(d)
<1>1. CASE UNCHANGED vars
  BY <1>1 DEF vars, repo
<1>2. ASSUME NEW d \in Clone, Start(d) \/ Kill(d) \/ RequestStop(d)
      PROVE  base' = base
  BY <1>2 DEF Start, Kill, RequestStop, repo
<1>3. ASSUME NEW d \in Clone, RunCodex(d)
      PROVE  base' = base
  BY <1>3 DEF RunCodex, AgentIdles, AgentWorks, AgentSettles, AgentFinishes, repo
<1>4. ASSUME NEW d \in Clone, Loop(d), ~Push(d)
      PROVE  base' = base
  <2>1. CASE CommitWork(d) \/ BeginSync(d) \/ Fetch(d) \/ FetchFails(d) \/ Rebase(d)
    BY <2>1 DEF CommitWork, BeginSync, Fetch, FetchFails, Rebase, repo
  <2>2. CASE RebaseNothing(d) \/ RebaseRefused(d) \/ KeepLocal(d) \/ PushRefused(d)
    BY <2>2 DEF RebaseNothing, RebaseRefused, KeepLocal, PushRefused, repo
  <2>3. CASE Stop(d) \/ BeginCycle(d) \/ Check(d) \/ OpenGate(d) \/ WriteGate(d)
    BY <2>3 DEF Stop, BeginCycle, Check, OpenGate, WriteGate, repo
  <2> QED
    BY <1>3, <1>4, <2>1, <2>2, <2>3 DEF Loop
<1> QED
  BY <1>1, <1>2, <1>4 DEF Next

(* A clone whose last finished probe failed publishes nothing, not even    *)
(* after it was killed and started again (push_work's LAST_CHECK_OK, kept  *)
(* in gate-state.txt by check), unless it was killed after that probe      *)
(* ended and before its result was in gate-state.txt.                      *)
THEOREM NoFailedPublish == Spec => FailedStaysLocal
<1> DEFINE Kept == \A c \in Clone :
                     In(local[c]) \subseteq base' \ base /\ local[c] # <<>>
                        => probe[c] # "fail" \/ lost[c]
<1>1. ASSUME IInv, [Next]_vars
      PROVE  Kept
  <2> SUFFICES ASSUME NEW c \in Clone, local[c] # <<>>, probe[c] = "fail", ~lost[c],
                      In(local[c]) \subseteq base' \ base
               PROVE  FALSE
    OBVIOUS
  <2>1. local[c] \in Seq(Commits)
    BY <1>1, Facts
  <2>2. local[c][1] # {} /\ local[c][1] \subseteq In(local[c])
    BY <2>1, InTail DEF Commits
  <2>3. PICK w : w \in In(local[c])
    BY <2>2
  <2>4. w \in base' /\ w \notin base
    BY <2>3
  <2>5. PICK d \in Clone : Push(d)
    BY <1>1, <2>4, OnlyPushPublishes
  <2>6. w \in In(local[d])
    <3>1. base' = HeadTree(d) /\ onto[d] \subseteq base
      BY <1>1, <2>5, Facts DEF Push
    <3> QED
      BY <2>4, <3>1 DEF HeadTree
  <2>7. Owner[w] = c /\ Owner[w] = d
    BY <1>1, <2>3, <2>6, Facts DEF Unpublished
  <2>8. pc[c] = "push" /\ ok[c]
    BY <2>5, <2>7 DEF Push
  <2> QED
    BY <1>1, <2>8 DEF IInv, GateKept
<1>2. Spec => [][Next]_vars
  BY DEF Spec
<1>3. IInv /\ [Next]_vars => [Kept]_vars
  BY <1>1
<1>4. Spec => [][Kept]_vars
  BY <1>2, <1>3, Invariance, PTL
<1> QED
  BY <1>4 DEF FailedStaysLocal

=============================================================================
