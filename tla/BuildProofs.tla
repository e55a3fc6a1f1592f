---------------------------- MODULE BuildProofs ----------------------------
(***************************************************************************)
(* What the build driver takes over, certifies and keeps, for any manifest *)
(* and any history of edits, failures and kills.                           *)
(***************************************************************************)
EXTENDS BuildCache, FiniteSetTheorems, WellFoundedInduction, NaturalsInduction, TLAPS

-----------------------------------------------------------------------------
(* The build driver *)

UnitOf(o) == CHOOSE u \in Range(Jobs) : Object(u) = o

LEMMA Manifest ==
    /\ Jobs \in Seq(Range(Jobs)) /\ Len(Jobs) \in Nat \ {0}
    /\ DOMAIN Jobs = 1..Len(Jobs)
    /\ DOMAIN Objects = 1..Len(Jobs) /\ Len(Objects) = Len(Jobs)
    /\ Objects \in Seq(Range(Objects))
    /\ \A i \in 1..Len(Jobs) : Jobs[i] \in Range(Jobs) /\ Objects[i] = Object(Jobs[i])
                               /\ Objects[i] \in Range(Objects)
    /\ \A i, j \in 1..Len(Jobs) : Objects[i] = Objects[j] => i = j
    /\ \A o \in Range(Objects) : \E i \in 1..Len(Jobs) : Objects[i] = o
    /\ Range(Objects) = {Object(u) : u \in Range(Jobs)}
<1>1. /\ Jobs \in Seq(Range(Jobs)) /\ DOMAIN Jobs = 1..Len(Jobs)
      /\ Len(Jobs) \in Nat \ {0}
  BY BuildAssumption
<1>2. DOMAIN Objects = 1..Len(Jobs) /\ \A i \in 1..Len(Jobs) : Objects[i] = Object(Jobs[i])
  BY <1>1 DEF Objects
<1>3. Objects \in Seq(Range(Objects)) /\ Len(Objects) = Len(Jobs)
  <2>1. Objects = [i \in 1..Len(Jobs) |-> Object(Jobs[i])]
    BY <1>1 DEF Objects
  <2>2. \A i \in 1..Len(Jobs) : Objects[i] \in Range(Objects)
    BY <1>2 DEF Range
  <2>3. Objects \in [1..Len(Jobs) -> Range(Objects)]
    BY <2>1, <2>2
  <2> QED
    BY <1>1, <2>3
<1>4. \A i, j \in 1..Len(Jobs) : Objects[i] = Objects[j] => i = j
  <2>1. \A u, v : Object(u) = Object(v) => u = v
    BY DEF Object
  <2> QED
    BY <1>1, <1>2, <2>1, BuildAssumption DEF IsInjective
<1>5. Range(Objects) = {Object(u) : u \in Range(Jobs)}
  BY <1>1, <1>2 DEF Range
<1> QED
  BY <1>1, <1>2, <1>3, <1>4, <1>5 DEF Range

LEMMA Named ==
    /\ Outputs = Range(Objects) \cup {Exe} /\ Paths = Inputs \cup Outputs
    /\ Inputs \cap Outputs = {} /\ Exe \notin Range(Objects)
    /\ Cpc \in Inputs /\ Header \in Inputs /\ Shadow \in Inputs
    /\ Cpc # Header /\ Cpc # Shadow /\ Header # Shadow
    /\ \A u \in Range(Jobs) : /\ Source(u) \in Inputs
                              /\ Source(u) # Cpc /\ Source(u) # Header /\ Source(u) # Shadow
    /\ \A u \in Range(Jobs) : Object(u) \in Range(Objects) /\ UnitOf(Object(u)) = u
    /\ \A o \in Range(Objects) : UnitOf(o) \in Range(Jobs) /\ Object(UnitOf(o)) = o
<1>1. Range(Objects) = {Object(u) : u \in Range(Jobs)}
  BY Manifest
<1>2. /\ Cpc # Header /\ Cpc # Shadow /\ Header # Shadow
      /\ Exe # Cpc /\ Exe # Header /\ Exe # Shadow
  BY DEF Cpc, Header, Shadow, Exe
<1>3. \A u : /\ Source(u) # Cpc /\ Source(u) # Header /\ Source(u) # Shadow /\ Source(u) # Exe
             /\ Object(u) # Cpc /\ Object(u) # Header /\ Object(u) # Shadow /\ Object(u) # Exe
  BY DEF Source, Object, Cpc, Header, Shadow, Exe
<1>4. \A u, v : Source(u) # Object(v) /\ (Object(u) = Object(v) => u = v)
  BY DEF Source, Object
<1>5. \A u \in Range(Jobs) : UnitOf(Object(u)) = u
  BY <1>4 DEF UnitOf
<1> QED
  BY <1>1, <1>2, <1>3, <1>4, <1>5 DEF Outputs, Paths, Inputs

-----------------------------------------------------------------------------
(* The invariant.  First the types and what goes with each phase. *)

Records == [key : Nat, time : Nat, inputs : Seq(Paths \X Nat),
            dir : SUBSET [time : Nat, names : BOOLEAN]]

Phases == {"idle", "check", "clean", "compiling", "unlink", "linking", "linked", "recorded"}

FilesTyped ==
    /\ disk \in [Paths -> Nat] /\ writes \in [Paths -> Nat]
    /\ DOMAIN made = Outputs /\ dirTime \in Nat
    /\ state \in [Outputs -> SUBSET Records]

DriverTyped ==
    /\ pc \in Phases /\ rebuild \in BOOLEAN /\ skiplink \in BOOLEAN
    /\ seen \in [Paths -> Nat \cup {Unknown}]
    /\ dir \in [time : Nat \cup {Unknown}, scanned : BOOLEAN, names : BOOLEAN]
    /\ dirty \subseteq Range(Objects) /\ job \in 1..Len(Jobs) + 1
    /\ todo \in Seq({"file", "state"} \X (dirty \cup {Exe}))
    /\ quiet \in BOOLEAN /\ kept \subseteq Range(Objects)

ToolTyped ==
    /\ batch \in Seq(Outputs) /\ done \in Nat
    /\ DOMAIN tool = {"phase", "pos", "code", "reads"}
    /\ tool.phase \in {"none", "start", "open", "exit"}
    /\ tool.pos \in Nat \ {0} /\ tool.code \in {0, 1}
    /\ done < tool.pos /\ tool.pos <= Len(batch) + 1

Busy == pc \in {"compiling", "linking"}

(* What goes with each phase of the driver *)
Staged ==
    /\ pc = "idle" => /\ seen = NoTable /\ dir = NoDir /\ dirty = {} /\ job = 1
    /\ pc # "idle" => seen[Cpc] # Unknown
    /\ pc \notin {"idle", "check"} => job = Len(Jobs) + 1
    /\ pc \in {"idle", "check", "clean"} => batch = <<>> /\ tool = Idle
    /\ pc = "compiling" => IsInjective(batch) /\ Range(batch) = dirty
    /\ pc = "linking" => batch = <<Exe>> /\ done = 0
    /\ pc \notin {"clean", "unlink"} => todo = <<>>
    /\ pc = "unlink" => todo \in Seq({"file", "state"} \X {Exe})
    /\ cert # {} => pc \in {"idle", "recorded"}

ToolStaged ==
    /\ tool.phase \in {"start", "open"} => Busy /\ tool.code = 0
    /\ tool.phase = "open" => tool.pos <= Len(batch)
    /\ Busy /\ tool.phase = "exit" /\ tool.code = 0 => tool.pos = Len(batch) + 1

Control == FilesTyped /\ DriverTyped /\ ToolTyped /\ Staged /\ ToolStaged

(* Stamps: a path is missing or has the last stamp it was given. *)
Exists == disk[Shadow] # 0

HeaderIf(names) == IF names THEN Shadow ELSE Header

InputPaths(r) == {r.inputs[i][1] : i \in DOMAIN r.inputs}

(* What an output is made from, and what of it *)
Parts(o, names) ==
    IF o = Exe THEN Range(Objects) \cup {Cpc}
    ELSE {Source(UnitOf(o)), HeaderIf(names), Cpc}

Content(p) == IF p \in Outputs THEN made[p] ELSE disk[p]

MadeOf(o, ps) == made[o] = {<<p, Content(p)>> : p \in ps}

Stamped ==
    /\ \A p \in Paths : disk[p] \in {0, writes[p]} /\ seen[p] <= writes[p]
    /\ \A p \in Inputs \ {Shadow} : disk[p] # 0
    /\ dir.time <= dirTime
    /\ dir.scanned <=> dir.time # Unknown
    /\ dir.time = dirTime => dir.names = Exists

Recorded(o, r) ==
    /\ r.key <= writes[Cpc] /\ r.time <= writes[o]
    /\ \A i \in DOMAIN r.inputs : r.inputs[i][2] <= writes[r.inputs[i][1]]
    /\ o = Exe => r.dir = {} /\ InputPaths(r) = Range(Objects)
    /\ o # Exe => \E d \in r.dir : /\ r.dir = {d} /\ d.time <= dirTime
                                   /\ d.time = dirTime => d.names = Exists
    /\ o # Exe => \E n \in BOOLEAN : InputPaths(r) = Parts(o, n) \ {Cpc}

Ledger ==
    \A o \in Outputs : \A r \in state[o] : state[o] = {r} /\ Recorded(o, r)

(* The driver knows the stamp of an output it has looked at, but for those *)
(* its tool is making. *)
Stated ==
    \A o \in Outputs :
        \/ seen[o] \in {Unknown, disk[o]}
        \/ Busy /\ \E i \in DOMAIN batch : i > done /\ batch[i] = o

(* What the tool has read, written or not, is one text, *)
TextAt(o, content, names, certain) ==
    /\ \A e \in content : e = <<e[1], e[2]>>
    /\ \E n \in BOOLEAN : PathsIn(content) = Parts(o, n)
    /\ certain => PathsIn(content) = Parts(o, names)

Text(o, content) == TextAt(o, content, Exists, quiet)

Flying ==
    /\ tool.phase = "open" => Text(batch[tool.pos], tool.reads)
    /\ Busy => \A i \in done + 1..tool.pos - 1 :
                  disk[batch[i]] # 0 /\ Text(batch[i], made[batch[i]])

(* A build under which nothing is edited sees what is there, *)
Unedited ==
    quiet /\ pc # "idle" =>
        /\ \A p \in Inputs : seen[p] \in {Unknown, disk[p]}
        /\ dir.time \in {Unknown, dirTime}

(* and the units it completes keep a record of what is there. *)
Fits(o, r) ==
    /\ disk[o] = r.time /\ r.time # 0 /\ r.key = disk[Cpc]
    /\ \A i \in DOMAIN r.inputs :
          r.inputs[i][2] # 0 /\ r.inputs[i][2] = disk[r.inputs[i][1]]

Keeping ==
    /\ kept # {} => quiet
    /\ \A o \in kept : \E r \in state[o] : Fits(o, r) /\ \A d \in r.dir : d.names = Exists
    /\ rebuild /\ pc \in {"check", "clean"} => kept = {}
    /\ pc \in {"check", "clean"} => dirty \cap kept = {}
    /\ pc = "compiling" => \A o \in dirty \cap kept : \E i \in 1..done : batch[i] = o

Base == Control /\ Stamped /\ Ledger /\ Stated /\ Flying /\ Unedited /\ Keeping

(* Without the races: directory and text are those of one moment, *)
Locked == pc \in {"check", "clean", "compiling"} /\ dir.scanned => dir.time = dirTime

GenuineAt(o, content, names, known, contents) ==
    /\ PathsIn(content) = Parts(o, names)
    /\ \A e \in content : e[1] \in known => e[2] = contents[e[1]]

(* The paths of which the driver has, or will get, the stamp there is *)
Known == {p \in Paths : Look(p) = disk[p]}

Contents == [p \in Paths |-> Content(p)]

Genuine(o, content) == GenuineAt(o, content, Exists, Known, Contents)

Exact ==
    /\ tool.phase = "open" => Genuine(batch[tool.pos], tool.reads)
    /\ Busy => \A i \in done + 1..tool.pos - 1 : Genuine(batch[i], made[batch[i]])

(* a record that fits names the text its output was made from, *)
Truthful ==
    \A o \in Outputs : \A r \in state[o] :
        /\ Fits(o, r) => MadeOf(o, InputPaths(r) \cup {Cpc})
        /\ \A d \in r.dir : InputPaths(r) = Parts(o, d.names) \ {Cpc}

(* so does what this driver has seen, for the outputs it has settled, *)
Settled ==
    (IF pc \in {"check", "clean", "compiling"}
     THEN ({Objects[i] : i \in 1..job - 1} \ dirty) \cup {batch[i] : i \in 1..done}
     ELSE IF pc \in {"unlink", "linking", "linked"} THEN Range(Objects) ELSE {})
    \cup (IF pc = "linked" THEN {Exe} ELSE {})

Vouched(o) ==
    /\ o # Exe => dir.scanned
    /\ seen[o] = disk[o] /\ disk[o] # 0
    /\ \A p \in Parts(o, dir.names) : seen[p] # Unknown
    /\ (\A p \in Parts(o, dir.names) : seen[p] = disk[p] /\ disk[p] # 0)
          => MadeOf(o, Parts(o, dir.names))

(* and the certificate. *)
Matches(c) ==
    /\ \A f \in c.files : disk[f[1]] = f[2]
    /\ \E f \in c.files : f[1] = Exe /\ f[2] # 0
    /\ \A t \in c.dirs : t = dirTime

(* The sources, and the header that each unit would read now *)
Consulted == {Source(u) : u \in Range(Jobs)} \cup {HeaderNow, Cpc}

Certified ==
    \A c \in cert :
        /\ \A f \in c.files : /\ f[1] \in Paths /\ f[2] \in Nat /\ f[2] <= writes[f[1]]
                              /\ f[1] \in Outputs => f[2] # 0
        /\ c.dirs # {} /\ \A t \in c.dirs : t \in Nat /\ t <= dirTime
        /\ Matches(c) => made[Exe] = FreshExe /\ Consulted \subseteq PathsIn(c.files)

Trust ==
    /\ Locked /\ Exact /\ Truthful
    /\ \A o \in Settled : Vouched(o)
    /\ Certified
    /\ pc = "recorded" => AcceptedIsCurrent

-----------------------------------------------------------------------------
(* The dirty objects in the order of the manifest *)

LEMMA Least ==
    ASSUME NEW T \in SUBSET Nat, T # {}
    PROVE  \E x \in T : \A y \in T : x <= y
<1> DEFINE R == OpToRel(<, Nat)
<1>1. IsWellFoundedOn(R, Nat)
  BY NatLessThanWellFounded, Zenon DEF R
<1>2. T \subseteq Nat
  OBVIOUS
<1>3. \A p \in Nat \X Nat : p[1] < p[2] => p \in R
  BY Zenon DEF OpToRel
<1> HIDE DEF R
<1>4. PICK x \in T : \A y \in T : ~ (<<y, x>> \in R)
  BY <1>1, <1>2, WFMin
<1>5. ASSUME NEW y \in T, y < x
      PROVE  FALSE
  <2>1. x \in Nat /\ y \in Nat
    OBVIOUS
  <2>2. <<y, x>> \in Nat \X Nat /\ <<y, x>>[1] < <<y, x>>[2]
    BY <1>5, <2>1
  <2>3. <<y, x>> \in R
    BY <1>3, <2>2
  <2> QED
    BY <1>4, <2>3
<1>6. \A y \in T : x <= y
  <2> TAKE y \in T
  <2>1. x \in Nat /\ y \in Nat
    OBVIOUS
  <2> QED
    BY <1>5, <2>1
<1> QED
  BY <1>6

(* What holds at 0 and is passed on from each place to the next holds at n.*)
LEMMA Climb ==
    ASSUME NEW n \in Nat, NEW S, 0 \in S,
           \A k \in 0..n : k < n /\ k \in S => k + 1 \in S
    PROVE  n \in S
<1> DEFINE T == {k \in 0..n : k \notin S}
<1>1. SUFFICES ASSUME n \notin S
               PROVE  FALSE
  OBVIOUS
<1>2. T \in SUBSET Nat /\ T # {}
  <2>1. n \in T /\ \A k \in T : k \in Nat
    BY <1>1
  <2> QED
    BY <2>1
<1>3. \A k : k \in T <=> k \in 0..n /\ k \notin S
  OBVIOUS
<1> HIDE DEF T
<1>4. PICK x \in T : \A y \in T : x <= y
  BY <1>2, Least
<1>5. x \in 0..n /\ x \notin S /\ x # 0
  BY <1>3
<1>6. x - 1 \in 0..n /\ x - 1 < n /\ (x - 1) + 1 = x
  BY <1>5
<1>7. x - 1 \notin S
  BY <1>5, <1>6
<1>8. x - 1 \in T /\ ~(x <= x - 1)
  BY <1>3, <1>5, <1>6, <1>7
<1> QED
  BY <1>4, <1>8

Ascends(s) == \A i, j \in DOMAIN s : i < j => s[i] < s[j]

LEMMA Enumerated ==
    ASSUME NEW n \in Nat, NEW D \in SUBSET (1..n)
    PROVE  /\ IsFiniteSet(D) /\ Cardinality(D) \in Nat
           /\ \E s \in [1..Cardinality(D) -> D] : Ascends(s)
<1> DEFINE To(k) == D \cap (1..k)
           S == {k \in 0..n : \E s \in [1..Cardinality(To(k)) -> To(k)] : Ascends(s)}
<1>1. \A k \in 0..n : IsFiniteSet(To(k)) /\ Cardinality(To(k)) \in Nat
  <2>1. TAKE k \in 0..n
  <2>2. IsFiniteSet(1..k)
    BY FS_Interval
  <2>3. IsFiniteSet(To(k))
    BY <2>2, FS_Subset
  <2> QED
    BY <2>3, FS_CardinalityType
<1>2. To(n) = D
  OBVIOUS
<1>3. 0 \in S
  <2>1. To(0) = {}
    OBVIOUS
  <2>2. Cardinality(To(0)) = 0
    BY <2>1, FS_EmptySet
  <2>3. <<>> \in [1..0 -> To(0)] /\ Ascends(<<>>)
    BY DEF Ascends
  <2>4. \E s \in [1..Cardinality(To(0)) -> To(0)] : Ascends(s)
    BY <2>2, <2>3
  <2>5. 0 \in 0..n
    OBVIOUS
  <2> HIDE DEF To
  <2> QED
    BY <2>4, <2>5
<1>4. ASSUME NEW k \in 0..n, k < n, k \in S
      PROVE  k + 1 \in S
  <2>0. k + 1 \in 0..n
    BY <1>4
  <2>1. PICK s \in [1..Cardinality(To(k)) -> To(k)] : Ascends(s)
    BY <1>4
  <2> DEFINE m == Cardinality(To(k))
  <2>2. m \in Nat /\ IsFiniteSet(To(k))
    BY <1>1
  <2>3. CASE k + 1 \notin D
    <3>1. To(k + 1) = To(k)
      BY <2>3
    <3> HIDE DEF To
    <3> QED
      BY <2>0, <2>1, <3>1
  <2>4. CASE k + 1 \in D
    <3>1. To(k + 1) = To(k) \cup {k + 1} /\ k + 1 \notin To(k)
      BY <2>4
    <3>2. Cardinality(To(k + 1)) = m + 1
      BY <2>2, <3>1, FS_AddElement
    <3> DEFINE t == [i \in 1..m + 1 |-> IF i = m + 1 THEN k + 1 ELSE s[i]]
    <3>3. t \in [1..m + 1 -> To(k + 1)]
      <4> HIDE DEF To, m
      <4>1. \A i \in 1..m + 1 : i = m + 1 \/ i \in 1..m
        BY <2>2
      <4> QED
        BY <2>1, <3>1, <4>1 DEF m
    <3>4. Ascends(t)
      <4>1. \A i \in 1..m : s[i] \in 1..k
        BY <2>1
      <4> HIDE DEF m
      <4>2. SUFFICES ASSUME NEW i \in 1..m + 1, NEW j \in 1..m + 1, i < j
                     PROVE  t[i] < t[j]
        BY DEF Ascends
      <4>3. i \in 1..m /\ t[i] = s[i]
        BY <2>2, <4>2
      <4>4. CASE j = m + 1
        <5>1. t[j] = k + 1 /\ s[i] \in 1..k
          BY <4>1, <4>3, <4>4
        <5> HIDE DEF t
        <5> QED
          BY <4>3, <5>1
      <4>5. CASE j # m + 1
        <5>1. j \in 1..m /\ t[j] = s[j]
          BY <2>2, <4>5
        <5>2. s[i] < s[j]
          BY <2>1, <4>2, <4>3, <5>1 DEF Ascends, m
        <5> HIDE DEF t
        <5> QED
          BY <4>3, <5>1, <5>2
      <4> QED
        BY <4>4, <4>5
    <3> HIDE DEF t, m, To
    <3>5. \E r \in [1..Cardinality(To(k + 1)) -> To(k + 1)] : Ascends(r)
      BY <3>2, <3>3, <3>4
    <3> QED
      BY <2>0, <3>5
  <2> QED
    BY <2>3, <2>4
<1>5. n \in S
  <2> HIDE DEF S
  <2> QED
    BY <1>3, <1>4, Climb
<1> QED
  BY <1>1, <1>2, <1>5

LEMMA Dirt ==
    ASSUME dirty \subseteq Range(Objects)
    PROVE  /\ DirtyObjects \in Seq(dirty) /\ IsInjective(DirtyObjects)
           /\ Range(DirtyObjects) = dirty
<1>1. DirtyJobs \in SUBSET (1..Len(Jobs)) /\ Len(Jobs) \in Nat
  BY Manifest DEF DirtyJobs
<1> DEFINE n == Cardinality(DirtyJobs)
           place == CHOOSE s \in [1..n -> DirtyJobs] :
                       \A i, j \in DOMAIN s : i < j => s[i] < s[j]
<1>2. IsFiniteSet(DirtyJobs) /\ n \in Nat
  BY <1>1, Enumerated
<1>3. \E s \in [1..n -> DirtyJobs] : \A i, j \in DOMAIN s : i < j => s[i] < s[j]
  BY <1>1, Enumerated DEF Ascends
<1>4. place \in [1..n -> DirtyJobs] /\ \A i, j \in DOMAIN place : i < j => place[i] < place[j]
  BY <1>3
<1>5. DirtyObjects = [k \in DOMAIN place |-> Objects[place[k]]]
  BY DEF DirtyObjects
<1> HIDE DEF place
<1>6. \A i, j \in 1..n : place[i] = place[j] => i = j
  <2>1. \A i \in 1..n : place[i] \in 1..Len(Jobs)
    BY <1>1, <1>4
  <2> QED
    BY <1>2, <1>4, <2>1
<1>7. \A k \in DirtyJobs : \E i \in 1..n : place[i] = k
  <2>1. place \in Injection(1..n, DirtyJobs)
    BY <1>4, <1>6 DEF Injection, IsInjective
  <2>2. Cardinality(1..n) = n
    BY <1>2, FS_Interval
  <2>3. place \in Surjection(1..n, DirtyJobs)
    BY <1>2, <2>1, <2>2, FS_Injection
  <2> QED
    BY <2>3 DEF Surjection
<1> HIDE DEF n
<1>8. \A i \in 1..n : place[i] \in 1..Len(Jobs) /\ Objects[place[i]] \in dirty
  BY <1>4, Manifest DEF DirtyJobs
<1>9. DirtyObjects \in [1..n -> dirty] /\ \A i \in 1..n : DirtyObjects[i] = Objects[place[i]]
  BY <1>4, <1>5, <1>8
<1>10. IsInjective(DirtyObjects)
  BY <1>6, <1>8, <1>9, Manifest DEF IsInjective
<1>11. ASSUME NEW o \in dirty
       PROVE  \E i \in 1..n : DirtyObjects[i] = o
  <2>1. PICK k \in 1..Len(Jobs) : Objects[k] = o
    BY <1>11, Manifest
  <2>2. k \in DirtyJobs
    BY <2>1, Manifest DEF DirtyJobs
  <2> QED
    BY <1>7, <1>9, <2>1, <2>2
<1> QED
  BY <1>2, <1>9, <1>10, <1>11 DEF Range

-----------------------------------------------------------------------------
(* The table of files *)

LEMMA Looking ==
    ASSUME Control
    PROVE  /\ \A p \in Paths : /\ Look(p) \in Nat
                               /\ seen[p] # Unknown => Look(p) = seen[p]
                               /\ seen[p] = Unknown => Look(p) = disk[p]
           /\ \A ps : /\ Enter(ps) \in [Paths -> Nat \cup {Unknown}]
                      /\ \A p \in Paths :
                            Enter(ps)[p] = IF p \in ps THEN Look(p) ELSE seen[p]
<1>1. \A p \in Paths : disk[p] \in Nat /\ seen[p] \in Nat \cup {Unknown}
  BY DEF Control, FilesTyped, DriverTyped
<1>2. \A p \in Paths : /\ Look(p) \in Nat
                       /\ seen[p] # Unknown => Look(p) = seen[p]
                       /\ seen[p] = Unknown => Look(p) = disk[p]
  BY <1>1 DEF Look
<1> QED
  BY <1>1, <1>2 DEF Enter

LEMMA Scanning ==
    ASSUME Control, Stamped
    PROVE  /\ EnterDir \in [time : Nat, scanned : BOOLEAN, names : BOOLEAN]
           /\ EnterDir.time = IF dir.scanned THEN dir.time ELSE dirTime
           /\ Scan(EnterDir) = [time |-> EnterDir.time, scanned |-> TRUE,
                                names |-> IF dir.scanned THEN dir.names ELSE Exists]
           /\ \A d : LookUpDir(d) =
                 [time |-> EnterDir.time, scanned |-> TRUE,
                  names |-> IF dir.scanned THEN dir.names
                            ELSE IF dirTime = d.time THEN d.names ELSE Exists]
<1>1. /\ dirTime \in Nat /\ dir.scanned \in BOOLEAN
      /\ dir = [time |-> dir.time, scanned |-> dir.scanned, names |-> dir.names]
      /\ dir.time \in Nat \cup {Unknown} /\ dir.names \in BOOLEAN
      /\ dir.scanned <=> dir.time # Unknown
  BY DEF Control, FilesTyped, DriverTyped, Stamped
<1>2. CASE dir.scanned
  <2>1. EnterDir = dir
    BY <1>1, <1>2 DEF EnterDir
  <2>2. Scan(EnterDir) = dir /\ \A d : LookUpDir(d) = dir
    BY <1>2, <2>1 DEF Scan, LookUpDir
  <2>3. dir.time \in Nat /\ dir = [time |-> dir.time, scanned |-> TRUE, names |-> dir.names]
    BY <1>1, <1>2 DEF Unknown
  <2> QED
    BY <1>1, <1>2, <2>1, <2>2, <2>3
<1>3. CASE ~dir.scanned
  <2>1. EnterDir = [time |-> dirTime, scanned |-> FALSE, names |-> FALSE]
    BY <1>1, <1>3 DEF EnterDir, NoDir
  <2>2. Scan(EnterDir) = [time |-> dirTime, scanned |-> TRUE, names |-> Exists]
    BY <2>1 DEF Scan, Exists
  <2>3. \A d : LookUpDir(d) = [time |-> dirTime, scanned |-> TRUE,
                               names |-> IF dirTime = d.time THEN d.names ELSE Exists]
    BY <2>1, <2>2 DEF LookUpDir
  <2> QED
    BY <1>1, <1>3, <2>1, <2>2, <2>3
<1> QED
  BY <1>2, <1>3

(* Looking an output up enters files, and the directory if a record says so. *)
LEMMA LookedUp ==
    ASSUME Control, Stamped, Ledger, NEW o \in Outputs
    PROVE  /\ \E ps : SeenLookingUp(o) = Enter(ps)
           /\ \/ DirLookingUp(o) = dir
              \/ \E r \in state[o] : \E d \in r.dir : DirLookingUp(o) = LookUpDir(d)
<1>1. \E ps : SeenLookingUp(o) = Enter(ps)
  <2>1. seen = Enter({})
    BY Looking DEF Enter, Control, DriverTyped
  <2> QED
    BY <2>1 DEF SeenLookingUp
<1>2. ASSUME DirLookingUp(o) # dir
      PROVE  \E r \in state[o] : \E d \in r.dir : DirLookingUp(o) = LookUpDir(d)
  <2> DEFINE asked == UNION {IF InputsAgree(r, o) THEN r.dir ELSE {} : r \in state[o]}
  <2>1. asked # {} /\ DirLookingUp(o) = LookUpDir(CHOOSE d \in asked : TRUE)
    BY <1>2 DEF DirLookingUp
  <2>2. PICK d \in asked : DirLookingUp(o) = LookUpDir(d)
    BY <2>1
  <2>3. \E r \in state[o] : d \in r.dir
    BY <2>2
  <2> QED
    BY <2>2, <2>3
<1> QED
  BY <1>1, <1>2

(* What a valid output's record says, and what looking it up leaves behind *)
Accepts(o, r) ==
    /\ state[o] = {r} /\ ~rebuild
    /\ r.key = seen[Cpc] /\ Look(o) # 0 /\ r.time = Look(o)
    /\ \A i \in DOMAIN r.inputs :
          r.inputs[i][2] # 0 /\ r.inputs[i][2] = Look(r.inputs[i][1])
    /\ SeenLookingUp(o) = Enter(InputPaths(r) \cup {o})
    /\ o # Exe => \E d \in r.dir : /\ r.dir = {d}
                                   /\ DirLookingUp(o) = LookUpDir(d)
                                   /\ LookUpDir(d).names = d.names

LEMMA Accepted ==
    ASSUME Control, Stamped, Ledger, NEW o \in Outputs, Valid(o)
    PROVE  \E r \in state[o] : Accepts(o, r)
<1>1. PICK r \in state[o] : /\ InputsAgree(r, o) /\ ~rebuild
                            /\ \A d \in r.dir : LookUpDir(d).names = d.names
  BY DEF Valid
<1>2. state[o] = {r} /\ Recorded(o, r)
  BY DEF Ledger
<1>3. /\ r.key = seen[Cpc] /\ Look(o) # 0 /\ r.time = Look(o) /\ Differing(r) = {}
  BY <1>1 DEF InputsAgree, Agrees
<1>4. \A i \in DOMAIN r.inputs :
          r.inputs[i][2] # 0 /\ r.inputs[i][2] = Look(r.inputs[i][1])
  BY <1>3 DEF Differing
<1>5. Walked(r, o) = InputPaths(r)
  <2>1. Agrees(r, o)
    BY <1>1 DEF InputsAgree
  <2>2. {k \in DOMAIN r.inputs : r.inputs[k][2] # 0 /\ \A j \in Differing(r) : k <= j}
           = DOMAIN r.inputs
    BY <1>3, <1>4
  <2> QED
    BY <2>1, <2>2 DEF Walked, InputPaths
<1>6. SeenLookingUp(o) = Enter(InputPaths(r) \cup {o})
  <2>1. UNION {Walked(q, o) \cup {o} : q \in state[o]} = InputPaths(r) \cup {o}
    BY <1>2, <1>5
  <2> QED
    BY <1>1, <2>1 DEF SeenLookingUp
<1>7. ASSUME o # Exe
      PROVE  \E d \in r.dir : /\ r.dir = {d}
                              /\ DirLookingUp(o) = LookUpDir(d)
                              /\ LookUpDir(d).names = d.names
  <2>1. PICK d \in r.dir : r.dir = {d}
    BY <1>2, <1>7 DEF Recorded
  <2> DEFINE asked == UNION {IF InputsAgree(q, o) THEN q.dir ELSE {} : q \in state[o]}
  <2>2. asked = {d}
    BY <1>1, <1>2, <2>1
  <2>3. DirLookingUp(o) = LookUpDir(CHOOSE x \in asked : TRUE)
    BY <1>1, <2>2 DEF DirLookingUp
  <2> HIDE DEF asked
  <2>4. (CHOOSE x \in asked : TRUE) = d
    BY <2>2
  <2> QED
    BY <1>1, <2>1, <2>3, <2>4
<1> QED
  BY <1>1, <1>2, <1>3, <1>4, <1>6, <1>7 DEF Accepts

-----------------------------------------------------------------------------
(* What is recorded *)

LEMMA PartsIn ==
    ASSUME NEW o \in Outputs, NEW n \in BOOLEAN
    PROVE  /\ Parts(o, n) \subseteq Paths /\ Cpc \in Parts(o, n)
           /\ o # Exe => /\ o \in Range(Objects) /\ Parts(o, n) \subseteq Inputs
                         /\ Source(UnitOf(o)) \in Parts(o, n) /\ HeaderIf(n) \in Parts(o, n)
           /\ o = Exe => Parts(o, n) = Range(Objects) \cup {Cpc}
           /\ o # Exe => \A m \in BOOLEAN : Parts(o, n) = Parts(o, m) => n = m
<1>1. HeaderIf(n) \in Inputs
  BY Named DEF HeaderIf
<1>2. CASE o = Exe
  BY <1>2, Named DEF Parts
<1>3. CASE o # Exe
  <2>1. o \in Range(Objects) /\ UnitOf(o) \in Range(Jobs)
    BY <1>3, Named
  <2>2. Parts(o, n) = {Source(UnitOf(o)), HeaderIf(n), Cpc}
    BY <1>3 DEF Parts
  <2>3. \A m \in BOOLEAN : Parts(o, n) = Parts(o, m) => n = m
    BY <1>3, <2>1, Named DEF Parts, HeaderIf
  <2> QED
    BY <1>1, <1>3, <2>1, <2>2, <2>3, Named
<1> QED
  BY <1>2, <1>3

LEMMA OneElement == ASSUME NEW x PROVE SetToSeq({x}) = <<x>>
<1>1. Cardinality({x}) = 1
  BY FS_Singleton
<1>2. <<x>> \in [1..1 -> {x}] /\ IsInjective(<<x>>)
  BY DEF IsInjective
<1>3. \A f \in [1..1 -> {x}] : f = <<x>>
  OBVIOUS
<1> QED
  BY <1>1, <1>2, <1>3 DEF SetToSeq

LEMMA Ingredients ==
    ASSUME NEW o \in Outputs, NEW n \in BOOLEAN,
           o # Exe => PathsIn(made[o]) = Parts(o, n)
    PROVE  /\ InputsOf(o) \in Seq(Paths)
           /\ Range(InputsOf(o)) = Parts(o, n) \ {Cpc}
<1>1. CASE o = Exe
  <2>1. InputsOf(o) = Objects
    BY <1>1 DEF InputsOf
  <2>2. Parts(o, n) \ {Cpc} = Range(Objects)
    BY <1>1, Named, PartsIn
  <2> QED
    BY <2>1, <2>2, Manifest, Named
<1>2. CASE o # Exe
  <2> DEFINE u == UnitOf(o)
  <2>1. u \in Range(Jobs) /\ Source(u) \in Inputs /\ Source(u) # Cpc
    BY <1>2, Named
  <2>2. HeaderIf(n) \in Inputs /\ HeaderIf(n) # Cpc /\ HeaderIf(n) # Source(u)
    BY <2>1, Named DEF HeaderIf
  <2>3. PathsIn(made[o]) \ {Source(u), Cpc} = {HeaderIf(n)}
    BY <1>2, <2>1, <2>2 DEF Parts
  <2>4. InputsOf(o) = <<Source(u)>> \o SetToSeq(PathsIn(made[o]) \ {Source(u), Cpc})
    BY <1>2 DEF InputsOf, UnitOf
  <2>5. InputsOf(o) = <<Source(u)>> \o <<HeaderIf(n)>>
    <3>1. SetToSeq(PathsIn(made[o]) \ {Source(u), Cpc}) = <<HeaderIf(n)>>
      BY <2>3, OneElement, Zenon
    <3> HIDE DEF u
    <3> QED
      BY <2>4, <3>1, Zenon
  <2>6. InputsOf(o) \in Seq(Paths) /\ Range(InputsOf(o)) = {Source(u), HeaderIf(n)}
    <3> DEFINE x == Source(u)
               y == HeaderIf(n)
    <3>1. x \in Paths /\ y \in Paths
      BY <2>1, <2>2, Named
    <3> HIDE DEF x, y
    <3>2. <<x>> \in Seq(Paths) /\ <<y>> \in Seq(Paths) /\ Len(<<x>>) = 1 /\ Len(<<y>>) = 1
      BY <3>1
    <3>3. /\ <<x>> \o <<y>> \in Seq(Paths) /\ Len(<<x>> \o <<y>>) = 2
          /\ (<<x>> \o <<y>>)[1] = x /\ (<<x>> \o <<y>>)[2] = y
      BY <3>1, <3>2
    <3> DEFINE z == <<x>> \o <<y>>
    <3>4. z \in Seq(Paths) /\ Len(z) = 2 /\ z[1] = x /\ z[2] = y
      BY <3>3
    <3> HIDE DEF z
    <3>5. DOMAIN z = 1..2 /\ Range(z) = {x, y}
      BY <3>4 DEF Range
    <3> QED
      BY <2>5, <3>4, <3>5 DEF x, y, z
  <2>7. Parts(o, n) \ {Cpc} = {Source(u), HeaderIf(n)}
    BY <1>2, <2>1, <2>2 DEF Parts
  <2> QED
    BY <2>6, <2>7
<1> QED
  BY <1>1, <1>2

(* The record that cache_save leaves *)
Records1(o, n, r) ==
    /\ r \in Records /\ InputPaths(r) = Parts(o, n) \ {Cpc}
    /\ r.key = seen[Cpc] /\ r.time = disk[o]
    /\ \A i \in DOMAIN r.inputs : r.inputs[i][1] \in Paths /\ r.inputs[i][2] = Look(r.inputs[i][1])
    /\ o = Exe => r.dir = {}
    /\ o # Exe => \E d \in r.dir :
                     /\ r.dir = {d} /\ d.time = EnterDir.time
                     /\ d.names = Scan(EnterDir).names

LEMMA Noted ==
    ASSUME Control, Stamped, NEW o \in Outputs, NEW n \in BOOLEAN, pc # "idle",
           o # Exe => PathsIn(made[o]) = Parts(o, n)
    PROVE  Records1(o, n, Record(o))
<1> DEFINE r == Record(o)
           s == InputsOf(o)
<1>1. s \in Seq(Paths) /\ Range(s) = Parts(o, n) \ {Cpc}
  BY Ingredients
<1>2. /\ r.key = seen[Cpc] /\ r.time = disk[o]
      /\ r.inputs = [i \in DOMAIN s |-> <<s[i], Look(s[i])>>]
      /\ r.dir = IF o = Exe THEN {}
                 ELSE {[time |-> Scan(EnterDir).time, names |-> Scan(EnterDir).names]}
      /\ r = [key |-> r.key, time |-> r.time, inputs |-> r.inputs, dir |-> r.dir]
  BY DEF Record
<1> HIDE DEF r, s
<1>3. DOMAIN s = 1..Len(s) /\ Len(s) \in Nat /\ \A i \in DOMAIN s : s[i] \in Paths
  BY <1>1
<1>4. DOMAIN r.inputs = DOMAIN s /\ \A i \in DOMAIN s : r.inputs[i] = <<s[i], Look(s[i])>>
  BY <1>2
<1>5. \A i \in DOMAIN s : r.inputs[i] \in Paths \X Nat
  <2>1. \A i \in DOMAIN s : Look(s[i]) \in Nat
    BY <1>3, Looking
  <2>2. TAKE i \in DOMAIN s
  <2>3. s[i] \in Paths /\ Look(s[i]) \in Nat /\ r.inputs[i] = <<s[i], Look(s[i])>>
    BY <1>3, <1>4, <2>1
  <2> QED
    BY <2>3
<1>6. r.inputs \in Seq(Paths \X Nat)
  <2>1. r.inputs \in [1..Len(s) -> Paths \X Nat]
    BY <1>2, <1>3, <1>5
  <2> QED
    BY <1>3, <2>1
<1>7. InputPaths(r) = Range(s)
  BY <1>4 DEF InputPaths, Range
<1>8. r.key \in Nat /\ r.time \in Nat
  BY <1>2, Named DEF Control, Staged, DriverTyped, FilesTyped
<1>9. Scan(EnterDir).time = EnterDir.time /\ EnterDir.time \in Nat
      /\ Scan(EnterDir).names \in BOOLEAN
  <2>1. dir.names \in BOOLEAN
    BY DEF Control, DriverTyped
  <2>2. /\ EnterDir.time \in Nat
        /\ Scan(EnterDir) = [time |-> EnterDir.time, scanned |-> TRUE,
                             names |-> IF dir.scanned THEN dir.names ELSE Exists]
    <3>1. EnterDir \in [time : Nat, scanned : BOOLEAN, names : BOOLEAN]
      BY Scanning
    <3> QED
      BY <3>1, Scanning
  <2> QED
    <3>1. CASE dir.scanned
      BY <2>1, <2>2, <3>1
    <3>2. CASE ~dir.scanned
      BY <2>2, <3>2 DEF Exists
    <3> QED
      BY <3>1, <3>2
<1>10. r.dir \in SUBSET [time : Nat, names : BOOLEAN]
  BY <1>2, <1>9
<1>11. r \in Records
  BY <1>2, <1>6, <1>8, <1>10 DEF Records
<1>12. \A i \in DOMAIN r.inputs :
          r.inputs[i][1] \in Paths /\ r.inputs[i][2] = Look(r.inputs[i][1])
  BY <1>3, <1>4
<1>13. o # Exe => \E d \in r.dir : /\ r.dir = {d} /\ d.time = EnterDir.time
                                   /\ d.names = Scan(EnterDir).names
  <2>1. SUFFICES ASSUME o # Exe
                 PROVE  \E d \in r.dir : /\ r.dir = {d} /\ d.time = EnterDir.time
                                         /\ d.names = Scan(EnterDir).names
    OBVIOUS
  <2> DEFINE e == [time |-> Scan(EnterDir).time, names |-> Scan(EnterDir).names]
  <2>2. r.dir = {e} /\ e.time = EnterDir.time /\ e.names = Scan(EnterDir).names
    BY <1>2, <1>9, <2>1
  <2> HIDE DEF e
  <2> QED
    BY <2>2
<1> QED
  BY <1>1, <1>2, <1>7, <1>11, <1>12, <1>13 DEF Records1, r

-----------------------------------------------------------------------------
(* Types and phases *)

LEMMA Blank ==
    /\ NoDir \in [time : Nat \cup {Unknown}, scanned : BOOLEAN, names : BOOLEAN]
    /\ NoTable \in [Paths -> Nat \cup {Unknown}]
    /\ 1 \in 1..Len(Jobs) + 1 /\ Len(Jobs) + 1 \in 1..Len(Jobs) + 1
<1>1. NoDir \in [time : Nat \cup {Unknown}, scanned : BOOLEAN, names : BOOLEAN]
  BY DEF NoDir, Unknown
<1>2. NoTable \in [Paths -> Nat \cup {Unknown}]
  BY DEF NoTable
<1> QED
  BY <1>1, <1>2, Manifest

LEMMA InitBase == ASSUME BuildInit PROVE Base
<1>1. /\ disk \in [Paths -> {0, 1}] /\ writes = disk /\ DOMAIN made = Outputs /\ dirTime = 1
      /\ state = [o \in Outputs |-> {}] /\ cert = {}
      /\ pc = "idle" /\ rebuild = FALSE /\ skiplink = FALSE /\ seen = NoTable /\ dir = NoDir
      /\ dirty = {} /\ job = 1 /\ todo = <<>> /\ batch = <<>> /\ done = 0 /\ tool = Idle
      /\ quiet = TRUE /\ kept = {}
      /\ \A p \in Paths : disk[p] = 0 <=> p \notin Inputs \ {Shadow}
  BY DEF BuildInit
<1>2. Control
  <2>1. FilesTyped
    BY <1>1 DEF FilesTyped
  <2>2. DriverTyped
    <3>1. todo \in Seq({"file", "state"} \X (dirty \cup {Exe}))
      BY <1>1
    <3>2. pc \in Phases
      BY <1>1 DEF Phases
    <3>3. job \in 1..Len(Jobs) + 1 /\ seen \in [Paths -> Nat \cup {Unknown}]
          /\ dir \in [time : Nat \cup {Unknown}, scanned : BOOLEAN, names : BOOLEAN]
      BY <1>1, Blank, Zenon
    <3> QED
      BY <1>1, <3>1, <3>2, <3>3 DEF DriverTyped
  <2>3. ToolTyped
    BY <1>1 DEF ToolTyped, Idle
  <2>4. Staged
    BY <1>1 DEF Staged
  <2>5. ToolStaged
    BY <1>1 DEF ToolStaged, Idle, Busy
  <2> QED
    BY <2>1, <2>2, <2>3, <2>4, <2>5 DEF Control
<1>3. Stamped
  BY <1>1, Named DEF Stamped, NoTable, NoDir, Unknown
<1>4. Ledger /\ Stated /\ Flying /\ Unedited /\ Keeping
  BY <1>1, Named DEF Ledger, Stated, Flying, Unedited, Keeping, NoTable, Idle, Busy
<1> QED
  BY <1>2, <1>3, <1>4 DEF Base

(* A driver process that ends *)
LEMMA ExitsControl ==
    ASSUME Control, Exits, FilesTyped', cert' = {} \/ UNCHANGED cert, UNCHANGED <<quiet, kept>>
    PROVE  Control'
<1>1. /\ pc' = "idle" /\ rebuild' = FALSE /\ skiplink' = FALSE /\ seen' = NoTable
      /\ dir' = NoDir /\ dirty' = {} /\ job' = 1 /\ todo' = <<>> /\ batch' = <<>> /\ done' = 0
      /\ tool' = Idle
  BY DEF Exits
<1>2. DriverTyped'
  <2>1. todo' \in Seq({"file", "state"} \X (dirty' \cup {Exe}))
    BY <1>1
  <2>2. pc' \in Phases
    BY <1>1 DEF Phases
  <2>3. job' \in 1..Len(Jobs) + 1 /\ seen' \in [Paths -> Nat \cup {Unknown}]
        /\ dir' \in [time : Nat \cup {Unknown}, scanned : BOOLEAN, names : BOOLEAN]
    BY <1>1, Blank, Zenon
  <2>4. quiet' \in BOOLEAN /\ kept' \subseteq Range(Objects)
    BY DEF Control, DriverTyped
  <2> QED
    BY <1>1, <2>1, <2>2, <2>3, <2>4 DEF DriverTyped
<1>3. ToolTyped'
  BY <1>1 DEF ToolTyped, Idle
<1>4. Staged'
  BY <1>1 DEF Staged
<1>5. ToolStaged'
  BY <1>1 DEF ToolStaged, Idle, Busy
<1> QED
  BY <1>2, <1>3, <1>4, <1>5 DEF Control

(* What a pending removal names *)
LEMMA Removals ==
    ASSUME Control, todo # <<>>
    PROVE  /\ Head(todo) \in {"file", "state"} \X (dirty \cup {Exe})
           /\ Head(todo)[1] \in {"file", "state"} /\ Head(todo)[2] \in dirty \cup {Exe}
           /\ Head(todo)[2] \in Outputs
           /\ pc = "unlink" => Head(todo)[2] = Exe
<1>1. todo \in Seq({"file", "state"} \X (dirty \cup {Exe})) /\ dirty \subseteq Range(Objects)
  BY DEF Control, DriverTyped
<1>2. Head(todo) \in {"file", "state"} \X (dirty \cup {Exe})
  BY <1>1
<1>3. pc = "unlink" => Head(todo) \in {"file", "state"} \X {Exe}
  BY DEF Control, Staged
<1> QED
  BY <1>1, <1>2, <1>3, Named

-----------------------------------------------------------------------------
(* A table that only grows keeps its type. *)
LEMMA Grown ==
    ASSUME Control, NEW ps, seen' = Enter(ps)
    PROVE  /\ seen' \in [Paths -> Nat \cup {Unknown}]
           /\ \A p \in Paths : /\ seen[p] # Unknown => seen'[p] = seen[p]
                               /\ seen'[p] \in {seen[p], Look(p)}
                               /\ p \in ps => seen'[p] = Look(p) /\ seen'[p] # Unknown
                               /\ p \notin ps => seen'[p] = seen[p]
<1>1. \A p \in Paths : seen'[p] = IF p \in ps THEN Look(p) ELSE seen[p]
  BY Looking
<1>2. \A p \in Paths : Look(p) # Unknown
  BY Looking DEF Unknown
<1> QED
  BY <1>1, <1>2, Looking

LEMMA ControlStart ==
    ASSUME Base, NEW again \in BOOLEAN, NEW objectsOnly \in BOOLEAN, Start(again, objectsOnly)
    PROVE  Control'
<1>1. /\ FilesTyped /\ DriverTyped /\ ToolTyped /\ Staged /\ ToolStaged /\ Control
  BY DEF Base, Control
<1>2. /\ pc = "idle" /\ pc' = "check" /\ rebuild' = again /\ skiplink' = objectsOnly
      /\ cert' = {} /\ seen' = Enter({Cpc}) /\ quiet' = TRUE
      /\ kept' = IF again THEN {} ELSE kept
      /\ UNCHANGED <<disk, writes, made, dirTime, state, dir, dirty, job, todo, batch, done, tool>>
  BY DEF Start, fileVars, toolVars
<1>3. FilesTyped'
  BY <1>1, <1>2 DEF FilesTyped
<1>4. seen' \in [Paths -> Nat \cup {Unknown}] /\ seen'[Cpc] # Unknown
  BY <1>1, <1>2, Grown, Named
<1>5. DriverTyped'
  BY <1>1, <1>2, <1>4 DEF DriverTyped, Phases
<1>6. ToolTyped'
  BY <1>1, <1>2 DEF ToolTyped
<1>7. Staged'
  BY <1>1, <1>2, <1>4 DEF Staged
<1>8. ToolStaged'
  BY <1>1, <1>2 DEF ToolStaged, Busy
<1> QED
  BY <1>3, <1>5, <1>6, <1>7, <1>8 DEF Control

LEMMA ControlCheckJob ==
    ASSUME Base, CheckJob
    PROVE  Control'
<1>1. /\ FilesTyped /\ DriverTyped /\ ToolTyped /\ Staged /\ ToolStaged /\ Control
      /\ Stamped /\ Ledger
  BY DEF Base, Control
<1> DEFINE o == Objects[job]
<1>2. /\ pc = "check" /\ job <= Len(Jobs) /\ job' = job + 1
      /\ seen' = SeenLookingUp(o) /\ dir' = DirLookingUp(o)
      /\ dirty' = IF Valid(o) THEN dirty ELSE dirty \cup {o}
      /\ UNCHANGED <<disk, writes, made, dirTime, state, cert, pc, rebuild, skiplink, todo,
                     batch, done, tool, quiet, kept>>
  BY DEF CheckJob, fileVars, cacheVars, toolVars, ghostVars
<1>3. o \in Range(Objects) /\ o \in Outputs
  BY <1>1, <1>2, Manifest, Named DEF DriverTyped
<1>4. FilesTyped'
  BY <1>1, <1>2 DEF FilesTyped
<1>5. seen' \in [Paths -> Nat \cup {Unknown}] /\ seen'[Cpc] # Unknown
  <2>1. PICK ps : seen' = Enter(ps)
    BY <1>1, <1>2, <1>3, LookedUp
  <2>2. seen[Cpc] # Unknown
    BY <1>1, <1>2 DEF Staged
  <2> QED
    BY <1>1, <2>1, <2>2, Grown, Named
<1>6. dir' \in [time : Nat \cup {Unknown}, scanned : BOOLEAN, names : BOOLEAN]
  <2>1. CASE dir' = dir
    BY <1>1, <2>1 DEF DriverTyped
  <2>2. ASSUME NEW r \in state[o], NEW d \in r.dir, dir' = LookUpDir(d)
        PROVE  dir' \in [time : Nat \cup {Unknown}, scanned : BOOLEAN, names : BOOLEAN]
    <3>1. d.names \in BOOLEAN
      BY <1>1, <1>3 DEF FilesTyped, Records
    <3>2. dir.names \in BOOLEAN
      BY <1>1 DEF DriverTyped
    <3> DEFINE n == IF dir.scanned THEN dir.names ELSE IF dirTime = d.time THEN d.names ELSE Exists
    <3>3. EnterDir.time \in Nat /\ dir' = [time |-> EnterDir.time, scanned |-> TRUE, names |-> n]
      <4>1. EnterDir \in [time : Nat, scanned : BOOLEAN, names : BOOLEAN]
        BY <1>1, Scanning
      <4> QED
        BY <1>1, <2>2, <4>1, Scanning
    <3>4. n \in BOOLEAN
      BY <3>1, <3>2 DEF Exists
    <3> HIDE DEF n
    <3> QED
      BY <3>3, <3>4
  <2> QED
    BY <1>1, <1>2, <1>3, <2>1, <2>2, LookedUp
<1>7. DriverTyped'
  <2>1. job' \in 1..Len(Jobs) + 1
    BY <1>1, <1>2, Manifest DEF DriverTyped
  <2>2. todo' = <<>> /\ <<>> \in Seq({"file", "state"} \X (dirty' \cup {Exe}))
    BY <1>1, <1>2 DEF Staged
  <2>3. dirty' \subseteq Range(Objects)
    BY <1>1, <1>2, <1>3 DEF DriverTyped
  <2> QED
    BY <1>1, <1>2, <1>5, <1>6, <2>1, <2>2, <2>3 DEF DriverTyped
<1>8. ToolTyped'
  BY <1>1, <1>2 DEF ToolTyped
<1>9. Staged'
  BY <1>1, <1>2, <1>5 DEF Staged
<1>10. ToolStaged'
  BY <1>1, <1>2 DEF ToolStaged, Busy
<1> QED
  BY <1>4, <1>7, <1>8, <1>9, <1>10 DEF Control

LEMMA ControlPlan ==
    ASSUME Base, PlanRemovals
    PROVE  Control'
<1>1. /\ FilesTyped /\ DriverTyped /\ ToolTyped /\ Staged /\ ToolStaged /\ Control
  BY DEF Base, Control
<1> DEFINE stale == IF dirty # {} /\ ~skiplink THEN <<Exe>> \o DirtyObjects ELSE DirtyObjects
<1>2. /\ pc = "check" /\ job > Len(Jobs) /\ pc' = "clean"
      /\ todo' = [k \in 1..2 * Len(stale) |->
                    <<IF k % 2 = 1 THEN "file" ELSE "state", stale[(k + 1) \div 2]>>]
      /\ UNCHANGED <<disk, writes, made, dirTime, state, cert, rebuild, skiplink, seen, dir,
                     dirty, job, batch, done, tool, quiet, kept>>
  BY DEF PlanRemovals, fileVars, cacheVars, toolVars, ghostVars
<1>3. stale \in Seq(dirty \cup {Exe})
  <2>1. DirtyObjects \in Seq(dirty \cup {Exe})
    <3>1. DirtyObjects \in Seq(dirty)
      BY <1>1, Dirt DEF DriverTyped
    <3> QED
      BY <3>1
  <2>2. <<Exe>> \in Seq(dirty \cup {Exe})
    OBVIOUS
  <2>3. <<Exe>> \o DirtyObjects \in Seq(dirty \cup {Exe})
    BY <2>1, <2>2
  <2> QED
    BY <2>1, <2>3
<1> HIDE DEF stale
<1>4. todo' \in Seq({"file", "state"} \X (dirty \cup {Exe}))
  <2>1. Len(stale) \in Nat /\ \A k \in 1..Len(stale) : stale[k] \in dirty \cup {Exe}
    BY <1>3
  <2>2. ASSUME NEW k \in 1..2 * Len(stale)
        PROVE  <<IF k % 2 = 1 THEN "file" ELSE "state", stale[(k + 1) \div 2]>>
                  \in {"file", "state"} \X (dirty \cup {Exe})
    <3>1. (k + 1) \div 2 \in 1..Len(stale)
      BY <2>1
    <3> QED
      BY <2>1, <3>1
  <2>3. 2 * Len(stale) \in Nat
    BY <2>1
  <2>4. todo' \in [1..2 * Len(stale) -> {"file", "state"} \X (dirty \cup {Exe})]
    BY <1>2, <2>2
  <2> QED
    BY <2>3, <2>4
<1>5. DriverTyped'
  BY <1>1, <1>2, <1>4 DEF DriverTyped, Phases
<1>6. FilesTyped'
  BY <1>1, <1>2 DEF FilesTyped
<1>7. ToolTyped'
  BY <1>1, <1>2 DEF ToolTyped
<1>8. job = Len(Jobs) + 1
  BY <1>1, <1>2, Manifest DEF DriverTyped
<1>9. Staged'
  BY <1>1, <1>2, <1>8 DEF Staged
<1>10. ToolStaged'
  BY <1>1, <1>2 DEF ToolStaged, Busy
<1> QED
  BY <1>5, <1>6, <1>7, <1>9, <1>10 DEF Control

LEMMA ControlDiscard ==
    ASSUME Base, Discard
    PROVE  Control'
<1>1. /\ FilesTyped /\ DriverTyped /\ ToolTyped /\ Staged /\ ToolStaged /\ Control
  BY DEF Base, Control
<1> DEFINE o == Head(todo)[2]
<1>2. /\ pc \in {"clean", "unlink"} /\ todo # <<>> /\ todo' = Tail(todo)
      /\ \/ /\ disk' = [disk EXCEPT ![o] = 0] /\ made' = [made EXCEPT ![o] = {}]
            /\ state' = state
         \/ /\ state' = [state EXCEPT ![o] = {}] /\ disk' = disk /\ made' = made
      /\ seen' = [seen EXCEPT ![o] = disk'[o]]
      /\ UNCHANGED <<writes, dirTime, cert, pc, rebuild, skiplink, dir,
                     dirty, job, batch, done, tool, quiet, kept>>
  BY DEF Discard, toolVars, ghostVars
<1>3. o \in Outputs /\ o \in Paths /\ o # Cpc
  BY <1>1, <1>2, Removals, Named
<1> HIDE DEF o
<1>4. FilesTyped'
  <2>1. /\ [disk EXCEPT ![o] = 0] \in [Paths -> Nat]
        /\ [state EXCEPT ![o] = {}] \in [Outputs -> SUBSET Records]
        /\ DOMAIN [made EXCEPT ![o] = {}] = Outputs
    BY <1>1, <1>3 DEF FilesTyped
  <2> QED
    BY <1>1, <1>2, <2>1, Zenon DEF FilesTyped
<1>5. seen' \in [Paths -> Nat \cup {Unknown}] /\ seen'[Cpc] = seen[Cpc]
  BY <1>1, <1>2, <1>3, <1>4, Named DEF DriverTyped, FilesTyped
<1>6. /\ todo' \in Seq({"file", "state"} \X (dirty \cup {Exe}))
      /\ pc = "unlink" => todo' \in Seq({"file", "state"} \X {Exe})
  BY <1>1, <1>2 DEF DriverTyped, Staged
<1>7. DriverTyped'
  BY <1>1, <1>2, <1>5, <1>6 DEF DriverTyped
<1>8. ToolTyped'
  BY <1>1, <1>2 DEF ToolTyped
<1>9. Staged'
  BY <1>1, <1>2, <1>5, <1>6 DEF Staged
<1>10. ToolStaged'
  BY <1>1, <1>2 DEF ToolStaged, Busy
<1> QED
  BY <1>4, <1>7, <1>8, <1>9, <1>10 DEF Control

LEMMA ControlCompile ==
    ASSUME Base, Compile
    PROVE  Control'
<1>1. /\ FilesTyped /\ DriverTyped /\ ToolTyped /\ Staged /\ ToolStaged /\ Control
  BY DEF Base, Control
<1>2. /\ pc = "clean" /\ todo = <<>> /\ pc' = "compiling"
      /\ batch' = DirtyObjects /\ done' = 0
      /\ tool' = [phase |-> "start", pos |-> 1, code |-> 0, reads |-> {}]
      /\ UNCHANGED <<disk, writes, made, dirTime, state, cert, rebuild, skiplink, seen, dir,
                     dirty, job, todo, quiet, kept>>
  BY DEF Compile, RunTool, Idle, fileVars, cacheVars, ghostVars
<1>3. dirty \subseteq Range(Objects) /\ Range(Objects) \subseteq Outputs
  BY <1>1, Named DEF DriverTyped
<1>4. /\ batch' \in Seq(Outputs) /\ IsInjective(batch') /\ Range(batch') = dirty
  BY <1>2, <1>3, Dirt
<1>5. FilesTyped' /\ DriverTyped'
  BY <1>1, <1>2 DEF FilesTyped, DriverTyped, Phases
<1>6. ToolTyped'
  <2>1. Len(batch') \in Nat
    BY <1>4
  <2> QED
    BY <1>2, <1>4, <2>1 DEF ToolTyped
<1>7. Staged'
  BY <1>1, <1>2, <1>4 DEF Staged
<1>8. ToolStaged'
  BY <1>2 DEF ToolStaged, Busy
<1> QED
  BY <1>5, <1>6, <1>7, <1>8 DEF Control

LEMMA ControlLink ==
    ASSUME Base, Link
    PROVE  Control'
<1>1. /\ FilesTyped /\ DriverTyped /\ ToolTyped /\ Staged /\ ToolStaged /\ Control
  BY DEF Base, Control
<1>2. /\ pc = "unlink" /\ todo = <<>> /\ pc' = "linking"
      /\ batch' = <<Exe>> /\ done' = 0
      /\ tool' = [phase |-> "start", pos |-> 1, code |-> 0, reads |-> {}]
      /\ UNCHANGED <<disk, writes, made, dirTime, state, cert, rebuild, skiplink, seen, dir,
                     dirty, job, todo, quiet, kept>>
  BY DEF Link, RunTool, Idle, fileVars, cacheVars, ghostVars
<1>3. batch' \in Seq(Outputs) /\ Len(batch') = 1
  BY <1>2, Named
<1>4. FilesTyped' /\ DriverTyped'
  BY <1>1, <1>2 DEF FilesTyped, DriverTyped, Phases
<1>5. ToolTyped'
  BY <1>2, <1>3 DEF ToolTyped
<1>6. Staged'
  BY <1>1, <1>2 DEF Staged
<1>7. ToolStaged'
  BY <1>2 DEF ToolStaged, Busy
<1> QED
  BY <1>4, <1>5, <1>6, <1>7 DEF Control

(* What a step of the tool may touch *)
LEMMA AtWork ==
    ASSUME Control, tool.phase \in {"start", "open"}, tool.pos <= Len(batch)
    PROVE  /\ Busy /\ tool.pos \in DOMAIN batch /\ tool.pos \in 1..Len(batch)
           /\ batch[tool.pos] \in Outputs /\ batch[tool.pos] \in Paths
           /\ pc = "compiling" => batch[tool.pos] \in dirty /\ batch[tool.pos] # Exe
           /\ pc = "linking" => batch[tool.pos] = Exe
<1>1. /\ batch \in Seq(Outputs) /\ tool.pos \in Nat \ {0} /\ dirty \subseteq Range(Objects) /\ Busy
  BY DEF Control, ToolTyped, DriverTyped, ToolStaged
<1>2. tool.pos \in DOMAIN batch /\ tool.pos \in 1..Len(batch) /\ batch[tool.pos] \in Outputs
  BY <1>1
<1>3. pc = "compiling" => batch[tool.pos] \in dirty
  BY <1>2 DEF Control, Staged, Range
<1>4. pc = "linking" => batch[tool.pos] = Exe
  <2>1. ASSUME pc = "linking"
        PROVE  batch[tool.pos] = Exe
    <3>1. batch = <<Exe>>
      BY <2>1 DEF Control, Staged
    <3>2. tool.pos = 1
      BY <1>2, <3>1
    <3> QED
      BY <3>1, <3>2
  <2> QED
    BY <2>1
<1> QED
  BY <1>1, <1>2, <1>3, <1>4, Named

LEMMA ControlTool ==
    ASSUME Base, Tool \/ Timeout
    PROVE  Control'
<1>1. /\ FilesTyped /\ DriverTyped /\ ToolTyped /\ Staged /\ ToolStaged /\ Control
  BY DEF Base, Control
<1>2. UNCHANGED <<dirTime, state, cert, pc, rebuild, skiplink, seen, dir, dirty, job, todo,
                  batch, done, quiet, kept>>
  BY DEF Tool, ToolRead, ToolWrite, ToolFail, ToolExit, Timeout, fileVars, cacheVars,
         driverVars, ghostVars
<1>3. FilesTyped'
  <2>1. CASE ToolRead \/ ToolWrite
    <3> DEFINE o == batch[tool.pos]
    <3>1. tool.phase \in {"start", "open"} /\ tool.pos <= Len(batch)
      BY <1>1, <2>1 DEF ToolRead, ToolWrite, ToolStaged
    <3>2. o \in Outputs /\ o \in Paths
      BY <1>1, <3>1, AtWork
    <3>3. \E x : /\ writes' = [writes EXCEPT ![o] = writes[o] + 1]
                 /\ disk' = [disk EXCEPT ![o] = writes[o] + 1]
                 /\ made' = [made EXCEPT ![o] = x]
      BY <2>1 DEF ToolRead, ToolWrite
    <3> HIDE DEF o
    <3>4. writes[o] + 1 \in Nat
      BY <1>1, <3>2 DEF FilesTyped
    <3> QED
      BY <1>1, <1>2, <3>2, <3>3, <3>4 DEF FilesTyped
  <2>2. CASE ~(ToolRead \/ ToolWrite)
    <3>1. UNCHANGED <<disk, writes, made>>
      BY <2>2 DEF Tool, ToolFail, ToolExit, Timeout, fileVars
    <3> QED
      BY <1>1, <1>2, <3>1 DEF FilesTyped
  <2> QED
    BY <2>1, <2>2
<1>4. DriverTyped'
  BY <1>1, <1>2 DEF DriverTyped
<1>5. /\ DOMAIN tool' = {"phase", "pos", "code", "reads"}
      /\ tool'.phase \in {"start", "open", "exit"} /\ tool'.code \in {0, 1}
      /\ tool'.pos \in {tool.pos, tool.pos + 1}
      /\ tool'.pos # tool.pos => tool.phase = "open"
  BY <1>1 DEF Tool, ToolRead, ToolWrite, ToolFail, ToolExit, Timeout, ToolTyped
<1>6. ToolTyped'
  <2>1. batch \in Seq(Outputs) /\ tool.pos \in Nat \ {0} /\ done \in Nat /\ Len(batch) \in Nat
    BY <1>1 DEF ToolTyped
  <2>2. tool'.pos \in Nat \ {0} /\ done < tool'.pos /\ tool'.pos <= Len(batch) + 1
    BY <1>1, <1>5, <2>1 DEF ToolTyped, ToolStaged
  <2> QED
    BY <1>1, <1>2, <1>5, <2>2 DEF ToolTyped
<1>7. Busy
  BY <1>1 DEF Tool, ToolRead, ToolWrite, ToolFail, ToolExit, Timeout, ToolStaged, Busy
<1>8. Staged'
  <2>1. pc \notin {"idle", "check", "clean"}
    BY <1>7 DEF Busy
  <2> QED
    BY <1>1, <1>2, <2>1 DEF Staged
<1>9. ToolStaged'
  <2>1. tool'.phase \in {"start", "open"} => tool'.code = 0
    BY <1>1 DEF Tool, ToolRead, ToolWrite, ToolFail, ToolExit, Timeout, ToolTyped, ToolStaged
  <2>2. tool'.phase = "open" => tool'.pos <= Len(batch)
    BY <1>1 DEF Tool, ToolRead, ToolWrite, ToolFail, ToolExit, Timeout, ToolTyped, ToolStaged
  <2>3. tool'.phase = "exit" /\ tool'.code = 0 => tool'.pos = Len(batch) + 1
    <3>1. CASE ToolExit
      <4>1. tool'.pos = tool.pos /\ tool.pos > Len(batch)
        BY <1>1, <3>1 DEF ToolExit, ToolTyped
      <4>2. Len(batch) \in Nat
        BY <1>1 DEF ToolTyped
      <4> QED
        BY <1>1, <4>1, <4>2 DEF ToolTyped
    <3>2. CASE ~ToolExit
      <4>1. CASE ToolRead \/ ToolWrite
        BY <1>1, <4>1 DEF ToolRead, ToolWrite, ToolTyped
      <4>2. CASE ToolFail \/ Timeout
        <5>1. tool' = [tool EXCEPT !.phase = "exit", !.code = 1, !.reads = {}]
          BY <4>2 DEF ToolFail, Timeout
        <5>2. "code" \in DOMAIN tool
          BY <1>1 DEF ToolTyped
        <5>3. tool'.code = 1
          BY <5>1, <5>2
        <5> QED
          BY <5>3
      <4> QED
        BY <3>2, <4>1, <4>2 DEF Tool
    <3> QED
      BY <3>1, <3>2
  <2> QED
    BY <1>2, <1>7, <2>1, <2>2, <2>3 DEF ToolStaged, Busy
<1> QED
  BY <1>3, <1>4, <1>6, <1>8, <1>9 DEF Control

(* The end line that the driver reads is of a unit whose object is written. *)
LEMMA Reading ==
    ASSUME Base, pc = "compiling", done < Reported
    PROVE  /\ done + 1 \in 1..tool.pos - 1 /\ done + 1 \in DOMAIN batch
           /\ batch[done + 1] \in dirty /\ batch[done + 1] \in Range(Objects)
           /\ batch[done + 1] \in Outputs /\ batch[done + 1] # Exe
           /\ disk[batch[done + 1]] # 0
           /\ Text(batch[done + 1], made[batch[done + 1]])
           /\ \E n \in BOOLEAN : PathsIn(made[batch[done + 1]]) = Parts(batch[done + 1], n)
<1>1. /\ batch \in Seq(Outputs) /\ done \in Nat /\ tool.pos \in Nat \ {0}
      /\ tool.pos <= Len(batch) + 1 /\ dirty \subseteq Range(Objects) /\ Range(batch) = dirty
  BY DEF Base, Control, ToolTyped, DriverTyped, Staged
<1>2. done + 1 \in 1..tool.pos - 1 /\ done + 1 \in done + 1..tool.pos - 1
  BY <1>1 DEF Reported
<1>3. done + 1 \in DOMAIN batch
  BY <1>1, <1>2
<1>4. batch[done + 1] \in dirty
  BY <1>1, <1>3 DEF Range
<1>5. disk[batch[done + 1]] # 0 /\ Text(batch[done + 1], made[batch[done + 1]])
  BY <1>2 DEF Base, Flying, Busy
<1> QED
  BY <1>1, <1>2, <1>3, <1>4, <1>5, Named DEF Text, TextAt

LEMMA ControlCacheUnit ==
    ASSUME Base, CacheUnit
    PROVE  Control'
<1>1. /\ FilesTyped /\ DriverTyped /\ ToolTyped /\ Staged /\ ToolStaged /\ Control /\ Stamped
  BY DEF Base, Control
<1> DEFINE o == batch[done + 1]
<1>2. /\ pc = "compiling" /\ done < Reported /\ done' = done + 1
      /\ state' = [state EXCEPT ![o] = {Record(o)}]
      /\ seen' = [Enter(Range(InputsOf(o))) EXCEPT ![o] = disk[o]]
      /\ dir' = IF o = Exe THEN dir ELSE Scan(EnterDir)
      /\ kept' = IF quiet THEN kept \cup {o} ELSE kept
      /\ UNCHANGED <<disk, writes, made, dirTime, cert, pc, rebuild, skiplink,
                     dirty, job, todo, batch, tool, quiet>>
  BY DEF CacheUnit, Save, fileVars
<1>3. /\ done + 1 \in 1..tool.pos - 1 /\ o \in Range(Objects) /\ o \in Outputs /\ o # Exe
      /\ o \in Paths /\ o # Cpc
  BY <1>2, Reading, Named
<1>4. Record(o) \in Records
  <2>1. PICK n \in BOOLEAN : PathsIn(made[o]) = Parts(o, n)
    BY <1>2, Reading
  <2> HIDE DEF o
  <2>2. Records1(o, n, Record(o))
    BY <1>1, <1>2, <1>3, <2>1, Noted
  <2> QED
    BY <2>2 DEF Records1
<1> HIDE DEF o
<1>5. FilesTyped'
  BY <1>1, <1>2, <1>3, <1>4 DEF FilesTyped
<1>6. seen' \in [Paths -> Nat \cup {Unknown}] /\ seen'[Cpc] # Unknown
  <2> DEFINE e == Enter(Range(InputsOf(o)))
  <2>1. e \in [Paths -> Nat \cup {Unknown}]
    BY <1>1, Looking
  <2>2. e[Cpc] = IF Cpc \in Range(InputsOf(o)) THEN Look(Cpc) ELSE seen[Cpc]
    BY <1>1, Looking, Named
  <2>3. Look(Cpc) # Unknown /\ seen[Cpc] # Unknown
    BY <1>1, <1>2, Looking, Named DEF Staged, Unknown
  <2>4. disk[o] \in Nat
    BY <1>1, <1>3 DEF FilesTyped
  <2>5. seen' = [e EXCEPT ![o] = disk[o]]
    BY <1>2
  <2> HIDE DEF e
  <2> QED
    BY <1>3, <2>1, <2>2, <2>3, <2>4, <2>5, Named
<1>7. dir' \in [time : Nat \cup {Unknown}, scanned : BOOLEAN, names : BOOLEAN]
  <2> DEFINE n == IF dir.scanned THEN dir.names ELSE Exists
  <2>1. EnterDir.time \in Nat /\ dir' = [time |-> EnterDir.time, scanned |-> TRUE, names |-> n]
    <3>1. EnterDir \in [time : Nat, scanned : BOOLEAN, names : BOOLEAN]
      BY <1>1, Scanning
    <3> QED
      BY <1>1, <1>2, <1>3, <3>1, Scanning
  <2>2. n \in BOOLEAN
    BY <1>1 DEF DriverTyped, Exists
  <2> HIDE DEF n
  <2> QED
    BY <2>1, <2>2
<1>8. DriverTyped'
  BY <1>1, <1>2, <1>3, <1>6, <1>7 DEF DriverTyped
<1>9. ToolTyped'
  <2>1. done' \in Nat /\ done' < tool.pos
    BY <1>1, <1>2, <1>3 DEF ToolTyped
  <2> QED
    BY <1>1, <1>2, <2>1 DEF ToolTyped
<1>10. Staged'
  BY <1>1, <1>2, <1>6 DEF Staged
<1>11. ToolStaged'
  BY <1>1, <1>2 DEF ToolStaged, Busy
<1> QED
  BY <1>5, <1>8, <1>9, <1>10, <1>11 DEF Control

LEMMA ControlCleanup ==
    ASSUME Base, Cleanup
    PROVE  Control'
<1>1. FilesTyped /\ Control
  BY DEF Base, Control
<1>2. /\ Exits /\ UNCHANGED <<writes, dirTime, cert, quiet, kept>>
      /\ \/ UNCHANGED <<disk, made, state>>
         \/ /\ disk' = [disk EXCEPT ![Exe] = 0] /\ made' = [made EXCEPT ![Exe] = {}]
            /\ state' = [state EXCEPT ![Exe] = {}]
  BY DEF Cleanup, ghostVars
<1>3. FilesTyped'
  <2>1. /\ [disk EXCEPT ![Exe] = 0] \in [Paths -> Nat]
        /\ [state EXCEPT ![Exe] = {}] \in [Outputs -> SUBSET Records]
        /\ DOMAIN [made EXCEPT ![Exe] = {}] = Outputs
    BY <1>1, Named DEF FilesTyped
  <2> QED
    BY <1>1, <1>2, <2>1, Zenon DEF FilesTyped
<1> QED
  BY <1>1, <1>2, <1>3, ExitsControl

LEMMA ControlExits ==
    ASSUME Base, Kill \/ StopAtObjects \/ Succeed
    PROVE  Control'
<1>1. FilesTyped /\ Control
  BY DEF Base, Control
<1>2. /\ Exits
      /\ UNCHANGED <<disk, made, state, writes, dirTime, cert, quiet, kept>>
  BY DEF Kill, StopAtObjects, Succeed, ghostVars, fileVars, cacheVars
<1>3. FilesTyped'
  BY <1>1, <1>2 DEF FilesTyped
<1> QED
  BY <1>1, <1>2, <1>3, ExitsControl

LEMMA ControlLookUpExe ==
    ASSUME Base, LookUpExe
    PROVE  Control'
<1>1. /\ FilesTyped /\ DriverTyped /\ ToolTyped /\ Staged /\ ToolStaged /\ Control
      /\ Stamped /\ Ledger
  BY DEF Base, Control
<1>2. /\ Compiled /\ seen' = SeenLookingUp(Exe)
      /\ \/ pc' = "linked" /\ todo' = todo
         \/ pc' = "unlink" /\ todo' = <<<<"state", Exe>>, <<"file", Exe>>>>
      /\ UNCHANGED <<disk, writes, made, dirTime, state, cert, rebuild, skiplink, dir,
                     dirty, job, batch, done, tool, quiet, kept>>
  BY DEF LookUpExe, fileVars, cacheVars, toolVars, ghostVars
<1>3. pc \in {"clean", "compiling"} /\ todo = <<>>
  BY <1>1, <1>2 DEF Compiled, Staged
<1>4. seen' \in [Paths -> Nat \cup {Unknown}] /\ seen'[Cpc] # Unknown
  <2>1. PICK ps : seen' = Enter(ps)
    BY <1>1, <1>2, LookedUp, Named
  <2>2. seen[Cpc] # Unknown
    BY <1>1, <1>3 DEF Staged
  <2> QED
    BY <1>1, <2>1, <2>2, Grown, Named
<1>5. /\ pc' = "linked" => todo' = <<>>
      /\ pc' = "unlink" => todo' \in Seq({"file", "state"} \X {Exe})
      /\ todo' \in Seq({"file", "state"} \X (dirty \cup {Exe}))
  <2> DEFINE x == <<"state", Exe>>
             y == <<"file", Exe>>
  <2>1. /\ x \in {"file", "state"} \X {Exe} /\ y \in {"file", "state"} \X {Exe}
        /\ x \in {"file", "state"} \X (dirty \cup {Exe})
        /\ y \in {"file", "state"} \X (dirty \cup {Exe})
    OBVIOUS
  <2>2. (pc' = "linked" /\ todo' = <<>>) \/ (pc' = "unlink" /\ todo' = <<x, y>>)
    BY <1>2, <1>3, Zenon
  <2> HIDE DEF x, y
  <2>3. <<x, y>> \in Seq({"file", "state"} \X {Exe})
    BY <2>1
  <2>4. <<x, y>> \in Seq({"file", "state"} \X (dirty \cup {Exe}))
    BY <2>1
  <2>5. CASE pc' = "linked" /\ todo' = <<>>
    BY <2>5
  <2>6. CASE pc' = "unlink" /\ todo' = <<x, y>>
    <3> DEFINE z == <<x, y>>
    <3>1. todo' = z /\ z \in Seq({"file", "state"} \X {Exe})
          /\ z \in Seq({"file", "state"} \X (dirty \cup {Exe}))
      BY <2>3, <2>4, <2>6
    <3> HIDE DEF z
    <3> QED
      BY <2>6, <3>1
  <2> QED
    BY <2>2, <2>5, <2>6
<1>6. FilesTyped' /\ ToolTyped'
  BY <1>1, <1>2 DEF FilesTyped, ToolTyped
<1>7. DriverTyped'
  BY <1>1, <1>2, <1>4, <1>5 DEF DriverTyped, Phases
<1>8. Staged'
  BY <1>1, <1>2, <1>3, <1>4, <1>5 DEF Staged
<1>9. ToolStaged'
  <2>1. tool.phase \notin {"start", "open"}
    BY <1>1, <1>2 DEF Compiled, Drained, Staged, Idle
  <2>2. pc' \notin {"compiling", "linking"}
    BY <1>2
  <2> QED
    BY <1>2, <2>1, <2>2 DEF ToolStaged, Busy
<1> QED
  BY <1>6, <1>7, <1>8, <1>9 DEF Control

LEMMA ControlLinked ==
    ASSUME Base, Linked
    PROVE  Control'
<1>1. /\ FilesTyped /\ DriverTyped /\ ToolTyped /\ Staged /\ ToolStaged /\ Control /\ Stamped
  BY DEF Base, Control
<1>2. /\ pc = "linking" /\ pc' = "linked" /\ tool.phase = "exit"
      /\ state' = [state EXCEPT ![Exe] = {Record(Exe)}]
      /\ seen' = [Enter(Range(InputsOf(Exe))) EXCEPT ![Exe] = disk[Exe]]
      /\ dir' = dir
      /\ UNCHANGED <<disk, writes, made, dirTime, cert, rebuild, skiplink,
                     dirty, job, todo, batch, done, tool, quiet, kept>>
  BY DEF Linked, Save, fileVars, toolVars, ghostVars, Drained
<1>3. Exe \in Outputs /\ Exe \in Paths /\ Exe # Cpc
  BY Named
<1>4. Record(Exe) \in Records
  <2>1. Records1(Exe, TRUE, Record(Exe))
    BY <1>1, <1>2, <1>3, Noted
  <2> QED
    BY <2>1 DEF Records1
<1>5. FilesTyped'
  BY <1>1, <1>2, <1>3, <1>4 DEF FilesTyped
<1>6. seen' \in [Paths -> Nat \cup {Unknown}] /\ seen'[Cpc] # Unknown
  <2> DEFINE e == Enter(Range(InputsOf(Exe)))
  <2>1. e \in [Paths -> Nat \cup {Unknown}]
    BY <1>1, Looking
  <2>2. e[Cpc] = IF Cpc \in Range(InputsOf(Exe)) THEN Look(Cpc) ELSE seen[Cpc]
    BY <1>1, Looking, Named
  <2>3. Look(Cpc) # Unknown /\ seen[Cpc] # Unknown
    BY <1>1, <1>2, Looking, Named DEF Staged, Unknown
  <2>4. disk[Exe] \in Nat
    BY <1>1, <1>3 DEF FilesTyped
  <2>5. seen' = [e EXCEPT ![Exe] = disk[Exe]]
    BY <1>2
  <2> HIDE DEF e
  <2> QED
    BY <1>3, <2>1, <2>2, <2>3, <2>4, <2>5, Named
<1>7. DriverTyped'
  BY <1>1, <1>2, <1>6 DEF DriverTyped, Phases
<1>8. ToolTyped'
  BY <1>1, <1>2 DEF ToolTyped
<1>9. Staged'
  BY <1>1, <1>2, <1>6 DEF Staged
<1>10. ToolStaged'
  BY <1>1, <1>2 DEF ToolStaged, Busy
<1> QED
  BY <1>5, <1>7, <1>8, <1>9, <1>10 DEF Control

DirEntries == [time : Nat \cup {Unknown}, scanned : BOOLEAN, names : BOOLEAN]

(* What snapshot makes of the directory *)
LEMMA Snapped ==
    ASSUME Control, Stamped, Snapshot
    PROVE  /\ dir' \in DirEntries
           /\ dir'.scanned = dir.scanned
           /\ dir'.time = Unknown <=> dir.time = Unknown
           /\ dir'.time \in {dir.time, dirTime}
           /\ dir'.time = dirTime /\ dir.scanned => dir'.names = dir.names /\ dir.names = Exists
           /\ dir'.time = dirTime => dir'.names = Exists
<1>1. /\ dirTime \in Nat /\ dir.scanned \in BOOLEAN
      /\ dir = [time |-> dir.time, scanned |-> dir.scanned, names |-> dir.names]
      /\ dir.time \in Nat \cup {Unknown} /\ dir.names \in BOOLEAN
      /\ dir.scanned <=> dir.time # Unknown
      /\ dir.time = dirTime => dir.names = Exists
      /\ dirTime # Unknown
  BY DEF Control, FilesTyped, DriverTyped, Stamped, Unknown
<1>0. dir \in DirEntries
  BY DEF Control, DriverTyped, DirEntries
<1>2. CASE dir.time \in {Unknown, dirTime}
  <2>1. dir' = dir
    BY <1>2 DEF Snapshot
  <2> QED
    BY <1>0, <1>1, <2>1
<1>3. CASE dir.time \notin {Unknown, dirTime}
  <2> DEFINE now == Scan([dir EXCEPT !.scanned = FALSE])
  <2>1. now \in DirEntries /\ now.time = dir.time /\ now.scanned = TRUE /\ now.names = Exists
    <3> DEFINE e == [dir EXCEPT !.scanned = FALSE]
    <3>1. e \in DirEntries /\ e.time = dir.time /\ e.scanned = FALSE
      BY <1>0 DEF DirEntries
    <3>2. now = [e EXCEPT !.scanned = TRUE, !.names = Exists]
      BY <3>1 DEF Scan, Exists
    <3> HIDE DEF e, now
    <3>3. Exists \in BOOLEAN
      BY DEF Exists
    <3> QED
      BY <3>1, <3>2, <3>3 DEF DirEntries
  <2>2. dir' = IF dir.scanned /\ now.names # dir.names THEN now
               ELSE [(IF dir.scanned THEN now ELSE dir) EXCEPT !.time = dirTime]
    BY <1>3 DEF Snapshot
  <2>3. dir.scanned
    BY <1>1, <1>3
  <2>4. CASE Exists # dir.names
    <3>1. dir' = now
      BY <2>1, <2>2, <2>3, <2>4
    <3> QED
      BY <1>1, <1>3, <2>1, <2>3, <3>1 DEF DirEntries
  <2>5. CASE Exists = dir.names
    <3>1. dir' = [now EXCEPT !.time = dirTime]
      BY <2>1, <2>2, <2>3, <2>5
    <3> HIDE DEF now
    <3>2. dir' \in DirEntries /\ dir'.time = dirTime /\ dir'.scanned = TRUE /\ dir'.names = Exists
      BY <1>1, <2>1, <3>1 DEF DirEntries
    <3> QED
      BY <1>1, <1>3, <2>3, <2>5, <3>2 DEF DirEntries
  <2> QED
    BY <2>4, <2>5
<1> QED
  BY <1>2, <1>3

LEMMA ControlSnapshot ==
    ASSUME Base, Snapshot
    PROVE  Control'
<1>1. /\ FilesTyped /\ DriverTyped /\ ToolTyped /\ Staged /\ ToolStaged /\ Control /\ Stamped
  BY DEF Base, Control
<1>2. /\ pc = "linked" /\ pc' = "recorded"
      /\ UNCHANGED <<disk, writes, made, dirTime, state, rebuild, skiplink, seen,
                     dirty, job, todo, batch, done, tool, quiet, kept>>
  BY DEF Snapshot, fileVars, toolVars, ghostVars
<1>3. dir' \in [time : Nat \cup {Unknown}, scanned : BOOLEAN, names : BOOLEAN]
  BY <1>1, Snapped DEF DirEntries
<1>4. FilesTyped' /\ ToolTyped'
  BY <1>1, <1>2 DEF FilesTyped, ToolTyped
<1>5. DriverTyped'
  BY <1>1, <1>2, <1>3 DEF DriverTyped, Phases
<1>6. Staged'
  BY <1>1, <1>2 DEF Staged
<1>7. ToolStaged'
  BY <1>1, <1>2 DEF ToolStaged, Busy
<1> QED
  BY <1>4, <1>5, <1>6, <1>7 DEF Control

LEMMA ControlEditor ==
    ASSUME Base, Editor
    PROVE  Control'
<1>1. /\ FilesTyped /\ DriverTyped /\ ToolTyped /\ Staged /\ ToolStaged /\ Control
  BY DEF Base, Control
<1>2. /\ UNCHANGED <<made, state, cert, pc, rebuild, skiplink, seen, dir,
                     dirty, job, todo, batch, done, tool>>
      /\ quiet' = FALSE /\ kept' = {}
  BY DEF Editor, Edit, AddShadow, DropShadow, Touch, cacheVars, driverVars, toolVars
<1>3. disk' \in [Paths -> Nat] /\ writes' \in [Paths -> Nat] /\ dirTime' \in Nat
  <2>1. disk \in [Paths -> Nat] /\ writes \in [Paths -> Nat] /\ dirTime \in Nat
    BY <1>1 DEF FilesTyped
  <2>2. ASSUME NEW p \in Inputs, Edit(p)
        PROVE  disk' \in [Paths -> Nat] /\ writes' \in [Paths -> Nat] /\ dirTime' \in Nat
    BY <2>1, <2>2, Named DEF Edit, Touch
  <2>3. CASE AddShadow \/ DropShadow
    BY <2>1, <2>3, Named DEF AddShadow, DropShadow, Touch
  <2> QED
    BY <2>2, <2>3 DEF Editor
<1>4. FilesTyped' /\ ToolTyped'
  BY <1>1, <1>2, <1>3 DEF FilesTyped, ToolTyped
<1>5. DriverTyped'
  BY <1>1, <1>2 DEF DriverTyped
<1>6. Staged'
  BY <1>1, <1>2 DEF Staged
<1>7. ToolStaged'
  BY <1>1, <1>2 DEF ToolStaged, Busy
<1> QED
  BY <1>4, <1>5, <1>6, <1>7 DEF Control

LEMMA ControlStep ==
    ASSUME Base, BuildNext
    PROVE  Control'
BY ControlStart, ControlCheckJob, ControlPlan, ControlDiscard, ControlCompile, ControlLink,
   ControlTool, ControlCacheUnit, ControlCleanup, ControlExits, ControlLookUpExe,
   ControlLinked, ControlSnapshot, ControlEditor
   DEF BuildNext, Begin, Driver, Die, ToolFailed

-----------------------------------------------------------------------------
(* Stamps only grow: a stamp that a path has lost does not come back, and  *)
(* while an output keeps its stamp it keeps its content. *)
Aged ==
    /\ \A p \in Paths : /\ writes[p] <= writes'[p] /\ disk'[p] \in {0, writes'[p]}
                        /\ disk'[p] \in {0, disk[p]} \/ disk'[p] > writes[p]
    /\ \A p \in Inputs \ {Shadow} : disk'[p] # 0
    /\ dirTime <= dirTime' /\ (dirTime' = dirTime => Exists' = Exists)
    /\ \A o \in Outputs : disk'[o] = disk[o] /\ disk[o] # 0 => made'[o] = made[o]

(* Only the editor changes inputs. *)
Still == dirTime' = dirTime /\ \A p \in Inputs : disk'[p] = disk[p]

LEMMA AgedFiles ==
    ASSUME Base, UNCHANGED <<disk, writes, made, dirTime>>
    PROVE  Aged /\ Still
<1>1. /\ disk \in [Paths -> Nat] /\ writes \in [Paths -> Nat] /\ dirTime \in Nat
      /\ \A p \in Paths : disk[p] \in {0, writes[p]}
      /\ \A p \in Inputs \ {Shadow} : disk[p] # 0
  BY DEF Base, Control, FilesTyped, Stamped
<1>2. disk' = disk /\ writes' = writes /\ made' = made /\ dirTime' = dirTime
  OBVIOUS
<1>3. Exists' = Exists
  BY <1>2 DEF Exists
<1> QED
  BY <1>1, <1>2, <1>3 DEF Aged, Still

LEMMA AgedRemoval ==
    ASSUME Base, NEW o \in Outputs, disk' = [disk EXCEPT ![o] = 0],
           made' = [made EXCEPT ![o] = {}], UNCHANGED <<writes, dirTime>>
    PROVE  Aged /\ Still
<1>1. /\ disk \in [Paths -> Nat] /\ writes \in [Paths -> Nat] /\ DOMAIN made = Outputs
      /\ dirTime \in Nat /\ Stamped
  BY DEF Base, Control, FilesTyped
<1>2. o \in Paths /\ \A p \in Inputs : p # o /\ p \in Paths
  BY Named
<1>3. \A p \in Paths : disk'[p] = IF p = o THEN 0 ELSE disk[p]
  BY <1>1
<1>4. \A q \in Outputs : q # o => made'[q] = made[q]
  BY <1>1
<1>5. \A p \in Paths : disk[p] \in {0, writes[p]}
  BY <1>1 DEF Stamped
<1>6. \A p \in Inputs \ {Shadow} : disk[p] # 0
  BY <1>1 DEF Stamped
<1>7. Still
  BY <1>2, <1>3 DEF Still
<1>8. Exists' = Exists
  BY <1>7, Named DEF Still, Exists
<1>9. \A p \in Paths : /\ writes[p] <= writes'[p] /\ disk'[p] \in {0, writes'[p]}
                       /\ disk'[p] \in {0, disk[p]} \/ disk'[p] > writes[p]
  BY <1>1, <1>3, <1>5
<1>10. \A q \in Outputs : disk'[q] = disk[q] /\ disk[q] # 0 => made'[q] = made[q]
  BY <1>2, <1>3, <1>4, Named
<1> QED
  BY <1>1, <1>2, <1>3, <1>6, <1>7, <1>8, <1>9, <1>10 DEF Aged, Still

LEMMA AgedWrite ==
    ASSUME Base, NEW o \in Outputs, NEW x, disk' = [disk EXCEPT ![o] = writes[o] + 1],
           writes' = [writes EXCEPT ![o] = @ + 1],
           made' = [made EXCEPT ![o] = x], UNCHANGED dirTime
    PROVE  Aged /\ Still
<1>1. /\ disk \in [Paths -> Nat] /\ writes \in [Paths -> Nat] /\ DOMAIN made = Outputs
      /\ dirTime \in Nat /\ Stamped
  BY DEF Base, Control, FilesTyped
<1>2. o \in Paths /\ \A p \in Inputs : p # o /\ p \in Paths
  BY Named
<1>3. \A p \in Paths : /\ disk'[p] = IF p = o THEN writes[o] + 1 ELSE disk[p]
                       /\ writes'[p] = IF p = o THEN writes[o] + 1 ELSE writes[p]
  BY <1>1
<1>4. \A q \in Outputs : q # o => made'[q] = made[q]
  BY <1>1
<1>5. \A p \in Paths : disk[p] \in {0, writes[p]} /\ writes[p] \in Nat
  BY <1>1 DEF Stamped
<1>6. \A p \in Inputs \ {Shadow} : disk[p] # 0
  BY <1>1 DEF Stamped
<1>7. Still
  BY <1>2, <1>3 DEF Still
<1>8. Exists' = Exists
  BY <1>7, Named DEF Still, Exists
<1>9. \A p \in Paths : /\ writes[p] <= writes'[p] /\ disk'[p] \in {0, writes'[p]}
                       /\ disk'[p] \in {0, disk[p]} \/ disk'[p] > writes[p]
  BY <1>2, <1>3, <1>5
<1>10. \A q \in Outputs : disk'[q] = disk[q] /\ disk[q] # 0 => made'[q] = made[q]
  <2>1. disk'[o] # disk[o]
    BY <1>2, <1>3, <1>5
  <2> QED
    BY <1>4, <2>1
<1> QED
  BY <1>1, <1>2, <1>3, <1>6, <1>7, <1>8, <1>9, <1>10 DEF Aged, Still

(* An edit: one input gets a stamp of its own, or Shadow goes. *)
LEMMA EditedOne ==
    ASSUME Base, Editor
    PROVE  \E p \in Inputs :
              /\ \A q \in Paths : /\ q # p => disk'[q] = disk[q] /\ writes'[q] = writes[q]
                                  /\ writes'[q] \in Nat
              /\ \/ disk[p] # 0 /\ FileSettled(p) /\ dirTime' = dirTime /\ disk'[p] = writes[p] + 1
                 \/ p = Shadow /\ disk[p] = 0 /\ DirSettled /\ dirTime' = dirTime + 1
                    /\ disk'[p] = writes[p] + 1
                 \/ p = Shadow /\ disk[p] # 0 /\ DirSettled /\ dirTime' = dirTime + 1 /\ disk'[p] = 0
              /\ writes'[p] \in {writes[p], writes[p] + 1} /\ disk'[p] \in {0, writes'[p]}
              /\ UNCHANGED made
<1>1. /\ disk \in [Paths -> Nat] /\ writes \in [Paths -> Nat]
  BY DEF Base, Control, FilesTyped
<1>2. ASSUME NEW p \in Inputs, Edit(p)
      PROVE  /\ \A q \in Paths : /\ q # p => disk'[q] = disk[q] /\ writes'[q] = writes[q]
                                 /\ writes'[q] \in Nat
             /\ disk[p] # 0 /\ FileSettled(p) /\ dirTime' = dirTime /\ disk'[p] = writes[p] + 1
             /\ writes'[p] = writes[p] + 1 /\ UNCHANGED made
  BY <1>1, <1>2, Named DEF Edit, Touch
<1>3. ASSUME AddShadow
      PROVE  /\ \A q \in Paths : /\ q # Shadow => disk'[q] = disk[q] /\ writes'[q] = writes[q]
                                 /\ writes'[q] \in Nat
             /\ disk[Shadow] = 0 /\ DirSettled /\ dirTime' = dirTime + 1
             /\ disk'[Shadow] = writes[Shadow] + 1
             /\ writes'[Shadow] = writes[Shadow] + 1 /\ UNCHANGED made
  BY <1>1, <1>3, Named DEF AddShadow, Touch
<1>4. ASSUME DropShadow
      PROVE  /\ \A q \in Paths : /\ q # Shadow => disk'[q] = disk[q] /\ writes'[q] = writes[q]
                                 /\ writes'[q] \in Nat
             /\ disk[Shadow] # 0 /\ DirSettled /\ dirTime' = dirTime + 1
             /\ disk'[Shadow] = 0 /\ writes'[Shadow] = writes[Shadow] /\ UNCHANGED made
  BY <1>1, <1>4, Named DEF DropShadow, Touch
<1>5. CASE \E p \in Inputs : Edit(p)
  BY <1>2, <1>5
<1>6. CASE AddShadow
  BY <1>3, <1>6, Named
<1>7. CASE DropShadow
  BY <1>4, <1>7, Named
<1> QED
  BY <1>5, <1>6, <1>7 DEF Editor

LEMMA AgedEdit ==
    ASSUME Base, Editor
    PROVE  Aged
<1>1. /\ disk \in [Paths -> Nat] /\ writes \in [Paths -> Nat] /\ dirTime \in Nat
      /\ \A p \in Paths : disk[p] \in {0, writes[p]}
      /\ \A p \in Inputs \ {Shadow} : disk[p] # 0
  BY DEF Base, Control, FilesTyped, Stamped
<1>2. PICK p \in Inputs :
              /\ \A q \in Paths : /\ q # p => disk'[q] = disk[q] /\ writes'[q] = writes[q]
                                  /\ writes'[q] \in Nat
              /\ \/ disk[p] # 0 /\ FileSettled(p) /\ dirTime' = dirTime /\ disk'[p] = writes[p] + 1
                 \/ p = Shadow /\ disk[p] = 0 /\ DirSettled /\ dirTime' = dirTime + 1
                    /\ disk'[p] = writes[p] + 1
                 \/ p = Shadow /\ disk[p] # 0 /\ DirSettled /\ dirTime' = dirTime + 1 /\ disk'[p] = 0
              /\ writes'[p] \in {writes[p], writes[p] + 1} /\ disk'[p] \in {0, writes'[p]}
              /\ UNCHANGED made
  BY EditedOne
<1>3. p \in Paths /\ writes[p] \in Nat
  BY <1>1, Named
<1>4. \A q \in Paths : /\ writes[q] <= writes'[q] /\ disk'[q] \in {0, writes'[q]}
                       /\ disk'[q] \in {0, disk[q]} \/ disk'[q] > writes[q]
  <2>1. TAKE q \in Paths
  <2>2. CASE q = p
    BY <1>2, <1>3, <2>2
  <2>3. CASE q # p
    BY <1>1, <1>2, <2>3
  <2> QED
    BY <2>2, <2>3
<1>5. \A q \in Inputs \ {Shadow} : disk'[q] # 0
  <2>1. TAKE q \in Inputs \ {Shadow}
  <2>2. q \in Paths
    BY Named
  <2>3. CASE q = p
    BY <1>2, <1>3, <2>3
  <2>4. CASE q # p
    BY <1>1, <1>2, <2>2, <2>4
  <2> QED
    BY <2>3, <2>4
<1>6. dirTime <= dirTime' /\ (dirTime' = dirTime => Exists' = Exists)
  <2>1. dirTime' \in {dirTime, dirTime + 1}
    BY <1>2
  <2>2. ASSUME dirTime' = dirTime
        PROVE  (disk'[Shadow] # 0) = (disk[Shadow] # 0)
    <3>1. disk[p] # 0 /\ disk'[p] = writes[p] + 1
      BY <1>1, <1>2, <2>2
    <3>2. CASE p = Shadow
      BY <1>3, <3>1, <3>2
    <3>3. CASE p # Shadow
      BY <1>2, <3>3, Named
    <3> QED
      BY <3>2, <3>3
  <2> QED
    BY <1>1, <2>1, <2>2 DEF Exists
<1> QED
  BY <1>2, <1>4, <1>5, <1>6 DEF Aged

LEMMA Aging ==
    ASSUME Base, BuildNext
    PROVE  Aged /\ (Still \/ Editor)
<1>1. Control
  BY DEF Base
<1>2. CASE UNCHANGED <<disk, writes, made, dirTime>>
  BY <1>2, AgedFiles
<1>3. CASE Discard
  <2>1. Head(todo)[2] \in Outputs
    BY <1>1, <1>3, Removals DEF Discard
  <2>2. UNCHANGED <<writes, dirTime>>
    BY <1>3 DEF Discard
  <2>3. CASE Head(todo)[1] = "file"
    <3>1. disk' = [disk EXCEPT ![Head(todo)[2]] = 0] /\ made' = [made EXCEPT ![Head(todo)[2]] = {}]
      BY <1>3, <2>3 DEF Discard
    <3> QED
      BY <2>1, <2>2, <3>1, AgedRemoval
  <2>4. CASE Head(todo)[1] # "file"
    BY <1>3, <2>2, <2>4, AgedFiles DEF Discard
  <2> QED
    BY <2>3, <2>4
<1>4. CASE Cleanup
  <2>1. CASE skiplink
    BY <1>4, <2>1, AgedFiles DEF Cleanup
  <2>2. CASE ~skiplink
    BY <1>4, <2>2, AgedRemoval, Named DEF Cleanup
  <2> QED
    BY <2>1, <2>2
<1>5. CASE ToolRead \/ ToolWrite
  <2>1. batch[tool.pos] \in Outputs
    BY <1>1, <1>5, AtWork DEF ToolRead, ToolWrite, Control, ToolStaged
  <2> QED
    BY <1>5, <2>1, AgedWrite DEF ToolRead, ToolWrite
<1>6. CASE Editor
  BY <1>6, AgedEdit
<1>7. CASE ~(UNCHANGED <<disk, writes, made, dirTime>>)
  BY <1>3, <1>4, <1>5, <1>6, <1>7
     DEF BuildNext, Begin, Driver, Tool, Die, ToolFailed, Start, CheckJob, PlanRemovals, Compile,
         CacheUnit, Timeout, ToolFail, ToolExit, StopAtObjects, LookUpExe, Link, Linked, Snapshot,
         Succeed, Kill, fileVars
<1> QED
  BY <1>2, <1>7

-----------------------------------------------------------------------------
(* How the tables move *)

SeenMoves == \A p \in Paths : \/ seen'[p] \in {seen[p], disk[p], disk'[p], Unknown}

DirMoves ==
    \/ dir' = dir \/ dir' = NoDir
    \/ /\ dir'.scanned /\ dir'.time \in Nat /\ dir'.time <= dirTime
       /\ dir'.time \in {dir.time, dirTime} /\ dirTime' = dirTime /\ Exists' = Exists
       /\ dir'.time = dirTime => dir'.names = Exists

RecordMoves ==
    \A o \in Outputs :
        \/ state'[o] \in {state[o], {}}
        \/ \E n \in BOOLEAN : state'[o] = {Record(o)} /\ Records1(o, n, Record(o))

(* Entering files makes the table grow, *)
LEMMA GrownMoves ==
    ASSUME Control, NEW ps, seen' = Enter(ps)
    PROVE  SeenMoves
<1>1. \A p \in Paths : seen'[p] \in {seen[p], Look(p)} /\ Look(p) \in {seen[p], disk[p]}
  BY Grown, Looking
<1> QED
  BY <1>1 DEF SeenMoves

(* and so does recording an output. *)
LEMMA SavedMoves ==
    ASSUME Base, NEW o \in Outputs, Save(o), pc # "idle",
           o # Exe => \E n \in BOOLEAN : PathsIn(made[o]) = Parts(o, n)
    PROVE  /\ SeenMoves /\ RecordMoves
           /\ \A p \in Paths : p # o => \/ seen'[p] = seen[p]
                                        \/ seen[p] = Unknown /\ seen'[p] = disk[p]
           /\ \A p \in Range(InputsOf(o)) : p \in Paths /\ (p # o => seen'[p] = Look(p) /\ seen'[p] # Unknown)
           /\ seen'[o] = disk[o]
<1>1. /\ Control /\ Stamped /\ DOMAIN state = Outputs
  BY DEF Base, Control, FilesTyped
<1>2. /\ state' = [state EXCEPT ![o] = {Record(o)}]
      /\ seen' = [Enter(Range(InputsOf(o))) EXCEPT ![o] = disk[o]]
  BY DEF Save
<1>3. PICK n \in BOOLEAN : o # Exe => PathsIn(made[o]) = Parts(o, n)
  OBVIOUS
<1>4. Records1(o, n, Record(o))
  BY <1>1, <1>3, Noted
<1>5. Range(InputsOf(o)) \subseteq Paths
  BY <1>3, Ingredients, PartsIn
<1>6. RecordMoves
  BY <1>1, <1>2, <1>4 DEF RecordMoves
<1> DEFINE s == Range(InputsOf(o))
           e == Enter(s)
<1>7. e \in [Paths -> Nat \cup {Unknown}] /\ \A p \in Paths : e[p] = IF p \in s THEN Look(p) ELSE seen[p]
  BY <1>1, Looking
<1>8. \A p \in Paths : seen'[p] = IF p = o THEN disk[o] ELSE IF p \in s THEN Look(p) ELSE seen[p]
  <2>1. seen' = [e EXCEPT ![o] = disk[o]]
    BY <1>2
  <2> HIDE DEF e
  <2> QED
    BY <1>7, <2>1
<1> HIDE DEF s, e
<1>9. o \in Paths
  BY Named
<1>10. \A p \in Paths : /\ Look(p) \in Nat /\ Look(p) # Unknown
                        /\ seen[p] # Unknown => Look(p) = seen[p]
                        /\ seen[p] = Unknown => Look(p) = disk[p]
  BY <1>1, Looking DEF Unknown
<1>11. \A p \in Paths : p # o => \/ seen'[p] = seen[p]
                                 \/ seen[p] = Unknown /\ seen'[p] = disk[p]
  BY <1>8, <1>10
<1>12. SeenMoves
  BY <1>8, <1>11 DEF SeenMoves
<1>13. \A p \in s : p \in Paths /\ (p # o => seen'[p] = Look(p) /\ seen'[p] # Unknown)
  BY <1>5, <1>8, <1>10 DEF s
<1> QED
  BY <1>6, <1>8, <1>9, <1>11, <1>12, <1>13 DEF s

(* The names recorded or scanned now are those there are. *)
LEMMA ListedMoves ==
    ASSUME Control, Stamped, UNCHANGED <<disk, dirTime>>,
           \/ dir' = Scan(EnterDir)
           \/ \E d : dir' = LookUpDir(d) /\ (d.time = dirTime => d.names = Exists)
    PROVE  /\ DirMoves /\ dir'.scanned
           /\ dir.scanned => dir'.time = dir.time /\ dir'.names = dir.names
           /\ ~dir.scanned => dir'.time = dirTime /\ dir'.names = Exists
<1>1. /\ dirTime \in Nat /\ dir.time \in Nat \cup {Unknown} /\ dir.time <= dirTime
      /\ dir.scanned <=> dir.time # Unknown
      /\ dir.time = dirTime => dir.names = Exists
  BY DEF Control, FilesTyped, DriverTyped, Stamped
<1>2. /\ EnterDir.time \in Nat
      /\ EnterDir.time = IF dir.scanned THEN dir.time ELSE dirTime
  <2>1. EnterDir \in [time : Nat, scanned : BOOLEAN, names : BOOLEAN]
    BY Scanning
  <2> QED
    BY <2>1, Scanning
<1>3. Exists' = Exists /\ dirTime' = dirTime
  BY DEF Exists
<1>4. dir'.time = EnterDir.time /\ dir'.scanned = TRUE
  BY Scanning
<1>5. dir.scanned => dir'.names = dir.names
  <2>1. SUFFICES ASSUME dir.scanned PROVE dir'.names = dir.names
    OBVIOUS
  <2>2. CASE dir' = Scan(EnterDir)
    BY <2>1, <2>2, Scanning
  <2>3. ASSUME NEW d, dir' = LookUpDir(d)
        PROVE  dir'.names = dir.names
    BY <2>1, <2>3, Scanning
  <2> QED
    BY <2>2, <2>3
<1>6. ~dir.scanned => dir'.names = Exists
  <2>1. SUFFICES ASSUME ~dir.scanned PROVE dir'.names = Exists
    OBVIOUS
  <2>2. CASE dir' = Scan(EnterDir)
    BY <2>1, <2>2, Scanning
  <2>3. ASSUME NEW d, dir' = LookUpDir(d), d.time = dirTime => d.names = Exists
        PROVE  dir'.names = Exists
    <3>1. dir'.names = IF dirTime = d.time THEN d.names ELSE Exists
      BY <2>1, <2>3, Scanning
    <3> QED
      BY <2>3, <3>1
  <2> QED
    BY <2>2, <2>3
<1> QED
  BY <1>1, <1>2, <1>3, <1>4, <1>5, <1>6 DEF DirMoves

(* What CheckJob and LookUpExe do to the tables *)
LEMMA LookUpMoves ==
    ASSUME Base, NEW o \in Outputs, seen' = SeenLookingUp(o), UNCHANGED <<disk, dirTime>>,
           dir' \in {dir, DirLookingUp(o)}
    PROVE  /\ SeenMoves /\ DirMoves
           /\ dir.scanned => dir'.scanned /\ dir'.time = dir.time /\ dir'.names = dir.names
<1>1. Control /\ Stamped /\ Ledger
  BY DEF Base
<1>2. SeenMoves
  <2>1. PICK ps : seen' = Enter(ps)
    BY <1>1, LookedUp
  <2> QED
    BY <1>1, <2>1, GrownMoves
<1>3. CASE dir' = dir
  BY <1>2, <1>3 DEF DirMoves
<1>4. ASSUME NEW r \in state[o], NEW d \in r.dir, dir' = LookUpDir(d)
      PROVE  DirMoves /\ (dir.scanned => dir'.scanned /\ dir'.time = dir.time /\ dir'.names = dir.names)
  <2>1. Recorded(o, r)
    BY <1>1 DEF Ledger
  <2>2. d.time = dirTime => d.names = Exists
    BY <1>4, <2>1 DEF Recorded
  <2> QED
    BY <1>1, <1>4, <2>2, ListedMoves
<1> QED
  BY <1>1, <1>2, <1>3, <1>4, LookedUp

LEMMA Moving ==
    ASSUME Base, BuildNext
    PROVE  SeenMoves /\ DirMoves /\ RecordMoves
<1>1. /\ Control /\ Stamped /\ DOMAIN state = Outputs
      /\ seen \in [Paths -> Nat \cup {Unknown}] /\ disk \in [Paths -> Nat]
  BY DEF Base, Control, FilesTyped, DriverTyped
<1>2. ASSUME NEW again, NEW objectsOnly, Start(again, objectsOnly)
      PROVE  SeenMoves /\ DirMoves /\ RecordMoves
  <2>1. seen' = Enter({Cpc}) /\ UNCHANGED <<dir, state>>
    BY <1>2 DEF Start
  <2> QED
    BY <1>1, <2>1, GrownMoves DEF DirMoves, RecordMoves
<1>3. CASE CheckJob
  <2> DEFINE o == Objects[job]
  <2>1. /\ seen' = SeenLookingUp(o) /\ dir' = DirLookingUp(o) /\ UNCHANGED <<disk, dirTime, state>>
        /\ job <= Len(Jobs)
    BY <1>3 DEF CheckJob, fileVars, cacheVars
  <2>2. o \in Outputs
    BY <1>1, <2>1, Manifest, Named DEF Control, DriverTyped
  <2> HIDE DEF o
  <2> QED
    BY <2>1, <2>2, LookUpMoves DEF RecordMoves
<1>4. CASE LookUpExe
  <2>1. seen' = SeenLookingUp(Exe) /\ UNCHANGED <<disk, dirTime, state, dir>>
    BY <1>4 DEF LookUpExe, fileVars, cacheVars
  <2> QED
    BY <2>1, LookUpMoves, Named DEF RecordMoves
<1>5. CASE Discard
  <2> DEFINE o == Head(todo)[2]
  <2>1. /\ state' \in {state, [state EXCEPT ![o] = {}]}
        /\ seen' = [seen EXCEPT ![o] = disk'[o]] /\ UNCHANGED dir
    BY <1>5 DEF Discard
  <2>2. o \in Outputs /\ o \in Paths
    BY <1>1, <1>5, Removals, Named DEF Discard
  <2> HIDE DEF o
  <2> QED
    BY <1>1, <2>1, <2>2 DEF SeenMoves, DirMoves, RecordMoves
<1>6. CASE CacheUnit
  <2> DEFINE o == batch[done + 1]
  <2>1. pc = "compiling" /\ done < Reported /\ Save(o) /\ UNCHANGED <<disk, dirTime>>
    BY <1>6 DEF CacheUnit, fileVars
  <2>2. o \in Outputs /\ o # Exe /\ \E n \in BOOLEAN : PathsIn(made[o]) = Parts(o, n)
    BY <2>1, Reading
  <2> HIDE DEF o
  <2>3. SeenMoves /\ RecordMoves
    BY <2>1, <2>2, SavedMoves
  <2>4. dir' = Scan(EnterDir)
    BY <2>1, <2>2 DEF Save
  <2> QED
    BY <1>1, <2>1, <2>3, <2>4, ListedMoves
<1>7. CASE Linked
  <2>1. pc = "linking" /\ Save(Exe)
    BY <1>7 DEF Linked
  <2>2. SeenMoves /\ RecordMoves
    BY <2>1, SavedMoves, Named
  <2>3. dir' = dir
    BY <2>1 DEF Save
  <2> QED
    BY <2>2, <2>3 DEF DirMoves
<1>8. CASE Exits
  <2>1. SeenMoves /\ DirMoves
    BY <1>8 DEF Exits, SeenMoves, DirMoves, NoTable
  <2>2. RecordMoves
    <3>1. state' \in {state, [state EXCEPT ![Exe] = {}]}
      <4>1. CASE Cleanup \/ Kill \/ StopAtObjects \/ Succeed
        BY <4>1 DEF Cleanup, Kill, StopAtObjects, Succeed, cacheVars
      <4>2. CASE ~(Cleanup \/ Kill \/ StopAtObjects \/ Succeed)
        <5>1. UNCHANGED state
          BY <1>3, <1>4, <1>5, <1>6, <1>7, <1>8, <4>2
             DEF BuildNext, Begin, Driver, Tool, Die, ToolFailed, Start, CheckJob, PlanRemovals,
                 Discard, CacheUnit, Linked, Compile, Timeout, ToolFail, ToolExit, ToolRead,
                 ToolWrite, LookUpExe, Link, Snapshot, Editor, Edit, AddShadow, DropShadow, Touch,
                 cacheVars, Exits
        <5> QED
          BY <5>1
      <4> QED
        BY <4>1, <4>2
    <3> QED
      BY <1>1, <3>1 DEF RecordMoves
  <2> QED
    BY <2>1, <2>2
<1>9. CASE Snapshot
  <2>1. UNCHANGED <<seen, state, disk, dirTime>>
    BY <1>9 DEF Snapshot, fileVars
  <2>2. SeenMoves /\ RecordMoves
    BY <2>1 DEF SeenMoves, RecordMoves
  <2>3. DirMoves
    <3>1. CASE dir.time \in {Unknown, dirTime}
      <4>1. dir' = dir
        BY <1>9, <3>1 DEF Snapshot
      <4> QED
        BY <4>1 DEF DirMoves
    <3>2. CASE dir.time \notin {Unknown, dirTime}
      <4>1. /\ dir'.scanned = dir.scanned /\ dir'.time \in {dir.time, dirTime}
            /\ dir'.time = dirTime => dir'.names = Exists
        BY <1>1, <1>9, Snapped
      <4>2. dir.scanned /\ dir.time \in Nat /\ dir.time <= dirTime /\ dirTime \in Nat
        BY <1>1, <3>2 DEF Stamped, Control, FilesTyped, DriverTyped
      <4>3. Exists' = Exists /\ dirTime' = dirTime
        BY <2>1 DEF Exists
      <4> QED
        BY <4>1, <4>2, <4>3 DEF DirMoves
    <3> QED
      BY <3>1, <3>2
  <2> QED
    BY <2>2, <2>3
<1>10. CASE UNCHANGED <<seen, dir, state>>
  BY <1>10 DEF SeenMoves, DirMoves, RecordMoves
<1>11. CASE ~(UNCHANGED <<seen, dir, state>>)
  BY <1>2, <1>3, <1>4, <1>5, <1>6, <1>7, <1>8, <1>9, <1>11
     DEF BuildNext, Begin, Driver, Tool, Die, ToolFailed, PlanRemovals, Compile, Cleanup,
         Timeout, ToolFail, ToolExit, ToolRead, ToolWrite, StopAtObjects, Link,
         Succeed, Kill, Editor, Edit, AddShadow, DropShadow, Touch, cacheVars, driverVars
<1> QED
  BY <1>10, <1>11

LEMMA StampedStep ==
    ASSUME Base, BuildNext
    PROVE  Stamped'
<1>1. /\ Control /\ Stamped /\ Aged /\ SeenMoves /\ DirMoves /\ Control'
  BY Aging, Moving, ControlStep DEF Base
<1>2. /\ dirTime \in Nat /\ dirTime' \in Nat /\ dir.time \in Nat \cup {Unknown}
      /\ \A p \in Paths : /\ disk[p] \in Nat /\ writes[p] \in Nat /\ seen[p] \in Nat \cup {Unknown}
                          /\ disk'[p] \in Nat /\ writes'[p] \in Nat
  BY <1>1 DEF Control, FilesTyped, DriverTyped
<1>3. \A p \in Paths : disk'[p] \in {0, writes'[p]} /\ seen'[p] <= writes'[p]
  <2>1. TAKE p \in Paths
  <2>2. /\ writes[p] <= writes'[p] /\ disk'[p] \in {0, writes'[p]}
        /\ disk[p] \in {0, writes[p]} /\ seen[p] <= writes[p]
        /\ seen'[p] \in {seen[p], disk[p], disk'[p], Unknown}
    BY <1>1 DEF Aged, Stamped, SeenMoves
  <2> QED
    BY <1>2, <2>2 DEF Unknown
<1>4. \A p \in Inputs \ {Shadow} : disk'[p] # 0
  BY <1>1 DEF Aged
<1>5. /\ dir'.time <= dirTime'
      /\ dir'.scanned <=> dir'.time # Unknown
      /\ dir'.time = dirTime' => dir'.names = Exists'
  <2>1. CASE dir' = dir
    <3>1. dir.time <= dirTime /\ dirTime <= dirTime' /\ (dirTime' = dirTime => Exists' = Exists)
          /\ (dir.scanned <=> dir.time # Unknown) /\ (dir.time = dirTime => dir.names = Exists)
      BY <1>1 DEF Stamped, Aged
    <3>2. dir.time <= dirTime'
      BY <1>2, <3>1 DEF Unknown
    <3>3. dir.time = dirTime' => dirTime' = dirTime
      BY <1>2, <3>1 DEF Unknown
    <3> QED
      BY <2>1, <3>1, <3>2, <3>3
  <2>2. CASE dir' = NoDir
    <3>1. dir'.time = -1 /\ dir'.scanned = FALSE
      BY <2>2 DEF NoDir, Unknown
    <3> QED
      BY <1>2, <3>1 DEF Unknown
  <2>3. CASE /\ dir'.scanned /\ dir'.time \in Nat /\ dir'.time <= dirTime
             /\ dirTime' = dirTime /\ Exists' = Exists
             /\ dir'.time = dirTime => dir'.names = Exists
    BY <1>2, <2>3 DEF Unknown
  <2> QED
    BY <1>1, <2>1, <2>2, <2>3 DEF DirMoves
<1> QED
  BY <1>3, <1>4, <1>5 DEF Stamped

(* What a record says of the past stays true. *)
LEMMA LedgerStep ==
    ASSUME Base, BuildNext
    PROVE  Ledger'
<1>1. /\ Control /\ Stamped /\ Ledger /\ Aged /\ RecordMoves /\ Control'
  BY Aging, Moving, ControlStep DEF Base
<1>2. /\ dirTime \in Nat /\ dirTime' \in Nat /\ state \in [Outputs -> SUBSET Records]
      /\ \A p \in Paths : /\ disk[p] \in Nat /\ writes[p] \in Nat /\ seen[p] \in Nat \cup {Unknown}
                          /\ writes'[p] \in Nat
  BY <1>1 DEF Control, FilesTyped, DriverTyped
<1>3. /\ \A p \in Paths : writes[p] <= writes'[p]
      /\ dirTime <= dirTime' /\ (dirTime' = dirTime => Exists' = Exists)
  BY <1>1 DEF Aged
<1>4. SUFFICES ASSUME NEW o \in Outputs, NEW r \in state'[o]
               PROVE  state'[o] = {r} /\ Recorded(o, r)'
  BY DEF Ledger
<1>5. Cpc \in Paths /\ o \in Paths
  BY Named
<1>6. CASE state'[o] \in {state[o], {}}
  <2>1. r \in state[o] /\ state'[o] = state[o] /\ state[o] = {r} /\ Recorded(o, r) /\ r \in Records
    BY <1>1, <1>2, <1>6 DEF Ledger
  <2>2. /\ r.key \in Nat /\ r.time \in Nat
        /\ \A i \in DOMAIN r.inputs : r.inputs[i][1] \in Paths /\ r.inputs[i][2] \in Nat
        /\ \A d \in r.dir : d.time \in Nat
    BY <2>1 DEF Records
  <2>3. r.key <= writes'[Cpc] /\ r.time <= writes'[o]
    <3>1. r.key <= writes[Cpc] /\ r.time <= writes[o]
      BY <2>1 DEF Recorded
    <3> QED
      BY <1>2, <1>3, <1>5, <2>2, <3>1
  <2>4. ASSUME NEW i \in DOMAIN r.inputs
        PROVE  r.inputs[i][2] <= writes'[r.inputs[i][1]]
    <3> DEFINE p == r.inputs[i][1]
    <3>1. p \in Paths /\ r.inputs[i][2] \in Nat /\ r.inputs[i][2] <= writes[p]
      BY <2>1, <2>2 DEF Recorded
    <3> HIDE DEF p
    <3>2. r.inputs[i][2] <= writes'[p]
      BY <1>2, <1>3, <3>1
    <3> QED
      BY <3>2 DEF p
  <2>5. ASSUME o # Exe
        PROVE  \E d \in r.dir : /\ r.dir = {d} /\ d.time <= dirTime'
                                /\ d.time = dirTime' => d.names = Exists'
    <3>1. PICK d \in r.dir : /\ r.dir = {d} /\ d.time <= dirTime
                             /\ d.time = dirTime => d.names = Exists
      BY <2>1, <2>5 DEF Recorded
    <3>2. d.time \in Nat
      BY <2>2
    <3>3. d.time <= dirTime' /\ (d.time = dirTime' => dirTime' = dirTime)
      BY <1>2, <1>3, <3>1, <3>2
    <3> QED
      BY <1>3, <3>1, <3>3
  <2>6. /\ o = Exe => r.dir = {} /\ InputPaths(r) = Range(Objects)
        /\ o # Exe => \E n \in BOOLEAN : InputPaths(r) = Parts(o, n) \ {Cpc}
    BY <2>1 DEF Recorded
  <2> QED
    BY <2>1, <2>3, <2>4, <2>5, <2>6 DEF Recorded
<1>7. ASSUME NEW n \in BOOLEAN, state'[o] = {Record(o)}, Records1(o, n, Record(o))
      PROVE  state'[o] = {r} /\ Recorded(o, r)'
  <2>1. r = Record(o) /\ state'[o] = {r} /\ Records1(o, n, r)
    BY <1>7
  <2>2. \A p \in Paths : Look(p) \in Nat /\ Look(p) <= writes'[p]
    <3>1. \A p \in Paths : Look(p) \in {seen[p], disk[p]} /\ Look(p) \in Nat
      BY <1>1, Looking
    <3>2. \A p \in Paths : disk[p] \in {0, writes[p]} /\ seen[p] <= writes[p]
      BY <1>1 DEF Stamped
    <3>3. ASSUME NEW p \in Paths
          PROVE  Look(p) <= writes'[p]
      <4>1. Look(p) <= writes[p]
        BY <1>2, <3>1, <3>2
      <4> QED
        BY <1>2, <1>3, <3>1, <4>1
    <3> QED
      BY <3>1, <3>3
  <2>3. r.key \in Nat /\ r.key <= writes'[Cpc] /\ r.time <= writes'[o]
    <3>1. r.key = seen[Cpc] /\ r.time = disk[o] /\ r \in Records
      BY <2>1 DEF Records1
    <3>2. r.key \in Nat
      BY <3>1 DEF Records
    <3>3. seen[Cpc] <= writes[Cpc] /\ disk[o] \in {0, writes[o]}
      BY <1>1, <1>5 DEF Stamped
    <3> QED
      BY <1>2, <1>3, <1>5, <3>1, <3>2, <3>3
  <2>4. \A i \in DOMAIN r.inputs : r.inputs[i][2] <= writes'[r.inputs[i][1]]
    BY <2>1, <2>2 DEF Records1
  <2>5. InputPaths(r) = Parts(o, n) \ {Cpc}
    BY <2>1 DEF Records1
  <2>6. o = Exe => r.dir = {} /\ InputPaths(r) = Range(Objects)
    <3>1. o = Exe => Parts(o, n) \ {Cpc} = Range(Objects)
      BY Named DEF Parts
    <3> QED
      BY <2>1, <2>5, <3>1 DEF Records1
  <2>7. ASSUME o # Exe
        PROVE  \E d \in r.dir : /\ r.dir = {d} /\ d.time <= dirTime'
                                /\ d.time = dirTime' => d.names = Exists'
    <3>1. PICK d \in r.dir : /\ r.dir = {d} /\ d.time = EnterDir.time
                             /\ d.names = Scan(EnterDir).names
      BY <2>1, <2>7 DEF Records1
    <3>2. /\ EnterDir.time = IF dir.scanned THEN dir.time ELSE dirTime
          /\ Scan(EnterDir).names = IF dir.scanned THEN dir.names ELSE Exists
          /\ EnterDir.time \in Nat
      <4>1. EnterDir \in [time : Nat, scanned : BOOLEAN, names : BOOLEAN]
        BY <1>1, Scanning
      <4> QED
        BY <1>1, <4>1, Scanning
    <3>3. dir.time <= dirTime /\ (dir.time = dirTime => dir.names = Exists)
      BY <1>1 DEF Stamped
    <3>4. d.time \in Nat /\ d.time <= dirTime /\ (d.time = dirTime => d.names = Exists)
      BY <1>2, <3>1, <3>2, <3>3
    <3>5. d.time <= dirTime' /\ (d.time = dirTime' => dirTime' = dirTime)
      BY <1>2, <1>3, <3>4
    <3> QED
      BY <1>3, <3>1, <3>4, <3>5
  <2>8. o # Exe => \E m \in BOOLEAN : InputPaths(r) = Parts(o, m) \ {Cpc}
    BY <2>5
  <2> QED
    BY <2>1, <2>3, <2>4, <2>6, <2>7, <2>8 DEF Recorded
<1> QED
  BY <1>1, <1>6, <1>7 DEF RecordMoves

(* The outputs whose stamp the driver may not have yet *)
Making(o) == Busy /\ \E i \in DOMAIN batch : i > done /\ batch[i] = o

LEMMA StatedStep ==
    ASSUME Base, BuildNext
    PROVE  Stated'
<1>1. /\ Control /\ Stamped /\ Stated /\ SeenMoves /\ Control'
  BY Moving, ControlStep DEF Base
<1>2. /\ \A p \in Paths : /\ disk[p] \in Nat /\ writes[p] \in Nat
                          /\ seen[p] \in Nat \cup {Unknown} /\ seen'[p] \in Nat \cup {Unknown}
      /\ disk \in [Paths -> Nat] /\ seen \in [Paths -> Nat \cup {Unknown}]
      /\ batch \in Seq(Outputs) /\ done \in Nat /\ DOMAIN batch = 1..Len(batch)
      /\ \A o \in Outputs : o \in Paths
  <2>1. /\ disk \in [Paths -> Nat] /\ writes \in [Paths -> Nat]
        /\ seen \in [Paths -> Nat \cup {Unknown}] /\ seen' \in [Paths -> Nat \cup {Unknown}]
    BY <1>1 DEF Control, FilesTyped, DriverTyped
  <2>2. batch \in Seq(Outputs) /\ done \in Nat
    BY <1>1 DEF Control, ToolTyped
  <2>3. \A o \in Outputs : o \in Paths
    BY Named
  <2>4. DOMAIN batch = 1..Len(batch)
    BY <2>2
  <2> QED
    BY <2>1, <2>2, <2>3, <2>4
<1>3. \A o \in Outputs : seen[o] \in {Unknown, disk[o]} \/ Making(o)
  BY <1>1 DEF Stated, Making
<1>4. SUFFICES ASSUME NEW o \in Outputs
               PROVE  seen'[o] \in {Unknown, disk'[o]} \/ Making(o)'
  BY DEF Stated, Making
<1>5. seen'[o] \in {seen[o], disk[o], disk'[o], Unknown}
  BY <1>1, <1>2 DEF SeenMoves
(* Nothing is being made, and the output is left alone. *)
<1>6. CASE ~Busy /\ disk'[o] = disk[o]
  BY <1>3, <1>5, <1>6 DEF Making
(* What is being made goes on being made. *)
<1>7. CASE disk'[o] = disk[o] /\ UNCHANGED <<pc, batch, done>>
  BY <1>3, <1>5, <1>7 DEF Making, Busy
<1>8. CASE Exits
  <2>1. seen'[o] = Unknown
    BY <1>2, <1>8 DEF Exits, NoTable
  <2> QED
    BY <2>1
<1>9. CASE Discard
  <2> DEFINE q == Head(todo)[2]
  <2>1. q \in Outputs /\ UNCHANGED <<pc, batch, done>> /\ ~Busy
    BY <1>1, <1>9, Removals DEF Discard, Busy, toolVars
  <2>2. seen' = [seen EXCEPT ![q] = disk'[q]] /\ disk' \in {disk, [disk EXCEPT ![q] = 0]}
    BY <1>9 DEF Discard
  <2> HIDE DEF q
  <2>3. CASE q = o
    BY <1>2, <2>1, <2>2, <2>3
  <2>4. CASE q # o
    <3>1. disk'[o] = disk[o]
      BY <1>2, <2>1, <2>2, <2>4
    <3> QED
      BY <1>6, <2>1, <3>1
  <2> QED
    BY <2>3, <2>4
<1>10. CASE ToolRead \/ ToolWrite
  <2> DEFINE q == batch[tool.pos]
  <2>1. /\ tool.phase \in {"start", "open"} /\ tool.pos <= Len(batch)
        /\ UNCHANGED <<pc, batch, done>> /\ disk' = [disk EXCEPT ![q] = writes[q] + 1]
    BY <1>1, <1>10 DEF ToolRead, ToolWrite, driverVars, Control, ToolStaged
  <2>2. q \in Outputs /\ Busy /\ tool.pos \in DOMAIN batch /\ tool.pos > done
    <3>1. done < tool.pos /\ tool.pos \in Nat
      BY <1>1 DEF Control, ToolTyped
    <3> QED
      BY <1>1, <1>2, <2>1, <3>1, AtWork
  <2> HIDE DEF q
  <2>3. CASE q = o
    BY <1>2, <2>1, <2>2, <2>3 DEF Making, Busy, q
  <2>4. CASE q # o
    <3>1. disk'[o] = disk[o]
      BY <1>2, <2>1, <2>2, <2>4
    <3> QED
      BY <1>7, <2>1, <3>1
  <2> QED
    BY <2>3, <2>4
<1>11. CASE CacheUnit
  <2> DEFINE q == batch[done + 1]
  <2>1. /\ pc = "compiling" /\ done < Reported /\ Save(q) /\ done' = done + 1
        /\ UNCHANGED <<disk, pc, batch>>
    BY <1>11 DEF CacheUnit, fileVars
  <2>2. q \in Outputs /\ q # Exe /\ \E n \in BOOLEAN : PathsIn(made[q]) = Parts(q, n)
    BY <2>1, Reading
  <2>3. CASE o = q
    <3>1. seen'[q] = disk[q]
      <4> HIDE DEF q
      <4> QED
        BY <2>1, <2>2, SavedMoves
    <3> QED
      BY <2>1, <2>3, <3>1
  <2>4. CASE o # q
    <3>1. Making(o) => Making(o)'
      BY <1>2, <2>1, <2>4 DEF Making, Busy
    <3> QED
      BY <1>3, <1>5, <2>1, <3>1
  <2> QED
    BY <2>3, <2>4
<1>12. CASE LookUpExe
  <2>1. ~Making(o) /\ UNCHANGED disk
    <3>1. CASE pc = "clean"
      BY <1>12, <3>1 DEF LookUpExe, Making, Busy, fileVars
    <3>2. CASE pc # "clean"
      <4>1. done = Len(batch) /\ UNCHANGED disk
        BY <1>12, <3>2 DEF LookUpExe, Compiled, fileVars
      <4>2. \A i \in 1..Len(batch) : ~(i > done)
        BY <1>2, <4>1
      <4> QED
        BY <1>2, <4>1, <4>2 DEF Making
    <3> QED
      BY <3>1, <3>2
  <2> QED
    BY <1>3, <1>5, <2>1
<1>13. CASE Linked
  <2>1. pc = "linking" /\ Save(Exe) /\ UNCHANGED disk
    BY <1>13 DEF Linked, fileVars
  <2>2. seen'[Exe] = disk[Exe]
    BY <2>1, SavedMoves, Named
  <2>3. o # Exe => ~Making(o)
    <3>1. batch = <<Exe>>
      BY <1>1, <2>1 DEF Control, Staged
    <3> QED
      BY <3>1 DEF Making
  <2> QED
    BY <1>3, <1>5, <2>1, <2>2, <2>3
<1>14. CASE Editor
  <2>1. PICK p \in Inputs : \A q \in Paths : q # p => disk'[q] = disk[q]
    BY <1>14, EditedOne
  <2>2. disk'[o] = disk[o]
    BY <1>2, <2>1, Named
  <2>3. UNCHANGED <<pc, batch, done>>
    BY <1>14 DEF Editor, Edit, AddShadow, DropShadow, Touch, driverVars, toolVars
  <2> QED
    BY <1>7, <2>2, <2>3
<1>15. CASE ~Busy /\ UNCHANGED disk
  BY <1>6, <1>15
<1>16. CASE UNCHANGED <<disk, pc, batch, done>>
  BY <1>7, <1>16
<1>17. CASE ~(~Busy /\ UNCHANGED disk) /\ ~(UNCHANGED <<disk, pc, batch, done>>)
  BY <1>8, <1>9, <1>10, <1>11, <1>12, <1>13, <1>14, <1>17
     DEF BuildNext, Begin, Driver, Tool, Die, ToolFailed, Start, CheckJob, PlanRemovals, Compile,
         Timeout, ToolFail, ToolExit, StopAtObjects, Link, Snapshot, Cleanup,
         Succeed, Kill, fileVars, driverVars, toolVars, Busy
<1> QED
  BY <1>15, <1>16, <1>17

LEMMA Read ==
    ASSUME NEW o \in Outputs
    PROVE  /\ Reads(o) = {<<p, Content(p)>> : p \in Parts(o, Exists)}
           /\ PathsIn(Reads(o)) = Parts(o, Exists)
           /\ \A n, q : n = Exists => TextAt(o, Reads(o), n, q)
<1>1. Cpc \notin Outputs /\ \A p \in Inputs : p \notin Outputs
  BY Named
<1>2. Exists \in BOOLEAN /\ HeaderNow = HeaderIf(Exists)
  BY DEF Exists, HeaderNow, HeaderIf
<1>3. Reads(o) = {<<p, Content(p)>> : p \in Parts(o, Exists)}
  <2>1. CASE o = Exe
    <3>1. Reads(o) = {<<q, made[q]>> : q \in Range(Objects)} \cup {<<Cpc, disk[Cpc]>>}
      BY <2>1 DEF Reads
    <3>2. Parts(o, Exists) = Range(Objects) \cup {Cpc}
      BY <2>1 DEF Parts
    <3>3. Content(Cpc) = disk[Cpc] /\ \A q \in Range(Objects) : Content(q) = made[q]
      BY <1>1, Named DEF Content
    <3> QED
      BY <3>1, <3>2, <3>3
  <2>2. CASE o # Exe
    <3>1. Reads(o) = TextOf(UnitOf(o))
      BY <2>2 DEF Reads, UnitOf
    <3>2. Parts(o, Exists) = {Source(UnitOf(o)), HeaderNow, Cpc} /\ Parts(o, Exists) \subseteq Inputs
      BY <1>2, <2>2, PartsIn DEF Parts
    <3>3. \A p \in Parts(o, Exists) : Content(p) = disk[p]
      BY <1>1, <3>2 DEF Content
    <3>4. Reads(o) = {<<p, disk[p]>> : p \in Parts(o, Exists)}
      BY <3>1, <3>2 DEF TextOf
    <3> QED
      BY <3>3, <3>4
  <2> QED
    BY <2>1, <2>2
<1>4. PathsIn(Reads(o)) = Parts(o, Exists)
  <2>1. \A e \in Reads(o) : e[1] \in Parts(o, Exists)
    BY <1>3
  <2>2. ASSUME NEW p \in Parts(o, Exists)
        PROVE  \E e \in Reads(o) : e[1] = p
    <3>1. <<p, Content(p)>> \in Reads(o)
      BY <1>3
    <3> QED
      BY <3>1
  <2> QED
    BY <2>1, <2>2 DEF PathsIn
<1>5. \A e \in Reads(o) : e = <<e[1], e[2]>>
  BY <1>3
<1> QED
  BY <1>2, <1>3, <1>4, <1>5 DEF TextAt

LEMMA FlyingStep ==
    ASSUME Base, BuildNext
    PROVE  Flying'
<1>1. /\ Control /\ Stamped /\ Flying /\ Control' /\ Aged /\ (Still \/ Editor)
  BY Aging, ControlStep DEF Base
<1>2. CASE ~Busy'
  BY <1>1, <1>2 DEF Flying, Control, ToolStaged
<1> SUFFICES ASSUME Busy'
             PROVE  Flying'
  BY <1>2
<1>3. quiet' => quiet /\ Exists' = Exists
  <2>1. CASE Editor
    BY <2>1 DEF Editor, Edit, AddShadow, DropShadow, Touch
  <2>2. CASE ~Editor
    <3>1. Exists' = Exists
      BY <1>1, <2>2, Named DEF Still, Exists
    <3>2. UNCHANGED quiet
      BY <2>2 DEF BuildNext, Begin, Driver, Tool, Die, ToolFailed, Start, CheckJob, PlanRemovals,
                  Discard, CacheUnit, Linked, Compile, Timeout, ToolFail, ToolExit, ToolRead,
                  ToolWrite, LookUpExe, Link, Snapshot, StopAtObjects, Succeed, Kill, Cleanup,
                  ghostVars, Busy
    <3> QED
      BY <3>1, <3>2
  <2> QED
    BY <2>1, <2>2
<1>4. \A o, c : TextAt(o, c, Exists, quiet) => TextAt(o, c, Exists', quiet')
  BY <1>3 DEF TextAt
<1>5. /\ batch \in Seq(Outputs) /\ DOMAIN batch = 1..Len(batch) /\ Len(batch) \in Nat
      /\ done \in Nat /\ tool.pos \in Nat \ {0} /\ tool.pos <= Len(batch) + 1
      /\ disk \in [Paths -> Nat] /\ writes \in [Paths -> Nat] /\ DOMAIN made = Outputs
      /\ DOMAIN tool = {"phase", "pos", "code", "reads"}
  BY <1>1 DEF Control, FilesTyped, ToolTyped
<1>6. \A i \in done + 1..tool.pos - 1 : i \in 1..Len(batch) /\ batch[i] \in Outputs /\ batch[i] \in Paths
  <2>1. \A i \in 1..Len(batch) : batch[i] \in Outputs /\ batch[i] \in Paths
    BY <1>5, Named
  <2>2. \A i \in done + 1..tool.pos - 1 : i \in 1..Len(batch)
    BY <1>5
  <2> QED
    BY <2>1, <2>2
<1>7. /\ tool.phase = "open" => TextAt(batch[tool.pos], tool.reads, Exists, quiet)
      /\ Busy => \A i \in done + 1..tool.pos - 1 :
                    disk[batch[i]] # 0 /\ TextAt(batch[i], made[batch[i]], Exists, quiet)
  BY <1>1 DEF Flying, Text
<1>8. SUFFICES
        /\ tool'.phase = "open" => TextAt(batch'[tool'.pos], tool'.reads, Exists', quiet')
        /\ \A i \in done' + 1..tool'.pos - 1 :
              disk'[batch'[i]] # 0 /\ TextAt(batch'[i], made'[batch'[i]], Exists', quiet')
  BY DEF Flying, Text
(* The outputs written stay as they are. *)
<1>9. CASE /\ Busy /\ UNCHANGED batch /\ tool'.pos = tool.pos /\ done' \in {done, done + 1}
           /\ tool'.phase = "open" => UNCHANGED tool
           /\ \A o \in Outputs : disk'[o] = disk[o] /\ made'[o] = made[o]
  <2>1. \A i \in done' + 1..tool'.pos - 1 : i \in done + 1..tool.pos - 1
    <3>1. done \in Nat /\ tool.pos \in Nat
      BY <1>5
    <3>2. tool'.pos = tool.pos /\ (done' = done \/ done' = done + 1)
      BY <1>9
    <3> QED
      BY <3>1, <3>2
  <2> QED
    BY <1>4, <1>6, <1>7, <1>9, <2>1
<1>10. CASE Compile \/ Link
  <2>1. tool'.phase = "start" /\ tool'.pos = 1 /\ done' = 0
    BY <1>10 DEF Compile, Link, RunTool, Idle
  <2> QED
    BY <2>1
<1>11. CASE ToolRead \/ ToolWrite
  <2> DEFINE o == batch[tool.pos]
  <2>1. tool.phase \in {"start", "open"} /\ tool.pos <= Len(batch) /\ UNCHANGED <<batch, done>>
    BY <1>1, <1>11 DEF ToolRead, ToolWrite, Control, ToolStaged
  <2>2. Busy /\ tool.pos \in 1..Len(batch) /\ o \in Outputs /\ o \in Paths
    BY <1>1, <2>1, AtWork
  <2>3. \A i \in done + 1..tool.pos - 1 : batch[i] # o
    <3>1. CASE pc = "compiling"
      <4>1. IsInjective(batch)
        BY <1>1, <3>1 DEF Control, Staged
      <4> QED
        BY <1>5, <1>6, <2>2, <4>1 DEF IsInjective
    <3>2. CASE pc = "linking"
      <4>1. batch = <<Exe>>
        BY <1>1, <3>2 DEF Control, Staged
      <4> QED
        BY <1>5, <2>2, <4>1
    <3> QED
      BY <2>2, <3>1, <3>2 DEF Busy
  <2>4. /\ disk' = [disk EXCEPT ![o] = writes[o] + 1]
        /\ made' = [made EXCEPT ![o] = IF tool.phase = "open" THEN tool.reads ELSE {}]
    BY <1>11 DEF ToolRead, ToolWrite
  <2>5. ToolRead => /\ tool'.phase = "open" /\ tool'.pos = tool.pos /\ tool'.reads = Reads(o)
                    /\ tool.phase = "start"
    BY <1>5 DEF ToolRead
  <2>6. ToolWrite => tool'.phase = "start" /\ tool'.pos = tool.pos + 1 /\ tool.phase = "open"
    BY <1>5 DEF ToolWrite
  <2> HIDE DEF o
  <2>7. \A i \in done + 1..tool.pos - 1 :
           disk'[batch[i]] # 0 /\ TextAt(batch[i], made'[batch[i]], Exists', quiet')
    <3>1. \A i \in done + 1..tool.pos - 1 :
             disk'[batch[i]] = disk[batch[i]] /\ made'[batch[i]] = made[batch[i]]
      BY <1>5, <1>6, <2>2, <2>3, <2>4
    <3> QED
      BY <1>4, <1>7, <2>2, <3>1
  <2>8. CASE ToolRead
    <3>1. Exists' = Exists
      <4>1. ~Editor
        BY <1>5, <2>5, <2>8 DEF Editor, Edit, AddShadow, DropShadow, Touch, toolVars
      <4> QED
        BY <1>1, <4>1, Named DEF Still, Exists
    <3>2. TextAt(o, Reads(o), Exists', quiet')
      BY <2>2, <3>1, Read
    <3> QED
      BY <2>1, <2>5, <2>7, <2>8, <3>2 DEF o
  <2>9. CASE ToolWrite
    <3>1. disk'[o] # 0 /\ made'[o] = tool.reads
      BY <1>5, <2>2, <2>4, <2>6, <2>9
    <3>2. TextAt(o, made'[o], Exists', quiet')
      BY <1>4, <1>7, <2>6, <2>9, <3>1 DEF o
    <3>3. \A i \in done' + 1..tool'.pos - 1 : i = tool.pos \/ i \in done + 1..tool.pos - 1
      BY <1>5, <2>1, <2>6, <2>9
    <3>4. \A i \in done' + 1..tool'.pos - 1 :
             disk'[batch'[i]] # 0 /\ TextAt(batch'[i], made'[batch'[i]], Exists', quiet')
      BY <2>1, <2>7, <3>1, <3>2, <3>3 DEF o
    <3> QED
      BY <2>6, <2>9, <3>4
  <2> QED
    BY <1>11, <2>8, <2>9
<1>12. CASE Editor
  <2>1. \A o \in Outputs : disk'[o] = disk[o] /\ made'[o] = made[o]
    <3>1. PICK p \in Inputs : (\A q \in Paths : q # p => disk'[q] = disk[q]) /\ UNCHANGED made
      BY <1>12, EditedOne
    <3> QED
      BY <3>1, Named
  <2>2. UNCHANGED <<batch, done, tool, pc>>
    BY <1>12 DEF Editor, Edit, AddShadow, DropShadow, Touch, toolVars, driverVars
  <2> QED
    BY <1>9, <2>1, <2>2 DEF Busy
<1>13. CASE CacheUnit
  <2>1. /\ UNCHANGED <<batch, tool, disk, made, pc>> /\ done' = done + 1
    BY <1>13 DEF CacheUnit, fileVars
  <2> QED
    BY <1>9, <2>1 DEF Busy
<1>14. CASE ToolFail \/ ToolExit \/ Timeout
  <2>1. /\ UNCHANGED <<batch, done, disk, made, pc>>
        /\ tool'.pos = tool.pos /\ tool'.phase = "exit"
    BY <1>5, <1>14 DEF ToolFail, ToolExit, Timeout, fileVars, driverVars
  <2> QED
    BY <1>9, <2>1 DEF Busy
<1> QED
  BY <1>1, <1>10, <1>11, <1>12, <1>13, <1>14
     DEF BuildNext, Begin, Driver, Tool, Die, ToolFailed, Start, CheckJob, PlanRemovals,
         Discard, Linked, LookUpExe, Snapshot, StopAtObjects, Succeed, Kill, Cleanup, Exits, Busy,
         Compiled, Control, Staged

LEMMA UneditedStep ==
    ASSUME Base, BuildNext
    PROVE  Unedited'
<1>1. /\ Control /\ Control' /\ Unedited /\ SeenMoves /\ DirMoves /\ (Still \/ Editor)
  BY Aging, Moving, ControlStep DEF Base
<1>2. SUFFICES ASSUME quiet', pc' # "idle"
               PROVE  /\ \A p \in Inputs : seen'[p] \in {Unknown, disk'[p]}
                      /\ dir'.time \in {Unknown, dirTime'}
  BY DEF Unedited
<1>3. Still
  BY <1>1, <1>2 DEF Editor, Edit, AddShadow, DropShadow, Touch
<1>4. /\ \A p \in Inputs : p \in Paths /\ seen[p] \in {Unknown, disk[p]}
      /\ dir.time \in {Unknown, dirTime}
  <2>1. \A p \in Inputs : p \in Paths
    BY Named
  <2>2. CASE pc = "idle"
    <3>1. seen = NoTable /\ dir = NoDir
      BY <1>1, <2>2 DEF Control, Staged
    <3>2. dir.time = Unknown /\ \A p \in Paths : seen[p] = Unknown
      BY <3>1 DEF NoTable, NoDir
    <3> QED
      BY <2>1, <3>2
  <2>3. CASE pc # "idle"
    <3>1. quiet
      BY <1>2, <2>3 DEF BuildNext, Begin, Driver, Tool, Die, ToolFailed, Start, CheckJob,
          PlanRemovals, Discard, CacheUnit, Linked, Compile, Timeout, ToolFail, ToolExit, ToolRead,
          ToolWrite, LookUpExe, Link, Snapshot, StopAtObjects, Succeed, Kill, Cleanup,
          Editor, Edit, AddShadow, DropShadow, Touch, ghostVars
    <3> QED
      BY <1>1, <2>1, <2>3, <3>1 DEF Unedited
  <2> QED
    BY <2>2, <2>3
<1>5. ASSUME NEW p \in Inputs
      PROVE  seen'[p] \in {Unknown, disk'[p]}
  <2>1. seen'[p] \in {seen[p], disk[p], disk'[p], Unknown} /\ disk'[p] = disk[p]
    BY <1>1, <1>3, <1>4 DEF SeenMoves, Still
  <2> QED
    BY <1>4, <2>1
<1>6. dir'.time \in {Unknown, dirTime'}
  <2>1. dirTime' = dirTime
    BY <1>3 DEF Still
  <2>2. dir'.time \in {dir.time, dirTime, Unknown}
    BY <1>1 DEF DirMoves, NoDir
  <2> QED
    BY <1>4, <2>1, <2>2
<1> QED
  BY <1>5, <1>6

(* What a kept unit still has *)
Held(o, r) == Fits(o, r) /\ \A d \in r.dir : d.names = Exists

(* While nothing is edited, the record of a unit left alone goes on fitting. *)
LEMMA HeldLasts ==
    ASSUME Base, Still, NEW o \in Range(Objects), NEW r \in state[o], Held(o, r),
           disk'[o] = disk[o]
    PROVE  Held(o, r)'
<1>1. /\ Ledger /\ Control /\ o \in Outputs /\ o # Exe
  BY Named DEF Base
<1>2. PICK n \in BOOLEAN : InputPaths(r) = Parts(o, n) \ {Cpc}
  BY <1>1 DEF Ledger, Recorded
<1>3. \A i \in DOMAIN r.inputs : r.inputs[i][1] \in Inputs
  <2>1. InputPaths(r) \subseteq Inputs
    BY <1>1, <1>2, PartsIn
  <2> QED
    BY <2>1 DEF InputPaths
<1>4. /\ \A p \in Inputs : disk'[p] = disk[p]
      /\ Cpc \in Inputs /\ Shadow \in Inputs
  BY Named DEF Still
<1>5. \A i \in DOMAIN r.inputs : r.inputs[i][2] # 0 /\ r.inputs[i][2] = disk'[r.inputs[i][1]]
  BY <1>3, <1>4 DEF Held, Fits
<1>6. Exists' = Exists
  BY <1>4 DEF Exists
<1> QED
  BY <1>4, <1>5, <1>6 DEF Held, Fits

(* A kept unit is valid in a build that has seen no edit. *)
LEMMA HeldValid ==
    ASSUME Base, pc = "check", quiet, ~rebuild,
           NEW o \in Range(Objects), NEW r \in state[o], Held(o, r)
    PROVE  Valid(o)
<1>1. /\ Ledger /\ Control /\ Stamped /\ Stated /\ Unedited /\ o \in Outputs /\ o # Exe /\ o \in Paths
  BY Named DEF Base
<1>2. PICK n \in BOOLEAN : InputPaths(r) = Parts(o, n) \ {Cpc}
  BY <1>1 DEF Ledger, Recorded
<1>3. \A i \in DOMAIN r.inputs : r.inputs[i][1] \in Inputs
  <2>1. InputPaths(r) \subseteq Inputs
    BY <1>1, <1>2, PartsIn
  <2> QED
    BY <2>1 DEF InputPaths
<1>4. \A p \in Inputs \cup {o} : Look(p) = disk[p]
  <2>1. \A p \in Inputs \cup {o} : seen[p] \in {Unknown, disk[p]} /\ p \in Paths
    BY <1>1, Named DEF Unedited, Stated, Busy
  <2> QED
    BY <2>1 DEF Look
<1>5. seen[Cpc] = disk[Cpc]
  <2>1. seen[Cpc] # Unknown
    BY <1>1 DEF Control, Staged
  <2> QED
    BY <1>1, <2>1, Named DEF Unedited
<1>6. Agrees(r, o)
  BY <1>4, <1>5 DEF Agrees, Held, Fits
<1>7. Differing(r) = {}
  BY <1>3, <1>4 DEF Differing, Held, Fits
<1>8. ASSUME NEW d \in r.dir
      PROVE  LookUpDir(d).names = d.names
  <2>1. LookUpDir(d).names = IF dir.scanned THEN dir.names
                             ELSE IF dirTime = d.time THEN d.names ELSE Exists
    BY <1>1, Scanning
  <2>2. d.names = Exists
    BY DEF Held
  <2>3. dir.scanned => dir.names = Exists
    BY <1>1 DEF Unedited, Stamped
  <2> QED
    BY <2>1, <2>2, <2>3
<1> QED
  BY <1>6, <1>7, <1>8 DEF Valid, InputsAgree

(* What an undisturbed build records fits. *)
LEMMA HeldNew ==
    ASSUME Base, pc = "compiling", quiet, done < Reported
    PROVE  Held(batch[done + 1], Record(batch[done + 1]))
<1> DEFINE o == batch[done + 1]
           r == Record(o)
<1>1. /\ o \in Range(Objects) /\ o \in Outputs /\ o # Exe /\ disk[o] # 0
      /\ PathsIn(made[o]) = Parts(o, Exists)
  BY Reading DEF Text, TextAt
<1> HIDE DEF o
<1>2. /\ Control /\ Stamped /\ Unedited /\ Exists \in BOOLEAN
  BY DEF Base, Exists
<1>3. Records1(o, Exists, Record(o))
  BY <1>1, <1>2, Noted
<1> HIDE DEF r
<1>4. Records1(o, Exists, r)
  BY <1>3 DEF r
<1>5. \A p \in Inputs : Look(p) = disk[p] /\ p \in Paths
  BY <1>2, Named DEF Unedited, Look
<1>6. seen[Cpc] = disk[Cpc]
  <2>1. seen[Cpc] # Unknown
    BY <1>2 DEF Control, Staged
  <2> QED
    BY <1>2, <2>1, Named DEF Unedited
<1>7. \A p \in Parts(o, Exists) : p \in Inputs /\ disk[p] # 0
  <2>1. Parts(o, Exists) \subseteq Inputs
    BY <1>1, <1>2, PartsIn
  <2>2. Shadow \in Parts(o, Exists) => Exists
    <3>1. UnitOf(o) \in Range(Jobs)
      BY <1>1, Named
    <3> QED
      BY <1>1, <3>1, Named DEF Parts, HeaderIf
  <2>3. \A p \in Inputs \ {Shadow} : disk[p] # 0
    BY <1>2 DEF Stamped
  <2> QED
    BY <2>1, <2>2, <2>3 DEF Exists
<1>8. \A i \in DOMAIN r.inputs :
         r.inputs[i][2] # 0 /\ r.inputs[i][2] = disk[r.inputs[i][1]]
  <2>1. \A i \in DOMAIN r.inputs : r.inputs[i][1] \in Parts(o, Exists)
    BY <1>4 DEF Records1, InputPaths
  <2> QED
    BY <1>4, <1>5, <1>7, <2>1 DEF Records1
<1>9. \A d \in r.dir : d.names = Exists
  <2>1. \A d \in r.dir : d.names = Scan(EnterDir).names
    BY <1>1, <1>4 DEF Records1
  <2>2. Scan(EnterDir).names = IF dir.scanned THEN dir.names ELSE Exists
    BY <1>2, Scanning
  <2>3. dir.scanned => dir.names = Exists
    BY <1>2 DEF Unedited, Stamped
  <2> QED
    BY <2>1, <2>2, <2>3
<1>10. Fits(o, r)
  BY <1>1, <1>4, <1>6, <1>8 DEF Records1, Fits
<1> QED
  BY <1>9, <1>10 DEF Held, o, r

LEMMA KeepingStep ==
    ASSUME Base, BuildNext
    PROVE  Keeping'
<1>1. /\ Control /\ Stamped /\ Keeping /\ Control' /\ (Still \/ Editor)
  BY Aging, ControlStep DEF Base
<1>2. CASE Editor
  <2>1. kept' = {}
    BY <1>2 DEF Editor, Edit, AddShadow, DropShadow, Touch
  <2> QED
    BY <2>1 DEF Keeping
<1> SUFFICES ASSUME ~Editor
             PROVE  Keeping'
  BY <1>2
<1>3. /\ Still /\ kept \subseteq Range(Objects) /\ state \in [Outputs -> SUBSET Records]
      /\ disk \in [Paths -> Nat] /\ batch \in Seq(Outputs) /\ dirty \subseteq Range(Objects)
      /\ \A o \in Range(Objects) : o \in Outputs /\ o \in Paths /\ o # Exe
      /\ done \in Nat /\ tool.pos \in Nat
  BY <1>1, Named DEF Control, FilesTyped, DriverTyped, ToolTyped
<1>4. /\ kept # {} => quiet
      /\ \A o \in kept : \E r \in state[o] : Held(o, r)
      /\ rebuild /\ pc \in {"check", "clean"} => kept = {}
      /\ pc \in {"check", "clean"} => dirty \cap kept = {}
      /\ pc = "compiling" => \A o \in dirty \cap kept : \E i \in 1..done : batch[i] = o
  BY <1>1 DEF Keeping, Held
(* A record goes on being held while its unit is left alone. *)
<1>5. ASSUME NEW o \in kept, disk'[o] = disk[o], state'[o] = state[o]
      PROVE  \E r \in state'[o] : Held(o, r)'
  BY <1>3, <1>4, <1>5, HeldLasts
<1>6. CASE CacheUnit
  <2> DEFINE q == batch[done + 1]
  <2>1. /\ pc = "compiling" /\ done < Reported /\ Save(q) /\ done' = done + 1
        /\ kept' = IF quiet THEN kept \cup {q} ELSE kept
        /\ UNCHANGED <<disk, writes, made, dirTime, pc, rebuild, dirty, batch, quiet>>
    BY <1>6 DEF CacheUnit, fileVars
  <2>2. q \in Range(Objects) /\ q \in dirty /\ state' = [state EXCEPT ![q] = {Record(q)}]
    BY <2>1, Reading DEF Save
  <2>3. quiet => Held(q, Record(q))
    BY <2>1, HeldNew
  <2> HIDE DEF q
  <2>4. ASSUME NEW o \in kept'
        PROVE  \E r \in state'[o] : Held(o, r)'
    <3>1. quiet
      BY <1>4, <2>1
    <3>2. CASE o = q
      <4>1. PICK r : r = Record(q)
        OBVIOUS
      <4>2. state'[o] = {r} /\ Held(o, r)
        BY <1>3, <2>2, <2>3, <3>1, <3>2, <4>1
      <4>3. Held(o, r)'
        <5>1. /\ disk' = disk /\ Exists' = Exists
          BY <2>1 DEF Exists
        <5> QED
          BY <4>2, <5>1 DEF Held, Fits
      <4> QED
        BY <4>2, <4>3
    <3>3. CASE o # q
      <4>1. o \in kept /\ state'[o] = state[o] /\ disk'[o] = disk[o]
        BY <1>3, <2>1, <2>2, <3>3
      <4> QED
        BY <1>5, <4>1
    <3> QED
      BY <3>2, <3>3
  <2>5. \A o \in dirty' \cap kept' : \E i \in 1..done' : batch'[i] = o
    <3>1. ASSUME NEW o \in dirty' \cap kept'
          PROVE  \E i \in 1..done' : batch'[i] = o
      <4>1. CASE o = q
        <5>1. done + 1 \in 1..done'
          BY <1>3, <2>1
        <5> QED
          BY <2>1, <4>1, <5>1 DEF q
      <4>2. CASE o # q
        <5>1. o \in dirty \cap kept
          BY <2>1, <4>2
        <5>2. PICK i \in 1..done : batch[i] = o
          BY <1>4, <2>1, <5>1
        <5>3. i \in 1..done'
          BY <1>3, <2>1
        <5> QED
          BY <2>1, <5>2, <5>3
      <4> QED
        BY <4>1, <4>2
    <3> QED
      BY <3>1
  <2>6. kept' # {} => quiet'
    BY <1>4, <2>1
  <2>7. pc' = "compiling"
    BY <2>1
  <2> QED
    BY <2>4, <2>5, <2>6, <2>7 DEF Keeping, Held
<1>7. CASE ~CacheUnit
  <2>1. kept' \subseteq kept
    BY <1>7 DEF BuildNext, Begin, Driver, Tool, Die, ToolFailed, Start, CheckJob,
          PlanRemovals, Discard, Linked, Compile, Timeout, ToolFail, ToolExit, ToolRead,
          ToolWrite, LookUpExe, Link, Snapshot, StopAtObjects, Succeed, Kill, Cleanup,
          Editor, ghostVars
  <2>2. kept' # {} => quiet'
    BY <1>4, <1>7, <2>1 DEF BuildNext, Begin, Driver, Tool, Die, ToolFailed, Start, CheckJob,
          PlanRemovals, Discard, Linked, Compile, Timeout, ToolFail, ToolExit, ToolRead,
          ToolWrite, LookUpExe, Link, Snapshot, StopAtObjects, Succeed, Kill, Cleanup,
          Editor, ghostVars
  <2>3. ASSUME NEW o \in kept'
        PROVE  disk'[o] = disk[o] /\ state'[o] = state[o]
    <3>0. o \in Outputs /\ o \in Paths /\ o # Exe /\ o \in kept
      BY <1>3, <2>1
    <3>1. CASE UNCHANGED <<disk, state>>
      BY <3>1
    <3>2. CASE Discard
      <4>1. Head(todo)[2] # o
        <5>1. Head(todo)[2] \in dirty \cup {Exe} /\ (pc = "unlink" => Head(todo)[2] = Exe)
          BY <1>1, <3>2, Removals DEF Discard
        <5> QED
          BY <1>4, <3>0, <3>2, <5>1 DEF Discard
      <4>2. /\ disk' \in {disk, [disk EXCEPT ![Head(todo)[2]] = 0]}
            /\ state' \in {state, [state EXCEPT ![Head(todo)[2]] = {}]}
        BY <3>2 DEF Discard
      <4> QED
        BY <1>3, <3>0, <4>1, <4>2
    <3>3. CASE Cleanup
      BY <1>3, <3>0, <3>3 DEF Cleanup
    <3>4. CASE ToolRead \/ ToolWrite
      <4> DEFINE q == batch[tool.pos]
      <4>1. /\ tool.phase \in {"start", "open"} /\ tool.pos <= Len(batch) /\ UNCHANGED state
            /\ disk' = [disk EXCEPT ![q] = writes[q] + 1]
        BY <1>1, <3>4 DEF ToolRead, ToolWrite, Control, ToolStaged, cacheVars
      <4>2. /\ Busy /\ tool.pos \in DOMAIN batch
            /\ pc = "compiling" => q \in dirty
            /\ pc = "linking" => q = Exe
        BY <1>1, <4>1, AtWork
      <4>3. q # o
        <5>1. CASE pc = "linking"
          BY <3>0, <4>2, <5>1
        <5>2. CASE pc = "compiling"
          <6>1. SUFFICES ASSUME q = o PROVE FALSE
            OBVIOUS
          <6>2. PICK i \in 1..done : batch[i] = o
            BY <1>4, <3>0, <4>2, <5>2, <6>1
          <6>3. IsInjective(batch) /\ done < tool.pos /\ DOMAIN batch = 1..Len(batch)
            BY <1>1, <1>3, <5>2 DEF Control, Staged, ToolTyped
          <6>4. i \in DOMAIN batch /\ i # tool.pos
            BY <1>3, <4>1, <6>3
          <6> QED
            BY <4>2, <6>1, <6>2, <6>3, <6>4 DEF IsInjective
        <5> QED
          BY <4>2, <5>1, <5>2 DEF Busy
      <4> HIDE DEF q
      <4> QED
        BY <1>3, <3>0, <4>1, <4>3
    <3>5. CASE Linked
      BY <1>3, <3>0, <3>5 DEF Linked, Save, fileVars
    <3> QED
      BY <1>7, <3>1, <3>2, <3>3, <3>4, <3>5
         DEF BuildNext, Begin, Driver, Tool, Die, ToolFailed, Start, CheckJob,
             PlanRemovals, Compile, Timeout, ToolFail, ToolExit, LookUpExe, Link, Snapshot,
             StopAtObjects, Succeed, Kill, fileVars, cacheVars
  <2>4. \A o \in kept' : \E r \in state'[o] : Held(o, r)'
    BY <1>5, <2>1, <2>3
  <2>5. rebuild' /\ pc' \in {"check", "clean"} => kept' = {}
    <3>1. SUFFICES ASSUME rebuild', pc' \in {"check", "clean"}
                   PROVE  kept' = {}
      OBVIOUS
    <3>2. ASSUME NEW again, NEW objectsOnly, Start(again, objectsOnly)
          PROVE  kept' = {}
      BY <3>1, <3>2 DEF Start
    <3>3. CASE UNCHANGED <<rebuild, kept>> /\ pc \in {"check", "clean"}
      BY <1>4, <3>1, <3>3
    <3> QED
      BY <1>7, <3>1, <3>2, <3>3
         DEF BuildNext, Begin, Driver, Tool, Die, ToolFailed, CheckJob, Discard, Linked, ToolRead,
             ToolWrite, Cleanup, Exits,
             PlanRemovals, Compile, Timeout, ToolFail, ToolExit, LookUpExe, Link, Snapshot,
             StopAtObjects, Succeed, Kill, driverVars, ghostVars
  <2>6. pc' \in {"check", "clean"} => dirty' \cap kept' = {}
    <3>1. SUFFICES ASSUME pc' \in {"check", "clean"}
                   PROVE  dirty' \cap kept' = {}
      OBVIOUS
    <3>2. ASSUME NEW again, NEW objectsOnly, Start(again, objectsOnly)
          PROVE  dirty' \cap kept' = {}
      <4>1. pc = "idle" /\ dirty' = dirty
        BY <3>2 DEF Start
      <4>2. dirty = {}
        BY <1>1, <4>1 DEF Control, Staged
      <4> QED
        BY <4>1, <4>2
    <3>3. CASE CheckJob
      <4> DEFINE q == Objects[job]
      <4>1. /\ pc = "check" /\ job <= Len(Jobs) /\ UNCHANGED kept
            /\ dirty' = IF Valid(q) THEN dirty ELSE dirty \cup {q}
        BY <3>3 DEF CheckJob, ghostVars
      <4>2. q \in Range(Objects)
        BY <1>1, <4>1, Manifest DEF Control, DriverTyped
      <4> HIDE DEF q
      <4>3. q \in kept => Valid(q)
        <5>1. SUFFICES ASSUME q \in kept PROVE Valid(q)
          OBVIOUS
        <5>2. PICK r \in state[q] : Held(q, r)
          BY <1>4, <5>1
        <5>3. quiet /\ ~rebuild
          BY <1>4, <4>1, <5>1
        <5> QED
          BY <4>1, <4>2, <5>2, <5>3, HeldValid
      <4> QED
        BY <1>4, <4>1, <4>3
    <3>4. CASE UNCHANGED dirty /\ pc \in {"check", "clean"}
      BY <1>4, <2>1, <3>4
    <3> QED
      BY <1>7, <3>1, <3>2, <3>3, <3>4
         DEF BuildNext, Begin, Driver, Tool, Die, ToolFailed, Discard, Linked, ToolRead,
             ToolWrite, Cleanup, Exits,
             PlanRemovals, Compile, Timeout, ToolFail, ToolExit, LookUpExe, Link, Snapshot,
             StopAtObjects, Succeed, Kill, driverVars
  <2>7. pc' = "compiling" => \A o \in dirty' \cap kept' : \E i \in 1..done' : batch'[i] = o
    <3>1. SUFFICES ASSUME pc' = "compiling"
                   PROVE  \A o \in dirty' \cap kept' : \E i \in 1..done' : batch'[i] = o
      OBVIOUS
    <3>2. CASE Compile
      <4>1. dirty' \cap kept' = {}
        BY <1>4, <2>1, <3>2 DEF Compile
      <4> QED
        BY <4>1
    <3>3. CASE pc = "compiling" /\ UNCHANGED <<dirty, batch, done>>
      BY <1>4, <2>1, <3>3
    <3> QED
      BY <1>7, <3>1, <3>2, <3>3
         DEF BuildNext, Begin, Driver, Tool, Die, ToolFailed, Start, CheckJob, Discard, Linked,
             ToolRead, ToolWrite, Cleanup, Exits, PlanRemovals, Timeout, ToolFail, ToolExit,
             LookUpExe, Link, Snapshot, StopAtObjects, Succeed, Kill, driverVars, toolVars
  <2> QED
    BY <2>2, <2>4, <2>5, <2>6, <2>7 DEF Keeping, Held
<1> QED
  BY <1>6, <1>7

LEMMA BaseStep == ASSUME Base, BuildNext PROVE Base'
  BY ControlStep, StampedStep, LedgerStep, StatedStep, FlyingStep, UneditedStep, KeepingStep
     DEF Base

LEMMA BaseIdle == ASSUME Base, UNCHANGED buildVars PROVE Base'
<1>1. /\ disk' = disk /\ writes' = writes /\ made' = made /\ dirTime' = dirTime
      /\ state' = state /\ cert' = cert
      /\ pc' = pc /\ rebuild' = rebuild /\ skiplink' = skiplink /\ seen' = seen /\ dir' = dir
      /\ dirty' = dirty /\ job' = job /\ todo' = todo
      /\ batch' = batch /\ done' = done /\ tool' = tool
      /\ builds' = builds /\ edits' = edits /\ quiet' = quiet /\ kept' = kept
  BY DEF buildVars, fileVars, cacheVars, driverVars, toolVars, ghostVars
<1>2. Exists' = Exists /\ Busy' = Busy
  BY <1>1 DEF Exists, Busy
<1>3. Control'
  BY <1>1, <1>2 DEF Base, Control, FilesTyped, DriverTyped, ToolTyped, Staged, ToolStaged
<1>4. Stamped'
  BY <1>1, <1>2 DEF Base, Stamped
<1>5. Ledger'
  BY <1>1, <1>2 DEF Base, Ledger, Recorded
<1>6. Stated' /\ Flying'
  BY <1>1, <1>2 DEF Base, Stated, Flying, Text
<1>7. Unedited' /\ Keeping'
  BY <1>1, <1>2 DEF Base, Unedited, Keeping, Fits
<1> QED
  BY <1>3, <1>4, <1>5, <1>6, <1>7 DEF Base

(* "Keep completed units cached even if a later unit is cancelled": with no *)
(* edit since a build completed a unit, no build but one with -Rebuild      *)
(* finds it dirty, whatever was killed in between and whatever else failed. *)
THEOREM CompletedStay == BuildSpec => []KeptUnitsStay
<1>1. BuildInit => Base
  BY InitBase
<1>2. Base /\ [BuildNext]_buildVars => Base'
  BY BaseStep, BaseIdle
<1>3. Base => KeptUnitsStay
  BY DEF Base, Keeping, KeptUnitsStay
<1> QED
  BY <1>1, <1>2, <1>3, PTL DEF BuildSpec

-----------------------------------------------------------------------------
(* Without the races *)

LEMMA LockedStep ==
    ASSUME Base, Locked, Races = {}, BuildNext
    PROVE  Locked'
<1>1. /\ Control /\ Control' /\ Stamped /\ DirMoves /\ (Still \/ Editor)
  BY Aging, Moving, ControlStep DEF Base
<1>2. SUFFICES ASSUME pc' \in {"check", "clean", "compiling"}, dir'.scanned
               PROVE  dir'.time = dirTime'
  BY DEF Locked
<1>3. ~dir.scanned \/ dir.time = dirTime
  <2>1. ASSUME NEW again, NEW objectsOnly, Start(again, objectsOnly)
        PROVE  ~dir.scanned
    <3>1. dir = NoDir
      BY <1>1, <2>1 DEF Start, Control, Staged
    <3> QED
      BY <3>1 DEF NoDir
  <2>2. CASE pc \in {"check", "clean", "compiling"}
    BY <2>2 DEF Locked
  <2> QED
    BY <1>2, <2>1, <2>2
       DEF BuildNext, Begin, Driver, Tool, Die, ToolFailed, CheckJob, PlanRemovals, Compile,
           CacheUnit, Linked, Discard, ToolRead, ToolWrite, Cleanup, Exits, Timeout, ToolFail,
           ToolExit, LookUpExe, Link, Snapshot, StopAtObjects, Succeed, Kill, Editor, Edit,
           AddShadow, DropShadow, Touch, driverVars
<1>4. CASE Editor
  <2>1. UNCHANGED <<dir, pc>>
    BY <1>4 DEF Editor, Edit, AddShadow, DropShadow, Touch, driverVars
  <2>2. CASE dirTime' = dirTime
    BY <1>2, <1>3, <2>1, <2>2
  <2>3. CASE dirTime' # dirTime
    <3>1. DirSettled
      BY <1>4, <2>3 DEF Editor, Edit, AddShadow, DropShadow
    <3> QED
      BY <1>2, <2>1, <3>1 DEF DirSettled
  <2> QED
    BY <2>2, <2>3
<1>5. CASE Still
  <2>1. dirTime' = dirTime
    BY <1>5 DEF Still
  <2>2. dir' = dir \/ dir' = NoDir \/ (dir'.time \in {dir.time, dirTime} /\ dir'.time \in Nat)
    BY <1>1 DEF DirMoves
  <2>3. dir' # NoDir
    BY <1>2 DEF NoDir
  <2>4. ~dir.scanned => dir.time = Unknown
    BY <1>1 DEF Stamped
  <2> QED
    BY <1>2, <1>3, <2>1, <2>2, <2>3, <2>4 DEF Unknown
<1> QED
  BY <1>1, <1>4, <1>5

(* What of a genuine text is lost, is lost to the driver too. *)
LEMMA GenuineLasts ==
    ASSUME NEW o \in Outputs, NEW c, Genuine(o, c),
           PathsIn(c) = Parts(o, Exists'),
           \A p \in PathsIn(c) : p \in Paths /\ (p \in Known' => p \in Known /\ Content(p)' = Content(p))
    PROVE  GenuineAt(o, c, Exists', Known', Contents')
<1>1. \A e \in c : e[1] \in PathsIn(c)
  BY DEF PathsIn
<1>2. \A e \in c : e[1] \in Known => e[2] = Contents[e[1]]
  BY DEF Genuine, GenuineAt
<1>3. ASSUME NEW e \in c, e[1] \in Known'
      PROVE  e[2] = Contents'[e[1]]
  <2>1. PICK p \in Paths : p = e[1] /\ p \in Known /\ Content(p)' = Content(p)
    BY <1>1, <1>3
  <2>2. Contents'[p] = Content(p)' /\ Contents[p] = Content(p)
    BY DEF Contents
  <2> QED
    BY <1>2, <2>1, <2>2
<1> QED
  BY <1>3 DEF GenuineAt

(* What an edit can do to a text in flight: nothing, or the driver knows an *)
(* older stamp. *)
LEMMA EditMisses ==
    ASSUME Base, Races = {}, Busy, Editor, NEW o \in Outputs, NEW c, NEW n \in BOOLEAN,
           PathsIn(c) = Parts(o, n), n = Exists, PathsIn(c) \subseteq InFlight,
           pc = "linking" => o = Exe
    PROVE  /\ PathsIn(c) = Parts(o, Exists')
           /\ \A p \in PathsIn(c) : p \in Known' => p \in Known /\ Content(p)' = Content(p)
<1>1. /\ Control /\ Stamped /\ UNCHANGED <<seen, pc>>
  BY DEF Base, Editor, Edit, AddShadow, DropShadow, Touch, driverVars
<1>2. PICK q \in Inputs :
         /\ \A p \in Paths : p # q => disk'[p] = disk[p]
         /\ \/ disk[q] # 0 /\ FileSettled(q) /\ dirTime' = dirTime /\ disk'[q] = writes[q] + 1
            \/ q = Shadow /\ DirSettled /\ dirTime' = dirTime + 1
         /\ UNCHANGED made
  BY EditedOne
<1>3. PathsIn(c) \subseteq Paths /\ Cpc \in PathsIn(c) /\ q \in Paths /\ q \notin Outputs
      /\ \A p \in Paths : seen[p] \in Nat \cup {Unknown} /\ disk[p] \in Nat /\ writes[p] \in Nat
  <2>1. PathsIn(c) \subseteq Paths /\ Cpc \in PathsIn(c)
    BY PartsIn
  <2>2. q \in Paths /\ q \notin Outputs
    BY Named
  <2>3. \A p \in Paths : seen[p] \in Nat \cup {Unknown} /\ disk[p] \in Nat /\ writes[p] \in Nat
    BY <1>1 DEF Control, FilesTyped, DriverTyped
  <2> QED
    BY <2>1, <2>2, <2>3
<1>4. ASSUME NEW p \in Paths, p # q
      PROVE  p \in Known' => p \in Known /\ Content(p)' = Content(p)
  <2>1. disk'[p] = disk[p] /\ seen'[p] = seen[p]
    BY <1>1, <1>2, <1>4
  <2> QED
    BY <1>2, <2>1 DEF Known, Look, Content
<1>5. CASE disk[q] # 0 /\ FileSettled(q) /\ dirTime' = dirTime /\ disk'[q] = writes[q] + 1
  <2>1. Exists' = Exists
    BY <1>2, <1>3, <1>5, Named DEF Exists
  <2>2. q \in PathsIn(c) => q \notin Known'
    <3>1. SUFFICES ASSUME q \in PathsIn(c) PROVE q \notin Known'
      OBVIOUS
    <3>2. seen[q] # Unknown
      BY <1>5, <3>1 DEF FileSettled
    <3>3. seen[q] <= writes[q]
      BY <1>1, <1>3 DEF Stamped
    <3>4. Look(q)' = seen[q]
      BY <1>1, <3>2 DEF Look
    <3>5. seen[q] # disk'[q]
      BY <1>3, <1>5, <3>2, <3>3
    <3> QED
      BY <3>4, <3>5 DEF Known
  <2> QED
    BY <1>3, <1>4, <2>1, <2>2
<1>6. CASE q = Shadow /\ DirSettled /\ dirTime' = dirTime + 1
  <2>1. pc = "linking"
    <3>1. InFlight # {}
      BY <1>3
    <3> QED
      BY <1>6, <3>1 DEF DirSettled, Busy
  <2>2. o = Exe
    BY <2>1
  <2> QED
    BY <1>3, <1>4, <1>6, <2>2, Named DEF Parts
<1> QED
  BY <1>2, <1>5, <1>6

LEMMA ExactStep ==
    ASSUME Base, Exact, Races = {}, BuildNext
    PROVE  Exact'
<1>1. /\ Control /\ Stamped /\ Flying /\ Control' /\ Aged /\ (Still \/ Editor)
  BY Aging, ControlStep DEF Base
<1>2. CASE ~Busy'
  BY <1>1, <1>2 DEF Exact, Control, ToolStaged
<1> SUFFICES ASSUME Busy'
             PROVE  Exact'
  BY <1>2
<1>3. /\ batch \in Seq(Outputs) /\ DOMAIN batch = 1..Len(batch) /\ Len(batch) \in Nat
      /\ done \in Nat /\ tool.pos \in Nat \ {0} /\ tool.pos <= Len(batch) + 1 /\ done < tool.pos
      /\ DOMAIN tool = {"phase", "pos", "code", "reads"}
      /\ \A i \in 1..Len(batch) : batch[i] \in Outputs
      /\ DOMAIN made = Outputs /\ disk \in [Paths -> Nat] /\ Exists \in BOOLEAN
      /\ seen \in [Paths -> Nat \cup {Unknown}]
  <2>1. batch \in Seq(Outputs) /\ done \in Nat /\ tool.pos \in Nat \ {0}
        /\ tool.pos <= Len(batch) + 1 /\ done < tool.pos
        /\ DOMAIN tool = {"phase", "pos", "code", "reads"}
    BY <1>1 DEF Control, ToolTyped
  <2>2. DOMAIN made = Outputs /\ disk \in [Paths -> Nat] /\ seen \in [Paths -> Nat \cup {Unknown}]
    BY <1>1 DEF Control, FilesTyped, DriverTyped
  <2> QED
    BY <2>1, <2>2 DEF Exists
(* A text in flight: of an output still to be recorded, or being written *)
<1> DEFINE At(o, c) == \/ tool.phase = "open" /\ o = batch[tool.pos] /\ c = tool.reads
                       \/ \E i \in done + 1..tool.pos - 1 : o = batch[i] /\ c = made[batch[i]]
<1>4. ASSUME Busy, NEW o, NEW c, At(o, c)
      PROVE  /\ o \in Outputs /\ Genuine(o, c) /\ PathsIn(c) \subseteq InFlight
             /\ PathsIn(c) = Parts(o, Exists) /\ PathsIn(c) \subseteq Paths
             /\ pc = "linking" => o = Exe
             /\ pc = "compiling" => o # Exe
             /\ \E i \in 1..Len(batch) : o = batch[i] /\ i > done /\ i <= tool.pos
  <2>1. CASE tool.phase = "open" /\ o = batch[tool.pos] /\ c = tool.reads
    <3>1. tool.pos \in 1..Len(batch)
      BY <1>1, <1>3, <2>1 DEF Control, ToolStaged
    <3>2. Genuine(o, c) /\ PathsIn(c) \subseteq InFlight
      BY <2>1 DEF Exact, InFlight
    <3> QED
      BY <1>1, <1>3, <2>1, <3>1, <3>2, AtWork, PartsIn DEF Genuine, GenuineAt
  <2>2. ASSUME NEW i \in done + 1..tool.pos - 1, o = batch[i], c = made[batch[i]]
        PROVE  /\ o \in Outputs /\ Genuine(o, c) /\ PathsIn(c) \subseteq InFlight
               /\ PathsIn(c) = Parts(o, Exists) /\ PathsIn(c) \subseteq Paths
               /\ pc = "linking" => o = Exe
               /\ pc = "compiling" => o # Exe
               /\ \E j \in 1..Len(batch) : o = batch[j] /\ j > done /\ j <= tool.pos
    <3>1. i \in 1..Len(batch) /\ i > done /\ i < tool.pos
      BY <1>3
    <3>2. Genuine(o, c)
      BY <1>4, <2>2 DEF Exact
    <3>3. PathsIn(c) \subseteq InFlight
      <4>1. i \in {k \in DOMAIN batch : done < k /\ k < tool.pos}
        BY <1>3, <3>1
      <4> QED
        BY <2>2, <4>1 DEF InFlight
    <3>4. o \in Outputs
      BY <1>3, <2>2, <3>1
    <3>5. pc = "linking" => o = Exe
      <4>1. SUFFICES ASSUME pc = "linking" PROVE batch[i] = Exe
        BY <2>2
      <4>2. batch = <<Exe>>
        BY <1>1, <4>1 DEF Control, Staged
      <4> QED
        BY <3>1, <4>2
    <3>6. pc = "compiling" => o # Exe
      <4>1. pc = "compiling" => Range(batch) \subseteq Range(Objects)
        BY <1>1 DEF Control, Staged, DriverTyped
      <4> QED
        BY <1>3, <2>2, <3>1, <4>1, Named DEF Range
    <3>7. PathsIn(c) = Parts(o, Exists)
      BY <3>2 DEF Genuine, GenuineAt
    <3>8. PathsIn(c) \subseteq Paths
      BY <1>3, <3>4, <3>7, PartsIn
    <3>9. i <= tool.pos
      BY <1>3, <3>1
    <3> QED
      BY <2>2, <3>1, <3>2, <3>3, <3>4, <3>5, <3>6, <3>7, <3>8, <3>9
  <2> QED
    BY <1>4, <2>1, <2>2
<1>5. SUFFICES
        /\ tool'.phase = "open" =>
              GenuineAt(batch'[tool'.pos], tool'.reads, Exists', Known', Contents')
        /\ \A i \in done' + 1..tool'.pos - 1 :
              GenuineAt(batch'[i], made'[batch'[i]], Exists', Known', Contents')
  BY DEF Exact, Genuine
(* The texts in flight, as seen through the tables of the next state *)
<1>6. CASE /\ Busy /\ UNCHANGED batch /\ tool'.pos = tool.pos /\ done' \in {done, done + 1}
           /\ tool'.phase = "open" => UNCHANGED tool
           /\ \A o \in Outputs : made'[o] = made[o]
           /\ \A o \in Outputs : \A c : At(o, c) => GenuineAt(o, c, Exists', Known', Contents')
  <2>1. \A i \in done' + 1..tool'.pos - 1 : i \in done + 1..tool.pos - 1 /\ i \in 1..Len(batch)
    <3>1. tool'.pos = tool.pos /\ (done' = done \/ done' = done + 1)
      BY <1>6
    <3>2. /\ done \in Nat /\ tool.pos \in Nat /\ Len(batch) \in Nat
          /\ tool.pos <= Len(batch) + 1
      BY <1>3
    <3> QED
      BY <3>1, <3>2
  <2>2. ASSUME NEW i \in done' + 1..tool'.pos - 1
        PROVE  GenuineAt(batch'[i], made'[batch'[i]], Exists', Known', Contents')
    <3>1. At(batch[i], made[batch[i]]) /\ batch[i] \in Outputs
      BY <1>3, <2>1
    <3> QED
      BY <1>3, <1>6, <2>1, <3>1
  <2>3. ASSUME tool'.phase = "open"
        PROVE  GenuineAt(batch'[tool'.pos], tool'.reads, Exists', Known', Contents')
    <3>1. tool' = tool /\ tool.pos \in 1..Len(batch)
      BY <1>1, <1>3, <1>6, <2>3 DEF Control, ToolStaged
    <3>2. At(batch[tool.pos], tool.reads) /\ batch[tool.pos] \in Outputs
      BY <1>3, <2>3, <3>1
    <3> QED
      BY <1>6, <3>1, <3>2
  <2> QED
    BY <2>2, <2>3
<1> HIDE DEF At
<1>7. CASE Compile \/ Link
  <2>1. tool'.phase = "start" /\ tool'.pos = 1 /\ done' = 0
    BY <1>7 DEF Compile, Link, RunTool, Idle
  <2> QED
    BY <2>1
<1>8. CASE Editor
  <2>1. UNCHANGED <<batch, done, tool, pc, made>> /\ Busy
    BY <1>8 DEF Editor, Edit, AddShadow, DropShadow, Touch, toolVars, driverVars, Busy
  <2>2. ASSUME NEW o \in Outputs, NEW c, At(o, c)
        PROVE  GenuineAt(o, c, Exists', Known', Contents')
    <3>1. /\ Genuine(o, c) /\ PathsIn(c) \subseteq InFlight /\ PathsIn(c) \subseteq Paths
          /\ PathsIn(c) = Parts(o, Exists) /\ (pc = "linking" => o = Exe)
      BY <1>4, <2>1, <2>2
    <3>2. /\ PathsIn(c) = Parts(o, Exists')
          /\ \A p \in PathsIn(c) : p \in Known' => p \in Known /\ Content(p)' = Content(p)
      BY <1>3, <1>8, <2>1, <3>1, EditMisses
    <3> QED
      BY <3>1, <3>2, GenuineLasts
  <2> QED
    BY <1>6, <2>1, <2>2
<1>9. CASE Still
  <2>1. Exists' = Exists
    BY <1>9, Named DEF Still, Exists
  <2>2. CASE ToolFail \/ ToolExit \/ Timeout \/ CacheUnit
    <3>1. /\ UNCHANGED <<batch, disk, made, pc>> /\ Busy
          /\ tool'.pos = tool.pos /\ (tool'.phase = "open" => UNCHANGED tool)
          /\ done' \in {done, done + 1}
      BY <1>3, <2>2 DEF ToolFail, ToolExit, Timeout, CacheUnit, fileVars, driverVars, Busy
    <3>2. ASSUME NEW o \in Outputs, NEW c, At(o, c)
          PROVE  GenuineAt(o, c, Exists', Known', Contents')
      <4>1. /\ Genuine(o, c) /\ PathsIn(c) \subseteq Paths /\ PathsIn(c) = Parts(o, Exists)
            /\ (pc = "compiling" => o # Exe)
        BY <1>4, <3>1, <3>2
      <4>2. ASSUME NEW p \in PathsIn(c)
            PROVE  p \in Paths /\ (p \in Known' => p \in Known /\ Content(p)' = Content(p))
        <5>1. p \in Paths /\ Content(p)' = Content(p)
          BY <3>1, <4>1 DEF Content
        <5>2. Look(p)' = Look(p)
          <6>1. CASE UNCHANGED seen
            BY <3>1, <6>1 DEF Look
          <6>2. CASE CacheUnit
            <7> DEFINE q == batch[done + 1]
            <7>1. /\ pc = "compiling" /\ done < Reported /\ Save(q)
              BY <6>2 DEF CacheUnit
            <7>2. q \in Outputs /\ q # Exe /\ \E n \in BOOLEAN : PathsIn(made[q]) = Parts(q, n)
              BY <7>1, Reading
            <7>3. p \in Inputs /\ p # q
              BY <1>3, <4>1, <7>1, <7>2, PartsIn, Named
            <7> HIDE DEF q
            <7>4. seen'[p] = seen[p] \/ (seen[p] = Unknown /\ seen'[p] = disk[p])
              BY <5>1, <7>1, <7>2, <7>3, SavedMoves
            <7> QED
              BY <3>1, <7>4 DEF Look
          <6> QED
            BY <2>2, <6>1, <6>2 DEF ToolFail, ToolExit, Timeout, driverVars
        <5> QED
          BY <3>1, <5>1, <5>2 DEF Known
      <4> QED
        BY <2>1, <4>1, <4>2, GenuineLasts
    <3> QED
      BY <1>6, <3>1, <3>2
  <2>3. CASE ToolRead \/ ToolWrite
    <3> DEFINE q == batch[tool.pos]
    <3>1. tool.phase \in {"start", "open"} /\ tool.pos <= Len(batch)
          /\ UNCHANGED <<batch, done, seen, pc>>
      BY <1>1, <2>3 DEF ToolRead, ToolWrite, Control, ToolStaged, driverVars
    <3>2. /\ Busy /\ tool.pos \in 1..Len(batch) /\ q \in Outputs /\ q \in Paths
          /\ pc = "compiling" => q # Exe
          /\ pc = "linking" => q = Exe
      BY <1>1, <3>1, AtWork
    <3>3. /\ disk' = [disk EXCEPT ![q] = writes[q] + 1]
          /\ made' = [made EXCEPT ![q] = IF tool.phase = "open" THEN tool.reads ELSE {}]
      BY <2>3 DEF ToolRead, ToolWrite
    <3>4. ToolRead => /\ tool'.phase = "open" /\ tool'.pos = tool.pos /\ tool'.reads = Reads(q)
                      /\ tool.phase = "start"
      BY <1>3 DEF ToolRead
    <3>5. ToolWrite => tool'.phase = "start" /\ tool'.pos = tool.pos + 1 /\ tool.phase = "open"
      BY <1>3 DEF ToolWrite
    <3> HIDE DEF q
    <3>6. ASSUME NEW p \in Paths, p # q
          PROVE  p \in Known' => p \in Known /\ Content(p)' = Content(p)
      <4>1. disk'[p] = disk[p] /\ seen'[p] = seen[p]
        BY <1>3, <3>1, <3>3, <3>6
      <4>2. Content(p)' = Content(p)
        BY <1>3, <3>3, <3>6, <4>1 DEF Content
      <4> QED
        BY <4>1, <4>2 DEF Known, Look
    <3>7. ASSUME NEW o \in Outputs, pc = "compiling" => o # Exe, pc = "linking" => o = Exe
          PROVE  q \notin Parts(o, Exists) /\ Parts(o, Exists) \subseteq Paths
      <4>1. Parts(o, Exists) \subseteq Paths
        BY <1>3, PartsIn
      <4>2. CASE pc = "compiling"
        <5>1. Parts(o, Exists) \subseteq Inputs
          BY <1>3, <3>7, <4>2, PartsIn
        <5> QED
          BY <3>2, <4>1, <5>1, Named
      <4>3. CASE pc = "linking"
        BY <3>2, <3>7, <4>1, <4>3, Named DEF Parts
      <4> QED
        BY <3>2, <4>2, <4>3 DEF Busy
    <3>8. ASSUME NEW o \in Outputs, NEW c, At(o, c)
          PROVE  GenuineAt(o, c, Exists', Known', Contents')
      <4>1. /\ Genuine(o, c) /\ PathsIn(c) \subseteq Paths /\ PathsIn(c) = Parts(o, Exists)
            /\ (pc = "linking" => o = Exe) /\ (pc = "compiling" => o # Exe)
        BY <1>4, <3>2, <3>8
      <4>2. \A p \in PathsIn(c) : p \in Paths /\ p # q
        BY <3>7, <4>1
      <4> QED
        BY <2>1, <3>6, <4>1, <4>2, GenuineLasts
    <3>9. \A i \in done + 1..tool.pos - 1 : batch[i] # q
      <4>1. CASE pc = "compiling"
        <5>1. IsInjective(batch)
          BY <1>1, <4>1 DEF Control, Staged
        <5> QED
          BY <1>3, <3>2, <5>1 DEF IsInjective, q
      <4>2. CASE pc = "linking"
        <5>1. batch = <<Exe>>
          BY <1>1, <4>2 DEF Control, Staged
        <5> QED
          BY <1>3, <3>2, <5>1
      <4> QED
        BY <3>2, <4>1, <4>2 DEF Busy
    <3>10. ASSUME NEW i \in done + 1..tool.pos - 1
           PROVE  GenuineAt(batch[i], made'[batch[i]], Exists', Known', Contents')
      <4>1. i \in 1..Len(batch)
        BY <1>3
      <4>2. At(batch[i], made[batch[i]]) /\ batch[i] \in Outputs /\ made'[batch[i]] = made[batch[i]]
        BY <1>3, <3>3, <3>9, <4>1 DEF At
      <4> QED
        BY <3>8, <4>2
    <3>11. CASE ToolRead
      <4>1. GenuineAt(q, Reads(q), Exists', Known', Contents')
        <5>1. /\ Reads(q) = {<<p, Content(p)>> : p \in Parts(q, Exists)}
              /\ PathsIn(Reads(q)) = Parts(q, Exists)
          BY <3>2, Read
        <5>2. \A p \in Parts(q, Exists) : p \in Paths /\ p # q
          BY <3>2, <3>7
        <5>3. Genuine(q, Reads(q))
          BY <5>1, <5>2 DEF Genuine, GenuineAt, Contents
        <5> QED
          BY <2>1, <3>2, <3>6, <5>1, <5>2, <5>3, GenuineLasts
      <4> QED
        BY <3>1, <3>4, <3>10, <3>11, <4>1 DEF q
    <3>12. CASE ToolWrite
      <4>1. made'[q] = tool.reads
        BY <1>3, <3>2, <3>3, <3>5, <3>12
      <4>2. GenuineAt(q, made'[q], Exists', Known', Contents')
        BY <3>2, <3>5, <3>8, <3>12, <4>1 DEF At, q
      <4>3. \A i \in done' + 1..tool'.pos - 1 : i = tool.pos \/ i \in done + 1..tool.pos - 1
        BY <1>3, <3>1, <3>5, <3>12
      <4>4. \A i \in done' + 1..tool'.pos - 1 :
               GenuineAt(batch'[i], made'[batch'[i]], Exists', Known', Contents')
        BY <3>1, <3>10, <4>2, <4>3 DEF q
      <4> QED
        BY <3>5, <3>12, <4>4
    <3> QED
      BY <2>3, <3>11, <3>12
  <2> QED
    BY <1>1, <1>7, <1>8, <2>2, <2>3
     DEF BuildNext, Begin, Driver, Tool, Die, ToolFailed, Start, CheckJob, PlanRemovals,
         Discard, Linked, LookUpExe, Snapshot, StopAtObjects, Succeed, Kill, Cleanup, Exits, Busy,
         Compiled, Control, Staged
<1> QED
  BY <1>1, <1>8, <1>9

(* A path that has a stamp of the past has what it had then. *)
LEMMA Same ==
    ASSUME Base, Aged, NEW p \in Paths, disk'[p] <= writes[p], disk'[p] # 0, disk'[p] \in Nat
    PROVE  disk'[p] = disk[p] /\ Content(p)' = Content(p)
<1>1. writes[p] \in Nat /\ (disk'[p] \in {0, disk[p]} \/ disk'[p] > writes[p])
  BY DEF Base, Control, FilesTyped, Aged
<1>2. disk'[p] = disk[p]
  BY <1>1
<1>3. p \in Outputs => made'[p] = made[p]
  BY <1>2 DEF Aged
<1> QED
  BY <1>2, <1>3 DEF Content

LEMMA Refit ==
    ASSUME Base, Aged, NEW o \in Outputs, NEW r \in state[o], Fits(o, r)',
           disk' \in [Paths -> Nat]
    PROVE  /\ Fits(o, r) /\ made'[o] = made[o]
           /\ \A p \in InputPaths(r) \cup {Cpc} : p \in Paths /\ Content(p)' = Content(p)
<1>1. /\ Control /\ Recorded(o, r) /\ r \in Records /\ o \in Paths /\ Cpc \in Paths
  BY Named DEF Base, Ledger, Control, FilesTyped
<1>2. /\ disk'[o] = r.time /\ r.time # 0 /\ r.key = disk'[Cpc]
      /\ \A i \in DOMAIN r.inputs :
            r.inputs[i][2] # 0 /\ r.inputs[i][2] = disk'[r.inputs[i][1]]
  BY DEF Fits
<1>3. disk'[o] = disk[o] /\ Content(o)' = Content(o)
  <2>1. r.time <= writes[o]
    BY <1>1 DEF Recorded
  <2> QED
    BY <1>1, <1>2, <2>1, Same
<1>4. disk'[Cpc] = disk[Cpc] /\ Content(Cpc)' = Content(Cpc)
  <2>1. disk'[Cpc] # 0
    BY Named DEF Aged
  <2>2. r.key <= writes[Cpc]
    BY <1>1 DEF Recorded
  <2> QED
    BY <1>1, <1>2, <2>1, <2>2, Same
<1>5. ASSUME NEW i \in DOMAIN r.inputs
      PROVE  LET p == r.inputs[i][1]
             IN  p \in Paths /\ disk'[p] = disk[p] /\ Content(p)' = Content(p)
  <2>1. PICK p : p = r.inputs[i][1]
    OBVIOUS
  <2>2. p \in Paths
    BY <1>1, <2>1 DEF Records
  <2>3. r.inputs[i][2] <= writes[p]
    BY <1>1, <2>1 DEF Recorded
  <2>4. disk'[p] = disk[p] /\ Content(p)' = Content(p)
    BY <1>2, <2>1, <2>2, <2>3, Same
  <2>5. r.inputs[i][1] \in Paths /\ disk'[r.inputs[i][1]] = disk[r.inputs[i][1]]
    BY <2>1, <2>2, <2>4
  <2>6. Content(r.inputs[i][1])' = Content(r.inputs[i][1])
    BY <2>1, <2>4 DEF Content
  <2> QED
    BY <2>5, <2>6
<1>6. Fits(o, r)
  BY <1>2, <1>3, <1>4, <1>5 DEF Fits
<1>7. made'[o] = made[o]
  BY <1>3 DEF Content
<1>8. ASSUME NEW p \in InputPaths(r)
      PROVE  p \in Paths /\ Content(p)' = Content(p)
  <2>1. PICK i \in DOMAIN r.inputs : p = r.inputs[i][1]
    BY DEF InputPaths
  <2>2. r.inputs[i][1] \in Paths /\ Content(r.inputs[i][1])' = Content(r.inputs[i][1])
    BY <1>5
  <2> QED
    BY <2>1, <2>2 DEF Content
<1> QED
  BY <1>1, <1>4, <1>6, <1>7, <1>8

(* The outputs whose records this step may write *)
Ready(o) ==
    \/ pc = "compiling" /\ done < Reported /\ o = batch[done + 1]
    \/ pc = "linking" /\ tool.phase = "exit" /\ tool.code = 0 /\ o = Exe

LEMMA ReadyMade ==
    ASSUME Base, Locked, Exact, NEW o, Ready(o)
    PROVE  /\ o \in Outputs /\ disk[o] # 0 /\ Exists \in BOOLEAN
           /\ PathsIn(made[o]) = Parts(o, Exists) /\ Parts(o, Exists) \subseteq Paths
           /\ (\A p \in Parts(o, Exists) : Look(p) = disk[p]) => MadeOf(o, Parts(o, Exists))
           /\ Records1(o, Exists, Record(o))
           /\ o # Exe => pc = "compiling" /\ Scan(EnterDir).names = Exists
<1>1. /\ Control /\ Stamped /\ Flying /\ pc # "idle" /\ Exists \in BOOLEAN
  BY DEF Base, Ready, Exists
<1>2. \E i \in done + 1..tool.pos - 1 : o = batch[i] /\ o \in Outputs
  <2>1. CASE pc = "compiling"
    <3>1. done < Reported /\ o = batch[done + 1]
      BY <2>1 DEF Ready
    <3>2. done + 1 \in 1..tool.pos - 1 /\ o \in Outputs /\ done \in Nat
      BY <2>1, <3>1, Reading DEF Base, Control, ToolTyped
    <3> QED
      BY <3>1, <3>2
  <2>2. CASE pc = "linking"
    <3>1. tool.phase = "exit" /\ tool.code = 0 /\ o = Exe
      BY <2>2 DEF Ready
    <3>2. batch = <<Exe>> /\ done = 0 /\ tool.pos = Len(batch) + 1
      BY <1>1, <2>2, <3>1 DEF Control, Staged, ToolStaged, Busy
    <3>3. batch[1] = Exe /\ 1 \in done + 1..tool.pos - 1
      BY <3>2
    <3> QED
      BY <3>1, <3>3, Named
  <2> QED
    BY <2>1, <2>2 DEF Ready
<1>3. PICK i \in done + 1..tool.pos - 1 : o = batch[i] /\ o \in Outputs
  BY <1>2
<1>4. disk[o] # 0 /\ Text(o, made[o]) /\ Genuine(o, made[o])
  BY <1>1, <1>3 DEF Flying, Exact, Busy, Ready
<1>5. PathsIn(made[o]) = Parts(o, Exists)
  BY <1>4 DEF Genuine, GenuineAt
<1>6. Parts(o, Exists) \subseteq Paths
  BY <1>1, <1>3, PartsIn
<1>7. ASSUME \A p \in Parts(o, Exists) : Look(p) = disk[p]
      PROVE  MadeOf(o, Parts(o, Exists))
  <2>1. \A e \in made[o] : e = <<e[1], e[2]>> /\ e[1] \in Parts(o, Exists)
    BY <1>4, <1>5 DEF Text, TextAt, PathsIn
  <2>2. \A e \in made[o] : e[2] = Content(e[1])
    <3>1. \A e \in made[o] : e[1] \in Known => e[2] = Contents[e[1]]
      BY <1>4 DEF Genuine, GenuineAt
    <3>2. \A e \in made[o] : e[1] \in Known /\ e[1] \in Paths
      BY <1>6, <1>7, <2>1 DEF Known
    <3> QED
      BY <3>1, <3>2 DEF Contents
  <2>3. \A p \in Parts(o, Exists) : \E e \in made[o] : e[1] = p
    BY <1>5 DEF PathsIn
  <2>4. \A e \in made[o] : e \in {<<p, Content(p)>> : p \in Parts(o, Exists)}
    BY <2>1, <2>2
  <2>5. ASSUME NEW p \in Parts(o, Exists)
        PROVE  <<p, Content(p)>> \in made[o]
    <3>1. PICK e \in made[o] : e[1] = p
      BY <2>3
    <3>2. e = <<e[1], e[2]>> /\ e[2] = Content(e[1])
      BY <2>1, <2>2
    <3>3. e = <<p, Content(p)>>
      BY <3>1, <3>2
    <3> QED
      BY <3>3
  <2> QED
    BY <2>4, <2>5 DEF MadeOf
<1>8. Records1(o, Exists, Record(o))
  BY <1>1, <1>3, <1>5, Noted
<1>9. ASSUME o # Exe
      PROVE  pc = "compiling" /\ Scan(EnterDir).names = Exists
  <2>1. pc = "compiling"
    BY <1>9 DEF Ready
  <2>2. Scan(EnterDir).names = IF dir.scanned THEN dir.names ELSE Exists
    BY <1>1, Scanning
  <2>3. dir.scanned => dir.names = Exists
    BY <1>1, <2>1 DEF Locked, Stamped
  <2> QED
    BY <2>1, <2>2, <2>3
<1> QED
  BY <1>1, <1>3, <1>4, <1>5, <1>6, <1>7, <1>8, <1>9

LEMMA TruthfulStep ==
    ASSUME Base, Locked, Exact, Truthful, BuildNext
    PROVE  Truthful'
<1>1. /\ Control /\ Stamped /\ Ledger /\ Control' /\ Aged
      /\ state \in [Outputs -> SUBSET Records] /\ disk' \in [Paths -> Nat]
  BY Aging, ControlStep DEF Base, Control, FilesTyped
<1>2. SUFFICES ASSUME NEW o \in Outputs, NEW r \in state'[o]
               PROVE  /\ Fits(o, r)' => MadeOf(o, InputPaths(r) \cup {Cpc})'
                      /\ \A d \in r.dir : InputPaths(r) = Parts(o, d.names) \ {Cpc}
  BY DEF Truthful
<1>3. CASE r \in state[o]
  <2>1. /\ Fits(o, r) => MadeOf(o, InputPaths(r) \cup {Cpc})
        /\ \A d \in r.dir : InputPaths(r) = Parts(o, d.names) \ {Cpc}
    BY <1>3 DEF Truthful
  <2>2. ASSUME Fits(o, r)'
        PROVE  MadeOf(o, InputPaths(r) \cup {Cpc})'
    <3>1. /\ Fits(o, r) /\ made'[o] = made[o]
          /\ \A p \in InputPaths(r) \cup {Cpc} : Content(p)' = Content(p)
      BY <1>1, <1>3, <2>2, Refit
    <3>2. made[o] = {<<p, Content(p)>> : p \in InputPaths(r) \cup {Cpc}}
      BY <2>1, <3>1 DEF MadeOf
    <3>3. {<<p, Content(p)>> : p \in InputPaths(r) \cup {Cpc}}
             = {<<p, Content(p)'>> : p \in InputPaths(r) \cup {Cpc}}
      BY <3>1
    <3>4. made'[o] = {<<p, Content(p)'>> : p \in InputPaths(r) \cup {Cpc}}
      BY <3>1, <3>2, <3>3
    <3> QED
      BY <3>4 DEF MadeOf
  <2> QED
    BY <2>1, <2>2
<1>4. ASSUME Ready(o), state'[o] = {Record(o)}, UNCHANGED <<disk, made>>
      PROVE  /\ Fits(o, r)' => MadeOf(o, InputPaths(r) \cup {Cpc})'
             /\ \A d \in r.dir : InputPaths(r) = Parts(o, d.names) \ {Cpc}
  <2>1. r = Record(o)
    BY <1>4
  <2>2. /\ Records1(o, Exists, r) /\ Parts(o, Exists) \subseteq Paths
        /\ (\A p \in Parts(o, Exists) : Look(p) = disk[p]) => MadeOf(o, Parts(o, Exists))
        /\ o # Exe => Scan(EnterDir).names = Exists
    BY <1>4, <2>1, ReadyMade
  <2>3. InputPaths(r) \cup {Cpc} = Parts(o, Exists)
    <3>1. Cpc \in Parts(o, Exists) /\ InputPaths(r) = Parts(o, Exists) \ {Cpc}
      BY <2>2, PartsIn DEF Records1, Exists
    <3> QED
      BY <3>1
  <2>4. ASSUME Fits(o, r)'
        PROVE  MadeOf(o, InputPaths(r) \cup {Cpc})'
    <3>1. /\ r.key = disk[Cpc]
          /\ \A i \in DOMAIN r.inputs : r.inputs[i][2] = disk[r.inputs[i][1]]
      BY <1>4, <2>4 DEF Fits
    <3>2. \A p \in InputPaths(r) : Look(p) = disk[p]
      BY <2>2, <3>1 DEF Records1, InputPaths
    <3>3. Look(Cpc) = disk[Cpc]
      <4>1. seen[Cpc] # Unknown
        BY <1>1, <1>4 DEF Control, Staged, Ready
      <4> QED
        BY <2>2, <3>1, <4>1 DEF Records1, Look
    <3>4. MadeOf(o, InputPaths(r) \cup {Cpc})
      BY <2>2, <2>3, <3>2, <3>3
    <3>5. \A p : Content(p)' = Content(p)
      BY <1>4 DEF Content
    <3> QED
      BY <1>4, <3>4, <3>5 DEF MadeOf
  <2>5. ASSUME NEW d \in r.dir
        PROVE  InputPaths(r) = Parts(o, d.names) \ {Cpc}
    <3>1. o # Exe /\ d.names = Scan(EnterDir).names
      BY <2>2, <2>5 DEF Records1
    <3> QED
      BY <2>2, <3>1 DEF Records1
  <2> QED
    BY <2>4, <2>5
<1>5. CASE CacheUnit
  <2> DEFINE q == batch[done + 1]
  <2>1. /\ state' = [state EXCEPT ![q] = {Record(q)}] /\ Ready(q) /\ UNCHANGED <<disk, made>>
    BY <1>5 DEF CacheUnit, Save, Ready, fileVars
  <2> HIDE DEF q
  <2> QED
    BY <1>1, <1>3, <1>4, <2>1
<1>6. CASE Linked
  <2>1. /\ state' = [state EXCEPT ![Exe] = {Record(Exe)}] /\ Ready(Exe) /\ UNCHANGED <<disk, made>>
    BY <1>6 DEF Linked, Save, Ready, Drained, fileVars
  <2> QED
    BY <1>1, <1>3, <1>4, <2>1
<1>7. CASE Discard
  <2>1. state' \in {state, [state EXCEPT ![Head(todo)[2]] = {}]}
    BY <1>7 DEF Discard
  <2> QED
    BY <1>1, <1>3, <2>1
<1>8. CASE Cleanup
  <2>1. state' \in {state, [state EXCEPT ![Exe] = {}]}
    BY <1>8 DEF Cleanup
  <2> QED
    BY <1>1, <1>3, <2>1
<1>9. CASE UNCHANGED state
  BY <1>3, <1>9
<1> QED
  BY <1>5, <1>6, <1>7, <1>8, <1>9
     DEF BuildNext, Begin, Driver, Tool, Die, ToolFailed, Start, CheckJob, PlanRemovals, Compile,
         Timeout, ToolFail, ToolExit, ToolRead, ToolWrite, StopAtObjects, LookUpExe, Link, Snapshot,
         Succeed, Kill, Editor, Edit, AddShadow, DropShadow, Touch, cacheVars

(* What the driver vouches for: it is what its tables say, or they are old. *)
LEMMA VouchedLasts ==
    ASSUME Base, Aged, disk' \in [Paths -> Nat], NEW o \in Outputs, Vouched(o),
           disk'[o] = disk[o], seen'[o] = seen[o],
           \A p \in Parts(o, dir.names) : seen'[p] = seen[p],
           o # Exe => dir'.scanned /\ dir'.names = dir.names
    PROVE  Vouched(o)'
<1>1. /\ Control /\ Stamped /\ o \in Paths /\ dir.names \in BOOLEAN
      /\ \A p \in Paths : seen[p] \in Nat \cup {Unknown} /\ writes[p] \in Nat
  BY Named DEF Base, Control, FilesTyped, DriverTyped
<1> DEFINE P == Parts(o, dir.names)
<1>2. P \subseteq Paths /\ Parts(o, dir'.names) = P
  <2>1. P \subseteq Paths
    BY <1>1, PartsIn
  <2>2. o = Exe => Parts(o, dir'.names) = P
    BY DEF Parts
  <2> QED
    BY <2>1, <2>2
<1>3. /\ seen[o] = disk[o] /\ disk[o] # 0
      /\ \A p \in P : seen[p] # Unknown
      /\ (\A p \in P : seen[p] = disk[p] /\ disk[p] # 0) => MadeOf(o, P)
  BY DEF Vouched
<1> HIDE DEF P
<1>4. made'[o] = made[o]
  BY <1>3 DEF Aged
<1>5. ASSUME \A p \in P : seen'[p] = disk'[p] /\ disk'[p] # 0
      PROVE  made'[o] = {<<p, Content(p)'>> : p \in P}
  <2>1. \A p \in P : disk'[p] = disk[p] /\ Content(p)' = Content(p)
    <3>1. TAKE p \in P
    <3>2. p \in Paths /\ disk'[p] = seen[p] /\ seen[p] <= writes[p] /\ disk'[p] \in Nat
      BY <1>1, <1>2, <1>5 DEF Stamped, P
    <3> QED
      BY <1>5, <3>2, Same
  <2>2. MadeOf(o, P)
    BY <1>3, <1>5, <2>1 DEF P
  <2>3. {<<p, Content(p)>> : p \in P} = {<<p, Content(p)'>> : p \in P}
    BY <2>1
  <2> QED
    BY <1>4, <2>2, <2>3 DEF MadeOf
<1>6. /\ o # Exe => dir'.scanned
      /\ seen'[o] = disk'[o] /\ disk'[o] # 0
      /\ \A p \in P : seen'[p] # Unknown
  BY <1>3 DEF P
<1> QED
  BY <1>2, <1>5, <1>6 DEF Vouched, MadeOf

(* What cache_valid accepts *)
LEMMA AcceptedVouched ==
    ASSUME Base, Truthful, NEW o \in Outputs, Valid(o), pc # "idle",
           seen[o] \in {Unknown, disk[o]}, seen' = SeenLookingUp(o),
           o # Exe => dir' = DirLookingUp(o), UNCHANGED <<disk, made>>
    PROVE  Vouched(o)'
<1>1. /\ Control /\ Stamped /\ Ledger /\ o \in Paths /\ Cpc \in Paths /\ seen[Cpc] # Unknown
      /\ seen[Cpc] \in Nat
  BY Named DEF Base, Control, Staged, DriverTyped
<1>2. PICK r \in state[o] : Accepts(o, r)
  BY <1>1, Accepted
<1>3. Recorded(o, r) /\ r \in Records
  BY <1>1 DEF Ledger, Control, FilesTyped
<1>4. Look(o) = disk[o]
  BY DEF Look
<1> DEFINE P == Parts(o, dir'.names)
<1>5. P = InputPaths(r) \cup {Cpc} /\ (o # Exe => dir'.scanned)
  <2>1. CASE o = Exe
    BY <1>3, <2>1 DEF Recorded, Parts
  <2>2. CASE o # Exe
    <3>1. PICK d \in r.dir : dir' = LookUpDir(d) /\ LookUpDir(d).names = d.names
      BY <1>2, <2>2 DEF Accepts
    <3>2. InputPaths(r) = Parts(o, d.names) \ {Cpc}
      BY DEF Truthful
    <3>3. d.names \in BOOLEAN
      BY <1>3 DEF Records
    <3>4. Cpc \in Parts(o, d.names)
      BY <3>3, PartsIn
    <3>5. dir'.scanned
      BY <1>1, <3>1, Scanning
    <3> QED
      BY <3>1, <3>2, <3>4, <3>5
  <2> QED
    BY <2>1, <2>2
<1>6. InputPaths(r) \subseteq Paths
  BY <1>3 DEF Records, InputPaths
<1>7. seen' = Enter(InputPaths(r) \cup {o})
  BY <1>2 DEF Accepts
<1>8. /\ \A p \in InputPaths(r) \cup {o} : seen'[p] = Look(p) /\ seen'[p] # Unknown
      /\ seen'[Cpc] = seen[Cpc]
  BY <1>1, <1>6, <1>7, Grown
<1> HIDE DEF P
<1>9. seen'[o] = disk'[o] /\ disk'[o] # 0
  BY <1>2, <1>4, <1>8 DEF Accepts
<1>10. \A p \in P : seen'[p] # Unknown
  BY <1>1, <1>5, <1>8
<1>11. ASSUME \A p \in P : seen'[p] = disk'[p] /\ disk'[p] # 0
       PROVE  MadeOf(o, P)
  <2>1. /\ r.key = disk[Cpc] /\ disk[o] = r.time /\ r.time # 0
    BY <1>2, <1>4, <1>5, <1>8, <1>11 DEF Accepts
  <2>2. \A i \in DOMAIN r.inputs :
           r.inputs[i][2] # 0 /\ r.inputs[i][2] = disk[r.inputs[i][1]]
    <3>1. TAKE i \in DOMAIN r.inputs
    <3>2. r.inputs[i][1] \in InputPaths(r)
      BY DEF InputPaths
    <3>3. r.inputs[i][2] # 0 /\ r.inputs[i][2] = Look(r.inputs[i][1])
      BY <1>2 DEF Accepts
    <3> QED
      BY <1>5, <1>8, <1>11, <3>2, <3>3
  <2>3. Fits(o, r)
    BY <2>1, <2>2 DEF Fits
  <2> QED
    BY <1>5, <2>3 DEF Truthful
<1>12. ASSUME \A p \in P : seen'[p] = disk'[p] /\ disk'[p] # 0
       PROVE  made'[o] = {<<p, Content(p)'>> : p \in P}
  <2>1. \A p : Content(p)' = Content(p)
    BY DEF Content
  <2> QED
    BY <1>11, <1>12, <2>1 DEF MadeOf
<1> QED
  BY <1>5, <1>9, <1>10, <1>12 DEF Vouched, MadeOf, P

(* What cache_save records *)
LEMMA RecordedVouched ==
    ASSUME Base, Locked, Exact, NEW o, Ready(o), Save(o), UNCHANGED <<disk, made>>
    PROVE  Vouched(o)'
<1>1. /\ Control /\ Stamped /\ seen[Cpc] # Unknown /\ Cpc \in Paths /\ pc # "idle"
  BY Named DEF Base, Control, Staged, Ready
<1>2. /\ o \in Outputs /\ disk[o] # 0 /\ Exists \in BOOLEAN
      /\ PathsIn(made[o]) = Parts(o, Exists) /\ Parts(o, Exists) \subseteq Paths
      /\ (\A p \in Parts(o, Exists) : Look(p) = disk[p]) => MadeOf(o, Parts(o, Exists))
      /\ o # Exe => pc = "compiling" /\ Scan(EnterDir).names = Exists
  BY ReadyMade
<1>3. /\ \A p \in Paths : p # o => \/ seen'[p] = seen[p]
                                   \/ seen[p] = Unknown /\ seen'[p] = disk[p]
      /\ \A p \in Range(InputsOf(o)) :
            p \in Paths /\ (p # o => seen'[p] = Look(p) /\ seen'[p] # Unknown)
      /\ seen'[o] = disk[o]
  BY <1>1, <1>2, SavedMoves
<1>4. Range(InputsOf(o)) = Parts(o, Exists) \ {Cpc} /\ Cpc \in Parts(o, Exists)
  BY <1>2, Ingredients, PartsIn
<1> DEFINE P == Parts(o, Exists)
<1>5. o \notin P /\ P \subseteq Paths
  <2>1. CASE o = Exe
    BY <1>2, <2>1, Named DEF Parts
  <2>2. CASE o # Exe
    <3>1. P \subseteq Inputs
      BY <1>2, <2>2, PartsIn
    <3> QED
      BY <1>2, <3>1, Named
  <2> QED
    BY <2>1, <2>2
<1>6. Parts(o, dir'.names) = P /\ (o # Exe => dir'.scanned)
  <2>1. CASE o = Exe
    BY <2>1 DEF Parts
  <2>2. CASE o # Exe
    <3>1. dir' = Scan(EnterDir)
      BY <2>2 DEF Save
    <3>2. dir'.scanned
      BY <1>1, <3>1, Scanning
    <3> QED
      BY <1>2, <2>2, <3>1, <3>2
  <2> QED
    BY <2>1, <2>2
<1>7. \A p \in P : seen'[p] = Look(p) /\ seen'[p] # Unknown
  <2>1. seen'[Cpc] = seen[Cpc] /\ Look(Cpc) = seen[Cpc]
    BY <1>1, <1>3, <1>4, <1>5 DEF Look
  <2> QED
    BY <1>1, <1>3, <1>4, <1>5, <2>1
<1> HIDE DEF P
<1>8. ASSUME \A p \in P : seen'[p] = disk'[p]
      PROVE  made'[o] = {<<p, Content(p)'>> : p \in P}
  <2>1. MadeOf(o, P)
    BY <1>2, <1>7, <1>8 DEF P
  <2>2. \A p : Content(p)' = Content(p)
    BY DEF Content
  <2> QED
    BY <2>1, <2>2 DEF MadeOf
<1> QED
  BY <1>2, <1>3, <1>6, <1>7, <1>8 DEF Vouched, MadeOf

Early == pc \in {"check", "clean", "compiling"}

(* Vouched for, and known by its stamp *)
Trusted == \A o \in Settled : Vouched(o)

LEMMA WhoIsSettled ==
    ASSUME Control
    PROVE  /\ Early => Settled = ({Objects[i] : i \in 1..job - 1} \ dirty) \cup {batch[i] : i \in 1..done}
           /\ pc \in {"check", "clean"} =>
                 done = 0 /\ Settled = {Objects[i] : i \in 1..job - 1} \ dirty
           /\ pc # "linked" => Settled \subseteq Range(Objects)
           /\ pc = "compiling" => /\ \A i \in 1..done : batch[i] \in dirty /\ i \in DOMAIN batch
           /\ pc \in {"unlink", "linking"} => Settled = Range(Objects)
           /\ pc = "linked" => Settled = Outputs
           /\ pc \in {"idle", "recorded"} => Settled = {}
           /\ Settled \subseteq Outputs
<1>1. /\ done \in Nat /\ batch \in Seq(Outputs) /\ tool.pos \in Nat /\ done < tool.pos
      /\ tool.pos <= Len(batch) + 1 /\ job \in 1..Len(Jobs) + 1 /\ Len(Jobs) \in Nat
      /\ dirty \subseteq Range(Objects) /\ pc \in Phases
  BY Manifest DEF Control, ToolTyped, DriverTyped
<1>2. Early => Settled = ({Objects[i] : i \in 1..job - 1} \ dirty) \cup {batch[i] : i \in 1..done}
  BY DEF Early, Settled
<1>3. pc \in {"check", "clean"} => done = 0
  <2>1. pc \in {"check", "clean"} => tool.pos = 1
    BY DEF Control, Staged, Idle
  <2> QED
    BY <1>1, <2>1
<1>4. {Objects[i] : i \in 1..job - 1} \subseteq Range(Objects)
  <2>1. \A i \in 1..job - 1 : i \in 1..Len(Jobs)
    BY <1>1
  <2> QED
    BY <2>1, Manifest
<1>5. pc = "compiling" => \A i \in 1..done : batch[i] \in dirty /\ i \in DOMAIN batch
  <2>1. \A i \in 1..done : i \in DOMAIN batch
    BY <1>1
  <2>2. pc = "compiling" => Range(batch) = dirty
    BY DEF Control, Staged
  <2> QED
    BY <2>1, <2>2 DEF Range
<1>6. pc \in {"check", "clean"} => Settled = {Objects[i] : i \in 1..job - 1} \ dirty
  <2>1. done = 0 => {batch[i] : i \in 1..done} = {}
    OBVIOUS
  <2> QED
    BY <1>2, <1>3, <2>1 DEF Early
<1>7. pc = "compiling" => Settled \subseteq Range(Objects)
  BY <1>1, <1>2, <1>4, <1>5 DEF Early
<1>8. /\ pc \in {"unlink", "linking"} => Settled = Range(Objects)
      /\ pc = "linked" => Settled = Range(Objects) \cup {Exe}
      /\ pc \in {"idle", "recorded"} => Settled = {}
  BY DEF Settled
<1>9. pc # "linked" => Settled \subseteq Range(Objects)
  BY <1>1, <1>4, <1>6, <1>7, <1>8 DEF Phases
<1> QED
  BY <1>2, <1>3, <1>5, <1>6, <1>8, <1>9, Named

(* An output and what it is made from are left alone by a step. *)
Alone(o) ==
    /\ disk'[o] = disk[o] /\ seen'[o] = seen[o]
    /\ \A p \in Parts(o, dir.names) : seen'[p] = seen[p]
    /\ o # Exe => dir'.scanned /\ dir'.names = dir.names

LEMMA SettledStep ==
    ASSUME Base, Locked, Exact, Truthful, Trusted, BuildNext
    PROVE  \A o \in Settled' : Vouched(o)'
<1>1. /\ Control /\ Control' /\ Stamped /\ Stated /\ Aged /\ disk' \in [Paths -> Nat]
      /\ disk \in [Paths -> Nat] /\ seen \in [Paths -> Nat \cup {Unknown}]
      /\ dir.names \in BOOLEAN /\ batch \in Seq(Outputs) /\ DOMAIN batch = 1..Len(batch)
      /\ done \in Nat /\ dirty \subseteq Range(Objects) /\ job \in 1..Len(Jobs) + 1
      /\ Len(Jobs) \in Nat
  <2>1. Control /\ Control' /\ Stamped /\ Stated /\ Aged
    BY Aging, ControlStep DEF Base
  <2>2. /\ disk' \in [Paths -> Nat] /\ disk \in [Paths -> Nat]
        /\ seen \in [Paths -> Nat \cup {Unknown}] /\ dir.names \in BOOLEAN
        /\ dirty \subseteq Range(Objects) /\ job \in 1..Len(Jobs) + 1
    BY <2>1 DEF Control, FilesTyped, DriverTyped
  <2>3. batch \in Seq(Outputs) /\ done \in Nat
    BY <2>1 DEF Control, ToolTyped
  <2>4. DOMAIN batch = 1..Len(batch)
    BY <2>3
  <2> QED
    BY <2>1, <2>2, <2>3, <2>4, Manifest
<1>2. \A o \in Settled : o \in Outputs /\ o \in Paths /\ Vouched(o)
  BY <1>1, WhoIsSettled, Named DEF Trusted
<1>3. \A o \in Settled : /\ seen[o] # Unknown
                         /\ \A p \in Parts(o, dir.names) : seen[p] # Unknown /\ p \in Paths
                         /\ o # Exe => dir.scanned
  <2>1. \A o \in Settled : /\ seen[o] = disk[o]
                           /\ \A p \in Parts(o, dir.names) : seen[p] # Unknown
                           /\ o # Exe => dir.scanned
    BY <1>2 DEF Vouched
  <2>2. \A o \in Settled : Parts(o, dir.names) \subseteq Paths
    BY <1>1, <1>2, PartsIn
  <2> QED
    BY <1>1, <1>2, <2>1, <2>2 DEF Unknown
<1>4. ASSUME NEW o \in Settled, Alone(o)
      PROVE  Vouched(o)'
  BY <1>1, <1>2, <1>4, VouchedLasts DEF Alone
(* A table that only grows says no less of what is settled. *)
<1>5. ASSUME NEW o \in Settled, NEW ps, seen' = Enter(ps), disk'[o] = disk[o],
             o # Exe => dir'.scanned /\ dir'.names = dir.names
      PROVE  Alone(o)
  <2>1. \A p \in Paths : seen[p] # Unknown => seen'[p] = seen[p]
    BY <1>1, <1>5, Grown
  <2> QED
    BY <1>2, <1>3, <1>5, <2>1 DEF Alone
<1>6. ASSUME NEW o \in Settled, UNCHANGED <<seen, dir>>, disk'[o] = disk[o]
      PROVE  Alone(o)
  BY <1>3, <1>6 DEF Alone
<1>7. CASE CheckJob
  <2> DEFINE q == Objects[job]
  <2>1. /\ pc = "check" /\ pc' = "check" /\ job <= Len(Jobs) /\ job' = job + 1
        /\ seen' = SeenLookingUp(q) /\ dir' = DirLookingUp(q)
        /\ dirty' = IF Valid(q) THEN dirty ELSE dirty \cup {q}
        /\ UNCHANGED <<disk, made, dirTime, batch, done>>
    BY <1>7 DEF CheckJob, fileVars, toolVars
  <2>2. q \in Outputs /\ q # Exe
    BY <1>1, <2>1, Manifest, Named
  <2> HIDE DEF q
  <2>3. SUFFICES ASSUME NEW o \in Settled'
                 PROVE  Vouched(o)'
    OBVIOUS
  <2>4. PICK i \in 1..job' - 1 : o = Objects[i] /\ o \notin dirty'
    <3>1. done' = 0
      BY <1>1, <2>1, WhoIsSettled
    <3>2. Settled' = ({Objects[i] : i \in 1..job' - 1} \ dirty') \cup {batch'[i] : i \in 1..done'}
      BY <2>1 DEF Settled
    <3> QED
      BY <3>1, <3>2
  <2>5. CASE i = job
    <3>1. o = q /\ Valid(q)
      BY <2>1, <2>4, <2>5 DEF q
    <3>2. seen[q] \in {Unknown, disk[q]}
      BY <1>1, <2>1, <2>2 DEF Stated, Busy
    <3>3. Valid(o) /\ o \in Outputs /\ seen' = SeenLookingUp(o) /\ dir' = DirLookingUp(o)
          /\ seen[o] \in {Unknown, disk[o]}
      BY <2>1, <2>2, <3>1, <3>2
    <3> QED
      BY <2>1, <3>3, AcceptedVouched
  <2>6. CASE i # job
    <3>1. o \in Settled
      <4>1. i \in 1..job - 1 /\ o \notin dirty
        BY <1>1, <2>1, <2>4, <2>6
      <4> QED
        BY <1>1, <2>1, <2>4, <4>1, WhoIsSettled
    <3>2. PICK ps : seen' = Enter(ps)
      BY <1>1, <2>1, <2>2, LookedUp DEF Base
    <3>3. dir.scanned => dir'.scanned /\ dir'.names = dir.names
      BY <2>1, <2>2, LookUpMoves
    <3>4. Alone(o)
      BY <1>3, <1>5, <2>1, <3>1, <3>2, <3>3
    <3> QED
      BY <1>4, <3>1, <3>4
  <2> QED
    BY <2>5, <2>6
<1>8. CASE Discard
  <2> DEFINE q == Head(todo)[2]
  <2>1. /\ pc \in {"clean", "unlink"} /\ UNCHANGED <<pc, dir, dirty, job, batch, done>>
        /\ disk' \in {disk, [disk EXCEPT ![q] = 0]} /\ seen' = [seen EXCEPT ![q] = disk'[q]]
    BY <1>8 DEF Discard, toolVars
  <2>2. q \in dirty \cup {Exe} /\ q \in Outputs /\ q \in Paths /\ (pc = "unlink" => q = Exe)
    BY <1>1, <1>8, Removals, Named DEF Discard
  <2> HIDE DEF q
  <2>3. Settled' = Settled
    BY <2>1 DEF Settled
  <2>4. ASSUME NEW o \in Settled
        PROVE  Alone(o)
    <3>1. o # q /\ o # Exe /\ o \in Outputs
      <4>1. CASE pc = "clean"
        <5>1. o \in Range(Objects) /\ o \notin dirty
          BY <1>1, <4>1, WhoIsSettled
        <5> QED
          BY <1>2, <2>2, <5>1, Named
      <4>2. CASE pc = "unlink"
        BY <1>1, <1>2, <2>2, <4>2, WhoIsSettled, Named
      <4> QED
        BY <2>1, <4>1, <4>2
    <3>2. \A p \in Parts(o, dir.names) : p # q /\ p \in Paths
      <4>1. Parts(o, dir.names) \subseteq Inputs
        BY <1>1, <3>1, PartsIn
      <4> QED
        BY <2>2, <4>1, Named
    <3> QED
      BY <1>1, <1>2, <1>3, <2>1, <3>1, <3>2 DEF Alone
  <2> QED
    BY <1>4, <2>3, <2>4
<1>9. CASE CacheUnit
  <2> DEFINE q == batch[done + 1]
  <2>1. /\ pc = "compiling" /\ done < Reported /\ Save(q) /\ done' = done + 1
        /\ UNCHANGED <<disk, made, dirTime, pc, dirty, job, batch>> /\ Ready(q)
    BY <1>9 DEF CacheUnit, fileVars, Ready
  <2>2. /\ q \in Outputs /\ q # Exe /\ q \in dirty /\ done + 1 \in DOMAIN batch
        /\ \E n \in BOOLEAN : PathsIn(made[q]) = Parts(q, n)
    BY <2>1, Reading
  <2>3. SUFFICES ASSUME NEW o \in Settled'
                 PROVE  Vouched(o)'
    OBVIOUS
  <2>4. o \in Settled \/ o = q
    <3>1. \/ \E i \in 1..job' - 1 : o = Objects[i] /\ o \notin dirty'
          \/ \E i \in 1..done' : o = batch'[i]
      BY <2>1 DEF Settled
    <3>2. \A i \in 1..done + 1 : i \in 1..done \/ i = done + 1
      BY <1>1
    <3> QED
      BY <1>1, <2>1, <3>1, <3>2, WhoIsSettled DEF Early
  <2>5. CASE o = q
    <3>1. Ready(o) /\ Save(o)
      BY <2>1, <2>5
    <3> QED
      BY <2>1, <3>1, RecordedVouched
  <2>6. CASE o \in Settled
    <3>1. o # q /\ o # Exe /\ o \in Outputs
      <4>1. o \in Range(Objects) /\ (o \notin dirty \/ \E i \in 1..done : o = batch[i])
        BY <1>1, <2>1, <2>6, WhoIsSettled DEF Early
      <4>2. \A i \in 1..done : i \in DOMAIN batch /\ i # done + 1
        BY <1>1, <2>1, WhoIsSettled
      <4>3. IsInjective(batch)
        BY <1>1, <2>1 DEF Control, Staged
      <4> QED
        BY <2>2, <4>1, <4>2, <4>3, Named DEF IsInjective
    <3> HIDE DEF q
    <3>2. \A p \in Parts(o, dir.names) : p # q /\ p \in Paths
      <4>1. Parts(o, dir.names) \subseteq Inputs
        BY <1>1, <3>1, PartsIn
      <4> QED
        BY <2>2, <4>1, Named
    <3>3. \A p \in Paths : p # q => \/ seen'[p] = seen[p]
                                    \/ seen[p] = Unknown /\ seen'[p] = disk[p]
      BY <2>1, <2>2, SavedMoves
    <3>4. dir'.scanned /\ dir'.names = dir.names
      <4>1. dir' = Scan(EnterDir) /\ dir.scanned
        BY <1>3, <2>1, <2>2, <2>6, <3>1 DEF Save
      <4> QED
        BY <1>1, <2>1, <4>1, ListedMoves
    <3>5. Alone(o)
      BY <1>2, <1>3, <2>1, <2>6, <3>1, <3>2, <3>3, <3>4 DEF Alone
    <3> QED
      BY <1>4, <2>6, <3>5
  <2> QED
    BY <2>4, <2>5, <2>6
<1>10. CASE ToolRead \/ ToolWrite
  <2> DEFINE q == batch[tool.pos]
  <2>1. /\ tool.phase \in {"start", "open"} /\ tool.pos <= Len(batch)
        /\ UNCHANGED <<pc, seen, dir, dirty, job, batch, done>>
        /\ disk' = [disk EXCEPT ![q] = writes[q] + 1]
    BY <1>1, <1>10 DEF ToolRead, ToolWrite, Control, ToolStaged, driverVars
  <2>2. /\ Busy /\ tool.pos \in DOMAIN batch /\ q \in Outputs
        /\ pc = "compiling" => q \in dirty
        /\ pc = "linking" => q = Exe
    BY <1>1, <2>1, AtWork
  <2>3. Settled' = Settled
    BY <2>1 DEF Settled
  <2>4. ASSUME NEW o \in Settled
        PROVE  o # q
    <3>1. CASE pc = "compiling"
      <4>1. o \notin dirty \/ \E i \in 1..done : o = batch[i]
        BY <1>1, <3>1, WhoIsSettled DEF Early
      <4>2. \A i \in 1..done : i \in DOMAIN batch /\ i # tool.pos
        <5>1. done < tool.pos /\ tool.pos \in Nat
          BY <1>1 DEF Control, ToolTyped
        <5> QED
          BY <1>1, <3>1, <5>1, WhoIsSettled
      <4>3. IsInjective(batch)
        BY <1>1, <3>1 DEF Control, Staged
      <4> QED
        BY <2>2, <3>1, <4>1, <4>2, <4>3 DEF IsInjective
    <3>2. CASE pc = "linking"
      BY <1>1, <2>2, <3>2, WhoIsSettled, Named
    <3> QED
      BY <2>2, <3>1, <3>2 DEF Busy
  <2> HIDE DEF q
  <2> QED
    BY <1>1, <1>2, <1>4, <1>6, <2>1, <2>3, <2>4
<1>11. CASE LookUpExe
  <2>1. /\ Compiled /\ seen' = SeenLookingUp(Exe) /\ UNCHANGED <<disk, made, dirTime, dir>>
        /\ (Valid(Exe) /\ pc' = "linked") \/ (pc' = "unlink")
        /\ pc' = "linked" => Valid(Exe)
    BY <1>11 DEF LookUpExe, fileVars
  <2>2. Exe \in Outputs /\ pc \in {"clean", "compiling"}
    BY <2>1, Named DEF Compiled
  <2>3. Settled = Range(Objects)
    <3>1. job = Len(Jobs) + 1
      BY <1>1, <2>2 DEF Control, Staged
    <3>2. {Objects[i] : i \in 1..job - 1} = Range(Objects)
      <4>1. job - 1 = Len(Jobs)
        BY <1>1, <3>1
      <4> QED
        BY <4>1, Manifest DEF Range
    <3>3. dirty \subseteq {batch[i] : i \in 1..done}
      <4>1. CASE pc = "clean"
        BY <2>1, <4>1 DEF Compiled
      <4>2. CASE pc # "clean"
        <5>1. pc = "compiling" /\ done = Len(batch) /\ Range(batch) = dirty
          BY <1>1, <2>1, <4>2 DEF Compiled, Control, Staged
        <5> QED
          BY <1>1, <5>1 DEF Range
      <4> QED
        BY <4>1, <4>2
    <3>4. Settled = (Range(Objects) \ dirty) \cup {batch[i] : i \in 1..done}
      BY <1>1, <2>2, <3>2, WhoIsSettled DEF Early
    <3>5. {batch[i] : i \in 1..done} \subseteq Range(Objects)
      <4>1. CASE pc = "clean"
        BY <1>1, <3>2, <3>4, <4>1, WhoIsSettled
      <4>2. CASE pc # "clean"
        BY <1>1, <2>2, <4>2, WhoIsSettled
      <4> QED
        BY <4>1, <4>2
    <3> QED
      BY <3>3, <3>4, <3>5
  <2>4. PICK ps : seen' = Enter(ps)
    BY <1>1, <2>1, <2>2, LookedUp DEF Base
  <2>5. ASSUME NEW o \in Range(Objects)
        PROVE  Vouched(o)'
    <3>1. Alone(o)
      BY <1>3, <1>5, <2>1, <2>3, <2>4, Named
    <3> QED
      BY <1>4, <2>3, <3>1
  <2>6. ASSUME pc' = "linked"
        PROVE  Vouched(Exe)'
    <3>1. seen[Exe] \in {Unknown, disk[Exe]}
      <4>1. ~(Busy /\ \E i \in DOMAIN batch : i > done /\ batch[i] = Exe)
        <5>1. pc = "compiling" => Range(batch) = dirty
          BY <1>1 DEF Control, Staged
        <5> QED
          BY <1>1, <2>2, <5>1, Named DEF Busy, Range
      <4> QED
        BY <1>1, <2>2, <4>1 DEF Stated
    <3>2. PICK o : o = Exe
      OBVIOUS
    <3>3. /\ o \in Outputs /\ Valid(o) /\ pc # "idle" /\ seen[o] \in {Unknown, disk[o]}
          /\ seen' = SeenLookingUp(o) /\ o = Exe
      BY <2>1, <2>2, <2>6, <3>1, <3>2
    <3>4. Vouched(o)'
      BY <2>1, <3>3, AcceptedVouched
    <3> QED
      BY <3>3, <3>4 DEF Vouched, MadeOf, Parts, Content
  <2>7. Settled' \subseteq Range(Objects) \cup (IF pc' = "linked" THEN {Exe} ELSE {})
    BY <2>1 DEF Settled
  <2> QED
    BY <2>5, <2>6, <2>7
<1>12. CASE Linked
  <2>1. /\ pc = "linking" /\ Save(Exe) /\ Ready(Exe) /\ UNCHANGED <<disk, made>>
        /\ dir' = dir
    BY <1>12 DEF Linked, Save, Drained, Ready, fileVars
  <2>2. /\ \A p \in Paths : p # Exe => \/ seen'[p] = seen[p]
                                       \/ seen[p] = Unknown /\ seen'[p] = disk[p]
    BY <2>1, SavedMoves, Named
  <2>3. Vouched(Exe)'
    <3>1. PICK o : o = Exe
      OBVIOUS
    <3>2. Ready(o) /\ Save(o)
      BY <2>1, <3>1
    <3>3. Vouched(o)'
      BY <2>1, <3>2, RecordedVouched
    <3> QED
      BY <3>1, <3>3 DEF Vouched, MadeOf, Parts, Content
  <2>4. ASSUME NEW o \in Range(Objects)
        PROVE  Vouched(o)'
    <3>1. o \in Settled /\ o # Exe /\ o \in Outputs
      BY <1>1, <2>1, WhoIsSettled, Named
    <3>2. \A p \in Parts(o, dir.names) : p # Exe
      BY <1>1, <3>1, PartsIn, Named
    <3>3. Alone(o)
      BY <1>2, <1>3, <2>1, <2>2, <3>1, <3>2 DEF Alone
    <3> QED
      BY <1>4, <3>1, <3>3
  <2>5. Settled' \subseteq Range(Objects) \cup {Exe}
    BY <1>12 DEF Linked, Settled
  <2> QED
    BY <2>3, <2>4, <2>5
<1>13. CASE Editor
  <2>1. UNCHANGED <<pc, seen, dir, dirty, job, batch, done>>
    BY <1>13 DEF Editor, Edit, AddShadow, DropShadow, Touch, driverVars, toolVars
  <2>2. PICK p \in Inputs : \A q \in Paths : q # p => disk'[q] = disk[q]
    BY <1>13, EditedOne
  <2>3. \A o \in Settled : disk'[o] = disk[o]
    BY <1>2, <2>2, Named
  <2>4. Settled' = Settled
    BY <2>1 DEF Settled
  <2> QED
    BY <1>4, <1>6, <2>1, <2>3, <2>4
<1>14. ASSUME NEW again, NEW objectsOnly, Start(again, objectsOnly)
       PROVE  \A o \in Settled' : Vouched(o)'
  <2>1. /\ pc = "idle" /\ pc' = "check" /\ UNCHANGED <<dirty, job, batch, done>>
    BY <1>14 DEF Start, toolVars
  <2>2. job = 1 /\ done = 0
    <3>1. job = 1 /\ tool = Idle
      BY <1>1, <2>1 DEF Control, Staged
    <3>2. done < 1
      BY <1>1, <3>1 DEF Control, ToolTyped, Idle
    <3> QED
      BY <1>1, <3>1, <3>2
  <2>3. Settled' = {}
    BY <2>1, <2>2 DEF Settled
  <2> QED
    BY <2>3
<1>15. CASE Compile \/ PlanRemovals
  <2>1. /\ UNCHANGED <<disk, seen, dir, dirty, job>> /\ pc \in {"check", "clean"}
        /\ (pc' = "clean" /\ UNCHANGED <<batch, done>>) \/ (pc' = "compiling" /\ done' = 0)
    BY <1>15 DEF Compile, PlanRemovals, RunTool, fileVars, toolVars
  <2>2. Settled' \subseteq Settled
    <3>1. Settled = ({Objects[i] : i \in 1..job - 1} \ dirty) \cup {batch[i] : i \in 1..done}
      BY <2>1 DEF Settled
    <3>2. Settled' = ({Objects[i] : i \in 1..job' - 1} \ dirty') \cup {batch'[i] : i \in 1..done'}
      BY <2>1 DEF Settled
    <3>3. CASE done' = 0
      <4>1. {batch'[i] : i \in 1..done'} = {}
        BY <3>3
      <4> QED
        BY <2>1, <3>1, <3>2, <4>1
    <3>4. CASE UNCHANGED <<batch, done>>
      BY <2>1, <3>1, <3>2, <3>4
    <3> QED
      BY <2>1, <3>3, <3>4
  <2> QED
    BY <1>4, <1>6, <2>1, <2>2
<1>16. CASE ToolFail \/ ToolExit \/ Timeout \/ Link
  <2>1. UNCHANGED <<disk, seen, dir, dirty, job>>
        /\ (UNCHANGED <<pc, batch, done>> \/ (pc = "unlink" /\ pc' = "linking"))
    BY <1>16 DEF ToolFail, ToolExit, Timeout, Link, fileVars, driverVars
  <2>2. Settled' = Settled
    BY <2>1 DEF Settled
  <2> QED
    BY <1>4, <1>6, <2>1, <2>2
<1>17. CASE Exits \/ Snapshot
  <2>1. pc' \in {"idle", "recorded"}
    BY <1>17 DEF Exits, Snapshot
  <2>2. Settled' = {}
    BY <2>1 DEF Settled
  <2> QED
    BY <2>2
<1> QED
  BY <1>7, <1>8, <1>9, <1>10, <1>11, <1>12, <1>13, <1>14, <1>15, <1>16, <1>17
     DEF BuildNext, Begin, Driver, Tool, Die, ToolFailed, Cleanup, StopAtObjects, Succeed, Kill

(* If nothing differs from what the driver has seen, what it vouches for is *)
(* what a build would make now. *)
LEMMA UnitCurrent ==
    ASSUME Control, Stamped, NEW u \in Range(Jobs), Vouched(Object(u)), dir.names = Exists,
           \A p \in Inputs : seen[p] \in {Unknown, disk[p]}
    PROVE  /\ made[Object(u)] = TextOf(u)
           /\ \A p \in {Source(u), HeaderNow, Cpc} : seen[p] # Unknown
<1> DEFINE o == Object(u)
<1>1. /\ o \in Outputs /\ o # Exe /\ UnitOf(o) = u /\ Exists \in BOOLEAN
      /\ HeaderNow = HeaderIf(Exists)
  BY Named DEF Exists, HeaderNow, HeaderIf
<1>2. Parts(o, Exists) = {Source(u), HeaderNow, Cpc}
  BY <1>1 DEF Parts
<1>3. Parts(o, Exists) \subseteq Inputs
  BY <1>1, PartsIn
<1>4. \A p \in Parts(o, Exists) : disk[p] # 0
  <2>1. Shadow \in Parts(o, Exists) => Exists
    BY <1>2, Named DEF HeaderNow, Exists
  <2>2. \A p \in Inputs \ {Shadow} : disk[p] # 0
    BY DEF Stamped
  <2> QED
    BY <1>3, <2>1, <2>2 DEF Exists
<1>5. \A p \in Parts(o, Exists) : seen[p] # Unknown
  BY DEF Vouched
<1>6. \A p \in Parts(o, Exists) : seen[p] = disk[p]
  BY <1>3, <1>5
<1>7. MadeOf(o, Parts(o, Exists))
  BY <1>4, <1>6 DEF Vouched
<1>8. \A p \in Inputs : Content(p) = disk[p]
  BY Named DEF Content
<1>9. made[o] = {<<p, disk[p]>> : p \in Parts(o, Exists)}
  BY <1>3, <1>7, <1>8 DEF MadeOf
<1> QED
  BY <1>2, <1>5, <1>9 DEF TextOf

LEMMA ExeCurrent ==
    ASSUME Control, Stamped, \A o \in Outputs : Vouched(o), dir.names = Exists,
           \A p \in Inputs : seen[p] \in {Unknown, disk[p]}
    PROVE  made[Exe] = FreshExe
<1>1. \A u \in Range(Jobs) : made[Object(u)] = TextOf(u)
  BY UnitCurrent, Named
<1>2. Parts(Exe, dir.names) = Range(Objects) \cup {Cpc} /\ Exe \in Outputs
  BY Named DEF Parts
<1>3. \A p \in Range(Objects) : seen[p] = disk[p] /\ disk[p] # 0
  BY Named DEF Vouched
<1>4. seen[Cpc] = disk[Cpc] /\ disk[Cpc] # 0
  <2>1. seen[Cpc] # Unknown
    BY <1>2 DEF Vouched
  <2> QED
    BY <2>1, Named DEF Stamped
<1>5. MadeOf(Exe, Range(Objects) \cup {Cpc})
  <2>1. \A p \in Parts(Exe, dir.names) : seen[p] = disk[p] /\ disk[p] # 0
    BY <1>2, <1>3, <1>4
  <2> QED
    BY <1>2, <2>1 DEF Vouched
<1>6. /\ \A q \in Range(Objects) : Content(q) = made[q]
      /\ Content(Cpc) = disk[Cpc]
  BY Named DEF Content
<1>7. made[Exe] = {<<q, made[q]>> : q \in Range(Objects)} \cup {<<Cpc, disk[Cpc]>>}
  BY <1>5, <1>6 DEF MadeOf
<1>8. {<<q, made[q]>> : q \in Range(Objects)} = {<<Object(u), TextOf(u)>> : u \in Range(Jobs)}
  <2>1. Range(Objects) = {Object(u) : u \in Range(Jobs)}
    BY Manifest
  <2>2. {<<q, made[q]>> : q \in Range(Objects)} = {<<Object(u), made[Object(u)]>> : u \in Range(Jobs)}
    BY <2>1
  <2> QED
    BY <1>1, <2>2
<1> QED
  BY <1>7, <1>8 DEF FreshExe

(* A certificate that matches again has matched all the time. *)
LEMMA CertifiedLasts ==
    ASSUME Base, Certified, Aged, UNCHANGED cert, FilesTyped'
    PROVE  Certified'
<1>1. /\ Control /\ Stamped /\ dirTime \in Nat /\ dirTime' \in Nat
      /\ \A p \in Paths : writes[p] \in Nat /\ writes'[p] \in Nat /\ disk'[p] \in Nat
      /\ \A p \in Paths : writes[p] <= writes'[p]
      /\ dirTime <= dirTime' /\ (dirTime' = dirTime => Exists' = Exists)
      /\ \A p \in Inputs \ {Shadow} : disk'[p] # 0
      /\ Exe \in Outputs /\ Cpc \in Inputs \ {Shadow} /\ Shadow \in Inputs
      /\ Header \in Inputs \ {Shadow}
      /\ \A p \in Inputs : p \in Paths
      /\ \A p \in Outputs : p \in Paths
  BY Named DEF Base, Control, FilesTyped, Aged
<1>2. SUFFICES ASSUME NEW c \in cert
               PROVE  /\ \A f \in c.files : /\ f[1] \in Paths /\ f[2] \in Nat
                                            /\ f[2] <= writes'[f[1]]
                                            /\ f[1] \in Outputs => f[2] # 0
                      /\ c.dirs # {} /\ \A t \in c.dirs : t \in Nat /\ t <= dirTime'
                      /\ Matches(c)' => made'[Exe] = FreshExe' /\ Consulted' \subseteq PathsIn(c.files)
  BY DEF Certified
<1>3. /\ \A f \in c.files : /\ f[1] \in Paths /\ f[2] \in Nat /\ f[2] <= writes[f[1]]
                            /\ f[1] \in Outputs => f[2] # 0
      /\ c.dirs # {} /\ \A t \in c.dirs : t \in Nat /\ t <= dirTime
      /\ Matches(c) => made[Exe] = FreshExe /\ Consulted \subseteq PathsIn(c.files)
  BY DEF Certified
<1>4. \A f \in c.files : f[2] <= writes'[f[1]]
  <2>1. TAKE f \in c.files
  <2>2. PICK p \in Paths : p = f[1]
    BY <1>3
  <2>3. f[2] \in Nat /\ f[2] <= writes[p] /\ writes[p] <= writes'[p]
    BY <1>1, <1>3, <2>2
  <2>4. f[2] <= writes'[p]
    BY <1>1, <2>2, <2>3
  <2> QED
    BY <2>2, <2>4
<1>5. \A t \in c.dirs : t <= dirTime'
  BY <1>1, <1>3
<1>6. ASSUME Matches(c)'
      PROVE  made'[Exe] = FreshExe' /\ Consulted' \subseteq PathsIn(c.files)
  <2>1. /\ \A f \in c.files : disk'[f[1]] = f[2]
        /\ \E f \in c.files : f[1] = Exe /\ f[2] # 0
        /\ \A t \in c.dirs : t = dirTime'
    BY <1>6 DEF Matches
  <2>2. dirTime' = dirTime /\ Exists' = Exists
    BY <1>1, <1>3, <2>1
  <2>3. HeaderNow' = HeaderNow
    BY <2>2 DEF HeaderNow, Exists
  <2>4. ASSUME NEW p \in PathsIn(c.files)
        PROVE  p \in Paths /\ disk'[p] = disk[p] /\ (p \in Outputs => made'[p] = made[p])
    <3>1. PICK f \in c.files : p = f[1]
      BY DEF PathsIn
    <3>2. p \in Paths /\ disk'[p] = f[2] /\ f[2] <= writes[p] /\ (p \in Outputs => f[2] # 0)
      BY <1>3, <2>1, <3>1
    <3>3. disk'[p] # 0 => disk'[p] = disk[p] /\ Content(p)' = Content(p)
      BY <1>1, <3>2, Same
    <3>4. CASE disk'[p] # 0
      BY <3>2, <3>3, <3>4 DEF Content
    <3>5. CASE disk'[p] = 0
      <4>1. p = Shadow
        BY <1>1, <3>2, <3>5, Named
      <4>2. disk[p] = 0
        BY <2>2, <3>5, <4>1 DEF Exists
      <4> QED
        BY <3>2, <3>5, <4>2
    <3> QED
      BY <3>4, <3>5
  <2>5. Matches(c)
    <3>1. \A f \in c.files : f[1] \in PathsIn(c.files)
      BY DEF PathsIn
    <3>2. \A f \in c.files : disk[f[1]] = f[2]
      BY <2>1, <2>4, <3>1
    <3> QED
      BY <2>1, <2>2, <3>2 DEF Matches
  <2>6. made[Exe] = FreshExe /\ Consulted \subseteq PathsIn(c.files)
    BY <1>3, <2>5
  <2>7. Consulted' = Consulted
    BY <2>3 DEF Consulted
  <2>8. made'[Exe] = made[Exe]
    <3>1. Exe \in PathsIn(c.files)
      BY <2>1 DEF PathsIn
    <3> QED
      BY <1>1, <2>4, <3>1
  <2>9. FreshExe' = FreshExe
    <3>1. \A p \in Consulted : disk'[p] = disk[p]
      BY <2>4, <2>6
    <3>2. disk'[Cpc] = disk[Cpc]
      BY <3>1 DEF Consulted
    <3>3. \A u \in Range(Jobs) : TextOf(u)' = TextOf(u)
      <4>1. TAKE u \in Range(Jobs)
      <4>2. {Source(u), HeaderNow, Cpc} \subseteq Consulted
        BY DEF Consulted
      <4> QED
        BY <2>3, <3>1, <4>2 DEF TextOf
    <3> QED
      BY <3>2, <3>3 DEF FreshExe
  <2> QED
    BY <2>6, <2>7, <2>8, <2>9
<1> QED
  BY <1>3, <1>4, <1>5, <1>6

(* The certificate is made from what the driver has seen, all of it vouched *)
(* for. *)
LEMMA CertifiedSnapshot ==
    ASSUME Base, Trusted, Snapshot
    PROVE  Certified'
<1>1. /\ Control /\ Stamped /\ FilesTyped /\ DriverTyped
      /\ pc = "linked" /\ UNCHANGED <<disk, writes, made, dirTime>>
      /\ dirTime \in Nat
      /\ \A p \in Paths : disk[p] \in Nat /\ writes[p] \in Nat /\ seen[p] <= writes[p]
                          /\ seen[p] \in Nat \cup {Unknown}
  BY DEF Base, Control, Stamped, FilesTyped, DriverTyped, Snapshot, fileVars
<1>2. \A o \in Outputs : Vouched(o)
  BY <1>1, WhoIsSettled DEF Trusted
<1>3. /\ Exe \in Outputs /\ Outputs \subseteq Paths
      /\ \A u \in Range(Jobs) : Object(u) \in Outputs /\ Object(u) # Exe
      /\ \E u \in Range(Jobs) : TRUE
  BY Named, Manifest
<1>4. dir.scanned /\ dir.time # Unknown
  BY <1>1, <1>2, <1>3 DEF Vouched, Stamped
<1>5. /\ dir' \in DirEntries
      /\ dir'.time # Unknown
      /\ dir'.time \in {dir.time, dirTime}
      /\ dir'.time = dirTime => dir.names = Exists
  BY <1>1, <1>4, Snapped
<1>6. PICK c : /\ cert' = {c}
               /\ c.files = {<<p, seen[p]>> : p \in {q \in Paths : seen[q] # Unknown}}
               /\ c.dirs = {dir'.time}
  <2> DEFINE k == [files |-> {<<p, seen[p]>> : p \in {q \in Paths : seen[q] # Unknown}},
                   dirs |-> {dir'.time} \ {Unknown}]
  <2>1. cert' = {k}
    BY DEF Snapshot
  <2>2. {dir'.time} \ {Unknown} = {dir'.time}
    BY <1>5
  <2>3. /\ k.files = {<<p, seen[p]>> : p \in {q \in Paths : seen[q] # Unknown}}
        /\ k.dirs = {dir'.time}
    BY <2>2
  <2> HIDE DEF k
  <2> QED
    BY <2>1, <2>3
<1>7. ASSUME NEW f \in c.files
      PROVE  /\ f[1] \in Paths /\ f[2] \in Nat /\ f[2] <= writes[f[1]]
             /\ f[1] \in Outputs => f[2] # 0
  <2>1. PICK p \in Paths : seen[p] # Unknown /\ f = <<p, seen[p]>>
    BY <1>6
  <2>2. f[1] = p /\ f[2] = seen[p]
    BY <2>1
  <2>3. p \in Outputs => seen[p] # 0
    BY <1>2 DEF Vouched
  <2>4. seen[p] \in Nat /\ seen[p] <= writes[p]
    BY <1>1, <2>1
  <2> QED
    BY <2>2, <2>3, <2>4
<1>8. dir'.time \in Nat /\ dir'.time <= dirTime
  <2>1. dir.time \in Nat /\ dir.time <= dirTime
    BY <1>1, <1>4 DEF DriverTyped, Stamped
  <2> QED
    BY <1>1, <1>5, <2>1
<1>9. ASSUME Matches(c)'
      PROVE  made[Exe] = FreshExe /\ Consulted \subseteq PathsIn(c.files)
  <2>1. /\ \A f \in c.files : disk[f[1]] = f[2]
        /\ \A t \in c.dirs : t = dirTime
    BY <1>1, <1>9 DEF Matches
  <2>2. dir.names = Exists
    BY <1>5, <1>6, <2>1
  <2>3. \A p \in Inputs : seen[p] \in {Unknown, disk[p]}
    <3>1. SUFFICES ASSUME NEW p \in Inputs, seen[p] # Unknown
                   PROVE  seen[p] = disk[p]
      OBVIOUS
    <3>2. <<p, seen[p]>> \in c.files
      BY <1>6, <3>1, Named
    <3> QED
      BY <2>1, <3>2
  <2>4. made[Exe] = FreshExe
    BY <1>1, <1>2, <2>2, <2>3, ExeCurrent
  <2>5. \A u \in Range(Jobs) : \A p \in {Source(u), HeaderNow, Cpc} : seen[p] # Unknown
    BY <1>1, <1>2, <1>3, <2>2, <2>3, UnitCurrent
  <2>6. \A p \in Consulted : seen[p] # Unknown /\ p \in Paths
    BY <1>3, <2>5, Named DEF Consulted, HeaderNow
  <2>7. \A p \in Consulted : p \in PathsIn(c.files)
    <3>1. TAKE p \in Consulted
    <3>2. <<p, seen[p]>> \in c.files
      BY <1>6, <2>6
    <3> QED
      BY <3>2 DEF PathsIn
  <2> QED
    BY <2>4, <2>7
<1>10. made'[Exe] = FreshExe' <=> made[Exe] = FreshExe
  BY <1>1 DEF FreshExe, TextOf, HeaderNow
<1>11. Consulted' = Consulted
  BY <1>1 DEF Consulted, HeaderNow
<1>12. \A f \in c.files : /\ f[1] \in Paths /\ f[2] \in Nat /\ f[2] <= writes'[f[1]]
                          /\ f[1] \in Outputs => f[2] # 0
  BY <1>1, <1>7
<1>13. c.dirs # {} /\ \A t \in c.dirs : t \in Nat /\ t <= dirTime'
  BY <1>1, <1>6, <1>8
<1> QED
  BY <1>6, <1>9, <1>10, <1>11, <1>12, <1>13 DEF Certified

LEMMA CertifiedStep ==
    ASSUME Base, Trusted, Certified, BuildNext
    PROVE  Certified'
<1>1. CASE Snapshot
  BY <1>1, CertifiedSnapshot
<1>2. CASE cert' = {}
  BY <1>2 DEF Certified
<1>3. CASE UNCHANGED cert
  <2>1. FilesTyped'
    BY ControlStep DEF Control
  <2> QED
    BY <1>3, <2>1, Aging, CertifiedLasts
<1>4. Snapshot \/ cert' = {} \/ UNCHANGED cert
  <2>1. Begin => cert' = {}
    BY DEF Begin, Start
  <2>2. CheckJob \/ PlanRemovals \/ Discard \/ Compile \/ CacheUnit \/ Timeout => UNCHANGED cert
    BY DEF CheckJob, PlanRemovals, Discard, Compile, CacheUnit, Timeout, cacheVars
  <2>3. StopAtObjects \/ LookUpExe \/ Link \/ Linked \/ Succeed => UNCHANGED cert
    BY DEF StopAtObjects, LookUpExe, Link, Linked, Succeed, cacheVars
  <2>4. ToolFailed \/ Die \/ Kill => UNCHANGED cert
    BY DEF ToolFailed, Die, Kill, Cleanup, cacheVars
  <2>5. Tool => UNCHANGED cert
    BY DEF Tool, ToolRead, ToolWrite, ToolFail, ToolExit, cacheVars
  <2>6. Editor => UNCHANGED cert
    BY DEF Editor, Edit, AddShadow, DropShadow, Touch, cacheVars
  <2> QED
    BY <2>1, <2>2, <2>3, <2>4, <2>5, <2>6 DEF BuildNext, Driver
<1> QED
  BY <1>1, <1>2, <1>3, <1>4

(* A build that ends undisturbed has looked at what is there. *)
LEMMA AcceptedEarlier ==
    ASSUME Base, Trusted, pc # "recorded"
    PROVE  AcceptedIsCurrent
<1>1. /\ Control /\ Stamped /\ Unedited /\ DriverTyped
  BY DEF Base, Control
<1>2. SUFFICES ASSUME quiet
               PROVE  /\ \A i \in 1..job - 1 :
                            Objects[i] \notin dirty => made[Objects[i]] = TextOf(Jobs[i])
                      /\ pc = "linked" => made[Exe] = FreshExe
  BY DEF AcceptedIsCurrent
<1>3. pc # "idle" => /\ \A p \in Inputs : seen[p] \in {Unknown, disk[p]}
                     /\ dir.time \in {Unknown, dirTime}
  BY <1>1, <1>2 DEF Unedited
<1>4. \A o \in Outputs : pc # "idle" /\ o # Exe /\ Vouched(o) => dir.names = Exists
  BY <1>1, <1>3 DEF Vouched, Stamped
<1>5. ASSUME NEW i \in 1..job - 1, Objects[i] \notin dirty
      PROVE  made[Objects[i]] = TextOf(Jobs[i])
  <2>1. pc # "idle"
    <3>1. pc = "idle" => job = 1
      BY <1>1 DEF Control, Staged
    <3> QED
      BY <3>1
  <2>2. /\ i \in 1..Len(Jobs) /\ Jobs[i] \in Range(Jobs)
        /\ Objects[i] = Object(Jobs[i]) /\ Objects[i] \in Range(Objects)
        /\ Objects[i] \in Outputs /\ Objects[i] # Exe
    <3>1. job \in 1..Len(Jobs) + 1 /\ Len(Jobs) \in Nat
      BY <1>1, Manifest DEF DriverTyped
    <3>2. i \in 1..Len(Jobs)
      BY <3>1
    <3> QED
      BY <3>2, Manifest, Named
  <2>3. Objects[i] \in Settled
    <3>1. CASE pc \in {"check", "clean", "compiling"}
      BY <1>1, <1>5, <3>1, WhoIsSettled DEF Early
    <3>2. CASE pc \in {"unlink", "linking", "linked"}
      BY <1>1, <2>2, <3>2, WhoIsSettled
    <3> QED
      BY <1>1, <2>1, <3>1, <3>2 DEF DriverTyped, Phases
  <2>4. Vouched(Objects[i]) /\ dir.names = Exists
    BY <1>4, <2>1, <2>2, <2>3 DEF Trusted
  <2> QED
    BY <1>1, <1>3, <2>1, <2>2, <2>4, UnitCurrent
<1>6. ASSUME pc = "linked"
      PROVE  made[Exe] = FreshExe
  <2>1. \A o \in Outputs : Vouched(o)
    BY <1>1, <1>6, WhoIsSettled DEF Trusted
  <2>2. \E u \in Range(Jobs) : Object(u) \in Outputs /\ Object(u) # Exe
    BY Named, Manifest
  <2>3. dir.names = Exists
    BY <1>4, <1>6, <2>1, <2>2
  <2> QED
    BY <1>1, <1>3, <1>6, <2>1, <2>3, ExeCurrent
<1> QED
  BY <1>5, <1>6

LEMMA EndedStep ==
    ASSUME Base, Trusted, pc = "recorded" => AcceptedIsCurrent, BuildNext
    PROVE  pc' = "recorded" => AcceptedIsCurrent'
<1>1. SUFFICES ASSUME pc' = "recorded"
               PROVE  AcceptedIsCurrent'
  OBVIOUS
<1>2. CASE Snapshot
  <2>1. /\ pc = "linked" /\ UNCHANGED <<disk, made, dirty, job, quiet>>
    BY <1>2 DEF Snapshot, fileVars, ghostVars
  <2>2. AcceptedIsCurrent
    BY <2>1, AcceptedEarlier
  <2>3. \A u \in Range(Jobs) : TextOf(u)' = TextOf(u)
    BY <2>1 DEF TextOf, HeaderNow
  <2>4. FreshExe' = FreshExe
    BY <2>1, <2>3 DEF FreshExe
  <2>5. \A i \in 1..job - 1 : Jobs[i] \in Range(Jobs)
    <3>1. job \in 1..Len(Jobs) + 1 /\ Len(Jobs) \in Nat
      BY Manifest DEF Base, Control, DriverTyped
    <3>2. \A i \in 1..job - 1 : i \in 1..Len(Jobs)
      BY <3>1
    <3> QED
      BY <3>2, Manifest
  <2> QED
    BY <2>1, <2>2, <2>3, <2>4, <2>5 DEF AcceptedIsCurrent
<1>3. CASE Editor
  BY <1>3 DEF Editor, Edit, AddShadow, DropShadow, Touch, AcceptedIsCurrent
<1>4. ASSUME ~Snapshot, ~Editor
      PROVE  FALSE
  <2>1. ~Begin
    BY <1>1 DEF Begin, Start
  <2>2. ~(CheckJob \/ PlanRemovals \/ Discard \/ Compile \/ CacheUnit \/ Timeout)
    BY <1>1 DEF CheckJob, PlanRemovals, Discard, Compile, CacheUnit, Timeout, driverVars
  <2>3. ~(StopAtObjects \/ LookUpExe \/ Link \/ Linked \/ Succeed)
    BY <1>1 DEF StopAtObjects, LookUpExe, Link, Linked, Succeed, Exits
  <2>4. ~(ToolFailed \/ Die \/ Kill)
    BY <1>1 DEF ToolFailed, Die, Kill, Cleanup, Exits
  <2>5. ~Tool
    <3>1. Tool => tool.phase \in {"start", "open"} /\ pc' = pc
      BY DEF Tool, ToolRead, ToolWrite, ToolFail, ToolExit, driverVars
    <3>2. tool.phase \in {"start", "open"} => pc # "recorded"
      BY DEF Base, Control, ToolStaged, Busy
    <3> QED
      BY <1>1, <3>1, <3>2
  <2> QED
    BY <1>4, <2>1, <2>2, <2>3, <2>4, <2>5 DEF BuildNext, Driver
<1> QED
  BY <1>2, <1>3, <1>4

LEMMA TrustStep ==
    ASSUME Races = {}, Base, Trust, BuildNext
    PROVE  Trust'
<1>1. Locked /\ Exact /\ Truthful /\ Trusted /\ Certified /\ (pc = "recorded" => AcceptedIsCurrent)
  BY DEF Trust, Trusted
<1>2. Locked' /\ Exact' /\ Truthful'
  BY <1>1, LockedStep, ExactStep, TruthfulStep
<1>3. Certified' /\ (pc' = "recorded" => AcceptedIsCurrent')
  BY <1>1, CertifiedStep, EndedStep
<1>4. \A o \in Settled' : Vouched(o)'
  BY <1>1, SettledStep
<1> QED
  BY <1>2, <1>3, <1>4 DEF Trust

LEMMA TrustIdle == ASSUME Trust, UNCHANGED buildVars PROVE Trust'
<1>1. UNCHANGED <<disk, writes, made, dirTime, state, cert, pc, rebuild, skiplink, seen, dir, dirty,
                  job, todo, batch, done, tool, quiet, kept>>
  BY DEF buildVars, fileVars, cacheVars, driverVars, toolVars, ghostVars
<1>2. Locked' /\ Truthful'
  <2>1. Locked'
    BY <1>1 DEF Trust, Locked
  <2>2. Truthful'
    BY <1>1 DEF Trust, Truthful, Fits, MadeOf, Content, InputPaths
  <2> QED
    BY <2>1, <2>2
<1>3. Exact'
  BY <1>1 DEF Trust, Exact, Genuine, GenuineAt, Known, Contents, Content, Look, Exists, Busy
<1>4. \A o \in Settled' : Vouched(o)'
  <2>1. Settled' = Settled
    BY <1>1 DEF Settled
  <2>2. \A o : Vouched(o)' <=> Vouched(o)
    BY <1>1 DEF Vouched, MadeOf, Content
  <2> QED
    BY <2>1, <2>2 DEF Trust
<1>5. FreshExe' = FreshExe /\ Consulted' = Consulted
  BY <1>1 DEF FreshExe, TextOf, HeaderNow, Consulted
<1>6. Certified'
  BY <1>1, <1>5 DEF Trust, Certified, Matches
<1>7. pc' = "recorded" => AcceptedIsCurrent'
  BY <1>1 DEF Trust, AcceptedIsCurrent, FreshExe, TextOf, HeaderNow
<1> QED
  BY <1>2, <1>3, <1>4, <1>6, <1>7 DEF Trust

LEMMA InitTrust == ASSUME BuildInit PROVE Trust
<1>1. /\ pc = "idle" /\ cert = {} /\ tool = Idle /\ batch = <<>> /\ done = 0
      /\ state = [o \in Outputs |-> {}]
  BY DEF BuildInit
<1>2. Locked /\ Truthful /\ Certified /\ (pc = "recorded" => AcceptedIsCurrent)
  BY <1>1 DEF Locked, Truthful, Certified
<1>3. Exact
  BY <1>1 DEF Exact, Idle, Busy
<1>4. Settled = {}
  BY <1>1 DEF Settled
<1> QED
  BY <1>2, <1>3, <1>4 DEF Trust

-----------------------------------------------------------------------------
(* Types and the control of the driver hold whatever races. *)
THEOREM BuildTypes == BuildSpec => []Control
<1>1. BuildInit => Base
  BY InitBase
<1>2. Base /\ [BuildNext]_buildVars => Base'
  BY BaseStep, BaseIdle
<1>3. Base => Control
  BY DEF Base
<1> QED
  BY <1>1, <1>2, <1>3, PTL DEF BuildSpec

(* Nothing raced: every state that a build can be in is trusted. *)
LEMMA TrustHolds == ASSUME Races = {} PROVE BuildSpec => [](Base /\ Trust)
<1>1. BuildInit => Base /\ Trust
  BY InitBase, InitTrust
<1>2. Base /\ Trust /\ [BuildNext]_buildVars => (Base /\ Trust)'
  BY BaseStep, BaseIdle, TrustStep, TrustIdle
<1> QED
  BY <1>1, <1>2, PTL DEF BuildSpec

(* cache_valid: a build under which nothing was edited takes over only      *)
(* objects made from the files as they are, and ends with the exe that      *)
(* compiling everything would give.                                        *)
THEOREM AcceptedCurrent == ASSUME Races = {} PROVE BuildSpec => []AcceptedIsCurrent
<1>1. Base /\ Trust => AcceptedIsCurrent
  BY AcceptedEarlier DEF Trust, Trusted
<1> QED
  BY <1>1, TrustHolds, PTL

(* certificate_current: -CheckOnly says yes only for the exe that a build   *)
(* of everything from the files on disk would link.                        *)
THEOREM CertificateTruthful == ASSUME Races = {} PROVE BuildSpec => []CheckOnlyTruthful
<1>1. ASSUME Certified, Current
      PROVE  made[Exe] = FreshExe
  <2>1. PICK c \in cert : Matches(c)
    BY <1>1 DEF Current, Matches
  <2> QED
    BY <1>1, <2>1 DEF Certified
<1>2. Base /\ Trust => CheckOnlyTruthful
  BY <1>1 DEF Trust, CheckOnlyTruthful
<1> QED
  BY <1>2, TrustHolds, PTL

=============================================================================
