----------------------------- MODULE BuildCache -----------------------------
(***************************************************************************)
(* The project build driver (tools/build_project.c): which outputs a build *)
(* accepts from earlier builds, what it records about those it makes, and  *)
(* the certificate that -CheckOnly consults.  An editor changes inputs     *)
(* while builds run, the compiler process runs beside its driver, and      *)
(* tools fail, hang or are killed at any point.                            *)
(*                                                                         *)
(* A file is its write stamp; 0 is a missing file.  A unit reads its       *)
(* source and one header: Shadow, in an earlier include directory, hides   *)
(* Header while it exists.  Resources, archives and unity groups are left  *)
(* out; every unit belongs to one project, so one batch compiles them.     *)
(***************************************************************************)
EXTENDS Integers, Sequences, SequencesExt

CONSTANTS
    Jobs,           \* the units in manifest order, each once
    MaxEvents,      \* bound: builds started and changes made to inputs
    Races           \* edits of a kind that may fall where the driver misses them

ASSUME BuildAssumption ==
    /\ Jobs \in Seq(Range(Jobs)) /\ IsInjective(Jobs) /\ Jobs # <<>>
    /\ MaxEvents \in Nat
    /\ Races \subseteq {"file", "directory"}

Source(u) == <<"source", u>>
Object(u) == <<"object", u>>
Header == <<"header">>
Shadow == <<"shadow">>
Cpc == <<"cpc">>                \* the compiler, which also links
Exe == <<"exe">>

Objects == [i \in DOMAIN Jobs |-> Object(Jobs[i])]
Outputs == Range(Objects) \cup {Exe}
Inputs == {Source(u) : u \in Range(Jobs)} \cup {Header, Shadow, Cpc}
Paths == Inputs \cup Outputs

Unknown == -1                   \* not in the table of files yet

VARIABLES
    disk,           \* path -> stamp
    writes,         \* path -> stamps handed out so far
    made,           \* output -> what it was made from, {} while partial
    dirTime,        \* stamp of the directory that may hold Shadow
    state,          \* output -> its .state.bin: {} or one record
    cert,           \* the certificate of the last build: {} or one record
    pc,             \* the driver
    rebuild, skiplink,
    seen,           \* entry(): stamps this process has taken, and keeps
    dir,            \* entry() of the directory: its stamp, its header names
    dirty,          \* outputs the cache does not hold
    job,            \* next unit to look up
    todo,           \* removals still to do, in order
    batch, done,    \* outputs asked of the running tool; end lines handled
    tool,           \* the tool: phase, unit, exit code, what it read
    builds, edits,  \* counters for the bounds
    quiet,          \* nothing was edited since this build began
    kept            \* units completed by a quiet build; no edit, no -Rebuild since

fileVars == <<disk, writes, made, dirTime>>
cacheVars == <<state, cert>>
driverVars == <<pc, rebuild, skiplink, seen, dir, dirty, job, todo>>
toolVars == <<batch, done, tool>>
ghostVars == <<builds, edits, quiet, kept>>
buildVars == <<fileVars, cacheVars, driverVars, toolVars, ghostVars>>

-----------------------------------------------------------------------------
(* What a compile or a link reads *)

HeaderNow == IF disk[Shadow] # 0 THEN Shadow ELSE Header

TextOf(u) == {<<p, disk[p]>> : p \in {Source(u), HeaderNow, Cpc}}

Reads(o) ==
    IF o = Exe
    THEN {<<q, made[q]>> : q \in Range(Objects)} \cup {<<Cpc, disk[Cpc]>>}
    ELSE TextOf(CHOOSE u \in Range(Jobs) : Object(u) = o)

(* What a build of everything from the present files would link *)
FreshExe ==
    {<<Object(u), TextOf(u)>> : u \in Range(Jobs)} \cup {<<Cpc, disk[Cpc]>>}

PathsIn(content) == {r[1] : r \in content}

-----------------------------------------------------------------------------
(* The table of files *)

Look(p) == IF seen[p] = Unknown THEN disk[p] ELSE seen[p]

(* entry() of every path in ps *)
Enter(ps) == [p \in Paths |-> IF p \in ps THEN Look(p) ELSE seen[p]]

NoDir == [time |-> Unknown, scanned |-> FALSE, names |-> FALSE]

EnterDir == IF dir.time = Unknown THEN [NoDir EXCEPT !.time = dirTime] ELSE dir

(* directory_names: the header names, scanned once per process *)
Scan(d) ==
    IF d.scanned THEN d
    ELSE [d EXCEPT !.scanned = TRUE, !.names = disk[Shadow] # 0]

(* Faulty variant: the recorded names are believed whatever the stamp says. *)
LookUpDirTrusting(r) == [EnterDir EXCEPT !.scanned = TRUE, !.names = r.names]

(* The directory half of cache_valid, against what record r holds *)
LookUpDir(r) ==
    LET d == EnterDir
    IN  IF ~d.scanned /\ d.time = r.time
        THEN [d EXCEPT !.scanned = TRUE, !.names = r.names]
        ELSE Scan(d)

-----------------------------------------------------------------------------
(* cache_valid: walk the recorded inputs, stop at the first that differs *)

Agrees(r, o) == r.key = seen[Cpc] /\ Look(o) # 0 /\ r.time = Look(o)

Differing(r) ==
    {i \in DOMAIN r.inputs :
        \/ r.inputs[i][2] = 0
        \/ r.inputs[i][2] # Look(r.inputs[i][1])}

(* The inputs looked at *)
Walked(r, o) ==
    IF ~Agrees(r, o) THEN {}
    ELSE {r.inputs[i][1] : i \in {k \in DOMAIN r.inputs :
            r.inputs[k][2] # 0 /\ \A j \in Differing(r) : k <= j}}

InputsAgree(r, o) == Agrees(r, o) /\ Differing(r) = {}

Valid(o) ==
    ~rebuild /\ \E r \in state[o] :
        /\ InputsAgree(r, o)
        /\ \A d \in r.dir : LookUpDir(d).names = d.names

(* What looking o up leaves in the table *)
SeenLookingUp(o) ==
    IF rebuild THEN seen
    ELSE Enter(UNION {Walked(r, o) \cup {o} : r \in state[o]})

DirLookingUp(o) ==
    LET asked == UNION {IF InputsAgree(r, o) THEN r.dir ELSE {} : r \in state[o]}
    IN  IF rebuild \/ asked = {} THEN dir
        ELSE LookUpDir(CHOOSE d \in asked : TRUE)

-----------------------------------------------------------------------------
(* cache_save: inputs keep the stamp of their first stat, the output is    *)
(* stat'ed again                                                           *)

InputsOf(o) ==
    IF o = Exe THEN Objects
    ELSE LET u == CHOOSE v \in Range(Jobs) : Object(v) = o
         IN  <<Source(u)>> \o SetToSeq(PathsIn(made[o]) \ {Source(u), Cpc})

Record(o) ==
    [key |-> seen[Cpc],
     time |-> disk[o],
     inputs |-> [i \in DOMAIN InputsOf(o) |-> <<InputsOf(o)[i], Look(InputsOf(o)[i])>>],
     dir |-> IF o = Exe THEN {}
             ELSE {[time |-> Scan(EnterDir).time, names |-> Scan(EnterDir).names]}]

Save(o) ==
    /\ state' = [state EXCEPT ![o] = {Record(o)}]
    /\ seen' = [Enter(Range(InputsOf(o))) EXCEPT ![o] = disk[o]]
    /\ dir' = IF o = Exe THEN dir ELSE Scan(EnterDir)

-----------------------------------------------------------------------------
Idle == [phase |-> "none", pos |-> 1, code |-> 0, reads |-> {}]

(* A driver process that does not run: nothing of it remains *)
NoTable == [p \in Paths |-> Unknown]

Exits ==
    /\ pc' = "idle" /\ rebuild' = FALSE /\ skiplink' = FALSE
    /\ seen' = NoTable /\ dir' = NoDir
    /\ dirty' = {} /\ job' = 1 /\ todo' = <<>>
    /\ batch' = <<>> /\ done' = 0 /\ tool' = Idle

BuildInit ==
    /\ disk = [p \in Paths |-> IF p \in Inputs \ {Shadow} THEN 1 ELSE 0]
    /\ writes = disk
    /\ made = [o \in Outputs |-> {}]
    /\ dirTime = 1
    /\ state = [o \in Outputs |-> {}] /\ cert = {}
    /\ pc = "idle" /\ rebuild = FALSE /\ skiplink = FALSE
    /\ seen = NoTable /\ dir = NoDir
    /\ dirty = {} /\ job = 1 /\ todo = <<>>
    /\ batch = <<>> /\ done = 0 /\ tool = Idle
    /\ builds = 0 /\ edits = 0 /\ quiet = TRUE /\ kept = {}

(* A build begins: the old certificate is truncated before anything else,  *)
(* and the compiler's stamp goes into every key.                           *)
Start(again, objectsOnly) ==
    /\ pc = "idle" /\ builds + edits < MaxEvents
    /\ builds' = builds + 1
    /\ pc' = "check" /\ rebuild' = again /\ skiplink' = objectsOnly
    /\ cert' = {}
    /\ seen' = Enter({Cpc})
    /\ quiet' = TRUE
    /\ kept' = IF again THEN {} ELSE kept
    /\ UNCHANGED <<fileVars, state, dir, dirty, job, todo, toolVars, edits>>

CheckJob ==
    /\ pc = "check" /\ job <= Len(Jobs)
    /\ LET o == Objects[job]
       IN  /\ seen' = SeenLookingUp(o) /\ dir' = DirLookingUp(o)
           /\ dirty' = IF Valid(o) THEN dirty ELSE dirty \cup {o}
    /\ job' = job + 1
    /\ UNCHANGED <<fileVars, cacheVars, pc, rebuild, skiplink, todo, toolVars, ghostVars>>

DirtyJobs == {i \in DOMAIN Jobs : Objects[i] \in dirty}

DirtyObjects ==
    LET place == CHOOSE s \in [1..Cardinality(DirtyJobs) -> DirtyJobs] :
                     \A i, j \in DOMAIN s : i < j => s[i] < s[j]
    IN  [k \in DOMAIN place |-> Objects[place[k]]]

(* Stale outputs go before anything is compiled: each file, then its state *)
PlanRemovals ==
    /\ pc = "check" /\ job > Len(Jobs)
    /\ LET stale == IF dirty # {} /\ ~skiplink THEN <<Exe>> \o DirtyObjects ELSE DirtyObjects
       IN  todo' = [k \in 1..2 * Len(stale) |->
                       <<IF k % 2 = 1 THEN "file" ELSE "state", stale[(k + 1) \div 2]>>]
    /\ pc' = "clean"
    /\ UNCHANGED <<fileVars, cacheVars, rebuild, skiplink, seen, dir, dirty, job,
                   toolVars, ghostVars>>

(* remove_file, and refresh *)
Discard ==
    /\ pc \in {"clean", "unlink"} /\ todo # <<>>
    /\ LET o == Head(todo)[2]
       IN  /\ IF Head(todo)[1] = "file"
              THEN /\ disk' = [disk EXCEPT ![o] = 0] /\ made' = [made EXCEPT ![o] = {}]
                   /\ UNCHANGED state
              ELSE /\ state' = [state EXCEPT ![o] = {}]
                   /\ UNCHANGED <<disk, made>>
           /\ seen' = [seen EXCEPT ![o] = disk'[o]]
    /\ todo' = Tail(todo)
    /\ UNCHANGED <<writes, dirTime, cert, pc, rebuild, skiplink, dir, dirty, job,
                   toolVars, ghostVars>>

RunTool(outputs) ==
    /\ batch' = outputs /\ done' = 0
    /\ tool' = [Idle EXCEPT !.phase = "start"]

(* compile_jobs: one compiler process for all dirty units *)
Compile ==
    /\ pc = "clean" /\ todo = <<>> /\ dirty # {}
    /\ RunTool(DirtyObjects)
    /\ pc' = "compiling"
    /\ UNCHANGED <<fileVars, cacheVars, rebuild, skiplink, seen, dir, dirty, job, todo, ghostVars>>

-----------------------------------------------------------------------------
(* The tool process *)

(* It reads its inputs and creates the output *)
ToolRead ==
    /\ tool.phase = "start" /\ tool.pos <= Len(batch)
    /\ LET o == batch[tool.pos]
       IN  /\ tool' = [tool EXCEPT !.phase = "open", !.reads = Reads(o)]
           /\ writes' = [writes EXCEPT ![o] = @ + 1]
           /\ disk' = [disk EXCEPT ![o] = writes[o] + 1]
           /\ made' = [made EXCEPT ![o] = {}]
    /\ UNCHANGED <<dirTime, cacheVars, driverVars, batch, done, ghostVars>>

(* It completes the output; a batch reports the end of the unit *)
ToolWrite ==
    /\ tool.phase = "open"
    /\ LET o == batch[tool.pos]
       IN  /\ writes' = [writes EXCEPT ![o] = @ + 1]
           /\ disk' = [disk EXCEPT ![o] = writes[o] + 1]
           /\ made' = [made EXCEPT ![o] = tool.reads]
    /\ tool' = [tool EXCEPT !.phase = "start", !.pos = @ + 1, !.reads = {}]
    /\ UNCHANGED <<dirTime, cacheVars, driverVars, batch, done, ghostVars>>

ToolFail ==
    /\ tool.phase \in {"start", "open"} /\ tool.pos <= Len(batch)
    /\ tool' = [tool EXCEPT !.phase = "exit", !.code = 1, !.reads = {}]
    /\ UNCHANGED <<fileVars, cacheVars, driverVars, batch, done, ghostVars>>

ToolExit ==
    /\ tool.phase = "start" /\ tool.pos > Len(batch)
    /\ tool' = [tool EXCEPT !.phase = "exit"]
    /\ UNCHANGED <<fileVars, cacheVars, driverVars, batch, done, ghostVars>>

-----------------------------------------------------------------------------
(* The driver beside it: run_tool *)

Reported == tool.pos - 1        \* end lines written to the pipe

(* Faulty variant: units are cached when the batch ends. *)
CacheUnitsOfBatch ==
    /\ pc = "compiling" /\ done < Reported
    /\ IF done + 1 = Len(batch) THEN Save(batch[done + 1]) ELSE UNCHANGED <<state, seen, dir>>
    /\ done' = done + 1
    /\ kept' = IF quiet THEN kept \cup {batch[done + 1]} ELSE kept
    /\ UNCHANGED <<fileVars, cert, pc, rebuild, skiplink, dirty, job, todo,
                   batch, tool, builds, edits, quiet>>

(* diagnostic_line: a unit is cached as its end line is read *)
CacheUnit ==
    /\ pc = "compiling" /\ done < Reported
    /\ Save(batch[done + 1])
    /\ done' = done + 1
    /\ kept' = IF quiet THEN kept \cup {batch[done + 1]} ELSE kept
    /\ UNCHANGED <<fileVars, cert, pc, rebuild, skiplink, dirty, job, todo,
                   batch, tool, builds, edits, quiet>>

(* Faulty variant: the deadline counts only inside a unit. *)
TimeoutPerUnit ==
    /\ tool.phase = "open"
    /\ tool' = [tool EXCEPT !.phase = "exit", !.code = 1, !.reads = {}]
    /\ UNCHANGED <<fileVars, cacheVars, driverVars, batch, done, ghostVars>>

(* The deadline passes: the tool is killed, even one that is just done, and *)
(* its pipe is still drained.                                              *)
Timeout ==
    /\ pc \in {"compiling", "linking"} /\ tool.code = 0
    /\ tool' = [tool EXCEPT !.phase = "exit", !.code = 1, !.reads = {}]
    /\ UNCHANGED <<fileVars, cacheVars, driverVars, batch, done, ghostVars>>

(* failure_cleanup, run by exit unless the build succeeded *)
Cleanup ==
    /\ Exits
    /\ IF skiplink
       THEN UNCHANGED <<disk, made, state>>
       ELSE /\ disk' = [disk EXCEPT ![Exe] = 0] /\ made' = [made EXCEPT ![Exe] = {}]
            /\ state' = [state EXCEPT ![Exe] = {}]
    /\ UNCHANGED <<writes, dirTime, cert, ghostVars>>

(* Nothing more will come through the pipe *)
Drained == tool.phase = "exit" /\ (pc = "compiling" => done = Reported)

ToolFailed ==
    /\ pc \in {"compiling", "linking"} /\ Drained /\ tool.code # 0
    /\ Cleanup

(* die: any call of the driver may fail *)
Die ==
    /\ pc # "idle"
    /\ Cleanup

(* The driver is killed: no exit handler runs, its tool dies with the job  *)
Kill ==
    /\ pc # "idle"
    /\ Exits
    /\ UNCHANGED <<fileVars, cacheVars, ghostVars>>

Compiled ==
    \/ pc = "clean" /\ todo = <<>> /\ dirty = {}
    \/ pc = "compiling" /\ Drained /\ tool.code = 0 /\ done = Len(batch)

StopAtObjects ==
    /\ Compiled /\ skiplink
    /\ Exits
    /\ UNCHANGED <<fileVars, cacheVars, ghostVars>>

(* cached_tool: the old exe is accepted, or its record and then it go *)
LookUpExe ==
    /\ Compiled /\ ~skiplink
    /\ seen' = SeenLookingUp(Exe)
    /\ IF Valid(Exe)
       THEN pc' = "linked" /\ UNCHANGED todo
       ELSE pc' = "unlink" /\ todo' = <<<<"state", Exe>>, <<"file", Exe>>>>
    /\ UNCHANGED <<fileVars, cacheVars, rebuild, skiplink, dir, dirty, job,
                   toolVars, ghostVars>>

Link ==
    /\ pc = "unlink" /\ todo = <<>>
    /\ RunTool(<<Exe>>)
    /\ pc' = "linking"
    /\ UNCHANGED <<fileVars, cacheVars, rebuild, skiplink, seen, dir, dirty, job, todo, ghostVars>>

Linked ==
    /\ pc = "linking" /\ Drained /\ tool.code = 0
    /\ Save(Exe)
    /\ pc' = "linked"
    /\ UNCHANGED <<fileVars, cert, rebuild, skiplink, dirty, job, todo, toolVars, ghostVars>>

(* Faulty variant: the certificate stats the files once more. *)
SnapshotRestats ==
    /\ pc = "linked"
    /\ dir' = dir
    /\ cert' = {[files |-> {<<p, disk[p]>> : p \in {q \in Paths : seen[q] # Unknown}},
                 dirs |-> {dir.time} \ {Unknown}]}
    /\ pc' = "recorded"
    /\ UNCHANGED <<fileVars, state, rebuild, skiplink, seen, dirty, job, todo, toolVars, ghostVars>>

(* snapshot: files keep their first stamp, a directory that changed is     *)
(* stat'ed again if it still has the same header names                     *)
Snapshot ==
    /\ pc = "linked"
    /\ dir' = IF dir.time \in {Unknown, dirTime} THEN dir
              ELSE LET now == Scan([dir EXCEPT !.scanned = FALSE])
                   IN  IF dir.scanned /\ now.names # dir.names THEN now
                       ELSE [(IF dir.scanned THEN now ELSE dir) EXCEPT !.time = dirTime]
    /\ cert' = {[files |-> {<<p, seen[p]>> : p \in {q \in Paths : seen[q] # Unknown}},
                 dirs |-> {dir'.time} \ {Unknown}]}
    /\ pc' = "recorded"
    /\ UNCHANGED <<fileVars, state, rebuild, skiplink, seen, dirty, job, todo, toolVars, ghostVars>>

Succeed ==
    /\ pc = "recorded"
    /\ Exits
    /\ UNCHANGED <<fileVars, cacheVars, ghostVars>>

-----------------------------------------------------------------------------
(* The editor *)

(* What a tool has read and the driver has not recorded yet *)
InFlight ==
    PathsIn(tool.reads) \cup
    UNION {PathsIn(made[batch[i]]) : i \in {k \in DOMAIN batch : done < k /\ k < tool.pos}}

(* A file is not edited between a tool's read and the driver's first stat  *)
FileSettled(p) == "file" \in Races \/ p \notin InFlight \/ seen[p] # Unknown

(* The directory does not change between its scan and the compiles that    *)
(* are recorded with the names that scan found                             *)
DirSettled ==
    \/ "directory" \in Races
    \/ pc \notin {"check", "clean", "compiling"}
    \/ InFlight = {} /\ ~dir.scanned

Touch(p, stamp) ==
    /\ builds + edits < MaxEvents
    /\ disk' = [disk EXCEPT ![p] = stamp]
    /\ edits' = edits + 1 /\ quiet' = FALSE /\ kept' = {}
    /\ UNCHANGED <<made, cacheVars, driverVars, toolVars, builds>>

Edit(p) ==
    /\ p \in Inputs /\ disk[p] # 0 /\ FileSettled(p)
    /\ Touch(p, writes[p] + 1)
    /\ writes' = [writes EXCEPT ![p] = @ + 1]
    /\ UNCHANGED dirTime

AddShadow ==
    /\ disk[Shadow] = 0 /\ DirSettled
    /\ Touch(Shadow, writes[Shadow] + 1)
    /\ writes' = [writes EXCEPT ![Shadow] = @ + 1]
    /\ dirTime' = dirTime + 1

DropShadow ==
    /\ disk[Shadow] # 0 /\ DirSettled
    /\ Touch(Shadow, 0)
    /\ dirTime' = dirTime + 1
    /\ UNCHANGED writes

Editor == (\E p \in Inputs : Edit(p)) \/ AddShadow \/ DropShadow

-----------------------------------------------------------------------------
Begin == \E again, objectsOnly \in BOOLEAN : Start(again, objectsOnly)

Driver ==
    \/ CheckJob \/ PlanRemovals \/ Discard \/ Compile
    \/ CacheUnit \/ Timeout \/ ToolFailed
    \/ StopAtObjects \/ LookUpExe \/ Link \/ Linked \/ Snapshot \/ Succeed

Tool == ToolRead \/ ToolWrite \/ ToolFail \/ ToolExit

BuildNext == Begin \/ Driver \/ Tool \/ Die \/ Kill \/ Editor

(* The driver is scheduled while it can move; its tool may hang. *)
BuildSpec == BuildInit /\ [][BuildNext]_buildVars /\ WF_buildVars(Driver)

-----------------------------------------------------------------------------
(* cache_valid: when nothing is edited under a build, the objects it takes *)
(* over were compiled from the files as they are, and the exe it ends with *)
(* is the one that compiling everything would give, whatever was edited,   *)
(* cancelled or killed before.                                             *)
AcceptedIsCurrent ==
    quiet =>
        /\ \A i \in 1..job - 1 :
               Objects[i] \notin dirty => made[Objects[i]] = TextOf(Jobs[i])
        /\ pc \in {"linked", "recorded"} => made[Exe] = FreshExe

(* certificate_current, what -CheckOnly reports *)
Current ==
    \E c \in cert :
        /\ \A f \in c.files : disk[f[1]] = f[2]
        /\ \E f \in c.files : f[1] = Exe /\ f[2] # 0
        /\ \A t \in c.dirs : t = dirTime

(* -CheckOnly ("is this build current?") says yes only for an exe that a   *)
(* build of everything from the files now on disk would link.              *)
CheckOnlyTruthful == Current => made[Exe] = FreshExe

(* "Keep completed units cached even if a later unit is cancelled": with   *)
(* no edit since, only -Rebuild compiles a completed unit again.            *)
KeptUnitsStay ==
    pc = "clean" /\ ~rebuild => dirty \cap kept = {}

(* run_tool's deadline: a tool that hangs cannot hang the build. *)
BuildEnds == pc # "idle" ~> pc = "idle"

=============================================================================
