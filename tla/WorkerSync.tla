----------------------------- MODULE WorkerSync -----------------------------
(***************************************************************************)
(* The worker loops (Compatibility/worker.cmd; Capability/worker.cmd and   *)
(* Cost/worker.cmd are the same protocol): several clones let an agent     *)
(* work on their tree, probe it, and at every cycle boundary commit,       *)
(* fetch, rebase and publish to one base copy.                             *)
(*                                                                         *)
(* A piece of work is one agent run's change.  A tree is the set of work   *)
(* in it; a clone's HEAD is `onto' (the base it was last rebased on) with  *)
(* `local' on top, and while a rebase is stopped `todo' holds the commits  *)
(* still to be replayed, the conflicting one first.  Git itself is modelled*)
(* from how the script uses it; conflicts in generated files, which the    *)
(* script settles at once with this clone's copy, never stop a rebase.     *)
(***************************************************************************)
EXTENDS Naturals, Sequences, FiniteSets, SequencesExt

CONSTANTS
    Clone,       \* the work copies
    Work,        \* the pieces of work that may be made
    Owner,       \* Owner[w]: the clone whose agent makes w
    Clash,       \* the sets {v, w} that change the same source lines
    SyncTries,   \* SyncTries[c]: SYNC_TRIES of a clone's worker
    MaxCycles,   \* MaxCycles[c]: MAX_CYCLES of a clone's worker, 0 = unlimited
    FailLimit,   \* FailLimit[c]: its FAIL_EXIT_LIMIT, 0 = keep going
    MaxStarts,   \* bound: starts of workers, over all clones
    Faults       \* Faults[c]: of "offline", "kill", "commit", "exit", "usage",
                 \*   "stop", "broken"

ASSUME ParametersOK ==
    /\ Owner \in [Work -> Clone]
    /\ SyncTries \in [Clone -> Nat \ {0}] /\ MaxStarts \in Nat
    /\ MaxCycles \in [Clone -> Nat] /\ FailLimit \in [Clone -> Nat]

(* What one clone makes is made in its own tree, one piece upon another. *)
ASSUME ClashAssumption ==
    \A v, w \in Work : {v, w} \in Clash => Owner[v] # Owner[w]

VARIABLES
    base,        \* the work published in the base copy
    upstream,    \* each clone's remote-tracking branch, as fetched
    onto, local, todo, settled, dirty,      \* each clone's repository and tree
    gate,        \* gate-state.txt: "none", "empty", "0" or "1"
    done,        \* clones whose stop marker exists
    pc, ok, session, deferred, fails, tries, sync, pulled,  \* the script
    starts,      \* workers started so far
    seen,        \* what was in the tree w was made in, or was weighed against
    broken,      \* work that makes the probe of a tree fail ...
    cures,       \* ... until work that repairs it is in the tree too
    made,        \* history: all that each clone's agents have made
    probe,       \* history: the last finished probe of each clone
    lost,        \* history: its result was not recorded, a kill came between
    passed       \* history: the work in the trees each clone's probe passed

repo == <<base, upstream, onto, local, todo, settled, dirty>>
script == <<ok, session, deferred, fails, tries, sync, pulled>>
world == <<starts, done>>
quality == <<seen, broken, cures>>
history == <<probe, lost, passed>>
vars == <<repo, gate, pc, script, world, quality, made, history>>

Places == {"off", "commit", "sync", "fetch", "rebase", "push", "boundary",
           "agent", "check", "open", "write"}

(* A commit is the set of the work in it. *)
In(commits) == UNION Range(commits)
HeadTree(c) == onto[c] \cup In(local[c])
Tree(c) == HeadTree(c) \cup dirty[c] \cup (IF todo[c] = <<>> THEN {} ELSE todo[c][1])
Unpublished(c) == In(local[c]) \cup In(todo[c]) \cup dirty[c]

(* rebase_active *)
Rebasing(c) == todo[c] # <<>>

(* A commit does not apply where lines it changes were changed unseen. *)
Conflicted(commit, tree) ==
    \E w \in commit : \E v \in tree \ seen[w] : {v, w} \in Clash

(* How many of the commits a rebase replays before the first conflict. *)
Applies(commits, tree) ==
    LET stops == {i \in DOMAIN commits : Conflicted(commits[i], tree)}
    IN  IF stops = {} THEN Len(commits) ELSE Min(stops) - 1

Passes(tree) == \A w \in tree \cap broken : \E v \in tree : w \in cures[v]

Init ==
    /\ base = {}
    /\ upstream = [c \in Clone |-> {}]
    /\ onto = [c \in Clone |-> {}]
    /\ local = [c \in Clone |-> <<>>]
    /\ todo = [c \in Clone |-> <<>>]
    /\ settled = [c \in Clone |-> FALSE]
    /\ dirty = [c \in Clone |-> {}]
    /\ gate = [c \in Clone |-> "none"]
    /\ done = {}
    /\ pc = [c \in Clone |-> "off"]
    /\ ok = [c \in Clone |-> TRUE]
    /\ session = [c \in Clone |-> 0]
    /\ deferred = [c \in Clone |-> FALSE]
    /\ fails = [c \in Clone |-> 0]
    /\ tries = [c \in Clone |-> 0]
    /\ sync = [c \in Clone |-> "-"]
    /\ pulled = [c \in Clone |-> FALSE]
    /\ starts = 0
    /\ seen = [w \in Work |-> {}]
    /\ broken = {}
    /\ cures = [w \in Work |-> {}]
    /\ made = [c \in Clone |-> {}]
    /\ probe = [c \in Clone |-> "none"]
    /\ lost = [c \in Clone |-> FALSE]
    /\ passed = [c \in Clone |-> {}]

Goto(c, place) == pc' = [pc EXCEPT ![c] = place]

-----------------------------------------------------------------------------
(* Starting, killing and asking to stop. *)

(* Faulty variant: the gate always starts open. *)
RestoredOpen(c) == TRUE

(* What the publish rule remembers over a restart; an empty file leaves    *)
(* LAST_CHECK_OK at its default.                                           *)
Restored(c) == gate[c] # "0"

Start(c) ==
    /\ pc[c] = "off" /\ starts < MaxStarts
    /\ starts' = starts + 1
    /\ ok' = [ok EXCEPT ![c] = Restored(c)]
    /\ session' = [session EXCEPT ![c] = 0]
    /\ deferred' = [deferred EXCEPT ![c] = FALSE]
    /\ fails' = [fails EXCEPT ![c] = 0]
    /\ tries' = [tries EXCEPT ![c] = 0]
    /\ sync' = [sync EXCEPT ![c] = "-"]
    /\ pulled' = [pulled EXCEPT ![c] = FALSE]
    /\ Goto(c, "commit")
    /\ UNCHANGED <<repo, gate, done, quality, made, history>>

Kill(c) ==
    /\ "kill" \in Faults[c] /\ pc[c] # "off"
    /\ Goto(c, "off")
    /\ lost' = [lost EXCEPT ![c] = @ \/ pc[c] \in {"open", "write"}]
    /\ UNCHANGED <<repo, gate, script, world, quality, made, probe, passed>>

RequestStop(c) ==
    /\ "stop" \in Faults[c] /\ c \notin done
    /\ done' = done \cup {c}
    /\ UNCHANGED <<repo, gate, pc, script, starts, quality, made, history>>

-----------------------------------------------------------------------------
(* The boundary: commit, fetch, rebase, push. *)

Committed(c) ==
    /\ local' = [local EXCEPT ![c] = IF dirty[c] = {} THEN @ ELSE Append(@, dirty[c])]
    /\ dirty' = [dirty EXCEPT ![c] = {}]

(* Faulty variant: a tree in the middle of a rebase is committed too, which *)
(* marks its conflicted files resolved as they stand.                       *)
CommitWorkMidRebase(c) ==
    /\ pc[c] = "commit" /\ Goto(c, "sync")
    /\ IF Rebasing(c)
       THEN /\ settled' = [settled EXCEPT ![c] = TRUE]
            /\ UNCHANGED <<local, dirty>>
       ELSE Committed(c) /\ UNCHANGED settled
    /\ UNCHANGED <<base, upstream, onto, todo, gate, script, world, quality,
                   made, history>>

(* commit_work; a commit may fail and leave the work in the tree. *)
CommitWork(c) ==
    /\ pc[c] = "commit" /\ Goto(c, "sync")
    /\ \/ ~Rebasing(c) /\ Committed(c)
       \/ (Rebasing(c) \/ "commit" \in Faults[c]) /\ UNCHANGED <<local, dirty>>
    /\ UNCHANGED <<base, upstream, onto, todo, settled, gate, script, world,
                   quality, made, history>>

(* Replays commits on top of tree, keeping the ones in kept, up to the      *)
(* first conflict.                                                          *)
Replay(c, tree, kept, commits) ==
    LET n == Applies(commits, tree \cup In(kept))
    IN  /\ onto' = [onto EXCEPT ![c] = tree]
        /\ local' = [local EXCEPT ![c] = kept \o SubSeq(commits, 1, n)]
        /\ todo' = [todo EXCEPT ![c] = SubSeq(commits, n + 1, Len(commits))]
        /\ settled' = [settled EXCEPT ![c] = FALSE]

(* git rebase --continue: refused while the stopped commit is unsettled. *)
Continue(c) ==
    IF settled[c]
    THEN Replay(c, onto[c], Append(local[c], todo[c][1]), Tail(todo[c]))
    ELSE UNCHANGED <<onto, local, todo, settled>>

(* sync up to sync_attempt: an unfinished rebase is continued first. *)
BeginSync(c) ==
    /\ pc[c] = "sync"
    /\ Continue(c)
    /\ tries' = [tries EXCEPT ![c] = 0]
    /\ pulled' = [pulled EXCEPT ![c] = Rebasing(c) /\ ~Rebasing(c)']
    /\ IF Rebasing(c)'
       THEN sync' = [sync EXCEPT ![c] = "conflict"] /\ Goto(c, "boundary")
       ELSE /\ sync' = [sync EXCEPT ![c] = IF Rebasing(c) THEN "pulled" ELSE "-"]
            /\ Goto(c, "fetch")
    /\ UNCHANGED <<base, upstream, dirty, gate, ok, session, deferred, fails, world,
                   quality, made, history>>

Fetch(c) ==
    /\ pc[c] = "fetch"
    /\ upstream' = [upstream EXCEPT ![c] = base]
    /\ tries' = [tries EXCEPT ![c] = @ + 1]
    /\ Goto(c, "rebase")
    /\ UNCHANGED <<base, onto, local, todo, settled, dirty, gate, ok, session,
                   deferred, fails, sync, pulled, world, quality, made, history>>

FetchFails(c) ==
    /\ "offline" \in Faults[c] /\ pc[c] = "fetch"
    /\ tries' = [tries EXCEPT ![c] = @ + 1]
    /\ sync' = [sync EXCEPT ![c] = "offline"]
    /\ Goto(c, "boundary")
    /\ UNCHANGED <<repo, gate, ok, session, deferred, fails, pulled, world, quality,
                   made, history>>

(* rebase_onto with nothing to bring in. *)
RebaseNothing(c) ==
    /\ pc[c] = "rebase" /\ upstream[c] = onto[c]
    /\ sync' = [sync EXCEPT ![c] = "clean"]
    /\ Goto(c, "push")
    /\ UNCHANGED <<repo, gate, ok, session, deferred, fails, tries, pulled, world,
                   quality, made, history>>

(* git refuses to rebase a tree with uncommitted changes. *)
RebaseRefused(c) ==
    /\ pc[c] = "rebase" /\ upstream[c] # onto[c] /\ dirty[c] # {}
    /\ sync' = [sync EXCEPT ![c] = "error"]
    /\ Goto(c, "boundary")
    /\ UNCHANGED <<repo, gate, ok, session, deferred, fails, tries, pulled, world,
                   quality, made, history>>

Rebase(c) ==
    /\ pc[c] = "rebase" /\ upstream[c] # onto[c] /\ dirty[c] = {}
    /\ Replay(c, upstream[c], <<>>, local[c])
    /\ IF Rebasing(c)'
       THEN /\ sync' = [sync EXCEPT ![c] = "conflict"]
            /\ Goto(c, "boundary") /\ UNCHANGED pulled
       ELSE /\ sync' = [sync EXCEPT ![c] = "pulled"]
            /\ pulled' = [pulled EXCEPT ![c] = TRUE]
            /\ Goto(c, "push")
    /\ UNCHANGED <<base, upstream, dirty, gate, ok, session, deferred, fails, tries,
                   world, quality, made, history>>

(* push_work keeps the commits here: none, or the last probe failed. *)
KeepLocal(c) ==
    /\ pc[c] = "push" /\ (local[c] = <<>> \/ ~ok[c])
    /\ sync' = [sync EXCEPT ![c] = IF local[c] = <<>> THEN @ ELSE "unpublished"]
    /\ Goto(c, "boundary")
    /\ UNCHANGED <<repo, gate, ok, session, deferred, fails, tries, pulled, world,
                   quality, made, history>>

(* Faulty variant: the push is forced. *)
TakenForced(c) == TRUE

(* The base copy takes a push that it can fast-forward to. *)
Taken(c) == base = onto[c]

Push(c) ==
    /\ pc[c] = "push" /\ local[c] # <<>> /\ ok[c] /\ Taken(c)
    /\ base' = HeadTree(c)
    /\ upstream' = [upstream EXCEPT ![c] = base']
    /\ onto' = [onto EXCEPT ![c] = base']
    /\ local' = [local EXCEPT ![c] = <<>>]
    /\ sync' = [sync EXCEPT ![c] = "pushed"]
    /\ Goto(c, "boundary")
    /\ UNCHANGED <<todo, settled, dirty, gate, ok, session, deferred, fails, tries,
                   pulled, world, quality, made, history>>

(* Another clone published first: fetch, rebase and push again, SYNC_TRIES  *)
(* times, then leave it to the next cycle.                                  *)
PushRefused(c) ==
    /\ pc[c] = "push" /\ local[c] # <<>> /\ ok[c] /\ ~Taken(c)
    /\ IF tries[c] >= SyncTries[c]
       THEN sync' = [sync EXCEPT ![c] = "deferred"] /\ Goto(c, "boundary")
       ELSE UNCHANGED sync /\ Goto(c, "fetch")
    /\ UNCHANGED <<repo, gate, ok, session, deferred, fails, tries, pulled, world,
                   quality, made, history>>

-----------------------------------------------------------------------------
(* The decision at the boundary, the agent and the probe. *)

(* Faulty variant: a stop is deferred as long as the merge is unfinished. *)
DefersAgain(c) == Rebasing(c)

(* Settle an unfinished merge before stopping, once in a session. *)
Defers(c) == Rebasing(c) /\ ~deferred[c]

AtLimit(c) == MaxCycles[c] > 0 /\ session[c] >= MaxCycles[c]

Stop(c) ==
    /\ pc[c] = "boundary"
    /\ \/ c \in done /\ ~Defers(c)
       \/ c \notin done /\ AtLimit(c)
    /\ Goto(c, "off")
    /\ UNCHANGED <<repo, gate, script, world, quality, made, history>>

(* SESSION is only counted as far as MAX_CYCLES looks at it. *)
BeginCycle(c) ==
    /\ pc[c] = "boundary"
    /\ \/ c \in done /\ Defers(c) /\ deferred' = [deferred EXCEPT ![c] = TRUE]
       \/ c \notin done /\ ~AtLimit(c) /\ UNCHANGED deferred
    /\ session' = [session EXCEPT ![c] = IF MaxCycles[c] = 0 THEN 0 ELSE @ + 1]
    /\ Goto(c, "agent")
    /\ UNCHANGED <<repo, gate, ok, fails, tries, sync, pulled, world, quality,
                   made, history>>

(* run_codex: the note on pulled work replaces the prompt chosen before it. *)
Prompt(c) ==
    IF pulled[c] THEN "pulled" ELSE IF sync[c] = "conflict" THEN "conflict" ELSE "task"

(* The agent exits: 0, another code, or because of an account limit. *)
AgentExits(c) ==
    \/ /\ fails' = [fails EXCEPT ![c] = 0]
       /\ Goto(c, "check")
    \/ /\ "exit" \in Faults[c]
       /\ fails' = [fails EXCEPT ![c] = IF FailLimit[c] = 0 THEN 0 ELSE @ + 1]
       /\ Goto(c, "check")
    \/ /\ "usage" \in Faults[c]
       /\ fails' = [fails EXCEPT ![c] = IF FailLimit[c] = 0 THEN 0 ELSE @ + 1]
       /\ Goto(c, "off")

AgentIdles(c) ==
    /\ pc[c] = "agent" /\ AgentExits(c)
    /\ UNCHANGED <<repo, gate, ok, session, deferred, tries, sync, pulled, world,
                   quality, made, history>>

(* New work is sound, broken, or repairs everything broken in its tree. *)
AgentWorks(c) ==
    /\ pc[c] = "agent" /\ Prompt(c) # "conflict" /\ AgentExits(c)
    /\ \E w \in Work \ made[c] :
        /\ Owner[w] = c
        /\ made' = [made EXCEPT ![c] = @ \cup {w}]
        /\ dirty' = [dirty EXCEPT ![c] = @ \cup {w}]
        /\ seen' = [seen EXCEPT ![w] = Tree(c)]
        /\ \/ cures' = [cures EXCEPT ![w] = broken \cap Tree(c)] /\ UNCHANGED broken
           \/ "broken" \in Faults[c] /\ broken' = broken \cup {w} /\ UNCHANGED cures
    /\ UNCHANGED <<base, upstream, onto, local, todo, settled, gate, ok, session,
                   deferred, tries, sync, pulled, world, history>>

(* The agent weighs both sides of the stopped commit. *)
Weighed(c) ==
    [w \in Work |-> IF w \in todo[c][1] THEN seen[w] \cup Tree(c) ELSE seen[w]]

AgentSettles(c) ==
    /\ pc[c] = "agent" /\ Prompt(c) = "conflict" /\ Rebasing(c) /\ AgentExits(c)
    /\ seen' = Weighed(c)
    /\ settled' = [settled EXCEPT ![c] = TRUE]
    /\ UNCHANGED <<base, upstream, onto, local, todo, dirty, gate, ok, session,
                   deferred, tries, sync, pulled, world, broken, cures, made, history>>

(* As AgentSettles, and runs git rebase --continue. *)
AgentFinishes(c) ==
    /\ pc[c] = "agent" /\ Prompt(c) = "conflict" /\ Rebasing(c) /\ AgentExits(c)
    /\ seen' = Weighed(c)
    /\ Replay(c, onto[c], Append(local[c], todo[c][1]), Tail(todo[c]))
    /\ UNCHANGED <<base, upstream, dirty, gate, ok, session, deferred, tries, sync,
                   pulled, world, broken, cures, made, history>>

RunCodex(c) == AgentIdles(c) \/ AgentWorks(c) \/ AgentSettles(c) \/ AgentFinishes(c)

(* An unsettled merge leaves conflict markers, which do not compile. *)
ProbePasses(c) == Passes(Tree(c)) /\ (Rebasing(c) => settled[c])

(* Faulty variant: a probe that passes leaves the gate as it is. *)
NewGateSticky(c) == ok[c] /\ ProbePasses(c)

NewGate(c) == ProbePasses(c)

(* The probe ends: check sets LAST_CHECK_OK. *)
Check(c) ==
    /\ pc[c] = "check" /\ Goto(c, "open")
    /\ ok' = [ok EXCEPT ![c] = NewGate(c)]
    /\ probe' = [probe EXCEPT ![c] = IF ProbePasses(c) THEN "pass" ELSE "fail"]
    /\ lost' = [lost EXCEPT ![c] = FALSE]
    /\ passed' = [passed EXCEPT ![c] = IF ProbePasses(c) THEN @ \cup Tree(c) ELSE @]
    /\ UNCHANGED <<repo, gate, session, deferred, fails, tries, sync, pulled, world,
                   quality, made>>

(* The redirection empties gate-state.txt before the result is written. *)
OpenGate(c) ==
    /\ pc[c] = "open" /\ Goto(c, "write")
    /\ gate' = [gate EXCEPT ![c] = "empty"]
    /\ UNCHANGED <<repo, script, world, quality, made, history>>

(* The rest of check, then record and the limit on failures *)
WriteGate(c) ==
    /\ pc[c] = "write"
    /\ gate' = [gate EXCEPT ![c] = IF ok[c] THEN "1" ELSE "0"]
    /\ Goto(c, IF FailLimit[c] > 0 /\ fails[c] >= FailLimit[c] THEN "off" ELSE "commit")
    /\ UNCHANGED <<repo, script, world, quality, made, history>>

-----------------------------------------------------------------------------
(* A running worker and the whole. *)

Loop(c) ==
    \/ CommitWork(c) \/ BeginSync(c) \/ Fetch(c) \/ FetchFails(c)
    \/ RebaseNothing(c) \/ RebaseRefused(c) \/ Rebase(c)
    \/ KeepLocal(c) \/ Push(c) \/ PushRefused(c)
    \/ Stop(c) \/ BeginCycle(c) \/ RunCodex(c)
    \/ Check(c) \/ OpenGate(c) \/ WriteGate(c)

Next == \E c \in Clone : Loop(c) \/ Start(c) \/ Kill(c) \/ RequestStop(c)

(* A running worker goes on; agents and probes end; a network that comes    *)
(* back again and again lets a fetch through.  Nobody owes a start, a kill, *)
(* a stop marker, or the settling of a merge.                               *)
Fairness == \A c \in Clone : WF_vars(Loop(c)) /\ SF_vars(Fetch(c))

Spec == Init /\ [][Next]_vars /\ Fairness

-----------------------------------------------------------------------------
(* Properties *)

(* Work is never lost: what an agent made, probed or not, is published, or *)
(* still in its clone, wherever the cycle ended (worker.cmd's header;      *)
(* resolve_generated, push_work).                                          *)
WorkKept == \A c \in Clone : made[c] \subseteq base \cup Unpublished(c)

(* Of two published changes to the same lines one was made, or settled by   *)
(* an agent, knowing the other: the script never merges source by itself    *)
(* (commit_work's and rebase_onto's looks at rebase_active).                *)
ConflictsWeighed == \A v, w \in base :
    v # w /\ {v, w} \in Clash => v \in seen[w] \/ w \in seen[v]

(* A clone whose last finished probe failed publishes nothing, also after  *)
(* a restart (LAST_CHECK_OK and gate-state.txt), unless its worker was     *)
(* killed between the end of that probe and the writing of gate-state.txt. *)
FailedStaysLocal == [][\A c \in Clone :
    In(local[c]) \subseteq base' \ base /\ local[c] # <<>> =>
        probe[c] # "fail" \/ lost[c]]_vars

(* A worker that goes on, whose probes pass and whose merges get settled    *)
(* publishes what it commits, however often others publish first.           *)
WorkArrives == \A c \in Clone :
    /\ <>[](pc[c] # "off" /\ probe[c] = "pass")
    /\ []<>(~Rebasing(c)) /\ []<>(dirty[c] = {})
    => []<>(local[c] = <<>> /\ dirty[c] = {})

(* A stop marker ends the loop, even if nobody settles the merge. *)
StopEnds == \A c \in Clone : c \in done ~> pc[c] = "off"

(* The loop never leaves a half-rebased tree behind when it exits.  (A kill *)
(* is not an exit.)                                                         *)
NeverHalfRebased == [][\A c \in Clone :
    pc[c] = "boundary" /\ pc'[c] = "off" => ~Rebasing(c)]_vars

(* The agent of a clone that waits for a merge is asked for the merge. *)
MergeIsPrompted == \A c \in Clone :
    pc[c] = "agent" /\ sync[c] = "conflict" => Prompt(c) = "conflict"

(* What a clone publishes has passed a probe in it. *)
PublishedPassed == [][\A c \in Clone : \A w \in base' \ base :
    Owner[w] = c => w \in passed[c]]_vars
=============================================================================
