# CPrime: verification project

TLA+ modules of the parts of CPrime whose correctness depends on the order in
which things happen: the compiler as a library used by several threads, the
parser that leaves and re-enters itself while it instantiates templates, the
linker's symbol table and its search through archives, the C++ runtime that
generated programs run on, the build driver that decides what need not be
compiled again, and the scripts that let several clones work on one base. TLC
checks them on small instances; TLAPS proves the central results for every
value of the constants.

Paths below are relative to the repository; `src/...` is its `src/` directory.

    tlc -config CompileSession.cfg MCCompileSession     one run
    tlapm CompilerProofs.tla                            the proofs of one module

Contents: [inventory](#inventory) - [modules and code](#modules-and-code) -
[runs](#runs) - [fairness](#fairness) - [proofs](#proofs) -
[findings](#findings) - [not modelled](#not-modelled) - [plan](#plan)

## Inventory

CPrime is a C and C++17 compiler derived from TCC, with its own runtime
headers and libraries for Windows x64, a build driver, a test runner, and
scripts that run long loops of work on several clones.

| Part | State it keeps | Operations | Meets |
| --- | --- | --- | --- |
| Semaphores (`src/include/cprime/cprime.h`) | a critical section and `init` | `wait_sem`, `post_sem` | every user of `cprime_compile_sem`, `rt_sem`, bcheck |
| Compilation session (`src/compiler/middleend/libcprime.c`, `cprimerun.c`) | the globals of parser and generator; per state the jump buffer, the error count, the executable image; the run-time list | new, compile, error, relocate, run, exit, delete | host threads; the preprocessor and generator, which it resets and which error1 leaves by longjmp |
| Preprocessor (`frontend/cprimepp.c`) | file, include, conditional and macro stacks; token and symbol tables | include, conditionals, macro replay | session (unwinding), templates (replay) |
| Templates and substitution probes (`frontend/cprimegen_templates.inc`, `cprimegen_substitution.inc`, `gen_function`) | the recovery jump, the depths of probes, aliases, open classes and drains; the worklist of instantiations | probe, instantiate, replay a class or a body, drain, recover from an error, next input | session (`error1`), preprocessor (token replay) |
| Parser, overloads, constexpr (`frontend/cprimegen*`) | scopes, value stack, pending functions | parse, choose, evaluate | templates, code generator |
| Code generator, assembler (`backend/x64`, `cprimeasm.c`) | registers, section contents | emit | ELF sections |
| Symbol table and relocations (`middleend/cprimeelf.c`) | an array of symbols, a string section, a hash index over them; relocations by position | define, merge, take back and re-put a file's symbols, load an object, sort | generator, archives |
| Archives, weak externals, PE (`cprimeelf.c`, `cprimepe_coff.inc`, `cprimepe.c`) | opened archives, members loaded, libraries asked for, alternative names | load, extract, rescan, bind, write | symbol table, session (`cprime_relocate`) |
| Local statics (`runtime/windows/wincompat.c`, `cprimegen_lifecycle.inc`) | one guard per object, the destructor registry, the exit table | acquire, release, abort, register, destroy | generated code; exceptions from initializers |
| C++ exceptions (`runtime/windows/exception.c`, `cprimegen_exceptions.inc`) | per thread the catch contexts, in-flight count, cleanup boundary; per exception a reference count | throw, search, unwind, begin/end catch, rethrow, `exception_ptr`, terminate | generated handlers and cleanups |
| Thread library (`include/runtime/mutex`, `shared_mutex`, `future`, `thread`) | lock words, waiters, shared states | lock, wait, notify, launch, join | Windows SRW locks and condition variables |
| Smart pointers (`include/runtime/memory`) | control block with two counters | copy, move, drop, lock | user threads |
| Containers, streams, regex | sequential | | |
| Build driver (`tools/build_project.c`) | stamps of files, a record per output, the certificate | look up, remove, compile in batches, link, record, `-CheckOnly`, clean up | the compiler process, editors, a killer |
| Test runner, prepared payload, perf tools, scripts | batches, digests, tables | | processes and files |
| Worker loops (`Compatibility/worker.cmd` and two more) | git state, publish gate, stop marker | commit, fetch, rebase, push, probe | the base copy and each other |

What is hard in it:

* **Globals behind a lock and a longjmp.** The compiler was written for one
  compilation per process. A library client has many states and threads. The
  lock, the reset of the globals and the way out of an error must fit together
  at every depth. Correct: no two threads inside; a compilation always starts
  from clean globals; no jump into a dead frame; an error is charged to the
  state it is about.
* **Guards without a lock on the fast path.** A local static is constructed
  once however many threads arrive, initializers throw, or initializers reach
  other statics; it is destroyed at its own position among exit callbacks.
* **Counting and waking.** `shared_mutex` wakes one side only and relies on
  later holders to wake the other. `shared_ptr` joins by compare-and-exchange
  while the last owner leaves, and the object may hold watchers of itself.
* **Exceptions inside exceptions.** Destructors run by an unwind, by the
  release of an exception, or by a throw that is being constructed may throw,
  catch and rethrow; handles travel between threads.
* **Trusting stamps.** The driver accepts outputs by the stamps it recorded,
  while inputs are edited, tools fail or hang, and the driver itself is killed.
* **A parser re-entered.** A probe parses under a jump that `error1` takes; a
  class definition or a function body in it is outside the immediate context and
  must not be recovered. Each activation saves, clears and restores its part of
  the globals, and a failure skips any number of the restorations.
* **Positions that move.** A finished file's symbols are taken back and put in
  again over the memory they are read from; locals are sorted down; relocations
  must go on meaning what they meant.
* **A link to its fixpoint.** A member brings in names, libraries and alternative
  names that other archives, earlier ones too, may provide. Correct: the search
  ends, misses nothing, and loads nothing for a name that is already there or that
  an earlier archive still has.
* **Clones over one base.** Fetches fail, pushes are refused, rebases stop at
  conflicts, workers are killed and restarted: no work may be lost, and no failing
  tree published.
* Not modelled yet: fixed-size stacks; the sealing of a prepared payload.

The list in `PROJECT.json` under `hazards` names each hazard at its line with
the properties that cover it.

## Modules and code

An abstract module states what a component promises; the detailed one follows
the code and is shown to implement it where such a promise exists.

| Component | Detailed module | Promise | TLC instance | Proofs |
| --- | --- | --- | --- | --- |
| Semaphores | `SemLock` | `Mutex` | `MCSemLock` | in `CompilerProofs` |
| Compilation session | `CompileSession` | | `MCCompileSession` | in `CompilerProofs` |
| Local statics | `StaticInit` | | `MCStaticInit` | `StaticInitProofs` |
| `shared_mutex` | `SharedMutex` | `RWLock` | `MCSharedMutex` | `SharedMutexProofs` |
| `shared_ptr`, `weak_ptr` | `SharedPtr` | `Ownership` | `MCSharedPtr` | `SharedPtrProofs` |
| Exceptions | `ExceptionRuntime` | | `MCExceptionRuntime` | `ExceptionRuntimeProofs` |
| Build driver | `BuildCache` | | `MCBuildCache` | `BuildProofs` |
| Templates and probes | `TemplateReplay` | | `MCTemplateReplay` | `TemplateReplayProofs` |
| Symbol table | `SymbolTable`, over `SymbolBinding` | | `MCSymbolTable` | in `CompilerProofs` |
| Archive extraction | `ArchiveLink`, over `SymbolBinding` | | `MCArchiveLink` | in `CompilerProofs` |
| Worker loops | `WorkerSync` | | `MCWorkerSync` | `WorkerSyncProofs` |

The definitions named *Faulty variant* are not part of any specification. Each
is one plausible bug of the code, there to show that the property that guards
against it fails when the bug is put in.

**SemLock.** One thread's passage through `wait_sem` is test of `init`,
`InitializeCriticalSection`, setting of `init`, `EnterCriticalSection`; each is
an action, as nothing orders them. A section that is initialised again is
unowned, and leaving a section one does not own may or may not free it.
`Early` is the set of threads that may call before `init` is set.

**CompileSession.** `compile_sem` is `cprime_compile_sem`, taken in
`cprime_enter_state` and given up in `cprime_exit_state` in the two steps the
code takes (set or clear the state, wait or post). Between them a compilation
opens and closes files, begins and ends token replays, registers buffers, and
ends softly or by the jump of `error1`; the clean-up in `cprime_compile`,
`preprocess_end` and `cprimegen_finish` is part of `HardError`, `EndOfInput`
and `Finish`. A macro frame remembers the depth of files it began at: that is
all `end_macro` needs to write to a file that is still there. `BeginExpression` and
`EndExpression` are the replay of the tokens of a `#if`; `pp_expr` is the frame it
runs in. A diagnostic from another API call takes the same lock without a jump
buffer, and is not over when `error1` leaves it: `Describe` then looks at `pp_expr`,
and `Report` calls back and counts the error, by way of the current tokens
(`pp_error`) when a `#if` seems to be evaluated. `Relocate...`,
`LinkRead`, `LinkWrite` and `Unlink` are `cprime_relocate`, `st_link` and
`st_unlink` under `rt_sem`. `frames` says whose code a thread's stack is in: a
state's image, or the host and its libraries. `RtExit` is the search of
`rt_find_state` as it is written (the shortcut for a single linked state, a walk of
`Levels` levels against the images of the list, `NULL`), given what `exit` and the
fault handler pass it (`Walks`); `RtJump` jumps to the buffer of what it found, and
where there is none `RtEndsHost` ends the host process and begins the next.
Two threads do not use one state at once, which is the contract of
`libcprime.h`'s users. `Races` names two steps that go wrong in the code and are
left out of what is claimed; see [findings](#findings).
The locks are correct as `SemLock` is when its lock is initialised first; see
[findings](#findings) for when it is not.

**StaticInit.** The guard has the code's values 0, 1, 2. `Pass` is the test
before the lock; `Sleep`, `Begin`, `Release` and `Throw` are single steps,
since a section under `cpc_static_lock` neither blocks nor calls out.
Registration calls `atexit` with the lock held and is two steps. One condition
variable serves all guards, hence `Woken` wakes every sleeper. `Nests` says
which initializer reaches which declaration. The exit table of the C library is
external: callbacks run newest first.

**SharedMutex.** Everything a method does under `m_state` is one step; a wait
ends the step. Sleepers wake when notified or spuriously. `notify_one` picks any
sleeper and is lost when there is none.

**SharedPtr.** Every access to a counter is one step; the counters are
sequentially consistent, as the locked instructions of x64 make them. The object
may hold weak pointers (`Members`) that `dispose()` drops one at a time. `lock()`
reads, compares and exchanges, and retries.

**ExceptionRuntime.** A thread's stack is a sequence of activations the runtime
can meet; a position stands for the frame address that `exception.c` compares.
`Raise` is the search: the innermost activation that decides is either a handler
that takes the exception or one the search may not pass. `UnwindOne` leaves one
activation, running a destructor or ending a handler as the emitted tables
direct. Each piece of user code that the runtime calls gets its own boundary,
put back when it returns. Which handler takes which exception is arbitrary:
type matching is left out, so every matching is covered.
Before all of it a thread meets `cpc_eh_thread`: the first caller of all makes the
fiber-local key in three steps while the others spin, and each thread then stores a
blank state under it. A key made twice would part a thread from its state in the
middle of a throw, which `UncaughtExact` would show.

**BuildCache.** A file is its write stamp, content follows the stamp. `seen` is
the driver's table of stamps, taken once per process and kept, as `entry()` does.
`CheckJob` is `cache_valid` for one unit, including its directory half; `Discard`
removes one stale output; `Compile` starts the batch. The tool reads, writes and
reports units one after the other while the driver handles the lines it has
got (`CacheUnit`), so reports wait in the pipe. `Die` is a failure that runs
`failure_cleanup`; `Kill` runs nothing. An editor changes sources, the header,
the compiler and the directory between any two steps. `Races` is explained under
[findings](#findings).

**TemplateReplay.** `stack` is the C stack, one frame per activation of the
functions that probe, instantiate, drain or replay, each with the globals it
found; `globals` are the ones they save and restore. An activation that parses
may meet anything, so any nesting within the bounds occurs. `spec` is how far
each specialization has come: none, being assembled, queued, wanted, open, done. A queued
class whose argument is incomplete waits; a demand for its layout (`DefineNow`) clears
that dependency before it looks whether a drain may start, and from then on the class
is `wanted`, and replayed by any drain. `Error`
is `error1`: with a jump it lands in the probe the jump names, which restores
its caller's globals (`Restored`) and drops every frame above; without one the
translation unit ends and `NextUnit` resets what `cprimegen_init` resets. What is
parsed, and which specialization fits, is left open.

**SymbolBinding**, **SymbolTable.** `SymbolBinding` is what `set_elf_sym` makes
of an old and a new entry of one name, used by both modules of the linker.
`SymbolTable` has the array, the string section and the hash index cell by cell:
`EndFile`, `EndSymbol` and `EndRelocs` are the steps of `cprimeelf_end_file`,
which re-puts symbols over the cells it still reads. `LoadObjectFile` merges an
object and translates its relocations; `SortSyms` is the sort before writing. A
copy of a link-once section that is there already is not merged: its symbols are
bound by name to what is there or to nothing, and a relocation of another section
that is left without its symbol fails the load. `Ordinary` is the section of what
is in no link-once section. The
loops of `rebuild_hash`, `find_elf_sym` and the loading of an object are recursive
functions over the cells, and a table is a value with the fields of the variables,
so that these can be stated, and proved about, apart from the steps.

**ArchiveLink.** The inputs (`prog`) are what the link line, the objects and the
archive indexes hold; everything after is one deterministic sequence of steps:
`NextInput` along the line, `NextPragma` for the libraries objects ask for,
`Extract` and `EndRound` for `cprime_load_alacarte`, `Rescan` and `EndPass` for
`pe_rescan_archives`, `ResolveAlias` and `CheckSymbols` for what is bound last. What an
object holds is a set of definitions, references, imports, weak externals and
libraries: the bytes and sections behind them are left out. The run-time library
that `pe_add_runtime` adds stands in the line like any other archive.

**WorkerSync.** One clone's cycle is commit, sync (continue, fetch, rebase,
push), the decision at the boundary, the agent, the probe; each is an action, so
that two clones interleave between any two. The probe's result passes through three steps,
as a kill may come between them: it is known to the script (`Check`), the gate file
is emptied (`OpenGate`), and written (`WriteGate`); a worker that starts on an empty
gate file takes it for open (`Restored`). `made`, `probe`, `passed` and `lost` are
histories: all the work there ever was, the last finished probe of a clone, what
has passed one, and that a kill kept its result from the gate file. Git is external: a tree is a set of
work, a rebase replays commits up to the first that clashes with work it has not
seen. The agent may work, idle, fail, settle a conflict or finish it. `Faults` says
what may go wrong in which clone. The three scripts are one protocol with
different prompts.

## Runs

| Run | Instance | What it shows |
| --- | --- | --- |
| `semlock_warm` | 6 threads, one of which may come before `init` is set | The semaphore is a `Mutex`. |
| `semlock_race` | 6 threads, all may come early | Violation: see findings. |
| `session` | 2 threads, 3 states, 3 files, 2 replays, 1 buffer, stacks of 3 activations of which 2 are walked, `Races = {}` | Globals belong to the thread inside and name its state; they are clean between compilations; jumps are live; frames end inside their files; errors go to the right state; the run-time list is exact; `rt_find_state` finds the `cprime_run` to return from whenever it is among the levels walked, and `exit` never jumps to another. |
| `statics` | 3 threads, two statics one of which uses the other, 2 throws, 1 exit callback | One builder at a time, nobody passes an unbuilt object, sleepers get on, destruction is complete. |
| `shared_mutex` | 4 threads, 2 calls each | No wake-up is lost, every call returns; the lock is an `RWLock`. |
| `shared_ptr` | 3 threads, 4 owners, 2 watchers and 1 inside the object | Nothing reachable is gone, nothing leaks; it is `Ownership`. |
| `exceptions` | 2 threads, 2 exceptions, 4 activations deep, 2 handles | `uncaught_exceptions()` and the chain of handlers are exact however throws, cleanups and handlers nest; no unwind leaves code the runtime called; an exception is destroyed once, and only when nothing holds it. The key is made once and parts no thread from its state. |
| `build_cache` | 2 units, 4 builds and edits in any mixture | Nothing stale is accepted, `-CheckOnly` says yes only of what a full build would give, completed units stay cached, every build ends. |
| `template_replay` | 2 class templates, one over a class of the source, 1 function template, 6 activations, 2 inputs | Only errors of the immediate context are recovered; every caller finds its globals again; no class is defined twice. |
| `symbol_table` | 4 symbols with 3 names, one bucket at first, files and 7 objects, one link-once section, 3 relocations | Relocations follow their symbols, those to a dropped copy go to the symbol kept; the index finds exactly the non-local names, also when it grows; the best definition wins, among equals the first. |
| `archive_link` | main and 3 members with one of 11 bodies each, in 2 archives, 6 mains, 5 link lines: 39,930 programs | Every link ends; nothing an archive could provide stays missing; nothing is extracted for a name that an earlier archive still indexes, or that a member extracted before, for whatever name, defines or imports. |
| `worker_sync` | 2 clones, clashing work; one offline at times and with broken work, the other killed, restarted and running into its limits; `SyncTries` 1 and 2, so a refused push puts one's sync off and makes the other try again | No work that was made is lost, probed or not; no source conflict is merged unseen; a failed tree stays local, also over a restart, unless the kill came before the gate file was written; passing work arrives; a stop marker ends the loop. |

Why the bounds are enough:

* Six callers meet `SemLock` although two suffice for its race: the state space
  is small.
* Two threads in `session`: one is inside the lock, or between its two steps of
  linking, or in a program's `exit`, while the other does any of it. Three states:
  a thread's program and two more in the run-time list, one of which the other
  thread is adding or taking away. Walking 2 of 3 activations leaves one beyond the
  walk, as 8 of any number do. A replay can begin at two different depths of files
  and one can outlive a file below it.
* Two statics reach the only relation two can have (one's initializer reaches
  the other); with three threads one constructs, one sleeps and one arrives.
  Two throws let a second builder fail too; one exit callback separates two
  objects in the exit table.
* Four threads in `shared_mutex`: a holder, a waiting writer, and two readers, or
  two of each; two calls let a thread come back while the others still wait.
* A control block with four owners lets two threads drop, one lock and one
  remain; the watcher inside the object is what makes disposal reentrant.
* Four activations hold a handler inside a destructor inside an unwind with a
  try block for it; two exceptions are needed for one to be thrown during the
  other, and two threads to share one. A deeper stack repeats these combinations
  under the same boundary rule. A thread calls the runtime once before it nests
  anything, which leaves the race for the key whole and spares its product with
  every stack.
* Four events in `build_cache` are any mixture of builds and edits: make, edit,
  make again and check, or edit twice to shadow a header and bring it back. Builds
  that stop at objects come between builds that link.
* Six activations in `template_replay` hold a probe, a class in it, the drain it
  starts, the replay of another class, and a probe in that; a class whose argument
  is an open class of the source is what keeps an item in the worklist. Two inputs
  show what one leaves to the next.
* Three names in an index that begins with one bucket make a chain, and its growth
  spreads them. A file, an object and a sort meet in one behaviour, as do two copies
  of a link-once section, with a global and a local symbol and relocations in them and
  to them.
* Two archives and three members make every cycle two archives can have, inside
  one and across. Each member's body is chosen from all that the properties tell
  apart, and each mixture is linked.
* Two clones suffice for a refused push and a conflict. A clone that publishes once
  refuses the other once: with `SyncTries` 1 that is the limit, and the sync is
  deferred to the next cycle; with 2 it is a retry. More clones, or more work, make
  more refusals of the same two kinds. The fault
  sets are split over the clones so that each fault meets a clone that is well.

`CHECK_DEADLOCK FALSE` is set where the system ends: calls used up, the object
and its block gone, the process exited or aborted, the last build over. The
other runs check deadlock too, so a thread that waits for a lock nobody can
release is an error in `session` and `semlock_warm`. Symmetry is used in runs
that check invariants only.

## Fairness

Six modules state liveness properties and need it.

* `StaticInit`: each thread's `Progress` is weakly fair: the scheduler runs a
  thread that can go on. `Construct` is strongly fair: an initializer returns in
  the end although it may pass any number of other declarations first. A thread is
  not obliged to reach a declaration, to throw or to call `exit`. Exit callbacks
  run one after the other without waiting.
* `SharedMutex`: a thread that is not asleep runs on and a holder releases. No
  fairness on new calls, so they are finite (`MaxCalls`); with endless calls a
  preferred writer could starve readers, which the code does not exclude.
  Nothing is assumed about spurious wake-ups.
* `SharedPtr`: a thread inside `release()` or `lock()` runs on. No fairness on
  user code: that the last owner ever leaves is not assumed.
* `BuildCache`: the driver is scheduled. The tool is not assumed to move: it
  may hang, and only the driver's deadline ends the build.
* `ArchiveLink`: the linker is one thread that runs on (weak fairness of `Next`).
* `WorkerSync`: a running worker goes on, its agents and probes end (weak fairness
  of `Loop`); a network that comes back again and again lets a fetch through (strong
  fairness of `Fetch`). Nobody owes a start, a kill, a stop marker or the settling
  of a merge: `WorkArrives` assumes the latter in its own premise.

## Proofs

Each component has an inductive invariant, `IInv` (of the lock, `SemInv`; of the symbol
table, `TableInv`; of a link, `LinkInv`; of the build driver, `Base` and `Trust`), and a
proof module that proves that `Init` establishes it, that every action keeps it, and
that it implies the property.

**CompilerProofs** is about the compiler as a library, in four parts. The first is the
session (`TypeCorrect`, `GlobalsExclusive`, `GlobalsStartClean`,
`JumpsAreLive`, `FramesNested`, `ErrorsCharged`, `RuntimeListSound`, `ExitHome`),
for any threads, states and bounds. The properties need each other: that the
globals are clean when nobody parses rests on exclusion, exclusion on where each
thread is. `IInv` adds that a thread in a call holds a live handle alone
(`HandlesOwned`), that each lock's holder is the thread at the places the
lock covers and that `st_link` writes the head it read (`LocksHeld`), that an
image exists before it is linked and is unlinked before it is freed
(`ImagesPlaced`), that there is an input file while parsing (`InputOpen`), that a
thread has code of an image on its stack while it runs one and only then
(`FramesOpen`), and that nobody goes through `pp_error` unless `Races` lets it
(`GlobalsHeld`). `ExitHome` rests on a second invariant, `StackInv`: which call leads
where (`CallCourse`), that a stack ends in the code of the state its thread uses, with
its buffer filled by `cprime_run` (`Bottom`), that a state whose code is on a stack is
linked and used by no other thread, and has a buffer only if it is the thread's own
(`Stacked`), and what a search may have found (`Sought`). The lemma `WalkFinds` is the
search itself: it finds a state that is on the stack, and the thread's own when that
is at home. `GlobalsExclusive` and `ExitHome` each assume that `Races`
leaves out the finding it is about.

The second part is about the lock itself, `Sem` (`SemExclusion`, `SemOwnerCorrect`,
`SemRefinement`), for any threads, assuming `SoleFirstCaller`: at most one thread can
come before `init` is set. Exclusion alone is not inductive: a thread about to
initialise would wipe the owner. `SemInv` adds that a thread prepares the section only
while nobody is inside (`PreparedBeforeUse`), that whoever asks for it finds `init`
set, and that the preparing thread is an early one. With the assumption dropped the
theorem is false, which `semlock_race` shows.

The third part is the symbol table (`RelocationsFollow`, `NamesAreFound`,
`TheBestIsBound`, `TheBetterIsKept`), for any names, any hash function, any number of
buckets, any files and objects. What is said of the table is said of its core
(`Core`), the part that the next file builds on: while a file is compiled, that is
everything before it. `CoreSound` has the index: each bucket and each chain cell is the
*latest* symbol of its bucket before some position (`Latest`, `Indexes`), which is what
makes a walk of `find_elf_sym` complete and its end certain, and what `rebuild_hash`
makes for any number of buckets; and that no name is bound twice (`Single`).
A relocation from a copy of a link-once section may be left with nothing when its
symbol was dropped (`Refers`); every other one means the symbol it was made for.
`FileKept` is the argument of `cprimeelf_end_file`: the k-th symbol of the file is
still in its cell, with its string, when its turn comes (`Fresh`), because putting in
a symbol again takes at most one cell and one string, so the table never overtakes
the reader (`Ahead`). `RelocsMean` says of a relocation of a finished file that it
means what it was made for (`Means`), and of one of the open file that it is still
to be translated; `update_relocs` and the sort are then one step each. `BestKept`
compares what is bound with every offer so far (`Served`, `Best`): the step is that
`Merge` gives up nothing for less (`TheBetterIsKept`), which needs the ranks and not
the order of the files. The recursive functions of the rebuild, the walk and the
loading of an object are followed with `Climb`: what holds at 0 and is passed on
from each place to the next holds at the end. `TableInv` then gives
the three properties through `FoundByName`: `Find` answers `Nil` only for an unbound name.

The fourth part is what a link takes from archives (`LinkTyped`, `FirstArchiveWins`,
`NothingLeftBehind`), for any inputs, also with an index that names what its members
do not define. The first property (`OneProvider`) needs that archives are opened
once and extracted from only when open, and that a name which a loaded member defines
or imports is not missing any more, whatever the member was drawn for (`Provided`); then
what each member was drawn for says when it was still missing (`Drawn`). The second is the argument of the rescan loop:
as long as no member has been loaded since the pass began (`Quiet`: the counter `pe_rescan_archives` compares is
unchanged), every archive the pass has gone by is clean (`QuietRescan`), and a
search that extracts nothing leaves its own archive clean because whatever an
earlier archive should provide would have been found missing there
(`SearchedIsClean`).

**SharedMutexProofs** (`Exclusion`, `ExactCounters`, `WakeupsKept`, `Refinement`),
for any finite set of threads. The three invariants are inductive together: the
guards of the code test counters, the properties speak of threads, and
`CountersExact` is the bridge, through lemmas on how the size of a set follows
a thread that joins or leaves it.

**SharedPtrProofs** (`ExactCounts`, `NoDangling`, `StaysDead`, `Refinement`), for
any threads and finite sets of pointers. `IInv` adds the order of disposal
(`DisposedInOrder`: the object lives exactly until `dispose()` returns, and one
thread gives up the owners' weak count), that the block is deleted by the thread
that took the weak count to zero (`DeletedAtZero`), and that `lock()` runs on a
watcher that keeps the block, with a count it has found not to be zero
(`LockHoldsWatcher`). That a zero count never rises is then a step property.

**StaticInitProofs** (`BuiltByOne`, `PassingIsSafe`, `DestroyedOnce`,
`DestroyedInPlace`), for any threads, objects, nesting and numbers of throws and
callbacks. `OneBuilder` needs nothing else, but that a passed object is registered
does: `IInv` relates the place a thread is at to its innermost object, the lock
and the head of the registry (`LockHeld`, `RegistersTop`), and guards to the
registry (`RegistryComplete`). `DestroyedInPlace` is about a callback that destroys
whatever heads the registry: `InOrder` says there is an order-preserving map
from the registered objects onto the exit callbacks that are not the program's own.
Lemmas on what that map becomes when either list grows or loses its head carry it.

**ExceptionRuntimeProofs** (`TypeCorrect`, `UnwindConfined`, `CatchChainRight`,
`InFlightCounted`, `FreedExactlyOnce`), for any threads, exceptions and depth. `IInv`
has four layers, each resting on the ones before it. That one thread makes the key and
that a thread without a state has nothing on its stack (`OneKeyMaker`,
`BlankUntilMade`) makes `MakeState` harmless. `AllRouted` says of the thread, and of
what every activation of its stack will put back, that its unwind leads to a handler
past nothing that stops it (`Path`) and that nothing above its boundary may not be
passed (`Fence`): when a destructor returns, the unwind that goes on was checked when
it was interrupted. `AllLedgers` ties the catch contexts to the handlers in the stack
and the count to what is in flight; with it, `EndCatch` by a handler on top always
finds its own context, so the terminating branch of `__cpc_eh_end_catch` is not met.
`AllBooks` says of each exception that its reference count is the size of the set of its
holders (places in stacks, unwinds in progress, handles), that an exception under
construction has one holder, and that one that is being destroyed has none. Each action
is then one change to that set: a place more, fewer or another (`AddsToken`,
`DropsToken`, `MovesToken`), or the last one handed to a destructor (`LastToken`).

**BuildProofs** (`CompletedStay`, `BuildTypes`, `AcceptedCurrent`,
`CertificateTruthful`), for any manifest and any number of builds and edits. `Base`
holds whatever races: a stamp is never used twice and a file that is there has its last
one (`Stamped`), records and the driver's table hold stamps that were once right
(`Ledger`, `Stated`), and what a tool has read is one text (`Flying`). `CompletedStay`
needs only this and that a unit completed by an undisturbed build has a record that
fits what is there (`Keeping`). The other two assume `Races = {}` and are one argument
for any build, disturbed or not: a record *whose stamps all fit* names the text its
output was made from (`Truthful`), where "fits" is said of the present files even
while it does not; since stamps are not used again, a record that fits after an edit did fit
before it (`Refit`), so edits keep the invariant without being mentioned in it. To record
such a unit, what its compile read must be what the driver's first stat finds, and the
names of the directory those of the compile (`Exact`, `Locked`): that is where the two
races enter and nowhere else. What the driver has looked up or made is then vouched for
by its own table (`Vouched`, over `Settled`), and so is the certificate, which is that
table (`Certified`). `AcceptedCurrent` adds that an undisturbed build sees what is there
(`Unedited`).

**TemplateReplayProofs** (`OnlyImmediateErrorsRecover`, `ClassesDefinedOnce`,
`CallersRestored`), for any
templates and any depth of nesting. That the jump is right now says nothing of what
it will be when the activation on top has ended, so `IInv` says it of every depth:
the jump that activation k + 1 has saved is what the first k account for
(`Chained`, over `InContext`). Each way of ending is then one lemma: one that puts
the saved jump back (`Pop`), one that leaves it alone because it neither probes nor
defines (`Drop`), and an error, which cuts the stack anywhere (`StepRecover`).
`Founded` keeps one activation per class that is being assembled and the
interface of a function above the activation that assembles it. That a
definition is not taken twice follows from its class's place in the worklist
(`Counted`). `CallersRestored` weighs the globals against the whole stack, so
`Accounted` says of each activation that what it saved is what the one below hands
on (`Hands`, `Linked`); a way of ending then only has to undo its own link. An error
undoes many at once, and two of the globals, the count of open drains and the class
being assembled, are not put back by the recovery. It needs not put them back:
by `Placed`, a class is assembled only at the bottom or on a replay and an item is
parsed only on a drain, which shut the jump out, so what an error cuts off above the
recovering probe has left neither behind (`Abandoned`), outside the final phase the
findings describe. Counts over the whole stack follow from the links by climbing
them (`Climb`, `Tally`).

**WorkerSyncProofs** (`NoWorkIsLost`, `NoSilentMerge`, `NoFailedPublish`), for any
clones, work and faults. All the work a clone has made, and nothing else, is published
or in the clone's own commits, its stopped rebase or its uncommitted files
(`CloneOK`, `TreeKept`). What is, or may be put without another conflict, on top of a clone's
base is weighed against that base (`Stacked`): a replay puts on it only commits
that do not conflict (`Replayed`, from what the least stop means), a settled commit
has been weighed, and since a sync goes on only with the rebase finished
(`Synchronizing`), a push carries the pairs over to the base copy. The last theorem
is about one step and needs that the gate file outlives the worker, in each of the
steps from the end of a probe to the written file (`GateKept`). One
lemma (`OneMoves`) says once and for all that the other clones are not disturbed.

The assumptions on constants are that a "nobody" value is no member of the set it
is used beside, that sets that are counted are finite, that the units of a manifest are in sequence, that there is at least one
local static, that an archive's index is a sequence, that hashes are natural numbers and a new
table has a bucket, that an object's relocations name its own symbols, that what an object
of a link defines is a record of a name and a binding, that at least one level of the stack is
walked, that bounds are natural numbers, and that only the work of different clones clashes: what one clone makes
is made one piece upon another. (An agent that is sent on with new work while a
rebase is stopped, see `MergeIsPrompted` under the findings, is outside that.) Every property
proved was model-checked first, inductive invariants included.

Proved and therefore no longer among the properties of the runs: `MutualExclusion`
under `SoleFirstCaller`, `WriterExcludes` and `CountersExact` of `SharedMutex`,
`CountsExact` and `NoResurrection` of `SharedPtr`, `DestroyOnce` and `OwnPosition` of
`StaticInit`, and the type invariants.

The order in which a registered object is destroyed among the exit callbacks is stated by
`OwnPosition` alone.

Only model-checked: liveness (`EveryCallReturns`, `NothingLeaks`, `SleepersWake`,
`ExitDestroysAll`, `BuildEnds`, `LinkEnds`, `WorkArrives`, `StopEnds`), which is beyond
the prover. Every invariant and every step property of the passing runs is a theorem.

## Findings

* **First callers of a semaphore race** (`semlock_race`, `cprime.h:1881`). Two
  threads find `init` clear; the second initialises the critical section again
  while the first is inside, and both compile at once. A host that makes its
  first call from one thread alone does not meet it (`SoleFirstCaller`).

The following disagreements are not among the runs; each is reproduced by the
change to a configuration named with it.

* **An error looks at another thread's tokens** (`libcprime.c:1069`;
  `Races = {"expression"}` in `CompileSession.cfg`, `GlobalsOwned`). "Other threads
  need to wait until we're done" says `libcprime.c:1206`; but `error1` tests
  `pp_expr`, and goes on into `pp_error`, which moves `macro_ptr` and calls `next`,
  after it has left the lock. A thread that evaluates a `#if` at that moment loses its
  tokens to the message.
* **A finished run still takes exits** (`cprimerun.c:558`; `Races = {"stale"}`,
  `ExitReturnsHome`). `run_lj` is set by `cprime_run`'s setjmp and never cleared. A
  function of the same state that the host calls later and that calls `exit` makes
  `rt_exit` jump into the frame of a `cprime_run` that has returned.
* **A source saved while it is compiled is taken for current**
  (`build_project.c:267`; `Races = {"file"}` in `BuildCache.cfg`). On a first
  compile nothing has looked at the input before the compiler reads it.
  `cache_save` stats it afterwards and records the new stamp beside an object of
  the old text; later builds accept the object and `-CheckOnly` answers yes.
* **The same for the names in an include directory** (`build_project.c:275`;
  `Races = {"directory"}`). A header that appears after the compile and hides the
  one that was used is among the names recorded. With `Races = {}` the editor is
  kept out of exactly these two windows: what the run shows holds for all other
  interleavings. An edit between the compile of one unit and the recording of
  another, or under a build whose inputs were already looked at, is in.
* **A phase is carried into the next input** (`cprimegen.c:2820`; the invariant
  `NothingCarried` in `TemplateReplay.cfg`). The comment there says "No
  instantiation phase carries into its next input", but a hard error in a quiet
  drain leaves by longjmp with `suppress_template_member_flush` raised
  (`cprimegen_templates.inc:18724`), and `cprimegen_init` does not reset it.
  By reading: the same holds for
  `draining_template_member_body_requests`, `materialize_incomplete_template_depth` and
  `compiling_non_lifecycle_template_member_body`.
* **A recovered error inside a demanded body leaves the drain's count up** until
  the input ends: `compiling_pending_template_specs` is raised by the last drain
  and its frame abandoned. `CallerRestored` therefore excepts the final phase.
* **A worker at its session limit leaves a half-rebased tree** (`worker.cmd:220`;
  `NeverHalfRebased` in `WorkerSync.cfg`): unlike the stop marker, the limit does
  not look for an unfinished rebase.
* **The note on pulled work replaces the request to settle a conflict**
  (`MergeIsPrompted`, with a second piece of work of clone `b` that clashes too:
  `Work = {a1, b1, b2}`, `Clash` both pairs with `a1`): after a sync that both pulled
  and stopped, the agent is asked for the wrong thing.
* **A failed tree is published after a kill** (`worker.cmd:323`; `FailedStaysLocal`
  without its `lost[c]`). The probe's result is in `LAST_CHECK_OK` before it is in
  `gate-state.txt`. A worker killed between the two, or while the redirection has
  emptied the file, leaves the old result or none; the next worker starts from
  that, or from the default 1 of line 155, and publishes.
* **What is published need not be what was probed** (`worker.cmd:484`;
  `PublishedPassed`): the rebase before the push changes the tree the gate was
  opened for.

Limits seen on the way, by reading: the relocations of a link-once copy that is not
merged are still appended to the relocations of the copy that is kept, and applied
to it once more (`cprimeelf.c:1232`), where the comment at 4015 says that it is not added
again; `scoped_lock` drops mutexes beyond the eighth
(`include/runtime/mutex:156`); two drivers on one output directory do not exclude
each other; a failing allocation of a control block leaks the object
(`include/runtime/memory:263`).

## Not modelled

The language itself (parsing, overload resolution, deduction, constant
evaluation), code generation, section layout, file formats and debug information
relate unbounded input to bytes: there is no protocol in them for a model checker,
and their tests are the repository's thousands of cases. They are most of the
source by lines. Containers and streams are sequential templates. Third-party code
is vendored. Measuring tools and deployment scripts keep no state between steps.
`PROJECT.json` lists each with its reason.

Inside modelled components these are left out: options, search paths and library
loading of a state; the portable payload; the registry that is drained by a
single `atexit` callback (the non-UCRT build) and DLL detach; type matching
and base adjustment of exceptions, failed allocations and the shutdown of the key;
manifest parsing, several projects, unity groups, resources and archives of a
build; two drivers at once; visibility, absolute symbols, `.set`, the merging of COFF
COMDAT sections and the dynamic tables of ELF outputs; what the templates substitute; the three prompts of the workers and the
watchdog around an agent.

## Plan

Done, in this order: `SemLock`, `CompileSession`, `StaticInit`, `SharedMutex`,
`SharedPtr`, `ExceptionRuntime`, `BuildCache`, `WorkerSync`, `TemplateReplay`,
`SymbolBinding`, `SymbolTable`, `ArchiveLink`.

Next modules, the most important first:

1. `PreparedPayload`: seal and check of a digest, against the race seen in
   `BuildCache`; `TestRunner`: groups, retries, a pool with deadlines.
2. `Preprocessor`: include, conditional and macro stacks, with the once-cache
   and the guards of headers, composed with the unwinding in `CompileSession`.
3. `FutureState`, `ScopedLock` over `Mutex`.

Next proofs: those of these modules; the variants behind `LinkEnds` and `BuildEnds`
(members not loaded, work still to do) as step properties.
