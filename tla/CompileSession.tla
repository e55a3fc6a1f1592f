--------------------------- MODULE CompileSession ---------------------------
(***************************************************************************)
(* The embedding library: host threads that create, compile, relocate, run *)
(* and delete CPRIMEStates (libcprime.c, cprimerun.c).                     *)
(*                                                                         *)
(* The parser and the code generator keep their state in globals shared by *)
(* every CPRIMEState.  cprime_compile owns them between cprime_enter_state *)
(* and cprime_exit_state, and leaves through setjmp/longjmp on a hard      *)
(* error.  The two locks are the CPRIMESems of SemLock, already            *)
(* initialised.  A handle is used by one thread at a time, as the API      *)
(* requires; it may pass from thread to thread between two calls.          *)
(***************************************************************************)
EXTENDS Naturals, Sequences, FiniteSets

CONSTANTS
    Threads, NoThread,
    States, NoState,
    Races,          \* of "expression", "stale": what is let happen though it goes wrong
    Levels,         \* stack levels that rt_find_state walks (8)
    MaxFrames,      \* bound: activations on a program's stack
    MaxFiles,       \* bound: buffered files open at once
    MaxMacros,      \* bound: token-replay frames open at once
    MaxStack        \* bound: buffers registered with stk_push at once

ASSUME ConstantsAssumption ==
    /\ NoThread \notin Threads
    /\ NoState \notin States
    /\ MaxFiles \in Nat /\ MaxMacros \in Nat /\ MaxStack \in Nat
    /\ MaxFrames \in Nat /\ Levels \in Nat
    /\ MaxFiles >= 2
    /\ Levels >= 1

VARIABLES
    compile_sem,            \* holder of cprime_compile_sem
    cprime_state,           \* the global that names the state being compiled
    file,                   \* the stack of open buffered files: who opened each
    macro_stack,            \* replay frames: depth of file when each began
    pp_expr,                \* depth of the frame of the #if being evaluated, or 0
    nb_stk_data,            \* buffers error1 must free
    error_set_jmp_enabled,  \* per state: error1 may longjmp
    nb_errors,              \* per state: has any error been counted
    live,                   \* per state: between cprime_new and cprime_delete
    run_ptr,                \* per state: has executable memory
    run_lj,                 \* per state: cprime_run has filled its jump buffer
    g_s1,                   \* the states linked into the run-time list
    rt_sem,                 \* holder of rt_sem
    pc,                     \* per thread: where it is
    doing,                  \* per thread: the call it is in
    cur,                    \* per thread: the handle it uses
    s1,                     \* per thread: what error1 / rt_find_state found
    rest,                   \* per thread: s1->next read by st_link
    frames                  \* per thread: whose code its stack is in, innermost first

globals == <<cprime_state, file, macro_stack, pp_expr, nb_stk_data>>
handles == <<error_set_jmp_enabled, nb_errors, live, run_ptr, run_lj>>
image   == <<g_s1, rt_sem, rest, frames>>
vars == <<compile_sem, globals, handles, image, pc, doing, cur, s1>>

Calls == {"none", "compile", "error", "relocate", "run", "call", "delete"}

Init ==
    /\ compile_sem = NoThread /\ rt_sem = NoThread
    /\ cprime_state = NoState
    /\ file = <<>> /\ macro_stack = <<>> /\ pp_expr = 0 /\ nb_stk_data = 0
    /\ error_set_jmp_enabled = [s \in States |-> FALSE]
    /\ nb_errors = [s \in States |-> FALSE]
    /\ live = [s \in States |-> FALSE]
    /\ run_ptr = [s \in States |-> FALSE]
    /\ run_lj = [s \in States |-> FALSE]
    /\ g_s1 = {}
    /\ frames = [t \in Threads |-> <<>>]
    /\ pc = [t \in Threads |-> "idle"]
    /\ doing = [t \in Threads |-> "none"]
    /\ cur = [t \in Threads |-> NoState]
    /\ s1 = [t \in Threads |-> NoState]
    /\ rest = [t \in Threads |-> {}]

At(t, from, to) == pc[t] = from /\ pc' = [pc EXCEPT ![t] = to]

OnStack(t, s) == \E i \in DOMAIN frames[t] : frames[t][i] = s

Free(s) == \A t \in Threads : cur[t] # s /\ ~OnStack(t, s)

(* A host thread makes an API call on a handle nobody else is using. *)
Call(t, s, call, first) ==
    /\ At(t, "idle", first)
    /\ Free(s)
    /\ doing' = [doing EXCEPT ![t] = call]
    /\ cur' = [cur EXCEPT ![t] = s]
    /\ UNCHANGED s1

Returned(t) ==
    /\ pc' = [pc EXCEPT ![t] = "idle"]
    /\ doing' = [doing EXCEPT ![t] = "none"]
    /\ cur' = [cur EXCEPT ![t] = NoState]
    /\ s1' = [s1 EXCEPT ![t] = NoState]

-----------------------------------------------------------------------------
(* cprime_new *)
New(t, s) ==
    /\ pc[t] = "idle"
    /\ ~live[s]
    /\ live' = [live EXCEPT ![s] = TRUE]
    /\ nb_errors' = [nb_errors EXCEPT ![s] = FALSE]
    /\ error_set_jmp_enabled' = [error_set_jmp_enabled EXCEPT ![s] = FALSE]
    /\ run_ptr' = [run_ptr EXCEPT ![s] = FALSE]
    /\ run_lj' = [run_lj EXCEPT ![s] = FALSE]
    /\ UNCHANGED <<compile_sem, globals, image, pc, doing, cur, s1>>

(* cprime_compile, from cprime_compile_string or cprime_add_file *)
Compile(t, s) ==
    /\ live[s]
    /\ Call(t, s, "compile", "enter")
    /\ UNCHANGED <<compile_sem, globals, handles, image>>

(* Another call of the API reports an error on s: cprime_error_noabort. *)
Complain(t, s) ==
    /\ live[s]
    /\ Call(t, s, "error", "enter")
    /\ UNCHANGED <<compile_sem, globals, handles, image>>

(* cprime_enter_state: wait, then publish the state.  It does neither for  *)
(* a state whose jump buffer is armed: that one is being compiled.         *)
Entered(t) == IF doing[t] = "compile" THEN "start" ELSE "diagnose"

(* Faulty variant: the state is published without waiting. *)
EnterWithoutWaiting(t) ==
    /\ At(t, "enter", "entered")
    /\ compile_sem' = t
    /\ UNCHANGED <<globals, handles, image, doing, cur, s1>>

EnterWait(t) ==
    /\ pc[t] = "enter"
    /\ IF error_set_jmp_enabled[cur[t]]
         THEN /\ pc' = [pc EXCEPT ![t] = Entered(t)]
              /\ UNCHANGED compile_sem
         ELSE /\ compile_sem = NoThread
              /\ compile_sem' = t
              /\ pc' = [pc EXCEPT ![t] = "entered"]
    /\ UNCHANGED <<globals, handles, image, doing, cur, s1>>

EnterSet(t) ==
    /\ At(t, "entered", Entered(t))
    /\ cprime_state' = cur[t]
    /\ UNCHANGED <<compile_sem, file, macro_stack, pp_expr, nb_stk_data, handles, image,
                   doing, cur, s1>>

(* cprime_exit_state: forget the state, then post; nothing for a state     *)
(* whose jump buffer is armed.  error1 passes the state it read.           *)
Subject(t) == IF doing[t] = "compile" THEN cur[t] ELSE s1[t]

(* Faulty variant: the global is cleared only after the lock was posted. *)
ExitPostsFirst(t) ==
    /\ pc[t] = "exit"
    /\ pc' = [pc EXCEPT ![t] = "post"]
    /\ compile_sem' = NoThread
    /\ UNCHANGED <<globals, handles, image, doing, cur, s1>>

ExitClear(t) ==
    /\ pc[t] = "exit"
    /\ IF error_set_jmp_enabled[Subject(t)]
         THEN /\ pc' = [pc EXCEPT ![t] = "leave"]
              /\ UNCHANGED cprime_state
         ELSE /\ pc' = [pc EXCEPT ![t] = "post"]
              /\ cprime_state' = NoState
    /\ UNCHANGED <<compile_sem, file, macro_stack, pp_expr, nb_stk_data, handles, image,
                   doing, cur, s1>>

ExitPost(t) ==
    /\ At(t, "post", "leave")
    /\ compile_sem' = NoThread
    /\ UNCHANGED <<globals, handles, image, doing, cur, s1>>

(* cprime_compile returns. *)
Leave(t) ==
    /\ pc[t] = "leave" /\ doing[t] = "compile"
    /\ Returned(t)
    /\ UNCHANGED <<compile_sem, globals, handles, image>>

(* error1, which has left the lock, looks at pp_expr; for a thread that is *)
(* evaluating a #if it goes through pp_error, which takes macro_ptr and    *)
(* reads tokens to the end of the expression.                              *)
Describe(t) ==
    /\ pc[t] = "leave" /\ doing[t] # "compile"
    /\ pp_expr > 0 => "expression" \in Races
    /\ pc' = [pc EXCEPT ![t] = IF pp_expr > 0 THEN "pp_error" ELSE "report"]
    /\ UNCHANGED <<compile_sem, globals, handles, image, doing, cur, s1>>

(* error1 calls back and counts the error; the call returns. *)
Report(t) ==
    /\ pc[t] \in {"report", "pp_error"}
    /\ nb_errors' = [nb_errors EXCEPT ![s1[t]] = TRUE]
    /\ Returned(t)
    /\ UNCHANGED <<compile_sem, globals, error_set_jmp_enabled, live, run_ptr, run_lj,
                   image>>

-----------------------------------------------------------------------------
(* cprime_compile: arm the jump buffer, open the input, preprocess_start   *)
(* (which pushes the pseudo-file of the command line, except for plain     *)
(* assembly), cprimegen_init.                                              *)
StartCompile(t) ==
    /\ At(t, "start", "parse")
    /\ error_set_jmp_enabled' = [error_set_jmp_enabled EXCEPT ![cur[t]] = TRUE]
    /\ file' \in {Append(file, cur[t]), file \o <<cur[t], cur[t]>>}
    /\ pp_expr' = 0
    /\ UNCHANGED <<compile_sem, cprime_state, macro_stack, nb_stk_data,
                   nb_errors, live, run_ptr, run_lj, image, doing, cur, s1>>

Parsing(t) == pc[t] = "parse"

(* cprime_open_bf for #include, a token paste, inline assembly or the      *)
(* bodies of inline functions                                              *)
OpenFile(t) ==
    /\ Parsing(t)
    /\ Len(file) < MaxFiles
    /\ file' = Append(file, cprime_state)
    /\ UNCHANGED <<compile_sem, cprime_state, macro_stack, pp_expr, nb_stk_data,
                   handles, image, pc, doing, cur, s1>>

(* cprime_close at the end of a nested file, once its replays are over *)
CloseFile(t) ==
    /\ Parsing(t)
    /\ Len(file) > 1
    /\ \A i \in 1..Len(macro_stack) : macro_stack[i] < Len(file)
    /\ file' = SubSeq(file, 1, Len(file) - 1)
    /\ UNCHANGED <<compile_sem, cprime_state, macro_stack, pp_expr, nb_stk_data,
                   handles, image, pc, doing, cur, s1>>

BeginMacro(t) ==
    /\ Parsing(t)
    /\ Len(macro_stack) < MaxMacros
    /\ macro_stack' = Append(macro_stack, Len(file))
    /\ UNCHANGED <<compile_sem, cprime_state, file, pp_expr, nb_stk_data, handles,
                   image, pc, doing, cur, s1>>

EndMacro(t) ==
    /\ Parsing(t)
    /\ Len(macro_stack) > pp_expr
    /\ macro_stack[Len(macro_stack)] = Len(file)
    /\ macro_stack' = SubSeq(macro_stack, 1, Len(macro_stack) - 1)
    /\ UNCHANGED <<compile_sem, cprime_state, file, pp_expr, nb_stk_data, handles,
                   image, pc, doing, cur, s1>>

(* expr_preprocess: the tokens of a #if are replayed by begin_macro, with  *)
(* pp_expr naming the directive for error1 until the value is known.       *)
BeginExpression(t) ==
    /\ Parsing(t)
    /\ pp_expr = 0
    /\ Len(macro_stack) < MaxMacros
    /\ macro_stack' = Append(macro_stack, Len(file))
    /\ pp_expr' = Len(macro_stack')
    /\ UNCHANGED <<compile_sem, cprime_state, file, nb_stk_data, handles, image,
                   pc, doing, cur, s1>>

EndExpression(t) ==
    /\ Parsing(t)
    /\ pp_expr # 0 /\ pp_expr = Len(macro_stack)
    /\ macro_stack[Len(macro_stack)] = Len(file)
    /\ macro_stack' = SubSeq(macro_stack, 1, Len(macro_stack) - 1)
    /\ pp_expr' = 0
    /\ UNCHANGED <<compile_sem, cprime_state, file, nb_stk_data, handles, image,
                   pc, doing, cur, s1>>

(* stk_push and stk_pop *)
StackBuffer(t) ==
    /\ Parsing(t)
    /\ \/ nb_stk_data < MaxStack /\ nb_stk_data' = nb_stk_data + 1
       \/ nb_stk_data > 0 /\ nb_stk_data' = nb_stk_data - 1
    /\ UNCHANGED <<compile_sem, cprime_state, file, macro_stack, pp_expr, handles,
                   image, pc, doing, cur, s1>>

(* error1(ERROR_NOABORT) while compiling: cprime_exit_state does nothing,  *)
(* the error is counted and parsing goes on.                               *)
SoftError(t) ==
    /\ Parsing(t)
    /\ nb_errors' = [nb_errors EXCEPT ![cprime_state] = TRUE]
    /\ UNCHANGED <<compile_sem, globals, error_set_jmp_enabled, live, run_ptr, run_lj,
                   image, pc, doing, cur, s1>>

(* Faulty variant: error1 leaves the replay frames to preprocess_end. *)
HardErrorKeepsFrames(t) ==
    /\ At(t, "parse", "finish")
    /\ nb_errors' = [nb_errors EXCEPT ![cprime_state] = TRUE]
    /\ nb_stk_data' = 0
    /\ UNCHANGED <<compile_sem, cprime_state, file, macro_stack, pp_expr,
                   error_set_jmp_enabled, live, run_ptr, run_lj, image, doing, cur, s1>>

(* error1(ERROR_ERROR) while compiling: free the registered buffers, pop   *)
(* the replay frames whose owners the jump abandons, longjmp.              *)
HardError(t) ==
    /\ At(t, "parse", "finish")
    /\ nb_errors' = [nb_errors EXCEPT ![cprime_state] = TRUE]
    /\ nb_stk_data' = 0
    /\ macro_stack' = <<>>
    /\ UNCHANGED <<compile_sem, cprime_state, file, pp_expr, error_set_jmp_enabled,
                   live, run_ptr, run_lj, image, doing, cur, s1>>

(* The parser returns at the end of the outermost file. *)
EndOfInput(t) ==
    /\ At(t, "parse", "finish")
    /\ Len(file) = 1
    /\ macro_stack = <<>>
    /\ nb_stk_data = 0
    /\ UNCHANGED <<compile_sem, globals, handles, image, doing, cur, s1>>

(* Faulty variant: preprocess_end closes the innermost file only. *)
FinishClosesOne(t) ==
    /\ At(t, "finish", "unflag")
    /\ nb_stk_data' = 0
    /\ macro_stack' = <<>>
    /\ pp_expr' = 0
    /\ file' = SubSeq(file, 1, Len(file) - 1)
    /\ UNCHANGED <<compile_sem, cprime_state, handles, image, doing, cur, s1>>

(* cprimegen_finish and preprocess_end, on both ways out *)
Finish(t) ==
    /\ At(t, "finish", "unflag")
    /\ nb_stk_data' = 0
    /\ macro_stack' = <<>>
    /\ pp_expr' = 0
    /\ file' = <<>>
    /\ UNCHANGED <<compile_sem, cprime_state, handles, image, doing, cur, s1>>

(* Faulty variant: the jump buffer stays armed after cprime_compile. *)
UnflagForgotten(t) ==
    /\ At(t, "unflag", "exit")
    /\ UNCHANGED <<compile_sem, globals, handles, image, doing, cur, s1>>

Unflag(t) ==
    /\ At(t, "unflag", "exit")
    /\ error_set_jmp_enabled' = [error_set_jmp_enabled EXCEPT ![cur[t]] = FALSE]
    /\ UNCHANGED <<compile_sem, globals, nb_errors, live, run_ptr, run_lj, image,
                   doing, cur, s1>>

-----------------------------------------------------------------------------
(* error1 outside a compilation reads the state it reports on from the     *)
(* global while it holds the lock.                                         *)
Diagnose(t) ==
    /\ At(t, "diagnose", "exit")
    /\ s1' = [s1 EXCEPT ![t] = cprime_state]
    /\ UNCHANGED <<compile_sem, globals, handles, image, doing, cur>>

-----------------------------------------------------------------------------
(* cprime_relocate, alone or from cprime_run: exits the process on a second *)
(* call, so s has no image.                                                *)
Relocate(t, s) ==
    /\ live[s] /\ ~run_ptr[s]
    /\ \E call \in {"relocate", "run"} : Call(t, s, call, "size")
    /\ UNCHANGED <<compile_sem, globals, handles, image>>

(* A pass of cprime_relocate_ex fails, or cprime_run finds no main: it     *)
(* reports and returns -1.                                                 *)
RelocateFails(t) ==
    /\ pc[t] \in {"size", "place", "linked"}
    /\ pc' = [pc EXCEPT ![t] = "enter"]
    /\ UNCHANGED <<compile_sem, globals, handles, image, doing, cur, s1>>

(* rt_mem, then the second pass copies the code *)
RelocateMem(t) ==
    /\ At(t, "size", "place")
    /\ run_ptr' = [run_ptr EXCEPT ![cur[t]] = TRUE]
    /\ UNCHANGED <<compile_sem, globals, error_set_jmp_enabled, nb_errors, live, run_lj,
                   image, doing, cur, s1>>

RelocatePlace(t) ==
    /\ At(t, "place", "link")
    /\ UNCHANGED <<compile_sem, globals, handles, image, doing, cur, s1>>

(* st_link: the list is a set, its order tells nothing apart.  The head is *)
(* read, then written.                                                     *)
LinkRead(t) ==
    /\ At(t, "link", "linking")
    /\ rt_sem = NoThread
    /\ rt_sem' = t
    /\ rest' = [rest EXCEPT ![t] = g_s1]
    /\ UNCHANGED <<compile_sem, globals, handles, g_s1, frames, doing, cur, s1>>

LinkWrite(t) ==
    /\ pc[t] = "linking"
    /\ g_s1' = rest[t] \cup {cur[t]}
    /\ rest' = [rest EXCEPT ![t] = {}]
    /\ rt_sem' = NoThread
    /\ IF doing[t] = "run"
         THEN pc' = [pc EXCEPT ![t] = "linked"] /\ UNCHANGED <<doing, cur, s1>>
         ELSE Returned(t)
    /\ UNCHANGED <<compile_sem, globals, handles, frames>>

Linked(s) == s \in g_s1

(* cprime_run after its relocation: cprime_setjmp, then main. *)
Run(t) ==
    /\ At(t, "linked", "image")
    /\ run_lj' = [run_lj EXCEPT ![cur[t]] = TRUE]
    /\ frames' = [frames EXCEPT ![t] = <<cur[t]>>]
    /\ UNCHANGED <<compile_sem, globals, error_set_jmp_enabled, nb_errors, live,
                   run_ptr, g_s1, rt_sem, rest, doing, cur, s1>>

(* run_lj is never cleared: after cprime_run has returned, it leads into a *)
(* frame that is gone.                                                     *)
Callable(s) == Linked(s) /\ (run_lj[s] => "stale" \in Races)

(* The host calls a function of a relocated state by its address. *)
CallFunction(t, s) ==
    /\ live[s] /\ Callable(s)
    /\ Call(t, s, "call", "image")
    /\ frames' = [frames EXCEPT ![t] = <<s>>]
    /\ UNCHANGED <<compile_sem, globals, handles, g_s1, rt_sem, rest>>

(* The program calls its own code, a library or the host (NoState), or, by *)
(* way of the host, the code of another state.                             *)
CodeCalls(t, s) ==
    /\ pc[t] = "image"
    /\ Len(frames[t]) < MaxFrames
    /\ \/ s \in {cur[t], NoState}
       \/ Callable(s) /\ \A u \in Threads : cur[u] # s
    /\ frames' = [frames EXCEPT ![t] = <<s>> \o @]
    /\ UNCHANGED <<compile_sem, globals, handles, g_s1, rt_sem, rest, pc, doing, cur, s1>>

CodeReturns(t) ==
    /\ pc[t] = "image"
    /\ frames' = [frames EXCEPT ![t] = Tail(@)]
    /\ IF Len(frames[t]) > 1 THEN UNCHANGED <<pc, doing, cur, s1>> ELSE Returned(t)
    /\ UNCHANGED <<compile_sem, globals, handles, g_s1, rt_sem, rest>>

(* What rt_exit is given to walk: exit, which every image has a copy of,   *)
(* passes its own address and no frame pointer; the handler of a fault     *)
(* passes the context, of which rt_find_state looks at some levels.        *)
Walks(t) ==
    {SubSeq(frames[t], 1, n) : n \in {m \in 0..Levels : m <= Len(frames[t])
                                     /\ (m = Levels \/ m = Len(frames[t]))}}
    \cup {<<s>> : s \in {frames[t][1]} \ {NoState}}

(* Faulty variant: the shortcut for one linked state taken for any list. *)
RtFindFirst(walk, s) == IF g_s1 = {} THEN s = NoState ELSE Linked(s)

(* rt_find_state(walk) = s: the only linked state; else the first level    *)
(* whose address lies in the image of a linked state; else NULL.           *)
RtFindState(walk, s) ==
    IF \A x, y \in g_s1 : x = y
    THEN IF g_s1 = {} THEN s = NoState ELSE Linked(s)
    ELSE \/ \E i \in DOMAIN walk :
              walk[i] = s /\ Linked(s) /\ \A j \in 1..(i - 1) : ~Linked(walk[j])
         \/ s = NoState /\ \A i \in DOMAIN walk : ~Linked(walk[i])

(* The program calls exit or faults: rt_exit looks its state up. *)
RtExit(t) ==
    /\ At(t, "image", "jump")
    /\ rt_sem = NoThread
    /\ \E walk \in Walks(t), s \in States \cup {NoState} :
          RtFindState(walk, s) /\ s1' = [s1 EXCEPT ![t] = s]
    /\ UNCHANGED <<compile_sem, globals, handles, image, doing, cur>>

Jumps(t) == s1[t] # NoState /\ run_lj[s1[t]]

(* longjmp to the run_jb of the state found: cprime_run returns *)
RtJump(t) ==
    /\ pc[t] = "jump" /\ Jumps(t)
    /\ frames' = [frames EXCEPT ![t] = <<>>]
    /\ Returned(t)
    /\ UNCHANGED <<compile_sem, globals, handles, g_s1, rt_sem, rest>>

(* exit of the C library: the host process ends, and with it all there is; *)
(* what follows is another process.                                        *)
RtEndsHost(t) ==
    /\ pc[t] = "jump" /\ ~Jumps(t)
    /\ compile_sem' = NoThread /\ rt_sem' = NoThread
    /\ cprime_state' = NoState
    /\ file' = <<>> /\ macro_stack' = <<>> /\ pp_expr' = 0 /\ nb_stk_data' = 0
    /\ error_set_jmp_enabled' = [s \in States |-> FALSE]
    /\ nb_errors' = [s \in States |-> FALSE]
    /\ live' = [s \in States |-> FALSE]
    /\ run_ptr' = [s \in States |-> FALSE]
    /\ run_lj' = [s \in States |-> FALSE]
    /\ g_s1' = {}
    /\ frames' = [u \in Threads |-> <<>>]
    /\ pc' = [u \in Threads |-> "idle"]
    /\ doing' = [u \in Threads |-> "none"]
    /\ cur' = [u \in Threads |-> NoState]
    /\ s1' = [u \in Threads |-> NoState]
    /\ rest' = [u \in Threads |-> {}]

-----------------------------------------------------------------------------
(* cprime_delete *)
Delete(t, s) ==
    /\ live[s]
    /\ Call(t, s, "delete", IF run_ptr[s] THEN "unlink" ELSE "free")
    /\ UNCHANGED <<compile_sem, globals, handles, image>>

(* Faulty variant: st_unlink without rt_wait_sem. *)
UnlinkUnlocked(t) ==
    /\ At(t, "unlink", "free")
    /\ g_s1' = g_s1 \ {cur[t]}
    /\ UNCHANGED <<compile_sem, globals, handles, rt_sem, rest, frames, doing, cur, s1>>

(* st_unlink; a state whose relocation failed is not in the list *)
Unlink(t) ==
    /\ At(t, "unlink", "free")
    /\ rt_sem = NoThread
    /\ g_s1' = g_s1 \ {cur[t]}
    /\ UNCHANGED <<compile_sem, globals, handles, rt_sem, rest, frames, doing, cur, s1>>

FreeState(t) ==
    /\ pc[t] = "free"
    /\ live' = [live EXCEPT ![cur[t]] = FALSE]
    /\ run_ptr' = [run_ptr EXCEPT ![cur[t]] = FALSE]
    /\ Returned(t)
    /\ UNCHANGED <<compile_sem, globals, error_set_jmp_enabled, nb_errors, run_lj, image>>

Next ==
    \E t \in Threads :
        \/ \E s \in States :
              \/ New(t, s) \/ Compile(t, s) \/ Complain(t, s)
              \/ Relocate(t, s) \/ CallFunction(t, s) \/ Delete(t, s)
        \/ EnterWait(t) \/ EnterSet(t) \/ ExitClear(t) \/ ExitPost(t)
        \/ StartCompile(t) \/ OpenFile(t) \/ CloseFile(t)
        \/ BeginMacro(t) \/ EndMacro(t) \/ StackBuffer(t)
        \/ BeginExpression(t) \/ EndExpression(t)
        \/ SoftError(t) \/ HardError(t) \/ EndOfInput(t)
        \/ Finish(t) \/ Unflag(t)
        \/ Diagnose(t) \/ Describe(t) \/ Report(t) \/ Leave(t)
        \/ RelocateFails(t) \/ RelocateMem(t) \/ RelocatePlace(t)
        \/ LinkRead(t) \/ LinkWrite(t)
        \/ \E s \in States \cup {NoState} : CodeCalls(t, s)
        \/ Run(t) \/ CodeReturns(t) \/ RtExit(t) \/ RtJump(t) \/ RtEndsHost(t)
        \/ Unlink(t) \/ FreeState(t)

Spec == Init /\ [][Next]_vars

-----------------------------------------------------------------------------
Holding == {"entered", "start", "diagnose", "parse", "finish", "unflag", "exit", "post"}
Compiling == {"parse", "finish", "unflag"}
Places == Holding \cup {"idle", "enter", "leave", "report", "pp_error", "size", "place",
                        "link", "linking", "linked", "image", "jump", "unlink", "free"}

TypeOK ==
    /\ compile_sem \in Threads \cup {NoThread}
    /\ rt_sem \in Threads \cup {NoThread}
    /\ cprime_state \in States \cup {NoState}
    /\ file \in Seq(States)
    /\ macro_stack \in Seq(Nat)
    /\ pp_expr \in Nat
    /\ nb_stk_data \in 0..MaxStack
    /\ error_set_jmp_enabled \in [States -> BOOLEAN]
    /\ nb_errors \in [States -> BOOLEAN]
    /\ live \in [States -> BOOLEAN]
    /\ run_ptr \in [States -> BOOLEAN]
    /\ run_lj \in [States -> BOOLEAN]
    /\ g_s1 \subseteq States
    /\ pc \in [Threads -> Places]
    /\ doing \in [Threads -> Calls]
    /\ cur \in [Threads -> States \cup {NoState}]
    /\ s1 \in [Threads -> States \cup {NoState}]
    /\ rest \in [Threads -> SUBSET States]
    /\ frames \in [Threads -> Seq(States \cup {NoState})]

(* cprime_compile: "Other threads need to wait until we're done."  The     *)
(* globals belong to the one thread inside, and name the state it compiles *)
(* or reports on; a report that goes on after the lock was left does not   *)
(* go through the tokens of whoever compiles then.                         *)
GlobalsOwned ==
    \A t \in Threads :
        /\ pc[t] \in Holding \cup {"pp_error"} => compile_sem = t
        /\ pc[t] \in Holding \ {"entered", "post"} => cprime_state = cur[t]

(* Whatever way a compilation ended, longjmp included, the next one starts *)
(* from clean globals: no open file, replay frame, #if or registered       *)
(* buffer.                                                                 *)
GlobalsClean ==
    (\A t \in Threads : pc[t] \notin {"parse", "finish"}) =>
        /\ file = <<>> /\ macro_stack = <<>> /\ pp_expr = 0 /\ nb_stk_data = 0

(* A jump buffer is armed only while the cprime_compile that filled it is  *)
(* on the stack of the thread using the state: error1 never jumps into a   *)
(* dead frame.                                                             *)
JumpBufferLive ==
    \A s \in States : error_set_jmp_enabled[s] <=>
        \E t \in Threads : cur[t] = s /\ pc[t] \in Compiling

(* end_macro writes to file->line_num: no replay frame outlives the file   *)
(* it began in, and after an error none is left to preprocess_end; the     *)
(* expression that pp_error would show is still on the stack.              *)
FramesInsideFiles ==
    /\ \A i \in 1..Len(macro_stack) : macro_stack[i] \in 1..Len(file)
    /\ (\E t \in Threads : pc[t] = "parse") => pp_expr <= Len(macro_stack)
    /\ (\E t \in Threads : pc[t] = "finish") => macro_stack = <<>>

(* error1 charges an error to the state the failing call was made on, also *)
(* when it does so after leaving the lock.                                 *)
ErrorChargedToCaller ==
    \A t \in Threads :
        /\ pc[t] \in {"exit", "post", "leave", "report", "pp_error"} => Subject(t) = cur[t]
        /\ pc[t] = "parse" => cprime_state = cur[t]

(* The run-time list holds only relocated states that are not yet freed,   *)
(* and every state whose code is on a stack: a dangling state in it would  *)
(* be dereferenced by rt_find_state, a missing one would make exit end the *)
(* host process.                                                           *)
RuntimeList ==
    /\ \A s \in g_s1 : live[s] /\ run_ptr[s]
    /\ \A t \in Threads, s \in States : OnStack(t, s) => s \in g_s1

(* No other state's code is on the stack above the program's own, which is *)
(* among the levels that are walked.                                       *)
AtHome(t) ==
    \E i \in DOMAIN frames[t] :
        /\ i <= Levels /\ frames[t][i] = cur[t]
        /\ \A j \in 1..(i - 1) : frames[t][j] = NoState

(* exit() or a fault in a program run by cprime_run returns from the       *)
(* cprime_run that started it; whatever is called by whatever and however  *)
(* the list changes meanwhile, rt_exit jumps to no other buffer.           *)
ExitReturnsHome ==
    \A t \in Threads : pc[t] = "jump" =>
        /\ Jumps(t) => doing[t] = "run" /\ s1[t] = cur[t]
        /\ doing[t] = "run" /\ AtHome(t) => Jumps(t)

=============================================================================
