--------------------------- MODULE CompilerProofs ---------------------------
(***************************************************************************)
(* The compiler as a library, in three parts: a session with its semaphore *)
(* for any number of host threads, handles and nested files; the symbol    *)
(* table that compiled files and merged objects fill, for any names and    *)
(* hashes; and what a link takes from archives, for any inputs.            *)
(***************************************************************************)
EXTENDS CompileSession, SemLock, SymbolTable, ArchiveLink,
        FiniteSetTheorems, WellFoundedInduction, TLAPS

-----------------------------------------------------------------------------
(* The session. *)

(* Which call a thread is in, by where it is; a thread inside a call holds *)
(* a live handle that no other thread uses.                                *)
CompilePlaces == {"start", "parse", "finish", "unflag"}
EitherPlaces == {"enter", "entered", "exit", "post", "leave"}

HandlesOwned ==
    /\ \A t \in Threads : (pc[t] = "idle") <=> (cur[t] = NoState)
    /\ \A t \in Threads : cur[t] # NoState => live[cur[t]]
    /\ \A t, u \in Threads : t # u /\ cur[t] # NoState => cur[t] # cur[u]
    /\ \A t \in Threads :
          /\ pc[t] \in CompilePlaces => doing[t] = "compile"
          /\ pc[t] \notin CompilePlaces \cup EitherPlaces => doing[t] # "compile"
          /\ pc[t] \in {"exit", "post", "leave", "report", "pp_error"}
                /\ doing[t] # "compile" => s1[t] = cur[t]

(* The holders of the two locks, and the frozen head of the list. *)
LocksHeld ==
    /\ \A t \in Threads : (pc[t] \in Holding) <=> (compile_sem = t)
    /\ \A t \in Threads : (pc[t] = "linking") <=> (rt_sem = t)
    /\ \A t \in Threads : pc[t] = "linking" => rest[t] = g_s1

(* run_ptr is set before a state is linked; a state that is being relocated *)
(* is not in the list yet, and one about to be freed no longer.            *)
Unlinked == {"size", "place", "link", "linking", "free"}
ImagesPlaced ==
    /\ \A t \in Threads : pc[t] \in {"place", "link", "linking"} => run_ptr[cur[t]]
    /\ \A t \in Threads : pc[t] \in Unlinked => cur[t] \notin g_s1

(* The list holds no freed state and every running one. *)
ListSound ==
    /\ \A s \in g_s1 : live[s] /\ run_ptr[s]
    /\ \A t \in Threads : pc[t] \in {"linked", "image", "jump"} => cur[t] \in g_s1

(* GlobalsOwned but for the report of an error, which needs no lock where  *)
(* it is let go through another thread's expression.                       *)
GlobalsHeld ==
    \A t \in Threads :
        /\ pc[t] \in Holding => compile_sem = t
        /\ pc[t] \in Holding \ {"entered", "post"} => cprime_state = cur[t]
        /\ pc[t] = "pp_error" => "expression" \in Races

(* The parser has an input file: a replay frame begins inside one. *)
InputOpen == \A t \in Threads : pc[t] = "parse" => Len(file) >= 1

(* A thread has a stack of code while it runs an image, and only then. *)
FramesOpen ==
    \A t \in Threads : pc[t] \in {"image", "jump"} <=> frames[t] # <<>>

IInv ==
    /\ TypeOK
    /\ HandlesOwned
    /\ LocksHeld
    /\ ImagesPlaced
    /\ GlobalsHeld
    /\ GlobalsClean
    /\ JumpBufferLive
    /\ InputOpen
    /\ FramesInsideFiles
    /\ ListSound
    /\ FramesOpen

-----------------------------------------------------------------------------
(* Before the first call nothing is held, open or linked. *)
LEMMA InitIInv == Init => IInv
BY ConstantsAssumption
   DEF Init, IInv, TypeOK, HandlesOwned, LocksHeld, ImagesPlaced, GlobalsHeld,
       GlobalsClean, JumpBufferLive, InputOpen, FramesInsideFiles,
       ListSound, FramesOpen, Unlinked, Places, Holding, Compiling, CompilePlaces, EitherPlaces, Calls

(* What a return leaves of a stack. *)
LEMMA TailOfMore ==
    ASSUME NEW S, NEW f \in Seq(S), Len(f) > 1
    PROVE  /\ Tail(f) # <<>>
           /\ Tail(f) \in Seq(S)
           /\ Len(Tail(f)) = Len(f) - 1
           /\ \A i \in 1..(Len(f) - 1) : Tail(f)[i] = f[i + 1]
<1>1. Tail(f) \in Seq(S) /\ Len(Tail(f)) = Len(f) - 1
  OBVIOUS
<1>2. Tail(f) # <<>>
  <2>1. ASSUME NEW g \in Seq(S), Len(g) # 0
        PROVE  g # <<>>
    BY <2>1
  <2>2. Len(f) \in Nat /\ Len(f) - 1 # 0
    OBVIOUS
  <2>3. QED
    BY <1>1, <2>1, <2>2
<1>3. ASSUME NEW i \in 1..(Len(f) - 1)
      PROVE  Tail(f)[i] = f[i + 1]
  OBVIOUS
<1>4. QED
  BY <1>1, <1>2, <1>3

LEMMA TailOfOne ==
    ASSUME NEW S, NEW f \in Seq(S), f # <<>>, ~(Len(f) > 1)
    PROVE  Tail(f) = <<>>
OBVIOUS

(* The thread that compiles s, and a step that changes none of them. *)
OfCompiler(t, s) == cur[t] = s /\ pc[t] \in Compiling
SameCompilers == \A t \in Threads, s \in States : OfCompiler(t, s)' <=> OfCompiler(t, s)

LEMMA JumpsKept ==
    ASSUME JumpBufferLive, SameCompilers, UNCHANGED error_set_jmp_enabled
    PROVE  JumpBufferLive'
<1>1. ASSUME NEW s \in States
      PROVE  (\E t \in Threads : OfCompiler(t, s)') <=> (\E t \in Threads : OfCompiler(t, s))
  BY DEF SameCompilers
<1>2. QED
  BY <1>1 DEF JumpBufferLive, OfCompiler


(* A call begins on a live handle that no other thread uses; nothing else   *)
(* that the invariant speaks of changes.                                   *)
LEMMA CallsKeepIInv ==
    ASSUME IInv, NEW t \in Threads, NEW s \in States,
           New(t, s)
           \/ Compile(t, s)
           \/ Complain(t, s)
           \/ Relocate(t, s)
           \/ CallFunction(t, s)
           \/ Delete(t, s)
    PROVE  IInv'
<1>1. CASE New(t, s)
  <2>1. TypeOK'
    BY <1>1, ConstantsAssumption DEF IInv, New, TypeOK, Places, Holding, Calls,
       globals, handles, image
  <2>2. HandlesOwned'
    BY <1>1, ConstantsAssumption DEF IInv, New, HandlesOwned, TypeOK, GlobalsHeld,
       Holding, CompilePlaces, EitherPlaces, globals, handles, image
  <2>3. LocksHeld'
    BY <1>1, ConstantsAssumption DEF IInv, New, LocksHeld, TypeOK, HandlesOwned,
       Holding, globals, handles, image
  <2>4. ImagesPlaced' /\ ListSound'
    BY <1>1, ConstantsAssumption DEF IInv, New, ImagesPlaced, ListSound, TypeOK,
       HandlesOwned, LocksHeld, Unlinked, globals, handles, image
  <2>5. GlobalsHeld' /\ GlobalsClean'
    BY <1>1, ConstantsAssumption DEF IInv, New, GlobalsHeld, GlobalsClean, TypeOK,
       LocksHeld, HandlesOwned, Holding, JumpBufferLive, globals, handles, image
  <2>6. JumpBufferLive'
    BY <1>1, ConstantsAssumption DEF IInv, New, JumpBufferLive, TypeOK, Compiling,
       HandlesOwned, globals, handles, image
  <2>7. FramesOpen'
    BY <1>1, ConstantsAssumption DEF IInv, New, FramesOpen, TypeOK, globals, handles,
       image
  <2>8. InputOpen' /\ FramesInsideFiles'
    BY <1>1, ConstantsAssumption DEF IInv, New, InputOpen, FramesInsideFiles, TypeOK,
       LocksHeld, GlobalsClean, Holding, HandlesOwned, globals, handles, image
  <2>9. QED
    BY <2>1, <2>2, <2>3, <2>4, <2>5, <2>6, <2>7, <2>8 DEF IInv
<1>2. CASE Compile(t, s)
  <2>1. TypeOK'
    BY <1>2, ConstantsAssumption DEF IInv, Compile, Call, Free, At, TypeOK, Places,
       Holding, Calls, globals, handles, image
  <2>2. HandlesOwned'
    BY <1>2, ConstantsAssumption DEF IInv, Compile, Call, Free, At, HandlesOwned,
       TypeOK, GlobalsHeld, Holding, CompilePlaces, EitherPlaces, globals, handles,
       image
  <2>3. LocksHeld'
    BY <1>2, ConstantsAssumption DEF IInv, Compile, Call, Free, At, LocksHeld,
       TypeOK, HandlesOwned, Holding, globals, handles, image
  <2>4. ImagesPlaced' /\ ListSound'
    BY <1>2, ConstantsAssumption DEF IInv, Compile, Call, Free, At, ImagesPlaced,
       ListSound, TypeOK, HandlesOwned, LocksHeld, Unlinked, globals, handles, image
  <2>5. GlobalsHeld' /\ GlobalsClean'
    BY <1>2, ConstantsAssumption DEF IInv, Compile, Call, Free, At, GlobalsHeld,
       GlobalsClean, TypeOK, LocksHeld, HandlesOwned, Holding, JumpBufferLive,
       globals, handles, image
  <2>6. JumpBufferLive'
    <3>1. SameCompilers
      BY <1>2 DEF Compile, Call, Free, At, IInv, TypeOK, globals, handles, image,
         Compiling, SameCompilers, OfCompiler
    <3>2. QED
      BY <1>2, <3>1, JumpsKept DEF IInv, Compile, Call, Free, At, globals,
         handles, image
  <2>7. FramesOpen'
    BY <1>2, ConstantsAssumption DEF IInv, Compile, Call, Free, At, FramesOpen,
       TypeOK, globals, handles, image
  <2>8. InputOpen' /\ FramesInsideFiles'
    BY <1>2, ConstantsAssumption DEF IInv, Compile, Call, Free, At, InputOpen,
       FramesInsideFiles, TypeOK, LocksHeld, GlobalsClean, Holding, HandlesOwned,
       globals, handles, image
  <2>9. QED
    BY <2>1, <2>2, <2>3, <2>4, <2>5, <2>6, <2>7, <2>8 DEF IInv
<1>3. CASE Complain(t, s)
  <2>1. TypeOK'
    BY <1>3, ConstantsAssumption DEF IInv, Complain, Call, Free, At, TypeOK, Places,
       Holding, Calls, globals, handles, image
  <2>2. HandlesOwned'
    BY <1>3, ConstantsAssumption DEF IInv, Complain, Call, Free, At, HandlesOwned,
       TypeOK, GlobalsHeld, Holding, CompilePlaces, EitherPlaces, globals, handles,
       image
  <2>3. LocksHeld'
    BY <1>3, ConstantsAssumption DEF IInv, Complain, Call, Free, At, LocksHeld,
       TypeOK, HandlesOwned, Holding, globals, handles, image
  <2>4. ImagesPlaced' /\ ListSound'
    BY <1>3, ConstantsAssumption DEF IInv, Complain, Call, Free, At, ImagesPlaced,
       ListSound, TypeOK, HandlesOwned, LocksHeld, Unlinked, globals, handles, image
  <2>5. GlobalsHeld' /\ GlobalsClean'
    BY <1>3, ConstantsAssumption DEF IInv, Complain, Call, Free, At, GlobalsHeld,
       GlobalsClean, TypeOK, LocksHeld, HandlesOwned, Holding, JumpBufferLive,
       globals, handles, image
  <2>6. JumpBufferLive'
    <3>1. SameCompilers
      BY <1>3 DEF Complain, Call, Free, At, IInv, TypeOK, globals, handles, image,
         Compiling, SameCompilers, OfCompiler
    <3>2. QED
      BY <1>3, <3>1, JumpsKept DEF IInv, Complain, Call, Free, At, globals,
         handles, image
  <2>7. FramesOpen'
    BY <1>3, ConstantsAssumption DEF IInv, Complain, Call, Free, At, FramesOpen,
       TypeOK, globals, handles, image
  <2>8. InputOpen' /\ FramesInsideFiles'
    BY <1>3, ConstantsAssumption DEF IInv, Complain, Call, Free, At, InputOpen,
       FramesInsideFiles, TypeOK, LocksHeld, GlobalsClean, Holding, HandlesOwned,
       globals, handles, image
  <2>9. QED
    BY <2>1, <2>2, <2>3, <2>4, <2>5, <2>6, <2>7, <2>8 DEF IInv
<1>4. CASE Relocate(t, s)
  <2>1. TypeOK'
    BY <1>4, ConstantsAssumption DEF IInv, Relocate, Call, Free, At, TypeOK, Places,
       Holding, Calls, globals, handles, image
  <2>2. HandlesOwned'
    BY <1>4, ConstantsAssumption DEF IInv, Relocate, Call, Free, At, HandlesOwned,
       TypeOK, GlobalsHeld, Holding, CompilePlaces, EitherPlaces, globals, handles,
       image
  <2>3. LocksHeld'
    BY <1>4, ConstantsAssumption DEF IInv, Relocate, Call, Free, At, LocksHeld,
       TypeOK, HandlesOwned, Holding, globals, handles, image
  <2>4. ImagesPlaced' /\ ListSound'
    BY <1>4, ConstantsAssumption DEF IInv, Relocate, Call, Free, At, ImagesPlaced,
       ListSound, TypeOK, HandlesOwned, LocksHeld, Unlinked, globals, handles, image
  <2>5. GlobalsHeld' /\ GlobalsClean'
    BY <1>4, ConstantsAssumption DEF IInv, Relocate, Call, Free, At, GlobalsHeld,
       GlobalsClean, TypeOK, LocksHeld, HandlesOwned, Holding, JumpBufferLive,
       globals, handles, image
  <2>6. JumpBufferLive'
    <3>1. SameCompilers
      BY <1>4 DEF Relocate, Call, Free, At, IInv, TypeOK, globals, handles, image,
         Compiling, SameCompilers, OfCompiler
    <3>2. QED
      BY <1>4, <3>1, JumpsKept DEF IInv, Relocate, Call, Free, At, globals,
         handles, image
  <2>7. FramesOpen'
    BY <1>4, ConstantsAssumption DEF IInv, Relocate, Call, Free, At, FramesOpen,
       TypeOK, globals, handles, image
  <2>8. InputOpen' /\ FramesInsideFiles'
    BY <1>4, ConstantsAssumption DEF IInv, Relocate, Call, Free, At, InputOpen,
       FramesInsideFiles, TypeOK, LocksHeld, GlobalsClean, Holding, HandlesOwned,
       globals, handles, image
  <2>9. QED
    BY <2>1, <2>2, <2>3, <2>4, <2>5, <2>6, <2>7, <2>8 DEF IInv
<1>5. CASE CallFunction(t, s)
  <2>1. TypeOK'
    BY <1>5, ConstantsAssumption DEF IInv, CallFunction, Call, Free, Callable,
       Linked, At, TypeOK, Places, Holding, Calls, globals, handles, image
  <2>2. HandlesOwned'
    BY <1>5, ConstantsAssumption DEF IInv, CallFunction, Call, Free, Callable,
       Linked, At, HandlesOwned, TypeOK, GlobalsHeld, Holding, CompilePlaces,
       EitherPlaces, globals, handles, image
  <2>3. LocksHeld'
    BY <1>5, ConstantsAssumption DEF IInv, CallFunction, Call, Free, Callable,
       Linked, At, LocksHeld, TypeOK, HandlesOwned, Holding, globals, handles, image
  <2>4. ImagesPlaced' /\ ListSound'
    BY <1>5, ConstantsAssumption DEF IInv, CallFunction, Call, Free, Callable,
       Linked, At, ImagesPlaced, ListSound, TypeOK, HandlesOwned, LocksHeld,
       Unlinked, globals, handles, image
  <2>5. GlobalsHeld' /\ GlobalsClean'
    BY <1>5, ConstantsAssumption DEF IInv, CallFunction, Call, Free, Callable,
       Linked, At, GlobalsHeld, GlobalsClean, TypeOK, LocksHeld, HandlesOwned,
       Holding, JumpBufferLive, globals, handles, image
  <2>6. JumpBufferLive'
    <3>1. SameCompilers
      BY <1>5 DEF CallFunction, Call, Free, Callable, Linked, At, IInv, TypeOK,
         globals, handles, image, Compiling, SameCompilers, OfCompiler
    <3>2. QED
      BY <1>5, <3>1, JumpsKept DEF IInv, CallFunction, Call, Free, Callable, Linked,
         At, globals, handles, image
  <2>7. FramesOpen'
    BY <1>5, ConstantsAssumption DEF IInv, CallFunction, Call, Free, Callable,
       Linked, At, FramesOpen, TypeOK, globals, handles, image
  <2>8. InputOpen' /\ FramesInsideFiles'
    BY <1>5, ConstantsAssumption DEF IInv, CallFunction, Call, Free, Callable,
       Linked, At, InputOpen, FramesInsideFiles, TypeOK, LocksHeld, GlobalsClean,
       Holding, HandlesOwned, globals, handles, image
  <2>9. QED
    BY <2>1, <2>2, <2>3, <2>4, <2>5, <2>6, <2>7, <2>8 DEF IInv
<1>6. CASE Delete(t, s)
  <2>1. TypeOK'
    BY <1>6, ConstantsAssumption DEF IInv, Delete, Call, Free, At, TypeOK, Places,
       Holding, Calls, globals, handles, image
  <2>2. HandlesOwned'
    BY <1>6, ConstantsAssumption DEF IInv, Delete, Call, Free, At, HandlesOwned,
       TypeOK, GlobalsHeld, Holding, CompilePlaces, EitherPlaces, globals, handles,
       image
  <2>3. LocksHeld'
    BY <1>6, ConstantsAssumption DEF IInv, Delete, Call, Free, At, LocksHeld, TypeOK,
       HandlesOwned, Holding, globals, handles, image
  <2>4. ImagesPlaced' /\ ListSound'
    BY <1>6, ConstantsAssumption DEF IInv, Delete, Call, Free, At, ImagesPlaced,
       ListSound, TypeOK, HandlesOwned, LocksHeld, Unlinked, globals, handles, image
  <2>5. GlobalsHeld' /\ GlobalsClean'
    BY <1>6, ConstantsAssumption DEF IInv, Delete, Call, Free, At, GlobalsHeld,
       GlobalsClean, TypeOK, LocksHeld, HandlesOwned, Holding, JumpBufferLive,
       globals, handles, image
  <2>6. JumpBufferLive'
    <3>1. SameCompilers
      BY <1>6 DEF Delete, Call, Free, At, IInv, TypeOK, globals, handles, image,
         Compiling, SameCompilers, OfCompiler
    <3>2. QED
      BY <1>6, <3>1, JumpsKept DEF IInv, Delete, Call, Free, At, globals,
         handles, image
  <2>7. FramesOpen'
    BY <1>6, ConstantsAssumption DEF IInv, Delete, Call, Free, At, FramesOpen,
       TypeOK, globals, handles, image
  <2>8. InputOpen' /\ FramesInsideFiles'
    BY <1>6, ConstantsAssumption DEF IInv, Delete, Call, Free, At, InputOpen,
       FramesInsideFiles, TypeOK, LocksHeld, GlobalsClean, Holding, HandlesOwned,
       globals, handles, image
  <2>9. QED
    BY <2>1, <2>2, <2>3, <2>4, <2>5, <2>6, <2>7, <2>8 DEF IInv
<1>7. QED
  BY <1>1, <1>2, <1>3, <1>4, <1>5, <1>6

(* cprime_enter_state, cprime_exit_state and error1 pass the lock and the   *)
(* global from one thread to the next.                                     *)
LEMMA LockStepsKeepIInv ==
    ASSUME IInv, NEW t \in Threads,
           EnterWait(t)
           \/ EnterSet(t)
           \/ Diagnose(t)
           \/ ExitClear(t)
           \/ ExitPost(t)
           \/ Leave(t)
           \/ Describe(t)
           \/ Report(t)
    PROVE  IInv'
<1>1. CASE EnterWait(t)
  <2>1. CASE error_set_jmp_enabled[cur[t]]
    <3>1. pc[t] = "enter"
      BY <1>1 DEF EnterWait
    <3>2. cur[t] \in States
      BY <3>1, ConstantsAssumption DEF IInv, TypeOK, HandlesOwned, Subject
    <3>3. error_set_jmp_enabled[cur[t]]
      BY <2>1, <3>2
    <3>4. PICK u \in Threads : cur[u] = cur[t] /\ pc[u] \in Compiling
      BY <3>2, <3>3 DEF IInv, JumpBufferLive
    <3>5. u = t
      BY <3>2, <3>4, ConstantsAssumption DEF IInv, HandlesOwned
    <3>6. QED
      BY <3>1, <3>4, <3>5 DEF Compiling
  <2>2. CASE ~(error_set_jmp_enabled[cur[t]])
    <3>1. TypeOK'
      BY <1>1, <2>2, ConstantsAssumption DEF IInv, EnterWait, Entered, TypeOK,
         Places, Holding, Calls, globals, handles, image
    <3>2. HandlesOwned'
      BY <1>1, <2>2, ConstantsAssumption DEF IInv, EnterWait, Entered, HandlesOwned,
         TypeOK, GlobalsHeld, Holding, CompilePlaces, EitherPlaces, globals, handles,
         image
    <3>3. LocksHeld'
      BY <1>1, <2>2, ConstantsAssumption DEF IInv, EnterWait, Entered, LocksHeld,
         TypeOK, HandlesOwned, Holding, globals, handles, image
    <3>4. ImagesPlaced' /\ ListSound'
      BY <1>1, <2>2, ConstantsAssumption DEF IInv, EnterWait, Entered, ImagesPlaced,
         ListSound, TypeOK, HandlesOwned, LocksHeld, Unlinked, globals, handles,
         image
    <3>5. GlobalsHeld' /\ GlobalsClean'
      BY <1>1, <2>2, ConstantsAssumption DEF IInv, EnterWait, Entered, GlobalsHeld,
         GlobalsClean, TypeOK, LocksHeld, HandlesOwned, Holding, JumpBufferLive,
         globals, handles, image
    <3>6. JumpBufferLive'
      <4>1. SameCompilers
        BY <1>1, <2>2 DEF EnterWait, Entered, IInv, TypeOK, globals, handles, image,
           Compiling, SameCompilers, OfCompiler
      <4>2. QED
        BY <1>1, <2>2, <4>1, JumpsKept DEF IInv, EnterWait, Entered, globals,
           handles, image
    <3>7. FramesOpen'
      BY <1>1, <2>2, ConstantsAssumption DEF IInv, EnterWait, Entered, FramesOpen,
         TypeOK, globals, handles, image
    <3>8. InputOpen' /\ FramesInsideFiles'
      BY <1>1, <2>2, ConstantsAssumption DEF IInv, EnterWait, Entered, InputOpen,
         FramesInsideFiles, TypeOK, LocksHeld, GlobalsClean, Holding, HandlesOwned,
         globals, handles, image
    <3>9. QED
      BY <3>1, <3>2, <3>3, <3>4, <3>5, <3>6, <3>7, <3>8 DEF IInv
  <2>3. QED
    BY <2>1, <2>2
<1>2. CASE EnterSet(t)
  <2>1. TypeOK'
    BY <1>2, ConstantsAssumption DEF IInv, EnterSet, Entered, At, TypeOK, Places,
       Holding, Calls, globals, handles, image
  <2>2. HandlesOwned'
    BY <1>2, ConstantsAssumption DEF IInv, EnterSet, Entered, At, HandlesOwned,
       TypeOK, GlobalsHeld, Holding, CompilePlaces, EitherPlaces, globals, handles,
       image
  <2>3. LocksHeld'
    BY <1>2, ConstantsAssumption DEF IInv, EnterSet, Entered, At, LocksHeld, TypeOK,
       HandlesOwned, Holding, globals, handles, image
  <2>4. ImagesPlaced' /\ ListSound'
    BY <1>2, ConstantsAssumption DEF IInv, EnterSet, Entered, At, ImagesPlaced,
       ListSound, TypeOK, HandlesOwned, LocksHeld, Unlinked, globals, handles, image
  <2>5. GlobalsHeld' /\ GlobalsClean'
    BY <1>2, ConstantsAssumption DEF IInv, EnterSet, Entered, At, GlobalsHeld,
       GlobalsClean, TypeOK, LocksHeld, HandlesOwned, Holding, JumpBufferLive,
       globals, handles, image
  <2>6. JumpBufferLive'
    <3>1. SameCompilers
      BY <1>2 DEF EnterSet, Entered, At, IInv, TypeOK, globals, handles, image,
         Compiling, SameCompilers, OfCompiler
    <3>2. QED
      BY <1>2, <3>1, JumpsKept DEF IInv, EnterSet, Entered, At, globals, handles,
         image
  <2>7. FramesOpen'
    BY <1>2, ConstantsAssumption DEF IInv, EnterSet, Entered, At, FramesOpen, TypeOK,
       globals, handles, image
  <2>8. InputOpen' /\ FramesInsideFiles'
    BY <1>2, ConstantsAssumption DEF IInv, EnterSet, Entered, At, InputOpen,
       FramesInsideFiles, TypeOK, LocksHeld, GlobalsClean, Holding, HandlesOwned,
       globals, handles, image
  <2>9. QED
    BY <2>1, <2>2, <2>3, <2>4, <2>5, <2>6, <2>7, <2>8 DEF IInv
<1>3. CASE Diagnose(t)
  <2>1. TypeOK'
    BY <1>3, ConstantsAssumption DEF IInv, Diagnose, At, TypeOK, Places, Holding,
       Calls, globals, handles, image
  <2>2. HandlesOwned'
    BY <1>3, ConstantsAssumption DEF IInv, Diagnose, At, HandlesOwned, TypeOK,
       GlobalsHeld, Holding, CompilePlaces, EitherPlaces, globals, handles, image
  <2>3. LocksHeld'
    BY <1>3, ConstantsAssumption DEF IInv, Diagnose, At, LocksHeld, TypeOK,
       HandlesOwned, Holding, globals, handles, image
  <2>4. ImagesPlaced' /\ ListSound'
    BY <1>3, ConstantsAssumption DEF IInv, Diagnose, At, ImagesPlaced, ListSound,
       TypeOK, HandlesOwned, LocksHeld, Unlinked, globals, handles, image
  <2>5. GlobalsHeld' /\ GlobalsClean'
    BY <1>3, ConstantsAssumption DEF IInv, Diagnose, At, GlobalsHeld, GlobalsClean,
       TypeOK, LocksHeld, HandlesOwned, Holding, JumpBufferLive, globals, handles,
       image
  <2>6. JumpBufferLive'
    <3>1. SameCompilers
      BY <1>3 DEF Diagnose, At, IInv, TypeOK, globals, handles, image, Compiling,
         SameCompilers, OfCompiler
    <3>2. QED
      BY <1>3, <3>1, JumpsKept DEF IInv, Diagnose, At, globals, handles, image
  <2>7. FramesOpen'
    BY <1>3, ConstantsAssumption DEF IInv, Diagnose, At, FramesOpen, TypeOK, globals,
       handles, image
  <2>8. InputOpen' /\ FramesInsideFiles'
    BY <1>3, ConstantsAssumption DEF IInv, Diagnose, At, InputOpen,
       FramesInsideFiles, TypeOK, LocksHeld, GlobalsClean, Holding, HandlesOwned,
       globals, handles, image
  <2>9. QED
    BY <2>1, <2>2, <2>3, <2>4, <2>5, <2>6, <2>7, <2>8 DEF IInv
<1>4. CASE ExitClear(t)
  <2>1. CASE error_set_jmp_enabled[Subject(t)]
    <3>1. pc[t] = "exit"
      BY <1>4 DEF ExitClear
    <3>2. Subject(t) = cur[t] /\ cur[t] \in States
      BY <3>1, ConstantsAssumption DEF IInv, TypeOK, HandlesOwned, Subject
    <3>3. error_set_jmp_enabled[cur[t]]
      BY <2>1, <3>2
    <3>4. PICK u \in Threads : cur[u] = cur[t] /\ pc[u] \in Compiling
      BY <3>2, <3>3 DEF IInv, JumpBufferLive
    <3>5. u = t
      BY <3>2, <3>4, ConstantsAssumption DEF IInv, HandlesOwned
    <3>6. QED
      BY <3>1, <3>4, <3>5 DEF Compiling
  <2>2. CASE ~(error_set_jmp_enabled[Subject(t)])
    <3>1. TypeOK'
      BY <1>4, <2>2, ConstantsAssumption DEF IInv, ExitClear, Subject, TypeOK,
         Places, Holding, Calls, globals, handles, image
    <3>2. HandlesOwned'
      BY <1>4, <2>2, ConstantsAssumption DEF IInv, ExitClear, Subject, HandlesOwned,
         TypeOK, GlobalsHeld, Holding, CompilePlaces, EitherPlaces, globals, handles,
         image
    <3>3. LocksHeld'
      BY <1>4, <2>2, ConstantsAssumption DEF IInv, ExitClear, Subject, LocksHeld,
         TypeOK, HandlesOwned, Holding, globals, handles, image
    <3>4. ImagesPlaced' /\ ListSound'
      BY <1>4, <2>2, ConstantsAssumption DEF IInv, ExitClear, Subject, ImagesPlaced,
         ListSound, TypeOK, HandlesOwned, LocksHeld, Unlinked, globals, handles,
         image
    <3>5. GlobalsHeld' /\ GlobalsClean'
      BY <1>4, <2>2, ConstantsAssumption DEF IInv, ExitClear, Subject, GlobalsHeld,
         GlobalsClean, TypeOK, LocksHeld, HandlesOwned, Holding, JumpBufferLive,
         globals, handles, image
    <3>6. JumpBufferLive'
      <4>1. SameCompilers
        BY <1>4, <2>2 DEF ExitClear, Subject, IInv, TypeOK, globals, handles, image,
           Compiling, SameCompilers, OfCompiler
      <4>2. QED
        BY <1>4, <2>2, <4>1, JumpsKept DEF IInv, ExitClear, Subject, globals,
           handles, image
    <3>7. FramesOpen'
      BY <1>4, <2>2, ConstantsAssumption DEF IInv, ExitClear, Subject, FramesOpen,
         TypeOK, globals, handles, image
    <3>8. InputOpen' /\ FramesInsideFiles'
      BY <1>4, <2>2, ConstantsAssumption DEF IInv, ExitClear, Subject, InputOpen,
         FramesInsideFiles, TypeOK, LocksHeld, GlobalsClean, Holding, HandlesOwned,
         globals, handles, image
    <3>9. QED
      BY <3>1, <3>2, <3>3, <3>4, <3>5, <3>6, <3>7, <3>8 DEF IInv
  <2>3. QED
    BY <2>1, <2>2
<1>5. CASE ExitPost(t)
  <2>1. TypeOK'
    BY <1>5, ConstantsAssumption DEF IInv, ExitPost, At, TypeOK, Places, Holding,
       Calls, globals, handles, image
  <2>2. HandlesOwned'
    BY <1>5, ConstantsAssumption DEF IInv, ExitPost, At, HandlesOwned, TypeOK,
       GlobalsHeld, Holding, CompilePlaces, EitherPlaces, globals, handles, image
  <2>3. LocksHeld'
    BY <1>5, ConstantsAssumption DEF IInv, ExitPost, At, LocksHeld, TypeOK,
       HandlesOwned, Holding, globals, handles, image
  <2>4. ImagesPlaced' /\ ListSound'
    BY <1>5, ConstantsAssumption DEF IInv, ExitPost, At, ImagesPlaced, ListSound,
       TypeOK, HandlesOwned, LocksHeld, Unlinked, globals, handles, image
  <2>5. GlobalsHeld' /\ GlobalsClean'
    BY <1>5, ConstantsAssumption DEF IInv, ExitPost, At, GlobalsHeld, GlobalsClean,
       TypeOK, LocksHeld, HandlesOwned, Holding, JumpBufferLive, globals, handles,
       image
  <2>6. JumpBufferLive'
    <3>1. SameCompilers
      BY <1>5 DEF ExitPost, At, IInv, TypeOK, globals, handles, image, Compiling,
         SameCompilers, OfCompiler
    <3>2. QED
      BY <1>5, <3>1, JumpsKept DEF IInv, ExitPost, At, globals, handles, image
  <2>7. FramesOpen'
    BY <1>5, ConstantsAssumption DEF IInv, ExitPost, At, FramesOpen, TypeOK, globals,
       handles, image
  <2>8. InputOpen' /\ FramesInsideFiles'
    BY <1>5, ConstantsAssumption DEF IInv, ExitPost, At, InputOpen,
       FramesInsideFiles, TypeOK, LocksHeld, GlobalsClean, Holding, HandlesOwned,
       globals, handles, image
  <2>9. QED
    BY <2>1, <2>2, <2>3, <2>4, <2>5, <2>6, <2>7, <2>8 DEF IInv
<1>6. CASE Leave(t)
  <2>1. TypeOK'
    BY <1>6, ConstantsAssumption DEF IInv, Leave, Returned, TypeOK, Places, Holding,
       Calls, globals, handles, image
  <2>2. HandlesOwned'
    BY <1>6, ConstantsAssumption DEF IInv, Leave, Returned, HandlesOwned, TypeOK,
       GlobalsHeld, Holding, CompilePlaces, EitherPlaces, globals, handles, image
  <2>3. LocksHeld'
    BY <1>6, ConstantsAssumption DEF IInv, Leave, Returned, LocksHeld, TypeOK,
       HandlesOwned, Holding, globals, handles, image
  <2>4. ImagesPlaced' /\ ListSound'
    BY <1>6, ConstantsAssumption DEF IInv, Leave, Returned, ImagesPlaced, ListSound,
       TypeOK, HandlesOwned, LocksHeld, Unlinked, globals, handles, image
  <2>5. GlobalsHeld' /\ GlobalsClean'
    BY <1>6, ConstantsAssumption DEF IInv, Leave, Returned, GlobalsHeld,
       GlobalsClean, TypeOK, LocksHeld, HandlesOwned, Holding, JumpBufferLive,
       globals, handles, image
  <2>6. JumpBufferLive'
    <3>1. SameCompilers
      BY <1>6 DEF Leave, Returned, IInv, TypeOK, globals, handles, image, Compiling,
         SameCompilers, OfCompiler
    <3>2. QED
      BY <1>6, <3>1, JumpsKept DEF IInv, Leave, Returned, globals, handles, image
  <2>7. FramesOpen'
    BY <1>6, ConstantsAssumption DEF IInv, Leave, Returned, FramesOpen, TypeOK,
       globals, handles, image
  <2>8. InputOpen' /\ FramesInsideFiles'
    BY <1>6, ConstantsAssumption DEF IInv, Leave, Returned, InputOpen,
       FramesInsideFiles, TypeOK, LocksHeld, GlobalsClean, Holding, HandlesOwned,
       globals, handles, image
  <2>9. QED
    BY <2>1, <2>2, <2>3, <2>4, <2>5, <2>6, <2>7, <2>8 DEF IInv
<1>7. CASE Describe(t)
  <2>1. TypeOK'
    BY <1>7, ConstantsAssumption DEF IInv, Describe, TypeOK, Places, Holding, Calls,
       globals, handles, image
  <2>2. HandlesOwned'
    BY <1>7, ConstantsAssumption DEF IInv, Describe, HandlesOwned, TypeOK,
       GlobalsHeld, Holding, CompilePlaces, EitherPlaces, globals, handles, image
  <2>3. LocksHeld'
    BY <1>7, ConstantsAssumption DEF IInv, Describe, LocksHeld, TypeOK, HandlesOwned,
       Holding, globals, handles, image
  <2>4. ImagesPlaced' /\ ListSound'
    BY <1>7, ConstantsAssumption DEF IInv, Describe, ImagesPlaced, ListSound, TypeOK,
       HandlesOwned, LocksHeld, Unlinked, globals, handles, image
  <2>5. GlobalsHeld' /\ GlobalsClean'
    BY <1>7, ConstantsAssumption DEF IInv, Describe, GlobalsHeld, GlobalsClean,
       TypeOK, LocksHeld, HandlesOwned, Holding, JumpBufferLive, globals, handles,
       image
  <2>6. JumpBufferLive'
    <3>1. SameCompilers
      BY <1>7 DEF Describe, IInv, TypeOK, globals, handles, image, Compiling,
         SameCompilers, OfCompiler
    <3>2. QED
      BY <1>7, <3>1, JumpsKept DEF IInv, Describe, globals, handles, image
  <2>7. FramesOpen'
    BY <1>7, ConstantsAssumption DEF IInv, Describe, FramesOpen, TypeOK, globals,
       handles, image
  <2>8. InputOpen' /\ FramesInsideFiles'
    BY <1>7, ConstantsAssumption DEF IInv, Describe, InputOpen, FramesInsideFiles,
       TypeOK, LocksHeld, GlobalsClean, Holding, HandlesOwned, globals, handles,
       image
  <2>9. QED
    BY <2>1, <2>2, <2>3, <2>4, <2>5, <2>6, <2>7, <2>8 DEF IInv
<1>8. CASE Report(t)
  <2>1. TypeOK'
    BY <1>8, ConstantsAssumption DEF IInv, Report, Returned, TypeOK, Places, Holding,
       Calls, globals, handles, image
  <2>2. HandlesOwned'
    BY <1>8, ConstantsAssumption DEF IInv, Report, Returned, HandlesOwned, TypeOK,
       GlobalsHeld, Holding, CompilePlaces, EitherPlaces, globals, handles, image
  <2>3. LocksHeld'
    BY <1>8, ConstantsAssumption DEF IInv, Report, Returned, LocksHeld, TypeOK,
       HandlesOwned, Holding, globals, handles, image
  <2>4. ImagesPlaced' /\ ListSound'
    BY <1>8, ConstantsAssumption DEF IInv, Report, Returned, ImagesPlaced, ListSound,
       TypeOK, HandlesOwned, LocksHeld, Unlinked, globals, handles, image
  <2>5. GlobalsHeld' /\ GlobalsClean'
    BY <1>8, ConstantsAssumption DEF IInv, Report, Returned, GlobalsHeld,
       GlobalsClean, TypeOK, LocksHeld, HandlesOwned, Holding, JumpBufferLive,
       globals, handles, image
  <2>6. JumpBufferLive'
    <3>1. SameCompilers
      BY <1>8 DEF Report, Returned, IInv, TypeOK, globals, handles, image, Compiling,
         SameCompilers, OfCompiler
    <3>2. QED
      BY <1>8, <3>1, JumpsKept DEF IInv, Report, Returned, globals, handles, image
  <2>7. FramesOpen'
    BY <1>8, ConstantsAssumption DEF IInv, Report, Returned, FramesOpen, TypeOK,
       globals, handles, image
  <2>8. InputOpen' /\ FramesInsideFiles'
    BY <1>8, ConstantsAssumption DEF IInv, Report, Returned, InputOpen,
       FramesInsideFiles, TypeOK, LocksHeld, GlobalsClean, Holding, HandlesOwned,
       globals, handles, image
  <2>9. QED
    BY <2>1, <2>2, <2>3, <2>4, <2>5, <2>6, <2>7, <2>8 DEF IInv
<1>9. QED
  BY <1>1, <1>2, <1>3, <1>4, <1>5, <1>6, <1>7, <1>8

(* The steps of one compilation: only the holder of the lock touches the   *)
(* globals, and every way out empties them.                                *)
LEMMA CompilationKeepsIInv ==
    ASSUME IInv, NEW t \in Threads,
           StartCompile(t)
           \/ OpenFile(t)
           \/ CloseFile(t)
           \/ BeginMacro(t)
           \/ EndMacro(t)
           \/ BeginExpression(t)
           \/ EndExpression(t)
           \/ StackBuffer(t)
           \/ SoftError(t)
           \/ HardError(t)
           \/ EndOfInput(t)
           \/ Finish(t)
           \/ Unflag(t)
    PROVE  IInv'
<1>1. CASE StartCompile(t)
  <2>1. TypeOK'
    <3>1. cur[t] \in States
      BY <1>1, ConstantsAssumption DEF IInv, StartCompile, At, HandlesOwned, TypeOK
    <3>2. file \in Seq(States)
      BY DEF IInv, TypeOK
    <3>3. Append(file, cur[t]) \in Seq(States) /\ file \o <<cur[t], cur[t]>> \in Seq(States)
      BY <3>1, <3>2
    <3>4. file' \in Seq(States)
      BY <1>1, <3>3 DEF StartCompile
    <3>5. QED
      BY <1>1, <3>1, <3>4 DEF IInv, StartCompile, At, TypeOK, Places, Holding, Calls,
         globals, handles, image
  <2>2. HandlesOwned'
    BY <1>1, ConstantsAssumption DEF IInv, StartCompile, At, HandlesOwned, TypeOK,
       GlobalsHeld, Holding, CompilePlaces, EitherPlaces, globals, handles, image
  <2>3. LocksHeld'
    BY <1>1, ConstantsAssumption DEF IInv, StartCompile, At, LocksHeld, TypeOK,
       HandlesOwned, Holding, globals, handles, image
  <2>4. ImagesPlaced' /\ ListSound'
    BY <1>1, ConstantsAssumption DEF IInv, StartCompile, At, ImagesPlaced, ListSound,
       TypeOK, HandlesOwned, LocksHeld, Unlinked, globals, handles, image
  <2>5. GlobalsHeld' /\ GlobalsClean'
    BY <1>1, ConstantsAssumption DEF IInv, StartCompile, At, GlobalsHeld,
       GlobalsClean, TypeOK, LocksHeld, HandlesOwned, Holding, JumpBufferLive,
       globals, handles, image
  <2>6. JumpBufferLive'
    BY <1>1, ConstantsAssumption DEF IInv, StartCompile, At, JumpBufferLive, TypeOK,
       Compiling, HandlesOwned, globals, handles, image
  <2>7. FramesOpen'
    BY <1>1, ConstantsAssumption DEF IInv, StartCompile, At, FramesOpen, TypeOK,
       globals, handles, image
  <2>8. InputOpen' /\ FramesInsideFiles'
    BY <1>1, ConstantsAssumption DEF IInv, StartCompile, At, InputOpen,
       FramesInsideFiles, TypeOK, LocksHeld, GlobalsClean, Holding, HandlesOwned,
       globals, handles, image
  <2>9. QED
    BY <2>1, <2>2, <2>3, <2>4, <2>5, <2>6, <2>7, <2>8 DEF IInv
<1>2. CASE OpenFile(t)
  <2>1. TypeOK'
    <3>1. cprime_state \in States
      BY <1>2, ConstantsAssumption DEF IInv, OpenFile, Parsing, GlobalsHeld,
         HandlesOwned, Holding, TypeOK
    <3>2. QED
      BY <1>2, <3>1, ConstantsAssumption DEF IInv, OpenFile, Parsing, TypeOK, Places,
         Holding, Calls, globals, handles, image
  <2>2. HandlesOwned'
    BY <1>2, ConstantsAssumption DEF IInv, OpenFile, Parsing, HandlesOwned, TypeOK,
       GlobalsHeld, Holding, CompilePlaces, EitherPlaces, globals, handles, image
  <2>3. LocksHeld'
    BY <1>2, ConstantsAssumption DEF IInv, OpenFile, Parsing, LocksHeld, TypeOK,
       HandlesOwned, Holding, globals, handles, image
  <2>4. ImagesPlaced' /\ ListSound'
    BY <1>2, ConstantsAssumption DEF IInv, OpenFile, Parsing, ImagesPlaced,
       ListSound, TypeOK, HandlesOwned, LocksHeld, Unlinked, globals, handles, image
  <2>5. GlobalsHeld' /\ GlobalsClean'
    BY <1>2, ConstantsAssumption DEF IInv, OpenFile, Parsing, GlobalsHeld,
       GlobalsClean, TypeOK, LocksHeld, HandlesOwned, Holding, JumpBufferLive,
       globals, handles, image
  <2>6. JumpBufferLive'
    <3>1. SameCompilers
      BY <1>2 DEF OpenFile, Parsing, IInv, TypeOK, globals, handles, image,
         Compiling, SameCompilers, OfCompiler
    <3>2. QED
      BY <1>2, <3>1, JumpsKept DEF IInv, OpenFile, Parsing, globals, handles, image
  <2>7. FramesOpen'
    BY <1>2, ConstantsAssumption DEF IInv, OpenFile, Parsing, FramesOpen, TypeOK,
       globals, handles, image
  <2>8. InputOpen' /\ FramesInsideFiles'
    BY <1>2, ConstantsAssumption DEF IInv, OpenFile, Parsing, InputOpen,
       FramesInsideFiles, TypeOK, LocksHeld, GlobalsClean, Holding, HandlesOwned,
       globals, handles, image
  <2>9. QED
    BY <2>1, <2>2, <2>3, <2>4, <2>5, <2>6, <2>7, <2>8 DEF IInv
<1>3. CASE CloseFile(t)
  <2>1. TypeOK'
    BY <1>3, ConstantsAssumption DEF IInv, CloseFile, Parsing, TypeOK, Places,
       Holding, Calls, globals, handles, image
  <2>2. HandlesOwned'
    BY <1>3, ConstantsAssumption DEF IInv, CloseFile, Parsing, HandlesOwned, TypeOK,
       GlobalsHeld, Holding, CompilePlaces, EitherPlaces, globals, handles, image
  <2>3. LocksHeld'
    BY <1>3, ConstantsAssumption DEF IInv, CloseFile, Parsing, LocksHeld, TypeOK,
       HandlesOwned, Holding, globals, handles, image
  <2>4. ImagesPlaced' /\ ListSound'
    BY <1>3, ConstantsAssumption DEF IInv, CloseFile, Parsing, ImagesPlaced,
       ListSound, TypeOK, HandlesOwned, LocksHeld, Unlinked, globals, handles, image
  <2>5. GlobalsHeld' /\ GlobalsClean'
    BY <1>3, ConstantsAssumption DEF IInv, CloseFile, Parsing, GlobalsHeld,
       GlobalsClean, TypeOK, LocksHeld, HandlesOwned, Holding, JumpBufferLive,
       globals, handles, image
  <2>6. JumpBufferLive'
    <3>1. SameCompilers
      BY <1>3 DEF CloseFile, Parsing, IInv, TypeOK, globals, handles, image,
         Compiling, SameCompilers, OfCompiler
    <3>2. QED
      BY <1>3, <3>1, JumpsKept DEF IInv, CloseFile, Parsing, globals, handles, image
  <2>7. FramesOpen'
    BY <1>3, ConstantsAssumption DEF IInv, CloseFile, Parsing, FramesOpen, TypeOK,
       globals, handles, image
  <2>8. InputOpen' /\ FramesInsideFiles'
    BY <1>3, ConstantsAssumption DEF IInv, CloseFile, Parsing, InputOpen,
       FramesInsideFiles, TypeOK, LocksHeld, GlobalsClean, Holding, HandlesOwned,
       globals, handles, image
  <2>9. QED
    BY <2>1, <2>2, <2>3, <2>4, <2>5, <2>6, <2>7, <2>8 DEF IInv
<1>4. CASE BeginMacro(t)
  <2>1. TypeOK'
    BY <1>4, ConstantsAssumption DEF IInv, BeginMacro, Parsing, TypeOK, Places,
       Holding, Calls, globals, handles, image
  <2>2. HandlesOwned'
    BY <1>4, ConstantsAssumption DEF IInv, BeginMacro, Parsing, HandlesOwned, TypeOK,
       GlobalsHeld, Holding, CompilePlaces, EitherPlaces, globals, handles, image
  <2>3. LocksHeld'
    BY <1>4, ConstantsAssumption DEF IInv, BeginMacro, Parsing, LocksHeld, TypeOK,
       HandlesOwned, Holding, globals, handles, image
  <2>4. ImagesPlaced' /\ ListSound'
    BY <1>4, ConstantsAssumption DEF IInv, BeginMacro, Parsing, ImagesPlaced,
       ListSound, TypeOK, HandlesOwned, LocksHeld, Unlinked, globals, handles, image
  <2>5. GlobalsHeld' /\ GlobalsClean'
    BY <1>4, ConstantsAssumption DEF IInv, BeginMacro, Parsing, GlobalsHeld,
       GlobalsClean, TypeOK, LocksHeld, HandlesOwned, Holding, JumpBufferLive,
       globals, handles, image
  <2>6. JumpBufferLive'
    <3>1. SameCompilers
      BY <1>4 DEF BeginMacro, Parsing, IInv, TypeOK, globals, handles, image,
         Compiling, SameCompilers, OfCompiler
    <3>2. QED
      BY <1>4, <3>1, JumpsKept DEF IInv, BeginMacro, Parsing, globals, handles, image
  <2>7. FramesOpen'
    BY <1>4, ConstantsAssumption DEF IInv, BeginMacro, Parsing, FramesOpen, TypeOK,
       globals, handles, image
  <2>8. InputOpen' /\ FramesInsideFiles'
    BY <1>4, ConstantsAssumption DEF IInv, BeginMacro, Parsing, InputOpen,
       FramesInsideFiles, TypeOK, LocksHeld, GlobalsClean, Holding, HandlesOwned,
       globals, handles, image
  <2>9. QED
    BY <2>1, <2>2, <2>3, <2>4, <2>5, <2>6, <2>7, <2>8 DEF IInv
<1>5. CASE EndMacro(t)
  <2>1. TypeOK'
    BY <1>5, ConstantsAssumption DEF IInv, EndMacro, Parsing, TypeOK, Places,
       Holding, Calls, globals, handles, image
  <2>2. HandlesOwned'
    BY <1>5, ConstantsAssumption DEF IInv, EndMacro, Parsing, HandlesOwned, TypeOK,
       GlobalsHeld, Holding, CompilePlaces, EitherPlaces, globals, handles, image
  <2>3. LocksHeld'
    BY <1>5, ConstantsAssumption DEF IInv, EndMacro, Parsing, LocksHeld, TypeOK,
       HandlesOwned, Holding, globals, handles, image
  <2>4. ImagesPlaced' /\ ListSound'
    BY <1>5, ConstantsAssumption DEF IInv, EndMacro, Parsing, ImagesPlaced,
       ListSound, TypeOK, HandlesOwned, LocksHeld, Unlinked, globals, handles, image
  <2>5. GlobalsHeld' /\ GlobalsClean'
    BY <1>5, ConstantsAssumption DEF IInv, EndMacro, Parsing, GlobalsHeld,
       GlobalsClean, TypeOK, LocksHeld, HandlesOwned, Holding, JumpBufferLive,
       globals, handles, image
  <2>6. JumpBufferLive'
    <3>1. SameCompilers
      BY <1>5 DEF EndMacro, Parsing, IInv, TypeOK, globals, handles, image,
         Compiling, SameCompilers, OfCompiler
    <3>2. QED
      BY <1>5, <3>1, JumpsKept DEF IInv, EndMacro, Parsing, globals, handles, image
  <2>7. FramesOpen'
    BY <1>5, ConstantsAssumption DEF IInv, EndMacro, Parsing, FramesOpen, TypeOK,
       globals, handles, image
  <2>8. InputOpen' /\ FramesInsideFiles'
    BY <1>5, ConstantsAssumption DEF IInv, EndMacro, Parsing, InputOpen,
       FramesInsideFiles, TypeOK, LocksHeld, GlobalsClean, Holding, HandlesOwned,
       globals, handles, image
  <2>9. QED
    BY <2>1, <2>2, <2>3, <2>4, <2>5, <2>6, <2>7, <2>8 DEF IInv
<1>6. CASE BeginExpression(t)
  <2>1. TypeOK'
    BY <1>6, ConstantsAssumption DEF IInv, BeginExpression, Parsing, TypeOK, Places,
       Holding, Calls, globals, handles, image
  <2>2. HandlesOwned'
    BY <1>6, ConstantsAssumption DEF IInv, BeginExpression, Parsing, HandlesOwned,
       TypeOK, GlobalsHeld, Holding, CompilePlaces, EitherPlaces, globals, handles,
       image
  <2>3. LocksHeld'
    BY <1>6, ConstantsAssumption DEF IInv, BeginExpression, Parsing, LocksHeld,
       TypeOK, HandlesOwned, Holding, globals, handles, image
  <2>4. ImagesPlaced' /\ ListSound'
    BY <1>6, ConstantsAssumption DEF IInv, BeginExpression, Parsing, ImagesPlaced,
       ListSound, TypeOK, HandlesOwned, LocksHeld, Unlinked, globals, handles, image
  <2>5. GlobalsHeld' /\ GlobalsClean'
    BY <1>6, ConstantsAssumption DEF IInv, BeginExpression, Parsing, GlobalsHeld,
       GlobalsClean, TypeOK, LocksHeld, HandlesOwned, Holding, JumpBufferLive,
       globals, handles, image
  <2>6. JumpBufferLive'
    <3>1. SameCompilers
      BY <1>6 DEF BeginExpression, Parsing, IInv, TypeOK, globals, handles, image,
         Compiling, SameCompilers, OfCompiler
    <3>2. QED
      BY <1>6, <3>1, JumpsKept DEF IInv, BeginExpression, Parsing, globals, handles,
         image
  <2>7. FramesOpen'
    BY <1>6, ConstantsAssumption DEF IInv, BeginExpression, Parsing, FramesOpen,
       TypeOK, globals, handles, image
  <2>8. InputOpen' /\ FramesInsideFiles'
    BY <1>6, ConstantsAssumption DEF IInv, BeginExpression, Parsing, InputOpen,
       FramesInsideFiles, TypeOK, LocksHeld, GlobalsClean, Holding, HandlesOwned,
       globals, handles, image
  <2>9. QED
    BY <2>1, <2>2, <2>3, <2>4, <2>5, <2>6, <2>7, <2>8 DEF IInv
<1>7. CASE EndExpression(t)
  <2>1. TypeOK'
    BY <1>7, ConstantsAssumption DEF IInv, EndExpression, Parsing, TypeOK, Places,
       Holding, Calls, globals, handles, image
  <2>2. HandlesOwned'
    BY <1>7, ConstantsAssumption DEF IInv, EndExpression, Parsing, HandlesOwned,
       TypeOK, GlobalsHeld, Holding, CompilePlaces, EitherPlaces, globals, handles,
       image
  <2>3. LocksHeld'
    BY <1>7, ConstantsAssumption DEF IInv, EndExpression, Parsing, LocksHeld, TypeOK,
       HandlesOwned, Holding, globals, handles, image
  <2>4. ImagesPlaced' /\ ListSound'
    BY <1>7, ConstantsAssumption DEF IInv, EndExpression, Parsing, ImagesPlaced,
       ListSound, TypeOK, HandlesOwned, LocksHeld, Unlinked, globals, handles, image
  <2>5. GlobalsHeld' /\ GlobalsClean'
    BY <1>7, ConstantsAssumption DEF IInv, EndExpression, Parsing, GlobalsHeld,
       GlobalsClean, TypeOK, LocksHeld, HandlesOwned, Holding, JumpBufferLive,
       globals, handles, image
  <2>6. JumpBufferLive'
    <3>1. SameCompilers
      BY <1>7 DEF EndExpression, Parsing, IInv, TypeOK, globals, handles, image,
         Compiling, SameCompilers, OfCompiler
    <3>2. QED
      BY <1>7, <3>1, JumpsKept DEF IInv, EndExpression, Parsing, globals, handles,
         image
  <2>7. FramesOpen'
    BY <1>7, ConstantsAssumption DEF IInv, EndExpression, Parsing, FramesOpen,
       TypeOK, globals, handles, image
  <2>8. InputOpen' /\ FramesInsideFiles'
    BY <1>7, ConstantsAssumption DEF IInv, EndExpression, Parsing, InputOpen,
       FramesInsideFiles, TypeOK, LocksHeld, GlobalsClean, Holding, HandlesOwned,
       globals, handles, image
  <2>9. QED
    BY <2>1, <2>2, <2>3, <2>4, <2>5, <2>6, <2>7, <2>8 DEF IInv
<1>8. CASE StackBuffer(t)
  <2>1. TypeOK'
    BY <1>8, ConstantsAssumption DEF IInv, StackBuffer, Parsing, TypeOK, Places,
       Holding, Calls, globals, handles, image
  <2>2. HandlesOwned'
    BY <1>8, ConstantsAssumption DEF IInv, StackBuffer, Parsing, HandlesOwned,
       TypeOK, GlobalsHeld, Holding, CompilePlaces, EitherPlaces, globals, handles,
       image
  <2>3. LocksHeld'
    BY <1>8, ConstantsAssumption DEF IInv, StackBuffer, Parsing, LocksHeld, TypeOK,
       HandlesOwned, Holding, globals, handles, image
  <2>4. ImagesPlaced' /\ ListSound'
    BY <1>8, ConstantsAssumption DEF IInv, StackBuffer, Parsing, ImagesPlaced,
       ListSound, TypeOK, HandlesOwned, LocksHeld, Unlinked, globals, handles, image
  <2>5. GlobalsHeld' /\ GlobalsClean'
    BY <1>8, ConstantsAssumption DEF IInv, StackBuffer, Parsing, GlobalsHeld,
       GlobalsClean, TypeOK, LocksHeld, HandlesOwned, Holding, JumpBufferLive,
       globals, handles, image
  <2>6. JumpBufferLive'
    <3>1. SameCompilers
      BY <1>8 DEF StackBuffer, Parsing, IInv, TypeOK, globals, handles, image,
         Compiling, SameCompilers, OfCompiler
    <3>2. QED
      BY <1>8, <3>1, JumpsKept DEF IInv, StackBuffer, Parsing, globals, handles,
         image
  <2>7. FramesOpen'
    BY <1>8, ConstantsAssumption DEF IInv, StackBuffer, Parsing, FramesOpen, TypeOK,
       globals, handles, image
  <2>8. InputOpen' /\ FramesInsideFiles'
    BY <1>8, ConstantsAssumption DEF IInv, StackBuffer, Parsing, InputOpen,
       FramesInsideFiles, TypeOK, LocksHeld, GlobalsClean, Holding, HandlesOwned,
       globals, handles, image
  <2>9. QED
    BY <2>1, <2>2, <2>3, <2>4, <2>5, <2>6, <2>7, <2>8 DEF IInv
<1>9. CASE SoftError(t)
  <2>1. TypeOK'
    <3>1. cprime_state \in States
      BY <1>9, ConstantsAssumption DEF IInv, SoftError, Parsing, GlobalsHeld,
         HandlesOwned, Holding, TypeOK
    <3>2. QED
      BY <1>9, <3>1, ConstantsAssumption DEF IInv, SoftError, Parsing, TypeOK,
         Places, Holding, Calls, globals, handles, image
  <2>2. HandlesOwned'
    BY <1>9, ConstantsAssumption DEF IInv, SoftError, Parsing, HandlesOwned, TypeOK,
       GlobalsHeld, Holding, CompilePlaces, EitherPlaces, globals, handles, image
  <2>3. LocksHeld'
    BY <1>9, ConstantsAssumption DEF IInv, SoftError, Parsing, LocksHeld, TypeOK,
       HandlesOwned, Holding, globals, handles, image
  <2>4. ImagesPlaced' /\ ListSound'
    BY <1>9, ConstantsAssumption DEF IInv, SoftError, Parsing, ImagesPlaced,
       ListSound, TypeOK, HandlesOwned, LocksHeld, Unlinked, globals, handles, image
  <2>5. GlobalsHeld' /\ GlobalsClean'
    BY <1>9, ConstantsAssumption DEF IInv, SoftError, Parsing, GlobalsHeld,
       GlobalsClean, TypeOK, LocksHeld, HandlesOwned, Holding, JumpBufferLive,
       globals, handles, image
  <2>6. JumpBufferLive'
    <3>1. SameCompilers
      BY <1>9 DEF SoftError, Parsing, IInv, TypeOK, globals, handles, image,
         Compiling, SameCompilers, OfCompiler
    <3>2. QED
      BY <1>9, <3>1, JumpsKept DEF IInv, SoftError, Parsing, globals, handles, image
  <2>7. FramesOpen'
    BY <1>9, ConstantsAssumption DEF IInv, SoftError, Parsing, FramesOpen, TypeOK,
       globals, handles, image
  <2>8. InputOpen' /\ FramesInsideFiles'
    BY <1>9, ConstantsAssumption DEF IInv, SoftError, Parsing, InputOpen,
       FramesInsideFiles, TypeOK, LocksHeld, GlobalsClean, Holding, HandlesOwned,
       globals, handles, image
  <2>9. QED
    BY <2>1, <2>2, <2>3, <2>4, <2>5, <2>6, <2>7, <2>8 DEF IInv
<1>10. CASE HardError(t)
  <2>1. TypeOK'
    <3>1. cprime_state \in States
      BY <1>10, ConstantsAssumption DEF IInv, HardError, At, GlobalsHeld,
         HandlesOwned, Holding, TypeOK
    <3>2. QED
      BY <1>10, <3>1, ConstantsAssumption DEF IInv, HardError, At, TypeOK, Places,
         Holding, Calls, globals, handles, image
  <2>2. HandlesOwned'
    BY <1>10, ConstantsAssumption DEF IInv, HardError, At, HandlesOwned, TypeOK,
       GlobalsHeld, Holding, CompilePlaces, EitherPlaces, globals, handles, image
  <2>3. LocksHeld'
    BY <1>10, ConstantsAssumption DEF IInv, HardError, At, LocksHeld, TypeOK,
       HandlesOwned, Holding, globals, handles, image
  <2>4. ImagesPlaced' /\ ListSound'
    BY <1>10, ConstantsAssumption DEF IInv, HardError, At, ImagesPlaced, ListSound,
       TypeOK, HandlesOwned, LocksHeld, Unlinked, globals, handles, image
  <2>5. GlobalsHeld' /\ GlobalsClean'
    BY <1>10, ConstantsAssumption DEF IInv, HardError, At, GlobalsHeld, GlobalsClean,
       TypeOK, LocksHeld, HandlesOwned, Holding, JumpBufferLive, globals, handles,
       image
  <2>6. JumpBufferLive'
    <3>1. SameCompilers
      BY <1>10 DEF HardError, At, IInv, TypeOK, globals, handles, image, Compiling,
         SameCompilers, OfCompiler
    <3>2. QED
      BY <1>10, <3>1, JumpsKept DEF IInv, HardError, At, globals, handles, image
  <2>7. FramesOpen'
    BY <1>10, ConstantsAssumption DEF IInv, HardError, At, FramesOpen, TypeOK,
       globals, handles, image
  <2>8. InputOpen' /\ FramesInsideFiles'
    BY <1>10, ConstantsAssumption DEF IInv, HardError, At, InputOpen,
       FramesInsideFiles, TypeOK, LocksHeld, GlobalsClean, Holding, HandlesOwned,
       globals, handles, image
  <2>9. QED
    BY <2>1, <2>2, <2>3, <2>4, <2>5, <2>6, <2>7, <2>8 DEF IInv
<1>11. CASE EndOfInput(t)
  <2>1. TypeOK'
    BY <1>11, ConstantsAssumption DEF IInv, EndOfInput, At, TypeOK, Places, Holding,
       Calls, globals, handles, image
  <2>2. HandlesOwned'
    BY <1>11, ConstantsAssumption DEF IInv, EndOfInput, At, HandlesOwned, TypeOK,
       GlobalsHeld, Holding, CompilePlaces, EitherPlaces, globals, handles, image
  <2>3. LocksHeld'
    BY <1>11, ConstantsAssumption DEF IInv, EndOfInput, At, LocksHeld, TypeOK,
       HandlesOwned, Holding, globals, handles, image
  <2>4. ImagesPlaced' /\ ListSound'
    BY <1>11, ConstantsAssumption DEF IInv, EndOfInput, At, ImagesPlaced, ListSound,
       TypeOK, HandlesOwned, LocksHeld, Unlinked, globals, handles, image
  <2>5. GlobalsHeld' /\ GlobalsClean'
    BY <1>11, ConstantsAssumption DEF IInv, EndOfInput, At, GlobalsHeld,
       GlobalsClean, TypeOK, LocksHeld, HandlesOwned, Holding, JumpBufferLive,
       globals, handles, image
  <2>6. JumpBufferLive'
    <3>1. SameCompilers
      BY <1>11 DEF EndOfInput, At, IInv, TypeOK, globals, handles, image, Compiling,
         SameCompilers, OfCompiler
    <3>2. QED
      BY <1>11, <3>1, JumpsKept DEF IInv, EndOfInput, At, globals, handles, image
  <2>7. FramesOpen'
    BY <1>11, ConstantsAssumption DEF IInv, EndOfInput, At, FramesOpen, TypeOK,
       globals, handles, image
  <2>8. InputOpen' /\ FramesInsideFiles'
    BY <1>11, ConstantsAssumption DEF IInv, EndOfInput, At, InputOpen,
       FramesInsideFiles, TypeOK, LocksHeld, GlobalsClean, Holding, HandlesOwned,
       globals, handles, image
  <2>9. QED
    BY <2>1, <2>2, <2>3, <2>4, <2>5, <2>6, <2>7, <2>8 DEF IInv
<1>12. CASE Finish(t)
  <2>1. TypeOK'
    BY <1>12, ConstantsAssumption DEF IInv, Finish, At, TypeOK, Places, Holding,
       Calls, globals, handles, image
  <2>2. HandlesOwned'
    BY <1>12, ConstantsAssumption DEF IInv, Finish, At, HandlesOwned, TypeOK,
       GlobalsHeld, Holding, CompilePlaces, EitherPlaces, globals, handles, image
  <2>3. LocksHeld'
    BY <1>12, ConstantsAssumption DEF IInv, Finish, At, LocksHeld, TypeOK,
       HandlesOwned, Holding, globals, handles, image
  <2>4. ImagesPlaced' /\ ListSound'
    BY <1>12, ConstantsAssumption DEF IInv, Finish, At, ImagesPlaced, ListSound,
       TypeOK, HandlesOwned, LocksHeld, Unlinked, globals, handles, image
  <2>5. GlobalsHeld' /\ GlobalsClean'
    BY <1>12, ConstantsAssumption DEF IInv, Finish, At, GlobalsHeld, GlobalsClean,
       TypeOK, LocksHeld, HandlesOwned, Holding, JumpBufferLive, globals, handles,
       image
  <2>6. JumpBufferLive'
    <3>1. SameCompilers
      BY <1>12 DEF Finish, At, IInv, TypeOK, globals, handles, image, Compiling,
         SameCompilers, OfCompiler
    <3>2. QED
      BY <1>12, <3>1, JumpsKept DEF IInv, Finish, At, globals, handles, image
  <2>7. FramesOpen'
    BY <1>12, ConstantsAssumption DEF IInv, Finish, At, FramesOpen, TypeOK, globals,
       handles, image
  <2>8. InputOpen' /\ FramesInsideFiles'
    BY <1>12, ConstantsAssumption DEF IInv, Finish, At, InputOpen, FramesInsideFiles,
       TypeOK, LocksHeld, GlobalsClean, Holding, HandlesOwned, globals, handles,
       image
  <2>9. QED
    BY <2>1, <2>2, <2>3, <2>4, <2>5, <2>6, <2>7, <2>8 DEF IInv
<1>13. CASE Unflag(t)
  <2>1. TypeOK'
    BY <1>13, ConstantsAssumption DEF IInv, Unflag, At, TypeOK, Places, Holding,
       Calls, globals, handles, image
  <2>2. HandlesOwned'
    BY <1>13, ConstantsAssumption DEF IInv, Unflag, At, HandlesOwned, TypeOK,
       GlobalsHeld, Holding, CompilePlaces, EitherPlaces, globals, handles, image
  <2>3. LocksHeld'
    BY <1>13, ConstantsAssumption DEF IInv, Unflag, At, LocksHeld, TypeOK,
       HandlesOwned, Holding, globals, handles, image
  <2>4. ImagesPlaced' /\ ListSound'
    BY <1>13, ConstantsAssumption DEF IInv, Unflag, At, ImagesPlaced, ListSound,
       TypeOK, HandlesOwned, LocksHeld, Unlinked, globals, handles, image
  <2>5. GlobalsHeld' /\ GlobalsClean'
    BY <1>13, ConstantsAssumption DEF IInv, Unflag, At, GlobalsHeld, GlobalsClean,
       TypeOK, LocksHeld, HandlesOwned, Holding, JumpBufferLive, globals, handles,
       image
  <2>6. JumpBufferLive'
    BY <1>13, ConstantsAssumption DEF IInv, Unflag, At, JumpBufferLive, TypeOK,
       Compiling, HandlesOwned, globals, handles, image
  <2>7. FramesOpen'
    BY <1>13, ConstantsAssumption DEF IInv, Unflag, At, FramesOpen, TypeOK, globals,
       handles, image
  <2>8. InputOpen' /\ FramesInsideFiles'
    BY <1>13, ConstantsAssumption DEF IInv, Unflag, At, InputOpen, FramesInsideFiles,
       TypeOK, LocksHeld, GlobalsClean, Holding, HandlesOwned, globals, handles,
       image
  <2>9. QED
    BY <2>1, <2>2, <2>3, <2>4, <2>5, <2>6, <2>7, <2>8 DEF IInv
<1>14. QED
  BY <1>1, <1>2, <1>3, <1>4, <1>5, <1>6, <1>7, <1>8, <1>9, <1>10, <1>11, <1>12, <1>13

(* Relocation, the run-time list and the running image. *)
LEMMA ImageStepsKeepIInv ==
    ASSUME IInv, NEW t \in Threads,
           RelocateFails(t)
           \/ RelocateMem(t)
           \/ RelocatePlace(t)
           \/ LinkRead(t)
           \/ LinkWrite(t)
           \/ Run(t)
           \/ (\E s \in States \cup {NoState} : CodeCalls(t, s))
           \/ CodeReturns(t)
           \/ RtExit(t)
           \/ RtJump(t)
           \/ RtEndsHost(t)
           \/ Unlink(t)
           \/ FreeState(t)
    PROVE  IInv'
<1>1. CASE RelocateFails(t)
  <2>1. TypeOK'
    BY <1>1, ConstantsAssumption DEF IInv, RelocateFails, TypeOK, Places, Holding,
       Calls, globals, handles, image
  <2>2. HandlesOwned'
    BY <1>1, ConstantsAssumption DEF IInv, RelocateFails, HandlesOwned, TypeOK,
       GlobalsHeld, Holding, CompilePlaces, EitherPlaces, globals, handles, image
  <2>3. LocksHeld'
    BY <1>1, ConstantsAssumption DEF IInv, RelocateFails, LocksHeld, TypeOK,
       HandlesOwned, Holding, globals, handles, image
  <2>4. ImagesPlaced' /\ ListSound'
    BY <1>1, ConstantsAssumption DEF IInv, RelocateFails, ImagesPlaced, ListSound,
       TypeOK, HandlesOwned, LocksHeld, Unlinked, globals, handles, image
  <2>5. GlobalsHeld' /\ GlobalsClean'
    BY <1>1, ConstantsAssumption DEF IInv, RelocateFails, GlobalsHeld, GlobalsClean,
       TypeOK, LocksHeld, HandlesOwned, Holding, JumpBufferLive, globals, handles,
       image
  <2>6. JumpBufferLive'
    <3>1. SameCompilers
      BY <1>1 DEF RelocateFails, IInv, TypeOK, globals, handles, image, Compiling,
         SameCompilers, OfCompiler
    <3>2. QED
      BY <1>1, <3>1, JumpsKept DEF IInv, RelocateFails, globals, handles, image
  <2>7. FramesOpen'
    BY <1>1, ConstantsAssumption DEF IInv, RelocateFails, FramesOpen, TypeOK,
       globals, handles, image
  <2>8. InputOpen' /\ FramesInsideFiles'
    BY <1>1, ConstantsAssumption DEF IInv, RelocateFails, InputOpen,
       FramesInsideFiles, TypeOK, LocksHeld, GlobalsClean, Holding, HandlesOwned,
       globals, handles, image
  <2>9. QED
    BY <2>1, <2>2, <2>3, <2>4, <2>5, <2>6, <2>7, <2>8 DEF IInv
<1>2. CASE RelocateMem(t)
  <2>1. TypeOK'
    BY <1>2, ConstantsAssumption DEF IInv, RelocateMem, At, TypeOK, Places, Holding,
       Calls, globals, handles, image
  <2>2. HandlesOwned'
    BY <1>2, ConstantsAssumption DEF IInv, RelocateMem, At, HandlesOwned, TypeOK,
       GlobalsHeld, Holding, CompilePlaces, EitherPlaces, globals, handles, image
  <2>3. LocksHeld'
    BY <1>2, ConstantsAssumption DEF IInv, RelocateMem, At, LocksHeld, TypeOK,
       HandlesOwned, Holding, globals, handles, image
  <2>4. ImagesPlaced' /\ ListSound'
    BY <1>2, ConstantsAssumption DEF IInv, RelocateMem, At, ImagesPlaced, ListSound,
       TypeOK, HandlesOwned, LocksHeld, Unlinked, globals, handles, image
  <2>5. GlobalsHeld' /\ GlobalsClean'
    BY <1>2, ConstantsAssumption DEF IInv, RelocateMem, At, GlobalsHeld,
       GlobalsClean, TypeOK, LocksHeld, HandlesOwned, Holding, JumpBufferLive,
       globals, handles, image
  <2>6. JumpBufferLive'
    <3>1. SameCompilers
      BY <1>2 DEF RelocateMem, At, IInv, TypeOK, globals, handles, image, Compiling,
         SameCompilers, OfCompiler
    <3>2. QED
      BY <1>2, <3>1, JumpsKept DEF IInv, RelocateMem, At, globals, handles, image
  <2>7. FramesOpen'
    BY <1>2, ConstantsAssumption DEF IInv, RelocateMem, At, FramesOpen, TypeOK,
       globals, handles, image
  <2>8. InputOpen' /\ FramesInsideFiles'
    BY <1>2, ConstantsAssumption DEF IInv, RelocateMem, At, InputOpen,
       FramesInsideFiles, TypeOK, LocksHeld, GlobalsClean, Holding, HandlesOwned,
       globals, handles, image
  <2>9. QED
    BY <2>1, <2>2, <2>3, <2>4, <2>5, <2>6, <2>7, <2>8 DEF IInv
<1>3. CASE RelocatePlace(t)
  <2>1. TypeOK'
    BY <1>3, ConstantsAssumption DEF IInv, RelocatePlace, At, TypeOK, Places,
       Holding, Calls, globals, handles, image
  <2>2. HandlesOwned'
    BY <1>3, ConstantsAssumption DEF IInv, RelocatePlace, At, HandlesOwned, TypeOK,
       GlobalsHeld, Holding, CompilePlaces, EitherPlaces, globals, handles, image
  <2>3. LocksHeld'
    BY <1>3, ConstantsAssumption DEF IInv, RelocatePlace, At, LocksHeld, TypeOK,
       HandlesOwned, Holding, globals, handles, image
  <2>4. ImagesPlaced' /\ ListSound'
    BY <1>3, ConstantsAssumption DEF IInv, RelocatePlace, At, ImagesPlaced,
       ListSound, TypeOK, HandlesOwned, LocksHeld, Unlinked, globals, handles, image
  <2>5. GlobalsHeld' /\ GlobalsClean'
    BY <1>3, ConstantsAssumption DEF IInv, RelocatePlace, At, GlobalsHeld,
       GlobalsClean, TypeOK, LocksHeld, HandlesOwned, Holding, JumpBufferLive,
       globals, handles, image
  <2>6. JumpBufferLive'
    <3>1. SameCompilers
      BY <1>3 DEF RelocatePlace, At, IInv, TypeOK, globals, handles, image,
         Compiling, SameCompilers, OfCompiler
    <3>2. QED
      BY <1>3, <3>1, JumpsKept DEF IInv, RelocatePlace, At, globals, handles, image
  <2>7. FramesOpen'
    BY <1>3, ConstantsAssumption DEF IInv, RelocatePlace, At, FramesOpen, TypeOK,
       globals, handles, image
  <2>8. InputOpen' /\ FramesInsideFiles'
    BY <1>3, ConstantsAssumption DEF IInv, RelocatePlace, At, InputOpen,
       FramesInsideFiles, TypeOK, LocksHeld, GlobalsClean, Holding, HandlesOwned,
       globals, handles, image
  <2>9. QED
    BY <2>1, <2>2, <2>3, <2>4, <2>5, <2>6, <2>7, <2>8 DEF IInv
<1>4. CASE LinkRead(t)
  <2>1. TypeOK'
    BY <1>4, ConstantsAssumption DEF IInv, LinkRead, At, TypeOK, Places, Holding,
       Calls, globals, handles, image
  <2>2. HandlesOwned'
    BY <1>4, ConstantsAssumption DEF IInv, LinkRead, At, HandlesOwned, TypeOK,
       GlobalsHeld, Holding, CompilePlaces, EitherPlaces, globals, handles, image
  <2>3. LocksHeld'
    BY <1>4, ConstantsAssumption DEF IInv, LinkRead, At, LocksHeld, TypeOK,
       HandlesOwned, Holding, globals, handles, image
  <2>4. ImagesPlaced' /\ ListSound'
    BY <1>4, ConstantsAssumption DEF IInv, LinkRead, At, ImagesPlaced, ListSound,
       TypeOK, HandlesOwned, LocksHeld, Unlinked, globals, handles, image
  <2>5. GlobalsHeld' /\ GlobalsClean'
    BY <1>4, ConstantsAssumption DEF IInv, LinkRead, At, GlobalsHeld, GlobalsClean,
       TypeOK, LocksHeld, HandlesOwned, Holding, JumpBufferLive, globals, handles,
       image
  <2>6. JumpBufferLive'
    <3>1. SameCompilers
      BY <1>4 DEF LinkRead, At, IInv, TypeOK, globals, handles, image, Compiling,
         SameCompilers, OfCompiler
    <3>2. QED
      BY <1>4, <3>1, JumpsKept DEF IInv, LinkRead, At, globals, handles, image
  <2>7. FramesOpen'
    BY <1>4, ConstantsAssumption DEF IInv, LinkRead, At, FramesOpen, TypeOK, globals,
       handles, image
  <2>8. InputOpen' /\ FramesInsideFiles'
    BY <1>4, ConstantsAssumption DEF IInv, LinkRead, At, InputOpen,
       FramesInsideFiles, TypeOK, LocksHeld, GlobalsClean, Holding, HandlesOwned,
       globals, handles, image
  <2>9. QED
    BY <2>1, <2>2, <2>3, <2>4, <2>5, <2>6, <2>7, <2>8 DEF IInv
<1>5. CASE LinkWrite(t)
  <2>1. CASE doing[t] = "run"
    <3>1. TypeOK'
      <4>1. cur[t] \in States
        BY <1>5, <2>1, ConstantsAssumption DEF IInv, LinkWrite, Returned,
           HandlesOwned, TypeOK
      <4>2. QED
        BY <1>5, <2>1, <4>1, ConstantsAssumption DEF IInv, LinkWrite, Returned,
           TypeOK, Places, Holding, Calls, globals, handles, image
    <3>2. HandlesOwned'
      BY <1>5, <2>1, ConstantsAssumption DEF IInv, LinkWrite, Returned, HandlesOwned,
         TypeOK, GlobalsHeld, Holding, CompilePlaces, EitherPlaces, globals, handles,
         image
    <3>3. LocksHeld'
      BY <1>5, <2>1, ConstantsAssumption DEF IInv, LinkWrite, Returned, LocksHeld,
         TypeOK, HandlesOwned, Holding, globals, handles, image
    <3>4. ImagesPlaced' /\ ListSound'
      BY <1>5, <2>1, ConstantsAssumption DEF IInv, LinkWrite, Returned, ImagesPlaced,
         ListSound, TypeOK, HandlesOwned, LocksHeld, Unlinked, globals, handles,
         image
    <3>5. GlobalsHeld' /\ GlobalsClean'
      BY <1>5, <2>1, ConstantsAssumption DEF IInv, LinkWrite, Returned, GlobalsHeld,
         GlobalsClean, TypeOK, LocksHeld, HandlesOwned, Holding, JumpBufferLive,
         globals, handles, image
    <3>6. JumpBufferLive'
      <4>1. SameCompilers
        BY <1>5, <2>1 DEF LinkWrite, Returned, IInv, TypeOK, globals, handles, image,
           Compiling, SameCompilers, OfCompiler
      <4>2. QED
        BY <1>5, <2>1, <4>1, JumpsKept DEF IInv, LinkWrite, Returned, globals,
           handles, image
    <3>7. FramesOpen'
      BY <1>5, <2>1, ConstantsAssumption DEF IInv, LinkWrite, Returned, FramesOpen,
         TypeOK, globals, handles, image
    <3>8. InputOpen' /\ FramesInsideFiles'
      BY <1>5, <2>1, ConstantsAssumption DEF IInv, LinkWrite, Returned, InputOpen,
         FramesInsideFiles, TypeOK, LocksHeld, GlobalsClean, Holding, HandlesOwned,
         globals, handles, image
    <3>9. QED
      BY <3>1, <3>2, <3>3, <3>4, <3>5, <3>6, <3>7, <3>8 DEF IInv
  <2>2. CASE ~(doing[t] = "run")
    <3>1. pc[t] = "linking" /\ Returned(t)
      BY <1>5, <2>2 DEF LinkWrite
    <3>2. g_s1' = rest[t] \cup {cur[t]} /\ rest' = [rest EXCEPT ![t] = {}] /\ rt_sem' = NoThread
      BY <1>5, <2>2 DEF LinkWrite
    <3>3. UNCHANGED <<compile_sem, globals, handles, frames>>
      BY <1>5, <2>2 DEF LinkWrite
    <3>4. TypeOK'
      <4>1. cur[t] \in States
        BY <3>1, <3>2, <3>3, ConstantsAssumption DEF IInv, Returned,
           HandlesOwned, TypeOK
      <4>2. QED
        BY <3>1, <3>2, <3>3, <4>1, ConstantsAssumption DEF IInv, Returned,
           TypeOK, Places, Holding, Calls, globals, handles, image
    <3>5. HandlesOwned'
      BY <3>1, <3>2, <3>3, ConstantsAssumption DEF IInv, Returned,
         HandlesOwned, TypeOK, GlobalsHeld, Holding, CompilePlaces, EitherPlaces,
         globals, handles, image
    <3>6. LocksHeld'
      BY <3>1, <3>2, <3>3, ConstantsAssumption DEF IInv, Returned,
         LocksHeld, TypeOK, HandlesOwned, Holding, globals, handles, image
    <3>7. ImagesPlaced' /\ ListSound'
      BY <3>1, <3>2, <3>3, ConstantsAssumption DEF IInv, Returned,
         ImagesPlaced, ListSound, TypeOK, HandlesOwned, LocksHeld, Unlinked, globals,
         handles, image
    <3>8. GlobalsHeld' /\ GlobalsClean'
      BY <3>1, <3>2, <3>3, ConstantsAssumption DEF IInv, Returned,
         GlobalsHeld, GlobalsClean, TypeOK, LocksHeld, HandlesOwned, Holding,
         JumpBufferLive, globals, handles, image
    <3>9. JumpBufferLive'
      <4>1. SameCompilers
        BY <3>1, <3>2, <3>3 DEF Returned, IInv, TypeOK, globals, handles,
           image, Compiling, SameCompilers, OfCompiler
      <4>2. QED
        BY <3>1, <3>2, <3>3, <4>1, JumpsKept DEF IInv, Returned, globals,
           handles, image
    <3>10. FramesOpen'
      BY <3>1, <3>2, <3>3, ConstantsAssumption DEF IInv, Returned,
         FramesOpen, TypeOK, globals, handles, image
    <3>11. InputOpen' /\ FramesInsideFiles'
      BY <3>1, <3>2, <3>3, ConstantsAssumption DEF IInv, Returned,
         InputOpen, FramesInsideFiles, TypeOK, LocksHeld, GlobalsClean, Holding,
         HandlesOwned, globals, handles, image
    <3>12. QED
      BY <3>4, <3>5, <3>6, <3>7, <3>8, <3>9, <3>10, <3>11 DEF IInv
  <2>3. QED
    BY <2>1, <2>2
<1>6. CASE Run(t)
  <2>1. TypeOK'
    <3>1. cur[t] \in States
      BY <1>6, ConstantsAssumption DEF IInv, Run, At, HandlesOwned, TypeOK
    <3>2. QED
      BY <1>6, <3>1, ConstantsAssumption DEF IInv, Run, At, TypeOK, Places, Holding,
         Calls, globals, handles, image
  <2>2. HandlesOwned'
    BY <1>6, ConstantsAssumption DEF IInv, Run, At, HandlesOwned, TypeOK,
       GlobalsHeld, Holding, CompilePlaces, EitherPlaces, globals, handles, image
  <2>3. LocksHeld'
    BY <1>6, ConstantsAssumption DEF IInv, Run, At, LocksHeld, TypeOK, HandlesOwned,
       Holding, globals, handles, image
  <2>4. ImagesPlaced' /\ ListSound'
    BY <1>6, ConstantsAssumption DEF IInv, Run, At, ImagesPlaced, ListSound, TypeOK,
       HandlesOwned, LocksHeld, Unlinked, globals, handles, image
  <2>5. GlobalsHeld' /\ GlobalsClean'
    BY <1>6, ConstantsAssumption DEF IInv, Run, At, GlobalsHeld, GlobalsClean,
       TypeOK, LocksHeld, HandlesOwned, Holding, JumpBufferLive, globals, handles,
       image
  <2>6. JumpBufferLive'
    <3>1. SameCompilers
      BY <1>6 DEF Run, At, IInv, TypeOK, globals, handles, image, Compiling,
         SameCompilers, OfCompiler
    <3>2. QED
      BY <1>6, <3>1, JumpsKept DEF IInv, Run, At, globals, handles, image
  <2>7. FramesOpen'
    BY <1>6, ConstantsAssumption DEF IInv, Run, At, FramesOpen, TypeOK, globals,
       handles, image
  <2>8. InputOpen' /\ FramesInsideFiles'
    BY <1>6, ConstantsAssumption DEF IInv, Run, At, InputOpen, FramesInsideFiles,
       TypeOK, LocksHeld, GlobalsClean, Holding, HandlesOwned, globals, handles,
       image
  <2>9. QED
    BY <2>1, <2>2, <2>3, <2>4, <2>5, <2>6, <2>7, <2>8 DEF IInv
<1>7. ASSUME NEW s \in States \cup {NoState}, CodeCalls(t, s)
      PROVE  IInv'
  <2>1. TypeOK'
    BY <1>7, ConstantsAssumption DEF IInv, CodeCalls, Callable, Linked, TypeOK,
       Places, Holding, Calls, globals, handles, image
  <2>2. HandlesOwned'
    BY <1>7, ConstantsAssumption DEF IInv, CodeCalls, Callable, Linked, HandlesOwned,
       TypeOK, GlobalsHeld, Holding, CompilePlaces, EitherPlaces, globals, handles,
       image
  <2>3. LocksHeld'
    BY <1>7, ConstantsAssumption DEF IInv, CodeCalls, Callable, Linked, LocksHeld,
       TypeOK, HandlesOwned, Holding, globals, handles, image
  <2>4. ImagesPlaced' /\ ListSound'
    BY <1>7, ConstantsAssumption DEF IInv, CodeCalls, Callable, Linked, ImagesPlaced,
       ListSound, TypeOK, HandlesOwned, LocksHeld, Unlinked, globals, handles, image
  <2>5. GlobalsHeld' /\ GlobalsClean'
    BY <1>7, ConstantsAssumption DEF IInv, CodeCalls, Callable, Linked, GlobalsHeld,
       GlobalsClean, TypeOK, LocksHeld, HandlesOwned, Holding, JumpBufferLive,
       globals, handles, image
  <2>6. JumpBufferLive'
    <3>1. SameCompilers
      BY <1>7 DEF CodeCalls, Callable, Linked, IInv, TypeOK, globals, handles, image,
         Compiling, SameCompilers, OfCompiler
    <3>2. QED
      BY <1>7, <3>1, JumpsKept DEF IInv, CodeCalls, Callable, Linked, globals,
         handles, image
  <2>7. FramesOpen'
    BY <1>7, ConstantsAssumption DEF IInv, CodeCalls, Callable, Linked, FramesOpen,
       TypeOK, globals, handles, image
  <2>8. InputOpen' /\ FramesInsideFiles'
    BY <1>7, ConstantsAssumption DEF IInv, CodeCalls, Callable, Linked, InputOpen,
       FramesInsideFiles, TypeOK, LocksHeld, GlobalsClean, Holding, HandlesOwned,
       globals, handles, image
  <2>9. QED
    BY <2>1, <2>2, <2>3, <2>4, <2>5, <2>6, <2>7, <2>8 DEF IInv
<1>8. CASE CodeReturns(t)
  <2>1. CASE Len(frames[t]) > 1
    <3>1. TypeOK'
      <4>1. frames[t] # <<>>
        BY <1>8, <2>1, ConstantsAssumption DEF IInv, CodeReturns, Returned,
           FramesOpen, TypeOK
      <4>2. Tail(frames[t]) \in Seq(States \cup {NoState})
        BY <4>1 DEF IInv, TypeOK
      <4>3. QED
        BY <1>8, <2>1, <4>2 DEF IInv, CodeReturns, Returned, TypeOK, Places, Holding,
           Calls, globals, handles, image
    <3>2. HandlesOwned'
      BY <1>8, <2>1, ConstantsAssumption DEF IInv, CodeReturns, Returned,
         HandlesOwned, TypeOK, GlobalsHeld, Holding, CompilePlaces, EitherPlaces,
         globals, handles, image
    <3>3. LocksHeld'
      BY <1>8, <2>1, ConstantsAssumption DEF IInv, CodeReturns, Returned, LocksHeld,
         TypeOK, HandlesOwned, Holding, globals, handles, image
    <3>4. ImagesPlaced' /\ ListSound'
      BY <1>8, <2>1, ConstantsAssumption DEF IInv, CodeReturns, Returned,
         ImagesPlaced, ListSound, TypeOK, HandlesOwned, LocksHeld, Unlinked, globals,
         handles, image
    <3>5. GlobalsHeld' /\ GlobalsClean'
      BY <1>8, <2>1, ConstantsAssumption DEF IInv, CodeReturns, Returned,
         GlobalsHeld, GlobalsClean, TypeOK, LocksHeld, HandlesOwned, Holding,
         JumpBufferLive, globals, handles, image
    <3>6. JumpBufferLive'
      <4>1. SameCompilers
        BY <1>8, <2>1 DEF CodeReturns, Returned, IInv, TypeOK, globals, handles,
           image, Compiling, SameCompilers, OfCompiler
      <4>2. QED
        BY <1>8, <2>1, <4>1, JumpsKept DEF IInv, CodeReturns, Returned, globals,
           handles, image
    <3>7. FramesOpen'
      <4>1. frames[t] # <<>>
        BY <1>8, <2>1 DEF IInv, CodeReturns, Returned, FramesOpen
      <4>2. frames[t] \in Seq(States \cup {NoState})
        BY DEF IInv, TypeOK
      <4>3. Tail(frames[t]) # <<>>
        BY <4>1, <4>2, <2>1, TailOfMore
      <4>4. frames'[t] = Tail(frames[t]) /\ \A u \in Threads \ {t} : frames'[u] = frames[u]
        BY <1>8, <2>1 DEF IInv, CodeReturns, Returned, TypeOK
      <4>5. QED
        BY <1>8, <2>1, <4>3, <4>4 DEF IInv, CodeReturns, Returned, FramesOpen, TypeOK
    <3>8. InputOpen' /\ FramesInsideFiles'
      BY <1>8, <2>1, ConstantsAssumption DEF IInv, CodeReturns, Returned, InputOpen,
         FramesInsideFiles, TypeOK, LocksHeld, GlobalsClean, Holding, HandlesOwned,
         globals, handles, image
    <3>9. QED
      BY <3>1, <3>2, <3>3, <3>4, <3>5, <3>6, <3>7, <3>8 DEF IInv
  <2>2. CASE ~(Len(frames[t]) > 1)
    <3>1. pc[t] = "image" /\ Returned(t)
      BY <1>8, <2>2 DEF CodeReturns
    <3>2. frames' = [frames EXCEPT ![t] = Tail(@)]
      BY <1>8, <2>2 DEF CodeReturns
    <3>3. UNCHANGED <<compile_sem, globals, handles, g_s1, rt_sem, rest>>
      BY <1>8, <2>2 DEF CodeReturns
    <3>4. TypeOK'
      <4>1. frames[t] # <<>>
        BY <3>1, <3>2, <3>3, ConstantsAssumption DEF IInv, Returned,
           FramesOpen, TypeOK
      <4>2. Tail(frames[t]) \in Seq(States \cup {NoState})
        BY <4>1 DEF IInv, TypeOK
      <4>3. QED
        BY <3>1, <3>2, <3>3, <4>2 DEF IInv, Returned, TypeOK, Places,
           Holding, Calls, globals, handles, image
    <3>5. HandlesOwned'
      BY <3>1, <3>2, <3>3, ConstantsAssumption DEF IInv, Returned,
         HandlesOwned, TypeOK, GlobalsHeld, Holding, CompilePlaces, EitherPlaces,
         globals, handles, image
    <3>6. LocksHeld'
      BY <3>1, <3>2, <3>3, ConstantsAssumption DEF IInv, Returned,
         LocksHeld, TypeOK, HandlesOwned, Holding, globals, handles, image
    <3>7. ImagesPlaced' /\ ListSound'
      BY <3>1, <3>2, <3>3, ConstantsAssumption DEF IInv, Returned,
         ImagesPlaced, ListSound, TypeOK, HandlesOwned, LocksHeld, Unlinked, globals,
         handles, image
    <3>8. GlobalsHeld' /\ GlobalsClean'
      BY <3>1, <3>2, <3>3, ConstantsAssumption DEF IInv, Returned,
         GlobalsHeld, GlobalsClean, TypeOK, LocksHeld, HandlesOwned, Holding,
         JumpBufferLive, globals, handles, image
    <3>9. JumpBufferLive'
      <4>1. SameCompilers
        BY <3>1, <3>2, <3>3 DEF Returned, IInv, TypeOK, globals,
           handles, image, Compiling, SameCompilers, OfCompiler
      <4>2. QED
        BY <3>1, <3>2, <3>3, <4>1, JumpsKept DEF IInv, Returned,
           globals, handles, image
    <3>10. FramesOpen'
      <4>1. frames[t] # <<>>
        BY <3>1, <3>2, <3>3 DEF IInv, Returned, FramesOpen
      <4>2. frames[t] \in Seq(States \cup {NoState})
        BY DEF IInv, TypeOK
      <4>3. Tail(frames[t]) = <<>>
        BY <4>1, <4>2, <2>2, TailOfOne
      <4>4. frames'[t] = Tail(frames[t]) /\ \A u \in Threads \ {t} : frames'[u] = frames[u]
        BY <3>1, <3>2, <3>3 DEF IInv, Returned, TypeOK
      <4>5. QED
        BY <3>1, <3>2, <3>3, <4>3, <4>4 DEF IInv, Returned, FramesOpen,
           TypeOK
    <3>11. InputOpen' /\ FramesInsideFiles'
      BY <3>1, <3>2, <3>3, ConstantsAssumption DEF IInv, Returned,
         InputOpen, FramesInsideFiles, TypeOK, LocksHeld, GlobalsClean, Holding,
         HandlesOwned, globals, handles, image
    <3>12. QED
      BY <3>4, <3>5, <3>6, <3>7, <3>8, <3>9, <3>10, <3>11 DEF IInv
  <2>3. QED
    BY <2>1, <2>2
<1>9. CASE RtExit(t)
  <2>1. TypeOK'
    BY <1>9, ConstantsAssumption DEF IInv, RtExit, At, TypeOK, Places, Holding,
       Calls, globals, handles, image
  <2>2. HandlesOwned'
    BY <1>9, ConstantsAssumption DEF IInv, RtExit, At, HandlesOwned, TypeOK,
       GlobalsHeld, Holding, CompilePlaces, EitherPlaces, globals, handles, image
  <2>3. LocksHeld'
    BY <1>9, ConstantsAssumption DEF IInv, RtExit, At, LocksHeld, TypeOK,
       HandlesOwned, Holding, globals, handles, image
  <2>4. ImagesPlaced' /\ ListSound'
    BY <1>9, ConstantsAssumption DEF IInv, RtExit, At, ImagesPlaced, ListSound,
       TypeOK, HandlesOwned, LocksHeld, Unlinked, globals, handles, image
  <2>5. GlobalsHeld' /\ GlobalsClean'
    BY <1>9, ConstantsAssumption DEF IInv, RtExit, At, GlobalsHeld, GlobalsClean,
       TypeOK, LocksHeld, HandlesOwned, Holding, JumpBufferLive, globals, handles,
       image
  <2>6. JumpBufferLive'
    <3>1. SameCompilers
      BY <1>9 DEF RtExit, At, IInv, TypeOK, globals, handles, image, Compiling,
         SameCompilers, OfCompiler
    <3>2. QED
      BY <1>9, <3>1, JumpsKept DEF IInv, RtExit, At, globals, handles, image
  <2>7. FramesOpen'
    BY <1>9, ConstantsAssumption DEF IInv, RtExit, At, FramesOpen, TypeOK, globals,
       handles, image
  <2>8. InputOpen' /\ FramesInsideFiles'
    BY <1>9, ConstantsAssumption DEF IInv, RtExit, At, InputOpen, FramesInsideFiles,
       TypeOK, LocksHeld, GlobalsClean, Holding, HandlesOwned, globals, handles,
       image
  <2>9. QED
    BY <2>1, <2>2, <2>3, <2>4, <2>5, <2>6, <2>7, <2>8 DEF IInv
<1>10. CASE RtJump(t)
  <2>1. TypeOK'
    BY <1>10, ConstantsAssumption DEF IInv, RtJump, Returned, TypeOK, Places,
       Holding, Calls, globals, handles, image
  <2>2. HandlesOwned'
    BY <1>10, ConstantsAssumption DEF IInv, RtJump, Returned, HandlesOwned, TypeOK,
       GlobalsHeld, Holding, CompilePlaces, EitherPlaces, globals, handles, image
  <2>3. LocksHeld'
    BY <1>10, ConstantsAssumption DEF IInv, RtJump, Returned, LocksHeld, TypeOK,
       HandlesOwned, Holding, globals, handles, image
  <2>4. ImagesPlaced' /\ ListSound'
    BY <1>10, ConstantsAssumption DEF IInv, RtJump, Returned, ImagesPlaced,
       ListSound, TypeOK, HandlesOwned, LocksHeld, Unlinked, globals, handles, image
  <2>5. GlobalsHeld' /\ GlobalsClean'
    BY <1>10, ConstantsAssumption DEF IInv, RtJump, Returned, GlobalsHeld,
       GlobalsClean, TypeOK, LocksHeld, HandlesOwned, Holding, JumpBufferLive,
       globals, handles, image
  <2>6. JumpBufferLive'
    <3>1. SameCompilers
      BY <1>10 DEF RtJump, Returned, IInv, TypeOK, globals, handles, image,
         Compiling, SameCompilers, OfCompiler
    <3>2. QED
      BY <1>10, <3>1, JumpsKept DEF IInv, RtJump, Returned, globals, handles, image
  <2>7. FramesOpen'
    BY <1>10, ConstantsAssumption DEF IInv, RtJump, Returned, FramesOpen, TypeOK,
       globals, handles, image
  <2>8. InputOpen' /\ FramesInsideFiles'
    BY <1>10, ConstantsAssumption DEF IInv, RtJump, Returned, InputOpen,
       FramesInsideFiles, TypeOK, LocksHeld, GlobalsClean, Holding, HandlesOwned,
       globals, handles, image
  <2>9. QED
    BY <2>1, <2>2, <2>3, <2>4, <2>5, <2>6, <2>7, <2>8 DEF IInv
<1>11. CASE RtEndsHost(t)
  <2>1. TypeOK'
    BY <1>11, ConstantsAssumption DEF IInv, RtEndsHost, TypeOK, Places, Holding,
       Calls, globals, handles, image
  <2>2. HandlesOwned'
    BY <1>11, ConstantsAssumption DEF IInv, RtEndsHost, HandlesOwned, TypeOK,
       GlobalsHeld, Holding, CompilePlaces, EitherPlaces, globals, handles, image
  <2>3. LocksHeld'
    BY <1>11, ConstantsAssumption DEF IInv, RtEndsHost, LocksHeld, TypeOK,
       HandlesOwned, Holding, globals, handles, image
  <2>4. ImagesPlaced' /\ ListSound'
    BY <1>11, ConstantsAssumption DEF IInv, RtEndsHost, ImagesPlaced, ListSound,
       TypeOK, HandlesOwned, LocksHeld, Unlinked, globals, handles, image
  <2>5. GlobalsHeld' /\ GlobalsClean'
    BY <1>11, ConstantsAssumption DEF IInv, RtEndsHost, GlobalsHeld, GlobalsClean,
       TypeOK, LocksHeld, HandlesOwned, Holding, JumpBufferLive, globals, handles,
       image
  <2>6. JumpBufferLive'
    BY <1>11, ConstantsAssumption DEF IInv, RtEndsHost, JumpBufferLive, TypeOK,
       Compiling, HandlesOwned, globals, handles, image
  <2>7. FramesOpen'
    BY <1>11, ConstantsAssumption DEF IInv, RtEndsHost, FramesOpen, TypeOK, globals,
       handles, image
  <2>8. InputOpen' /\ FramesInsideFiles'
    BY <1>11, ConstantsAssumption DEF IInv, RtEndsHost, InputOpen, FramesInsideFiles,
       TypeOK, LocksHeld, GlobalsClean, Holding, HandlesOwned, globals, handles,
       image
  <2>9. QED
    BY <2>1, <2>2, <2>3, <2>4, <2>5, <2>6, <2>7, <2>8 DEF IInv
<1>12. CASE Unlink(t)
  <2>1. TypeOK'
    BY <1>12, ConstantsAssumption DEF IInv, Unlink, At, TypeOK, Places, Holding,
       Calls, globals, handles, image
  <2>2. HandlesOwned'
    BY <1>12, ConstantsAssumption DEF IInv, Unlink, At, HandlesOwned, TypeOK,
       GlobalsHeld, Holding, CompilePlaces, EitherPlaces, globals, handles, image
  <2>3. LocksHeld'
    BY <1>12, ConstantsAssumption DEF IInv, Unlink, At, LocksHeld, TypeOK,
       HandlesOwned, Holding, globals, handles, image
  <2>4. ImagesPlaced' /\ ListSound'
    BY <1>12, ConstantsAssumption DEF IInv, Unlink, At, ImagesPlaced, ListSound,
       TypeOK, HandlesOwned, LocksHeld, Unlinked, globals, handles, image
  <2>5. GlobalsHeld' /\ GlobalsClean'
    BY <1>12, ConstantsAssumption DEF IInv, Unlink, At, GlobalsHeld, GlobalsClean,
       TypeOK, LocksHeld, HandlesOwned, Holding, JumpBufferLive, globals, handles,
       image
  <2>6. JumpBufferLive'
    <3>1. SameCompilers
      BY <1>12 DEF Unlink, At, IInv, TypeOK, globals, handles, image, Compiling,
         SameCompilers, OfCompiler
    <3>2. QED
      BY <1>12, <3>1, JumpsKept DEF IInv, Unlink, At, globals, handles, image
  <2>7. FramesOpen'
    BY <1>12, ConstantsAssumption DEF IInv, Unlink, At, FramesOpen, TypeOK, globals,
       handles, image
  <2>8. InputOpen' /\ FramesInsideFiles'
    BY <1>12, ConstantsAssumption DEF IInv, Unlink, At, InputOpen, FramesInsideFiles,
       TypeOK, LocksHeld, GlobalsClean, Holding, HandlesOwned, globals, handles,
       image
  <2>9. QED
    BY <2>1, <2>2, <2>3, <2>4, <2>5, <2>6, <2>7, <2>8 DEF IInv
<1>13. CASE FreeState(t)
  <2>1. TypeOK'
    BY <1>13, ConstantsAssumption DEF IInv, FreeState, Returned, TypeOK, Places,
       Holding, Calls, globals, handles, image
  <2>2. HandlesOwned'
    BY <1>13, ConstantsAssumption DEF IInv, FreeState, Returned, HandlesOwned,
       TypeOK, GlobalsHeld, Holding, CompilePlaces, EitherPlaces, globals, handles,
       image
  <2>3. LocksHeld'
    BY <1>13, ConstantsAssumption DEF IInv, FreeState, Returned, LocksHeld, TypeOK,
       HandlesOwned, Holding, globals, handles, image
  <2>4. ImagesPlaced' /\ ListSound'
    BY <1>13, ConstantsAssumption DEF IInv, FreeState, Returned, ImagesPlaced,
       ListSound, TypeOK, HandlesOwned, LocksHeld, Unlinked, globals, handles, image
  <2>5. GlobalsHeld' /\ GlobalsClean'
    BY <1>13, ConstantsAssumption DEF IInv, FreeState, Returned, GlobalsHeld,
       GlobalsClean, TypeOK, LocksHeld, HandlesOwned, Holding, JumpBufferLive,
       globals, handles, image
  <2>6. JumpBufferLive'
    <3>1. SameCompilers
      BY <1>13 DEF FreeState, Returned, IInv, TypeOK, globals, handles, image,
         Compiling, SameCompilers, OfCompiler
    <3>2. QED
      BY <1>13, <3>1, JumpsKept DEF IInv, FreeState, Returned, globals, handles,
         image
  <2>7. FramesOpen'
    BY <1>13, ConstantsAssumption DEF IInv, FreeState, Returned, FramesOpen, TypeOK,
       globals, handles, image
  <2>8. InputOpen' /\ FramesInsideFiles'
    BY <1>13, ConstantsAssumption DEF IInv, FreeState, Returned, InputOpen,
       FramesInsideFiles, TypeOK, LocksHeld, GlobalsClean, Holding, HandlesOwned,
       globals, handles, image
  <2>9. QED
    BY <2>1, <2>2, <2>3, <2>4, <2>5, <2>6, <2>7, <2>8 DEF IInv
<1>14. QED
  BY <1>1, <1>2, <1>3, <1>4, <1>5, <1>6, <1>7, <1>8, <1>9, <1>10, <1>11, <1>12, <1>13


(* Every step keeps the invariant. *)
LEMMA NextIInv == IInv /\ [Next]_vars => IInv'
<1>1. ASSUME IInv, Next
      PROVE  IInv'
  BY <1>1, CallsKeepIInv, LockStepsKeepIInv, CompilationKeepsIInv, ImageStepsKeepIInv
     DEF Next
<1>2. ASSUME IInv, UNCHANGED vars
      PROVE  IInv'
  BY <1>2
     DEF vars, globals, handles, image, IInv, TypeOK, HandlesOwned, LocksHeld,
         ImagesPlaced, GlobalsHeld, GlobalsClean, JumpBufferLive, InputOpen,
         FramesInsideFiles, ListSound, FramesOpen
<1>3. QED
  BY <1>1, <1>2

(* The invariant holds in every state of every behaviour. *)
LEMMA Invariance == Spec => []IInv
BY InitIInv, NextIInv, PTL DEF Spec

-----------------------------------------------------------------------------
-----------------------------------------------------------------------------
(* The code on the stacks, on top of IInv. *)

(* Which call leads where. *)
CallCourse(t) ==
    /\ pc[t] \in {"size", "place", "link", "linking"} => doing[t] \in {"relocate", "run"}
    /\ pc[t] = "linked" => doing[t] = "run"
    /\ pc[t] \in {"image", "jump"} => doing[t] \in {"run", "call"}

(* A stack ends in the code of the state its thread uses, for which        *)
(* cprime_run has filled run_jb.                                           *)
Bottom(t) ==
    pc[t] \in {"image", "jump"} =>
        /\ frames[t][Len(frames[t])] = cur[t]
        /\ doing[t] = "run" => run_lj[cur[t]]

(* A state whose code is on a stack is linked, and used by no other thread; *)
(* a filled run_jb among them is the one of the thread's own cprime_run,   *)
(* unless the host called into a program that cprime_run had returned from. *)
Stacked(t, s) ==
    OnStack(t, s) =>
        /\ s \in g_s1
        /\ \A u \in Threads : cur[u] = s => u = t
        /\ run_lj[s] => "stale" \in Races \/ (s = cur[t] /\ doing[t] = "run")

(* What rt_find_state has found. *)
Sought(t) ==
    pc[t] = "jump" =>
        /\ s1[t] # NoState => OnStack(t, s1[t])
        /\ AtHome(t) => s1[t] = cur[t]

StackInv ==
    \A t \in Threads :
        /\ CallCourse(t)
        /\ Bottom(t)
        /\ \A s \in States : Stacked(t, s)
        /\ Sought(t)

(* A step that leaves the stacks alone, and their threads; the thread that *)
(* takes it goes on with the state it had, or with one on no stack.        *)
StacksApart(t) ==
    /\ UNCHANGED frames
    /\ pc'[t] \notin {"image", "jump"}
    /\ \A u \in Threads \ {t} :
          pc'[u] = pc[u] /\ doing'[u] = doing[u] /\ cur'[u] = cur[u] /\ s1'[u] = s1[u]
    /\ cur'[t] = cur[t] \/ cur'[t] \notin States
          \/ \A u \in Threads : ~OnStack(u, cur'[t])
    /\ \A u \in Threads, s \in States :
          OnStack(u, s) /\ u # t => s \in g_s1' /\ run_lj'[s] = run_lj[s]

LEMMA StacksKept ==
    ASSUME IInv, IInv', StackInv, NEW t \in Threads, StacksApart(t), CallCourse(t)'
    PROVE  StackInv'
<1>1. \A u \in Threads : \A s : OnStack(u, s)' <=> OnStack(u, s)
  BY DEF StacksApart, OnStack
<1>2. \A u \in Threads : \A s : OnStack(u, s) => u # t
  BY DEF IInv, FramesOpen, OnStack, StacksApart
<1>3. ASSUME NEW u \in Threads
      PROVE  CallCourse(u)'
  BY <1>3 DEF StackInv, CallCourse, StacksApart
<1>4. ASSUME NEW u \in Threads
      PROVE  Bottom(u)'
  <2>1. CASE pc'[u] \in {"image", "jump"}
    <3>1. u # t
      BY <2>1 DEF StacksApart
    <3>2. frames'[u] = frames[u] /\ pc'[u] = pc[u] /\ doing'[u] = doing[u] /\ cur'[u] = cur[u]
      BY <3>1 DEF StacksApart
    <3>3. /\ frames[u][Len(frames[u])] = cur[u]
          /\ doing[u] = "run" => run_lj[cur[u]]
          /\ frames[u] # <<>>
      BY <2>1, <3>2 DEF StackInv, Bottom, IInv, FramesOpen
    <3>4. OnStack(u, cur[u]) /\ cur[u] \in States
      BY <2>1, <3>2, <3>3 DEF OnStack, IInv, TypeOK, ListSound
    <3>5. run_lj'[cur[u]] = run_lj[cur[u]]
      BY <3>1, <3>4 DEF StacksApart
    <3>6. QED
      BY <3>2, <3>3, <3>5 DEF Bottom
  <2>2. QED
    BY <2>1 DEF Bottom
<1>5. ASSUME NEW u \in Threads, NEW s \in States
      PROVE  Stacked(u, s)'
  <2>1. SUFFICES ASSUME OnStack(u, s)
                 PROVE  /\ s \in g_s1'
                        /\ \A v \in Threads : cur'[v] = s => v = u
                        /\ run_lj'[s] => "stale" \in Races \/ (s = cur'[u] /\ doing'[u] = "run")
    BY <1>1 DEF Stacked
  <2>2. u # t
    BY <1>2, <2>1
  <2>3. s \in g_s1' /\ run_lj'[s] = run_lj[s] /\ cur'[u] = cur[u] /\ doing'[u] = doing[u]
    BY <2>1, <2>2 DEF StacksApart
  <2>4. Stacked(u, s)
    BY DEF StackInv
  <2>5. ASSUME NEW v \in Threads, cur'[v] = s
        PROVE  v = u
    BY <2>1, <2>2, <2>4, <2>5 DEF StacksApart, Stacked
  <2>6. QED
    BY <2>1, <2>3, <2>4, <2>5 DEF Stacked
<1>6. ASSUME NEW u \in Threads
      PROVE  Sought(u)'
  <2>1. CASE pc'[u] = "jump"
    <3>1. u # t /\ frames' = frames
      BY <2>1 DEF StacksApart
    <3>2. pc'[u] = pc[u] /\ cur'[u] = cur[u] /\ s1'[u] = s1[u]
      BY <3>1 DEF StacksApart
    <3>3. AtHome(u)' <=> AtHome(u)
      BY <3>1, <3>2 DEF AtHome
    <3>4. Sought(u)
      BY DEF StackInv
    <3>5. QED
      BY <1>1, <2>1, <3>2, <3>3, <3>4 DEF Sought
  <2>2. QED
    BY <2>1 DEF Sought
<1>7. QED
  BY <1>3, <1>4, <1>5, <1>6 DEF StackInv

(* rt_find_state finds a state on the stack, or none; it finds the thread's *)
(* own where that is the first on the stack.                               *)
LEMMA WalkFinds ==
    ASSUME IInv, StackInv, NEW t \in Threads, pc[t] = "image",
           NEW walk \in Walks(t), NEW s \in States \cup {NoState}, RtFindState(walk, s)
    PROVE  /\ s # NoState => OnStack(t, s)
           /\ AtHome(t) => s = cur[t]
<1> DEFINE f == frames[t]
<1>1. /\ f \in Seq(States \cup {NoState}) /\ f # <<>> /\ f[Len(f)] = cur[t]
      /\ cur[t] \in g_s1
  BY DEF IInv, TypeOK, FramesOpen, StackInv, Bottom, ListSound
<1>2. NoState \notin g_s1
  BY ConstantsAssumption DEF IInv, TypeOK
<1>3. OnStack(t, cur[t])
  BY <1>1 DEF OnStack
<1>4. CASE \A x, y \in g_s1 : x = y
  <2>1. s = cur[t]
    BY <1>1, <1>4 DEF RtFindState, Linked
  <2>2. QED
    BY <1>3, <2>1
<1>5. CASE ~(\A x, y \in g_s1 : x = y)
  <2>1. \/ \E i \in DOMAIN walk :
             walk[i] = s /\ s \in g_s1 /\ \A j \in 1..(i - 1) : walk[j] \notin g_s1
        \/ s = NoState /\ \A i \in DOMAIN walk : walk[i] \notin g_s1
    BY <1>5 DEF RtFindState, Linked
  <2>2. /\ \A i \in DOMAIN walk : i \in DOMAIN f /\ walk[i] = f[i]
        /\ \/ \A i \in DOMAIN f : i <= Levels => i \in DOMAIN walk
           \/ f[1] # NoState /\ 1 \in DOMAIN walk
        /\ \A i \in DOMAIN walk : i \in Nat /\ i >= 1 /\ \A j \in 1..i : j \in DOMAIN walk
    <3>1. CASE walk = <<f[1]>> /\ f[1] # NoState
      BY <1>1, <3>1
    <3>2. ASSUME NEW n \in 0..Levels, n <= Len(f), n = Levels \/ n = Len(f),
                 walk = SubSeq(f, 1, n)
          PROVE  /\ DOMAIN walk = 1..n
                 /\ \A i \in 1..n : walk[i] = f[i]
                 /\ n \in Nat
                 /\ DOMAIN f = 1..Len(f)
      BY <1>1, <3>2, ConstantsAssumption
    <3>3. ASSUME NEW n \in 0..Levels, n <= Len(f), n = Levels \/ n = Len(f),
                 walk = SubSeq(f, 1, n)
          PROVE  <2>2!1 /\ <2>2!2 /\ <2>2!3
      BY <1>1, <3>2, <3>3, ConstantsAssumption
    <3>4. QED
      BY <3>1, <3>3 DEF Walks
  <2>3. s # NoState => OnStack(t, s)
    BY <2>1, <2>2 DEF OnStack
  <2>4. ASSUME AtHome(t)
        PROVE  s = cur[t]
    <3>1. PICK h \in DOMAIN f : /\ h <= Levels /\ f[h] = cur[t]
                                /\ \A j \in 1..(h - 1) : f[j] = NoState
      BY <2>4 DEF AtHome
    <3>2. h \in Nat /\ h >= 1
      BY <1>1
    <3>3. h \in DOMAIN walk
      <4>1. CASE \A i \in DOMAIN f : i <= Levels => i \in DOMAIN walk
        BY <3>1, <4>1
      <4>2. CASE f[1] # NoState /\ 1 \in DOMAIN walk
        BY <3>1, <3>2, <4>2
      <4>3. QED
        BY <2>2, <4>1, <4>2
    <3>4. walk[h] \in g_s1
      BY <1>1, <2>2, <3>1, <3>3
    <3>5. PICK i \in DOMAIN walk :
             walk[i] = s /\ s \in g_s1 /\ \A j \in 1..(i - 1) : walk[j] \notin g_s1
      BY <2>1, <3>3, <3>4
    <3>6. i \in Nat /\ i >= 1 /\ f[i] = s
      BY <2>2, <3>5
    <3>7. ~(h < i)
      BY <3>2, <3>4, <3>5, <3>6
    <3>8. ~(i < h)
      BY <1>2, <3>1, <3>2, <3>5, <3>6
    <3>9. i = h
      BY <3>2, <3>6, <3>7, <3>8
    <3>10. QED
      BY <3>1, <3>6, <3>9
  <2>5. QED
    BY <2>3, <2>4
<1>6. QED
  BY <1>4, <1>5

(* A call other than of a function begins on a state on no stack. *)
LEMMA CallsKeepStacks ==
    ASSUME IInv, IInv', StackInv, NEW t \in Threads, NEW s \in States,
           New(t, s)
           \/ Compile(t, s)
           \/ Complain(t, s)
           \/ Relocate(t, s)
           \/ Delete(t, s)
    PROVE  StackInv'
<1>1. \A u \in Threads, x \in States : Stacked(u, x)
  BY DEF StackInv
<1>2. CallCourse(t)
  BY DEF StackInv
<1>3. CASE New(t, s)
  <2>1. StacksApart(t)
    <3>1. \A u \in Threads : ~OnStack(u, s)
      BY <1>1, <1>3 DEF New, Stacked, IInv, ListSound
    <3>2. \A x \in States : x # s => run_lj'[x] = run_lj[x]
      BY <1>3 DEF New, IInv, TypeOK
    <3>3. frames' = frames /\ g_s1' = g_s1 /\ UNCHANGED <<pc, doing, cur, s1>> /\ pc[t] = "idle"
      BY <1>3 DEF New, image
    <3>4. QED
      BY <1>1, <3>1, <3>2, <3>3 DEF StacksApart, Stacked
  <2>2. CallCourse(t)'
    BY <1>2, <1>3 DEF New, CallCourse, IInv, TypeOK, HandlesOwned, CompilePlaces,
       EitherPlaces, image
  <2>3. QED
    BY <2>1, <2>2, StacksKept
<1>4. CASE Compile(t, s)
  <2>1. StacksApart(t)
    BY <1>1, <1>4, ConstantsAssumption DEF Compile, Call, Free, At,
       StacksApart, Stacked, IInv, TypeOK, ListSound, globals, handles, image
  <2>2. CallCourse(t)'
    BY <1>2, <1>4 DEF Compile, Call, Free, At, CallCourse, IInv, TypeOK,
       HandlesOwned, CompilePlaces, EitherPlaces, image
  <2>3. QED
    BY <2>1, <2>2, StacksKept
<1>5. CASE Complain(t, s)
  <2>1. StacksApart(t)
    BY <1>1, <1>5, ConstantsAssumption DEF Complain, Call, Free, At,
       StacksApart, Stacked, IInv, TypeOK, ListSound, globals, handles, image
  <2>2. CallCourse(t)'
    BY <1>2, <1>5 DEF Complain, Call, Free, At, CallCourse, IInv, TypeOK,
       HandlesOwned, CompilePlaces, EitherPlaces, image
  <2>3. QED
    BY <2>1, <2>2, StacksKept
<1>6. CASE Relocate(t, s)
  <2>1. StacksApart(t)
    BY <1>1, <1>6, ConstantsAssumption DEF Relocate, Call, Free, At,
       StacksApart, Stacked, IInv, TypeOK, ListSound, globals, handles, image
  <2>2. CallCourse(t)'
    BY <1>2, <1>6 DEF Relocate, Call, Free, At, CallCourse, IInv, TypeOK,
       HandlesOwned, CompilePlaces, EitherPlaces, image
  <2>3. QED
    BY <2>1, <2>2, StacksKept
<1>7. CASE Delete(t, s)
  <2>1. StacksApart(t)
    BY <1>1, <1>7, ConstantsAssumption DEF Delete, Call, Free, At,
       StacksApart, Stacked, IInv, TypeOK, ListSound, globals, handles, image
  <2>2. CallCourse(t)'
    BY <1>2, <1>7 DEF Delete, Call, Free, At, CallCourse, IInv, TypeOK,
       HandlesOwned, CompilePlaces, EitherPlaces, image
  <2>3. QED
    BY <2>1, <2>2, StacksKept
<1>8. QED
  BY <1>3, <1>4, <1>5, <1>6, <1>7

(* Compiling, reporting and relocating do not touch the code on the stacks. *)
LEMMA CompilerKeepsStacks ==
    ASSUME IInv, IInv', StackInv, NEW t \in Threads,
           EnterWait(t)
           \/ EnterSet(t)
           \/ Diagnose(t)
           \/ ExitClear(t)
           \/ ExitPost(t)
           \/ Leave(t)
           \/ Describe(t)
           \/ Report(t)
           \/ StartCompile(t)
           \/ OpenFile(t)
           \/ CloseFile(t)
           \/ BeginMacro(t)
           \/ EndMacro(t)
           \/ BeginExpression(t)
           \/ EndExpression(t)
           \/ StackBuffer(t)
           \/ SoftError(t)
           \/ HardError(t)
           \/ EndOfInput(t)
           \/ Finish(t)
           \/ Unflag(t)
           \/ RelocateFails(t)
           \/ RelocateMem(t)
           \/ RelocatePlace(t)
           \/ LinkRead(t)
    PROVE  StackInv'
<1>1. \A u \in Threads, x \in States : Stacked(u, x)
  BY DEF StackInv
<1>2. CallCourse(t)
  BY DEF StackInv
<1>3. CASE EnterWait(t)
  <2>1. StacksApart(t)
    BY <1>1, <1>3, ConstantsAssumption DEF EnterWait, Entered, StacksApart, Stacked,
       IInv, TypeOK, ListSound, globals, handles, image
  <2>2. CallCourse(t)'
    BY <1>2, <1>3 DEF EnterWait, Entered, CallCourse, IInv, TypeOK, HandlesOwned,
       CompilePlaces, EitherPlaces, image
  <2>3. QED
    BY <2>1, <2>2, StacksKept
<1>4. CASE EnterSet(t)
  <2>1. StacksApart(t)
    BY <1>1, <1>4, ConstantsAssumption DEF EnterSet, At, Entered, StacksApart,
       Stacked, IInv, TypeOK, ListSound, globals, handles, image
  <2>2. CallCourse(t)'
    BY <1>2, <1>4 DEF EnterSet, At, Entered, CallCourse, IInv, TypeOK, HandlesOwned,
       CompilePlaces, EitherPlaces, image
  <2>3. QED
    BY <2>1, <2>2, StacksKept
<1>5. CASE Diagnose(t)
  <2>1. StacksApart(t)
    BY <1>1, <1>5, ConstantsAssumption DEF Diagnose, At, StacksApart, Stacked, IInv,
       TypeOK, ListSound, globals, handles, image
  <2>2. CallCourse(t)'
    BY <1>2, <1>5 DEF Diagnose, At, CallCourse, IInv, TypeOK, HandlesOwned,
       CompilePlaces, EitherPlaces, image
  <2>3. QED
    BY <2>1, <2>2, StacksKept
<1>6. CASE ExitClear(t)
  <2>1. StacksApart(t)
    BY <1>1, <1>6, ConstantsAssumption DEF ExitClear, StacksApart, Stacked, IInv,
       TypeOK, ListSound, globals, handles, image
  <2>2. CallCourse(t)'
    BY <1>2, <1>6 DEF ExitClear, CallCourse, IInv, TypeOK, HandlesOwned, CompilePlaces,
       EitherPlaces, image
  <2>3. QED
    BY <2>1, <2>2, StacksKept
<1>7. CASE ExitPost(t)
  <2>1. StacksApart(t)
    BY <1>1, <1>7, ConstantsAssumption DEF ExitPost, At, StacksApart, Stacked, IInv,
       TypeOK, ListSound, globals, handles, image
  <2>2. CallCourse(t)'
    BY <1>2, <1>7 DEF ExitPost, At, CallCourse, IInv, TypeOK, HandlesOwned,
       CompilePlaces, EitherPlaces, image
  <2>3. QED
    BY <2>1, <2>2, StacksKept
<1>8. CASE Leave(t)
  <2>1. StacksApart(t)
    BY <1>1, <1>8, ConstantsAssumption DEF Leave, Returned, StacksApart, Stacked,
       IInv, TypeOK, ListSound, globals, handles, image
  <2>2. CallCourse(t)'
    BY <1>2, <1>8 DEF Leave, Returned, CallCourse, IInv, TypeOK, HandlesOwned,
       CompilePlaces, EitherPlaces, image
  <2>3. QED
    BY <2>1, <2>2, StacksKept
<1>9. CASE Describe(t)
  <2>1. StacksApart(t)
    BY <1>1, <1>9, ConstantsAssumption DEF Describe, StacksApart, Stacked, IInv,
       TypeOK, ListSound, globals, handles, image
  <2>2. CallCourse(t)'
    BY <1>2, <1>9 DEF Describe, CallCourse, IInv, TypeOK, HandlesOwned, CompilePlaces,
       EitherPlaces, image
  <2>3. QED
    BY <2>1, <2>2, StacksKept
<1>10. CASE Report(t)
  <2>1. StacksApart(t)
    BY <1>1, <1>10, ConstantsAssumption DEF Report, Returned, StacksApart, Stacked,
       IInv, TypeOK, ListSound, globals, handles, image
  <2>2. CallCourse(t)'
    BY <1>2, <1>10 DEF Report, Returned, CallCourse, IInv, TypeOK, HandlesOwned,
       CompilePlaces, EitherPlaces, image
  <2>3. QED
    BY <2>1, <2>2, StacksKept
<1>11. CASE StartCompile(t)
  <2>1. StacksApart(t)
    BY <1>1, <1>11, ConstantsAssumption DEF StartCompile, At, StacksApart, Stacked,
       IInv, TypeOK, ListSound, globals, handles, image
  <2>2. CallCourse(t)'
    BY <1>2, <1>11 DEF StartCompile, At, CallCourse, IInv, TypeOK, HandlesOwned,
       CompilePlaces, EitherPlaces, image
  <2>3. QED
    BY <2>1, <2>2, StacksKept
<1>12. CASE OpenFile(t)
  <2>1. StacksApart(t)
    BY <1>1, <1>12, ConstantsAssumption DEF OpenFile, Parsing, StacksApart, Stacked,
       IInv, TypeOK, ListSound, globals, handles, image
  <2>2. CallCourse(t)'
    BY <1>2, <1>12 DEF OpenFile, Parsing, CallCourse, IInv, TypeOK, HandlesOwned,
       CompilePlaces, EitherPlaces, image
  <2>3. QED
    BY <2>1, <2>2, StacksKept
<1>13. CASE CloseFile(t)
  <2>1. StacksApart(t)
    BY <1>1, <1>13, ConstantsAssumption DEF CloseFile, Parsing, StacksApart, Stacked,
       IInv, TypeOK, ListSound, globals, handles, image
  <2>2. CallCourse(t)'
    BY <1>2, <1>13 DEF CloseFile, Parsing, CallCourse, IInv, TypeOK, HandlesOwned,
       CompilePlaces, EitherPlaces, image
  <2>3. QED
    BY <2>1, <2>2, StacksKept
<1>14. CASE BeginMacro(t)
  <2>1. StacksApart(t)
    BY <1>1, <1>14, ConstantsAssumption DEF BeginMacro, Parsing, StacksApart,
       Stacked, IInv, TypeOK, ListSound, globals, handles, image
  <2>2. CallCourse(t)'
    BY <1>2, <1>14 DEF BeginMacro, Parsing, CallCourse, IInv, TypeOK, HandlesOwned,
       CompilePlaces, EitherPlaces, image
  <2>3. QED
    BY <2>1, <2>2, StacksKept
<1>15. CASE EndMacro(t)
  <2>1. StacksApart(t)
    BY <1>1, <1>15, ConstantsAssumption DEF EndMacro, Parsing, StacksApart, Stacked,
       IInv, TypeOK, ListSound, globals, handles, image
  <2>2. CallCourse(t)'
    BY <1>2, <1>15 DEF EndMacro, Parsing, CallCourse, IInv, TypeOK, HandlesOwned,
       CompilePlaces, EitherPlaces, image
  <2>3. QED
    BY <2>1, <2>2, StacksKept
<1>16. CASE BeginExpression(t)
  <2>1. StacksApart(t)
    BY <1>1, <1>16, ConstantsAssumption DEF BeginExpression, Parsing, StacksApart,
       Stacked, IInv, TypeOK, ListSound, globals, handles, image
  <2>2. CallCourse(t)'
    BY <1>2, <1>16 DEF BeginExpression, Parsing, CallCourse, IInv, TypeOK, HandlesOwned,
       CompilePlaces, EitherPlaces, image
  <2>3. QED
    BY <2>1, <2>2, StacksKept
<1>17. CASE EndExpression(t)
  <2>1. StacksApart(t)
    BY <1>1, <1>17, ConstantsAssumption DEF EndExpression, Parsing, StacksApart,
       Stacked, IInv, TypeOK, ListSound, globals, handles, image
  <2>2. CallCourse(t)'
    BY <1>2, <1>17 DEF EndExpression, Parsing, CallCourse, IInv, TypeOK, HandlesOwned,
       CompilePlaces, EitherPlaces, image
  <2>3. QED
    BY <2>1, <2>2, StacksKept
<1>18. CASE StackBuffer(t)
  <2>1. StacksApart(t)
    BY <1>1, <1>18, ConstantsAssumption DEF StackBuffer, Parsing, StacksApart,
       Stacked, IInv, TypeOK, ListSound, globals, handles, image
  <2>2. CallCourse(t)'
    BY <1>2, <1>18 DEF StackBuffer, Parsing, CallCourse, IInv, TypeOK, HandlesOwned,
       CompilePlaces, EitherPlaces, image
  <2>3. QED
    BY <2>1, <2>2, StacksKept
<1>19. CASE SoftError(t)
  <2>1. StacksApart(t)
    BY <1>1, <1>19, ConstantsAssumption DEF SoftError, Parsing, StacksApart, Stacked,
       IInv, TypeOK, ListSound, globals, handles, image
  <2>2. CallCourse(t)'
    BY <1>2, <1>19 DEF SoftError, Parsing, CallCourse, IInv, TypeOK, HandlesOwned,
       CompilePlaces, EitherPlaces, image
  <2>3. QED
    BY <2>1, <2>2, StacksKept
<1>20. CASE HardError(t)
  <2>1. StacksApart(t)
    BY <1>1, <1>20, ConstantsAssumption DEF HardError, At, StacksApart, Stacked,
       IInv, TypeOK, ListSound, globals, handles, image
  <2>2. CallCourse(t)'
    BY <1>2, <1>20 DEF HardError, At, CallCourse, IInv, TypeOK, HandlesOwned,
       CompilePlaces, EitherPlaces, image
  <2>3. QED
    BY <2>1, <2>2, StacksKept
<1>21. CASE EndOfInput(t)
  <2>1. StacksApart(t)
    BY <1>1, <1>21, ConstantsAssumption DEF EndOfInput, At, StacksApart, Stacked,
       IInv, TypeOK, ListSound, globals, handles, image
  <2>2. CallCourse(t)'
    BY <1>2, <1>21 DEF EndOfInput, At, CallCourse, IInv, TypeOK, HandlesOwned,
       CompilePlaces, EitherPlaces, image
  <2>3. QED
    BY <2>1, <2>2, StacksKept
<1>22. CASE Finish(t)
  <2>1. StacksApart(t)
    BY <1>1, <1>22, ConstantsAssumption DEF Finish, At, StacksApart, Stacked, IInv,
       TypeOK, ListSound, globals, handles, image
  <2>2. CallCourse(t)'
    BY <1>2, <1>22 DEF Finish, At, CallCourse, IInv, TypeOK, HandlesOwned, CompilePlaces,
       EitherPlaces, image
  <2>3. QED
    BY <2>1, <2>2, StacksKept
<1>23. CASE Unflag(t)
  <2>1. StacksApart(t)
    BY <1>1, <1>23, ConstantsAssumption DEF Unflag, At, StacksApart, Stacked, IInv,
       TypeOK, ListSound, globals, handles, image
  <2>2. CallCourse(t)'
    BY <1>2, <1>23 DEF Unflag, At, CallCourse, IInv, TypeOK, HandlesOwned, CompilePlaces,
       EitherPlaces, image
  <2>3. QED
    BY <2>1, <2>2, StacksKept
<1>24. CASE RelocateFails(t)
  <2>1. StacksApart(t)
    BY <1>1, <1>24, ConstantsAssumption DEF RelocateFails, StacksApart, Stacked,
       IInv, TypeOK, ListSound, globals, handles, image
  <2>2. CallCourse(t)'
    BY <1>2, <1>24 DEF RelocateFails, CallCourse, IInv, TypeOK, HandlesOwned,
       CompilePlaces, EitherPlaces, image
  <2>3. QED
    BY <2>1, <2>2, StacksKept
<1>25. CASE RelocateMem(t)
  <2>1. StacksApart(t)
    BY <1>1, <1>25, ConstantsAssumption DEF RelocateMem, At, StacksApart, Stacked,
       IInv, TypeOK, ListSound, globals, handles, image
  <2>2. CallCourse(t)'
    BY <1>2, <1>25 DEF RelocateMem, At, CallCourse, IInv, TypeOK, HandlesOwned,
       CompilePlaces, EitherPlaces, image
  <2>3. QED
    BY <2>1, <2>2, StacksKept
<1>26. CASE RelocatePlace(t)
  <2>1. StacksApart(t)
    BY <1>1, <1>26, ConstantsAssumption DEF RelocatePlace, At, StacksApart, Stacked,
       IInv, TypeOK, ListSound, globals, handles, image
  <2>2. CallCourse(t)'
    BY <1>2, <1>26 DEF RelocatePlace, At, CallCourse, IInv, TypeOK, HandlesOwned,
       CompilePlaces, EitherPlaces, image
  <2>3. QED
    BY <2>1, <2>2, StacksKept
<1>27. CASE LinkRead(t)
  <2>1. StacksApart(t)
    BY <1>1, <1>27, ConstantsAssumption DEF LinkRead, At, StacksApart, Stacked, IInv,
       TypeOK, ListSound, globals, handles, image
  <2>2. CallCourse(t)'
    BY <1>2, <1>27 DEF LinkRead, At, CallCourse, IInv, TypeOK, HandlesOwned,
       CompilePlaces, EitherPlaces, image
  <2>3. QED
    BY <2>1, <2>2, StacksKept
<1>28. QED
  BY <1>3, <1>4, <1>5, <1>6, <1>7, <1>8, <1>9, <1>10, <1>11, <1>12, <1>13, <1>14,
     <1>15, <1>16, <1>17, <1>18, <1>19, <1>20, <1>21, <1>22, <1>23, <1>24, <1>25,
     <1>26, <1>27

(* The list grows and shrinks by states that are on no stack. *)
LEMMA ListKeepsStacks ==
    ASSUME IInv, IInv', StackInv, NEW t \in Threads,
           LinkWrite(t) \/ Unlink(t) \/ FreeState(t)
    PROVE  StackInv'
<1>1. \A u \in Threads, x \in States : Stacked(u, x)
  BY DEF StackInv
<1>2. CallCourse(t)
  BY DEF StackInv
<1>3. CASE LinkWrite(t)
  <2>1. rest[t] = g_s1 /\ g_s1 \subseteq g_s1'
    BY <1>3 DEF LinkWrite, IInv, LocksHeld
  <2>2. pc[t] = "linking" /\ pc' \in [Threads -> Places] /\ pc'[t] \in {"linked", "idle"}
    BY <1>3 DEF LinkWrite, Returned, IInv, TypeOK
  <2>3. frames' = frames /\ run_lj' = run_lj
    BY <1>3 DEF LinkWrite, handles
  <2>4. CASE doing[t] = "run"
    <3>1. UNCHANGED <<doing, cur, s1>> /\ pc' = [pc EXCEPT ![t] = "linked"]
      BY <1>3, <2>4 DEF LinkWrite
    <3>2. StacksApart(t)
      BY <1>1, <2>1, <2>2, <2>3, <3>1 DEF StacksApart, Stacked, IInv, TypeOK
    <3>3. CallCourse(t)'
      BY <2>4, <3>1 DEF CallCourse, IInv, TypeOK
    <3>4. QED
      BY <3>2, <3>3, StacksKept
  <2>5. CASE doing[t] # "run"
    <3>1. Returned(t)
      BY <1>3, <2>5 DEF LinkWrite
    <3>2. StacksApart(t)
      BY <1>1, <2>1, <2>2, <2>3, <3>1, ConstantsAssumption
         DEF StacksApart, Stacked, Returned, IInv, TypeOK
    <3>3. CallCourse(t)'
      BY <3>1 DEF CallCourse, Returned, IInv, TypeOK
    <3>4. QED
      BY <3>2, <3>3, StacksKept
  <2>6. QED
    BY <2>4, <2>5
<1>4. CASE Unlink(t)
  <2>1. StacksApart(t)
    BY <1>1, <1>4 DEF Unlink, At, StacksApart, Stacked, IInv, TypeOK, handles
  <2>2. CallCourse(t)'
    BY <1>4 DEF Unlink, At, CallCourse, IInv, TypeOK
  <2>3. QED
    BY <2>1, <2>2, StacksKept
<1>5. CASE FreeState(t)
  <2>1. StacksApart(t)
    BY <1>1, <1>5, ConstantsAssumption
       DEF FreeState, Returned, StacksApart, Stacked, IInv, TypeOK, image
  <2>2. CallCourse(t)'
    BY <1>5 DEF FreeState, Returned, CallCourse, IInv, TypeOK
  <2>3. QED
    BY <2>1, <2>2, StacksKept
<1>6. QED
  BY <1>3, <1>4, <1>5

(* A step that moves only the stack of t: the other stacks' threads and    *)
(* what is on them stay as they are.                                       *)
OthersKept(t) ==
    /\ \A u \in Threads \ {t} :
          /\ frames'[u] = frames[u] /\ pc'[u] = pc[u] /\ doing'[u] = doing[u]
          /\ cur'[u] = cur[u] /\ s1'[u] = s1[u]
    /\ g_s1' = g_s1
    /\ \A s \in States : s # cur[t] => run_lj'[s] = run_lj[s]
    /\ cur'[t] = cur[t] \/ cur'[t] \notin States \/ \A u \in Threads : ~OnStack(u, cur'[t])

LEMMA OtherStacks ==
    ASSUME IInv, IInv', StackInv, NEW t \in Threads, OthersKept(t), NEW u \in Threads, u # t
    PROVE  /\ CallCourse(u)' /\ Bottom(u)' /\ Sought(u)'
           /\ \A s \in States : Stacked(u, s)'
<1>1. \A s : OnStack(u, s)' <=> OnStack(u, s)
  BY DEF OthersKept, OnStack
<1>2. CallCourse(u) /\ Bottom(u) /\ Sought(u) /\ \A s \in States : Stacked(u, s)
  BY DEF StackInv
<1>3. AtHome(u)' <=> AtHome(u)
  BY DEF AtHome, OthersKept
<1>4. CallCourse(u)'
  BY <1>2 DEF CallCourse, OthersKept
<1>5. \A s \in States : OnStack(u, s) => s # cur[t]
  BY <1>2 DEF Stacked
<1>6. Bottom(u)'
  <2>1. CASE pc[u] \in {"image", "jump"}
    <3>1. cur[u] \in States /\ OnStack(u, cur[u])
      BY <1>2, <2>1 DEF Bottom, IInv, TypeOK, ListSound, FramesOpen, OnStack
    <3>2. run_lj'[cur[u]] = run_lj[cur[u]]
      BY <1>5, <3>1 DEF OthersKept
    <3>3. QED
      BY <1>2, <2>1, <3>2 DEF Bottom, OthersKept
  <2>2. CASE pc[u] \notin {"image", "jump"}
    BY <2>2 DEF Bottom, OthersKept
  <2>3. QED
    BY <2>1, <2>2
<1>7. ASSUME NEW s \in States
      PROVE  Stacked(u, s)'
  <2>1. SUFFICES ASSUME OnStack(u, s)
                 PROVE  /\ s \in g_s1'
                        /\ \A v \in Threads : cur'[v] = s => v = u
                        /\ run_lj'[s] => "stale" \in Races \/ (s = cur'[u] /\ doing'[u] = "run")
    BY <1>1 DEF Stacked
  <2>2. Stacked(u, s) /\ s # cur[t]
    BY <1>2, <1>5, <2>1
  <2>3. run_lj'[s] = run_lj[s] /\ g_s1' = g_s1 /\ cur'[u] = cur[u] /\ doing'[u] = doing[u]
    BY <2>2 DEF OthersKept
  <2>4. ASSUME NEW v \in Threads, cur'[v] = s
        PROVE  v = u
    BY <2>1, <2>2, <2>4 DEF OthersKept, Stacked
  <2>5. QED
    BY <2>1, <2>2, <2>3, <2>4 DEF Stacked
<1>8. Sought(u)'
  BY <1>1, <1>2, <1>3 DEF Sought, OthersKept
<1>9. QED
  BY <1>4, <1>6, <1>7, <1>8

LEMMA StackedOn ==
    ASSUME NEW S, NEW s \in S, NEW f \in Seq(S)
    PROVE  LET g == <<s>> \o f
           IN /\ f # <<>> => g[Len(g)] = f[Len(f)]
              /\ \A i \in DOMAIN g : g[i] = s \/ \E j \in DOMAIN f : g[i] = f[j]
<1> DEFINE g == <<s>> \o f
<1>1. Len(g) = Len(f) + 1 /\ DOMAIN g = 1..(Len(f) + 1) /\ DOMAIN f = 1..Len(f)
      /\ Len(f) \in Nat
  OBVIOUS
<1>2. g[1] = s /\ \A i \in 2..(Len(f) + 1) : g[i] = f[i - 1]
  OBVIOUS
<1>3. f # <<>> => Len(f) >= 1
  OBVIOUS
<1>4. f # <<>> => g[Len(g)] = f[Len(f)]
  BY <1>1, <1>2, <1>3
<1>5. ASSUME NEW i \in DOMAIN g
      PROVE  g[i] = s \/ \E j \in DOMAIN f : g[i] = f[j]
  <2>1. CASE i = 1
    BY <1>2, <2>1
  <2>2. CASE i # 1
    BY <1>1, <1>2, <2>2
  <2>3. QED
    BY <2>1, <2>2
<1>6. QED
  BY <1>4, <1>5

(* Running an image moves the stack of its own thread. *)
LEMMA ImageKeepsStacks ==
    ASSUME IInv, IInv', StackInv, NEW t \in Threads,
           \/ \E s \in States : CallFunction(t, s)
           \/ \E s \in States \cup {NoState} : CodeCalls(t, s)
           \/ Run(t) \/ CodeReturns(t) \/ RtExit(t) \/ RtJump(t)
    PROVE  StackInv'
<1>1. ASSUME OthersKept(t), CallCourse(t)', Bottom(t)', Sought(t)', \A s \in States : Stacked(t, s)'
      PROVE  StackInv'
  BY <1>1, OtherStacks DEF StackInv
<1>2. /\ \A s \in States : Stacked(t, s)
      /\ CallCourse(t) /\ Bottom(t)
  BY DEF StackInv
<1>3. frames[t] \in Seq(States \cup {NoState})
  BY DEF IInv, TypeOK
<1>4. ASSUME NEW s \in States, CallFunction(t, s)
      PROVE  StackInv'
  <2>1. /\ pc[t] = "idle" /\ pc' = [pc EXCEPT ![t] = "image"]
        /\ doing' = [doing EXCEPT ![t] = "call"] /\ cur' = [cur EXCEPT ![t] = s] /\ s1' = s1
        /\ frames' = [frames EXCEPT ![t] = <<s>>]
        /\ g_s1' = g_s1 /\ run_lj' = run_lj
    BY <1>4 DEF CallFunction, Call, At, handles
  <2>2. /\ s \in g_s1 /\ (run_lj[s] => "stale" \in Races)
        /\ \A u \in Threads : cur[u] # s /\ ~OnStack(u, s)
    BY <1>4 DEF CallFunction, Call, Free, Callable, Linked
  <2>3. pc'[t] = "image" /\ doing'[t] = "call" /\ cur'[t] = s /\ frames'[t] = <<s>>
    BY <2>1 DEF IInv, TypeOK
  <2>4. OthersKept(t)
    BY <2>1, <2>2 DEF OthersKept, IInv, TypeOK
  <2>5. CallCourse(t)' /\ Sought(t)'
    BY <2>3 DEF CallCourse, Sought
  <2>6. Bottom(t)'
    BY <2>3 DEF Bottom
  <2>7. ASSUME NEW x \in States
        PROVE  Stacked(t, x)'
    <3>1. OnStack(t, x)' => x = s
      BY <2>3 DEF OnStack
    <3>2. \A u \in Threads : cur'[u] = s => u = t
      BY <2>1, <2>2 DEF IInv, TypeOK
    <3>3. QED
      BY <2>1, <2>2, <3>1, <3>2 DEF Stacked
  <2>8. QED
    BY <1>1, <2>4, <2>5, <2>6, <2>7
<1>5. ASSUME NEW s \in States \cup {NoState}, CodeCalls(t, s)
      PROVE  StackInv'
  <2>1. /\ pc[t] = "image" /\ UNCHANGED <<pc, doing, cur, s1, g_s1, run_lj>>
        /\ frames' = [frames EXCEPT ![t] = <<s>> \o @]
    BY <1>5 DEF CodeCalls, handles
  <2>2. \/ s \in {cur[t], NoState}
        \/ /\ s \in g_s1 /\ (run_lj[s] => "stale" \in Races)
           /\ \A u \in Threads : cur[u] # s
    BY <1>5 DEF CodeCalls, Callable, Linked
  <2>3. frames'[t] = <<s>> \o frames[t]
    BY <2>1 DEF IInv, TypeOK
  <2>4. OthersKept(t)
    BY <2>1 DEF OthersKept, IInv, TypeOK
  <2>5. CallCourse(t)' /\ Sought(t)'
    BY <1>2, <2>1 DEF CallCourse, Sought
  <2>6. frames[t] # <<>> /\ frames[t][Len(frames[t])] = cur[t]
    BY <1>2, <2>1 DEF Bottom, IInv, FramesOpen
  <2>7. frames'[t][Len(frames'[t])] = frames[t][Len(frames[t])]
    BY <1>3, <2>3, <2>6, StackedOn
  <2>8. Bottom(t)'
    BY <1>2, <2>1, <2>6, <2>7 DEF Bottom
  <2>9. ASSUME NEW x \in States
        PROVE  Stacked(t, x)'
    <3>1. OnStack(t, x)' => x = s \/ OnStack(t, x)
      BY <1>3, <2>3, StackedOn DEF OnStack
    <3>2. OnStack(t, cur[t])
      BY <1>3, <2>6 DEF OnStack
    <3>3. Stacked(t, x)
      BY <1>2
    <3>4. CASE OnStack(t, x)
      BY <2>1, <3>3, <3>4 DEF Stacked
    <3>5. CASE ~OnStack(t, x)
      <4>1. OnStack(t, x)' => x \in g_s1 /\ (run_lj[x] => "stale" \in Races)
                               /\ \A u \in Threads : cur[u] # x
        BY <2>2, <3>1, <3>2, <3>5, ConstantsAssumption
      <4>2. QED
        BY <2>1, <4>1 DEF Stacked
    <3>6. QED
      BY <3>4, <3>5
  <2>10. QED
    BY <1>1, <2>4, <2>5, <2>8, <2>9
<1>6. CASE Run(t)
  <2>1. /\ pc[t] = "linked" /\ pc' = [pc EXCEPT ![t] = "image"]
        /\ run_lj' = [run_lj EXCEPT ![cur[t]] = TRUE]
        /\ frames' = [frames EXCEPT ![t] = <<cur[t]>>]
        /\ UNCHANGED <<g_s1, doing, cur, s1>>
    BY <1>6 DEF Run, At
  <2>2. doing[t] = "run" /\ cur[t] \in g_s1 /\ cur[t] \in States
    BY <1>2, <2>1 DEF CallCourse, IInv, TypeOK, ListSound
  <2>3. pc'[t] = "image" /\ run_lj'[cur[t]] /\ frames'[t] = <<cur[t]>>
    BY <2>1, <2>2 DEF IInv, TypeOK
  <2>4. OthersKept(t)
    BY <2>1 DEF OthersKept, IInv, TypeOK
  <2>5. CallCourse(t)' /\ Sought(t)'
    BY <2>1, <2>2, <2>3 DEF CallCourse, Sought
  <2>6. Bottom(t)'
    BY <2>1, <2>2, <2>3 DEF Bottom
  <2>7. ASSUME NEW x \in States
        PROVE  Stacked(t, x)'
    <3>1. OnStack(t, x)' => x = cur[t]
      BY <2>3 DEF OnStack
    <3>2. \A u \in Threads : cur[u] = cur[t] => u = t
      BY <2>2, ConstantsAssumption DEF IInv, HandlesOwned
    <3>3. QED
      BY <2>1, <2>2, <3>1, <3>2 DEF Stacked
  <2>8. QED
    BY <1>1, <2>4, <2>5, <2>6, <2>7
<1>7. CASE CodeReturns(t) /\ Len(frames[t]) > 1
  <2>1. /\ pc[t] = "image" /\ UNCHANGED <<pc, doing, cur, s1, g_s1, run_lj>>
        /\ frames' = [frames EXCEPT ![t] = Tail(@)]
    BY <1>7 DEF CodeReturns, handles
  <2>2. frames'[t] = Tail(frames[t])
    BY <2>1 DEF IInv, TypeOK
  <2>3. OthersKept(t)
    BY <2>1 DEF OthersKept, IInv, TypeOK
  <2>4. CallCourse(t)' /\ Sought(t)'
    BY <1>2, <2>1 DEF CallCourse, Sought
  <2>5. /\ Len(frames[t]) \in Nat
        /\ Len(frames'[t]) = Len(frames[t]) - 1
        /\ DOMAIN frames'[t] = 1..(Len(frames[t]) - 1)
        /\ \A i \in 1..(Len(frames[t]) - 1) : frames'[t][i] = frames[t][i + 1]
    <3>1. Tail(frames[t]) \in Seq(States \cup {NoState})
      BY <1>3, <1>7, TailOfMore
    <3>2. QED
      BY <1>3, <1>7, <2>2, <3>1, TailOfMore
  <2>6. frames'[t][Len(frames'[t])] = frames[t][Len(frames[t])]
    BY <1>7, <2>5
  <2>7. Bottom(t)'
    BY <1>2, <2>1, <2>6 DEF Bottom
  <2>8. ASSUME NEW x \in States
        PROVE  Stacked(t, x)'
    <3>1. OnStack(t, x)' => OnStack(t, x)
      <4>1. DOMAIN frames[t] = 1..Len(frames[t])
        BY <1>3
      <4>2. \A i \in DOMAIN frames'[t] : i + 1 \in DOMAIN frames[t]
        BY <2>5, <4>1
      <4>3. QED
        BY <2>5, <4>2 DEF OnStack
    <3>2. QED
      BY <1>2, <2>1, <3>1 DEF Stacked
  <2>9. QED
    BY <1>1, <2>3, <2>4, <2>7, <2>8
<1>8. CASE RtExit(t)
  <2>1. /\ pc[t] = "image" /\ pc' = [pc EXCEPT ![t] = "jump"]
        /\ UNCHANGED <<doing, cur, frames, g_s1, run_lj>>
    BY <1>8 DEF RtExit, At, image, handles
  <2>2. PICK walk \in Walks(t), s \in States \cup {NoState} :
           RtFindState(walk, s) /\ s1' = [s1 EXCEPT ![t] = s]
    BY <1>8 DEF RtExit
  <2>3. /\ s # NoState => OnStack(t, s)
        /\ AtHome(t) => s = cur[t]
    BY <2>1, <2>2, WalkFinds
  <2>4. OthersKept(t)
    BY <2>1, <2>2 DEF OthersKept, IInv, TypeOK
  <2>5. pc'[t] = "jump" /\ s1'[t] = s
    BY <2>1, <2>2 DEF IInv, TypeOK
  <2>6. \A x : OnStack(t, x)' <=> OnStack(t, x)
    BY <2>1 DEF OnStack
  <2>7. AtHome(t)' <=> AtHome(t)
    BY <2>1 DEF AtHome
  <2>8. CallCourse(t)' /\ Bottom(t)'
    BY <1>2, <2>1, <2>5 DEF CallCourse, Bottom
  <2>9. Sought(t)'
    BY <2>1, <2>3, <2>5, <2>6, <2>7 DEF Sought
  <2>10. ASSUME NEW x \in States
         PROVE  Stacked(t, x)'
    BY <1>2, <2>1, <2>6 DEF Stacked
  <2>11. QED
    BY <1>1, <2>4, <2>8, <2>9, <2>10
<1>9. CASE RtJump(t) \/ (CodeReturns(t) /\ ~(Len(frames[t]) > 1))
  <2>1. pc[t] \in {"image", "jump"} /\ Returned(t) /\ UNCHANGED <<g_s1, run_lj>>
    <3>1. CASE RtJump(t)
      BY <3>1 DEF RtJump, handles
    <3>2. CASE CodeReturns(t) /\ ~(Len(frames[t]) > 1)
      BY <3>2 DEF CodeReturns, handles
    <3>3. QED
      BY <1>9, <3>1, <3>2
  <2>2. /\ \A u \in Threads \ {t} : frames'[u] = frames[u]
        /\ frames'[t] = <<>>
    <3>1. CASE RtJump(t)
      BY <3>1 DEF RtJump, IInv, TypeOK
    <3>2. CASE CodeReturns(t) /\ ~(Len(frames[t]) > 1)
      <4>1. frames[t] # <<>>
        BY <3>2 DEF CodeReturns, IInv, FramesOpen
      <4>2. Tail(frames[t]) = <<>>
        BY <1>3, <3>2, <4>1, TailOfOne
      <4>3. QED
        BY <3>2, <4>2 DEF CodeReturns, IInv, TypeOK
    <3>3. QED
      BY <1>9, <3>1, <3>2
  <2>3. pc'[t] = "idle" /\ doing'[t] = "none" /\ cur'[t] = NoState
    BY <2>1 DEF Returned, IInv, TypeOK
  <2>4. OthersKept(t)
    BY <2>1, <2>2, <2>3, ConstantsAssumption DEF OthersKept, Returned, IInv, TypeOK
  <2>5. CallCourse(t)' /\ Bottom(t)' /\ Sought(t)'
    BY <2>3 DEF CallCourse, Bottom, Sought
  <2>6. \A x \in States : Stacked(t, x)'
    BY <2>2 DEF Stacked, OnStack
  <2>7. QED
    BY <1>1, <2>4, <2>5, <2>6
<1>10. QED
  BY <1>4, <1>5, <1>6, <1>7, <1>8, <1>9

(* A new process has no stacks. *)
LEMMA NothingStacked ==
    ASSUME \A t \in Threads : frames[t] = <<>> /\ pc[t] = "idle"
    PROVE  StackInv
BY DEF StackInv, CallCourse, Bottom, Stacked, OnStack, Sought

(* Every step keeps both invariants. *)
LEMMA NextStackInv == IInv /\ StackInv /\ [Next]_vars => StackInv'
<1>1. ASSUME IInv, IInv', StackInv, NEW t \in Threads, RtEndsHost(t)
      PROVE  StackInv'
  <2>1. ASSUME NEW u \in Threads
        PROVE  (frames[u] = <<>> /\ pc[u] = "idle")'
    BY <1>1 DEF RtEndsHost
  <2>2. QED
    BY <2>1 DEF StackInv, CallCourse, Bottom, Stacked, OnStack, Sought
<1>2. ASSUME IInv, StackInv, Next
      PROVE  StackInv'
  <2>1. IInv'
    BY <1>2, NextIInv
  <2>2. QED
    BY <1>1, <1>2, <2>1, CallsKeepStacks, CompilerKeepsStacks, ListKeepsStacks, ImageKeepsStacks
       DEF Next
<1>3. ASSUME StackInv, UNCHANGED vars
      PROVE  StackInv'
  BY <1>3 DEF vars, handles, image, StackInv, CallCourse, Bottom, Stacked, OnStack, Sought, AtHome
<1>4. QED
  BY <1>2, <1>3

LEMMA Stacks == Spec => [](IInv /\ StackInv)
<1>1. Init => StackInv
  BY NothingStacked DEF Init
<1>2. QED
  BY <1>1, InitIInv, NextIInv, NextStackInv, PTL DEF Spec

-----------------------------------------------------------------------------
(* Types of the session's variables, in every reachable state. *)
THEOREM TypeCorrect == Spec => []TypeOK
<1>1. IInv => TypeOK
  BY DEF IInv
<1>2. QED
  BY Invariance, <1>1, PTL

(* cprime_compile and error1 have the compiler's globals to themselves, and *)
(* the globals name the state being served, as long as no error is reported *)
(* from outside while another thread evaluates a #if.                      *)
THEOREM GlobalsExclusive ==
    ASSUME "expression" \notin Races
    PROVE  Spec => []GlobalsOwned
<1>1. IInv => GlobalsOwned
  BY DEF IInv, GlobalsHeld, GlobalsOwned
<1>2. QED
  BY Invariance, <1>1, PTL

(* No compilation starts from another one's files, replay frames, #if or   *)
(* buffers, however that one ended.                                        *)
THEOREM GlobalsStartClean == Spec => []GlobalsClean
<1>1. IInv => GlobalsClean
  BY DEF IInv
<1>2. QED
  BY Invariance, <1>1, PTL

(* error1 longjmps only into a cprime_compile that is still running.       *)
THEOREM JumpsAreLive == Spec => []JumpBufferLive
<1>1. IInv => JumpBufferLive
  BY DEF IInv
<1>2. QED
  BY Invariance, <1>1, PTL

(* end_macro always has a file to restore the line number of.              *)
THEOREM FramesNested == Spec => []FramesInsideFiles
<1>1. IInv => FramesInsideFiles
  BY DEF IInv
<1>2. QED
  BY Invariance, <1>1, PTL

(* Errors reported after the lock was left still reach the right state.    *)
THEOREM ErrorsCharged == Spec => []ErrorChargedToCaller
<1>1. IInv => ErrorChargedToCaller
  BY DEF IInv, HandlesOwned, GlobalsHeld, ErrorChargedToCaller, Subject, Holding,
         CompilePlaces, EitherPlaces
<1>2. QED
  BY Invariance, <1>1, PTL

(* rt_find_state never meets a freed state, and every state whose code is  *)
(* on a stack is in the list.                                              *)
THEOREM RuntimeListSound == Spec => []RuntimeList
<1>1. IInv /\ StackInv => RuntimeList
  BY DEF IInv, ListSound, StackInv, Stacked, RuntimeList
<1>2. QED
  BY Stacks, <1>1, PTL

(* exit() in a program returns from the cprime_run that started it, as     *)
(* long as the host calls no function of a program that cprime_run has     *)
(* already returned from: for any stack of calls among any states.         *)
THEOREM ExitHome ==
    ASSUME "stale" \notin Races
    PROVE  Spec => []ExitReturnsHome
<1>1. ASSUME IInv, StackInv, NEW t \in Threads, pc[t] = "jump"
      PROVE  /\ Jumps(t) => doing[t] = "run" /\ s1[t] = cur[t]
             /\ doing[t] = "run" /\ AtHome(t) => Jumps(t)
  <2>1. Bottom(t) /\ Sought(t) /\ \A s \in States : Stacked(t, s)
    BY <1>1 DEF StackInv
  <2>2. cur[t] \in States /\ cur[t] # NoState /\ s1[t] \in States \cup {NoState}
    BY <1>1, ConstantsAssumption DEF IInv, TypeOK, ListSound
  <2>3. Jumps(t) => doing[t] = "run" /\ s1[t] = cur[t]
    BY <1>1, <2>1, <2>2 DEF Jumps, Sought, Stacked
  <2>4. doing[t] = "run" /\ AtHome(t) => Jumps(t)
    BY <1>1, <2>1, <2>2 DEF Jumps, Sought, Bottom
  <2>5. QED
    BY <2>3, <2>4
<1>2. IInv /\ StackInv => ExitReturnsHome
  BY <1>1 DEF ExitReturnsHome
<1>3. QED
  BY Stacks, <1>2, PTL

-----------------------------------------------------------------------------
(* The lock itself. *)
SoleFirstCaller == \A s, t \in Early : s = t

(* init is set before a thread asks for the section. *)
InitBeforeEnter == \A t \in Callers : sem_pc[t] \in {"enter", "in"} => sem_init

(* Only threads of Early take the initialising branch. *)
PreparersAreEarly ==
    \A t \in Callers : sem_pc[t] \in {"initialize", "publish"} => t \in Early

SemInv ==
    /\ SemTypeOK
    /\ OwnerIsInside
    /\ PreparedBeforeUse
    /\ InitBeforeEnter
    /\ PreparersAreEarly

-----------------------------------------------------------------------------
(* Nobody has called yet, so the strengthened invariant holds. *)
LEMMA InitSemInv == SemInit => SemInv
BY CallerAssumption
   DEF SemInit, SemInv, SemTypeOK, OwnerIsInside, PreparedBeforeUse, Inside,
       InitBeforeEnter, PreparersAreEarly

(* Every step of wait_sem and post_sem keeps the strengthened invariant    *)
(* when there is one first caller at most.                                 *)
LEMMA NextSemInv ==
    ASSUME SoleFirstCaller, SemInv, [SemNext]_sem_vars
    PROVE  SemInv'
<1> USE DEF SemInv, SemTypeOK, Inside
<1>1. ASSUME NEW t \in Callers, Test(t)
      PROVE  SemInv'
  BY <1>1, CallerAssumption
     DEF Test, OwnerIsInside, PreparedBeforeUse, InitBeforeEnter, PreparersAreEarly
<1>2. ASSUME NEW t \in Callers, Initialize(t)
      PROVE  SemInv'
  BY <1>2, CallerAssumption
     DEF Initialize, OwnerIsInside, PreparedBeforeUse, InitBeforeEnter, PreparersAreEarly
<1>3. ASSUME NEW t \in Callers, Publish(t)
      PROVE  SemInv'
  BY <1>3, CallerAssumption
     DEF SoleFirstCaller, Publish, OwnerIsInside, PreparedBeforeUse,
         InitBeforeEnter, PreparersAreEarly
<1>4. ASSUME NEW t \in Callers, EnterSection(t)
      PROVE  SemInv'
  BY <1>4, CallerAssumption
     DEF EnterSection, OwnerIsInside, PreparedBeforeUse, InitBeforeEnter, PreparersAreEarly
<1>5. ASSUME NEW t \in Callers, LeaveSection(t)
      PROVE  SemInv'
  BY <1>5, CallerAssumption
     DEF LeaveSection, OwnerIsInside, PreparedBeforeUse, InitBeforeEnter, PreparersAreEarly
<1>6. CASE UNCHANGED sem_vars
  BY <1>6
     DEF sem_vars, OwnerIsInside, PreparedBeforeUse, InitBeforeEnter, PreparersAreEarly
<1>7. QED
  BY <1>1, <1>2, <1>3, <1>4, <1>5, <1>6 DEF SemNext

(* The strengthened invariant is an invariant of the specification. *)
LEMMA SemInvariance ==
    ASSUME SoleFirstCaller
    PROVE  SemSpec => []SemInv
<1>1. SemInv /\ [SemNext]_sem_vars => SemInv'
  BY NextSemInv
<1>2. QED
  BY InitSemInv, <1>1, PTL DEF SemSpec

-----------------------------------------------------------------------------
(* The owner the critical section records is the thread between wait_sem   *)
(* and post_sem, for any number of threads.                                *)
THEOREM SemOwnerCorrect ==
    ASSUME SoleFirstCaller
    PROVE  SemSpec => []OwnerIsInside
<1>1. SemInv => OwnerIsInside
  BY DEF SemInv
<1>2. QED
  BY SemInvariance, <1>1, PTL

(* cprime_compile's "Other threads need to wait until we're done" holds    *)
(* when the first call is made by one thread alone.                        *)
THEOREM SemExclusion ==
    ASSUME SoleFirstCaller
    PROVE  SemSpec => []MutualExclusion
<1>1. SemInv => MutualExclusion
  BY DEF SemInv, OwnerIsInside, MutualExclusion, Inside
<1>2. QED
  BY SemInvariance, <1>1, PTL

(* wait_sem and post_sem of cprime.h implement the lock of Mutex: every    *)
(* step acquires it, releases it or leaves it alone.                       *)
THEOREM SemRefinement ==
    ASSUME SoleFirstCaller
    PROVE  SemSpec => ImplementsMutex
<1>1. SemInit => Lock!Init
  BY DEF SemInit, Lock!Init, Inside
<1>2. ASSUME SemInv, [SemNext]_sem_vars
      PROVE  [Lock!Next]_(Inside)
  <2> USE <1>2 DEF SemInv, SemTypeOK, Lock!Next, Inside
  <2>1. ASSUME NEW t \in Callers, Test(t) \/ Initialize(t) \/ Publish(t)
        PROVE  UNCHANGED Inside
    BY <2>1 DEF Test, Initialize, Publish
  <2>2. ASSUME NEW t \in Callers, EnterSection(t)
        PROVE  Lock!Acquire(t)
    BY <2>2, CallerAssumption DEF EnterSection, OwnerIsInside, Lock!Acquire
  <2>3. ASSUME NEW t \in Callers, LeaveSection(t)
        PROVE  Lock!Release(t)
    BY <2>3 DEF LeaveSection, Lock!Release
  <2>4. CASE UNCHANGED sem_vars
    BY <2>4 DEF sem_vars
  <2>5. QED
    BY <2>1, <2>2, <2>3, <2>4, <1>2 DEF SemNext
<1>3. QED
  BY SemInvariance, <1>1, <1>2, PTL
     DEF SemSpec, ImplementsMutex, Lock!Spec

-----------------------------------------------------------------------------
(* The symbol table. *)

(* The invariant, TableInv, and its parts.  The core is the table that the *)
(* next file builds on; what lies behind it is the file being compiled.    *)

Entries == [bind : Binds, at : Sections, id : Nat, str : Nat]

Offers == [bind : Binds, at : Sections, id : Nat]

Linkable == {e \in Offers : e.bind # "local"}

(* The cells in use, whatever lies behind them *)
Shaped(t) ==
    /\ t = [syms |-> t.syms, len |-> t.len, strs |-> t.strs, slen |-> t.slen,
            hash |-> t.hash, hashed |-> t.hashed]
    /\ t.syms \in Seq(Entries) /\ t.strs \in Seq(Names) /\ t.hashed \in Nat
    /\ t.len \in 0 .. Len(t.syms) /\ t.slen \in 0 .. Len(t.strs)
    /\ \A i \in 1 .. t.len : t.syms[i].str \in 1 .. t.slen

In(t, nb, b, i) == t.syms[i].bind # "local" /\ HashOf[NameOf(t, i)] % nb = b

(* i is the latest of the first m symbols that is in bucket b, or Nil. *)
Latest(t, nb, b, m, i) ==
    /\ i \in 0 .. m /\ (i # Nil => In(t, nb, b, i))
    /\ \A j \in 1 .. m : j > i => ~In(t, nb, b, j)

(* ix is an index of the first m symbols. *)
Indexes(t, ix, m) ==
    /\ ix = [nb |-> ix.nb, bucket |-> ix.bucket, chain |-> ix.chain]
    /\ ix.nb \in Nat \ {0} /\ ix.bucket \in [0 .. ix.nb - 1 -> Nat]
    /\ ix.chain \in Seq(Nat) /\ Len(ix.chain) = m
    /\ \A b \in 0 .. ix.nb - 1 : Latest(t, ix.nb, b, m, ix.bucket[b])
    /\ \A i \in 1 .. m :
          /\ ix.chain[i] \in 0 .. i - 1
          /\ \A b : In(t, ix.nb, b, i) => Latest(t, ix.nb, b, i - 1, ix.chain[i])

(* Symbol i is the one that n is bound to. *)
Binding(t, n, i) == i \in 1 .. t.len /\ t.syms[i].bind # "local" /\ NameOf(t, i) = n

Single(t) == \A n \in Names : \A i, j \in 1 .. t.len : Binding(t, n, i) /\ Binding(t, n, j) => i = j

Sound(t) == Shaped(t) /\ Indexes(t, t.hash, t.len) /\ Single(t)

(* What the link has made so far, without the file that is being compiled *)
CoreOf(t, ph, from) ==
    IF ph = "compiling"
    THEN [syms |-> t.syms, len |-> from.sym, strs |-> t.strs, slen |-> from.str,
          hash |-> t.hash, hashed |-> t.hashed]
    ELSE t

Core == CoreOf(Table, phase, first)

TableTyped ==
    /\ phase \in {"idle", "compiling", "ending", "sorted", "failed"}
    /\ len \in 0 .. Len(syms) /\ slen \in 0 .. Len(strs)
    /\ first \in [sym : Nat, str : Nat] /\ count \in Nat
    /\ tr \in Seq(Nat) /\ relocs \in Seq([sym : Nat, id : Nat, dup : BOOLEAN])
    /\ error \in BOOLEAN /\ ids \in Nat
    /\ given \in Seq([name : Names, local : BOOLEAN]) /\ Len(given) = ids
    /\ offers \in [Names -> Seq(Linkable)]

CoreSound == Shaped(Core) /\ (phase # "sorted" => Sound(Core))

(* Symbol p of t is what was put as number id. *)
Means(t, gv, p, id) ==
    /\ p \in 1 .. t.len /\ id \in DOMAIN gv
    /\ NameOf(t, p) = gv[id].name
    /\ IF gv[id].local THEN t.syms[p].bind = "local" /\ t.syms[p].id = id
       ELSE t.syms[p].bind # "local"

(* The file's symbols, and the number of the last one before them *)
Size == IF phase = "compiling" THEN len - first.sym ELSE count

Before == ids - Size

(* The k-th symbol of the file is as the compiler has put it. *)
Fresh(k) ==
    LET i == first.sym + k
    IN  /\ i \in DOMAIN syms /\ syms[i].str \in DOMAIN strs
        /\ syms[i].str = first.str + k /\ syms[i].id = Before + k
        /\ given[Before + k] = [name |-> strs[syms[i].str],
                                local |-> syms[i].bind = "local" /\ syms[i].at # "undef"]

FileKept ==
    /\ phase \in {"compiling", "ending"} =>
          Before \in Nat /\ first.sym <= len /\ slen - first.str = len - first.sym
    /\ phase = "compiling" => \A k \in 1 .. Size : Fresh(k)
    /\ phase = "ending" =>
          /\ len <= first.sym + Len(tr) /\ Len(tr) <= count
          /\ \A k \in Len(tr) + 1 .. Size : Fresh(k)
          /\ \A k \in 1 .. Len(tr) : Means(Table, given, tr[k], Before + k)

(* Relocation r is to what it was made for, or to nothing, in a copy of a   *)
(* link-once section.                                                       *)
Refers(t, gv, r) ==
    \/ r.sym = Nil /\ r.dup /\ r.id \in DOMAIN gv
    \/ Means(t, gv, r.sym, r.id)

RelocsMean ==
    phase # "failed" => \A k \in DOMAIN relocs :
        LET r == relocs[k]
        IN  IF phase \in {"idle", "sorted"} THEN Refers(Table, given, r)
            ELSE \/ r.sym <= first.sym /\ r.id <= Before /\ Refers(Core, given, r)
                 \/ /\ r.sym \in first.sym + 1 .. first.sym + Size
                    /\ r.id = Before + (r.sym - first.sym)

(* e is the best of the offers os. *)
Best(e, os) ==
    /\ \E j \in DOMAIN os : os[j].id = e.id
    /\ \A k \in DOMAIN os :
          /\ Rank(e) >= Rank(os[k])
          /\ Rank(os[k]) = Rank(e) /\ Rank(e) > 0 => \E j \in 1 .. k : os[j].id = e.id

(* Every name that was offered is bound, to the best of its offers. *)
Served(t, os) ==
    \A n \in Names :
        /\ os[n] # <<>> => \E i \in 1 .. t.len : Binding(t, n, i)
        /\ \A i \in 1 .. t.len : Binding(t, n, i) => Best(t.syms[i], os[n])

BestKept == phase # "sorted" => Served(Core, offers)

TableInv == TableTyped /\ CoreSound /\ FileKept /\ RelocsMean /\ BestKept

-----------------------------------------------------------------------------
(* A nonempty set of naturals has a least element.                         *)
LEMMA Least ==
    ASSUME NEW T \in SUBSET Nat, T # {}
    PROVE  \E x \in T : \A y \in T : x <= y
<1> DEFINE R == OpToRel(<, Nat)
<1>1. IsWellFoundedOn(R, Nat)
  BY NatLessThanWellFounded, Zenon DEF R
<1>2. T \subseteq Nat
  OBVIOUS
<1>3. \A p \in Nat \X Nat : p[1] < p[2] => p \in R
  BY Zenon DEF OpToRel
<1> HIDE DEF R
<1>4. PICK x \in T : \A y \in T : ~ (<<y, x>> \in R)
  BY <1>1, <1>2, WFMin
<1>5. ASSUME NEW y \in T, y < x
      PROVE  FALSE
  <2>1. x \in Nat /\ y \in Nat
    OBVIOUS
  <2>2. <<y, x>> \in Nat \X Nat /\ <<y, x>>[1] < <<y, x>>[2]
    BY <1>5, <2>1
  <2>3. <<y, x>> \in R
    BY <1>3, <2>2
  <2> QED
    BY <1>4, <2>3
<1>6. \A y \in T : x <= y
  <2> TAKE y \in T
  <2>1. x \in Nat /\ y \in Nat
    OBVIOUS
  <2> QED
    BY <1>5, <2>1
<1> QED
  BY <1>6

(* What holds at 0 and is passed on from each place to the next holds at n.*)
LEMMA Climb ==
    ASSUME NEW n \in Nat, NEW S, 0 \in S,
           \A k \in 0..n : k < n /\ k \in S => k + 1 \in S
    PROVE  n \in S
<1> DEFINE T == {k \in 0..n : k \notin S}
<1>1. SUFFICES ASSUME n \notin S
               PROVE  FALSE
  OBVIOUS
<1>2. T \in SUBSET Nat /\ T # {}
  <2>1. n \in T /\ \A k \in T : k \in Nat
    BY <1>1
  <2> QED
    BY <2>1
<1>3. \A k : k \in T <=> k \in 0..n /\ k \notin S
  OBVIOUS
<1> HIDE DEF T
<1>4. PICK x \in T : \A y \in T : x <= y
  BY <1>2, Least
<1>5. x \in 0..n /\ x \notin S /\ x # 0
  BY <1>3
<1>6. x - 1 \in 0..n /\ x - 1 < n /\ (x - 1) + 1 = x
  BY <1>5
<1>7. x - 1 \notin S
  BY <1>5, <1>6
<1>8. x - 1 \in T /\ ~(x <= x - 1)
  BY <1>3, <1>5, <1>6, <1>7
<1> QED
  BY <1>4, <1>8

(* A name falls into one of the buckets.                                   *)
LEMMA InBucket ==
    ASSUME NEW n \in Names, NEW nb \in Nat \ {0}
    PROVE  HashOf[n] % nb \in 0 .. nb - 1
<1>1. HashOf[n] \in Nat
  BY TableAssumption
<1> QED
  BY <1>1

(* The first m symbols of u have the names of those of t, and are local    *)
(* where those are. *)
Alike(t, u, m) ==
    \A i \in 1 .. m : /\ u.syms[i].bind = "local" <=> t.syms[i].bind = "local"
                      /\ NameOf(u, i) = NameOf(t, i)

(* The index depends on the names and bindings of the symbols only.        *)
LEMMA AlikeIndexed ==
    ASSUME NEW t, NEW u, NEW m \in Nat, Alike(t, u, m), NEW ix, Indexes(t, ix, m)
    PROVE  Indexes(u, ix, m)
<1>1. \A nb, b : \A i \in 1 .. m : In(u, nb, b, i) <=> In(t, nb, b, i)
  BY DEF Alike, In
<1>2. ASSUME NEW nb, NEW b, NEW k \in 0 .. m, NEW i, Latest(t, nb, b, k, i)
      PROVE  Latest(u, nb, b, k, i)
  BY <1>1, <1>2 DEF Latest, Nil
<1>3. ASSUME NEW i \in 1 .. m, NEW b, In(u, ix.nb, b, i)
      PROVE  Latest(u, ix.nb, b, i - 1, ix.chain[i])
  <2>1. In(t, ix.nb, b, i)
    BY <1>1, <1>3
  <2>2. Latest(t, ix.nb, b, i - 1, ix.chain[i])
    BY <2>1 DEF Indexes
  <2>3. i - 1 \in 0 .. m
    OBVIOUS
  <2> QED
    BY <1>2, <2>2, <2>3
<1>4. \A b \in 0 .. ix.nb - 1 : Latest(u, ix.nb, b, m, ix.bucket[b])
  BY <1>2 DEF Indexes
<1> QED
  BY <1>3, <1>4 DEF Indexes

(* An empty index is right for a table without symbols.                    *)
LEMMA EmptyIndex ==
    ASSUME NEW t, NEW nb \in Nat \ {0}
    PROVE  Indexes(t, Empty(nb), 0)
<1> DEFINE ix == Empty(nb)
<1>1. /\ ix = [nb |-> ix.nb, bucket |-> ix.bucket, chain |-> ix.chain]
      /\ ix.nb = nb /\ ix.chain = <<>>
      /\ ix.bucket = [b \in 0 .. nb - 1 |-> Nil]
  BY DEF Empty
<1> HIDE DEF ix
<1>2. ix.bucket \in [0 .. ix.nb - 1 -> Nat] /\ \A b \in 0 .. nb - 1 : ix.bucket[b] = Nil
  BY <1>1 DEF Nil
<1>3. \A b \in 0 .. nb - 1 : Latest(t, nb, b, 0, ix.bucket[b])
  BY <1>2 DEF Latest, Nil
<1>4. Indexes(t, ix, 0)
  BY <1>1, <1>2, <1>3 DEF Indexes
<1> QED
  BY <1>4 DEF ix

(* A local symbol gets a chain cell and no bucket.                         *)
LEMMA SkipIndexes ==
    ASSUME NEW t, NEW m \in Nat, NEW ix, Indexes(t, ix, m), t.syms[m + 1].bind = "local"
    PROVE  Indexes(t, Skip(ix), m + 1)
<1> DEFINE new == Skip(ix)
<1>1. /\ new = [nb |-> new.nb, bucket |-> new.bucket, chain |-> new.chain]
      /\ new.nb = ix.nb /\ new.bucket = ix.bucket /\ new.chain = Append(ix.chain, Nil)
  <2>1. ix = [nb |-> ix.nb, bucket |-> ix.bucket, chain |-> ix.chain]
    BY DEF Indexes
  <2>2. PICK nb, bu, ch : ix = [nb |-> nb, bucket |-> bu, chain |-> ch]
    BY <2>1
  <2>3. new = [nb |-> nb, bucket |-> bu, chain |-> Append(ch, Nil)]
    BY <2>2, SMTT(20) DEF Skip
  <2> HIDE DEF new
  <2> QED
    BY <2>2, <2>3
<1> HIDE DEF new
<1>2. ix.chain \in Seq(Nat) /\ Len(ix.chain) = m
  BY DEF Indexes
<1>3. /\ new.chain \in Seq(Nat) /\ Len(new.chain) = m + 1
      /\ new.chain[m + 1] = Nil /\ \A i \in 1 .. m : new.chain[i] = ix.chain[i]
  BY <1>1, <1>2 DEF Nil
<1>4. \A nb, b : ~In(t, nb, b, m + 1)
  BY DEF In
<1>5. ASSUME NEW b \in 0 .. ix.nb - 1
      PROVE  Latest(t, ix.nb, b, m + 1, ix.bucket[b])
  <2>1. Latest(t, ix.nb, b, m, ix.bucket[b])
    BY DEF Indexes
  <2> QED
    BY <1>4, <2>1 DEF Latest, Nil
<1>6. ASSUME NEW i \in 1 .. m + 1
      PROVE  /\ new.chain[i] \in 0 .. i - 1
             /\ \A b : In(t, new.nb, b, i) => Latest(t, new.nb, b, i - 1, new.chain[i])
  <2>1. CASE i = m + 1
    BY <1>3, <1>4, <2>1 DEF Nil
  <2>2. CASE i \in 1 .. m
    BY <1>1, <1>3, <2>2 DEF Indexes
  <2> QED
    BY <2>1, <2>2
<1>7. ix.nb \in Nat \ {0} /\ ix.bucket \in [0 .. ix.nb - 1 -> Nat]
  BY DEF Indexes
<1>8. Indexes(t, new, m + 1)
  BY <1>1, <1>3, <1>5, <1>6, <1>7 DEF Indexes
<1> QED
  BY <1>8 DEF new

(* Any other symbol becomes the head of its bucket.                        *)
LEMMA LinkIndexes ==
    ASSUME NEW t, NEW m \in Nat, NEW ix, Indexes(t, ix, m), t.syms[m + 1].bind # "local",
           NEW n \in Names, NameOf(t, m + 1) = n
    PROVE  Indexes(t, Chained(ix, n, m + 1), m + 1)
<1> DEFINE new == Chained(ix, n, m + 1)
           at0 == HashOf[n] % ix.nb
<1>1. /\ new = [nb |-> new.nb, bucket |-> new.bucket, chain |-> new.chain]
      /\ new.nb = ix.nb /\ new.bucket = [ix.bucket EXCEPT ![at0] = m + 1]
      /\ new.chain = Append(ix.chain, ix.bucket[at0])
  BY DEF Chained, Indexes
<1>2. ix.nb \in Nat \ {0} /\ ix.bucket \in [0 .. ix.nb - 1 -> Nat]
  BY DEF Indexes
<1>3. at0 \in 0 .. ix.nb - 1
  BY <1>2, InBucket
<1>4. \A b : In(t, ix.nb, b, m + 1) <=> b = at0
  BY DEF In
<1> HIDE DEF new, at0
<1>5. ix.chain \in Seq(Nat) /\ Len(ix.chain) = m /\ ix.bucket[at0] \in Nat
  BY <1>2, <1>3 DEF Indexes
<1>6. /\ new.chain \in Seq(Nat) /\ Len(new.chain) = m + 1
      /\ new.chain[m + 1] = ix.bucket[at0] /\ \A i \in 1 .. m : new.chain[i] = ix.chain[i]
  BY <1>1, <1>5
<1>7. /\ new.bucket \in [0 .. ix.nb - 1 -> Nat] /\ new.bucket[at0] = m + 1
      /\ \A b \in 0 .. ix.nb - 1 : b # at0 => new.bucket[b] = ix.bucket[b]
  BY <1>1, <1>2, <1>3
<1>8. Latest(t, ix.nb, at0, m, ix.bucket[at0])
  BY <1>3 DEF Indexes
<1>9. ASSUME NEW b \in 0 .. ix.nb - 1
      PROVE  Latest(t, ix.nb, b, m + 1, new.bucket[b])
  <2>1. CASE b = at0
    BY <1>4, <1>7, <2>1 DEF Latest
  <2>2. CASE b # at0
    <3>1. Latest(t, ix.nb, b, m, ix.bucket[b])
      BY DEF Indexes
    <3> QED
      BY <1>4, <1>7, <2>2, <3>1 DEF Latest
  <2> QED
    BY <2>1, <2>2
<1>10. ASSUME NEW i \in 1 .. m + 1
       PROVE  /\ new.chain[i] \in 0 .. i - 1
              /\ \A b : In(t, new.nb, b, i) => Latest(t, new.nb, b, i - 1, new.chain[i])
  <2>1. CASE i = m + 1
    <3>1. new.chain[i] \in 0 .. m
      BY <1>6, <1>8, <2>1 DEF Latest
    <3>2. i - 1 = m
      BY <2>1
    <3> QED
      BY <1>1, <1>4, <1>6, <1>8, <2>1, <3>1, <3>2
  <2>2. CASE i \in 1 .. m
    BY <1>1, <1>6, <2>2 DEF Indexes
  <2> QED
    BY <2>1, <2>2
<1>11. Indexes(t, new, m + 1)
  BY <1>1, <1>2, <1>6, <1>7, <1>9, <1>10 DEF Indexes
<1> QED
  BY <1>11 DEF new

-----------------------------------------------------------------------------
(* rebuild_hash *)

(* The step of the rebuilding: from the index of the first i - 1 symbols.  *)
IndexStep(t, ix, i) ==
    IF t.syms[i].bind = "local" THEN Skip(ix) ELSE Chained(ix, NameOf(t, i), i)

LEMMA IndexSteps ==
    ASSUME NEW t, Shaped(t), NEW m \in Nat, m + 1 <= t.len, NEW ix, Indexes(t, ix, m)
    PROVE  Indexes(t, IndexStep(t, ix, m + 1), m + 1)
<1>1. m + 1 \in 1 .. t.len /\ t.len \in Nat
  BY DEF Shaped
<1>2. t.syms[m + 1].str \in 1 .. t.slen
  BY <1>1 DEF Shaped
<1>3. t.strs \in Seq(Names) /\ t.slen \in 0 .. Len(t.strs)
  BY DEF Shaped
<1>4. NameOf(t, m + 1) \in Names
  BY <1>2, <1>3 DEF NameOf
<1>5. CASE t.syms[m + 1].bind = "local"
  BY <1>5, SkipIndexes DEF IndexStep
<1>6. CASE t.syms[m + 1].bind # "local"
  BY <1>4, <1>6, LinkIndexes DEF IndexStep
<1> QED
  BY <1>5, <1>6

(* g is the course of the rebuilding up to symbol m. *)
Course(t, nb, m, run) ==
    run = [i \in 0 .. m |-> IF i = 0 THEN Empty(nb) ELSE IndexStep(t, run[i - 1], i)]

(* The recursion of rebuild_hash has a solution, which Rebuilt picks.      *)
LEMMA CourseExists ==
    ASSUME NEW t, NEW nb, NEW n \in Nat
    PROVE  \E run : Course(t, nb, n, run)
<1> DEFINE S == {k \in 0 .. n : \E run : Course(t, nb, k, run)}
<1>1. 0 \in S
  <2> DEFINE run == [i \in 0 .. 0 |-> Empty(nb)]
  <2>1. Course(t, nb, 0, run)
    BY DEF Course
  <2> QED
    BY <2>1
<1>2. ASSUME NEW k \in 0 .. n, k < n, k \in S
      PROVE  k + 1 \in S
  <2>1. PICK run : Course(t, nb, k, run)
    BY <1>2
  <2> DEFINE longer == [i \in 0 .. k + 1 |->
                 IF i = 0 THEN Empty(nb) ELSE IndexStep(t, run[i - 1], i)]
  <2>2. \A i \in 0 .. k : longer[i] = run[i]
    BY <2>1 DEF Course
  <2>3. \A i \in 0 .. k + 1 : i # 0 => i - 1 \in 0 .. k
    OBVIOUS
  <2>4. Course(t, nb, k + 1, longer)
    BY <2>2, <2>3 DEF Course
  <2>5. k + 1 \in 0 .. n
    BY <1>2
  <2> QED
    BY <2>4, <2>5
<1>3. n \in S
  <2> HIDE DEF S
  <2> QED
    BY <1>1, <1>2, Climb
<1> QED
  BY <1>3

(* rebuild_hash makes a right index, for any number of buckets.            *)
LEMMA RebuiltIndexes ==
    ASSUME NEW t, Shaped(t), NEW nb \in Nat \ {0}
    PROVE  Indexes(t, Rebuilt(t, nb), t.len)
<1>1. t.len \in Nat
  BY DEF Shaped
<1> DEFINE upTo == CHOOSE run : Course(t, nb, t.len, run)
<1>2. Rebuilt(t, nb) = upTo[t.len]
  BY DEF Rebuilt, Course, IndexStep
<1>3. Course(t, nb, t.len, upTo)
  BY <1>1, CourseExists
<1> HIDE DEF upTo
<1>4. upTo[0] = Empty(nb) /\ \A i \in 1 .. t.len : upTo[i] = IndexStep(t, upTo[i - 1], i)
  BY <1>1, <1>3 DEF Course
<1> DEFINE S == {k \in 0 .. t.len : Indexes(t, upTo[k], k)}
<1>5. 0 \in S
  BY <1>1, <1>4, EmptyIndex
<1>6. ASSUME NEW k \in 0 .. t.len, k < t.len, k \in S
      PROVE  k + 1 \in S
  <2>1. k + 1 \in 1 .. t.len /\ k \in Nat /\ k + 1 <= t.len /\ (k + 1) - 1 = k
    BY <1>1, <1>6
  <2>2. Indexes(t, IndexStep(t, upTo[k], k + 1), k + 1)
    BY <1>6, <2>1, IndexSteps
  <2> QED
    BY <1>4, <2>1, <2>2
<1>7. t.len \in S
  <2> HIDE DEF S
  <2> QED
    BY <1>1, <1>5, <1>6, Climb
<1> QED
  BY <1>2, <1>7

-----------------------------------------------------------------------------
(* find_elf_sym *)

Walk(t, n, m, run) ==
    run = [i \in 0 .. m |-> IF i = Nil THEN Nil
                            ELSE IF NameOf(t, i) = n THEN i ELSE run[t.hash.chain[i]]]

(* So has the walk of find_elf_sym, since every chain cell points back.    *)
LEMMA WalkExists ==
    ASSUME NEW t, NEW n, NEW m \in Nat, \A i \in 1 .. m : t.hash.chain[i] \in 0 .. i - 1
    PROVE  \E run : Walk(t, n, m, run)
<1> DEFINE S == {k \in 0 .. m : \E run : Walk(t, n, k, run)}
<1>1. 0 \in S
  <2> DEFINE run == [i \in 0 .. 0 |-> Nil]
  <2>1. Walk(t, n, 0, run)
    BY DEF Walk, Nil
  <2> QED
    BY <2>1
<1>2. ASSUME NEW k \in 0 .. m, k < m, k \in S
      PROVE  k + 1 \in S
  <2>1. PICK run : Walk(t, n, k, run)
    BY <1>2
  <2> DEFINE longer == [i \in 0 .. k + 1 |->
                 IF i = Nil THEN Nil ELSE IF NameOf(t, i) = n THEN i ELSE run[t.hash.chain[i]]]
  <2>2. \A i \in 0 .. k : longer[i] = run[i]
    BY <2>1 DEF Walk
  <2>3. \A i \in 0 .. k + 1 : i # Nil => t.hash.chain[i] \in 0 .. k
    <3>1. \A i \in 0 .. k + 1 : i # Nil => i \in 1 .. m /\ i - 1 \in 0 .. k
      BY <1>2 DEF Nil
    <3> QED
      BY <3>1
  <2>4. Walk(t, n, k + 1, longer)
    BY <2>2, <2>3 DEF Walk
  <2>5. k + 1 \in 0 .. m
    BY <1>2
  <2> QED
    BY <2>4, <2>5
<1>3. m \in S
  <2> HIDE DEF S
  <2> QED
    BY <1>1, <1>2, Climb
<1> QED
  BY <1>3

(* A walk from a symbol in the bucket finds the name if it is there. *)
Finds(t, n, b, i, j) ==
    i = Nil \/ In(t, t.hash.nb, b, i) =>
        /\ j \in 0 .. i
        /\ j # Nil => Binding(t, n, j)
        /\ j = Nil => \A k \in 1 .. i : ~Binding(t, n, k)

(* find_elf_sym finds a symbol exactly when the name is bound.             *)
LEMMA FoundByName ==
    ASSUME NEW t, Shaped(t), Indexes(t, t.hash, t.len), NEW n \in Names
    PROVE  /\ Find(t, n) \in 0 .. t.len
           /\ Find(t, n) # Nil => Binding(t, n, Find(t, n))
           /\ Find(t, n) = Nil => \A k \in 1 .. t.len : ~Binding(t, n, k)
<1>1. t.len \in Nat /\ \A i \in 1 .. t.len : t.hash.chain[i] \in 0 .. i - 1
  BY DEF Shaped, Indexes
<1> DEFINE walk == CHOOSE run : Walk(t, n, t.len, run)
           b == HashOf[n] % t.hash.nb
<1>2. Find(t, n) = walk[t.hash.bucket[b]]
  BY DEF Find, Walk
<1>3. Walk(t, n, t.len, walk)
  BY <1>1, WalkExists
<1> HIDE DEF walk
<1>4. /\ walk[0] = Nil
      /\ \A i \in 1 .. t.len : /\ NameOf(t, i) = n => walk[i] = i
                               /\ NameOf(t, i) # n => walk[i] = walk[t.hash.chain[i]]
  BY <1>1, <1>3 DEF Walk, Nil
<1>5. t.hash.nb \in Nat \ {0} /\ b \in 0 .. t.hash.nb - 1
  BY InBucket DEF Indexes
<1>6. \A k : Binding(t, n, k) => In(t, t.hash.nb, b, k)
  BY DEF Binding, In
<1> HIDE DEF b
<1> DEFINE S == {k \in 0 .. t.len : \A i \in 0 .. k : Finds(t, n, b, i, walk[i])}
<1>7. 0 \in S
  BY <1>1, <1>4 DEF Finds, Nil
<1>8. ASSUME NEW k \in 0 .. t.len, k < t.len, k \in S
      PROVE  k + 1 \in S
  <2>1. k + 1 \in 1 .. t.len /\ (k + 1) - 1 = k /\ k + 1 # 0 /\ k \in Nat
    BY <1>1, <1>8
  <2> DEFINE next == t.hash.chain[k + 1]
  <2>2. next \in 0 .. k
    BY <1>1, <2>1
  <2>3. Finds(t, n, b, k + 1, walk[k + 1])
    <3>1. SUFFICES ASSUME In(t, t.hash.nb, b, k + 1)
                   PROVE  /\ walk[k + 1] \in 0 .. k + 1
                          /\ walk[k + 1] # Nil => Binding(t, n, walk[k + 1])
                          /\ walk[k + 1] = Nil => \A j \in 1 .. k + 1 : ~Binding(t, n, j)
      BY <2>1 DEF Finds, Nil
    <3>2. CASE NameOf(t, k + 1) = n
      <4>1. walk[k + 1] = k + 1 /\ Binding(t, n, k + 1)
        BY <1>4, <2>1, <3>1, <3>2 DEF Binding, In
      <4> QED
        BY <2>1, <4>1 DEF Nil
    <3>3. CASE NameOf(t, k + 1) # n
      <4>1. walk[k + 1] = walk[next]
        BY <1>4, <2>1, <3>3
      <4>2. Latest(t, t.hash.nb, b, k, next)
        BY <2>1, <3>1 DEF Indexes
      <4>3. Finds(t, n, b, next, walk[next])
        BY <1>8, <2>2
      <4> HIDE DEF next
      <4>4. next = Nil \/ In(t, t.hash.nb, b, next)
        BY <4>2 DEF Latest
      <4>5. \A j \in 1 .. k : j > next => ~Binding(t, n, j)
        BY <1>6, <4>2 DEF Latest
      <4>6. ~Binding(t, n, k + 1)
        BY <3>3 DEF Binding
      <4>7. \A j \in 1 .. k + 1 : j \in 1 .. next \/ (j \in 1 .. k /\ j > next) \/ j = k + 1
        BY <2>1, <2>2
      <4>8. walk[next] \in 0 .. next
        BY <4>3, <4>4 DEF Finds
      <4> QED
        BY <2>1, <2>2, <4>1, <4>3, <4>4, <4>5, <4>6, <4>7, <4>8 DEF Finds
    <3> QED
      BY <3>2, <3>3
  <2>4. \A i \in 0 .. k + 1 : i \in 0 .. k \/ i = k + 1
    BY <2>1
  <2>5. k + 1 \in 0 .. t.len
    BY <2>1
  <2> QED
    BY <1>8, <2>3, <2>4, <2>5
<1>9. t.len \in S
  <2> HIDE DEF S
  <2> QED
    BY <1>1, <1>7, <1>8, Climb
<1> DEFINE i0 == t.hash.bucket[b]
<1>10. Latest(t, t.hash.nb, b, t.len, i0)
  BY <1>5 DEF Indexes
<1> HIDE DEF i0
<1>11. i0 \in 0 .. t.len /\ Finds(t, n, b, i0, walk[i0])
  BY <1>1, <1>9, <1>10 DEF Latest
<1>12. i0 = Nil \/ In(t, t.hash.nb, b, i0)
  BY <1>10 DEF Latest
<1>13. /\ walk[i0] \in 0 .. i0
       /\ walk[i0] # Nil => Binding(t, n, walk[i0])
       /\ walk[i0] = Nil => \A k \in 1 .. i0 : ~Binding(t, n, k)
  BY <1>11, <1>12 DEF Finds
<1>14. \A k \in 1 .. t.len : k > i0 => ~Binding(t, n, k)
  BY <1>6, <1>10 DEF Latest
<1>15. \A k \in 1 .. t.len : k \in 1 .. i0 \/ k > i0
  BY <1>11
<1>16. Find(t, n) = walk[i0]
  BY <1>2 DEF i0
<1>17. Find(t, n) \in 0 .. t.len
  BY <1>1, <1>11, <1>13, <1>16
<1> QED
  BY <1>13, <1>14, <1>15, <1>16, <1>17

-----------------------------------------------------------------------------
(* put_elf_sym *)

(* r has x at i and is otherwise as cells. *)
HoldsAt(T, cells, i, x, r) ==
    /\ r \in Seq(T) /\ Len(r) \in Nat
    /\ i <= Len(r) /\ Len(cells) <= Len(r)
    /\ r[i] = x
    /\ \A j \in 1 .. Len(cells) : j # i => r[j] = cells[j]

(* section_ptr_add and a store keep all other cells.                       *)
LEMMA Stored ==
    ASSUME NEW T, NEW cells \in Seq(T), NEW i \in 1 .. Len(cells) + 1, NEW x \in T,
           NEW r, r = Store(cells, i, x)
    PROVE  HoldsAt(T, cells, i, x, r)
<1>0. Len(cells) \in Nat /\ i \in Nat
  OBVIOUS
<1>1. CASE i > Len(cells)
  <2>1. i = Len(cells) + 1 /\ r = Append(cells, x)
    BY <1>0, <1>1 DEF Store
  <2>2. /\ Append(cells, x) \in Seq(T) /\ Len(Append(cells, x)) = Len(cells) + 1
        /\ Append(cells, x)[Len(cells) + 1] = x
        /\ \A j \in 1 .. Len(cells) : Append(cells, x)[j] = cells[j]
    OBVIOUS
  <2> QED
    BY <1>0, <2>1, <2>2 DEF HoldsAt
<1>2. CASE ~(i > Len(cells))
  <2>1. i \in 1 .. Len(cells) /\ r = [cells EXCEPT ![i] = x]
    BY <1>0, <1>2 DEF Store
  <2>2. /\ [cells EXCEPT ![i] = x] \in Seq(T) /\ Len([cells EXCEPT ![i] = x]) = Len(cells)
        /\ [cells EXCEPT ![i] = x][i] = x
        /\ \A j \in 1 .. Len(cells) : j # i => [cells EXCEPT ![i] = x][j] = cells[j]
    BY <2>1
  <2> QED
    BY <1>0, <2>1, <2>2 DEF HoldsAt
<1> QED
  BY <1>1, <1>2 DEF HoldsAt

(* t with one more symbol, and whatever index *)
Longer(t, n, e, ix, c) ==
    [syms |-> Store(t.syms, t.len + 1, Entry(e, t.slen + 1)), len |-> t.len + 1,
     strs |-> Store(t.strs, t.slen + 1, n), slen |-> t.slen + 1, hash |-> ix, hashed |-> c]

(* The cells of u are those of t up to the one put after its symbols.      *)
Extends(u, t, n, e) ==
    /\ u.len = t.len + 1 /\ u.slen = t.slen + 1
    /\ u.syms[t.len + 1] = Entry(e, t.slen + 1) /\ u.strs[t.slen + 1] = n
    /\ Len(t.syms) <= Len(u.syms) /\ Len(t.strs) <= Len(u.strs)
    /\ \A i \in 1 .. Len(t.syms) : i # t.len + 1 => u.syms[i] = t.syms[i]
    /\ \A i \in 1 .. Len(t.strs) : i # t.slen + 1 => u.strs[i] = t.strs[i]
    /\ \A i \in 1 .. t.len : u.syms[i] = t.syms[i] /\ NameOf(u, i) = NameOf(t, i)
    /\ NameOf(u, t.len + 1) = n

LEMMA EntryFields ==
    ASSUME NEW e \in Offers, NEW str \in Nat
    PROVE  /\ Entry(e, str) \in Entries /\ Entry(e, str).str = str
           /\ Entry(e, str).bind = e.bind /\ Entry(e, str).at = e.at /\ Entry(e, str).id = e.id
  BY DEF Entry, Entries, Offers

(* One more symbol leaves those before it as they are.                     *)
LEMMA LongerExtends ==
    ASSUME NEW t, Shaped(t), NEW n \in Names, NEW e \in Offers, NEW ix, NEW c \in Nat,
           NEW u, u = Longer(t, n, e, ix, c)
    PROVE  Shaped(u) /\ Extends(u, t, n, e) /\ u.hash = ix /\ u.hashed = c
<1>1. /\ t.syms \in Seq(Entries) /\ t.strs \in Seq(Names)
      /\ t.len \in 0 .. Len(t.syms) /\ t.slen \in 0 .. Len(t.strs)
      /\ Len(t.syms) \in Nat /\ Len(t.strs) \in Nat
  BY DEF Shaped
<1>2. /\ u = [syms |-> u.syms, len |-> u.len, strs |-> u.strs, slen |-> u.slen,
              hash |-> u.hash, hashed |-> u.hashed]
      /\ u.syms = Store(t.syms, t.len + 1, Entry(e, t.slen + 1)) /\ u.len = t.len + 1
      /\ u.strs = Store(t.strs, t.slen + 1, n) /\ u.slen = t.slen + 1
      /\ u.hash = ix /\ u.hashed = c
  BY DEF Longer
<1>3. t.len + 1 \in 1 .. Len(t.syms) + 1 /\ t.slen + 1 \in 1 .. Len(t.strs) + 1
      /\ t.len \in Nat /\ t.slen \in Nat /\ t.slen + 1 \in Nat
  BY <1>1
<1>4. Entry(e, t.slen + 1) \in Entries /\ Entry(e, t.slen + 1).str = t.slen + 1
  BY <1>3, EntryFields
<1>5. /\ u.syms \in Seq(Entries) /\ Len(u.syms) \in Nat
      /\ t.len + 1 <= Len(u.syms) /\ Len(t.syms) <= Len(u.syms)
      /\ u.syms[t.len + 1] = Entry(e, t.slen + 1)
      /\ \A i \in 1 .. Len(t.syms) : i # t.len + 1 => u.syms[i] = t.syms[i]
  <2> DEFINE x == Entry(e, t.slen + 1)
             i0 == t.len + 1
  <2>1. x \in Entries /\ i0 \in 1 .. Len(t.syms) + 1 /\ u.syms = Store(t.syms, i0, x)
    BY <1>2, <1>3, <1>4
  <2> HIDE DEF x, i0
  <2>2. /\ u.syms \in Seq(Entries) /\ Len(u.syms) \in Nat
        /\ i0 <= Len(u.syms) /\ Len(t.syms) <= Len(u.syms) /\ u.syms[i0] = x
        /\ \A i \in 1 .. Len(t.syms) : i # i0 => u.syms[i] = t.syms[i]
    <3>1. HoldsAt(Entries, t.syms, i0, x, u.syms)
      BY <1>1, <2>1, Stored, Zenon
    <3> QED
      BY <3>1 DEF HoldsAt
  <2> QED
    BY <2>2 DEF x, i0
<1>6. /\ u.strs \in Seq(Names) /\ Len(u.strs) \in Nat
      /\ t.slen + 1 <= Len(u.strs) /\ Len(t.strs) <= Len(u.strs)
      /\ u.strs[t.slen + 1] = n
      /\ \A i \in 1 .. Len(t.strs) : i # t.slen + 1 => u.strs[i] = t.strs[i]
  <2> DEFINE i0 == t.slen + 1
  <2>1. i0 \in 1 .. Len(t.strs) + 1 /\ u.strs = Store(t.strs, i0, n)
    BY <1>2, <1>3
  <2> HIDE DEF i0
  <2>2. /\ u.strs \in Seq(Names) /\ Len(u.strs) \in Nat
        /\ i0 <= Len(u.strs) /\ Len(t.strs) <= Len(u.strs) /\ u.strs[i0] = n
        /\ \A i \in 1 .. Len(t.strs) : i # i0 => u.strs[i] = t.strs[i]
    <3>1. HoldsAt(Names, t.strs, i0, n, u.strs)
      BY <1>1, <2>1, Stored, Zenon
    <3> QED
      BY <3>1 DEF HoldsAt
  <2> QED
    BY <2>2 DEF i0
<1>7. NameOf(u, t.len + 1) = n
  BY <1>4, <1>5, <1>6 DEF NameOf
<1>8. ASSUME NEW i \in 1 .. t.len
      PROVE  /\ u.syms[i] = t.syms[i] /\ NameOf(u, i) = NameOf(t, i)
             /\ t.syms[i].str \in 1 .. t.slen
  <2>1. t.syms[i].str \in 1 .. t.slen
    BY DEF Shaped
  <2>2. u.syms[i] = t.syms[i]
    <3>1. i \in 1 .. Len(t.syms) /\ i # t.len + 1
      BY <1>1, <1>3
    <3> QED
      BY <1>5, <3>1
  <2>3. t.syms[i].str \in 1 .. Len(t.strs) /\ t.syms[i].str # t.slen + 1
    <3>1. PICK q, sl, ls : q = t.syms[i].str /\ sl = t.slen /\ ls = Len(t.strs)
      OBVIOUS
    <3>2. q \in 1 .. sl /\ sl \in 0 .. ls /\ ls \in Nat
      BY <1>1, <2>1, <3>1
    <3>3. q \in 1 .. ls /\ q # sl + 1
      BY <3>2
    <3> QED
      BY <3>1, <3>3
  <2>4. u.strs[t.syms[i].str] = t.strs[t.syms[i].str]
    BY <1>6, <2>3
  <2> QED
    BY <2>1, <2>2, <2>4 DEF NameOf
<1>9. ASSUME NEW i \in 1 .. u.len
      PROVE  u.syms[i].str \in 1 .. u.slen
  <2>1. CASE i = t.len + 1
    BY <1>2, <1>3, <1>4, <1>5, <2>1
  <2>2. CASE i \in 1 .. t.len
    BY <1>2, <1>3, <1>8, <2>2
  <2> QED
    BY <1>2, <1>3, <2>1, <2>2
<1>10. u.len \in 0 .. Len(u.syms) /\ u.slen \in 0 .. Len(u.strs)
  BY <1>2, <1>3, <1>5, <1>6
<1>11. Shaped(u)
  BY <1>2, <1>5, <1>6, <1>9, <1>10 DEF Shaped
<1>12. Extends(u, t, n, e)
  BY <1>2, <1>5, <1>6, <1>7, <1>8 DEF Extends
<1> QED
  BY <1>2, <1>11, <1>12

(* put_elf_sym while the index is off                                      *)
LEMMA PutUnindexed ==
    ASSUME NEW t, Shaped(t), NEW n \in Names, NEW e \in Offers
    PROVE  /\ Shaped(Put(t, n, e, FALSE)) /\ Extends(Put(t, n, e, FALSE), t, n, e)
           /\ Put(t, n, e, FALSE).hash = t.hash /\ Put(t, n, e, FALSE).hashed = t.hashed
<1>1. PICK sy, le, st, sl, ix, c :
          t = [syms |-> sy, len |-> le, strs |-> st, slen |-> sl, hash |-> ix, hashed |-> c]
  BY DEF Shaped
<1>2. Put(t, n, e, FALSE) = Longer(t, n, e, t.hash, t.hashed)
  BY <1>1 DEF Put, Longer
<1>3. t.hashed \in Nat
  BY DEF Shaped
<1>4. PICK u : u = Longer(t, n, e, t.hash, t.hashed)
  OBVIOUS
<1>5. Shaped(u) /\ Extends(u, t, n, e) /\ u.hash = t.hash /\ u.hashed = t.hashed
  BY <1>3, <1>4, LongerExtends
<1> QED
  BY <1>2, <1>4, <1>5

(* put_elf_sym with the index on, which may have to grow                   *)
LEMMA PutIndexed ==
    ASSUME NEW t, Shaped(t), Indexes(t, t.hash, t.len), NEW n \in Names, NEW e \in Offers
    PROVE  /\ Shaped(Put(t, n, e, TRUE)) /\ Extends(Put(t, n, e, TRUE), t, n, e)
           /\ Indexes(Put(t, n, e, TRUE), Put(t, n, e, TRUE).hash, t.len + 1)
<1>1. PICK sy, le, st, sl, ix, c :
          t = [syms |-> sy, len |-> le, strs |-> st, slen |-> sl, hash |-> ix, hashed |-> c]
  BY DEF Shaped
<1>2. t.hash = ix /\ t.hashed = c /\ c \in Nat /\ t.len \in Nat
  BY <1>1 DEF Shaped
<1>3. ASSUME NEW jx, NEW d \in Nat, NEW u, u = Longer(t, n, e, jx, d)
      PROVE  /\ Shaped(u) /\ Extends(u, t, n, e) /\ Indexes(u, ix, t.len)
             /\ u.hash = jx /\ u.len = t.len + 1
             /\ u.syms[t.len + 1].bind = e.bind /\ NameOf(u, t.len + 1) = n
  <2>1. Shaped(u) /\ Extends(u, t, n, e) /\ u.hash = jx
    BY <1>3, LongerExtends
  <2>2. Alike(t, u, t.len)
    BY <2>1 DEF Extends, Alike
  <2>3. Indexes(u, ix, t.len)
    BY <1>2, <2>2, AlikeIndexed
  <2>4. t.slen + 1 \in Nat
    BY DEF Shaped
  <2>5. u.syms[t.len + 1].bind = e.bind
    BY <2>1, <2>4, EntryFields DEF Extends
  <2> QED
    BY <2>1, <2>3, <2>5 DEF Extends
<1>4. CASE e.bind = "local"
  <2>1. Put(t, n, e, TRUE) = Longer(t, n, e, Skip(ix), c)
    BY <1>1, <1>4 DEF Put, Longer
  <2>2. PICK u : u = Longer(t, n, e, Skip(ix), c)
    OBVIOUS
  <2>3. Shaped(u) /\ Extends(u, t, n, e) /\ Indexes(u, ix, t.len) /\ u.hash = Skip(ix)
        /\ u.syms[t.len + 1].bind = "local"
    BY <1>2, <1>3, <1>4, <2>2
  <2>4. Indexes(u, Skip(ix), t.len + 1)
    BY <1>2, <2>3, SkipIndexes
  <2> QED
    BY <2>1, <2>2, <2>3, <2>4
<1>5. CASE e.bind # "local"
  <2>1. PICK v : v = Longer(t, n, e, Chained(ix, n, t.len + 1), c + 1)
    OBVIOUS
  <2>2. Shaped(v) /\ Extends(v, t, n, e) /\ Indexes(v, ix, t.len) /\ v.len = t.len + 1
        /\ v.hash = Chained(ix, n, t.len + 1)
        /\ v.syms[t.len + 1].bind # "local" /\ NameOf(v, t.len + 1) = n
    BY <1>2, <1>3, <1>5, <2>1
  <2>3. Indexes(v, v.hash, t.len + 1)
    BY <1>2, <2>2, LinkIndexes
  <2>4. v.hashed = c + 1 /\ c + 1 \in Nat
    BY <1>2, <2>1 DEF Longer
  <2>5. Put(t, n, e, TRUE) = IF v.hashed > 2 * v.hash.nb
                             THEN [v EXCEPT !.hash = Rebuilt(v, 2 * v.hash.nb)] ELSE v
    <3>1. PICK u : u = Longer(t, n, e, ix, c)
      OBVIOUS
    <3>2. u = [t EXCEPT !.strs = Store(t.strs, t.slen + 1, n), !.slen = @ + 1,
                        !.syms = Store(t.syms, t.len + 1, Entry(e, t.slen + 1)),
                        !.len = t.len + 1]
      <4>1. Put(t, n, e, FALSE) = u
        BY <1>1, <3>1 DEF Put, Longer
      <4> QED
        BY <4>1 DEF Put
    <3>3. v = [u EXCEPT !.hash = Chained(@, n, t.len + 1), !.hashed = @ + 1]
      <4>1. PICK a, b, k, l :
                /\ u = [syms |-> b, len |-> k, strs |-> a, slen |-> l, hash |-> ix, hashed |-> c]
                /\ v = [syms |-> b, len |-> k, strs |-> a, slen |-> l,
                        hash |-> Chained(ix, n, t.len + 1), hashed |-> c + 1]
        BY <2>1, <3>1 DEF Longer
      <4>2. PICK jx, m : jx = Chained(ix, n, t.len + 1) /\ m = t.len + 1
        OBVIOUS
      <4>3. [u EXCEPT !.hash = Chained(@, n, t.len + 1), !.hashed = @ + 1] =
                [u EXCEPT !.hash = jx, !.hashed = c + 1]
        BY <4>1, <4>2
      <4>4. PICK d : d = c + 1
        OBVIOUS
      <4>5. v = [syms |-> b, len |-> k, strs |-> a, slen |-> l, hash |-> jx, hashed |-> d]
        BY <4>1, <4>2, <4>4
      <4>6. u = [syms |-> b, len |-> k, strs |-> a, slen |-> l, hash |-> ix, hashed |-> c]
        BY <4>1
      <4>7. [u EXCEPT !.hash = jx, !.hashed = d] =
                [syms |-> b, len |-> k, strs |-> a, slen |-> l, hash |-> jx, hashed |-> d]
        <5>1. PICK w : w = [u EXCEPT !.hash = jx]
          OBVIOUS
        <5>2. w = [syms |-> b, len |-> k, strs |-> a, slen |-> l, hash |-> jx, hashed |-> c]
          BY <4>6, <5>1
        <5>3. [w EXCEPT !.hashed = d] =
                  [syms |-> b, len |-> k, strs |-> a, slen |-> l, hash |-> jx, hashed |-> d]
          BY <5>2
        <5>4. [u EXCEPT !.hash = jx, !.hashed = d] = [w EXCEPT !.hashed = d]
          BY <5>1
        <5> QED
          BY <5>3, <5>4
      <4> QED
        BY <4>3, <4>4, <4>5, <4>7
    <3> QED
      BY <1>5, <3>2, <3>3 DEF Put
  <2>6. CASE v.hashed > 2 * v.hash.nb
    <3> DEFINE jx == Rebuilt(v, 2 * v.hash.nb)
    <3>1. v.hash.nb \in Nat \ {0}
      BY <2>3 DEF Indexes
    <3>2. 2 * v.hash.nb \in Nat \ {0}
      BY <3>1
    <3>3. Indexes(v, jx, t.len + 1)
      BY <2>2, <3>2, RebuiltIndexes
    <3> HIDE DEF jx
    <3>4. Put(t, n, e, TRUE) = [v EXCEPT !.hash = jx]
      BY <2>5, <2>6 DEF jx
    <3>5. [v EXCEPT !.hash = jx] = Longer(t, n, e, jx, c + 1)
      BY <2>1 DEF Longer
    <3>6. PICK u : u = Longer(t, n, e, jx, c + 1)
      OBVIOUS
    <3>7. Shaped(u) /\ Extends(u, t, n, e) /\ u.hash = jx
      BY <1>3, <2>4, <3>6
    <3>8. Alike(v, u, t.len + 1)
      <4>1. u.syms = v.syms /\ u.strs = v.strs
        BY <2>1, <3>6 DEF Longer
      <4> QED
        BY <4>1 DEF Alike, NameOf
    <3>9. Indexes(u, jx, t.len + 1)
      <4>1. t.len + 1 \in Nat
        BY <1>2
      <4> QED
        BY <3>3, <3>8, <4>1, AlikeIndexed
    <3> QED
      BY <3>4, <3>5, <3>6, <3>7, <3>9
  <2>7. CASE ~(v.hashed > 2 * v.hash.nb)
    BY <2>2, <2>3, <2>5, <2>7
  <2> QED
    BY <2>6, <2>7
<1> QED
  BY <1>4, <1>5

-----------------------------------------------------------------------------
(* set_elf_sym *)

(* A new symbol is put behind the others. *)
SetNew(t, n, e, u, p) ==
    /\ p = t.len + 1 /\ u.len = t.len + 1 /\ u.slen = t.slen + 1
    /\ u.syms[p] = Entry(e, t.slen + 1)
    /\ e.bind # "local" => \A i \in 1 .. t.len : ~Binding(t, n, i)

(* The symbol that the name is bound to is decided upon. *)
SetOld(t, n, e, u, p) ==
    /\ Binding(t, n, p) /\ e.bind # "local"
    /\ u.len = t.len /\ u.slen = t.slen
    /\ u.syms[p] = Entry(Merge(t.syms[p], e), t.syms[p].str)

(* u is t after n, with entry e, has been set to be symbol p. *)
Outcome(t, n, e, u, p) ==
    /\ SetNew(t, n, e, u, p) \/ SetOld(t, n, e, u, p)
    /\ p \in 1 .. u.len /\ NameOf(u, p) = n
    /\ Len(t.syms) <= Len(u.syms) /\ Len(t.strs) <= Len(u.strs)
    /\ \A i \in 1 .. t.len : /\ NameOf(u, i) = NameOf(t, i)
                             /\ i # p => u.syms[i] = t.syms[i]
    /\ \A i \in 1 .. Len(t.syms) : i > t.len + 1 => u.syms[i] = t.syms[i]
    /\ \A i \in 1 .. Len(t.strs) : i > t.slen + 1 => u.strs[i] = t.strs[i]

(* A merged entry is one of the two, under the name it had.                *)
LEMMA Merged ==
    ASSUME NEW old \in Entries, NEW e \in Offers, old.bind # "local", e.bind # "local"
    PROVE  /\ Entry(Merge(old, e), old.str) \in Entries
           /\ Entry(Merge(old, e), old.str).bind # "local"
           /\ Entry(Merge(old, e), old.str).str = old.str
<1>1. /\ old.bind \in Binds /\ old.at \in Sections /\ old.id \in Nat /\ old.str \in Nat
      /\ e.bind \in Binds /\ e.at \in Sections /\ e.id \in Nat
  BY DEF Entries, Offers
<1>2. CASE Merge(old, e) = e
  BY <1>1, <1>2 DEF Entry, Entries
<1>3. CASE Merge(old, e) = old
  BY <1>1, <1>3 DEF Entry, Entries
<1> QED
  BY <1>2, <1>3 DEF Merge

(* set_elf_sym keeps the table sound, with one more symbol or a merged one. *)
LEMMA SetSound ==
    ASSUME NEW t, Sound(t), NEW n \in Names, NEW e \in Offers, NEW s, s = Set(t, n, e)
    PROVE  Sound(s.t) /\ Outcome(t, n, e, s.t, s.i) /\ s.twice \in BOOLEAN
<1>1. Shaped(t) /\ Indexes(t, t.hash, t.len) /\ Single(t)
  BY DEF Sound
<1>2. /\ t.syms \in Seq(Entries) /\ t.strs \in Seq(Names)
      /\ t.len \in 0 .. Len(t.syms) /\ t.slen \in 0 .. Len(t.strs)
      /\ Len(t.syms) \in Nat /\ Len(t.strs) \in Nat /\ t.len \in Nat /\ t.slen \in Nat
  BY <1>1 DEF Shaped
<1> DEFINE p0 == IF e.bind = "local" THEN Nil ELSE Find(t, n)
<1>3. /\ p0 \in 0 .. t.len
      /\ p0 # Nil => Binding(t, n, p0) /\ e.bind # "local"
      /\ p0 = Nil /\ e.bind # "local" => \A i \in 1 .. t.len : ~Binding(t, n, i)
  BY <1>1, <1>2, FoundByName DEF Nil
<1>4. s = IF p0 = Nil
          THEN [t |-> Put(t, n, e, TRUE), i |-> t.len + 1, twice |-> FALSE]
          ELSE [t |-> [t EXCEPT !.syms[p0] = Entry(Merge(@, e), @.str)],
                i |-> p0, twice |-> DefinedTwice(t.syms[p0], e)]
  BY DEF Set
<1> HIDE DEF p0
<1>5. CASE p0 = Nil
  <2>1. PICK u : u = Put(t, n, e, TRUE)
    OBVIOUS
  <2>2. s.t = u /\ s.i = t.len + 1 /\ s.twice = FALSE
    BY <1>4, <1>5, <2>1
  <2>3. Shaped(u) /\ Extends(u, t, n, e) /\ Indexes(u, u.hash, t.len + 1)
    BY <1>1, <2>1, PutIndexed
  <2>4. /\ u.len = t.len + 1 /\ u.slen = t.slen + 1
        /\ u.syms[t.len + 1] = Entry(e, t.slen + 1)
        /\ Len(t.syms) <= Len(u.syms) /\ Len(t.strs) <= Len(u.strs)
        /\ \A i \in 1 .. Len(t.syms) : i # t.len + 1 => u.syms[i] = t.syms[i]
        /\ \A i \in 1 .. Len(t.strs) : i # t.slen + 1 => u.strs[i] = t.strs[i]
        /\ \A i \in 1 .. t.len : u.syms[i] = t.syms[i] /\ NameOf(u, i) = NameOf(t, i)
        /\ NameOf(u, t.len + 1) = n
    BY <2>3 DEF Extends
  <2>5. u.syms[t.len + 1].bind = e.bind
    <3>1. t.slen + 1 \in Nat
      BY <1>2
    <3> QED
      BY <2>4, <3>1, EntryFields
  <2>6. \A m : \A i \in 1 .. t.len : Binding(u, m, i) <=> Binding(t, m, i)
    BY <1>2, <2>4 DEF Binding
  <2>7. ASSUME NEW m, Binding(u, m, t.len + 1)
        PROVE  m = n /\ \A i \in 1 .. t.len : ~Binding(u, n, i)
    BY <1>3, <1>5, <2>4, <2>5, <2>6, <2>7 DEF Binding
  <2>8. Single(u)
    <3>1. SUFFICES ASSUME NEW m \in Names, NEW i \in 1 .. u.len, NEW j \in 1 .. u.len,
                          Binding(u, m, i), Binding(u, m, j)
                   PROVE  i = j
      BY DEF Single
    <3>2. i \in 1 .. t.len \/ i = t.len + 1
      BY <1>2, <2>4
    <3>3. j \in 1 .. t.len \/ j = t.len + 1
      BY <1>2, <2>4
    <3>4. CASE i \in 1 .. t.len /\ j \in 1 .. t.len
      BY <1>1, <2>6, <3>1, <3>4 DEF Single
    <3>5. CASE i = t.len + 1 \/ j = t.len + 1
      BY <2>7, <3>1, <3>2, <3>3, <3>5
    <3> QED
      BY <3>2, <3>3, <3>4, <3>5
  <2>9. Sound(u)
    BY <2>3, <2>4, <2>8 DEF Sound
  <2>10. SetNew(t, n, e, u, t.len + 1)
    BY <1>3, <1>5, <2>4 DEF SetNew
  <2>11. t.len + 1 \in 1 .. u.len
    BY <1>2, <2>4
  <2>12. \A i \in 1 .. Len(t.syms) : i > t.len + 1 => u.syms[i] = t.syms[i]
    <3>1. \A i \in 1 .. Len(t.syms) : i > t.len + 1 => i # t.len + 1
      BY <1>2
    <3> QED
      BY <2>4, <3>1
  <2>13. \A i \in 1 .. Len(t.strs) : i > t.slen + 1 => u.strs[i] = t.strs[i]
    <3>1. \A i \in 1 .. Len(t.strs) : i > t.slen + 1 => i # t.slen + 1
      BY <1>2
    <3> QED
      BY <2>4, <3>1
  <2>14. Outcome(t, n, e, u, t.len + 1)
    BY <2>4, <2>10, <2>11, <2>12, <2>13 DEF Outcome
  <2> QED
    BY <2>2, <2>9, <2>14
<1>6. CASE p0 # Nil
  <2>1. PICK x : x = Entry(Merge(t.syms[p0], e), t.syms[p0].str)
    OBVIOUS
  <2>2. PICK u : u = [t EXCEPT !.syms = [t.syms EXCEPT ![p0] = x]]
    OBVIOUS
  <2>3. p0 \in 1 .. t.len /\ p0 \in 1 .. Len(t.syms) /\ p0 \in DOMAIN t.syms
    BY <1>2, <1>3, <1>6 DEF Nil
  <2>4. PICK sy, le, st, sl, ix, c :
            t = [syms |-> sy, len |-> le, strs |-> st, slen |-> sl, hash |-> ix, hashed |-> c]
    BY <1>1 DEF Shaped
  <2>5. [t EXCEPT !.syms[p0] = Entry(Merge(@, e), @.str)] = u
    BY <2>1, <2>2, <2>4
  <2>6. s.t = u /\ s.i = p0 /\ s.twice = DefinedTwice(t.syms[p0], e)
    BY <1>4, <1>6, <2>5
  <2>7. s.twice \in BOOLEAN
    BY <2>6 DEF DefinedTwice
  <2>8. /\ u = [syms |-> u.syms, len |-> u.len, strs |-> u.strs, slen |-> u.slen,
                hash |-> u.hash, hashed |-> u.hashed]
        /\ u.syms = [t.syms EXCEPT ![p0] = x] /\ u.len = t.len /\ u.strs = t.strs
        /\ u.slen = t.slen /\ u.hash = t.hash /\ u.hashed = t.hashed
    BY <2>2, <2>4
  <2>9. Binding(t, n, p0) /\ e.bind # "local"
    BY <1>3, <1>6
  <2>10. t.syms[p0] \in Entries /\ t.syms[p0].bind # "local" /\ NameOf(t, p0) = n
    BY <1>2, <2>3, <2>9 DEF Binding
  <2>11. x \in Entries /\ x.bind # "local" /\ x.str = t.syms[p0].str
    BY <2>1, <2>9, <2>10, Merged
  <2>12. /\ u.syms \in Seq(Entries) /\ Len(u.syms) = Len(t.syms) /\ u.syms[p0] = x
         /\ \A i \in 1 .. Len(t.syms) : i # p0 => u.syms[i] = t.syms[i]
    BY <1>2, <2>3, <2>8, <2>11
  <2>13. ASSUME NEW i \in 1 .. t.len
         PROVE  /\ NameOf(u, i) = NameOf(t, i) /\ u.syms[i].str = t.syms[i].str
                /\ i # p0 => u.syms[i] = t.syms[i]
                /\ u.syms[i].bind = "local" <=> t.syms[i].bind = "local"
    <3>1. i \in 1 .. Len(t.syms)
      BY <1>2
    <3>2. CASE i = p0
      BY <2>8, <2>10, <2>11, <2>12, <3>2 DEF NameOf
    <3>3. CASE i # p0
      BY <2>8, <2>12, <3>1, <3>3 DEF NameOf
    <3> QED
      BY <3>2, <3>3
  <2>14. Shaped(u)
    BY <1>1, <2>8, <2>12, <2>13 DEF Shaped
  <2>15. Indexes(u, u.hash, u.len)
    <3>1. Alike(t, u, t.len)
      BY <2>13 DEF Alike
    <3> QED
      BY <1>1, <1>2, <2>8, <3>1, AlikeIndexed
  <2>16. \A m : \A i \in 1 .. t.len : Binding(u, m, i) <=> Binding(t, m, i)
    BY <2>8, <2>13 DEF Binding
  <2>17. Single(u)
    BY <1>1, <2>8, <2>16 DEF Single
  <2>18. SetOld(t, n, e, u, p0)
    BY <2>1, <2>8, <2>9, <2>12 DEF SetOld
  <2>19. NameOf(u, p0) = n /\ p0 \in 1 .. u.len
    BY <2>3, <2>8, <2>10, <2>13
  <2>20. \A i \in 1 .. Len(t.syms) : i > t.len + 1 => u.syms[i] = t.syms[i]
    <3>1. \A i \in 1 .. Len(t.syms) : i > t.len + 1 => i # p0
      BY <1>2, <2>3
    <3> QED
      BY <2>12, <3>1
  <2>21. Len(t.syms) <= Len(u.syms) /\ Len(t.strs) <= Len(u.strs)
    BY <1>2, <2>8, <2>12
  <2>22. Outcome(t, n, e, u, p0)
    BY <2>8, <2>13, <2>18, <2>19, <2>20, <2>21 DEF Outcome
  <2> QED
    BY <2>6, <2>7, <2>14, <2>15, <2>17, <2>22 DEF Sound
<1> QED
  BY <1>5, <1>6

-----------------------------------------------------------------------------
(* What setting a symbol does to what was set before *)

(* set_elf_sym never gives up the better definition, and among equal ones  *)
(* it keeps the one that it has.                                           *)
THEOREM TheBetterIsKept ==
    ASSUME NEW old, NEW new, old.at \in Sections, new.at \in Sections,
           old.bind \in {"global", "weak"}, new.bind \in {"global", "weak"}
    PROVE  /\ Rank(old) \in 0 .. 3 /\ Rank(new) \in 0 .. 3
           /\ Rank(Merge(old, new)) >= Rank(old) /\ Rank(Merge(old, new)) >= Rank(new)
           /\ Rank(old) = Rank(new) /\ Rank(old) > 0 => ~Takes(old, new)
<1>1. \A e : e.at \in Sections /\ e.bind \in {"global", "weak"} =>
          Rank(e) = IF e.at = "undef" THEN 0 ELSE IF e.bind = "weak" THEN 1
                    ELSE IF e.at = "data" THEN 3 ELSE 2
  BY DEF Rank, Tentative, Sections
<1>2. CASE Takes(old, new)
  <2>1. Rank(old) = 0 \/ Rank(new) > Rank(old)
    BY <1>1, <1>2 DEF Takes, Tentative
  <2>2. Merge(old, new) = new
    BY <1>2 DEF Merge
  <2> QED
    BY <1>1, <2>1, <2>2
<1>3. CASE ~Takes(old, new)
  <2>1. Rank(old) >= Rank(new)
    BY <1>1, <1>3 DEF Takes, Tentative, Sections
  <2>2. Merge(old, new) = old
    BY <1>3 DEF Merge
  <2> QED
    BY <1>1, <1>3, <2>1, <2>2
<1> QED
  BY <1>2, <1>3

(* Ranks are naturals.                                                     *)
LEMMA RankOf ==
    ASSUME NEW d, NEW e, d.bind = e.bind, d.at = e.at
    PROVE  Rank(d) = Rank(e)
  BY DEF Rank, Tentative

(* A first offer is the best one.                                          *)
LEMMA BestAlone ==
    ASSUME NEW e \in Offers, NEW d, d.bind = e.bind, d.at = e.at, d.id = e.id
    PROVE  Best(d, Append(<<>>, e))
<1>1. Append(<<>>, e) = <<e>> /\ DOMAIN <<e>> = {1} /\ <<e>>[1] = e
  OBVIOUS
<1>2. Rank(d) = Rank(e) /\ Rank(d) \in Nat
  BY RankOf DEF Rank
<1> QED
  BY <1>1, <1>2 DEF Best

(* Merging the best so far with one more offer gives the best of all.      *)
LEMMA BestOfMore ==
    ASSUME NEW os \in Seq(Linkable), NEW old \in Entries, old.bind # "local", Best(old, os),
           NEW e \in Linkable, NEW d,
           d.bind = Merge(old, e).bind, d.at = Merge(old, e).at, d.id = Merge(old, e).id
    PROVE  Best(d, Append(os, e))
<1>1. /\ old.at \in Sections /\ e.at \in Sections
      /\ old.bind \in {"global", "weak"} /\ e.bind \in {"global", "weak"}
  BY DEF Entries, Offers, Linkable, Binds
<1>2. /\ Rank(old) \in 0 .. 3 /\ Rank(e) \in 0 .. 3
      /\ Rank(Merge(old, e)) >= Rank(old) /\ Rank(Merge(old, e)) >= Rank(e)
      /\ Rank(old) = Rank(e) /\ Rank(old) > 0 => ~Takes(old, e)
  BY <1>1, TheBetterIsKept
<1>3. Rank(d) = Rank(Merge(old, e))
  BY RankOf
<1>4. PICK more : more = Append(os, e)
  OBVIOUS
<1>5. /\ DOMAIN os = 1 .. Len(os) /\ DOMAIN more = 1 .. Len(os) + 1 /\ Len(os) \in Nat
      /\ more[Len(os) + 1] = e /\ \A k \in DOMAIN os : more[k] = os[k]
  BY <1>4
<1>6. \A k \in DOMAIN os : Rank(os[k]) \in 0 .. 3
  <2>1. \A o \in Linkable : o.at \in Sections /\ o.bind \in {"global", "weak"}
    BY DEF Linkable, Offers, Binds
  <2>2. \A o \in Linkable : Rank(o) \in 0 .. 3
    BY <2>1, TheBetterIsKept
  <2>3. \A k \in DOMAIN os : os[k] \in Linkable
    OBVIOUS
  <2> QED
    BY <2>2, <2>3
<1>7. /\ \E j \in DOMAIN os : os[j].id = old.id
      /\ \A k \in DOMAIN os : /\ Rank(old) >= Rank(os[k])
                              /\ Rank(os[k]) = Rank(old) /\ Rank(old) > 0 =>
                                     \E j \in 1 .. k : os[j].id = old.id
  BY DEF Best
<1>8. CASE Takes(old, e)
  <2>1. Merge(old, e) = e
    BY <1>8 DEF Merge
  <2>2. d.id = e.id /\ Rank(d) = Rank(e)
    BY <1>3, <2>1
  <2>3. Rank(e) > 0 => Rank(e) > Rank(old)
    BY <1>2, <1>8, <2>1
  <2>4. ASSUME NEW k \in DOMAIN more
        PROVE  /\ Rank(d) >= Rank(more[k])
               /\ Rank(more[k]) = Rank(d) /\ Rank(d) > 0 => \E j \in 1 .. k : more[j].id = d.id
    <3>1. CASE k = Len(os) + 1
      <4>1. more[k] = e /\ k \in 1 .. k
        BY <1>5, <3>1
      <4> QED
        BY <1>2, <2>2, <4>1
    <3>2. CASE k \in DOMAIN os
      <4>1. more[k] = os[k] /\ Rank(os[k]) \in 0 .. 3 /\ Rank(old) >= Rank(os[k])
        BY <1>5, <1>6, <1>7, <3>2
      <4> QED
        BY <1>2, <2>1, <2>2, <2>3, <4>1
    <3> QED
      BY <1>5, <3>1, <3>2
  <2>5. \E j \in DOMAIN more : more[j].id = d.id
    BY <1>5, <2>2
  <2> QED
    BY <1>4, <2>4, <2>5 DEF Best
<1>9. CASE ~Takes(old, e)
  <2>1. Merge(old, e) = old
    BY <1>9 DEF Merge
  <2>2. d.id = old.id /\ Rank(d) = Rank(old) /\ Rank(old) >= Rank(e)
    BY <1>2, <1>3, <2>1
  <2>3. PICK j0 \in DOMAIN os : os[j0].id = old.id
    BY <1>7
  <2>4. j0 \in 1 .. Len(os) /\ more[j0].id = d.id
    BY <1>5, <2>2, <2>3
  <2>5. ASSUME NEW k \in DOMAIN more
        PROVE  /\ Rank(d) >= Rank(more[k])
               /\ Rank(more[k]) = Rank(d) /\ Rank(d) > 0 => \E j \in 1 .. k : more[j].id = d.id
    <3>1. CASE k = Len(os) + 1
      <4>1. more[k] = e /\ j0 \in 1 .. k
        BY <1>5, <2>4, <3>1
      <4> QED
        BY <2>2, <2>4, <4>1
    <3>2. CASE k \in DOMAIN os
      <4>1. more[k] = os[k] /\ Rank(d) >= Rank(more[k])
        BY <1>5, <1>7, <2>2, <3>2
      <4>2. ASSUME Rank(more[k]) = Rank(d), Rank(d) > 0
            PROVE  \E j \in 1 .. k : more[j].id = d.id
        <5>1. PICK j \in 1 .. k : os[j].id = old.id
          BY <1>7, <2>2, <3>2, <4>1, <4>2
        <5>2. j \in DOMAIN os
          BY <1>5, <3>2
        <5> QED
          BY <1>5, <2>2, <5>1, <5>2
      <4> QED
        BY <4>1, <4>2
    <3> QED
      BY <1>5, <3>1, <3>2
  <2>6. \E j \in DOMAIN more : more[j].id = d.id
    BY <1>5, <2>4
  <2> QED
    BY <1>4, <2>5, <2>6 DEF Best
<1> QED
  BY <1>8, <1>9

LEMMA OutcomeEntry ==
    ASSUME NEW t, Shaped(t), NEW n, NEW e \in Offers, NEW u, NEW p, Outcome(t, n, e, u, p)
    PROVE  /\ e.bind = "local" => u.syms[p].bind = "local" /\ u.syms[p].id = e.id
           /\ e.bind # "local" => u.syms[p].bind # "local"
<1>1. t.slen + 1 \in Nat
  BY DEF Shaped
<1>2. CASE SetNew(t, n, e, u, p)
  BY <1>1, <1>2, EntryFields DEF SetNew
<1>3. CASE SetOld(t, n, e, u, p)
  <2>1. p \in 1 .. Len(t.syms) /\ t.syms[p].bind # "local" /\ e.bind # "local"
    BY <1>3 DEF SetOld, Binding, Shaped
  <2>2. t.syms[p] \in Entries
    BY <2>1 DEF Shaped
  <2> QED
    BY <1>3, <2>1, <2>2, Merged DEF SetOld
<1> QED
  BY <1>2, <1>3 DEF Outcome

(* What a position means is not changed by setting another symbol,         *)
LEMMA MeansAfter ==
    ASSUME NEW t, Shaped(t), NEW n, NEW e \in Offers, NEW u, NEW p, Outcome(t, n, e, u, p),
           NEW gv, NEW q, NEW id, Means(t, gv, q, id)
    PROVE  Means(u, gv, q, id)
<1>1. /\ q \in 1 .. t.len /\ id \in DOMAIN gv /\ NameOf(t, q) = gv[id].name
      /\ IF gv[id].local THEN t.syms[q].bind = "local" /\ t.syms[q].id = id
         ELSE t.syms[q].bind # "local"
  BY DEF Means
<1>2. NameOf(u, q) = gv[id].name
  BY <1>1 DEF Outcome
<1>3. q \in 1 .. u.len
  <2>1. t.len \in Nat /\ (u.len = t.len \/ u.len = t.len + 1)
    BY DEF Shaped, Outcome, SetNew, SetOld
  <2> QED
    BY <1>1, <2>1
<1>4. CASE q # p
  <2>1. u.syms[q] = t.syms[q]
    BY <1>1, <1>4 DEF Outcome
  <2> QED
    BY <1>1, <1>2, <1>3, <2>1 DEF Means
<1>5. CASE q = p
  <2>1. SetOld(t, n, e, u, p)
    <3>1. t.len \in Nat
      BY DEF Shaped
    <3> QED
      BY <1>1, <1>5, <3>1 DEF Outcome, SetNew
  <2>2. t.syms[q].bind # "local" /\ e.bind # "local"
    BY <1>5, <2>1 DEF SetOld, Binding
  <2>3. u.syms[q].bind # "local"
    BY <1>5, <2>2, OutcomeEntry
  <2> QED
    BY <1>1, <1>2, <1>3, <2>2, <2>3 DEF Means
<1> QED
  BY <1>4, <1>5

(* and the position that set_elf_sym returns means the new symbol.         *)
LEMMA MeansNew ==
    ASSUME NEW t, Shaped(t), NEW n, NEW e \in Offers, NEW u, NEW p, Outcome(t, n, e, u, p),
           NEW gv, NEW id \in DOMAIN gv, gv[id].name = n,
           gv[id].local => e.bind = "local" /\ e.id = id,
           ~gv[id].local => e.bind # "local"
    PROVE  Means(u, gv, p, id)
<1>1. p \in 1 .. u.len /\ NameOf(u, p) = n
  BY DEF Outcome
<1>2. /\ e.bind = "local" => u.syms[p].bind = "local" /\ u.syms[p].id = e.id
      /\ e.bind # "local" => u.syms[p].bind # "local"
  BY OutcomeEntry
<1> QED
  BY <1>1, <1>2 DEF Means

OffersAfter(os, n, e) == IF e.bind = "local" THEN os ELSE [os EXCEPT ![n] = Append(@, e)]

(* The names stay bound to the best of their offers.                       *)
LEMMA ServedAfter ==
    ASSUME NEW t, Shaped(t), NEW n \in Names, NEW e \in Offers, NEW u, NEW p,
           Outcome(t, n, e, u, p), Single(u),
           NEW os \in [Names -> Seq(Linkable)], Served(t, os)
    PROVE  OffersAfter(os, n, e) \in [Names -> Seq(Linkable)] /\ Served(u, OffersAfter(os, n, e))
<1>1. /\ t.len \in Nat /\ u.len \in Nat /\ t.slen + 1 \in Nat
      /\ \A i \in 1 .. t.len : i \in 1 .. u.len
      /\ \A i \in 1 .. u.len : i = p \/ i \in 1 .. t.len
  BY DEF Shaped, Outcome, SetNew, SetOld
<1>2. /\ p \in 1 .. u.len /\ NameOf(u, p) = n
      /\ \A i \in 1 .. t.len : NameOf(u, i) = NameOf(t, i) /\ (i # p => u.syms[i] = t.syms[i])
  BY DEF Outcome
<1>3. /\ e.bind = "local" => u.syms[p].bind = "local"
      /\ e.bind # "local" => u.syms[p].bind # "local"
  BY OutcomeEntry
<1>4. \A m \in Names : /\ os[m] # <<>> => \E i \in 1 .. t.len : Binding(t, m, i)
                       /\ \A i \in 1 .. t.len : Binding(t, m, i) => Best(t.syms[i], os[m])
  BY DEF Served
<1>5. ASSUME NEW m, NEW i \in 1 .. t.len, i # p
      PROVE  Binding(u, m, i) <=> Binding(t, m, i)
  <2>1. NameOf(u, i) = NameOf(t, i) /\ u.syms[i] = t.syms[i] /\ i \in 1 .. u.len
    BY <1>1, <1>2, <1>5
  <2> QED
    BY <2>1 DEF Binding
<1>6. CASE e.bind = "local"
  <2>1. OffersAfter(os, n, e) = os
    BY <1>6 DEF OffersAfter
  <2>2. \A m : ~Binding(u, m, p)
    BY <1>3, <1>6 DEF Binding
  <2>3. p \notin 1 .. t.len
    BY <1>1, <1>6 DEF Outcome, SetNew, SetOld
  <2>4. ASSUME NEW m \in Names
        PROVE  /\ os[m] # <<>> => \E i \in 1 .. u.len : Binding(u, m, i)
               /\ \A i \in 1 .. u.len : Binding(u, m, i) => Best(u.syms[i], os[m])
    <3>1. ASSUME os[m] # <<>>
          PROVE  \E i \in 1 .. u.len : Binding(u, m, i)
      <4>1. PICK i \in 1 .. t.len : Binding(t, m, i)
        BY <1>4, <3>1
      <4> QED
        BY <1>1, <1>5, <2>3, <4>1
    <3>2. ASSUME NEW i \in 1 .. u.len, Binding(u, m, i)
          PROVE  Best(u.syms[i], os[m])
      <4>1. i \in 1 .. t.len /\ i # p
        BY <1>1, <2>2, <3>2
      <4> QED
        BY <1>2, <1>4, <1>5, <3>2, <4>1
    <3> QED
      BY <3>1, <3>2
  <2> QED
    BY <2>1, <2>4 DEF Served
<1>7. CASE e.bind # "local"
  <2>1. e \in Linkable
    BY <1>7 DEF Linkable
  <2>2. PICK new : new = [os EXCEPT ![n] = Append(os[n], e)]
    OBVIOUS
  <2>3. OffersAfter(os, n, e) = new
    BY <1>7, <2>2 DEF OffersAfter
  <2>4. os[n] \in Seq(Linkable) /\ Append(os[n], e) \in Seq(Linkable)
    BY <2>1
  <2>5. /\ new \in [Names -> Seq(Linkable)] /\ new[n] = Append(os[n], e)
        /\ \A m \in Names : m # n => new[m] = os[m]
    BY <2>2, <2>4
  <2>6. Binding(u, n, p)
    BY <1>2, <1>3, <1>7 DEF Binding
  <2>7. ASSUME NEW m \in Names, m # n
        PROVE  /\ new[m] # <<>> => \E i \in 1 .. u.len : Binding(u, m, i)
               /\ \A i \in 1 .. u.len : Binding(u, m, i) => Best(u.syms[i], new[m])
    <3>1. ~Binding(u, m, p)
      BY <1>2, <2>7 DEF Binding
    <3>2. \A i \in 1 .. t.len : Binding(t, m, i) => i # p
      BY <1>2, <2>7 DEF Binding
    <3>3. ASSUME new[m] # <<>>
          PROVE  \E i \in 1 .. u.len : Binding(u, m, i)
      <4>1. PICK i \in 1 .. t.len : Binding(t, m, i)
        BY <1>4, <2>5, <2>7, <3>3
      <4> QED
        BY <1>1, <1>5, <3>2, <4>1
    <3>4. ASSUME NEW i \in 1 .. u.len, Binding(u, m, i)
          PROVE  Best(u.syms[i], new[m])
      <4>1. i \in 1 .. t.len /\ i # p
        BY <1>1, <3>1, <3>4
      <4> QED
        BY <1>2, <1>4, <1>5, <2>5, <2>7, <3>4, <4>1
    <3> QED
      BY <3>3, <3>4
  <2>8. Best(u.syms[p], new[n])
    <3>1. CASE SetNew(t, n, e, u, p)
      <4>1. \A i \in 1 .. t.len : ~Binding(t, n, i)
        BY <1>7, <3>1 DEF SetNew
      <4>2. os[n] = <<>>
        BY <1>4, <4>1
      <4>3. u.syms[p].bind = e.bind /\ u.syms[p].at = e.at /\ u.syms[p].id = e.id
        BY <1>1, <3>1, EntryFields DEF SetNew
      <4> QED
        BY <2>5, <4>2, <4>3, BestAlone
    <3>2. CASE SetOld(t, n, e, u, p)
      <4>1. Binding(t, n, p) /\ p \in 1 .. t.len /\ t.syms[p].bind # "local"
        BY <3>2 DEF SetOld, Binding
      <4>2. Best(t.syms[p], os[n])
        BY <1>4, <4>1
      <4>3. t.syms[p] \in Entries
        BY <4>1 DEF Shaped
      <4>4. u.syms[p] = Entry(Merge(t.syms[p], e), t.syms[p].str)
        BY <3>2 DEF SetOld
      <4>5. /\ u.syms[p].bind = Merge(t.syms[p], e).bind
            /\ u.syms[p].at = Merge(t.syms[p], e).at
            /\ u.syms[p].id = Merge(t.syms[p], e).id
        BY <4>4 DEF Entry
      <4>6. Best(u.syms[p], Append(os[n], e))
        BY <2>1, <2>4, <4>1, <4>2, <4>3, <4>5, BestOfMore
      <4> QED
        BY <2>5, <4>6
    <3> QED
      BY <3>1, <3>2 DEF Outcome
  <2>9. \A i \in 1 .. u.len : Binding(u, n, i) => Best(u.syms[i], new[n])
    BY <1>2, <2>6, <2>8 DEF Single
  <2>10. Served(u, new)
    BY <1>2, <2>6, <2>7, <2>9 DEF Served
  <2> QED
    BY <2>3, <2>5, <2>10
<1> QED
  BY <1>6, <1>7

(* r, which a has become with one symbol more *)
Kept(a, n, e, r) ==
    /\ Sound(r.t) /\ r.new \in Seq(Nat) /\ r.twice \in BOOLEAN
    /\ r.offers \in [Names -> Seq(Linkable)] /\ Served(r.t, r.offers)
    /\ Len(r.new) = Len(a.new) + 1
    /\ \A k \in 1 .. Len(a.new) : r.new[k] = a.new[k]
    /\ Outcome(a.t, n, e, r.t, r.new[Len(a.new) + 1])

(* All of this for one symbol of a file or an object                       *)
LEMMA AddedKeeps ==
    ASSUME NEW a, Sound(a.t), a.new \in Seq(Nat), a.twice \in BOOLEAN,
           a.offers \in [Names -> Seq(Linkable)], Served(a.t, a.offers),
           NEW n \in Names, NEW e \in Offers, NEW r, r = Added(a, n, e)
    PROVE  Kept(a, n, e, r)
<1>1. PICK s : s = Set(a.t, n, e)
  OBVIOUS
<1>2. Sound(s.t) /\ Outcome(a.t, n, e, s.t, s.i) /\ s.twice \in BOOLEAN
  BY <1>1, SetSound
<1>3. /\ r.t = s.t /\ r.new = Append(a.new, s.i) /\ r.twice = (a.twice \/ s.twice)
      /\ r.offers = OffersAfter(a.offers, n, e)
  BY <1>1 DEF Added, OffersAfter
<1>4. s.i \in Nat
  BY <1>2 DEF Outcome, Sound, Shaped
<1>5. r.offers \in [Names -> Seq(Linkable)] /\ Served(r.t, r.offers)
  <2>1. Shaped(a.t) /\ Single(s.t)
    BY <1>2 DEF Sound
  <2>2. PICK os : os = a.offers
    OBVIOUS
  <2>3. os \in [Names -> Seq(Linkable)] /\ Served(a.t, os)
    BY <2>2
  <2>4. OffersAfter(os, n, e) \in [Names -> Seq(Linkable)] /\ Served(s.t, OffersAfter(os, n, e))
    BY <1>2, <2>1, <2>3, ServedAfter
  <2> QED
    BY <1>3, <2>2, <2>4
<1>6. /\ r.new \in Seq(Nat) /\ Len(r.new) = Len(a.new) + 1
      /\ r.new[Len(a.new) + 1] = s.i
      /\ \A k \in 1 .. Len(a.new) : r.new[k] = a.new[k]
  BY <1>3, <1>4
<1>7. r.twice \in BOOLEAN
  BY <1>2, <1>3
<1> QED
  BY <1>2, <1>3, <1>5, <1>6, <1>7 DEF Kept

-----------------------------------------------------------------------------
(* The table between two steps *)

LEMMA Became ==
    ASSUME NEW u, Shaped(u), TableBecomes(u)
    PROVE  Table' = u
  BY DEF TableBecomes, Table, Shaped

(* Between files the core is the whole table.                              *)
LEMMA Cores ==
    /\ Core.syms = syms /\ Core.strs = strs /\ Core.hash = hash /\ Core.hashed = hashed
    /\ phase = "compiling" => Core.len = first.sym /\ Core.slen = first.str
    /\ phase # "compiling" => Core = Table /\ Core.len = len /\ Core.slen = slen
  BY DEF Core, CoreOf, Table

(* The types of the variables, from the invariant                          *)
LEMMA Typing ==
    ASSUME TableInv
    PROVE  /\ phase \in {"idle", "compiling", "ending", "sorted", "failed"}
           /\ syms \in Seq(Entries) /\ strs \in Seq(Names)
           /\ Len(syms) \in Nat /\ Len(strs) \in Nat
           /\ len \in Nat /\ len <= Len(syms) /\ slen \in Nat /\ slen <= Len(strs)
           /\ first.sym \in Nat /\ first.str \in Nat /\ count \in Nat /\ tr \in Seq(Nat)
           /\ relocs \in Seq([sym : Nat, id : Nat, dup : BOOLEAN]) /\ error \in BOOLEAN /\ ids \in Nat
           /\ given \in Seq([name : Names, local : BOOLEAN]) /\ Len(given) = ids
           /\ DOMAIN given = 1 .. ids /\ hashed \in Nat
           /\ offers \in [Names -> Seq(Linkable)]
<1>1. TableTyped /\ Shaped(Core)
  BY DEF TableInv, CoreSound
<1>2. syms \in Seq(Entries) /\ strs \in Seq(Names) /\ hashed \in Nat
  BY <1>1, Cores DEF Shaped
<1> QED
  BY <1>1, <1>2 DEF TableTyped

(* Also what the compiler has put is in its place. *)
LEMMA TableShaped ==
    ASSUME TableInv
    PROVE  Shaped(Table)
<1>1. CASE phase # "compiling"
  BY <1>1, Cores DEF TableInv, CoreSound
<1>2. CASE phase = "compiling"
  <2>1. Shaped(Core) /\ Core.len = first.sym /\ Core.slen = first.str /\ Core.syms = syms
    BY <1>2, Cores DEF TableInv, CoreSound
  <2>2. /\ first.sym <= len /\ slen - first.str = len - first.sym
        /\ \A k \in 1 .. len - first.sym : syms[first.sym + k].str = first.str + k
    BY <1>2 DEF TableInv, FileKept, Size, Fresh
  <2>3. first.sym \in Nat /\ first.str \in Nat /\ len \in Nat /\ slen \in Nat
    BY Typing
  <2>4. ASSUME NEW i \in 1 .. len
        PROVE  syms[i].str \in 1 .. slen
    <3>1. CASE i <= first.sym
      <4>1. syms[i].str \in 1 .. first.str
        BY <2>1, <2>3, <3>1 DEF Shaped
      <4> QED
        BY <2>2, <2>3, <4>1
    <3>2. CASE ~(i <= first.sym)
      <4>1. i - first.sym \in 1 .. len - first.sym /\ first.sym + (i - first.sym) = i
        BY <2>3, <3>2
      <4>2. syms[i].str = first.str + (i - first.sym)
        BY <2>2, <4>1
      <4> QED
        BY <2>2, <2>3, <4>1, <4>2
    <3> QED
      BY <3>1, <3>2
  <2>5. /\ Table = [syms |-> Table.syms, len |-> Table.len, strs |-> Table.strs,
                    slen |-> Table.slen, hash |-> Table.hash, hashed |-> Table.hashed]
        /\ Table.syms = syms /\ Table.len = len /\ Table.strs = strs /\ Table.slen = slen
        /\ Table.hash = hash /\ Table.hashed = hashed
    BY DEF Table
  <2>6. len \in 0 .. Len(syms) /\ slen \in 0 .. Len(strs)
    BY Typing
  <2> QED
    BY <2>4, <2>5, <2>6, Typing DEF Shaped
<1> QED
  BY <1>1, <1>2

(* d has the symbols of c, whatever lies behind them. *)
SameCore(c, d) ==
    /\ d = [syms |-> d.syms, len |-> c.len, strs |-> d.strs, slen |-> c.slen,
            hash |-> c.hash, hashed |-> c.hashed]
    /\ d.syms \in Seq(Entries) /\ d.strs \in Seq(Names)
    /\ c.len <= Len(d.syms) /\ c.slen <= Len(d.strs)
    /\ \A i \in 1 .. c.len : d.syms[i] = c.syms[i]
    /\ \A i \in 1 .. c.slen : d.strs[i] = c.strs[i]

(* Cells behind the core may change without changing what it means.        *)
LEMMA CoreKept ==
    ASSUME NEW c, Sound(c), NEW d, SameCore(c, d)
    PROVE  /\ Sound(d)
           /\ \A gv, q, id : Means(c, gv, q, id) => Means(d, gv, q, id)
           /\ \A os : Served(c, os) => Served(d, os)
<1>1. /\ Shaped(c) /\ Indexes(c, c.hash, c.len) /\ Single(c)
      /\ c.len \in Nat /\ c.slen \in Nat /\ c.hashed \in Nat
  BY DEF Sound, Shaped
<1>2. /\ d = [syms |-> d.syms, len |-> d.len, strs |-> d.strs, slen |-> d.slen,
              hash |-> d.hash, hashed |-> d.hashed]
      /\ d.len = c.len /\ d.slen = c.slen /\ d.hash = c.hash /\ d.hashed = c.hashed
  BY DEF SameCore
<1>3. ASSUME NEW i \in 1 .. c.len
      PROVE  /\ d.syms[i] = c.syms[i] /\ d.syms[i].str \in 1 .. c.slen
             /\ NameOf(d, i) = NameOf(c, i)
  <2>1. d.syms[i] = c.syms[i] /\ c.syms[i].str \in 1 .. c.slen
    BY <1>1 DEF SameCore, Shaped
  <2>2. d.strs[c.syms[i].str] = c.strs[c.syms[i].str]
    BY <2>1 DEF SameCore
  <2> QED
    BY <2>1, <2>2 DEF NameOf
<1>4. d.len \in 0 .. Len(d.syms) /\ d.slen \in 0 .. Len(d.strs)
  <2>1. Len(d.syms) \in Nat /\ Len(d.strs) \in Nat
    BY DEF SameCore
  <2> QED
    BY <1>1, <1>2, <2>1 DEF SameCore
<1>5. Shaped(d)
  BY <1>1, <1>2, <1>3, <1>4 DEF Shaped, SameCore
<1>6. Indexes(d, d.hash, d.len)
  <2>1. Alike(c, d, c.len)
    BY <1>3 DEF Alike
  <2> QED
    BY <1>1, <1>2, <2>1, AlikeIndexed
<1>7. \A n, i : Binding(d, n, i) <=> Binding(c, n, i)
  BY <1>2, <1>3 DEF Binding
<1>8. Single(d)
  BY <1>1, <1>2, <1>7 DEF Single
<1>9. \A gv, q, id : Means(c, gv, q, id) => Means(d, gv, q, id)
  BY <1>2, <1>3 DEF Means
<1>10. ASSUME NEW os, Served(c, os)
       PROVE  Served(d, os)
  <2>1. \A n \in Names : \A i \in 1 .. c.len : Binding(c, n, i) => Best(d.syms[i], os[n])
    BY <1>3, <1>10 DEF Served
  <2> QED
    BY <1>2, <1>7, <1>10, <2>1 DEF Served
<1> QED
  BY <1>5, <1>6, <1>8, <1>9, <1>10 DEF Sound

(* What is kept of what the symbols mean is kept of the relocations. *)
LEMMA RefersStill ==
    ASSUME NEW t, NEW gv, NEW r, Refers(t, gv, r), NEW u, NEW gw,
           Means(t, gv, r.sym, r.id) => Means(u, gw, r.sym, r.id),
           r.id \in DOMAIN gv => r.id \in DOMAIN gw
    PROVE  Refers(u, gw, r)
  BY DEF Refers

LEMMA RefersGiven ==
    ASSUME NEW t, NEW gv, NEW r, Refers(t, gv, r)
    PROVE  r.id \in DOMAIN gv
  BY DEF Refers, Means

(* What a number means does not depend on numbers given later. *)
LEMMA MeansLater ==
    ASSUME NEW t, NEW gv, NEW q, NEW id, Means(t, gv, q, id),
           NEW gw, id \in DOMAIN gw, gw[id] = gv[id]
    PROVE  Means(t, gw, q, id)
  BY DEF Means

-----------------------------------------------------------------------------
(* The steps *)

(* Where the k-th symbol of the file is, of fs symbols and fr strings      *)
(* before it, l and s in all, and n numbers given.                         *)
LEMMA Positions ==
    ASSUME NEW fs \in Nat, NEW fr \in Nat, NEW l \in Nat, NEW s \in Nat, NEW n \in Nat,
           NEW b \in Nat, NEW z, fs <= l, s - fr = l - fs, z = l - fs, b = n - z
    PROVE  /\ z \in Nat
           /\ \A k \in 1 .. z : /\ fs + k \in 1 .. l /\ fs + k # l + 1
                               /\ fr + k \in 1 .. s /\ fr + k # s + 1
                               /\ b + k \in 1 .. n
           /\ fs + (z + 1) = l + 1 /\ fr + (z + 1) = s + 1 /\ b + (z + 1) = n + 1
           /\ (n + 1) - ((l + 1) - fs) = b /\ (l + 1) - fs = z + 1
           /\ fs <= l + 1 /\ (s + 1) - fr = (l + 1) - fs
           /\ \A k \in 1 .. z + 1 : k \in 1 .. z \/ k = z + 1
           /\ \A p \in fs + 1 .. fs + z : p \in fs + 1 .. fs + (z + 1)
           /\ fr <= s /\ \A p \in fs + 1 .. l : p - fs \in 1 .. z /\ fs + (p - fs) = p
  OBVIOUS

LEMMA Apart ==
    ASSUME NEW a \in Nat, NEW b \in Nat, NEW k \in Nat, NEW j \in Nat, k # j
    PROVE  a + k # a + j /\ b + k # b + j
  OBVIOUS

LEMMA Wider ==
    ASSUME NEW m \in Nat, NEW n \in Nat, m <= n, NEW i \in 1 .. m
    PROVE  i \in 1 .. n
  OBVIOUS

(* The new table satisfies the invariant.                                  *)
LEMMA InitTable == TableInit => TableInv
<1> SUFFICES ASSUME TableInit
             PROVE  TableInv
  OBVIOUS
<1>1. /\ phase = "idle" /\ syms = <<>> /\ len = 0 /\ strs = <<>> /\ slen = 0
      /\ hash = Empty(Buckets) /\ hashed = 0 /\ first = [sym |-> 0, str |-> 0]
      /\ count = 0 /\ tr = <<>> /\ relocs = <<>> /\ error = FALSE /\ ids = 0
      /\ given = <<>> /\ offers = [n \in Names |-> <<>>]
  BY DEF TableInit
<1>2. Core = Table
  BY <1>1 DEF Core, CoreOf
<1>3. PICK t : t = Table
  OBVIOUS
<1>4. /\ t = [syms |-> t.syms, len |-> t.len, strs |-> t.strs, slen |-> t.slen,
              hash |-> t.hash, hashed |-> t.hashed]
      /\ t.syms = <<>> /\ t.len = 0 /\ t.strs = <<>> /\ t.slen = 0
      /\ t.hash = Empty(Buckets) /\ t.hashed = 0
  BY <1>1, <1>3 DEF Table
<1>5. Shaped(t)
  BY <1>4 DEF Shaped
<1>6. Buckets \in Nat \ {0}
  BY TableAssumption
<1>7. Indexes(t, t.hash, t.len)
  BY <1>4, <1>6, EmptyIndex
<1>8. \A n, i : ~Binding(t, n, i)
  BY <1>4 DEF Binding
<1>9. Sound(t)
  BY <1>5, <1>7, <1>8 DEF Sound, Single
<1>10. CoreSound
  BY <1>2, <1>3, <1>5, <1>9 DEF CoreSound
<1>11. offers \in [Names -> Seq(Linkable)]
  BY <1>1
<1>12. Served(t, offers)
  BY <1>1, <1>8 DEF Served
<1>13. BestKept
  BY <1>2, <1>3, <1>12 DEF BestKept
<1>14. RelocsMean /\ FileKept
  BY <1>1 DEF RelocsMean, FileKept
<1>15. TableTyped
  <2>1. first \in [sym : Nat, str : Nat]
    BY <1>1
  <2>2. /\ tr \in Seq(Nat) /\ relocs \in Seq([sym : Nat, id : Nat, dup : BOOLEAN])
        /\ given \in Seq([name : Names, local : BOOLEAN]) /\ Len(given) = ids
        /\ len \in 0 .. Len(syms) /\ slen \in 0 .. Len(strs)
    BY <1>1
  <2> QED
    BY <1>1, <1>11, <2>1, <2>2 DEF TableTyped
<1> QED
  BY <1>10, <1>13, <1>14, <1>15 DEF TableInv

(* The symbols there are become the core of the file.                      *)
LEMMA StepBeginFile ==
    ASSUME TableInv, BeginFile
    PROVE  TableInv'
<1>1. /\ phase = "idle" /\ phase' = "compiling" /\ first' = [sym |-> len, str |-> slen]
      /\ syms' = syms /\ len' = len /\ strs' = strs /\ slen' = slen /\ hash' = hash
      /\ hashed' = hashed /\ count' = count /\ tr' = tr /\ relocs' = relocs /\ error' = error
      /\ ids' = ids /\ given' = given /\ offers' = offers
  BY DEF BeginFile, cellVars, givenVars
<1>2. first'.sym = len /\ first'.str = slen
  BY <1>1
<1>3. Core' = Core
  BY <1>1, <1>2 DEF Core, CoreOf, Table
<1>4. CoreSound' /\ BestKept'
  BY <1>1, <1>3 DEF TableInv, CoreSound, BestKept
<1>5. Size' = 0 /\ Before' = ids
  BY <1>1, <1>2, Typing DEF Size, Before
<1>6. FileKept'
  BY <1>1, <1>2, <1>5, Typing DEF FileKept
<1>7. RelocsMean'
  <2>1. ASSUME NEW k \in DOMAIN relocs
        PROVE  /\ relocs[k].sym <= len /\ relocs[k].id <= ids
               /\ Refers(Core, given, relocs[k])
    <3>1. Refers(Core, given, relocs[k])
      BY <1>1, Cores DEF TableInv, RelocsMean
    <3>2. relocs[k].sym \in 0 .. len /\ relocs[k].id \in 1 .. ids
      <4>1. relocs[k].id \in 1 .. ids
        BY <3>1, RefersGiven, Typing
      <4>2. CASE relocs[k].sym = Nil
        BY <4>1, <4>2, Typing DEF Nil
      <4>3. CASE Means(Core, given, relocs[k].sym, relocs[k].id)
        <5>1. relocs[k].sym \in 1 .. len /\ len \in Nat
          BY <1>1, <4>3, Cores, Typing DEF Means
        <5> QED
          BY <4>1, <5>1
      <4> QED
        BY <3>1, <4>2, <4>3 DEF Refers
    <3>3. PICK p, q, l, n : p = relocs[k].sym /\ q = relocs[k].id /\ l = len /\ n = ids
      OBVIOUS
    <3>4. p \in 0 .. l /\ q \in 1 .. n /\ l \in Nat /\ n \in Nat
      BY <3>2, <3>3, Typing
    <3>5. p <= l /\ q <= n
      BY <3>4
    <3> QED
      BY <3>1, <3>3, <3>5
  <2> QED
    BY <1>1, <1>2, <1>3, <1>5, <2>1 DEF RelocsMean
<1>8. TableTyped'
  BY <1>1, Typing DEF TableInv, TableTyped
<1> QED
  BY <1>4, <1>6, <1>7, <1>8 DEF TableInv

(* The numbers of a file in the course of its compilation                  *)
LEMMA CompilingFile ==
    ASSUME TableInv, phase = "compiling"
    PROVE  /\ first.sym <= len /\ slen - first.str = len - first.sym /\ Before \in Nat
           /\ Size = len - first.sym /\ Before = ids - Size
           /\ Size \in Nat
           /\ \A k \in 1 .. Size : /\ first.sym + k \in 1 .. len /\ first.sym + k # len + 1
                                   /\ first.str + k \in 1 .. slen /\ first.str + k # slen + 1
                                   /\ Before + k \in 1 .. ids
           /\ first.sym + (Size + 1) = len + 1 /\ first.str + (Size + 1) = slen + 1
           /\ Before + (Size + 1) = ids + 1
           /\ (ids + 1) - ((len + 1) - first.sym) = Before /\ (len + 1) - first.sym = Size + 1
           /\ first.sym <= len + 1 /\ (slen + 1) - first.str = (len + 1) - first.sym
           /\ \A k \in 1 .. Size + 1 : k \in 1 .. Size \/ k = Size + 1
           /\ \A p \in first.sym + 1 .. first.sym + Size : p \in first.sym + 1 .. first.sym + (Size + 1)
           /\ first.str <= slen
           /\ \A p \in first.sym + 1 .. len : p - first.sym \in 1 .. Size
                                              /\ first.sym + (p - first.sym) = p
           /\ \A k \in 1 .. Size :
                 /\ syms[first.sym + k].str = first.str + k /\ syms[first.sym + k].id = Before + k
                 /\ given[Before + k] = [name |-> strs[first.str + k],
                        local |-> syms[first.sym + k].bind = "local"
                                  /\ syms[first.sym + k].at # "undef"]
<1>1. /\ first.sym <= len /\ slen - first.str = len - first.sym /\ Before \in Nat
      /\ Size = len - first.sym /\ Before = ids - Size /\ \A k \in 1 .. Size : Fresh(k)
  BY DEF TableInv, FileKept, Size, Before
<1>2. /\ len \in Nat /\ slen \in Nat /\ first.sym \in Nat /\ first.str \in Nat /\ ids \in Nat
  BY Typing
<1>3. /\ Size \in Nat
      /\ \A k \in 1 .. Size : /\ first.sym + k \in 1 .. len /\ first.sym + k # len + 1
                              /\ first.str + k \in 1 .. slen /\ first.str + k # slen + 1
                              /\ Before + k \in 1 .. ids
      /\ first.sym + (Size + 1) = len + 1 /\ first.str + (Size + 1) = slen + 1
      /\ Before + (Size + 1) = ids + 1
      /\ (ids + 1) - ((len + 1) - first.sym) = Before /\ (len + 1) - first.sym = Size + 1
      /\ first.sym <= len + 1 /\ (slen + 1) - first.str = (len + 1) - first.sym
      /\ \A k \in 1 .. Size + 1 : k \in 1 .. Size \/ k = Size + 1
      /\ \A p \in first.sym + 1 .. first.sym + Size : p \in first.sym + 1 .. first.sym + (Size + 1)
      /\ first.str <= slen
      /\ \A p \in first.sym + 1 .. len : p - first.sym \in 1 .. Size
                                         /\ first.sym + (p - first.sym) = p
  <2>1. PICK fs, fr, l, s, n, b, z :
            /\ fs = first.sym /\ fr = first.str /\ l = len /\ s = slen /\ n = ids
            /\ b = Before /\ z = Size
    OBVIOUS
  <2>2. /\ fs \in Nat /\ fr \in Nat /\ l \in Nat /\ s \in Nat /\ n \in Nat /\ b \in Nat
        /\ fs <= l /\ s - fr = l - fs /\ z = l - fs /\ b = n - z
    BY <1>1, <1>2, <2>1
  <2>3. /\ z \in Nat
        /\ \A k \in 1 .. z : /\ fs + k \in 1 .. l /\ fs + k # l + 1
                            /\ fr + k \in 1 .. s /\ fr + k # s + 1 /\ b + k \in 1 .. n
        /\ fs + (z + 1) = l + 1 /\ fr + (z + 1) = s + 1 /\ b + (z + 1) = n + 1
        /\ (n + 1) - ((l + 1) - fs) = b /\ (l + 1) - fs = z + 1
        /\ fs <= l + 1 /\ (s + 1) - fr = (l + 1) - fs
        /\ \A k \in 1 .. z + 1 : k \in 1 .. z \/ k = z + 1
        /\ \A p \in fs + 1 .. fs + z : p \in fs + 1 .. fs + (z + 1)
        /\ fr <= s /\ \A p \in fs + 1 .. l : p - fs \in 1 .. z /\ fs + (p - fs) = p
    BY <2>2
  <2> QED
    BY <2>1, <2>3, Zenon
<1>4. ASSUME NEW k \in 1 .. Size
      PROVE  /\ syms[first.sym + k].str = first.str + k /\ syms[first.sym + k].id = Before + k
             /\ given[Before + k] = [name |-> strs[first.str + k],
                    local |-> syms[first.sym + k].bind = "local"
                              /\ syms[first.sym + k].at # "undef"]
  BY <1>1 DEF Fresh
<1> QED
  BY <1>1, <1>3, <1>4

LEMMA Inner ==
    ASSUME NEW k \in Nat, NEW l \in Nat, NEW m \in Nat, k <= l, l <= m
    PROVE  \A i \in 1 .. k : i \in 1 .. m /\ i # l + 1
  OBVIOUS

(* A symbol put while compiling lies behind the core.                      *)
LEMMA StepPutSymbol ==
    ASSUME TableInv, PutSymbol
    PROVE  TableInv'
<1>1. PICK d \in Declared :
          /\ TableBecomes(Put(Table, d.name, [bind |-> d.bind, at |-> d.at, id |-> ids'], FALSE))
          /\ given' = Append(given, [name |-> d.name,
                                     local |-> d.bind = "local" /\ d.at # "undef"])
  BY DEF PutSymbol
<1>2. /\ phase = "compiling" /\ ids' = ids + 1 /\ phase' = phase /\ first' = first
      /\ count' = count /\ tr' = tr /\ relocs' = relocs /\ error' = error /\ offers' = offers
  BY DEF PutSymbol
<1>3. PICK e : e = [bind |-> d.bind, at |-> d.at, id |-> ids + 1]
  OBVIOUS
<1>4. PICK u : u = Put(Table, d.name, e, FALSE)
  OBVIOUS
<1>5. d.name \in Names /\ d.bind \in Binds /\ d.at \in Sections
  BY TableAssumption DEF Offered
<1>6. e \in Offers /\ e.bind = d.bind /\ e.at = d.at /\ e.id = ids + 1
  BY <1>3, <1>5, Typing DEF Offers
<1>7. Shaped(u) /\ Extends(u, Table, d.name, e) /\ u.hash = hash /\ u.hashed = hashed
  <2>1. Shaped(Table) /\ Table.hash = hash /\ Table.hashed = hashed
    BY TableShaped DEF Table
  <2> QED
    BY <1>4, <1>5, <1>6, <2>1, PutUnindexed
<1>8. /\ syms' = u.syms /\ len' = u.len /\ strs' = u.strs /\ slen' = u.slen
      /\ hash' = u.hash /\ hashed' = u.hashed
  BY <1>1, <1>2, <1>3, <1>4 DEF TableBecomes
<1>9. /\ len' = len + 1 /\ slen' = slen + 1
      /\ syms'[len + 1] = Entry(e, slen + 1) /\ strs'[slen + 1] = d.name
      /\ Len(syms) <= Len(syms') /\ Len(strs) <= Len(strs')
      /\ \A i \in 1 .. Len(syms) : i # len + 1 => syms'[i] = syms[i]
      /\ \A i \in 1 .. Len(strs) : i # slen + 1 => strs'[i] = strs[i]
  BY <1>7, <1>8 DEF Extends, Table
<1>10. /\ len \in Nat /\ slen \in Nat /\ first.sym \in Nat /\ first.str \in Nat /\ ids \in Nat
       /\ Len(syms) \in Nat /\ Len(strs) \in Nat /\ len <= Len(syms) /\ slen <= Len(strs)
  BY Typing
<1>11. len' = len + 1 /\ slen' = slen + 1
  BY <1>9
<1>12. /\ syms' \in Seq(Entries) /\ strs' \in Seq(Names) /\ hash' = hash /\ hashed' = hashed
       /\ len' \in 0 .. Len(syms') /\ slen' \in 0 .. Len(strs')
       /\ Len(syms') \in Nat /\ Len(strs') \in Nat
  BY <1>7, <1>8 DEF Shaped
<1>13. Len(syms) <= Len(syms') /\ Len(strs) <= Len(strs')
  BY <1>9
<1>14. /\ len' \in 0 .. Len(syms') /\ slen' \in 0 .. Len(strs')
       /\ Len(syms') \in Nat /\ Len(strs') \in Nat
  BY <1>12
<1>15. /\ first.sym <= len /\ slen - first.str = len - first.sym /\ Before \in Nat
       /\ Size = len - first.sym /\ Before = ids - Size
  BY <1>2, CompilingFile
<1>16. /\ Size \in Nat
       /\ \A k \in 1 .. Size : /\ first.sym + k \in 1 .. len /\ first.sym + k # len + 1
                               /\ first.str + k \in 1 .. slen /\ first.str + k # slen + 1
                               /\ Before + k \in 1 .. ids
       /\ first.sym + (Size + 1) = len + 1 /\ first.str + (Size + 1) = slen + 1
       /\ Before + (Size + 1) = ids + 1
       /\ (ids + 1) - ((len + 1) - first.sym) = Before /\ (len + 1) - first.sym = Size + 1
       /\ first.sym <= len + 1 /\ (slen + 1) - first.str = (len + 1) - first.sym
       /\ \A k \in 1 .. Size + 1 : k \in 1 .. Size \/ k = Size + 1
       /\ \A p \in first.sym + 1 .. first.sym + Size : p \in first.sym + 1 .. first.sym + (Size + 1)
  BY <1>2, CompilingFile
<1>17. Sound(Core) /\ Core.len = first.sym /\ Core.slen = first.str
  BY <1>2, Cores DEF TableInv, CoreSound
<1>18. SameCore(Core, Core')
  <2>1. /\ Core' = [syms |-> syms', len |-> first.sym, strs |-> strs', slen |-> first.str,
                    hash |-> hash, hashed |-> hashed]
    BY <1>2, <1>12 DEF Core, CoreOf, Table
  <2>2. PICK c : c = Core'
    OBVIOUS
  <2>3. first.sym \in Nat /\ first.str \in Nat /\ first.sym <= len /\ first.str <= slen
        /\ len <= Len(syms) /\ slen <= Len(strs)
    BY <1>15, <1>16, <1>10
  <2>4. \A i \in 1 .. first.sym : syms'[i] = syms[i]
    <3>1. \A i \in 1 .. first.sym : i \in 1 .. Len(syms) /\ i # len + 1
      BY <1>10, <2>3, Inner, Zenon
    <3> QED
      BY <1>9, <3>1
  <2>5. \A i \in 1 .. first.str : strs'[i] = strs[i]
    <3>1. \A i \in 1 .. first.str : i \in 1 .. Len(strs) /\ i # slen + 1
      BY <1>10, <2>3, Inner, Zenon
    <3> QED
      BY <1>9, <3>1
  <2>6. first.sym <= Len(syms') /\ first.str <= Len(strs')
    BY <1>13, <1>14, <1>10, <2>3
  <2> QED
    BY <1>12, <1>17, <2>1, <2>4, <2>5, <2>6, Cores DEF SameCore
<1>19. /\ Sound(Core') /\ \A gv, q, id : Means(Core, gv, q, id) => Means(Core', gv, q, id)
       /\ \A os : Served(Core, os) => Served(Core', os)
  BY <1>17, <1>18, CoreKept
<1>20. CoreSound' /\ BestKept'
  BY <1>2, <1>19 DEF TableInv, CoreSound, BestKept, Sound
<1>21. Size' = Size + 1 /\ Before' = Before
  <2>1. Size' = (len + 1) - first.sym
    BY <1>2, <1>11 DEF Size
  <2> QED
    BY <1>2, <1>16, <2>1 DEF Before
<1>22. /\ given' \in Seq([name : Names, local : BOOLEAN]) /\ Len(given') = ids + 1
       /\ \A i \in 1 .. ids : given'[i] = given[i]
       /\ given'[ids + 1] = [name |-> d.name, local |-> d.bind = "local" /\ d.at # "undef"]
  <2>1. PICK x : x = [name |-> d.name, local |-> d.bind = "local" /\ d.at # "undef"]
    OBVIOUS
  <2>2. x \in [name : Names, local : BOOLEAN]
    BY <1>5, <2>1
  <2>3. given' = Append(given, x)
    BY <1>1, <2>1
  <2> QED
    BY <2>1, <2>2, <2>3, Typing
<1>23. ASSUME NEW k \in 1 .. Size
       PROVE  /\ syms'[first.sym + k] = syms[first.sym + k] /\ first.sym + k \in 1 .. Len(syms')
              /\ given'[Before + k] = given[Before + k]
              /\ syms[first.sym + k].str = first.str + k /\ first.str + k \in 1 .. Len(strs')
              /\ strs'[first.str + k] = strs[first.str + k]
              /\ syms[first.sym + k].id = Before + k
              /\ given[Before + k] = [name |-> strs[first.str + k],
                     local |-> syms[first.sym + k].bind = "local"
                               /\ syms[first.sym + k].at # "undef"]
  <2>1. /\ syms[first.sym + k].str = first.str + k /\ syms[first.sym + k].id = Before + k
        /\ given[Before + k] = [name |-> strs[first.str + k],
                     local |-> syms[first.sym + k].bind = "local"
                               /\ syms[first.sym + k].at # "undef"]
    BY <1>2, CompilingFile
  <2>2. /\ first.sym + k \in 1 .. Len(syms) /\ first.sym + k # len + 1
        /\ first.str + k \in 1 .. Len(strs) /\ first.str + k # slen + 1
        /\ Before + k \in 1 .. ids
    <3>1. first.sym + k \in 1 .. len /\ first.str + k \in 1 .. slen
      BY <1>16
    <3> QED
      BY <1>16, <1>10, <3>1, Wider
  <2>3. first.sym + k \in 1 .. Len(syms') /\ first.str + k \in 1 .. Len(strs')
    BY <1>13, <1>14, <1>10, <2>2, Wider
  <2> QED
    BY <1>9, <1>22, <2>1, <2>2, <2>3
<1>24. FileKept'
  <2>1. Before' \in Nat /\ first'.sym <= len' /\ slen' - first'.str = len' - first'.sym
    BY <1>2, <1>11, <1>16, <1>15, <1>21
  <2>2. ASSUME NEW k \in 1 .. Size + 1
        PROVE  Fresh(k)'
    <3>1. CASE k \in 1 .. Size
      <4>1. /\ first'.sym + k = first.sym + k /\ first'.str + k = first.str + k
            /\ Before' + k = Before + k
        BY <1>2, <1>21
      <4>2. /\ syms'[first.sym + k].str = first.str + k /\ syms'[first.sym + k].id = Before + k
            /\ first.sym + k \in DOMAIN syms' /\ first.str + k \in DOMAIN strs'
            /\ given'[Before + k] = [name |-> strs'[first.str + k],
                     local |-> syms'[first.sym + k].bind = "local"
                               /\ syms'[first.sym + k].at # "undef"]
        <5>1. first.sym + k \in 1 .. Len(syms') /\ first.str + k \in 1 .. Len(strs')
          BY <1>23, <3>1
        <5>2. DOMAIN syms' = 1 .. Len(syms') /\ DOMAIN strs' = 1 .. Len(strs')
          BY <1>12
        <5> QED
          BY <1>23, <3>1, <5>1, <5>2
      <4> QED
        BY <4>1, <4>2 DEF Fresh
    <3>2. CASE k = Size + 1
      <4>1. first.sym + k = len + 1 /\ first.str + k = slen + 1 /\ Before + k = ids + 1
        BY <1>16, <3>2
      <4>2. /\ Entry(e, slen + 1).str = slen + 1 /\ Entry(e, slen + 1).id = ids + 1
            /\ Entry(e, slen + 1).bind = d.bind /\ Entry(e, slen + 1).at = d.at
        BY <1>6 DEF Entry
      <4>3. len + 1 \in 1 .. Len(syms') /\ slen + 1 \in 1 .. Len(strs')
        BY <1>13, <1>14, <1>11, <1>10
      <4>4. /\ syms'[len + 1].str = slen + 1 /\ syms'[len + 1].id = ids + 1
            /\ syms'[len + 1].bind = d.bind /\ syms'[len + 1].at = d.at
            /\ strs'[slen + 1] = d.name
        BY <1>9, <4>2
      <4> QED
        BY <1>2, <1>12, <1>21, <1>22, <4>1, <4>3, <4>4 DEF Fresh
    <3> QED
      BY <1>16, <3>1, <3>2
  <2> QED
    BY <1>2, <1>21, <2>1, <2>2 DEF FileKept
<1>25. RelocsMean'
  <2>1. ASSUME NEW k \in DOMAIN relocs
        PROVE  \/ /\ relocs[k].sym <= first.sym /\ relocs[k].id <= Before
                  /\ Refers(Core', given', relocs[k])
               \/ /\ relocs[k].sym \in first.sym + 1 .. first.sym + (Size + 1)
                  /\ relocs[k].id = Before + (relocs[k].sym - first.sym)
    <3>1. CASE /\ relocs[k].sym <= first.sym /\ relocs[k].id <= Before
               /\ Refers(Core, given, relocs[k])
      <4>1. relocs[k].id \in 1 .. ids
        BY <3>1, RefersGiven, Typing
      <4>2. relocs[k].id \in DOMAIN given'
        BY <1>22, <1>10, <4>1
      <4>3. Means(Core, given, relocs[k].sym, relocs[k].id) =>
                Means(Core', given', relocs[k].sym, relocs[k].id)
        BY <1>19, <1>22, <4>1, <4>2, MeansLater
      <4> QED
        BY <3>1, <4>2, <4>3, RefersStill
    <3>2. CASE /\ relocs[k].sym \in first.sym + 1 .. first.sym + Size
               /\ relocs[k].id = Before + (relocs[k].sym - first.sym)
      BY <1>16, <3>2
    <3> QED
      BY <1>2, <3>1, <3>2 DEF TableInv, RelocsMean
  <2> QED
    BY <1>2, <1>21, <2>1 DEF RelocsMean
<1>26. TableTyped'
  BY <1>2, <1>9, <1>12, <1>22, Typing DEF TableInv, TableTyped
<1> QED
  BY <1>20, <1>24, <1>25, <1>26 DEF TableInv

(* A symbol defined in place stays the one that was put.                   *)
LEMMA StepDefineSymbol ==
    ASSUME TableInv, DefineSymbol
    PROVE  TableInv'
<1>1. PICK i \in first.sym + 1 .. len, bind \in Binds :
          /\ syms[i].at = "undef" /\ syms' = [syms EXCEPT ![i].at = "data", ![i].bind = bind]
          /\ given' = [given EXCEPT ![syms[i].id].local = bind = "local"]
  BY DEF DefineSymbol
<1>2. /\ phase = "compiling" /\ phase' = phase /\ len' = len /\ strs' = strs /\ slen' = slen
      /\ hash' = hash /\ hashed' = hashed /\ first' = first /\ count' = count /\ tr' = tr
      /\ relocs' = relocs /\ error' = error /\ ids' = ids /\ offers' = offers
  BY DEF DefineSymbol
<1>3. /\ len \in Nat /\ slen \in Nat /\ first.sym \in Nat /\ first.str \in Nat /\ ids \in Nat
      /\ Len(syms) \in Nat /\ Len(strs) \in Nat /\ len <= Len(syms) /\ slen <= Len(strs)
  BY Typing
<1>4. /\ first.sym <= len /\ slen - first.str = len - first.sym /\ Before \in Nat
      /\ Size = len - first.sym /\ Before = ids - Size
  BY <1>2, CompilingFile
<1> DEFINE at0 == i - first.sym
<1>5. at0 \in 1 .. Size /\ first.sym + at0 = i /\ i \in 1 .. Len(syms)
  <2>1. at0 \in 1 .. Size /\ first.sym + at0 = i
    BY <1>2, CompilingFile
  <2>2. i \in 1 .. len
    BY <1>3
  <2> QED
    BY <1>3, <2>1, <2>2, Wider
<1> HIDE DEF at0
<1>6. \A k \in 1 .. Size : /\ first.sym + k \in 1 .. len /\ first.str + k \in 1 .. slen
                           /\ Before + k \in 1 .. ids
                           /\ syms[first.sym + k].str = first.str + k
                           /\ syms[first.sym + k].id = Before + k
                           /\ given[Before + k] = [name |-> strs[first.str + k],
                                  local |-> syms[first.sym + k].bind = "local"
                                            /\ syms[first.sym + k].at # "undef"]
  BY <1>2, CompilingFile
<1>7. syms[i].id = Before + at0 /\ Before + at0 \in 1 .. ids
  BY <1>5, <1>6
<1>8. PICK x : x = [syms[i] EXCEPT !.at = "data", !.bind = bind]
  OBVIOUS
<1>9. syms[i] \in Entries
  BY <1>5, Typing
<1>10. /\ x \in Entries /\ x.at = "data" /\ x.bind = bind /\ x.id = syms[i].id
       /\ x.str = syms[i].str
  BY <1>8, <1>9 DEF Entries, Sections
<1>11. syms' = [syms EXCEPT ![i] = x]
  BY <1>1, <1>5, <1>8, <1>9, Typing DEF Entries
<1>12. /\ syms' \in Seq(Entries) /\ Len(syms') = Len(syms) /\ syms'[i] = x
       /\ \A j \in 1 .. Len(syms) : j # i => syms'[j] = syms[j]
  BY <1>5, <1>10, <1>11, Typing
<1>13. PICK y : y = [given[Before + at0] EXCEPT !.local = bind = "local"]
  OBVIOUS
<1>14. given[Before + at0] = [name |-> strs[first.str + at0],
                              local |-> syms[i].bind = "local" /\ syms[i].at # "undef"]
  BY <1>5, <1>6
<1>15. y = [name |-> strs[first.str + at0], local |-> bind = "local"]
  <2>1. \A nm, b, c : [[name |-> nm, local |-> b] EXCEPT !.local = c] =
                          [name |-> nm, local |-> c]
    OBVIOUS
  <2> QED
    BY <1>13, <1>14, <2>1
<1>16. given' = [given EXCEPT ![Before + at0] = y]
  BY <1>1, <1>7, <1>13
<1>17. /\ given' \in Seq([name : Names, local : BOOLEAN]) /\ Len(given') = ids
       /\ DOMAIN given' = 1 .. ids
       /\ given'[Before + at0] = y /\ \A j \in 1 .. ids : j # Before + at0 => given'[j] = given[j]
  <2>1. first.str + at0 \in 1 .. Len(strs)
    <3>1. first.str + at0 \in 1 .. slen
      BY <1>5, <1>6
    <3> QED
      BY <1>3, <3>1, Wider
  <2>2. strs[first.str + at0] \in Names
    BY <2>1, Typing
  <2>3. y \in [name : Names, local : BOOLEAN]
    BY <1>15, <2>2
  <2> QED
    BY <1>7, <1>16, <2>3, Typing
<1>18. Sound(Core) /\ Core.len = first.sym /\ Core.slen = first.str
  BY <1>2, Cores DEF TableInv, CoreSound
<1>19. SameCore(Core, Core')
  <2>1. Core' = [syms |-> syms', len |-> first.sym, strs |-> strs, slen |-> first.str,
                 hash |-> hash, hashed |-> hashed]
    BY <1>2 DEF Core, CoreOf, Table
  <2>2. first.sym <= Len(syms) /\ first.str <= Len(strs)
    <3>1. first.sym <= len /\ first.str <= slen
      BY <1>2, CompilingFile
    <3> QED
      BY <1>3, <3>1
  <2>3. \A j \in 1 .. first.sym : syms'[j] = syms[j]
    <3>1. \A j \in 1 .. first.sym : j \in 1 .. Len(syms) /\ j # i
      BY <1>3, <2>2
    <3> QED
      BY <1>12, <3>1
  <2> QED
    BY <1>12, <1>18, <2>1, <2>2, <2>3, Cores, Typing DEF SameCore
<1>20. /\ Sound(Core') /\ \A gv, q, id : Means(Core, gv, q, id) => Means(Core', gv, q, id)
       /\ \A os : Served(Core, os) => Served(Core', os)
  BY <1>18, <1>19, CoreKept
<1>21. CoreSound' /\ BestKept'
  BY <1>2, <1>20 DEF TableInv, CoreSound, BestKept, Sound
<1>22. Size' = Size /\ Before' = Before
  BY <1>2 DEF Size, Before
<1>23. ASSUME NEW k \in 1 .. Size
       PROVE  Fresh(k)'
  <2>1. /\ first.sym + k \in 1 .. Len(syms') /\ first.str + k \in 1 .. Len(strs)
    <3>1. first.sym + k \in 1 .. len /\ first.str + k \in 1 .. slen
      BY <1>6
    <3> QED
      BY <1>3, <1>12, <3>1, Wider
  <2>2. first.sym + k \in DOMAIN syms' /\ first.str + k \in DOMAIN strs'
    <3>1. DOMAIN syms' = 1 .. Len(syms')
      BY <1>12
    <3>2. DOMAIN strs' = 1 .. Len(strs)
      BY <1>2, Typing
    <3> QED
      BY <2>1, <3>1, <3>2
  <2>3. /\ syms'[first.sym + k].str = first.str + k /\ syms'[first.sym + k].id = Before + k
        /\ given'[Before + k] = [name |-> strs[first.str + k],
                     local |-> syms'[first.sym + k].bind = "local"
                               /\ syms'[first.sym + k].at # "undef"]
    <3>1. CASE k = at0
      <4>1. syms'[first.sym + k] = x /\ given'[Before + k] = y
        BY <1>5, <1>12, <1>17, <3>1
      <4>2. x.str = first.str + k /\ x.id = Before + k
        BY <1>5, <1>6, <1>10, <3>1
      <4>3. (x.bind = "local" /\ x.at # "undef") = (bind = "local")
        BY <1>10
      <4> QED
        BY <1>15, <3>1, <4>1, <4>2, <4>3
    <3>2. CASE k # at0
      <4>1. first.sym + k # i /\ Before + k # Before + at0
        <5>1. k \in Nat /\ at0 \in Nat
          BY <1>5
        <5> QED
          BY <1>3, <1>4, <1>5, <3>2, <5>1, Apart
      <4>2. first.sym + k \in 1 .. Len(syms) /\ Before + k \in 1 .. ids
        BY <1>6, <1>12, <2>1
      <4>3. syms'[first.sym + k] = syms[first.sym + k] /\ given'[Before + k] = given[Before + k]
        BY <1>12, <1>17, <4>1, <4>2
      <4> QED
        BY <1>6, <4>3
    <3> QED
      BY <3>1, <3>2
  <2>4. first'.sym + k = first.sym + k /\ first'.str + k = first.str + k /\ Before' + k = Before + k
    BY <1>2, <1>22
  <2> QED
    BY <1>2, <2>2, <2>3, <2>4 DEF Fresh
<1>24. FileKept'
  BY <1>2, <1>4, <1>22, <1>23 DEF FileKept
<1>25. RelocsMean'
  <2>1. ASSUME NEW k \in DOMAIN relocs
        PROVE  \/ /\ relocs[k].sym <= first.sym /\ relocs[k].id <= Before
                  /\ Refers(Core', given', relocs[k])
               \/ /\ relocs[k].sym \in first.sym + 1 .. first.sym + Size
                  /\ relocs[k].id = Before + (relocs[k].sym - first.sym)
    <3>1. CASE /\ relocs[k].sym <= first.sym /\ relocs[k].id <= Before
               /\ Refers(Core, given, relocs[k])
      <4>1. relocs[k].id \in 1 .. ids
        BY <3>1, RefersGiven, Typing
      <4>2. relocs[k].id # Before + at0
        BY <1>4, <1>5, <3>1, <4>1
      <4>3. given'[relocs[k].id] = given[relocs[k].id] /\ relocs[k].id \in DOMAIN given'
        BY <1>17, <4>1, <4>2
      <4>4. Means(Core, given, relocs[k].sym, relocs[k].id) =>
                Means(Core', given', relocs[k].sym, relocs[k].id)
        BY <1>20, <4>3, MeansLater
      <4> QED
        BY <3>1, <4>3, <4>4, RefersStill
    <3>2. CASE /\ relocs[k].sym \in first.sym + 1 .. first.sym + Size
               /\ relocs[k].id = Before + (relocs[k].sym - first.sym)
      BY <3>2
    <3> QED
      BY <1>2, <3>1, <3>2 DEF TableInv, RelocsMean
  <2> QED
    BY <1>2, <1>22, <2>1 DEF RelocsMean
<1>26. TableTyped'
  BY <1>2, <1>12, <1>17, Typing DEF TableInv, TableTyped
<1> QED
  BY <1>21, <1>24, <1>25, <1>26 DEF TableInv

(* A relocation made while compiling counts from the start of the file.    *)
LEMMA StepPutReloc ==
    ASSUME TableInv, PutReloc
    PROVE  TableInv'
<1>1. PICK i \in first.sym + 1 .. len : relocs' = Append(relocs, [sym |-> i, id |-> syms[i].id, dup |-> FALSE])
  BY DEF PutReloc
<1>2. /\ phase = "compiling" /\ phase' = phase /\ syms' = syms /\ len' = len /\ strs' = strs
      /\ slen' = slen /\ hash' = hash /\ hashed' = hashed /\ first' = first /\ count' = count
      /\ tr' = tr /\ error' = error /\ ids' = ids /\ given' = given /\ offers' = offers
  BY DEF PutReloc, cellVars, givenVars
<1>3. Core' = Core /\ Size' = Size /\ Before' = Before
  BY <1>2 DEF Core, CoreOf, Table, Size, Before
<1>4. CoreSound' /\ BestKept'
  BY <1>2, <1>3 DEF TableInv, CoreSound, BestKept
<1>5. \A k \in 1 .. Size : Fresh(k) => Fresh(k)'
  BY <1>2, <1>3 DEF Fresh
<1>6. FileKept'
  BY <1>2, <1>3, <1>5 DEF TableInv, FileKept
<1>7. PICK r : r = [sym |-> i, id |-> syms[i].id, dup |-> FALSE]
  OBVIOUS
<1>8. /\ len \in Nat /\ first.sym \in Nat /\ first.sym <= len /\ len <= Len(syms)
      /\ Len(syms) \in Nat /\ Size = len - first.sym
  BY <1>2, CompilingFile, Typing
<1>9. i \in 1 .. Len(syms) /\ i - first.sym \in 1 .. Size /\ first.sym + (i - first.sym) = i
      /\ i \in first.sym + 1 .. first.sym + Size
  BY <1>8
<1>10. syms[i].id = Before + (i - first.sym)
  <2>1. \A k \in 1 .. Size : syms[first.sym + k].id = Before + k
    BY <1>2, CompilingFile
  <2> QED
    BY <1>9, <2>1
<1>11. syms[i] \in Entries
  BY <1>9, Typing
<1>12. r \in [sym : Nat, id : Nat, dup : BOOLEAN]
  BY <1>7, <1>9, <1>11 DEF Entries
<1>13. /\ relocs' \in Seq([sym : Nat, id : Nat, dup : BOOLEAN]) /\ DOMAIN relocs' = 1 .. Len(relocs) + 1
       /\ relocs'[Len(relocs) + 1] = r /\ \A k \in 1 .. Len(relocs) : relocs'[k] = relocs[k]
       /\ DOMAIN relocs = 1 .. Len(relocs) /\ Len(relocs) \in Nat
  BY <1>1, <1>7, <1>12, Typing
<1>14. ASSUME NEW k \in DOMAIN relocs'
       PROVE  \/ /\ relocs'[k].sym <= first.sym /\ relocs'[k].id <= Before
                 /\ Refers(Core, given, relocs'[k])
              \/ /\ relocs'[k].sym \in first.sym + 1 .. first.sym + Size
                 /\ relocs'[k].id = Before + (relocs'[k].sym - first.sym)
  <2>1. CASE k = Len(relocs) + 1
    <3>1. relocs'[k].sym = i /\ relocs'[k].id = syms[i].id
      BY <1>7, <1>13, <2>1
    <3> QED
      BY <1>9, <1>10, <3>1
  <2>2. CASE k \in DOMAIN relocs
    <3>1. relocs'[k] = relocs[k]
      BY <1>13, <2>2
    <3> QED
      BY <1>2, <2>2, <3>1 DEF TableInv, RelocsMean
  <2> QED
    BY <1>13, <2>1, <2>2
<1>15. RelocsMean'
  BY <1>2, <1>3, <1>14 DEF RelocsMean
<1>16. TableTyped'
  BY <1>2, <1>13 DEF TableInv, TableTyped
<1> QED
  BY <1>4, <1>6, <1>15, <1>16 DEF TableInv

(* Taking back the symbols leaves the core, and their cells as they were.  *)
LEMMA StepEndFile ==
    ASSUME TableInv, EndFile
    PROVE  TableInv'
<1>1. /\ phase = "compiling" /\ phase' = "ending" /\ count' = len - first.sym /\ tr' = <<>>
      /\ len' = first.sym /\ slen' = first.str /\ syms' = syms /\ strs' = strs /\ hash' = hash
      /\ hashed' = hashed /\ first' = first /\ relocs' = relocs /\ error' = error /\ ids' = ids
      /\ given' = given /\ offers' = offers
  BY DEF EndFile, givenVars
<1>2. Core' = Core
  BY <1>1 DEF Core, CoreOf, Table
<1>3. Size' = Size /\ Before' = Before
  BY <1>1 DEF Size, Before
<1>4. CoreSound' /\ BestKept'
  BY <1>1, <1>2 DEF TableInv, CoreSound, BestKept
<1>5. \A k \in 1 .. Size : Fresh(k)'
  <2>1. \A k \in 1 .. Size : Fresh(k)
    BY <1>1 DEF TableInv, FileKept
  <2> QED
    BY <1>1, <1>3, <2>1 DEF Fresh
<1>6. /\ len \in Nat /\ slen \in Nat /\ first.sym \in Nat /\ first.str \in Nat
      /\ Len(syms) \in Nat /\ Len(strs) \in Nat /\ len <= Len(syms) /\ slen <= Len(strs)
      /\ first.sym <= len /\ slen - first.str = len - first.sym /\ Before \in Nat
      /\ Size = len - first.sym /\ Size \in Nat
  BY <1>1, CompilingFile, Typing
<1>7. Len(tr') = 0
  BY <1>1
<1>8. FileKept'
  <2>1. first.sym <= first.sym + 0 /\ 0 <= count' /\ first.str - first.str = first.sym - first.sym
    BY <1>1, <1>6
  <2>2. \A k \in 0 + 1 .. Size : Fresh(k)'
    BY <1>5, <1>6
  <2>3. 1 .. 0 = {}
    OBVIOUS
  <2>4. /\ Before' \in Nat /\ first'.sym <= len' /\ slen' - first'.str = len' - first'.sym
        /\ len' <= first'.sym + Len(tr') /\ Len(tr') <= count'
    BY <1>1, <1>3, <1>6, <1>7, <2>1
  <2>5. \A k \in Len(tr') + 1 .. Size' : Fresh(k)'
    BY <1>3, <1>7, <2>2
  <2>6. \A k \in 1 .. Len(tr') : Means(Table', given', tr'[k], Before' + k)
    BY <1>7, <2>3
  <2> QED
    BY <1>1, <2>4, <2>5, <2>6 DEF FileKept
<1>9. RelocsMean'
  BY <1>1, <1>2, <1>3 DEF TableInv, RelocsMean
<1>10. TableTyped'
  <2>1. len' \in 0 .. Len(syms') /\ slen' \in 0 .. Len(strs') /\ count' \in Nat
    BY <1>1, <1>6
  <2> QED
    BY <1>1, <2>1 DEF TableInv, TableTyped
<1> QED
  BY <1>4, <1>8, <1>9, <1>10 DEF TableInv

(* The symbol that is put in next, m of z having been, and those after it  *)
LEMMA Ahead ==
    ASSUME NEW fs \in Nat, NEW fr \in Nat, NEW l \in Nat, NEW s \in Nat, NEW n \in Nat,
           NEW b \in Nat, NEW z \in Nat, NEW m \in Nat, NEW l2, NEW s2,
           fs <= l, s - fr = l - fs, l <= fs + m, m < z, b = n - z,
           (l2 = l /\ s2 = s) \/ (l2 = l + 1 /\ s2 = s + 1)
    PROVE  /\ m + 1 \in 1 .. z /\ m + 1 \in m + 1 .. z /\ b + (m + 1) \in 1 .. n
           /\ \A j \in (m + 1) + 1 .. z : j \in m + 1 .. z /\ fs + j > l + 1 /\ fr + j > s + 1
           /\ fs <= l2 /\ s2 - fr = l2 - fs /\ l2 <= fs + (m + 1) /\ m + 1 <= z
           /\ (fs + m) + 1 = fs + (m + 1)
           /\ \A j \in 1 .. m + 1 : j \in 1 .. m \/ j = m + 1
  OBVIOUS

LEMMA ElementOf ==
    ASSUME NEW S, NEW s \in Seq(S), NEW k \in DOMAIN s
    PROVE  s[k] \in S
  OBVIOUS

LEMMA FunctionSeq ==
    ASSUME NEW S, NEW n \in Nat, NEW s \in [1 .. n -> S]
    PROVE  s \in Seq(S) /\ DOMAIN s = 1 .. n /\ Len(s) = n
  OBVIOUS

(* The symbol put in again overwrites none that is still to be read.       *)
LEMMA StepEndSymbol ==
    ASSUME TableInv, EndSymbol
    PROVE  TableInv'
<1>1. PICK i, r :
          /\ i = (first.sym + Len(tr)) + 1
          /\ r = Added([t |-> Table, new |-> tr, twice |-> error, offers |-> offers],
                       strs[syms[i].str],
                       ForLink([bind |-> syms[i].bind, at |-> syms[i].at, id |-> syms[i].id]))
          /\ TableBecomes(r.t) /\ tr' = r.new /\ error' = r.twice /\ offers' = r.offers
  BY Zenon DEF EndSymbol
<1>2. /\ phase = "ending" /\ Len(tr) < count /\ phase' = phase /\ first' = first
      /\ count' = count /\ relocs' = relocs /\ ids' = ids /\ given' = given
  BY DEF EndSymbol
<1>3. /\ len \in Nat /\ slen \in Nat /\ first.sym \in Nat /\ first.str \in Nat /\ ids \in Nat
      /\ count \in Nat /\ Len(tr) \in Nat /\ DOMAIN given = 1 .. ids
      /\ Len(syms) \in Nat /\ Len(strs) \in Nat
      /\ DOMAIN syms = 1 .. Len(syms) /\ DOMAIN strs = 1 .. Len(strs)
  BY Typing
<1>4. /\ Size = count /\ Before = ids - count /\ Before \in Nat
      /\ first.sym <= len /\ slen - first.str = len - first.sym
      /\ len <= first.sym + Len(tr)
      /\ \A k \in Len(tr) + 1 .. count : Fresh(k)
      /\ \A k \in 1 .. Len(tr) : Means(Table, given, tr[k], Before + k)
  BY <1>2 DEF TableInv, FileKept, Size, Before
<1>5. Core = Table /\ Sound(Table) /\ Served(Table, offers)
  BY <1>2, Cores DEF TableInv, CoreSound, BestKept
<1>6. PICK k : k = Len(tr) + 1
  OBVIOUS
<1>7. /\ k \in 1 .. count /\ k \in Len(tr) + 1 .. count /\ Before + k \in 1 .. ids
      /\ i = first.sym + k /\ k <= count
      /\ \A j \in 1 .. k : j \in 1 .. Len(tr) \/ j = k
  <2>1. PICK fs, fr, l, s, n, b, z, m :
            /\ fs = first.sym /\ fr = first.str /\ l = len /\ s = slen /\ n = ids
            /\ b = Before /\ z = count /\ m = Len(tr)
    OBVIOUS
  <2>2. /\ fs \in Nat /\ fr \in Nat /\ l \in Nat /\ s \in Nat /\ n \in Nat /\ b \in Nat
        /\ z \in Nat /\ m \in Nat
        /\ fs <= l /\ s - fr = l - fs /\ l <= fs + m /\ m < z /\ b = n - z
    BY <1>2, <1>3, <1>4, <2>1
  <2>3. (l = l /\ s = s) \/ (l = l + 1 /\ s = s + 1)
    OBVIOUS
  <2>4. /\ m + 1 \in 1 .. z /\ m + 1 \in m + 1 .. z /\ b + (m + 1) \in 1 .. n
        /\ (fs + m) + 1 = fs + (m + 1) /\ m + 1 <= z
        /\ \A j \in 1 .. m + 1 : j \in 1 .. m \/ j = m + 1
    BY <2>2, <2>3
  <2> QED
    BY <1>1, <1>6, <2>1, <2>4, Zenon
<1>8. /\ i \in DOMAIN syms /\ syms[i].str \in DOMAIN strs /\ syms[i].str = first.str + k
      /\ syms[i].id = Before + k
      /\ given[Before + k] = [name |-> strs[syms[i].str],
                              local |-> syms[i].bind = "local" /\ syms[i].at # "undef"]
  BY <1>4, <1>7 DEF Fresh
<1>9. syms[i] \in Entries /\ strs[syms[i].str] \in Names
  BY <1>8, Typing
<1>10. PICK n, e, a : /\ n = strs[syms[i].str]
                      /\ e = ForLink([bind |-> syms[i].bind, at |-> syms[i].at,
                                      id |-> syms[i].id])
                      /\ a = [t |-> Table, new |-> tr, twice |-> error, offers |-> offers]
  OBVIOUS
<1>11. /\ e \in Offers /\ e.id = Before + k
       /\ e.bind = "local" <=> syms[i].bind = "local" /\ syms[i].at # "undef"
  <2>1. PICK f : f = [bind |-> syms[i].bind, at |-> syms[i].at, id |-> syms[i].id]
    OBVIOUS
  <2>2. f \in Offers /\ f.bind = syms[i].bind /\ f.at = syms[i].at /\ f.id = syms[i].id
    BY <1>9, <2>1 DEF Entries, Offers
  <2>3. e = ForLink(f)
    BY <1>10, <2>1
  <2>4. CASE f.at = "undef" /\ f.bind = "local"
    <3>1. e = [f EXCEPT !.bind = "global"]
      BY <2>3, <2>4 DEF ForLink
    <3>2. e \in Offers /\ e.bind = "global" /\ e.id = f.id
      BY <2>2, <3>1 DEF Offers, Binds
    <3> QED
      BY <1>8, <2>2, <2>4, <3>2
  <2>5. CASE ~(f.at = "undef" /\ f.bind = "local")
    <3>1. e = f
      BY <2>3, <2>5 DEF ForLink
    <3> QED
      BY <1>8, <2>2, <2>5, <3>1
  <2> QED
    BY <2>4, <2>5
<1>12. r = Added(a, n, e) /\ n \in Names
  BY <1>1, <1>9, <1>10
<1>13. a.t = Table /\ a.new = tr /\ a.twice = error /\ a.offers = offers
  BY <1>10
<1>14. /\ Sound(r.t) /\ r.new \in Seq(Nat) /\ r.twice \in BOOLEAN
       /\ r.offers \in [Names -> Seq(Linkable)] /\ Served(r.t, r.offers)
       /\ Len(r.new) = Len(tr) + 1
       /\ \A j \in 1 .. Len(tr) : r.new[j] = tr[j]
       /\ Outcome(Table, n, e, r.t, r.new[Len(tr) + 1])
  <2>1. /\ Sound(a.t) /\ a.new \in Seq(Nat) /\ a.twice \in BOOLEAN
        /\ a.offers \in [Names -> Seq(Linkable)] /\ Served(a.t, a.offers)
    BY <1>5, <1>13, Typing
  <2>2. /\ Sound(r.t) /\ r.new \in Seq(Nat) /\ r.twice \in BOOLEAN
        /\ r.offers \in [Names -> Seq(Linkable)] /\ Served(r.t, r.offers)
        /\ Len(r.new) = Len(a.new) + 1
        /\ \A j \in 1 .. Len(a.new) : r.new[j] = a.new[j]
        /\ Outcome(a.t, n, e, r.t, r.new[Len(a.new) + 1])
    <3>1. Kept(a, n, e, r)
      BY <1>11, <1>12, <2>1, AddedKeeps, Zenon
    <3> QED
      BY <3>1 DEF Kept
  <2> QED
    BY <1>13, <2>2
<1>15. Table' = r.t /\ Core' = r.t
  <2>1. Table' = r.t
    BY <1>1, <1>14, Became DEF Sound
  <2> QED
    BY <1>2, <2>1 DEF Core, CoreOf
<1>16. CoreSound' /\ BestKept'
  BY <1>1, <1>2, <1>14, <1>15 DEF CoreSound, BestKept, Sound
<1>17. PICK p : p = r.new[Len(tr) + 1]
  OBVIOUS
<1>18. Outcome(Table, n, e, r.t, p) /\ Shaped(Table)
  BY <1>5, <1>14, <1>17 DEF Sound
<1>19. \A q, id : Means(Table, given, q, id) => Means(r.t, given, q, id)
  BY <1>11, <1>18, MeansAfter
<1>20. Means(r.t, given, p, Before + k)
  <2>1. Before + k \in DOMAIN given
    BY <1>3, <1>7
  <2>2. given[Before + k].name = n
    BY <1>8, <1>10
  <2>3. given[Before + k].local = (syms[i].bind = "local" /\ syms[i].at # "undef")
    BY <1>8
  <2>4. given[Before + k].local => e.bind = "local" /\ e.id = Before + k
    BY <1>11, <2>3
  <2>5. ~given[Before + k].local => e.bind # "local"
    BY <1>11, <2>3
  <2> QED
    BY <1>11, <1>18, <2>1, <2>2, <2>4, <2>5, MeansNew
<1>21. /\ syms' = r.t.syms /\ strs' = r.t.strs /\ len' = r.t.len /\ slen' = r.t.slen
       /\ (len' = len /\ slen' = slen) \/ (len' = len + 1 /\ slen' = slen + 1)
  <2>1. Table.len = len /\ Table.slen = slen
    BY DEF Table
  <2> QED
    BY <1>1, <1>18, <2>1 DEF TableBecomes, Outcome, SetNew, SetOld
<1>22. /\ Size' = Size /\ Before' = Before /\ Len(tr') = k /\ tr' = r.new
  BY <1>1, <1>2, <1>6, <1>14 DEF Size, Before
<1>23. /\ first.sym <= len' /\ slen' - first.str = len' - first.sym /\ len' <= first.sym + k
       /\ \A j \in k + 1 .. count : /\ j \in Len(tr) + 1 .. count
                                    /\ first.sym + j > len + 1 /\ first.str + j > slen + 1
  <2>1. PICK fs, fr, l, s, num, b, z, m, l2, s2 :
            /\ fs = first.sym /\ fr = first.str /\ l = len /\ s = slen /\ num = ids
            /\ b = Before /\ z = count /\ m = Len(tr) /\ l2 = len' /\ s2 = slen'
    OBVIOUS
  <2>2. /\ fs \in Nat /\ fr \in Nat /\ l \in Nat /\ s \in Nat /\ num \in Nat /\ b \in Nat
        /\ z \in Nat /\ m \in Nat
        /\ fs <= l /\ s - fr = l - fs /\ l <= fs + m /\ m < z /\ b = num - z
    BY <1>2, <1>3, <1>4, <2>1
  <2>3. (l2 = l /\ s2 = s) \/ (l2 = l + 1 /\ s2 = s + 1)
    BY <1>21, <2>1
  <2>4. /\ \A j \in (m + 1) + 1 .. z : j \in m + 1 .. z /\ fs + j > l + 1 /\ fr + j > s + 1
        /\ fs <= l2 /\ s2 - fr = l2 - fs /\ l2 <= fs + (m + 1)
    BY <2>2, <2>3
  <2> QED
    BY <1>6, <2>1, <2>4, Zenon
<1>24. ASSUME NEW j \in k + 1 .. count
       PROVE  Fresh(j)'
  <2>1. Fresh(j) /\ first.sym + j > len + 1 /\ first.str + j > slen + 1
    BY <1>4, <1>23
  <2>2. /\ first.sym + j \in DOMAIN syms /\ first.str + j \in DOMAIN strs
        /\ syms[first.sym + j].str = first.str + j /\ syms[first.sym + j].id = Before + j
        /\ given[Before + j] = [name |-> strs[first.str + j],
               local |-> syms[first.sym + j].bind = "local" /\ syms[first.sym + j].at # "undef"]
    BY <2>1 DEF Fresh
  <2>3. /\ \A q \in 1 .. Len(syms) : q > len + 1 => syms'[q] = syms[q]
        /\ \A q \in 1 .. Len(strs) : q > slen + 1 => strs'[q] = strs[q]
        /\ Len(syms) <= Len(syms') /\ Len(strs) <= Len(strs')
    <3>1. Table.syms = syms /\ Table.strs = strs /\ Table.len = len /\ Table.slen = slen
      BY DEF Table
    <3> QED
      BY <1>18, <1>21, <3>1 DEF Outcome
  <2>4. /\ syms'[first.sym + j] = syms[first.sym + j] /\ strs'[first.str + j] = strs[first.str + j]
    BY <1>3, <2>1, <2>2, <2>3
  <2>5. first.sym + j \in DOMAIN syms' /\ first.str + j \in DOMAIN strs'
    <3>1. /\ Len(syms') \in Nat /\ Len(strs') \in Nat
          /\ DOMAIN syms' = 1 .. Len(syms') /\ DOMAIN strs' = 1 .. Len(strs')
      BY <1>14, <1>21 DEF Sound, Shaped
    <3> QED
      BY <1>3, <2>2, <2>3, <3>1, Wider
  <2> QED
    BY <1>2, <1>22, <2>2, <2>4, <2>5 DEF Fresh
<1>25. ASSUME NEW j \in 1 .. k
       PROVE  Means(Table', given, tr'[j], Before + j)
  <2>1. CASE j \in 1 .. Len(tr)
    BY <1>4, <1>14, <1>15, <1>19, <1>22, <2>1
  <2>2. CASE j = k
    BY <1>6, <1>15, <1>17, <1>20, <1>22, <2>2
  <2> QED
    BY <1>7, <2>1, <2>2
<1>26. FileKept'
  BY <1>2, <1>4, <1>7, <1>22, <1>23, <1>24, <1>25 DEF FileKept
<1>27. RelocsMean'
  <2>1. ASSUME NEW q \in DOMAIN relocs
        PROVE  \/ /\ relocs[q].sym <= first.sym /\ relocs[q].id <= Before
                  /\ Refers(Core', given, relocs[q])
               \/ /\ relocs[q].sym \in first.sym + 1 .. first.sym + Size
                  /\ relocs[q].id = Before + (relocs[q].sym - first.sym)
    <3>1. \/ /\ relocs[q].sym <= first.sym /\ relocs[q].id <= Before
             /\ Refers(Core, given, relocs[q])
          \/ /\ relocs[q].sym \in first.sym + 1 .. first.sym + Size
             /\ relocs[q].id = Before + (relocs[q].sym - first.sym)
      BY <1>2 DEF TableInv, RelocsMean
    <3>2. Means(Core, given, relocs[q].sym, relocs[q].id) =>
              Means(Core', given, relocs[q].sym, relocs[q].id)
      BY <1>5, <1>15, <1>19
    <3> QED
      BY <3>1, <3>2, RefersStill
  <2> QED
    BY <1>2, <1>22, <2>1 DEF RelocsMean
<1>28. TableTyped'
  <2>1. Shaped(r.t)
    BY <1>14 DEF Sound
  <2>2. len' \in 0 .. Len(syms') /\ slen' \in 0 .. Len(strs')
    BY <1>21, <2>1 DEF Shaped
  <2> QED
    BY <1>1, <1>2, <1>14, <1>22, <2>2 DEF TableInv, TableTyped
<1> QED
  BY <1>16, <1>26, <1>27, <1>28 DEF TableInv

(* update_relocs gives every relocation of the file its new position.      *)
LEMMA StepEndRelocs ==
    ASSUME TableInv, EndRelocs
    PROVE  TableInv'
<1>1. /\ phase = "ending" /\ Len(tr) = count /\ phase' = "idle"
      /\ relocs' = Updated(relocs, first.sym, tr)
      /\ syms' = syms /\ len' = len /\ strs' = strs /\ slen' = slen /\ hash' = hash
      /\ hashed' = hashed /\ first' = first /\ count' = count /\ tr' = tr /\ error' = error
      /\ ids' = ids /\ given' = given /\ offers' = offers
  BY DEF EndRelocs, cellVars, givenVars
<1>2. Core' = Core /\ Core = Table /\ Table' = Table
  BY <1>1, Cores DEF Core, CoreOf, Table
<1>3. CoreSound' /\ BestKept'
  BY <1>1, <1>2 DEF TableInv, CoreSound, BestKept
<1>4. FileKept'
  BY <1>1 DEF FileKept
<1>5. /\ relocs \in Seq([sym : Nat, id : Nat, dup : BOOLEAN]) /\ tr \in Seq(Nat) /\ Len(relocs) \in Nat
      /\ first.sym \in Nat /\ count \in Nat /\ DOMAIN relocs = 1 .. Len(relocs)
  BY Typing
<1>6. /\ relocs' = [k \in DOMAIN relocs |-> IF relocs[k].sym > first.sym
                        THEN [relocs[k] EXCEPT !.sym = tr[relocs[k].sym - first.sym]]
                        ELSE relocs[k]]
  BY <1>1 DEF Updated
<1>7. ASSUME NEW k \in DOMAIN relocs
      PROVE  /\ relocs'[k] \in [sym : Nat, id : Nat, dup : BOOLEAN]
             /\ Refers(Core, given, relocs'[k])
  <2>1. relocs[k] \in [sym : Nat, id : Nat, dup : BOOLEAN]
    BY <1>5, ElementOf
  <2>2. CASE /\ relocs[k].sym <= first.sym
             /\ Refers(Core, given, relocs[k])
    <3>1. ~(relocs[k].sym > first.sym)
      BY <1>5, <2>1, <2>2
    <3>2. relocs'[k] = relocs[k]
      BY <1>6, <3>1
    <3> QED
      BY <2>1, <2>2, <3>2
  <2>3. CASE /\ relocs[k].sym \in first.sym + 1 .. first.sym + Size
             /\ relocs[k].id = Before + (relocs[k].sym - first.sym)
    <3>1. Size = count
      BY <1>1 DEF Size
    <3>2. PICK j : j = relocs[k].sym - first.sym
      OBVIOUS
    <3>3. j \in 1 .. Len(tr) /\ relocs[k].sym > first.sym
      <4>1. PICK fs, z, q : fs = first.sym /\ z = Len(tr) /\ q = relocs[k].sym
        OBVIOUS
      <4>2. fs \in Nat /\ z \in Nat /\ q \in fs + 1 .. fs + z /\ j = q - fs
        BY <1>1, <1>5, <2>3, <3>1, <3>2, <4>1
      <4>3. j \in 1 .. z /\ q > fs
        BY <4>2
      <4> QED
        BY <4>1, <4>3
    <3>4. tr[j] \in Nat
      BY <1>5, <3>3
    <3>5. PICK x : x = [relocs[k] EXCEPT !.sym = tr[j]]
      OBVIOUS
    <3>6. relocs'[k] = x
      BY <1>6, <3>2, <3>3, <3>5
    <3>7. x \in [sym : Nat, id : Nat, dup : BOOLEAN] /\ x.sym = tr[j] /\ x.id = relocs[k].id
      BY <2>1, <3>4, <3>5
    <3>8. Means(Table, given, tr[j], Before + j)
      BY <1>1, <3>3 DEF TableInv, FileKept
    <3> QED
      BY <1>2, <2>3, <3>2, <3>6, <3>7, <3>8 DEF Refers
  <2> QED
    BY <1>1, <2>2, <2>3 DEF TableInv, RelocsMean
<1>8. relocs' \in Seq([sym : Nat, id : Nat, dup : BOOLEAN]) /\ DOMAIN relocs' = DOMAIN relocs
  <2>1. relocs' \in [1 .. Len(relocs) -> [sym : Nat, id : Nat, dup : BOOLEAN]]
    BY <1>5, <1>6, <1>7
  <2> QED
    BY <1>5, <2>1, FunctionSeq
<1>9. RelocsMean'
  BY <1>1, <1>2, <1>7, <1>8 DEF RelocsMean
<1>10. TableTyped'
  BY <1>1, <1>8 DEF TableInv, TableTyped
<1> QED
  BY <1>3, <1>4, <1>9, <1>10 DEF TableInv

-----------------------------------------------------------------------------
(* cprime_load_object_file: the course of the loading up to symbol m *)

Loading(o, m, run) ==
    run = [k \in 0 .. m |->
              IF k = 0 THEN [t |-> Table, new |-> <<>>, twice |-> error, offers |-> offers]
              ELSE LET e == [bind |-> o.syms[k].bind, at |-> o.syms[k].at, id |-> ids + k]
                   IN  IF o.syms[k].sect \in kept
                       THEN Dropped(run[k - 1], o.syms[k].name, e)
                       ELSE Added(run[k - 1], o.syms[k].name, e)]

(* The loading of an object is a recursion that has a solution.            *)
LEMMA LoadingExists ==
    ASSUME NEW o, NEW n \in Nat
    PROVE  \E run : Loading(o, n, run)
<1> DEFINE S == {k \in 0 .. n : \E run : Loading(o, k, run)}
<1>1. 0 \in S
  <2> DEFINE run == [i \in 0 .. 0 |->
                 [t |-> Table, new |-> <<>>, twice |-> error, offers |-> offers]]
  <2>1. Loading(o, 0, run)
    BY DEF Loading
  <2> QED
    BY <2>1
<1>2. ASSUME NEW k \in 0 .. n, k < n, k \in S
      PROVE  k + 1 \in S
  <2>1. PICK run : Loading(o, k, run)
    BY <1>2
  <2> DEFINE longer == [i \in 0 .. k + 1 |->
                 IF i = 0 THEN [t |-> Table, new |-> <<>>, twice |-> error, offers |-> offers]
                 ELSE LET e == [bind |-> o.syms[i].bind, at |-> o.syms[i].at, id |-> ids + i]
                      IN  IF o.syms[i].sect \in kept
                          THEN Dropped(run[i - 1], o.syms[i].name, e)
                          ELSE Added(run[i - 1], o.syms[i].name, e)]
  <2>2. \A i \in 0 .. k : longer[i] = run[i]
    BY <2>1 DEF Loading
  <2>3. \A i \in 0 .. k + 1 : i # 0 => i - 1 \in 0 .. k
    OBVIOUS
  <2>4. Loading(o, k + 1, longer)
    BY <2>2, <2>3 DEF Loading
  <2>5. k + 1 \in 0 .. n
    BY <1>2
  <2> QED
    BY <2>4, <2>5
<1>3. n \in S
  <2> HIDE DEF S
  <2> QED
    BY <1>1, <1>2, Climb
<1> QED
  BY <1>3

(* What has been loaded when k symbols have been: a is as it should be.    *)
Loaded(a, k, base, gv, told, gold) ==
    /\ a = [t |-> a.t, new |-> a.new, twice |-> a.twice, offers |-> a.offers]
    /\ Sound(a.t) /\ a.new \in Seq(Nat) /\ Len(a.new) = k /\ a.twice \in BOOLEAN
    /\ a.offers \in [Names -> Seq(Linkable)] /\ Served(a.t, a.offers)
    /\ \A q, id : Means(told, gold, q, id) => Means(a.t, gv, q, id)
    /\ \A j \in 1 .. k : a.new[j] = Nil \/ Means(a.t, gv, a.new[j], base + j)

(* One symbol of an object more                                            *)
LEMMA LoadedOne ==
    ASSUME NEW a, NEW k \in Nat, NEW base \in Nat, NEW gv, NEW told, NEW gold,
           Loaded(a, k, base, gv, told, gold),
           NEW n \in Names, NEW e \in Offers, e.id = base + (k + 1),
           base + (k + 1) \in DOMAIN gv,
           gv[base + (k + 1)] = [name |-> n, local |-> e.bind = "local"],
           NEW r, r = Added(a, n, e)
    PROVE  Loaded(r, k + 1, base, gv, told, gold)
<1>1. /\ Sound(a.t) /\ a.new \in Seq(Nat) /\ Len(a.new) = k /\ a.twice \in BOOLEAN
      /\ a.offers \in [Names -> Seq(Linkable)] /\ Served(a.t, a.offers)
      /\ \A q, id : Means(told, gold, q, id) => Means(a.t, gv, q, id)
      /\ \A j \in 1 .. k : a.new[j] = Nil \/ Means(a.t, gv, a.new[j], base + j)
  BY DEF Loaded
<1>2. /\ Sound(r.t) /\ r.new \in Seq(Nat) /\ r.twice \in BOOLEAN
      /\ r.offers \in [Names -> Seq(Linkable)] /\ Served(r.t, r.offers)
      /\ Len(r.new) = k + 1
      /\ \A j \in 1 .. k : r.new[j] = a.new[j]
      /\ Outcome(a.t, n, e, r.t, r.new[k + 1])
  <2>1. /\ Sound(r.t) /\ r.new \in Seq(Nat) /\ r.twice \in BOOLEAN
        /\ r.offers \in [Names -> Seq(Linkable)] /\ Served(r.t, r.offers)
        /\ Len(r.new) = Len(a.new) + 1
        /\ \A j \in 1 .. Len(a.new) : r.new[j] = a.new[j]
        /\ Outcome(a.t, n, e, r.t, r.new[Len(a.new) + 1])
    <3>1. /\ Sound(a.t) /\ a.new \in Seq(Nat) /\ a.twice \in BOOLEAN
          /\ a.offers \in [Names -> Seq(Linkable)] /\ Served(a.t, a.offers)
      BY <1>1
    <3>2. Kept(a, n, e, r)
      BY <3>1, AddedKeeps, Zenon
    <3> QED
      BY <3>2 DEF Kept
  <2> QED
    BY <1>1, <2>1
<1>3. Shaped(a.t)
  BY <1>1 DEF Sound
<1>4. PICK u, p, id0 : u = r.t /\ p = r.new[k + 1] /\ id0 = base + (k + 1)
  OBVIOUS
<1>5. Outcome(a.t, n, e, u, p)
  BY <1>2, <1>4
<1>6. \A q, id : Means(a.t, gv, q, id) => Means(u, gv, q, id)
  BY <1>3, <1>5, MeansAfter
<1>7. Means(u, gv, p, id0)
  <2>1. id0 \in DOMAIN gv /\ gv[id0].name = n /\ e.id = id0
    BY <1>4
  <2>2. gv[id0].local = (e.bind = "local")
    BY <1>4
  <2>3. gv[id0].local => e.bind = "local" /\ e.id = id0
    BY <2>1, <2>2
  <2>4. ~gv[id0].local => e.bind # "local"
    BY <2>2
  <2> QED
    BY <1>3, <1>5, <2>1, <2>3, <2>4, MeansNew
<1>8. ASSUME NEW j \in 1 .. k + 1
      PROVE  r.new[j] = Nil \/ Means(r.t, gv, r.new[j], base + j)
  <2>1. CASE j \in 1 .. k
    BY <1>1, <1>2, <1>4, <1>6, <2>1
  <2>2. CASE j = k + 1
    BY <1>4, <1>7, <2>2
  <2> QED
    BY <2>1, <2>2
<1>9. \A q, id : Means(told, gold, q, id) => Means(r.t, gv, q, id)
  BY <1>1, <1>4, <1>6
<1>10. r = [t |-> r.t, new |-> r.new, twice |-> r.twice, offers |-> r.offers]
  BY DEF Added
<1> QED
  BY <1>2, <1>8, <1>9, <1>10 DEF Loaded

(* One symbol more that is in a copy of a link-once section                *)
LEMMA LoadedCopy ==
    ASSUME NEW a, NEW k \in Nat, NEW base \in Nat, NEW gv, NEW told, NEW gold,
           Loaded(a, k, base, gv, told, gold),
           NEW n \in Names, NEW e \in Offers, base + (k + 1) \in DOMAIN gv,
           gv[base + (k + 1)] = [name |-> n, local |-> e.bind = "local"],
           NEW r, r = Dropped(a, n, e)
    PROVE  Loaded(r, k + 1, base, gv, told, gold)
<1>1. /\ a = [t |-> a.t, new |-> a.new, twice |-> a.twice, offers |-> a.offers]
      /\ Sound(a.t) /\ a.new \in Seq(Nat) /\ Len(a.new) = k
      /\ \A j \in 1 .. k : a.new[j] = Nil \/ Means(a.t, gv, a.new[j], base + j)
  BY DEF Loaded
<1>2. PICK p : p = IF e.bind = "local" THEN Nil ELSE Find(a.t, n)
  OBVIOUS
<1>3. /\ r = [t |-> r.t, new |-> r.new, twice |-> r.twice, offers |-> r.offers]
      /\ r.t = a.t /\ r.twice = a.twice /\ r.offers = a.offers /\ r.new = Append(a.new, p)
  BY <1>1, <1>2 DEF Dropped
<1>4. /\ Find(a.t, n) \in 0 .. a.t.len
      /\ Find(a.t, n) # Nil => Binding(a.t, n, Find(a.t, n))
  BY <1>1, FoundByName DEF Sound
<1>5. p \in Nat /\ (p # Nil => Binding(a.t, n, p) /\ e.bind # "local")
  <2>1. a.t.len \in Nat
    BY <1>1 DEF Sound, Shaped
  <2> QED
    BY <1>2, <1>4, <2>1 DEF Nil
<1>6. /\ r.new \in Seq(Nat) /\ Len(r.new) = k + 1 /\ r.new[k + 1] = p
      /\ \A j \in 1 .. k : r.new[j] = a.new[j]
  BY <1>1, <1>3, <1>5
<1>7. ASSUME NEW j \in 1 .. k + 1
      PROVE  r.new[j] = Nil \/ Means(r.t, gv, r.new[j], base + j)
  <2>1. CASE j \in 1 .. k
    BY <1>1, <1>3, <1>6, <2>1
  <2>2. CASE j = k + 1
    <3>1. SUFFICES ASSUME p # Nil
                   PROVE  Means(a.t, gv, p, base + (k + 1))
      BY <1>3, <1>6, <2>2
    <3>2. Binding(a.t, n, p) /\ e.bind # "local"
      BY <1>5, <3>1
    <3>3. PICK id : id = base + (k + 1)
      OBVIOUS
    <3>4. id \in DOMAIN gv /\ gv[id] = [name |-> n, local |-> e.bind = "local"]
      BY <3>3
    <3>5. gv[id].name = n /\ gv[id].local = (e.bind = "local")
      BY <3>4
    <3>6. ~gv[id].local
      BY <3>2, <3>5
    <3>7. p \in 1 .. a.t.len /\ a.t.syms[p].bind # "local" /\ NameOf(a.t, p) = n
      BY <3>2 DEF Binding
    <3>8. Means(a.t, gv, p, id)
      BY <3>4, <3>5, <3>6, <3>7 DEF Means
    <3> QED
      BY <3>3, <3>8
  <2> QED
    BY <2>1, <2>2
<1> QED
  BY <1>1, <1>3, <1>6, <1>7 DEF Loaded

(* r is s and then w. *)
Joint(S, s, w, r) ==
    /\ r \in Seq(S) /\ Len(r) = Len(s) + Len(w)
    /\ DOMAIN r = 1 .. Len(s) + Len(w) /\ Len(s) \in Nat /\ Len(w) \in Nat
    /\ \A k \in 1 .. Len(s) : r[k] = s[k]
    /\ \A k \in 1 .. Len(w) : r[Len(s) + k] = w[k]
    /\ \A k \in 1 .. Len(s) + Len(w) :
          k \in 1 .. Len(s) \/ \E j \in 1 .. Len(w) : k = Len(s) + j

LEMMA Joined ==
    ASSUME NEW S, NEW s \in Seq(S), NEW w \in Seq(S), NEW r, r = s \o w
    PROVE  Joint(S, s, w, r)
<1>1. /\ r \in Seq(S) /\ Len(r) = Len(s) + Len(w)
      /\ DOMAIN r = 1 .. Len(s) + Len(w) /\ Len(s) \in Nat /\ Len(w) \in Nat
      /\ \A k \in 1 .. Len(s) : r[k] = s[k]
  OBVIOUS
<1>2. ASSUME NEW k \in 1 .. Len(w)
      PROVE  r[Len(s) + k] = w[k]
  <2>1. Len(s) + k \in 1 .. Len(s) + Len(w) /\ ~(Len(s) + k <= Len(s))
        /\ (Len(s) + k) - Len(s) = k
    BY <1>1
  <2> QED
    BY <1>1, <2>1
<1>3. ASSUME NEW k \in 1 .. Len(s) + Len(w), k \notin 1 .. Len(s)
      PROVE  \E j \in 1 .. Len(w) : k = Len(s) + j
  <2>1. k - Len(s) \in 1 .. Len(w) /\ k = Len(s) + (k - Len(s))
    BY <1>1, <1>3
  <2> QED
    BY <2>1
<1> QED
  BY <1>1, <1>2, <1>3 DEF Joint

(* A loaded object keeps what was there and adds what it has.              *)
LEMMA StepLoadObjectFile ==
    ASSUME TableInv, LoadObjectFile
    PROVE  TableInv'
<1>1. /\ phase = "idle" /\ phase' \in {"idle", "failed"} /\ first' = first /\ count' = count
      /\ tr' = tr
  BY DEF LoadObjectFile
<1>2. PICK o \in ObjectFiles :
          /\ ids' = ids + Len(o.syms)
          /\ LET run == CHOOSE run : Loading(o, Len(o.syms), run)
                 a == run[Len(o.syms)]
                 invalid == {k \in DOMAIN o.relocs :
                                a.new[o.relocs[k].sym] = Nil /\ o.relocs[k].sect \notin kept}
             IN  /\ TableBecomes(a.t) /\ offers' = a.offers
                 /\ error' = (a.twice \/ invalid # {})
                 /\ phase' = IF invalid = {} THEN "idle" ELSE "failed"
                 /\ relocs' = relocs \o [k \in DOMAIN o.relocs |->
                        [sym |-> IF \E j \in invalid : j <= k THEN o.relocs[k].sym
                                 ELSE a.new[o.relocs[k].sym],
                         id |-> ids + o.relocs[k].sym, dup |-> o.relocs[k].sect \in kept]]
          /\ given' = given \o [k \in DOMAIN o.syms |->
                 [name |-> o.syms[k].name, local |-> o.syms[k].bind = "local"]]
  BY DEF LoadObjectFile, Loading
<1> DEFINE N == Len(o.syms)
           run == CHOOSE run : Loading(o, N, run)
<1>3. /\ o.syms \in Seq(ObjectSymbols)
      /\ o.relocs \in Seq([sym : DOMAIN o.syms, sect : {Ordinary} \cup OnceIn(o)])
      /\ DOMAIN o.syms = 1 .. N /\ N \in Nat
      /\ DOMAIN o.relocs = 1 .. Len(o.relocs) /\ Len(o.relocs) \in Nat
  <2>1. /\ o.syms \in Seq(ObjectSymbols)
        /\ o.relocs \in Seq([sym : DOMAIN o.syms, sect : {Ordinary} \cup OnceIn(o)])
    BY TableAssumption
  <2> QED
    BY <2>1
<1>4. \A k \in 1 .. N : o.syms[k].name \in Names /\ o.syms[k].bind \in Binds
                        /\ o.syms[k].at \in Sections
  <2>1. \A k \in 1 .. N : o.syms[k] \in ObjectSymbols
    BY <1>3, ElementOf
  <2> QED
    BY <2>1 DEF ObjectSymbols
<1>5. Loading(o, N, run)
  BY <1>3, LoadingExists
<1>6. PICK a : a = run[N]
  OBVIOUS
<1> DEFINE invalid == {k \in DOMAIN o.relocs :
                          a.new[o.relocs[k].sym] = Nil /\ o.relocs[k].sect \notin kept}
<1>7. /\ TableBecomes(a.t) /\ offers' = a.offers /\ error' = (a.twice \/ invalid # {})
      /\ phase' = IF invalid = {} THEN "idle" ELSE "failed"
      /\ relocs' = relocs \o [k \in DOMAIN o.relocs |->
             [sym |-> IF \E j \in invalid : j <= k THEN o.relocs[k].sym
                      ELSE a.new[o.relocs[k].sym],
              id |-> ids + o.relocs[k].sym, dup |-> o.relocs[k].sect \in kept]]
  BY <1>2, <1>6
<1> HIDE DEF run, invalid
<1>8. /\ run[0] = [t |-> Table, new |-> <<>>, twice |-> error, offers |-> offers]
      /\ \A k \in 1 .. N :
             LET e == [bind |-> o.syms[k].bind, at |-> o.syms[k].at, id |-> ids + k]
             IN  run[k] = IF o.syms[k].sect \in kept
                          THEN Dropped(run[k - 1], o.syms[k].name, e)
                          ELSE Added(run[k - 1], o.syms[k].name, e)
  <2>1. /\ 0 \in 0 .. N /\ \A k \in 1 .. N : k \in 0 .. N /\ k # 0
    BY <1>3
  <2>2. run[0] = [t |-> Table, new |-> <<>>, twice |-> error, offers |-> offers]
    BY <1>5, <2>1 DEF Loading
  <2>3. ASSUME NEW k \in 1 .. N
        PROVE  LET e == [bind |-> o.syms[k].bind, at |-> o.syms[k].at, id |-> ids + k]
               IN  run[k] = IF o.syms[k].sect \in kept
                            THEN Dropped(run[k - 1], o.syms[k].name, e)
                            ELSE Added(run[k - 1], o.syms[k].name, e)
    BY <1>5, <2>1 DEF Loading
  <2> QED
    BY <2>2, <2>3
<1>9. PICK tail : tail = [k \in DOMAIN o.syms |->
                   [name |-> o.syms[k].name, local |-> o.syms[k].bind = "local"]]
  OBVIOUS
<1>10. /\ tail \in Seq([name : Names, local : BOOLEAN]) /\ Len(tail) = N
       /\ \A k \in 1 .. N : tail[k] = [name |-> o.syms[k].name,
                                       local |-> o.syms[k].bind = "local"]
  <2>1. tail \in [1 .. N -> [name : Names, local : BOOLEAN]]
    BY <1>3, <1>4, <1>9
  <2>2. tail \in Seq([name : Names, local : BOOLEAN]) /\ Len(tail) = N
    BY <1>3, <2>1, FunctionSeq
  <2> QED
    BY <1>3, <1>9, <2>2
<1>11. PICK gv : gv = given'
  OBVIOUS
<1>12. /\ gv \in Seq([name : Names, local : BOOLEAN]) /\ Len(gv) = ids + N
       /\ DOMAIN gv = 1 .. ids + N /\ ids \in Nat /\ ids' = ids + N
       /\ \A k \in 1 .. ids : gv[k] = given[k]
       /\ \A k \in 1 .. N : gv[ids + k] = [name |-> o.syms[k].name,
                                           local |-> o.syms[k].bind = "local"]
  <2>1. gv = given \o tail
    BY <1>2, <1>9, <1>11
  <2>2. given \in Seq([name : Names, local : BOOLEAN]) /\ Len(given) = ids /\ ids \in Nat
    BY Typing
  <2>3. PICK gold : gold = given
    OBVIOUS
  <2>4. PICK R : R = [name : Names, local : BOOLEAN]
    OBVIOUS
  <2>5. gold \in Seq(R) /\ tail \in Seq(R) /\ gv = gold \o tail
    BY <1>10, <2>1, <2>2, <2>3, <2>4
  <2>6. /\ gv \in Seq(R) /\ Len(gv) = Len(gold) + Len(tail)
        /\ DOMAIN gv = 1 .. Len(gold) + Len(tail)
        /\ \A k \in 1 .. Len(gold) : gv[k] = gold[k]
        /\ \A k \in 1 .. Len(tail) : gv[Len(gold) + k] = tail[k]
    <3>1. Joint(R, gold, tail, gv)
      BY <2>5, Joined, Zenon
    <3> QED
      BY <3>1 DEF Joint
  <2>7. Len(gold) = ids /\ Len(tail) = N
    BY <1>10, <2>2, <2>3
  <2>8. /\ gv \in Seq([name : Names, local : BOOLEAN]) /\ Len(gv) = ids + N
        /\ DOMAIN gv = 1 .. ids + N
        /\ \A k \in 1 .. ids : gv[k] = given[k]
        /\ \A k \in 1 .. N : gv[ids + k] = tail[k]
    BY <2>3, <2>4, <2>6, <2>7
  <2> QED
    BY <1>2, <1>10, <2>2, <2>8
<1>13. Core = Table /\ Sound(Table) /\ Served(Table, offers)
  BY <1>1, Cores DEF TableInv, CoreSound, BestKept
<1>14. PICK told, gold, base : told = Table /\ gold = given /\ base = ids
  OBVIOUS
<1> DEFINE S == {k \in 0 .. N : Loaded(run[k], k, base, gv, told, gold)}
<1>15. 0 \in S
  <2>1. PICK z : z = run[0]
    OBVIOUS
  <2>2. /\ z.t = Table /\ z.new = <<>> /\ z.twice = error /\ z.offers = offers
        /\ z = [t |-> z.t, new |-> z.new, twice |-> z.twice, offers |-> z.offers]
    BY <1>8, <2>1
  <2>3. \A q, id : Means(told, gold, q, id) => Means(z.t, gv, q, id)
    <3>1. SUFFICES ASSUME NEW q, NEW id, Means(Table, given, q, id)
                   PROVE  Means(Table, gv, q, id)
      BY <1>14, <2>2
    <3>2. id \in 1 .. ids
      BY <3>1, Typing DEF Means
    <3>3. id \in DOMAIN gv /\ gv[id] = given[id]
      BY <1>3, <1>12, <3>2
    <3> QED
      BY <3>1, <3>3, MeansLater
  <2>4. z.new \in Seq(Nat) /\ Len(z.new) = 0 /\ 1 .. 0 = {}
    BY <2>2
  <2>5. Sound(z.t) /\ z.twice \in BOOLEAN /\ z.offers \in [Names -> Seq(Linkable)]
        /\ Served(z.t, z.offers)
    BY <1>13, <2>2, Typing
  <2>6. Loaded(z, 0, base, gv, told, gold)
    BY <2>2, <2>3, <2>4, <2>5 DEF Loaded
  <2>7. 0 \in 0 .. N
    BY <1>3
  <2> QED
    BY <2>1, <2>6, <2>7
<1>16. ASSUME NEW k \in 0 .. N, k < N, k \in S
       PROVE  k + 1 \in S
  <2>1. k + 1 \in 1 .. N /\ k + 1 \in 0 .. N /\ k \in Nat /\ (k + 1) - 1 = k
    BY <1>3, <1>16
  <2>2. PICK n, e : /\ n = o.syms[k + 1].name
                    /\ e = [bind |-> o.syms[k + 1].bind, at |-> o.syms[k + 1].at,
                            id |-> ids + (k + 1)]
    OBVIOUS
  <2>3. ids + (k + 1) \in Nat /\ ids + (k + 1) \in 1 .. ids + N
    BY <1>3, <1>12, <2>1
  <2>4. n \in Names /\ e \in Offers /\ e.id = ids + (k + 1) /\ e.bind = o.syms[k + 1].bind
    BY <1>4, <2>1, <2>2, <2>3 DEF Offers
  <2>5. run[k + 1] = IF o.syms[k + 1].sect \in kept THEN Dropped(run[k], n, e)
                     ELSE Added(run[k], n, e)
    BY <1>8, <2>1, <2>2
  <2>6. gv[base + (k + 1)] = [name |-> n, local |-> e.bind = "local"]
    BY <1>12, <1>14, <2>1, <2>2, <2>4
  <2>7. Loaded(run[k], k, base, gv, told, gold)
    BY <1>16
  <2>8. base \in Nat /\ base + (k + 1) \in DOMAIN gv /\ e.id = base + (k + 1)
    BY <1>12, <1>14, <2>3, <2>4
  <2> HIDE DEF S
  <2>9. Loaded(run[k + 1], k + 1, base, gv, told, gold)
    <3>1. CASE o.syms[k + 1].sect \in kept
      <4>1. run[k + 1] = Dropped(run[k], n, e)
        BY <2>5, <3>1
      <4> QED
        BY <2>1, <2>4, <2>6, <2>7, <2>8, <4>1, LoadedCopy
    <3>2. CASE o.syms[k + 1].sect \notin kept
      <4>1. run[k + 1] = Added(run[k], n, e)
        BY <2>5, <3>2
      <4> QED
        BY <2>1, <2>4, <2>6, <2>7, <2>8, <4>1, LoadedOne
    <3> QED
      BY <3>1, <3>2
  <2> QED
    BY <2>1, <2>9 DEF S
<1>17. N \in S
  <2> HIDE DEF S
  <2> QED
    BY <1>3, <1>15, <1>16, Climb
<1>18. /\ Sound(a.t) /\ a.new \in Seq(Nat) /\ Len(a.new) = N /\ a.twice \in BOOLEAN
       /\ a.offers \in [Names -> Seq(Linkable)] /\ Served(a.t, a.offers)
       /\ \A q, id : Means(Table, given, q, id) => Means(a.t, gv, q, id)
       /\ \A j \in 1 .. N : a.new[j] = Nil \/ Means(a.t, gv, a.new[j], ids + j)
  BY <1>6, <1>14, <1>17 DEF Loaded
<1>19. Table' = a.t /\ Core' = a.t
  <2>1. Table' = a.t
    BY <1>7, <1>18, Became DEF Sound
  <2> QED
    BY <1>1, <2>1 DEF Core, CoreOf
<1>20. CoreSound' /\ BestKept'
  BY <1>1, <1>7, <1>18, <1>19 DEF CoreSound, BestKept, Sound
<1>21. FileKept'
  BY <1>1 DEF FileKept
<1>22. PICK more : more = [k \in DOMAIN o.relocs |->
                      [sym |-> IF \E j \in invalid : j <= k THEN o.relocs[k].sym
                               ELSE a.new[o.relocs[k].sym],
                       id |-> ids + o.relocs[k].sym, dup |-> o.relocs[k].sect \in kept]]
  OBVIOUS
<1>23. \A k \in 1 .. Len(o.relocs) : o.relocs[k].sym \in 1 .. N
  <2>1. PICK R : R = [sym : DOMAIN o.syms, sect : {Ordinary} \cup OnceIn(o)]
    OBVIOUS
  <2>2. \A k \in 1 .. Len(o.relocs) : o.relocs[k] \in R
    BY <1>3, <2>1, ElementOf
  <2> QED
    BY <1>3, <2>1, <2>2
<1>24. /\ more \in Seq([sym : Nat, id : Nat, dup : BOOLEAN]) /\ Len(more) = Len(o.relocs)
       /\ invalid = {} => \A k \in 1 .. Len(o.relocs) :
              more[k] = [sym |-> a.new[o.relocs[k].sym], id |-> ids + o.relocs[k].sym,
                         dup |-> o.relocs[k].sect \in kept]
  <2>1. ASSUME NEW k \in 1 .. Len(o.relocs)
        PROVE  [sym |-> IF \E j \in invalid : j <= k THEN o.relocs[k].sym
                        ELSE a.new[o.relocs[k].sym],
                id |-> ids + o.relocs[k].sym, dup |-> o.relocs[k].sect \in kept]
                   \in [sym : Nat, id : Nat, dup : BOOLEAN]
    <3>1. a.new[o.relocs[k].sym] \in Nat /\ o.relocs[k].sym \in Nat
      BY <1>18, <1>23
    <3>2. ids + o.relocs[k].sym \in Nat
      BY <1>12, <1>23
    <3>3. PICK p, b : /\ p = IF \E j \in invalid : j <= k THEN o.relocs[k].sym
                             ELSE a.new[o.relocs[k].sym]
                      /\ b = (o.relocs[k].sect \in kept)
      OBVIOUS
    <3>4. p \in Nat
      BY <3>1, <3>3
    <3>5. b \in BOOLEAN
      BY <3>3
    <3>6. [sym |-> p, id |-> ids + o.relocs[k].sym, dup |-> b]
              \in [sym : Nat, id : Nat, dup : BOOLEAN]
      BY <3>2, <3>4, <3>5
    <3> QED
      BY <3>3, <3>6
  <2>2. more \in [1 .. Len(o.relocs) -> [sym : Nat, id : Nat, dup : BOOLEAN]]
    BY <1>3, <1>22, <2>1
  <2>3. more \in Seq([sym : Nat, id : Nat, dup : BOOLEAN]) /\ Len(more) = Len(o.relocs)
    <3>1. PICK R, n : R = [sym : Nat, id : Nat, dup : BOOLEAN] /\ n = Len(o.relocs)
      OBVIOUS
    <3>2. n \in Nat /\ more \in [1 .. n -> R]
      BY <1>3, <2>2, <3>1
    <3>3. more \in Seq(R) /\ Len(more) = n
      BY <3>2, FunctionSeq, Zenon
    <3> QED
      BY <3>1, <3>3
  <2> QED
    BY <1>3, <1>22, <2>3
<1>25. /\ relocs' \in Seq([sym : Nat, id : Nat, dup : BOOLEAN])
       /\ DOMAIN relocs' = 1 .. Len(relocs) + Len(more)
       /\ \A k \in 1 .. Len(relocs) : relocs'[k] = relocs[k]
       /\ \A k \in 1 .. Len(more) : relocs'[Len(relocs) + k] = more[k]
       /\ \A k \in 1 .. Len(relocs) + Len(more) :
             k \in 1 .. Len(relocs) \/ \E j \in 1 .. Len(more) : k = Len(relocs) + j
  <2>1. PICK rs : rs = relocs
    OBVIOUS
  <2>2. rs \in Seq([sym : Nat, id : Nat, dup : BOOLEAN])
    BY <2>1, Typing
  <2>3. PICK new : new = relocs'
    OBVIOUS
  <2>4. new = rs \o more
    BY <1>7, <1>22, <2>1, <2>3
  <2>5. PICK R : R = [sym : Nat, id : Nat, dup : BOOLEAN]
    OBVIOUS
  <2>6. rs \in Seq(R) /\ more \in Seq(R)
    BY <1>24, <2>2, <2>5
  <2>7. /\ new \in Seq(R) /\ DOMAIN new = 1 .. Len(rs) + Len(more)
        /\ \A k \in 1 .. Len(rs) : new[k] = rs[k]
        /\ \A k \in 1 .. Len(more) : new[Len(rs) + k] = more[k]
        /\ \A k \in 1 .. Len(rs) + Len(more) :
              k \in 1 .. Len(rs) \/ \E j \in 1 .. Len(more) : k = Len(rs) + j
    <3>1. Joint(R, rs, more, new)
      BY <2>4, <2>6, Joined, Zenon
    <3> QED
      BY <3>1 DEF Joint
  <2> QED
    BY <2>1, <2>3, <2>5, <2>7
<1>26. ASSUME phase' # "failed", NEW k \in DOMAIN relocs'
       PROVE  Refers(Table', given', relocs'[k])
  <2>1. CASE k \in 1 .. Len(relocs)
    <3>1. relocs'[k] = relocs[k]
      BY <1>25, <2>1
    <3>2. k \in DOMAIN relocs
      BY <2>1, Typing
    <3>3. Refers(Table, given, relocs[k])
      BY <1>1, <3>2 DEF TableInv, RelocsMean
    <3>4. Means(Table, given, relocs[k].sym, relocs[k].id) =>
              Means(Table', given', relocs[k].sym, relocs[k].id)
      BY <1>11, <1>18, <1>19
    <3>5. relocs[k].id \in DOMAIN given'
      <4>1. relocs[k].id \in 1 .. ids
        BY <3>3, RefersGiven, Typing
      <4> QED
        BY <1>3, <1>11, <1>12, <4>1
    <3> QED
      BY <3>1, <3>3, <3>4, <3>5, RefersStill
  <2>2. ASSUME NEW j \in 1 .. Len(more), k = Len(relocs) + j
        PROVE  Refers(Table', given', relocs'[k])
    <3>1. relocs'[k] = more[j] /\ j \in 1 .. Len(o.relocs)
      BY <1>24, <1>25, <2>2
    <3>2. invalid = {}
      BY <1>7, <1>26
    <3>3. PICK m : m = o.relocs[j].sym
      OBVIOUS
    <3>4. m \in 1 .. N
      BY <1>23, <3>1, <3>3
    <3>5. /\ more[j].sym = a.new[m] /\ more[j].id = ids + m
          /\ more[j].dup = (o.relocs[j].sect \in kept)
      <4>1. PICK q, b : q = a.new[m] /\ b = (o.relocs[j].sect \in kept)
        OBVIOUS
      <4>2. more[j] = [sym |-> q, id |-> ids + m, dup |-> b]
        BY <1>24, <3>1, <3>2, <3>3, <4>1
      <4>3. more[j].sym = q /\ more[j].id = ids + m /\ more[j].dup = b
        BY <4>2
      <4> QED
        BY <4>1, <4>3
    <3>6. CASE a.new[m] # Nil
      BY <1>11, <1>18, <1>19, <3>1, <3>4, <3>5, <3>6 DEF Refers
    <3>7. CASE a.new[m] = Nil
      <4>1. j \in DOMAIN o.relocs /\ j \notin invalid
        BY <1>3, <3>1, <3>2
      <4>2. more[j].dup
        BY <3>3, <3>5, <3>7, <4>1 DEF invalid
      <4>3. ids + m \in DOMAIN given'
        BY <1>3, <1>11, <1>12, <3>4
      <4> QED
        BY <3>1, <3>5, <3>7, <4>2, <4>3 DEF Refers
    <3> QED
      BY <3>6, <3>7
  <2> QED
    BY <1>25, <2>1, <2>2
<1>27. RelocsMean'
  BY <1>1, <1>26 DEF RelocsMean
<1>28. TableTyped'
  <2>1. len' = a.t.len /\ slen' = a.t.slen /\ syms' = a.t.syms /\ strs' = a.t.strs
    BY <1>7 DEF TableBecomes
  <2>2. len' \in 0 .. Len(syms') /\ slen' \in 0 .. Len(strs')
    BY <1>18, <2>1 DEF Sound, Shaped
  <2>3. ids' \in Nat /\ given' \in Seq([name : Names, local : BOOLEAN]) /\ Len(given') = ids'
    BY <1>3, <1>11, <1>12
  <2> QED
    BY <1>1, <1>7, <1>18, <1>25, <2>2, <2>3 DEF TableInv, TableTyped
<1> QED
  BY <1>20, <1>21, <1>27, <1>28 DEF TableInv

-----------------------------------------------------------------------------
(* sort_syms *)

NewPlace == [i \in 1 .. len |-> Cardinality({j \in 1 .. len : Precedes(j, i)})]

(* The new positions are a permutation. *)
LEMMA Permuted ==
    ASSUME len \in Nat
    PROVE  /\ NewPlace \in [1 .. len -> 1 .. len]
           /\ \A i, j \in 1 .. len : NewPlace[i] = NewPlace[j] => i = j
           /\ \A k \in 1 .. len : \E i \in 1 .. len : NewPlace[i] = k
<1> DEFINE Below(i) == {j \in 1 .. len : Precedes(j, i)}
<1>1. \A i, j : Precedes(i, j) <=>
          \/ syms[i].bind = "local" /\ syms[j].bind # "local"
          \/ (syms[i].bind = "local" <=> syms[j].bind = "local") /\ i <= j
  BY DEF Precedes
<1>2. \A i \in 1 .. len : Precedes(i, i)
  BY <1>1
<1>3. \A i, j \in 1 .. len : i # j /\ ~Precedes(i, j) => Precedes(j, i)
  BY <1>1
<1>4. \A i, j \in 1 .. len : i # j /\ Precedes(i, j) => ~Precedes(j, i)
  BY <1>1
<1>5. \A i, j, k \in 1 .. len : Precedes(i, j) /\ Precedes(j, k) => Precedes(i, k)
  BY <1>1
<1>6. IsFiniteSet(1 .. len) /\ Cardinality(1 .. len) = len
  BY FS_Interval
<1>7. \A i : Below(i) \subseteq 1 .. len
  OBVIOUS
<1>8. \A i : /\ IsFiniteSet(Below(i)) /\ Cardinality(Below(i)) \in Nat
             /\ Cardinality(Below(i)) <= len
  <2> TAKE i
  <2>1. IsFiniteSet(Below(i)) /\ Cardinality(Below(i)) <= Cardinality(1 .. len)
    BY <1>6, <1>7, FS_Subset
  <2>2. Cardinality(Below(i)) \in Nat
    BY <2>1, FS_CardinalityType
  <2> HIDE DEF Below
  <2> QED
    BY <1>6, <2>1, <2>2
<1>9. ASSUME NEW i \in 1 .. len
      PROVE  Cardinality(Below(i)) \in 1 .. len
  <2>1. i \in Below(i)
    BY <1>2
  <2> HIDE DEF Below
  <2>2. Below(i) # {}
    BY <2>1
  <2>3. Cardinality(Below(i)) # 0
    BY <1>8, <2>2, FS_EmptySet
  <2> QED
    BY <1>8, <2>3
<1>10. ASSUME NEW i \in 1 .. len, NEW j \in 1 .. len, i # j, Precedes(i, j)
       PROVE  Cardinality(Below(i)) # Cardinality(Below(j))
  <2>1. Below(i) \subseteq Below(j)
    BY <1>5, <1>10
  <2>2. j \in Below(j) /\ j \notin Below(i)
    BY <1>2, <1>4, <1>10
  <2> HIDE DEF Below
  <2> QED
    BY <1>8, <2>1, <2>2, FS_Subset
<1>11. \A i \in 1 .. len : NewPlace[i] = Cardinality(Below(i))
  BY DEF NewPlace
<1>12. NewPlace \in [1 .. len -> 1 .. len]
  <2>1. DOMAIN NewPlace = 1 .. len /\ NewPlace = [i \in 1 .. len |-> NewPlace[i]]
    BY DEF NewPlace
  <2> HIDE DEF Below
  <2>2. \A i \in 1 .. len : NewPlace[i] \in 1 .. len
    BY <1>9, <1>11
  <2> QED
    BY <2>1, <2>2
<1>13. ASSUME NEW i \in 1 .. len, NEW j \in 1 .. len, NewPlace[i] = NewPlace[j]
       PROVE  i = j
  <2> HIDE DEF Below
  <2> QED
    BY <1>3, <1>10, <1>11, <1>13
<1>14. \A k \in 1 .. len : \E i \in 1 .. len : NewPlace[i] = k
  <2>1. NewPlace \in Injection(1 .. len, 1 .. len)
    BY <1>12, <1>13 DEF Injection, IsInjective
  <2>2. NewPlace \in Surjection(1 .. len, 1 .. len)
    BY <1>6, <2>1, FS_Injection
  <2> QED
    BY <2>2 DEF Surjection
<1> QED
  BY <1>12, <1>13, <1>14

(* Sorting permutes the symbols, and the relocations with them.            *)
LEMMA StepSortSyms ==
    ASSUME TableInv, SortSyms
    PROVE  TableInv'
<1>1. /\ phase = "idle" /\ phase' = "sorted"
      /\ syms' = [k \in 1 .. len |-> syms[CHOOSE i \in 1 .. len : NewPlace[i] = k]]
      /\ relocs' = Updated(relocs, 0, NewPlace)
      /\ len' = len /\ strs' = strs /\ slen' = slen /\ hash' = hash /\ hashed' = hashed
      /\ first' = first /\ count' = count /\ tr' = tr /\ error' = error /\ ids' = ids
      /\ given' = given /\ offers' = offers
  BY DEF SortSyms, NewPlace, givenVars
<1>2. /\ len \in Nat /\ slen \in Nat /\ Len(syms) \in Nat /\ len <= Len(syms)
      /\ slen <= Len(strs) /\ Len(strs) \in Nat /\ Len(relocs) \in Nat
      /\ DOMAIN relocs = 1 .. Len(relocs) /\ relocs \in Seq([sym : Nat, id : Nat, dup : BOOLEAN])
  BY Typing
<1>3. PICK new : new = NewPlace
  OBVIOUS
<1>4. /\ new \in [1 .. len -> 1 .. len]
      /\ \A i, j \in 1 .. len : new[i] = new[j] => i = j
      /\ \A k \in 1 .. len : \E i \in 1 .. len : new[i] = k
  BY <1>2, <1>3, Permuted
<1>5. \A i \in 1 .. len : new[i] \in 1 .. len /\ syms'[new[i]] = syms[i]
  <2> TAKE i \in 1 .. len
  <2>1. new[i] \in 1 .. len
    BY <1>4
  <2>2. (CHOOSE j \in 1 .. len : new[j] = new[i]) = i
    BY <1>4
  <2>3. syms'[new[i]] = syms[CHOOSE j \in 1 .. len : new[j] = new[i]]
    BY <1>1, <1>3, <2>1
  <2> QED
    BY <2>1, <2>2, <2>3
<1>6. \A k \in 1 .. len : \E i \in 1 .. len : syms'[k] = syms[i]
  <2> TAKE k \in 1 .. len
  <2>1. PICK i \in 1 .. len : new[i] = k
    BY <1>4
  <2>2. syms'[k] = syms[i]
    BY <1>5, <2>1
  <2> QED
    BY <2>2
<1>7. Core = Table /\ Shaped(Table)
  BY <1>1, Cores DEF TableInv, CoreSound
<1>8. \A i \in 1 .. len : syms[i] \in Entries /\ syms[i].str \in 1 .. slen
  <2> TAKE i \in 1 .. len
  <2>1. i \in 1 .. Len(syms)
    BY <1>2, Wider
  <2>2. syms[i] \in Entries
    BY <2>1, Typing
  <2>3. syms[i].str \in 1 .. slen
    BY <1>7 DEF Shaped, Table
  <2> QED
    BY <2>2, <2>3
<1>9. syms' \in Seq(Entries) /\ Len(syms') = len
  <2>1. \A k \in 1 .. len : syms'[k] \in Entries
    BY <1>6, <1>8
  <2>2. syms' \in [1 .. len -> Entries]
    BY <1>1, <2>1
  <2> QED
    BY <1>2, <2>2, FunctionSeq
<1>10. /\ Core' = Table'
       /\ Table' = [syms |-> Table'.syms, len |-> Table'.len, strs |-> Table'.strs,
                    slen |-> Table'.slen, hash |-> Table'.hash, hashed |-> Table'.hashed]
       /\ Table'.syms = syms' /\ Table'.len = len /\ Table'.strs = strs /\ Table'.slen = slen
       /\ Table'.hash = hash /\ Table'.hashed = hashed
  BY <1>1 DEF Core, CoreOf, Table
<1>11. Shaped(Table')
  <2>1. \A k \in 1 .. len : syms'[k].str \in 1 .. slen
    BY <1>6, <1>8
  <2>2. len \in 0 .. Len(syms') /\ slen \in 0 .. Len(strs)
    BY <1>2, <1>9
  <2> QED
    BY <1>9, <1>10, <2>1, <2>2, Typing DEF Shaped
<1>12. CoreSound' /\ BestKept' /\ FileKept'
  BY <1>1, <1>10, <1>11 DEF CoreSound, BestKept, FileKept
<1>13. ASSUME NEW k \in DOMAIN relocs
       PROVE  /\ relocs[k] \in [sym : Nat, id : Nat, dup : BOOLEAN]
              /\ relocs[k].sym \in 0 .. len
              /\ Refers(Table, given, relocs[k])
  <2>1. relocs[k] \in [sym : Nat, id : Nat, dup : BOOLEAN]
    BY <1>2, ElementOf
  <2>2. Refers(Table, given, relocs[k])
    BY <1>1 DEF TableInv, RelocsMean
  <2>3. relocs[k].sym = 0 \/ relocs[k].sym \in 1 .. len
    BY <2>2 DEF Refers, Means, Table, Nil
  <2>4. relocs[k].sym \in 0 .. len
    BY <1>2, <2>3
  <2> QED
    BY <2>1, <2>2, <2>4
<1>14. relocs' = [k \in DOMAIN relocs |-> IF relocs[k].sym = Nil THEN relocs[k]
                     ELSE [relocs[k] EXCEPT !.sym = new[relocs[k].sym]]]
  <2>1. \A k \in DOMAIN relocs : /\ relocs[k].sym > 0 <=> relocs[k].sym # Nil
                                 /\ relocs[k].sym - 0 = relocs[k].sym
    BY <1>2, <1>13 DEF Nil
  <2> QED
    BY <1>1, <1>3, <2>1 DEF Updated
<1>15. ASSUME NEW k \in DOMAIN relocs
       PROVE  /\ relocs'[k] \in [sym : Nat, id : Nat, dup : BOOLEAN]
              /\ Refers(Table', given, relocs'[k])
  <2>8. CASE relocs[k].sym = Nil
    <3>1. relocs'[k] = relocs[k]
      BY <1>14, <2>8
    <3>2. ~Means(Table, given, relocs[k].sym, relocs[k].id)
      BY <1>2, <2>8 DEF Means, Table, Nil
    <3> QED
      BY <1>13, <2>8, <3>1, <3>2 DEF Refers
  <2>9. SUFFICES ASSUME relocs[k].sym # Nil
                 PROVE  /\ relocs'[k] \in [sym : Nat, id : Nat, dup : BOOLEAN]
                        /\ Refers(Table', given, relocs'[k])
    BY <2>8
  <2>1. PICK r, p, id : r = relocs'[k] /\ p = relocs[k].sym /\ id = relocs[k].id
    OBVIOUS
  <2>2. p \in 1 .. len /\ new[p] \in 1 .. len /\ syms'[new[p]] = syms[p]
    BY <1>2, <1>5, <1>13, <2>1, <2>9 DEF Nil
  <2>3. r = [relocs[k] EXCEPT !.sym = new[p]]
    BY <1>14, <2>1, <2>9
  <2>4. r \in [sym : Nat, id : Nat, dup : BOOLEAN] /\ r.sym = new[p] /\ r.id = id
    BY <1>13, <2>1, <2>2, <2>3
  <2>5. NameOf(Table', new[p]) = NameOf(Table, p)
    <3>1. Table.syms = syms /\ Table.strs = strs
      BY DEF Table
    <3> QED
      BY <1>10, <2>2, <3>1 DEF NameOf
  <2>6. Means(Table, given, p, id)
    BY <1>13, <2>1, <2>9 DEF Refers
  <2>7. Means(Table', given, new[p], id)
    <3>1. Table.syms = syms /\ Table.len = len
      BY DEF Table
    <3> QED
      BY <1>10, <2>2, <2>5, <2>6, <3>1 DEF Means
  <2> QED
    BY <2>1, <2>4, <2>7 DEF Refers
<1>16. relocs' \in Seq([sym : Nat, id : Nat, dup : BOOLEAN]) /\ DOMAIN relocs' = DOMAIN relocs
  <2>1. relocs' \in [1 .. Len(relocs) -> [sym : Nat, id : Nat, dup : BOOLEAN]]
    BY <1>2, <1>14, <1>15
  <2> QED
    BY <1>2, <2>1, FunctionSeq
<1>17. RelocsMean'
  BY <1>1, <1>15, <1>16 DEF RelocsMean
<1>18. TableTyped'
  <2>1. len' \in 0 .. Len(syms') /\ slen' \in 0 .. Len(strs')
    BY <1>1, <1>2, <1>9
  <2> QED
    BY <1>1, <1>16, <2>1 DEF TableInv, TableTyped
<1> QED
  BY <1>12, <1>17, <1>18 DEF TableInv

(* Every step keeps the invariant.                                         *)
LEMMA NextTable == TableInv /\ [TableNext]_tableVars => TableInv'
<1> SUFFICES ASSUME TableInv, [TableNext]_tableVars
             PROVE  TableInv'
  OBVIOUS
<1>1. CASE BeginFile
  BY <1>1, StepBeginFile
<1>2. CASE PutSymbol
  BY <1>2, StepPutSymbol
<1>3. CASE DefineSymbol
  BY <1>3, StepDefineSymbol
<1>4. CASE PutReloc
  BY <1>4, StepPutReloc
<1>5. CASE EndFile
  BY <1>5, StepEndFile
<1>6. CASE EndSymbol
  BY <1>6, StepEndSymbol
<1>7. CASE EndRelocs
  BY <1>7, StepEndRelocs
<1>8. CASE LoadObjectFile
  BY <1>8, StepLoadObjectFile
<1>9. CASE SortSyms
  BY <1>9, StepSortSyms
<1>10. CASE UNCHANGED tableVars
  <2>1. /\ phase' = phase /\ syms' = syms /\ len' = len /\ strs' = strs /\ slen' = slen
        /\ hash' = hash /\ hashed' = hashed /\ first' = first /\ count' = count /\ tr' = tr
        /\ relocs' = relocs /\ error' = error /\ ids' = ids /\ given' = given
        /\ offers' = offers
    BY <1>10 DEF tableVars, cellVars, givenVars
  <2>2. Core' = Core /\ Table' = Table /\ Size' = Size /\ Before' = Before
    BY <2>1 DEF Core, CoreOf, Table, Size, Before
  <2>3. \A k : Fresh(k)' <=> Fresh(k)
    BY <2>1, <2>2 DEF Fresh
  <2>4. TableTyped' /\ CoreSound' /\ BestKept'
    BY <2>1, <2>2 DEF TableInv, TableTyped, CoreSound, BestKept
  <2>5. FileKept'
    BY <2>1, <2>2, <2>3 DEF TableInv, FileKept
  <2>6. RelocsMean'
    BY <2>1, <2>2 DEF TableInv, RelocsMean
  <2> QED
    BY <2>4, <2>5, <2>6 DEF TableInv
<1> QED
  BY <1>1, <1>2, <1>3, <1>4, <1>5, <1>6, <1>7, <1>8, <1>9, <1>10 DEF TableNext

(* The invariant holds in every state of every behaviour.                  *)
LEMMA TableInvariance == TableSpec => []TableInv
<1> QED
  BY InitTable, NextTable, PTL DEF TableSpec

(* In every link, whatever is compiled, loaded, merged, taken back and     *)
(* sorted, however often the index grows, and whichever link-once sections *)
(* are dropped, a relocation still means the symbol that it was made for;  *)
(* only one of a dropped section may be left without                       *)
(* (update_relocs, old_to_new_syms).                                       *)
THEOREM RelocationsFollow == TableSpec => []RelocsFollow
<1>1. TableInv => RelocsFollow
  <2>1. SUFFICES ASSUME TableInv, phase \in {"idle", "sorted"}, NEW k \in DOMAIN relocs
                 PROVE  \/ relocs[k].sym = Nil /\ relocs[k].dup
                        \/ /\ relocs[k].sym \in 1 .. len
                           /\ strs[syms[relocs[k].sym].str] = given[relocs[k].id].name
                           /\ IF given[relocs[k].id].local
                              THEN syms[relocs[k].sym].id = relocs[k].id
                              ELSE syms[relocs[k].sym].bind # "local"
    BY DEF RelocsFollow
  <2>2. Refers(Table, given, relocs[k])
    BY <2>1 DEF TableInv, RelocsMean
  <2>3. Table.syms = syms /\ Table.strs = strs /\ Table.len = len
    BY DEF Table
  <2> QED
    BY <2>2, <2>3 DEF Refers, Means, NameOf
<1> QED
  BY <1>1, TableInvariance, PTL

(* Outside a compilation the index finds the one non-local symbol of a     *)
(* name, and nothing for a name that has none, for every table size and    *)
(* every hash function (find_elf_sym, rebuild_hash).                       *)
THEOREM NamesAreFound == TableSpec => []Findable
<1>1. TableInv => Findable
  <2>1. SUFFICES ASSUME TableInv, phase \in {"idle", "ending"}, NEW n \in Names
                 PROVE  {i \in 1 .. len : syms[i].bind # "local" /\ strs[syms[i].str] = n} =
                            IF Find(Table, n) = Nil THEN {} ELSE {Find(Table, n)}
    BY DEF Findable
  <2>2. Sound(Table)
    BY <2>1, Cores DEF TableInv, CoreSound
  <2>3. Table.syms = syms /\ Table.strs = strs /\ Table.len = len
    BY DEF Table
  <2>4. \A i \in 1 .. len : Binding(Table, n, i) <=>
            syms[i].bind # "local" /\ strs[syms[i].str] = n
    BY <2>3 DEF Binding, NameOf
  <2>5. /\ Find(Table, n) \in 0 .. len
        /\ Find(Table, n) # Nil => Binding(Table, n, Find(Table, n))
        /\ Find(Table, n) = Nil => \A k \in 1 .. len : ~Binding(Table, n, k)
    BY <2>2, <2>3, FoundByName DEF Sound
  <2>6. \A i, j \in 1 .. len : Binding(Table, n, i) /\ Binding(Table, n, j) => i = j
    BY <2>2, <2>3 DEF Sound, Single
  <2>7. Find(Table, n) # Nil => Find(Table, n) \in 1 .. len
    BY <2>5 DEF Binding, Table
  <2> QED
    BY <2>4, <2>5, <2>6, <2>7
<1> QED
  BY <1>1, TableInvariance, PTL

(* A name is bound to the best of the definitions offered for it, and to   *)
(* the first of the best, in whatever order the files and objects come     *)
(* (set_elf_sym).                                                          *)
THEOREM TheBestIsBound == TableSpec => []BestDefinition
<1>1. TableInv => BestDefinition
  <2>1. SUFFICES ASSUME TableInv, phase = "idle", NEW n \in Names, NEW k \in DOMAIN offers[n]
                 PROVE  LET e == syms[Find(Table, n)]
                        IN  /\ Rank(e) >= Rank(offers[n][k])
                            /\ Rank(offers[n][k]) = Rank(e) /\ Rank(e) > 0 =>
                                   \E j \in 1 .. k : offers[n][j].id = e.id
    BY DEF BestDefinition
  <2>2. Sound(Table) /\ Served(Table, offers)
    BY <2>1, Cores DEF TableInv, CoreSound, BestKept
  <2>3. offers[n] # <<>>
    BY <2>1
  <2>4. PICK i \in 1 .. Table.len : Binding(Table, n, i)
    BY <2>2, <2>3 DEF Served
  <2>5. Find(Table, n) # Nil /\ Binding(Table, n, Find(Table, n))
    BY <2>2, <2>4, FoundByName DEF Sound
  <2>6. PICK p : p = Find(Table, n)
    OBVIOUS
  <2>7. p \in 1 .. Table.len /\ Best(Table.syms[p], offers[n])
    BY <2>2, <2>5, <2>6 DEF Served, Binding
  <2>8. Table.syms = syms
    BY DEF Table
  <2> QED
    BY <2>6, <2>7, <2>8 DEF Best
<1> QED
  BY <1>1, TableInvariance, PTL

-----------------------------------------------------------------------------
(* The linker.  For any inputs: nothing is extracted for a name that a     *)
(* loaded member provides, or an earlier archive may, and when the rescans *)
(* end no archive has anything left for a name that is still missing.      *)

Archives == DOMAIN prog.index

Extractions == {<<n, m, a>> : n \in Names, m \in DOMAIN prog.object, a \in Archives}

LinkTypeOK ==
    /\ prog \in Programs
    /\ stage \in {"line", "pragma", "rescan", "resolve", "done"}
    /\ pos \in Nat \ {0} /\ at \in Nat \ {0} /\ bound \in Nat
    /\ archives \in Seq(Archives)
    /\ searching \in Range(archives) \cup {None}
    /\ IsFiniteSet(loaded)
    /\ before \in Nat \cup {None}
    /\ errors \in BOOLEAN
    /\ extractions \in Seq(Extractions)

(* Every extraction is from an archive that has been opened, and each is   *)
(* opened once. *)
Opened ==
    /\ IsInjective(archives)
    /\ \A k \in DOMAIN extractions : extractions[k][3] \in Range(archives)

(* What was extracted is loaded. *)
Drawn == \A k \in DOMAIN extractions : extractions[k][2] \in loaded

(* A name that a loaded member defines or imports is not missing any more. *)
Provided == \A m \in loaded, n \in Names : Holds(m, n) => Bound(n) \/ Imported(n)

(* Nothing in the archive is left for a missing name. *)
Clean(archive) == \A n \in Names : Missing(n) => Providers(archive, n) \subseteq loaded

(* No member has been loaded since the rescan began. *)
Quiet == before = Cardinality(loaded) /\ ~errors

(* What a quiet rescan has passed is clean, but for the archive it is      *)
(* searching. *)
QuietRescan ==
    /\ added = Len(pragmas)
    /\ searching # None => /\ at = 1 /\ bound = 0 /\ stage = "rescan"
                     /\ pos - 1 \in DOMAIN archives /\ archives[pos - 1] = searching
    /\ \A i \in DOMAIN archives :
          (stage = "rescan" => i < pos) => archives[i] = searching \/ Clean(archives[i])

Rescanning ==
    /\ before # None => before <= Cardinality(loaded)
    /\ stage = "line" => before = None
    /\ stage \in {"resolve", "done"} => searching = None
    /\ Quiet /\ stage \in {"pragma", "rescan"} => QuietRescan

LinkInv == LinkTypeOK /\ Opened /\ Drawn /\ Provided /\ OneProvider /\ Rescanning /\ Complete

-----------------------------------------------------------------------------
LEMMA MinIsIn ==
    ASSUME NEW S \in SUBSET Nat, S # {}
    PROVE  Min(S) \in S
<1>1. PICK x \in S : \A y \in S : ~ (<<y, x>> \in OpToRel(<, Nat))
  BY NatLessThanWellFounded, WFMin
<1>2. ASSUME NEW y \in S
      PROVE  x <= y
  <2>1. ASSUME y < x
        PROVE  FALSE
    <3>1. <<y, x>> \in Nat \X Nat /\ <<y, x>>[1] < <<y, x>>[2]
      BY <2>1
    <3>2. <<y, x>> \in OpToRel(<, Nat)
      BY <3>1, Zenon DEF OpToRel
    <3>3. QED
      BY <1>1, <3>2
  <2>2. QED
    BY <2>1
<1>3. QED
  BY <1>2 DEF Min

(* The order of the archives that were there does not change. *)
LEMMA Appended ==
    ASSUME NEW S, NEW s \in Seq(S), NEW x \in S
    PROVE  /\ Append(s, x) \in Seq(S)
           /\ DOMAIN s = 1..Len(s) /\ DOMAIN Append(s, x) = 1..(Len(s) + 1) /\ Len(s) \in Nat
           /\ \A i \in DOMAIN s : Append(s, x)[i] = s[i]
           /\ Append(s, x)[Len(s) + 1] = x
           /\ Range(Append(s, x)) = Range(s) \cup {x}
           /\ IsInjective(s) /\ x \notin Range(s) => IsInjective(Append(s, x))
<1> DEFINE a == Append(s, x)
<1>1. a \in Seq(S) /\ Len(a) = Len(s) + 1 /\ a[Len(s) + 1] = x
  OBVIOUS
<1>2. \A i \in 1..Len(s) : a[i] = s[i]
  OBVIOUS
<1>3. DOMAIN a = 1..(Len(s) + 1) /\ DOMAIN s = 1..Len(s) /\ Len(s) \in Nat
  OBVIOUS
<1>4. Range(a) = Range(s) \cup {x}
  <2>1. \A y \in Range(a) : y \in Range(s) \cup {x}
    BY <1>1, <1>2, <1>3 DEF Range
  <2>2. \A y \in Range(s) : y \in Range(a)
    BY <1>2, <1>3 DEF Range
  <2>3. x \in Range(a)
    BY <1>1, <1>3 DEF Range
  <2>4. QED
    BY <2>1, <2>2, <2>3
<1>5. IsInjective(s) /\ x \notin Range(s) => IsInjective(a)
  BY <1>1, <1>2, <1>3 DEF IsInjective, Range
<1>6. QED
  BY <1>1, <1>2, <1>3, <1>4, <1>5

LEMMA LoadKeepsErrors ==
    ASSUME NEW name, LoadObject(name)
    PROVE  errors' \in BOOLEAN /\ (errors => errors')
BY DEF LoadObject

(* What an object holds is bound or imported once it is loaded, and a name *)
(* that is bound stays so. *)
LEMMA LoadProvides ==
    ASSUME NEW name, LoadObject(name), NEW n \in Names
    PROVE  /\ Bound(n) => Bound(n)'
           /\ Imported(n) => Imported(n)'
           /\ prog \in Programs /\ name \in DOMAIN prog.object /\ Holds(name, n) =>
                  Bound(n)' \/ Imported(n)'
<1> DEFINE o == prog.object[name]
<1>1. dynsym' = dynsym \cup o.imports
  BY DEF LoadObject
<1>2. PICK new : new = Offer(o, n)
  OBVIOUS
<1>3. symtab'[n] = CASE new = None -> symtab[n]
                     [] symtab[n] = None -> new
                     [] OTHER -> Merge(symtab[n], new)
  BY <1>2 DEF LoadObject
<1>4. prog \in Programs /\ name \in DOMAIN prog.object =>
          o.defs \subseteq [name : Names, bind : Binds \ {"local"}]
  BY ProgramsAssumption
<1> HIDE DEF o
<1>5. Bound(n) => Bound(n)'
  BY <1>3 DEF Bound, Merge, Takes
<1>6. ASSUME prog \in Programs, name \in DOMAIN prog.object,
             NEW d \in o.defs, d.name = n
      PROVE  Bound(n)'
  <2>1. PICK c : c = CHOOSE x \in o.defs : x.name = n
    OBVIOUS
  <2>2. c \in o.defs
    BY <1>6, <2>1
  <2>3. c.bind \in Binds
    BY <1>4, <1>6, <2>2
  <2>4. new = [bind |-> c.bind, at |-> "data"]
    BY <1>2, <1>6, <2>1 DEF Offer, o
  <2>5. new # None /\ new.at = "data"
    BY <2>3, <2>4, ProgramsAssumption DEF Sections
  <2>6. QED
    BY <1>3, <2>5 DEF Bound, Merge, Takes
<1>7. QED
  BY <1>1, <1>5, <1>6 DEF Imported, Holds, o

(* Members that were there have provided what they have to. *)
LEMMA ProvidedStays ==
    ASSUME Provided, UNCHANGED <<prog, loaded>>, dynsym \subseteq dynsym',
           \A n \in Names : Bound(n) => Bound(n)'
    PROVE  Provided'
BY DEF Provided, Holds, Imported

LEMMA DrawnStays ==
    ASSUME Drawn, UNCHANGED <<prog, loaded, extractions>>
    PROVE  Drawn'
BY DEF Drawn

(* Archives that keep their order keep the history right. *)
LEMMA HistoryStays ==
    ASSUME Opened, OneProvider, UNCHANGED <<prog, archives, loaded, extractions>>
    PROVE  Opened' /\ OneProvider'
<1>1. \A a, n : Providers(a, n)' = Providers(a, n)
  BY DEF Providers, Index
<1>2. \A m, n : Holds(m, n)' <=> Holds(m, n)
  BY DEF Holds
<1>3. Opened'
  BY DEF Opened
<1>4. QED
  BY <1>1, <1>3, <1>2 DEF OneProvider

(* An archive is appended to the list when it is first opened. *)
LEMMA OpenArchive ==
    ASSUME LinkTypeOK, Opened, OneProvider, NEW archive \in Archives, Open(archive),
           UNCHANGED <<prog, loaded, extractions>>
    PROVE  /\ archives' \in Seq(Archives) /\ archive \in Range(archives')
           /\ Opened' /\ OneProvider'
<1>1. /\ archives \in Seq(Archives) /\ extractions \in Seq(Extractions)
      /\ \A a \in Archives, n \in Names : Providers(a, n)' = Providers(a, n)
  BY DEF LinkTypeOK, Providers, Index
<1>2. CASE archive \in Range(archives)
  <2>1. UNCHANGED archives
    BY <1>2 DEF Open
  <2>2. QED
    BY <1>1, <2>1, HistoryStays, <1>2 DEF Range
<1>3. CASE archive \notin Range(archives)
  <2>1. archives' = Append(archives, archive)
    BY <1>3 DEF Open
  <2>2. /\ archives' \in Seq(Archives) /\ Range(archives') = Range(archives) \cup {archive}
        /\ DOMAIN archives = 1..Len(archives) /\ DOMAIN archives' = 1..(Len(archives) + 1)
        /\ Len(archives) \in Nat
        /\ \A i \in DOMAIN archives : archives'[i] = archives[i]
        /\ archives'[Len(archives) + 1] = archive
        /\ IsInjective(archives')
    BY <1>1, <1>3, <2>1, Appended DEF Opened
  <2>3. Opened'
    BY <2>2 DEF Opened
  <2>4. ASSUME NEW k \in DOMAIN extractions, NEW i \in DOMAIN archives',
               NEW j \in DOMAIN archives', archives'[j] = extractions[k][3], i < j
        PROVE  \A m \in Providers(archives[i], extractions[k][1])' :
                  m \in loaded' /\ ~Holds(m, extractions[k][1])'
    <3>1. j # Len(archives) + 1
      BY <1>3, <2>2, <2>4 DEF Opened
    <3>2. i \in DOMAIN archives /\ j \in DOMAIN archives
      BY <2>2, <2>4, <3>1
    <3>3. \A m \in Providers(archives[i], extractions[k][1]) :
              m \in loaded /\ ~Holds(m, extractions[k][1])
      BY <2>2, <2>4, <3>2 DEF OneProvider
    <3>4. Providers(archives[i], extractions[k][1])' = Providers(archives[i], extractions[k][1])
      BY <2>2, <3>2 DEF Providers, Index
    <3>5. QED
      BY <3>3, <3>4 DEF Holds
  <2>5. OneProvider'
    <3>1. \A k \in DOMAIN extractions : \A l \in 1 .. k - 1 :
              ~Holds(extractions[l][2], extractions[k][1])'
      BY DEF OneProvider, Holds
    <3>2. QED
      BY <2>4, <3>1 DEF OneProvider
  <2>6. QED
    BY <2>2, <2>3, <2>5
<1>4. QED
  BY <1>2, <1>3

LEMMA InputAdded ==
    ASSUME LinkTypeOK, Opened, Drawn, Provided, OneProvider, NEW input, AddInput(input),
           UNCHANGED <<prog, loaded, extractions>>
    PROVE  /\ archives' \in Seq(Archives) /\ searching' \in Range(archives') \cup {None}
           /\ at' \in Nat \ {0} /\ bound' \in Nat
           /\ errors' \in BOOLEAN /\ (errors => errors')
           /\ Opened' /\ OneProvider' /\ Provided' /\ Drawn'
<1>1. Drawn'
  BY DrawnStays
<1>2. CASE IsArchive(input)
  <2>1. input \in Archives /\ Open(input) /\ UNCHANGED table
    BY <1>2 DEF AddInput, IsArchive, Archives
  <2>2. archives' \in Seq(Archives) /\ input \in Range(archives') /\ Opened' /\ OneProvider'
    BY <2>1, OpenArchive
  <2>3. Provided'
    BY <2>1, ProvidedStays DEF table, Bound
  <2>4. QED
    BY <1>1, <2>1, <2>2, <2>3 DEF Open, table, LinkTypeOK
<1>3. CASE ~IsArchive(input)
  <2>1. LoadObject(input) /\ UNCHANGED <<archives, searching, at, bound>>
    BY <1>3 DEF AddInput
  <2>2. errors' \in BOOLEAN /\ (errors => errors')
    BY <2>1, LoadKeepsErrors
  <2>3. Opened' /\ OneProvider'
    BY <2>1, HistoryStays
  <2>4. dynsym \subseteq dynsym' /\ \A n \in Names : Bound(n) => Bound(n)'
    BY <2>1, LoadProvides DEF LoadObject
  <2>5. Provided'
    BY <2>4, ProvidedStays
  <2>6. QED
    BY <1>1, <2>1, <2>2, <2>3, <2>5 DEF LinkTypeOK
<1>4. QED
  BY <1>2, <1>3

(* A search that extracts nothing leaves its archive clean: what another   *)
(* archive should provide would have been found missing there. *)
LEMMA SearchedIsClean ==
    ASSUME LinkInv, Quiet, QuietRescan, stage = "rescan", searching # None, Hits = {}
    PROVE  Clean(searching)
<1>1. /\ searching \in Archives /\ prog \in Programs /\ archives \in Seq(Archives)
      /\ pos \in Nat
  <2>1. archives \in Seq(Archives) /\ searching \in Range(archives)
    BY DEF LinkInv, LinkTypeOK
  <2>2. QED
    BY <2>1 DEF LinkInv, LinkTypeOK, Range
<1>2. /\ Index(searching) \in Seq([name : Names, member : DOMAIN prog.object])
  BY <1>1, ProgramsAssumption DEF Index, Archives
<1>3. at = 1 /\ pos - 1 \in DOMAIN archives /\ archives[pos - 1] = searching
  BY DEF QuietRescan
<1>4. ASSUME NEW n \in Names, Missing(n), NEW m \in Providers(searching, n), m \notin loaded
      PROVE  FALSE
  <2>1. PICK i \in DOMAIN Index(searching) : Index(searching)[i].name = n /\ Index(searching)[i].member = m
    BY <1>4 DEF Providers, Range
  <2>2. i \in at..Len(Index(searching))
    BY <1>2, <1>3
  <2>3. EarlierProvider(searching, n)
    BY <1>4, <2>1, <2>2 DEF Hits, Extractable
  <2>4. PICK p \in DOMAIN archives :
            /\ \A j \in 1..p : archives[j] # searching
            /\ \E other \in Providers(archives[p], n) : other \notin loaded
    BY <2>3 DEF EarlierProvider
  <2>5. p \in Nat /\ p >= 1 /\ pos - 1 >= 1 /\ ~(pos - 1 <= p)
    BY <1>1, <1>3, <2>4
  <2>6. archives[p] # searching /\ p < pos
    BY <1>1, <2>4, <2>5
  <2>7. Clean(archives[p])
    BY <2>6 DEF QuietRescan
  <2>8. QED
    BY <1>4, <2>4, <2>7 DEF Clean
<1>5. QED
  BY <1>4 DEF Clean

-----------------------------------------------------------------------------
LEMMA InitLinkInv == LinkInit => LinkInv
<1> SUFFICES ASSUME LinkInit
             PROVE  LinkInv
  OBVIOUS
<1> USE DEF LinkInit
<1>1. LinkTypeOK
  <2>1. IsFiniteSet(loaded)
    BY FS_EmptySet
  <2>2. archives \in Seq(Archives) /\ extractions \in Seq(Extractions)
    OBVIOUS
  <2>3. searching \in Range(archives) \cup {None} /\ before \in Nat \cup {None}
    BY Zenon
  <2>4. pos \in Nat \ {0} /\ at \in Nat \ {0} /\ bound \in Nat
    OBVIOUS
  <2>5. /\ prog \in Programs /\ errors \in BOOLEAN
        /\ stage \in {"line", "pragma", "rescan", "resolve", "done"}
    OBVIOUS
  <2>6. QED
    BY <2>1, <2>2, <2>3, <2>4, <2>5 DEF LinkTypeOK
<1>2. Opened
  BY DEF Opened, IsInjective
<1>3. OneProvider
  BY DEF OneProvider
<1>4. Provided /\ Drawn
  BY DEF Provided, Drawn
<1>5. Rescanning
  BY DEF Rescanning
<1>6. Complete
  BY DEF Complete
<1>7. QED
  BY <1>1, <1>2, <1>3, <1>5, <1>6, <1>4 DEF LinkInv

LEMMA StepNextInput ==
    ASSUME LinkInv, NextInput
    PROVE  LinkInv'
<1>1. /\ stage = "line" /\ before = None /\ AddInput(prog.line[pos]) /\ pos' = pos + 1
      /\ UNCHANGED <<prog, stage, active, added, loaded, before, extractions>>
  BY DEF NextInput, LinkInv, Rescanning
<1>2. /\ archives' \in Seq(Archives) /\ searching' \in Range(archives') \cup {None}
      /\ at' \in Nat \ {0} /\ bound' \in Nat /\ errors' \in BOOLEAN
      /\ Opened' /\ OneProvider' /\ Provided' /\ Drawn'
  BY <1>1, InputAdded DEF LinkInv
<1>3. LinkTypeOK'
  BY <1>1, <1>2 DEF LinkInv, LinkTypeOK, Archives, Extractions
<1>4. Rescanning' /\ Complete'
  BY <1>1 DEF Rescanning, Complete
<1>5. QED
  BY <1>2, <1>3, <1>4 DEF LinkInv

LEMMA StepEndLine ==
    ASSUME LinkInv, EndLine
    PROVE  LinkInv'
<1>1. /\ stage' \in {"done", "pragma"} /\ before = None /\ searching = None
      /\ UNCHANGED <<prog, pos, table, active, added, archives, loaded, before, searching, at,
                     bound, extractions>>
  BY DEF EndLine, LinkInv, Rescanning
<1>2. Cardinality(loaded) \in Nat
  BY FS_CardinalityType DEF LinkInv, LinkTypeOK
<1>3. LinkTypeOK'
  BY <1>1 DEF LinkInv, LinkTypeOK, Archives, Extractions, table
<1>4. Opened' /\ OneProvider'
  BY <1>1, HistoryStays DEF LinkInv
<1>5. Rescanning' /\ Complete'
  BY <1>1, <1>2, ProgramsAssumption DEF Rescanning, Complete, Quiet
<1>6. Provided' /\ Drawn'
  BY <1>1, ProvidedStays, DrawnStays DEF LinkInv, table, Bound
<1>7. QED
  BY <1>3, <1>4, <1>5, <1>6 DEF LinkInv

(* A library asked for is not quiet. *)
LEMMA StepNextPragma ==
    ASSUME LinkInv, NextPragma
    PROVE  LinkInv'
<1>1. /\ stage = "pragma" /\ added # Len(pragmas) /\ AddInput(pragmas[added'])
      /\ UNCHANGED <<prog, stage, pos, active, loaded, before, extractions>>
  BY DEF NextPragma
<1>2. /\ archives' \in Seq(Archives) /\ searching' \in Range(archives') \cup {None}
      /\ at' \in Nat \ {0} /\ bound' \in Nat /\ errors' \in BOOLEAN /\ (errors => errors')
      /\ Opened' /\ OneProvider' /\ Provided' /\ Drawn'
  BY <1>1, InputAdded DEF LinkInv
<1>3. LinkTypeOK'
  BY <1>1, <1>2 DEF LinkInv, LinkTypeOK, Archives, Extractions
<1>4. ~Quiet'
  <2>1. ~Quiet
    BY <1>1 DEF LinkInv, Rescanning, QuietRescan
  <2>2. QED
    BY <1>1, <1>2, <2>1 DEF Quiet
<1>5. Rescanning' /\ Complete'
  BY <1>1, <1>4 DEF LinkInv, Rescanning, Complete
<1>6. QED
  BY <1>2, <1>3, <1>5 DEF LinkInv

(* The end of the rescans: a quiet pass has left everything clean. *)
LEMMA StepEndPass ==
    ASSUME LinkInv, EndPass
    PROVE  LinkInv'
<1>1. /\ stage = "pragma" /\ searching = None /\ added = Len(pragmas) /\ pos' = 1
      /\ UNCHANGED <<prog, dynsym, externals, pragmas, errors, added, archives, loaded, searching,
                     at, bound, extractions>>
  BY DEF EndPass
<1>2. \/ stage' = "rescan" /\ before' = Cardinality(loaded)
      \/ stage' = "resolve" /\ UNCHANGED <<before, symtab>> /\ (errors \/ ~Progress)
  BY DEF EndPass, Activate
<1>3. Cardinality(loaded) \in Nat
  BY FS_CardinalityType DEF LinkInv, LinkTypeOK
<1>4. LinkTypeOK'
  BY <1>1, <1>2, <1>3 DEF LinkInv, LinkTypeOK, Archives, Extractions
<1>5. Opened' /\ OneProvider'
  BY <1>1, HistoryStays DEF LinkInv
<1>6. \A n \in Names : Bound(n) => Bound(n)'
  BY DEF EndPass, Activate, Bound
<1>7. Provided' /\ Drawn'
  BY <1>1, <1>6, ProvidedStays, DrawnStays DEF LinkInv
<1>8. CASE stage' = "rescan" /\ before' = Cardinality(loaded)
  <2>1. archives \in Seq(Archives) /\ \A i \in DOMAIN archives : ~(i < 1)
    BY DEF LinkInv, LinkTypeOK
  <2>2. QuietRescan'
    BY <1>1, <1>8, <2>1 DEF QuietRescan
  <2>3. Rescanning' /\ Complete'
    BY <1>1, <1>3, <1>8, <2>2 DEF Rescanning, Complete
  <2>4. QED
    BY <1>4, <1>5, <1>7, <2>3 DEF LinkInv
<1>9. CASE stage' = "resolve" /\ UNCHANGED <<before, symtab>> /\ (errors \/ ~Progress)
  <2>1. Rescanning'
    BY <1>1, <1>9 DEF LinkInv, Rescanning
  <2>2. ASSUME ~errors, NEW i \in DOMAIN archives
        PROVE  Clean(archives[i])
    <3>1. QuietRescan
      BY <1>1, <1>9, <2>2 DEF LinkInv, Rescanning, Quiet, Progress
    <3>2. archives[i] \in Archives /\ prog \in Programs
      BY <2>2 DEF LinkInv, LinkTypeOK
    <3>3. archives[i] # searching
      BY <1>1, <3>2, ProgramsAssumption DEF Archives
    <3>4. QED
      BY <1>1, <2>2, <3>1, <3>3 DEF QuietRescan
  <2>3. Complete'
    BY <1>1, <1>9, <2>2 DEF Complete, Clean, Missing, Undefined, Searched, Imported,
       Providers, Index
  <2>4. QED
    BY <1>4, <1>5, <1>7, <2>1, <2>3 DEF LinkInv
<1>10. QED
  BY <1>2, <1>8, <1>9

LEMMA StepRescan ==
    ASSUME LinkInv, Rescan
    PROVE  LinkInv'
<1> DEFINE archive == archives[pos]
<1>1. /\ stage = "rescan" /\ searching = None /\ pos <= Len(archives) /\ pos' = pos + 1
      /\ UNCHANGED <<prog, stage, table, active, added, loaded, before, extractions>>
      /\ IF NeedsRescan(archive) THEN Open(archive)
         ELSE UNCHANGED <<archives, searching, at, bound>>
  BY DEF Rescan
<1>2. /\ archives \in Seq(Archives) /\ pos \in DOMAIN archives /\ prog \in Programs
      /\ DOMAIN archives = 1..Len(archives) /\ Len(archives) \in Nat
      /\ \A i \in DOMAIN archives : archives[i] \in Archives /\ archives[i] # None
  <2>1. archives \in Seq(Archives) /\ pos \in Nat \ {0} /\ prog \in Programs
    BY DEF LinkInv, LinkTypeOK
  <2>2. \A a \in Archives : a # None
    BY <2>1, ProgramsAssumption DEF Archives
  <2>3. pos \in DOMAIN archives /\ DOMAIN archives = 1..Len(archives) /\ Len(archives) \in Nat
    BY <1>1, <2>1
  <2>4. QED
    BY <2>1, <2>2, <2>3
<1>3. /\ UNCHANGED archives
      /\ \/ UNCHANGED <<searching, at, bound>> /\ ~NeedsRescan(archive)
         \/ searching' = archive /\ at' = 1 /\ bound' = 0
  BY <1>1, <1>2 DEF Open, Range
<1>4. LinkTypeOK'
  <2>1. searching' \in Range(archives) \cup {None} /\ at' \in Nat \ {0} /\ bound' \in Nat
    BY <1>2, <1>3 DEF LinkInv, LinkTypeOK, Range
  <2>2. pos' \in Nat \ {0}
    BY <1>1 DEF LinkInv, LinkTypeOK
  <2>3. QED
    BY <1>1, <1>3, <2>1, <2>2 DEF LinkInv, LinkTypeOK, Archives, Extractions, table
<1>5. Opened' /\ OneProvider'
  BY <1>1, <1>3, HistoryStays DEF LinkInv
<1>6. Quiet' => QuietRescan'
  <2>1. SUFFICES ASSUME Quiet'
                 PROVE  QuietRescan'
    OBVIOUS
  <2>2. QuietRescan
    BY <1>1, <2>1 DEF LinkInv, Rescanning, Quiet, table
  <2>3. pos \in Nat /\ pos' - 1 = pos /\ \A i \in DOMAIN archives : i < pos' => i < pos \/ i = pos
    BY <1>1, <1>2
  <2>4. \A i \in DOMAIN archives : i < pos => Clean(archives[i])
    BY <1>1, <1>2, <2>2 DEF QuietRescan
  <2>5. ~NeedsRescan(archive) => Clean(archive)
    BY DEF NeedsRescan, Clean
  <2>6. \A i \in DOMAIN archives : i < pos' => archives[i] = searching' \/ Clean(archives[i])
    BY <1>3, <2>3, <2>4, <2>5
  <2>7. \A i \in DOMAIN archives : Clean(archives[i]) => Clean(archives[i])'
    BY <1>1, <1>3 DEF Clean, Missing, Undefined, Searched, Imported, Providers, Index, table
  <2>8. searching' # None => /\ at' = 1 /\ bound' = 0
                       /\ pos' - 1 \in DOMAIN archives /\ archives[pos' - 1] = searching'
    BY <1>1, <1>2, <1>3, <2>3
  <2>9. added' = Len(pragmas')
    BY <1>1, <2>2 DEF QuietRescan, table
  <2>10. QED
    BY <1>1, <1>3, <2>6, <2>7, <2>8, <2>9 DEF QuietRescan
<1>7. Rescanning' /\ Complete'
  BY <1>1, <1>6 DEF LinkInv, Rescanning, Complete
<1>8. Provided' /\ Drawn'
  BY <1>1, ProvidedStays, DrawnStays DEF LinkInv, table, Bound
<1>9. QED
  BY <1>4, <1>5, <1>7, <1>8 DEF LinkInv

LEMMA StepEndRescan ==
    ASSUME LinkInv, EndRescan
    PROVE  LinkInv'
<1>1. /\ stage = "rescan" /\ searching = None /\ (pos > Len(archives) \/ errors) /\ stage' = "pragma"
      /\ UNCHANGED <<prog, pos, table, active, added, archives, loaded, before, searching, at,
                     bound, extractions>>
  BY DEF EndRescan
<1>2. LinkTypeOK'
  BY <1>1 DEF LinkInv, LinkTypeOK, Archives, Extractions, table
<1>3. Opened' /\ OneProvider'
  BY <1>1, HistoryStays DEF LinkInv
<1>4. Quiet' => QuietRescan'
  <2>1. SUFFICES ASSUME Quiet'
                 PROVE  QuietRescan'
    OBVIOUS
  <2>2. QuietRescan /\ ~errors
    BY <1>1, <2>1 DEF LinkInv, Rescanning, Quiet, table
  <2>3. \A i \in DOMAIN archives : i < pos
    BY <1>1, <2>2 DEF LinkInv, LinkTypeOK
  <2>4. \A i \in DOMAIN archives : archives[i] = searching \/ Clean(archives[i])
    BY <2>2, <2>3 DEF QuietRescan
  <2>5. \A i \in DOMAIN archives : Clean(archives[i]) => Clean(archives[i])'
    BY <1>1 DEF Clean, Missing, Undefined, Searched, Imported, Providers, Index, table
  <2>6. added' = Len(pragmas')
    BY <1>1, <2>2 DEF QuietRescan, table
  <2>7. QED
    BY <1>1, <2>4, <2>5, <2>6 DEF QuietRescan
<1>5. Rescanning' /\ Complete'
  BY <1>1, <1>4 DEF LinkInv, Rescanning, Complete
<1>6. Provided' /\ Drawn'
  BY <1>1, ProvidedStays, DrawnStays DEF LinkInv, table, Bound
<1>7. QED
  BY <1>2, <1>3, <1>5, <1>6 DEF LinkInv

-----------------------------------------------------------------------------
(* A member is extracted: its archive is the first that still provides the *)
(* name, and no pass is quiet any more. *)
LEMMA StepExtract ==
    ASSUME LinkInv, Extract
    PROVE  LinkInv'
<1> DEFINE i == Min(Hits)
           e == Index(searching)[i]
<1>1. /\ searching # None /\ Hits # {} /\ loaded' = loaded \cup {e.member}
      /\ extractions' = Append(extractions, <<e.name, e.member, searching>>)
      /\ LoadObject(e.member)
      /\ UNCHANGED <<prog, stage, pos, active, added, archives, before>>
  BY DEF Extract
<1>2. \/ searching' = None /\ at' = 1 /\ bound' = 0
      \/ UNCHANGED searching /\ at' = i + 1 /\ bound' = bound + 1
  BY DEF Extract
<1>3. /\ archives \in Seq(Archives) /\ searching \in Range(archives) /\ searching \in Archives
      /\ prog \in Programs /\ at \in Nat \ {0} /\ bound \in Nat
      /\ extractions \in Seq(Extractions) /\ IsFiniteSet(loaded)
      /\ before \in Nat \cup {None} /\ stage \in {"line", "pragma", "rescan", "resolve", "done"}
  BY <1>1 DEF LinkInv, LinkTypeOK, Range
<1>4. Index(searching) \in Seq([name : Names, member : DOMAIN prog.object])
  BY <1>3, ProgramsAssumption DEF Index, Archives
<1>5. Hits \in SUBSET Nat
  BY <1>3, <1>4 DEF Hits
<1>6. i \in Hits
  BY <1>1, <1>5, MinIsIn
<1>7. /\ i \in Nat /\ i \in at..Len(Index(searching)) /\ Extractable(searching, i)
  BY <1>5, <1>6 DEF Hits
<1> HIDE DEF i
<1>8. e.name \in Names /\ e.member \in DOMAIN prog.object
  <2> DEFINE Held == [name : Names, member : DOMAIN prog.object]
  <2>1. Index(searching) \in Seq(Held)
    BY <1>4
  <2> HIDE DEF Held
  <2>2. Index(searching)[i] \in Held
    BY <1>3, <1>7, <2>1
  <2>3. QED
    BY <2>2 DEF Held
<1>9. e.member \notin loaded /\ ~EarlierProvider(searching, e.name)
  BY <1>7 DEF Extractable
<1> DEFINE x == <<e.name, e.member, searching>>
<1>10. x \in Extractions /\ x[1] = e.name /\ x[3] = searching
  <2>1. e.name \in Names /\ e.member \in DOMAIN prog.object /\ searching \in Archives
    BY <1>3, <1>8
  <2> HIDE DEF e
  <2>2. QED
    BY <2>1 DEF Extractions
<1>11. /\ extractions' = Append(extractions, x)
       /\ extractions' \in Seq(Extractions)
       /\ DOMAIN extractions = 1..Len(extractions) /\ Len(extractions) \in Nat
       /\ DOMAIN extractions' = 1..(Len(extractions) + 1)
       /\ \A k \in DOMAIN extractions : extractions'[k] = extractions[k]
       /\ extractions'[Len(extractions) + 1] = x
  BY <1>1, <1>3, <1>10, Appended
<1> HIDE DEF e, x
<1>12. /\ IsFiniteSet(loaded') /\ Cardinality(loaded) \in Nat
       /\ Cardinality(loaded') = Cardinality(loaded) + 1
  BY <1>1, <1>3, <1>9, FS_AddElement, FS_CardinalityType
<1>13. LinkTypeOK'
  <2>1. at' \in Nat \ {0} /\ bound' \in Nat
    BY <1>2, <1>3, <1>7
  <2>2. searching' \in Range(archives) \cup {None}
    BY <1>2, <1>3
  <2>3. errors' \in BOOLEAN
    BY <1>1, LoadKeepsErrors
  <2>4. QED
    BY <1>1, <1>11, <1>12, <2>1, <2>2, <2>3 DEF LinkInv, LinkTypeOK, Archives, Extractions
<1>14. Missing(e.name)
  BY <1>7 DEF Extractable, e
<1>15. Opened'
  BY <1>1, <1>3, <1>10, <1>11 DEF LinkInv, Opened
<1>16. Drawn'
  <2>1. x[2] = e.member
    BY DEF x
  <2>2. QED
    BY <1>1, <1>11, <2>1 DEF LinkInv, Drawn
<1>17. \A n \in Names : (Bound(n) => Bound(n)') /\ (Imported(n) => Imported(n)')
  BY <1>1, LoadProvides
<1>18. \A m, n : Holds(m, n)' <=> Holds(m, n)
  BY <1>1 DEF Holds
<1>19. Provided'
  <2>1. \A n \in Names : Holds(e.member, n) => Bound(n)' \/ Imported(n)'
    BY <1>1, <1>3, <1>8, LoadProvides
  <2>2. \A m \in loaded, n \in Names : Holds(m, n) => Bound(n)' \/ Imported(n)'
    BY <1>17 DEF LinkInv, Provided
  <2>3. QED
    BY <1>1, <1>18, <2>1, <2>2 DEF Provided
(* What is missing has not been provided by any member that is loaded. *)
<1>20. \A m \in loaded : ~Holds(m, e.name)
  BY <1>8, <1>14 DEF LinkInv, Provided, Missing, Undefined, Bound
<1>21. OneProvider'
  <2>1. ASSUME NEW p \in DOMAIN archives, NEW j \in DOMAIN archives,
               archives[j] = searching, p < j
        PROVE  \A m \in Providers(archives[p], e.name) : m \in loaded /\ ~Holds(m, e.name)
    <3>1. DOMAIN archives = 1..Len(archives) /\ Len(archives) \in Nat
      BY <1>3
    <3>2. \A q \in 1..p : q \in DOMAIN archives /\ q # j
      BY <2>1, <3>1
    <3>3. \A q \in 1..p : archives[q] # searching
      BY <2>1, <3>2 DEF LinkInv, Opened, IsInjective
    <3>4. Providers(archives[p], e.name) \subseteq loaded
      BY <1>9, <2>1, <3>3 DEF EarlierProvider
    <3>5. QED
      BY <1>20, <3>4
  <2>2. \A k \in DOMAIN extractions' : k \in DOMAIN extractions \/ k = Len(extractions) + 1
    BY <1>11
  <2>3. ASSUME NEW k \in DOMAIN extractions', NEW p \in DOMAIN archives, NEW j \in DOMAIN archives,
               archives[j] = extractions'[k][3], p < j
        PROVE  \A m \in Providers(archives[p], extractions'[k][1]) :
                  m \in loaded' /\ ~Holds(m, extractions'[k][1])
    <3>1. CASE k \in DOMAIN extractions
      BY <1>1, <1>11, <2>3, <3>1 DEF LinkInv, OneProvider
    <3>2. CASE k = Len(extractions) + 1
      BY <1>1, <1>10, <1>11, <2>1, <2>3, <3>2
    <3>3. QED
      BY <2>2, <3>1, <3>2
  <2>4. ASSUME NEW k \in DOMAIN extractions', NEW l \in 1 .. k - 1
        PROVE  ~Holds(extractions'[l][2], extractions'[k][1])
    <3>1. l \in DOMAIN extractions /\ extractions'[l] = extractions[l]
      BY <1>11
    <3>2. CASE k \in DOMAIN extractions
      BY <1>11, <3>1, <3>2 DEF LinkInv, OneProvider
    <3>3. CASE k = Len(extractions) + 1
      <4>1. extractions[l][2] \in loaded
        BY <3>1 DEF LinkInv, Drawn
      <4>2. QED
        BY <1>10, <1>11, <1>20, <3>1, <3>3, <4>1
    <3>4. QED
      BY <2>2, <3>2, <3>3
  <2>5. UNCHANGED archives /\ \A a, n : Providers(a, n)' = Providers(a, n)
    BY <1>1 DEF Providers, Index
  <2>6. QED
    BY <1>18, <2>3, <2>4, <2>5 DEF OneProvider
<1>22. Rescanning'
  <2>1. before # None => before <= Cardinality(loaded)
    BY DEF LinkInv, Rescanning
  <2>2. before # Cardinality(loaded') /\ (before # None => before <= Cardinality(loaded'))
    BY <1>3, <1>12, <2>1, ProgramsAssumption
  <2>3. stage \notin {"resolve", "done"}
    BY <1>1 DEF LinkInv, Rescanning
  <2>4. QED
    BY <1>1, <2>2, <2>3 DEF LinkInv, Rescanning, Quiet
<1>23. Complete'
  BY <1>1 DEF LinkInv, Rescanning, Complete
<1>24. QED
  BY <1>13, <1>15, <1>16, <1>19, <1>21, <1>22, <1>23 DEF LinkInv

LEMMA StepEndRound ==
    ASSUME LinkInv, EndRound
    PROVE  LinkInv'
<1>1. /\ searching # None /\ Hits = {} /\ at' = 1 /\ bound' = 0
      /\ searching' \in {searching, None} /\ (bound = 0 => searching' = None)
      /\ UNCHANGED <<prog, stage, pos, table, active, added, archives, loaded, before,
                     extractions>>
  BY DEF EndRound, Repeats
<1>2. LinkTypeOK'
  BY <1>1 DEF LinkInv, LinkTypeOK, Archives, Extractions, table
<1>3. Opened' /\ OneProvider'
  BY <1>1, HistoryStays DEF LinkInv
<1>4. stage \notin {"resolve", "done"}
  BY <1>1 DEF LinkInv, Rescanning
<1>5. Quiet' /\ stage \in {"pragma", "rescan"} => QuietRescan'
  <2>1. SUFFICES ASSUME Quiet', stage \in {"pragma", "rescan"}
                 PROVE  QuietRescan'
    OBVIOUS
  <2>2. QuietRescan /\ Quiet
    BY <1>1, <2>1 DEF LinkInv, Rescanning, Quiet, table
  <2>3. stage = "rescan" /\ bound = 0 /\ searching' = None
    BY <1>1, <2>2 DEF QuietRescan
  <2>4. Clean(searching)
    BY <1>1, <2>2, <2>3, SearchedIsClean
  <2>5. \A i \in DOMAIN archives : i < pos => Clean(archives[i])
    BY <2>2, <2>3, <2>4 DEF QuietRescan
  <2>6. \A i \in DOMAIN archives : Clean(archives[i]) => Clean(archives[i])'
    BY <1>1 DEF Clean, Missing, Undefined, Searched, Imported, Providers, Index, table
  <2>7. added' = Len(pragmas')
    BY <1>1, <2>2 DEF QuietRescan, table
  <2>8. QED
    BY <1>1, <2>3, <2>5, <2>6, <2>7 DEF QuietRescan
<1>6. Rescanning' /\ Complete'
  BY <1>1, <1>4, <1>5 DEF LinkInv, Rescanning, Complete
<1>7. Provided' /\ Drawn'
  BY <1>1, ProvidedStays, DrawnStays DEF LinkInv, table, Bound
<1>8. QED
  BY <1>2, <1>3, <1>6, <1>7 DEF LinkInv

(* Binding a name makes none missing. *)
LEMMA StepResolveAlias ==
    ASSUME LinkInv, ResolveAlias
    PROVE  LinkInv'
<1>1. /\ stage = "resolve"
      /\ UNCHANGED <<prog, stage, pos, dynsym, externals, active, pragmas, errors, added,
                     archives, loaded, before, searching, at, bound, extractions>>
  BY DEF ResolveAlias
<1>2. PICK x \in Aliases : symtab' = [n \in Names |->
           IF n = x.name THEN [bind |-> symtab[n].bind, at |-> "data"] ELSE symtab[n]]
  BY DEF ResolveAlias
<1>3. LinkTypeOK'
  BY <1>1 DEF LinkInv, LinkTypeOK, Archives, Extractions
<1>4. Opened' /\ OneProvider'
  BY <1>1, HistoryStays DEF LinkInv
<1>5. Rescanning'
  BY <1>1 DEF LinkInv, Rescanning
<1>6. ASSUME NEW n \in Names, Undefined(n)'
      PROVE  Undefined(n)
  BY <1>2, <1>6 DEF Undefined
<1>7. Complete'
  BY <1>1, <1>6 DEF LinkInv, Complete, Missing, Searched, Imported, Providers, Index
<1>8. \A n \in Names : Bound(n) => Bound(n)'
  BY <1>2 DEF Aliases, Undefined, Bound
<1>9. Provided' /\ Drawn'
  BY <1>1, <1>8, ProvidedStays, DrawnStays DEF LinkInv
<1>10. QED
  BY <1>3, <1>4, <1>5, <1>7, <1>9 DEF LinkInv

LEMMA StepCheckSymbols ==
    ASSUME LinkInv, CheckSymbols
    PROVE  LinkInv'
<1>1. /\ stage = "resolve" /\ stage' = "done" /\ errors' \in BOOLEAN
      /\ UNCHANGED <<prog, pos, symtab, dynsym, externals, pragmas, active, added, archives,
                     loaded, before, searching, at, bound, extractions>>
  BY DEF CheckSymbols
<1>2. LinkTypeOK'
  BY <1>1 DEF LinkInv, LinkTypeOK, Archives, Extractions
<1>3. Opened' /\ OneProvider'
  BY <1>1, HistoryStays DEF LinkInv
<1>4. Rescanning' /\ Complete'
  BY <1>1 DEF LinkInv, Rescanning, Complete
<1>5. Provided' /\ Drawn'
  BY <1>1, ProvidedStays, DrawnStays DEF LinkInv, table, Bound
<1>6. QED
  BY <1>2, <1>3, <1>4, <1>5 DEF LinkInv

-----------------------------------------------------------------------------
LEMMA NextLinkInv == LinkInv /\ [LinkNext]_linkVars => LinkInv'
<1> SUFFICES ASSUME LinkInv, [LinkNext]_linkVars
             PROVE  LinkInv'
  OBVIOUS
<1>1. CASE UNCHANGED linkVars
  <2>1. Provided' /\ Drawn'
    BY <1>1, ProvidedStays, DrawnStays DEF linkVars, LinkInv, Bound
  <2>2. LinkTypeOK' /\ Opened' /\ OneProvider'
    BY <1>1, HistoryStays DEF linkVars, LinkInv, LinkTypeOK, Archives, Extractions
  <2>3. Rescanning'
    BY <1>1 DEF linkVars, LinkInv, Rescanning, Quiet, QuietRescan, Clean, Missing, Undefined, Searched,
       Imported, Providers, Index
  <2>4. Complete'
    BY <1>1 DEF linkVars, LinkInv, Complete, Missing, Undefined, Searched, Imported, Providers, Index
  <2>5. QED
    BY <2>1, <2>2, <2>3, <2>4 DEF LinkInv
<1>2. QED
  BY <1>1, StepNextInput, StepEndLine, StepNextPragma, StepEndPass, StepRescan,
     StepEndRescan, StepExtract, StepEndRound, StepResolveAlias, StepCheckSymbols DEF LinkNext

LEMMA LinkInvariance == LinkSpec => []LinkInv
BY InitLinkInv, NextLinkInv, PTL DEF LinkSpec

(* The cursors, the list of archives and the history of the link keep      *)
(* their types. *)
THEOREM LinkTyped == LinkSpec => []LinkTypeOK
<1>1. LinkInv => LinkTypeOK
  BY DEF LinkInv
<1>2. QED
  BY <1>1, LinkInvariance, PTL

(* Nothing is extracted for a name that a member extracted before defines  *)
(* or imports, nor while an archive earlier on the line has a member left  *)
(* for the name (pe_earlier_archive_provider). *)
THEOREM FirstArchiveWins == LinkSpec => []OneProvider
<1>1. LinkInv => OneProvider
  BY DEF LinkInv
<1>2. QED
  BY <1>1, LinkInvariance, PTL

(* When the rescans end, no archive has a member left for a name that is   *)
(* still missing (pe_rescan_archives). *)
THEOREM NothingLeftBehind == LinkSpec => []Complete
<1>1. LinkInv => Complete
  BY DEF LinkInv
<1>2. QED
  BY <1>1, LinkInvariance, PTL

=============================================================================
