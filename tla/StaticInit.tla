----------------------------- MODULE StaticInit -----------------------------
(***************************************************************************)
(* Function-local statics of generated C++ programs: the guard the         *)
(* compiler emits around their construction (cprimegen_lifecycle.inc), the *)
(* guard functions and the destructor registry of the runtime              *)
(* (wincompat.c, native UCRT build).                                       *)
(*                                                                         *)
(* A section under cpc_static_lock that neither blocks nor calls out is    *)
(* one step.  Registration calls atexit with the lock held and is two.     *)
(***************************************************************************)
EXTENDS Naturals, Sequences, SequencesExt

CONSTANTS
    Threads,
    Main,           \* the thread that calls exit
    Nobody,
    Objects,        \* the local statics
    Nests,          \* <<g, h>>: the initializer of g reaches the declaration of h
    MaxCallbacks,   \* bound: callbacks the program registers with atexit
    MaxThrows       \* bound: initializers that throw

UserCallback == "atexit"

ASSUME StaticAssumption ==
    /\ Main \in Threads /\ Nobody \notin Threads
    /\ Objects # {} /\ UserCallback \notin Objects
    /\ Nests \subseteq Objects \X Objects
    /\ MaxCallbacks \in Nat /\ MaxThrows \in Nat

VARIABLES
    guard,          \* per object: 0 untouched, 1 under construction, 2 complete
    built,          \* per object: constructed and not destroyed
    lock,           \* holder of cpc_static_lock across an atexit call
    frames,         \* per thread: the objects it is constructing, innermost last
    at,             \* per thread: what it does next with object top
    top,            \* per thread: the object of the declaration it is at
    destructors,    \* cpc_static_destructors, newest first
    onexit,         \* exit callbacks, newest first: an object, or UserCallback
    exiting,        \* Main has called exit
    throws,         \* initializers that have thrown
    callbacks       \* callbacks the program has registered

vars == <<guard, built, lock, frames, at, top, destructors, onexit, exiting,
          throws, callbacks>>

Init ==
    /\ guard = [g \in Objects |-> 0]
    /\ built = [g \in Objects |-> FALSE]
    /\ lock = Nobody
    /\ frames = [t \in Threads |-> <<>>]
    /\ at = [t \in Threads |-> "body"]
    /\ top = [t \in Threads |-> CHOOSE g \in Objects : TRUE]
    /\ destructors = <<>> /\ onexit = <<>>
    /\ exiting = FALSE
    /\ throws = 0 /\ callbacks = 0

Goto(t, place) == at' = [at EXCEPT ![t] = place]
Move(t, from, to) == at[t] = from /\ Goto(t, to)

-----------------------------------------------------------------------------
(* Control reaches the declaration of g, in the body of a function or of   *)
(* the initializer the thread is running.                                  *)
Reach(t, g) ==
    /\ Move(t, "body", "acquire")
    /\ exiting => t = Main /\ guard[g] # 2     \* passing one changes nothing
    /\ frames[t] # <<>> => <<Last(frames[t]), g>> \in Nests
    /\ top' = [top EXCEPT ![t] = g]
    /\ UNCHANGED <<guard, built, lock, frames, destructors, onexit, exiting,
                   throws, callbacks>>

(* Faulty variant: a guard somebody works on is taken for complete. *)
PassStarted(t) ==
    /\ guard[top[t]] # 0
    /\ Move(t, "acquire", "body")
    /\ UNCHANGED <<guard, built, lock, frames, top, destructors, onexit, exiting,
                   throws, callbacks>>

(* __cpc_static_acquire: a complete guard needs no lock *)
Pass(t) ==
    /\ guard[top[t]] = 2
    /\ Move(t, "acquire", "body")
    /\ UNCHANGED <<guard, built, lock, frames, top, destructors, onexit, exiting,
                   throws, callbacks>>

(* Another thread is constructing: sleep until woken.  A sleeping thread   *)
(* may also wake for no reason, and then sleeps again.                     *)
Sleep(t) ==
    /\ lock = Nobody
    /\ guard[top[t]] = 1
    /\ Move(t, "acquire", "asleep")
    /\ UNCHANGED <<guard, built, lock, frames, top, destructors, onexit, exiting,
                   throws, callbacks>>

(* The guard is free: this thread constructs. *)
Begin(t) ==
    /\ lock = Nobody
    /\ guard[top[t]] = 0
    /\ Move(t, "acquire", "body")
    /\ guard' = [guard EXCEPT ![top[t]] = 1]
    /\ frames' = [frames EXCEPT ![t] = Append(@, top[t])]
    /\ UNCHANGED <<built, lock, top, destructors, onexit, exiting, throws, callbacks>>

-----------------------------------------------------------------------------
(* The initializer returns: the object is constructed. *)
Construct(t) ==
    /\ frames[t] # <<>>
    /\ Move(t, "body", "register")
    /\ top' = [top EXCEPT ![t] = Last(frames[t])]
    /\ built' = [built EXCEPT ![Last(frames[t])] = TRUE]
    /\ UNCHANGED <<guard, lock, frames, destructors, onexit, exiting, throws, callbacks>>

(* __cpc_register_static_destructor: push the object, then, still under    *)
(* the lock, register the callback that destroys one object.               *)
RegisterPush(t) ==
    /\ lock = Nobody
    /\ Move(t, "register", "atexit")
    /\ lock' = t
    /\ destructors' = <<top[t]>> \o destructors
    /\ UNCHANGED <<guard, built, frames, top, onexit, exiting, throws, callbacks>>

(* Faulty variant: one callback for all objects, as the registry that one  *)
(* callback drains needs, but with the callback that destroys one.         *)
RegisterCallbackOnce(t) ==
    /\ Move(t, "atexit", "release")
    /\ lock' = Nobody
    /\ onexit' = IF Len(destructors) = 1 THEN <<top[t]>> \o onexit ELSE onexit
    /\ UNCHANGED <<guard, built, frames, top, destructors, exiting, throws, callbacks>>

RegisterCallback(t) ==
    /\ Move(t, "atexit", "release")
    /\ lock' = Nobody
    /\ onexit' = <<top[t]>> \o onexit
    /\ UNCHANGED <<guard, built, frames, top, destructors, exiting, throws, callbacks>>

(* Faulty variant: cpc_static_finish wakes nobody. *)
NoneWoken(t) == [at EXCEPT ![t] = "body"]

(* The threads asleep on any guard run again: one condition serves all. *)
Woken(t) ==
    [u \in Threads |-> IF u = t THEN "body"
                       ELSE IF at[u] = "asleep" THEN "acquire" ELSE at[u]]

(* cpc_static_finish: leave the guard in state, wake everybody *)
Finish(t, state) ==
    /\ lock = Nobody
    /\ guard' = [guard EXCEPT ![Last(frames[t])] = state]
    /\ at' = Woken(t)
    /\ frames' = [frames EXCEPT ![t] = Front(@)]
    /\ UNCHANGED <<lock, top, destructors, onexit, exiting, callbacks>>

(* __cpc_static_release *)
Release(t) ==
    /\ at[t] = "release"
    /\ Finish(t, 2)
    /\ UNCHANGED <<built, throws>>

(* Faulty variant: the handler forgets to abort the guard. *)
ThrowOnly(t) ==
    /\ at[t] = "body" /\ frames[t] # <<>>
    /\ throws < MaxThrows
    /\ throws' = throws + 1
    /\ frames' = [frames EXCEPT ![t] = Front(@)]
    /\ UNCHANGED <<guard, built, lock, at, top, destructors, onexit, exiting, callbacks>>

(* The initializer throws: the emitted handler destroys what was built of  *)
(* the object, aborts the guard and rethrows, here to a function body.     *)
Throw(t) ==
    /\ at[t] = "body" /\ frames[t] # <<>>
    /\ throws < MaxThrows
    /\ throws' = throws + 1
    /\ Finish(t, 0)
    /\ UNCHANGED built

-----------------------------------------------------------------------------
(* The program registers an exit callback of its own. *)
Atexit(t) ==
    /\ at[t] = "body" /\ ~exiting
    /\ callbacks < MaxCallbacks
    /\ callbacks' = callbacks + 1
    /\ onexit' = <<UserCallback>> \o onexit
    /\ UNCHANGED <<guard, built, lock, frames, at, top, destructors, exiting, throws>>

(* exit, once the other threads have finished with statics *)
Exit ==
    /\ ~exiting
    /\ \A t \in Threads : at[t] = "body" /\ frames[t] = <<>>
    /\ exiting' = TRUE
    /\ UNCHANGED <<guard, built, lock, frames, at, top, destructors, onexit,
                   throws, callbacks>>

Exiting == exiting /\ at[Main] = "body" /\ frames[Main] = <<>>

RunUser ==
    /\ Exiting
    /\ onexit # <<>> /\ Head(onexit) = UserCallback
    /\ onexit' = Tail(onexit)
    /\ UNCHANGED <<guard, built, lock, frames, at, top, destructors, exiting,
                   throws, callbacks>>

(* cpc_run_one_static_destructor: whatever object heads the registry *)
RunOne ==
    /\ Exiting
    /\ onexit # <<>> /\ Head(onexit) # UserCallback
    /\ onexit' = Tail(onexit)
    /\ destructors' = Tail(destructors)
    /\ built' = [built EXCEPT ![Head(destructors)] = FALSE]
    /\ UNCHANGED <<guard, lock, frames, at, top, exiting, throws, callbacks>>

Step(t) ==
    \/ \E g \in Objects : Reach(t, g)
    \/ Pass(t) \/ Sleep(t) \/ Begin(t)
    \/ Construct(t) \/ RegisterPush(t) \/ RegisterCallback(t) \/ Release(t)
    \/ Throw(t) \/ Atexit(t)

Next == (\E t \in Threads : Step(t)) \/ Exit \/ RunUser \/ RunOne

(* The scheduler runs every thread that can go on, and an initializer      *)
(* terminates, whatever other declarations it passes before it does.       *)
Progress(t) ==
    \/ Pass(t) \/ Begin(t) \/ Sleep(t)
    \/ RegisterPush(t) \/ RegisterCallback(t) \/ Release(t)

Fairness ==
    /\ \A t \in Threads : WF_vars(Progress(t)) /\ SF_vars(Construct(t))
    /\ WF_vars(RunUser \/ RunOne)

Spec == Init /\ [][Next]_vars /\ Fairness

-----------------------------------------------------------------------------
Constructing(t) == Range(frames[t])

TypeOK ==
    /\ guard \in [Objects -> 0..2]
    /\ built \in [Objects -> BOOLEAN]
    /\ lock \in Threads \cup {Nobody}
    /\ frames \in [Threads -> Seq(Objects)]
    /\ at \in [Threads -> {"body", "acquire", "asleep", "register", "atexit", "release"}]
    /\ top \in [Threads -> Objects]
    /\ destructors \in Seq(Objects)
    /\ onexit \in Seq(Objects \cup {UserCallback})

(* A guard under construction has exactly one constructing thread, and no  *)
(* thread constructs behind a guard that says otherwise: an object is      *)
(* built once, whatever initializers throw and whoever retries.            *)
OneBuilder ==
    \A g \in Objects :
        /\ guard[g] = 1 <=> \E t \in Threads : g \in Constructing(t)
        /\ \A t, u \in Threads :
              g \in Constructing(t) /\ g \in Constructing(u) => t = u
        /\ \A t \in Threads : IsInjective(frames[t])

(* A thread that passes a declaration without constructing finds a         *)
(* constructed object, already registered for destruction.                 *)
PassedMeansBuilt ==
    [][\A t \in Threads :
          at[t] = "acquire" /\ at'[t] = "body" /\ frames'[t] = frames[t] /\ ~exiting =>
             built[top[t]] /\ top[t] \in Range(destructors)]_vars

(* Each object is destroyed at its own position among the exit callbacks:  *)
(* the callback that destroys it is the one registered for it.             *)
OwnPosition ==
    [][\A g \in Objects :
          built[g] /\ ~built'[g] => onexit = <<g>> \o onexit']_vars

(* Only constructed objects await destruction, none of them twice. *)
DestroyOnce ==
    /\ IsInjective(destructors)
    /\ \A g \in Range(destructors) : built[g]

(* A thread that sleeps on a guard is woken when the construction ends,    *)
(* by completion or by an exception, and gets past the declaration.        *)
SleepersWake ==
    \A t \in Threads : at[t] = "asleep" ~> at[t] = "body"

(* Once exit has been called every constructed object gets destroyed. *)
ExitDestroysAll == exiting ~> destructors = <<>>

=============================================================================
