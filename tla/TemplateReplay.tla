---------------------------- MODULE TemplateReplay ----------------------------
(***************************************************************************)
(* How the parser leaves and comes back to itself while it instantiates    *)
(* templates (cprimegen_templates.inc, cprimegen_substitution.inc,         *)
(* gen_function).                                                          *)
(*                                                                         *)
(* The parser keeps its state in globals.  A substitution probe parses     *)
(* tokens under a recovery jump: error1 takes it when it is set, and the   *)
(* probe then puts the caller's globals back and reports a failure.  Class *)
(* definitions and function bodies are outside the immediate context of a  *)
(* substitution: their replays clear the jump, so an error in them ends    *)
(* the translation unit.  Definitions wait in a worklist, drained by one   *)
(* activation at a time.                                                   *)
(*                                                                         *)
(* `stack` is the C stack: one frame for each activation of these          *)
(* functions, with the globals it found on entry.                          *)
(***************************************************************************)
EXTENDS Naturals, Sequences, FiniteSets

CONSTANTS
    Classes, Functions,     \* specializations of class and function templates
    Source,                 \* a class of the source itself
    Nothing,                \* a frame that is about no class or function
    Argument,               \* the class a specialization has as its argument
    MaxFrames,              \* bound: activations at once
    MaxNames,               \* bound: template-ids among them
    MaxUnits                \* bound: translation units of the batch

Specs == Classes \cup Functions \cup {Source}

ASSUME ConstantsAssumption ==
    /\ Nothing \notin Specs
    /\ Classes \cap Functions = {} /\ Source \notin Classes \cup Functions
    /\ Argument \in [Classes -> Classes \cup {Source, Nothing}]
    /\ MaxFrames \in Nat /\ MaxNames \in Nat /\ MaxUnits \in Nat

VARIABLES
    stack,          \* the activations, innermost last
    globals,        \* the parser's globals, named below
    spec,           \* per specialization and class: how far it has come
    replays,        \* per class: replays of its definition in this unit
    finalizing,     \* finalizing_template_bodies
    unit            \* which translation unit of the batch

vars == <<stack, globals, spec, replays, finalizing, unit>>

(* jump: which frame cpp_substitution_jump returns to, 0 for NULL.         *)
(* probes: cpp_template_probe_depth.  alias: class_alias_layout_depth.     *)
(* scoped: is there a local_stack or a local_scope.                        *)
(* classes: nb_defining_class_stack.                                       *)
(* compiling: compiling_pending_template_specs.                            *)
(* quiet: suppress_template_member_flush.                                  *)
Neutral == [jump |-> 0, probes |-> 0, alias |-> 0, scoped |-> FALSE,
            classes |-> 0, compiling |-> 0, quiet |-> 0]

Init ==
    /\ stack = <<>>
    /\ globals = Neutral
    /\ spec = [s \in Specs |-> "none"]
    /\ replays = [c \in Classes |-> 0]
    /\ finalizing = FALSE
    /\ unit = 1

Frame(kind, s) == [kind |-> kind, spec |-> s, saved |-> globals]
Here == IF stack = <<>> THEN "unit" ELSE stack[Len(stack)].kind
Top == stack[Len(stack)]
Below == SubSeq(stack, 1, Len(stack) - 1)

(* The activations that parse, and so may meet anything. *)
Parsing == Here \in {"unit", "probe", "interface", "deduce", "alias",
                     "qualified", "struct", "assemble", "item", "define",
                     "body"}

Room == Len(stack) < MaxFrames
At(kinds) == {i \in DOMAIN stack : stack[i].kind \in kinds}

Enter(kind, s, g) ==
    /\ Room
    /\ stack' = Append(stack, Frame(kind, s))
    /\ globals' = g

-----------------------------------------------------------------------------
(* template_probe_type_ex.  Modes 4 and 5 deduce a return type from a body *)
(* and run it without the jump.                                            *)
Probed(jump) == [globals EXCEPT !.jump = jump, !.probes = @ + 1,
                                !.scoped = FALSE]

Probe(kind) ==
    /\ Parsing
    /\ Enter(kind, Nothing,
             Probed(IF kind = "deduce" THEN 0 ELSE Len(stack) + 1))
    /\ UNCHANGED <<spec, replays, finalizing, unit>>

(* Faulty variant: an abandoned alias parse keeps its depth raised. *)
RestoredButAlias(frame) ==
    [globals EXCEPT !.jump = frame.saved.jump, !.probes = frame.saved.probes,
                    !.scoped = frame.saved.scoped]

(* What a probe puts back, when it succeeds and when it fails. *)
Restored(frame) ==
    [globals EXCEPT !.jump = frame.saved.jump, !.probes = frame.saved.probes,
                    !.scoped = frame.saved.scoped, !.alias = frame.saved.alias]

ProbeEnds ==
    /\ Here \in {"probe", "deduce"}
    /\ stack' = Below
    /\ globals' = Restored(Top)
    /\ UNCHANGED <<spec, replays, finalizing, unit>>

(* A template-id that needs only an identity: in an alias, behind a        *)
(* pointer, as a template argument.                                        *)
MoreNames == Cardinality(At({"alias", "qualified"})) < MaxNames

Alias ==
    /\ Parsing /\ MoreNames
    /\ Enter("alias", Nothing, [globals EXCEPT !.alias = @ + 1])
    /\ UNCHANGED <<spec, replays, finalizing, unit>>

(* A qualifier needs its layout even there. *)
Qualified ==
    /\ Parsing /\ MoreNames /\ globals.alias > 0
    /\ Enter("qualified", Nothing, [globals EXCEPT !.alias = 0])
    /\ UNCHANGED <<spec, replays, finalizing, unit>>

NameEnds ==
    /\ Here \in {"alias", "qualified"}
    /\ stack' = Below
    /\ globals' = [globals EXCEPT !.alias = IF Here = "alias" THEN @ - 1
                                            ELSE Top.saved.alias]
    /\ UNCHANGED <<spec, replays, finalizing, unit>>

-----------------------------------------------------------------------------
(* compile_pending_template_specs, called on the given stack: one drain at *)
(* a time, with the caller's scope put aside.                              *)
Drains == globals.compiling = 0

DrainOn(frames, g, quiet) ==
    IF Drains
    THEN /\ Len(frames) < MaxFrames
         /\ stack' = Append(frames, [kind |-> IF quiet THEN "quiet" ELSE "drain",
                                     spec |-> Nothing, saved |-> g])
         /\ globals' = [g EXCEPT !.compiling = @ + 1, !.scoped = FALSE,
                                 !.quiet = IF quiet THEN @ + 1 ELSE @]
    ELSE stack' = frames /\ globals' = g

Open(c) == \E i \in DOMAIN stack : stack[i].kind = "struct" /\ stack[i].spec = c

(* A queued definition waits for the layout of its argument, unless that   *)
(* dependency has been dropped ("wanted").                                 *)
Blocked(s) ==
    /\ s \in Classes /\ spec[s] = "queued"
    /\ Argument[s] # Nothing
    /\ spec[Argument[s]] # "done" \/ Open(Argument[s])

(* Faulty variant: the work item stays visible while it is replayed. *)
TakenLate(s) == spec

(* The item is consumed before decl() is entered again. *)
Taken(s) == [spec EXCEPT ![s] = IF s \in Classes THEN "open"
                                ELSE IF @ = "queued" THEN "declared" ELSE "done"]

Work == {"queued", "wanted", "body"}

Replayed(s) == IF s \in Classes THEN [replays EXCEPT ![s] = @ + 1] ELSE replays

Item(s) ==
    /\ Here \in {"drain", "quiet"}
    /\ spec[s] \in Work /\ ~Blocked(s)
    /\ Enter("item", s, [globals EXCEPT !.jump = 0, !.classes = 0])
    /\ spec' = Taken(s)
    /\ replays' = Replayed(s)
    /\ UNCHANGED <<finalizing, unit>>

ItemEnds ==
    /\ Here = "item"
    /\ stack' = Below
    /\ globals' = [globals EXCEPT !.jump = Top.saved.jump,
                                  !.classes = Top.saved.classes]
    /\ spec' = [spec EXCEPT ![Top.spec] = IF @ = "open" THEN "done" ELSE @]
    /\ UNCHANGED <<replays, finalizing, unit>>

DrainEnds ==
    /\ Here \in {"drain", "quiet"}
    /\ \A s \in Specs : spec[s] \in Work => Blocked(s)
    /\ stack' = Below
    /\ globals' = [globals EXCEPT !.compiling = @ - 1,
                                  !.scoped = Top.saved.scoped,
                                  !.quiet = IF Here = "quiet" THEN @ - 1 ELSE @]
    /\ UNCHANGED <<spec, replays, finalizing, unit>>

-----------------------------------------------------------------------------
(* instantiate_template_named_if_needed for a class.  With a live drain it *)
(* publishes the forward type; otherwise it queues that declaration and    *)
(* drains, before the definition leaves the immediate context.  A class    *)
(* that is queued is published only: what a drain leaves queued is blocked.*)
Assembled(c) == [kind |-> "assemble", spec |-> c, saved |-> globals]

(* Faulty variant: the definition is assembled under the probe's jump. *)
OutOfContextJumps == globals

OutOfContext == [globals EXCEPT !.jump = 0]

InstantiateClass(c) ==
    /\ Parsing /\ Room
    /\ spec[c] = "none"
    /\ spec' = [spec EXCEPT ![c] = "assembling"]
    /\ IF Drains
       THEN DrainOn(Append(stack, Frame("forward", c)), globals, TRUE)
       ELSE Enter("assemble", c, OutOfContext)
    /\ UNCHANGED <<replays, finalizing, unit>>

Forwarded ==
    /\ Here = "forward"
    /\ stack' = Append(Below, Assembled(Top.spec))
    /\ globals' = OutOfContext
    /\ UNCHANGED <<spec, replays, finalizing, unit>>

(* The definition is queued, and drained unless a drain is live. *)
ClassAssembled ==
    /\ Here = "assemble" /\ Top.spec \in Classes
    /\ spec' = [spec EXCEPT ![Top.spec] = "queued"]
    /\ DrainOn(Below, [globals EXCEPT !.jump = Top.saved.jump], TRUE)
    /\ UNCHANGED <<replays, finalizing, unit>>

(* compile_pending_template_class_definition_now: a queued class no longer *)
(* waits for its argument, and is defined by a drain, or, while another    *)
(* replay is suspended, at once.                                           *)
DefineNow(c) ==
    /\ Parsing
    /\ spec[c] \in {"queued", "wanted"}
    /\ IF Drains
       THEN /\ DrainOn(stack, globals, TRUE)
            /\ spec' = [spec EXCEPT ![c] = "wanted"]
            /\ UNCHANGED replays
       ELSE /\ Enter("define", c, [globals EXCEPT !.jump = 0, !.classes = 0,
                                                  !.scoped = FALSE])
            /\ spec' = Taken(c)
            /\ replays' = Replayed(c)
    /\ UNCHANGED <<finalizing, unit>>

DefineEnds ==
    /\ Here = "define"
    /\ stack' = Below
    /\ globals' = [globals EXCEPT !.jump = Top.saved.jump,
                                  !.classes = Top.saved.classes,
                                  !.scoped = Top.saved.scoped]
    /\ spec' = [spec EXCEPT ![Top.spec] = "done"]
    /\ UNCHANGED <<replays, finalizing, unit>>

(* A class body, of the source or in a replay, with its name on the class  *)
(* stack.  Once no class is open what has been queued is drained.          *)
Struct(c) ==
    /\ \/ Here = "unit" /\ ~finalizing /\ c = Source /\ spec[c] = "none"
       \/ Here \in {"item", "define"} /\ c \in Classes /\ c = Top.spec
    /\ Enter("struct", c, [globals EXCEPT !.classes = @ + 1])
    /\ UNCHANGED <<spec, replays, finalizing, unit>>

StructEnds ==
    /\ Here = "struct"
    /\ LET g == [globals EXCEPT !.classes = @ - 1]
       IN IF g.classes = 0 THEN DrainOn(Below, g, TRUE)
          ELSE stack' = Below /\ globals' = g
    /\ spec' = [spec EXCEPT ![Top.spec] = IF Top.spec = Source THEN "done" ELSE @]
    /\ UNCHANGED <<replays, finalizing, unit>>

-----------------------------------------------------------------------------
(* instantiate_template_named_if_needed for a function: its declaration,   *)
(* or its definition in the final phase, where a drain also asks for the   *)
(* bodies of declared functions (queue_demanded_function_template_bodies). *)
Materialize == finalizing /\ ~globals.scoped

InstantiateFunction(f) ==
    /\ \/ Parsing /\ spec[f] = "none"
       \/ /\ Parsing \/ Here \in {"drain", "quiet"}
          /\ spec[f] = "declared" /\ Materialize
    /\ Enter("assemble", f, globals)
    /\ spec' = [spec EXCEPT ![f] = IF Materialize THEN "demanded"
                                   ELSE "assembling"]
    /\ UNCHANGED <<replays, finalizing, unit>>

(* During a drain the interface is probed at once (mode 2), and an invalid *)
(* one is an error; otherwise all of it is queued.                         *)
FunctionAssembled ==
    /\ Here = "assemble" /\ Top.spec \in Functions
    /\ IF Drains
       THEN /\ stack' = Below
            /\ globals' = [globals EXCEPT !.jump = Top.saved.jump]
            /\ spec' = [spec EXCEPT ![Top.spec] =
                           IF @ = "demanded" THEN "body" ELSE "queued"]
       ELSE /\ Enter("interface", Top.spec, Probed(Len(stack) + 1))
            /\ UNCHANGED spec
    /\ UNCHANGED <<replays, finalizing, unit>>

(* A valid interface declares the function; a body waits in the worklist. *)
InterfaceEnds ==
    /\ Here = "interface"
    /\ stack' = SubSeq(stack, 1, Len(stack) - 2)
    /\ globals' = Restored(Top)
    /\ spec' = [spec EXCEPT ![Top.spec] =
                   IF @ = "demanded" THEN "body" ELSE "declared"]
    /\ UNCHANGED <<replays, finalizing, unit>>

-----------------------------------------------------------------------------
(* gen_function *)
Body ==
    /\ Here \in {"unit", "item"}
    /\ Enter("body", Nothing, [globals EXCEPT !.jump = 0, !.scoped = TRUE])
    /\ UNCHANGED <<spec, replays, finalizing, unit>>

BodyEnds ==
    /\ Here = "body"
    /\ stack' = Below
    /\ globals' = [globals EXCEPT !.jump = Top.saved.jump, !.scoped = FALSE]
    /\ UNCHANGED <<spec, replays, finalizing, unit>>

-----------------------------------------------------------------------------
(* cprimegen_init: the next input of the batch. *)
NextUnit ==
    /\ unit < MaxUnits
    /\ unit' = unit + 1
    /\ stack' = <<>>
    /\ globals' = [Neutral EXCEPT !.quiet = globals.quiet]
    /\ spec' = [s \in Specs |-> "none"]
    /\ replays' = [c \in Classes |-> 0]
    /\ finalizing' = FALSE

(* error1: a recoverable error goes to the probe the jump names.  When the *)
(* interface of a function is invalid its instantiation is one, too.       *)
Recover ==
    /\ globals.jump # 0
    /\ globals' = Restored(stack[globals.jump])
    /\ LET rest == SubSeq(stack, 1, globals.jump - 1)
       IN stack' = IF stack[globals.jump].kind = "interface"
                   THEN [rest EXCEPT ![Len(rest)].kind = "invalid"] ELSE rest
    /\ UNCHANGED <<spec, replays, finalizing, unit>>

Fail == Parsing \/ Here = "invalid"

Error ==
    /\ Fail
    /\ IF globals.jump # 0 THEN Recover ELSE NextUnit

(* The end of the source: bodies that are demanded are instantiated. *)
Finalize ==
    /\ stack = <<>> /\ ~finalizing
    /\ finalizing' = TRUE
    /\ UNCHANGED <<stack, globals, spec, replays, unit>>

FinalDrain ==
    /\ stack = <<>> /\ finalizing
    /\ DrainOn(stack, globals, FALSE)
    /\ UNCHANGED <<spec, replays, finalizing, unit>>

EndUnit ==
    /\ stack = <<>> /\ finalizing
    /\ NextUnit

Next ==
    \/ \E kind \in {"probe", "deduce"} : Probe(kind)
    \/ ProbeEnds \/ Alias \/ Qualified \/ NameEnds
    \/ \E s \in Specs : Item(s) \/ Struct(s)
    \/ \E f \in Functions : InstantiateFunction(f)
    \/ \E c \in Classes :
          InstantiateClass(c) \/ DefineNow(c)
    \/ ItemEnds \/ DrainEnds \/ Forwarded \/ ClassAssembled
    \/ DefineEnds \/ StructEnds
    \/ FunctionAssembled \/ InterfaceEnds \/ Body \/ BodyEnds
    \/ Error \/ Finalize \/ FinalDrain \/ EndUnit

Spec == Init /\ [][Next]_vars

-----------------------------------------------------------------------------
Last(S) == IF S = {} THEN 0 ELSE CHOOSE i \in S : \A j \in S : j <= i
(* The activations outside the immediate context of a substitution. *)
Definitions ==
    At({"deduce", "item", "define", "body"}) \cup
    {i \in At({"assemble"}) : stack[i].spec \in Classes}

(* Errors in instantiated class definitions and function bodies are        *)
(* outside the immediate context and are not recovered: the jump is that   *)
(* of the innermost probe, unless a definition is being replayed above it; *)
(* and the probe it names is still running (error1, template_probe_type_ex,*)
(* gen_function, the two class replays, instantiate_template_named).       *)
ImmediateContext ==
    LET probe == Last(At({"probe", "interface"}))
    IN globals.jump = IF probe > Last(Definitions) THEN probe ELSE 0

(* Whatever was parsed, instantiated, recovered or abandoned in between,   *)
(* the globals are those the running activations account for: a probe that *)
(* fails from any depth hands its caller the globals it was handed, and no *)
(* drain but a demanded body's is left open (template_probe_type_ex,       *)
(* compile_pending_template_specs).                                        *)
CallerRestored ==
    LET bottom == Last(At({"item", "define"}))
        named == Last(At({"qualified"}))
        scope == Last(At({"probe", "interface", "deduce", "define", "drain",
                          "quiet", "body"}))
    IN /\ globals.probes = Cardinality(At({"probe", "interface", "deduce"}))
       /\ globals.alias = Cardinality({i \in At({"alias"}) : i > named})
       /\ globals.classes = Cardinality({i \in At({"struct"}) : i > bottom})
       /\ globals.scoped = (scope # 0 /\ stack[scope].kind = "body")
       /\ finalizing \/ globals.compiling = Cardinality(At({"drain", "quiet"}))

(* The definition of a class is replayed at most once, whichever of the    *)
(* worklist and the definitions wanted at once takes it, although replays  *)
(* ask for each other and for themselves (compile_pending_template_specs,  *)
(* compile_pending_template_class_definition_now).                         *)
DefinedOnce == \A c \in Classes : replays[c] <= 1

(* No instantiation phase carries into the next input. *)
NothingCarried == stack = <<>> => globals = Neutral

=============================================================================
