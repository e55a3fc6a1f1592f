---------------------------- MODULE ArchiveLink ----------------------------
(***************************************************************************)
(* Which archive members a PE link extracts (middleend/cprimeelf.c,        *)
(* cprimepe_coff.inc, cprimepe.c): the link line in order, then the        *)
(* libraries that objects ask for, then rescans of all archives until      *)
(* nothing more is loaded and no /alternatename becomes active; then       *)
(* imports and weak externals are bound.                                   *)
(*                                                                         *)
(* The inputs are a record `prog' chosen in the initial state:             *)
(*   line      the link line, objects and archives in order                *)
(*   index     archive -> sequence of [name, member], its symbol index     *)
(*   object    object or member -> what it holds:                          *)
(*     defs, refs      entries it defines, names it only refers to         *)
(*     imports         names it imports from a DLL                         *)
(*     weak            sequence of [name, fallback, search], search being  *)
(*                     "alt" for /alternatename, which come first, "nolib" *)
(*                     or "lib" for COFF weak externals                    *)
(*     libs            inputs its /DEFAULTLIB directives name              *)
(***************************************************************************)
EXTENDS SymbolBinding, Naturals, Sequences, FiniteSets, SequencesExt

CONSTANTS
    Programs,   \* the inputs that are linked
    ImportOf,   \* ImportOf[n]: n without its __imp_ prefix
    None

ASSUME ProgramsAssumption ==
    /\ None \notin Nat \cup [bind : Binds, at : Sections]
    /\ \A p \in Programs : \A o \in DOMAIN p.object :
          p.object[o].defs \subseteq [name : Names, bind : Binds \ {"local"}]
    /\ \A p \in Programs : \A a \in DOMAIN p.index :
          a # None /\ p.index[a] \in Seq([name : Names, member : DOMAIN p.object])

VARIABLES
    prog,
    stage,      \* "line", "pragma", "rescan", "resolve" or "done"
    pos,        \* the next element of the line, the pragma list or the archives
    symtab,     \* name -> entry, or None
    dynsym,     \* names imported from DLLs
    externals,  \* pe_weak_externals, in the order they were added
    active,     \* the /alternatename entries that have their symbols
    pragmas, added,     \* pragma_libs, nb_added_pragma_libs
    archives,   \* pe_archives, in order of their first appearance
    loaded,     \* members extracted
    before,     \* pe_archive_members_loaded when the rescan began, or None
    searching, at, bound,   \* the archive being searched, its cursor and round
    errors,
    extractions \* history: <<name, member, archive>> in order

linkVars == <<prog, stage, pos, symtab, dynsym, externals, active, pragmas, added,
              archives, loaded, before, searching, at, bound, errors, extractions>>
table == <<symtab, dynsym, externals, pragmas, errors>>

IsArchive(input) == input \in DOMAIN prog.index
Index(archive) == prog.index[archive]
Undefined(n) == symtab[n] # None /\ symtab[n].at = "undef"
Imported(n) == ImportOf[n] \in dynsym

(* pe_weak_external_search *)
Searched(n) == \A x \in Range(externals) : x.name = n => x.search # "nolib"

(* Faulty variant: an import, which stays undefined until the image is laid *)
(* out, is searched for again.                                              *)
MissingImports(n) == Undefined(n) /\ Searched(n)

Missing(n) == Undefined(n) /\ Searched(n) /\ ~Imported(n)

LinkInit ==
    /\ prog \in Programs
    /\ stage = "line" /\ pos = 1
    /\ symtab = [n \in Names |-> None]
    /\ dynsym = {} /\ externals = <<>> /\ active = {}
    /\ pragmas = <<>> /\ added = 0
    /\ archives = <<>> /\ loaded = {} /\ before = None
    /\ searching = None /\ at = 1 /\ bound = 0
    /\ errors = FALSE /\ extractions = <<>>

-----------------------------------------------------------------------------
(* Loading an object or a member. *)

UndefinedEntry == [bind |-> "global", at |-> "undef"]

(* The entry an object offers for a name, or None. *)
Offer(o, n) ==
    IF \E d \in o.defs : d.name = n
    THEN LET d == CHOOSE x \in o.defs : x.name = n
         IN  [bind |-> d.bind, at |-> "data"]
    ELSE IF n \in o.refs \/ \E x \in Range(o.weak) : x.search # "alt" /\ n \in {x.name, x.fallback}
         THEN UndefinedEntry ELSE None

(* pe_add_weak_external refuses a second policy for a name; a COFF weak     *)
(* external that is refused ends the loading of its object.                 *)
AddWeak(o) ==
    FoldLeft(LAMBDA s, x :
        IF s.stop \/ x \in Range(s.list) THEN s
        ELSE IF \E y \in Range(s.list) : y.name = x.name
             THEN [s EXCEPT !.bad = TRUE, !.stop = x.search # "alt"]
             ELSE [s EXCEPT !.list = Append(@, x)],
        [list |-> externals, bad |-> FALSE, stop |-> FALSE], o.weak)

NewLibs(o) == SelectSeq(o.libs, LAMBDA l : l \notin Range(pragmas))

(* cprime_load_object_file, pe_load_coff_object, pe_load_short_import and   *)
(* pe_parse_linker_directives.                                              *)
LoadObject(name) ==
    LET o == prog.object[name]
    IN  /\ symtab' = [n \in Names |->
               LET new == Offer(o, n)
               IN  CASE new = None -> symtab[n]
                     [] symtab[n] = None -> new
                     [] OTHER -> Merge(symtab[n], new)]
        /\ dynsym' = dynsym \cup o.imports
        /\ externals' = AddWeak(o).list
        /\ pragmas' = pragmas \o NewLibs(o)
        /\ errors' = (\/ errors \/ AddWeak(o).bad
                      \/ \E n \in Names : /\ Offer(o, n) # None /\ symtab[n] # None
                                          /\ DefinedTwice(symtab[n], Offer(o, n)))

-----------------------------------------------------------------------------
(* Searching one archive: cprime_load_alacarte. *)

Providers(archive, n) == {e.member : e \in {x \in Range(Index(archive)) : x.name = n}}

EarlierProvider(archive, n) ==
    \E i \in DOMAIN archives :
        /\ \A j \in 1..i : archives[j] # archive
        /\ \E m \in Providers(archives[i], n) : m \notin loaded

Extractable(archive, i) ==
    LET e == Index(archive)[i]
    IN  e.member \notin loaded /\ Missing(e.name) /\ ~EarlierProvider(archive, e.name)

Open(archive) ==
    /\ archives' = IF archive \in Range(archives) THEN archives
                   ELSE Append(archives, archive)
    /\ searching' = archive /\ at' = 1 /\ bound' = 0

Hits == {i \in at..Len(Index(searching)) : Extractable(searching, i)}

Extract ==
    /\ searching # None /\ Hits # {}
    /\ LET i == Min(Hits)
           e == Index(searching)[i]
       IN  /\ loaded' = loaded \cup {e.member}
           /\ extractions' = Append(extractions, <<e.name, e.member, searching>>)
           /\ LoadObject(e.member)
           /\ IF AddWeak(prog.object[e.member]).stop
              THEN searching' = None /\ at' = 1 /\ bound' = 0
              ELSE UNCHANGED searching /\ at' = i + 1 /\ bound' = bound + 1
    /\ UNCHANGED <<prog, stage, pos, active, added, archives, before>>

Repeats == bound > 0

EndRound ==
    /\ searching # None /\ Hits = {}
    /\ IF Repeats THEN UNCHANGED searching ELSE searching' = None
    /\ at' = 1 /\ bound' = 0
    /\ UNCHANGED <<prog, stage, pos, table, active, added, archives, loaded, before,
                   extractions>>

-----------------------------------------------------------------------------
(* The link line, the libraries asked for, the rescans. *)

AddInput(input) ==
    IF IsArchive(input)
    THEN Open(input) /\ UNCHANGED table
    ELSE LoadObject(input) /\ UNCHANGED <<archives, searching, at, bound>>

NextInput ==
    /\ stage = "line" /\ searching = None /\ pos <= Len(prog.line) /\ ~errors
    /\ AddInput(prog.line[pos])
    /\ pos' = pos + 1
    /\ UNCHANGED <<prog, stage, active, added, loaded, before, extractions>>

(* pe_add_runtime, which stands before the rescans, adds the start symbol   *)
(* and the C runtime's library: they are part of the line here.             *)
EndLine ==
    /\ stage = "line" /\ searching = None /\ (pos > Len(prog.line) \/ errors)
    /\ stage' = IF errors THEN "done" ELSE "pragma"
    /\ UNCHANGED <<prog, pos, table, active, added, archives, loaded, before, searching, at,
                   bound, extractions>>

(* cprime_add_pragma_libs *)
NextPragma ==
    /\ stage = "pragma" /\ searching = None /\ added # Len(pragmas)
    /\ added' = added + 1
    /\ AddInput(pragmas[added'])
    /\ UNCHANGED <<prog, stage, pos, active, loaded, before, extractions>>

(* pe_archive_needs_rescan *)
NeedsRescan(archive) ==
    \E n \in Names : Missing(n) /\ Providers(archive, n) \ loaded # {}

(* pe_activate_alternate_names: an alternative whose primary name is still  *)
(* missing becomes a reference to its fallback, which may make the next one *)
(* in the list missing.                                                     *)
Referred(n, alternatives) ==
    \/ Undefined(n)
    \/ symtab[n] = None /\ \E y \in alternatives : y.fallback = n

Activated ==
    FoldLeft(LAMBDA s, x :
        IF x.search = "alt" /\ ~Imported(x.name) /\ Referred(x.name, s) THEN s \cup {x} ELSE s,
        active, externals)

Activate ==
    /\ active' = Activated
    /\ symtab' = [n \in Names |->
          IF symtab[n] = None /\ \E x \in Activated : x.fallback = n
          THEN [bind |-> "weak", at |-> "undef"] ELSE symtab[n]]

(* Faulty variant: one pass over the archives is enough. *)
ProgressOnce == before = None

(* Faulty variant: members are counted from the start of the link. *)
ProgressSinceStart == before = None \/ loaded # {}

Progress == before # Cardinality(loaded)

(* The end of a pass of pe_rescan_archives: go round, or go on. *)
EndPass ==
    /\ stage = "pragma" /\ searching = None /\ added = Len(pragmas)
    /\ pos' = 1
    /\ IF ~errors /\ Progress
       THEN stage' = "rescan" /\ before' = Cardinality(loaded) /\ UNCHANGED <<active, symtab>>
       ELSE IF ~errors /\ Activated # active
            THEN stage' = "rescan" /\ before' = Cardinality(loaded) /\ Activate
            ELSE stage' = "resolve" /\ UNCHANGED <<before, active, symtab>>
    /\ UNCHANGED <<prog, dynsym, externals, pragmas, errors, added, archives, loaded, searching,
                   at, bound, extractions>>

Rescan ==
    /\ stage = "rescan" /\ searching = None /\ pos <= Len(archives) /\ ~errors
    /\ pos' = pos + 1
    /\ IF NeedsRescan(archives[pos]) THEN Open(archives[pos])
       ELSE UNCHANGED <<archives, searching, at, bound>>
    /\ UNCHANGED <<prog, stage, table, active, added, loaded, before, extractions>>

EndRescan ==
    /\ stage = "rescan" /\ searching = None /\ (pos > Len(archives) \/ errors)
    /\ stage' = "pragma"
    /\ UNCHANGED <<prog, pos, table, active, added, archives, loaded, before, searching, at,
                   bound, extractions>>

-----------------------------------------------------------------------------
(* Binding what is left: pe_check_symbols, pe_resolve_weak_externals. *)

Bound(n) == symtab[n] # None /\ symtab[n].at # "undef"

Aliases == {x \in Range(externals) :
    /\ x.search = "alt" => x \in active
    /\ Undefined(x.name) /\ ~Imported(x.name)
    /\ Bound(x.fallback) \/ Imported(x.fallback)}

(* A name takes over its fallback's place, chain by chain. *)
ResolveAlias ==
    /\ stage = "resolve" /\ Aliases # {}
    /\ \E x \in Aliases : symtab' = [n \in Names |->
           IF n = x.name THEN [bind |-> symtab[n].bind, at |-> "data"] ELSE symtab[n]]
    /\ UNCHANGED <<prog, stage, pos, dynsym, externals, active, pragmas, errors, added,
                   archives, loaded, before, searching, at, bound, extractions>>

(* relocate_syms reports what is still undefined, unless it is weak. *)
CheckSymbols ==
    /\ stage = "resolve" /\ Aliases = {}
    /\ stage' = "done"
    /\ errors' = (errors \/ \E n \in Names : /\ Undefined(n) /\ ~Imported(n)
                                             /\ symtab[n].bind # "weak")
    /\ UNCHANGED <<prog, pos, symtab, dynsym, externals, pragmas, active, added, archives,
                   loaded, before, searching, at, bound, extractions>>

-----------------------------------------------------------------------------

LinkNext == \/ NextInput \/ EndLine \/ NextPragma \/ EndPass \/ Rescan \/ EndRescan
            \/ Extract \/ EndRound \/ ResolveAlias \/ CheckSymbols

LinkSpec == LinkInit /\ [][LinkNext]_linkVars /\ WF_linkVars(LinkNext)

-----------------------------------------------------------------------------
(* Properties *)

(* When the rescans end, no archive has a member left for a missing name,  *)
(* also one that a late member, library or alternative name brought in     *)
(* (pe_rescan_archives, pe_archive_needs_rescan).                          *)
Complete == stage = "resolve" /\ ~errors =>
    \A n \in Names : Missing(n) =>
        \A i \in DOMAIN archives : Providers(archives[i], n) \subseteq loaded

Holds(member, n) ==
    \/ \E d \in prog.object[member].defs : d.name = n
    \/ ImportOf[n] \in prog.object[member].imports

(* A member is extracted for a name only while no member extracted before,  *)
(* for whatever name, defines or imports it, and only when what the archives *)
(* before its own index under the name has been extracted in vain: neither  *)
(* a reference that comes after the first archive has been searched, nor an *)
(* import, which leaves its name undefined, brings in a second provider.    *)
(* (pe_earlier_archive_provider, the import test of cprime_load_alacarte.)  *)
OneProvider == \A k \in DOMAIN extractions :
    LET n == extractions[k][1]
    IN  /\ \A l \in 1 .. k - 1 : ~Holds(extractions[l][2], n)
        /\ \A i, j \in DOMAIN archives : archives[j] = extractions[k][3] /\ i < j =>
              \A m \in Providers(archives[i], n) : m \in loaded /\ ~Holds(m, n)

(* Every link ends, with cyclic archives and cyclic alternatives too. *)
LinkEnds == <>(stage = "done")
=============================================================================
