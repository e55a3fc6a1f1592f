---------------------------- MODULE SymbolTable ----------------------------
(***************************************************************************)
(* The symbol table of a link (middleend/cprimeelf.c): an array of symbols *)
(* whose names lie in a string section, a hash index over the non-local    *)
(* ones, and relocations that name symbols by their position.  While a     *)
(* source file is compiled the index is off and symbols are only appended; *)
(* cprimeelf_end_file then puts them in again one by one, over the very    *)
(* memory it reads them from.  Objects are merged in by                    *)
(* cprime_load_object_file, and sort_syms moves the local symbols down     *)
(* before an object file is written.  A link-once section is merged only   *)
(* once: what later objects say of theirs goes to the symbols of the first *)
(* (objects in ELF; pe_load_coff_object treats COMDAT in another way, which*)
(* is left out).                                                           *)
(***************************************************************************)
EXTENDS SymbolBinding, Naturals, Sequences, FiniteSets

CONSTANTS
    HashOf,     \* HashOf[n]: the hash of a name
    Declared,   \* [name, bind, at] of the symbols a file may hold
    OnceSections, Ordinary, \* names of link-once sections, and any other section
    ObjectFiles, \* objects that may be loaded: [syms, relocs]
    Buckets,    \* buckets of a new table
    MaxSyms,    \* bound on symbols put in all files and objects
    MaxRelocs   \* bound on relocations

Offered == [name : Names, bind : Binds, at : Sections]

ObjectSymbols ==
    [name : Names, bind : Binds, at : Sections, sect : OnceSections \cup {Ordinary}]

(* The link-once sections of an object *)
OnceIn(o) == {o.syms[k].sect : k \in DOMAIN o.syms} \cap OnceSections

ASSUME TableAssumption ==
    /\ HashOf \in [Names -> Nat] /\ Buckets \in Nat \ {0}
    /\ Declared \subseteq Offered
    /\ \A o \in ObjectFiles :
          /\ o.syms \in Seq(ObjectSymbols)
          /\ o.relocs \in Seq([sym : DOMAIN o.syms, sect : {Ordinary} \cup OnceIn(o)])

VARIABLES
    phase,      \* "idle", "compiling", "ending", "sorted" or "failed"
    syms, len,  \* the array's cells and how many are in use
    strs, slen, \* the same for the string section
    hash,       \* [nb, bucket, chain], the index
    hashed,     \* nb_hashed_syms
    first,      \* symbols and strings in use when the file began
    count, tr,  \* cprimeelf_end_file: symbols to put again, their new positions
    relocs,     \* [sym, id, dup]: a position, and (history) the symbol meant
                \* and whether it came with a copy of a link-once section
    kept,       \* link-once sections in the link
    error,      \* a symbol was defined twice, or an object is not valid
    ids,        \* symbols put so far; entries carry the number as `id'
    given,      \* history: what each id is, [name, local]
    offers      \* history: name -> entries offered, in order

cellVars == <<syms, len, strs, slen, hash, hashed>>
givenVars == <<given, offers>>
tableVars == <<phase, cellVars, first, count, tr, relocs, kept, error, ids, givenVars>>

Nil == 0
NameOf(t, i) == t.strs[t.syms[i].str]

-----------------------------------------------------------------------------
(* The table as a value t, with the fields of the variables, and the        *)
(* functions on it.                                                         *)

Entry(e, str) == [bind |-> e.bind, at |-> e.at, id |-> e.id, str |-> str]

Table == [syms |-> syms, len |-> len, strs |-> strs, slen |-> slen,
          hash |-> hash, hashed |-> hashed]

TableBecomes(t) ==
    /\ syms' = t.syms /\ len' = t.len /\ strs' = t.strs /\ slen' = t.slen
    /\ hash' = t.hash /\ hashed' = t.hashed

(* section_ptr_add and a store: a cell past the end is new, one that        *)
(* cprimeelf_end_file took back is overwritten.                             *)
Store(cells, i, x) == IF i > Len(cells) THEN Append(cells, x) ELSE [cells EXCEPT ![i] = x]

Chained(h, n, i) ==
    LET b == HashOf[n] % h.nb
    IN  [nb |-> h.nb, bucket |-> [h.bucket EXCEPT ![b] = i], chain |-> Append(h.chain, h.bucket[b])]

Skip(h) == [h EXCEPT !.chain = Append(@, Nil)]

Empty(nb) == [nb |-> nb, bucket |-> [b \in 0 .. nb - 1 |-> Nil], chain |-> <<>>]

(* Faulty variant: local symbols are indexed as well. *)
RebuiltWithLocals(t, nb) ==
    LET upTo[i \in 0 .. t.len] ==
            IF i = 0 THEN Empty(nb) ELSE Chained(upTo[i - 1], NameOf(t, i), i)
    IN  upTo[t.len]

(* rebuild_hash: over the symbols in order *)
Rebuilt(t, nb) ==
    LET upTo[i \in 0 .. t.len] ==
            IF i = 0 THEN Empty(nb)
            ELSE IF t.syms[i].bind = "local" THEN Skip(upTo[i - 1])
            ELSE Chained(upTo[i - 1], NameOf(t, i), i)
    IN  upTo[t.len]

(* put_elf_sym; the index is off while a file is compiled. *)
Put(t, n, e, indexed) ==
    LET i == t.len + 1
        u == [t EXCEPT !.strs = Store(t.strs, t.slen + 1, n), !.slen = @ + 1,
                       !.syms = Store(t.syms, i, Entry(e, t.slen + 1)), !.len = i]
    IN  CASE ~indexed -> u
          [] indexed /\ e.bind = "local" -> [u EXCEPT !.hash = Skip(@)]
          [] OTHER ->
                LET v == [u EXCEPT !.hash = Chained(@, n, i), !.hashed = @ + 1]
                IN  IF v.hashed > 2 * v.hash.nb
                    THEN [v EXCEPT !.hash = Rebuilt(v, 2 * v.hash.nb)] ELSE v

(* find_elf_sym: walk the chain of the name's bucket. *)
Find(t, n) ==
    LET walk[i \in 0 .. t.len] ==
            IF i = Nil THEN Nil ELSE IF NameOf(t, i) = n THEN i ELSE walk[t.hash.chain[i]]
    IN  walk[t.hash.bucket[HashOf[n] % t.hash.nb]]

(* set_elf_sym: [t, i, twice], the new table, the position, and an error. *)
Set(t, n, e) ==
    LET i == IF e.bind = "local" THEN Nil ELSE Find(t, n)
    IN  IF i = Nil
        THEN [t |-> Put(t, n, e, TRUE), i |-> t.len + 1, twice |-> FALSE]
        ELSE [t |-> [t EXCEPT !.syms[i] = Entry(Merge(@, e), @.str)],
              i |-> i, twice |-> DefinedTwice(t.syms[i], e)]

(* The same in the course of a file or an object: a has the table, the      *)
(* positions so far, whether any was defined twice, and the offers.         *)
Added(a, n, e) ==
    LET s == Set(a.t, n, e)
    IN  [t |-> s.t, new |-> Append(a.new, s.i), twice |-> a.twice \/ s.twice,
         offers |-> IF e.bind = "local" THEN a.offers
                    ELSE [a.offers EXCEPT ![n] = Append(@, e)]]

(* A symbol in a copy of a link-once section is not put: it is the one of   *)
(* its name, and nothing if it is local or there is none.                   *)
Dropped(a, n, e) ==
    [a EXCEPT !.new = Append(@, IF e.bind = "local" THEN Nil ELSE Find(a.t, n))]

TableInit ==
    /\ phase = "idle"
    /\ syms = <<>> /\ len = 0 /\ strs = <<>> /\ slen = 0
    /\ hash = Empty(Buckets) /\ hashed = 0
    /\ first = [sym |-> 0, str |-> 0] /\ count = 0 /\ tr = <<>>
    /\ relocs = <<>> /\ kept = {} /\ error = FALSE /\ ids = 0
    /\ given = <<>> /\ offers = [n \in Names |-> <<>>]

-----------------------------------------------------------------------------
(* Compiling a file. *)

BeginFile ==
    /\ phase = "idle" /\ phase' = "compiling" /\ ids < MaxSyms
    /\ first' = [sym |-> len, str |-> slen]
    /\ UNCHANGED <<cellVars, count, tr, relocs, kept, error, ids, givenVars>>

(* put_extern_sym2: a new symbol, declared or defined. *)
PutSymbol ==
    /\ phase = "compiling" /\ ids < MaxSyms
    /\ ids' = ids + 1
    /\ \E d \in Declared :
        /\ TableBecomes(Put(Table, d.name, [bind |-> d.bind, at |-> d.at, id |-> ids'], FALSE))
        /\ given' = Append(given, [name |-> d.name, local |-> d.bind = "local" /\ d.at # "undef"])
    /\ UNCHANGED <<phase, first, count, tr, relocs, kept, error, offers>>

(* put_extern_sym2: a declared symbol is defined in place, and gets the     *)
(* binding that its declarations have come to by now (update_storage).      *)
DefineSymbol ==
    /\ phase = "compiling"
    /\ \E i \in first.sym + 1 .. len, bind \in Binds :
        /\ syms[i].at = "undef"
        /\ syms' = [syms EXCEPT ![i].at = "data", ![i].bind = bind]
        /\ given' = [given EXCEPT ![syms[i].id].local = bind = "local"]
    /\ UNCHANGED <<phase, len, strs, slen, hash, hashed, first, count, tr, relocs, kept,
                   error, ids, offers>>

(* put_elf_reloca *)
PutReloc ==
    /\ phase = "compiling" /\ Len(relocs) < MaxRelocs
    /\ \E i \in first.sym + 1 .. len :
        relocs' = Append(relocs, [sym |-> i, id |-> syms[i].id, dup |-> FALSE])
    /\ UNCHANGED <<phase, cellVars, first, count, tr, kept, error, ids, givenVars>>

(* cprimeelf_end_file: the file's symbols and strings are taken back ... *)
EndFile ==
    /\ phase = "compiling" /\ phase' = "ending"
    /\ count' = len - first.sym /\ tr' = <<>>
    /\ len' = first.sym /\ slen' = first.str
    /\ UNCHANGED <<syms, strs, hash, hashed, first, relocs, kept, error, ids, givenVars>>

(* ... what is undefined becomes global ... *)
ForLink(e) == IF e.at = "undef" /\ e.bind = "local" THEN [e EXCEPT !.bind = "global"] ELSE e

(* ... and each is put in again. *)
EndSymbol ==
    /\ phase = "ending" /\ Len(tr) < count
    /\ LET i == first.sym + Len(tr) + 1
           a == Added([t |-> Table, new |-> tr, twice |-> error, offers |-> offers],
                      strs[syms[i].str],
                      ForLink([bind |-> syms[i].bind, at |-> syms[i].at, id |-> syms[i].id]))
       IN  /\ TableBecomes(a.t)
           /\ tr' = a.new /\ error' = a.twice /\ offers' = a.offers
    /\ UNCHANGED <<phase, first, count, relocs, kept, ids, given>>

(* Faulty variant: relocations of earlier files are translated as well. *)
UpdatedAll(rs, base, new) ==
    [k \in DOMAIN rs |-> IF rs[k].sym \in DOMAIN new
                         THEN [rs[k] EXCEPT !.sym = new[@]] ELSE rs[k]]

(* update_relocs *)
Updated(rs, base, new) ==
    [k \in DOMAIN rs |-> IF rs[k].sym > base THEN [rs[k] EXCEPT !.sym = new[@ - base]] ELSE rs[k]]

EndRelocs ==
    /\ phase = "ending" /\ Len(tr) = count
    /\ phase' = "idle"
    /\ relocs' = Updated(relocs, first.sym, tr)
    /\ UNCHANGED <<cellVars, first, count, tr, kept, error, ids, givenVars>>

-----------------------------------------------------------------------------
(* Loading an object, and sorting. *)

(* cprime_load_object_file: the symbols in order, then the relocations      *)
(* through old_to_new_syms.  One that is left without a symbol is allowed   *)
(* in a copy of a link-once section; anywhere else the object is refused    *)
(* there, and the link fails.                                               *)
LoadObjectFile ==
    /\ phase = "idle"
    /\ \E o \in ObjectFiles :
        /\ ids + Len(o.syms) <= MaxSyms /\ Len(relocs) + Len(o.relocs) <= MaxRelocs
        /\ ids' = ids + Len(o.syms) /\ kept' = kept \cup OnceIn(o)
        /\ LET after[k \in 0 .. Len(o.syms)] ==
                   IF k = 0 THEN [t |-> Table, new |-> <<>>, twice |-> error, offers |-> offers]
                   ELSE LET e == [bind |-> o.syms[k].bind, at |-> o.syms[k].at, id |-> ids + k]
                        IN  IF o.syms[k].sect \in kept
                            THEN Dropped(after[k - 1], o.syms[k].name, e)
                            ELSE Added(after[k - 1], o.syms[k].name, e)
               a == after[Len(o.syms)]
               invalid == {k \in DOMAIN o.relocs :
                              a.new[o.relocs[k].sym] = Nil /\ o.relocs[k].sect \notin kept}
           IN  /\ TableBecomes(a.t) /\ offers' = a.offers
               /\ error' = (a.twice \/ invalid # {})
               /\ phase' = IF invalid = {} THEN "idle" ELSE "failed"
               /\ relocs' = relocs \o [k \in DOMAIN o.relocs |->
                      [sym |-> IF \E j \in invalid : j <= k THEN o.relocs[k].sym
                               ELSE a.new[o.relocs[k].sym],
                       id |-> ids + o.relocs[k].sym, dup |-> o.relocs[k].sect \in kept]]
        /\ given' = given \o [k \in DOMAIN o.syms |->
               [name |-> o.syms[k].name, local |-> o.syms[k].bind = "local"]]
    /\ UNCHANGED <<first, count, tr>>

(* sort_syms: the local symbols first, each kind in its order; the index is *)
(* not used any more.                                                       *)
Precedes(i, j) ==
    IF (syms[i].bind = "local") = (syms[j].bind = "local") THEN i <= j
    ELSE syms[i].bind = "local"

SortSyms ==
    /\ phase = "idle" /\ phase' = "sorted"
    /\ LET new == [i \in 1 .. len |-> Cardinality({j \in 1 .. len : Precedes(j, i)})]
       IN  /\ syms' = [k \in 1 .. len |-> syms[CHOOSE i \in 1 .. len : new[i] = k]]
           /\ relocs' = Updated(relocs, 0, new)
    /\ UNCHANGED <<len, strs, slen, hash, hashed, first, count, tr, kept, error, ids, givenVars>>

TableNext == \/ BeginFile \/ PutSymbol \/ DefineSymbol \/ PutReloc
             \/ EndFile \/ EndSymbol \/ EndRelocs \/ LoadObjectFile \/ SortSyms

TableSpec == TableInit /\ [][TableNext]_tableVars

-----------------------------------------------------------------------------
(* Properties *)

(* A relocation still means the symbol it was made for: a local one itself, *)
(* any other one by its name, whatever was merged, taken back or sorted     *)
(* since (update_relocs, old_to_new_syms), and also when its symbol was     *)
(* dropped with a copy of a link-once section.  Only a relocation that came *)
(* with such a copy can be left without a symbol.                           *)
RelocsFollow == phase \in {"idle", "sorted"} => \A k \in DOMAIN relocs :
    LET e == syms[relocs[k].sym]
        was == given[relocs[k].id]
    IN  \/ relocs[k].sym = Nil /\ relocs[k].dup
        \/ /\ relocs[k].sym \in 1 .. len
           /\ strs[e.str] = was.name
           /\ IF was.local THEN e.id = relocs[k].id ELSE e.bind # "local"

(* Outside a compilation the index finds a name's one non-local symbol, and *)
(* nothing if there is none, also when the table has just grown.            *)
Findable == phase \in {"idle", "ending"} => \A n \in Names :
    LET its == {i \in 1 .. len : syms[i].bind # "local" /\ strs[syms[i].str] = n}
    IN  its = IF Find(Table, n) = Nil THEN {} ELSE {Find(Table, n)}

(* A definition is preferred for what it is, and among equals for coming    *)
(* first: a strong one with a section of its own, then a tentative one,     *)
(* then a weak one (set_elf_sym).                                           *)
Rank(e) == CASE e.at = "undef" -> 0 [] e.at # "undef" /\ e.bind = "weak" -> 1
             [] e.bind = "global" /\ Tentative(e) -> 2 [] OTHER -> 3

BestDefinition == phase = "idle" /\ ~error => \A n \in Names :
    \A k \in DOMAIN offers[n] :
        LET e == syms[Find(Table, n)]
        IN  /\ Rank(e) >= Rank(offers[n][k])
            /\ Rank(offers[n][k]) = Rank(e) /\ Rank(e) > 0 =>
                   \E j \in 1 .. k : offers[n][j].id = e.id
=============================================================================
