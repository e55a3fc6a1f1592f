--------------------------- MODULE SymbolBinding ---------------------------
(***************************************************************************)
(* What one entry of the linker's symbol table becomes when an object      *)
(* offers another entry of the same name: the decisions of set_elf_sym     *)
(* (middleend/cprimeelf.c).  Left out are visibility and the assembler's   *)
(* .set, which only suppress or replace a definition explicitly, and       *)
(* absolute symbols, which do not displace a tentative definition.         *)
(***************************************************************************)

CONSTANT Names     \* symbol names

Binds == {"local", "global", "weak"}

(* Where a symbol is: nowhere yet, tentatively (common or .bss), or in a    *)
(* section of its own.                                                     *)
Sections == {"undef", "common", "bss", "data"}

Tentative(e) == e.at \in {"common", "bss"}

(* Faulty variant: data does not take precedence over a tentative place. *)
TakesNoData(old, new) ==
    \/ old.at = "undef"
    \/ new.at # "undef" /\ old.bind = "weak" /\ new.bind = "global"

(* The new entry is patched over the old one. *)
Takes(old, new) ==
    \/ old.at = "undef"
    \/ new.at # "undef" /\ old.bind = "weak" /\ new.bind = "global"
    \/ new.at = "data" /\ Tentative(old) /\ old.bind = "global" /\ new.bind = "global"

(* '%s' defined twice *)
DefinedTwice(old, new) ==
    /\ old.at # "undef" /\ new.at # "undef"
    /\ old.bind = "global" /\ new.bind = "global"
    /\ ~Tentative(new) /\ ~Tentative(old)

Merge(old, new) == IF Takes(old, new) THEN new ELSE old
=============================================================================
