--------------------------- MODULE MCSymbolTable ---------------------------
(* Instances of SymbolTable: names that share buckets, files and objects    *)
(* with local, weak, tentative and undefined symbols; the index grows with  *)
(* the third name.  The last three objects have the link-once section of f, *)
(* the first of them with what is in it, the next ones with references from *)
(* outside to its f and to its local symbol.                                *)
EXTENDS SymbolTable, TLC

CONSTANTS f, g, h

Hashes == f :> 0 @@ g :> 2 @@ h :> 1

Sym(n, bind, at) == [name |-> n, bind |-> bind, at |-> at]

SomeDeclared ==
    {Sym(n, "local", "data") : n \in {f, g}} \cup {Sym(n, "global", "data") : n \in {f, g}}
    \cup {Sym(f, "local", "undef"), Sym(f, "global", "bss"), Sym(f, "weak", "data")}

Once == "linkonce.f"
Text == "text"
OnlyOnce == {Once}

In(sect, s) == [name |-> s.name, bind |-> s.bind, at |-> s.at, sect |-> sect]
From(sect, sym) == [sym |-> sym, sect |-> sect]

SomeObjects == {
    [syms |-> <<In(Text, Sym(f, "local", "data")), In(Text, Sym(f, "global", "undef"))>>,
     relocs |-> <<From(Text, 1), From(Text, 2)>>],
    [syms |-> <<In(Text, Sym(f, "weak", "data")), In(Text, Sym(g, "global", "undef"))>>,
     relocs |-> <<From(Text, 2)>>],
    [syms |-> <<In(Text, Sym(h, "global", "data")), In(Text, Sym(f, "global", "common"))>>,
     relocs |-> <<From(Text, 1)>>],
    [syms |-> <<In(Text, Sym(h, "local", "data")), In(Text, Sym(h, "global", "data"))>>,
     relocs |-> <<From(Text, 2)>>],
    [syms |-> <<In(Once, Sym(f, "local", "data")), In(Once, Sym(f, "global", "data"))>>,
     relocs |-> <<From(Once, 1)>>],
    [syms |-> <<In(Once, Sym(f, "weak", "data"))>>, relocs |-> <<From(Text, 1)>>],
    [syms |-> <<In(Once, Sym(f, "local", "data"))>>, relocs |-> <<From(Text, 1)>>]}
=============================================================================
