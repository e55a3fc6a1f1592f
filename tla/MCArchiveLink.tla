--------------------------- MODULE MCArchiveLink ---------------------------
(* Instances of ArchiveLink: a main object and two archives with cyclic     *)
(* references, competing definitions, an import indexed twice, weak         *)
(* externals, alternative names and libraries asked for by directives.      *)
EXTENDS ArchiveLink

CONSTANTS f, g, h, impf, main, m1, m2, m3, A1, A2

WithoutPrefix == [n \in {f, g, h, impf} |-> IF n = impf THEN f ELSE n]

Obj(defs, refs, imports, weak, libs) ==
    [defs |-> defs, refs |-> refs, imports |-> imports, weak |-> weak, libs |-> libs]

Def(n) == [name |-> n, bind |-> "global"]
WeakDef(n) == [name |-> n, bind |-> "weak"]

Weak(n, fallback, search) == [name |-> n, fallback |-> fallback, search |-> search]

\* What the members of an archive may hold.
Bodies == {Obj({Def(f)}, {}, {}, <<>>, <<>>), Obj({Def(g)}, {f}, {}, <<>>, <<>>),
           Obj({Def(f)}, {g}, {}, <<>>, <<>>), Obj({Def(h)}, {g}, {}, <<>>, <<>>),
           Obj({Def(f), WeakDef(h)}, {}, {}, <<>>, <<>>),
           Obj({WeakDef(g)}, {h}, {}, <<>>, <<>>),
           Obj({Def(g), Def(h)}, {}, {}, <<>>, <<>>),
           Obj({Def(f)}, {h}, {}, <<>>, <<A2>>),
           Obj({Def(g)}, {}, {}, <<Weak(h, g, "alt")>>, <<>>),
           Obj({Def(f)}, {}, {}, <<Weak(h, f, "lib")>>, <<>>),
           Obj({}, {}, {f}, <<>>, <<>>)}

Mains == {Obj({}, {f}, {}, <<>>, <<>>), Obj({}, {f, g}, {}, <<>>, <<A2>>),
          Obj({}, {impf, g}, {}, <<>>, <<>>),
          Obj({}, {f}, {}, <<Weak(g, h, "nolib")>>, <<>>),
          Obj({}, {f}, {}, <<Weak(h, g, "lib")>>, <<A2>>),
          Obj({}, {h}, {}, <<Weak(h, g, "alt"), Weak(g, h, "alt")>>, <<>>)}

Lines == {<<main, A1, A2>>, <<A1, main, A2>>, <<A2, A1, main>>, <<main, A1>>, <<A1, A2, A1, main>>}

\* A member is indexed under every name it defines and every weak external
\* it has, an import under both of its names.
Entries(m, o) ==
    SetToSeq({[name |-> d.name, member |-> m] : d \in o.defs}
             \cup {[name |-> x.name, member |-> m] :
                      x \in {y \in Range(o.weak) : y.search # "alt"}}
             \cup IF o.imports = {} THEN {}
                  ELSE {[name |-> f, member |-> m], [name |-> impf, member |-> m]})

Linked == {[line |-> l,
            index |-> A1 :> (Entries(m1, o[m1]) \o Entries(m2, o[m2])) @@ A2 :> Entries(m3, o[m3]),
            object |-> o] :
           l \in Lines,
           o \in {main :> a @@ m1 :> x @@ m2 :> y @@ m3 :> z :
                    a \in Mains, x \in Bodies, y \in Bodies, z \in Bodies}}
=============================================================================
