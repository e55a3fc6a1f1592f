-------------------------- MODULE MCTemplateReplay --------------------------
(* Instances of TemplateReplay: two class templates, one instantiated with *)
(* a class of the source, and a function template.                         *)
EXTENDS TemplateReplay

CONSTANTS a, b, f

TwoClasses == {a, b}
OneFunction == {f}
BOfSource == [c \in TwoClasses |-> IF c = b THEN Source ELSE Nothing]

=============================================================================
