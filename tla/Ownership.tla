----------------------------- MODULE Ownership -----------------------------
(***************************************************************************)
(* What shared ownership of one object promises: it lives while somebody   *)
(* owns it, it is destroyed once, and nobody owns it again after the last  *)
(* owner has left.  SharedPtr implements it.                               *)
(***************************************************************************)
CONSTANT Pointers

VARIABLES owners, alive

vars == <<owners, alive>>

Init == \E p \in Pointers : owners = {p} /\ alive = TRUE

(* Only what is owned can be shared. *)
Share(q) ==
    /\ owners # {}
    /\ q \notin owners
    /\ owners' = owners \cup {q}
    /\ UNCHANGED alive

Move(p, q) ==
    /\ p \in owners /\ q \notin owners
    /\ owners' = (owners \ {p}) \cup {q}
    /\ UNCHANGED alive

Leave(p) ==
    /\ p \in owners
    /\ owners' = owners \ {p}
    /\ UNCHANGED alive

Destroy ==
    /\ owners = {} /\ alive
    /\ alive' = FALSE
    /\ UNCHANGED owners

Next ==
    \/ \E q \in Pointers : Share(q)
    \/ \E p, q \in Pointers : Move(p, q)
    \/ \E p \in Pointers : Leave(p)
    \/ Destroy

Spec == Init /\ [][Next]_vars

=============================================================================
