----------------------------- MODULE MCFrontDoor ----------------------------
(* Small instances of FrontDoor. *)
EXTENDS FrontDoor, TLC

Scopes == {{"admin"}, {"list", "other"}, {"list"}}

Symmetry == Permutations(Call) \cup Permutations(Token)
=============================================================================
