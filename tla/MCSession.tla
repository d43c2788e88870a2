------------------------------ MODULE MCSession ------------------------------
(* Small instances of Session for TLC. *)
EXTENDS Session, TLC

Symmetry == Permutations(Clients) \cup Permutations(Switches) \cup Permutations(Actions)
=============================================================================
