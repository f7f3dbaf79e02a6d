------------------------------ MODULE MCUsers ------------------------------
(* Instances of Users for TLC. *)
EXTENDS Users, TLC

Symmetry == Permutations(Id) \union Permutations(Email) \union Permutations(Request)
=============================================================================
