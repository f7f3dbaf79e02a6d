--------------------------- MODULE MCObjectExplorer ---------------------------
(* Instances of ObjectExplorer for TLC. *)
EXTENDS ObjectExplorer, TLC

Symmetry == Permutations(Call) \union Permutations(Query)
=============================================================================
