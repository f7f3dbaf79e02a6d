----------------------------- MODULE MCSessions -----------------------------
(* Instances of Sessions for TLC. *)
EXTENDS SessionsLogins, TLC

Symmetry == Permutations(User) \union Permutations(Request)
=============================================================================
