--------------------------- MODULE MCClientTokens ---------------------------
(* Instances of ClientTokens for TLC, and what the client's message claims. *)
EXTENDS ClientTokens, TLC

Symmetry == Permutations(Request)

\* "Session expired" (services/users.ts) is thrown when the session is over: a refused
\* refresh removes no pair that another task has stored meanwhile and that works.
ExpiredMeansExpired ==
    [][\A k \in Task : SessionExpired(k) /\ store \notin {cap[k], NoToken} => ~Row(store).usable]_allVars
=============================================================================
