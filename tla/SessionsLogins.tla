--------------------------- MODULE SessionsLogins ---------------------------
(***************************************************************************)
(* The sessions table and its handlers implement Logins.  A login is named *)
(* by the row of its first session.                                        *)
(***************************************************************************)
EXTENDS Sessions

Family(f) == {t \in Rows : FamilyOf(t) = f}

\* It has a usable session, or a refresh of it is in progress.
Alive(f) ==
    \/ \E t \in Family(f) : Row(t).usable
    \/ \E r \in Request : held[r] # NoToken /\ FamilyOf(held[r]) = f

Admitted == [r \in Request |-> IF pc[r] \in {"create", "createAfter401"} THEN who[r] ELSE NoUser]
Stage == [f \in Token |-> IF Family(f) = {} THEN "none" ELSE IF Alive(f) THEN "live" ELSE "over"]
Owners == [f \in Token |-> {Row(t).user : t \in Family(f)}]
Issued == [f \in Token |-> Cardinality(Family(f))]

Abstract == INSTANCE Logins WITH
    Login <- Token, admitted <- Admitted, stage <- Stage, owners <- Owners, issued <- Issued

\* However the statements of logins, refreshes and logouts interleave, fail or are cut off:
\* every session is of the user who began its login, was issued for one lookup of an account
\* that was there, and a login that is over is never revived (auth_handler.go:36-164).
LoginsAsPromised == Abstract!Spec
=============================================================================
