------------------------------- MODULE Logins -------------------------------
(***************************************************************************)
(* What the sessions table promises of logins, without tokens and          *)
(* statements.  A request that has found the account may have one session  *)
(* issued: the first of a new login, or a further one of a login of the    *)
(* same user that lives.  A login lives until it is hurt (logged out,      *)
(* expired, or a refresh of it was lost half-way), and may live on then;   *)
(* one that is over stays over.                                            *)
(***************************************************************************)
EXTENDS Integers

CONSTANTS
    User,     \* accounts
    Request,  \* requests that may be in progress at once
    Login,    \* the logins there may ever be
    NoUser    \* the user of a request that has found no account

VARIABLES
    account,   \* "active", "inactive" or "deleted"
    admitted,  \* per request, the account it has found
    stage,     \* per login "none", "live" or "over"
    owners,    \* whom its sessions are of
    issued,    \* how many they are
    hurt       \* the logins that were hurt

vars == <<account, admitted, stage, owners, issued, hurt>>
Status == {"active", "inactive", "deleted"}

Init ==
    /\ account \in [User -> Status]
    /\ admitted = [r \in Request |-> NoUser]
    /\ stage = [l \in Login |-> "none"]
    /\ owners = [l \in Login |-> {}] /\ issued = [l \in Login |-> 0]
    /\ hurt = {}

Admit(r, u) ==
    /\ admitted[r] = NoUser /\ account[u] # "deleted"
    /\ admitted' = [admitted EXCEPT ![r] = u]
    /\ UNCHANGED <<account, stage, owners, issued, hurt>>

\* One session for one admission, also when the account was deleted in between.
Issue(r, l) ==
    /\ admitted[r] # NoUser
    /\ admitted' = [admitted EXCEPT ![r] = NoUser]
    /\ issued' = [issued EXCEPT ![l] = @ + 1]
    /\ UNCHANGED <<account, hurt>>

Begin(r, l) ==
    /\ Issue(r, l)
    /\ stage[l] = "none" /\ stage' = [stage EXCEPT ![l] = "live"]
    /\ owners' = [owners EXCEPT ![l] = {admitted[r]}]

Renew(r, l) ==
    /\ Issue(r, l)
    /\ stage[l] = "live" /\ owners[l] = {admitted[r]}
    /\ UNCHANGED <<stage, owners>>

\* Logins L are hurt, requests R come to nothing, and some of the logins hurt are over.
Lose(L) ==
    /\ hurt' = hurt \union L
    /\ \A l \in L : stage[l] # "none"
    /\ \E R \in SUBSET Request :
          admitted' = [r \in Request |-> IF r \in R THEN NoUser ELSE admitted[r]]
    /\ \E over \in SUBSET hurt' :
          stage' = [l \in Login |-> IF l \in over THEN "over" ELSE stage[l]]
    /\ UNCHANGED <<account, owners, issued>>

\* A deletion is for good.
Change(u, status) ==
    /\ account[u] # "deleted" /\ account' = [account EXCEPT ![u] = status]
    /\ UNCHANGED <<admitted, stage, owners, issued, hurt>>

Next ==
    \/ \E L \in SUBSET (Login \ hurt) : Lose(L)
    \/ \E r \in Request : \/ \E u \in User : Admit(r, u)
                          \/ \E l \in Login : Begin(r, l) \/ Renew(r, l)
    \/ \E u \in User, status \in Status : Change(u, status)

Spec == Init /\ [][Next]_vars
=============================================================================
