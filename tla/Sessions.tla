------------------------------ MODULE Sessions ------------------------------
(***************************************************************************)
(* The sessions table and the handlers that use it: Login, RefreshToken    *)
(* and Logout of api/internal/handlers/auth_handler.go.  A handler is a    *)
(* sequence of separate statements on the database, none in a transaction, *)
(* so that the statements of concurrent requests interleave, any of them   *)
(* may fail, and the process may be killed between two of them.            *)
(***************************************************************************)
EXTENDS Integers, Sequences, FiniteSets

CONSTANTS
    User,         \* accounts
    Request,      \* requests that may be in progress at once
    MaxSessions,  \* bound: rows of the sessions table
    NoUser        \* the user of a request that serves nobody yet

ASSUME RequestAssumption == IsFiniteSet(Request)
ASSUME BoundAssumption == MaxSessions \in Nat
ASSUME NoUserAssumption == NoUser \notin User

NoToken == 0
Token == 1 .. MaxSessions

VARIABLES
    sessions,  \* the table, in order of creation; a refresh token is random and
               \* unique, so it is written as the place of its row
    account,   \* "active", "inactive" (is_active false) or "deleted"
    pc,        \* per request, the statement its handler is at
    held,      \* per request, the refresh token it works on
    who,       \* per request, the user of the session or account it has read
    reply,     \* per request, the last answer: its kind and the token it carries
    hurt       \* history: logins whose sessions an event of its own may have ended

requestVars == <<pc, held, who, reply>>
vars == <<sessions, account, requestVars, hurt>>

\* usable: revoked_at IS NULL AND expires_at > NOW().  from and family are history:
\* the token that was exchanged for this one, and the login it all began with.
Session == [user : User, usable : BOOLEAN, from : Token \union {NoToken}, family : Token]
Answer == [kind : {"none", "ok", "refused", "lost"}, token : Token \union {NoToken}]

Row(t) == sessions[t]
Rows == DOMAIN sessions
FamilyOf(t) == Row(t).family

Idle(r) == pc[r] = "idle"
Room == Len(sessions) + Cardinality({r \in Request : ~Idle(r)}) < MaxSessions

-----------------------------------------------------------------------------
(* Statements of the repositories *)

\* Mutant: the statement without revoked_at IS NULL.
FindAny(t) == t \in Rows
FindByRefreshToken(t) == t \in Rows /\ Row(t).usable

\* Mutant: RevokeAllByUserID in the place of Revoke.
RevokeAllOf(t) == [s \in Rows |-> IF t \in Rows /\ Row(s).user = Row(t).user
                                    THEN [Row(s) EXCEPT !.usable = FALSE] ELSE Row(s)]
\* No row affected is no error.
Revoke(t) == [s \in Rows |-> IF s = t THEN [Row(s) EXCEPT !.usable = FALSE] ELSE Row(s)]

\* Mutant: the statement without deleted_at IS NULL.
FindUserAny(u) == u \in User
FindUser(u) == account[u] # "deleted"

Create(u, from) ==
    LET n == Len(sessions) + 1
    IN  Append(sessions, [user |-> u, usable |-> TRUE, from |-> from,
                          family |-> IF from = NoToken THEN n ELSE FamilyOf(from)])

-----------------------------------------------------------------------------
(* Requests *)

\* Mutant: a handler that keeps what the last request left.
RespondOnly(r, kind, token) ==
    /\ pc' = [pc EXCEPT ![r] = "idle"]
    /\ reply' = [reply EXCEPT ![r] = [kind |-> kind, token |-> token]]
    /\ UNCHANGED <<held, who>>

Respond(r, kind, token) ==
    /\ pc' = [pc EXCEPT ![r] = "idle"]
    /\ held' = [held EXCEPT ![r] = NoToken]
    /\ who' = [who EXCEPT ![r] = NoUser]
    /\ reply' = [reply EXCEPT ![r] = [kind |-> kind, token |-> token]]

GoOn(r, place, token, user) ==
    /\ pc' = [pc EXCEPT ![r] = place]
    /\ held' = [held EXCEPT ![r] = token]
    /\ who' = [who EXCEPT ![r] = user]
    /\ reply' = [reply EXCEPT ![r] = [kind |-> "none", token |-> NoToken]]

\* The lookup fails, finds nobody, or the password is wrong.
LoginRefused(r) == Idle(r) /\ Respond(r, "refused", NoToken) /\ UNCHANGED <<sessions, account, hurt>>

\* For a deactivated user a 401 is written, but the handler does not return there.
LoginFind(r, u) ==
    /\ Idle(r) /\ Room
    /\ FindUser(u)
    /\ GoOn(r, IF account[u] = "active" THEN "create" ELSE "createAfter401", NoToken, u)
    /\ UNCHANGED <<sessions, account, hurt>>

RefreshFind(r, t) ==
    /\ Idle(r) /\ Room
    /\ FindByRefreshToken(t)
    /\ GoOn(r, "revoke", t, Row(t).user)
    /\ UNCHANGED <<sessions, account, hurt>>

RefreshRefused(r, t) ==
    /\ Idle(r)
    /\ ~FindByRefreshToken(t)
    /\ Respond(r, "refused", NoToken)
    /\ UNCHANGED <<sessions, account, hurt>>

RevokeOld(r) ==
    /\ pc[r] = "revoke"
    /\ sessions' = Revoke(held[r])
    /\ GoOn(r, "user", held[r], who[r])
    /\ UNCHANGED <<account, hurt>>

RefreshUser(r) ==
    /\ pc[r] = "user"
    /\ FindUser(who[r])
    /\ GoOn(r, "create", held[r], who[r])
    /\ UNCHANGED <<sessions, account, hurt>>

CreateSession(r) ==
    /\ pc[r] \in {"create", "createAfter401"}
    /\ sessions' = Create(who[r], held[r])
    /\ IF pc[r] = "create" THEN Respond(r, "ok", Len(sessions) + 1)
                           ELSE Respond(r, "refused", NoToken)
    /\ UNCHANGED <<account, hurt>>

LogoutRevoke(r, t) ==
    /\ Idle(r)
    /\ sessions' = Revoke(t)
    /\ hurt' = hurt \union {FamilyOf(s) : s \in Rows \intersect {t}}
    /\ Respond(r, "ok", NoToken)
    /\ UNCHANGED account

\* The families whose token a request has revoked and not replaced yet.
Between(r) == IF pc[r] \in {"user", "create"} /\ held[r] # NoToken
                THEN {FamilyOf(held[r])} ELSE {}

\* A statement fails, or the user is not found: nothing is undone.
Fail(r) ==
    /\ ~Idle(r)
    /\ hurt' = hurt \union Between(r)
    /\ Respond(r, "refused", NoToken)
    /\ UNCHANGED <<sessions, account>>

\* The process is killed and started again; clients see a broken connection.
Crash ==
    /\ hurt' = hurt \union UNION {Between(r) : r \in Request}
    /\ reply' = [r \in Request |-> IF Idle(r) THEN reply[r] ELSE [kind |-> "lost", token |-> NoToken]]
    /\ pc' = [r \in Request |-> "idle"]
    /\ held' = [r \in Request |-> NoToken]
    /\ who' = [r \in Request |-> NoUser]
    /\ UNCHANGED <<sessions, account>>

-----------------------------------------------------------------------------
(* The rest of the system *)

\* Thirty days pass.
Expire(t) ==
    /\ FindByRefreshToken(t)
    /\ sessions' = [sessions EXCEPT ![t].usable = FALSE]
    /\ hurt' = hurt \union {FamilyOf(t)}
    /\ UNCHANGED <<account, requestVars>>

SetAccount(u, status) ==
    /\ account' = [account EXCEPT ![u] = status]
    /\ UNCHANGED <<sessions, requestVars, hurt>>

SoftDelete(u) == account[u] # "deleted" /\ SetAccount(u, "deleted")
ToggleActive(u) ==
    \/ account[u] = "active" /\ SetAccount(u, "inactive")
    \/ account[u] = "inactive" /\ SetAccount(u, "active")

-----------------------------------------------------------------------------
Init ==
    /\ sessions = <<>>
    /\ account \in [User -> {"active", "inactive", "deleted"}]
    /\ pc = [r \in Request |-> "idle"]
    /\ held = [r \in Request |-> NoToken]
    /\ who = [r \in Request |-> NoUser]
    /\ reply = [r \in Request |-> [kind |-> "none", token |-> NoToken]]
    /\ hurt = {}

Serve(r) == RevokeOld(r) \/ RefreshUser(r) \/ CreateSession(r) \/ Fail(r)

Environment == Crash \/ (\E t \in Rows : Expire(t)) \/ (\E u \in User : SoftDelete(u) \/ ToggleActive(u))

Next ==
    \/ \E r \in Request : LoginRefused(r) \/ Serve(r)
    \/ \E r \in Request, u \in User : LoginFind(r, u)
    \/ \E r \in Request, t \in Rows : RefreshFind(r, t) \/ RefreshRefused(r, t) \/ LogoutRevoke(r, t)
    \/ Environment

Spec == Init /\ [][Next]_vars

-----------------------------------------------------------------------------
(* Properties *)

\* The state keeps its types, and a request at a statement that needs a user or a
\* token holds one.
TypeOK ==
    /\ sessions \in Seq(Session) /\ Len(sessions) <= MaxSessions
    /\ account \in [User -> {"active", "inactive", "deleted"}]
    /\ pc \in [Request -> {"idle", "revoke", "user", "create", "createAfter401"}]
    /\ held \in [Request -> Token \union {NoToken}]
    /\ who \in [Request -> User \union {NoUser}]
    /\ reply \in [Request -> Answer]
    /\ hurt \subseteq Rows
    /\ \A r \in Request : Idle(r) <=> who[r] = NoUser
    /\ \A r \in Request : Idle(r) => held[r] = NoToken
    /\ \A r \in Request : pc[r] \in {"revoke", "user"} => held[r] \in Rows /\ who[r] = Row(held[r]).user

Successors(t) == {s \in Rows : Row(s).from = t}
Holders(t) == {r \in Request : held[r] = t}
Worth(t) == Cardinality(Successors(t)) + Cardinality(Holders(t))

\* Once a token is revoked (by a refresh or a logout) or expired, what it can still
\* be exchanged for is what requests that had found it before may create.
SpentForGood ==
    [][\A t \in Rows : ~Row(t).usable => /\ ~sessions'[t].usable
                                         /\ Worth(t)' <= Worth(t)]_vars

\* A login lives on through any number of refreshes, also concurrent ones: unless it
\* was logged out, expired, or lost a refresh half-way to a failure or a crash, it
\* has a usable session or a refresh in progress that will create one.
FamilySurvives ==
    \A f \in {FamilyOf(t) : t \in Rows} \ hurt :
        \/ \E t \in Rows : FamilyOf(t) = f /\ Row(t).usable
        \/ \E r \in Request : f \in Between(r)

Standing(u) == Cardinality({t \in Rows : Row(t).user = u /\ Row(t).usable})
             + Cardinality({r \in Request : who[r] = u /\ pc[r] \in {"create", "createAfter401"}})

\* A deleted user gains nothing more: its sessions and the creations that had read
\* the user before the deletion only become fewer (FindByEmail, FindByID).
DeletedDriesUp == [][\A u \in User : account[u] = "deleted" => Standing(u)' <= Standing(u)]_vars
=============================================================================
