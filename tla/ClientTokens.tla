---------------------------- MODULE ClientTokens ----------------------------
(***************************************************************************)
(* The browser's side of the sessions: the token pair in localStorage and  *)
(* the coroutines that read and replace it.  A task is one call of request *)
(* (services/users.ts, buckets.ts) or loadUser, login or logout of         *)
(* AuthContext.tsx.  A task runs alone until an await; at each await other *)
(* tasks run, and the page may be reloaded.  Task k uses the request k of  *)
(* Sessions, the server, whose pair of tokens is written as one number: the*)
(* access token of pair n was issued with the refresh token n.             *)
(***************************************************************************)
EXTENDS Sessions

VARIABLES
    store,    \* the pair in localStorage, or NoToken
    task,     \* per task, the await it is at
    cap,      \* per task, the pair it read from localStorage when it began
    screen,   \* AuthContext: "loading", "signedIn" or "signedOut"
    trouble   \* history: an answer to the exchange of the stored pair may be lost

clientVars == <<store, task, cap, screen, trouble>>
allVars == <<vars, clientVars>>

Task == Request
At(k, place) == task[k] = place
Answered(k, kind) == Idle(k) /\ reply[k].kind = kind

\* The coroutine of task k reaches its next await; w is what it read when it began.
Await(k, place, w) ==
    /\ task' = [task EXCEPT ![k] = place]
    /\ cap' = [cap EXCEPT ![k] = w]
Finish(k) == Await(k, "none", NoToken)
Keep(v) == UNCHANGED <<vars, v>>

\* Mutant: the access token alone is replaced.
KeepRefresh(k) == cap[k]
NewPair(k) == reply[k].token

\* Mutant: the refresh is tried without looking for a stored refresh token.
AnyTask(k) == k \in Task
HasRefreshToken(k) == cap[k] # NoToken

\* Replacing what is stored, by another pair or by nothing, ends its trouble.
Store(w) == store' = w /\ trouble' = FALSE
Lost(ks) == trouble' = (trouble \/ \E k \in ks : cap[k] = store)
-----------------------------------------------------------------------------
(* request *)

\* A page of the application is shown, so the user is signed in; the first fetch is sent.
Begin(k) ==
    /\ screen = "signedIn" /\ At(k, "none") /\ Idle(k)
    /\ Await(k, "fetch", store)
    /\ Keep(<<store, screen, trouble>>)

\* The answer is no 401, or the caller handles a 401 as any other error
\* (services/buckets.ts and executions.ts), or the connection breaks.
FetchEnds(k) ==
    /\ At(k, "fetch")
    /\ Finish(k)
    /\ Keep(<<store, screen, trouble>>)

\* 401 and a refresh token at hand: the refresh is sent.  AuthMiddleware goes by the
\* access token alone, so this is open: eight hours may have passed or not.
FetchUnauthorized(k) ==
    /\ At(k, "fetch") /\ HasRefreshToken(k)
    /\ Await(k, "refresh", cap[k])
    /\ reply' = [reply EXCEPT ![k] = [kind |-> "none", token |-> NoToken]]
    /\ UNCHANGED <<sessions, account, pc, held, who, hurt, store, screen, trouble>>

\* The server takes the refresh up.
RefreshArrives(k) ==
    /\ At(k, "refresh") /\ Idle(k) /\ reply[k].kind = "none"
    /\ RefreshFind(k, cap[k]) \/ RefreshRefused(k, cap[k])
    /\ UNCHANGED clientVars

\* The new pair is stored and the first request is sent again.
Refreshed(k) ==
    /\ At(k, "refresh") /\ Answered(k, "ok")
    /\ Store(NewPair(k))
    /\ Await(k, "retry", cap[k])
    /\ Keep(screen)

RetryEnds(k) ==
    /\ At(k, "retry")
    /\ Finish(k)
    /\ Keep(<<store, screen, trouble>>)

\* The refresh is refused: whatever pair is stored now is removed, "Session expired".
SessionExpired(k) ==
    /\ At(k, "refresh") /\ Answered(k, "refused")
    /\ Store(NoToken)
    /\ Finish(k)
    /\ Keep(screen)

\* fetch rejects: the exception leaves request and the pair stays, though the server
\* may have exchanged it.
ConnectionLost(k) ==
    /\ At(k, "refresh")
    /\ Lost({k})
    /\ Finish(k)
    /\ Keep(<<store, screen>>)

-----------------------------------------------------------------------------
(* AuthContext *)

LoadUser(k) ==
    /\ screen = "loading" /\ At(k, "none") /\ Idle(k) /\ \A j \in Task : ~At(j, "me")
    /\ IF store = NoToken
         THEN screen' = "signedOut" /\ UNCHANGED <<task, cap>>
         ELSE Await(k, "me", store) /\ UNCHANGED screen
    /\ Keep(<<store, trouble>>)

\* /auth/me answers with a user that is not deleted; a deactivated one counts.
MeKnown(k) ==
    /\ At(k, "me") /\ FindUser(Row(cap[k]).user)
    /\ screen' = "signedIn"
    /\ Finish(k)
    /\ Keep(<<store, trouble>>)

\* Any error clears the pair; the endpoint is below /auth/, so no refresh is tried.
MeFails(k) ==
    /\ At(k, "me")
    /\ Store(NoToken)
    /\ screen' = "signedOut"
    /\ Finish(k)
    /\ UNCHANGED vars

LoginSent(k) ==
    /\ screen = "signedOut" /\ At(k, "none") /\ Idle(k)
    /\ \A j \in Task : ~At(j, "login")
    /\ LoginRefused(k) \/ \E u \in User : LoginFind(k, u)
    /\ Await(k, "login", NoToken)
    /\ UNCHANGED <<store, screen, trouble>>

LoggedIn(k) ==
    /\ At(k, "login") /\ Answered(k, "ok")
    /\ Store(reply[k].token)
    /\ screen' = "signedIn"
    /\ Finish(k)
    /\ UNCHANGED vars

\* The login is refused, or fetch rejects at any time.
LoginFails(k) ==
    /\ At(k, "login")
    /\ Finish(k)
    /\ Keep(<<store, screen, trouble>>)

\* The button stays enabled while the call is awaited: a second click reads the pair that
\* is stored by then and logs out once more, and either may end after a new login.
Logout(k) ==
    /\ screen = "signedIn" /\ At(k, "none") /\ Idle(k)
    /\ IF store = NoToken
         THEN screen' = "signedOut" /\ UNCHANGED <<task, cap>>
         ELSE Await(k, "logout", store) /\ UNCHANGED screen
    /\ Keep(<<store, trouble>>)

LogoutArrives(k) ==
    /\ At(k, "logout") /\ LogoutRevoke(k, cap[k])
    /\ UNCHANGED clientVars

\* Errors of the call are ignored, also those that keep it from the handler: a lost
\* connection, or a 401 for an access token that has expired.
LogoutEnds(k) ==
    /\ At(k, "logout")
    /\ Store(NoToken)
    /\ screen' = "signedOut"
    /\ Finish(k)
    /\ UNCHANGED vars

-----------------------------------------------------------------------------
\* F5: the coroutines are gone, localStorage stays, and so do requests that the
\* server has begun.
Reload ==
    /\ screen # "loading"
    /\ screen' = "loading"
    /\ task' = [k \in Task |-> "none"]
    /\ cap' = [k \in Task |-> NoToken]
    /\ Lost({k \in Task : At(k, "refresh")})
    /\ Keep(store)

\* A request whose client is gone is served as any other.
Server == (\E r \in Request : Serve(r)) /\ UNCHANGED clientVars
Outside == Environment /\ UNCHANGED clientVars

ClientInit ==
    /\ Init
    /\ store = NoToken /\ screen = "loading" /\ trouble = FALSE
    /\ task = [k \in Task |-> "none"]
    /\ cap = [k \in Task |-> NoToken]

RequestStep(k) ==
    \/ FetchEnds(k) \/ FetchUnauthorized(k) \/ RefreshArrives(k)
    \/ Refreshed(k) \/ RetryEnds(k) \/ SessionExpired(k) \/ ConnectionLost(k)
AuthStep(k) ==
    \/ MeKnown(k) \/ MeFails(k) \/ LoggedIn(k) \/ LoginFails(k) \/ LogoutArrives(k) \/ LogoutEnds(k)

ClientNext ==
    \/ \E k \in Task : Begin(k) \/ LoadUser(k) \/ LoginSent(k) \/ Logout(k)
                     \/ RequestStep(k) \/ AuthStep(k)
    \/ Reload
    \/ Server
    \/ Outside

ClientSpec == ClientInit /\ [][ClientNext]_allVars

-----------------------------------------------------------------------------
(* Properties *)

ClientTypeOK ==
    /\ store \in Rows \union {NoToken}
    /\ task \in [Task -> {"none", "fetch", "refresh", "retry", "me", "login", "logout"}]
    /\ cap \in [Task -> Rows \union {NoToken}]
    /\ screen \in {"loading", "signedIn", "signedOut"}
    /\ trouble \in BOOLEAN
    /\ \A k \in Task : task[k] \in {"refresh", "retry", "me", "logout"} => cap[k] # NoToken
    /\ screen = "loading" => \A k \in Task : task[k] \in {"none", "me"}

\* A login's pair in localStorage works, or a request that read it is about to replace
\* it, however the refreshes, reloads and logouts of the page overlap, also a logout with
\* a second one or with the login that follows: unless the server ended the login on its own (hurt) or an answer to the exchange of this pair
\* was lost (trouble).
StoreBacked ==
    store # NoToken /\ FamilyOf(store) \notin hurt /\ ~trouble =>
        \/ Row(store).usable
        \/ \E k \in Task : /\ At(k, "refresh") /\ cap[k] = store
                           /\ pc[k] \in {"user", "create"} \/ Answered(k, "ok")
=============================================================================
