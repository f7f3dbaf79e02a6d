------------------------------- MODULE Browser -------------------------------
(***************************************************************************)
(* What all pages of the frontend share: the page that is mounted, the     *)
(* signed-in user, and the calls of the services that are on their way.  A *)
(* call is sent with the arguments of the render that sent it; the server  *)
(* takes it up (served) or never does; the page gets the answer or an      *)
(* error.  A page that is left does not learn the answers any more, but    *)
(* what it has sent still reaches the server (gone).                       *)
(***************************************************************************)
EXTENDS Integers, Sequences, FiniteSets

CONSTANTS
    Bucket,      \* names of buckets
    None,        \* null, undefined or the empty string
    MaxCalls,    \* bound: calls that may be on their way at once
    MaxActions   \* bound: what the user does

ASSUME BrowserAssumption == None \notin Bucket /\ MaxCalls \in Nat \ {0} /\ MaxActions \in Nat

VARIABLES
    page,    \* "spinner", "login", "dashboard", "users", "buckets" or "reports"
    user,    \* AuthContext: the role of the user, or "nobody"
    tokens,  \* localStorage: whose pair it holds, or "nobody"
    calls,   \* the calls on their way
    acts     \* what the user has done (for MaxActions only)

whoVars == <<page, user, tokens>>
Slot == 1 .. MaxCalls
Role == {"admin", "plain"}

NoCall == [kind |-> "none"]
Free == {n \in Slot : calls[n].kind = "none"}
Mine(kinds) == {n \in Slot \ Free : calls[n].kind \in kinds /\ ~calls[n].gone}

\* A call with the Authorization header of who.
CallAs(who, kind, arg) ==
    [kind |-> kind, arg |-> arg, as |-> who, served |-> FALSE, answer |-> "none", gone |-> FALSE]
Call(kind, arg) == CallAs(tokens, kind, arg)
Put(n, c) == calls' = [calls EXCEPT ![n] = c]

Send(kind, arg) ==
    /\ Free # {}
    /\ Put(CHOOSE n \in Free : \A m \in Free : n <= m, Call(kind, arg))
Quiet == UNCHANGED calls
Forget(n) == Put(n, NoCall)

\* The server takes the call up and answers it.
Arriving(n, kind) == calls[n].kind = kind /\ ~calls[n].served
Served(n, answer) ==
    Put(n, IF calls[n].gone THEN NoCall ELSE [calls[n] EXCEPT !.served = TRUE, !.answer = answer])
ByAdmin(n) == calls[n].as = "admin"

\* The page gets the answer; or an error, be it the server's, or that the request or its
\* answer is lost.
Answered(n, kind) == n \in Mine({kind}) /\ calls[n].served
Failing(n, kinds) == n \in Mine(kinds)

\* The page is left: nobody reads the answers of its calls, but those that change something
\* may still be taken up.  A logout goes on.
Changing == {"create", "update", "delete", "toggle", "makeBucket", "dropBucket",
             "putLifecycle", "dropLifecycle", "deleteObject"}
Left(c) == IF c.kind = "logout" THEN c
           ELSE IF c.kind \in Changing /\ ~c.served THEN [c EXCEPT !.gone = TRUE]
           ELSE NoCall
Abandoned == [n \in Slot |-> Left(calls[n])]

Act == acts < MaxActions /\ acts' = acts + 1
MinOf(a, b) == IF a < b THEN a ELSE b

\* What a query filters: the members of s that are in K, in their order.
Filtered(s, K) ==
    LET upTo[i \in 0 .. Len(s)] ==
          IF i = 0 THEN <<>> ELSE IF s[i] \in K THEN Append(upTo[i - 1], s[i]) ELSE upTo[i - 1]
    IN  upTo[Len(s)]
=============================================================================
