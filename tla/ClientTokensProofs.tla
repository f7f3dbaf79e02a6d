------------------------- MODULE ClientTokensProofs -------------------------
(***************************************************************************)
(* Theorems about ClientTokens, for any set of accounts, any finite set of *)
(* tasks and any bound on the sessions.                                    *)
(***************************************************************************)
EXTENDS ClientTokens, SessionsProofs

\* The answer to the login or the refresh of k is there, and k has not taken it yet.
Awaiting(k) == task[k] \in {"refresh", "login"} /\ Answered(k, "ok")

\* A pair on its way to k is known to nobody else.
Private(k, n) ==
    /\ n # store
    /\ \A j \in Task : cap[j] # n /\ held[j] # n
    /\ \A j \in Task \ {k} : Awaiting(j) => reply[j].token # n

Sound(n) == n \in Rows /\ (Row(n).usable \/ FamilyOf(n) \in hurt)

HandOver == \A k \in Task : Awaiting(k) => Sound(reply[k].token) /\ Private(k, reply[k].token)

\* A request in progress is the one its task awaits, or the one a task has left.
OwnRequest ==
    \A k \in Task : ~Idle(k) => /\ task[k] \in {"none", "refresh", "login"}
                                /\ (At(k, "refresh") => held[k] = cap[k])

\* Only a task that awaits the answer has the stored pair exchanged.
StoreHolders == store # NoToken /\ ~trouble => \A r \in Request : held[r] = store => At(r, "refresh")

LinkInv == HandOver /\ OwnRequest /\ StoreHolders
ClientInv == TypeInv /\ ClientTypeOK /\ LinkInv

-----------------------------------------------------------------------------
(* What the server does while no task moves *)

Same(r) == pc'[r] = pc[r] /\ held'[r] = held[r] /\ reply'[r] = reply[r]
GoesOn(r) ==
    /\ pc[r] # "idle" /\ pc'[r] # "idle" /\ held'[r] = held[r]
    /\ pc[r] \in {"user", "create"} => pc'[r] \in {"user", "create"}
BreaksOff(r) ==
    /\ pc[r] # "idle" /\ pc'[r] = "idle" /\ held'[r] = NoToken
    /\ reply'[r].kind # "ok" /\ Between(r) \subseteq hurt'
Creates(r) ==
    /\ pc[r] # "idle" /\ pc'[r] = "idle" /\ held'[r] = NoToken
    /\ reply'[r].kind = "ok" /\ reply'[r].token \in DOMAIN sessions' \ Rows
    /\ sessions'[reply'[r].token].usable

\* No row is lost or leaves its family, and what ends a row is recorded or goes on.
TableKept ==
    /\ Rows \subseteq DOMAIN sessions' /\ hurt \subseteq hurt'
    /\ \A s \in Rows : sessions'[s].family = FamilyOf(s)
    /\ \A s \in Rows : Row(s).usable =>
           \/ sessions'[s].usable
           \/ FamilyOf(s) \in hurt'
           \/ \E r \in Request : pc[r] = "revoke" /\ held[r] = s /\ pc'[r] = "user" /\ held'[r] = s

LEMMA SameTableKept ==
    ASSUME UNCHANGED sessions, hurt \subseteq hurt'
    PROVE  TableKept
BY SameTable DEF TableKept, Rows

LEMMA RespondEnds ==
    ASSUME TypeInv, NEW r \in Request, NEW kind, NEW token, Respond(r, kind, token)
    PROVE  /\ pc'[r] = "idle" /\ held'[r] = NoToken
           /\ reply'[r].kind = kind /\ reply'[r].token = token
           /\ \A q \in Request \ {r} : Same(q)
<1>1. /\ pc' = [pc EXCEPT ![r] = "idle"] /\ held' = [held EXCEPT ![r] = NoToken]
      /\ reply' = [reply EXCEPT ![r] = [kind |-> kind, token |-> token]]
  BY DEF Respond
<1>2. reply'[r] = [kind |-> kind, token |-> token]
  BY <1>1 DEF TypeInv, TypeOK
<1>3. reply'[r].kind = kind /\ reply'[r].token = token
  BY <1>2
<1>. QED BY <1>1, <1>3 DEF TypeInv, TypeOK, Same

LEMMA GoOnMoves ==
    ASSUME TypeInv, NEW r \in Request, NEW place, NEW token, NEW user, GoOn(r, place, token, user)
    PROVE  /\ pc'[r] = place /\ held'[r] = token /\ reply'[r].kind = "none"
           /\ \A q \in Request \ {r} : Same(q)
<1>1. /\ pc' = [pc EXCEPT ![r] = place] /\ held' = [held EXCEPT ![r] = token]
      /\ reply' = [reply EXCEPT ![r] = [kind |-> "none", token |-> NoToken]]
  BY DEF GoOn
<1>2. reply'[r] = [kind |-> "none", token |-> NoToken]
  BY <1>1 DEF TypeInv, TypeOK
<1>3. reply'[r].kind = "none"
  BY <1>2
<1>. QED BY <1>1, <1>3 DEF TypeInv, TypeOK, Same

\* The table after a row has been revoked by whoever may.
LEMMA RevokedKept ==
    ASSUME TypeInv, NEW t, sessions' = Revoke(t), hurt \subseteq hurt',
           t \in Rows => \/ FamilyOf(t) \in hurt'
                         \/ \E r \in Request : /\ pc[r] = "revoke" /\ held[r] = t
                                               /\ pc'[r] = "user" /\ held'[r] = t
    PROVE  TableKept
BY RevokedTable DEF TableKept

ServerMoves ==
    /\ TableKept
    /\ \/ \A r \in Request : Same(r) \/ GoesOn(r) \/ BreaksOff(r)
       \/ \E r \in Request : Creates(r) /\ \A q \in Request \ {r} : Same(q)

LEMMA CreationMoves ==
    ASSUME TypeInv, NEW r \in Request, CreateSession(r)
    PROVE  ServerMoves
<1>. DEFINE n == Len(sessions) + 1
<1>1. /\ DOMAIN sessions' = Rows \union {n} /\ n \notin Rows
      /\ \A s \in Rows : sessions'[s] = Row(s)
  BY Creating
<1>2. sessions'[n] = [user |-> who[r], usable |-> TRUE, from |-> held[r],
                      family |-> IF held[r] = NoToken THEN n ELSE FamilyOf(held[r])]
  BY Creating, Zenon
<1>3. sessions'[n].usable
  BY <1>2
<1>4. pc[r] \in {"create", "createAfter401"} /\ UNCHANGED hurt
  BY DEF CreateSession
<1>5. TableKept
  BY <1>1, <1>4 DEF TableKept, FamilyOf
<1>6. CASE pc[r] = "create"
  <2>1. Respond(r, "ok", n)
    BY <1>6 DEF CreateSession
  <2>2. Creates(r) /\ \A q \in Request \ {r} : Same(q)
    BY <1>1, <1>3, <1>6, <2>1, RespondEnds DEF Creates
  <2>. QED BY <1>5, <2>2 DEF ServerMoves
<1>7. CASE pc[r] = "createAfter401"
  <2>1. Respond(r, "refused", NoToken)
    BY <1>7 DEF CreateSession
  <2>2. BreaksOff(r) /\ \A q \in Request \ {r} : Same(q)
    BY <1>7, <2>1, RespondEnds DEF BreaksOff, Between
  <2>. QED BY <1>5, <2>2 DEF ServerMoves
<1>. QED BY <1>4, <1>6, <1>7

LEMMA ServerSteps ==
    ASSUME TypeInv, (\E r \in Request : Serve(r)) \/ Environment
    PROVE  ServerMoves
<1>1. ASSUME NEW r \in Request, RevokeOld(r) PROVE ServerMoves
  <2>1. /\ pc[r] = "revoke" /\ sessions' = Revoke(held[r]) /\ UNCHANGED hurt
        /\ GoOn(r, "user", held[r], who[r])
    BY <1>1 DEF RevokeOld
  <2>2. pc'[r] = "user" /\ held'[r] = held[r] /\ \A q \in Request \ {r} : Same(q)
    BY <2>1, GoOnMoves
  <2>3. TableKept
    BY <2>1, <2>2, RevokedKept
  <2>. QED BY <2>1, <2>2, <2>3 DEF ServerMoves, GoesOn
<1>2. ASSUME NEW r \in Request, RefreshUser(r) PROVE ServerMoves
  <2>1. /\ pc[r] = "user" /\ UNCHANGED <<sessions, hurt>>
        /\ GoOn(r, "create", held[r], who[r])
    BY <1>2 DEF RefreshUser
  <2>2. pc'[r] = "create" /\ held'[r] = held[r] /\ \A q \in Request \ {r} : Same(q)
    BY <2>1, GoOnMoves
  <2>. QED BY <2>1, <2>2, SameTableKept DEF ServerMoves, GoesOn
<1>3. ASSUME NEW r \in Request, Fail(r) PROVE ServerMoves
  <2>1. /\ ~Idle(r) /\ UNCHANGED sessions /\ hurt' = hurt \union Between(r)
        /\ Respond(r, "refused", NoToken)
    BY <1>3 DEF Fail
  <2>2. BreaksOff(r) /\ \A q \in Request \ {r} : Same(q)
    BY <2>1, RespondEnds DEF BreaksOff, Idle
  <2>. QED BY <2>1, <2>2, SameTableKept DEF ServerMoves
<1>4. CASE Crash
  <2>1. UNCHANGED sessions /\ hurt \subseteq hurt' /\ \A r \in Request : Between(r) \subseteq hurt'
    BY <1>4 DEF Crash
  <2>2. \A r \in Request : pc'[r] = "idle" /\ held'[r] = NoToken
    BY <1>4 DEF Crash
  <2>3. ASSUME NEW r \in Request, Idle(r) PROVE Same(r)
    BY <1>4, <2>2, <2>3 DEF Crash, Same, TypeInv, TypeOK, Idle
  <2>4. ASSUME NEW r \in Request, ~Idle(r) PROVE BreaksOff(r)
    <3>1. reply'[r] = [kind |-> "lost", token |-> NoToken]
      BY <1>4, <2>4 DEF Crash
    <3>2. reply'[r].kind # "ok"
      BY <3>1
    <3>. QED BY <2>1, <2>2, <2>4, <3>2 DEF BreaksOff, Idle
  <2>. QED BY <2>1, <2>3, <2>4, SameTableKept DEF ServerMoves
<1>5. UNCHANGED requestVars => \A r \in Request : Same(r)
  BY DEF requestVars, Same
<1>6. ASSUME NEW t \in Rows, Expire(t) PROVE ServerMoves
  <2>1. sessions' = Revoke(t) /\ UNCHANGED requestVars /\ hurt' = hurt \union {FamilyOf(t)}
    BY <1>6, ExpiryRevokes DEF Expire, TypeInv, TypeOK
  <2>. QED BY <1>5, <2>1, RevokedKept DEF ServerMoves
<1>7. ASSUME NEW u \in User, SoftDelete(u) \/ ToggleActive(u) PROVE ServerMoves
  BY <1>5, <1>7, SameTableKept DEF SoftDelete, ToggleActive, SetAccount, ServerMoves
<1>8. ASSUME NEW r \in Request, CreateSession(r) PROVE ServerMoves
  BY <1>8, CreationMoves
<1>. QED BY <1>1, <1>2, <1>3, <1>4, <1>6, <1>7, <1>8 DEF Serve, Environment

-----------------------------------------------------------------------------
(* Types and hand-over while the server moves *)

\* What is known of a pair stays known, and a pair that works works or is hurt.
LEMMA SoundStays ==
    ASSUME TypeInv, TableKept, NEW n, Sound(n),
           \A r \in Request : held[r] # n
    PROVE  Sound(n)'
BY DEF Sound, TableKept, FamilyOf, Row, Rows

LEMMA ServerTypes ==
    ASSUME ClientTypeOK, Rows \subseteq DOMAIN sessions', UNCHANGED clientVars
    PROVE  ClientTypeOK'
BY DEF ClientTypeOK, clientVars, Rows

\* A pair the page holds is a row, or none.
LEMMA PagePairs ==
    ASSUME ClientTypeOK
    PROVE  /\ store \in Rows \union {NoToken}
           /\ \A k \in Task : cap[k] \in Rows \union {NoToken}
BY DEF ClientTypeOK

LEMMA ServerHandOver ==
    ASSUME TypeInv, TypeInv', ClientTypeOK, HandOver, ServerMoves, UNCHANGED clientVars
    PROVE  HandOver'
<1>1. TableKept /\ task' = task /\ cap' = cap /\ store' = store
  BY DEF ServerMoves, clientVars
<1>2. ASSUME NEW k \in Task, Same(k), Awaiting(k)'
      PROVE  Awaiting(k) /\ reply'[k] = reply[k] /\ Sound(reply[k].token)'
  <2>1. Awaiting(k) /\ reply'[k] = reply[k]
    BY <1>1, <1>2 DEF Same, Awaiting, Answered, Idle
  <2>2. Sound(reply[k].token) /\ \A r \in Request : held[r] # reply[k].token
    BY <2>1 DEF HandOver, Private, Task
  <2>3. PICK n : n = reply[k].token
    OBVIOUS
  <2>4. Sound(n)'
    BY <1>1, <2>2, <2>3, SoundStays
  <2>5. n = reply'[k].token
    BY <2>1, <2>3
  <2>. QED BY <2>1, <2>4, <2>5
<1>3. ASSUME \A r \in Request : Same(r) \/ GoesOn(r) \/ BreaksOff(r)
      PROVE  HandOver'
  <2>1. ASSUME NEW k \in Task, Awaiting(k)' PROVE Same(k)
    BY <1>3, <2>1 DEF Task, GoesOn, BreaksOff, Awaiting, Answered, Idle
  <2>2. ASSUME NEW k \in Task, Awaiting(k)' PROVE Sound(reply[k].token)'
    BY <1>2, <2>1, <2>2
  <2>3. \A q \in Request : held'[q] = held[q] \/ held'[q] = NoToken
    BY <1>3 DEF Same, GoesOn, BreaksOff
  <2>4. ASSUME NEW k \in Task, Awaiting(k)' PROVE Private(k, reply[k].token)'
    <3>1. Awaiting(k) /\ reply'[k] = reply[k]
      BY <1>2, <2>1, <2>4
    <3>2. reply[k].token \in Rows /\ Private(k, reply[k].token)
      BY <3>1 DEF HandOver, Sound
    <3>3. reply[k].token # NoToken
      BY <3>2, Table DEF TypeInv, TypeOK, NoToken
    <3>4. \A j \in Task : Awaiting(j)' => Awaiting(j) /\ reply'[j] = reply[j]
      BY <1>2, <2>1
    <3>. QED BY <1>1, <2>3, <3>1, <3>2, <3>3, <3>4 DEF Private, Task
  <2>. QED BY <2>2, <2>4 DEF HandOver
<1>4. ASSUME NEW r \in Request, Creates(r), \A q \in Request \ {r} : Same(q)
      PROVE  HandOver'
  <2>1. PICK n : n = reply'[r].token
    OBVIOUS
  <2>2. n \in DOMAIN sessions' \ Rows /\ sessions'[n].usable /\ held'[r] = NoToken
    BY <1>4, <2>1 DEF Creates
  <2>3. n # NoToken
    <3>1. \A t \in DOMAIN sessions' : t # NoToken
      BY LenProperties DEF TypeInv, TypeOK, NoToken
    <3>. QED BY <2>2, <3>1
  <2>4. /\ n # store /\ \A j \in Task : cap[j] # n /\ held[j] # n
        /\ \A j \in Task : Awaiting(j) => reply[j].token # n
    BY <2>2, <2>3, PagePairs DEF TypeInv, ServeOK, HandOver, Sound, Task
  <2>5. ASSUME NEW k \in Task \ {r}, Awaiting(k)'
        PROVE  Sound(reply[k].token)' /\ Private(k, reply[k].token)'
    <3>1. Awaiting(k) /\ reply'[k] = reply[k] /\ Sound(reply[k].token)'
      BY <1>2, <1>4, <2>5 DEF Task
    <3>2. reply[k].token \in Rows /\ Private(k, reply[k].token)
      BY <3>1 DEF HandOver, Sound
    <3>3. reply[k].token # NoToken
      BY <3>2, Table DEF TypeInv, TypeOK, NoToken
    <3>4. \A j \in Task \ {r} : Awaiting(j)' => Awaiting(j) /\ reply'[j] = reply[j]
      BY <1>2, <1>4 DEF Task
    <3>5. reply'[r].token # reply[k].token
      BY <2>1, <2>2, <3>2
    <3>6. \A q \in Request : held'[q] = held[q] \/ held'[q] = NoToken
      BY <1>4, <2>2 DEF Same
    <3>. QED BY <1>1, <3>1, <3>2, <3>3, <3>4, <3>5, <3>6 DEF Private, Task
  <2>6. Sound(reply[r].token)' /\ Private(r, reply[r].token)'
    <3>1. Sound(reply[r].token)'
      BY <2>1, <2>2 DEF Sound, Rows, Row
    <3>2. \A j \in Task \ {r} : Awaiting(j)' => Awaiting(j) /\ reply'[j] = reply[j]
      BY <1>2, <1>4 DEF Task
    <3>3. \A q \in Request \ {r} : held'[q] = held[q]
      BY <1>4 DEF Same
    <3>4. \A j \in Task \ {r} : Awaiting(j)' => reply'[j].token # n
      BY <2>4, <3>2
    <3>5. \A j \in Task : held'[j] # n
      BY <2>2, <2>4, <2>3, <3>3 DEF Task
    <3>. QED BY <1>1, <2>1, <2>4, <3>1, <3>4, <3>5 DEF Private
  <2>. QED BY <2>5, <2>6 DEF HandOver
<1>. QED BY <1>3, <1>4 DEF ServerMoves

LEMMA ServerOwn ==
    ASSUME OwnRequest, ServerMoves, UNCHANGED clientVars
    PROVE  OwnRequest'
<1>1. task' = task /\ cap' = cap
  BY DEF clientVars
<1>2. \A r \in Request : pc'[r] # "idle" => pc[r] # "idle" /\ held'[r] = held[r]
  BY DEF ServerMoves, Same, GoesOn, BreaksOff, Creates
<1>. QED BY <1>1, <1>2 DEF OwnRequest, Idle, At, Task

LEMMA ServerHolders ==
    ASSUME StoreHolders, ServerMoves, UNCHANGED clientVars
    PROVE  StoreHolders'
<1>1. task' = task /\ store' = store /\ trouble' = trouble
  BY DEF clientVars
<1>2. \A r \in Request : held'[r] = held[r] \/ held'[r] = NoToken
  BY DEF ServerMoves, Same, GoesOn, BreaksOff, Creates
<1>. QED BY <1>1, <1>2 DEF StoreHolders, At

\* Task k is about to replace the stored pair.
Backs(k) ==
    /\ At(k, "refresh") /\ cap[k] = store
    /\ pc[k] \in {"user", "create"} \/ Answered(k, "ok")

LEMMA Backing ==
    StoreBacked <=> \/ store = NoToken \/ FamilyOf(store) \in hurt \/ trouble
                    \/ Row(store).usable \/ \E k \in Task : Backs(k)
BY DEF StoreBacked, Backs

LEMMA ServerBacks ==
    ASSUME TypeInv, ClientTypeOK, OwnRequest, StoreHolders, StoreBacked, ServerMoves,
           UNCHANGED clientVars
    PROVE  StoreBacked'
<1>1. TableKept /\ task' = task /\ cap' = cap /\ store' = store /\ trouble' = trouble
  BY DEF ServerMoves, clientVars
<1>. SUFFICES ASSUME store # NoToken, ~trouble, FamilyOf(store)' \notin hurt'
              PROVE  Row(store)'.usable \/ \E k \in Task : Backs(k)'
  BY <1>1, Backing DEF StoreBacked, Backs
<1>2. store \in Rows /\ FamilyOf(store)' = FamilyOf(store) /\ FamilyOf(store) \notin hurt
  BY <1>1, PagePairs DEF TableKept, FamilyOf, Row
<1>3. CASE Row(store).usable
  <2>1. ASSUME NEW r \in Request, pc[r] = "revoke", held[r] = store, pc'[r] = "user"
        PROVE  Backs(r)'
    <3>1. At(r, "refresh")
      BY <2>1 DEF StoreHolders
    <3>2. cap[r] = store
      BY <2>1, <3>1 DEF OwnRequest, Idle, Task
    <3>. QED BY <1>1, <2>1, <3>1, <3>2 DEF Backs, At
  <2>2. \/ sessions'[store].usable
        \/ \E r \in Request : pc[r] = "revoke" /\ held[r] = store /\ pc'[r] = "user"
    BY <1>1, <1>2, <1>3 DEF TableKept
  <2>. QED BY <1>1, <2>1, <2>2 DEF Row, Task
<1>4. ASSUME NEW k \in Task, Backs(k) PROVE Backs(k)'
  <2>1. /\ task'[k] = "refresh" /\ cap'[k] = store'
    BY <1>1, <1>4 DEF Backs, At
  <2>2. CASE Same(k)
    BY <1>4, <2>1, <2>2 DEF Backs, At, Same, Answered, Idle
  <2>3. CASE GoesOn(k)
    <3>1. pc[k] \in {"user", "create"}
      BY <1>4, <2>3 DEF Backs, GoesOn, Answered, Idle
    <3>. QED BY <2>1, <2>3, <3>1 DEF Backs, At, GoesOn
  <2>4. CASE BreaksOff(k)
    <3>1. pc[k] \in {"user", "create"} /\ held[k] = store
      BY <1>4, <2>4 DEF Backs, BreaksOff, Answered, Idle, OwnRequest
    <3>2. FamilyOf(store) \in hurt'
      BY <2>4, <3>1 DEF BreaksOff, Between
    <3>. QED BY <1>2, <3>2
  <2>5. CASE Creates(k)
    BY <2>1, <2>5 DEF Creates, Backs, At, Answered, Idle
  <2>. QED BY <2>2, <2>3, <2>4, <2>5 DEF ServerMoves, Task
<1>. QED BY <1>2, <1>3, <1>4, Backing

LEMMA ServerStep ==
    ASSUME ClientInv, TypeInv', Server \/ Outside
    PROVE  ClientInv' /\ (StoreBacked => StoreBacked')
<1>1. ServerMoves /\ UNCHANGED clientVars
  BY ServerSteps DEF Server, Outside, ClientInv
<1>2. ClientTypeOK'
  BY <1>1, ServerTypes DEF ClientInv, ServerMoves, TableKept
<1>. QED BY <1>1, <1>2, ServerHandOver, ServerOwn, ServerHolders, ServerBacks
         DEF ClientInv, LinkInv

-----------------------------------------------------------------------------
(* What the tasks do *)

Tasks == {"none", "fetch", "refresh", "retry", "me", "login", "logout"}
Screens == {"loading", "signedIn", "signedOut"}

\* A row that a task's step ends has its login recorded.
TableHurt ==
    /\ Rows \subseteq DOMAIN sessions' /\ hurt \subseteq hurt'
    /\ \A s \in Rows : sessions'[s].family = FamilyOf(s)
    /\ \A s \in Rows : Row(s).usable => sessions'[s].usable \/ FamilyOf(s) \in hurt'

\* Task k comes to an await; the stored pair stays, goes, or gives way to the one that
\* k was handed.
TaskMove(k, place, w) ==
    /\ Await(k, place, w)
    /\ place \in Tasks /\ w \in {NoToken, cap[k], store}
    /\ place \in {"refresh", "retry", "me", "logout"} => w # NoToken
    /\ store' \in {store, NoToken} \/ (Awaiting(k) /\ store' = reply[k].token)
    /\ trouble' \in BOOLEAN /\ screen' \in Screens
    /\ screen' = "loading" => screen = "loading" /\ place \in {"none", "me"}

\* What becomes of the request of k, and of the table.
RequestMove(k, place, w) ==
    /\ TableHurt
    /\ \A q \in Task \ {k} : Same(q)
    /\ held'[k] \in {held[k], NoToken, cap[k]}
    /\ pc'[k] # "idle" => place \in {"none", "refresh", "login"} /\ (place = "refresh" => held'[k] = w)
    /\ ~(place \in {"refresh", "login"} /\ pc'[k] = "idle" /\ reply'[k].kind = "ok")
    /\ store' = store /\ store # NoToken /\ ~trouble' =>
           ~trouble /\ ~Backs(k) /\ (held'[k] = store => place = "refresh")

LEMMA MoveTypes ==
    ASSUME ClientInv, NEW k \in Task, NEW place, NEW w, TaskMove(k, place, w),
           Rows \subseteq DOMAIN sessions'
    PROVE  ClientTypeOK'
<1>1. store' \in DOMAIN sessions' \union {NoToken}
  BY PagePairs DEF TaskMove, ClientInv, LinkInv, HandOver, Sound
<1>2. task' = [task EXCEPT ![k] = place] /\ cap' = [cap EXCEPT ![k] = w]
  BY DEF TaskMove, Await
<1>3. place \in Tasks /\ w \in Rows \union {NoToken}
  BY PagePairs DEF TaskMove, ClientInv
<1>4. task' \in [Task -> Tasks] /\ cap' \in [Task -> DOMAIN sessions' \union {NoToken}]
  BY <1>2, <1>3 DEF ClientInv, ClientTypeOK, Tasks
<1>5. \A j \in Task : task'[j] \in {"refresh", "retry", "me", "logout"} => cap'[j] # NoToken
  BY <1>2 DEF TaskMove, ClientInv, ClientTypeOK
<1>6. screen' = "loading" => \A j \in Task : task'[j] \in {"none", "me"}
  BY <1>2 DEF TaskMove, ClientInv, ClientTypeOK
<1>. QED BY <1>1, <1>4, <1>5, <1>6 DEF TaskMove, ClientTypeOK, Rows, Tasks, Screens

LEMMA MoveHandOver ==
    ASSUME ClientInv, NEW k \in Task, NEW place, NEW w, TaskMove(k, place, w),
           RequestMove(k, place, w)
    PROVE  HandOver'
<1>1. /\ task'[k] = place /\ cap'[k] = w
      /\ \A j \in Task \ {k} : task'[j] = task[j] /\ cap'[j] = cap[j]
  BY DEF TaskMove, Await, ClientInv, ClientTypeOK
<1>2. ~Awaiting(k)'
  BY <1>1 DEF RequestMove, Awaiting, Answered, Idle
<1>3. \A j \in Task \ {k} : Awaiting(j)' => Awaiting(j) /\ reply'[j] = reply[j] /\ held'[j] = held[j]
  BY <1>1 DEF RequestMove, Same, Awaiting, Answered, Idle
<1>4. ASSUME NEW j \in Task \ {k}, Awaiting(j)'
      PROVE  Sound(reply[j].token)' /\ Private(j, reply[j].token)'
  <2>1. PICK n : n = reply[j].token
    OBVIOUS
  <2>2. Awaiting(j) /\ reply'[j].token = n /\ Sound(n) /\ Private(j, n)
    BY <1>3, <1>4, <2>1 DEF ClientInv, LinkInv, HandOver
  <2>3. Sound(n)'
    BY <2>2 DEF Sound, RequestMove, TableHurt, FamilyOf, Row, Rows
  <2>4. n # NoToken
    BY <2>2, Table DEF Sound, ClientInv, TypeInv, TypeOK, NoToken
  <2>5. n # store'
    BY <2>2, <2>4 DEF Private, TaskMove
  <2>6. \A i \in Task : cap'[i] # n
    BY <1>1, <2>2, <2>4 DEF Private, TaskMove
  <2>7. \A i \in Task : held'[i] # n
    BY <2>2, <2>4 DEF Private, RequestMove, Same
  <2>8. \A i \in Task \ {j} : Awaiting(i)' => reply'[i].token # n
    BY <1>2, <1>3, <2>2 DEF Private
  <2>. QED BY <2>2, <2>3, <2>5, <2>6, <2>7, <2>8 DEF Private
<1>. QED BY <1>2, <1>4 DEF HandOver

LEMMA MoveOwn ==
    ASSUME ClientInv, NEW k \in Task, NEW place, NEW w, TaskMove(k, place, w),
           RequestMove(k, place, w)
    PROVE  OwnRequest'
<1>1. /\ task'[k] = place /\ cap'[k] = w
      /\ \A j \in Task \ {k} : task'[j] = task[j] /\ cap'[j] = cap[j]
  BY DEF TaskMove, Await, ClientInv, ClientTypeOK
<1>2. \A j \in Task \ {k} : pc'[j] = pc[j] /\ held'[j] = held[j]
  BY DEF RequestMove, Same
<1>. QED BY <1>1, <1>2 DEF ClientInv, LinkInv, OwnRequest, RequestMove, Idle, At

LEMMA MoveHolders ==
    ASSUME ClientInv, NEW k \in Task, NEW place, NEW w, TaskMove(k, place, w),
           RequestMove(k, place, w)
    PROVE  StoreHolders'
<1>1. /\ task'[k] = place
      /\ \A j \in Task \ {k} : task'[j] = task[j] /\ held'[j] = held[j]
  BY DEF TaskMove, Await, ClientInv, ClientTypeOK, RequestMove, Same
<1>2. CASE store' = store
  BY <1>1, <1>2 DEF ClientInv, LinkInv, StoreHolders, RequestMove, At, Task
<1>3. CASE store' = NoToken
  BY <1>3 DEF StoreHolders
<1>4. CASE Awaiting(k) /\ store' = reply[k].token
  <2>1. PICK n : n = reply[k].token
    OBVIOUS
  <2>2. Sound(n) /\ Private(k, n)
    BY <1>4, <2>1 DEF ClientInv, LinkInv, HandOver
  <2>3. n # NoToken
    BY <2>2, Table DEF Sound, ClientInv, TypeInv, TypeOK, NoToken
  <2>4. \A j \in Task : held'[j] # n
    BY <1>1, <2>2, <2>3 DEF Private, RequestMove
  <2>. QED BY <1>4, <2>1, <2>4 DEF StoreHolders, Task
<1>. QED BY <1>2, <1>3, <1>4 DEF TaskMove

LEMMA MoveBacks ==
    ASSUME ClientInv, StoreBacked, NEW k \in Task, NEW place, NEW w, TaskMove(k, place, w),
           RequestMove(k, place, w)
    PROVE  StoreBacked'
<1>. SUFFICES ASSUME store' # NoToken, ~trouble', FamilyOf(store)' \notin hurt'
              PROVE  Row(store)'.usable \/ \E j \in Task : Backs(j)'
  BY DEF StoreBacked, Backs
<1>1. \A j \in Task \ {k} : task'[j] = task[j] /\ cap'[j] = cap[j]
  BY DEF TaskMove, Await, ClientInv, ClientTypeOK
<1>2. ASSUME NEW n, n = store', Sound(n) PROVE Row(store)'.usable
  BY <1>2 DEF Sound, RequestMove, TableHurt, FamilyOf, Row
<1>3. CASE store' = store
  <2>1. store \in Rows /\ FamilyOf(store) \notin hurt
    BY <1>3, PagePairs DEF ClientInv, RequestMove, TableHurt, FamilyOf, Row
  <2>2. Row(store).usable \/ \E j \in Task : Backs(j)
    BY <1>3, <2>1, Backing DEF RequestMove
  <2>3. CASE Row(store).usable
    <3>1. Sound(store)
      BY <2>1, <2>3 DEF Sound
    <3>. QED BY <1>2, <1>3, <3>1
  <2>4. ASSUME NEW j \in Task, Backs(j) PROVE Backs(j)'
    <3>1. j # k
      BY <1>3, <2>4 DEF RequestMove
    <3>2. pc'[j] = pc[j] /\ reply'[j] = reply[j]
      BY <3>1 DEF RequestMove, Same
    <3>. QED BY <1>1, <1>3, <2>4, <3>1, <3>2 DEF Backs, At, Answered, Idle
  <2>. QED BY <2>2, <2>3, <2>4
<1>4. CASE Awaiting(k) /\ store' = reply[k].token
  <2>1. Sound(reply[k].token)
    BY <1>4 DEF ClientInv, LinkInv, HandOver
  <2>. QED BY <1>2, <1>4, <2>1
<1>. QED BY <1>3, <1>4 DEF TaskMove

Good == ClientInv' /\ (StoreBacked => StoreBacked')

LEMMA Moves ==
    ASSUME ClientInv, TypeInv', NEW k \in Task, NEW place, NEW w, TaskMove(k, place, w),
           RequestMove(k, place, w)
    PROVE  Good
<1>1. Rows \subseteq DOMAIN sessions'
  BY DEF RequestMove, TableHurt
<1>. QED BY <1>1, MoveTypes, MoveHandOver, MoveOwn, MoveHolders, MoveBacks
         DEF ClientInv, LinkInv, Good

LEMMA SameTableHurt ==
    ASSUME UNCHANGED <<sessions, hurt>>
    PROVE  TableHurt
BY SameTable DEF TableHurt, Rows

\* A step of the page alone: it leaves a refresh only with the pair replaced or in trouble.
LEMMA PageMove ==
    ASSUME ClientInv, NEW k \in Task, NEW place, NEW w, TaskMove(k, place, w), UNCHANGED vars,
           place \notin {"refresh", "login"}, Idle(k) \/ place = "none",
           store' = store /\ store # NoToken /\ ~trouble' =>
               ~trouble /\ (At(k, "refresh") => cap[k] # store)
    PROVE  RequestMove(k, place, w)
<1>1. TableHurt /\ \A q \in Task : Same(q)
  BY SameTableHurt DEF vars, requestVars, Same
<1>2. held' = held /\ pc' = pc
  BY DEF vars, requestVars
<1>3. ASSUME store' = store, store # NoToken, ~trouble'
      PROVE  ~trouble /\ ~Backs(k) /\ held[k] # store
  <2>1. ~trouble /\ (At(k, "refresh") => cap[k] # store)
    BY <1>3
  <2>2. ASSUME held[k] = store PROVE FALSE
    <3>1. At(k, "refresh")
      BY <1>3, <2>1, <2>2 DEF ClientInv, LinkInv, StoreHolders, Task
    <3>2. ~Idle(k)
      BY <1>3, <2>2 DEF ClientInv, TypeInv, TypeOK, Task
    <3>. QED BY <2>1, <2>2, <3>1, <3>2 DEF ClientInv, LinkInv, OwnRequest
  <2>. QED BY <2>1, <2>2 DEF Backs
<1>. QED BY <1>1, <1>2, <1>3 DEF RequestMove, Idle

\* A task that is not at an await of its own request has none in progress, or has left it.
LEMMA AtRest ==
    ASSUME ClientInv, NEW k \in Task
    PROVE  /\ Idle(k) => held[k] = NoToken
           /\ task[k] \in {"fetch", "retry", "me", "logout"} => Idle(k)
           /\ Answered(k, "ok") => Idle(k)
BY DEF ClientInv, TypeInv, TypeOK, LinkInv, OwnRequest, Task, Answered

LEMMA Stays ==
    ASSUME ClientInv, NEW k \in Task, UNCHANGED <<task, cap>>
    PROVE  Await(k, task[k], cap[k])
BY DEF ClientInv, ClientTypeOK, Await

\* Every step of a task that leaves the server alone.
LEMMA PageSteps ==
    ASSUME ClientInv, TypeInv', NEW k \in Task,
           \/ Begin(k) \/ FetchEnds(k) \/ Refreshed(k) \/ RetryEnds(k) \/ SessionExpired(k)
           \/ ConnectionLost(k) \/ LoadUser(k) \/ MeKnown(k) \/ MeFails(k) \/ LoggedIn(k)
           \/ LoginFails(k) \/ Logout(k) \/ LogoutEnds(k)
    PROVE  Good
<1>1. trouble \in BOOLEAN /\ screen \in Screens
  BY DEF ClientInv, ClientTypeOK, Screens
<1>2. ASSUME NEW place, NEW w, TaskMove(k, place, w), UNCHANGED vars,
             place \notin {"refresh", "login"}, Idle(k) \/ place = "none",
             store' = store /\ store # NoToken /\ ~trouble' =>
                 ~trouble /\ (At(k, "refresh") => cap[k] # store)
      PROVE  Good
  BY <1>2, PageMove, Moves
<1>3. ASSUME Begin(k) PROVE Good
  <2>1. TaskMove(k, "fetch", store)
    BY <1>1, <1>3 DEF Begin, Keep, TaskMove, Tasks
  <2>. QED BY <1>2, <1>3, <2>1 DEF Begin, Keep, At
<1>4. ASSUME FetchEnds(k) \/ RetryEnds(k) \/ LoginFails(k) PROVE Good
  <2>1. TaskMove(k, "none", NoToken) /\ UNCHANGED vars /\ ~At(k, "refresh") /\ trouble' = trouble
    BY <1>1, <1>4 DEF FetchEnds, RetryEnds, LoginFails, Keep, Finish, TaskMove, Tasks, At
  <2>. QED BY <1>2, <2>1
<1>5. ASSUME Refreshed(k) PROVE Good
  <2>1. Awaiting(k)
    BY <1>5 DEF Refreshed, Awaiting, At
  <2>2. store' = reply[k].token /\ reply[k].token # store
    BY <1>5, <2>1 DEF Refreshed, Store, NewPair, ClientInv, LinkInv, HandOver, Private
  <2>3. cap[k] # NoToken /\ screen # "loading"
    BY <1>5 DEF Refreshed, At, ClientInv, ClientTypeOK
  <2>4. TaskMove(k, "retry", cap[k])
    BY <1>1, <1>5, <2>1, <2>2, <2>3 DEF Refreshed, Store, Keep, TaskMove, Tasks
  <2>. QED BY <1>2, <1>5, <2>2, <2>4 DEF Refreshed, Answered, Keep
<1>6. ASSUME SessionExpired(k) \/ MeFails(k) \/ LogoutEnds(k) PROVE Good
  <2>1. TaskMove(k, "none", NoToken)
    BY <1>1, <1>6 DEF SessionExpired, MeFails, LogoutEnds, Store, Keep, Finish, TaskMove, Tasks, Screens
  <2>2. store' = NoToken /\ UNCHANGED vars
    BY <1>6 DEF SessionExpired, MeFails, LogoutEnds, Store, Keep
  <2>. QED BY <1>2, <2>1, <2>2
<1>7. ASSUME ConnectionLost(k) PROVE Good
  <2>1. trouble' = (trouble \/ cap[k] = store) /\ UNCHANGED vars
    BY <1>7 DEF ConnectionLost, Lost, Keep
  <2>2. TaskMove(k, "none", NoToken)
    BY <1>1, <1>7, <2>1 DEF ConnectionLost, Keep, Finish, TaskMove, Tasks
  <2>. QED BY <1>2, <2>1, <2>2
<1>8. ASSUME LoadUser(k) PROVE Good
  <2>1. /\ Idle(k) /\ At(k, "none") /\ screen = "loading" /\ UNCHANGED vars /\ store' = store
        /\ trouble' = trouble
    BY <1>8 DEF LoadUser, Keep
  <2>2. CASE store = NoToken
    <3>1. TaskMove(k, "none", cap[k])
      BY <1>1, <1>8, <2>1, <2>2, Stays DEF LoadUser, TaskMove, Tasks, Screens, At
    <3>. QED BY <1>2, <2>1, <3>1 DEF At
  <2>3. CASE store # NoToken
    <3>1. TaskMove(k, "me", store)
      BY <1>1, <1>8, <2>1, <2>3 DEF LoadUser, TaskMove, Tasks
    <3>. QED BY <1>2, <2>1, <3>1 DEF At
  <2>. QED BY <2>2, <2>3
<1>9. ASSUME MeKnown(k) PROVE Good
  <2>1. TaskMove(k, "none", NoToken) /\ UNCHANGED vars /\ ~At(k, "refresh") /\ trouble' = trouble
    BY <1>1, <1>9 DEF MeKnown, Keep, Finish, TaskMove, Tasks, Screens, At
  <2>. QED BY <1>2, <2>1
<1>10. ASSUME LoggedIn(k) PROVE Good
  <2>1. Awaiting(k)
    BY <1>10 DEF LoggedIn, Awaiting, At
  <2>2. store' = reply[k].token /\ reply[k].token # store
    BY <1>10, <2>1 DEF LoggedIn, Store, ClientInv, LinkInv, HandOver, Private
  <2>3. TaskMove(k, "none", NoToken)
    BY <1>1, <1>10, <2>1, <2>2 DEF LoggedIn, Store, Finish, TaskMove, Tasks, Screens
  <2>. QED BY <1>2, <1>10, <2>2, <2>3 DEF LoggedIn
<1>11. ASSUME Logout(k) PROVE Good
  <2>1. /\ Idle(k) /\ At(k, "none") /\ screen = "signedIn" /\ UNCHANGED vars /\ store' = store
        /\ trouble' = trouble
    BY <1>11 DEF Logout, Keep
  <2>2. CASE store = NoToken
    <3>1. TaskMove(k, "none", cap[k])
      BY <1>1, <1>11, <2>1, <2>2, Stays DEF Logout, TaskMove, Tasks, Screens, At
    <3>. QED BY <1>2, <2>1, <3>1 DEF At
  <2>3. CASE store # NoToken
    <3>1. TaskMove(k, "logout", store)
      BY <1>1, <1>11, <2>1, <2>3 DEF Logout, TaskMove, Tasks
    <3>. QED BY <1>2, <2>1, <3>1 DEF At
  <2>. QED BY <2>2, <2>3
<1>. QED BY <1>3, <1>4, <1>5, <1>6, <1>7, <1>8, <1>9, <1>10, <1>11

\* The steps of a task that send something to the server, or that it answers at once.
LEMMA SendSteps ==
    ASSUME ClientInv, TypeInv', NEW k \in Task,
           FetchUnauthorized(k) \/ RefreshArrives(k) \/ LoginSent(k) \/ LogoutArrives(k)
    PROVE  Good
<1>1. trouble \in BOOLEAN /\ screen \in Screens /\ (cap[k] \in Rows \/ cap[k] = NoToken)
  BY PagePairs DEF ClientInv, ClientTypeOK, Screens
<1>2. TypeInv /\ (Idle(k) => held[k] = NoToken)
  BY AtRest DEF ClientInv
<1>3. ASSUME FetchUnauthorized(k) PROVE Good
  <2>1. /\ At(k, "fetch") /\ cap[k] # NoToken /\ Await(k, "refresh", cap[k])
        /\ UNCHANGED <<sessions, pc, held, hurt, store, screen, trouble>>
        /\ reply' = [reply EXCEPT ![k] = [kind |-> "none", token |-> NoToken]]
    BY <1>3 DEF FetchUnauthorized, HasRefreshToken
  <2>2. screen # "loading"
    BY <2>1 DEF ClientInv, ClientTypeOK, At
  <2>3. TaskMove(k, "refresh", cap[k])
    BY <1>1, <2>1, <2>2 DEF TaskMove, Tasks
  <2>4. reply'[k].kind = "none" /\ \A q \in Task \ {k} : Same(q)
    <3>1. reply'[k] = [kind |-> "none", token |-> NoToken]
      BY <1>2, <2>1 DEF TypeInv, TypeOK, Task
    <3>2. reply'[k].kind = "none"
      BY <3>1
    <3>. QED BY <1>2, <2>1, <3>2 DEF TypeInv, TypeOK, Task, Same
  <2>5. Idle(k)
    BY <2>1, AtRest DEF At
  <2>6. ~Backs(k)
    BY <2>1 DEF Backs, At
  <2>7. TableHurt
    BY <2>1, SameTableHurt
  <2>. QED BY <2>1, <2>3, <2>4, <2>5, <2>6, <2>7, Moves DEF RequestMove, Idle
<1>4. ASSUME RefreshArrives(k) PROVE Good
  <2>1. /\ At(k, "refresh") /\ Idle(k) /\ reply[k].kind = "none" /\ UNCHANGED clientVars
        /\ UNCHANGED <<sessions, hurt>>
    BY <1>4 DEF RefreshArrives, RefreshFind, RefreshRefused
  <2>2. cap[k] # NoToken /\ screen # "loading"
    BY <2>1 DEF ClientInv, ClientTypeOK, At
  <2>3. TaskMove(k, "refresh", cap[k])
    BY <1>1, <2>1, <2>2, Stays DEF TaskMove, Tasks, clientVars, At
  <2>4. ~Backs(k) /\ TableHurt
    BY <1>2, <2>1, SameTableHurt DEF Backs, Answered, Idle
  <2>5. \/ GoOn(k, "revoke", cap[k], Row(cap[k]).user)
        \/ Respond(k, "refused", NoToken)
    BY <1>4 DEF RefreshArrives, RefreshFind, RefreshRefused
  <2>6. /\ \A q \in Task \ {k} : Same(q)
        /\ held'[k] \in {NoToken, cap[k]} /\ reply'[k].kind # "ok"
        /\ pc'[k] # "idle" => held'[k] = cap[k]
    BY <1>2, <2>5, GoOnMoves, RespondEnds DEF Task
  <2>7. trouble' = trouble
    BY <2>1 DEF clientVars
  <2>. QED BY <2>3, <2>4, <2>6, <2>7, Moves DEF RequestMove
<1>5. ASSUME LoginSent(k) PROVE Good
  <2>1. /\ screen = "signedOut" /\ At(k, "none") /\ Idle(k) /\ Await(k, "login", NoToken)
        /\ UNCHANGED <<store, screen, trouble, sessions, hurt>>
    BY <1>5 DEF LoginSent, LoginRefused, LoginFind
  <2>2. TaskMove(k, "login", NoToken)
    BY <1>1, <2>1 DEF TaskMove, Tasks
  <2>3. ~Backs(k) /\ TableHurt
    BY <2>1, SameTableHurt DEF Backs, At
  <2>4. \/ \E place, u : GoOn(k, place, NoToken, u)
        \/ Respond(k, "refused", NoToken)
    BY <1>5 DEF LoginSent, LoginRefused, LoginFind
  <2>5. /\ \A q \in Task \ {k} : Same(q)
        /\ held'[k] = NoToken /\ reply'[k].kind # "ok"
    BY <1>2, <2>4, GoOnMoves, RespondEnds DEF Task
  <2>. QED BY <2>1, <2>2, <2>3, <2>5, Moves DEF RequestMove
<1>6. ASSUME LogoutArrives(k) PROVE Good
  <2>1. /\ At(k, "logout") /\ Idle(k) /\ UNCHANGED clientVars /\ sessions' = Revoke(cap[k])
        /\ hurt' = hurt \union {FamilyOf(s) : s \in Rows \intersect {cap[k]}}
        /\ Respond(k, "ok", NoToken)
    BY <1>6 DEF LogoutArrives, LogoutRevoke
  <2>2. cap[k] \in Rows /\ cap[k] # NoToken /\ screen # "loading"
    BY <1>1, <2>1 DEF ClientInv, ClientTypeOK, At
  <2>3. TaskMove(k, "logout", cap[k])
    BY <1>1, <2>1, <2>2, Stays DEF TaskMove, Tasks, clientVars, At
  <2>4. FamilyOf(cap[k]) \in hurt' /\ hurt \subseteq hurt'
    BY <2>1, <2>2
  <2>5. TableHurt
    BY <1>2, <2>1, <2>4, RevokedTable DEF TableHurt
  <2>6. \A q \in Task \ {k} : Same(q)
    BY <1>2, <2>1, RespondEnds DEF Task
  <2>7. pc'[k] = "idle" /\ held'[k] = NoToken
    BY <1>2, <2>1, RespondEnds DEF Task
  <2>8. ~Backs(k) /\ trouble' = trouble
    BY <2>1 DEF Backs, At, clientVars
  <2>. QED BY <2>3, <2>5, <2>6, <2>7, <2>8, Moves DEF RequestMove
<1>. QED BY <1>3, <1>4, <1>5, <1>6

\* F5: nobody awaits anything any more.
LEMMA ReloadStep ==
    ASSUME ClientInv, TypeInv', Reload
    PROVE  Good
<1>1. /\ UNCHANGED vars /\ store' = store /\ screen' = "loading"
      /\ \A k \in Task : task'[k] = "none" /\ cap'[k] = NoToken
      /\ task' \in [Task -> {"none"}] /\ cap' \in [Task -> {NoToken}]
      /\ trouble' = (trouble \/ \E k \in {j \in Task : At(j, "refresh")} : cap[k] = store)
  BY DEF Reload, Keep, Lost
<1>2. ~trouble' => ~trouble /\ \A k \in Task : At(k, "refresh") => cap[k] # store
  BY <1>1
<1>3. sessions' = sessions /\ pc' = pc /\ held' = held /\ hurt' = hurt /\ reply' = reply
  BY <1>1 DEF vars, requestVars
<1>4. trouble' \in BOOLEAN
  BY <1>1 DEF ClientInv, ClientTypeOK
<1>5. ClientTypeOK'
  BY <1>1, <1>3, <1>4 DEF ClientInv, ClientTypeOK, Rows
<1>6. HandOver' /\ OwnRequest'
  BY <1>1 DEF HandOver, Awaiting, OwnRequest, At
<1>7. StoreHolders'
  <2>. SUFFICES ASSUME store # NoToken, ~trouble', NEW r \in Request, held[r] = store
                PROVE  FALSE
    BY <1>1, <1>3 DEF StoreHolders
  <2>1. At(r, "refresh") /\ ~Idle(r)
    BY <1>2 DEF ClientInv, LinkInv, StoreHolders, TypeInv, TypeOK
  <2>2. cap[r] = store
    BY <2>1 DEF ClientInv, LinkInv, OwnRequest, Task
  <2>. QED BY <1>2, <2>1, <2>2 DEF Task
<1>8. StoreBacked => StoreBacked'
  <2>. SUFFICES ASSUME StoreBacked, store # NoToken, ~trouble', FamilyOf(store) \notin hurt
                PROVE  Row(store).usable
    BY <1>1, <1>3 DEF StoreBacked, FamilyOf, Row
  <2>. QED BY <1>2, Backing DEF Backs
<1>. QED BY <1>5, <1>6, <1>7, <1>8 DEF Good, ClientInv, LinkInv

-----------------------------------------------------------------------------
(* The whole *)

\* Every step keeps the server's types: the page calls the handlers with pairs that are
\* there, and what it does besides leaves the server's state alone.
LEMMA ClientTypes == ClientInv /\ [ClientNext]_allVars => TypeInv'
<1>. SUFFICES ASSUME ClientInv, [ClientNext]_allVars PROVE TypeInv'
  OBVIOUS
<1>1. [Next]_vars => TypeInv'
  BY TypeStep DEF ClientInv
<1>2. ASSUME NEW k \in Task, RefreshArrives(k) \/ LogoutArrives(k) PROVE TypeInv'
  <2>1. cap[k] \in Rows
    BY <1>2 DEF RefreshArrives, LogoutArrives, At, ClientInv, ClientTypeOK
  <2>. QED BY <1>1, <1>2, <2>1 DEF RefreshArrives, LogoutArrives, Next, Task
<1>3. ASSUME NEW k \in Task, LoginSent(k) PROVE TypeInv'
  BY <1>1, <1>3 DEF LoginSent, Next, Task
<1>4. ASSUME NEW k \in Task, FetchUnauthorized(k) PROVE TypeInv'
  <2>1. /\ reply' = [reply EXCEPT ![k] = [kind |-> "none", token |-> NoToken]]
        /\ UNCHANGED <<sessions, account, pc, held, who, hurt>>
    BY <1>4 DEF FetchUnauthorized
  <2>2. reply' \in [Request -> Answer]
    <3>1. [kind |-> "none", token |-> NoToken] \in Answer
      BY DEF Answer
    <3>. QED BY <2>1, <3>1 DEF ClientInv, TypeInv, TypeOK
  <2>3. Busy' = Busy
    BY <2>1 DEF Busy, Idle
  <2>4. TypeOK'
    BY <2>1, <2>2 DEF ClientInv, TypeInv, TypeOK, Idle, Rows, Row
  <2>5. ServeOK'
    BY <2>1, <2>3 DEF ClientInv, TypeInv, ServeOK, Rows, Row, FamilyOf
  <2>. QED BY <2>4, <2>5 DEF TypeInv
<1>5. ASSUME UNCHANGED vars PROVE TypeInv'
  BY <1>1, <1>5
<1>6. ASSUME Server \/ Outside PROVE TypeInv'
  BY <1>1, <1>6 DEF Server, Outside, Next
<1>. QED BY <1>2, <1>3, <1>4, <1>5, <1>6
         DEF ClientNext, RequestStep, AuthStep, Begin, FetchEnds, Refreshed, RetryEnds,
             SessionExpired, ConnectionLost, LoadUser, MeKnown, MeFails, LoggedIn, LoginFails,
             Logout, LogoutEnds, Reload, Keep, allVars

LEMMA ClientStart == ClientInit => ClientInv /\ StoreBacked
<1>. SUFFICES ASSUME ClientInit PROVE ClientInv /\ StoreBacked
  OBVIOUS
<1>1. TypeInv
  BY TypeInit DEF ClientInit
<1>2. ClientTypeOK
  BY DEF ClientInit, ClientTypeOK
<1>3. LinkInv
  BY DEF ClientInit, Init, LinkInv, HandOver, Awaiting, OwnRequest, Idle, StoreHolders, At, Task
<1>4. StoreBacked
  BY DEF ClientInit, StoreBacked
<1>. QED BY <1>1, <1>2, <1>3, <1>4 DEF ClientInv

LEMMA ClientStep == ClientInv /\ [ClientNext]_allVars => ClientInv' /\ (StoreBacked => StoreBacked')
<1>. SUFFICES ASSUME ClientInv, [ClientNext]_allVars PROVE Good
  BY DEF Good
<1>1. TypeInv'
  BY ClientTypes
<1>2. CASE Server \/ Outside
  BY <1>1, <1>2, ServerStep DEF Good
<1>3. CASE Reload
  BY <1>1, <1>3, ReloadStep
<1>4. ASSUME NEW k \in Task, Begin(k) \/ LoadUser(k) \/ LoginSent(k) \/ Logout(k)
                             \/ RequestStep(k) \/ AuthStep(k)
      PROVE  Good
  BY <1>1, <1>4, PageSteps, SendSteps DEF RequestStep, AuthStep
<1>5. CASE UNCHANGED allVars
  <2>1. UNCHANGED <<sessions, account, pc, held, who, reply, hurt, store, task, cap, screen, trouble>>
    BY <1>5 DEF allVars, vars, requestVars, clientVars
  <2>2. ClientTypeOK'
    BY <2>1 DEF ClientInv, ClientTypeOK, Rows
  <2>3. LinkInv'
    BY <2>1 DEF ClientInv, LinkInv, HandOver, Sound, Private, Awaiting, Answered, OwnRequest,
                StoreHolders, At, Idle, Rows, Row, FamilyOf
  <2>4. StoreBacked => StoreBacked'
    BY <2>1 DEF StoreBacked, At, Answered, Idle, Row, FamilyOf
  <2>. QED BY <1>1, <2>2, <2>3, <2>4 DEF Good, ClientInv
<1>. QED BY <1>2, <1>3, <1>4, <1>5 DEF ClientNext

\* What the page stores and reads from its store is a pair that was issued, and a task
\* that awaits an exchange, a retry, the user or a logout has one.
THEOREM ClientTypeCorrect == ClientSpec => []ClientTypeOK
<1>1. ClientInv => ClientTypeOK
  BY DEF ClientInv
<1>. QED BY <1>1, ClientStart, ClientStep, PTL DEF ClientSpec

\* The stored pair works, or a request that read it is about to replace it, however
\* refreshes, logouts, reloads, failures and restarts overlap: unless the server ended the
\* login by itself, or an answer to the exchange of this very pair was lost.
THEOREM StoredPairBacked == ClientSpec => []StoreBacked
<1>. QED BY ClientStart, ClientStep, PTL DEF ClientSpec
=============================================================================
