--------------------------- MODULE SessionsProofs ---------------------------
(***************************************************************************)
(* Theorems about Sessions, for any set of accounts, any finite set of     *)
(* requests and any bound on the table.                                    *)
(***************************************************************************)
EXTENDS SessionsLogins, FiniteSetTheorems, SequenceTheorems, TLAPS

Busy == {r \in Request : ~Idle(r)}

\* Whoever creates a session works on a row that is there, or on none; a family is the
\* row of its login; and there is room for a row of each request in progress.
ServeOK ==
    /\ \A r \in Request : held[r] = NoToken \/ held[r] \in Rows
    /\ \A t \in Rows : FamilyOf(t) \in Rows
    /\ Len(sessions) + Cardinality(Busy) <= MaxSessions

TypeInv == TypeOK /\ ServeOK

-----------------------------------------------------------------------------
(* The table *)

LEMMA LenOfDomain ==
    ASSUME NEW S, NEW s \in Seq(S), NEW n \in Nat, DOMAIN s = 1 .. n
    PROVE  Len(s) = n
<1>1. Len(s) \in Nat /\ DOMAIN s = 1 .. Len(s)
  BY LenProperties
<1>2. ASSUME Len(s) < n PROVE FALSE
  <2>1. n \in 1 .. n /\ n \notin 1 .. Len(s)
    BY <1>1, <1>2
  <2>. QED BY <1>1, <2>1
<1>3. ASSUME n < Len(s) PROVE FALSE
  <2>1. Len(s) \in 1 .. Len(s) /\ Len(s) \notin 1 .. n
    BY <1>1, <1>3
  <2>. QED BY <1>1, <2>1
<1>. QED BY <1>1, <1>2, <1>3

LEMMA Table ==
    ASSUME sessions \in Seq(Session)
    PROVE  /\ Len(sessions) \in Nat /\ Rows = 1 .. Len(sessions)
           /\ \A t \in Rows : Row(t) \in Session
<1>1. Len(sessions) \in Nat /\ Rows = 1 .. Len(sessions)
  BY LenProperties DEF Rows
<1>2. \A t \in 1 .. Len(sessions) : sessions[t] \in Session
  BY ElementOfSeq
<1>. QED BY <1>1, <1>2 DEF Row

\* A revoked row, and what of it stays.
LEMMA RevokedRow ==
    ASSUME NEW w \in Session
    PROVE  /\ [w EXCEPT !.usable = FALSE] \in Session
           /\ [w EXCEPT !.usable = FALSE].user = w.user
           /\ [w EXCEPT !.usable = FALSE].from = w.from
           /\ [w EXCEPT !.usable = FALSE].family = w.family
           /\ ~[w EXCEPT !.usable = FALSE].usable
BY DEF Session

\* Revoke changes one row at most, and of that one only whether it is usable.
LEMMA RevokeKeeps ==
    ASSUME sessions \in Seq(Session), NEW t
    PROVE  /\ Revoke(t) \in Seq(Session) /\ Len(Revoke(t)) = Len(sessions)
           /\ \A s \in Rows : /\ Revoke(t)[s].user = Row(s).user
                              /\ Revoke(t)[s].from = Row(s).from
                              /\ Revoke(t)[s].family = Row(s).family
                              /\ s # t => Revoke(t)[s] = Row(s)
                              /\ s = t => ~Revoke(t)[s].usable
<1>1. \A s \in Rows : Revoke(t)[s] = IF s = t THEN [Row(s) EXCEPT !.usable = FALSE] ELSE Row(s)
  BY DEF Revoke
<1>2. \A s \in Rows : Revoke(t)[s] \in Session
  BY <1>1, Table, RevokedRow
<1>3. Revoke(t) \in [1 .. Len(sessions) -> Session]
  BY <1>2, Table DEF Revoke
<1>4. Revoke(t) \in Seq(Session)
  BY <1>3, Table, SeqDef
<1>5. ASSUME NEW s \in Rows
      PROVE  /\ Revoke(t)[s].user = Row(s).user /\ Revoke(t)[s].from = Row(s).from
             /\ Revoke(t)[s].family = Row(s).family
             /\ s # t => Revoke(t)[s] = Row(s)
             /\ s = t => ~Revoke(t)[s].usable
  <2>1. Row(s) \in Session
    BY Table
  <2>2. CASE s = t
    <3>1. Revoke(t)[s] = [Row(s) EXCEPT !.usable = FALSE]
      BY <1>1, <2>2, Zenon
    <3>. QED BY <2>1, <2>2, <3>1, RevokedRow, Zenon
  <2>3. CASE s # t
    BY <1>1, <2>3, Zenon
  <2>. QED BY <2>2, <2>3
<1>. QED BY <1>3, <1>4, <1>5, Table, LenOfDomain

\* The end of the thirty days is a Revoke as far as the table goes.
LEMMA ExpiryRevokes ==
    ASSUME sessions \in Seq(Session), NEW t \in Rows
    PROVE  [sessions EXCEPT ![t].usable = FALSE] = Revoke(t)
<1>1. sessions = [s \in Rows |-> sessions[s]]
  BY LenProperties, Table
<1>. QED BY <1>1 DEF Revoke, Row

LEMMA CreateAppends ==
    ASSUME sessions \in Seq(Session), NEW u \in User, NEW from, from = NoToken \/ from \in Rows,
           MaxSessions \in Nat, Len(sessions) + 1 <= MaxSessions
    PROVE  /\ Create(u, from) \in Seq(Session) /\ Len(Create(u, from)) = Len(sessions) + 1
           /\ \A s \in Rows : Create(u, from)[s] = Row(s)
           /\ Create(u, from)[Len(sessions) + 1] =
                  [user |-> u, usable |-> TRUE, from |-> from,
                   family |-> IF from = NoToken THEN Len(sessions) + 1 ELSE FamilyOf(from)]
<1>. DEFINE new == [user |-> u, usable |-> TRUE, from |-> from,
                    family |-> IF from = NoToken THEN Len(sessions) + 1 ELSE FamilyOf(from)]
<1>1. Len(sessions) \in Nat /\ Rows = 1 .. Len(sessions) /\ \A t \in Rows : Row(t) \in Session
  BY Table
<1>2. (IF from = NoToken THEN Len(sessions) + 1 ELSE FamilyOf(from)) \in Token
  BY <1>1 DEF FamilyOf, Session, Token
<1>3. from \in Token \union {NoToken}
  BY <1>1 DEF Token
<1>4. new \in Session
  BY <1>2, <1>3, Zenon DEF Session
<1>5. Create(u, from) = Append(sessions, new)
  BY DEF Create
<1>. HIDE DEF new
<1>6. /\ Append(sessions, new) \in Seq(Session) /\ Len(Append(sessions, new)) = Len(sessions) + 1
      /\ \A s \in 1 .. Len(sessions) : Append(sessions, new)[s] = sessions[s]
      /\ Append(sessions, new)[Len(sessions) + 1] = new
  BY <1>4, AppendProperties
<1>. QED BY <1>1, <1>5, <1>6 DEF Row, new

-----------------------------------------------------------------------------
(* Types *)

\* The table keeps its rows and their users, and gains n; families are rows.
Grows(n) ==
    /\ sessions' \in Seq(Session) /\ Len(sessions') = Len(sessions) + n
    /\ \A s \in DOMAIN sessions' : sessions'[s].family \in DOMAIN sessions'
    /\ \A s \in Rows : sessions'[s].user = Row(s).user

\* What belongs to no request keeps its types.
RestOK ==
    /\ account' \in [User -> {"active", "inactive", "deleted"}]
    /\ hurt' \subseteq DOMAIN sessions'

Place == {"idle", "revoke", "user", "create", "createAfter401"}

LEMMA BusyFinite == IsFiniteSet(Busy) /\ Cardinality(Busy) \in Nat
<1>1. IsFiniteSet(Busy)
  BY RequestAssumption, FS_Subset DEF Busy
<1>. QED BY <1>1, FS_CardinalityType

LEMMA BusyEnds ==
    ASSUME TypeInv, NEW r \in Request, pc' = [pc EXCEPT ![r] = "idle"]
    PROVE  Cardinality(Busy') = IF Idle(r) THEN Cardinality(Busy) ELSE Cardinality(Busy) - 1
<1>1. Busy' = Busy \ {r}
  BY DEF Busy, Idle, TypeInv, TypeOK
<1>2. r \in Busy <=> ~Idle(r)
  BY DEF Busy
<1>. QED BY <1>1, <1>2, BusyFinite, FS_RemoveElement

LEMMA BusyBegins ==
    ASSUME TypeInv, NEW r \in Request, NEW place, place # "idle", pc' = [pc EXCEPT ![r] = place]
    PROVE  Cardinality(Busy') = IF Idle(r) THEN Cardinality(Busy) + 1 ELSE Cardinality(Busy)
<1>1. Busy' = Busy \union {r}
  BY DEF Busy, Idle, TypeInv, TypeOK
<1>2. r \in Busy <=> ~Idle(r)
  BY DEF Busy
<1>. QED BY <1>1, <1>2, BusyFinite, FS_AddElement

LEMMA GrownRows ==
    ASSUME sessions \in Seq(Session), NEW n \in Nat, Grows(n)
    PROVE  /\ DOMAIN sessions' = 1 .. Len(sessions) + n
           /\ Rows \subseteq DOMAIN sessions'
<1>1. DOMAIN sessions' = 1 .. Len(sessions')
  BY LenProperties DEF Grows
<1>. QED BY <1>1, Table DEF Grows

\* A request comes to its end: it may have added one row.
LEMMA RespondTypes ==
    ASSUME TypeInv, NEW r \in Request, NEW n \in {0, 1}, n = 0 \/ ~Idle(r), Grows(n), RestOK,
           NEW kind \in {"ok", "refused"}, NEW token \in Token \union {NoToken},
           Respond(r, kind, token)
    PROVE  TypeInv'
<1>1. /\ sessions \in Seq(Session) /\ Len(sessions) \in Nat /\ Rows = 1 .. Len(sessions)
      /\ DOMAIN sessions' = 1 .. Len(sessions) + n /\ Rows \subseteq DOMAIN sessions'
  BY Table, GrownRows DEF TypeInv, TypeOK
<1>2. Len(sessions') + Cardinality(Busy') <= MaxSessions
  <2>1. pc' = [pc EXCEPT ![r] = "idle"]
    BY DEF Respond
  <2>2. Cardinality(Busy') = IF Idle(r) THEN Cardinality(Busy) ELSE Cardinality(Busy) - 1
    BY <2>1, BusyEnds
  <2>. QED BY <1>1, <2>2, BusyFinite, BoundAssumption DEF TypeInv, ServeOK, Grows
<1>3. Len(sessions') <= MaxSessions
  <2>1. Busy' \subseteq Request
    BY DEF Busy
  <2>2. Cardinality(Busy') \in Nat
    BY <2>1, RequestAssumption, FS_Subset, FS_CardinalityType
  <2>. QED BY <1>1, <1>2, <2>2, BoundAssumption DEF Grows
<1>4. /\ pc' = [pc EXCEPT ![r] = "idle"] /\ held' = [held EXCEPT ![r] = NoToken]
      /\ who' = [who EXCEPT ![r] = NoUser]
      /\ reply' = [reply EXCEPT ![r] = [kind |-> kind, token |-> token]]
  BY DEF Respond
<1>5. /\ pc' \in [Request -> Place] /\ held' \in [Request -> Token \union {NoToken}]
      /\ who' \in [Request -> User \union {NoUser}]
  BY <1>4 DEF TypeInv, TypeOK, Place
<1>6. reply' \in [Request -> Answer]
  <2>1. [kind |-> kind, token |-> token] \in Answer
    BY DEF Answer
  <2>. QED BY <1>4, <2>1 DEF TypeInv, TypeOK
<1>7. \A q \in Request : held'[q] = NoToken \/ held'[q] \in DOMAIN sessions'
  BY <1>1, <1>4 DEF TypeInv, TypeOK, ServeOK
<1>8. \A q \in Request : /\ pc'[q] = "idle" <=> who'[q] = NoUser
                         /\ pc'[q] = "idle" => held'[q] = NoToken
  BY <1>4 DEF TypeInv, TypeOK, Idle
<1>9. \A q \in Request : pc'[q] \in {"revoke", "user"} =>
          held'[q] \in DOMAIN sessions' /\ who'[q] = sessions'[held'[q]].user
  BY <1>1, <1>4 DEF TypeInv, TypeOK, Grows, Row
<1>. QED BY <1>2, <1>3, <1>5, <1>6, <1>7, <1>8, <1>9
         DEF TypeInv, TypeOK, ServeOK, Grows, RestOK, Rows, Row, FamilyOf, Idle, Place

\* A request goes on to its next statement, having revoked a row at most.
LEMMA GoOnTypes ==
    ASSUME TypeInv, NEW r \in Request, Grows(0), RestOK,
           ~Idle(r) \/ Room,
           NEW place \in Place \ {"idle"}, NEW token, NEW user \in User,
           token = NoToken \/ token \in Rows,
           place \in {"revoke", "user"} => token \in Rows /\ user = Row(token).user,
           GoOn(r, place, token, user)
    PROVE  TypeInv'
<1>1. /\ sessions \in Seq(Session) /\ Len(sessions) \in Nat /\ Rows = 1 .. Len(sessions)
      /\ Len(sessions') = Len(sessions) /\ DOMAIN sessions' = Rows
      /\ Len(sessions) <= MaxSessions
  BY Table, GrownRows DEF TypeInv, TypeOK, Grows
<1>2. Len(sessions') + Cardinality(Busy') <= MaxSessions
  <2>1. pc' = [pc EXCEPT ![r] = place]
    BY DEF GoOn
  <2>2. Cardinality(Busy') = IF Idle(r) THEN Cardinality(Busy) + 1 ELSE Cardinality(Busy)
    BY <2>1, BusyBegins
  <2>3. Room => Len(sessions) + Cardinality(Busy) < MaxSessions
    BY DEF Room, Busy
  <2>. QED BY <1>1, <2>2, <2>3, BusyFinite, BoundAssumption DEF TypeInv, ServeOK
<1>4. /\ pc' = [pc EXCEPT ![r] = place] /\ held' = [held EXCEPT ![r] = token]
      /\ who' = [who EXCEPT ![r] = user]
      /\ reply' = [reply EXCEPT ![r] = [kind |-> "none", token |-> NoToken]]
  BY DEF GoOn
<1>5. /\ pc' \in [Request -> Place] /\ held' \in [Request -> Token \union {NoToken}]
      /\ who' \in [Request -> User \union {NoUser}]
  BY <1>1, <1>4, BoundAssumption DEF TypeInv, TypeOK, Place, Token
<1>6. reply' \in [Request -> Answer]
  <2>1. [kind |-> "none", token |-> NoToken] \in Answer
    BY DEF Answer
  <2>. QED BY <1>4, <2>1 DEF TypeInv, TypeOK
<1>7. \A q \in Request : held'[q] = NoToken \/ held'[q] \in DOMAIN sessions'
  BY <1>1, <1>4 DEF TypeInv, TypeOK, ServeOK
<1>8. \A q \in Request : /\ pc'[q] = "idle" <=> who'[q] = NoUser
                         /\ pc'[q] = "idle" => held'[q] = NoToken
  BY <1>4, NoUserAssumption DEF TypeInv, TypeOK, Idle
<1>9. \A q \in Request : pc'[q] \in {"revoke", "user"} =>
          held'[q] \in DOMAIN sessions' /\ who'[q] = sessions'[held'[q]].user
  BY <1>1, <1>4 DEF TypeInv, TypeOK, Grows, Row
<1>. QED BY <1>1, <1>2, <1>5, <1>6, <1>7, <1>8, <1>9
         DEF TypeInv, TypeOK, ServeOK, Grows, RestOK, Rows, Row, FamilyOf, Idle, Place

\* A step of no request, which at most revokes.
LEMMA OutsideTypes ==
    ASSUME TypeInv, Grows(0), RestOK, UNCHANGED requestVars
    PROVE  TypeInv'
<1>1. /\ Len(sessions') = Len(sessions) /\ DOMAIN sessions' = Rows
      /\ Rows = 1 .. Len(sessions)
  BY Table, GrownRows DEF TypeInv, TypeOK, Grows
<1>2. Busy' = Busy
  BY DEF Busy, Idle, requestVars
<1>. QED BY <1>1, <1>2 DEF TypeInv, TypeOK, ServeOK, Grows, RestOK, Rows, Row, FamilyOf, Idle, requestVars

LEMMA TypeInit == Init => TypeInv
<1>. SUFFICES ASSUME Init PROVE TypeInv
  OBVIOUS
<1>1. sessions \in Seq(Session) /\ Len(sessions) = 0 /\ Rows = {}
  BY EmptySeq DEF Init, Rows
<1>2. Busy = {}
  BY DEF Init, Busy, Idle
<1>3. [kind |-> "none", token |-> NoToken] \in Answer
  BY DEF Answer
<1>. QED BY <1>1, <1>2, <1>3, FS_EmptySet, BoundAssumption, NoUserAssumption
         DEF Init, TypeInv, TypeOK, ServeOK, Idle

LEMMA Keeps == ASSUME TypeInv, UNCHANGED sessions PROVE Grows(0)
BY Table DEF TypeInv, TypeOK, ServeOK, Grows, Row, Rows, FamilyOf

LEMMA KeepsRest == ASSUME TypeInv, UNCHANGED <<account, hurt>>, Rows \subseteq DOMAIN sessions' PROVE RestOK
BY DEF TypeInv, TypeOK, RestOK

LEMMA Revoking == ASSUME TypeInv, NEW t, sessions' = Revoke(t) PROVE Grows(0) /\ DOMAIN sessions' = Rows
<1>1. sessions \in Seq(Session)
  BY DEF TypeInv, TypeOK
<1>2. /\ sessions' \in Seq(Session) /\ Len(sessions') = Len(sessions)
      /\ \A s \in Rows : /\ sessions'[s].user = Row(s).user
                         /\ sessions'[s].family = Row(s).family
  BY <1>1, RevokeKeeps
<1>3. DOMAIN sessions' = Rows /\ Len(sessions') = Len(sessions) + 0
  BY <1>1, <1>2, LenProperties, Table
<1>. QED BY <1>2, <1>3 DEF Grows, TypeInv, ServeOK, FamilyOf

\* The user and the token of a request that is at work.
LEMMA AtWork ==
    ASSUME TypeInv, NEW r \in Request, ~Idle(r)
    PROVE  who[r] \in User /\ (held[r] = NoToken \/ held[r] \in Rows)
BY DEF TypeInv, TypeOK, ServeOK

\* There is room for the row of a request that creates one.
LEMMA RoomLeft ==
    ASSUME TypeInv, NEW r \in Request, ~Idle(r)
    PROVE  Len(sessions) + 1 <= MaxSessions
<1>1. Busy # {}
  BY DEF Busy
<1>2. Cardinality(Busy) >= 1
  BY <1>1, BusyFinite, FS_EmptySet
<1>. QED BY <1>2, BusyFinite, Table, BoundAssumption DEF TypeInv, TypeOK, ServeOK

\* What the creation of a session does to the table.
LEMMA Creating ==
    ASSUME TypeInv, NEW r \in Request, CreateSession(r)
    PROVE  LET n == Len(sessions) + 1
           IN  /\ sessions' \in Seq(Session) /\ Len(sessions') = n /\ n \in Token \ Rows
               /\ DOMAIN sessions' = Rows \union {n}
               /\ \A s \in Rows : sessions'[s] = Row(s)
               /\ sessions'[n] = [user |-> who[r], usable |-> TRUE, from |-> held[r],
                                  family |-> IF held[r] = NoToken THEN n ELSE FamilyOf(held[r])]
<1>. DEFINE n == Len(sessions) + 1
<1>1. sessions \in Seq(Session) /\ ~Idle(r) /\ sessions' = Create(who[r], held[r])
  BY DEF TypeInv, TypeOK, CreateSession, Idle
<1>2. /\ who[r] \in User /\ (held[r] = NoToken \/ held[r] \in Rows)
      /\ Len(sessions) + 1 <= MaxSessions
  BY <1>1, AtWork, RoomLeft
<1>3. /\ sessions' \in Seq(Session) /\ Len(sessions') = n
      /\ \A s \in Rows : sessions'[s] = Row(s)
      /\ sessions'[n] = [user |-> who[r], usable |-> TRUE, from |-> held[r],
                         family |-> IF held[r] = NoToken THEN n ELSE FamilyOf(held[r])]
  BY <1>1, <1>2, CreateAppends, BoundAssumption
<1>4. DOMAIN sessions' = 1 .. n
  BY <1>3, LenProperties
<1>5. n \in Token \ Rows /\ 1 .. n = Rows \union {n}
  BY <1>1, <1>2, Table, BoundAssumption DEF Token
<1>. QED BY <1>3, <1>4, <1>5

LEMMA CreatingGrows == ASSUME TypeInv, NEW r \in Request, CreateSession(r) PROVE Grows(1)
<1>. DEFINE n == Len(sessions) + 1
<1>1. /\ sessions' \in Seq(Session) /\ Len(sessions') = n
      /\ DOMAIN sessions' = Rows \union {n}
      /\ \A s \in Rows : sessions'[s] = Row(s)
      /\ sessions'[n].family = IF held[r] = NoToken THEN n ELSE FamilyOf(held[r])
  <2>1. sessions'[n] = [user |-> who[r], usable |-> TRUE, from |-> held[r],
                        family |-> IF held[r] = NoToken THEN n ELSE FamilyOf(held[r])]
    BY Creating, Zenon
  <2>2. sessions'[n].family = IF held[r] = NoToken THEN n ELSE FamilyOf(held[r])
    BY <2>1
  <2>. QED BY <2>2, Creating, Zenon
<1>2. ~Idle(r)
  BY DEF CreateSession, Idle
<1>3. sessions'[n].family \in DOMAIN sessions'
  BY <1>1, <1>2, AtWork DEF TypeInv, ServeOK
<1>4. \A s \in Rows : sessions'[s].family \in DOMAIN sessions'
  BY <1>1 DEF TypeInv, ServeOK, FamilyOf
<1>. QED BY <1>1, <1>3, <1>4 DEF Grows

\* The family a request is about to continue is a row.
LEMMA BetweenRows == TypeInv => \A r \in Request : Between(r) \subseteq Rows
BY DEF TypeInv, ServeOK, Between

LEMMA TypeStep == TypeInv /\ [Next]_vars => TypeInv'
<1>. SUFFICES ASSUME TypeInv, [Next]_vars PROVE TypeInv'
  OBVIOUS
<1>1. NoToken \in Token \union {NoToken}
  OBVIOUS
<1>2. UNCHANGED sessions => Grows(0) /\ Rows \subseteq DOMAIN sessions'
  BY Keeps DEF Rows
<1>3. ASSUME NEW r \in Request, NEW kind \in {"ok", "refused"}, Respond(r, kind, NoToken),
             Grows(0), RestOK
      PROVE  TypeInv'
  BY <1>1, <1>3, RespondTypes
<1>4. ASSUME NEW r \in Request, LoginRefused(r) PROVE TypeInv'
  BY <1>2, <1>3, <1>4, KeepsRest DEF LoginRefused
<1>5. ASSUME NEW r \in Request, RevokeOld(r) PROVE TypeInv'
  <2>1. /\ Grows(0) /\ DOMAIN sessions' = Rows /\ ~Idle(r) /\ pc[r] = "revoke"
        /\ GoOn(r, "user", held[r], who[r]) /\ UNCHANGED <<account, hurt>>
    BY <1>5, Revoking DEF RevokeOld, Idle
  <2>2. RestOK
    BY <2>1, KeepsRest
  <2>3. who[r] \in User /\ held[r] \in Rows /\ who[r] = Row(held[r]).user
    BY <2>1, AtWork DEF TypeInv, TypeOK
  <2>4. "user" \in Place \ {"idle"}
    BY DEF Place
  <2>. QED BY <2>1, <2>2, <2>3, <2>4, GoOnTypes
<1>6. ASSUME NEW r \in Request, RefreshUser(r) PROVE TypeInv'
  <2>1. /\ Grows(0) /\ RestOK /\ ~Idle(r) /\ GoOn(r, "create", held[r], who[r])
    BY <1>2, <1>6, KeepsRest DEF RefreshUser, Idle
  <2>2. who[r] \in User /\ (held[r] = NoToken \/ held[r] \in Rows)
    BY <2>1, AtWork
  <2>3. "create" \in Place \ {"idle"}
    BY DEF Place
  <2>. QED BY <2>1, <2>2, <2>3, GoOnTypes
<1>7. ASSUME NEW r \in Request, CreateSession(r) PROVE TypeInv'
  <2>1. Grows(1) /\ Rows \subseteq DOMAIN sessions' /\ ~Idle(r) /\ Len(sessions) + 1 \in Token
    BY <1>7, CreatingGrows, Creating DEF CreateSession, Idle
  <2>2. RestOK
    BY <1>7, <2>1, KeepsRest DEF CreateSession
  <2>3. \/ Respond(r, "ok", Len(sessions) + 1)
        \/ Respond(r, "refused", NoToken)
    BY <1>7 DEF CreateSession
  <2>. QED BY <2>1, <2>2, <2>3, RespondTypes
<1>8. ASSUME NEW r \in Request, Fail(r) PROVE TypeInv'
  <2>1. Grows(0) /\ Respond(r, "refused", NoToken)
    BY <1>2, <1>8 DEF Fail
  <2>2. RestOK
    BY <1>8, BetweenRows DEF Fail, RestOK, TypeInv, TypeOK, Rows
  <2>. QED BY <1>3, <2>1, <2>2
<1>9. ASSUME NEW r \in Request, NEW u \in User, LoginFind(r, u) PROVE TypeInv'
  <2>1. Grows(0) /\ RestOK /\ Room
    BY <1>2, <1>9, KeepsRest DEF LoginFind
  <2>2. PICK place \in {"create", "createAfter401"} : GoOn(r, place, NoToken, u)
    BY <1>9 DEF LoginFind
  <2>3. place \in Place \ {"idle"} /\ place \notin {"revoke", "user"}
    BY DEF Place
  <2>. QED BY <2>1, <2>2, <2>3, GoOnTypes
<1>10. ASSUME NEW r \in Request, NEW t \in Rows, RefreshFind(r, t) PROVE TypeInv'
  <2>1. Grows(0) /\ RestOK /\ Room /\ GoOn(r, "revoke", t, Row(t).user)
    BY <1>2, <1>10, KeepsRest DEF RefreshFind
  <2>2. Row(t).user \in User
    BY Table DEF TypeInv, TypeOK, Session
  <2>3. "revoke" \in Place \ {"idle"}
    BY DEF Place
  <2>. QED BY <2>1, <2>2, <2>3, GoOnTypes
<1>11. ASSUME NEW r \in Request, NEW t \in Rows, RefreshRefused(r, t) PROVE TypeInv'
  BY <1>2, <1>3, <1>11, KeepsRest DEF RefreshRefused
<1>12. ASSUME NEW r \in Request, NEW t \in Rows, LogoutRevoke(r, t) PROVE TypeInv'
  <2>1. Grows(0) /\ DOMAIN sessions' = Rows /\ Respond(r, "ok", NoToken)
    BY <1>12, Revoking DEF LogoutRevoke
  <2>2. RestOK
    BY <1>12, <2>1 DEF LogoutRevoke, RestOK, TypeInv, TypeOK, ServeOK
  <2>. QED BY <1>3, <2>1, <2>2
<1>13. ASSUME NEW t \in Rows, Expire(t) PROVE TypeInv'
  <2>1. sessions' = Revoke(t)
    BY <1>13, ExpiryRevokes DEF Expire, TypeInv, TypeOK
  <2>2. Grows(0) /\ DOMAIN sessions' = Rows
    BY <2>1, Revoking
  <2>3. RestOK /\ UNCHANGED requestVars
    BY <1>13, <2>2 DEF Expire, RestOK, TypeInv, TypeOK, ServeOK
  <2>. QED BY <2>2, <2>3, OutsideTypes
<1>14. ASSUME NEW u \in User, SoftDelete(u) \/ ToggleActive(u) PROVE TypeInv'
  <2>1. PICK status \in {"active", "inactive", "deleted"} : SetAccount(u, status)
    BY <1>14 DEF SoftDelete, ToggleActive
  <2>2. Grows(0) /\ RestOK /\ UNCHANGED requestVars
    BY <1>2, <2>1 DEF SetAccount, RestOK, TypeInv, TypeOK, Rows
  <2>. QED BY <2>2, OutsideTypes
<1>15. CASE Crash
  <2>1. UNCHANGED sessions /\ UNCHANGED account /\ Busy' = {}
    BY <1>15 DEF Crash, Busy, Idle
  <2>2. hurt' \subseteq Rows
    BY <1>15, BetweenRows DEF Crash, TypeInv, TypeOK
  <2>3. reply' \in [Request -> Answer]
    <3>1. [kind |-> "lost", token |-> NoToken] \in Answer
      BY DEF Answer
    <3>. QED BY <1>15, <3>1 DEF Crash, TypeInv, TypeOK
  <2>4. /\ pc' \in [Request -> Place] /\ held' \in [Request -> Token \union {NoToken}]
        /\ who' \in [Request -> User \union {NoUser}]
        /\ \A r \in Request : pc'[r] = "idle" /\ held'[r] = NoToken /\ who'[r] = NoUser
    BY <1>15 DEF Crash, Place
  <2>5. Len(sessions) \in Nat /\ Cardinality(Busy') = 0
    BY <2>1, Table, FS_EmptySet DEF TypeInv, TypeOK
  <2>6. TypeOK'
    BY <2>1, <2>2, <2>3, <2>4 DEF TypeInv, TypeOK, Rows, Row, Idle, Place
  <2>7. ServeOK'
    BY <2>1, <2>4, <2>5, BoundAssumption DEF TypeInv, TypeOK, ServeOK, Rows, Row, FamilyOf
  <2>. QED BY <2>6, <2>7 DEF TypeInv
<1>16. CASE UNCHANGED vars
  BY <1>2, <1>16, KeepsRest, OutsideTypes DEF vars
<1>. QED BY <1>4, <1>5, <1>6, <1>7, <1>8, <1>9, <1>10, <1>11, <1>12, <1>13, <1>14, <1>15, <1>16
         DEF Next, Serve, Environment

\* The table and the requests keep their types: a request whose statement needs a token
\* works on a row that is there, and the table never outgrows its bound.
THEOREM TypeCorrect == Spec => []TypeOK
<1>1. TypeInv => TypeOK
  BY DEF TypeInv
<1>. QED BY <1>1, TypeInit, TypeStep, PTL DEF Spec

-----------------------------------------------------------------------------
(* Families *)

Backed(f) ==
    \/ \E t \in Rows : FamilyOf(t) = f /\ Row(t).usable
    \/ \E r \in Request : f \in Between(r)

LEMMA FamiliesBacked == FamilySurvives <=> \A t \in Rows : FamilyOf(t) \in hurt \/ Backed(FamilyOf(t))
BY DEF FamilySurvives, Backed

\* A step that adds no row keeps the families if what it takes from one, a usable row or
\* a refresh in progress, is made up for or recorded.
LEMMA FamiliesKept ==
    ASSUME TypeInv, FamilySurvives, DOMAIN sessions' = Rows, hurt \subseteq hurt',
           \A s \in Rows : sessions'[s].family = FamilyOf(s),
           \A s \in Rows : Row(s).usable =>
               \/ sessions'[s].usable \/ FamilyOf(s) \in hurt'
               \/ \E r \in Request : FamilyOf(s) \in Between(r)',
           \A r \in Request : \A f \in Between(r) :
               f \in hurt' \/ \E q \in Request : f \in Between(q)'
    PROVE  FamilySurvives'
<1>1. \A t \in Rows : FamilyOf(t)' = FamilyOf(t)
  BY DEF FamilyOf, Row
<1>2. ASSUME NEW t \in Rows PROVE FamilyOf(t) \in hurt' \/ Backed(FamilyOf(t))'
  <2>1. CASE FamilyOf(t) \in hurt
    BY <2>1
  <2>2. ASSUME NEW s \in Rows, FamilyOf(s) = FamilyOf(t), Row(s).usable
        PROVE  FamilyOf(t) \in hurt' \/ Backed(FamilyOf(t))'
    <3>1. CASE sessions'[s].usable
      BY <1>1, <2>2, <3>1 DEF Backed, FamilyOf, Row, Rows
    <3>2. CASE FamilyOf(s) \in hurt'
      BY <2>2, <3>2
    <3>3. CASE \E r \in Request : FamilyOf(s) \in Between(r)'
      BY <1>1, <2>2, <3>3 DEF Backed
    <3>. QED BY <2>2, <3>1, <3>2, <3>3
  <2>3. ASSUME NEW r \in Request, FamilyOf(t) \in Between(r)
        PROVE  FamilyOf(t) \in hurt' \/ Backed(FamilyOf(t))'
    BY <1>1, <2>3 DEF Backed
  <2>. QED BY <2>1, <2>2, <2>3, FamiliesBacked DEF Backed
<1>3. \A t \in Rows' : FamilyOf(t)' \in hurt' \/ Backed(FamilyOf(t))'
  BY <1>1, <1>2 DEF Rows
<1>. QED BY <1>3 DEF FamilySurvives, Backed

\* While the rows keep their families, what other requests are about to continue stays.
LEMMA BetweenOthers ==
    ASSUME TypeInv, NEW r \in Request, NEW place, NEW token,
           pc' = [pc EXCEPT ![r] = place], held' = [held EXCEPT ![r] = token],
           \A s \in Rows : sessions'[s].family = FamilyOf(s)
    PROVE  /\ \A q \in Request \ {r} : Between(q)' = Between(q)
           /\ Between(r)' = IF place \in {"user", "create"} /\ token # NoToken
                              THEN {FamilyOf(token)'} ELSE {}
<1>1. /\ pc'[r] = place /\ held'[r] = token
      /\ \A q \in Request \ {r} : pc'[q] = pc[q] /\ held'[q] = held[q]
  BY DEF TypeInv, TypeOK
<1>. QED BY <1>1 DEF TypeInv, ServeOK, Between, FamilyOf, Row

\* A step of one request, seen by the families.
LEMMA MoveFamilies ==
    ASSUME TypeInv, FamilySurvives, DOMAIN sessions' = Rows, hurt \subseteq hurt',
           \A s \in Rows : sessions'[s].family = FamilyOf(s),
           NEW r \in Request, NEW place, NEW token,
           pc' = [pc EXCEPT ![r] = place], held' = [held EXCEPT ![r] = token],
           \A s \in Rows : Row(s).usable =>
               sessions'[s].usable \/ FamilyOf(s) \in hurt' \/ FamilyOf(s) \in Between(r)',
           Between(r) \subseteq hurt' \union Between(r)'
    PROVE  FamilySurvives'
<1>1. \A q \in Request \ {r} : Between(q)' = Between(q)
  BY BetweenOthers
<1>2. \A q \in Request : \A f \in Between(q) : f \in hurt' \/ \E p \in Request : f \in Between(p)'
  BY <1>1
<1>. QED BY <1>2, FamiliesKept

LEMMA SameTable ==
    ASSUME UNCHANGED sessions
    PROVE  /\ DOMAIN sessions' = Rows
           /\ \A s \in Rows : /\ sessions'[s].family = FamilyOf(s)
                              /\ sessions'[s].usable = Row(s).usable
BY DEF Rows, FamilyOf, Row

LEMMA RevokedTable ==
    ASSUME TypeInv, NEW t, sessions' = Revoke(t)
    PROVE  /\ DOMAIN sessions' = Rows
           /\ \A s \in Rows : /\ sessions'[s].family = FamilyOf(s)
                              /\ s # t => sessions'[s] = Row(s)
BY Revoking, RevokeKeeps DEF TypeInv, TypeOK, FamilyOf

LEMMA IdleBetween == ASSUME NEW r \in Request, Idle(r) PROVE Between(r) = {}
BY DEF Idle, Between

\* A new session carries its login on, or is one.
LEMMA CreatingFamilies ==
    ASSUME TypeInv, FamilySurvives, NEW r \in Request, CreateSession(r)
    PROVE  FamilySurvives'
<1>. DEFINE n == Len(sessions) + 1
<1>1. /\ DOMAIN sessions' = Rows \union {n} /\ n \notin Rows
      /\ \A s \in Rows : sessions'[s] = Row(s)
  BY Creating
<1>2. sessions'[n] = [user |-> who[r], usable |-> TRUE, from |-> held[r],
                      family |-> IF held[r] = NoToken THEN n ELSE FamilyOf(held[r])]
  BY Creating, Zenon
<1>3. sessions'[n].usable /\ sessions'[n].family = IF held[r] = NoToken THEN n ELSE FamilyOf(held[r])
  BY <1>2
<1>4. \A s \in Rows : sessions'[s].family = FamilyOf(s) /\ sessions'[s].usable = Row(s).usable
  BY <1>1 DEF FamilyOf
<1>5. /\ UNCHANGED hurt
      /\ \E kind \in {"ok", "refused"}, token \in {n, NoToken} : Respond(r, kind, token)
  BY DEF CreateSession
<1>6. pc' = [pc EXCEPT ![r] = "idle"] /\ held' = [held EXCEPT ![r] = NoToken]
  BY <1>5 DEF Respond
<1>7. \A q \in Request \ {r} : Between(q)' = Between(q)
  BY <1>4, <1>6, BetweenOthers
<1>8. ASSUME NEW t \in Rows PROVE FamilyOf(t) \in hurt \/ Backed(FamilyOf(t))'
  <2>1. ASSUME NEW s \in Rows, FamilyOf(s) = FamilyOf(t), Row(s).usable
        PROVE  Backed(FamilyOf(t))'
    <3>1. s \in DOMAIN sessions' /\ sessions'[s].family = FamilyOf(t)' /\ sessions'[s].usable
      BY <1>1, <1>4, <2>1 DEF FamilyOf, Row
    <3>. QED BY <3>1 DEF Backed, Rows, FamilyOf, Row
  <2>2. ASSUME NEW q \in Request \ {r}, FamilyOf(t) \in Between(q) PROVE Backed(FamilyOf(t))'
    <3>1. FamilyOf(t)' \in Between(q)'
      BY <1>4, <1>7, <2>2 DEF FamilyOf, Row
    <3>. QED BY <2>2, <3>1 DEF Backed
  <2>3. ASSUME FamilyOf(t) \in Between(r) PROVE Backed(FamilyOf(t))'
    <3>1. n \in DOMAIN sessions' /\ sessions'[n].family = FamilyOf(t)' /\ sessions'[n].usable
      BY <1>1, <1>3, <1>4, <2>3 DEF FamilyOf, Row, Between
    <3>. QED BY <3>1 DEF Backed, Rows, FamilyOf, Row
  <2>. QED BY <2>1, <2>2, <2>3, FamiliesBacked DEF Backed
<1>9. ASSUME NEW t \in DOMAIN sessions', t = n
      PROVE  Backed(FamilyOf(t))'
  BY <1>3, <1>9 DEF Backed, Rows, FamilyOf, Row
<1>10. \A t \in Rows' : FamilyOf(t)' \in hurt' \/ Backed(FamilyOf(t))'
  <2>1. \A t \in Rows : FamilyOf(t)' = FamilyOf(t)
    BY <1>4 DEF FamilyOf, Row
  <2>. QED BY <1>1, <1>5, <1>8, <1>9, <2>1 DEF Rows
<1>. QED BY <1>10 DEF FamilySurvives, Backed

LEMMA FamilyStep == TypeInv /\ FamilySurvives /\ [Next]_vars => FamilySurvives'
<1>. SUFFICES ASSUME TypeInv, FamilySurvives, [Next]_vars PROVE FamilySurvives'
  OBVIOUS
<1>1. ASSUME NEW r \in Request, Idle(r), UNCHANGED <<sessions, hurt>>, NEW place, NEW token,
             pc' = [pc EXCEPT ![r] = place], held' = [held EXCEPT ![r] = token]
      PROVE  FamilySurvives'
  BY <1>1, SameTable, IdleBetween, MoveFamilies
<1>2. ASSUME NEW r \in Request, LoginRefused(r) PROVE FamilySurvives'
  BY <1>1, <1>2 DEF LoginRefused, Respond
<1>3. ASSUME NEW r \in Request, NEW u \in User, LoginFind(r, u) PROVE FamilySurvives'
  BY <1>1, <1>3 DEF LoginFind, GoOn
<1>4. ASSUME NEW r \in Request, NEW t \in Rows, RefreshFind(r, t) \/ RefreshRefused(r, t)
      PROVE  FamilySurvives'
  BY <1>1, <1>4 DEF RefreshFind, RefreshRefused, GoOn, Respond
<1>5. ASSUME NEW r \in Request, RevokeOld(r) PROVE FamilySurvives'
  <2>1. /\ sessions' = Revoke(held[r]) /\ UNCHANGED hurt /\ pc[r] = "revoke"
        /\ pc' = [pc EXCEPT ![r] = "user"] /\ held' = [held EXCEPT ![r] = held[r]]
    BY <1>5 DEF RevokeOld, GoOn
  <2>2. held[r] \in Rows /\ held[r] # NoToken
    BY <2>1, Table DEF TypeInv, TypeOK, NoToken
  <2>3. /\ DOMAIN sessions' = Rows
        /\ \A s \in Rows : /\ sessions'[s].family = FamilyOf(s)
                           /\ s # held[r] => sessions'[s] = Row(s)
    BY <2>1, RevokedTable
  <2>4. Between(r) = {} /\ Between(r)' = {FamilyOf(held[r])}
    <3>1. Between(r)' = {sessions'[held[r]].family}
      BY <2>1, <2>2 DEF Between, FamilyOf, Row, TypeInv, TypeOK
    <3>. QED BY <2>1, <2>2, <2>3, <3>1 DEF Between
  <2>. QED BY <2>1, <2>3, <2>4, MoveFamilies
<1>6. ASSUME NEW r \in Request, RefreshUser(r) PROVE FamilySurvives'
  <2>1. /\ UNCHANGED <<sessions, hurt>> /\ pc[r] = "user"
        /\ pc' = [pc EXCEPT ![r] = "create"] /\ held' = [held EXCEPT ![r] = held[r]]
    BY <1>6 DEF RefreshUser, GoOn
  <2>2. Between(r)' = Between(r)
    BY <2>1 DEF Between, FamilyOf, Row, TypeInv, TypeOK
  <2>. QED BY <2>1, <2>2, SameTable, MoveFamilies
<1>7. ASSUME NEW r \in Request, CreateSession(r) PROVE FamilySurvives'
  BY <1>7, CreatingFamilies
<1>8. ASSUME NEW r \in Request, Fail(r) PROVE FamilySurvives'
  BY <1>8, SameTable, MoveFamilies DEF Fail, Respond
<1>9. ASSUME NEW r \in Request, NEW t \in Rows, LogoutRevoke(r, t) PROVE FamilySurvives'
  <2>1. /\ DOMAIN sessions' = Rows
        /\ \A s \in Rows : /\ sessions'[s].family = FamilyOf(s)
                           /\ s # t => sessions'[s] = Row(s)
    BY <1>9, RevokedTable DEF LogoutRevoke
  <2>2. hurt \subseteq hurt' /\ FamilyOf(t) \in hurt' /\ Idle(r)
    BY <1>9 DEF LogoutRevoke
  <2>3. pc' = [pc EXCEPT ![r] = "idle"] /\ held' = [held EXCEPT ![r] = NoToken]
    BY <1>9 DEF LogoutRevoke, Respond
  <2>. QED BY <2>1, <2>2, <2>3, IdleBetween, MoveFamilies
<1>10. ASSUME NEW t \in Rows, Expire(t) PROVE FamilySurvives'
  <2>1. sessions' = Revoke(t) /\ UNCHANGED requestVars /\ hurt' = hurt \union {FamilyOf(t)}
    BY <1>10, ExpiryRevokes DEF Expire, TypeInv, TypeOK
  <2>2. /\ DOMAIN sessions' = Rows
        /\ \A s \in Rows : /\ sessions'[s].family = FamilyOf(s)
                           /\ s # t => sessions'[s] = Row(s)
    BY <2>1, RevokedTable
  <2>3. \A r \in Request : Between(r)' = Between(r)
    BY <2>1, <2>2 DEF requestVars, Between, FamilyOf, Row, TypeInv, ServeOK
  <2>. QED BY <2>1, <2>2, <2>3, FamiliesKept
<1>11. CASE Crash
  <2>1. UNCHANGED sessions /\ hurt \subseteq hurt' /\ \A r \in Request : Between(r) \subseteq hurt'
    BY <1>11 DEF Crash
  <2>. QED BY <2>1, SameTable, FamiliesKept
<1>12. ASSUME UNCHANGED <<sessions, requestVars, hurt>> PROVE FamilySurvives'
  <2>1. \A r \in Request : Between(r)' = Between(r)
    BY <1>12 DEF requestVars, Between, FamilyOf, Row
  <2>. QED BY <1>12, <2>1, SameTable, FamiliesKept
<1>13. ASSUME NEW u \in User, SoftDelete(u) \/ ToggleActive(u) PROVE FamilySurvives'
  BY <1>12, <1>13 DEF SoftDelete, ToggleActive, SetAccount
<1>14. CASE UNCHANGED vars
  BY <1>12, <1>14 DEF vars
<1>. QED BY <1>2, <1>3, <1>4, <1>5, <1>6, <1>7, <1>8, <1>9, <1>10, <1>11, <1>13, <1>14
         DEF Next, Serve, Environment

\* A login lives on through any refreshes of any number of clients, also concurrent ones,
\* unless it was logged out, expired, or lost a refresh half-way.
THEOREM FamiliesSurvive == Spec => []FamilySurvives
<1>1. Init => FamilySurvives
  BY DEF Init, FamilySurvives, Rows
<1>. QED BY <1>1, TypeInit, TypeStep, FamilyStep, PTL DEF Spec

-----------------------------------------------------------------------------
(* What spent tokens and deleted users can still gain *)

\* One more here is made up for by one less there.
LEMMA FewerOrMoved ==
    ASSUME NEW A, NEW B, NEW C, NEW D, IsFiniteSet(A), IsFiniteSet(B),
           \/ C \subseteq A /\ D \subseteq B
           \/ \E x : \E y \in B : C \subseteq A \union {x} /\ D \subseteq B \ {y}
    PROVE  Cardinality(C) + Cardinality(D) <= Cardinality(A) + Cardinality(B)
<1>1. Cardinality(A) \in Nat /\ Cardinality(B) \in Nat
  BY FS_CardinalityType
<1>2. CASE C \subseteq A /\ D \subseteq B
  <2>1. /\ IsFiniteSet(C) /\ Cardinality(C) <= Cardinality(A)
        /\ IsFiniteSet(D) /\ Cardinality(D) <= Cardinality(B)
    BY <1>2, FS_Subset
  <2>2. Cardinality(C) \in Nat /\ Cardinality(D) \in Nat
    BY <2>1, FS_CardinalityType
  <2>. QED BY <1>1, <2>1, <2>2
<1>3. ASSUME NEW x, NEW y \in B, C \subseteq A \union {x}, D \subseteq B \ {y}
      PROVE  Cardinality(C) + Cardinality(D) <= Cardinality(A) + Cardinality(B)
  <2>1. /\ IsFiniteSet(A \union {x}) /\ Cardinality(A \union {x}) <= Cardinality(A) + 1
        /\ IsFiniteSet(B \ {y}) /\ Cardinality(B \ {y}) = Cardinality(B) - 1
    BY <1>1, FS_AddElement, FS_RemoveElement
  <2>2. /\ IsFiniteSet(C) /\ Cardinality(C) <= Cardinality(A \union {x})
        /\ IsFiniteSet(D) /\ Cardinality(D) <= Cardinality(B \ {y})
    BY <1>3, <2>1, FS_Subset
  <2>3. /\ Cardinality(C) \in Nat /\ Cardinality(D) \in Nat
        /\ Cardinality(A \union {x}) \in Nat /\ Cardinality(B \ {y}) \in Nat
    BY <2>1, <2>2, FS_CardinalityType
  <2>. QED BY <1>1, <2>1, <2>2, <2>3
<1>. QED BY <1>2, <1>3

\* What no step does to a row: it goes on belonging to its user, its predecessor and its
\* login, and what is unusable stays so.
RowsStay ==
    \A s \in Rows : /\ sessions'[s].user = Row(s).user /\ sessions'[s].from = Row(s).from
                    /\ sessions'[s].family = Row(s).family
                    /\ ~Row(s).usable => ~sessions'[s].usable

Creators(u) == {r \in Request : who[r] = u /\ pc[r] \in {"create", "createAfter401"}}

\* What a request does to those a spent token or a deleted user may still count on: it
\* joins neither.
RequestsStay ==
    /\ \A q \in Request : \/ held'[q] \in {held[q], NoToken}
                          \/ held'[q] \in Rows /\ Row(held'[q]).usable
    /\ \A u \in User : account[u] = "deleted" => Creators(u)' \subseteq Creators(u)

LEMMA RevokeStays == ASSUME TypeInv, NEW t, sessions' = Revoke(t) PROVE RowsStay /\ DOMAIN sessions' = Rows
<1>1. \A s \in Rows : /\ sessions'[s].user = Row(s).user /\ sessions'[s].from = Row(s).from
                      /\ sessions'[s].family = Row(s).family
                      /\ s # t => sessions'[s] = Row(s)
                      /\ s = t => ~sessions'[s].usable
  BY RevokeKeeps DEF TypeInv, TypeOK
<1>. QED BY <1>1, Revoking DEF RowsStay

LEMMA SameStays == ASSUME UNCHANGED sessions PROVE RowsStay /\ DOMAIN sessions' = Rows
BY DEF RowsStay, Rows, Row

\* A move of one request to a place that creates nothing, or for a user who is there.
LEMMA MoveStays ==
    ASSUME TypeInv, NEW r \in Request,
           \A q \in Request \ {r} : pc'[q] = pc[q] /\ held'[q] = held[q] /\ who'[q] = who[q],
           \/ held'[r] \in {held[r], NoToken}
           \/ held'[r] \in Rows /\ Row(held'[r]).usable,
           pc'[r] \in {"idle", "revoke", "user"} \/ FindUser(who'[r])
    PROVE  RequestsStay
BY DEF RequestsStay, Creators, FindUser

LEMMA RespondStays ==
    ASSUME TypeInv, NEW r \in Request, NEW kind, NEW token, Respond(r, kind, token)
    PROVE  RequestsStay
<1>1. /\ \A q \in Request \ {r} : pc'[q] = pc[q] /\ held'[q] = held[q] /\ who'[q] = who[q]
      /\ pc'[r] = "idle" /\ held'[r] = NoToken
  BY DEF Respond, TypeInv, TypeOK
<1>. QED BY <1>1, MoveStays

LEMMA GoOnStays ==
    ASSUME TypeInv, NEW r \in Request, NEW place, NEW token, NEW user, GoOn(r, place, token, user),
           token \in {held[r], NoToken} \/ (token \in Rows /\ Row(token).usable),
           place \in {"revoke", "user"} \/ FindUser(user)
    PROVE  RequestsStay
<1>1. /\ \A q \in Request \ {r} : pc'[q] = pc[q] /\ held'[q] = held[q] /\ who'[q] = who[q]
      /\ pc'[r] = place /\ held'[r] = token /\ who'[r] = user
  BY DEF GoOn, TypeInv, TypeOK
<1>2. FindUser(user) => FindUser(who'[r])
  BY <1>1
<1>3. token \in Rows /\ Row(token).usable => held'[r] \in Rows /\ Row(held'[r]).usable
  BY <1>1
<1>. QED BY <1>1, <1>2, <1>3, MoveStays

\* Every step but the creation of a session.
LEMMA OtherSteps ==
    ASSUME TypeInv, [Next]_vars, \A r \in Request : ~CreateSession(r)
    PROVE  RowsStay /\ RequestsStay /\ DOMAIN sessions' = Rows
<1>1. ASSUME NEW r \in Request, LoginRefused(r) \/ Fail(r)
      PROVE  RowsStay /\ RequestsStay /\ DOMAIN sessions' = Rows
  BY <1>1, SameStays, RespondStays DEF LoginRefused, Fail
<1>2. ASSUME NEW r \in Request, RevokeOld(r)
      PROVE  RowsStay /\ RequestsStay /\ DOMAIN sessions' = Rows
  <2>1. GoOn(r, "user", held[r], who[r]) /\ sessions' = Revoke(held[r])
    BY <1>2 DEF RevokeOld
  <2>2. "user" \in {"revoke", "user"} /\ held[r] \in {held[r], NoToken}
    OBVIOUS
  <2>3. RequestsStay
    BY <2>1, <2>2, GoOnStays, Zenon
  <2>. QED BY <2>1, <2>3, RevokeStays
<1>3. ASSUME NEW r \in Request, RefreshUser(r)
      PROVE  RowsStay /\ RequestsStay /\ DOMAIN sessions' = Rows
  <2>1. GoOn(r, "create", held[r], who[r]) /\ FindUser(who[r]) /\ UNCHANGED sessions
    BY <1>3 DEF RefreshUser
  <2>2. held[r] \in {held[r], NoToken}
    OBVIOUS
  <2>3. RequestsStay
    BY <2>1, <2>2, GoOnStays, Zenon
  <2>. QED BY <2>1, <2>3, SameStays
<1>4. ASSUME NEW r \in Request, NEW u \in User, LoginFind(r, u)
      PROVE  RowsStay /\ RequestsStay /\ DOMAIN sessions' = Rows
  <2>1. PICK place : GoOn(r, place, NoToken, u)
    BY <1>4 DEF LoginFind
  <2>2. FindUser(u) /\ UNCHANGED sessions /\ NoToken \in {held[r], NoToken}
    BY <1>4 DEF LoginFind
  <2>3. RequestsStay
    BY <2>1, <2>2, GoOnStays, Zenon
  <2>. QED BY <2>2, <2>3, SameStays
<1>5. ASSUME NEW r \in Request, NEW t \in Rows, RefreshFind(r, t)
      PROVE  RowsStay /\ RequestsStay /\ DOMAIN sessions' = Rows
  BY <1>5, SameStays, GoOnStays DEF RefreshFind, FindByRefreshToken
<1>6. ASSUME NEW r \in Request, NEW t \in Rows, RefreshRefused(r, t)
      PROVE  RowsStay /\ RequestsStay /\ DOMAIN sessions' = Rows
  BY <1>6, SameStays, RespondStays DEF RefreshRefused
<1>7. ASSUME NEW r \in Request, NEW t \in Rows, LogoutRevoke(r, t)
      PROVE  RowsStay /\ RequestsStay /\ DOMAIN sessions' = Rows
  BY <1>7, RevokeStays, RespondStays DEF LogoutRevoke
<1>8. UNCHANGED requestVars => RequestsStay
  BY DEF requestVars, RequestsStay, Creators
<1>9. ASSUME NEW t \in Rows, Expire(t)
      PROVE  RowsStay /\ RequestsStay /\ DOMAIN sessions' = Rows
  <2>1. sessions' = Revoke(t) /\ UNCHANGED requestVars
    BY <1>9, ExpiryRevokes DEF Expire, TypeInv, TypeOK
  <2>. QED BY <1>8, <2>1, RevokeStays
<1>10. ASSUME NEW u \in User, SoftDelete(u) \/ ToggleActive(u)
       PROVE  RowsStay /\ RequestsStay /\ DOMAIN sessions' = Rows
  BY <1>8, <1>10, SameStays DEF SoftDelete, ToggleActive, SetAccount
<1>11. CASE Crash
  <2>1. UNCHANGED sessions /\ \A q \in Request : pc'[q] = "idle" /\ held'[q] = NoToken
    BY <1>11 DEF Crash
  <2>. QED BY <2>1, SameStays DEF RequestsStay, Creators
<1>12. CASE UNCHANGED vars
  BY <1>8, <1>12, SameStays DEF vars
<1>. QED BY <1>1, <1>2, <1>3, <1>4, <1>5, <1>6, <1>7, <1>9, <1>10, <1>11, <1>12
         DEF Next, Serve, Environment

\* The creation: the creator leaves, and one usable row of the token it held is there.
LEMMA CreationStep ==
    ASSUME TypeInv, NEW r \in Request, CreateSession(r)
    PROVE  LET n == Len(sessions) + 1
           IN  /\ RowsStay /\ DOMAIN sessions' = Rows \union {n}
               /\ \A s \in Rows : sessions'[s] = Row(s)
               /\ sessions'[n].user = who[r] /\ sessions'[n].from = held[r]
               /\ held' = [held EXCEPT ![r] = NoToken] /\ who' = [who EXCEPT ![r] = NoUser]
               /\ pc' = [pc EXCEPT ![r] = "idle"] /\ pc[r] \in {"create", "createAfter401"}
<1>. DEFINE n == Len(sessions) + 1
<1>1. DOMAIN sessions' = Rows \union {n} /\ \A s \in Rows : sessions'[s] = Row(s)
  BY Creating
<1>2. sessions'[n] = [user |-> who[r], usable |-> TRUE, from |-> held[r],
                      family |-> IF held[r] = NoToken THEN n ELSE FamilyOf(held[r])]
  BY Creating, Zenon
<1>3. sessions'[n].user = who[r] /\ sessions'[n].from = held[r]
  BY <1>2
<1>4. /\ held' = [held EXCEPT ![r] = NoToken] /\ who' = [who EXCEPT ![r] = NoUser]
      /\ pc' = [pc EXCEPT ![r] = "idle"] /\ pc[r] \in {"create", "createAfter401"}
  BY DEF CreateSession, Respond
<1>. QED BY <1>1, <1>3, <1>4 DEF RowsStay

LEMMA RowSetsFinite ==
    TypeInv => /\ IsFiniteSet(Rows)
               /\ \A t : IsFiniteSet(Successors(t)) /\ IsFiniteSet(Holders(t))
               /\ \A u : IsFiniteSet({t \in Rows : Row(t).user = u /\ Row(t).usable})
                        /\ IsFiniteSet(Creators(u))
<1>. SUFFICES ASSUME TypeInv
              PROVE  /\ IsFiniteSet(Rows)
                     /\ \A t : IsFiniteSet(Successors(t)) /\ IsFiniteSet(Holders(t))
                     /\ \A u : IsFiniteSet({t \in Rows : Row(t).user = u /\ Row(t).usable})
                              /\ IsFiniteSet(Creators(u))
  OBVIOUS
<1>1. IsFiniteSet(Rows)
  BY Table, FS_Interval DEF TypeInv, TypeOK
<1>2. \A t : Successors(t) \subseteq Rows /\ Holders(t) \subseteq Request
  BY DEF Successors, Holders
<1>3. \A u : {t \in Rows : Row(t).user = u /\ Row(t).usable} \subseteq Rows /\ Creators(u) \subseteq Request
  BY DEF Creators
<1>. QED BY <1>1, <1>2, <1>3, RequestAssumption, FS_Subset

LEMMA SpentStep ==
    TypeInv /\ [Next]_vars =>
        \A t \in Rows : ~Row(t).usable => ~sessions'[t].usable /\ Worth(t)' <= Worth(t)
<1>. SUFFICES ASSUME TypeInv, [Next]_vars, NEW t \in Rows, ~Row(t).usable
              PROVE  ~sessions'[t].usable /\ Worth(t)' <= Worth(t)
  OBVIOUS
<1>1. t # NoToken
  BY Table DEF TypeInv, TypeOK, NoToken
<1>2. IsFiniteSet(Successors(t)) /\ IsFiniteSet(Holders(t))
  BY RowSetsFinite
<1>3. CASE \A r \in Request : ~CreateSession(r)
  <2>1. RowsStay /\ RequestsStay /\ DOMAIN sessions' = Rows
    BY <1>3, OtherSteps
  <2>2. Successors(t)' \subseteq Successors(t)
    BY <2>1 DEF Successors, RowsStay, Rows, Row
  <2>3. Holders(t)' \subseteq Holders(t)
    BY <1>1, <2>1 DEF Holders, RequestsStay
  <2>4. Worth(t)' <= Worth(t)
    BY <1>2, <2>2, <2>3, FewerOrMoved DEF Worth
  <2>. QED BY <2>1, <2>4 DEF RowsStay
<1>4. ASSUME NEW r \in Request, CreateSession(r)
      PROVE  ~sessions'[t].usable /\ Worth(t)' <= Worth(t)
  <2>. DEFINE n == Len(sessions) + 1
  <2>1. /\ RowsStay /\ DOMAIN sessions' = Rows \union {n}
        /\ sessions'[n].from = held[r] /\ held' = [held EXCEPT ![r] = NoToken]
    BY <1>4, CreationStep
  <2>2. Successors(t)' \subseteq Successors(t) \union (IF held[r] = t THEN {n} ELSE {})
    BY <2>1 DEF Successors, RowsStay, Rows, Row
  <2>3. Holders(t)' \subseteq Holders(t) \ {r}
    BY <1>1, <2>1 DEF Holders, TypeInv, TypeOK
  <2>4. held[r] = t => r \in Holders(t)
    BY DEF Holders
  <2>5. \/ Successors(t)' \subseteq Successors(t) /\ Holders(t)' \subseteq Holders(t)
        \/ r \in Holders(t) /\ Successors(t)' \subseteq Successors(t) \union {n}
                            /\ Holders(t)' \subseteq Holders(t) \ {r}
    BY <2>2, <2>3, <2>4
  <2>6. Worth(t)' <= Worth(t)
    BY <1>2, <2>5, FewerOrMoved DEF Worth
  <2>. QED BY <2>1, <2>6 DEF RowsStay
<1>. QED BY <1>3, <1>4

SpentStays == \A t \in Rows : ~Row(t).usable => /\ ~sessions'[t].usable
                                                /\ Worth(t)' <= Worth(t)

\* Once spent, a token is worth at most what requests that had found it before create.
THEOREM SpentStaysSpent == Spec => SpentForGood
<1>1. TypeInv /\ [Next]_vars => [SpentStays]_vars
  BY SpentStep DEF SpentStays
<1>2. Spec => [][SpentStays]_vars
  BY <1>1, TypeInit, TypeStep, PTL DEF Spec
<1>. QED BY <1>2 DEF SpentForGood, SpentStays

LEMMA DriesStep ==
    TypeInv /\ [Next]_vars =>
        \A u \in User : account[u] = "deleted" => Standing(u)' <= Standing(u)
<1>. SUFFICES ASSUME TypeInv, [Next]_vars, NEW u \in User, account[u] = "deleted"
              PROVE  Standing(u)' <= Standing(u)
  OBVIOUS
<1>. DEFINE Usable == {t \in Rows : Row(t).user = u /\ Row(t).usable}
<1>1. Standing(u) = Cardinality(Usable) + Cardinality(Creators(u))
  BY DEF Standing, Creators
<1>2. Standing(u)' = Cardinality(Usable') + Cardinality(Creators(u)')
  BY DEF Standing, Creators
<1>3. IsFiniteSet(Usable) /\ IsFiniteSet(Creators(u))
  BY RowSetsFinite
<1>4. CASE \A r \in Request : ~CreateSession(r)
  <2>1. RowsStay /\ RequestsStay /\ DOMAIN sessions' = Rows
    BY <1>4, OtherSteps
  <2>2. Usable' \subseteq Usable
    BY <2>1 DEF RowsStay, Rows, Row
  <2>3. Creators(u)' \subseteq Creators(u)
    BY <2>1 DEF RequestsStay
  <2>. QED BY <1>1, <1>2, <1>3, <2>2, <2>3, FewerOrMoved
<1>5. ASSUME NEW r \in Request, CreateSession(r) PROVE Standing(u)' <= Standing(u)
  <2>. DEFINE n == Len(sessions) + 1
  <2>1. /\ RowsStay /\ DOMAIN sessions' = Rows \union {n} /\ sessions'[n].user = who[r]
        /\ pc' = [pc EXCEPT ![r] = "idle"] /\ pc[r] \in {"create", "createAfter401"}
        /\ who' = [who EXCEPT ![r] = NoUser]
    BY <1>5, CreationStep
  <2>2. Usable' \subseteq Usable \union (IF who[r] = u THEN {n} ELSE {})
    BY <2>1 DEF RowsStay, Rows, Row
  <2>3. Creators(u)' \subseteq Creators(u) \ {r}
    BY <2>1 DEF Creators, TypeInv, TypeOK
  <2>4. who[r] = u => r \in Creators(u)
    BY <2>1 DEF Creators
  <2>5. \/ Usable' \subseteq Usable /\ Creators(u)' \subseteq Creators(u)
        \/ r \in Creators(u) /\ Usable' \subseteq Usable \union {n}
                             /\ Creators(u)' \subseteq Creators(u) \ {r}
    BY <2>2, <2>3, <2>4
  <2>. HIDE DEF Usable
  <2>. QED BY <1>1, <1>2, <1>3, <2>5, FewerOrMoved
<1>. QED BY <1>4, <1>5

\* A deleted user gains no session but through requests that had read the user before.
THEOREM DeletedUsersDryUp == Spec => DeletedDriesUp
<1>1. TypeInv /\ [Next]_vars =>
        [\A u \in User : account[u] = "deleted" => Standing(u)' <= Standing(u)]_vars
  BY DriesStep
<1>. QED BY <1>1, TypeInit, TypeStep, PTL DEF Spec, DeletedDriesUp

-----------------------------------------------------------------------------
(* Logins: the table implements the abstract specification *)

\* The rows of a login are of the user who began it, and a request works for the owner
\* of the token it holds, also when it has read the user again.
Owned ==
    /\ \A t \in Rows : /\ FamilyOf(FamilyOf(t)) = FamilyOf(t)
                       /\ Row(FamilyOf(t)).user = Row(t).user
    /\ \A r \in Request : held[r] # NoToken => who[r] = Row(held[r]).user

\* What a request comes to hold, it holds for its owner.
HoldersOwn ==
    \A q \in Request : held'[q] # NoToken =>
        \/ held'[q] = held[q] /\ who'[q] = who[q]
        \/ held'[q] \in Rows /\ who'[q] = Row(held'[q]).user

LEMMA OwnedKept ==
    ASSUME TypeInv, Owned, RowsStay, DOMAIN sessions' = Rows, HoldersOwn
    PROVE  Owned'
<1>1. \A t \in Rows : FamilyOf(t)' = FamilyOf(t) /\ Row(t)'.user = Row(t).user
  BY DEF RowsStay, FamilyOf, Row
<1>2. \A t \in Rows : FamilyOf(t) \in Rows
  BY DEF TypeInv, ServeOK
<1>3. ASSUME NEW t \in Rows
      PROVE  /\ FamilyOf(FamilyOf(t))' = FamilyOf(t)' /\ Row(FamilyOf(t))'.user = Row(t)'.user
  BY <1>1, <1>2 DEF Owned
<1>4. ASSUME NEW q \in Request, held'[q] # NoToken PROVE who'[q] = Row(held[q])'.user
  <2>1. CASE held'[q] = held[q] /\ who'[q] = who[q]
    <3>1. held[q] \in Rows
      BY <1>4, <2>1 DEF TypeInv, ServeOK
    <3>. QED BY <1>1, <1>4, <2>1, <3>1 DEF Owned, Row
  <2>2. CASE held'[q] \in Rows /\ who'[q] = Row(held'[q]).user
    BY <2>2 DEF RowsStay, Row
  <2>. QED BY <1>4, <2>1, <2>2 DEF HoldersOwn
<1>. QED BY <1>3, <1>4 DEF Owned, Rows, FamilyOf, Row

\* What the creation of a session does to logins: it joins that of the token held, or
\* begins one of its own.
LEMMA CreationJoins ==
    ASSUME TypeInv, NEW r \in Request, CreateSession(r)
    PROVE  LET n == Len(sessions) + 1
           IN  /\ n \in Token \ Rows
               /\ sessions'[n].family = IF held[r] = NoToken THEN n ELSE FamilyOf(held[r])
               /\ sessions'[n].usable /\ sessions'[n].user = who[r]
               /\ who[r] \in User /\ held[r] \in Rows \union {NoToken}
<1>. DEFINE n == Len(sessions) + 1
<1>1. sessions'[n] = [user |-> who[r], usable |-> TRUE, from |-> held[r],
                      family |-> IF held[r] = NoToken THEN n ELSE FamilyOf(held[r])]
  BY Creating, Zenon
<1>2. ~Idle(r)
  BY DEF CreateSession, Idle
<1>3. n \in Token \ Rows
  BY Creating
<1>. QED BY <1>1, <1>2, <1>3, AtWork

LEMMA OwnedCreation ==
    ASSUME TypeInv, Owned, NEW r \in Request, CreateSession(r)
    PROVE  Owned'
<1>. DEFINE n == Len(sessions) + 1
            f == IF held[r] = NoToken THEN n ELSE FamilyOf(held[r])
<1>1. /\ RowsStay /\ DOMAIN sessions' = Rows \union {n}
      /\ held' = [held EXCEPT ![r] = NoToken] /\ who' = [who EXCEPT ![r] = NoUser]
  BY CreationStep
<1>2. /\ n \notin Rows /\ sessions'[n].family = f /\ sessions'[n].user = who[r]
      /\ held[r] \in Rows \union {NoToken}
  BY CreationJoins
<1>. HIDE DEF n
<1>3. \A t \in Rows : /\ sessions'[t].family = FamilyOf(t) /\ sessions'[t].user = Row(t).user
                      /\ FamilyOf(t) \in Rows
  BY <1>1 DEF RowsStay, FamilyOf, TypeInv, ServeOK
<1>4. ASSUME NEW t \in Rows
      PROVE  /\ sessions'[sessions'[t].family].family = sessions'[t].family
             /\ sessions'[sessions'[t].family].user = sessions'[t].user
  BY <1>3 DEF Owned
<1>5. /\ sessions'[sessions'[n].family].family = sessions'[n].family
      /\ sessions'[sessions'[n].family].user = sessions'[n].user
  <2>1. CASE held[r] = NoToken
    BY <1>2, <2>1
  <2>2. CASE held[r] \in Rows /\ held[r] # NoToken
    BY <1>2, <1>3, <2>2 DEF Owned
  <2>. QED BY <1>2, <2>1, <2>2
<1>6. ASSUME NEW q \in Request, held'[q] # NoToken
      PROVE  who'[q] = sessions'[held'[q]].user
  <2>1. held'[q] = held[q] /\ who'[q] = who[q]
    BY <1>1, <1>6 DEF TypeInv, TypeOK
  <2>2. held[q] \in Rows
    BY <1>6, <2>1 DEF TypeInv, ServeOK
  <2>. QED BY <1>3, <1>6, <2>1, <2>2 DEF Owned
<1>. QED BY <1>1, <1>4, <1>5, <1>6 DEF Owned, Rows, FamilyOf, Row

\* A step that serves nobody further: requests are lost or answered, rows revoked, and
\* the logins that this may end are recorded as hurt.
Quiet ==
    /\ UNCHANGED account /\ RowsStay /\ DOMAIN sessions' = Rows
    /\ HoldersOwn
    /\ \A q \in Request : \/ held'[q] \in {held[q], NoToken}
                          \/ held'[q] \in Rows /\ Row(held'[q]).usable
    /\ \A q \in Request : Admitted'[q] \in {Admitted[q], NoUser}
    /\ hurt \subseteq hurt' /\ \A f \in hurt' \ hurt : Family(f) # {}

\* A request finds the account it will create a session for.
Finds(r, u) ==
    /\ FindUser(u) /\ Admitted[r] = NoUser
    /\ Admitted' = [Admitted EXCEPT ![r] = u]
    /\ UNCHANGED <<sessions, account, held, hurt>>
    /\ HoldersOwn

LEMMA AdmittedAt ==
    ASSUME NEW q \in Request
    PROVE  /\ Admitted[q] = IF pc[q] \in {"create", "createAfter401"} THEN who[q] ELSE NoUser
           /\ Admitted'[q] = IF pc'[q] \in {"create", "createAfter401"} THEN who'[q] ELSE NoUser
BY DEF Admitted

\* A move of one request to a place that creates nothing.
LEMMA QuietMove ==
    ASSUME TypeInv, UNCHANGED account, RowsStay, DOMAIN sessions' = Rows,
           hurt \subseteq hurt', \A f \in hurt' \ hurt : Family(f) # {},
           NEW r \in Request, NEW place \in {"idle", "revoke", "user"}, NEW token, NEW user,
           \/ token = NoToken
           \/ token = held[r] /\ user = who[r]
           \/ token \in Rows /\ Row(token).usable /\ user = Row(token).user,
           pc' = [pc EXCEPT ![r] = place], held' = [held EXCEPT ![r] = token],
           who' = [who EXCEPT ![r] = user]
    PROVE  Quiet
<1>1. /\ \A q \in Request \ {r} : pc'[q] = pc[q] /\ held'[q] = held[q] /\ who'[q] = who[q]
      /\ pc'[r] = place /\ held'[r] = token /\ who'[r] = user
  BY DEF TypeInv, TypeOK
<1>2. \A q \in Request : Admitted'[q] \in {Admitted[q], NoUser}
  BY <1>1, AdmittedAt
<1>3. HoldersOwn
  BY <1>1 DEF HoldersOwn
<1>4. \A q \in Request : \/ held'[q] \in {held[q], NoToken}
                         \/ held'[q] \in Rows /\ Row(held'[q]).usable
  BY <1>1
<1>. QED BY <1>2, <1>3, <1>4 DEF Quiet

LEMMA QuietRespond ==
    ASSUME TypeInv, UNCHANGED account, RowsStay, DOMAIN sessions' = Rows,
           hurt \subseteq hurt', \A f \in hurt' \ hurt : Family(f) # {},
           NEW r \in Request, NEW kind, NEW token, Respond(r, kind, token)
    PROVE  Quiet
<1>1. /\ pc' = [pc EXCEPT ![r] = "idle"] /\ held' = [held EXCEPT ![r] = NoToken]
      /\ who' = [who EXCEPT ![r] = NoUser]
  BY DEF Respond
<1>. QED BY <1>1, QuietMove

\* A step of no request.
LEMMA QuietOutside ==
    ASSUME UNCHANGED <<account, requestVars>>, RowsStay, DOMAIN sessions' = Rows,
           hurt \subseteq hurt', \A f \in hurt' \ hurt : Family(f) # {}
    PROVE  Quiet
<1>1. Admitted' = Admitted
  BY DEF requestVars, Admitted
<1>2. HoldersOwn
  BY DEF HoldersOwn, requestVars
<1>. QED BY <1>1, <1>2 DEF Quiet, requestVars

LEMMA OwnFamily == ASSUME NEW t \in Rows PROVE Family(FamilyOf(t)) # {}
BY DEF Family

LEMMA HurtBetween == ASSUME TypeInv, NEW r \in Request, NEW f \in Between(r) PROVE Family(f) # {}
<1>1. held[r] \in Rows /\ f = FamilyOf(held[r])
  BY DEF Between, TypeInv, ServeOK
<1>. QED BY <1>1, OwnFamily

\* Every step is one of four kinds.
LEMMA StepKinds ==
    ASSUME TypeInv, [Next]_vars
    PROVE  \/ Quiet
           \/ \E r \in Request : CreateSession(r)
           \/ \E r \in Request, u \in User : Finds(r, u)
           \/ \E u \in User, status \in {"active", "inactive", "deleted"} :
                  account[u] # "deleted" /\ SetAccount(u, status)
<1>. DEFINE Kinds ==
         \/ Quiet
         \/ \E r \in Request : CreateSession(r)
         \/ \E r \in Request, u \in User : Finds(r, u)
         \/ \E u \in User, status \in {"active", "inactive", "deleted"} :
                account[u] # "deleted" /\ SetAccount(u, status)
<1>1. ASSUME NEW r \in Request, LoginRefused(r) PROVE Kinds
  BY <1>1, SameStays, QuietRespond DEF LoginRefused
<1>2. ASSUME NEW r \in Request, NEW u \in User, LoginFind(r, u) PROVE Kinds
  <2>1. PICK place \in {"create", "createAfter401"} : GoOn(r, place, NoToken, u)
    BY <1>2 DEF LoginFind
  <2>2. /\ pc' = [pc EXCEPT ![r] = place] /\ held' = [held EXCEPT ![r] = NoToken]
        /\ who' = [who EXCEPT ![r] = u]
    BY <2>1 DEF GoOn
  <2>3. FindUser(u) /\ Idle(r) /\ UNCHANGED <<sessions, account, hurt>>
    BY <1>2 DEF LoginFind
  <2>4. held[r] = NoToken /\ held' = held
    BY <2>2, <2>3 DEF TypeInv, TypeOK
  <2>5. Admitted[r] = NoUser
    BY <2>3, AdmittedAt DEF Idle
  <2>6. Admitted' = [Admitted EXCEPT ![r] = u]
    BY <2>2 DEF Admitted, TypeInv, TypeOK
  <2>7. HoldersOwn
    BY <2>2, <2>4 DEF HoldersOwn, TypeInv, TypeOK
  <2>. QED BY <2>3, <2>4, <2>5, <2>6, <2>7 DEF Finds
<1>3. ASSUME NEW r \in Request, NEW t \in Rows, RefreshFind(r, t) PROVE Kinds
  <2>1. /\ pc' = [pc EXCEPT ![r] = "revoke"] /\ held' = [held EXCEPT ![r] = t]
        /\ who' = [who EXCEPT ![r] = Row(t).user]
        /\ UNCHANGED <<sessions, account, hurt>> /\ Row(t).usable
    BY <1>3 DEF RefreshFind, GoOn, FindByRefreshToken
  <2>. QED BY <2>1, SameStays, QuietMove
<1>4. ASSUME NEW r \in Request, NEW t \in Rows, RefreshRefused(r, t) PROVE Kinds
  BY <1>4, SameStays, QuietRespond DEF RefreshRefused
<1>5. ASSUME NEW r \in Request, RevokeOld(r) PROVE Kinds
  <2>1. /\ pc' = [pc EXCEPT ![r] = "user"] /\ held' = [held EXCEPT ![r] = held[r]]
        /\ who' = [who EXCEPT ![r] = who[r]]
        /\ UNCHANGED <<account, hurt>> /\ sessions' = Revoke(held[r])
    BY <1>5 DEF RevokeOld, GoOn
  <2>. QED BY <2>1, RevokeStays, QuietMove
<1>6. ASSUME NEW r \in Request, RefreshUser(r) PROVE Kinds
  <2>1. /\ pc[r] = "user" /\ FindUser(who[r]) /\ UNCHANGED <<sessions, account, hurt>>
        /\ pc' = [pc EXCEPT ![r] = "create"] /\ held' = [held EXCEPT ![r] = held[r]]
        /\ who' = [who EXCEPT ![r] = who[r]]
    BY <1>6 DEF RefreshUser, GoOn
  <2>2. who[r] \in User /\ held' = held /\ who' = who
    BY <2>1, AtWork DEF TypeInv, TypeOK, Idle
  <2>3. Admitted[r] = NoUser
    BY <2>1, AdmittedAt
  <2>4. Admitted' = [Admitted EXCEPT ![r] = who[r]]
    BY <2>1 DEF Admitted, TypeInv, TypeOK
  <2>5. HoldersOwn
    BY <2>2 DEF HoldersOwn
  <2>. QED BY <2>1, <2>2, <2>3, <2>4, <2>5 DEF Finds
<1>7. ASSUME NEW r \in Request, Fail(r) PROVE Kinds
  BY <1>7, HurtBetween, SameStays, QuietRespond DEF Fail
<1>8. ASSUME NEW r \in Request, NEW t \in Rows, LogoutRevoke(r, t) PROVE Kinds
  BY <1>8, OwnFamily, RevokeStays, QuietRespond DEF LogoutRevoke
<1>9. ASSUME NEW t \in Rows, Expire(t) PROVE Kinds
  <2>1. sessions' = Revoke(t) /\ UNCHANGED <<account, requestVars>> /\ hurt' = hurt \union {FamilyOf(t)}
    BY <1>9, ExpiryRevokes DEF Expire, TypeInv, TypeOK
  <2>. QED BY <2>1, OwnFamily, RevokeStays, QuietOutside
<1>10. ASSUME NEW u \in User, SoftDelete(u) \/ ToggleActive(u) PROVE Kinds
  BY <1>10 DEF SoftDelete, ToggleActive
<1>11. CASE Crash
  <2>1. /\ UNCHANGED <<sessions, account>> /\ hurt' = hurt \union UNION {Between(r) : r \in Request}
        /\ \A q \in Request : pc'[q] = "idle" /\ held'[q] = NoToken
    BY <1>11 DEF Crash
  <2>2. \A q \in Request : Admitted'[q] = NoUser
    BY <2>1, AdmittedAt
  <2>3. \A f \in hurt' \ hurt : Family(f) # {}
    BY <2>1, HurtBetween
  <2>4. HoldersOwn
    BY <2>1 DEF HoldersOwn
  <2>. QED BY <2>1, <2>2, <2>3, <2>4, SameStays DEF Quiet
<1>12. CASE UNCHANGED vars
  BY <1>12, SameStays, QuietOutside DEF vars
<1>13. CASE \E r \in Request : CreateSession(r)
  BY <1>13
<1>. QED BY <1>1, <1>2, <1>3, <1>4, <1>5, <1>6, <1>7, <1>8, <1>9, <1>10, <1>11, <1>12, <1>13
         DEF Next, Serve, Environment

LEMMA OwnedStep == TypeInv /\ Owned /\ [Next]_vars => Owned'
<1>. SUFFICES ASSUME TypeInv, Owned, [Next]_vars PROVE Owned'
  OBVIOUS
<1>1. CASE Quiet
  BY <1>1, OwnedKept DEF Quiet
<1>2. CASE \E r \in Request, u \in User : Finds(r, u)
  BY <1>2, SameStays, OwnedKept DEF Finds
<1>3. ASSUME NEW u, NEW status, SetAccount(u, status) PROVE Owned'
  <2>1. HoldersOwn /\ UNCHANGED sessions
    BY <1>3 DEF SetAccount, requestVars, HoldersOwn
  <2>. QED BY <2>1, SameStays, OwnedKept
<1>. QED BY <1>1, <1>2, <1>3, OwnedCreation, StepKinds

LEMMA StageAt ==
    ASSUME NEW f \in Token
    PROVE  /\ Stage[f] = IF Family(f) = {} THEN "none" ELSE IF Alive(f) THEN "live" ELSE "over"
           /\ Stage'[f] = IF Family(f)' = {} THEN "none" ELSE IF Alive(f)' THEN "live" ELSE "over"
BY DEF Stage

LEMMA FamilyInTable == ASSUME TypeInv, NEW f, Family(f) # {} PROVE f \in Token
<1>1. PICK t \in Rows : FamilyOf(t) = f
  BY DEF Family
<1>2. Row(t) \in Session
  BY Table DEF TypeInv, TypeOK
<1>. QED BY <1>1, <1>2 DEF Session, FamilyOf

\* A login that is over was hurt.
LEMMA OverWasHurt ==
    ASSUME FamilySurvives, NEW f, Family(f) # {}, ~Alive(f)
    PROVE  f \in hurt
<1>1. ~\E r \in Request : f \in Between(r)
  BY DEF Alive, Between
<1>2. f \in {FamilyOf(t) : t \in Rows} /\ ~\E t \in Rows : FamilyOf(t) = f /\ Row(t).usable
  BY DEF Family, Alive
<1>. QED BY <1>1, <1>2 DEF FamilySurvives

\* Quiet steps keep who belongs to a login, and revive none.
LEMMA QuietFamilies ==
    ASSUME TypeInv, Quiet, NEW f
    PROVE  /\ Family(f)' = Family(f)
           /\ \A t \in Family(f) : Row(t)'.user = Row(t).user
           /\ Alive(f)' => Alive(f)
<1>1. DOMAIN sessions' = Rows /\ RowsStay
  BY DEF Quiet
<1>2. \A t \in Rows : FamilyOf(t)' = FamilyOf(t) /\ Row(t)'.user = Row(t).user
  BY <1>1 DEF RowsStay, FamilyOf, Row
<1>3. Family(f)' = Family(f)
  BY <1>1, <1>2 DEF Family, Rows
<1>4. \A t \in Rows : Row(t)'.usable => Row(t).usable
  BY <1>1 DEF RowsStay, Row
<1>5. ASSUME NEW t \in Family(f)', Row(t)'.usable PROVE Alive(f)
  BY <1>3, <1>4, <1>5 DEF Alive, Family
<1>6. ASSUME NEW r \in Request, held'[r] # NoToken, FamilyOf(held[r])' = f PROVE Alive(f)
  <2>1. CASE held'[r] = held[r]
    <3>1. held[r] \in Rows
      BY <1>6, <2>1 DEF TypeInv, ServeOK
    <3>2. sessions'[held[r]].family = Row(held[r]).family
      BY <1>1, <3>1 DEF RowsStay
    <3>. QED BY <1>6, <2>1, <3>2 DEF Alive, FamilyOf, Row
  <2>2. CASE held'[r] \in Rows /\ Row(held'[r]).usable
    <3>1. sessions'[held'[r]].family = Row(held'[r]).family
      BY <1>1, <2>2 DEF RowsStay
    <3>2. held'[r] \in Family(f)
      BY <1>6, <2>2, <3>1 DEF Family, FamilyOf, Row
    <3>. QED BY <2>2, <3>2 DEF Alive
  <2>. QED BY <1>6, <2>1, <2>2 DEF Quiet
<1>7. Alive(f)' => Alive(f)
  BY <1>5, <1>6 DEF Alive
<1>. QED BY <1>2, <1>3, <1>7 DEF Family

LEMMA QuietLoses ==
    ASSUME TypeInv, FamilySurvives', Quiet
    PROVE  Abstract!Next
<1>. DEFINE R == {q \in Request : Admitted'[q] = NoUser}
            L == hurt' \ hurt
            over == {f \in Token : Stage'[f] = "over"}
<1>1. Admitted' = [q \in Request |-> IF q \in R THEN NoUser ELSE Admitted[q]]
  <2>1. \A q \in Request : Admitted'[q] = IF q \in R THEN NoUser ELSE Admitted[q]
    BY DEF Quiet
  <2>2. Admitted' = [q \in Request |-> Admitted'[q]]
    BY DEF Admitted
  <2>. QED BY <2>1, <2>2
<1>2. L \in SUBSET (Token \ hurt) /\ \A f \in L : Stage[f] # "none"
  <2>1. \A f \in L : Family(f) # {}
    BY DEF Quiet
  <2>. QED BY <2>1, FamilyInTable, StageAt
<1>3. hurt' = hurt \union L
  BY DEF Quiet
<1>4. over \in SUBSET hurt'
  <2>1. ASSUME NEW f \in Token, Stage'[f] = "over" PROVE f \in hurt'
    <3>1. Family(f)' # {} /\ ~Alive(f)'
      BY <2>1, StageAt
    <3>2. /\ ~\E r \in Request : f \in Between(r)'
          /\ f \in {FamilyOf(t)' : t \in Rows'}
          /\ ~\E t \in Rows' : FamilyOf(t)' = f /\ Row(t)'.usable
      BY <3>1 DEF Alive, Between, Family
    <3>. QED BY <3>2 DEF FamilySurvives
  <2>. QED BY <2>1
<1>5. Stage' = [f \in Token |-> IF f \in over THEN "over" ELSE Stage[f]]
  <2>1. ASSUME NEW f \in Token PROVE Stage'[f] = IF f \in over THEN "over" ELSE Stage[f]
    <3>1. Family(f)' = Family(f) /\ (Alive(f)' => Alive(f))
      BY QuietFamilies
    <3>. QED BY <3>1, StageAt
  <2>2. Stage' = [f \in Token |-> Stage'[f]]
    BY DEF Stage
  <2>. QED BY <2>1, <2>2
<1>6. Owners' = Owners /\ Issued' = Issued
  <2>1. \A f \in Token : /\ Family(f)' = Family(f)
                         /\ {Row(t)'.user : t \in Family(f)'} = {Row(t).user : t \in Family(f)}
    BY QuietFamilies
  <2>. QED BY <2>1 DEF Owners, Issued
<1>7. \E S \in SUBSET Request :
          Admitted' = [q \in Request |-> IF q \in S THEN NoUser ELSE Admitted[q]]
  <2>1. R \in SUBSET Request
    OBVIOUS
  <2>. HIDE DEF R
  <2>. QED BY <1>1, <2>1
<1>8. Abstract!Lose(L)
  BY <1>2, <1>3, <1>4, <1>5, <1>6, <1>7 DEF Abstract!Lose, Quiet
<1>. HIDE DEF L
<1>. QED BY <1>2, <1>8 DEF Abstract!Next

\* What no step that leaves the table and the tokens held alone can do to a login.
LEMMA SameLogins ==
    ASSUME UNCHANGED <<sessions, held>>
    PROVE  UNCHANGED <<Stage, Owners, Issued>>
<1>1. \A f : Family(f)' = Family(f) /\ Alive(f)' = Alive(f)
  BY DEF Family, Alive, Rows, Row, FamilyOf
<1>2. \A f : {Row(t).user : t \in Family(f)}' = {Row(t).user : t \in Family(f)}
  BY <1>1 DEF Row
<1>. QED BY <1>1, <1>2 DEF Stage, Owners, Issued

LEMMA FindAdmits ==
    ASSUME NEW r \in Request, NEW u \in User, Finds(r, u)
    PROVE  Abstract!Next
<1>1. Abstract!Admit(r, u)
  BY SameLogins DEF Abstract!Admit, Finds, FindUser
<1>. QED BY <1>1 DEF Abstract!Next

LEMMA AccountChanges ==
    ASSUME NEW u \in User, NEW status \in {"active", "inactive", "deleted"},
           account[u] # "deleted", SetAccount(u, status)
    PROVE  Abstract!Next
<1>1. UNCHANGED Admitted
  BY DEF Admitted, SetAccount, requestVars
<1>2. Abstract!Change(u, status)
  BY <1>1, SameLogins DEF Abstract!Change, SetAccount, requestVars
<1>. QED BY <1>2 DEF Abstract!Next, Abstract!Status

\* The creation of a session adds one to one login, which lives, and concerns no other.
LEMMA CreationFamilies ==
    ASSUME TypeInv, NEW r \in Request, CreateSession(r), NEW n, n = Len(sessions) + 1,
           NEW f, f = IF held[r] = NoToken THEN n ELSE FamilyOf(held[r])
    PROVE  /\ Family(f)' = Family(f) \union {n} /\ n \notin Family(f) /\ Alive(f)'
           /\ \A t \in Rows : Row(t)'.user = Row(t).user
           /\ \A g : g # f => Family(g)' = Family(g) /\ Alive(g)' = Alive(g)
<1>1. /\ DOMAIN sessions' = Rows \union {n} /\ \A s \in Rows : sessions'[s] = Row(s)
      /\ held' = [held EXCEPT ![r] = NoToken]
  BY CreationStep
<1>2. n \notin Rows /\ sessions'[n].family = f /\ sessions'[n].usable
  BY CreationJoins
<1>3. \A s \in Rows : FamilyOf(s)' = FamilyOf(s) /\ Row(s)' = Row(s)
  BY <1>1 DEF FamilyOf, Row
<1>4. FamilyOf(n)' = f /\ Row(n)'.usable
  BY <1>2 DEF FamilyOf, Row
<1>5. Family(f)' = Family(f) \union {n} /\ \A g : g # f => Family(g)' = Family(g)
  BY <1>1, <1>3, <1>4 DEF Family, Rows
<1>6. n \notin Family(f)
  BY <1>2 DEF Family
<1>7. n \in Family(f)' /\ Alive(f)'
  BY <1>4, <1>5 DEF Alive
<1>8. ASSUME NEW g, g # f PROVE Alive(g)' = Alive(g)
  <2>1. (\E t \in Family(g)' : Row(t)'.usable) <=> \E t \in Family(g) : Row(t).usable
    BY <1>3, <1>5, <1>8 DEF Family
  <2>2. \A q \in Request : /\ held[q] = NoToken \/ held[q] \in Rows
                           /\ held'[q] = IF q = r THEN NoToken ELSE held[q]
    BY <1>1 DEF TypeInv, TypeOK, ServeOK
  <2>3. ASSUME NEW q \in Request, held'[q] # NoToken, FamilyOf(held[q])' = g
        PROVE  held[q] # NoToken /\ FamilyOf(held[q]) = g
    <3>1. held'[q] = held[q] /\ held[q] \in Rows
      BY <2>2, <2>3
    <3>2. FamilyOf(held[q])' = sessions'[held[q]].family
      BY <3>1 DEF FamilyOf, Row
    <3>3. sessions'[held[q]].family = FamilyOf(held[q])
      BY <1>1, <3>1 DEF FamilyOf
    <3>. QED BY <2>3, <3>1, <3>2, <3>3
  <2>4. ASSUME NEW q \in Request, held[q] # NoToken, FamilyOf(held[q]) = g
        PROVE  held'[q] # NoToken /\ FamilyOf(held[q])' = g
    <3>1. q # r
      BY <1>8, <2>4
    <3>2. held'[q] = held[q] /\ held[q] \in Rows
      BY <2>2, <2>4, <3>1
    <3>3. FamilyOf(held[q])' = sessions'[held[q]].family
      BY <3>2 DEF FamilyOf, Row
    <3>4. sessions'[held[q]].family = FamilyOf(held[q])
      BY <1>1, <3>2 DEF FamilyOf
    <3>. QED BY <2>4, <3>2, <3>3, <3>4
  <2>. QED BY <2>1, <2>3, <2>4 DEF Alive
<1>. QED BY <1>3, <1>5, <1>6, <1>7, <1>8

LEMMA CreationIssues ==
    ASSUME TypeInv, Owned, NEW r \in Request, CreateSession(r)
    PROVE  Abstract!Next
<1>. SUFFICES ASSUME NEW n, n = Len(sessions) + 1,
                     NEW f, f = IF held[r] = NoToken THEN n ELSE FamilyOf(held[r])
              PROVE  Abstract!Next
  OBVIOUS
<1>1. /\ n \in Token \ Rows /\ sessions'[n].user = who[r] /\ who[r] \in User
      /\ held[r] \in Rows \union {NoToken}
  BY CreationJoins
<1>2. /\ pc' = [pc EXCEPT ![r] = "idle"] /\ pc[r] \in {"create", "createAfter401"}
      /\ who' = [who EXCEPT ![r] = NoUser] /\ UNCHANGED <<account, hurt>>
  BY CreationStep DEF CreateSession
<1>3. /\ Family(f)' = Family(f) \union {n} /\ n \notin Family(f) /\ Alive(f)'
      /\ \A t \in Rows : Row(t)'.user = Row(t).user
      /\ \A g : g # f => Family(g)' = Family(g) /\ Alive(g)' = Alive(g)
  BY CreationFamilies
<1>4. Row(n)'.user = who[r]
  BY <1>1 DEF Row
<1>5. f \in Token
  <2>1. ASSUME held[r] \in Rows PROVE FamilyOf(held[r]) \in Token
    BY <2>1, OwnFamily, FamilyInTable
  <2>. QED BY <1>1, <2>1
<1>6. Admitted[r] = who[r] /\ Admitted[r] # NoUser
  BY <1>1, <1>2, AdmittedAt, NoUserAssumption
<1>7. Admitted' = [Admitted EXCEPT ![r] = NoUser]
  BY <1>2 DEF Admitted, TypeInv, TypeOK
<1>8. Issued' = [Issued EXCEPT ![f] = @ + 1]
  <2>1. Family(f) \subseteq Rows
    BY DEF Family
  <2>2. IsFiniteSet(Family(f))
    BY <2>1, RowSetsFinite, FS_Subset
  <2>3. Cardinality(Family(f) \union {n}) = Cardinality(Family(f)) + 1
    BY <1>3, <2>2, FS_AddElement
  <2>4. Cardinality(Family(f))' = Cardinality(Family(f)) + 1
    BY <1>3, <2>3
  <2>. QED BY <1>3, <2>4 DEF Issued
<1>9. Abstract!Issue(r, f)
  BY <1>2, <1>6, <1>7, <1>8 DEF Abstract!Issue
<1>10. \A g \in Token \ {f} : Stage'[g] = Stage[g]
  BY <1>3, StageAt
<1>11. Stage'[f] = "live"
  BY <1>3, <1>5, StageAt
<1>12. \A g \in Token \ {f} : {Row(t)'.user : t \in Family(g)'} = {Row(t).user : t \in Family(g)}
  <2>1. \A g \in Token \ {f} : Family(g)' = Family(g) /\ Family(g) \subseteq Rows
    BY <1>3 DEF Family
  <2>. QED BY <1>3, <2>1
<1>13. CASE held[r] = NoToken
  <2>1. f = n
    BY <1>13
  <2>2. Family(f) = {}
    BY <1>1, <2>1 DEF Family, TypeInv, ServeOK
  <2>3. Stage[f] = "none" /\ Stage' = [Stage EXCEPT ![f] = "live"]
    <3>1. Stage[f] = "none"
      BY <1>5, <2>2, StageAt
    <3>2. Stage' = [g \in Token |-> Stage'[g]] /\ Stage = [g \in Token |-> Stage[g]]
      BY DEF Stage
    <3>. QED BY <1>10, <1>11, <3>1, <3>2
  <2>4. {Row(t)'.user : t \in Family(f)'} = {who[r]}
    BY <1>3, <1>4, <2>2
  <2>5. Owners' = [Owners EXCEPT ![f] = {Admitted[r]}]
    BY <1>6, <1>12, <2>4 DEF Owners
  <2>6. Abstract!Begin(r, f)
    BY <1>9, <2>3, <2>5 DEF Abstract!Begin
  <2>. QED BY <1>5, <2>6 DEF Abstract!Next
<1>14. CASE held[r] \in Rows /\ held[r] # NoToken
  <2>1. f = FamilyOf(held[r]) /\ held[r] \in Family(f) /\ Alive(f)
    BY <1>14 DEF Family, Alive
  <2>2. Stage[f] = "live"
    BY <1>5, <2>1, StageAt
  <2>3. Stage' = Stage
    <3>1. Stage' = [g \in Token |-> Stage'[g]] /\ Stage = [g \in Token |-> Stage[g]]
      BY DEF Stage
    <3>. QED BY <1>10, <1>11, <2>2, <3>1
  <2>4. \A t \in Family(f) : Row(t).user = who[r]
    <3>1. who[r] = Row(f).user
      BY <1>14, <2>1 DEF Owned
    <3>. QED BY <3>1 DEF Owned, Family
  <2>5. {Row(t).user : t \in Family(f)} = {who[r]}
    BY <2>1, <2>4
  <2>6. \A t \in Family(f)' : Row(t)'.user = who[r]
    BY <1>3, <1>4, <2>4 DEF Family
  <2>7. {Row(t)'.user : t \in Family(f)'} = {who[r]}
    BY <1>3, <2>6
  <2>8. Owners' = Owners /\ Owners[f] = {Admitted[r]}
    BY <1>5, <1>6, <1>12, <2>5, <2>7 DEF Owners
  <2>9. Abstract!Renew(r, f)
    BY <1>9, <2>2, <2>3, <2>8 DEF Abstract!Renew
  <2>. QED BY <1>5, <2>9 DEF Abstract!Next
<1>. QED BY <1>1, <1>13, <1>14

LEMMA LoginsInit == Init => Owned /\ FamilySurvives /\ Abstract!Init
<1>. SUFFICES ASSUME Init PROVE Owned /\ FamilySurvives /\ Abstract!Init
  OBVIOUS
<1>1. Rows = {} /\ \A f : Family(f) = {}
  BY DEF Init, Rows, Family
<1>2. Owned /\ FamilySurvives
  BY <1>1 DEF Owned, FamilySurvives, Init
<1>3. Admitted = [r \in Request |-> NoUser]
  BY DEF Init, Admitted
<1>4. /\ Stage = [f \in Token |-> "none"] /\ Owners = [f \in Token |-> {}]
      /\ Issued = [f \in Token |-> 0]
  BY <1>1, FS_EmptySet DEF Stage, Owners, Issued
<1>. QED BY <1>2, <1>3, <1>4 DEF Init, Abstract!Init, Abstract!Status

LEMMA LoginsStep ==
    TypeInv /\ Owned /\ FamilySurvives' /\ [Next]_vars => [Abstract!Next]_(Abstract!vars)
<1>. SUFFICES ASSUME TypeInv, Owned, FamilySurvives', [Next]_vars PROVE Abstract!Next
  OBVIOUS
<1>. QED BY StepKinds, QuietLoses, FindAdmits, AccountChanges, CreationIssues

\* However the statements of logins, refreshes and logouts interleave, fail or are cut
\* off, the sessions table implements Logins: each session is of the user who began its
\* login and answers one lookup of an account that was there, and no login that is over
\* is revived.
THEOREM LoginsImplemented == Spec => LoginsAsPromised
<1>1. TypeInv /\ FamilySurvives /\ Owned /\ [Next]_vars => TypeInv' /\ FamilySurvives' /\ Owned'
  BY TypeStep, FamilyStep, OwnedStep
<1>. QED BY <1>1, LoginsInit, TypeInit, LoginsStep, PTL
         DEF Spec, LoginsAsPromised, Abstract!Spec
=============================================================================
