------------------------------ MODULE AppProofs ------------------------------
(***************************************************************************)
(* Theorems about App, for any number of calls under way, any accounts,    *)
(* buckets, rules and logs, and any bounds.                                *)
(***************************************************************************)
EXTENDS App, FiniteSetTheorems, SequenceTheorems, TLAPS

-----------------------------------------------------------------------------
(* The calls under way *)

BucketsCalls == {"buckets", "analytics", "makeBucket", "dropBucket", "lifecycle", "putLifecycle",
                 "dropLifecycle", "versions", "deleteObject"}
ReportsCalls == {"logs", "logBuckets"}
PageCalls == UsersCalls \union BucketsCalls \union ReportsCalls \union {"summary"}
Kind == PageCalls \union {"me", "login", "logout"}

\* The page that reads the answers of a call.
BelongsTo(kind, p) ==
    \/ kind = "logout"
    \/ kind = "me" /\ p = "spinner"
    \/ kind = "login" /\ p = "login"
    \/ kind = "summary" /\ p = "dashboard"
    \/ kind \in UsersCalls /\ p = "users"
    \/ kind \in BucketsCalls /\ p = "buckets"
    \/ kind \in ReportsCalls /\ p = "reports"

\* The parts of the arguments that the dialogs of the buckets look at.
ArgOK(c) ==
    /\ c.kind \in LcCalls =>
          /\ c.arg = [bucket |-> c.arg.bucket, rules |-> c.arg.rules, form |-> c.arg.form, closed |-> c.arg.closed]
          /\ c.arg.closed \in BOOLEAN
    /\ c.kind = "versions" => c.arg = [bucket |-> c.arg.bucket, then |-> c.arg.then]

\* A call that is under way.
Proper(c) ==
    /\ c = [kind |-> c.kind, arg |-> c.arg, as |-> c.as, served |-> c.served,
            answer |-> c.answer, gone |-> c.gone]
    /\ c.kind \in Kind /\ c.served \in BOOLEAN /\ c.gone \in BOOLEAN
    /\ c.gone => c.kind \in Changing
    /\ ArgOK(c)
IsCall(c) == c = NoCall \/ Proper(c)

-----------------------------------------------------------------------------
(* Records of calls *)

LEMMA ProperFields ==
  ASSUME NEW c, Proper(c)
  PROVE  DOMAIN c = {"kind", "arg", "as", "served", "answer", "gone"}
<1>. PICK k, a, w, s, r, g :
          c = [kind |-> k, arg |-> a, as |-> w, served |-> s, answer |-> r, gone |-> g]
  BY DEF Proper
<1>. QED OBVIOUS

LEMMA FreshProper ==
  ASSUME NEW who, NEW kind \in Kind, NEW arg, NEW c, c = CallAs(who, kind, arg), ArgOK(c)
  PROVE  /\ Proper(c)
         /\ c.kind = kind /\ c.arg = arg /\ c.as = who /\ ~c.served /\ ~c.gone
<1>1. c = [kind |-> kind, arg |-> arg, as |-> who, served |-> FALSE, answer |-> "none", gone |-> FALSE]
  BY DEF CallAs
<1>2. c.kind = kind /\ c.arg = arg /\ c.as = who /\ c.served = FALSE /\ c.answer = "none" /\ c.gone = FALSE
  BY <1>1
<1>3. c = [kind |-> c.kind, arg |-> c.arg, as |-> c.as, served |-> c.served,
           answer |-> c.answer, gone |-> c.gone]
  BY <1>1, <1>2
<1>. QED BY <1>2, <1>3 DEF Proper

\* What Served makes of a call.
WithAnswer(c, a) == [c EXCEPT !.served = TRUE, !.answer = a]

LEMMA ServedProper ==
  ASSUME NEW c, Proper(c), NEW a, NEW d, d = WithAnswer(c, a)
  PROVE  /\ Proper(d)
         /\ d.kind = c.kind /\ d.arg = c.arg /\ d.as = c.as /\ d.served /\ d.answer = a /\ d.gone = c.gone
<1>1. DOMAIN c = {"kind", "arg", "as", "served", "answer", "gone"}
  BY ProperFields
<1>2. d.kind = c.kind /\ d.arg = c.arg /\ d.as = c.as /\ d.served = TRUE /\ d.answer = a /\ d.gone = c.gone
  BY <1>1 DEF WithAnswer
<1>3. d = [kind |-> d.kind, arg |-> d.arg, as |-> d.as, served |-> d.served,
           answer |-> d.answer, gone |-> d.gone]
  BY <1>1 DEF WithAnswer
<1>4. ArgOK(d)
  BY <1>2 DEF Proper, ArgOK
<1>5. d.kind \in Kind /\ d.served \in BOOLEAN /\ d.gone \in BOOLEAN /\ (d.gone => d.kind \in Changing)
  BY <1>2 DEF Proper
<1>. QED BY <1>2, <1>3, <1>4, <1>5 DEF Proper

LEMMA LeftProper ==
  ASSUME NEW c, Proper(c), c.kind \in Changing, NEW d, d = [c EXCEPT !.gone = TRUE]
  PROVE  /\ Proper(d)
         /\ d.kind = c.kind /\ d.arg = c.arg /\ d.as = c.as /\ d.gone
<1>1. DOMAIN c = {"kind", "arg", "as", "served", "answer", "gone"}
  BY ProperFields
<1>2. d.kind = c.kind /\ d.arg = c.arg /\ d.as = c.as /\ d.served = c.served /\ d.gone = TRUE
  BY <1>1
<1>3. d = [kind |-> d.kind, arg |-> d.arg, as |-> d.as, served |-> d.served,
           answer |-> d.answer, gone |-> d.gone]
  BY <1>1
<1>4. ArgOK(d)
  BY <1>2 DEF Proper, ArgOK
<1>5. d.kind \in Kind /\ d.served \in BOOLEAN /\ d.gone \in BOOLEAN
  BY <1>2 DEF Proper
<1>. QED BY <1>2, <1>3, <1>4, <1>5 DEF Proper

\* What becomes of a saving whose dialog is closed.
Shut(c) == [c EXCEPT !.arg.closed = TRUE]

LEMMA ClosedProper ==
  ASSUME NEW c, Proper(c), c.kind \in LcCalls, NEW d, d = Shut(c)
  PROVE  /\ Proper(d)
         /\ d.kind = c.kind /\ d.as = c.as /\ d.served = c.served /\ d.gone = c.gone
         /\ d.arg.bucket = c.arg.bucket /\ d.arg.rules = c.arg.rules
         /\ d.arg.form = c.arg.form /\ d.arg.closed
<1>1. DOMAIN c = {"kind", "arg", "as", "served", "answer", "gone"}
  BY ProperFields
<1>0. c.arg = [bucket |-> c.arg.bucket, rules |-> c.arg.rules, form |-> c.arg.form, closed |-> c.arg.closed]
  BY DEF Proper, ArgOK
<1>. DEFINE e == [c.arg EXCEPT !.closed = TRUE]
<1>2. /\ e = [bucket |-> e.bucket, rules |-> e.rules, form |-> e.form, closed |-> e.closed]
      /\ e.bucket = c.arg.bucket /\ e.rules = c.arg.rules /\ e.form = c.arg.form /\ e.closed = TRUE
  <2>1. DOMAIN c.arg = {"bucket", "rules", "form", "closed"}
    BY <1>0
  <2>2. PICK a : a = c.arg /\ DOMAIN a = {"bucket", "rules", "form", "closed"}
    BY <2>1
  <2>3. PICK g : g = [a EXCEPT !.closed = TRUE]
    OBVIOUS
  <2>4. g = [bucket |-> g.bucket, rules |-> g.rules, form |-> g.form, closed |-> g.closed]
    BY <2>2, <2>3
  <2>5. g.bucket = a.bucket /\ g.rules = a.rules /\ g.form = a.form /\ g.closed = TRUE
    BY <2>2, <2>3
  <2>6. e = g
    BY <2>2, <2>3, Zenon
  <2>. QED BY <2>2, <2>4, <2>5, <2>6, Zenon
<1>3. d = [c EXCEPT !.arg = e]
  <2>1. [c EXCEPT !.arg.closed = TRUE] = [c EXCEPT !.arg = [c.arg EXCEPT !.closed = TRUE]]
    BY Zenon
  <2>. QED BY <2>1, Zenon DEF Shut
<1>. HIDE DEF e
<1>4. d.kind = c.kind /\ d.arg = e /\ d.as = c.as /\ d.served = c.served /\ d.gone = c.gone
  BY <1>1, <1>3
<1>5. d = [kind |-> d.kind, arg |-> d.arg, as |-> d.as, served |-> d.served,
           answer |-> d.answer, gone |-> d.gone]
  BY <1>1, <1>3
<1>6. /\ d.arg.bucket = c.arg.bucket /\ d.arg.rules = c.arg.rules
      /\ d.arg.form = c.arg.form /\ d.arg.closed = TRUE
  BY <1>2, <1>4
<1>7. ArgOK(d)
  BY <1>2, <1>4, <1>6 DEF ArgOK, LcCalls
<1>8. d.kind \in Kind /\ d.served \in BOOLEAN /\ d.gone \in BOOLEAN /\ (d.gone => d.kind \in Changing)
  BY <1>4 DEF Proper
<1>. QED BY <1>4, <1>5, <1>6, <1>7, <1>8 DEF Proper

-----------------------------------------------------------------------------
(* What the operators of Browser do with the calls *)

LEMMA SlotsFinite == Slot \subseteq Nat /\ \A S \in SUBSET Slot : IsFiniteSet(S)
<1>1. IsFiniteSet(Slot)
  BY BrowserAssumption, FS_Interval DEF Slot
<1>2. \A S \in SUBSET Slot : IsFiniteSet(S)
  BY <1>1, FS_Subset
<1>3. Slot \subseteq Nat
  BY BrowserAssumption DEF Slot
<1>. QED BY <1>2, <1>3

LEMMA Least ==
  ASSUME NEW S \in SUBSET Nat, S # {}
  PROVE  \E n \in S : \A m \in S : n <= m
<1>. DEFINE T == {S \intersect (0 .. n) : n \in S}
<1>1. T \subseteq FiniteSubsetsOf(S) /\ T # {}
  <2>1. \A n \in S : IsFiniteSet(0 .. n)
    BY FS_Interval
  <2>2. \A n \in S : IsFiniteSet(S \intersect (0 .. n))
    BY <2>1, FS_Intersection
  <2>. QED BY <2>2 DEF FiniteSubsetsOf
<1>2. \E x \in T : \A y \in T : ~(<<y, x>> \in StrictSubsetOrdering(S))
  <2>. HIDE DEF T
  <2>. QED BY <1>1, FS_StrictSubsetOrderingWellFounded, WFMin
<1>3. PICK n \in S : \A m \in S :
          ~(<<S \intersect (0 .. m), S \intersect (0 .. n)>> \in StrictSubsetOrdering(S))
  BY <1>2
<1>4. ASSUME NEW m \in S, ~(n <= m) PROVE FALSE
  <2>1. S \intersect (0 .. m) \subseteq S \intersect (0 .. n)
    BY <1>4
  <2>2. n \notin S \intersect (0 .. m) /\ n \in S \intersect (0 .. n)
    BY <1>4
  <2>3. S \intersect (0 .. m) \in SUBSET S /\ S \intersect (0 .. n) \in SUBSET S
    OBVIOUS
  <2>4. <<S \intersect (0 .. m), S \intersect (0 .. n)>> \in StrictSubsetOrdering(S)
    BY <2>1, <2>2, <2>3 DEF StrictSubsetOrdering
  <2>. QED BY <1>3, <2>4
<1>. QED BY <1>4

\* calls is a function on the slots whose members are calls.
Calls == calls = [n \in Slot |-> calls[n]] /\ \A n \in Slot : IsCall(calls[n])

LEMMA CallsKind ==
  ASSUME Calls
  PROVE  /\ Free = {n \in Slot : calls[n] = NoCall}
         /\ \A K : Mine(K) = {n \in Slot : calls[n] # NoCall /\ calls[n].kind \in K /\ ~calls[n].gone}
         /\ \A n \in Slot : calls[n] # NoCall => Proper(calls[n]) /\ calls[n].kind \in Kind
         /\ \A n \in Slot : calls[n].kind \in Kind => calls[n] # NoCall
<1>1. NoCall.kind = "none" /\ "none" \notin Kind
  BY DEF NoCall, Kind, PageCalls, UsersCalls, BucketsCalls, ReportsCalls
<1>2. \A n \in Slot : calls[n] # NoCall => Proper(calls[n]) /\ calls[n].kind \in Kind
  BY DEF Calls, IsCall, Proper
<1>3. \A n \in Slot : calls[n].kind = "none" <=> calls[n] = NoCall
  BY <1>1, <1>2
<1>4. Free = {n \in Slot : calls[n] = NoCall}
  BY <1>3 DEF Free
<1>5. \A K : Mine(K) = {n \in Slot : calls[n] # NoCall /\ calls[n].kind \in K /\ ~calls[n].gone}
  BY <1>4 DEF Mine
<1>. QED BY <1>1, <1>2, <1>4, <1>5

LEMMA CallsKindNext ==
  ASSUME Calls'
  PROVE  /\ Free' = {n \in Slot : calls'[n] = NoCall}
         /\ \A K : Mine(K)' = {n \in Slot : calls'[n] # NoCall /\ calls'[n].kind \in K /\ ~calls'[n].gone}
<1>1. NoCall.kind = "none" /\ "none" \notin Kind
  BY DEF NoCall, Kind, PageCalls, UsersCalls, BucketsCalls, ReportsCalls
<1>2. \A n \in Slot : calls'[n] # NoCall => calls'[n].kind \in Kind
  BY DEF Calls, IsCall, Proper
<1>3. \A n \in Slot : calls'[n].kind = "none" <=> calls'[n] = NoCall
  BY <1>1, <1>2
<1>4. Free' = {n \in Slot : calls'[n] = NoCall}
  BY <1>3 DEF Free
<1>. QED BY <1>4 DEF Mine

\* A slot is given a call, or nothing.
LEMMA PutEffect ==
  ASSUME Calls, NEW n \in Slot, NEW c, IsCall(c), Put(n, c)
  PROVE  /\ Calls'
         /\ calls'[n] = c /\ \A m \in Slot \ {n} : calls'[m] = calls[m]
         /\ \A K : Mine(K)' = IF c # NoCall /\ c.kind \in K /\ ~c.gone
                              THEN Mine(K) \union {n} ELSE Mine(K) \ {n}
<1>1. /\ calls' = [m \in Slot |-> IF m = n THEN c ELSE calls[m]]
      /\ calls' = [m \in Slot |-> calls'[m]]
  BY DEF Put, Calls
<1>2. calls'[n] = c /\ \A m \in Slot \ {n} : calls'[m] = calls[m]
  BY <1>1
<1>3. Calls'
  BY <1>1, <1>2 DEF Calls
<1>4. ASSUME NEW K
      PROVE  Mine(K)' = IF c # NoCall /\ c.kind \in K /\ ~c.gone THEN Mine(K) \union {n} ELSE Mine(K) \ {n}
  <2>1. Mine(K)' = {m \in Slot : calls'[m] # NoCall /\ calls'[m].kind \in K /\ ~calls'[m].gone}
    BY <1>3, CallsKindNext
  <2>2. Mine(K) = {m \in Slot : calls[m] # NoCall /\ calls[m].kind \in K /\ ~calls[m].gone}
    BY CallsKind
  <2>. QED BY <1>2, <2>1, <2>2
<1>. QED BY <1>2, <1>3, <1>4

LEMMA ForgetEffect ==
  ASSUME Calls, NEW n \in Slot, Forget(n)
  PROVE  /\ Calls'
         /\ calls'[n] = NoCall /\ \A m \in Slot \ {n} : calls'[m] = calls[m]
         /\ \A K : Mine(K)' = Mine(K) \ {n}
<1>1. Put(n, NoCall) /\ IsCall(NoCall)
  BY DEF Forget, IsCall
<1>. QED BY <1>1, PutEffect

LEMMA QuietEffect ==
  ASSUME calls' = calls
  PROVE  /\ Calls => Calls'
         /\ \A K : Mine(K)' = Mine(K)
BY DEF Calls, Mine, Free

\* A call is sent in a slot that was free.
LEMMA SendEffect ==
  ASSUME Calls, NEW kind \in Kind, NEW arg, Send(kind, arg), ArgOK(Call(kind, arg))
  PROVE  \E n \in Slot :
            /\ Calls'
            /\ calls[n] = NoCall /\ calls'[n] = Call(kind, arg) /\ calls'[n] # NoCall
            /\ Proper(calls'[n])
            /\ calls'[n].kind = kind /\ calls'[n].arg = arg /\ calls'[n].as = tokens
            /\ ~calls'[n].served /\ ~calls'[n].gone
            /\ \A m \in Slot \ {n} : calls'[m] = calls[m]
            /\ \A K : n \notin Mine(K)
            /\ \A K : Mine(K)' = IF kind \in K THEN Mine(K) \union {n} ELSE Mine(K)
<1>1. Free \in SUBSET Nat /\ Free # {}
  BY SlotsFinite DEF Send, Free
<1>2. PICK n \in Free : \A m \in Free : n <= m
  BY <1>1, Least
<1>3. PICK n1 : n1 = CHOOSE k \in Free : \A m \in Free : k <= m
  OBVIOUS
<1>4. n1 \in Free
  BY <1>2, <1>3
<1>5. n1 \in Slot /\ calls[n1] = NoCall
  BY <1>4, CallsKind
<1>6. PICK c : c = Call(kind, arg)
  OBVIOUS
<1>7. /\ Proper(c) /\ c.kind = kind /\ c.arg = arg /\ c.as = tokens /\ ~c.served /\ ~c.gone
  <2>1. PICK who : who = tokens
    OBVIOUS
  <2>2. c = CallAs(who, kind, arg) /\ ArgOK(c)
    BY <1>6, <2>1, Zenon DEF Call
  <2>3. Proper(c) /\ c.kind = kind /\ c.arg = arg /\ c.as = who /\ ~c.served /\ ~c.gone
    BY <2>2, FreshProper
  <2>. QED BY <2>1, <2>3
<1>8. c # NoCall
  BY <1>7 DEF NoCall, Kind, PageCalls, UsersCalls, BucketsCalls, ReportsCalls
<1>9. Put(n1, c)
  BY <1>3, <1>6, Zenon DEF Send
<1>10. /\ Calls'
       /\ calls'[n1] = c /\ \A m \in Slot \ {n1} : calls'[m] = calls[m]
       /\ \A K : Mine(K)' = IF c # NoCall /\ c.kind \in K /\ ~c.gone
                            THEN Mine(K) \union {n1} ELSE Mine(K) \ {n1}
  BY <1>5, <1>7, <1>9, PutEffect DEF IsCall
<1>11. \A K : n1 \notin Mine(K)
  BY <1>4 DEF Mine
<1>12. \A K : Mine(K)' = IF kind \in K THEN Mine(K) \union {n1} ELSE Mine(K)
  BY <1>7, <1>8, <1>10, <1>11
<1>. QED BY <1>5, <1>6, <1>7, <1>8, <1>10, <1>11, <1>12

\* The call that follows upon the one in slot n.
LEMMA FollowEffect ==
  ASSUME Calls, NEW n \in Slot, NEW kind \in Kind, NEW arg, ArgOK(Call(kind, arg)), Put(n, Call(kind, arg))
  PROVE  /\ Calls'
         /\ calls'[n] = Call(kind, arg) /\ calls'[n] # NoCall
         /\ Proper(calls'[n])
         /\ calls'[n].kind = kind /\ calls'[n].arg = arg /\ calls'[n].as = tokens
         /\ ~calls'[n].served /\ ~calls'[n].gone
         /\ \A m \in Slot \ {n} : calls'[m] = calls[m]
         /\ \A K : Mine(K)' = IF kind \in K THEN Mine(K) \union {n} ELSE Mine(K) \ {n}
<1>1. PICK c : c = Call(kind, arg)
  OBVIOUS
<1>2. /\ Proper(c) /\ c.kind = kind /\ c.arg = arg /\ c.as = tokens /\ ~c.served /\ ~c.gone
  <2>1. PICK who : who = tokens
    OBVIOUS
  <2>2. c = CallAs(who, kind, arg) /\ ArgOK(c)
    BY <1>1, <2>1, Zenon DEF Call
  <2>3. Proper(c) /\ c.kind = kind /\ c.arg = arg /\ c.as = who /\ ~c.served /\ ~c.gone
    BY <2>2, FreshProper
  <2>. QED BY <2>1, <2>3
<1>3. c # NoCall
  BY <1>2 DEF NoCall, Kind, PageCalls, UsersCalls, BucketsCalls, ReportsCalls
<1>4. Put(n, c)
  BY <1>1, Zenon
<1>5. /\ Calls'
      /\ calls'[n] = c /\ \A m \in Slot \ {n} : calls'[m] = calls[m]
      /\ \A K : Mine(K)' = IF c # NoCall /\ c.kind \in K /\ ~c.gone
                           THEN Mine(K) \union {n} ELSE Mine(K) \ {n}
  BY <1>2, <1>4, PutEffect DEF IsCall
<1>. QED BY <1>1, <1>2, <1>3, <1>5

\* The server answers the call in slot n.
LEMMA ServedEffect ==
  ASSUME Calls, NEW n \in Slot, calls[n] # NoCall, NEW a, Served(n, a)
  PROVE  /\ Calls'
         /\ \A m \in Slot \ {n} : calls'[m] = calls[m]
         /\ calls[n].gone => calls'[n] = NoCall
         /\ ~calls[n].gone =>
               /\ calls'[n] # NoCall /\ Proper(calls'[n])
               /\ calls'[n].kind = calls[n].kind /\ calls'[n].arg = calls[n].arg
               /\ calls'[n].as = calls[n].as /\ calls'[n].served /\ calls'[n].answer = a
               /\ ~calls'[n].gone
         /\ \A K : Mine(K)' = Mine(K)
<1>1. Proper(calls[n])
  BY CallsKind
<1>2. CASE calls[n].gone
  <2>1. Put(n, NoCall) /\ IsCall(NoCall)
    BY <1>2 DEF Served, IsCall
  <2>2. /\ Calls'
        /\ calls'[n] = NoCall /\ \A m \in Slot \ {n} : calls'[m] = calls[m]
        /\ \A K : Mine(K)' = Mine(K) \ {n}
    BY <2>1, PutEffect
  <2>3. \A K : n \notin Mine(K)
    BY <1>2 DEF Mine
  <2>. QED BY <1>2, <2>2, <2>3
<1>3. CASE ~calls[n].gone
  <2>1. PICK c : c = calls[n] /\ Proper(c)
    BY <1>1
  <2>2. PICK d : d = WithAnswer(c, a)
    OBVIOUS
  <2>3. /\ Proper(d)
        /\ d.kind = c.kind /\ d.arg = c.arg /\ d.as = c.as /\ d.served /\ d.answer = a /\ d.gone = c.gone
    BY <2>1, <2>2, ServedProper
  <2>4. Put(n, d)
    BY <1>3, <2>1, <2>2, Zenon DEF Served, WithAnswer
  <2>5. d # NoCall
    BY <2>3 DEF NoCall, Proper, Kind, PageCalls, UsersCalls, BucketsCalls, ReportsCalls
  <2>6. /\ Calls'
        /\ calls'[n] = d /\ \A m \in Slot \ {n} : calls'[m] = calls[m]
        /\ \A K : Mine(K)' = IF d # NoCall /\ d.kind \in K /\ ~d.gone
                             THEN Mine(K) \union {n} ELSE Mine(K) \ {n}
    BY <2>3, <2>4, PutEffect DEF IsCall
  <2>7. \A K : n \in Mine(K) <=> d.kind \in K
    BY <1>3, <2>1, <2>3, CallsKind
  <2>8. \A K : Mine(K)' = Mine(K)
    BY <1>3, <2>1, <2>3, <2>5, <2>6, <2>7
  <2>. QED BY <1>3, <2>1, <2>3, <2>5, <2>6, <2>8
<1>. QED BY <1>2, <1>3

\* What is left of the calls when the page is left.
LEMMA LeftEffect ==
  ASSUME NEW c, IsCall(c)
  PROVE  /\ IsCall(Left(c))
         /\ Left(c) # NoCall => /\ c # NoCall /\ Left(c).kind = c.kind
                                /\ Left(c).kind = "logout" \/ Left(c).gone
<1>1. CASE c = NoCall
  <2>1. c.kind \notin Changing /\ c.kind # "logout"
    BY <1>1 DEF NoCall, Changing
  <2>. QED BY <1>1, <2>1 DEF Left, IsCall
<1>2. CASE Proper(c) /\ c.kind = "logout"
  BY <1>2 DEF Left, IsCall, NoCall
<1>3. CASE Proper(c) /\ c.kind \in Changing /\ ~c.served
  <2>1. PICK d : d = [c EXCEPT !.gone = TRUE]
    OBVIOUS
  <2>2. Proper(d) /\ d.kind = c.kind /\ d.gone
    BY <1>3, <2>1, LeftProper
  <2>3. Left(c) = d
    BY <1>3, <2>1, Zenon DEF Left, Changing
  <2>4. c # NoCall
    BY <1>3 DEF NoCall, Changing
  <2>. QED BY <2>2, <2>3, <2>4 DEF IsCall
<1>4. CASE Proper(c) /\ c.kind # "logout" /\ ~(c.kind \in Changing /\ ~c.served)
  BY <1>4 DEF Left, IsCall
<1>. QED BY <1>1, <1>2, <1>3, <1>4 DEF IsCall

\* Calls of which no page waits for any but those of the kinds K.
Leftover(rest, K) ==
    /\ rest = [n \in Slot |-> rest[n]]
    /\ \A n \in Slot : /\ IsCall(rest[n])
                       /\ rest[n] # NoCall => rest[n].gone \/ rest[n].kind \in K \union {"logout"}

LEMMA AbandonedEffect ==
  ASSUME Calls
  PROVE  /\ Leftover(Abandoned, {})
         /\ Leftover(Unread, {})
         /\ \A n \in Slot : Leftover(Without(n), {})
         /\ Leftover(Nothing, {})
<1>1. \A n \in Slot : Abandoned[n] = Left(calls[n])
  BY DEF Abandoned
<1>2. Leftover(Abandoned, {})
  <2>1. Abandoned = [n \in Slot |-> Abandoned[n]]
    BY DEF Abandoned
  <2>2. ASSUME NEW n \in Slot
        PROVE  /\ IsCall(Abandoned[n])
               /\ Abandoned[n] # NoCall => Abandoned[n].gone \/ Abandoned[n].kind = "logout"
    <3>1. PICK c : c = calls[n]
      OBVIOUS
    <3>2. Abandoned[n] = Left(c) /\ IsCall(c)
      BY <1>1, <3>1 DEF Calls
    <3>. QED BY <3>2, LeftEffect
  <2>. QED BY <2>1, <2>2 DEF Leftover
<1>3. Leftover(Unread, {})
  BY <1>2 DEF Leftover, Unread, IsCall
<1>4. \A n \in Slot : Leftover(Without(n), {})
  BY <1>2 DEF Leftover, Without, IsCall
<1>5. Leftover(Nothing, {})
  BY DEF Leftover, Nothing, IsCall
<1>. QED BY <1>2, <1>3, <1>4, <1>5

\* Every call that the effects of a page send is in a slot.
LEMMA RankOne ==
  ASSUME NEW S \in SUBSET Slot, Cardinality(S) >= 1
  PROVE  \E n \in S : Cardinality({m \in S : m <= n}) = 1
<1>1. IsFiniteSet(S) /\ S \in SUBSET Nat
  BY SlotsFinite
<1>2. S # {}
  BY FS_EmptySet
<1>3. PICK n \in S : \A m \in S : n <= m
  BY <1>1, <1>2, Least
<1>4. {m \in S : m <= n} = {n}
  <2>1. \A m \in S : m \in Nat
    BY <1>1
  <2>2. \A m \in S : m <= n <=> m = n
    BY <1>3, <2>1
  <2>. QED BY <1>3, <2>2
<1>. QED BY <1>4, FS_Singleton

LEMMA RankTwo ==
  ASSUME NEW S \in SUBSET Slot, Cardinality(S) >= 2
  PROVE  \E n \in S : Cardinality({m \in S : m <= n}) = 2
<1>1. IsFiniteSet(S) /\ S \in SUBSET Nat
  BY SlotsFinite
<1>2. S # {}
  BY FS_EmptySet
<1>3. PICK n \in S : \A m \in S : n <= m
  BY <1>1, <1>2, Least
<1>4. Cardinality(S) \in Nat
  BY <1>1, FS_CardinalityType
<1>5. IsFiniteSet(S \ {n}) /\ Cardinality(S \ {n}) = Cardinality(S) - 1
  BY <1>1, <1>3, FS_RemoveElement
<1>6. S \ {n} # {}
  BY <1>4, <1>5, FS_EmptySet
<1>7. PICK k \in S \ {n} : \A m \in S \ {n} : k <= m
  BY <1>1, <1>6, Least
<1>8. {m \in S : m <= k} = {n} \union {k}
  <2>1. \A m \in S : m \in Nat
    BY <1>1
  <2>2. \A m \in S : m <= k <=> m = n \/ m = k
    BY <1>3, <1>7, <2>1
  <2>. QED BY <1>3, <1>7, <2>2
<1>9. IsFiniteSet({n}) /\ Cardinality({n}) = 1
  BY FS_Singleton
<1>10. Cardinality({n} \union {k}) = 2
  BY <1>7, <1>9, FS_AddElement
<1>. QED BY <1>7, <1>8, <1>10

LEMMA RankPositive ==
  ASSUME NEW S \in SUBSET Slot, NEW n \in S
  PROVE  Cardinality({m \in S : m <= n}) \in Nat \ {0}
<1>. DEFINE R == {m \in S : m <= n}
<1>1. IsFiniteSet(R) /\ n \in R
  BY SlotsFinite
<1>. HIDE DEF R
<1>2. Cardinality(R) \in Nat /\ Cardinality(R) # 0
  BY <1>1, FS_CardinalityType, FS_EmptySet
<1>. QED BY <1>2 DEF R

\* The kinds of the calls that the effects of a page send.
EffectKinds(p) ==
    CASE p = "users"     -> {"users"}
      [] p = "buckets"   -> {"buckets"}
      [] p = "reports"   -> {"logBuckets", "logs"}
      [] p = "dashboard" -> {"summary"}
      [] OTHER           -> {}

LEMMA EffectsAre ==
  ASSUME NEW p, NEW who
  PROVE  /\ Len(Effects(p, who)) \in Nat
         /\ \A i \in 1 .. Len(Effects(p, who)) :
               /\ Proper(Effects(p, who)[i])
               /\ Effects(p, who)[i].kind \in EffectKinds(p)
               /\ ~Effects(p, who)[i].served /\ ~Effects(p, who)[i].gone
         /\ p = "users" => Len(Effects(p, who)) = 1 /\ Effects(p, who)[1].kind = "users"
         /\ p = "buckets" => Len(Effects(p, who)) = 1 /\ Effects(p, who)[1].kind = "buckets"
         /\ p = "reports" => Len(Effects(p, who)) = 2 /\ Effects(p, who)[2].kind = "logs"
<1>1. ASSUME NEW kind \in {"users", "buckets", "logBuckets", "logs", "summary"}, NEW arg
      PROVE  /\ Proper(CallAs(who, kind, arg)) /\ CallAs(who, kind, arg).kind = kind
             /\ ~CallAs(who, kind, arg).served /\ ~CallAs(who, kind, arg).gone
  <2>1. PICK c : c = CallAs(who, kind, arg)
    OBVIOUS
  <2>2. c.kind = kind
    BY <2>1 DEF CallAs
  <2>3. ArgOK(c)
    BY <2>2 DEF ArgOK, LcCalls
  <2>4. kind \in Kind
    BY DEF Kind, PageCalls, UsersCalls, BucketsCalls, ReportsCalls
  <2>5. Proper(c) /\ c.kind = kind /\ ~c.served /\ ~c.gone
    BY <2>1, <2>3, <2>4, FreshProper
  <2>. QED BY <2>1, <2>5
<1>2. CASE p = "users"
  <2>1. Effects(p, who) = <<CallAs(who, "users", FirstRender)>> /\ EffectKinds(p) = {"users"}
    BY <1>2 DEF Effects, EffectKinds
  <2>. QED BY <1>1, <1>2, <2>1
<1>3. CASE p = "buckets"
  <2>1. Effects(p, who) = <<CallAs(who, "buckets", None)>> /\ EffectKinds(p) = {"buckets"}
    BY <1>3 DEF Effects, EffectKinds
  <2>. QED BY <1>1, <1>3, <2>1
<1>4. CASE p = "reports"
  <2>1. /\ Effects(p, who) = <<CallAs(who, "logBuckets", None), CallAs(who, "logs", FirstFilter)>>
        /\ EffectKinds(p) = {"logBuckets", "logs"}
    BY <1>4 DEF Effects, EffectKinds
  <2>. QED BY <1>1, <1>4, <2>1
<1>5. CASE p = "dashboard"
  <2>1. Effects(p, who) = <<CallAs(who, "summary", None)>> /\ EffectKinds(p) = {"summary"}
    BY <1>5 DEF Effects, EffectKinds
  <2>. QED BY <1>1, <1>5, <2>1
<1>6. CASE p \notin {"users", "buckets", "reports", "dashboard"}
  <2>1. Effects(p, who) = <<>>
    BY <1>6 DEF Effects
  <2>. QED BY <1>6, <2>1
<1>. QED BY <1>2, <1>3, <1>4, <1>5, <1>6

LEMMA MountEffect ==
  ASSUME NEW p, NEW who, NEW rest, NEW K, Leftover(rest, K), Mount(p, who, rest)
  PROVE  /\ Calls' /\ page' = p
         /\ \A n \in Slot :
               \/ calls'[n] = rest[n]
               \/ /\ rest[n] = NoCall /\ Proper(calls'[n])
                  /\ calls'[n].kind \in EffectKinds(p)
                  /\ ~calls'[n].served /\ ~calls'[n].gone
         /\ p = "users" => \E n \in Slot : calls'[n].kind = "users" /\ Proper(calls'[n]) /\ ~calls'[n].gone
         /\ p = "buckets" => \E n \in Slot : calls'[n].kind = "buckets" /\ Proper(calls'[n]) /\ ~calls'[n].gone
         /\ p = "reports" => \E n \in Slot : calls'[n].kind = "logs" /\ Proper(calls'[n]) /\ ~calls'[n].gone
<1>. DEFINE free == {n \in Slot : rest[n].kind = "none"}
            Rank(n) == Cardinality({m \in free : m <= n})
<1>1. PICK asked : asked = Effects(p, who)
  OBVIOUS
<1>2. /\ Cardinality(free) >= Len(asked)
      /\ page' = p
      /\ calls' = [n \in Slot |-> IF n \in free /\ Rank(n) <= Len(asked) THEN asked[Rank(n)] ELSE rest[n]]
  BY <1>1, Zenon DEF Mount
<1>3. /\ Len(asked) \in Nat
      /\ \A i \in 1 .. Len(asked) : /\ Proper(asked[i])
                                    /\ asked[i].kind \in EffectKinds(p)
                                    /\ ~asked[i].served /\ ~asked[i].gone
      /\ p = "users" => Len(asked) = 1 /\ asked[1].kind = "users"
      /\ p = "buckets" => Len(asked) = 1 /\ asked[1].kind = "buckets"
      /\ p = "reports" => Len(asked) = 2 /\ asked[2].kind = "logs"
  BY <1>1, EffectsAre
<1>4. \A n \in free : rest[n] = NoCall
  BY DEF Leftover, IsCall, Proper, Kind, PageCalls, UsersCalls, BucketsCalls, ReportsCalls
<1>5. \A n \in free : Rank(n) \in Nat \ {0}
  BY RankPositive
<1>6. Cardinality(free) >= 1 => \E n \in free : Rank(n) = 1
  BY RankOne
<1>7. Cardinality(free) >= 2 => \E n \in free : Rank(n) = 2
  BY RankTwo
<1>8. free \subseteq Slot /\ calls' = [n \in Slot |-> calls'[n]]
  BY <1>2
<1>. HIDE DEF free, Rank
<1>9. \A n \in Slot :
         calls'[n] = IF n \in free /\ Rank(n) <= Len(asked) THEN asked[Rank(n)] ELSE rest[n]
  BY <1>2
<1>10. \A n \in free : Rank(n) <= Len(asked) => Rank(n) \in 1 .. Len(asked)
  BY <1>3, <1>5
<1>11. \A n \in Slot :
         \/ calls'[n] = rest[n]
         \/ /\ rest[n] = NoCall /\ Proper(calls'[n])
            /\ calls'[n].kind \in EffectKinds(p)
            /\ ~calls'[n].served /\ ~calls'[n].gone
  BY <1>3, <1>4, <1>9, <1>10
<1>12. \A n \in Slot : IsCall(calls'[n])
  BY <1>11 DEF IsCall, Leftover
<1>13. ASSUME NEW i \in 1 .. Len(asked), \E n \in free : Rank(n) = i
       PROVE  \E n \in Slot : calls'[n] = asked[i] /\ Proper(calls'[n]) /\ ~calls'[n].gone
  BY <1>3, <1>8, <1>9, <1>13
<1>14. /\ p = "users" => \E n \in Slot : calls'[n].kind = "users" /\ Proper(calls'[n]) /\ ~calls'[n].gone
       /\ p = "buckets" => \E n \in Slot : calls'[n].kind = "buckets" /\ Proper(calls'[n]) /\ ~calls'[n].gone
  <2>1. Cardinality(free) >= 1 /\ 1 \in 1 .. Len(asked) =>
            \E n \in Slot : calls'[n] = asked[1] /\ Proper(calls'[n]) /\ ~calls'[n].gone
    BY <1>6, <1>13
  <2>. QED BY <1>2, <1>3, <2>1
<1>15. p = "reports" => \E n \in Slot : calls'[n].kind = "logs" /\ Proper(calls'[n]) /\ ~calls'[n].gone
  <2>1. Cardinality(free) >= 2 /\ 2 \in 1 .. Len(asked) =>
            \E n \in Slot : calls'[n] = asked[2] /\ Proper(calls'[n]) /\ ~calls'[n].gone
    BY <1>7, <1>13
  <2>2. ASSUME p = "reports"
        PROVE  Len(asked) = 2 /\ asked[2].kind = "logs" /\ Cardinality(free) >= 2 /\ 2 \in 1 .. Len(asked)
    <3>1. Len(asked) = 2 /\ asked[2].kind = "logs"
      BY <1>3, <2>2
    <3>2. Cardinality(free) >= Len(asked)
      BY <1>2
    <3>. QED BY <3>1, <3>2
  <2>. QED BY <2>1, <2>2
<1>. QED BY <1>2, <1>8, <1>11, <1>12, <1>14, <1>15 DEF Calls

-----------------------------------------------------------------------------
(* Whose calls they are *)

\* A slot holds nothing, or a call that the page at hand waits for, or one that was left.
CallsOK ==
    /\ Calls
    /\ \A n \in Slot : calls[n] # NoCall /\ ~calls[n].gone => BelongsTo(calls[n].kind, page)

\* A step that touches no calls but those of the kinds K.
CallStep(K) ==
    /\ Calls'
    /\ \A n \in Slot : \/ calls'[n] = calls[n]
                       \/ calls'[n] = NoCall
                       \/ calls'[n].kind \in K

LEMMA CallStepOK ==
  ASSUME CallsOK, NEW K, CallStep(K), \A kind \in K : BelongsTo(kind, page), page' = page
  PROVE  CallsOK'
BY DEF CallsOK, CallStep, BelongsTo

LEMMA QuietOK ==
  ASSUME CallsOK, calls' = calls, page' = page
  PROVE  CallsOK' /\ \A K : CallStep(K)
BY QuietEffect DEF CallsOK, CallStep, BelongsTo

LEMMA MineBelongs ==
  ASSUME CallsOK, NEW K, NEW n \in Mine(K)
  PROVE  /\ n \in Slot /\ calls[n] # NoCall /\ Proper(calls[n]) /\ calls[n].kind \in K /\ ~calls[n].gone
         /\ BelongsTo(calls[n].kind, page)
BY CallsKind DEF CallsOK

LEMMA MineSets ==
  /\ \A K : Mine(K) \subseteq Slot
  /\ \A J, K : J \subseteq K => Mine(J) \subseteq Mine(K)
BY DEF Mine

LEMMA MineOfPage ==
  ASSUME CallsOK
  PROVE  /\ Mine(UsersCalls) # {} => page = "users"
         /\ Mine(BucketsCalls) # {} => page = "buckets"
         /\ Mine(ReportsCalls) # {} => page = "reports"
         /\ Mine({"me"}) # {} => page = "spinner"
         /\ Mine({"login"}) # {} => page = "login"
         /\ Mine({"summary"}) # {} => page = "dashboard"
BY MineBelongs DEF BelongsTo, UsersCalls, BucketsCalls, ReportsCalls

-----------------------------------------------------------------------------
(* Users.tsx *)

\* A flag and the calls it is about.
One(flag, set) == IF flag THEN \E n : set = {n} ELSE set = {}

LEMMA OneExactly ==
  ASSUME NEW flag \in BOOLEAN, NEW S \in SUBSET Slot, One(flag, S)
  PROVE  Exactly(flag, S)
<1>1. IsFiniteSet(S)
  BY SlotsFinite
<1>. QED BY <1>1, FS_Singleton, FS_EmptySet DEF One, Exactly

UsersFields == {"rows", "total", "page", "search", "loading", "form", "editing", "error", "saving",
                "dialog", "chosen", "token", "copied", "submitting", "of", "sure", "left"}

UsersShape ==
    /\ DOMAIN usersUi = UsersFields
    /\ usersUi.dialog \in {"none", "delete", "toggle", "token"}
    /\ usersUi.loading \in BOOLEAN /\ usersUi.saving \in BOOLEAN
    /\ usersUi.submitting \in BOOLEAN /\ usersUi.left \in BOOLEAN

\* The flags of the page.
UsersFlags ==
    /\ usersUi.loading => Mine({"users"}) # {}
    /\ One(usersUi.saving, Mine({"create", "update"}))
    /\ One(usersUi.submitting, Mine({"delete", "toggle", "token"}))

\* A token that is asked for, or shown, belongs to the user of the dialog.
UsersToken ==
    /\ \A n \in Mine({"token"}) :
          /\ calls[n].served => calls[n].answer = calls[n].arg.user
          /\ ~usersUi.left => usersUi.dialog = "token" /\ calls[n].arg.user = usersUi.chosen
    /\ usersUi.token # None /\ usersUi.dialog = "token" /\ ~usersUi.left => usersUi.token = usersUi.chosen

UsersInv == UsersShape /\ (page = "users" => UsersFlags /\ UsersToken)

LEMMA FreshUsersShape == usersUi' = FreshUsers => UsersShape'
BY DEF FreshUsers, UsersShape, UsersFields

\* What loadUsers leaves alone of the state ui.
Reloading(v, ui) ==
    /\ DOMAIN v = UsersFields /\ v.loading = TRUE
    /\ v.saving = ui.saving /\ v.submitting = ui.submitting /\ v.left = ui.left
    /\ v.dialog = ui.dialog /\ v.chosen = ui.chosen /\ v.token = ui.token

LEMMA LoadUsersFields ==
  ASSUME NEW ui, DOMAIN ui = UsersFields, NEW w, NEW n, NEW v, v = LoadUsers(ui, w, n)
  PROVE  Reloading(v, ui)
BY DEF LoadUsers, UsersFields, Reloading

\* A handler of the page, seen from the flags: what it leaves alone.
LEMMA UsersQuiet ==
  ASSUME CallsOK, UsersInv, page = "users", page' = page, calls' = calls,
         DOMAIN usersUi' = UsersFields,
         usersUi'.loading = usersUi.loading, usersUi'.saving = usersUi.saving,
         usersUi'.submitting = usersUi.submitting,
         usersUi'.dialog \in {"none", "delete", "toggle", "token"}, usersUi'.left \in BOOLEAN,
         UsersToken'
  PROVE  UsersInv' /\ CallStep(UsersCalls)
<1>1. \A K : Mine(K)' = Mine(K)
  BY QuietEffect
<1>. QED BY <1>1, QuietOK DEF UsersInv, UsersShape, UsersFlags

UsersGoal == UsersInv' /\ CallStep(UsersCalls) /\ page = "users"

LEMMA UsersSame ==
  ASSUME CallsOK, UsersInv, page = "users", page' = page, calls' = calls,
         DOMAIN usersUi' = UsersFields,
         usersUi'.loading = usersUi.loading, usersUi'.saving = usersUi.saving,
         usersUi'.submitting = usersUi.submitting, usersUi'.left = usersUi.left,
         usersUi'.dialog = usersUi.dialog, usersUi'.chosen = usersUi.chosen,
         usersUi'.token = usersUi.token
  PROVE  UsersGoal
<1>1. UsersToken'
  BY QuietEffect DEF UsersInv, UsersToken
<1>. QED BY <1>1, UsersQuiet DEF UsersInv, UsersShape, UsersGoal

LEMMA PlainArg ==
  ASSUME NEW kind \in Kind \ (LcCalls \union {"versions"}), NEW arg
  PROVE  ArgOK(Call(kind, arg))
<1>1. PICK c : c = Call(kind, arg)
  OBVIOUS
<1>2. c.kind = kind
  BY <1>1 DEF Call, CallAs
<1>3. ArgOK(c)
  BY <1>2 DEF ArgOK
<1>. QED BY <1>1, <1>3

LEMMA UsersKinds == UsersCalls \subseteq Kind \ (LcCalls \union {"versions"})
BY DEF UsersCalls, Kind, PageCalls, LcCalls

LEMMA UsersSend ==
  ASSUME CallsOK, NEW kind \in UsersCalls, NEW arg, Send(kind, arg)
  PROVE  /\ CallStep(UsersCalls)
         /\ \E n \in Slot :
               /\ calls'[n].kind = kind /\ calls'[n].arg = arg /\ ~calls'[n].served
               /\ \A m \in Slot \ {n} : calls'[m] = calls[m]
               /\ \A K : n \notin Mine(K)
               /\ \A K : Mine(K)' = IF kind \in K THEN Mine(K) \union {n} ELSE Mine(K)
<1>1. PICK n \in Slot :
            /\ Calls'
            /\ calls'[n].kind = kind /\ calls'[n].arg = arg
            /\ ~calls'[n].served
            /\ \A m \in Slot \ {n} : calls'[m] = calls[m]
            /\ \A K : n \notin Mine(K)
            /\ \A K : Mine(K)' = IF kind \in K THEN Mine(K) \union {n} ELSE Mine(K)
  BY SendEffect, PlainArg, UsersKinds DEF CallsOK
<1>2. CallStep(UsersCalls)
  BY <1>1 DEF CallStep
<1>. QED BY <1>1, <1>2

LEMMA UsersUserStep ==
  ASSUME CallsOK, UsersInv, UsersUser, page' = page
  PROVE  UsersGoal
<1>1. page = "users"
  BY DEF UsersUser, UsersPager, TypeSearch, SearchUsers, CancelForm, CloseDialog, CopyToken, Confirm,
         OpenForm, Choose, SubmitForm, UsersDo
<1>. DEFINE Stay(v) ==
         /\ DOMAIN v = UsersFields
         /\ v.loading = usersUi.loading /\ v.saving = usersUi.saving
         /\ v.submitting = usersUi.submitting /\ v.left = usersUi.left
         /\ v.dialog = usersUi.dialog /\ v.chosen = usersUi.chosen /\ v.token = usersUi.token
<1>2. calls' = calls /\ Stay(usersUi') => UsersGoal
  BY <1>1, UsersSame
<1>3. ASSUME NEW w, NEW ui, Stay(ui), usersUi' = LoadUsers(ui, w, 0), Send("users", w)
      PROVE  UsersGoal
  <2>1. /\ DOMAIN usersUi' = UsersFields /\ usersUi'.loading = TRUE
        /\ usersUi'.saving = usersUi.saving /\ usersUi'.submitting = usersUi.submitting
        /\ usersUi'.left = usersUi.left /\ usersUi'.dialog = usersUi.dialog
        /\ usersUi'.chosen = usersUi.chosen /\ usersUi'.token = usersUi.token
    <3>1. PICK v, k : v = usersUi' /\ k = 0 /\ v = LoadUsers(ui, w, k)
      BY <1>3
    <3>2. DOMAIN ui = UsersFields
      BY <1>3
    <3>3. Reloading(v, ui)
      BY <3>1, <3>2, LoadUsersFields
    <3>. QED BY <1>3, <3>1, <3>3 DEF Reloading
  <2>2. "users" \in UsersCalls
    BY DEF UsersCalls
  <2>3. PICK n \in Slot :
               /\ \A m \in Slot \ {n} : calls'[m] = calls[m]
               /\ \A K : n \notin Mine(K)
               /\ \A K : Mine(K)' = IF "users" \in K THEN Mine(K) \union {n} ELSE Mine(K)
    BY <1>3, <2>2, UsersSend
  <2>4. CallStep(UsersCalls)
    BY <1>3, <2>2, UsersSend
  <2>5. UsersFlags'
    BY <1>1, <2>1, <2>3 DEF UsersInv, UsersFlags
  <2>6. UsersToken'
    <3>1. Mine({"token"})' = Mine({"token"}) /\ \A m \in Mine({"token"}) : calls'[m] = calls[m]
      BY <2>3 DEF Mine
    <3>. QED BY <1>1, <2>1, <3>1 DEF UsersInv, UsersToken
  <2>. QED BY <1>1, <2>1, <2>4, <2>5, <2>6 DEF UsersInv, UsersShape, UsersGoal
<1>4. ASSUME NEW p \in 1 .. MaxMade + 1, UsersPager(p) PROVE UsersGoal
  <2>1. PICK w, ui : /\ w = [Render EXCEPT !.page = p] /\ ui = [usersUi EXCEPT !.page = p]
                     /\ usersUi' = LoadUsers(ui, w, 0) /\ Send("users", w)
    BY <1>4, Zenon DEF UsersPager, UsersDo
  <2>2. Stay(ui)
    BY <2>1 DEF UsersInv, UsersShape, UsersFields
  <2>. QED BY <1>3, <2>1, <2>2
<1>5. ASSUME NEW q \in Name \union {None}, TypeSearch(q) PROVE UsersGoal
  <2>1. usersUi' = [usersUi EXCEPT !.search = q] /\ calls' = calls
    BY <1>5 DEF TypeSearch, UsersDo, Quiet
  <2>2. Stay(usersUi')
    BY <2>1 DEF UsersInv, UsersShape, UsersFields
  <2>. QED BY <1>2, <2>1, <2>2
<1>6. CASE SearchUsers
  <2>1. CASE usersUi' = LoadUsers(usersUi, Render, 0) /\ Send("users", Render)
    <3>1. PICK w, ui : w = Render /\ ui = usersUi /\ usersUi' = LoadUsers(ui, w, 0) /\ Send("users", w)
      BY <2>1, Zenon
    <3>2. Stay(ui)
      BY <3>1 DEF UsersInv, UsersShape
    <3>. QED BY <1>3, <3>1, <3>2
  <2>2. CASE /\ usersUi' = [usersUi EXCEPT !.rows = SelectSeq(@, LAMBDA a : a.name = usersUi.search),
                                           !.of.search = usersUi.search]
             /\ calls' = calls
    <3>1. Stay(usersUi')
      BY <2>2 DEF UsersInv, UsersShape, UsersFields
    <3>. QED BY <1>2, <2>2, <3>1
  <2>. QED BY <1>6, <2>1, <2>2, Zenon DEF SearchUsers, UsersDo, Quiet
<1>7. CASE CancelForm
  <2>1. usersUi' = [usersUi EXCEPT !.form = FALSE] /\ calls' = calls
    BY <1>7 DEF CancelForm, UsersDo, Quiet
  <2>2. Stay(usersUi')
    BY <2>1 DEF UsersInv, UsersShape, UsersFields
  <2>. QED BY <1>2, <2>1, <2>2
<1>8. CASE CopyToken
  <2>1. usersUi' = [usersUi EXCEPT !.copied = TRUE] /\ calls' = calls
    BY <1>8 DEF CopyToken, UsersDo, Quiet
  <2>2. Stay(usersUi')
    BY <2>1 DEF UsersInv, UsersShape, UsersFields
  <2>. QED BY <1>2, <2>1, <2>2
<1>9. ASSUME NEW a, OpenForm(a) PROVE UsersGoal
  <2>1. usersUi' = [usersUi EXCEPT !.form = TRUE, !.editing = a, !.error = FALSE] /\ calls' = calls
    BY <1>9 DEF OpenForm, UsersDo, Quiet
  <2>2. Stay(usersUi')
    BY <2>1 DEF UsersInv, UsersShape, UsersFields
  <2>. QED BY <1>2, <2>1, <2>2
<1>10. ASSUME NEW a, NEW dialog \in {"delete", "toggle", "token"}, Choose(dialog, a) PROVE UsersGoal
  <2>1. /\ usersUi' = [usersUi EXCEPT !.dialog = dialog, !.chosen = a] /\ calls' = calls
        /\ usersUi.dialog = "none" /\ usersUi.token = None
    BY <1>10 DEF Choose, UsersDo, Quiet, NoDialog
  <2>2. /\ DOMAIN usersUi' = UsersFields
        /\ usersUi'.loading = usersUi.loading /\ usersUi'.saving = usersUi.saving
        /\ usersUi'.submitting = usersUi.submitting /\ usersUi'.left = usersUi.left
        /\ usersUi'.dialog = dialog /\ usersUi'.token = usersUi.token
    BY <2>1 DEF UsersInv, UsersShape, UsersFields
  <2>3. UsersToken'
    BY <1>1, <2>1, <2>2, QuietEffect DEF UsersInv, UsersToken
  <2>. QED BY <1>1, <2>1, <2>2, <2>3, UsersQuiet DEF UsersInv, UsersShape, UsersGoal
<1>11. CASE CloseDialog
  <2>1. CASE /\ usersUi.dialog \in {"delete", "toggle"} /\ calls' = calls
             /\ usersUi' = [usersUi EXCEPT !.dialog = "none", !.chosen = None]
    <3>1. /\ DOMAIN usersUi' = UsersFields
          /\ usersUi'.loading = usersUi.loading /\ usersUi'.saving = usersUi.saving
          /\ usersUi'.submitting = usersUi.submitting /\ usersUi'.left = usersUi.left
          /\ usersUi'.dialog = "none" /\ usersUi'.token = usersUi.token
      BY <2>1 DEF UsersInv, UsersShape, UsersFields
    <3>2. UsersToken'
      BY <1>1, <2>1, <3>1, QuietEffect DEF UsersInv, UsersToken
    <3>. QED BY <1>1, <2>1, <3>1, <3>2, UsersQuiet DEF UsersInv, UsersShape, UsersGoal
  <2>2. CASE usersUi' = TokenClosed(usersUi) /\ calls' = calls
    <3>1. /\ DOMAIN usersUi' = UsersFields
          /\ usersUi'.loading = usersUi.loading /\ usersUi'.saving = usersUi.saving
          /\ usersUi'.submitting = usersUi.submitting /\ usersUi'.left = (Mine({"token"}) # {})
          /\ usersUi'.dialog \in {"none", "delete", "toggle", "token"} /\ usersUi'.token = None
      <4>1. PICK c : c = Closed(usersUi, "token")
        OBVIOUS
      <4>2. c = usersUi \/ c = [usersUi EXCEPT !.dialog = "none", !.chosen = None]
        BY <4>1, Zenon DEF Closed
      <4>3. /\ DOMAIN c = UsersFields
            /\ c.loading = usersUi.loading /\ c.saving = usersUi.saving /\ c.submitting = usersUi.submitting
            /\ c.dialog \in {"none", "delete", "toggle", "token"}
        BY <4>2 DEF UsersInv, UsersShape, UsersFields
      <4>4. usersUi' = [c EXCEPT !.token = None, !.copied = FALSE, !.left = Mine({"token"}) # {}]
        BY <2>2, <4>1, Zenon DEF TokenClosed
      <4>. QED BY <4>3, <4>4 DEF UsersFields
    <3>2. UsersToken'
      BY <1>1, <2>2, <3>1, QuietEffect DEF UsersInv, UsersToken
    <3>. QED BY <1>1, <2>2, <3>1, <3>2, UsersQuiet DEF UsersInv, UsersShape, UsersGoal
  <2>. QED BY <1>11, <2>1, <2>2 DEF CloseDialog, UsersDo, Quiet
<1>12. CASE Confirm
  <2>1. PICK kind, w : /\ kind = usersUi.dialog /\ w = [user |-> usersUi.chosen, render |-> Render]
                       /\ kind # "none" /\ usersUi.token = None /\ ~usersUi.submitting
                       /\ usersUi' = [usersUi EXCEPT !.submitting = TRUE]
                       /\ Send(kind, w)
    BY <1>12, Zenon DEF Confirm, NotSubmitting, UsersDo
  <2>2. /\ DOMAIN usersUi' = UsersFields
        /\ usersUi'.loading = usersUi.loading /\ usersUi'.saving = usersUi.saving
        /\ usersUi'.submitting = TRUE /\ usersUi'.left = usersUi.left
        /\ usersUi'.dialog = usersUi.dialog /\ usersUi'.token = usersUi.token
        /\ usersUi'.chosen = usersUi.chosen
    BY <2>1 DEF UsersInv, UsersShape, UsersFields
  <2>3. kind \in {"delete", "toggle", "token"} /\ kind \in UsersCalls
    BY <2>1 DEF UsersInv, UsersShape, UsersCalls
  <2>4. PICK n \in Slot :
               /\ calls'[n].kind = kind /\ calls'[n].arg = w /\ ~calls'[n].served
               /\ \A m \in Slot \ {n} : calls'[m] = calls[m]
               /\ \A K : n \notin Mine(K)
               /\ \A K : Mine(K)' = IF kind \in K THEN Mine(K) \union {n} ELSE Mine(K)
    BY <2>1, <2>3, UsersSend
  <2>5. CallStep(UsersCalls)
    BY <2>1, <2>3, UsersSend
  <2>6. UsersFlags'
    <3>1. Mine({"delete", "toggle", "token"}) = {}
      BY <1>1, <2>1 DEF UsersInv, UsersFlags, One
    <3>2. /\ Mine({"users"})' = Mine({"users"})
          /\ Mine({"create", "update"})' = Mine({"create", "update"})
          /\ Mine({"delete", "toggle", "token"})' = {n}
      BY <2>3, <2>4, <3>1
    <3>. QED BY <1>1, <2>2, <3>2 DEF UsersInv, UsersFlags, One
  <2>7. UsersToken'
    <3>1. Mine({"token"}) = {}
      BY <1>1, <2>1 DEF UsersInv, UsersFlags, One, Mine
    <3>2. Mine({"token"})' = IF kind = "token" THEN {n} ELSE {}
      BY <2>4, <3>1
    <3>3. w.user = usersUi.chosen
      BY <2>1
    <3>. QED BY <2>1, <2>2, <2>4, <3>2, <3>3 DEF UsersToken
  <2>. QED BY <1>1, <2>2, <2>5, <2>6, <2>7 DEF UsersInv, UsersShape, UsersGoal
<1>13. ASSUME NEW f \in Typed, SubmitForm(f) PROVE UsersGoal
  <2>1. /\ ~usersUi.saving
        /\ usersUi' = [usersUi EXCEPT !.error = FALSE, !.saving = TRUE]
    BY <1>13 DEF SubmitForm, UsersDo
  <2>1a. PICK kind \in {"create", "update"} : \E w : Send(kind, w)
    BY <1>13, Zenon DEF SubmitForm
  <2>2. PICK w : Send(kind, w)
    BY <2>1a
  <2>3. /\ DOMAIN usersUi' = UsersFields
        /\ usersUi'.loading = usersUi.loading /\ usersUi'.saving = TRUE
        /\ usersUi'.submitting = usersUi.submitting /\ usersUi'.left = usersUi.left
        /\ usersUi'.dialog = usersUi.dialog /\ usersUi'.token = usersUi.token
        /\ usersUi'.chosen = usersUi.chosen
    BY <2>1 DEF UsersInv, UsersShape, UsersFields
  <2>4. kind \in UsersCalls
    BY DEF UsersCalls
  <2>5. PICK n \in Slot :
               /\ \A m \in Slot \ {n} : calls'[m] = calls[m]
               /\ \A K : n \notin Mine(K)
               /\ \A K : Mine(K)' = IF kind \in K THEN Mine(K) \union {n} ELSE Mine(K)
    BY <2>2, <2>4, UsersSend
  <2>6. CallStep(UsersCalls)
    BY <2>2, <2>4, UsersSend
  <2>7. UsersFlags'
    <3>1. Mine({"create", "update"}) = {}
      BY <1>1, <2>1 DEF UsersInv, UsersFlags, One
    <3>2. /\ Mine({"users"})' = Mine({"users"})
          /\ Mine({"create", "update"})' = {n}
          /\ Mine({"delete", "toggle", "token"})' = Mine({"delete", "toggle", "token"})
      BY <2>5, <3>1
    <3>. QED BY <1>1, <2>3, <3>2 DEF UsersInv, UsersFlags, One
  <2>8. UsersToken'
    <3>1. Mine({"token"})' = Mine({"token"}) /\ \A m \in Mine({"token"}) : calls'[m] = calls[m]
      BY <2>5 DEF Mine
    <3>. QED BY <1>1, <2>3, <3>1 DEF UsersInv, UsersToken
  <2>. QED BY <1>1, <2>3, <2>6, <2>7, <2>8 DEF UsersInv, UsersShape, UsersGoal
<1>. QED
  BY <1>4, <1>5, <1>6, <1>7, <1>8, <1>9, <1>10, <1>11, <1>12, <1>13 DEF UsersUser

LEMMA UsersAnswerPage ==
  ASSUME CallsOK, NEW n \in Slot, UsersAnswer(n)
  PROVE  page = "users" /\ n \in Mine(UsersCalls)
<1>1. n \in Mine(UsersCalls)
  BY DEF UsersAnswer, FormSaved, Confirmed, TokenShown, UsersLoaded, UsersFails, FormFails, ConfirmFails,
         UsersFail, Answered, Failing, Mine, UsersCalls
<1>. QED BY <1>1, MineOfPage

\* The call in slot n is over, and what comes after it loads the page.
LEMMA UsersFollow ==
  ASSUME CallsOK, NEW n \in Slot, NEW w, Put(n, Call("users", w))
  PROVE  /\ CallStep(UsersCalls)
         /\ \A m \in Slot \ {n} : calls'[m] = calls[m]
         /\ \A K : Mine(K)' = IF "users" \in K THEN Mine(K) \union {n} ELSE Mine(K) \ {n}
<1>1. "users" \in UsersCalls /\ "users" \in Kind \ (LcCalls \union {"versions"})
  BY UsersKinds DEF UsersCalls
<1>2. /\ Calls' /\ calls'[n].kind = "users"
      /\ \A m \in Slot \ {n} : calls'[m] = calls[m]
      /\ \A K : Mine(K)' = IF "users" \in K THEN Mine(K) \union {n} ELSE Mine(K) \ {n}
  BY <1>1, FollowEffect, PlainArg DEF CallsOK
<1>3. CallStep(UsersCalls)
  BY <1>1, <1>2 DEF CallStep
<1>. QED BY <1>2, <1>3

LEMMA UsersForget ==
  ASSUME CallsOK, NEW n \in Slot, Forget(n)
  PROVE  /\ \A K : CallStep(K)
         /\ \A m \in Slot \ {n} : calls'[m] = calls[m]
         /\ \A K : Mine(K)' = Mine(K) \ {n}
BY ForgetEffect DEF CallsOK, CallStep

LEMMA UsersAnswerStep ==
  ASSUME CallsOK, UsersInv, NEW n \in Slot, UsersAnswer(n), page' = page
  PROVE  UsersGoal
<1>1. page = "users"
  BY UsersAnswerPage
<1>2. CASE FormSaved(n)
  <2>1. PICK w, ui : /\ ui = [usersUi EXCEPT !.form = FALSE, !.saving = FALSE]
                     /\ usersUi' = LoadUsers(ui, w, n) /\ Put(n, Call("users", w))
    BY <1>2, Zenon DEF FormSaved, UsersThen
  <2>2. /\ DOMAIN ui = UsersFields
        /\ ui.saving = FALSE /\ ui.submitting = usersUi.submitting
        /\ ui.left = usersUi.left /\ ui.dialog = usersUi.dialog
        /\ ui.chosen = usersUi.chosen /\ ui.token = usersUi.token
    BY <2>1 DEF UsersInv, UsersShape, UsersFields
  <2>3. PICK v : v = usersUi' /\ Reloading(v, ui)
    BY <2>1, <2>2, LoadUsersFields
  <2>4. n \in Mine({"create", "update"}) /\ n \notin Mine({"delete", "toggle", "token"}) /\ n \notin Mine({"token"})
    BY <1>2 DEF FormSaved, Answered, Mine
  <2>5. /\ CallStep(UsersCalls)
        /\ \A m \in Slot \ {n} : calls'[m] = calls[m]
        /\ \A K : Mine(K)' = IF "users" \in K THEN Mine(K) \union {n} ELSE Mine(K) \ {n}
    BY <2>1, UsersFollow
  <2>6. UsersFlags'
    <3>1. Mine({"create", "update"}) = {n}
      BY <1>1, <2>4 DEF UsersInv, UsersFlags, One
    <3>2. /\ Mine({"users"})' # {}
          /\ Mine({"create", "update"})' = {}
          /\ Mine({"delete", "toggle", "token"})' = Mine({"delete", "toggle", "token"})
      BY <2>4, <2>5, <3>1
    <3>. QED BY <1>1, <2>2, <2>3, <3>2 DEF UsersInv, UsersFlags, One, Reloading
  <2>7. UsersToken'
    <3>1. Mine({"token"})' = Mine({"token"}) /\ \A m \in Mine({"token"}) : calls'[m] = calls[m]
      <4>1. Mine({"token"})' = Mine({"token"}) \ {n}
        BY <2>5
      <4>2. Mine({"token"}) \subseteq Slot \ {n}
        BY <2>4, MineSets
      <4>. QED BY <2>5, <4>1, <4>2
    <3>. QED BY <1>1, <2>2, <2>3, <3>1 DEF UsersInv, UsersToken, Reloading
  <2>. QED BY <1>1, <2>2, <2>3, <2>5, <2>6, <2>7 DEF UsersInv, UsersShape, UsersGoal, Reloading
<1>3. CASE Confirmed(n)
  <2>1. PICK w, ui, k : /\ k = calls[n].kind /\ k \in {"delete", "toggle"}
                        /\ ui = [Closed(usersUi, k) EXCEPT !.submitting = FALSE]
                        /\ usersUi' = LoadUsers(ui, w, n) /\ Put(n, Call("users", w))
    <3>1. calls[n].kind \in {"delete", "toggle"}
      BY <1>3 DEF Confirmed, Answered, Mine
    <3>. QED BY <1>3, <3>1, Zenon DEF Confirmed, UsersThen
  <2>2. PICK u : /\ u = Closed(usersUi, k) /\ DOMAIN u = UsersFields
                 /\ u.saving = usersUi.saving /\ u.submitting = usersUi.submitting
                 /\ u.left = usersUi.left /\ u.token = usersUi.token
                 /\ \/ u.dialog = "none" /\ usersUi.dialog \in {"delete", "toggle"}
                    \/ u.dialog = usersUi.dialog /\ u.chosen = usersUi.chosen
    <3>1. CASE usersUi.dialog = k
      <4>1. PICK u : u = [usersUi EXCEPT !.dialog = "none", !.chosen = None]
        OBVIOUS
      <4>2. /\ DOMAIN u = UsersFields
            /\ u.saving = usersUi.saving /\ u.submitting = usersUi.submitting
            /\ u.left = usersUi.left /\ u.token = usersUi.token /\ u.dialog = "none"
        BY <4>1 DEF UsersInv, UsersShape, UsersFields
      <4>3. u = Closed(usersUi, k)
        BY <3>1, <4>1, Zenon DEF Closed
      <4>. QED BY <2>1, <3>1, <4>2, <4>3
    <3>2. CASE usersUi.dialog # k
      BY <3>2 DEF Closed, UsersInv, UsersShape
    <3>. QED BY <3>1, <3>2
  <2>3. /\ DOMAIN ui = UsersFields
        /\ ui.saving = usersUi.saving /\ ui.submitting = FALSE
        /\ ui.left = usersUi.left /\ ui.token = usersUi.token
        /\ ui.dialog = u.dialog /\ ui.chosen = u.chosen
    <3>1. ui = [u EXCEPT !.submitting = FALSE]
      BY <2>1, <2>2, Zenon
    <3>. QED BY <2>2, <3>1 DEF UsersFields
  <2>4. PICK v : v = usersUi' /\ Reloading(v, ui)
    BY <2>1, <2>3, LoadUsersFields
  <2>5. n \in Mine({"delete", "toggle", "token"}) /\ n \notin Mine({"create", "update"}) /\ n \notin Mine({"token"})
    BY <1>3 DEF Confirmed, Answered, Mine
  <2>6. /\ CallStep(UsersCalls)
        /\ \A m \in Slot \ {n} : calls'[m] = calls[m]
        /\ \A K : Mine(K)' = IF "users" \in K THEN Mine(K) \union {n} ELSE Mine(K) \ {n}
    BY <2>1, UsersFollow
  <2>7. Mine({"delete", "toggle", "token"}) = {n}
    BY <1>1, <2>5 DEF UsersInv, UsersFlags, One
  <2>8. UsersFlags'
    <3>1. /\ Mine({"users"})' # {}
          /\ Mine({"create", "update"})' = Mine({"create", "update"})
          /\ Mine({"delete", "toggle", "token"})' = {}
      BY <2>5, <2>6, <2>7
    <3>. QED BY <1>1, <2>3, <2>4, <3>1 DEF UsersInv, UsersFlags, One, Reloading
  <2>9. UsersToken'
    <3>1. Mine({"token"})' = {}
      <4>1. Mine({"token"}) \subseteq Mine({"delete", "toggle", "token"})
        BY MineSets
      <4>. QED BY <2>6, <2>7, <4>1
    <3>. QED BY <1>1, <2>2, <2>3, <2>4, <3>1 DEF UsersInv, UsersToken, Reloading
  <2>. QED BY <1>1, <2>2, <2>3, <2>4, <2>6, <2>8, <2>9 DEF UsersInv, UsersShape, UsersGoal, Reloading
<1>4. CASE TokenShown(n)
  <2>1. usersUi' = [usersUi EXCEPT !.token = calls[n].answer, !.submitting = FALSE] /\ Forget(n)
    BY <1>4 DEF TokenShown, UsersThen
  <2>2. /\ DOMAIN usersUi' = UsersFields
        /\ usersUi'.loading = usersUi.loading /\ usersUi'.saving = usersUi.saving
        /\ usersUi'.submitting = FALSE /\ usersUi'.left = usersUi.left
        /\ usersUi'.dialog = usersUi.dialog /\ usersUi'.chosen = usersUi.chosen
        /\ usersUi'.token = calls[n].answer
    BY <2>1 DEF UsersInv, UsersShape, UsersFields
  <2>3. n \in Mine({"token"}) /\ calls[n].served
    BY <1>4 DEF TokenShown, Answered
  <2>4. n \in Mine({"delete", "toggle", "token"}) /\ n \notin Mine({"create", "update"}) /\ n \notin Mine({"users"})
    BY <2>3 DEF Mine
  <2>5. CallStep(UsersCalls) /\ \A K : Mine(K)' = Mine(K) \ {n}
    BY <2>1, UsersForget
  <2>6. Mine({"delete", "toggle", "token"}) = {n}
    BY <1>1, <2>4 DEF UsersInv, UsersFlags, One
  <2>7. UsersFlags'
    <3>1. /\ Mine({"users"})' = Mine({"users"})
          /\ Mine({"create", "update"})' = Mine({"create", "update"})
          /\ Mine({"delete", "toggle", "token"})' = {}
      BY <2>4, <2>5, <2>6
    <3>. QED BY <1>1, <2>2, <3>1 DEF UsersInv, UsersFlags, One
  <2>8. UsersToken'
    <3>1. Mine({"token"})' = {}
      <4>1. Mine({"token"}) \subseteq Mine({"delete", "toggle", "token"})
        BY MineSets
      <4>. QED BY <2>5, <2>6, <4>1
    <3>2. ~usersUi.left => calls[n].answer = usersUi.chosen
      BY <1>1, <2>3 DEF UsersInv, UsersToken
    <3>. QED BY <2>2, <3>1, <3>2 DEF UsersToken
  <2>. QED BY <1>1, <2>2, <2>5, <2>7, <2>8 DEF UsersInv, UsersShape, UsersGoal
<1>5. CASE UsersLoaded(n) \/ UsersFail(n)
  <2>1. /\ DOMAIN usersUi' = UsersFields
        /\ usersUi'.loading = FALSE /\ usersUi'.saving = usersUi.saving
        /\ usersUi'.submitting = usersUi.submitting /\ usersUi'.left = usersUi.left
        /\ usersUi'.dialog = usersUi.dialog /\ usersUi'.chosen = usersUi.chosen
        /\ usersUi'.token = usersUi.token
    <3>1. CASE usersUi' = [usersUi EXCEPT !.rows = calls[n].answer.rows, !.total = calls[n].answer.total,
                                          !.of = calls[n].arg, !.loading = FALSE]
      BY <3>1 DEF UsersInv, UsersShape, UsersFields
    <3>2. CASE usersUi' = [usersUi EXCEPT !.loading = FALSE, !.sure = FALSE]
      BY <3>2 DEF UsersInv, UsersShape, UsersFields
    <3>. QED BY <1>5, <3>1, <3>2 DEF UsersLoaded, UsersFail, UsersThen
  <2>2. n \in Mine({"users"}) /\ Forget(n)
    BY <1>5 DEF UsersLoaded, UsersFail, Answered, Failing
  <2>3. n \notin Mine({"delete", "toggle", "token"}) /\ n \notin Mine({"create", "update"}) /\ n \notin Mine({"token"})
    BY <2>2 DEF Mine
  <2>4. /\ CallStep(UsersCalls) /\ \A K : Mine(K)' = Mine(K) \ {n}
        /\ \A m \in Slot \ {n} : calls'[m] = calls[m]
    BY <2>2, UsersForget
  <2>5. UsersFlags'
    <3>1. /\ Mine({"create", "update"})' = Mine({"create", "update"})
          /\ Mine({"delete", "toggle", "token"})' = Mine({"delete", "toggle", "token"})
      BY <2>3, <2>4
    <3>. QED BY <1>1, <2>1, <3>1 DEF UsersInv, UsersFlags, One
  <2>6. UsersToken'
    <3>1. Mine({"token"})' = Mine({"token"}) /\ \A m \in Mine({"token"}) : calls'[m] = calls[m]
      BY <2>3, <2>4, MineSets
    <3>. QED BY <1>1, <2>1, <3>1 DEF UsersInv, UsersToken
  <2>. QED BY <1>1, <2>1, <2>4, <2>5, <2>6 DEF UsersInv, UsersShape, UsersGoal
<1>6. CASE FormFails(n)
  <2>1. /\ usersUi' = [usersUi EXCEPT !.error = usersUi.form, !.saving = FALSE] /\ Forget(n)
        /\ n \in Mine({"create", "update"})
    BY <1>6 DEF FormFails, UsersThen, Failing
  <2>2. /\ DOMAIN usersUi' = UsersFields
        /\ usersUi'.loading = usersUi.loading /\ usersUi'.saving = FALSE
        /\ usersUi'.submitting = usersUi.submitting /\ usersUi'.left = usersUi.left
        /\ usersUi'.dialog = usersUi.dialog /\ usersUi'.chosen = usersUi.chosen
        /\ usersUi'.token = usersUi.token
    BY <2>1 DEF UsersInv, UsersShape, UsersFields
  <2>3. n \notin Mine({"delete", "toggle", "token"}) /\ n \notin Mine({"users"}) /\ n \notin Mine({"token"})
    BY <2>1 DEF Mine
  <2>4. /\ CallStep(UsersCalls) /\ \A K : Mine(K)' = Mine(K) \ {n}
        /\ \A m \in Slot \ {n} : calls'[m] = calls[m]
    BY <2>1, UsersForget
  <2>5. UsersFlags'
    <3>1. Mine({"create", "update"}) = {n}
      BY <1>1, <2>1 DEF UsersInv, UsersFlags, One
    <3>2. /\ Mine({"users"})' = Mine({"users"})
          /\ Mine({"create", "update"})' = {}
          /\ Mine({"delete", "toggle", "token"})' = Mine({"delete", "toggle", "token"})
      BY <2>3, <2>4, <3>1
    <3>. QED BY <1>1, <2>2, <3>2 DEF UsersInv, UsersFlags, One
  <2>6. UsersToken'
    <3>1. Mine({"token"})' = Mine({"token"}) /\ \A m \in Mine({"token"}) : calls'[m] = calls[m]
      BY <2>3, <2>4, MineSets
    <3>. QED BY <1>1, <2>2, <3>1 DEF UsersInv, UsersToken
  <2>. QED BY <1>1, <2>2, <2>4, <2>5, <2>6 DEF UsersInv, UsersShape, UsersGoal
<1>7. CASE ConfirmFails(n)
  <2>1. n \in Mine({"delete", "toggle", "token"}) /\ Forget(n)
    BY <1>7 DEF ConfirmFails, Failing
  <2>2. PICK u : /\ usersUi' = [u EXCEPT !.submitting = FALSE]
                 /\ DOMAIN u = UsersFields
                 /\ u.loading = usersUi.loading /\ u.saving = usersUi.saving /\ u.token = usersUi.token
                 /\ \/ u = usersUi
                    \/ u.left = FALSE /\ u.dialog = "none"
                    \/ u.left = FALSE /\ u.dialog = usersUi.dialog /\ u.dialog # "token"
    <3>1. CASE calls[n].kind = "token"
      <4>1. PICK c : /\ c = Closed(usersUi, "token") /\ DOMAIN c = UsersFields
                     /\ c.loading = usersUi.loading /\ c.saving = usersUi.saving /\ c.token = usersUi.token
                     /\ c.dialog = "none" \/ (c.dialog = usersUi.dialog /\ c.dialog # "token")
        <5>1. CASE usersUi.dialog = "token"
          <6>1. PICK c : c = [usersUi EXCEPT !.dialog = "none", !.chosen = None]
            OBVIOUS
          <6>2. /\ DOMAIN c = UsersFields
                /\ c.loading = usersUi.loading /\ c.saving = usersUi.saving /\ c.token = usersUi.token
                /\ c.dialog = "none"
            BY <6>1 DEF UsersInv, UsersShape, UsersFields
          <6>3. c = Closed(usersUi, "token")
            BY <5>1, <6>1, Zenon DEF Closed
          <6>. QED BY <6>2, <6>3
        <5>2. CASE usersUi.dialog # "token"
          BY <5>2 DEF Closed, UsersInv, UsersShape
        <5>. QED BY <5>1, <5>2
      <4>2. PICK u : u = [c EXCEPT !.left = FALSE]
        OBVIOUS
      <4>3. /\ DOMAIN u = UsersFields
            /\ u.loading = usersUi.loading /\ u.saving = usersUi.saving /\ u.token = usersUi.token
            /\ u.left = FALSE /\ u.dialog = c.dialog
        BY <4>1, <4>2 DEF UsersFields
      <4>4. usersUi' = [u EXCEPT !.submitting = FALSE]
        BY <1>7, <3>1, <4>1, <4>2, Zenon DEF ConfirmFails, UsersThen
      <4>. QED BY <4>1, <4>3, <4>4
    <3>2. CASE calls[n].kind # "token"
      <4>1. usersUi' = [usersUi EXCEPT !.submitting = FALSE]
        BY <1>7, <3>2, Zenon DEF ConfirmFails, UsersThen
      <4>. QED BY <4>1 DEF UsersInv, UsersShape
    <3>. QED BY <3>1, <3>2
  <2>3. /\ DOMAIN usersUi' = UsersFields
        /\ usersUi'.loading = usersUi.loading /\ usersUi'.saving = usersUi.saving
        /\ usersUi'.submitting = FALSE /\ usersUi'.token = usersUi.token
        /\ usersUi'.dialog = u.dialog /\ usersUi'.chosen = u.chosen /\ usersUi'.left = u.left
    BY <2>2 DEF UsersFields
  <2>4. /\ CallStep(UsersCalls) /\ \A K : Mine(K)' = Mine(K) \ {n}
        /\ \A m \in Slot \ {n} : calls'[m] = calls[m]
    BY <2>1, UsersForget
  <2>5. Mine({"delete", "toggle", "token"}) = {n}
    BY <1>1, <2>1 DEF UsersInv, UsersFlags, One
  <2>6. UsersFlags'
    <3>1. n \notin Mine({"users"}) /\ n \notin Mine({"create", "update"})
      BY <2>1 DEF Mine
    <3>2. /\ Mine({"users"})' = Mine({"users"})
          /\ Mine({"create", "update"})' = Mine({"create", "update"})
          /\ Mine({"delete", "toggle", "token"})' = {}
      BY <2>4, <2>5, <3>1
    <3>. QED BY <1>1, <2>3, <3>2 DEF UsersInv, UsersFlags, One
  <2>7. UsersToken'
    <3>1. Mine({"token"})' = {}
      <4>1. Mine({"token"}) \subseteq Mine({"delete", "toggle", "token"})
        BY MineSets
      <4>. QED BY <2>4, <2>5, <4>1
    <3>. QED BY <1>1, <2>2, <2>3, <3>1 DEF UsersInv, UsersToken
  <2>8. usersUi'.dialog \in {"none", "delete", "toggle", "token"} /\ usersUi'.left \in BOOLEAN
    BY <2>2, <2>3 DEF UsersInv, UsersShape
  <2>. QED BY <1>1, <2>3, <2>4, <2>6, <2>7, <2>8 DEF UsersInv, UsersShape, UsersGoal
<1>. QED
  BY <1>2, <1>3, <1>4, <1>5, <1>6, <1>7 DEF UsersAnswer, UsersFails

LEMMA CopyTimerStep ==
  ASSUME CallsOK, UsersInv, CopyTimer, page' = page
  PROVE  UsersInv' /\ \A K : CallStep(K)
<1>1. usersUi' = [usersUi EXCEPT !.copied = FALSE] /\ calls' = calls
  BY DEF CopyTimer, UsersThen, Quiet
<1>2. /\ DOMAIN usersUi' = UsersFields
      /\ usersUi'.loading = usersUi.loading /\ usersUi'.saving = usersUi.saving
      /\ usersUi'.submitting = usersUi.submitting /\ usersUi'.left = usersUi.left
      /\ usersUi'.dialog = usersUi.dialog /\ usersUi'.chosen = usersUi.chosen
      /\ usersUi'.token = usersUi.token
  BY <1>1 DEF UsersInv, UsersShape, UsersFields
<1>3. \A K : CallStep(K)
  BY <1>1, QuietOK
<1>4. CASE page = "users"
  <2>1. UsersInv'
    BY <1>1, <1>2, <1>4, UsersSame DEF UsersGoal
  <2>. QED BY <1>3, <2>1
<1>5. CASE page # "users"
  <2>1. UsersShape'
    BY <1>2 DEF UsersInv, UsersShape
  <2>2. page' # "users"
    BY <1>5
  <2>. QED BY <1>3, <2>1, <2>2 DEF UsersInv
<1>. QED BY <1>4, <1>5

-----------------------------------------------------------------------------
(* The server *)

\* What the server does, seen from the page: a call is answered, or one is lost that was left.
ServerStep ==
    \/ calls' = calls
    \/ \E n \in Slot : calls[n] # NoCall /\ calls[n].gone /\ Forget(n)
    \/ \E n \in Slot : \E a :
          /\ calls[n] # NoCall /\ ~calls[n].served /\ Served(n, a)
          /\ calls[n].kind = "token" => a = calls[n].arg.user
          /\ calls[n].kind = "me" => a = calls[n].as
          /\ calls[n].kind = "login" => a \in Role

LEMMA ServerIsStep ==
  ASSUME CallsOK, NEW n \in Slot, Server(n)
  PROVE  ServerStep /\ pageVars' = pageVars /\ whoVars' = whoVars
<1>1. pageVars' = pageVars /\ whoVars' = whoVars
  BY DEF Server, pageVars, whoVars
<1>2. ASSUME NEW kind \in Kind, Arriving(n, kind)
      PROVE  calls[n] # NoCall /\ calls[n].kind = kind /\ ~calls[n].served
  BY <1>2, CallsKind DEF Arriving, CallsOK
<1>3. ASSUME NEW kind \in Kind \ {"token", "me", "login"}, Arriving(n, kind), NEW a, Served(n, a)
      PROVE  ServerStep
  BY <1>2, <1>3 DEF ServerStep
<1>4. UsersServer(n) => ServerStep
  <2>1. ListUsers(n) => ServerStep
    <3>. SUFFICES ASSUME ListUsers(n) PROVE ServerStep
      OBVIOUS
    <3>1. Arriving(n, "users") /\ \E a : Served(n, a)
      BY Zenon DEF ListUsers
    <3>. QED BY <1>3, <3>1, UsersKinds DEF UsersCalls
  <2>2. CreateUser(n) => ServerStep
    BY <1>3, UsersKinds DEF CreateUser, UsersCalls
  <2>3. UpdateUser(n) => ServerStep
    BY <1>3, UsersKinds DEF UpdateUser, UsersCalls
  <2>4. DeleteUser(n) => ServerStep
    BY <1>3, UsersKinds DEF DeleteUser, UsersCalls
  <2>5. ToggleUser(n) => ServerStep
    BY <1>3, UsersKinds DEF ToggleUser, UsersCalls
  <2>6. GenerateToken(n) => ServerStep
    <3>. SUFFICES ASSUME GenerateToken(n) PROVE ServerStep
      OBVIOUS
    <3>1. PICK a : a = calls[n].arg.user /\ Served(n, a) /\ Arriving(n, "token")
      BY Zenon DEF GenerateToken
    <3>2. calls[n] # NoCall /\ calls[n].kind = "token" /\ ~calls[n].served
      BY <1>2, <3>1, UsersKinds DEF UsersCalls
    <3>. QED BY <3>1, <3>2 DEF ServerStep
  <2>. QED BY <2>1, <2>2, <2>3, <2>4, <2>5, <2>6 DEF UsersServer
<1>5. BucketsServer(n) => ServerStep
  <2>. USE DEF Kind, PageCalls, BucketsCalls
  <2>1. ListBuckets(n) => ServerStep
    <3>. SUFFICES ASSUME ListBuckets(n) PROVE ServerStep
      OBVIOUS
    <3>1. Arriving(n, "buckets") /\ \E a : Served(n, a)
      BY Zenon DEF ListBuckets
    <3>. QED BY <1>3, <3>1
  <2>2. ListAnalytics(n) => ServerStep
    BY <1>3 DEF ListAnalytics
  <2>3. CreateBucket(n) => ServerStep
    BY <1>3 DEF CreateBucket
  <2>4. DeleteBucket(n) => ServerStep
    BY <1>3 DEF DeleteBucket
  <2>5. LifecycleServer(n) => ServerStep
    <3>. SUFFICES ASSUME LifecycleServer(n) PROVE ServerStep
      OBVIOUS
    <3>1. \E kind \in {"lifecycle", "putLifecycle", "dropLifecycle"} : \E a : Arriving(n, kind) /\ Served(n, a)
      BY Zenon DEF LifecycleServer, GetLifecycle, UpdateLifecycle, DeleteLifecycle
    <3>. QED BY <1>3, <3>1
  <2>6. VersionServer(n) => ServerStep
    <3>. SUFFICES ASSUME VersionServer(n) PROVE ServerStep
      OBVIOUS
    <3>1. \E kind \in {"versions", "deleteObject"} : \E a : Arriving(n, kind) /\ Served(n, a)
      BY Zenon DEF VersionServer, ListObjectVersions, DeleteObject
    <3>. QED BY <1>3, <3>1
  <2>. QED BY <2>1, <2>2, <2>3, <2>4, <2>5, <2>6 DEF BucketsServer
<1>6. ReportsServer(n) => ServerStep
  <2>. SUFFICES ASSUME ReportsServer(n) PROVE ServerStep
    OBVIOUS
  <2>1. \E kind \in {"logs", "logBuckets"} : \E a : Arriving(n, kind) /\ Served(n, a)
    BY Zenon DEF ReportsServer, ListLogs, ListLogBuckets
  <2>. QED BY <1>3, <2>1 DEF Kind, PageCalls, ReportsCalls
<1>7. AuthServer(n) => ServerStep
  <2>. USE DEF Kind, PageCalls
  <2>1. Me(n) => ServerStep
    <3>. SUFFICES ASSUME Me(n) PROVE ServerStep
      OBVIOUS
    <3>1. PICK a : a = calls[n].as /\ Served(n, a) /\ Arriving(n, "me")
      BY Zenon DEF Me
    <3>2. calls[n] # NoCall /\ calls[n].kind = "me" /\ ~calls[n].served
      BY <1>2, <3>1
    <3>. QED BY <3>1, <3>2 DEF ServerStep
  <2>2. LoginServed(n) => ServerStep
    <3>. SUFFICES ASSUME LoginServed(n) PROVE ServerStep
      OBVIOUS
    <3>1. PICK a \in Role : Served(n, a) /\ Arriving(n, "login")
      BY Zenon DEF LoginServed
    <3>2. calls[n] # NoCall /\ calls[n].kind = "login" /\ ~calls[n].served
      BY <1>2, <3>1
    <3>. QED BY <3>1, <3>2 DEF ServerStep
  <2>3. LogoutServed(n) => ServerStep
    BY <1>3 DEF LogoutServed
  <2>4. Summary(n) => ServerStep
    BY <1>3 DEF Summary
  <2>. QED BY <2>1, <2>2, <2>3, <2>4 DEF AuthServer
<1>8. Vanish(n) => ServerStep
  <2>1. calls[n].kind # "none" => calls[n] # NoCall
    BY DEF NoCall
  <2>. QED BY <2>1 DEF Vanish, ServerStep
<1>9. UsersServer(n) \/ BucketsServer(n) \/ ReportsServer(n) \/ AuthServer(n) \/ Vanish(n)
  BY DEF Server
<1>. QED BY <1>1, <1>4, <1>5, <1>6, <1>7, <1>8, <1>9

LEMMA ServerStepCalls ==
  ASSUME CallsOK, ServerStep, page' = page
  PROVE  /\ CallsOK'
         /\ \A K : Mine(K)' = Mine(K)
         /\ \A n \in Slot :
               \/ calls'[n] = calls[n]
               \/ calls'[n] = NoCall
               \/ /\ calls'[n].kind = calls[n].kind /\ calls'[n].arg = calls[n].arg
                  /\ calls'[n].as = calls[n].as /\ ~calls[n].served /\ calls'[n].served
                  /\ calls[n].kind = "token" => calls'[n].answer = calls[n].arg.user
                  /\ calls[n].kind = "me" => calls'[n].answer = calls[n].as
                  /\ calls[n].kind = "login" => calls'[n].answer \in Role
<1>1. CASE calls' = calls
  BY <1>1, QuietEffect, QuietOK
<1>2. ASSUME NEW n \in Slot, calls[n] # NoCall, calls[n].gone, Forget(n)
      PROVE  /\ CallsOK' /\ \A K : Mine(K)' = Mine(K)
             /\ calls'[n] = NoCall /\ \A m \in Slot \ {n} : calls'[m] = calls[m]
  <2>1. /\ Calls' /\ \A K : Mine(K)' = Mine(K) \ {n}
        /\ calls'[n] = NoCall /\ \A m \in Slot \ {n} : calls'[m] = calls[m]
    BY <1>2, ForgetEffect DEF CallsOK
  <2>2. \A K : n \notin Mine(K)
    BY <1>2 DEF Mine
  <2>. QED BY <2>1, <2>2 DEF CallsOK, BelongsTo
<1>3. ASSUME NEW n \in Slot, NEW a, calls[n] # NoCall, ~calls[n].served, Served(n, a)
      PROVE  /\ CallsOK' /\ \A K : Mine(K)' = Mine(K)
             /\ \A m \in Slot \ {n} : calls'[m] = calls[m]
             /\ \/ calls'[n] = NoCall
                \/ /\ calls'[n].kind = calls[n].kind /\ calls'[n].arg = calls[n].arg
                   /\ calls'[n].as = calls[n].as /\ calls'[n].served /\ calls'[n].answer = a
  <2>1. /\ Calls'
        /\ \A m \in Slot \ {n} : calls'[m] = calls[m]
        /\ calls[n].gone => calls'[n] = NoCall
        /\ ~calls[n].gone =>
               /\ calls'[n].kind = calls[n].kind /\ calls'[n].arg = calls[n].arg
               /\ calls'[n].as = calls[n].as /\ calls'[n].served /\ calls'[n].answer = a
        /\ \A K : Mine(K)' = Mine(K)
    BY <1>3, ServedEffect DEF CallsOK
  <2>2. CallsOK'
    <3>1. \A m \in Slot : calls'[m] # NoCall /\ ~calls'[m].gone => BelongsTo(calls'[m].kind, page)
      BY <1>3, <2>1 DEF CallsOK
    <3>. QED BY <2>1, <3>1 DEF CallsOK, BelongsTo
  <2>. QED BY <2>1, <2>2
<1>. QED
  <2>1. CASE \E n \in Slot : calls[n] # NoCall /\ calls[n].gone /\ Forget(n)
    BY <1>2, <2>1
  <2>2. CASE \E n \in Slot : \E a :
          /\ calls[n] # NoCall /\ ~calls[n].served /\ Served(n, a)
          /\ calls[n].kind = "token" => a = calls[n].arg.user
          /\ calls[n].kind = "me" => a = calls[n].as
          /\ calls[n].kind = "login" => a \in Role
    <3>0. PICK n \in Slot : \E a :
          /\ calls[n] # NoCall /\ ~calls[n].served /\ Served(n, a)
          /\ calls[n].kind = "token" => a = calls[n].arg.user
          /\ calls[n].kind = "me" => a = calls[n].as
          /\ calls[n].kind = "login" => a \in Role
      BY <2>2
    <3>1. PICK a :
          /\ calls[n] # NoCall /\ ~calls[n].served /\ Served(n, a)
          /\ calls[n].kind = "token" => a = calls[n].arg.user
          /\ calls[n].kind = "me" => a = calls[n].as
          /\ calls[n].kind = "login" => a \in Role
      BY <3>0
    <3>2. /\ CallsOK' /\ \A K : Mine(K)' = Mine(K)
          /\ \A m \in Slot \ {n} : calls'[m] = calls[m]
          /\ \/ calls'[n] = NoCall
             \/ /\ calls'[n].kind = calls[n].kind /\ calls'[n].arg = calls[n].arg
                /\ calls'[n].as = calls[n].as /\ calls'[n].served /\ calls'[n].answer = a
      BY <1>3, <3>1
    <3>. QED BY <3>1, <3>2
  <2>. QED BY <1>1, <2>1, <2>2 DEF ServerStep

LEMMA UsersServerStep ==
  ASSUME CallsOK, UsersInv, ServerStep, page' = page, usersUi' = usersUi
  PROVE  UsersInv'
<1>1. \A K : Mine(K)' = Mine(K)
  BY ServerStepCalls
<1>2. UsersShape'
  BY DEF UsersInv, UsersShape
<1>3. ASSUME page = "users" PROVE UsersFlags'
  BY <1>1, <1>3 DEF UsersInv, UsersFlags
<1>4. ASSUME page = "users" PROVE UsersToken'
  <2>1. ASSUME NEW n \in Mine({"token"})
        PROVE  /\ calls'[n].served => calls'[n].answer = calls'[n].arg.user
               /\ calls'[n].arg = calls[n].arg
    <3>1. n \in Slot /\ calls[n].kind = "token" /\ calls'[n] # NoCall
      BY <1>1, MineBelongs, ServerStepCalls, CallsKindNext DEF CallsOK
    <3>2. calls[n].served => calls[n].answer = calls[n].arg.user
      BY <1>4 DEF UsersInv, UsersToken
    <3>. QED BY <3>1, <3>2, ServerStepCalls
  <2>. QED BY <1>1, <1>4, <2>1 DEF UsersInv, UsersToken
<1>. QED BY <1>2, <1>3, <1>4 DEF UsersInv

-----------------------------------------------------------------------------
(* AuthContext.tsx and Login.tsx *)

\* Whom the page shows, and who the calls of AuthContext and Login.tsx are for.
SessionInv ==
    /\ page \in Path \union {"spinner"}
    /\ user \in Role \union {"nobody"} /\ tokens \in Role \union {"nobody"}
    /\ SessionShown
    /\ page = "spinner" => user = "nobody" /\ tokens # "nobody"
    /\ \A n \in Slot : calls[n].kind = "me" =>
          /\ calls[n].as = tokens /\ calls[n].arg \in Path
          /\ calls[n].served => calls[n].answer = tokens
    /\ \A n \in Slot : calls[n].kind = "login" /\ calls[n].served => calls[n].answer \in Role

LEMMA Kinds ==
  /\ "me" \notin PageCalls /\ "login" \notin PageCalls /\ "logout" \notin PageCalls
  /\ Changing \subseteq PageCalls /\ NoCall.kind \notin Kind
BY DEF PageCalls, UsersCalls, BucketsCalls, ReportsCalls, Changing, NoCall, Kind

\* A step of a page other than Login.tsx.
LEMMA SessionPageStep ==
  ASSUME CallsOK, SessionInv, CallStep(PageCalls), page' = page, user' = user,
         tokens' = tokens \/ (tokens' = "nobody" /\ user # "nobody")
  PROVE  SessionInv'
<1>1. \A n \in Slot : calls'[n].kind \in {"me", "login"} => calls'[n] = calls[n]
  <2>1. \A n \in Slot : calls'[n] # NoCall => Proper(calls'[n])
    BY DEF CallStep, Calls, IsCall
  <2>. QED BY <2>1, Kinds DEF CallStep, Kind, Proper
<1>2. \A n \in Slot : calls[n].kind = "me" => page = "spinner"
  <2>1. ASSUME NEW n \in Slot, calls[n].kind = "me" PROVE page = "spinner"
    <3>1. calls[n] # NoCall /\ Proper(calls[n])
      BY <2>1, CallsKind DEF CallsOK, Kind
    <3>2. ~calls[n].gone
      BY <2>1, <3>1, Kinds DEF Proper
    <3>. QED BY <2>1, <3>1, <3>2, Kinds DEF CallsOK, BelongsTo, PageCalls
  <2>. QED BY <2>1
<1>3. tokens' = tokens \/ \A n \in Slot : calls[n].kind # "me"
  BY <1>2 DEF SessionInv
<1>4. /\ \A n \in Slot : calls'[n].kind = "me" =>
            /\ calls'[n].as = tokens' /\ calls'[n].arg \in Path
            /\ calls'[n].served => calls'[n].answer = tokens'
      /\ \A n \in Slot : calls'[n].kind = "login" /\ calls'[n].served => calls'[n].answer \in Role
  BY <1>1, <1>3 DEF SessionInv
<1>5. /\ page' \in Path \union {"spinner"}
      /\ user' \in Role \union {"nobody"} /\ tokens' \in Role \union {"nobody"}
      /\ page' = "spinner" => user' = "nobody" /\ tokens' # "nobody"
  BY DEF SessionInv
<1>6. SessionShown'
  BY DEF SessionInv, SessionShown
<1>. QED BY <1>4, <1>5, <1>6 DEF SessionInv

LEMMA SessionServerStep ==
  ASSUME CallsOK, SessionInv, ServerStep, whoVars' = whoVars
  PROVE  SessionInv'
<1>1. page' = page /\ user' = user /\ tokens' = tokens
  BY DEF whoVars
<1>2. \A n \in Slot :
         \/ calls'[n] = calls[n]
         \/ calls'[n] = NoCall
         \/ /\ calls'[n].kind = calls[n].kind /\ calls'[n].arg = calls[n].arg
            /\ calls'[n].as = calls[n].as
            /\ calls[n].kind = "me" => calls'[n].answer = calls[n].as
            /\ calls[n].kind = "login" => calls'[n].answer \in Role
  BY <1>1, ServerStepCalls
<1>3. NoCall.kind # "me" /\ NoCall.kind # "login"
  BY DEF NoCall
<1>4. ASSUME NEW n \in Slot, calls'[n].kind = "me"
      PROVE  /\ calls'[n].as = tokens /\ calls'[n].arg \in Path
             /\ calls'[n].served => calls'[n].answer = tokens
  BY <1>2, <1>3, <1>4 DEF SessionInv
<1>5. ASSUME NEW n \in Slot, calls'[n].kind = "login", calls'[n].served
      PROVE  calls'[n].answer \in Role
  BY <1>2, <1>3, <1>5 DEF SessionInv
<1>6. SessionShown'
  BY <1>1 DEF SessionInv, SessionShown
<1>. QED BY <1>1, <1>4, <1>5, <1>6 DEF SessionInv

\* After a page has taken the place of another, no call of AuthContext is under way but a logout.
LEMMA MountOK ==
  ASSUME NEW p, NEW who, NEW rest, Leftover(rest, {}), Mount(p, who, rest)
  PROVE  /\ CallsOK' /\ page' = p
         /\ \A n \in Slot : calls'[n].kind \notin {"me", "login"}
<1>1. /\ Calls' /\ page' = p
      /\ \A n \in Slot :
            \/ calls'[n] = rest[n]
            \/ /\ rest[n] = NoCall /\ Proper(calls'[n])
               /\ calls'[n].kind \in EffectKinds(p)
               /\ ~calls'[n].served /\ ~calls'[n].gone
  BY MountEffect
<1>2. EffectKinds(p) \subseteq PageCalls /\ \A kind \in EffectKinds(p) : BelongsTo(kind, p)
  BY DEF EffectKinds, PageCalls, BelongsTo, UsersCalls, BucketsCalls, ReportsCalls
<1>3. \A n \in Slot : rest[n] # NoCall => Proper(rest[n]) /\ (rest[n].gone \/ rest[n].kind = "logout")
  BY DEF Leftover, IsCall
<1>4. \A n \in Slot : calls'[n] # NoCall /\ ~calls'[n].gone => BelongsTo(calls'[n].kind, page')
  BY <1>1, <1>2, <1>3 DEF BelongsTo
<1>5. \A n \in Slot : calls'[n].kind \notin {"me", "login"}
  <2>1. \A n \in Slot : rest[n].kind \notin {"me", "login"}
    BY <1>3, Kinds DEF Proper, Kind
  <2>. QED BY <1>1, <1>2, <2>1, Kinds
<1>. QED BY <1>1, <1>4, <1>5 DEF CallsOK

\* The page of somebody, or the login page.
LEMMA SessionMount ==
  ASSUME CallsOK', \A n \in Slot : calls'[n].kind \notin {"me", "login"},
         user' \in Role \union {"nobody"}, tokens' \in Role \union {"nobody"},
         \/ page' \in Protected /\ user' # "nobody" /\ tokens' \in {user', "nobody"}
         \/ page' = "login" /\ user' = "nobody" /\ tokens' = "nobody"
  PROVE  SessionInv'
<1>1. page' \in Path \union {"spinner"} /\ page' # "spinner"
  BY DEF Path, Protected
<1>2. SessionShown'
  BY DEF SessionShown, Protected
<1>. QED BY <1>1, <1>2 DEF SessionInv

-----------------------------------------------------------------------------
(* Calls that a step leaves alone *)

SameCalls(K) ==
    \A n \in Slot : calls[n].kind \in K \/ calls'[n].kind \in K => calls'[n] = calls[n]

LEMMA SameMine ==
  ASSUME Calls, Calls', NEW K, SameCalls(K), NEW J, J \subseteq K
  PROVE  Mine(J)' = Mine(J) /\ \A n \in Mine(J) : calls'[n] = calls[n]
<1>1. /\ Mine(J) = {n \in Slot : calls[n] # NoCall /\ calls[n].kind \in J /\ ~calls[n].gone}
      /\ Mine(J)' = {n \in Slot : calls'[n] # NoCall /\ calls'[n].kind \in J /\ ~calls'[n].gone}
  BY CallsKind, CallsKindNext
<1>. QED BY <1>1 DEF SameCalls

LEMMA SameQuiet == calls' = calls => \A K : SameCalls(K)
BY DEF SameCalls

LEMMA SameForget ==
  ASSUME CallsOK, NEW n \in Slot, Forget(n), NEW K \in SUBSET Kind, calls[n].kind \notin K
  PROVE  SameCalls(K)
BY ForgetEffect, Kinds DEF CallsOK, SameCalls

\* A call of the kind k is sent.
LEMMA SendOK ==
  ASSUME CallsOK, NEW k \in Kind, NEW arg, Send(k, arg), ArgOK(Call(k, arg))
  PROVE  /\ \A K : k \in K => CallStep(K)
         /\ \A K : K \subseteq Kind /\ k \notin K => SameCalls(K)
         /\ \E n \in Slot :
               /\ calls'[n].kind = k /\ calls'[n].arg = arg /\ ~calls'[n].served
               /\ \A m \in Slot \ {n} : calls'[m] = calls[m]
               /\ \A K : n \notin Mine(K)
               /\ \A K : Mine(K)' = IF k \in K THEN Mine(K) \union {n} ELSE Mine(K)
<1>1. PICK n \in Slot :
            /\ Calls' /\ calls[n] = NoCall
            /\ calls'[n].kind = k /\ calls'[n].arg = arg
            /\ ~calls'[n].served
            /\ \A m \in Slot \ {n} : calls'[m] = calls[m]
            /\ \A K : n \notin Mine(K)
            /\ \A K : Mine(K)' = IF k \in K THEN Mine(K) \union {n} ELSE Mine(K)
  BY SendEffect DEF CallsOK
<1>2. \A K : k \in K => CallStep(K)
  BY <1>1 DEF CallStep
<1>3. \A K : K \subseteq Kind /\ k \notin K => SameCalls(K)
  BY <1>1, Kinds DEF SameCalls
<1>. QED BY <1>1, <1>2, <1>3

\* The call in slot n is followed by one of the kind k.
LEMMA FollowOK ==
  ASSUME CallsOK, NEW n \in Slot, NEW k \in Kind, NEW arg, ArgOK(Call(k, arg)), Put(n, Call(k, arg))
  PROVE  /\ \A K : k \in K => CallStep(K)
         /\ \A K : k \notin K /\ calls[n].kind \notin K => SameCalls(K)
         /\ calls'[n].kind = k /\ calls'[n].arg = arg /\ ~calls'[n].served
         /\ \A m \in Slot \ {n} : calls'[m] = calls[m]
         /\ \A K : Mine(K)' = IF k \in K THEN Mine(K) \union {n} ELSE Mine(K) \ {n}
<1>1. /\ Calls' /\ calls'[n].kind = k /\ calls'[n].arg = arg /\ ~calls'[n].served
      /\ \A m \in Slot \ {n} : calls'[m] = calls[m]
      /\ \A K : Mine(K)' = IF k \in K THEN Mine(K) \union {n} ELSE Mine(K) \ {n}
  BY FollowEffect DEF CallsOK
<1>2. \A K : k \in K => CallStep(K)
  BY <1>1 DEF CallStep
<1>3. \A K : k \notin K /\ calls[n].kind \notin K => SameCalls(K)
  BY <1>1 DEF SameCalls
<1>. QED BY <1>1, <1>2, <1>3

LEMMA UsersFrame ==
  ASSUME CallsOK, CallsOK', UsersInv, usersUi' = usersUi, page' = page, SameCalls(UsersCalls)
  PROVE  UsersInv'
<1>1. \A J : J \subseteq UsersCalls => Mine(J)' = Mine(J) /\ \A n \in Mine(J) : calls'[n] = calls[n]
  BY SameMine DEF CallsOK
<1>2. /\ Mine({"users"})' = Mine({"users"})
      /\ Mine({"create", "update"})' = Mine({"create", "update"})
      /\ Mine({"delete", "toggle", "token"})' = Mine({"delete", "toggle", "token"})
      /\ Mine({"token"})' = Mine({"token"}) /\ \A n \in Mine({"token"}) : calls'[n] = calls[n]
  BY <1>1 DEF UsersCalls
<1>3. UsersFlags => UsersFlags'
  BY <1>2 DEF UsersFlags
<1>4. UsersToken => UsersToken'
  BY <1>2 DEF UsersToken
<1>. QED BY <1>3, <1>4 DEF UsersInv, UsersShape

LEMMA UsersAway ==
  ASSUME UsersInv, usersUi' = usersUi, page' # "users"
  PROVE  UsersInv'
BY DEF UsersInv, UsersShape

-----------------------------------------------------------------------------
(* Buckets.tsx and its modals *)

BpFields == {"grid", "loading", "error", "creating", "form", "inside", "crossed", "tried", "created", "alerted"}
LcFields == {"bucket", "loading", "saving", "enabled", "rules", "read", "got", "touched"}
VmFields == {"of", "versions", "loading", "error", "deleting", "alerted"}

ListCalls == {"buckets", "analytics"}
BpCalls == {"buckets", "analytics", "makeBucket", "dropBucket"}
LifecycleCalls == {"lifecycle", "putLifecycle", "dropLifecycle"}
VersionCalls == {"versions", "deleteObject"}

\* The savings of the dialog that is open, and the deletions that the version dialog waits for.
OpenSaves == {n \in Mine(LcCalls) : ~calls[n].arg.closed}
Deletions == {n \in Mine(VersionCalls) : calls[n].kind = "deleteObject" \/ calls[n].arg.then = "delete"}

BpInv ==
    /\ DOMAIN bp = BpFields /\ bp.loading \in BOOLEAN /\ bp.creating \in BOOLEAN
    /\ page = "buckets" =>
          /\ bp.loading => Mine(ListCalls) # {}
          /\ One(bp.creating, Mine({"makeBucket"}))
LcInv ==
    /\ DOMAIN lc = LcFields /\ lc.loading \in BOOLEAN /\ lc.saving \in BOOLEAN
    /\ lc.bucket = None => ~lc.loading /\ ~lc.saving
    /\ lc.bucket # None => page = "buckets"
    /\ page = "buckets" =>
          /\ lc.loading => Mine({"lifecycle"}) # {}
          /\ One(lc.saving, OpenSaves)
VmInv ==
    /\ DOMAIN vm = VmFields /\ vm.loading \in BOOLEAN
    /\ vm.of = None => ~vm.loading /\ vm.deleting = None
    /\ vm.of # None => page = "buckets"
    /\ page = "buckets" =>
          /\ vm.of = None => Mine(VersionCalls) = {}
          /\ vm.loading => Mine({"versions"}) # {}
          /\ vm.deleting # None => Deletions # {}

LEMMA BpFrame ==
  ASSUME CallsOK, CallsOK', BpInv, bp' = bp, page' = page, SameCalls(BpCalls)
  PROVE  BpInv'
<1>1. \A J : J \subseteq BpCalls => Mine(J)' = Mine(J)
  BY SameMine DEF CallsOK
<1>2. Mine(ListCalls)' = Mine(ListCalls) /\ Mine({"makeBucket"})' = Mine({"makeBucket"})
  BY <1>1 DEF BpCalls, ListCalls
<1>. QED BY <1>2 DEF BpInv

LEMMA LcFrame ==
  ASSUME CallsOK, CallsOK', LcInv, lc' = lc, page' = page, SameCalls(LifecycleCalls)
  PROVE  LcInv'
<1>1. \A J : J \subseteq LifecycleCalls => Mine(J)' = Mine(J) /\ \A n \in Mine(J) : calls'[n] = calls[n]
  BY SameMine DEF CallsOK
<1>2. /\ Mine({"lifecycle"})' = Mine({"lifecycle"})
      /\ Mine(LcCalls)' = Mine(LcCalls) /\ \A n \in Mine(LcCalls) : calls'[n] = calls[n]
  BY <1>1 DEF LifecycleCalls, LcCalls
<1>3. OpenSaves' = OpenSaves
  BY <1>2 DEF OpenSaves
<1>. QED BY <1>2, <1>3 DEF LcInv

LEMMA VmFrame ==
  ASSUME CallsOK, CallsOK', VmInv, vm' = vm, page' = page, SameCalls(VersionCalls)
  PROVE  VmInv'
<1>1. \A J : J \subseteq VersionCalls => Mine(J)' = Mine(J) /\ \A n \in Mine(J) : calls'[n] = calls[n]
  BY SameMine DEF CallsOK
<1>2. /\ Mine({"versions"})' = Mine({"versions"})
      /\ Mine(VersionCalls)' = Mine(VersionCalls) /\ \A n \in Mine(VersionCalls) : calls'[n] = calls[n]
  BY <1>1 DEF VersionCalls
<1>3. Deletions' = Deletions
  BY <1>2 DEF Deletions
<1>. QED BY <1>2, <1>3 DEF VmInv

BucketsInv == BpInv /\ LcInv /\ VmInv
BucketsGoal == BucketsInv' /\ CallStep(BucketsCalls) /\ CallsOK' /\ page = "buckets"
\* The grid does nothing to the dialogs, nor they to it or to each other.
GridGoal == BucketsGoal /\ lc' = lc /\ SameCalls(LifecycleCalls)
ModalGoal == BucketsGoal /\ bp' = bp /\ SameCalls(BpCalls)
VersionsGoal == BucketsGoal /\ bp' = bp /\ lc' = lc /\ SameCalls(BpCalls) /\ SameCalls(LifecycleCalls)

LEMMA BucketsKinds ==
  /\ BucketsCalls \subseteq Kind /\ BpCalls \subseteq BucketsCalls
  /\ LifecycleCalls \subseteq BucketsCalls /\ VersionCalls \subseteq BucketsCalls
  /\ LcCalls \subseteq LifecycleCalls
  /\ BpCalls \intersect LifecycleCalls = {} /\ BpCalls \intersect VersionCalls = {}
  /\ LifecycleCalls \intersect VersionCalls = {}
BY DEF BucketsCalls, Kind, PageCalls, BpCalls, LifecycleCalls, VersionCalls, LcCalls

LEMMA BucketsStepOK ==
  ASSUME CallsOK, page = "buckets", page' = page, CallStep(BucketsCalls)
  PROVE  CallsOK'
<1>1. \A kind \in BucketsCalls : BelongsTo(kind, page)
  BY DEF BelongsTo
<1>. QED BY <1>1, CallStepOK

\* One of the three parts changes, with calls of its own.
LEMMA BpOnly ==
  ASSUME CallsOK, BucketsInv, page = "buckets", page' = page, lc' = lc, vm' = vm,
         CallStep(BucketsCalls), SameCalls(LifecycleCalls), SameCalls(VersionCalls), BpInv'
  PROVE  GridGoal
BY BucketsStepOK, LcFrame, VmFrame DEF BucketsInv, BucketsGoal, GridGoal

LEMMA LcOnly ==
  ASSUME CallsOK, BucketsInv, page = "buckets", page' = page, bp' = bp, vm' = vm,
         CallStep(BucketsCalls), SameCalls(BpCalls), SameCalls(VersionCalls), LcInv'
  PROVE  ModalGoal
BY BucketsStepOK, BpFrame, VmFrame DEF BucketsInv, BucketsGoal, ModalGoal

LEMMA VmOnly ==
  ASSUME CallsOK, BucketsInv, page = "buckets", page' = page, bp' = bp, lc' = lc,
         CallStep(BucketsCalls), SameCalls(BpCalls), SameCalls(LifecycleCalls), VmInv'
  PROVE  VersionsGoal
BY BucketsStepOK, BpFrame, LcFrame DEF BucketsInv, BucketsGoal, VersionsGoal

\* A call of the page or its grid is sent, or follows upon another.
LEMMA BpSend ==
  ASSUME CallsOK, NEW k \in BpCalls, NEW arg, Send(k, arg)
  PROVE  /\ CallStep(BucketsCalls) /\ SameCalls(LifecycleCalls) /\ SameCalls(VersionCalls)
         /\ \E n \in Slot :
               /\ calls'[n].kind = k /\ calls'[n].arg = arg /\ ~calls'[n].served
               /\ \A m \in Slot \ {n} : calls'[m] = calls[m]
               /\ \A K : n \notin Mine(K)
               /\ \A K : Mine(K)' = IF k \in K THEN Mine(K) \union {n} ELSE Mine(K)
<1>1. k \in Kind \ (LcCalls \union {"versions"})
  BY BucketsKinds DEF BpCalls, LcCalls
<1>2. ArgOK(Call(k, arg))
  BY <1>1, PlainArg
<1>. QED BY <1>1, <1>2, SendOK, BucketsKinds

LEMMA BpFollow ==
  ASSUME CallsOK, NEW n \in Slot, calls[n].kind \in BpCalls, NEW k \in BpCalls, NEW arg, Put(n, Call(k, arg))
  PROVE  /\ CallStep(BucketsCalls) /\ SameCalls(LifecycleCalls) /\ SameCalls(VersionCalls)
         /\ calls'[n].kind = k /\ calls'[n].arg = arg /\ ~calls'[n].served
         /\ \A m \in Slot \ {n} : calls'[m] = calls[m]
         /\ \A K : Mine(K)' = IF k \in K THEN Mine(K) \union {n} ELSE Mine(K) \ {n}
<1>1. k \in Kind \ (LcCalls \union {"versions"})
  BY BucketsKinds DEF BpCalls, LcCalls
<1>2. ArgOK(Call(k, arg))
  BY <1>1, PlainArg
<1>. QED BY <1>1, <1>2, FollowOK, BucketsKinds

LEMMA BucketsForget ==
  ASSUME CallsOK, NEW n \in Slot, Forget(n)
  PROVE  /\ \A K : CallStep(K)
         /\ \A K \in SUBSET Kind : calls[n].kind \notin K => SameCalls(K)
         /\ \A m \in Slot \ {n} : calls'[m] = calls[m]
         /\ \A K : Mine(K)' = Mine(K) \ {n}
BY ForgetEffect, SameForget DEF CallsOK, CallStep

LEMMA BpUserStep ==
  ASSUME CallsOK, BucketsInv, page = "buckets", page' = page,
         \/ RefreshBuckets \/ OpenCreate \/ CloseCreate \/ LeaveBucket
         \/ \E b \in Bucket : SubmitBucket(b) \/ ClickDelete(b) \/ EnterBucket(b)
  PROVE  GridGoal
<1>1. ASSUME DOMAIN bp' = BpFields, bp'.loading = bp.loading, bp'.creating = bp.creating,
             lc' = lc, vm' = vm, calls' = calls
      PROVE  GridGoal
  <2>1. CallStep(BucketsCalls) /\ \A K : SameCalls(K)
    BY <1>1, QuietOK, SameQuiet
  <2>2. BpInv'
    BY <1>1, QuietEffect DEF BucketsInv, BpInv
  <2>. QED BY <1>1, <2>1, <2>2, BpOnly
<1>2. CASE RefreshBuckets
  <2>1. /\ bp' = BpLoading(bp) /\ Send("buckets", None) /\ lc' = lc /\ vm' = vm
    BY <1>2 DEF RefreshBuckets, BpDo
  <2>2. DOMAIN bp' = BpFields /\ bp'.loading = TRUE /\ bp'.creating = bp.creating
    BY <2>1 DEF BpLoading, BucketsInv, BpInv, BpFields
  <2>3. "buckets" \in BpCalls
    BY DEF BpCalls
  <2>4. CallStep(BucketsCalls) /\ SameCalls(LifecycleCalls) /\ SameCalls(VersionCalls)
    BY <2>1, <2>3, BpSend
  <2>5. \E n \in Slot : \A K : Mine(K)' = IF "buckets" \in K THEN Mine(K) \union {n} ELSE Mine(K)
    BY <2>1, <2>3, BpSend
  <2>6. Mine(ListCalls)' # {} /\ Mine({"makeBucket"})' = Mine({"makeBucket"})
    BY <2>5 DEF ListCalls
  <2>7. BpInv'
    BY <2>2, <2>6 DEF BucketsInv, BpInv
  <2>. QED BY <2>1, <2>4, <2>7, BpOnly
<1>3. CASE OpenCreate \/ CloseCreate \/ LeaveBucket
  <2>1. /\ \E f : bp' = [bp EXCEPT !.form = f] \/ bp' = [bp EXCEPT !.inside = f]
        /\ lc' = lc /\ vm' = vm /\ calls' = calls
    BY <1>3 DEF OpenCreate, CloseCreate, LeaveBucket, BpDo, Quiet
  <2>2. DOMAIN bp' = BpFields /\ bp'.loading = bp.loading /\ bp'.creating = bp.creating
    BY <2>1 DEF BucketsInv, BpInv, BpFields
  <2>. QED BY <1>1, <2>1, <2>2
<1>4. ASSUME NEW b \in Bucket, EnterBucket(b) PROVE GridGoal
  <2>1. bp' = [bp EXCEPT !.inside = b] /\ lc' = lc /\ vm' = vm /\ calls' = calls
    BY <1>4 DEF EnterBucket, BpDo, Quiet
  <2>2. DOMAIN bp' = BpFields /\ bp'.loading = bp.loading /\ bp'.creating = bp.creating
    BY <2>1 DEF BucketsInv, BpInv, BpFields
  <2>. QED BY <1>1, <2>1, <2>2
<1>5. ASSUME NEW b \in Bucket, SubmitBucket(b) PROVE GridGoal
  <2>1. /\ bp' = [bp EXCEPT !.creating = TRUE, !.tried = @ \union {b}] /\ Send("makeBucket", b)
        /\ lc' = lc /\ vm' = vm /\ ~bp.creating
    BY <1>5 DEF SubmitBucket, BpDo
  <2>2. DOMAIN bp' = BpFields /\ bp'.loading = bp.loading /\ bp'.creating = TRUE
    BY <2>1 DEF BucketsInv, BpInv, BpFields
  <2>3. "makeBucket" \in BpCalls
    BY DEF BpCalls
  <2>4. CallStep(BucketsCalls) /\ SameCalls(LifecycleCalls) /\ SameCalls(VersionCalls)
    BY <2>1, <2>3, BpSend
  <2>5. PICK n \in Slot : \A K : Mine(K)' = IF "makeBucket" \in K THEN Mine(K) \union {n} ELSE Mine(K)
    BY <2>1, <2>3, BpSend
  <2>6. Mine(ListCalls)' = Mine(ListCalls) /\ Mine({"makeBucket"})' = {n}
    <3>1. Mine({"makeBucket"}) = {}
      BY <2>1 DEF BucketsInv, BpInv, One
    <3>. QED BY <2>5, <3>1 DEF ListCalls
  <2>7. BpInv'
    BY <2>2, <2>6 DEF BucketsInv, BpInv, One
  <2>. QED BY <2>1, <2>4, <2>7, BpOnly
<1>6. ASSUME NEW b \in Bucket, ClickDelete(b) PROVE GridGoal
  <2>1. bp' = bp /\ Send("dropBucket", b) /\ lc' = lc /\ vm' = vm
    BY <1>6 DEF ClickDelete, BpDo
  <2>2. "dropBucket" \in BpCalls
    BY DEF BpCalls
  <2>3. CallStep(BucketsCalls) /\ SameCalls(LifecycleCalls) /\ SameCalls(VersionCalls)
    BY <2>1, <2>2, BpSend
  <2>4. \E n \in Slot : \A K : Mine(K)' = IF "dropBucket" \in K THEN Mine(K) \union {n} ELSE Mine(K)
    BY <2>1, <2>2, BpSend
  <2>5. Mine(ListCalls)' = Mine(ListCalls) /\ Mine({"makeBucket"})' = Mine({"makeBucket"})
    BY <2>4 DEF ListCalls
  <2>6. BpInv'
    BY <2>1, <2>5 DEF BucketsInv, BpInv
  <2>. QED BY <2>1, <2>3, <2>6, BpOnly
<1>. QED BY <1>2, <1>3, <1>4, <1>5, <1>6

LEMMA BucketsAnswerPage ==
  ASSUME CallsOK, NEW n \in Slot, BucketsAnswer(n)
  PROVE  page = "buckets" /\ n \in Mine(BucketsCalls)
<1>1. n \in Mine(BucketsCalls)
  BY DEF BucketsAnswer, BucketsLoaded, BucketsFail, AnalyticsDone, BucketCreated, CreateFails, BucketDeleted,
         DeleteBucketFails, LifecycleAnswer, LifecycleLoaded, LifecycleSaved, LifecycleFailing,
         LifecycleFails, SaveFails, LcCalls, VersionAnswer, VersionDeletedOk, VersionsLoaded,
         VersionFails, VersionDeleteFails, VersionsFail, Answered, Failing, Mine, BucketsCalls
<1>. QED BY <1>1, MineOfPage

LEMMA BpAnswerStep ==
  ASSUME CallsOK, BucketsInv, page = "buckets", page' = page, NEW n \in Slot,
         \/ BucketsLoaded(n) \/ BucketsFail(n) \/ AnalyticsDone(n)
         \/ BucketCreated(n) \/ CreateFails(n) \/ BucketDeleted(n) \/ DeleteBucketFails(n)
  PROVE  GridGoal
<1>1. ASSUME Forget(n), n \in Mine(BpCalls), lc' = lc, vm' = vm,
             DOMAIN bp' = BpFields, bp'.loading \in BOOLEAN, bp'.creating \in BOOLEAN,
             bp'.loading => bp.loading /\ n \notin Mine(ListCalls),
             One(bp'.creating, Mine({"makeBucket"}) \ {n})
      PROVE  GridGoal
  <2>1. calls[n].kind \in BpCalls
    BY <1>1 DEF Mine
  <2>2. /\ CallStep(BucketsCalls) /\ \A K : Mine(K)' = Mine(K) \ {n}
        /\ \A K \in SUBSET Kind : calls[n].kind \notin K => SameCalls(K)
    BY <1>1, BucketsForget
  <2>3. SameCalls(LifecycleCalls) /\ SameCalls(VersionCalls)
    <3>1. LifecycleCalls \in SUBSET Kind /\ VersionCalls \in SUBSET Kind
      BY BucketsKinds
    <3>2. calls[n].kind \notin LifecycleCalls /\ calls[n].kind \notin VersionCalls
      BY <2>1, BucketsKinds
    <3>. QED BY <2>2, <3>1, <3>2
  <2>4. bp'.loading => Mine(ListCalls)' # {}
    BY <1>1, <2>2 DEF BucketsInv, BpInv
  <2>5. BpInv'
    BY <1>1, <2>2, <2>4 DEF BpInv
  <2>. QED BY <1>1, <2>2, <2>3, <2>5, BpOnly
<1>2. ASSUME NEW k \in ListCalls, NEW w, Put(n, Call(k, w)), n \in Mine(BpCalls), n \notin Mine({"makeBucket"}),
             lc' = lc, vm' = vm,
             DOMAIN bp' = BpFields, bp'.loading \in BOOLEAN, bp'.creating = bp.creating
      PROVE  GridGoal
  <2>1. calls[n].kind \in BpCalls /\ k \in BpCalls
    BY <1>2 DEF Mine, ListCalls, BpCalls
  <2>2. /\ CallStep(BucketsCalls) /\ SameCalls(LifecycleCalls) /\ SameCalls(VersionCalls)
        /\ \A K : Mine(K)' = IF k \in K THEN Mine(K) \union {n} ELSE Mine(K) \ {n}
    BY <1>2, <2>1, BpFollow
  <2>3. Mine(ListCalls)' # {} /\ Mine({"makeBucket"})' = Mine({"makeBucket"})
    BY <1>2, <2>2 DEF ListCalls
  <2>4. BpInv'
    BY <1>2, <2>3 DEF BucketsInv, BpInv
  <2>. QED BY <1>2, <2>2, <2>4, BpOnly
<1>. DEFINE Kept == One(bp.creating, Mine({"makeBucket"})) /\ bp.creating \in BOOLEAN /\ bp.loading \in BOOLEAN
<1>3. Kept /\ DOMAIN bp = BpFields
  BY DEF BucketsInv, BpInv
<1>4. ASSUME n \in Mine(ListCalls) \/ n \in Mine({"dropBucket"})
      PROVE  n \in Mine(BpCalls) /\ n \notin Mine({"makeBucket"}) /\ Mine({"makeBucket"}) \ {n} = Mine({"makeBucket"})
  <2>1. n \in Mine(BpCalls) /\ n \notin Mine({"makeBucket"})
    BY <1>4 DEF Mine, ListCalls, BpCalls
  <2>. QED BY <2>1
<1>5. /\ n \in Mine({"buckets"}) \/ n \in Mine({"analytics"}) => n \in Mine(ListCalls)
      /\ n \in Mine({"dropBucket"}) => n \notin Mine(ListCalls)
      /\ n \in Mine({"makeBucket"}) => n \in Mine(BpCalls) /\ n \notin Mine(ListCalls)
  BY DEF Mine, ListCalls, BpCalls
<1>6. CASE BucketsLoaded(n)
  <2>1. PICK w : /\ bp' = [bp EXCEPT !.grid = calls[n].answer] /\ lc' = lc /\ vm' = vm
                 /\ Put(n, Call("analytics", w)) /\ n \in Mine({"buckets"})
    BY <1>6 DEF BucketsLoaded, BpThen, Answered
  <2>2. DOMAIN bp' = BpFields /\ bp'.loading = bp.loading /\ bp'.creating = bp.creating
    BY <1>3, <2>1 DEF BpFields
  <2>3. n \in Mine(BpCalls) /\ n \notin Mine({"makeBucket"})
    BY <1>4, <1>5, <2>1
  <2>. QED BY <1>2, <1>3, <2>1, <2>2, <2>3 DEF ListCalls
<1>7. CASE BucketsFail(n) \/ AnalyticsDone(n)
  <2>1. PICK ui, w :
             /\ bp' = BpSettled(ui, w) /\ lc' = lc /\ vm' = vm /\ Forget(n) /\ n \in Mine(ListCalls)
             /\ DOMAIN ui = BpFields /\ ui.creating = bp.creating
    <3>1. CASE BucketsFail(n)
      <4>1. PICK ui : ui = [bp EXCEPT !.error = TRUE]
        OBVIOUS
      <4>2. DOMAIN ui = BpFields /\ ui.creating = bp.creating
        BY <1>3, <4>1 DEF BpFields
      <4>3. \E w : bp' = BpSettled(ui, w)
        BY <3>1, <4>1, Zenon DEF BucketsFail, BpThen
      <4>4. /\ lc' = lc /\ vm' = vm /\ Forget(n) /\ n \in Mine({"buckets"})
        BY <3>1, Zenon DEF BucketsFail, BpThen, Failing
      <4>. QED BY <1>5, <4>2, <4>3, <4>4
    <3>2. CASE AnalyticsDone(n)
      <4>1. \E w : bp' = BpSettled(bp, w)
        BY <3>2, Zenon DEF AnalyticsDone, BpThen
      <4>2. /\ lc' = lc /\ vm' = vm /\ Forget(n) /\ n \in Mine({"analytics"})
        BY <3>2, Zenon DEF AnalyticsDone, BpThen, Failing
      <4>. QED BY <1>3, <1>5, <4>1, <4>2
    <3>. QED BY <1>7, <3>1, <3>2
  <2>2. DOMAIN bp' = BpFields /\ bp'.loading = FALSE /\ bp'.creating = ui.creating
    BY <2>1 DEF BpSettled, BpFields
  <2>3. n \in Mine(BpCalls) /\ Mine({"makeBucket"}) \ {n} = Mine({"makeBucket"})
    BY <1>4, <1>5, <2>1
  <2>. QED BY <1>1, <1>3, <2>1, <2>2, <2>3
<1>8. CASE BucketCreated(n) \/ CreateFails(n)
  <2>1. /\ DOMAIN bp' = BpFields /\ bp'.loading = bp.loading /\ bp'.creating = FALSE
    <3>1. CASE bp' = [bp EXCEPT !.form = FALSE, !.creating = FALSE, !.created = @ \union {calls[n].arg}]
      BY <1>3, <3>1 DEF BpFields
    <3>2. CASE bp' = [bp EXCEPT !.creating = FALSE]
      BY <1>3, <3>2 DEF BpFields
    <3>. QED BY <1>8, <3>1, <3>2 DEF BucketCreated, CreateFails, BpThen
  <2>2. n \in Mine({"makeBucket"}) /\ Forget(n) /\ lc' = lc /\ vm' = vm
    BY <1>8 DEF BucketCreated, CreateFails, BpThen, Answered, Failing
  <2>3. n \in Mine(BpCalls) /\ n \notin Mine(ListCalls) /\ Mine({"makeBucket"}) \ {n} = {}
    <3>1. Mine({"makeBucket"}) = {n}
      BY <1>3, <2>2 DEF One
    <3>. QED BY <1>5, <2>2, <3>1
  <2>4. One(bp'.creating, Mine({"makeBucket"}) \ {n})
    BY <2>1, <2>3 DEF One
  <2>. QED BY <1>1, <1>3, <2>1, <2>2, <2>3, <2>4
<1>9. CASE BucketDeleted(n)
  <2>1. PICK ui, w : /\ ui = [bp EXCEPT !.created = @ \ {calls[n].arg}]
                     /\ bp' = BpLoading(ui) /\ lc' = lc /\ vm' = vm
                     /\ Put(n, Call("buckets", w)) /\ n \in Mine({"dropBucket"})
    BY <1>9, Zenon DEF BucketDeleted, Reload, BpThen, Answered
  <2>2. DOMAIN ui = BpFields /\ ui.creating = bp.creating
    BY <1>3, <2>1 DEF BpFields
  <2>3. DOMAIN bp' = BpFields /\ bp'.loading = TRUE /\ bp'.creating = ui.creating
    BY <2>1, <2>2 DEF BpLoading, BpFields
  <2>4. n \in Mine(BpCalls) /\ n \notin Mine({"makeBucket"})
    BY <1>4, <1>5, <2>1
  <2>. QED BY <1>2, <1>3, <2>1, <2>2, <2>3, <2>4 DEF ListCalls
<1>10. CASE DeleteBucketFails(n)
  <2>1. bp' = bp /\ lc' = lc /\ vm' = vm /\ Forget(n) /\ n \in Mine({"dropBucket"})
    BY <1>10 DEF DeleteBucketFails, BpThen, Failing
  <2>2. n \in Mine(BpCalls) /\ n \notin Mine(ListCalls) /\ Mine({"makeBucket"}) \ {n} = Mine({"makeBucket"})
    BY <1>4, <1>5, <2>1
  <2>. QED BY <1>1, <1>3, <2>1, <2>2
<1>. QED BY <1>6, <1>7, <1>8, <1>9, <1>10

\* The dialog of the rules is closed: its loading, and the savings X, are over.
LEMMA ShutEffect ==
  ASSUME CallsOK, page = "buckets", page' = page, NEW X,
         calls' = [m \in Slot |-> calls'[m]],
         \A m \in Slot : m \in X => calls[m].kind \in LcCalls,
         \A m \in Slot : m \in X \/ calls[m].kind = "lifecycle" => calls'[m] = NoCall,
         \A m \in Slot \ X : calls[m].kind \in LcCalls => calls'[m] = Shut(calls[m]),
         \A m \in Slot : calls[m].kind \notin LifecycleCalls => calls'[m] = calls[m]
  PROVE  /\ CallStep(BucketsCalls) /\ SameCalls(BpCalls) /\ SameCalls(VersionCalls)
         /\ OpenSaves' = {}
<1>1. ASSUME NEW m \in Slot \ X, calls[m].kind \in LcCalls
      PROVE  /\ Proper(calls'[m]) /\ calls'[m].kind = calls[m].kind
             /\ calls'[m].arg.closed
  <2>1. PICK c, d : c = calls[m] /\ d = Shut(c)
    OBVIOUS
  <2>2. calls[m].kind \in Kind
    BY <1>1, BucketsKinds
  <2>3. Proper(c) /\ c.kind \in LcCalls
    BY <1>1, <2>1, <2>2, CallsKind DEF CallsOK
  <2>4. Proper(d) /\ d.kind = c.kind /\ d.arg.closed
    BY <2>1, <2>3, ClosedProper
  <2>5. calls'[m] = d
    BY <1>1, <2>1
  <2>. QED BY <2>1, <2>4, <2>5
<1>2. \A m \in Slot : \/ m \in X \/ calls[m].kind = "lifecycle"
                      \/ m \in Slot \ X /\ calls[m].kind \in LcCalls
                      \/ calls[m].kind \notin LifecycleCalls
  BY DEF LifecycleCalls, LcCalls
<1>3. Calls'
  <2>1. \A m \in Slot : IsCall(calls'[m])
    BY <1>1, <1>2 DEF IsCall, CallsOK, Calls
  <2>. QED BY <2>1 DEF Calls
<1>4. CallStep(BucketsCalls)
  <2>1. \A m \in Slot : \/ calls'[m] = calls[m] \/ calls'[m] = NoCall
                        \/ calls'[m].kind \in BucketsCalls
    BY <1>1, <1>2, BucketsKinds
  <2>. QED BY <1>3, <2>1 DEF CallStep
<1>5. ASSUME NEW K, K \subseteq Kind, K \intersect LifecycleCalls = {} PROVE SameCalls(K)
  <2>1. \A m \in Slot : calls[m].kind \in K => calls'[m] = calls[m]
    BY <1>5
  <2>2. \A m \in Slot : calls'[m].kind \in K => calls'[m] = calls[m]
    BY <1>1, <1>2, <1>5, Kinds, BucketsKinds
  <2>. QED BY <2>1, <2>2 DEF SameCalls
<1>6. OpenSaves' = {}
  <2>1. Mine(LcCalls)' = {m \in Slot : calls'[m] # NoCall /\ calls'[m].kind \in LcCalls /\ ~calls'[m].gone}
    BY <1>3, CallsKindNext
  <2>2. ASSUME NEW m \in Slot, calls'[m] # NoCall, calls'[m].kind \in LcCalls PROVE calls'[m].arg.closed
    BY <1>1, <1>2, <2>2, BucketsKinds
  <2>. QED BY <2>1, <2>2 DEF OpenSaves
<1>7. SameCalls(BpCalls) /\ SameCalls(VersionCalls)
  BY <1>5, BucketsKinds
<1>. QED BY <1>4, <1>6, <1>7

LEMMA LcUserStep ==
  ASSUME CallsOK, BucketsInv, page' = page, bp' = bp, vm' = vm,
         LifecycleUser \/ (page = "buckets" /\ \E b \in Bucket : lc.bucket = None /\ lc' = FreshLifecycle(b) /\ Send("lifecycle", b))
  PROVE  ModalGoal
<1>1. page = "buckets"
  BY DEF LifecycleUser, Toggle, AddRule, SaveLifecycle, CanSave, CloseLifecycle, RemoveRule, UpdateRule,
         LcIdle, BucketsInv, LcInv
<1>2. ASSUME NEW en, NEW ru, LcEdit(en, ru) PROVE ModalGoal
  <2>1. lc' = [lc EXCEPT !.enabled = en, !.rules = ru, !.touched = TRUE] /\ calls' = calls
    BY <1>2 DEF LcEdit, LcDo, Quiet
  <2>2. DOMAIN lc' = LcFields /\ lc'.loading = lc.loading /\ lc'.saving = lc.saving /\ lc'.bucket = lc.bucket
    BY <2>1 DEF BucketsInv, LcInv, LcFields
  <2>3. CallStep(BucketsCalls) /\ \A K : SameCalls(K)
    BY <2>1, QuietOK, SameQuiet
  <2>4. OpenSaves' = OpenSaves /\ Mine({"lifecycle"})' = Mine({"lifecycle"})
    BY <2>1, QuietEffect DEF OpenSaves
  <2>5. LcInv'
    BY <1>1, <2>2, <2>4 DEF BucketsInv, LcInv
  <2>. QED BY <1>1, <2>3, <2>5, LcOnly
<1>3. CASE Toggle
  BY <1>2, <1>3 DEF Toggle
<1>4. CASE AddRule
  BY <1>2, <1>4 DEF AddRule
<1>5. ASSUME NEW i, RemoveRule(i) PROVE ModalGoal
  <2>1. \E en, ru : LcEdit(en, ru)
    BY <1>5, Zenon DEF RemoveRule
  <2>. QED BY <1>2, <2>1
<1>6. ASSUME NEW i, NEW rule, UpdateRule(i, rule) PROVE ModalGoal
  BY <1>2, <1>6 DEF UpdateRule
<1>7. CASE SaveLifecycle
  <2>1. PICK k, w : /\ k \in LcCalls /\ Send(k, w) /\ lc' = [lc EXCEPT !.saving = TRUE]
                    /\ w = [bucket |-> lc.bucket, rules |-> lc.rules, form |-> lc, closed |-> FALSE]
                    /\ lc.bucket # None /\ ~lc.saving
    <3>1. PICK k : k = IF lc.enabled /\ lc.rules # <<>> THEN "putLifecycle" ELSE "dropLifecycle"
      OBVIOUS
    <3>2. k \in LcCalls
      BY <3>1 DEF LcCalls
    <3>3. PICK w : w = [bucket |-> lc.bucket, rules |-> lc.rules, form |-> lc, closed |-> FALSE]
      OBVIOUS
    <3>4. Send(k, w) /\ lc' = [lc EXCEPT !.saving = TRUE] /\ lc.bucket # None /\ ~lc.saving
      BY <1>7, <3>1, <3>3, Zenon DEF SaveLifecycle, CanSave, LcIdle, LcDo
    <3>. QED BY <3>2, <3>3, <3>4
  <2>2. DOMAIN lc' = LcFields /\ lc'.loading = lc.loading /\ lc'.saving = TRUE /\ lc'.bucket = lc.bucket
    BY <2>1 DEF BucketsInv, LcInv, LcFields
  <2>3. k \in Kind /\ k \in BucketsCalls /\ k \notin BpCalls /\ k \notin VersionCalls
    BY <2>1, BucketsKinds
  <2>4. ArgOK(Call(k, w)) /\ w.closed = FALSE
    <3>1. PICK c : c = Call(k, w)
      OBVIOUS
    <3>2. c.kind = k /\ c.arg = w
      BY <3>1 DEF Call, CallAs
    <3>3. w = [bucket |-> w.bucket, rules |-> w.rules, form |-> w.form, closed |-> w.closed] /\ w.closed = FALSE
      BY <2>1
    <3>4. ArgOK(c)
      BY <2>1, <3>2, <3>3 DEF ArgOK, LcCalls
    <3>. QED BY <3>1, <3>3, <3>4
  <2>5. CallStep(BucketsCalls) /\ SameCalls(BpCalls) /\ SameCalls(VersionCalls)
    BY <2>1, <2>3, <2>4, SendOK, BucketsKinds
  <2>6. PICK n \in Slot :
               /\ calls'[n].kind = k /\ calls'[n].arg = w
               /\ \A m \in Slot \ {n} : calls'[m] = calls[m]
               /\ \A K : n \notin Mine(K)
               /\ \A K : Mine(K)' = IF k \in K THEN Mine(K) \union {n} ELSE Mine(K)
    BY <2>1, <2>3, <2>4, SendOK
  <2>7. Mine({"lifecycle"})' = Mine({"lifecycle"})
    BY <2>1, <2>6 DEF LcCalls
  <2>8. OpenSaves' = {n}
    <3>1. OpenSaves = {}
      BY <1>1, <2>1 DEF BucketsInv, LcInv, One
    <3>2. Mine(LcCalls)' = Mine(LcCalls) \union {n} /\ Mine(LcCalls) \subseteq Slot \ {n}
      BY <2>1, <2>6, MineSets
    <3>3. \A m \in Mine(LcCalls) : calls'[m] = calls[m]
      BY <2>6, <3>2
    <3>. QED BY <2>4, <2>6, <3>1, <3>2, <3>3 DEF OpenSaves
  <2>9. LcInv'
    BY <1>1, <2>1, <2>2, <2>7, <2>8 DEF BucketsInv, LcInv, One
  <2>. QED BY <1>1, <2>5, <2>9, LcOnly
<1>8. CASE CloseLifecycle
  <2>1. lc' = FreshLifecycle(None)
    BY <1>8 DEF CloseLifecycle, LcDo
  <2>2. DOMAIN lc' = LcFields /\ lc'.loading = FALSE /\ lc'.saving = FALSE /\ lc'.bucket = None
    BY <2>1 DEF FreshLifecycle, LcFields
  <2>3. calls' = [m \in Slot |->
                   CASE calls[m].kind = "lifecycle" -> NoCall
                     [] calls[m].kind \in LcCalls   -> Shut(calls[m])
                     [] OTHER                       -> calls[m]]
    BY <1>8, Zenon DEF CloseLifecycle, Shut
  <2>4. /\ calls' = [m \in Slot |-> calls'[m]]
        /\ \A m \in Slot : calls[m].kind = "lifecycle" => calls'[m] = NoCall
        /\ \A m \in Slot : calls[m].kind \in LcCalls => calls'[m] = Shut(calls[m])
        /\ \A m \in Slot : calls[m].kind \notin LifecycleCalls => calls'[m] = calls[m]
    BY <2>3 DEF LcCalls, LifecycleCalls
  <2>5. PICK X : X = {}
    OBVIOUS
  <2>6. CallStep(BucketsCalls) /\ SameCalls(BpCalls) /\ SameCalls(VersionCalls) /\ OpenSaves' = {}
    <3>1. /\ \A m \in Slot : m \in X => calls[m].kind \in LcCalls
          /\ \A m \in Slot : m \in X \/ calls[m].kind = "lifecycle" => calls'[m] = NoCall
          /\ \A m \in Slot \ X : calls[m].kind \in LcCalls => calls'[m] = Shut(calls[m])
      BY <2>4, <2>5
    <3>. QED BY <1>1, <2>4, <3>1, ShutEffect
  <2>7. LcInv'
    BY <2>2, <2>6 DEF LcInv, One
  <2>. QED BY <1>1, <2>6, <2>7, LcOnly
<1>9. ASSUME NEW b \in Bucket, lc.bucket = None, lc' = FreshLifecycle(b), Send("lifecycle", b) PROVE ModalGoal
  <2>1. DOMAIN lc' = LcFields /\ lc'.loading \in BOOLEAN /\ lc'.saving = FALSE /\ lc'.bucket # None
    BY <1>9, BrowserAssumption DEF FreshLifecycle, LcFields
  <2>2. "lifecycle" \in Kind \ (LcCalls \union {"versions"}) /\ "lifecycle" \in BucketsCalls
        /\ "lifecycle" \notin BpCalls /\ "lifecycle" \notin VersionCalls
    BY BucketsKinds DEF LcCalls, BucketsCalls, BpCalls, VersionCalls
  <2>3. ArgOK(Call("lifecycle", b))
    BY <2>2, PlainArg
  <2>4. CallStep(BucketsCalls) /\ SameCalls(BpCalls) /\ SameCalls(VersionCalls)
    BY <1>9, <2>2, <2>3, SendOK, BucketsKinds
  <2>5. PICK n \in Slot :
               /\ \A m \in Slot \ {n} : calls'[m] = calls[m]
               /\ \A K : n \notin Mine(K)
               /\ \A K : Mine(K)' = IF "lifecycle" \in K THEN Mine(K) \union {n} ELSE Mine(K)
    BY <1>9, <2>2, <2>3, SendOK
  <2>6. Mine({"lifecycle"})' # {}
    BY <2>5
  <2>7. OpenSaves' = {}
    <3>1. OpenSaves = {}
      BY <1>1, <1>9 DEF BucketsInv, LcInv, One
    <3>2. Mine(LcCalls)' = Mine(LcCalls) /\ Mine(LcCalls) \subseteq Slot \ {n}
      BY <2>2, <2>5, MineSets
    <3>3. \A m \in Mine(LcCalls) : calls'[m] = calls[m]
      BY <2>5, <3>2
    <3>. QED BY <3>1, <3>2, <3>3 DEF OpenSaves
  <2>8. LcInv'
    BY <1>1, <2>1, <2>6, <2>7 DEF LcInv, One
  <2>. QED BY <1>1, <2>4, <2>8, LcOnly
<1>. QED
  BY <1>3, <1>4, <1>5, <1>6, <1>7, <1>8, <1>9 DEF LifecycleUser

LEMMA LcAnswerStep ==
  ASSUME CallsOK, BucketsInv, page = "buckets", page' = page, NEW n \in Slot,
         LifecycleAnswer(n), bp' = bp, vm' = vm
  PROVE  ModalGoal
<1>1. ASSUME Forget(n), n \in Mine(LifecycleCalls), DOMAIN lc' = LcFields,
             lc'.loading \in BOOLEAN, lc'.saving \in BOOLEAN,
             lc'.bucket = lc.bucket,
             lc.bucket = None => ~lc'.loading /\ ~lc'.saving,
             lc'.loading => lc.loading /\ n \notin Mine({"lifecycle"}),
             One(lc'.saving, OpenSaves \ {n})
      PROVE  ModalGoal
  <2>1. calls[n].kind \notin BpCalls /\ calls[n].kind \notin VersionCalls
    BY <1>1, BucketsKinds DEF Mine
  <2>2. /\ CallStep(BucketsCalls) /\ \A K : Mine(K)' = Mine(K) \ {n}
        /\ \A K \in SUBSET Kind : calls[n].kind \notin K => SameCalls(K)
        /\ \A m \in Slot \ {n} : calls'[m] = calls[m]
    BY <1>1, BucketsForget
  <2>3. SameCalls(BpCalls) /\ SameCalls(VersionCalls)
    <3>1. BpCalls \in SUBSET Kind /\ VersionCalls \in SUBSET Kind
      BY BucketsKinds
    <3>. QED BY <2>1, <2>2, <3>1
  <2>4. lc'.loading => Mine({"lifecycle"})' # {}
    BY <1>1, <2>2 DEF BucketsInv, LcInv
  <2>5. OpenSaves' = OpenSaves \ {n}
    <3>1. Mine(LcCalls)' = Mine(LcCalls) \ {n} /\ Mine(LcCalls) \subseteq Slot
      BY <2>2, MineSets
    <3>2. \A m \in Mine(LcCalls) \ {n} : calls'[m] = calls[m]
      BY <2>2, <3>1
    <3>. QED BY <3>1, <3>2 DEF OpenSaves
  <2>6. LcInv'
    BY <1>1, <2>4, <2>5 DEF BucketsInv, LcInv
  <2>. QED BY <1>1, <2>2, <2>3, <2>6, LcOnly
<1>2. DOMAIN lc = LcFields /\ One(lc.saving, OpenSaves) /\ lc.saving \in BOOLEAN /\ lc.loading \in BOOLEAN
      /\ (lc.bucket = None => ~lc.loading /\ ~lc.saving)
  BY DEF BucketsInv, LcInv
<1>3. CASE LifecycleLoaded(n) \/ LifecycleFails(n)
  <2>1. DOMAIN lc' = LcFields /\ lc'.loading = FALSE /\ lc'.saving = lc.saving /\ lc'.bucket = lc.bucket
    <3>2. ASSUME lc' = [lc EXCEPT !.loading = FALSE, !.enabled = FALSE, !.rules = <<>>, !.read = "failed"]
          PROVE  DOMAIN lc' = LcFields /\ lc'.loading = FALSE /\ lc'.saving = lc.saving /\ lc'.bucket = lc.bucket
      BY <1>2, <3>2 DEF LcFields
    <3>3. ASSUME LifecycleLoaded(n)
          PROVE  \E e, g, r, d :
              lc' = [lc EXCEPT !.loading = FALSE, !.enabled = e, !.got = g, !.rules = r, !.read = d]
      <4>. DEFINE answer == calls[n].answer
                  legible == \A i \in DOMAIN answer : answer[i].noncurrent # 0
      <4>1. PICK e, g, r, d : /\ e = legible /\ g = answer /\ d = IF legible THEN "ok" ELSE "failed"
                              /\ r = IF legible THEN [i \in DOMAIN answer |-> ReadRule(answer[i])] ELSE <<>>
        OBVIOUS
      <4>2. lc' = [lc EXCEPT !.loading = FALSE, !.enabled = e, !.got = g, !.rules = r, !.read = d]
        BY <3>3, <4>1, Zenon DEF LifecycleLoaded, LcThen
      <4>. QED BY <4>2
    <3>4. LifecycleFails(n) => lc' = [lc EXCEPT !.loading = FALSE, !.enabled = FALSE, !.rules = <<>>, !.read = "failed"]
      BY Zenon DEF LifecycleFails, LcThen
    <3>5. CASE LifecycleLoaded(n)
      <4>1. PICK e, g, r, d :
                lc' = [lc EXCEPT !.loading = FALSE, !.enabled = e, !.got = g, !.rules = r, !.read = d]
        BY <3>3, <3>5, Zenon
      <4>2. DOMAIN lc' = LcFields
        BY <1>2, <4>1 DEF LcFields
      <4>3. lc'.loading = FALSE /\ lc'.saving = lc.saving /\ lc'.bucket = lc.bucket
        BY <1>2, <4>1 DEF LcFields
      <4>. QED BY <4>2, <4>3
    <3>6. CASE LifecycleFails(n)
      BY <3>2, <3>4, <3>6
    <3>. QED BY <1>3, <3>5, <3>6
  <2>2. n \in Mine({"lifecycle"}) /\ Forget(n)
    BY <1>3 DEF LifecycleLoaded, LifecycleFails, Answered, Failing
  <2>3. n \in Mine(LifecycleCalls) /\ n \notin OpenSaves
    BY <2>2 DEF Mine, OpenSaves, LifecycleCalls, LcCalls
  <2>4. One(lc'.saving, OpenSaves \ {n})
    <3>1. OpenSaves \ {n} = OpenSaves
      BY <2>3
    <3>. QED BY <1>2, <2>1, <3>1
  <2>. QED BY <1>1, <1>2, <2>1, <2>2, <2>3, <2>4
<1>4. CASE LifecycleSaved(n)
  <2>1. DOMAIN lc' = LcFields /\ lc'.loading = FALSE /\ lc'.saving = FALSE /\ lc'.bucket = None
    BY <1>4 DEF LifecycleSaved, LcThen, FreshLifecycle, LcFields
  <2>2. n \in Mine(LcCalls) /\ calls[n].kind \in LcCalls
    BY <1>4 DEF LifecycleSaved, Answered, Mine
  <2>3. calls' = [m \in Slot |->
                   IF m = n \/ calls[m].kind = "lifecycle" THEN NoCall
                   ELSE IF calls[m].kind \in LcCalls THEN Shut(calls[m])
                   ELSE calls[m]]
    BY <1>4, Zenon DEF LifecycleSaved, Shut
  <2>4. PICK X : X = {n}
    OBVIOUS
  <2>5. /\ calls' = [m \in Slot |-> calls'[m]]
        /\ \A m \in Slot : m \in X \/ calls[m].kind = "lifecycle" => calls'[m] = NoCall
        /\ \A m \in Slot \ X : calls[m].kind \in LcCalls => calls'[m] = Shut(calls[m])
        /\ \A m \in Slot : calls[m].kind \notin LifecycleCalls => calls'[m] = calls[m]
    <3>1. /\ calls' = [m \in Slot |-> calls'[m]]
          /\ \A m \in Slot : m = n \/ calls[m].kind = "lifecycle" => calls'[m] = NoCall
      BY <2>3
    <3>2. \A m \in Slot : m # n /\ calls[m].kind \in LcCalls => calls'[m] = Shut(calls[m])
      BY <2>3 DEF LcCalls
    <3>3. \A m \in Slot : m # n /\ calls[m].kind # "lifecycle" /\ calls[m].kind \notin LcCalls => calls'[m] = calls[m]
      BY <2>3 DEF LcCalls
    <3>4. \A m \in Slot : calls[m].kind \notin LifecycleCalls => calls'[m] = calls[m]
      BY <2>2, <3>3 DEF LifecycleCalls, LcCalls
    <3>. QED BY <2>4, <3>1, <3>2, <3>4
  <2>6. \A m \in Slot : m \in X => calls[m].kind \in LcCalls
    BY <2>2, <2>4
  <2>7. CallStep(BucketsCalls) /\ SameCalls(BpCalls) /\ SameCalls(VersionCalls) /\ OpenSaves' = {}
    BY <2>5, <2>6, ShutEffect
  <2>8. LcInv'
    BY <2>1, <2>7 DEF LcInv, One
  <2>. QED BY <2>7, <2>8, LcOnly
<1>5. CASE SaveFails(n)
  <2>1. /\ n \in Mine(LcCalls) /\ Forget(n)
        /\ lc' = IF calls[n].arg.closed THEN lc ELSE [lc EXCEPT !.saving = FALSE]
    BY <1>5 DEF SaveFails, Failing, LcThen
  <2>2. n \in Mine(LifecycleCalls) /\ n \notin Mine({"lifecycle"})
    BY <2>1 DEF Mine, LifecycleCalls, LcCalls
  <2>3. CASE calls[n].arg.closed
    <3>1. lc' = lc /\ n \notin OpenSaves
      BY <2>1, <2>3 DEF OpenSaves
    <3>2. OpenSaves \ {n} = OpenSaves
      BY <3>1
    <3>3. One(lc'.saving, OpenSaves \ {n})
      BY <1>2, <3>1, <3>2
    <3>. QED BY <1>1, <1>2, <2>1, <2>2, <3>1, <3>3
  <2>4. CASE ~calls[n].arg.closed
    <3>1. lc' = [lc EXCEPT !.saving = FALSE] /\ n \in OpenSaves
      BY <2>1, <2>4 DEF OpenSaves
    <3>2. DOMAIN lc' = LcFields /\ lc'.loading = lc.loading /\ lc'.saving = FALSE /\ lc'.bucket = lc.bucket
      BY <1>2, <3>1 DEF LcFields
    <3>3. One(lc'.saving, OpenSaves \ {n})
      <4>1. OpenSaves = {n}
        BY <1>2, <3>1 DEF One
      <4>. QED BY <3>2, <4>1 DEF One
    <3>. QED BY <1>1, <1>2, <2>1, <2>2, <3>2, <3>3
  <2>. QED BY <2>3, <2>4
<1>. QED BY <1>3, <1>4, <1>5 DEF LifecycleAnswer, LifecycleFailing

\* A call of the dialog of the versions is sent.
LEMMA VmSend ==
  ASSUME CallsOK, NEW k \in VersionCalls, NEW w, Send(k, w),
         k = "versions" => w = [bucket |-> w.bucket, then |-> w.then]
  PROVE  /\ CallStep(BucketsCalls) /\ SameCalls(BpCalls) /\ SameCalls(LifecycleCalls)
         /\ \E n \in Slot :
               /\ \A K : Mine(K)' = IF k \in K THEN Mine(K) \union {n} ELSE Mine(K)
               /\ Deletions \subseteq Deletions'
               /\ k = "deleteObject" => n \in Deletions'
<1>1. k \in Kind /\ k \in BucketsCalls /\ k \notin BpCalls /\ k \notin LifecycleCalls /\ k \notin LcCalls
  BY BucketsKinds
<1>2. ArgOK(Call(k, w))
  <2>1. PICK c : c = Call(k, w)
    OBVIOUS
  <2>2. c.kind = k /\ c.arg = w
    BY <2>1 DEF Call, CallAs
  <2>3. ArgOK(c)
    BY <1>1, <2>2 DEF ArgOK
  <2>. QED BY <2>1, <2>3
<1>3. CallStep(BucketsCalls) /\ SameCalls(BpCalls) /\ SameCalls(LifecycleCalls)
  BY <1>1, <1>2, SendOK, BucketsKinds
<1>4. PICK n \in Slot :
            /\ calls'[n].kind = k
            /\ \A m \in Slot \ {n} : calls'[m] = calls[m]
            /\ \A K : n \notin Mine(K)
            /\ \A K : Mine(K)' = IF k \in K THEN Mine(K) \union {n} ELSE Mine(K)
  BY <1>1, <1>2, SendOK
<1>5. Mine(VersionCalls)' = Mine(VersionCalls) \union {n} /\ Mine(VersionCalls) \subseteq Slot \ {n}
  BY <1>4, MineSets
<1>6. \A m \in Mine(VersionCalls) : calls'[m] = calls[m]
  BY <1>4, <1>5
<1>7. Deletions \subseteq Deletions' /\ (k = "deleteObject" => n \in Deletions')
  BY <1>4, <1>5, <1>6 DEF Deletions
<1>. QED BY <1>3, <1>4, <1>7

LEMMA VmUserStep ==
  ASSUME CallsOK, BucketsInv, page' = page, bp' = bp, lc' = lc,
         \/ VersionUser
         \/ /\ page = "buckets" /\ vm.of = None
            /\ \E b : b # None /\ vm' = FreshVersions(b) /\ Send("versions", [bucket |-> b, then |-> "none"])
  PROVE  VersionsGoal
<1>1. page = "buckets"
  BY DEF VersionUser, RetryVersions, CloseVersions, DeleteVersion, VmIdle, BucketsInv, VmInv
<1>2. /\ DOMAIN vm = VmFields /\ vm.loading \in BOOLEAN /\ (vm.of = None => ~vm.loading /\ vm.deleting = None)
      /\ (vm.of = None => Mine(VersionCalls) = {})
      /\ (vm.loading => Mine({"versions"}) # {}) /\ (vm.deleting # None => Deletions # {})
  BY <1>1 DEF BucketsInv, VmInv
<1>3. "versions" \in VersionCalls /\ "deleteObject" \in VersionCalls
  BY DEF VersionCalls
<1>4. CASE RetryVersions
  <2>1. PICK w : /\ w = [bucket |-> vm.of, then |-> "none"] /\ Send("versions", w)
                 /\ vm' = VmLoading(vm) /\ vm.of # None
    BY <1>4, Zenon DEF RetryVersions, VmDo, VmQuery, VmIdle
  <2>2. DOMAIN vm' = VmFields /\ vm'.loading = TRUE /\ vm'.of = vm.of /\ vm'.deleting = vm.deleting
    BY <1>2, <2>1 DEF VmLoading, VmFields
  <2>3. w = [bucket |-> w.bucket, then |-> w.then]
    BY <2>1
  <2>4. CallStep(BucketsCalls) /\ SameCalls(BpCalls) /\ SameCalls(LifecycleCalls)
    BY <1>3, <2>1, <2>3, VmSend
  <2>5. PICK n \in Slot : /\ \A K : Mine(K)' = IF "versions" \in K THEN Mine(K) \union {n} ELSE Mine(K)
                          /\ Deletions \subseteq Deletions'
    BY <1>3, <2>1, <2>3, VmSend, Zenon
  <2>6. Mine({"versions"})' # {} /\ Deletions \subseteq Deletions'
    BY <2>5
  <2>7. VmInv'
    BY <1>1, <1>2, <2>1, <2>2, <2>6 DEF VmInv
  <2>. QED BY <1>1, <2>4, <2>7, VmOnly
<1>5. ASSUME NEW i, DeleteVersion(i) PROVE VersionsGoal
  <2>1. PICK w, d : Send("deleteObject", w) /\ vm' = [vm EXCEPT !.deleting = d] /\ vm.of # None
    BY <1>5, Zenon DEF DeleteVersion, VmDo, VmIdle
  <2>2. DOMAIN vm' = VmFields /\ vm'.loading = vm.loading /\ vm'.of = vm.of
    BY <1>2, <2>1 DEF VmFields
  <2>3. CallStep(BucketsCalls) /\ SameCalls(BpCalls) /\ SameCalls(LifecycleCalls)
    BY <1>3, <2>1, VmSend
  <2>4. \E n : /\ \A K : Mine(K)' = IF "deleteObject" \in K THEN Mine(K) \union {n} ELSE Mine(K)
               /\ n \in Deletions'
    BY <1>3, <2>1, VmSend
  <2>5. Mine({"versions"})' = Mine({"versions"}) /\ Deletions' # {}
    BY <2>4
  <2>6. VmInv'
    BY <1>1, <1>2, <2>1, <2>2, <2>5 DEF VmInv
  <2>. QED BY <1>1, <2>3, <2>6, VmOnly
<1>6. CASE CloseVersions
  <2>1. vm' = FreshVersions(None)
    BY <1>6 DEF CloseVersions, VmDo
  <2>2. DOMAIN vm' = VmFields /\ vm'.loading = FALSE /\ vm'.of = None /\ vm'.deleting = None
    BY <2>1 DEF FreshVersions, VmFields
  <2>3. calls' = [m \in Slot |->
                   CASE calls[m].kind = "versions" -> NoCall
                     [] calls[m].kind = "deleteObject" -> Left(calls[m])
                     [] OTHER -> calls[m]]
    BY <1>6 DEF CloseVersions
  <2>4. /\ calls' = [m \in Slot |-> calls'[m]]
        /\ \A m \in Slot : calls[m].kind = "versions" => calls'[m] = NoCall
        /\ \A m \in Slot : calls[m].kind = "deleteObject" => calls'[m] = Left(calls[m])
        /\ \A m \in Slot : calls[m].kind \notin VersionCalls => calls'[m] = calls[m]
    BY <2>3 DEF VersionCalls
  <2>5. ASSUME NEW m \in Slot, calls[m].kind \in VersionCalls
        PROVE  /\ IsCall(calls'[m])
               /\ calls'[m] = NoCall \/ (calls'[m].gone /\ calls'[m].kind = calls[m].kind)
    <3>1. CASE calls[m].kind = "versions"
      BY <2>4, <3>1 DEF IsCall
    <3>2. CASE calls[m].kind = "deleteObject"
      <4>1. PICK c : c = calls[m]
        OBVIOUS
      <4>2. IsCall(c) /\ c.kind # "logout" /\ calls'[m] = Left(c)
        BY <2>4, <3>2, <4>1 DEF CallsOK, Calls
      <4>. QED BY <4>1, <4>2, LeftEffect
    <3>. QED BY <2>5, <3>1, <3>2 DEF VersionCalls
  <2>6. Calls'
    BY <2>4, <2>5 DEF Calls, CallsOK
  <2>7. CallStep(BucketsCalls)
    BY <2>4, <2>5, <2>6, BucketsKinds DEF CallStep
  <2>8. ASSUME NEW K, K \subseteq Kind, K \intersect VersionCalls = {} PROVE SameCalls(K)
    BY <2>4, <2>5, <2>8, Kinds DEF SameCalls
  <2>9. Mine(VersionCalls)' = {}
    <3>1. Mine(VersionCalls)' = {m \in Slot : calls'[m] # NoCall /\ calls'[m].kind \in VersionCalls /\ ~calls'[m].gone}
      BY <2>6, CallsKindNext
    <3>. QED BY <2>4, <2>5, <3>1
  <2>10. VmInv'
    BY <2>2, <2>9 DEF VmInv
  <2>11. SameCalls(BpCalls) /\ SameCalls(LifecycleCalls)
    BY <2>8, BucketsKinds
  <2>. QED BY <1>1, <2>7, <2>10, <2>11, VmOnly
<1>7. ASSUME NEW b, b # None, vm' = FreshVersions(b), Send("versions", [bucket |-> b, then |-> "none"])
      PROVE  VersionsGoal
  <2>1. DOMAIN vm' = VmFields /\ vm'.loading \in BOOLEAN /\ vm'.of # None /\ vm'.deleting = None
    BY <1>7 DEF FreshVersions, VmFields
  <2>2. PICK w : w = [bucket |-> b, then |-> "none"] /\ Send("versions", w)
    BY <1>7
  <2>3. w = [bucket |-> w.bucket, then |-> w.then]
    BY <2>2
  <2>4. CallStep(BucketsCalls) /\ SameCalls(BpCalls) /\ SameCalls(LifecycleCalls)
    BY <1>3, <2>2, <2>3, VmSend
  <2>5. PICK n \in Slot : /\ \A K : Mine(K)' = IF "versions" \in K THEN Mine(K) \union {n} ELSE Mine(K)
                          /\ Deletions \subseteq Deletions'
    <3>1. /\ Send("versions", w) /\ "versions" \in VersionCalls
          /\ "versions" = "versions" => w = [bucket |-> w.bucket, then |-> w.then]
      BY <1>3, <2>2, <2>3
    <3>. QED BY <3>1, VmSend
  <2>6. Mine({"versions"})' # {}
    BY <2>5
  <2>7. VmInv'
    BY <1>1, <2>1, <2>6 DEF VmInv
  <2>. QED BY <1>1, <2>4, <2>7, VmOnly
<1>. QED BY <1>4, <1>5, <1>6, <1>7 DEF VersionUser

LEMMA VmAnswerStep ==
  ASSUME CallsOK, BucketsInv, page = "buckets", page' = page, NEW n \in Slot,
         VersionAnswer(n), bp' = bp, lc' = lc
  PROVE  VersionsGoal
<1>1. /\ DOMAIN vm = VmFields /\ vm.loading \in BOOLEAN /\ (vm.of = None => ~vm.loading /\ vm.deleting = None)
      /\ (vm.of = None => Mine(VersionCalls) = {})
      /\ (vm.loading => Mine({"versions"}) # {}) /\ (vm.deleting # None => Deletions # {})
  BY DEF BucketsInv, VmInv
<1>2. ASSUME Forget(n), n \in Mine(VersionCalls), DOMAIN vm' = VmFields, vm'.loading \in BOOLEAN,
             vm'.of = vm.of, vm'.loading => vm.loading /\ n \notin Mine({"versions"}),
             vm'.deleting # None => vm'.deleting = vm.deleting /\ n \notin Deletions
      PROVE  VersionsGoal
  <2>1. calls[n].kind \notin BpCalls /\ calls[n].kind \notin LifecycleCalls
    BY <1>2, BucketsKinds DEF Mine
  <2>2. /\ CallStep(BucketsCalls) /\ \A K : Mine(K)' = Mine(K) \ {n}
        /\ \A K \in SUBSET Kind : calls[n].kind \notin K => SameCalls(K)
        /\ \A m \in Slot \ {n} : calls'[m] = calls[m]
    BY <1>2, BucketsForget
  <2>3. SameCalls(BpCalls) /\ SameCalls(LifecycleCalls)
    <3>1. BpCalls \in SUBSET Kind /\ LifecycleCalls \in SUBSET Kind
      BY BucketsKinds
    <3>. QED BY <2>1, <2>2, <3>1
  <2>4. vm'.loading => Mine({"versions"})' # {}
    BY <1>1, <1>2, <2>2
  <2>5. Deletions' = Deletions \ {n}
    <3>1. Mine(VersionCalls)' = Mine(VersionCalls) \ {n} /\ Mine(VersionCalls) \subseteq Slot
      BY <2>2, MineSets
    <3>2. \A m \in Mine(VersionCalls) \ {n} : calls'[m] = calls[m]
      BY <2>2, <3>1
    <3>. QED BY <3>1, <3>2 DEF Deletions
  <2>6. Mine(VersionCalls)' \subseteq Mine(VersionCalls)
    BY <2>2
  <2>7. VmInv'
    BY <1>1, <1>2, <2>4, <2>5, <2>6 DEF VmInv
  <2>. QED BY <1>2, <2>2, <2>3, <2>7, VmOnly
<1>3. CASE VersionDeletedOk(n)
  <2>1. PICK ui, w :
             /\ ui = [vm EXCEPT !.alerted = @ \union {calls[n].arg.id}] /\ vm' = VmLoading(ui)
             /\ w = [bucket |-> vm.of, then |-> "delete"] /\ Put(n, Call("versions", w))
             /\ n \in Mine({"deleteObject"})
    BY <1>3, Zenon DEF VersionDeletedOk, VmThen, VmQuery, Answered
  <2>2. DOMAIN ui = VmFields /\ ui.of = vm.of
    BY <1>1, <2>1 DEF VmFields
  <2>3. DOMAIN vm' = VmFields /\ vm'.loading = TRUE /\ vm'.of = ui.of
    BY <2>1, <2>2 DEF VmLoading, VmFields
  <2>4. vm.of # None /\ calls[n].kind = "deleteObject"
    <3>1. n \in Mine(VersionCalls) /\ calls[n].kind = "deleteObject"
      BY <2>1 DEF Mine, VersionCalls
    <3>. QED BY <1>1, <3>1
  <2>5. "versions" \in Kind /\ "versions" \in BucketsCalls /\ "versions" \notin BpCalls \union LifecycleCalls
        /\ "deleteObject" \notin BpCalls \union LifecycleCalls
    BY BucketsKinds DEF VersionCalls
  <2>6. ArgOK(Call("versions", w))
    <3>1. PICK c : c = Call("versions", w)
      OBVIOUS
    <3>2. c.kind = "versions" /\ c.arg = w
      BY <3>1 DEF Call, CallAs
    <3>3. w = [bucket |-> w.bucket, then |-> w.then]
      BY <2>1
    <3>4. ArgOK(c)
      BY <3>2, <3>3 DEF ArgOK, LcCalls
    <3>. QED BY <3>1, <3>4
  <2>7. /\ CallStep(BucketsCalls) /\ SameCalls(BpCalls) /\ SameCalls(LifecycleCalls)
        /\ calls'[n].arg = w
        /\ \A K : Mine(K)' = IF "versions" \in K THEN Mine(K) \union {n} ELSE Mine(K) \ {n}
    BY <2>1, <2>4, <2>5, <2>6, FollowOK
  <2>8. Mine({"versions"})' # {} /\ n \in Mine(VersionCalls)'
    BY <2>7 DEF VersionCalls
  <2>9. n \in Deletions'
    BY <2>1, <2>7, <2>8 DEF Deletions
  <2>10. VmInv'
    BY <2>2, <2>3, <2>4, <2>8, <2>9 DEF VmInv
  <2>. QED BY <2>7, <2>10, VmOnly
<1>4. CASE VersionDeleteFails(n)
  <2>1. Forget(n) /\ n \in Mine({"deleteObject"}) /\ vm' = [vm EXCEPT !.deleting = None]
    BY <1>4 DEF VersionDeleteFails, Failing, VmThen
  <2>2. DOMAIN vm' = VmFields /\ vm'.loading = vm.loading /\ vm'.of = vm.of /\ vm'.deleting = None
    BY <1>1, <2>1 DEF VmFields
  <2>3. n \in Mine(VersionCalls) /\ n \notin Mine({"versions"})
    BY <2>1 DEF Mine, VersionCalls
  <2>. QED BY <1>1, <1>2, <2>1, <2>2, <2>3
<1>5. CASE VersionsLoaded(n) \/ VersionsFail(n)
  <2>1. PICK ui : /\ DOMAIN ui = VmFields /\ ui.loading = FALSE /\ ui.of = vm.of /\ ui.deleting = vm.deleting
                  /\ vm' = VmSettled(ui, n)
    <3>1. CASE VersionsLoaded(n)
      <4>1. PICK ui : ui = [vm EXCEPT !.versions = calls[n].answer, !.loading = FALSE]
        OBVIOUS
      <4>2. DOMAIN ui = VmFields /\ ui.loading = FALSE /\ ui.of = vm.of /\ ui.deleting = vm.deleting
        BY <1>1, <4>1 DEF VmFields
      <4>3. vm' = VmSettled(ui, n)
        BY <3>1, <4>1, Zenon DEF VersionsLoaded, VmThen
      <4>. QED BY <4>2, <4>3
    <3>2. CASE VersionsFail(n)
      <4>1. PICK ui : ui = [vm EXCEPT !.error = TRUE, !.loading = FALSE]
        OBVIOUS
      <4>2. DOMAIN ui = VmFields /\ ui.loading = FALSE /\ ui.of = vm.of /\ ui.deleting = vm.deleting
        BY <1>1, <4>1 DEF VmFields
      <4>3. vm' = VmSettled(ui, n)
        BY <3>2, <4>1, Zenon DEF VersionsFail, VmThen
      <4>. QED BY <4>2, <4>3
    <3>. QED BY <1>5, <3>1, <3>2
  <2>2. n \in Mine({"versions"}) /\ Forget(n)
    BY <1>5, Zenon DEF VersionsLoaded, VersionsFail, Answered, Failing
  <2>3. n \in Mine(VersionCalls) /\ calls[n].kind = "versions"
    BY <2>2 DEF Mine, VersionCalls
  <2>4. CASE calls[n].arg.then = "delete"
    <3>1. vm' = [ui EXCEPT !.deleting = None]
      BY <2>1, <2>4 DEF VmSettled
    <3>2. DOMAIN vm' = VmFields /\ vm'.loading = FALSE /\ vm'.of = vm.of /\ vm'.deleting = None
      BY <2>1, <3>1 DEF VmFields
    <3>. QED BY <1>2, <2>2, <2>3, <3>2
  <2>5. CASE calls[n].arg.then # "delete"
    <3>1. vm' = ui
      BY <2>1, <2>5 DEF VmSettled
    <3>2. n \notin Deletions
      BY <2>3, <2>5 DEF Deletions
    <3>. QED BY <1>2, <2>1, <2>2, <2>3, <3>1, <3>2
  <2>. QED BY <2>4, <2>5
<1>. QED BY <1>3, <1>4, <1>5 DEF VersionAnswer, VersionFails

\* What the user or an answer does to the page of the buckets.
LEMMA BucketsStep ==
  ASSUME CallsOK, BucketsInv, OnBuckets
  PROVE  BucketsGoal
<1>1. page' = page
  BY DEF OnBuckets, whoVars
<1>2. ASSUME BucketsUser PROVE BucketsGoal
  <2>1. CASE \/ RefreshBuckets \/ OpenCreate \/ CloseCreate \/ LeaveBucket
             \/ \E b \in Bucket : SubmitBucket(b) \/ ClickDelete(b) \/ EnterBucket(b)
    <3>1. page = "buckets"
      BY <2>1, Zenon DEF RefreshBuckets, OpenCreate, CloseCreate, LeaveBucket, SubmitBucket, ClickDelete,
                         EnterBucket, BpDo
    <3>. QED BY <1>1, <2>1, <3>1, BpUserStep DEF GridGoal
  <2>2. CASE OpenVersions
    <3>1. PICK b : b = bp.inside
      OBVIOUS
    <3>2. /\ page = "buckets" /\ vm.of = None /\ b # None /\ vm' = FreshVersions(b) /\ bp' = bp /\ lc' = lc
          /\ Send("versions", [bucket |-> b, then |-> "none"])
      BY <2>2, <3>1, Zenon DEF OpenVersions
    <3>. QED BY <1>1, <3>2, VmUserStep DEF VersionsGoal
  <2>3. ASSUME NEW b \in Bucket, OpenLifecycle(b) PROVE BucketsGoal
    <3>1. /\ page = "buckets" /\ lc.bucket = None /\ lc' = FreshLifecycle(b) /\ bp' = bp /\ vm' = vm
          /\ Send("lifecycle", b)
      BY <2>3, Zenon DEF OpenLifecycle, CardOf, Uncovered
    <3>. QED BY <1>1, <3>1, LcUserStep DEF ModalGoal
  <2>4. CASE LifecycleUser /\ UNCHANGED <<bp, buckets, vm, objects>>
    BY <1>1, <2>4, LcUserStep DEF ModalGoal
  <2>5. CASE VersionUser /\ UNCHANGED <<bp, buckets, lc, config>>
    BY <1>1, <2>5, VmUserStep DEF VersionsGoal
  <2>. QED BY <1>2, <2>1, <2>2, <2>3, <2>4, <2>5 DEF BucketsUser
<1>3. ASSUME NEW n \in Slot, BucketsAnswer(n) PROVE BucketsGoal
  <2>1. page = "buckets"
    BY <1>3, BucketsAnswerPage
  <2>2. CASE \/ BucketsLoaded(n) \/ BucketsFail(n) \/ AnalyticsDone(n)
             \/ BucketCreated(n) \/ CreateFails(n) \/ BucketDeleted(n) \/ DeleteBucketFails(n)
    BY <1>1, <2>1, <2>2, BpAnswerStep DEF GridGoal
  <2>3. CASE LifecycleAnswer(n) /\ UNCHANGED <<bp, buckets, vm, objects>>
    BY <1>1, <2>1, <2>3, LcAnswerStep DEF ModalGoal
  <2>4. CASE VersionAnswer(n) /\ UNCHANGED <<bp, buckets, lc, config>>
    BY <1>1, <2>1, <2>4, VmAnswerStep DEF VersionsGoal
  <2>. QED BY <1>3, <2>2, <2>3, <2>4 DEF BucketsAnswer
<1>. QED BY <1>2, <1>3 DEF OnBuckets

LEMMA BucketsServerStep ==
  ASSUME CallsOK, BucketsInv, ServerStep, page' = page, bp' = bp, lc' = lc, vm' = vm
  PROVE  BucketsInv'
<1>1. \A K : Mine(K)' = Mine(K)
  BY ServerStepCalls
<1>2. ASSUME NEW K, NEW n \in Mine(K)
      PROVE  n \in Slot /\ calls'[n].kind = calls[n].kind /\ calls'[n].arg = calls[n].arg
  <2>1. n \in Slot /\ calls'[n] # NoCall
    BY <1>1, MineBelongs, ServerStepCalls, CallsKindNext DEF CallsOK
  <2>. QED BY <2>1, ServerStepCalls
<1>3. OpenSaves' = OpenSaves
  BY <1>1, <1>2 DEF OpenSaves
<1>4. Deletions' = Deletions
  BY <1>1, <1>2 DEF Deletions
<1>5. BpInv'
  BY <1>1 DEF BucketsInv, BpInv
<1>6. LcInv'
  BY <1>1, <1>3 DEF BucketsInv, LcInv
<1>7. VmInv'
  BY <1>1, <1>4 DEF BucketsInv, VmInv
<1>. QED BY <1>5, <1>6, <1>7 DEF BucketsInv

-----------------------------------------------------------------------------
(* Reports.tsx, and the flag of Login.tsx *)

RpFields == {"rows", "pages", "page", "bucket", "status", "term", "loading", "error", "selected",
             "options", "of", "sure", "cleaned"}

ReportsInv ==
    /\ DOMAIN rp = RpFields
    /\ page = "reports" /\ rp.loading => Mine({"logs"}) # {}
LoginInv ==
    /\ login.submitting \in BOOLEAN
    /\ page = "login" => One(login.submitting, Mine({"login"}))

\* Whatever the filters become, a listing is asked for and the page waits.
LEMMA LogsAskedStep ==
  ASSUME CallsOK, NEW ui, DOMAIN ui = RpFields, LogsAsked(ui)
  PROVE  ReportsInv' /\ CallStep(ReportsCalls)
<1>1. PICK s, w : /\ rp' = [ui EXCEPT !.loading = TRUE, !.error = FALSE, !.sure = s] /\ Send("logs", w)
  BY Zenon DEF LogsAsked, RpDo
<1>2. DOMAIN rp' = RpFields
  BY <1>1 DEF RpFields
<1>3. "logs" \in Kind \ (LcCalls \union {"versions"}) /\ "logs" \in ReportsCalls
  BY DEF Kind, PageCalls, ReportsCalls, LcCalls
<1>4. ArgOK(Call("logs", w))
  BY <1>3, PlainArg
<1>5. CallStep(ReportsCalls)
  BY <1>1, <1>3, <1>4, SendOK
<1>6. PICK n \in Slot :
            /\ calls'[n].kind = "logs" /\ calls'[n].arg = w /\ ~calls'[n].served
            /\ \A m \in Slot \ {n} : calls'[m] = calls[m]
            /\ \A K : n \notin Mine(K)
            /\ \A K : Mine(K)' = IF "logs" \in K THEN Mine(K) \union {n} ELSE Mine(K)
  BY <1>1, <1>3, <1>4, SendOK
<1>7. Mine({"logs"})' # {}
  BY <1>6
<1>. QED BY <1>2, <1>5, <1>7 DEF ReportsInv

LEMMA ReportsStep ==
  ASSUME CallsOK, ReportsInv, OnReports
  PROVE  ReportsInv' /\ CallStep(ReportsCalls) /\ page = "reports"
<1>1. page' = page /\ DOMAIN rp = RpFields
  BY DEF OnReports, whoVars, ReportsInv
<1>2. ASSUME calls' = calls, DOMAIN rp' = RpFields, rp'.loading = rp.loading
      PROVE  ReportsInv' /\ CallStep(ReportsCalls)
  BY <1>1, <1>2, QuietEffect, QuietOK DEF ReportsInv
<1>3. ASSUME ReportsUser PROVE ReportsInv' /\ CallStep(ReportsCalls)
  <2>1. ASSUME NEW t, TypeTerm(t) PROVE ReportsInv' /\ CallStep(ReportsCalls)
    <3>1. rp' = [rp EXCEPT !.term = t] /\ calls' = calls
      BY <2>1 DEF TypeTerm, RpDo, Quiet
    <3>. QED BY <1>1, <1>2, <3>1 DEF RpFields
  <2>2. ASSUME NEW b, PickBucket(b) PROVE ReportsInv' /\ CallStep(ReportsCalls)
    <3>1. PICK v, ui : v = [rp EXCEPT !.bucket = b] /\ ui = FromFirst(v) /\ LogsAsked(ui)
      BY <2>2, Zenon DEF PickBucket
    <3>2. DOMAIN ui = RpFields
      BY <1>1, <3>1 DEF FromFirst
    <3>. QED BY <3>1, <3>2, LogsAskedStep
  <2>3. ASSUME NEW s, PickStatus(s) PROVE ReportsInv' /\ CallStep(ReportsCalls)
    <3>1. PICK v, ui : v = [rp EXCEPT !.status = s] /\ ui = FromFirst(v) /\ LogsAsked(ui)
      BY <2>3, Zenon DEF PickStatus
    <3>2. DOMAIN ui = RpFields
      BY <1>1, <3>1 DEF FromFirst
    <3>. QED BY <3>1, <3>2, LogsAskedStep
  <2>4. ASSUME NEW p, ReportsPager(p) PROVE ReportsInv' /\ CallStep(ReportsCalls)
    <3>1. PICK ui : ui = [rp EXCEPT !.page = p] /\ LogsAsked(ui)
      BY <2>4, Zenon DEF ReportsPager
    <3>2. DOMAIN ui = RpFields
      BY <1>1, <3>1
    <3>. QED BY <3>1, <3>2, LogsAskedStep
  <2>5. ASSUME NEW l, ShowDetails(l) PROVE ReportsInv' /\ CallStep(ReportsCalls)
    <3>1. \E x : rp' = [rp EXCEPT !.selected = x] /\ calls' = calls
      BY <2>5, Zenon DEF ShowDetails, RpDo, Quiet
    <3>2. DOMAIN rp' = RpFields /\ rp'.loading = rp.loading /\ calls' = calls
      BY <1>1, <3>1 DEF RpFields
    <3>. QED BY <1>2, <3>2
  <2>6. CASE RetryLogs
    <3>1. PICK ui : ui = rp /\ LogsAsked(ui)
      BY <2>6 DEF RetryLogs
    <3>. QED BY <1>1, <3>1, LogsAskedStep
  <2>. QED BY <1>3, <2>1, <2>2, <2>3, <2>4, <2>5, <2>6 DEF ReportsUser
<1>4. ASSUME NEW n \in Slot, ReportsAnswer(n) PROVE ReportsInv' /\ CallStep(ReportsCalls)
  <2>1. Forget(n)
    BY <1>4 DEF ReportsAnswer, LogsLoaded, OptionsLoaded, ReportsFails, LogsFail, OptionsFail
  <2>2. CallStep(ReportsCalls) /\ \A K : Mine(K)' = Mine(K) \ {n}
    BY <2>1, BucketsForget
  <2>3. CASE LogsLoaded(n) \/ LogsFail(n)
    <3>1. DOMAIN rp' = RpFields /\ rp'.loading = FALSE
      <4>1. \/ \E r, p, w : rp' = [rp EXCEPT !.rows = r, !.pages = p, !.of = w, !.loading = FALSE]
            \/ rp' = [rp EXCEPT !.error = TRUE, !.loading = FALSE]
        BY <2>3, Zenon DEF LogsLoaded, LogsFail, RpThen
      <4>2. CASE rp' = [rp EXCEPT !.error = TRUE, !.loading = FALSE]
        BY <1>1, <4>2 DEF RpFields
      <4>3. ASSUME NEW r, NEW p, NEW w, rp' = [rp EXCEPT !.rows = r, !.pages = p, !.of = w, !.loading = FALSE]
            PROVE  DOMAIN rp' = RpFields /\ rp'.loading = FALSE
        BY <1>1, <4>3 DEF RpFields
      <4>. QED BY <4>1, <4>2, <4>3
    <3>. QED BY <2>2, <3>1 DEF ReportsInv
  <2>4. CASE OptionsLoaded(n) \/ OptionsFail(n)
    <3>1. n \in Mine({"logBuckets"})
      BY <2>4 DEF OptionsLoaded, OptionsFail, Answered, Failing
    <3>2. n \notin Mine({"logs"})
      BY <3>1 DEF Mine
    <3>3. DOMAIN rp' = RpFields /\ rp'.loading = rp.loading
      <4>1. rp' = rp \/ \E x : rp' = [rp EXCEPT !.options = x]
        BY <2>4, Zenon DEF OptionsLoaded, OptionsFail, RpThen
      <4>. QED BY <1>1, <4>1 DEF RpFields
    <3>. QED BY <1>1, <2>2, <3>2, <3>3 DEF ReportsInv
  <2>. QED BY <1>4, <2>3, <2>4 DEF ReportsAnswer, ReportsFails
<1>5. page = "reports"
  <2>1. ASSUME NEW n, ReportsAnswer(n) PROVE n \in Mine(ReportsCalls)
    BY <2>1 DEF ReportsAnswer, LogsLoaded, OptionsLoaded, ReportsFails, LogsFail, OptionsFail, Answered, Failing,
                Mine, ReportsCalls
  <2>2. ReportsUser => page = "reports"
    BY Zenon DEF ReportsUser, TypeTerm, PickBucket, PickStatus, ReportsPager, ShowDetails, RetryLogs, LogsAsked, RpDo
  <2>. QED BY <2>1, <2>2, MineOfPage DEF OnReports
<1>. QED BY <1>3, <1>4, <1>5 DEF OnReports

LEMMA CleanedStep ==
  ASSUME CallsOK, ReportsInv, Elsewhere
  PROVE  ReportsInv'
<1>1. calls' = calls /\ page' = page /\ DOMAIN rp = RpFields
  BY DEF Elsewhere, whoVars, ReportsInv
<1>2. DOMAIN rp' = RpFields /\ rp'.loading = rp.loading
  BY <1>1 DEF Elsewhere, LogsCleaned, LogArrives, RpFields
<1>. QED BY <1>1, <1>2, QuietEffect DEF ReportsInv

-----------------------------------------------------------------------------
(* What a step leaves alone *)

LEMMA UsersKept ==
  ASSUME CallsOK, CallsOK', UsersInv, usersUi' = usersUi, page' = page, calls' = calls \/ page # "users"
  PROVE  UsersInv'
BY UsersFrame, UsersAway, SameQuiet

LEMMA BucketsKept ==
  ASSUME CallsOK, CallsOK', BucketsInv, bp' = bp, lc' = lc, vm' = vm, page' = page,
         calls' = calls \/ page # "buckets"
  PROVE  BucketsInv'
<1>1. CASE calls' = calls
  BY <1>1, BpFrame, LcFrame, VmFrame, SameQuiet DEF BucketsInv
<1>2. CASE page # "buckets"
  BY <1>2 DEF BucketsInv, BpInv, LcInv, VmInv
<1>. QED BY <1>1, <1>2

LEMMA ReportsKept ==
  ASSUME ReportsInv, rp' = rp, page' = page, calls' = calls \/ page # "reports"
  PROVE  ReportsInv'
BY QuietEffect DEF ReportsInv

LEMMA LoginKept ==
  ASSUME LoginInv, login' = login, page' = page, calls' = calls \/ page # "login"
  PROVE  LoginInv'
BY QuietEffect DEF LoginInv

\* Away from the page of the users no token is shown.
NoTokenAway == page # "users" => usersUi.token = None
PagesInv == UsersInv /\ NoTokenAway /\ BucketsInv /\ ReportsInv /\ LoginInv

-----------------------------------------------------------------------------
(* A page takes the place of another *)

LEMMA MountPages ==
  ASSUME NEW p, NEW who, NEW rest, Leftover(rest, {"me"}), Mount(p, who, rest)
  PROVE  PagesInv'
<1>1. /\ Calls' /\ page' = p
      /\ \A n \in Slot :
            \/ calls'[n] = rest[n]
            \/ /\ rest[n] = NoCall /\ Proper(calls'[n])
               /\ calls'[n].kind \in EffectKinds(p)
               /\ ~calls'[n].served /\ ~calls'[n].gone
      /\ p = "users" => \E n \in Slot : calls'[n].kind = "users" /\ Proper(calls'[n]) /\ ~calls'[n].gone
      /\ p = "buckets" => \E n \in Slot : calls'[n].kind = "buckets" /\ Proper(calls'[n]) /\ ~calls'[n].gone
      /\ p = "reports" => \E n \in Slot : calls'[n].kind = "logs" /\ Proper(calls'[n]) /\ ~calls'[n].gone
  BY MountEffect
<1>2. \A K : Mine(K)' = {n \in Slot : calls'[n] # NoCall /\ calls'[n].kind \in K /\ ~calls'[n].gone}
  BY <1>1, CallsKindNext
<1>3. \A n \in Slot : calls'[n] # NoCall /\ ~calls'[n].gone =>
         calls'[n].kind \in EffectKinds(p) \union {"me", "logout"}
  BY <1>1 DEF Leftover
<1>4. EffectKinds(p) \subseteq {"users", "buckets", "logBuckets", "logs", "summary"}
  BY DEF EffectKinds
<1>5. ASSUME NEW K, K \intersect {"users", "buckets", "logBuckets", "logs", "summary", "me", "logout"} = {}
      PROVE  Mine(K)' = {}
  BY <1>2, <1>3, <1>4, <1>5
<1>6. NoCall.kind \notin Kind
  BY Kinds
<1>7. ASSUME NEW k, NEW n \in Slot, calls'[n].kind = k, Proper(calls'[n]), ~calls'[n].gone
      PROVE  Mine({k})' # {}
  <2>1. calls'[n] # NoCall
    BY <1>6, <1>7 DEF Proper
  <2>. QED BY <1>2, <1>7, <2>1
<1>8. /\ p = "users" => Mine({"users"})' # {}
      /\ p = "buckets" => Mine({"buckets"})' # {}
      /\ p = "reports" => Mine({"logs"})' # {}
  BY <1>1, <1>7
<1>9. UsersInv' /\ NoTokenAway'
  <2>1. usersUi' = FreshUsers
    BY Zenon DEF Mount
  <2>2. UsersShape' /\ usersUi'.saving = FALSE /\ usersUi'.submitting = FALSE /\ usersUi'.token = None
    BY <2>1, FreshUsersShape DEF FreshUsers
  <2>3. Mine({"create", "update"})' = {} /\ Mine({"delete", "toggle", "token"})' = {} /\ Mine({"token"})' = {}
    BY <1>5
  <2>4. page' = "users" => UsersFlags'
    BY <1>1, <1>8, <2>2, <2>3 DEF UsersFlags, One
  <2>5. UsersToken'
    BY <2>2, <2>3 DEF UsersToken
  <2>. QED BY <2>2, <2>4, <2>5 DEF UsersInv, NoTokenAway
<1>10. BucketsInv'
  <2>1. /\ lc' = FreshLifecycle(None) /\ vm' = FreshVersions(None)
        /\ bp' = [FreshBuckets EXCEPT !.tried = bp.tried]
    BY Zenon DEF Mount
  <2>2. DOMAIN bp' = BpFields /\ bp'.loading = TRUE /\ bp'.creating = FALSE
    BY <2>1 DEF FreshBuckets, BpFields
  <2>3. DOMAIN lc' = LcFields /\ lc'.loading = FALSE /\ lc'.saving = FALSE /\ lc'.bucket = None
    BY <2>1 DEF FreshLifecycle, LcFields
  <2>4. DOMAIN vm' = VmFields /\ vm'.loading = FALSE /\ vm'.of = None /\ vm'.deleting = None
    BY <2>1 DEF FreshVersions, VmFields
  <2>5. /\ Mine({"makeBucket"})' = {} /\ Mine(LcCalls)' = {} /\ Mine(VersionCalls)' = {}
    BY <1>5 DEF LcCalls, VersionCalls
  <2>6. Mine({"buckets"})' \subseteq Mine(ListCalls)'
    BY <1>2 DEF ListCalls
  <2>7. OpenSaves' = {}
    BY <2>5 DEF OpenSaves
  <2>8. BpInv'
    BY <1>1, <1>8, <2>2, <2>5, <2>6 DEF BpInv, One
  <2>9. LcInv'
    BY <2>3, <2>7 DEF LcInv, One
  <2>10. VmInv'
    BY <2>4, <2>5 DEF VmInv
  <2>. QED BY <2>8, <2>9, <2>10 DEF BucketsInv
<1>11. ReportsInv'
  <2>1. rp' = FreshReports
    BY Zenon DEF Mount
  <2>2. DOMAIN rp' = RpFields
    BY <2>1 DEF FreshReports, RpFields
  <2>. QED BY <1>1, <1>8, <2>2 DEF ReportsInv
<1>12. LoginInv'
  <2>1. login' = FreshLogin
    BY Zenon DEF Mount
  <2>2. login'.submitting = FALSE /\ Mine({"login"})' = {}
    BY <1>5, <2>1 DEF FreshLogin
  <2>. QED BY <2>2 DEF LoginInv, One
<1>. QED BY <1>9, <1>10, <1>11, <1>12 DEF PagesInv

LEMMA MoreLeft == \A rest : Leftover(rest, {}) => Leftover(rest, {"me"})
BY DEF Leftover

\* The page is loaded again.
LEMMA LoadStep ==
  ASSUME NEW path \in Path, NEW rest, Leftover(rest, {}), Load(path, rest), tokens \in Role \union {"nobody"}
  PROVE  CallsOK' /\ SessionInv' /\ PagesInv'
<1>1. user' = "nobody" /\ tokens' = tokens
  BY DEF Load
<1>2. CASE tokens = "nobody"
  <2>1. Mount("login", tokens, rest)
    BY <1>2 DEF Load
  <2>2. CallsOK' /\ page' = "login" /\ \A n \in Slot : calls'[n].kind \notin {"me", "login"}
    BY <2>1, MountOK
  <2>3. SessionInv'
    BY <1>1, <1>2, <2>2, SessionMount
  <2>4. PagesInv'
    BY <2>1, MoreLeft, MountPages
  <2>. QED BY <2>2, <2>3, <2>4
<1>3. CASE tokens # "nobody"
  <2>1. PICK n, c, all : /\ n \in Slot /\ rest[n].kind = "none" /\ c = Call("me", path)
                         /\ all = [rest EXCEPT ![n] = c] /\ Mount("spinner", tokens, all)
    BY <1>3, Zenon DEF Load
  <2>2. /\ Proper(c) /\ c.kind = "me" /\ c.arg = path /\ c.as = tokens /\ ~c.served /\ ~c.gone
    <3>1. PICK who : who = tokens
      OBVIOUS
    <3>2. c = CallAs(who, "me", path) /\ c.kind = "me" /\ "me" \in Kind
      BY <2>1, <3>1 DEF Call, CallAs, Kind
    <3>3. ArgOK(c)
      BY <3>2 DEF ArgOK, LcCalls
    <3>. QED BY <3>1, <3>2, <3>3, FreshProper
  <2>3. /\ all = [m \in Slot |-> all[m]] /\ all[n] = c /\ \A m \in Slot \ {n} : all[m] = rest[m]
    BY <2>1 DEF Leftover
  <2>4. Leftover(all, {"me"})
    BY <2>2, <2>3 DEF Leftover, IsCall
  <2>5. PagesInv'
    BY <2>1, <2>4, MountPages
  <2>6. /\ Calls' /\ page' = "spinner" /\ \A m \in Slot : calls'[m] = all[m]
    <3>1. EffectKinds("spinner") = {}
      BY DEF EffectKinds
    <3>2. PICK p, who : p = "spinner" /\ who = tokens
      OBVIOUS
    <3>3. Leftover(all, {"me"}) /\ Mount(p, who, all)
      BY <2>1, <2>4, <3>2
    <3>4. /\ Calls' /\ page' = p
          /\ \A m \in Slot : \/ calls'[m] = all[m]
                             \/ /\ all[m] = NoCall /\ Proper(calls'[m])
                                /\ calls'[m].kind \in EffectKinds(p)
                                /\ ~calls'[m].served /\ ~calls'[m].gone
      BY <3>3, MountEffect
    <3>. QED BY <3>1, <3>2, <3>4
  <2>7. \A m \in Slot \ {n} : calls'[m] # NoCall => /\ Proper(calls'[m])
                                                    /\ calls'[m].gone \/ calls'[m].kind = "logout"
    BY <2>3, <2>6 DEF Leftover, IsCall
  <2>8. CallsOK'
    <3>1. \A m \in Slot : calls'[m] # NoCall /\ ~calls'[m].gone => BelongsTo(calls'[m].kind, page')
      BY <2>2, <2>3, <2>6, <2>7 DEF BelongsTo
    <3>. QED BY <2>6, <3>1 DEF CallsOK
  <2>9. \A m \in Slot \ {n} : calls'[m].kind \notin {"me", "login"}
    BY <2>7, Kinds DEF Proper, Kind
  <2>10. /\ \A m \in Slot : calls'[m].kind = "me" =>
               /\ calls'[m].as = tokens /\ calls'[m].arg \in Path
               /\ calls'[m].served => calls'[m].answer = tokens
         /\ \A m \in Slot : calls'[m].kind = "login" /\ calls'[m].served => calls'[m].answer \in Role
    BY <2>2, <2>3, <2>6, <2>9
  <2>11. page' \notin Protected /\ page' # "login"
    BY <2>6 DEF Protected
  <2>12. SessionInv'
    BY <1>1, <1>3, <2>6, <2>10, <2>11 DEF SessionInv, SessionShown
  <2>. QED BY <2>5, <2>8, <2>12
<1>. QED BY <1>2, <1>3

\* A change of pages for somebody who is known, or for nobody.
LEMMA MountStep ==
  ASSUME NEW p, NEW who, NEW rest, Leftover(rest, {}), Mount(p, who, rest),
         user' \in Role \union {"nobody"}, tokens' \in Role \union {"nobody"},
         \/ p \in Protected /\ user' # "nobody" /\ tokens' \in {user', "nobody"}
         \/ p = "login" /\ user' = "nobody" /\ tokens' = "nobody"
  PROVE  CallsOK' /\ SessionInv' /\ PagesInv'
<1>1. CallsOK' /\ page' = p /\ \A n \in Slot : calls'[n].kind \notin {"me", "login"}
  BY MountOK
<1>2. SessionInv'
  BY <1>1, SessionMount
<1>3. PagesInv'
  BY MoreLeft, MountPages
<1>. QED BY <1>1, <1>2, <1>3

-----------------------------------------------------------------------------
(* The inductive invariant *)

AppInv == CallsOK /\ SessionInv /\ PagesInv

LEMMA FreshPages ==
  ASSUME page \notin {"users", "buckets", "reports"}, \A K : "me" \notin K => Mine(K) = {},
         usersUi = FreshUsers, rp = FreshReports, login = FreshLogin,
         bp = FreshBuckets, lc = FreshLifecycle(None), vm = FreshVersions(None)
  PROVE  PagesInv
<1>1. UsersInv /\ NoTokenAway
  BY DEF UsersInv, UsersShape, FreshUsers, UsersFields, NoTokenAway
<1>2. BpInv
  BY DEF BpInv, FreshBuckets, BpFields
<1>3. LcInv
  BY DEF LcInv, FreshLifecycle, LcFields
<1>4. VmInv
  BY DEF VmInv, FreshVersions, VmFields
<1>5. ReportsInv
  BY DEF ReportsInv, FreshReports, RpFields
<1>6. LoginInv
  <2>1. Mine({"login"}) = {} /\ login.submitting = FALSE
    BY DEF FreshLogin
  <2>. QED BY <2>1 DEF LoginInv, One
<1>. QED BY <1>1, <1>2, <1>3, <1>4, <1>5, <1>6 DEF PagesInv, BucketsInv

LEMMA InitStep == Init => AppInv
<1>. SUFFICES ASSUME Init PROVE AppInv
  OBVIOUS
<1>1. /\ user = "nobody" /\ tokens \in Role \union {"nobody"}
      /\ usersUi = FreshUsers /\ rp = FreshReports /\ login = FreshLogin
      /\ bp = FreshBuckets /\ lc = FreshLifecycle(None) /\ vm = FreshVersions(None)
  BY DEF Init
<1>2. \/ tokens = "nobody" /\ page = "login" /\ calls = Nothing
      \/ /\ tokens # "nobody" /\ page = "spinner"
         /\ \E path \in Path : \E c : c = Call("me", path) /\ calls = [Nothing EXCEPT ![1] = c]
  BY Zenon DEF Init
<1>3. 1 \in Slot /\ Nothing = [n \in Slot |-> NoCall]
  BY BrowserAssumption DEF Slot, Nothing
<1>4. CASE tokens = "nobody" /\ page = "login" /\ calls = Nothing
  <2>1. calls = [n \in Slot |-> calls[n]] /\ \A n \in Slot : calls[n] = NoCall
    BY <1>3, <1>4
  <2>2. CallsOK
    BY <2>1 DEF CallsOK, Calls, IsCall
  <2>3. \A K : Mine(K) = {}
    BY <2>1, <2>2, CallsKind DEF CallsOK
  <2>4. SessionInv
    <3>1. \A n \in Slot : calls[n].kind \notin {"me", "login"}
      BY <2>1 DEF NoCall
    <3>. QED BY <1>1, <1>4, <3>1 DEF SessionInv, SessionShown, Path, Protected
  <2>5. page \notin {"users", "buckets", "reports"}
    BY <1>4
  <2>. QED BY <1>1, <2>2, <2>3, <2>4, <2>5, FreshPages DEF AppInv
<1>5. ASSUME NEW path \in Path, NEW c, tokens # "nobody", page = "spinner",
             c = Call("me", path), calls = [Nothing EXCEPT ![1] = c]
      PROVE  AppInv
  <2>1. /\ Proper(c) /\ c.kind = "me" /\ c.arg = path /\ c.as = tokens /\ ~c.served /\ ~c.gone
    <3>1. PICK who : who = tokens
      OBVIOUS
    <3>2. c = CallAs(who, "me", path) /\ c.kind = "me" /\ "me" \in Kind
      BY <1>5, <3>1 DEF Call, CallAs, Kind
    <3>3. ArgOK(c)
      BY <3>2 DEF ArgOK, LcCalls
    <3>. QED BY <3>1, <3>2, <3>3, FreshProper
  <2>2. calls = [n \in Slot |-> calls[n]] /\ calls[1] = c /\ \A n \in Slot \ {1} : calls[n] = NoCall
    BY <1>3, <1>5
  <2>3. CallsOK
    <3>1. \A n \in Slot : calls[n] # NoCall /\ ~calls[n].gone => BelongsTo(calls[n].kind, page)
      BY <1>5, <2>1, <2>2 DEF BelongsTo
    <3>2. Calls
      BY <2>1, <2>2 DEF Calls, IsCall
    <3>. QED BY <3>1, <3>2 DEF CallsOK
  <2>4. \A K : "me" \notin K => Mine(K) = {}
    BY <2>1, <2>2, <2>3, CallsKind DEF CallsOK
  <2>5. SessionInv
    <3>1. /\ \A n \in Slot : calls[n].kind = "me" =>
                /\ calls[n].as = tokens /\ calls[n].arg \in Path
                /\ calls[n].served => calls[n].answer = tokens
          /\ \A n \in Slot : calls[n].kind = "login" /\ calls[n].served => calls[n].answer \in Role
      BY <1>5, <2>1, <2>2 DEF NoCall
    <3>. QED BY <1>1, <1>5, <3>1 DEF SessionInv, SessionShown, Protected
  <2>6. page \notin {"users", "buckets", "reports"}
    BY <1>5
  <2>. QED BY <1>1, <2>3, <2>4, <2>5, <2>6, FreshPages DEF AppInv
<1>. QED BY <1>2, <1>4, <1>5

\* The steps that leave the page where it is: what they keep of it.
LEMMA PagesKept ==
  ASSUME CallsOK, CallsOK', PagesInv, page' = page, usersUi' = usersUi, bp' = bp, lc' = lc, vm' = vm,
         rp' = rp, calls' = calls \/ page \notin {"users", "buckets", "reports"}, LoginInv'
  PROVE  PagesInv'
BY UsersKept, BucketsKept, ReportsKept DEF PagesInv, NoTokenAway

LEMMA SubmitLoginStep == AppInv /\ SubmitLogin => AppInv'
<1>. SUFFICES ASSUME AppInv, SubmitLogin PROVE AppInv'
  OBVIOUS
<1>1. /\ page = "login" /\ ~login.submitting /\ login' = [submitting |-> TRUE, error |-> FALSE]
      /\ Send("login", None) /\ page' = page /\ user' = user /\ tokens' = tokens
      /\ usersUi' = usersUi /\ bp' = bp /\ lc' = lc /\ vm' = vm /\ rp' = rp
  BY DEF SubmitLogin, whoVars
<1>2. "login" \in Kind \ (LcCalls \union {"versions"})
  BY DEF Kind, LcCalls
<1>3. ArgOK(Call("login", None))
  BY <1>2, PlainArg
<1>4. CallStep({"login"})
  BY <1>1, <1>2, <1>3, SendOK DEF AppInv
<1>5. PICK n \in Slot :
            /\ calls'[n].kind = "login" /\ calls'[n].arg = None /\ ~calls'[n].served
            /\ \A m \in Slot \ {n} : calls'[m] = calls[m]
            /\ \A K : n \notin Mine(K)
            /\ \A K : Mine(K)' = IF "login" \in K THEN Mine(K) \union {n} ELSE Mine(K)
  BY <1>1, <1>2, <1>3, SendOK DEF AppInv
<1>6. CallsOK'
  BY <1>1, <1>4, CallStepOK DEF AppInv, BelongsTo
<1>7. SessionInv'
  BY <1>1, <1>5 DEF AppInv, SessionInv, SessionShown
<1>8. LoginInv'
  <2>1. Mine({"login"}) = {}
    BY <1>1 DEF AppInv, PagesInv, LoginInv, One
  <2>2. Mine({"login"})' = {n}
    BY <1>5, <2>1
  <2>. QED BY <1>1, <2>2 DEF LoginInv, One
<1>. QED BY <1>1, <1>6, <1>7, <1>8, PagesKept DEF AppInv

\* A call of a page without lists or dialogs is over.
LEMMA ForgottenStep ==
  ASSUME AppInv, NEW n \in Slot, Forget(n), page \notin {"users", "buckets", "reports"}, whoVars' = whoVars,
         usersUi' = usersUi, bp' = bp, lc' = lc, vm' = vm, rp' = rp,
         login'.submitting \in BOOLEAN, page = "login" => One(login'.submitting, Mine({"login"}) \ {n})
  PROVE  AppInv'
<1>1. page' = page /\ user' = user /\ tokens' = tokens
  BY DEF whoVars
<1>2. (\A K : CallStep(K)) /\ \A K : Mine(K)' = Mine(K) \ {n}
  BY BucketsForget DEF AppInv
<1>3. CallsOK'
  <2>1. CallStep({})
    BY <1>2
  <2>. QED BY <1>1, <2>1, CallStepOK DEF AppInv
<1>4. SessionInv'
  BY <1>1, <1>2, SessionPageStep DEF AppInv
<1>5. LoginInv'
  BY <1>1, <1>2 DEF LoginInv
<1>. QED BY <1>1, <1>3, <1>4, <1>5, PagesKept DEF AppInv

\* The button "Sair", with tokens: the page stays until logout has ended.
LEMMA LogoutSentStep ==
  ASSUME AppInv, page \in Protected, Send("logout", None), whoVars' = whoVars, pageVars' = pageVars
  PROVE  AppInv'
<1>1. /\ page' = page /\ user' = user /\ tokens' = tokens
      /\ usersUi' = usersUi /\ bp' = bp /\ lc' = lc /\ vm' = vm /\ rp' = rp /\ login' = login
  BY DEF whoVars, pageVars
<1>2. "logout" \in Kind \ (LcCalls \union {"versions"}) /\ "logout" \notin PageCalls
  BY Kinds DEF Kind, LcCalls
<1>3. ArgOK(Call("logout", None))
  BY <1>2, PlainArg
<1>4. CallStep({"logout"}) /\ \A K : K \subseteq Kind /\ "logout" \notin K => SameCalls(K)
  BY <1>2, <1>3, SendOK DEF AppInv
<1>5. PICK n \in Slot :
            /\ calls'[n].kind = "logout" /\ calls'[n].arg = None /\ ~calls'[n].served
            /\ \A m \in Slot \ {n} : calls'[m] = calls[m]
            /\ \A K : n \notin Mine(K)
            /\ \A K : Mine(K)' = IF "logout" \in K THEN Mine(K) \union {n} ELSE Mine(K)
  BY <1>2, <1>3, SendOK DEF AppInv
<1>6. CallsOK'
  BY <1>1, <1>4, CallStepOK DEF AppInv, BelongsTo
<1>7. SessionInv'
  BY <1>1, <1>5 DEF AppInv, SessionInv, SessionShown
<1>8. SameCalls(UsersCalls) /\ SameCalls(BpCalls) /\ SameCalls(LifecycleCalls) /\ SameCalls(VersionCalls)
  BY <1>4, UsersKinds, BucketsKinds DEF UsersCalls, BpCalls, LifecycleCalls, VersionCalls
<1>9. UsersInv' /\ NoTokenAway'
  BY <1>1, <1>6, <1>8, UsersFrame DEF AppInv, PagesInv, NoTokenAway
<1>10. BucketsInv'
  BY <1>1, <1>6, <1>8, BpFrame, LcFrame, VmFrame DEF AppInv, PagesInv, BucketsInv
<1>11. ReportsInv'
  <2>1. Mine({"logs"})' = Mine({"logs"})
    BY <1>5
  <2>. QED BY <1>1, <2>1 DEF AppInv, PagesInv, ReportsInv
<1>12. LoginInv'
  <2>1. page' # "login"
    BY <1>1 DEF Protected
  <2>. QED BY <1>1, <2>1 DEF AppInv, PagesInv, LoginInv
<1>. QED BY <1>6, <1>7, <1>9, <1>10, <1>11, <1>12 DEF AppInv, PagesInv

LEMMA AuthStep == AppInv /\ Auth => AppInv'
<1>. SUFFICES ASSUME AppInv, Auth PROVE AppInv'
  OBVIOUS
<1>1. /\ Leftover(Abandoned, {}) /\ Leftover(Unread, {}) /\ \A n \in Slot : Leftover(Without(n), {})
  BY AbandonedEffect DEF AppInv, CallsOK
<1>2. /\ user \in Role \union {"nobody"} /\ tokens \in Role \union {"nobody"} /\ page \in Path \union {"spinner"}
      /\ page \in Protected => user # "nobody" /\ tokens \in {user, "nobody"}
  BY DEF AppInv, SessionInv, SessionShown
<1>3. ASSUME NEW n \in Slot, n \in Mine({"me"})
      PROVE  /\ page = "spinner" /\ tokens # "nobody" /\ calls[n].arg \in Path
             /\ calls[n].served => calls[n].answer = tokens
  <2>1. calls[n].kind = "me" /\ page = "spinner"
    BY <1>3, MineOfPage DEF AppInv, Mine
  <2>. QED BY <2>1 DEF AppInv, SessionInv
<1>4. CASE SubmitLogin
  BY <1>4, SubmitLoginStep
<1>5. CASE ClickLogout
  <2>1. page \in Protected
    BY <1>5 DEF ClickLogout
  <2>2. CASE Send("logout", None) /\ UNCHANGED <<whoVars, pageVars>>
    BY <2>1, <2>2, LogoutSentStep
  <2>3. CASE tokens = "nobody" /\ user' = "nobody" /\ UNCHANGED tokens /\ Mount("login", tokens, Abandoned)
    BY <1>1, <2>3, MountStep DEF AppInv
  <2>. QED BY <1>5, <2>2, <2>3 DEF ClickLogout
<1>6. CASE ReloadPage
  <2>1. page \in Path /\ Load(page, Unread)
    BY <1>2, <1>6 DEF ReloadPage
  <2>. QED BY <1>1, <1>2, <2>1, LoadStep DEF AppInv
<1>7. ASSUME NEW p \in Protected, Navigate(p) PROVE AppInv'
  <2>1. page \in Protected /\ Mount(p, tokens, Abandoned) /\ user' = user /\ tokens' = tokens
    BY <1>7 DEF Navigate
  <2>. QED BY <1>1, <1>2, <2>1, MountStep DEF AppInv
<1>8. ASSUME NEW n \in Slot, UserLoaded(n) PROVE AppInv'
  <2>1. PICK p : /\ p = Landing(calls[n].arg, user') /\ Mount(p, tokens, Without(n))
                 /\ user' = calls[n].answer /\ tokens' = tokens /\ n \in Mine({"me"}) /\ calls[n].served
    BY <1>8, Zenon DEF UserLoaded, Answered
  <2>2. user' = tokens /\ tokens # "nobody" /\ calls[n].arg \in Path
    BY <1>3, <2>1
  <2>3. p \in Protected
    BY <2>1, <2>2 DEF Landing, Path, Protected
  <2>. QED BY <1>1, <1>2, <2>1, <2>2, <2>3, MountStep DEF AppInv
<1>9. ASSUME NEW n \in Slot, UserNotLoaded(n) PROVE AppInv'
  <2>1. Mount("login", tokens', Without(n)) /\ user' = "nobody" /\ tokens' = "nobody"
    BY <1>9 DEF UserNotLoaded
  <2>2. PICK who : who = tokens'
    OBVIOUS
  <2>3. Mount("login", who, Without(n))
    BY <2>1, <2>2
  <2>. QED BY <1>1, <2>1, <2>3, MountStep DEF AppInv
<1>10. ASSUME NEW n \in Slot, LoggedIn(n) PROVE AppInv'
  <2>1. /\ n \in Mine({"login"}) /\ calls[n].served
        /\ user' = calls[n].answer /\ tokens' = user' /\ Mount("dashboard", tokens', Without(n))
    BY <1>10 DEF LoggedIn, Answered
  <2>2. calls[n].answer \in Role
    BY <2>1 DEF AppInv, SessionInv, Mine
  <2>3. PICK who : who = tokens'
    OBVIOUS
  <2>4. Mount("dashboard", who, Without(n)) /\ "dashboard" \in Protected
    BY <2>1, <2>3 DEF Protected
  <2>5. user' \in Role /\ user' # "nobody"
    BY <2>1, <2>2 DEF Role
  <2>. QED BY <1>1, <2>1, <2>4, <2>5, MountStep DEF AppInv
<1>11. ASSUME NEW n \in Slot, LoginFails(n) PROVE AppInv'
  <2>1. /\ n \in Mine({"login"}) /\ Forget(n) /\ login' = [submitting |-> FALSE, error |-> TRUE]
        /\ whoVars' = whoVars /\ usersUi' = usersUi /\ bp' = bp /\ lc' = lc /\ vm' = vm /\ rp' = rp
    BY <1>11 DEF LoginFails, Failing
  <2>2. page = "login"
    BY <2>1, MineOfPage DEF AppInv
  <2>3. Mine({"login"}) = {n}
    BY <2>1, <2>2 DEF AppInv, PagesInv, LoginInv, One
  <2>4. login'.submitting = FALSE /\ One(login'.submitting, Mine({"login"}) \ {n})
    BY <2>1, <2>3 DEF One
  <2>. QED BY <2>1, <2>2, <2>4, ForgottenStep
<1>12. ASSUME NEW n \in Slot, LogoutDone(n) PROVE AppInv'
  <2>1. n \in Mine({"logout"}) /\ user' = "nobody" /\ tokens' = "nobody"
    BY <1>12 DEF LogoutDone, Failing, Cleared
  <2>2. CASE Mount("login", tokens', Without(n))
    <3>1. PICK who : who = tokens'
      OBVIOUS
    <3>2. Mount("login", who, Without(n))
      BY <2>2, <3>1
    <3>. QED BY <1>1, <2>1, <3>2, MountStep DEF AppInv
  <2>3. CASE page = "login" /\ Forget(n) /\ UNCHANGED <<page, pageVars>>
    <3>1. user = "nobody" /\ tokens = "nobody"
      BY <2>3 DEF AppInv, SessionInv, SessionShown
    <3>2. whoVars' = whoVars
      BY <2>1, <2>3, <3>1 DEF whoVars
    <3>3. Mine({"login"}) \ {n} = Mine({"login"})
      BY <2>1 DEF Mine
    <3>4. login' = login /\ usersUi' = usersUi /\ bp' = bp /\ lc' = lc /\ vm' = vm /\ rp' = rp
      BY <2>3 DEF pageVars
    <3>5. login'.submitting \in BOOLEAN /\ One(login'.submitting, Mine({"login"}) \ {n})
      BY <2>3, <3>3, <3>4 DEF AppInv, PagesInv, LoginInv
    <3>. QED BY <2>3, <3>2, <3>4, <3>5, ForgottenStep
  <2>. QED BY <1>12, <2>2, <2>3 DEF LogoutDone
<1>13. ASSUME NEW n \in Slot, SummaryDone(n) PROVE AppInv'
  <2>1. /\ n \in Mine({"summary"}) /\ Forget(n) /\ login' = login
        /\ whoVars' = whoVars /\ usersUi' = usersUi /\ bp' = bp /\ lc' = lc /\ vm' = vm /\ rp' = rp
    BY <1>13 DEF SummaryDone, Failing
  <2>2. page = "dashboard"
    BY <2>1, MineOfPage DEF AppInv
  <2>3. login'.submitting \in BOOLEAN
    BY <2>1 DEF AppInv, PagesInv, LoginInv
  <2>. QED BY <2>1, <2>2, <2>3, ForgottenStep
<1>. QED BY <1>4, <1>5, <1>6, <1>7, <1>8, <1>9, <1>10, <1>11, <1>12, <1>13 DEF Auth

LEMMA NextStep == AppInv /\ [Next]_vars => AppInv'
<1>. SUFFICES ASSUME AppInv, [Next]_vars PROVE AppInv'
  OBVIOUS
<1>. USE DEF AppInv, PagesInv
<1>0. usersUi' = usersUi /\ page' = page => NoTokenAway'
  BY DEF NoTokenAway
<1>1. \A K \in {UsersCalls, BucketsCalls, ReportsCalls} : CallStep(K) => CallStep(PageCalls)
  BY DEF CallStep, PageCalls
<1>3. CASE OnUsers
  <2>1. /\ page' = page /\ user' = user
        /\ tokens' = tokens \/ (tokens' = "nobody" /\ user # "nobody")
        /\ bp' = bp /\ lc' = lc /\ vm' = vm /\ rp' = rp /\ login' = login
    BY <1>3 DEF OnUsers, Expires, whoVars, bucketsVars, reportsVars
  <2>2. /\ UsersInv' /\ CallStep(UsersCalls)
        /\ page = "users" \/ (calls' = calls /\ usersUi'.token = usersUi.token)
    <3>1. CASE UsersUser
      BY <2>1, <3>1, UsersUserStep DEF UsersGoal
    <3>2. CASE CopyTimer
      <4>1. usersUi' = [usersUi EXCEPT !.copied = FALSE] /\ calls' = calls /\ DOMAIN usersUi = UsersFields
        BY <3>2 DEF CopyTimer, Quiet, UsersThen, UsersInv, UsersShape
      <4>2. usersUi'.token = usersUi.token
        BY <4>1 DEF UsersFields
      <4>. QED BY <2>1, <3>2, <4>1, <4>2, CopyTimerStep
    <3>3. ASSUME NEW n \in Slot, UsersAnswer(n) PROVE UsersInv' /\ CallStep(UsersCalls) /\ page = "users"
      BY <2>1, <3>3, UsersAnswerStep DEF UsersGoal
    <3>4. ASSUME NEW n \in Slot, Expires(n) PROVE UsersAnswer(n)
      BY <3>4 DEF Expires, UsersAnswer
    <3>. QED BY <1>3, <3>1, <3>2, <3>3, <3>4 DEF OnUsers
  <2>3. CallsOK'
    <3>1. CASE page = "users"
      BY <2>1, <2>2, <3>1, CallStepOK DEF BelongsTo
    <3>2. CASE calls' = calls
      BY <2>1, <3>2, QuietOK
    <3>. QED BY <2>2, <3>1, <3>2
  <2>4. SessionInv'
    BY <1>1, <2>1, <2>2, SessionPageStep
  <2>5. NoTokenAway'
    BY <2>1, <2>2 DEF NoTokenAway
  <2>. QED BY <2>1, <2>2, <2>3, <2>4, <2>5, BucketsKept, ReportsKept, LoginKept
<1>4. CASE OnBuckets
  <2>1. page' = page /\ user' = user /\ tokens' = tokens /\ usersUi' = usersUi /\ rp' = rp /\ login' = login
    BY <1>4 DEF OnBuckets, whoVars, usersVars, reportsVars
  <2>2. BucketsInv' /\ CallStep(BucketsCalls) /\ CallsOK' /\ page = "buckets"
    BY <1>4, BucketsStep DEF BucketsGoal
  <2>3. SessionInv'
    BY <1>1, <2>1, <2>2, SessionPageStep
  <2>. QED BY <1>0, <2>1, <2>2, <2>3, UsersKept, ReportsKept, LoginKept
<1>5. CASE OnReports
  <2>1. /\ page' = page /\ user' = user /\ tokens' = tokens
        /\ usersUi' = usersUi /\ bp' = bp /\ lc' = lc /\ vm' = vm /\ login' = login
    BY <1>5 DEF OnReports, whoVars, usersVars, bucketsVars
  <2>2. ReportsInv' /\ CallStep(ReportsCalls) /\ page = "reports"
    BY <1>5, ReportsStep
  <2>3. CallsOK'
    BY <2>1, <2>2, CallStepOK DEF BelongsTo
  <2>4. SessionInv'
    BY <1>1, <2>1, <2>2, SessionPageStep
  <2>. QED BY <1>0, <2>1, <2>2, <2>3, <2>4, UsersKept, BucketsKept, LoginKept
<1>6. CASE Elsewhere
  <2>1. /\ page' = page /\ user' = user /\ tokens' = tokens /\ calls' = calls
        /\ usersUi' = usersUi /\ bp' = bp /\ lc' = lc /\ vm' = vm /\ login' = login
    BY <1>6 DEF Elsewhere, whoVars, usersVars, bucketsVars
  <2>2. CallsOK' /\ CallStep(PageCalls)
    BY <2>1, QuietOK
  <2>3. ReportsInv'
    BY <1>6, CleanedStep
  <2>4. SessionInv'
    BY <2>1, <2>2, SessionPageStep
  <2>. QED BY <1>0, <2>1, <2>2, <2>3, <2>4, UsersKept, BucketsKept, LoginKept
<1>7. CASE Auth
  BY <1>7, AuthStep
<1>8. ASSUME NEW n \in Slot, Server(n) PROVE AppInv'
  <2>1. ServerStep /\ pageVars' = pageVars /\ whoVars' = whoVars
    BY <1>8, ServerIsStep
  <2>2. page' = page /\ usersUi' = usersUi /\ bp' = bp /\ lc' = lc /\ vm' = vm /\ rp' = rp /\ login' = login
    BY <2>1 DEF pageVars, whoVars
  <2>3. CallsOK' /\ \A K : Mine(K)' = Mine(K)
    BY <2>1, <2>2, ServerStepCalls
  <2>4. SessionInv'
    BY <2>1, SessionServerStep
  <2>5. UsersInv' /\ BucketsInv'
    BY <2>1, <2>2, UsersServerStep, BucketsServerStep
  <2>6. ReportsInv' /\ LoginInv'
    BY <2>2, <2>3 DEF ReportsInv, LoginInv
  <2>. QED BY <1>0, <2>2, <2>3, <2>4, <2>5, <2>6
<1>9. CASE UNCHANGED vars
  <2>1. /\ page' = page /\ user' = user /\ tokens' = tokens /\ calls' = calls
        /\ usersUi' = usersUi /\ bp' = bp /\ lc' = lc /\ vm' = vm /\ rp' = rp /\ login' = login
    BY <1>9 DEF vars, whoVars, pageVars
  <2>2. CallsOK' /\ CallStep(PageCalls)
    BY <2>1, QuietOK
  <2>3. SessionInv'
    BY <2>1, <2>2, SessionPageStep
  <2>. QED BY <1>0, <2>1, <2>2, <2>3, UsersKept, BucketsKept, ReportsKept, LoginKept
<1>. QED BY <1>3, <1>4, <1>5, <1>6, <1>7, <1>8, <1>9 DEF Next

LEMMA AppInvariant == Spec => []AppInv
<1>1. Init => AppInv
  BY InitStep
<1>2. AppInv /\ [Next]_vars => AppInv'
  BY NextStep
<1>. QED BY <1>1, <1>2, PTL DEF Spec

-----------------------------------------------------------------------------
(* Theorems *)

\* Who is signed in sees a page, and nobody else does (App.tsx:11-45, AuthContext.tsx:46-57).
THEOREM SignedInSeesPages == Spec => []SessionShown
<1>1. AppInv => SessionShown
  BY DEF AppInv, SessionInv
<1>. QED BY <1>1, AppInvariant, PTL

\* Every spinner has its call, and no form has two submissions under way.
THEOREM FlagsAreHonest == Spec => []FlagsHonest
<1>1. AppInv => FlagsHonest
  <2>. SUFFICES ASSUME AppInv PROVE FlagsHonest
    OBVIOUS
  <2>1. UsersInv /\ BucketsInv /\ ReportsInv /\ LoginInv
    BY DEF AppInv, PagesInv
  <2>2. \A K : Mine(K) \in SUBSET Slot
    BY MineSets
  <2>3. ASSUME page = "users"
        PROVE  /\ usersUi.loading => Mine({"users"}) # {}
               /\ Exactly(usersUi.saving, Mine({"create", "update"}))
               /\ Exactly(usersUi.submitting, Mine({"delete", "toggle", "token"}))
    BY <2>1, <2>2, <2>3, OneExactly DEF UsersInv, UsersShape, UsersFlags
  <2>4. ASSUME page = "buckets"
        PROVE  /\ bp.loading => Mine({"buckets", "analytics"}) # {}
               /\ Exactly(bp.creating, Mine({"makeBucket"}))
               /\ lc.loading => Mine({"lifecycle"}) # {}
               /\ Exactly(lc.saving, {n \in Mine(LcCalls) : ~calls[n].arg.closed})
               /\ vm.loading => Mine({"versions"}) # {}
               /\ vm.deleting # None => Mine({"deleteObject", "versions"}) # {}
    <3>1. OpenSaves \in SUBSET Slot
      BY <2>2 DEF OpenSaves
    <3>2. Exactly(lc.saving, OpenSaves)
      BY <2>1, <2>4, <3>1, OneExactly DEF BucketsInv, LcInv
    <3>3. Exactly(bp.creating, Mine({"makeBucket"})) /\ (bp.loading => Mine({"buckets", "analytics"}) # {})
      BY <2>1, <2>2, <2>4, OneExactly DEF BucketsInv, BpInv, ListCalls
    <3>4. Deletions \subseteq Mine({"deleteObject", "versions"})
      BY MineSets DEF Deletions, VersionCalls
    <3>5. /\ lc.loading => Mine({"lifecycle"}) # {}
          /\ vm.loading => Mine({"versions"}) # {}
          /\ vm.deleting # None => Mine({"deleteObject", "versions"}) # {}
      BY <2>1, <2>4, <3>4 DEF BucketsInv, LcInv, VmInv
    <3>. QED BY <3>2, <3>3, <3>5 DEF OpenSaves
  <2>5. page = "reports" /\ rp.loading => Mine({"logs"}) # {}
    BY <2>1 DEF ReportsInv
  <2>6. page = "login" => Exactly(login.submitting, Mine({"login"}))
    BY <2>1, <2>2, OneExactly DEF LoginInv
  <2>. QED BY <2>3, <2>4, <2>5, <2>6 DEF FlagsHonest
<1>. QED BY <1>1, AppInvariant, PTL

\* A token that is shown belongs to the user the dialog is about (Users.tsx:97-110).
THEOREM TokenBelongs == Spec => []TokenOfDialog
<1>1. AppInv => TokenOfDialog
  BY DEF AppInv, PagesInv, NoTokenAway, UsersInv, UsersToken, TokenOfDialog
<1>. QED BY <1>1, AppInvariant, PTL

-----------------------------------------------------------------------------
(* What a step of the session leaves of the calls and of the pages *)

\* A call and what is left of it when its page is left.
Heir(c, d) == d.kind = c.kind /\ d.arg = c.arg /\ d.served = c.served /\ d.answer = c.answer

\* Of the calls under way, rest has those that outlive their page.
Carried(rest) ==
    \A n \in Slot : rest[n].kind \in PageCalls => /\ Heir(calls[n], rest[n])
                                                  /\ rest[n].gone /\ rest[n].kind \in Changing

LEMMA AbandonedCarried ==
  ASSUME Calls
  PROVE  Carried(Abandoned) /\ Carried(Unread) /\ \A n \in Slot : Carried(Without(n))
<1>1. ASSUME NEW n \in Slot, Abandoned[n].kind \in PageCalls
      PROVE  Heir(calls[n], Abandoned[n]) /\ Abandoned[n].gone /\ Abandoned[n].kind \in Changing
  <2>1. PICK c : c = calls[n]
    OBVIOUS
  <2>2. Abandoned[n] = Left(c) /\ IsCall(c)
    BY <2>1 DEF Abandoned, Calls
  <2>3. CASE c.kind # "logout" /\ c.kind \in Changing /\ ~c.served
    <3>1. PICK d : d = [c EXCEPT !.gone = TRUE]
      OBVIOUS
    <3>2. Proper(c)
      BY <2>2, <2>3 DEF IsCall, NoCall, Changing
    <3>3. DOMAIN c = {"kind", "arg", "as", "served", "answer", "gone"}
      BY <3>2, ProperFields
    <3>4. /\ d.kind = c.kind /\ d.arg = c.arg /\ d.served = c.served /\ d.answer = c.answer /\ d.gone = TRUE
      BY <3>1, <3>3
    <3>5. Left(c) = d
      BY <2>3, <3>1, Zenon DEF Left
    <3>. QED BY <2>1, <2>2, <2>3, <3>4, <3>5 DEF Heir
  <2>4. CASE c.kind = "logout"
    BY <1>1, <2>2, <2>4, Kinds DEF Left
  <2>5. CASE c.kind # "logout" /\ ~(c.kind \in Changing /\ ~c.served)
    <3>1. Left(c) = NoCall
      BY <2>5, Zenon DEF Left
    <3>. QED BY <1>1, <2>2, <3>1, Kinds DEF Kind
  <2>. QED BY <2>3, <2>4, <2>5
<1>2. Carried(Abandoned)
  BY <1>1 DEF Carried
<1>3. NoCall.kind \notin PageCalls
  BY Kinds DEF Kind
<1>4. Carried(Unread)
  <2>1. \A n \in Slot : Unread[n] = NoCall \/ Unread[n] = Abandoned[n]
    BY DEF Unread
  <2>. QED BY <1>2, <1>3, <2>1 DEF Carried
<1>5. ASSUME NEW n \in Slot PROVE Carried(Without(n))
  <2>1. \A m \in Slot : Without(n)[m] = NoCall \/ Without(n)[m] = Abandoned[m]
    BY DEF Without, Abandoned
  <2>. QED BY <1>2, <1>3, <2>1 DEF Carried
<1>. QED BY <1>2, <1>4, <1>5

\* At most one slot is the first.
LEMMA RankOnly ==
  ASSUME NEW S \in SUBSET Slot, NEW n \in S, NEW m \in S,
         Cardinality({k \in S : k <= n}) <= 1, Cardinality({k \in S : k <= m}) <= 1
  PROVE  n = m
<1>1. \A k \in S : k \in Nat
  BY SlotsFinite
<1>2. ASSUME NEW i \in S, NEW j \in S, i < j, Cardinality({k \in S : k <= j}) <= 1 PROVE FALSE
  <2>. DEFINE R == {k \in S : k <= j}
  <2>1. {i} \union {j} \subseteq R /\ i # j
    BY <1>1, <1>2
  <2>2. IsFiniteSet(R)
    BY SlotsFinite
  <2>3. Cardinality({i} \union {j}) = 2
    <3>1. PICK T : T = {i}
      OBVIOUS
    <3>2. IsFiniteSet(T) /\ Cardinality(T) = 1 /\ j \notin T
      BY <2>1, <3>1, FS_Singleton
    <3>3. Cardinality(T \union {j}) = Cardinality(T) + 1
      BY <3>2, FS_AddElement
    <3>. QED BY <3>1, <3>2, <3>3
  <2>4. Cardinality({i} \union {j}) <= Cardinality(R) /\ Cardinality(R) \in Nat
    BY <2>1, <2>2, FS_Subset, FS_CardinalityType
  <2>. QED BY <1>2, <2>3, <2>4
<1>3. n < m \/ m < n \/ n = m
  BY <1>1
<1>. QED BY <1>2, <1>3

\* Buckets.tsx asks for one listing, which ends no deletion.
LEMMA MountLists ==
  ASSUME NEW who, NEW rest, Leftover(rest, {"me"}), Mount("buckets", who, rest)
  PROVE  \E n \in Slot : Mine(ListCalls)' = {n} /\ calls'[n].arg = None /\ ~calls'[n].served
<1>. DEFINE free == {n \in Slot : rest[n].kind = "none"}
            Rank(n) == Cardinality({m \in free : m <= n})
<1>1. PICK asked : asked = Effects("buckets", who)
  OBVIOUS
<1>2. PICK c : c = CallAs(who, "buckets", None)
  OBVIOUS
<1>3. asked = <<c>> /\ Len(asked) = 1 /\ asked[1] = c
  BY <1>1, <1>2 DEF Effects
<1>4. c.kind = "buckets" /\ c.arg = None /\ c.served = FALSE /\ c.gone = FALSE
  BY <1>2 DEF CallAs
<1>5. /\ Cardinality(free) >= Len(asked)
      /\ calls' = [n \in Slot |-> IF n \in free /\ Rank(n) <= Len(asked) THEN asked[Rank(n)] ELSE rest[n]]
  BY <1>1, Zenon DEF Mount
<1>6. Calls'
  BY MountEffect
<1>7. \A n \in free : Rank(n) \in Nat \ {0}
  BY RankPositive
<1>8. \E n \in free : Rank(n) = 1
  BY <1>3, <1>5, RankOne
<1>9. \A n, m \in free : Rank(n) <= 1 /\ Rank(m) <= 1 => n = m
  BY RankOnly
<1>10. free \subseteq Slot
  OBVIOUS
<1>. HIDE DEF free, Rank
<1>11. PICK n \in free : Rank(n) = 1
  BY <1>8
<1>12. n \in Slot /\ calls'[n] = c /\ \A m \in Slot \ {n} : calls'[m] = rest[m]
  <2>1. \A m \in Slot : m \in free /\ Rank(m) <= 1 => m = n
    BY <1>9, <1>11
  <2>. QED BY <1>3, <1>5, <1>10, <1>11, <2>1
<1>13. c # NoCall
  BY <1>4 DEF NoCall
<1>14. \A m \in Slot : rest[m] # NoCall /\ ~rest[m].gone => rest[m].kind \notin ListCalls
  BY DEF Leftover, ListCalls
<1>15. Mine(ListCalls)' = {m \in Slot : calls'[m] # NoCall /\ calls'[m].kind \in ListCalls /\ ~calls'[m].gone}
  BY <1>6, CallsKindNext
<1>16. Mine(ListCalls)' = {n}
  BY <1>4, <1>12, <1>13, <1>14, <1>15 DEF ListCalls
<1>. QED BY <1>4, <1>12, <1>16

\* What Users.tsx and Reports.tsx ask for when they are mounted.
Asking(c) ==
    /\ c.kind = "users" => c.arg = FirstRender /\ ~c.served
    /\ c.kind = "logs" => c.arg = FirstFilter /\ ~c.served

LEMMA MountAsks ==
  ASSUME NEW p, NEW who, NEW rest, Leftover(rest, {"me"}), Carried(rest), Mount(p, who, rest)
  PROVE  \A n \in Slot : Asking(calls'[n])
<1>. DEFINE free == {n \in Slot : rest[n].kind = "none"}
            Rank(n) == Cardinality({m \in free : m <= n})
<1>1. PICK asked : asked = Effects(p, who)
  OBVIOUS
<1>2. calls' = [n \in Slot |-> IF n \in free /\ Rank(n) <= Len(asked) THEN asked[Rank(n)] ELSE rest[n]]
  BY <1>1, Zenon DEF Mount
<1>3. \A n \in free : Rank(n) \in Nat \ {0}
  BY RankPositive
<1>4. Len(asked) \in Nat /\ \A i \in 1 .. Len(asked) : Asking(asked[i])
  <2>1. ASSUME NEW kind \in {"users", "logs"}, NEW arg, arg = IF kind = "users" THEN FirstRender ELSE FirstFilter,
               NEW c, c = CallAs(who, kind, arg)
        PROVE  Asking(c)
    BY <2>1 DEF CallAs, Asking
  <2>2. ASSUME NEW kind \in {"buckets", "logBuckets", "summary"}, NEW c, c = CallAs(who, kind, None) PROVE Asking(c)
    BY <2>2 DEF CallAs, Asking
  <2>3. CASE p = "users"
    <3>1. PICK c : c = CallAs(who, "users", FirstRender)
      OBVIOUS
    <3>2. asked = <<c>> /\ Asking(c)
      BY <1>1, <2>1, <2>3, <3>1 DEF Effects
    <3>. QED BY <3>2
  <2>4. CASE p = "reports"
    <3>1. PICK c, d : c = CallAs(who, "logBuckets", None) /\ d = CallAs(who, "logs", FirstFilter)
      OBVIOUS
    <3>2. asked = <<c, d>> /\ Asking(c) /\ Asking(d)
      BY <1>1, <2>1, <2>2, <2>4, <3>1 DEF Effects
    <3>. QED BY <3>2
  <2>5. CASE p \in {"buckets", "dashboard"}
    <3>1. PICK k \in {"buckets", "summary"} : asked = <<CallAs(who, k, None)>>
      BY <1>1, <2>5 DEF Effects
    <3>2. PICK c : c = CallAs(who, k, None)
      OBVIOUS
    <3>3. asked = <<c>> /\ Asking(c)
      BY <2>2, <3>1, <3>2
    <3>. QED BY <3>3
  <2>6. CASE p \notin {"users", "reports", "buckets", "dashboard"}
    <3>1. asked = <<>>
      BY <1>1, <2>6 DEF Effects
    <3>. QED BY <3>1
  <2>. QED BY <2>3, <2>4, <2>5, <2>6
<1>5. \A n \in Slot : Asking(rest[n])
  BY DEF Carried, Asking, Changing, PageCalls, UsersCalls, ReportsCalls
<1>. HIDE DEF free, Rank
<1>6. \A n \in free : Rank(n) <= Len(asked) => Rank(n) \in 1 .. Len(asked)
  BY <1>3, <1>4
<1>. QED BY <1>2, <1>4, <1>5, <1>6

\* The page is another, or is loaded again; of its calls only those that change something go on.
Moved ==
    /\ usersUi' = FreshUsers /\ bp' = [FreshBuckets EXCEPT !.tried = bp.tried] /\ lc' = FreshLifecycle(None)
    /\ rp' = FreshReports /\ \A n \in Slot : Asking(calls'[n])
    /\ \A n \in Slot : calls'[n].kind \in PageCalls \ {"users", "buckets", "logBuckets", "logs", "summary"} =>
          Heir(calls[n], calls'[n]) /\ calls'[n].gone
    /\ page' = "buckets" => \E n \in Slot : Mine(ListCalls)' = {n} /\ calls'[n].arg = None /\ ~calls'[n].served

\* The page stays, with all it has sent.
Stayed ==
    /\ page' = page /\ usersUi' = usersUi /\ bp' = bp /\ lc' = lc /\ rp' = rp
    /\ SameCalls(UsersCalls) /\ SameCalls(BucketsCalls) /\ SameCalls(ReportsCalls)

LEMMA MountMoves ==
  ASSUME NEW p, NEW who, NEW rest, Leftover(rest, {"me"}), Carried(rest), Mount(p, who, rest)
  PROVE  Moved
<1>1. /\ page' = p
      /\ \A n \in Slot :
            \/ calls'[n] = rest[n]
            \/ calls'[n].kind \in EffectKinds(p)
  BY MountEffect
<1>2. EffectKinds(p) \subseteq {"users", "buckets", "logBuckets", "logs", "summary"}
  BY DEF EffectKinds
<1>3. \A n \in Slot : calls'[n].kind \in PageCalls \ {"users", "buckets", "logBuckets", "logs", "summary"} =>
          Heir(calls[n], calls'[n]) /\ calls'[n].gone
  BY <1>1, <1>2 DEF Carried
<1>4. p = "buckets" => \E n \in Slot : Mine(ListCalls)' = {n} /\ calls'[n].arg = None /\ ~calls'[n].served
  BY MountLists
<1>5. /\ usersUi' = FreshUsers /\ bp' = [FreshBuckets EXCEPT !.tried = bp.tried] /\ lc' = FreshLifecycle(None)
      /\ rp' = FreshReports
  BY Zenon DEF Mount
<1>6. \A n \in Slot : Asking(calls'[n])
  BY MountAsks
<1>. QED BY <1>1, <1>3, <1>4, <1>5, <1>6 DEF Moved

LEMMA LoadMoves ==
  ASSUME NEW path, NEW rest, Leftover(rest, {}), Carried(rest), Load(path, rest)
  PROVE  Moved
<1>1. CASE tokens = "nobody"
  <2>1. Mount("login", tokens, rest)
    BY <1>1 DEF Load
  <2>. QED BY <2>1, MoreLeft, MountMoves
<1>2. CASE tokens # "nobody"
  <2>1. PICK n \in Slot : Mount("spinner", tokens, [rest EXCEPT ![n] = Call("me", path)])
    BY <1>2, Zenon DEF Load
  <2>2. PICK c : c = Call("me", path)
    OBVIOUS
  <2>3. c.kind = "me" /\ Proper(c)
    <3>1. PICK who : who = tokens
      OBVIOUS
    <3>2. c = CallAs(who, "me", path) /\ c.kind = "me" /\ "me" \in Kind
      BY <2>2, <3>1 DEF Call, CallAs, Kind
    <3>3. ArgOK(c)
      BY <3>2 DEF ArgOK, LcCalls
    <3>. QED BY <3>2, <3>3, FreshProper
  <2>4. PICK all : all = [rest EXCEPT ![n] = c]
    OBVIOUS
  <2>5. all = [m \in Slot |-> all[m]] /\ all[n] = c /\ \A m \in Slot \ {n} : all[m] = rest[m]
    BY <2>4 DEF Leftover
  <2>6. Leftover(all, {"me"})
    BY <2>3, <2>5 DEF Leftover, IsCall
  <2>7. Carried(all)
    BY <2>3, <2>5, Kinds DEF Carried
  <2>8. PICK who : who = tokens
    OBVIOUS
  <2>9. Mount("spinner", who, all)
    BY <2>1, <2>2, <2>4, <2>8
  <2>. QED BY <2>6, <2>7, <2>9, MountMoves
<1>. QED BY <1>1, <1>2

LEMMA AuthMoves ==
  ASSUME AppInv, Auth
  PROVE  dbVars' = dbVars /\ (Moved \/ Stayed)
<1>1. dbVars' = dbVars
  BY DEF Auth
<1>2. Calls /\ CallsOK
  BY DEF AppInv, CallsOK
<1>3. /\ Leftover(Abandoned, {"me"}) /\ \A n \in Slot : Leftover(Without(n), {"me"})
      /\ Carried(Abandoned) /\ Carried(Unread) /\ \A n \in Slot : Carried(Without(n))
      /\ Leftover(Unread, {})
  BY <1>2, AbandonedEffect, AbandonedCarried, MoreLeft
<1>4. ASSUME NEW p, NEW who, Mount(p, who, Abandoned) PROVE Moved
  BY <1>3, <1>4, MountMoves
<1>5. ASSUME NEW p, NEW who, NEW n \in Slot, Mount(p, who, Without(n)) PROVE Moved
  BY <1>3, <1>5, MountMoves
<1>6. UsersCalls \subseteq Kind /\ BucketsCalls \subseteq Kind /\ ReportsCalls \subseteq Kind
  BY UsersKinds, BucketsKinds DEF Kind, PageCalls
<1>7. ASSUME NEW kind \in {"login", "logout"}, Send(kind, None), whoVars' = whoVars,
             usersUi' = usersUi, bp' = bp, lc' = lc, rp' = rp
      PROVE  Stayed
  <2>1. /\ kind \in Kind \ (LcCalls \union {"versions"})
        /\ kind \notin UsersCalls /\ kind \notin BucketsCalls /\ kind \notin ReportsCalls
    BY DEF Kind, LcCalls, UsersCalls, BucketsCalls, ReportsCalls
  <2>2. ArgOK(Call(kind, None))
    BY <2>1, PlainArg
  <2>3. \A K : K \subseteq Kind /\ kind \notin K => SameCalls(K)
    BY <1>2, <1>7, <2>1, <2>2, SendOK
  <2>. QED BY <1>6, <1>7, <2>1, <2>3 DEF Stayed, whoVars
<1>8. ASSUME NEW n \in Slot, NEW kind \in {"login", "logout", "summary"}, n \in Mine({kind}), Forget(n), page' = page,
             usersUi' = usersUi, bp' = bp, lc' = lc, rp' = rp
      PROVE  Stayed
  <2>1. calls[n].kind \notin UsersCalls /\ calls[n].kind \notin BucketsCalls /\ calls[n].kind \notin ReportsCalls
    BY <1>8 DEF Mine, UsersCalls, BucketsCalls, ReportsCalls
  <2>2. SameCalls(UsersCalls) /\ SameCalls(BucketsCalls) /\ SameCalls(ReportsCalls)
    BY <1>2, <1>6, <1>8, <2>1, SameForget
  <2>. QED BY <1>8, <2>2 DEF Stayed
<1>9. SubmitLogin => Stayed
  BY <1>7 DEF SubmitLogin
<1>10. ClickLogout => Moved \/ Stayed
  <2>1. ASSUME ClickLogout, Send("logout", None), whoVars' = whoVars, pageVars' = pageVars PROVE Stayed
    BY <1>7, <2>1 DEF pageVars
  <2>. QED BY <1>4, <2>1 DEF ClickLogout
<1>11. ReloadPage => Moved
  BY <1>3, LoadMoves DEF ReloadPage
<1>12. \A p \in Protected : Navigate(p) => Moved
  BY <1>4 DEF Navigate
<1>13. ASSUME NEW n \in Slot PROVE UserLoaded(n) \/ UserNotLoaded(n) \/ LoggedIn(n) => Moved
  <2>1. UserLoaded(n) \/ UserNotLoaded(n) \/ LoggedIn(n) => \E p, who : Mount(p, who, Without(n))
    <3>1. UserLoaded(n) => \E p, who : Mount(p, who, Without(n))
      BY Zenon DEF UserLoaded
    <3>2. PICK who : who = tokens'
      OBVIOUS
    <3>3. UserNotLoaded(n) => Mount("login", who, Without(n))
      BY <3>2 DEF UserNotLoaded
    <3>4. LoggedIn(n) => Mount("dashboard", who, Without(n))
      BY <3>2 DEF LoggedIn
    <3>. QED BY <3>1, <3>3, <3>4
  <2>. QED BY <1>5, <2>1
<1>14. ASSUME NEW n \in Slot, LoginFails(n) PROVE Stayed
  BY <1>8, <1>14 DEF LoginFails, Failing, whoVars
<1>15. ASSUME NEW n \in Slot, SummaryDone(n) PROVE Stayed
  BY <1>8, <1>15 DEF SummaryDone, Failing, whoVars
<1>16. ASSUME NEW n \in Slot, LogoutDone(n) PROVE Moved \/ Stayed
  <2>1. PICK who : who = tokens'
    OBVIOUS
  <2>2. n \in Mine({"logout"})
    BY <1>16 DEF LogoutDone, Failing
  <2>3. \/ Mount("login", who, Without(n))
        \/ Forget(n) /\ page' = page /\ usersUi' = usersUi /\ bp' = bp /\ lc' = lc /\ rp' = rp
    BY <1>16, <2>1 DEF LogoutDone, pageVars
  <2>. QED BY <1>5, <1>8, <2>2, <2>3
<1>. QED
  BY <1>1, <1>9, <1>10, <1>11, <1>12, <1>13, <1>14, <1>15, <1>16 DEF Auth

-----------------------------------------------------------------------------
(* Which calls the server answers *)

\* Of the kinds K there are no calls but those there were.
Fewer(K) == \A n \in Slot : calls'[n].kind \in K => calls'[n] = calls[n]

LEMMA ServedElsewhere ==
  ASSUME CallsOK, NEW n \in Slot, NEW k \in Kind, NEW a, Arriving(n, k), Served(n, a),
         NEW K \in SUBSET Kind, k \notin K
  PROVE  Fewer(K)
<1>1. calls[n] # NoCall /\ calls[n].kind = k
  BY CallsKind DEF Arriving, CallsOK
<1>2. /\ \A m \in Slot \ {n} : calls'[m] = calls[m]
      /\ calls'[n] = NoCall \/ calls'[n].kind = k
  BY <1>1, ServedEffect DEF CallsOK
<1>. QED BY <1>2, Kinds DEF Fewer

LEMMA ServerParts ==
  ASSUME CallsOK, NEW n \in Slot, Server(n)
  PROVE  \/ UsersServer(n) /\ UNCHANGED <<buckets, objects, config>> /\ Fewer(BucketsCalls)
         \/ BucketsServer(n) /\ UNCHANGED <<accounts, made>> /\ Fewer(UsersCalls)
         \/ UNCHANGED <<accounts, made, buckets, objects, config>> /\ Fewer(UsersCalls) /\ Fewer(BucketsCalls)
<1>. USE DEF Kind, PageCalls, UsersCalls, BucketsCalls, ReportsCalls
<1>0. UsersCalls \in SUBSET Kind /\ BucketsCalls \in SUBSET Kind
  OBVIOUS
<1>1. UsersServer(n) => Fewer(BucketsCalls)
  <2>. SUFFICES ASSUME UsersServer(n) PROVE Fewer(BucketsCalls)
    OBVIOUS
  <2>1. PICK k \in UsersCalls : \E a : Arriving(n, k) /\ Served(n, a)
    BY Zenon DEF UsersServer, ListUsers, CreateUser, UpdateUser, DeleteUser, ToggleUser, GenerateToken
  <2>. QED BY <1>0, <2>1, ServedElsewhere
<1>2. BucketsServer(n) => Fewer(UsersCalls)
  <2>. SUFFICES ASSUME BucketsServer(n) PROVE Fewer(UsersCalls)
    OBVIOUS
  <2>1. PICK k \in BucketsCalls : \E a : Arriving(n, k) /\ Served(n, a)
    BY Zenon DEF BucketsServer, ListBuckets, ListAnalytics, CreateBucket, DeleteBucket, LifecycleServer, GetLifecycle,
                 UpdateLifecycle, DeleteLifecycle, VersionServer, ListObjectVersions, DeleteObject
  <2>. QED BY <1>0, <2>1, ServedElsewhere
<1>3. ReportsServer(n) \/ AuthServer(n) => Fewer(UsersCalls) /\ Fewer(BucketsCalls)
  <2>. SUFFICES ASSUME ReportsServer(n) \/ AuthServer(n) PROVE Fewer(UsersCalls) /\ Fewer(BucketsCalls)
    OBVIOUS
  <2>1. PICK k \in {"logs", "logBuckets", "me", "login", "logout", "summary"} : \E a : Arriving(n, k) /\ Served(n, a)
    BY Zenon DEF ReportsServer, ListLogs, ListLogBuckets, AuthServer, Me, LoginServed, LogoutServed, Summary
  <2>2. k \in Kind /\ k \notin UsersCalls /\ k \notin BucketsCalls
    OBVIOUS
  <2>. QED BY <1>0, <2>1, <2>2, ServedElsewhere
<1>4. Vanish(n) => Fewer(UsersCalls) /\ Fewer(BucketsCalls)
  BY ForgetEffect, Kinds DEF Vanish, Fewer, CallsOK
<1>. QED BY <1>1, <1>2, <1>3, <1>4 DEF Server, dbVars

-----------------------------------------------------------------------------
(* The rules of a bucket *)

\* The rules of the form are those that were read.
ReadAs(rules, got) == DOMAIN rules = DOMAIN got /\ \A i \in DOMAIN got : rules[i] = ReadRule(got[i])

\* What a form holds that is loaded, or failed to load, and was changed by hand or was not.
FormOK(f) ==
    /\ f.rules \in Seq(Rule) /\ f.got \in Seq(Rule)
    /\ f.read \in {"none", "ok", "failed"} /\ (f.read = "none" => f.loading \/ f.bucket = None)
    /\ f.read = "ok" /\ ~f.touched => f.enabled /\ ReadAs(f.rules, f.got)

\* A saving has the rules of its form, which has been loaded.
SavingOK(c) ==
    /\ c.arg.bucket \in Bucket /\ c.arg.rules = c.arg.form.rules
    /\ FormOK(c.arg.form) /\ c.arg.form.read # "none"
    /\ c.kind = "dropLifecycle" => ~c.arg.form.enabled \/ c.arg.rules = <<>>
RulesCall(c) ==
    /\ c.kind = "lifecycle" => c.arg \in Bucket /\ (c.served => c.answer \in Seq(Rule))
    /\ c.kind \in LcCalls => SavingOK(c)

RulesInv ==
    /\ config \in [Bucket -> Seq(Rule)]
    /\ FormOK(lc) /\ lc.bucket \in Bucket \union {None}
    /\ \A n \in Slot : RulesCall(calls[n])

\* What RulesKept says of a step.
RulesStep ==
    \A n \in Slot : Serving(n, LcCalls) =>
        LET c == calls[n].arg
        IN  ~c.form.touched /\ c.form.read # "failed" =>
              c.form.read = "ok" /\ SameDays(config'[c.bucket], c.form.got)

\* The calls of the dialog are as good as they were, and none is answered.
RulesCalls ==
    \A n \in Slot : calls'[n].kind \in LifecycleCalls =>
        RulesCall(calls'[n]) /\ (calls'[n].kind = calls[n].kind => calls'[n].served = calls[n].served)

LEMMA RulesFrame ==
  ASSUME config' \in [Bucket -> Seq(Rule)], FormOK(lc'), lc'.bucket \in Bucket \union {None}, RulesCalls
  PROVE  RulesInv' /\ RulesStep
<1>1. \A n \in Slot : RulesCall(calls'[n])
  BY DEF RulesCalls, RulesCall, LifecycleCalls, LcCalls
<1>2. RulesInv'
  BY <1>1 DEF RulesInv
<1>3. \A n \in Slot : ~Serving(n, LcCalls)
  BY BucketsKinds DEF RulesCalls, Serving
<1>. QED BY <1>2, <1>3 DEF RulesStep

LEMMA HeirRules ==
  ASSUME NEW c, NEW d, RulesCall(c), Heir(c, d)
  PROVE  RulesCall(d)
BY DEF RulesCall, Heir, SavingOK

LEMMA ClosedFormOK == FormOK(FreshLifecycle(None)) /\ FreshLifecycle(None).bucket = None
BY EmptySeq DEF FormOK, FreshLifecycle

\* The dialog is closed, or is left alone.
LEMMA RulesAway ==
  ASSUME RulesInv, config' = config, lc' = lc \/ lc' = FreshLifecycle(None),
         \A n \in Slot : calls'[n].kind \in LifecycleCalls => Heir(calls[n], calls'[n])
  PROVE  RulesInv' /\ RulesStep
<1>1. RulesCalls
  <2>1. ASSUME NEW n \in Slot, calls'[n].kind \in LifecycleCalls
        PROVE  RulesCall(calls'[n]) /\ (calls'[n].kind = calls[n].kind => calls'[n].served = calls[n].served)
    <3>1. Heir(calls[n], calls'[n]) /\ RulesCall(calls[n])
      BY <2>1 DEF RulesInv
    <3>. QED BY <3>1, HeirRules DEF Heir
  <2>. QED BY <2>1 DEF RulesCalls
<1>2. FormOK(lc') /\ lc'.bucket \in Bucket \union {None}
  BY ClosedFormOK DEF RulesInv
<1>3. config' \in [Bucket -> Seq(Rule)]
  BY DEF RulesInv
<1>. QED BY <1>1, <1>2, <1>3, RulesFrame

LEMMA FewerHeirs ==
  ASSUME NEW K, NEW J, J \subseteq K, Fewer(K)
  PROVE  \A n \in Slot : calls'[n].kind \in J => Heir(calls[n], calls'[n])
BY DEF Fewer, Heir

LEMMA SameFewer == \A K : SameCalls(K) => Fewer(K)
BY DEF SameCalls, Fewer

\* A call is over.
LEMMA ForgottenRules ==
  ASSUME CallsOK, RulesInv, NEW n \in Slot, Forget(n)
  PROVE  RulesCalls
<1>1. calls'[n] = NoCall /\ \A m \in Slot \ {n} : calls'[m] = calls[m]
  BY ForgetEffect DEF CallsOK
<1>. QED BY <1>1, Kinds, BucketsKinds DEF RulesCalls, RulesInv

\* The savings are shut but for those of X, which are over, and so is the loading.
LEMMA ShutRules ==
  ASSUME CallsOK, RulesInv,
         \A m \in Slot : \/ calls'[m] = NoCall
                         \/ calls[m].kind \in LcCalls /\ calls'[m] = Shut(calls[m])
                         \/ calls[m].kind \notin LifecycleCalls /\ calls'[m] = calls[m]
  PROVE  RulesCalls
<1>1. ASSUME NEW m \in Slot, calls[m].kind \in LcCalls, calls'[m] = Shut(calls[m])
      PROVE  RulesCall(calls'[m]) /\ calls'[m].served = calls[m].served
  <2>1. PICK c, d : c = calls[m] /\ d = Shut(c)
    OBVIOUS
  <2>2. Proper(c) /\ c.kind \in LcCalls /\ SavingOK(c)
    BY <1>1, <2>1, CallsKind, BucketsKinds DEF CallsOK, RulesInv, RulesCall
  <2>3. /\ d.kind = c.kind /\ d.served = c.served
        /\ d.arg.bucket = c.arg.bucket /\ d.arg.rules = c.arg.rules /\ d.arg.form = c.arg.form
    BY <2>1, <2>2, ClosedProper
  <2>4. SavingOK(d) /\ d.kind # "lifecycle"
    BY <2>2, <2>3 DEF SavingOK, LcCalls
  <2>. QED BY <1>1, <2>1, <2>3, <2>4 DEF RulesCall
<1>2. \A m \in Slot : calls'[m].kind \in LifecycleCalls =>
          calls[m].kind \in LcCalls /\ calls'[m] = Shut(calls[m])
  BY Kinds, BucketsKinds
<1>. QED BY <1>1, <1>2 DEF RulesCalls

\* A call is sent.
LEMMA SentRules ==
  ASSUME CallsOK, RulesInv, NEW k \in Kind, NEW w, Send(k, w), ArgOK(Call(k, w)),
         \A c : c.kind = k /\ c.arg = w /\ ~c.served => RulesCall(c)
  PROVE  RulesCalls
<1>1. PICK n \in Slot :
            /\ calls[n] = NoCall /\ calls'[n].kind = k /\ calls'[n].arg = w /\ ~calls'[n].served
            /\ \A m \in Slot \ {n} : calls'[m] = calls[m]
  BY SendEffect DEF CallsOK
<1>2. RulesCall(calls'[n]) /\ calls'[n].kind # calls[n].kind
  BY <1>1, Kinds
<1>. QED BY <1>1, <1>2 DEF RulesCalls, RulesInv

\* The form is changed by hand.
LEMMA EditRules ==
  ASSUME BucketsInv, RulesInv, config' = config, NEW en, NEW ru \in Seq(Rule), LcEdit(en, ru)
  PROVE  RulesInv' /\ RulesStep
<1>1. lc' = [lc EXCEPT !.enabled = en, !.rules = ru, !.touched = TRUE] /\ calls' = calls
  BY DEF LcEdit, LcDo, Quiet
<1>2. /\ lc'.bucket = lc.bucket /\ lc'.loading = lc.loading /\ lc'.rules = ru /\ lc'.got = lc.got
      /\ lc'.read = lc.read /\ lc'.touched = TRUE
  BY <1>1 DEF BucketsInv, LcInv, LcFields
<1>3. FormOK(lc') /\ lc'.bucket \in Bucket \union {None}
  BY <1>2 DEF RulesInv, FormOK
<1>4. RulesCalls /\ config' \in [Bucket -> Seq(Rule)]
  BY <1>1 DEF RulesCalls, RulesInv
<1>. QED BY <1>3, <1>4, RulesFrame

LEMMA RulesCut ==
  ASSUME NEW S, NEW s \in Seq(S), NEW i \in DOMAIN s
  PROVE  SubSeq(s, 1, i - 1) \o SubSeq(s, i + 1, Len(s)) \in Seq(S)
<1>1. i \in 1 .. Len(s) /\ Len(s) \in Nat
  BY LenProperties
<1>2. \A j \in 1 .. Len(s) : s[j] \in S
  BY ElementOfSeq
<1>3. SubSeq(s, 1, i - 1) \in Seq(S) /\ SubSeq(s, i + 1, Len(s)) \in Seq(S)
  BY <1>1, <1>2, SubSeqProperties
<1>. QED BY <1>3, ConcatProperties

LEMMA LcUserRules ==
  ASSUME CallsOK, BucketsInv, RulesInv, config' = config,
         LifecycleUser \/ (\E b \in Bucket : lc' = FreshLifecycle(b) /\ Send("lifecycle", b))
  PROVE  RulesInv' /\ RulesStep
<1>1. lc.rules \in Seq(Rule) /\ DOMAIN lc = LcFields
  BY DEF RulesInv, FormOK, BucketsInv, LcInv
<1>2. CASE Toggle
  <2>1. PICK en, ru : LcEdit(en, ru) /\ (ru = <<>> \/ ru = lc.rules)
    BY <1>2, Zenon DEF Toggle
  <2>2. ru \in Seq(Rule)
    BY <1>1, <2>1, EmptySeq
  <2>. QED BY <2>1, <2>2, EditRules
<1>3. CASE AddRule
  <2>1. NewRule \in Rule
    BY DEF NewRule, Rule, Days
  <2>2. Append(lc.rules, NewRule) \in Seq(Rule) /\ LcEdit(TRUE, Append(lc.rules, NewRule))
    BY <1>1, <1>3, <2>1, AppendProperties DEF AddRule
  <2>. QED BY <2>2, EditRules
<1>4. ASSUME NEW i, RemoveRule(i) PROVE RulesInv' /\ RulesStep
  <2>1. PICK rest : /\ rest = SubSeq(lc.rules, 1, i - 1) \o SubSeq(lc.rules, i + 1, Len(lc.rules))
                    /\ i \in DOMAIN lc.rules /\ LcEdit(lc.enabled /\ rest # <<>>, rest)
    BY <1>4, Zenon DEF RemoveRule
  <2>2. PICK rules : rules = lc.rules
    OBVIOUS
  <2>3. rest \in Seq(Rule)
    BY <1>1, <2>1, <2>2, RulesCut
  <2>. QED BY <2>1, <2>3, EditRules
<1>5. ASSUME NEW i, NEW rule \in Rule, UpdateRule(i, rule) PROVE RulesInv' /\ RulesStep
  <2>1. PICK ru : i \in DOMAIN lc.rules /\ ru = [lc.rules EXCEPT ![i] = rule] /\ LcEdit(lc.enabled, ru)
    BY <1>5, Zenon DEF UpdateRule
  <2>2. i \in 1 .. Len(lc.rules)
    BY <1>1, <2>1, LenProperties
  <2>3. ru \in Seq(Rule)
    BY <1>1, <2>1, <2>2, ExceptSeq
  <2>. QED BY <2>1, <2>3, EditRules
<1>6. CASE SaveLifecycle
  <2>1. PICK k, w : /\ k = IF lc.enabled /\ lc.rules # <<>> THEN "putLifecycle" ELSE "dropLifecycle"
                    /\ w = [bucket |-> lc.bucket, rules |-> lc.rules, form |-> lc, closed |-> FALSE]
                    /\ Send(k, w) /\ lc' = [lc EXCEPT !.saving = TRUE] /\ lc.bucket # None /\ ~lc.loading
    BY <1>6, Zenon DEF SaveLifecycle, CanSave, LcIdle, LcDo
  <2>2. /\ lc'.bucket = lc.bucket /\ lc'.loading = lc.loading /\ lc'.rules = lc.rules /\ lc'.got = lc.got
        /\ lc'.read = lc.read /\ lc'.touched = lc.touched /\ lc'.enabled = lc.enabled
    BY <1>1, <2>1 DEF LcFields
  <2>3. FormOK(lc') /\ lc'.bucket \in Bucket \union {None}
    BY <2>2 DEF RulesInv, FormOK
  <2>4. w.bucket = lc.bucket /\ w.rules = lc.rules /\ w.form = lc /\ w.closed = FALSE
    BY <2>1
  <2>5. k \in LcCalls /\ k \in Kind
    BY <2>1, BucketsKinds DEF LcCalls
  <2>6. ArgOK(Call(k, w))
    <3>1. PICK c : c = Call(k, w)
      OBVIOUS
    <3>2. c.kind = k /\ c.arg = w
      BY <3>1 DEF Call, CallAs
    <3>3. w = [bucket |-> w.bucket, rules |-> w.rules, form |-> w.form, closed |-> w.closed]
      BY <2>1
    <3>. QED BY <2>4, <2>5, <3>1, <3>2, <3>3 DEF ArgOK, LcCalls
  <2>7. ASSUME NEW c, c.kind = k, c.arg = w PROVE RulesCall(c)
    <3>1. lc.bucket \in Bucket /\ FormOK(lc) /\ lc.read # "none"
      BY <2>1 DEF RulesInv, FormOK
    <3>2. k = "dropLifecycle" => ~lc.enabled \/ lc.rules = <<>>
      BY <2>1
    <3>3. k # "lifecycle"
      BY <2>5 DEF LcCalls
    <3>. QED BY <2>4, <2>7, <3>1, <3>2, <3>3 DEF RulesCall, SavingOK
  <2>8. RulesCalls
    BY <2>1, <2>5, <2>6, <2>7, SentRules
  <2>9. config' \in [Bucket -> Seq(Rule)]
    BY DEF RulesInv
  <2>. QED BY <2>3, <2>8, <2>9, RulesFrame
<1>7. CASE CloseLifecycle
  <2>1. lc' = FreshLifecycle(None) /\ config' \in [Bucket -> Seq(Rule)]
    BY <1>7 DEF CloseLifecycle, LcDo, RulesInv
  <2>2. calls' = [m \in Slot |->
                   CASE calls[m].kind = "lifecycle" -> NoCall
                     [] calls[m].kind \in LcCalls   -> Shut(calls[m])
                     [] OTHER                       -> calls[m]]
    BY <1>7, Zenon DEF CloseLifecycle, Shut
  <2>3. \A m \in Slot : \/ calls'[m] = NoCall
                        \/ calls[m].kind \in LcCalls /\ calls'[m] = Shut(calls[m])
                        \/ calls[m].kind \notin LifecycleCalls /\ calls'[m] = calls[m]
    BY <2>2 DEF LcCalls, LifecycleCalls
  <2>4. RulesCalls
    BY <2>3, ShutRules
  <2>. QED BY <2>1, <2>4, ClosedFormOK, RulesFrame
<1>8. ASSUME NEW b \in Bucket, lc' = FreshLifecycle(b), Send("lifecycle", b) PROVE RulesInv' /\ RulesStep
  <2>1. FormOK(lc') /\ lc'.bucket \in Bucket \union {None}
    <3>1. FormOK(FreshLifecycle(b)) /\ FreshLifecycle(b).bucket = b
      BY EmptySeq, BrowserAssumption DEF FormOK, FreshLifecycle
    <3>. QED BY <1>8, <3>1
  <2>2. "lifecycle" \in Kind \ (LcCalls \union {"versions"})
    BY BucketsKinds DEF LcCalls, BucketsCalls
  <2>3. ArgOK(Call("lifecycle", b))
    BY <2>2, PlainArg
  <2>4. RulesCalls
    <3>1. \A c : c.kind = "lifecycle" /\ c.arg = b /\ ~c.served => RulesCall(c)
      BY <2>2 DEF RulesCall
    <3>. QED BY <1>8, <2>2, <2>3, <3>1, SentRules
  <2>5. config' \in [Bucket -> Seq(Rule)]
    BY DEF RulesInv
  <2>. QED BY <2>1, <2>4, <2>5, RulesFrame
<1>. QED BY <1>2, <1>3, <1>4, <1>5, <1>6, <1>7, <1>8 DEF LifecycleUser

LEMMA ReadRules ==
  ASSUME NEW got \in Seq(Rule), NEW rules, rules = [i \in DOMAIN got |-> ReadRule(got[i])]
  PROVE  rules \in Seq(Rule) /\ ReadAs(rules, got)
<1>1. Len(got) \in Nat /\ DOMAIN got = 1 .. Len(got) /\ \A i \in 1 .. Len(got) : got[i] \in Rule
  BY LenProperties, ElementOfSeq
<1>2. \A rule \in Rule : ReadRule(rule) \in Rule
  BY DEF Rule, ReadRule
<1>3. rules \in [1 .. Len(got) -> Rule]
  BY <1>1, <1>2
<1>4. rules \in Seq(Rule)
  BY <1>1, <1>3
<1>. QED BY <1>4 DEF ReadAs

LEMMA LcAnswerRules ==
  ASSUME CallsOK, BucketsInv, RulesInv, config' = config, NEW n \in Slot, LifecycleAnswer(n)
  PROVE  RulesInv' /\ RulesStep
<1>1. DOMAIN lc = LcFields /\ config' \in [Bucket -> Seq(Rule)]
      /\ lc.rules \in Seq(Rule) /\ lc.got \in Seq(Rule) /\ FormOK(lc) /\ lc.bucket \in Bucket \union {None}
  BY DEF RulesInv, FormOK, BucketsInv, LcInv
<1>2. CASE LifecycleLoaded(n)
  <2>1. PICK got : got = calls[n].answer
    OBVIOUS
  <2>2. PICK legible : legible = \A i \in DOMAIN got : got[i].noncurrent # 0
    OBVIOUS
  <2>3. PICK rules : rules = IF legible THEN [i \in DOMAIN got |-> ReadRule(got[i])] ELSE <<>>
    OBVIOUS
  <2>4. PICK read : read = IF legible THEN "ok" ELSE "failed"
    OBVIOUS
  <2>5. /\ lc' = [lc EXCEPT !.loading = FALSE, !.enabled = legible, !.got = got, !.rules = rules, !.read = read]
        /\ n \in Mine({"lifecycle"}) /\ calls[n].served /\ Forget(n)
    BY <1>2, <2>1, <2>2, <2>3, <2>4, Zenon DEF LifecycleLoaded, LcThen, Answered
  <2>6. got \in Seq(Rule)
    <3>1. calls[n].kind = "lifecycle"
      BY <2>5 DEF Mine
    <3>. QED BY <2>1, <2>5, <3>1 DEF RulesInv, RulesCall
  <2>7. rules \in Seq(Rule) /\ (legible => ReadAs(rules, got))
    <3>1. CASE legible
      BY <2>3, <2>6, <3>1, ReadRules
    <3>2. CASE ~legible
      BY <2>3, <3>2, EmptySeq
    <3>. QED BY <3>1, <3>2
  <2>8. /\ lc'.enabled = legible /\ lc'.got = got /\ lc'.rules = rules /\ lc'.read = read
        /\ lc'.bucket = lc.bucket
    <3>1. lc'.enabled = legible /\ lc'.got = got /\ lc'.rules = rules
      BY <1>1, <2>5 DEF LcFields
    <3>2. lc'.read = read /\ lc'.bucket = lc.bucket
      BY <1>1, <2>5 DEF LcFields
    <3>. QED BY <3>1, <3>2
  <2>9. FormOK(lc') /\ lc'.bucket \in Bucket \union {None}
    BY <1>1, <2>4, <2>6, <2>7, <2>8 DEF FormOK
  <2>10. RulesCalls
    BY <2>5, ForgottenRules
  <2>. QED BY <1>1, <2>9, <2>10, RulesFrame
<1>3. CASE LifecycleFails(n)
  <2>1. /\ lc' = [lc EXCEPT !.loading = FALSE, !.enabled = FALSE, !.rules = <<>>, !.read = "failed"]
        /\ Forget(n)
    BY <1>3, Zenon DEF LifecycleFails, LcThen
  <2>2. lc'.got = lc.got /\ lc'.rules = <<>> /\ lc'.read = "failed" /\ lc'.bucket = lc.bucket
    BY <1>1, <2>1 DEF LcFields
  <2>3. FormOK(lc') /\ lc'.bucket \in Bucket \union {None}
    BY <1>1, <2>2, EmptySeq DEF FormOK
  <2>4. RulesCalls
    BY <2>1, ForgottenRules
  <2>. QED BY <1>1, <2>3, <2>4, RulesFrame
<1>4. CASE SaveFails(n)
  <2>1. Forget(n) /\ (lc' = lc \/ lc' = [lc EXCEPT !.saving = FALSE])
    BY <1>4, Zenon DEF SaveFails, LcThen
  <2>2. /\ lc'.bucket = lc.bucket /\ lc'.loading = lc.loading /\ lc'.rules = lc.rules /\ lc'.got = lc.got
        /\ lc'.read = lc.read /\ lc'.touched = lc.touched /\ lc'.enabled = lc.enabled
    BY <1>1, <2>1 DEF LcFields
  <2>3. FormOK(lc') /\ lc'.bucket \in Bucket \union {None}
    BY <1>1, <2>2 DEF FormOK
  <2>4. RulesCalls
    BY <2>1, ForgottenRules
  <2>. QED BY <1>1, <2>3, <2>4, RulesFrame
<1>5. CASE LifecycleSaved(n)
  <2>1. lc' = FreshLifecycle(None)
    BY <1>5 DEF LifecycleSaved, LcThen
  <2>2. calls' = [m \in Slot |->
                   IF m = n \/ calls[m].kind = "lifecycle" THEN NoCall
                   ELSE IF calls[m].kind \in LcCalls THEN Shut(calls[m])
                   ELSE calls[m]]
    BY <1>5, Zenon DEF LifecycleSaved, Shut
  <2>3. \A m \in Slot : \/ calls'[m] = NoCall
                        \/ calls[m].kind \in LcCalls /\ calls'[m] = Shut(calls[m])
                        \/ calls[m].kind \notin LifecycleCalls /\ calls'[m] = calls[m]
    BY <2>2 DEF LcCalls, LifecycleCalls
  <2>4. RulesCalls
    BY <2>3, ShutRules
  <2>. QED BY <1>1, <2>1, <2>4, ClosedFormOK, RulesFrame
<1>. QED BY <1>2, <1>3, <1>4, <1>5 DEF LifecycleAnswer, LifecycleFailing

\* The handlers of the rules.
LEMMA ServedRules ==
  ASSUME CallsOK, RulesInv, lc' = lc, config' \in [Bucket -> Seq(Rule)],
         NEW n \in Slot, NEW k \in Kind, NEW a, Arriving(n, k), Served(n, a), k = "lifecycle" => a \in Seq(Rule)
  PROVE  /\ RulesInv'
         /\ \A m \in Slot : Serving(m, LcCalls) => m = n
<1>1. calls[n] # NoCall /\ calls[n].kind = k
  BY CallsKind DEF Arriving, CallsOK
<1>2. /\ \A m \in Slot \ {n} : calls'[m] = calls[m]
      /\ \/ calls'[n] = NoCall
         \/ /\ calls'[n].kind = k /\ calls'[n].arg = calls[n].arg /\ calls'[n].served /\ calls'[n].answer = a
  BY <1>1, ServedEffect DEF CallsOK
<1>3. RulesCall(calls[n])
  BY DEF RulesInv
<1>4. RulesCall(calls'[n])
  <2>1. RulesCall(NoCall)
    BY DEF RulesCall, NoCall, LcCalls
  <2>2. ASSUME NEW d, d.kind = k, d.arg = calls[n].arg, d.answer = a PROVE RulesCall(d)
    BY <1>1, <1>3, <2>2 DEF RulesCall, SavingOK
  <2>. QED BY <1>2, <2>1, <2>2
<1>5. RulesInv'
  BY <1>2, <1>4 DEF RulesInv
<1>6. \A m \in Slot : Serving(m, LcCalls) => m = n
  BY <1>2 DEF Serving
<1>. QED BY <1>5, <1>6

LEMMA ServerRules ==
  ASSUME CallsOK, RulesInv, lc' = lc, NEW n \in Slot, BucketsServer(n)
  PROVE  RulesInv' /\ RulesStep
<1>. USE DEF Kind, PageCalls, BucketsCalls
<1>0. config \in [Bucket -> Seq(Rule)]
  BY DEF RulesInv
<1>1. ASSUME NEW k \in BucketsCalls \ LifecycleCalls, NEW a, Arriving(n, k), Served(n, a),
             config' \in [Bucket -> Seq(Rule)]
      PROVE  RulesInv' /\ RulesStep
  <2>1. k \in Kind /\ k # "lifecycle" /\ k \notin LcCalls
    BY BucketsKinds DEF LifecycleCalls
  <2>2. RulesInv' /\ \A m \in Slot : Serving(m, LcCalls) => m = n
    BY <1>1, <2>1, ServedRules
  <2>3. ~Serving(n, LcCalls)
    BY <1>1, <2>1 DEF Serving, Arriving
  <2>. QED BY <2>2, <2>3 DEF RulesStep
<1>2. ListBuckets(n) => RulesInv' /\ RulesStep
  BY <1>0, <1>1 DEF ListBuckets, bucketsDb, LifecycleCalls
<1>3. ListAnalytics(n) => RulesInv' /\ RulesStep
  BY <1>0, <1>1 DEF ListAnalytics, bucketsDb, LifecycleCalls
<1>4. CreateBucket(n) => RulesInv' /\ RulesStep
  BY <1>0, <1>1 DEF CreateBucket, LifecycleCalls
<1>5. DeleteBucket(n) => RulesInv' /\ RulesStep
  <2>. SUFFICES ASSUME DeleteBucket(n) PROVE RulesInv' /\ RulesStep
    OBVIOUS
  <2>1. PICK b : config' = [config EXCEPT ![b] = <<>>] /\ Arriving(n, "dropBucket") /\ Served(n, "ok")
    BY Zenon DEF DeleteBucket
  <2>2. <<>> \in Seq(Rule)
    BY EmptySeq
  <2>3. config' \in [Bucket -> Seq(Rule)]
    BY <1>0, <2>1, <2>2
  <2>. QED BY <1>1, <2>1, <2>3 DEF LifecycleCalls
<1>6. VersionServer(n) /\ UNCHANGED <<buckets, config>> => RulesInv' /\ RulesStep
  <2>. SUFFICES ASSUME VersionServer(n), config' = config PROVE RulesInv' /\ RulesStep
    OBVIOUS
  <2>1. \E k \in VersionCalls : \E a : Arriving(n, k) /\ Served(n, a)
    BY Zenon DEF VersionServer, ListObjectVersions, DeleteObject, VersionCalls
  <2>. QED BY <1>0, <1>1, <2>1, BucketsKinds
<1>7. GetLifecycle(n) => RulesInv' /\ RulesStep
  <2>. SUFFICES ASSUME GetLifecycle(n) PROVE RulesInv' /\ RulesStep
    OBVIOUS
  <2>1. PICK a : a = config[calls[n].arg] /\ Arriving(n, "lifecycle") /\ Served(n, a) /\ config' = config
    BY Zenon DEF GetLifecycle
  <2>2. calls[n].kind = "lifecycle"
    BY <2>1 DEF Arriving
  <2>3. a \in Seq(Rule)
    BY <1>0, <2>1, <2>2 DEF RulesInv, RulesCall
  <2>4. RulesInv' /\ \A m \in Slot : Serving(m, LcCalls) => m = n
    BY <1>0, <2>1, <2>3, ServedRules
  <2>5. ~Serving(n, LcCalls)
    BY <2>2 DEF Serving, LcCalls
  <2>. QED BY <2>4, <2>5 DEF RulesStep
<1>8. ASSUME NEW k \in LcCalls, Arriving(n, k), Served(n, "ok"),
             config' = [config EXCEPT ![calls[n].arg.bucket] = IF k = "putLifecycle" THEN calls[n].arg.rules ELSE <<>>]
      PROVE  RulesInv' /\ RulesStep
  <2>1. PICK w, rules : w = calls[n].arg /\ rules = IF k = "putLifecycle" THEN w.rules ELSE <<>>
    OBVIOUS
  <2>2. calls[n].kind = k /\ k \in Kind /\ k # "lifecycle"
    BY <1>8 DEF Arriving, LcCalls
  <2>3. /\ w.bucket \in Bucket /\ w.rules = w.form.rules /\ FormOK(w.form) /\ w.form.read # "none"
        /\ k = "dropLifecycle" => ~w.form.enabled \/ w.rules = <<>>
    BY <1>8, <2>1, <2>2 DEF RulesInv, RulesCall, SavingOK
  <2>4. rules \in Seq(Rule)
    BY <2>1, <2>3, EmptySeq DEF FormOK
  <2>5. config' \in [Bucket -> Seq(Rule)] /\ config'[w.bucket] = rules
    <3>1. config' = [config EXCEPT ![w.bucket] = rules]
      BY <1>8, <2>1
    <3>. QED BY <1>0, <2>3, <2>4, <3>1
  <2>6. RulesInv' /\ \A m \in Slot : Serving(m, LcCalls) => m = n
    BY <1>8, <2>2, <2>5, ServedRules
  <2>7. ASSUME ~w.form.touched, w.form.read # "failed"
        PROVE  w.form.read = "ok" /\ SameDays(config'[w.bucket], w.form.got)
    <3>1. w.form.read = "ok" /\ w.form.enabled /\ ReadAs(w.form.rules, w.form.got)
      BY <2>3, <2>7 DEF FormOK
    <3>2. rules = w.form.rules
      BY <1>8, <2>1, <2>3, <3>1 DEF LcCalls
    <3>3. rules \in Seq(Rule) /\ w.form.got \in Seq(Rule)
      BY <2>3, <2>4 DEF FormOK
    <3>4. SameDays(rules, w.form.got)
      <4>1. PICK got : got = w.form.got
        OBVIOUS
      <4>2. DOMAIN rules = DOMAIN got /\ \A i \in DOMAIN got : rules[i] = ReadRule(got[i])
        BY <3>1, <3>2, <4>1 DEF ReadAs
      <4>3. /\ Len(rules) \in Nat /\ DOMAIN rules = 1 .. Len(rules)
            /\ Len(got) \in Nat /\ DOMAIN got = 1 .. Len(got)
            /\ \A i \in 1 .. Len(got) : got[i] \in Rule
        BY <3>3, <4>1, LenProperties, ElementOfSeq
      <4>4. Len(rules) = Len(got)
        <5>1. PICK i \in Nat, j \in Nat : i = Len(rules) /\ j = Len(got)
          BY <4>3
        <5>2. 1 .. i = 1 .. j
          BY <4>2, <4>3, <5>1
        <5>3. CASE i < j
          <6>1. j \in 1 .. j /\ j \notin 1 .. i
            BY <5>3
          <6>. QED BY <5>2, <6>1
        <5>4. CASE j < i
          <6>1. i \in 1 .. i /\ i \notin 1 .. j
            BY <5>4
          <6>. QED BY <5>2, <6>1
        <5>5. CASE i = j
          BY <5>1, <5>5
        <5>. QED BY <5>3, <5>4, <5>5
      <4>5. \A rule \in Rule : ReadRule(rule).days = rule.days /\ ReadRule(rule).noncurrent = rule.noncurrent
        BY DEF Rule, ReadRule
      <4>. QED BY <4>1, <4>2, <4>3, <4>4, <4>5 DEF SameDays
    <3>. QED BY <2>5, <3>1, <3>4
  <2>. QED BY <2>1, <2>6, <2>7 DEF RulesStep
<1>9. UpdateLifecycle(n) => RulesInv' /\ RulesStep
  BY <1>8 DEF UpdateLifecycle, LcCalls
<1>10. DeleteLifecycle(n) => RulesInv' /\ RulesStep
  BY <1>8 DEF DeleteLifecycle, LcCalls
<1>. QED
  BY <1>2, <1>3, <1>4, <1>5, <1>6, <1>7, <1>9, <1>10 DEF BucketsServer, LifecycleServer

LEMMA OnUsersCalls ==
  ASSUME AppInv, OnUsers
  PROVE  CallStep(UsersCalls)
<1>1. page' = page /\ CallsOK /\ UsersInv /\ NoTokenAway
  BY DEF OnUsers, Expires, whoVars, AppInv, PagesInv
<1>2. ASSUME UsersUser PROVE CallStep(UsersCalls)
  BY <1>1, <1>2, UsersUserStep DEF UsersGoal
<1>3. ASSUME CopyTimer PROVE CallStep(UsersCalls)
  BY <1>1, <1>3, QuietOK DEF CopyTimer, Quiet
<1>4. ASSUME NEW n \in Slot, UsersAnswer(n) PROVE CallStep(UsersCalls)
  BY <1>1, <1>4, UsersAnswerStep DEF UsersGoal
<1>5. ASSUME NEW n \in Slot, Expires(n) PROVE UsersAnswer(n)
  BY <1>5 DEF Expires, UsersAnswer
<1>. QED BY <1>2, <1>3, <1>4, <1>5 DEF OnUsers

LEMMA OnBucketsRules ==
  ASSUME CallsOK, BucketsInv, RulesInv, OnBuckets
  PROVE  RulesInv' /\ RulesStep
<1>1. page' = page
  BY DEF OnBuckets, whoVars
<1>2. ASSUME GridGoal \/ VersionsGoal, config' = config PROVE RulesInv' /\ RulesStep
  <2>1. lc' = lc /\ SameCalls(LifecycleCalls)
    BY <1>2 DEF GridGoal, VersionsGoal
  <2>. QED BY <1>2, <2>1, SameFewer, FewerHeirs, RulesAway
<1>3. ASSUME BucketsUser PROVE RulesInv' /\ RulesStep
  <2>1. CASE \/ RefreshBuckets \/ OpenCreate \/ CloseCreate \/ LeaveBucket
             \/ \E b \in Bucket : SubmitBucket(b) \/ ClickDelete(b) \/ EnterBucket(b)
    <3>1. page = "buckets" /\ config' = config
      BY <2>1, Zenon DEF RefreshBuckets, OpenCreate, CloseCreate, LeaveBucket, SubmitBucket, ClickDelete,
                         EnterBucket, BpDo, bucketsDb
    <3>. QED BY <1>1, <1>2, <2>1, <3>1, BpUserStep
  <2>2. CASE OpenVersions
    <3>1. PICK b : b = bp.inside
      OBVIOUS
    <3>2. /\ page = "buckets" /\ vm.of = None /\ b # None /\ vm' = FreshVersions(b) /\ bp' = bp /\ lc' = lc
          /\ Send("versions", [bucket |-> b, then |-> "none"]) /\ config' = config
      BY <2>2, <3>1, Zenon DEF OpenVersions, bucketsDb
    <3>. QED BY <1>1, <1>2, <3>2, VmUserStep
  <2>3. ASSUME NEW b \in Bucket, OpenLifecycle(b) PROVE RulesInv' /\ RulesStep
    <3>1. lc' = FreshLifecycle(b) /\ Send("lifecycle", b) /\ config' = config
      BY <2>3, Zenon DEF OpenLifecycle, bucketsDb
    <3>. QED BY <3>1, LcUserRules
  <2>4. CASE LifecycleUser /\ UNCHANGED <<bp, buckets, vm, objects>>
    <3>1. config' = config
      BY <2>4, Zenon DEF LifecycleUser, Toggle, AddRule, RemoveRule, UpdateRule, LcEdit, SaveLifecycle,
                         CloseLifecycle, LcDo
    <3>. QED BY <2>4, <3>1, LcUserRules
  <2>5. CASE VersionUser /\ UNCHANGED <<bp, buckets, lc, config>>
    BY <1>1, <1>2, <2>5, VmUserStep
  <2>. QED BY <1>3, <2>1, <2>2, <2>3, <2>4, <2>5 DEF BucketsUser
<1>4. ASSUME NEW n \in Slot, BucketsAnswer(n) PROVE RulesInv' /\ RulesStep
  <2>1. page = "buckets"
    BY <1>4, BucketsAnswerPage
  <2>2. CASE \/ BucketsLoaded(n) \/ BucketsFail(n) \/ AnalyticsDone(n)
             \/ BucketCreated(n) \/ CreateFails(n) \/ BucketDeleted(n) \/ DeleteBucketFails(n)
    <3>1. config' = config
      BY <2>2, Zenon DEF BucketsLoaded, BucketsFail, AnalyticsDone, BucketCreated, CreateFails, BucketDeleted,
                         Reload, DeleteBucketFails, BpThen, bucketsDb
    <3>. QED BY <1>1, <1>2, <2>1, <2>2, <3>1, BpAnswerStep
  <2>3. CASE LifecycleAnswer(n) /\ UNCHANGED <<bp, buckets, vm, objects>>
    <3>1. config' = config
      BY <2>3, Zenon DEF LifecycleAnswer, LifecycleLoaded, LifecycleSaved, LifecycleFailing, LifecycleFails,
                         SaveFails, LcThen
    <3>. QED BY <2>3, <3>1, LcAnswerRules
  <2>4. CASE VersionAnswer(n) /\ UNCHANGED <<bp, buckets, lc, config>>
    BY <1>1, <1>2, <2>1, <2>4, VmAnswerStep
  <2>. QED BY <1>4, <2>2, <2>3, <2>4 DEF BucketsAnswer
<1>. QED BY <1>3, <1>4 DEF OnBuckets

LEMMA RulesNext == AppInv /\ RulesInv /\ [Next]_vars => RulesInv' /\ RulesStep
<1>. SUFFICES ASSUME AppInv, RulesInv, [Next]_vars PROVE RulesInv' /\ RulesStep
  OBVIOUS
<1>1. CallsOK /\ BucketsInv
  BY DEF AppInv, PagesInv
<1>2. LifecycleCalls \subseteq BucketsCalls
  BY BucketsKinds
<1>3. ASSUME config' = config, lc' = lc, Fewer(BucketsCalls) PROVE RulesInv' /\ RulesStep
  BY <1>2, <1>3, FewerHeirs, RulesAway
<1>4. ASSUME NEW K, CallStep(K), K \intersect BucketsCalls = {} PROVE Fewer(BucketsCalls)
  BY <1>4, BucketsKinds, Kinds DEF CallStep, Fewer
<1>5. CASE OnUsers
  <2>1. config' = config /\ lc' = lc /\ page' = page
    BY <1>5 DEF OnUsers, bucketsVars, Expires, whoVars
  <2>2. CallStep(UsersCalls)
    BY <1>5, <2>1, OnUsersCalls
  <2>3. UsersCalls \intersect BucketsCalls = {}
    BY DEF UsersCalls, BucketsCalls
  <2>. QED BY <1>3, <1>4, <2>1, <2>2, <2>3
<1>6. CASE OnBuckets
  <2>. QED BY <1>1, <1>6, OnBucketsRules
<1>7. CASE OnReports
  <2>1. config' = config /\ lc' = lc /\ page' = page
    BY <1>7 DEF OnReports, bucketsVars, whoVars
  <2>2. CallStep(ReportsCalls)
    BY <1>1, <1>7, <2>1, ReportsStep DEF AppInv, PagesInv
  <2>3. ReportsCalls \intersect BucketsCalls = {}
    BY DEF ReportsCalls, BucketsCalls
  <2>. QED BY <1>3, <1>4, <2>1, <2>2, <2>3
<1>8. CASE Elsewhere \/ UNCHANGED vars
  <2>1. config' = config /\ lc' = lc /\ calls' = calls
    BY <1>8 DEF Elsewhere, bucketsVars, vars, pageVars, dbVars
  <2>. QED BY <1>3, <2>1 DEF Fewer
<1>9. CASE Auth
  <2>1. dbVars' = dbVars /\ (Moved \/ Stayed)
    BY <1>9, AuthMoves
  <2>2. config' = config
    BY <2>1 DEF dbVars
  <2>3. CASE Stayed
    BY <1>3, <2>2, <2>3, SameFewer DEF Stayed
  <2>4. CASE Moved
    <3>1. LifecycleCalls \subseteq PageCalls \ {"users", "buckets", "logBuckets", "logs", "summary"}
      BY DEF LifecycleCalls, PageCalls, BucketsCalls
    <3>2. lc' = FreshLifecycle(None) /\ \A n \in Slot : calls'[n].kind \in LifecycleCalls => Heir(calls[n], calls'[n])
      BY <2>4, <3>1 DEF Moved
    <3>. QED BY <2>2, <3>2, RulesAway
  <2>. QED BY <2>1, <2>3, <2>4
<1>10. ASSUME NEW n \in Slot, Server(n) PROVE RulesInv' /\ RulesStep
  <2>1. lc' = lc
    BY <1>10 DEF Server, pageVars
  <2>2. CASE BucketsServer(n)
    BY <1>1, <2>1, <2>2, ServerRules
  <2>3. CASE config' = config /\ Fewer(BucketsCalls)
    BY <1>3, <2>1, <2>3
  <2>. QED BY <1>1, <1>10, <2>2, <2>3, ServerParts
<1>. QED BY <1>5, <1>6, <1>7, <1>8, <1>9, <1>10 DEF Next

LEMMA FirstCalls == Init => \A n \in Slot : calls[n].kind \in {"none", "me"}
<1>. SUFFICES ASSUME Init PROVE \A n \in Slot : calls[n].kind \in {"none", "me"}
  OBVIOUS
<1>1. calls = Nothing \/ \E path \in Path : calls = [Nothing EXCEPT ![1] = Call("me", path)]
  BY Zenon DEF Init
<1>2. \A n \in Slot : Nothing[n] = NoCall
  BY DEF Nothing
<1>3. ASSUME NEW path \in Path, calls = [Nothing EXCEPT ![1] = Call("me", path)], NEW n \in Slot
      PROVE  calls[n] = NoCall \/ calls[n] = Call("me", path)
  BY <1>2, <1>3 DEF Nothing
<1>4. NoCall.kind = "none" /\ \A path : Call("me", path).kind = "me"
  BY DEF NoCall, Call, CallAs
<1>. QED BY <1>1, <1>2, <1>3, <1>4

LEMMA RulesInit == Init => RulesInv
<1>. SUFFICES ASSUME Init PROVE RulesInv
  OBVIOUS
<1>1. config \in [Bucket -> Seq(Rule)]
  <2>1. config = [b \in Bucket |-> IF b \in buckets THEN Rules[b] ELSE <<>>] /\ buckets = DOMAIN Contents
    BY DEF Init
  <2>2. \A b \in Bucket : b \in buckets => Rules[b] \in Seq(Rule)
    BY <2>1, AppAssumption
  <2>. QED BY <2>1, <2>2, EmptySeq
<1>2. lc = FreshLifecycle(None)
  BY DEF Init
<1>3. FormOK(lc) /\ lc.bucket \in Bucket \union {None}
  BY <1>2, ClosedFormOK
<1>4. \A n \in Slot : calls[n].kind \in {"none", "me"}
  BY FirstCalls
<1>5. \A n \in Slot : calls[n].kind \notin LifecycleCalls
  BY <1>4 DEF LifecycleCalls
<1>. QED BY <1>1, <1>3, <1>5 DEF RulesInv, RulesCall, LifecycleCalls, LcCalls

\* A form saved untouched writes the rules it has read (LifecycleModal.tsx:236), whatever else
\* is under way.
THEOREM SavesKeepTheRules == Spec => RulesKept
<1>1. Init => AppInv /\ RulesInv
  BY InitStep, RulesInit
<1>2. AppInv /\ RulesInv /\ [Next]_vars => AppInv' /\ RulesInv' /\ RulesStep
  BY NextStep, RulesNext
<1>3. RulesStep => [RulesStep]_vars
  OBVIOUS
<1>4. Spec => [][RulesStep]_vars
  BY <1>1, <1>2, PTL DEF Spec
<1>. QED BY <1>4 DEF RulesKept, RulesStep

-----------------------------------------------------------------------------
(* What an update writes *)

\* The rows of the users table: their ids are their own.
RowsOK ==
    /\ accounts \in Seq(Account) /\ made \in 0 .. MaxMade
    /\ \A i, j \in DOMAIN accounts : accounts[i].id = accounts[j].id => i = j
    /\ \A i \in DOMAIN accounts : accounts[i].id <= made

\* What the form has sent.
SaveCalls == {"create", "update"}
SaveCall(c) ==
    /\ c.kind \in SaveCalls => c.arg.form \in Typed
    /\ c.kind = "create" => c.arg.form.name # None
    /\ c.kind = "update" => c.arg.data = Diff(c.arg.user, c.arg.form)

SaveInv == RowsOK /\ \A n \in Slot : SaveCall(calls[n])

\* What SavedAsTyped says of a step.
SaveStep ==
    \A n \in Slot : Serving(n, {"update"}) =>
        LET c == calls[n].arg
        IN  c.user \in Elements(accounts) =>
              [c.user EXCEPT !.name = IF c.form.name = None THEN @ ELSE c.form.name,
                             !.role = c.form.role] \in Elements(accounts')

\* The calls of the form are as good as they were, and none is answered.
SaveKept ==
    \A n \in Slot : calls'[n].kind \in SaveCalls =>
        SaveCall(calls'[n]) /\ (calls'[n].kind = calls[n].kind => calls'[n].served = calls[n].served)

LEMMA SaveFrame ==
  ASSUME SaveInv, SaveKept, usersDb' = usersDb
  PROVE  SaveInv' /\ SaveStep
<1>1. accounts' = accounts /\ made' = made
  BY DEF usersDb
<1>2. RowsOK'
  BY <1>1 DEF SaveInv, RowsOK
<1>3. \A n \in Slot : SaveCall(calls'[n])
  BY DEF SaveKept, SaveCall, SaveCalls
<1>4. SaveStep
  BY DEF SaveStep, SaveKept, SaveCalls, Serving
<1>. QED BY <1>2, <1>3, <1>4 DEF SaveInv

LEMMA FewerKept == SaveInv /\ (Fewer(SaveCalls) \/ Fewer(UsersCalls)) => SaveKept
BY DEF SaveInv, SaveKept, Fewer, SaveCalls, UsersCalls

LEMMA HeirKept ==
  ASSUME SaveInv, \A n \in Slot : calls'[n].kind \in SaveCalls => Heir(calls[n], calls'[n])
  PROVE  SaveKept
BY DEF SaveInv, SaveKept, Heir, SaveCall

\* The page
LEMMA SaveSent ==
  ASSUME CallsOK, SaveInv, NEW k \in UsersCalls, NEW w, Send(k, w),
         \A c : c.kind = k /\ c.arg = w => SaveCall(c)
  PROVE  SaveKept
<1>1. PICK n \in Slot :
            /\ calls'[n].kind = k /\ calls'[n].arg = w /\ ~calls'[n].served
            /\ \A m \in Slot \ {n} : calls'[m] = calls[m]
            /\ \A K : n \notin Mine(K)
  BY UsersSend
<1>2. PICK m \in Slot :
            /\ calls[m] = NoCall /\ calls'[m] # NoCall
            /\ \A p \in Slot \ {m} : calls'[p] = calls[p]
  <2>1. k \in Kind \ (LcCalls \union {"versions"})
    BY UsersKinds
  <2>. QED BY <2>1, PlainArg, SendEffect DEF CallsOK
<1>3. m = n
  <2>1. k # "none"
    BY DEF UsersCalls
  <2>. QED BY <1>1, <1>2
<1>4. SaveCall(calls'[n]) /\ calls'[n].kind # calls[n].kind
  <2>1. k # "none" /\ NoCall.kind = "none"
    BY DEF UsersCalls, NoCall
  <2>. QED BY <1>1, <1>2, <1>3, <2>1
<1>. QED BY <1>1, <1>4 DEF SaveKept, SaveInv

\* Only the form sends calls of these kinds.
LEMMA PlainSave ==
  ASSUME CallsOK, SaveInv, NEW k \in UsersCalls \ SaveCalls, NEW w, Send(k, w)
  PROVE  SaveKept
<1>1. \A c : c.kind = k /\ c.arg = w => SaveCall(c)
  BY DEF SaveCall, SaveCalls
<1>. QED BY <1>1, SaveSent

LEMMA SubmitSave ==
  ASSUME CallsOK, SaveInv, NEW f \in Typed, SubmitForm(f)
  PROVE  SaveKept
<1>1. PICK a : a = usersUi.editing
  OBVIOUS
<1>2. CASE Send("update", [user |-> a, data |-> Diff(a, f), form |-> f, render |-> Render])
  <2>1. PICK w : w = [user |-> a, data |-> Diff(a, f), form |-> f, render |-> Render]
    OBVIOUS
  <2>2. w.user = a /\ w.data = Diff(a, f) /\ w.form = f
    BY <2>1
  <2>3. \A c : c.kind = "update" /\ c.arg = w => SaveCall(c)
    BY <2>2 DEF SaveCall
  <2>4. "update" \in UsersCalls /\ Send("update", w)
    BY <1>2, <2>1 DEF UsersCalls
  <2>. QED BY <2>3, <2>4, SaveSent
<1>3. CASE f.name # None /\ Send("create", [form |-> f, render |-> Render])
  <2>1. PICK w : w = [form |-> f, render |-> Render]
    OBVIOUS
  <2>2. w.form = f
    BY <2>1
  <2>3. \A c : c.kind = "create" /\ c.arg = w => SaveCall(c)
    BY <1>3, <2>2 DEF SaveCall
  <2>4. "create" \in UsersCalls /\ Send("create", w)
    BY <1>3, <2>1 DEF UsersCalls
  <2>. QED BY <2>3, <2>4, SaveSent
<1>. QED BY <1>1, <1>2, <1>3, Zenon DEF SubmitForm

LEMMA OnUsersSave ==
  ASSUME CallsOK, UsersInv, SaveInv, OnUsers
  PROVE  SaveKept /\ usersDb' = usersDb
<1>1. CASE UsersUser
  <2>1. ASSUME NEW p, UsersPager(p) PROVE SaveKept /\ usersDb' = usersDb
    <3>1. usersDb' = usersDb /\ \E w : Send("users", w)
      BY <2>1, Zenon DEF UsersPager, UsersDo
    <3>. QED BY <3>1, PlainSave DEF UsersCalls, SaveCalls
  <2>2. CASE SearchUsers
    <3>1. usersDb' = usersDb /\ ((\E w : Send("users", w)) \/ Quiet)
      BY <2>2, Zenon DEF SearchUsers, UsersDo
    <3>. QED BY <3>1, PlainSave, FewerKept DEF UsersCalls, SaveCalls, Quiet, Fewer
  <2>3. CASE Confirm
    <3>1. usersDb' = usersDb /\ \E k \in {"delete", "toggle", "token"} : \E w : Send(k, w)
      BY <2>3 DEF Confirm, UsersDo, UsersInv, UsersShape
    <3>. QED BY <3>1, PlainSave DEF UsersCalls, SaveCalls
  <2>4. ASSUME NEW f \in Typed, SubmitForm(f) PROVE SaveKept /\ usersDb' = usersDb
    BY <2>4, SubmitSave DEF SubmitForm, UsersDo
  <2>5. ASSUME \/ CancelForm \/ CloseDialog \/ CopyToken
               \/ \E q : TypeSearch(q)
               \/ \E a : OpenForm(a)
               \/ \E dialog, a : Choose(dialog, a)
        PROVE  SaveKept /\ usersDb' = usersDb
    <3>1. usersDb' = usersDb /\ Quiet
      BY <2>5, Zenon DEF CancelForm, CloseDialog, CopyToken, TypeSearch, OpenForm, Choose, UsersDo
    <3>. QED BY <3>1, FewerKept DEF Quiet, Fewer
  <2>. QED BY <1>1, <2>1, <2>2, <2>3, <2>4, <2>5 DEF UsersUser
<1>2. CASE CopyTimer
  BY <1>2, FewerKept DEF CopyTimer, UsersThen, Quiet, Fewer
<1>3. ASSUME NEW n \in Slot, UsersAnswer(n) PROVE SaveKept /\ usersDb' = usersDb
  <2>1. usersDb' = usersDb /\ (Forget(n) \/ \E w : Put(n, Call("users", w)))
    BY <1>3, Zenon DEF UsersAnswer, UsersFails, FormSaved, Confirmed, TokenShown, UsersLoaded, FormFails, ConfirmFails,
                       UsersFail, UsersThen
  <2>2. CASE Forget(n)
    <3>1. calls'[n] = NoCall /\ \A m \in Slot \ {n} : calls'[m] = calls[m]
      BY <2>2, UsersForget, ForgetEffect DEF CallsOK
    <3>. QED BY <2>1, <3>1, Kinds, FewerKept DEF Fewer, UsersCalls, NoCall
  <2>3. ASSUME NEW w, Put(n, Call("users", w)) PROVE Fewer(SaveCalls)
    <3>1. \A m \in Slot \ {n} : calls'[m] = calls[m]
      BY <2>3, UsersFollow
    <3>2. "users" \in Kind \ (LcCalls \union {"versions"})
      BY UsersKinds DEF UsersCalls
    <3>3. calls'[n].kind = "users"
      BY <2>3, <3>2, PlainArg, FollowEffect DEF CallsOK
    <3>. QED BY <3>1, <3>3 DEF Fewer, SaveCalls
  <2>. QED BY <2>1, <2>2, <2>3, FewerKept
<1>4. ASSUME NEW n \in Slot, Expires(n) PROVE UsersAnswer(n)
  BY <1>4 DEF Expires, UsersAnswer
<1>. QED BY <1>1, <1>2, <1>3, <1>4 DEF OnUsers

\* The handlers
LEMMA MergedAccount ==
  ASSUME NEW a \in Account, NEW d, d.name \in Name \union {None}, d.role \in UserRole \union {None}
  PROVE  MergeFields(a, d) \in Account /\ MergeFields(a, d).id = a.id
<1>1. PICK nm \in Name, r \in UserRole :
          nm = (IF d.name = None THEN a.name ELSE d.name) /\ r = (IF d.role = None THEN a.role ELSE d.role)
  BY DEF Account
<1>2. PICK b : b = [a EXCEPT !.name = nm, !.role = r]
  OBVIOUS
<1>3. b \in Account /\ b.id = a.id
  BY <1>2 DEF Account
<1>4. MergeFields(a, d) = b
  BY <1>1, <1>2 DEF MergeFields
<1>. QED BY <1>3, <1>4

\* The difference, written into the row it was made with, is what was typed.
LEMMA DiffMerged ==
  ASSUME NEW a \in Account, NEW f \in Typed
  PROVE  /\ Diff(a, f).name \in Name \union {None} /\ Diff(a, f).role \in UserRole \union {None}
         /\ MergeFields(a, Diff(a, f)) =
              [a EXCEPT !.name = IF f.name = None THEN @ ELSE f.name, !.role = f.role]
<1>1. PICK d : d = Diff(a, f)
  OBVIOUS
<1>2. /\ d.name = IF f.name # a.name THEN f.name ELSE None
      /\ d.role = IF f.role # a.role THEN f.role ELSE None
  BY <1>1 DEF Diff
<1>3. /\ f.name \in Name \union {None} /\ f.role \in UserRole
      /\ a.name \in Name /\ a.role \in UserRole
      /\ None \notin Name /\ None \notin UserRole
  BY UsersAssumption DEF Typed, Account
<1>4. /\ (IF d.name = None THEN a.name ELSE d.name) = (IF f.name = None THEN a.name ELSE f.name)
      /\ (IF d.role = None THEN a.role ELSE d.role) = f.role
  BY <1>2, <1>3
<1>5. MergeFields(a, d) = [a EXCEPT !.name = IF f.name = None THEN @ ELSE f.name, !.role = f.role]
  BY <1>4 DEF MergeFields
<1>. QED BY <1>1, <1>2, <1>3, <1>5

\* A row is written over.
LEMMA RowsPut ==
  ASSUME RowsOK, NEW i \in DOMAIN accounts, NEW b \in Account, b.id = accounts[i].id,
         accounts' = [accounts EXCEPT ![i] = b], made' = made
  PROVE  RowsOK'
<1>1. accounts' \in Seq(Account) /\ DOMAIN accounts' = DOMAIN accounts
  BY DEF RowsOK
<1>2. \A j \in DOMAIN accounts : accounts'[j].id = accounts[j].id
  OBVIOUS
<1>. QED BY <1>1, <1>2 DEF RowsOK

LEMMA CutIndex ==
  ASSUME NEW S, NEW s \in Seq(S), NEW i \in DOMAIN s, NEW t,
         t = SubSeq(s, 1, i - 1) \o SubSeq(s, i + 1, Len(s))
  PROVE  /\ t \in Seq(S) /\ Len(t) = Len(s) - 1
         /\ \A j \in DOMAIN t : IF j < i THEN j \in DOMAIN s /\ t[j] = s[j]
                                         ELSE j + 1 \in DOMAIN s /\ t[j] = s[j + 1]
<1>1. i \in 1 .. Len(s) /\ Len(s) \in Nat /\ DOMAIN s = 1 .. Len(s)
  BY LenProperties
<1>2. \A j \in 1 .. Len(s) : s[j] \in S
  BY ElementOfSeq
<1>3. PICK u, v : u = SubSeq(s, 1, i - 1) /\ v = SubSeq(s, i + 1, Len(s))
  OBVIOUS
<1>4. u \in Seq(S) /\ Len(u) = i - 1 /\ \A j \in 1 .. i - 1 : u[j] = s[j]
  BY <1>1, <1>2, <1>3, SubSeqProperties
<1>5. v \in Seq(S) /\ Len(v) = Len(s) - i /\ \A j \in 1 .. Len(s) - i : v[j] = s[i + j]
  BY <1>1, <1>2, <1>3, SubSeqProperties
<1>6. PICK p \in Nat : p = Len(s)
  BY <1>1
<1>7. PICK q \in Nat : i = q + 1 /\ q + 1 <= p
  BY <1>1, <1>6
<1>8. PICK r \in Nat : p = q + 1 + r
  BY <1>7
<1>9. t = u \o v /\ Len(u) = q /\ Len(v) = r
  <2>1. t = u \o v
    BY <1>3
  <2>2. Len(u) = q
    BY <1>4, <1>7
  <2>3. Len(v) = p - i
    BY <1>5, <1>6
  <2>4. p - (q + 1) = r
    BY <1>8
  <2>5. Len(v) = r
    BY <1>7, <2>3, <2>4
  <2>. QED BY <2>1, <2>2, <2>5
<1>10. /\ t \in Seq(S) /\ Len(t) = q + r
       /\ \A j \in 1 .. q + r : t[j] = IF j <= q THEN u[j] ELSE v[j - q]
  <2>1. u \in Seq(S) /\ v \in Seq(S)
    BY <1>4, <1>5
  <2>2. /\ u \o v \in Seq(S) /\ Len(u \o v) = Len(u) + Len(v)
        /\ \A j \in 1 .. Len(u) + Len(v) : (u \o v)[j] = IF j <= Len(u) THEN u[j] ELSE v[j - Len(u)]
    BY <2>1, ConcatProperties
  <2>. QED BY <1>9, <2>2
<1>11. DOMAIN t = 1 .. q + r /\ Len(t) = Len(s) - 1 /\ DOMAIN s = 1 .. q + 1 + r
  <2>1. DOMAIN t = 1 .. Len(t)
    BY <1>10, LenProperties
  <2>. QED BY <1>1, <1>6, <1>8, <1>10, <2>1
<1>12. (\A j \in 1 .. q : u[j] = s[j]) /\ \A j \in 1 .. r : v[j] = s[q + 1 + j]
  BY <1>4, <1>5, <1>6, <1>7, <1>8
<1>13. ASSUME NEW j \in 1 .. q + r
       PROVE  IF j < q + 1 THEN j \in 1 .. q + 1 + r /\ t[j] = s[j]
                           ELSE j + 1 \in 1 .. q + 1 + r /\ t[j] = s[j + 1]
  <2>1. CASE j < q + 1
    <3>1. j <= q /\ j \in 1 .. q /\ j \in 1 .. q + 1 + r
      BY <2>1
    <3>. QED BY <1>10, <1>12, <2>1, <3>1
  <2>2. CASE ~(j < q + 1)
    <3>1. ~(j <= q) /\ j - q \in 1 .. r /\ j + 1 \in 1 .. q + 1 + r /\ q + 1 + (j - q) = j + 1
      BY <2>2
    <3>2. t[j] = v[j - q] /\ v[j - q] = s[q + 1 + (j - q)]
      BY <1>10, <1>12, <3>1
    <3>. QED BY <2>2, <3>1, <3>2
  <2>. QED BY <2>1, <2>2
<1>. QED BY <1>7, <1>10, <1>11, <1>13

\* Another row than an update's is served, or none.
LEMMA ServedSave ==
  ASSUME CallsOK, SaveInv, NEW n \in Slot, NEW k \in Kind, NEW a, Arriving(n, k), Served(n, a), RowsOK'
  PROVE  SaveInv' /\ \A m \in Slot : Serving(m, {"update"}) => m = n /\ k = "update"
<1>1. calls[n] # NoCall /\ calls[n].kind = k
  BY CallsKind DEF Arriving, CallsOK
<1>2. /\ \A m \in Slot \ {n} : calls'[m] = calls[m]
      /\ \/ calls'[n] = NoCall
         \/ calls'[n].kind = k /\ calls'[n].arg = calls[n].arg
  BY <1>1, ServedEffect DEF CallsOK
<1>3. SaveCall(calls'[n])
  <2>1. SaveCall(NoCall)
    BY DEF SaveCall, SaveCalls, NoCall
  <2>. QED BY <1>1, <1>2, <2>1 DEF SaveInv, SaveCall
<1>4. SaveInv'
  BY <1>2, <1>3 DEF SaveInv
<1>5. \A m \in Slot : Serving(m, {"update"}) => m = n /\ k = "update"
  BY <1>1, <1>2 DEF Serving
<1>. QED BY <1>4, <1>5

LEMMA ServerSave ==
  ASSUME CallsOK, SaveInv, NEW n \in Slot, UsersServer(n)
  PROVE  SaveInv' /\ SaveStep
<1>0. RowsOK /\ SaveCall(calls[n]) /\ UsersCalls \subseteq Kind
  BY UsersKinds DEF SaveInv
<1>1. ASSUME NEW k \in UsersCalls \ {"update"}, NEW a, Arriving(n, k), Served(n, a), RowsOK'
      PROVE  SaveInv' /\ SaveStep
  <2>1. SaveInv' /\ \A m \in Slot : Serving(m, {"update"}) => m = n /\ k = "update"
    BY <1>0, <1>1, ServedSave
  <2>. QED BY <2>1 DEF SaveStep
<1>2. usersDb' = usersDb => RowsOK'
  BY <1>0 DEF usersDb, RowsOK
<1>3. ASSUME ListUsers(n) \/ GenerateToken(n) PROVE SaveInv' /\ SaveStep
  <2>1. usersDb' = usersDb /\ \E k \in {"users", "token"} : \E a : Arriving(n, k) /\ Served(n, a)
    BY <1>3, Zenon DEF ListUsers, GenerateToken
  <2>. QED BY <1>1, <1>2, <2>1 DEF UsersCalls
<1>4. ASSUME CreateUser(n) PROVE SaveInv' /\ SaveStep
  <2>1. PICK f : f = calls[n].arg.form
    OBVIOUS
  <2>2. PICK b : b = [id |-> made + 1, name |-> f.name, role |-> f.role, active |-> TRUE]
    OBVIOUS
  <2>3. /\ Arriving(n, "create") /\ Served(n, "ok") /\ made < MaxMade /\ made' = made + 1
        /\ accounts' = <<b>> \o accounts
    BY <1>4, <2>1, <2>2 DEF CreateUser
  <2>4. f \in Typed /\ f.name # None
    BY <1>0, <2>1, <2>3 DEF SaveCall, SaveCalls, Arriving
  <2>5. made \in Nat /\ MaxMade \in Nat /\ made + 1 \in 1 .. MaxMade
    BY <1>0, <2>3, UsersAssumption DEF RowsOK
  <2>6. b \in Account /\ b.id = made + 1
    BY <2>2, <2>4, <2>5 DEF Account, Typed
  <2>7. /\ accounts' \in Seq(Account) /\ Len(accounts') = Len(accounts) + 1
        /\ \A i \in 1 .. Len(accounts') : accounts'[i] = IF i = 1 THEN b ELSE accounts[i - 1]
    <3>1. PICK s : s = <<b>>
      OBVIOUS
    <3>2. s \in Seq(Account) /\ Len(s) = 1 /\ s[1] = b
      BY <2>6, <3>1
    <3>3. accounts \in Seq(Account) /\ Len(accounts) \in Nat
      BY <1>0, LenProperties DEF RowsOK
    <3>. QED BY <2>3, <3>1, <3>2, <3>3, ConcatProperties
  <2>8. /\ Len(accounts) \in Nat /\ DOMAIN accounts = 1 .. Len(accounts)
        /\ DOMAIN accounts' = 1 .. Len(accounts')
        /\ \A i \in DOMAIN accounts : accounts[i] \in Account
    BY <1>0, <2>7, LenProperties, ElementOfSeq DEF RowsOK
  <2>9. \A i \in DOMAIN accounts : accounts[i].id \in Nat /\ accounts[i].id <= made
    BY <1>0, <2>8 DEF RowsOK, Account
  <2>10. RowsOK'
    <3>1. \A i \in DOMAIN accounts' : \/ i = 1 /\ accounts'[i].id = made + 1
                                      \/ i # 1 /\ i - 1 \in DOMAIN accounts /\ accounts'[i] = accounts[i - 1]
      BY <2>6, <2>7, <2>8
    <3>2. \A i \in DOMAIN accounts' : i \in Nat /\ accounts'[i].id <= made'
      BY <2>3, <2>5, <2>8, <2>9, <3>1
    <3>3. \A i, j \in DOMAIN accounts' : accounts'[i].id = accounts'[j].id => i = j
      <4>. SUFFICES ASSUME NEW i \in DOMAIN accounts', NEW j \in DOMAIN accounts', accounts'[i].id = accounts'[j].id
                    PROVE  i = j
        OBVIOUS
      <4>1. CASE i = 1 \/ j = 1
        BY <2>5, <2>9, <3>1, <4>1
      <4>2. CASE i # 1 /\ j # 1
        <5>1. i - 1 = j - 1
          BY <1>0, <3>1, <4>2 DEF RowsOK
        <5>. QED BY <3>2, <5>1
      <4>. QED BY <4>1, <4>2
    <3>. QED BY <2>3, <2>5, <2>7, <3>2, <3>3 DEF RowsOK
  <2>. QED BY <1>1, <2>3, <2>10 DEF UsersCalls
<1>5. ASSUME UpdateUser(n) PROVE SaveInv' /\ SaveStep
  <2>1. PICK w : w = calls[n].arg
    OBVIOUS
  <2>2. /\ Arriving(n, "update") /\ Served(n, "ok") /\ made' = made
        /\ \E i \in IndexOf(w.user.id) : accounts' = [accounts EXCEPT ![i] = MergeFields(accounts[i], w.data)]
    BY <1>5, <2>1 DEF UpdateUser
  <2>3. PICK i \in DOMAIN accounts :
            accounts[i].id = w.user.id /\ accounts' = [accounts EXCEPT ![i] = MergeFields(accounts[i], w.data)]
    BY <2>2 DEF IndexOf
  <2>4. accounts[i] \in Account
    BY <1>0, ElementOfSeq, LenProperties DEF RowsOK
  <2>5. w.form \in Typed /\ w.data = Diff(w.user, w.form)
    BY <1>0, <2>1, <2>2 DEF SaveCall, SaveCalls, Arriving
  <2>6. w.data.name \in Name \union {None} /\ w.data.role \in UserRole \union {None}
    BY <2>5 DEF Diff, Typed
  <2>7. PICK a \in Account : a = accounts[i]
    BY <2>4
  <2>8. PICK b \in Account : b = MergeFields(a, w.data) /\ b.id = a.id
    BY <2>6, MergedAccount
  <2>9. RowsOK' /\ i \in DOMAIN accounts' /\ accounts'[i] = b
    BY <1>0, <2>2, <2>3, <2>7, <2>8, RowsPut
  <2>10. SaveInv' /\ \A m \in Slot : Serving(m, {"update"}) => m = n
    BY <1>0, <2>2, <2>9, ServedSave DEF UsersCalls
  <2>11. ASSUME w.user \in Elements(accounts)
         PROVE  [w.user EXCEPT !.name = IF w.form.name = None THEN @ ELSE w.form.name,
                               !.role = w.form.role] \in Elements(accounts')
    <3>1. w.user = a
      BY <1>0, <2>3, <2>7, <2>11 DEF Elements, RowsOK
    <3>2. b = [a EXCEPT !.name = IF w.form.name = None THEN @ ELSE w.form.name, !.role = w.form.role]
      <4>1. PICK f \in Typed : f = w.form
        BY <2>5
      <4>2. b = MergeFields(a, Diff(a, f))
        BY <2>5, <2>8, <3>1, <4>1
      <4>3. b = [a EXCEPT !.name = IF f.name = None THEN @ ELSE f.name, !.role = f.role]
        BY <4>2, DiffMerged
      <4>. QED BY <4>1, <4>3
    <3>. QED BY <2>9, <3>1, <3>2 DEF Elements
  <2>. QED BY <2>1, <2>10, <2>11 DEF SaveStep
<1>6. ASSUME DeleteUser(n) PROVE SaveInv' /\ SaveStep
  <2>1. PICK i \in DOMAIN accounts :
            accounts' = SubSeq(accounts, 1, i - 1) \o SubSeq(accounts, i + 1, Len(accounts))
    BY <1>6 DEF DeleteUser, IndexOf
  <2>2. Arriving(n, "delete") /\ Served(n, "ok") /\ made' = made
    BY <1>6 DEF DeleteUser
  <2>3. PICK s, t : s \in Seq(Account) /\ s = accounts /\ t = accounts'
    BY <1>0 DEF RowsOK
  <2>4. /\ t \in Seq(Account) /\ Len(t) = Len(s) - 1
        /\ \A j \in DOMAIN t : IF j < i THEN j \in DOMAIN s /\ t[j] = s[j]
                                        ELSE j + 1 \in DOMAIN s /\ t[j] = s[j + 1]
    <3>1. i \in DOMAIN s /\ t = SubSeq(s, 1, i - 1) \o SubSeq(s, i + 1, Len(s))
      BY <2>1, <2>3
    <3>2. s \in Seq(Account)
      BY <2>3
    <3>. QED BY <3>1, <3>2, CutIndex
  <2>5. i \in Nat /\ \A j \in DOMAIN t : j \in Nat
    BY <2>1, <2>3, <2>4, LenProperties
  <2>6. \A j, k \in DOMAIN t : t[j].id = t[k].id => j = k
    <3>. SUFFICES ASSUME NEW j \in DOMAIN t, NEW k \in DOMAIN t, t[j].id = t[k].id PROVE j = k
      OBVIOUS
    <3>1. PICK x \in DOMAIN s, y \in DOMAIN s :
              x = (IF j < i THEN j ELSE j + 1) /\ y = (IF k < i THEN k ELSE k + 1) /\ t[j] = s[x] /\ t[k] = s[y]
      BY <2>4
    <3>2. x = y
      BY <1>0, <2>3, <3>1 DEF RowsOK
    <3>. QED BY <2>5, <3>1, <3>2
  <2>7. \A j \in DOMAIN t : t[j].id <= made
    BY <1>0, <2>3, <2>4 DEF RowsOK
  <2>8. RowsOK'
    BY <1>0, <2>2, <2>3, <2>4, <2>6, <2>7 DEF RowsOK
  <2>. QED BY <1>1, <2>2, <2>8 DEF UsersCalls
<1>7. ASSUME ToggleUser(n) PROVE SaveInv' /\ SaveStep
  <2>1. PICK i \in DOMAIN accounts : accounts' = [accounts EXCEPT ![i].active = ~@]
    BY <1>7 DEF ToggleUser, IndexOf
  <2>2. Arriving(n, "toggle") /\ Served(n, "ok") /\ made' = made
    BY <1>7 DEF ToggleUser
  <2>3. PICK a \in Account : a = accounts[i]
    BY <1>0, ElementOfSeq, LenProperties DEF RowsOK
  <2>4. PICK b : b = [a EXCEPT !.active = ~a.active]
    OBVIOUS
  <2>5. b \in Account /\ b.id = a.id
    BY <2>4 DEF Account
  <2>6. accounts' = [accounts EXCEPT ![i] = b]
    BY <2>1, <2>3, <2>4
  <2>7. RowsOK'
    BY <1>0, <2>2, <2>3, <2>5, <2>6, RowsPut
  <2>. QED BY <1>1, <2>2, <2>7 DEF UsersCalls
<1>. QED BY <1>3, <1>4, <1>5, <1>6, <1>7 DEF UsersServer

LEMMA SaveNext == AppInv /\ SaveInv /\ [Next]_vars => SaveInv' /\ SaveStep
<1>. SUFFICES ASSUME AppInv, SaveInv, [Next]_vars PROVE SaveInv' /\ SaveStep
  OBVIOUS
<1>1. CallsOK /\ UsersInv
  BY DEF AppInv, PagesInv
<1>2. ASSUME Fewer(UsersCalls), usersDb' = usersDb PROVE SaveInv' /\ SaveStep
  BY <1>2, FewerKept, SaveFrame
<1>3. ASSUME NEW K, CallStep(K), K \intersect UsersCalls = {}, usersDb' = usersDb PROVE SaveInv' /\ SaveStep
  <2>1. Fewer(UsersCalls)
    BY <1>3 DEF CallStep, Fewer, NoCall, UsersCalls
  <2>. QED BY <1>2, <1>3, <2>1
<1>4. CASE OnUsers
  BY <1>1, <1>4, OnUsersSave, SaveFrame
<1>5. CASE OnBuckets
  <2>1. usersDb' = usersDb /\ page' = page
    BY <1>5 DEF OnBuckets, usersVars, usersDb, whoVars
  <2>2. CallStep(BucketsCalls)
    BY <1>1, <1>5, <2>1, BucketsStep DEF AppInv, PagesInv, BucketsGoal
  <2>. QED BY <1>3, <2>1, <2>2 DEF BucketsCalls, UsersCalls
<1>6. CASE OnReports
  <2>1. usersDb' = usersDb /\ page' = page
    BY <1>6 DEF OnReports, usersVars, usersDb, whoVars
  <2>2. CallStep(ReportsCalls)
    BY <1>1, <1>6, <2>1, ReportsStep DEF AppInv, PagesInv
  <2>. QED BY <1>3, <2>1, <2>2 DEF ReportsCalls, UsersCalls
<1>7. CASE Elsewhere \/ UNCHANGED vars
  <2>1. usersDb' = usersDb /\ calls' = calls
    BY <1>7 DEF Elsewhere, usersVars, usersDb, vars, dbVars
  <2>. QED BY <1>2, <2>1 DEF Fewer
<1>8. CASE Auth
  <2>1. dbVars' = dbVars /\ (Moved \/ Stayed)
    BY <1>8, AuthMoves
  <2>2. usersDb' = usersDb
    BY <2>1 DEF dbVars, usersDb
  <2>3. CASE Stayed
    BY <1>2, <2>2, <2>3, SameFewer DEF Stayed
  <2>4. CASE Moved
    <3>1. SaveCalls \subseteq PageCalls \ {"users", "buckets", "logBuckets", "logs", "summary"}
      BY DEF SaveCalls, PageCalls, UsersCalls
    <3>2. \A n \in Slot : calls'[n].kind \in SaveCalls => Heir(calls[n], calls'[n])
      BY <2>4, <3>1 DEF Moved
    <3>. QED BY <2>2, <3>2, HeirKept, SaveFrame
  <2>. QED BY <2>1, <2>3, <2>4
<1>9. ASSUME NEW n \in Slot, Server(n) PROVE SaveInv' /\ SaveStep
  <2>1. CASE UsersServer(n)
    BY <1>1, <2>1, ServerSave
  <2>2. CASE UNCHANGED <<accounts, made>> /\ Fewer(UsersCalls)
    BY <1>2, <2>2 DEF usersDb
  <2>. QED BY <1>1, <1>9, <2>1, <2>2, ServerParts
<1>. QED BY <1>4, <1>5, <1>6, <1>7, <1>8, <1>9 DEF Next

LEMMA SaveInit == Init => SaveInv
<1>. SUFFICES ASSUME Init PROVE SaveInv
  OBVIOUS
<1>1. accounts = Accounts /\ made = Len(Accounts)
  BY DEF Init
<1>2. Len(Accounts) \in Nat /\ MaxMade \in Nat
  BY AppAssumption, UsersAssumption, LenProperties
<1>3. RowsOK
  BY <1>1, <1>2, AppAssumption DEF RowsOK
<1>4. \A n \in Slot : calls[n].kind \in {"none", "me"}
  BY FirstCalls
<1>. QED BY <1>3, <1>4 DEF SaveInv, SaveCall, SaveCalls

\* An update of a row makes what was typed into its form (UserFormDialog.tsx:69-75), whatever
\* else is under way.
THEOREM UpdatesAsTyped == Spec => SavedAsTyped
<1>1. Init => AppInv /\ SaveInv
  BY InitStep, SaveInit
<1>2. AppInv /\ SaveInv /\ [Next]_vars => AppInv' /\ SaveInv' /\ SaveStep
  BY NextStep, SaveNext
<1>3. Spec => [][SaveStep]_vars
  BY <1>1, <1>2, PTL DEF Spec
<1>. QED BY <1>3 DEF SavedAsTyped, SaveStep

-----------------------------------------------------------------------------
(* The grid and the deletions *)

\* A bucket that is gone from the storage service, or that the tab may have made anew.
Dead(b, there, tried) == b \notin there \/ b \in tried

\* A grid without the buckets that are gone.
Clear(grid, gone, tried) == \A b \in grid : b \in gone => b \in tried

\* The deletion that a listing ends.
Ending(b) == {b} \ {None}

\* As long as no listing was asked for while another was under way.
InTurn ==
    /\ \A n, m \in Mine(ListCalls) : n = m
    /\ Mine(ListCalls) # {} => bp.loading
    /\ \A n \in Mine({"buckets"}) :
          calls[n].served => Clear(calls[n].answer, bp.alerted \union Ending(calls[n].arg), bp.tried)
    /\ \A n \in Mine({"analytics"}) : Clear(bp.grid, bp.alerted \union Ending(calls[n].arg), bp.tried)
    /\ Mine(ListCalls) = {} /\ ~bp.error => Clear(bp.grid, bp.alerted, bp.tried)

\* A deletion that was served, and a listing that ends one, are of a bucket that is gone.
DeadCalls ==
    /\ \A n \in Mine({"dropBucket"}) : calls[n].served => Dead(calls[n].arg, buckets, bp.tried)
    /\ \A n \in Mine(ListCalls) : calls[n].arg # None => Dead(calls[n].arg, buckets, bp.tried)

GridInv ==
    /\ \A n \in Slot : calls[n].kind = "makeBucket" => calls[n].arg \in bp.tried
    /\ \A b \in bp.alerted : Dead(b, buckets, bp.tried)
    /\ page = "buckets" => DeadCalls /\ (~bp.crossed => InTurn)

LEMMA GridGone == GridInv => DeletedGone
BY DEF GridInv, InTurn, Clear, DeletedGone

\* The deletions that were answered are of buckets that are gone.
DropsDead == \A n \in Mine({"dropBucket"}) : calls[n].served => Dead(calls[n].arg, buckets, bp.tried)
MakesTried == \A n \in Slot : calls[n].kind = "makeBucket" => calls[n].arg \in bp.tried
DeadStay == \A b : Dead(b, buckets, bp.tried) => Dead(b, buckets', bp'.tried)

LEMMA ListMines ==
  /\ Mine({"buckets"}) \subseteq Mine(ListCalls) /\ Mine({"analytics"}) \subseteq Mine(ListCalls)
  /\ \A n \in Mine(ListCalls) : n \in Mine({"buckets"}) \/ n \in Mine({"analytics"})
BY DEF Mine, ListCalls

\* The grid stays, with the listings there are; one may be answered.
LEMMA GridKeep ==
  ASSUME GridInv, page' = page, DeadStay, bp.tried \subseteq bp'.tried, MakesTried', DropsDead',
         bp'.grid = bp.grid, bp'.loading = bp.loading, bp'.error = bp.error, bp'.crossed = bp.crossed,
         bp'.alerted = bp.alerted,
         Mine(ListCalls)' = Mine(ListCalls), Mine({"buckets"})' = Mine({"buckets"}),
         Mine({"analytics"})' = Mine({"analytics"}),
         \A n \in Mine(ListCalls) : calls'[n].arg = calls[n].arg,
         \A n \in Mine({"buckets"}) :
             calls'[n].served =>
                 (calls[n].served /\ calls'[n].answer = calls[n].answer) \/ calls'[n].answer = buckets'
  PROVE  GridInv'
<1>1. \A b \in bp'.alerted : Dead(b, buckets', bp'.tried)
  BY DEF GridInv, DeadStay
<1>2. ASSUME page = "buckets" PROVE DeadCalls'
  BY <1>2 DEF GridInv, DeadCalls, DeadStay, DropsDead
<1>3. ASSUME page = "buckets", ~bp.crossed PROVE InTurn'
  <2>1. InTurn
    BY <1>3 DEF GridInv
  <2>2. \A grid, gone : Clear(grid, gone, bp.tried) => Clear(grid, gone, bp'.tried)
    BY DEF Clear
  <2>3. ASSUME NEW n \in Mine({"buckets"}), calls'[n].served
        PROVE  Clear(calls'[n].answer, bp.alerted \union Ending(calls[n].arg), bp'.tried)
    <3>1. CASE calls[n].served /\ calls'[n].answer = calls[n].answer
      BY <2>1, <2>2, <3>1 DEF InTurn
    <3>2. CASE calls'[n].answer = buckets'
      <4>1. n \in Mine(ListCalls)
        BY ListMines
      <4>2. calls[n].arg # None => Dead(calls[n].arg, buckets', bp'.tried)
        BY <1>3, <4>1 DEF GridInv, DeadCalls, DeadStay
      <4>. QED BY <1>1, <3>2, <4>2 DEF Clear, Dead, Ending
    <3>. QED BY <2>3, <3>1, <3>2
  <2>4. \A n \in Mine({"analytics"}) : Clear(bp.grid, bp.alerted \union Ending(calls[n].arg), bp'.tried)
    BY <2>1, <2>2 DEF InTurn
  <2>5. \A n \in Mine(ListCalls) : calls'[n].arg = calls[n].arg
    OBVIOUS
  <2>6. Mine(ListCalls) = {} /\ ~bp.error => Clear(bp.grid, bp.alerted, bp'.tried)
    BY <2>1, <2>2 DEF InTurn
  <2>7. (\A n, m \in Mine(ListCalls) : n = m) /\ (Mine(ListCalls) # {} => bp.loading)
    BY <2>1 DEF InTurn
  <2>. QED BY <2>3, <2>4, <2>5, <2>6, <2>7, ListMines DEF InTurn
<1>. QED BY <1>1, <1>2, <1>3 DEF GridInv, MakesTried

\* A step that is about other calls.
LEMMA GridFrame ==
  ASSUME CallsOK, CallsOK', GridInv, page' = page, bp' = bp, buckets' = buckets, SameCalls(BpCalls)
  PROVE  GridInv'
<1>1. \A J : J \subseteq BpCalls => Mine(J)' = Mine(J) /\ \A n \in Mine(J) : calls'[n] = calls[n]
  BY SameMine DEF CallsOK
<1>2. /\ Mine(ListCalls)' = Mine(ListCalls) /\ \A n \in Mine(ListCalls) : calls'[n] = calls[n]
      /\ Mine({"buckets"})' = Mine({"buckets"}) /\ Mine({"analytics"})' = Mine({"analytics"})
      /\ Mine({"dropBucket"})' = Mine({"dropBucket"}) /\ \A n \in Mine({"dropBucket"}) : calls'[n] = calls[n]
  BY <1>1 DEF BpCalls, ListCalls
<1>3. \A n \in Slot : calls'[n].kind = "makeBucket" => calls'[n] = calls[n]
  BY DEF SameCalls, BpCalls
<1>4. page = "buckets" => DeadCalls' /\ (~bp.crossed => InTurn')
  BY <1>2, ListMines DEF GridInv, DeadCalls, InTurn
<1>. QED BY <1>3, <1>4 DEF GridInv

\* Another page is at hand.
LEMMA GridAway ==
  ASSUME GridInv, page' # "buckets", bp' = bp, buckets' = buckets, Fewer(BpCalls)
  PROVE  GridInv'
BY DEF GridInv, Fewer, BpCalls

LEMMA GridMoved ==
  ASSUME GridInv, CallsOK', Moved, buckets' = buckets
  PROVE  GridInv'
<1>1. bp' = [FreshBuckets EXCEPT !.tried = bp.tried]
  BY DEF Moved
<1>2. /\ bp'.tried = bp.tried /\ bp'.alerted = {} /\ bp'.grid = {} /\ bp'.loading = TRUE
  BY <1>1 DEF FreshBuckets
<1>3. \A n \in Slot : calls'[n].kind \in {"makeBucket", "dropBucket"} => Heir(calls[n], calls'[n]) /\ calls'[n].gone
  BY DEF Moved, PageCalls, BucketsCalls
<1>4. MakesTried'
  BY <1>2, <1>3 DEF MakesTried, GridInv, Heir
<1>5. ASSUME page' = "buckets" PROVE DeadCalls' /\ InTurn'
  <2>1. PICK n \in Slot : Mine(ListCalls)' = {n} /\ calls'[n].arg = None /\ ~calls'[n].served
    BY <1>5 DEF Moved
  <2>2. Mine({"dropBucket"})' = {}
    BY <1>3, CallsKindNext DEF CallsOK
  <2>3. Mine({"buckets"})' \subseteq Mine(ListCalls)'
    BY DEF Mine, ListCalls
  <2>. QED BY <1>2, <2>1, <2>2, <2>3 DEF DeadCalls, InTurn, Clear
<1>. QED BY <1>2, <1>4, <1>5 DEF GridInv, MakesTried

\* loadBuckets is begun.
LEMMA NewListing ==
  ASSUME GridInv, page = "buckets", page' = page, buckets' = buckets, MakesTried', DropsDead',
         bp'.tried = bp.tried, bp'.alerted = bp.alerted, bp'.grid = bp.grid, bp'.loading = TRUE,
         bp'.crossed = (Mine(ListCalls) # {}),
         NEW n \in Slot, Mine(ListCalls)' = Mine(ListCalls) \union {n}, Mine({"analytics"})' = Mine({"analytics"}) \ {n},
         \A m \in Slot \ {n} : calls'[m] = calls[m],
         ~calls'[n].served, calls'[n].arg # None => Dead(calls'[n].arg, buckets, bp.tried)
  PROVE  GridInv'
<1>1. DeadCalls'
  <2>1. \A m \in Mine(ListCalls)' : m = n \/ (m \in Mine(ListCalls) /\ calls'[m] = calls[m])
    <3>1. Mine(ListCalls) \subseteq Slot
      BY MineSets
    <3>. QED BY <3>1
  <2>. QED BY <2>1 DEF GridInv, DeadCalls, DropsDead
<1>2. ASSUME ~bp'.crossed PROVE InTurn'
  <2>1. Mine(ListCalls) = {}
    BY <1>2
  <2>2. Mine(ListCalls)' = {n} /\ Mine({"analytics"})' = {}
    BY <2>1, ListMines
  <2>3. Mine({"buckets"})' \subseteq Mine(ListCalls)'
    BY DEF Mine, ListCalls
  <2>. QED BY <2>2, <2>3 DEF InTurn
<1>. QED BY <1>1, <1>2 DEF GridInv, MakesTried

\* loadBuckets ends, and with it the deletion w.
LEMMA ListingOver ==
  ASSUME GridInv, page = "buckets", page' = page, buckets' = buckets, MakesTried', DropsDead',
         NEW n \in Mine(ListCalls), NEW w, w = calls[n].arg,
         bp'.tried = bp.tried, bp'.alerted = bp.alerted \union Ending(w), bp'.grid = bp.grid, bp'.loading = FALSE,
         bp'.crossed = bp.crossed, (bp'.error = bp.error /\ n \in Mine({"analytics"})) \/ bp'.error = TRUE,
         Mine(ListCalls)' = Mine(ListCalls) \ {n}, \A m \in Slot \ {n} : calls'[m] = calls[m]
  PROVE  GridInv'
<1>1. \A b \in bp'.alerted : Dead(b, buckets, bp.tried)
  BY DEF GridInv, DeadCalls, Ending
<1>2. DeadCalls'
  <2>1. \A m \in Mine(ListCalls)' : m \in Mine(ListCalls) /\ calls'[m] = calls[m]
    BY MineSets
  <2>. QED BY <2>1 DEF GridInv, DeadCalls, DropsDead
<1>3. ASSUME ~bp'.crossed PROVE InTurn'
  <2>1. InTurn
    BY <1>3 DEF GridInv
  <2>2. Mine(ListCalls)' = {}
    BY <2>1 DEF InTurn
  <2>3. Mine({"buckets"})' = {} /\ Mine({"analytics"})' = {}
    BY <2>2 DEF Mine, ListCalls
  <2>4. ~bp'.error => Clear(bp'.grid, bp'.alerted, bp'.tried)
    BY <2>1 DEF InTurn
  <2>. QED BY <2>2, <2>3, <2>4 DEF InTurn
<1>. QED BY <1>1, <1>2, <1>3 DEF GridInv, MakesTried

\* A call of the page is sent.
LEMMA BpSent ==
  ASSUME CallsOK, GridInv, buckets' = buckets, bp.tried \subseteq bp'.tried,
         NEW k \in BpCalls, NEW w, Send(k, w), k = "makeBucket" => w \in bp'.tried
  PROVE  /\ MakesTried' /\ (page = "buckets" => DropsDead') /\ DeadStay
         /\ \E n \in Slot : /\ calls'[n].kind = k /\ calls'[n].arg = w /\ ~calls'[n].served
                            /\ \A m \in Slot \ {n} : calls'[m] = calls[m]
                            /\ \A K : n \notin Mine(K)
                            /\ \A K : Mine(K)' = IF k \in K THEN Mine(K) \union {n} ELSE Mine(K)
<1>1. PICK n \in Slot : /\ calls'[n].kind = k /\ calls'[n].arg = w /\ ~calls'[n].served
                        /\ \A m \in Slot \ {n} : calls'[m] = calls[m]
                        /\ \A K : n \notin Mine(K)
                        /\ \A K : Mine(K)' = IF k \in K THEN Mine(K) \union {n} ELSE Mine(K)
  BY BpSend
<1>2. MakesTried'
  BY <1>1 DEF MakesTried, GridInv
<1>3. DeadStay
  BY DEF DeadStay, Dead
<1>4. page = "buckets" => DropsDead'
  <2>1. \A m \in Mine({"dropBucket"})' : m = n \/ (m \in Mine({"dropBucket"}) /\ m \in Slot /\ m # n)
    <3>1. Mine({"dropBucket"}) \subseteq Slot
      BY MineSets
    <3>2. Mine({"dropBucket"})' \subseteq Mine({"dropBucket"}) \union {n} /\ n \notin Mine({"dropBucket"})
      BY <1>1
    <3>. QED BY <3>1, <3>2
  <2>. QED BY <1>1, <1>3, <2>1 DEF DropsDead, GridInv, DeadCalls, DeadStay
<1>. QED BY <1>1, <1>2, <1>3, <1>4

\* One is over, or is followed by a listing.
LEMMA BpEnds ==
  ASSUME CallsOK, GridInv, page = "buckets", buckets' = buckets, bp'.tried = bp.tried, NEW n \in Slot,
         Forget(n) \/ (calls[n].kind \in BpCalls /\ \E k \in ListCalls : \E w : Put(n, Call(k, w)))
  PROVE  MakesTried' /\ DropsDead' /\ DeadStay
<1>1. CASE Forget(n)
  <2>1. calls'[n] = NoCall
    BY <1>1, ForgetEffect DEF CallsOK
  <2>2. (\A m \in Slot \ {n} : calls'[m] = calls[m]) /\ Mine({"dropBucket"})' = Mine({"dropBucket"}) \ {n}
    BY <1>1, BucketsForget
  <2>3. calls'[n].kind # "makeBucket"
    BY <2>1 DEF NoCall
  <2>. QED BY <2>2, <2>3, MineSets DEF MakesTried, DropsDead, DeadStay, GridInv, DeadCalls
<1>2. ASSUME calls[n].kind \in BpCalls, NEW k \in ListCalls, NEW w, Put(n, Call(k, w))
      PROVE  MakesTried' /\ DropsDead' /\ DeadStay
  <2>1. k \in BpCalls /\ k # "makeBucket" /\ k # "dropBucket"
    BY DEF BpCalls, ListCalls
  <2>2. /\ calls'[n].kind = k /\ \A m \in Slot \ {n} : calls'[m] = calls[m]
        /\ Mine({"dropBucket"})' = Mine({"dropBucket"}) \ {n}
    BY <1>2, <2>1, BpFollow
  <2>. QED BY <2>1, <2>2, MineSets DEF MakesTried, DropsDead, DeadStay, GridInv, DeadCalls
<1>. QED BY <1>1, <1>2

\* The fields of the page that the user's other clicks leave alone.
GridFields ==
    /\ bp'.grid = bp.grid /\ bp'.loading = bp.loading /\ bp'.error = bp.error
    /\ bp'.crossed = bp.crossed /\ bp'.alerted = bp.alerted

\* The listings under way are left alone.
ListsStay ==
    /\ Mine(ListCalls)' = Mine(ListCalls) /\ Mine({"buckets"})' = Mine({"buckets"})
    /\ Mine({"analytics"})' = Mine({"analytics"})
    /\ \A n \in Mine(ListCalls) : calls'[n] = calls[n]

LEMMA GridLists ==
  ASSUME GridInv, page' = page, DeadStay, bp.tried \subseteq bp'.tried, MakesTried', DropsDead',
         GridFields, ListsStay
  PROVE  GridInv'
<1>1. \A n \in Mine(ListCalls) : calls'[n].arg = calls[n].arg
  BY DEF ListsStay
<1>2. \A n \in Mine({"buckets"}) : calls'[n].served => calls[n].served /\ calls'[n].answer = calls[n].answer
  BY ListMines DEF ListsStay
<1>. QED BY <1>1, <1>2, GridKeep DEF GridFields, ListsStay

LEMMA GridUser ==
  ASSUME CallsOK, CallsOK', BucketsInv, GridInv, page = "buckets", page' = page,
         \/ RefreshBuckets \/ OpenCreate \/ CloseCreate \/ LeaveBucket
         \/ \E b \in Bucket : SubmitBucket(b) \/ ClickDelete(b) \/ EnterBucket(b)
  PROVE  GridInv'
<1>1. DOMAIN bp = BpFields
  BY DEF BucketsInv, BpInv
<1>2. ASSUME GridFields, bp'.tried = bp.tried, calls' = calls, buckets' = buckets PROVE GridInv'
  <2>1. \A K : Mine(K)' = Mine(K)
    BY <1>2, QuietEffect
  <2>2. ListsStay /\ MakesTried' /\ DropsDead' /\ DeadStay
    BY <1>2, <2>1 DEF ListsStay, MakesTried, DropsDead, DeadStay, GridInv, DeadCalls
  <2>. QED BY <1>2, <2>2, GridLists
<1>3. CASE RefreshBuckets
  <2>1. /\ bp' = BpLoading(bp) /\ Send("buckets", None) /\ buckets' = buckets
    BY <1>3 DEF RefreshBuckets, BpDo, bucketsDb
  <2>2. /\ bp'.tried = bp.tried /\ bp'.alerted = bp.alerted /\ bp'.grid = bp.grid /\ bp'.loading = TRUE
        /\ bp'.crossed = (Mine(ListCalls) # {})
    BY <1>1, <2>1 DEF BpLoading, BpFields, ListCalls
  <2>3. "buckets" \in BpCalls /\ bp.tried \subseteq bp'.tried
    BY <2>2 DEF BpCalls
  <2>4. /\ MakesTried' /\ DropsDead'
        /\ \E n \in Slot : /\ calls'[n].kind = "buckets" /\ calls'[n].arg = None /\ ~calls'[n].served
                           /\ \A m \in Slot \ {n} : calls'[m] = calls[m]
                           /\ \A K : n \notin Mine(K)
                           /\ \A K : Mine(K)' = IF "buckets" \in K THEN Mine(K) \union {n} ELSE Mine(K)
    BY <2>1, <2>3, BpSent
  <2>5. PICK n \in Slot : /\ calls'[n].arg = None /\ ~calls'[n].served
                          /\ \A m \in Slot \ {n} : calls'[m] = calls[m]
                          /\ \A K : n \notin Mine(K)
                          /\ \A K : Mine(K)' = IF "buckets" \in K THEN Mine(K) \union {n} ELSE Mine(K)
    BY <2>4
  <2>6. Mine(ListCalls)' = Mine(ListCalls) \union {n} /\ Mine({"analytics"})' = Mine({"analytics"}) \ {n}
    BY <2>5 DEF ListCalls
  <2>. QED BY <2>1, <2>2, <2>4, <2>5, <2>6, NewListing
<1>4. ASSUME OpenCreate \/ CloseCreate \/ LeaveBucket \/ \E b \in Bucket : EnterBucket(b) PROVE GridInv'
  <2>1. /\ \E f : bp' = [bp EXCEPT !.form = f] \/ bp' = [bp EXCEPT !.inside = f]
        /\ calls' = calls /\ buckets' = buckets
    BY <1>4 DEF OpenCreate, CloseCreate, LeaveBucket, EnterBucket, BpDo, Quiet, bucketsDb
  <2>2. GridFields /\ bp'.tried = bp.tried
    BY <1>1, <2>1 DEF BpFields, GridFields
  <2>. QED BY <1>2, <2>1, <2>2
<1>5. ASSUME NEW k \in {"makeBucket", "dropBucket"}, NEW b, Send(k, b), buckets' = buckets, GridFields,
             bp.tried \subseteq bp'.tried, k = "makeBucket" => b \in bp'.tried
      PROVE  GridInv'
  <2>1. k \in BpCalls /\ k \notin ListCalls /\ k # "buckets" /\ k # "analytics"
    BY DEF BpCalls, ListCalls
  <2>2. /\ MakesTried' /\ DropsDead' /\ DeadStay
        /\ \E n \in Slot : /\ \A m \in Slot \ {n} : calls'[m] = calls[m]
                           /\ \A K : n \notin Mine(K)
                           /\ \A K : Mine(K)' = IF k \in K THEN Mine(K) \union {n} ELSE Mine(K)
    BY <1>5, <2>1, BpSent
  <2>3. PICK n \in Slot : /\ \A m \in Slot \ {n} : calls'[m] = calls[m]
                          /\ \A K : n \notin Mine(K)
                          /\ \A K : Mine(K)' = IF k \in K THEN Mine(K) \union {n} ELSE Mine(K)
    BY <2>2
  <2>4. ListsStay
    BY <2>1, <2>3, MineSets DEF ListsStay
  <2>. QED BY <1>5, <2>2, <2>4, GridLists
<1>6. ASSUME NEW b \in Bucket, SubmitBucket(b) PROVE GridInv'
  <2>1. /\ bp' = [bp EXCEPT !.creating = TRUE, !.tried = @ \union {b}] /\ Send("makeBucket", b)
        /\ buckets' = buckets
    BY <1>6 DEF SubmitBucket, BpDo, bucketsDb
  <2>2. GridFields /\ bp'.tried = bp.tried \union {b}
    BY <1>1, <2>1 DEF BpFields, GridFields
  <2>. QED BY <1>5, <2>1, <2>2
<1>7. ASSUME NEW b \in Bucket, ClickDelete(b) PROVE GridInv'
  <2>1. bp' = bp /\ Send("dropBucket", b) /\ buckets' = buckets
    BY <1>7 DEF ClickDelete, BpDo, bucketsDb
  <2>2. GridFields
    BY <2>1 DEF GridFields
  <2>. QED BY <1>5, <2>1, <2>2
<1>. QED BY <1>3, <1>4, <1>6, <1>7

LEMMA GridAnswer ==
  ASSUME CallsOK, CallsOK', BucketsInv, GridInv, page = "buckets", page' = page, NEW n \in Slot,
         \/ BucketsLoaded(n) \/ BucketsFail(n) \/ AnalyticsDone(n)
         \/ BucketCreated(n) \/ CreateFails(n) \/ BucketDeleted(n) \/ DeleteBucketFails(n)
  PROVE  GridInv'
<1>1. DOMAIN bp = BpFields
  BY DEF BucketsInv, BpInv
<1>2. PICK w : w = calls[n].arg
  OBVIOUS
<1>3. ASSUME Forget(n), n \in Mine({"makeBucket"}) \/ n \in Mine({"dropBucket"}), GridFields,
             bp'.tried = bp.tried, buckets' = buckets
      PROVE  GridInv'
  <2>1. MakesTried' /\ DropsDead' /\ DeadStay
    BY <1>3, BpEnds
  <2>2. (\A m \in Slot \ {n} : calls'[m] = calls[m]) /\ \A K : Mine(K)' = Mine(K) \ {n}
    BY <1>3, BucketsForget
  <2>3. n \notin Mine(ListCalls) /\ n \notin Mine({"buckets"}) /\ n \notin Mine({"analytics"})
    BY <1>3 DEF Mine, ListCalls
  <2>4. ListsStay
    BY <2>2, <2>3, MineSets DEF ListsStay
  <2>. QED BY <1>3, <2>1, <2>4, GridLists
<1>4. CASE BucketsLoaded(n)
  <2>1. /\ bp' = [bp EXCEPT !.grid = calls[n].answer] /\ buckets' = buckets
        /\ Put(n, Call("analytics", w)) /\ n \in Mine({"buckets"}) /\ calls[n].served
    BY <1>2, <1>4 DEF BucketsLoaded, BpThen, Answered, bucketsDb
  <2>2. /\ bp'.tried = bp.tried /\ bp'.alerted = bp.alerted /\ bp'.grid = calls[n].answer
        /\ bp'.loading = bp.loading /\ bp'.crossed = bp.crossed /\ bp'.error = bp.error
    BY <1>1, <2>1 DEF BpFields
  <2>3. "analytics" \in ListCalls /\ "analytics" \in BpCalls /\ calls[n].kind \in BpCalls
    BY <2>1 DEF ListCalls, BpCalls, Mine
  <2>4. MakesTried' /\ DropsDead' /\ DeadStay
    BY <2>1, <2>2, <2>3, BpEnds
  <2>5. /\ calls'[n].kind = "analytics" /\ calls'[n].arg = w /\ ~calls'[n].served
        /\ \A m \in Slot \ {n} : calls'[m] = calls[m]
        /\ \A K : Mine(K)' = IF "analytics" \in K THEN Mine(K) \union {n} ELSE Mine(K) \ {n}
    BY <2>1, <2>3, BpFollow
  <2>6. Mine(ListCalls)' = Mine(ListCalls) /\ n \in Mine(ListCalls)
    BY <2>1, <2>3, <2>5, ListMines
  <2>7. Mine({"buckets"})' = Mine({"buckets"}) \ {n} /\ Mine({"analytics"})' = Mine({"analytics"}) \union {n}
    BY <2>5
  <2>8. DeadCalls'
    <3>1. \A m \in Mine(ListCalls) : calls'[m].arg = calls[m].arg
      BY <1>2, <2>5, MineSets
    <3>. QED BY <2>1, <2>2, <2>4, <2>6, <3>1 DEF DeadCalls, DropsDead, GridInv
  <2>9. ASSUME ~bp.crossed PROVE InTurn'
    <3>1. InTurn
      BY <2>9 DEF GridInv
    <3>2. Mine(ListCalls) = {n}
      BY <2>6, <3>1 DEF InTurn
    <3>3. Mine({"buckets"})' = {} /\ Mine({"analytics"})' = {n}
      BY <2>1, <2>7, <3>2, ListMines
    <3>4. Clear(bp'.grid, bp'.alerted \union Ending(w), bp'.tried)
      BY <1>2, <2>1, <2>2, <3>1 DEF InTurn
    <3>5. bp'.loading
      BY <2>2, <3>1, <3>2 DEF InTurn
    <3>. QED BY <2>5, <2>6, <3>2, <3>3, <3>4, <3>5 DEF InTurn
  <2>. QED BY <2>1, <2>2, <2>4, <2>8, <2>9 DEF GridInv, MakesTried
<1>5. CASE BucketsFail(n) \/ AnalyticsDone(n)
  <2>1. PICK ui : /\ bp' = BpSettled(ui, w) /\ buckets' = buckets /\ Forget(n) /\ n \in Mine(ListCalls)
                  /\ DOMAIN ui = BpFields /\ ui.tried = bp.tried /\ ui.alerted = bp.alerted
                  /\ ui.grid = bp.grid /\ ui.crossed = bp.crossed
                  /\ (ui.error = bp.error /\ n \in Mine({"analytics"})) \/ ui.error = TRUE
    <3>1. CASE BucketsFail(n)
      <4>1. PICK ui : ui = [bp EXCEPT !.error = TRUE]
        OBVIOUS
      <4>2. /\ DOMAIN ui = BpFields /\ ui.tried = bp.tried /\ ui.alerted = bp.alerted
            /\ ui.grid = bp.grid /\ ui.crossed = bp.crossed /\ ui.error = TRUE
        BY <1>1, <4>1 DEF BpFields
      <4>3. bp' = BpSettled(ui, w)
        BY <1>2, <3>1, <4>1, Zenon DEF BucketsFail, BpThen
      <4>4. buckets' = buckets /\ Forget(n) /\ n \in Mine({"buckets"})
        BY <3>1, Zenon DEF BucketsFail, BpThen, Failing, bucketsDb
      <4>. QED BY <4>2, <4>3, <4>4, ListMines
    <3>2. CASE AnalyticsDone(n)
      <4>1. bp' = BpSettled(bp, w)
        BY <1>2, <3>2, Zenon DEF AnalyticsDone, BpThen
      <4>2. buckets' = buckets /\ Forget(n) /\ n \in Mine({"analytics"})
        BY <3>2, Zenon DEF AnalyticsDone, BpThen, Failing, bucketsDb
      <4>. QED BY <1>1, <4>1, <4>2, ListMines
    <3>. QED BY <1>5, <3>1, <3>2
  <2>2. /\ bp'.tried = bp.tried /\ bp'.grid = bp.grid /\ bp'.loading = FALSE /\ bp'.crossed = bp.crossed
        /\ bp'.error = ui.error
        /\ bp'.alerted = IF w = None THEN ui.alerted ELSE ui.alerted \union {w}
    BY <2>1 DEF BpSettled, BpFields
  <2>3. bp'.alerted = bp.alerted \union Ending(w)
    BY <2>1, <2>2 DEF Ending
  <2>4. MakesTried' /\ DropsDead'
    BY <2>1, <2>2, BpEnds
  <2>5. (\A m \in Slot \ {n} : calls'[m] = calls[m]) /\ Mine(ListCalls)' = Mine(ListCalls) \ {n}
    BY <2>1, BucketsForget
  <2>. QED BY <1>2, <2>1, <2>2, <2>3, <2>4, <2>5, ListingOver
<1>6. CASE BucketCreated(n) \/ CreateFails(n)
  <2>1. GridFields /\ bp'.tried = bp.tried
    <3>1. CASE bp' = [bp EXCEPT !.form = FALSE, !.creating = FALSE, !.created = @ \union {calls[n].arg}]
      BY <1>1, <3>1 DEF BpFields, GridFields
    <3>2. CASE bp' = [bp EXCEPT !.creating = FALSE]
      BY <1>1, <3>2 DEF BpFields, GridFields
    <3>. QED BY <1>6, <3>1, <3>2 DEF BucketCreated, CreateFails, BpThen
  <2>2. n \in Mine({"makeBucket"}) /\ Forget(n) /\ buckets' = buckets
    BY <1>6 DEF BucketCreated, CreateFails, BpThen, Answered, Failing, bucketsDb
  <2>. QED BY <1>3, <2>1, <2>2
<1>7. CASE BucketDeleted(n)
  <2>1. PICK ui : /\ ui = [bp EXCEPT !.created = @ \ {calls[n].arg}]
                  /\ bp' = BpLoading(ui) /\ buckets' = buckets
                  /\ Put(n, Call("buckets", w)) /\ n \in Mine({"dropBucket"}) /\ calls[n].served
    BY <1>2, <1>7, Zenon DEF BucketDeleted, Reload, BpThen, Answered, bucketsDb
  <2>2. DOMAIN ui = BpFields /\ ui.tried = bp.tried /\ ui.alerted = bp.alerted /\ ui.grid = bp.grid
    BY <1>1, <2>1 DEF BpFields
  <2>3. /\ bp'.tried = bp.tried /\ bp'.alerted = bp.alerted /\ bp'.grid = bp.grid /\ bp'.loading = TRUE
        /\ bp'.crossed = (Mine(ListCalls) # {})
    BY <2>1, <2>2 DEF BpLoading, BpFields, ListCalls
  <2>4. "buckets" \in ListCalls /\ "buckets" \in BpCalls /\ calls[n].kind \in BpCalls
    BY <2>1 DEF ListCalls, BpCalls, Mine
  <2>5. MakesTried' /\ DropsDead'
    BY <2>1, <2>3, <2>4, BpEnds
  <2>6. /\ calls'[n].arg = w /\ ~calls'[n].served
        /\ \A m \in Slot \ {n} : calls'[m] = calls[m]
        /\ \A K : Mine(K)' = IF "buckets" \in K THEN Mine(K) \union {n} ELSE Mine(K) \ {n}
    BY <2>1, <2>4, BpFollow
  <2>7. Mine(ListCalls)' = Mine(ListCalls) \union {n} /\ Mine({"analytics"})' = Mine({"analytics"}) \ {n}
    BY <2>4, <2>6
  <2>8. Dead(w, buckets, bp.tried)
    BY <1>2, <2>1 DEF GridInv, DeadCalls
  <2>. QED BY <2>1, <2>3, <2>5, <2>6, <2>7, <2>8, NewListing
<1>8. CASE DeleteBucketFails(n)
  <2>1. bp' = bp /\ Forget(n) /\ n \in Mine({"dropBucket"}) /\ buckets' = buckets
    BY <1>8 DEF DeleteBucketFails, BpThen, Failing, bucketsDb
  <2>. QED BY <1>3, <2>1 DEF GridFields
<1>. QED BY <1>4, <1>5, <1>6, <1>7, <1>8

LEMMA OnBucketsGrid ==
  ASSUME CallsOK, BucketsInv, GridInv, OnBuckets
  PROVE  GridInv'
<1>1. page' = page /\ CallsOK'
  BY BucketsStep DEF OnBuckets, whoVars, BucketsGoal
<1>2. ASSUME ModalGoal \/ VersionsGoal, buckets' = buckets PROVE GridInv'
  <2>1. bp' = bp /\ SameCalls(BpCalls)
    BY <1>2 DEF ModalGoal, VersionsGoal
  <2>. QED BY <1>1, <1>2, <2>1, GridFrame
<1>3. ASSUME BucketsUser PROVE GridInv'
  <2>1. CASE \/ RefreshBuckets \/ OpenCreate \/ CloseCreate \/ LeaveBucket
             \/ \E b \in Bucket : SubmitBucket(b) \/ ClickDelete(b) \/ EnterBucket(b)
    <3>1. page = "buckets"
      BY <2>1, Zenon DEF RefreshBuckets, OpenCreate, CloseCreate, LeaveBucket, SubmitBucket, ClickDelete,
                         EnterBucket, BpDo
    <3>. QED BY <1>1, <2>1, <3>1, GridUser
  <2>2. CASE OpenVersions
    <3>1. PICK b : b = bp.inside
      OBVIOUS
    <3>2. /\ page = "buckets" /\ vm.of = None /\ b # None /\ vm' = FreshVersions(b) /\ bp' = bp /\ lc' = lc
          /\ Send("versions", [bucket |-> b, then |-> "none"]) /\ buckets' = buckets
      BY <2>2, <3>1, Zenon DEF OpenVersions, bucketsDb
    <3>. QED BY <1>1, <1>2, <3>2, VmUserStep
  <2>3. ASSUME NEW b \in Bucket, OpenLifecycle(b) PROVE GridInv'
    <3>1. /\ page = "buckets" /\ lc.bucket = None /\ lc' = FreshLifecycle(b) /\ bp' = bp /\ vm' = vm
          /\ Send("lifecycle", b) /\ buckets' = buckets
      BY <2>3, Zenon DEF OpenLifecycle, CardOf, Uncovered, bucketsDb
    <3>. QED BY <1>1, <1>2, <3>1, LcUserStep
  <2>4. CASE LifecycleUser /\ UNCHANGED <<bp, buckets, vm, objects>>
    BY <1>1, <1>2, <2>4, LcUserStep
  <2>5. CASE VersionUser /\ UNCHANGED <<bp, buckets, lc, config>>
    BY <1>1, <1>2, <2>5, VmUserStep
  <2>. QED BY <1>3, <2>1, <2>2, <2>3, <2>4, <2>5 DEF BucketsUser
<1>4. ASSUME NEW n \in Slot, BucketsAnswer(n) PROVE GridInv'
  <2>1. page = "buckets"
    BY <1>4, BucketsAnswerPage
  <2>2. CASE \/ BucketsLoaded(n) \/ BucketsFail(n) \/ AnalyticsDone(n)
             \/ BucketCreated(n) \/ CreateFails(n) \/ BucketDeleted(n) \/ DeleteBucketFails(n)
    BY <1>1, <2>1, <2>2, GridAnswer
  <2>3. CASE LifecycleAnswer(n) /\ UNCHANGED <<bp, buckets, vm, objects>>
    BY <1>1, <1>2, <2>1, <2>3, LcAnswerStep
  <2>4. CASE VersionAnswer(n) /\ UNCHANGED <<bp, buckets, lc, config>>
    BY <1>1, <1>2, <2>1, <2>4, VmAnswerStep
  <2>. QED BY <1>4, <2>2, <2>3, <2>4 DEF BucketsAnswer
<1>. QED BY <1>3, <1>4 DEF OnBuckets

\* The handlers: a call is answered, or was left and is over.
LEMMA GridServed ==
  ASSUME CallsOK, GridInv, page' = page, bp' = bp, NEW n \in Slot,
         NEW k \in Kind, NEW a, Arriving(n, k), Served(n, a),
         DeadStay, k = "buckets" => a = buckets', k = "dropBucket" => Dead(calls[n].arg, buckets', bp.tried)
  PROVE  GridInv'
<1>1. calls[n] # NoCall /\ calls[n].kind = k
  BY CallsKind DEF Arriving, CallsOK
<1>2. /\ \A m \in Slot \ {n} : calls'[m] = calls[m]
      /\ calls[n].gone => calls'[n] = NoCall
      /\ ~calls[n].gone =>
            calls'[n].kind = k /\ calls'[n].arg = calls[n].arg /\ calls'[n].served /\ calls'[n].answer = a
      /\ \A K : Mine(K)' = Mine(K)
  BY <1>1, ServedEffect DEF CallsOK
<1>3. \A K : \A m \in Mine(K) : m \in Slot /\ calls[m].kind \in K /\ ~calls[m].gone
  BY DEF Mine
<1>4. MakesTried'
  <2>1. \A m \in Slot : calls'[m].kind = "makeBucket" => calls[m].kind = "makeBucket" /\ calls'[m].arg = calls[m].arg
    BY <1>1, <1>2 DEF NoCall
  <2>. QED BY <2>1 DEF MakesTried, GridInv
<1>5. page = "buckets" => DropsDead'
  BY <1>1, <1>2, <1>3 DEF DropsDead, GridInv, DeadCalls, DeadStay
<1>6. \A m \in Mine(ListCalls) : calls'[m].arg = calls[m].arg
  BY <1>2, <1>3
<1>7. \A m \in Mine({"buckets"}) :
          calls'[m].served => (calls[m].served /\ calls'[m].answer = calls[m].answer) \/ calls'[m].answer = buckets'
  BY <1>1, <1>2, <1>3
<1>8. CASE page = "buckets"
  BY <1>2, <1>4, <1>5, <1>6, <1>7, <1>8, GridKeep
<1>9. CASE page # "buckets"
  BY <1>4, <1>9 DEF GridInv, MakesTried, DeadStay
<1>. QED BY <1>8, <1>9

LEMMA GridServer ==
  ASSUME CallsOK, GridInv, page' = page, bp' = bp, NEW n \in Slot, BucketsServer(n)
  PROVE  GridInv'
<1>. USE DEF Kind, PageCalls, BucketsCalls
<1>1. buckets' = buckets => DeadStay
  BY DEF DeadStay
<1>2. ASSUME NEW k \in {"analytics", "lifecycle", "putLifecycle", "dropLifecycle", "versions", "deleteObject"}, NEW a,
             Arriving(n, k), Served(n, a), buckets' = buckets
      PROVE  GridInv'
  <2>1. k \in Kind /\ k # "buckets" /\ k # "dropBucket"
    OBVIOUS
  <2>. QED BY <1>1, <1>2, <2>1, GridServed
<1>3. ASSUME ListBuckets(n) PROVE GridInv'
  <2>1. Arriving(n, "buckets") /\ Served(n, buckets) /\ buckets' = buckets
    BY <1>3 DEF ListBuckets, bucketsDb
  <2>. QED BY <1>1, <2>1, GridServed
<1>4. ASSUME ListAnalytics(n) PROVE GridInv'
  <2>1. Arriving(n, "analytics") /\ Served(n, "ok") /\ buckets' = buckets
    BY <1>4 DEF ListAnalytics, bucketsDb
  <2>. QED BY <1>2, <2>1
<1>5. ASSUME CreateBucket(n) PROVE GridInv'
  <2>1. Arriving(n, "makeBucket") /\ Served(n, "ok") /\ buckets' = buckets \union {calls[n].arg}
    BY <1>5 DEF CreateBucket
  <2>2. DeadStay
    BY <2>1 DEF DeadStay, Dead, GridInv, Arriving
  <2>3. "makeBucket" \in Kind
    OBVIOUS
  <2>. QED BY <2>1, <2>2, <2>3, GridServed
<1>6. ASSUME DeleteBucket(n) PROVE GridInv'
  <2>1. Arriving(n, "dropBucket") /\ Served(n, "ok") /\ buckets' = buckets \ {calls[n].arg}
    BY <1>6 DEF DeleteBucket
  <2>2. DeadStay /\ Dead(calls[n].arg, buckets', bp.tried)
    BY <2>1 DEF DeadStay, Dead
  <2>3. "dropBucket" \in Kind
    OBVIOUS
  <2>. QED BY <2>1, <2>2, <2>3, GridServed
<1>7. ASSUME LifecycleServer(n), buckets' = buckets PROVE GridInv'
  <2>1. \E k \in {"lifecycle", "putLifecycle", "dropLifecycle"} : \E a : Arriving(n, k) /\ Served(n, a)
    BY <1>7, Zenon DEF LifecycleServer, GetLifecycle, UpdateLifecycle, DeleteLifecycle
  <2>. QED BY <1>2, <1>7, <2>1
<1>8. ASSUME VersionServer(n), buckets' = buckets PROVE GridInv'
  <2>1. \E k \in {"versions", "deleteObject"} : \E a : Arriving(n, k) /\ Served(n, a)
    BY <1>8, Zenon DEF VersionServer, ListObjectVersions, DeleteObject
  <2>. QED BY <1>2, <1>8, <2>1
<1>. QED BY <1>3, <1>4, <1>5, <1>6, <1>7, <1>8 DEF BucketsServer

\* Users.tsx leaves the calls of the others alone, or is at hand.
LEMMA GridOnUsers ==
  ASSUME AppInv, GridInv, OnUsers
  PROVE  GridInv'
<1>1. page' = page /\ bp' = bp /\ buckets' = buckets /\ CallsOK /\ UsersInv
  BY DEF OnUsers, Expires, whoVars, bucketsVars, AppInv, PagesInv
<1>2. CASE calls' = calls
  <2>1. CallsOK' /\ SameCalls(BpCalls)
    BY <1>1, <1>2, QuietOK, SameQuiet
  <2>. QED BY <1>1, <2>1, GridFrame
<1>3. CASE page = "users"
  <2>1. CallStep(UsersCalls)
    BY OnUsersCalls
  <2>2. Fewer(BpCalls)
    BY <2>1 DEF CallStep, Fewer, NoCall, UsersCalls, BpCalls
  <2>. QED BY <1>1, <1>3, <2>2, GridAway
<1>4. ASSUME UsersUser PROVE page = "users"
  BY <1>1, <1>4, UsersUserStep DEF UsersGoal
<1>5. ASSUME NEW n \in Slot, UsersAnswer(n) \/ Expires(n) PROVE page = "users"
  BY <1>1, <1>5, UsersAnswerPage DEF Expires, UsersAnswer
<1>6. CopyTimer => calls' = calls
  BY DEF CopyTimer, Quiet
<1>. QED BY <1>2, <1>3, <1>4, <1>5, <1>6 DEF OnUsers

LEMMA GridNext == AppInv /\ GridInv /\ [Next]_vars => GridInv'
<1>. SUFFICES ASSUME AppInv, GridInv, [Next]_vars PROVE GridInv'
  OBVIOUS
<1>1. CallsOK /\ BucketsInv /\ ReportsInv
  BY DEF AppInv, PagesInv
<1>2. CallsOK'
  <2>1. AppInv'
    BY NextStep
  <2>. QED BY <2>1 DEF AppInv
<1>3. CASE OnUsers
  BY <1>3, GridOnUsers
<1>4. CASE OnBuckets
  BY <1>1, <1>4, OnBucketsGrid
<1>5. CASE OnReports
  <2>1. page' = page /\ bp' = bp /\ buckets' = buckets
    BY <1>5 DEF OnReports, bucketsVars, whoVars
  <2>2. CallStep(ReportsCalls) /\ page = "reports"
    BY <1>1, <1>5, ReportsStep
  <2>3. Fewer(BpCalls)
    BY <2>2 DEF CallStep, Fewer, NoCall, ReportsCalls, BpCalls
  <2>. QED BY <2>1, <2>2, <2>3, GridAway
<1>6. CASE Elsewhere \/ UNCHANGED vars
  <2>1. page' = page /\ bp' = bp /\ buckets' = buckets /\ calls' = calls
    BY <1>6 DEF Elsewhere, bucketsVars, whoVars, vars, pageVars, dbVars
  <2>. QED BY <1>1, <1>2, <2>1, SameQuiet, GridFrame
<1>7. CASE Auth
  <2>1. dbVars' = dbVars /\ (Moved \/ Stayed)
    BY <1>7, AuthMoves
  <2>2. buckets' = buckets
    BY <2>1 DEF dbVars
  <2>3. CASE Stayed
    <3>1. SameCalls(BpCalls)
      BY <2>3, BucketsKinds DEF Stayed, SameCalls
    <3>. QED BY <1>1, <1>2, <2>2, <2>3, <3>1, GridFrame DEF Stayed
  <2>4. CASE Moved
    BY <1>2, <2>2, <2>4, GridMoved
  <2>. QED BY <2>1, <2>3, <2>4
<1>8. ASSUME NEW n \in Slot, Server(n) PROVE GridInv'
  <2>1. ServerStep /\ page' = page /\ bp' = bp
    BY <1>1, <1>8, ServerIsStep DEF pageVars, whoVars
  <2>2. CASE BucketsServer(n)
    BY <1>1, <2>1, <2>2, GridServer
  <2>3. CASE buckets' = buckets /\ Fewer(BucketsCalls)
    <3>1. \A K : Mine(K)' = Mine(K)
      BY <1>1, <2>1, ServerStepCalls
    <3>2. \A K : \A m \in Mine(K)' : m \in Slot /\ calls'[m].kind \in K
      BY DEF Mine
    <3>3. \A K : K \subseteq BpCalls => \A m \in Mine(K) : calls'[m] = calls[m]
      BY <2>3, <3>1, <3>2, BucketsKinds DEF Fewer
    <3>4. ListsStay /\ DeadStay /\ GridFields
      BY <2>1, <2>3, <3>1, <3>3 DEF ListsStay, DeadStay, GridFields, ListCalls, BpCalls
    <3>5. MakesTried'
      BY <2>1, <2>3 DEF MakesTried, GridInv, Fewer, BucketsCalls
    <3>6. page = "buckets" => DropsDead'
      <4>1. Mine({"dropBucket"})' = Mine({"dropBucket"}) /\ \A m \in Mine({"dropBucket"}) : calls'[m] = calls[m]
        BY <3>1, <3>3 DEF BpCalls
      <4>. QED BY <2>1, <2>3, <4>1 DEF DropsDead, GridInv, DeadCalls
    <3>7. page # "buckets" => GridInv'
      BY <2>1, <2>3, <3>5 DEF GridInv, MakesTried
    <3>. QED BY <2>1, <3>4, <3>5, <3>6, <3>7, GridLists
  <2>. QED BY <1>1, <1>8, <2>2, <2>3, ServerParts
<1>. QED BY <1>3, <1>4, <1>5, <1>6, <1>7, <1>8 DEF Next

LEMMA GridInit == Init => GridInv
<1>. SUFFICES ASSUME Init PROVE GridInv
  OBVIOUS
<1>1. \A n \in Slot : calls[n].kind \in {"none", "me"}
  BY FirstCalls
<1>2. bp = FreshBuckets /\ page # "buckets"
  BY Zenon DEF Init
<1>. QED BY <1>1, <1>2 DEF GridInv, FreshBuckets

\* A bucket that the page said it has deleted is not in the grid (BucketGrid.tsx:53-61).
THEOREM DeletedBucketsGone == Spec => []DeletedGone
<1>1. Init => AppInv /\ GridInv
  BY InitStep, GridInit
<1>2. AppInv /\ GridInv /\ [Next]_vars => AppInv' /\ GridInv'
  BY NextStep, GridNext
<1>3. GridInv => DeletedGone
  BY GridGone
<1>. QED BY <1>1, <1>2, <1>3, PTL DEF Spec
-----------------------------------------------------------------------------
(* What a query filters *)

\* A set that holds 0, and with each number the next, holds all up to N.
LEMMA UpTo ==
  ASSUME NEW N \in Nat, NEW T, 0 \in T, \A n \in 0 .. N : n \in T /\ n # N => n + 1 \in T
  PROVE  \A n \in 0 .. N : n \in T
<1>. DEFINE S == {n \in 0 .. N : n \notin T}
<1>1. S \in SUBSET Nat
  OBVIOUS
<1>2. ASSUME S # {} PROVE FALSE
  <2>1. PICK n \in S : \A m \in S : n <= m
    BY <1>1, <1>2, Least
  <2>2. n \in 0 .. N /\ n # 0 /\ n - 1 \in 0 .. N /\ n - 1 # N /\ ~(n <= n - 1)
    BY <2>1
  <2>3. n - 1 \in T
    BY <2>1, <2>2
  <2>4. (n - 1) + 1 = n
    BY <2>2
  <2>. QED BY <2>1, <2>2, <2>3, <2>4
<1>. QED BY <1>2

\* The members of s up to the i-th that are in K.
FilterStep(f, s, K, i) ==
    IF i = 0 THEN <<>> ELSE IF s[i] \in K THEN Append(f[i - 1], s[i]) ELSE f[i - 1]
Filtering(f, s, K, N) == f = [i \in 0 .. N |-> FilterStep(f, s, K, i)]

LEMMA FilteringThere ==
  ASSUME NEW s, NEW K, NEW N \in Nat
  PROVE  \E f : Filtering(f, s, K, N)
<1>. DEFINE T == {n \in Nat : \E f : Filtering(f, s, K, n)}
<1>1. 0 \in T
  <2>1. PICK f : f = [i \in 0 .. 0 |-> <<>>]
    OBVIOUS
  <2>2. Filtering(f, s, K, 0)
    BY <2>1 DEF Filtering, FilterStep
  <2>. QED BY <2>2
<1>2. ASSUME NEW n \in 0 .. N, n \in T, n # N PROVE n + 1 \in T
  <2>1. PICK f : Filtering(f, s, K, n)
    BY <1>2
  <2>2. PICK g : g = [i \in 0 .. n + 1 |-> FilterStep(f, s, K, i)]
    OBVIOUS
  <2>3. \A i \in 0 .. n : g[i] = f[i]
    BY <2>1, <2>2 DEF Filtering
  <2>4. \A i \in 0 .. n + 1 : FilterStep(g, s, K, i) = FilterStep(f, s, K, i)
    <3>1. \A i \in 0 .. n + 1 : i # 0 => i - 1 \in 0 .. n
      OBVIOUS
    <3>. QED BY <2>3, <3>1 DEF FilterStep
  <2>5. Filtering(g, s, K, n + 1)
    BY <2>2, <2>4 DEF Filtering
  <2>. QED BY <2>5
<1>3. \A n \in 0 .. N : n \in T
  <2>. HIDE DEF T
  <2>. QED BY <1>1, <1>2, UpTo
<1>. QED BY <1>3

LEMMA FilteredSteps ==
  ASSUME NEW S, NEW s \in Seq(S), NEW K
  PROVE  \E f : /\ Filtered(s, K) = f[Len(s)]
                /\ f[0] = <<>>
                /\ \A i \in 1 .. Len(s) : f[i] = IF s[i] \in K THEN Append(f[i - 1], s[i]) ELSE f[i - 1]
<1>. DEFINE f == CHOOSE g : g = [i \in 0 .. Len(s) |->
                     IF i = 0 THEN <<>> ELSE IF s[i] \in K THEN Append(g[i - 1], s[i]) ELSE g[i - 1]]
<1>1. Len(s) \in Nat
  BY LenProperties
<1>2. f = [i \in 0 .. Len(s) |-> IF i = 0 THEN <<>> ELSE IF s[i] \in K THEN Append(f[i - 1], s[i]) ELSE f[i - 1]]
  <2>1. \E g : g = [i \in 0 .. Len(s) |->
                     IF i = 0 THEN <<>> ELSE IF s[i] \in K THEN Append(g[i - 1], s[i]) ELSE g[i - 1]]
    <3>1. PICK g : Filtering(g, s, K, Len(s))
      BY <1>1, FilteringThere
    <3>. QED BY <3>1, Zenon DEF Filtering, FilterStep
  <2>. QED BY <2>1, Zenon
<1>3. Filtered(s, K) = f[Len(s)]
  BY Zenon DEF Filtered
<1>. HIDE DEF f
<1>4. f[0] = <<>>
  <2>1. 0 \in 0 .. Len(s)
    BY <1>1
  <2>. QED BY <1>2, <2>1, Zenon
<1>5. \A i \in 1 .. Len(s) : f[i] = IF s[i] \in K THEN Append(f[i - 1], s[i]) ELSE f[i - 1]
  <2>1. \A i \in 0 .. Len(s) :
           f[i] = IF i = 0 THEN <<>> ELSE IF s[i] \in K THEN Append(f[i - 1], s[i]) ELSE f[i - 1]
    BY <1>2, Zenon
  <2>2. \A i \in 1 .. Len(s) : i \in 0 .. Len(s) /\ i # 0
    BY <1>1
  <2>. QED BY <2>1, <2>2, Zenon
<1>. QED BY <1>3, <1>4, <1>5

LEMMA FilteredProperties ==
  ASSUME NEW S, NEW s \in Seq(S), NEW K
  PROVE  /\ Filtered(s, K) \in Seq(S \intersect K)
         /\ Len(Filtered(s, K)) \in Nat /\ Len(Filtered(s, K)) <= Len(s)
         /\ S \subseteq K => Len(Filtered(s, K)) = Len(s)
<1>1. Len(s) \in Nat /\ \A i \in 1 .. Len(s) : s[i] \in S
  BY LenProperties, ElementOfSeq
<1>2. PICK f : /\ Filtered(s, K) = f[Len(s)]
               /\ f[0] = <<>>
               /\ \A i \in 1 .. Len(s) : f[i] = IF s[i] \in K THEN Append(f[i - 1], s[i]) ELSE f[i - 1]
  BY FilteredSteps
<1>. DEFINE T == {n \in Nat : f[n] \in Seq(S \intersect K) /\ Len(f[n]) <= n /\ (S \subseteq K => Len(f[n]) = n)}
<1>3. 0 \in T
  <2>1. f[0] \in Seq(S \intersect K) /\ Len(f[0]) = 0
    BY <1>2, EmptySeq
  <2>. QED BY <2>1
<1>4. ASSUME NEW n \in 0 .. Len(s), n \in T, n # Len(s) PROVE n + 1 \in T
  <2>1. n + 1 \in 1 .. Len(s) /\ (n + 1) - 1 = n
    BY <1>1, <1>4
  <2>2. f[n + 1] = IF s[n + 1] \in K THEN Append(f[n], s[n + 1]) ELSE f[n]
    BY <1>2, <2>1
  <2>3. PICK r, x : r = f[n] /\ x = s[n + 1] /\ x \in S /\ r \in Seq(S \intersect K)
    BY <1>1, <1>4, <2>1
  <2>4. CASE x \in K
    <3>1. Append(r, x) \in Seq(S \intersect K) /\ Len(Append(r, x)) = Len(r) + 1
      BY <2>3, <2>4, AppendProperties
    <3>2. f[n + 1] = Append(r, x) /\ Len(r) \in Nat /\ Len(r) <= n /\ (S \subseteq K => Len(r) = n)
      BY <1>4, <2>2, <2>3, <2>4, LenProperties
    <3>3. PICK k \in Nat : k = Len(r)
      BY <3>2
    <3>4. n \in Nat /\ n + 1 \in Nat /\ k + 1 <= n + 1 /\ (S \subseteq K => k + 1 = n + 1)
      BY <1>1, <3>2, <3>3
    <3>5. /\ f[n + 1] \in Seq(S \intersect K) /\ Len(f[n + 1]) = k + 1
      BY <3>1, <3>2, <3>3
    <3>. QED BY <3>4, <3>5
  <2>5. CASE x \notin K
    BY <1>4, <2>2, <2>3, <2>5, LenProperties
  <2>. QED BY <2>4, <2>5
<1>5. Len(s) \in T
  <2>. HIDE DEF T
  <2>1. \A n \in 0 .. Len(s) : n \in T
    BY <1>1, <1>3, <1>4, UpTo
  <2>. QED BY <1>1, <2>1
<1>. QED BY <1>2, <1>5, LenProperties

\* With one more row in front, no fewer are found.
LEMMA FilteredGrows ==
  ASSUME NEW S, NEW s \in Seq(S), NEW x \in S, NEW K
  PROVE  Len(Filtered(<<x>> \o s, K)) >= Len(Filtered(s, K))
<1>1. PICK t : t = <<x>> \o s
  OBVIOUS
<1>2. /\ Len(s) \in Nat /\ t \in Seq(S) /\ Len(t) = Len(s) + 1
      /\ \A i \in 1 .. Len(s) : s[i] \in S /\ t[i + 1] = s[i]
  <2>0. PICK u : u = <<x>>
    OBVIOUS
  <2>1. u = <<x>> /\ u \in Seq(S) /\ Len(u) = 1
    BY <2>0
  <2>2. Len(s) \in Nat /\ \A i \in 1 .. Len(s) : s[i] \in S
    BY LenProperties, ElementOfSeq
  <2>3. /\ u \o s \in Seq(S) /\ Len(u \o s) = Len(u) + Len(s)
        /\ \A i \in 1 .. Len(u) + Len(s) : (u \o s)[i] = IF i <= Len(u) THEN u[i] ELSE s[i - Len(u)]
    BY <2>1, ConcatProperties
  <2>. QED BY <1>1, <2>1, <2>2, <2>3
<1>3. PICK f : /\ Filtered(s, K) = f[Len(s)]
               /\ f[0] = <<>>
               /\ \A i \in 1 .. Len(s) : f[i] = IF s[i] \in K THEN Append(f[i - 1], s[i]) ELSE f[i - 1]
  BY FilteredSteps
<1>4. PICK g : /\ Filtered(t, K) = g[Len(t)]
               /\ g[0] = <<>>
               /\ \A i \in 1 .. Len(t) : g[i] = IF t[i] \in K THEN Append(g[i - 1], t[i]) ELSE g[i - 1]
  BY <1>2, FilteredSteps
<1>. DEFINE T == {n \in Nat : /\ f[n] \in Seq(S) /\ g[n + 1] \in Seq(S)
                              /\ Len(f[n]) <= Len(g[n + 1])}
<1>5. 0 \in T
  <2>1. 1 \in 1 .. Len(t) /\ 1 - 1 = 0 /\ t[1] \in S
    BY <1>2, ElementOfSeq
  <2>2. g[1] = IF t[1] \in K THEN Append(g[0], t[1]) ELSE g[0]
    BY <1>4, <2>1
  <2>3. g[1] \in Seq(S)
    BY <1>4, <2>1, <2>2, AppendProperties, EmptySeq
  <2>4. Len(g[1]) \in Nat
    BY <2>3, LenProperties
  <2>5. f[0] \in Seq(S) /\ Len(f[0]) = 0
    BY <1>3, EmptySeq
  <2>6. g[0 + 1] = g[1]
    OBVIOUS
  <2>. QED BY <2>3, <2>4, <2>5, <2>6
<1>6. ASSUME NEW n \in 0 .. Len(s), n \in T, n # Len(s) PROVE n + 1 \in T
  <2>1. /\ n \in Nat /\ n + 1 \in 1 .. Len(s) /\ (n + 1) - 1 = n
        /\ n + 2 \in 1 .. Len(t) /\ (n + 2) - 1 = n + 1 /\ (n + 1) + 1 = n + 2
    BY <1>2, <1>6
  <2>2. PICK p, q, z : p = f[n] /\ q = g[n + 1] /\ z = s[n + 1] /\ p \in Seq(S) /\ q \in Seq(S) /\ z \in S
    BY <1>2, <1>6, <2>1
  <2>3. f[n + 1] = IF z \in K THEN Append(p, z) ELSE p
    BY <1>3, <2>1, <2>2
  <2>4. g[n + 2] = IF z \in K THEN Append(q, z) ELSE q
    <3>1. t[n + 2] = z
      BY <1>2, <2>1, <2>2
    <3>2. g[n + 2] = IF t[n + 2] \in K THEN Append(g[(n + 2) - 1], t[n + 2]) ELSE g[(n + 2) - 1]
      BY <1>4, <2>1
    <3>. QED BY <2>1, <2>2, <3>1, <3>2
  <2>5. /\ Len(p) \in Nat /\ Len(q) \in Nat /\ Len(p) <= Len(q)
        /\ Append(p, z) \in Seq(S) /\ Len(Append(p, z)) = Len(p) + 1
        /\ Append(q, z) \in Seq(S) /\ Len(Append(q, z)) = Len(q) + 1
    BY <1>6, <2>2, LenProperties, AppendProperties
  <2>6. f[n + 1] \in Seq(S) /\ g[n + 2] \in Seq(S) /\ Len(f[n + 1]) <= Len(g[n + 2])
    BY <2>2, <2>3, <2>4, <2>5
  <2>. QED BY <2>1, <2>6
<1>7. Len(s) \in T
  <2>. HIDE DEF T
  <2>1. \A n \in 0 .. Len(s) : n \in T
    BY <1>2, <1>5, <1>6, UpTo
  <2>. QED BY <1>2, <2>1
<1>8. Len(Filtered(s, K)) <= Len(Filtered(t, K)) /\ Len(Filtered(s, K)) \in Nat /\ Len(Filtered(t, K)) \in Nat
  BY <1>2, <1>3, <1>4, <1>7, LenProperties
<1>. QED BY <1>1, <1>8

-----------------------------------------------------------------------------
(* Pages *)

\* The page p of t rows is there, when a page has as many as size.
Inside(p, t, size) == p <= 1 \/ (p - 1) * size < t

\* No page that a pager offers is behind the last.
LEMMA PagesInside ==
  ASSUME NEW t \in Nat, NEW size \in Nat \ {0}, NEW p \in Int, p <= (t + size - 1) \div size
  PROVE  Inside(p, t, size)
<1>. DEFINE q == (t + size - 1) \div size
<1>1. size \in Nat /\ size >= 1
  OBVIOUS
<1>2. q \in Nat /\ size * q <= t + size - 1
  BY <1>1
<1>. HIDE DEF q
<1>3. PICK k \in Nat : q = p + k
  BY <1>2 DEF q
<1>4. CASE p >= 1
  <2>1. PICK r \in Nat : p = r + 1
    BY <1>4
  <2>2. size * q = size * r + size + size * k
    BY <1>1, <1>3, <2>1
  <2>3. size * k >= 0 /\ size * r \in Nat /\ size * k \in Nat /\ (p - 1) * size = size * r
    BY <1>1, <2>1
  <2>4. size * r < t
    BY <1>1, <1>2, <2>2, <2>3
  <2>. QED BY <2>3, <2>4 DEF Inside
<1>. QED BY <1>4 DEF Inside

\* With more rows, or on an earlier page, a page stays.
LEMMA InsideMore ==
  ASSUME NEW t \in Nat, NEW u \in Nat, t <= u, NEW size \in Nat \ {0}, NEW p \in Int, NEW q \in Int, q <= p,
         Inside(p, t, size)
  PROVE  Inside(q, u, size)
<1>1. CASE q <= 1
  BY <1>1 DEF Inside
<1>2. CASE q > 1
  <2>1. PICK r \in Nat, k \in Nat : q = r + 2 /\ p = q + k
    BY <1>2
  <2>2. p - 1 = r + 1 + k /\ q - 1 = r + 1 /\ p > 1
    BY <2>1
  <2>3. (p - 1) * size < t
    BY <2>2 DEF Inside
  <2>4. (p - 1) * size = (r + 1) * size + k * size /\ k * size \in Nat /\ (r + 1) * size \in Nat
    BY <2>2
  <2>5. (r + 1) * size < u
    BY <2>3, <2>4
  <2>. QED BY <2>2, <2>5 DEF Inside
<1>. QED BY <1>1, <1>2

\* The rows of a page.
LEMMA PageRows ==
  ASSUME NEW S, NEW s \in Seq(S), NEW size \in Nat \ {0}, NEW p \in Nat \ {0}, NEW rows,
         rows = SubSeq(s, (p - 1) * size + 1, MinOf(p * size, Len(s)))
  PROVE  /\ rows \in Seq(S)
         /\ p # 1 /\ Inside(p, Len(s), size) => rows # <<>>
<1>1. Len(s) \in Nat /\ \A i \in 1 .. Len(s) : s[i] \in S
  BY LenProperties, ElementOfSeq
<1>2. PICK m \in Nat, k \in Nat : m = (p - 1) * size + 1 /\ k = MinOf(p * size, Len(s))
  <2>1. PICK r \in Nat : p = r + 1
    OBVIOUS
  <2>2. (p - 1) * size \in Nat /\ p * size \in Nat
    BY <2>1
  <2>3. (p - 1) * size + 1 \in Nat /\ MinOf(p * size, Len(s)) \in Nat
    BY <1>1, <2>2 DEF MinOf
  <2>. QED BY <2>3, Zenon
<1>3. m >= 1 /\ k <= Len(s) /\ (k = Len(s) \/ k = p * size)
  <2>1. PICK r \in Nat : p = r + 1
    OBVIOUS
  <2>2. (p - 1) * size \in Nat /\ p * size \in Nat
    BY <2>1
  <2>. QED BY <1>1, <1>2, <2>2 DEF MinOf
<1>4. \A i \in m .. k : s[i] \in S
  BY <1>1, <1>3
<1>5. SubSeq(s, m, k) \in Seq(S) /\ Len(SubSeq(s, m, k)) = IF m <= k THEN k - m + 1 ELSE 0
  BY <1>4, SubSeqProperties
<1>6. ASSUME p # 1, Inside(p, Len(s), size) PROVE m <= k
  <2>1. (p - 1) * size < Len(s)
    BY <1>6 DEF Inside
  <2>2. p * size = (p - 1) * size + size
    OBVIOUS
  <2>. QED BY <1>1, <1>2, <1>3, <2>1, <2>2
<1>7. rows = SubSeq(s, m, k)
  BY <1>2, Zenon
<1>8. ASSUME m <= k PROVE Len(rows) # 0
  <2>1. Len(rows) = k - m + 1
    BY <1>5, <1>7, <1>8
  <2>2. m \in Nat /\ k \in Nat
    BY <1>2
  <2>3. k - m + 1 # 0
    BY <1>8, <2>2
  <2>. QED BY <2>1, <2>3
<1>9. rows = <<>> => Len(rows) = 0
  OBVIOUS
<1>. QED BY <1>5, <1>6, <1>7, <1>8, <1>9

-----------------------------------------------------------------------------
(* The list of Users.tsx *)

\* What the page asks a listing with, and what a call is followed by.
Asked == [search : Name \union {None}, page : 1 .. MaxMade + 1]
RenderOf(c) == IF c.kind = "users" THEN c.arg ELSE c.arg.render

UsersAsk ==
    /\ usersUi.page \in 1 .. MaxMade + 1 /\ usersUi.search \in Name \union {None} /\ usersUi.of \in Asked
    /\ \A n \in Slot : calls[n].kind \in UsersCalls => RenderOf(calls[n]) \in Asked

\* While the last listing is sure, it is of the page at hand.
UsersList ==
    page = "users" /\ usersUi.sure =>
        /\ \A n \in Mine({"users"}) : calls[n].arg.page = usersUi.page
        /\ Mine({"users"}) = {} => usersUi.of.page = usersUi.page

\* Until a row is deleted, every page that is asked for is there.
FullPage(ask, rows) == ask.search = None /\ ask.page # 1 => rows # <<>>
UsersFull ==
    page = "users" /\ Len(accounts) = made =>
        /\ Inside(usersUi.page, Len(accounts), PageSize)
        /\ usersUi.total \in 0 .. Len(accounts)
        /\ FullPage(usersUi.of, usersUi.rows)
        /\ \A n \in Mine(UsersCalls) : Inside(RenderOf(calls[n]).page, Len(accounts), PageSize)
        /\ \A n \in Mine({"users"}) : calls[n].served =>
              /\ calls[n].answer.total \in 0 .. Len(accounts)
              /\ FullPage(calls[n].arg, calls[n].answer.rows)

UsersListInv == Len(accounts) <= made /\ UsersAsk /\ UsersList /\ UsersFull

LEMMA RowsCounted ==
  ASSUME SaveInv
  PROVE  accounts \in Seq(Account) /\ Len(accounts) \in Nat /\ made \in Nat
BY UsersAssumption, LenProperties DEF SaveInv, RowsOK

LEMMA FirstAsked ==
  /\ FirstRender \in Asked /\ FirstRender.page = 1 /\ 1 \in 1 .. MaxMade + 1
  /\ \A t, size : Inside(1, t, size)
BY UsersAssumption DEF FirstRender, Asked, Inside

LEMMA AskedPage == \A w \in Asked : w.page \in 1 .. MaxMade + 1 /\ w.page \in Int
BY UsersAssumption DEF Asked

\* A step after which no more is under way than before, and no row was deleted if none is.
LEMMA UsersCarried ==
  ASSUME SaveInv, UsersListInv, page' = page, usersUi' = usersUi, \A K \in SUBSET UsersCalls : Mine(K)' = Mine(K),
         \A n \in Slot : calls'[n].kind \in UsersCalls =>
              /\ calls'[n].kind = calls[n].kind /\ calls'[n].arg = calls[n].arg
              /\ calls'[n].kind = "users" => calls'[n] = calls[n],
         Len(accounts') \in Nat, Len(accounts') <= made',
         Len(accounts') = made' => Len(accounts) = made /\ Len(accounts) <= Len(accounts')
  PROVE  UsersListInv'
<1>1. UsersAsk'
  BY DEF UsersListInv, UsersAsk, RenderOf
<1>2. /\ Mine({"users"})' = Mine({"users"}) /\ Mine(UsersCalls)' = Mine(UsersCalls)
      /\ \A n \in Slot : n \in Mine({"users"})' => calls'[n] = calls[n]
  <2>1. UsersCalls \in SUBSET UsersCalls /\ {"users"} \in SUBSET UsersCalls
    BY DEF UsersCalls
  <2>2. \A n \in Slot : n \in Mine({"users"})' => calls'[n] = calls[n]
    BY DEF Mine, UsersCalls
  <2>. QED BY <2>1, <2>2
<1>3. UsersList'
  BY <1>2 DEF UsersListInv, UsersList, Mine
<1>4. UsersFull'
  <2>. SUFFICES ASSUME page = "users", Len(accounts') = made'
                PROVE  /\ Inside(usersUi.page, Len(accounts'), PageSize)
                       /\ usersUi.total \in 0 .. Len(accounts')
                       /\ FullPage(usersUi.of, usersUi.rows)
                       /\ \A n \in Mine(UsersCalls)' : Inside(RenderOf(calls'[n]).page, Len(accounts'), PageSize)
                       /\ \A n \in Mine({"users"})' : calls'[n].served =>
                             /\ calls'[n].answer.total \in 0 .. Len(accounts')
                             /\ FullPage(calls'[n].arg, calls'[n].answer.rows)
    BY DEF UsersFull, FullPage, RenderOf
  <2>1. /\ Len(accounts) \in Nat /\ Len(accounts) <= Len(accounts')
        /\ Inside(usersUi.page, Len(accounts), PageSize)
        /\ usersUi.total \in 0 .. Len(accounts)
        /\ FullPage(usersUi.of, usersUi.rows)
        /\ \A n \in Mine(UsersCalls) : Inside(RenderOf(calls[n]).page, Len(accounts), PageSize)
        /\ \A n \in Mine({"users"}) : calls[n].served =>
              /\ calls[n].answer.total \in 0 .. Len(accounts)
              /\ FullPage(calls[n].arg, calls[n].answer.rows)
    BY RowsCounted DEF UsersListInv, UsersFull
  <2>2. PageSize \in Nat \ {0} /\ usersUi.page \in Int
    BY UsersAssumption DEF UsersListInv, UsersAsk
  <2>3. Inside(usersUi.page, Len(accounts'), PageSize)
    BY <2>1, <2>2, InsideMore
  <2>4. ASSUME NEW n \in Mine(UsersCalls)' PROVE Inside(RenderOf(calls'[n]).page, Len(accounts'), PageSize)
    <3>1. n \in Slot /\ calls'[n].kind \in UsersCalls /\ n \in Mine(UsersCalls)
      BY <1>2 DEF Mine
    <3>2. PICK w \in Asked : w = RenderOf(calls[n]) /\ w = RenderOf(calls'[n])
      BY <3>1 DEF UsersListInv, UsersAsk, RenderOf
    <3>3. w.page \in Int /\ Inside(w.page, Len(accounts), PageSize)
      BY <2>1, <3>2, AskedPage
    <3>4. Inside(w.page, Len(accounts'), PageSize)
      BY <2>1, <2>2, <3>3, InsideMore
    <3>. QED BY <3>2, <3>4
  <2>5. \A x : x \in 0 .. Len(accounts) => x \in 0 .. Len(accounts')
    BY <2>1
  <2>6. ASSUME NEW n \in Mine({"users"})', calls'[n].served
        PROVE  /\ calls'[n].answer.total \in 0 .. Len(accounts')
               /\ FullPage(calls'[n].arg, calls'[n].answer.rows)
    <3>1. n \in Slot /\ n \in Mine({"users"}) /\ calls'[n] = calls[n]
      BY <1>2 DEF Mine
    <3>. QED BY <2>1, <2>5, <2>6, <3>1
  <2>. QED BY <2>1, <2>3, <2>4, <2>5, <2>6
<1>. QED BY <1>1, <1>3, <1>4 DEF UsersListInv

\* The page is another one.
LEMMA UsersElsewhere ==
  ASSUME UsersListInv, page' # "users", usersUi' = usersUi, Len(accounts') <= made',
         \A n \in Slot : calls'[n].kind \in UsersCalls =>
              calls'[n].kind = calls[n].kind /\ calls'[n].arg = calls[n].arg
  PROVE  UsersListInv'
<1>1. UsersAsk'
  BY DEF UsersListInv, UsersAsk, RenderOf
<1>. QED BY <1>1 DEF UsersListInv, UsersList, UsersFull

LEMMA UsersMoved ==
  ASSUME SaveInv, UsersListInv, Moved, accounts' = accounts, made' = made
  PROVE  UsersListInv'
<1>1. /\ usersUi'.page = 1 /\ usersUi'.search = None /\ usersUi'.of = FirstRender /\ usersUi'.total = 0
      /\ usersUi'.of.page = 1
  BY DEF Moved, FreshUsers, FirstRender
<1>2. ASSUME NEW n \in Slot, calls'[n].kind \in UsersCalls
      PROVE  \/ calls'[n].kind = "users" /\ calls'[n].arg = FirstRender /\ ~calls'[n].served
             \/ /\ calls'[n].kind # "users" /\ calls'[n].gone
                /\ calls'[n].kind = calls[n].kind /\ calls'[n].arg = calls[n].arg
  <2>1. CASE calls'[n].kind = "users"
    BY <2>1 DEF Moved, Asking
  <2>2. CASE calls'[n].kind # "users"
    <3>1. calls'[n].kind \in PageCalls \ {"users", "buckets", "logBuckets", "logs", "summary"}
      BY <1>2, <2>2 DEF PageCalls, UsersCalls
    <3>. QED BY <2>2, <3>1 DEF Moved, Heir
  <2>. QED BY <2>1, <2>2
<1>3. UsersAsk'
  BY <1>1, <1>2, FirstAsked DEF UsersListInv, UsersAsk, RenderOf
<1>4. \A n \in Mine(UsersCalls)' : n \in Slot /\ calls'[n].arg = FirstRender /\ calls'[n].kind = "users" /\ ~calls'[n].served
  BY <1>2 DEF Mine
<1>5. Mine({"users"})' \subseteq Mine(UsersCalls)'
  BY DEF Mine, UsersCalls
<1>6. UsersList'
  BY <1>1, <1>4, <1>5, FirstAsked DEF UsersList
<1>7. UsersFull'
  <2>1. Len(accounts) \in Nat
    BY RowsCounted
  <2>2. \A n \in Mine(UsersCalls)' : RenderOf(calls'[n]) = FirstRender
    BY <1>4 DEF RenderOf
  <2>3. FullPage(usersUi'.of, usersUi'.rows)
    BY <1>1 DEF FullPage
  <2>4. \A n \in Mine(UsersCalls)' : Inside(RenderOf(calls'[n]).page, Len(accounts'), PageSize)
    BY <2>2, FirstAsked
  <2>5. \A n \in Mine({"users"})' : ~calls'[n].served
    BY <1>4, <1>5
  <2>6. Inside(usersUi'.page, Len(accounts'), PageSize) /\ usersUi'.total \in 0 .. Len(accounts')
    BY <1>1, <2>1, FirstAsked
  <2>. QED BY <2>3, <2>4, <2>5, <2>6 DEF UsersFull
<1>. QED BY <1>3, <1>6, <1>7 DEF UsersListInv

\* What the lists are about: the fields of the pager and of the last listing.
ListFields(v, ui) ==
    v.page = ui.page /\ v.total = ui.total /\ v.rows = ui.rows /\ v.of = ui.of /\ v.search = ui.search

LEMMA LoadUsersList ==
  ASSUME NEW ui, DOMAIN ui = UsersFields, NEW w, NEW n, NEW v, v = LoadUsers(ui, w, n)
  PROVE  ListFields(v, ui) /\ v.sure = (Mine({"users"}) \ {n} = {} /\ w.page = ui.page)
BY DEF LoadUsers, UsersFields, ListFields

LEMMA RenderAsked ==
  ASSUME UsersListInv
  PROVE  Render \in Asked /\ Render.page = usersUi.page
BY DEF UsersListInv, UsersAsk, Asked, Render

\* A step of the page that loads nothing; its calls carry the render.
LEMMA UsersStays ==
  ASSUME SaveInv, UsersListInv, page' = page, accounts' = accounts, made' = made,
         usersUi'.page = usersUi.page, usersUi'.total = usersUi.total, usersUi'.search \in Name \union {None},
         usersUi'.of \in Asked, usersUi'.of.page = usersUi.of.page,
         FullPage(usersUi.of, usersUi.rows) => FullPage(usersUi'.of, usersUi'.rows),
         Mine({"users"})' \subseteq Mine({"users"}),
         usersUi'.sure => usersUi.sure /\ Mine({"users"})' = Mine({"users"}),
         \A n \in Slot : \/ calls'[n] = calls[n]
                         \/ calls'[n] = NoCall
                         \/ calls'[n].kind \in UsersCalls \ {"users"} /\ calls'[n].arg.render = Render
  PROVE  UsersListInv'
<1>1. ASSUME NEW n \in Slot, calls'[n].kind \in UsersCalls, calls'[n] # calls[n]
      PROVE  calls'[n].kind # "users" /\ RenderOf(calls'[n]) = Render
  BY <1>1 DEF NoCall, UsersCalls, RenderOf
<1>2. UsersAsk'
  <2>1. ASSUME NEW n \in Slot, calls'[n].kind \in UsersCalls PROVE RenderOf(calls'[n]) \in Asked
    BY <1>1, <2>1, RenderAsked DEF UsersListInv, UsersAsk
  <2>. QED BY <2>1 DEF UsersListInv, UsersAsk, RenderOf, Asked
<1>3. \A n \in Mine({"users"})' : n \in Mine({"users"}) /\ calls'[n] = calls[n]
  BY <1>1 DEF Mine, UsersCalls
<1>4. UsersList'
  BY <1>3 DEF UsersListInv, UsersList
<1>5. UsersFull'
  <2>. SUFFICES ASSUME page = "users", Len(accounts) = made
                PROVE  /\ Inside(usersUi'.page, Len(accounts), PageSize)
                       /\ usersUi'.total \in 0 .. Len(accounts)
                       /\ FullPage(usersUi'.of, usersUi'.rows)
                       /\ \A n \in Mine(UsersCalls)' : Inside(RenderOf(calls'[n]).page, Len(accounts), PageSize)
                       /\ \A n \in Mine({"users"})' : calls'[n].served =>
                             /\ calls'[n].answer.total \in 0 .. Len(accounts)
                             /\ FullPage(calls'[n].arg, calls'[n].answer.rows)
    BY DEF UsersFull, FullPage, RenderOf
  <2>1. /\ Inside(usersUi.page, Len(accounts), PageSize)
        /\ usersUi.total \in 0 .. Len(accounts)
        /\ FullPage(usersUi.of, usersUi.rows)
        /\ \A n \in Mine(UsersCalls) : Inside(RenderOf(calls[n]).page, Len(accounts), PageSize)
        /\ \A n \in Mine({"users"}) : calls[n].served =>
              /\ calls[n].answer.total \in 0 .. Len(accounts)
              /\ FullPage(calls[n].arg, calls[n].answer.rows)
    BY DEF UsersListInv, UsersFull
  <2>2. ASSUME NEW n \in Mine(UsersCalls)' PROVE Inside(RenderOf(calls'[n]).page, Len(accounts), PageSize)
    <3>1. n \in Slot /\ calls'[n].kind \in UsersCalls
      BY DEF Mine
    <3>2. CASE calls'[n] = calls[n]
      <4>1. n \in Mine(UsersCalls) /\ RenderOf(calls'[n]) = RenderOf(calls[n])
        BY <3>2 DEF Mine, Free, RenderOf
      <4>. QED BY <2>1, <4>1
    <3>3. CASE calls'[n] # calls[n]
      BY <1>1, <2>1, <3>1, <3>3, RenderAsked
    <3>. QED BY <3>2, <3>3
  <2>. QED BY <1>3, <2>1, <2>2
<1>. QED BY <1>2, <1>4, <1>5 DEF UsersListInv

\* The page p is loaded with w, by the call in slot m, upon that in slot n.
LEMMA UsersLoads ==
  ASSUME SaveInv, UsersListInv, page' = page, accounts' = accounts, made' = made,
         usersUi'.page \in 1 .. MaxMade + 1, usersUi'.search = usersUi.search, usersUi'.total = usersUi.total,
         usersUi'.of = usersUi.of, usersUi'.rows = usersUi.rows,
         NEW w \in Asked, NEW n, NEW m \in Slot,
         page = "users" /\ Len(accounts) = made =>
             Inside(usersUi'.page, Len(accounts), PageSize) /\ Inside(w.page, Len(accounts), PageSize),
         usersUi'.sure => Mine({"users"}) \ {n} = {} /\ w.page = usersUi'.page,
         calls'[m].kind = "users", calls'[m].arg = w, ~calls'[m].served,
         \A k \in Slot \ {m} : calls'[k] = calls[k],
         Mine({"users"})' = (Mine({"users"}) \ {n}) \union {m}
  PROVE  UsersListInv'
<1>1. UsersAsk'
  <2>1. ASSUME NEW k \in Slot, calls'[k].kind \in UsersCalls PROVE RenderOf(calls'[k]) \in Asked
    <3>1. k = m => RenderOf(calls'[k]) = w
      BY DEF RenderOf
    <3>. QED BY <2>1, <3>1 DEF UsersListInv, UsersAsk
  <2>. QED BY <2>1 DEF UsersListInv, UsersAsk, RenderOf, Asked
<1>2. UsersList'
  BY DEF UsersList
<1>3. UsersFull'
  <2>. SUFFICES ASSUME page = "users", Len(accounts) = made
                PROVE  /\ Inside(usersUi'.page, Len(accounts), PageSize)
                       /\ usersUi'.total \in 0 .. Len(accounts)
                       /\ FullPage(usersUi'.of, usersUi'.rows)
                       /\ \A k \in Mine(UsersCalls)' : Inside(RenderOf(calls'[k]).page, Len(accounts), PageSize)
                       /\ \A k \in Mine({"users"})' : calls'[k].served =>
                             /\ calls'[k].answer.total \in 0 .. Len(accounts)
                             /\ FullPage(calls'[k].arg, calls'[k].answer.rows)
    BY DEF UsersFull, FullPage, RenderOf
  <2>1. /\ usersUi.total \in 0 .. Len(accounts)
        /\ FullPage(usersUi.of, usersUi.rows)
        /\ \A k \in Mine(UsersCalls) : Inside(RenderOf(calls[k]).page, Len(accounts), PageSize)
        /\ \A k \in Mine({"users"}) : calls[k].served =>
              /\ calls[k].answer.total \in 0 .. Len(accounts)
              /\ FullPage(calls[k].arg, calls[k].answer.rows)
    BY DEF UsersListInv, UsersFull
  <2>2. ASSUME NEW k \in Mine(UsersCalls)' PROVE Inside(RenderOf(calls'[k]).page, Len(accounts), PageSize)
    <3>1. CASE k = m
      BY <3>1 DEF RenderOf
    <3>2. CASE k # m
      <4>1. calls'[k] = calls[k] /\ k \in Mine(UsersCalls)
        BY <3>2 DEF Mine, Free
      <4>2. RenderOf(calls'[k]) = RenderOf(calls[k])
        BY <4>1 DEF RenderOf
      <4>. QED BY <2>1, <4>1, <4>2
    <3>. QED BY <3>1, <3>2
  <2>3. \A k \in Mine({"users"})' : k # m => k \in Mine({"users"}) /\ calls'[k] = calls[k]
    BY DEF Mine
  <2>. QED BY <2>1, <2>2, <2>3
<1>. QED BY <1>1, <1>2, <1>3 DEF UsersListInv

LEMMA UsersSendsLoad ==
  ASSUME CallsOK, SaveInv, UsersListInv, page' = page, accounts' = accounts, made' = made,
         NEW ui, DOMAIN ui = UsersFields, NEW w \in Asked,
         ui.page \in 1 .. MaxMade + 1, ui.search = usersUi.search, ui.total = usersUi.total,
         ui.of = usersUi.of, ui.rows = usersUi.rows, w.page = ui.page,
         page = "users" /\ Len(accounts) = made => Inside(ui.page, Len(accounts), PageSize),
         usersUi' = LoadUsers(ui, w, 0), Send("users", w)
  PROVE  UsersListInv'
<1>1. PICK v, z : v = usersUi' /\ z = 0 /\ v = LoadUsers(ui, w, z)
  OBVIOUS
<1>2. ListFields(v, ui) /\ v.sure = (Mine({"users"}) \ {z} = {} /\ w.page = ui.page)
  BY <1>1, LoadUsersList
<1>3. "users" \in UsersCalls
  BY DEF UsersCalls
<1>4. PICK m \in Slot : /\ calls'[m].kind = "users" /\ calls'[m].arg = w /\ ~calls'[m].served
                        /\ \A k \in Slot \ {m} : calls'[k] = calls[k]
                        /\ \A K : Mine(K)' = IF "users" \in K THEN Mine(K) \union {m} ELSE Mine(K)
  BY <1>3, UsersSend
<1>5. Mine({"users"})' = (Mine({"users"}) \ {z}) \union {m}
  <2>1. z \notin Mine({"users"})
    BY <1>1 DEF Mine, Slot
  <2>. QED BY <1>4, <2>1
<1>. QED BY <1>1, <1>2, <1>4, <1>5, UsersLoads DEF ListFields

LEMMA UsersReloads ==
  ASSUME CallsOK, SaveInv, UsersListInv, page = "users", page' = page, accounts' = accounts, made' = made,
         NEW n \in Mine(UsersCalls \ {"users"}), NEW w, w = calls[n].arg.render,
         NEW ui, DOMAIN ui = UsersFields, ListFields(ui, usersUi),
         usersUi' = LoadUsers(ui, w, n), Put(n, Call("users", w))
  PROVE  UsersListInv'
<1>1. PICK v : v = usersUi' /\ v = LoadUsers(ui, w, n)
  OBVIOUS
<1>2. ListFields(v, ui) /\ v.sure = (Mine({"users"}) \ {n} = {} /\ w.page = ui.page)
  BY <1>1, LoadUsersList
<1>3. n \in Slot /\ calls[n].kind \in UsersCalls \ {"users"} /\ n \in Mine(UsersCalls) /\ RenderOf(calls[n]) = w
  BY DEF Mine, RenderOf
<1>4. w \in Asked
  BY <1>3 DEF UsersListInv, UsersAsk
<1>5. Len(accounts) = made => Inside(usersUi.page, Len(accounts), PageSize) /\ Inside(w.page, Len(accounts), PageSize)
  BY <1>3 DEF UsersListInv, UsersFull
<1>6. "users" \in Kind \ (LcCalls \union {"versions"}) /\ "users" \in Kind
  BY UsersKinds DEF UsersCalls
<1>7. /\ calls'[n].kind = "users" /\ calls'[n].arg = w /\ ~calls'[n].served
      /\ \A k \in Slot \ {n} : calls'[k] = calls[k]
      /\ \A K : Mine(K)' = IF "users" \in K THEN Mine(K) \union {n} ELSE Mine(K) \ {n}
  BY <1>3, <1>6, PlainArg, FollowOK
<1>8. Mine({"users"})' = (Mine({"users"}) \ {n}) \union {n}
  BY <1>7
<1>9. usersUi.page \in 1 .. MaxMade + 1
  BY DEF UsersListInv, UsersAsk
<1>. QED BY <1>1, <1>2, <1>3, <1>4, <1>5, <1>7, <1>8, <1>9, UsersLoads DEF ListFields

LEMMA UsersLoadedList ==
  ASSUME CallsOK, SaveInv, UsersInv, UsersListInv, page' = page, accounts' = accounts, made' = made,
         NEW n \in Slot, UsersLoaded(n)
  PROVE  UsersListInv'
<1>1. PICK rows, total, w : rows = calls[n].answer.rows /\ total = calls[n].answer.total /\ w = calls[n].arg
  OBVIOUS
<1>2. /\ usersUi' = [usersUi EXCEPT !.rows = rows, !.total = total, !.of = w, !.loading = FALSE]
      /\ n \in Mine({"users"}) /\ calls[n].served /\ Forget(n)
  BY <1>1, Zenon DEF UsersLoaded, UsersThen, Answered
<1>3. /\ usersUi'.rows = rows /\ usersUi'.total = total /\ usersUi'.of = w
      /\ usersUi'.page = usersUi.page /\ usersUi'.search = usersUi.search /\ usersUi'.sure = usersUi.sure
  BY <1>2 DEF UsersInv, UsersShape, UsersFields
<1>4. calls[n].kind = "users" /\ RenderOf(calls[n]) = w
  BY <1>1, <1>2 DEF Mine, RenderOf
<1>5. /\ calls'[n] = NoCall /\ \A k \in Slot \ {n} : calls'[k] = calls[k]
      /\ \A K : Mine(K)' = Mine(K) \ {n}
  BY <1>2, ForgetEffect DEF CallsOK
<1>6. UsersAsk'
  <2>1. ASSUME NEW k \in Slot, calls'[k].kind \in UsersCalls PROVE RenderOf(calls'[k]) \in Asked
    <3>1. k # n
      BY <1>5, <2>1 DEF NoCall, UsersCalls
    <3>. QED BY <1>5, <2>1, <3>1 DEF UsersListInv, UsersAsk
  <2>2. w \in Asked
    BY <1>4 DEF UsersListInv, UsersAsk, UsersCalls
  <2>. QED BY <1>3, <2>1, <2>2 DEF UsersListInv, UsersAsk, RenderOf, Asked
<1>7. \A K : \A k \in Mine(K)' : k \in Mine(K) /\ k \in Slot /\ k # n /\ calls'[k] = calls[k]
  BY <1>5, MineSets
<1>8. UsersList'
  <2>. SUFFICES ASSUME page = "users", usersUi.sure
                PROVE  /\ \A k \in Mine({"users"})' : calls'[k].arg.page = usersUi.page
                       /\ w.page = usersUi.page
    BY <1>3 DEF UsersList
  <2>. QED BY <1>1, <1>2, <1>7 DEF UsersListInv, UsersList
<1>9. UsersFull'
  <2>. SUFFICES ASSUME page = "users", Len(accounts) = made
                PROVE  /\ Inside(usersUi.page, Len(accounts), PageSize)
                       /\ total \in 0 .. Len(accounts)
                       /\ FullPage(w, rows)
                       /\ \A k \in Mine(UsersCalls)' : Inside(RenderOf(calls'[k]).page, Len(accounts), PageSize)
                       /\ \A k \in Mine({"users"})' : calls'[k].served =>
                             /\ calls'[k].answer.total \in 0 .. Len(accounts)
                             /\ FullPage(calls'[k].arg, calls'[k].answer.rows)
    BY <1>3 DEF UsersFull, FullPage, RenderOf
  <2>1. /\ Inside(usersUi.page, Len(accounts), PageSize)
        /\ \A k \in Mine(UsersCalls) : Inside(RenderOf(calls[k]).page, Len(accounts), PageSize)
        /\ \A k \in Mine({"users"}) : calls[k].served =>
              /\ calls[k].answer.total \in 0 .. Len(accounts)
              /\ FullPage(calls[k].arg, calls[k].answer.rows)
    BY DEF UsersListInv, UsersFull
  <2>2. \A k \in Mine(UsersCalls)' : k \in Mine(UsersCalls) /\ RenderOf(calls'[k]) = RenderOf(calls[k])
    BY <1>7 DEF RenderOf
  <2>. QED BY <1>1, <1>2, <1>7, <2>1, <2>2
<1>. QED BY <1>6, <1>8, <1>9 DEF UsersListInv

LEMMA UsersPagerList ==
  ASSUME CallsOK, SaveInv, UsersInv, UsersListInv, page' = page, accounts' = accounts, made' = made,
         NEW p \in 1 .. MaxMade + 1, UsersPager(p)
  PROVE  UsersListInv'
<1>1. PICK w, ui : /\ w = [Render EXCEPT !.page = p] /\ ui = [usersUi EXCEPT !.page = p]
                   /\ usersUi' = LoadUsers(ui, w, 0) /\ Send("users", w)
  BY Zenon DEF UsersPager, UsersDo
<1>2. /\ DOMAIN ui = UsersFields /\ ui.page = p /\ ui.search = usersUi.search /\ ui.total = usersUi.total
      /\ ui.of = usersUi.of /\ ui.rows = usersUi.rows
  BY <1>1 DEF UsersInv, UsersShape, UsersFields
<1>3. w \in Asked /\ w.page = p
  BY <1>1 DEF Render, Asked, UsersListInv, UsersAsk
<1>4. (p = usersUi.page - 1) \/ p = MinOf(UsersPages(usersUi.total), usersUi.page + 1)
  BY DEF UsersPager
<1>5. ASSUME page = "users", Len(accounts) = made PROVE Inside(p, Len(accounts), PageSize)
  <2>1. Inside(usersUi.page, Len(accounts), PageSize) /\ usersUi.total \in 0 .. Len(accounts)
    BY <1>5 DEF UsersListInv, UsersFull
  <2>2. Len(accounts) \in Nat /\ PageSize \in Nat \ {0} /\ MaxMade \in Nat /\ usersUi.page \in 1 .. MaxMade + 1
    BY RowsCounted, UsersAssumption DEF UsersListInv, UsersAsk
  <2>3. CASE p = usersUi.page - 1
    <3>1. p <= usersUi.page /\ p \in Int /\ usersUi.page \in Int
      BY <2>2, <2>3
    <3>. QED BY <2>1, <2>2, <3>1, InsideMore
  <2>4. CASE p = MinOf(UsersPages(usersUi.total), usersUi.page + 1)
    <3>1. PICK t \in Nat : t = usersUi.total /\ t <= Len(accounts)
      BY <2>1, <2>2
    <3>2. p \in Int /\ UsersPages(t) = (t + PageSize - 1) \div PageSize
      BY DEF UsersPages
    <3>3. UsersPages(t) \in Int
      BY <2>2, <3>2
    <3>4. p <= UsersPages(t)
      BY <2>2, <2>4, <3>1, <3>2, <3>3 DEF MinOf
    <3>5. Inside(p, t, PageSize)
      BY <2>2, <3>2, <3>4, PagesInside
    <3>. QED BY <2>2, <3>1, <3>2, <3>5, InsideMore
  <2>. QED BY <1>4, <2>3, <2>4
<1>. QED BY <1>1, <1>2, <1>3, <1>5, UsersSendsLoad

\* A step of the page that does nothing to the list: it sends one call, or forgets one, at most.
LEMMA UsersKeepsList ==
  ASSUME CallsOK, SaveInv, UsersListInv, page' = page, accounts' = accounts, made' = made,
         ListFields(usersUi', usersUi), usersUi'.sure = usersUi.sure,
         \/ calls' = calls
         \/ \E k \in UsersCalls \ {"users"} : \E w : w.render = Render /\ Send(k, w)
         \/ \E n \in Slot : n \notin Mine({"users"}) /\ Forget(n)
  PROVE  UsersListInv'
<1>1. /\ Mine({"users"})' = Mine({"users"})
      /\ \A n \in Slot : \/ calls'[n] = calls[n]
                         \/ calls'[n] = NoCall
                         \/ calls'[n].kind \in UsersCalls \ {"users"} /\ calls'[n].arg.render = Render
  <2>1. CASE calls' = calls
    BY <2>1, QuietEffect
  <2>2. CASE \E k \in UsersCalls \ {"users"} : \E w : w.render = Render /\ Send(k, w)
    <3>1. PICK k \in UsersCalls \ {"users"} : \E w : w.render = Render /\ Send(k, w)
      BY <2>2
    <3>2. PICK w : w.render = Render /\ Send(k, w)
      BY <3>1
    <3>3. PICK n \in Slot : /\ calls'[n].kind = k /\ calls'[n].arg = w
                            /\ \A m \in Slot \ {n} : calls'[m] = calls[m]
                            /\ \A K : Mine(K)' = IF k \in K THEN Mine(K) \union {n} ELSE Mine(K)
      BY <3>2, UsersSend
    <3>. QED BY <3>2, <3>3
  <2>3. CASE \E n \in Slot : n \notin Mine({"users"}) /\ Forget(n)
    <3>1. PICK n \in Slot : n \notin Mine({"users"}) /\ Forget(n)
      BY <2>3
    <3>2. /\ calls'[n] = NoCall /\ \A m \in Slot \ {n} : calls'[m] = calls[m]
          /\ \A K : Mine(K)' = Mine(K) \ {n}
      BY <3>1, ForgetEffect DEF CallsOK
    <3>. QED BY <3>1, <3>2
  <2>. QED BY <2>1, <2>2, <2>3
<1>2. usersUi'.search \in Name \union {None} /\ usersUi'.of \in Asked
  BY DEF ListFields, UsersListInv, UsersAsk
<1>. QED BY <1>1, <1>2, UsersStays DEF ListFields

LEMMA UsersUserList ==
  ASSUME CallsOK, SaveInv, UsersInv, UsersListInv, UsersUser, page' = page, accounts' = accounts, made' = made
  PROVE  UsersListInv'
<1>. DEFINE Same(v) == ListFields(v, usersUi) /\ v.sure = usersUi.sure
<1>1. ASSUME NEW q \in Name \union {None}, TypeSearch(q) PROVE UsersListInv'
  <2>1. usersUi' = [usersUi EXCEPT !.search = q] /\ calls' = calls
    BY <1>1 DEF TypeSearch, UsersDo, Quiet
  <2>2. /\ usersUi'.page = usersUi.page /\ usersUi'.total = usersUi.total /\ usersUi'.search = q
        /\ usersUi'.of = usersUi.of /\ usersUi'.rows = usersUi.rows /\ usersUi'.sure = usersUi.sure
    BY <2>1 DEF UsersInv, UsersShape, UsersFields
  <2>3. usersUi'.of \in Asked
    BY <2>2 DEF UsersListInv, UsersAsk
  <2>. QED BY <2>1, <2>2, <2>3, QuietEffect, UsersStays
<1>2. CASE SearchUsers
  <2>1. CASE usersUi' = LoadUsers(usersUi, Render, 0) /\ Send("users", Render)
    <3>1. PICK w, ui : w = Render /\ ui = usersUi /\ usersUi' = LoadUsers(ui, w, 0) /\ Send("users", w)
      BY <2>1, Zenon
    <3>2. w \in Asked /\ w.page = ui.page /\ ui.page \in 1 .. MaxMade + 1
      BY <3>1, RenderAsked DEF UsersListInv, UsersAsk
    <3>3. page = "users" /\ Len(accounts) = made => Inside(ui.page, Len(accounts), PageSize)
      BY <3>1 DEF UsersListInv, UsersFull
    <3>4. DOMAIN ui = UsersFields
      BY <3>1 DEF UsersInv, UsersShape
    <3>. QED BY <3>1, <3>2, <3>3, <3>4, UsersSendsLoad
  <2>2. CASE /\ usersUi.search # None
             /\ usersUi' = [usersUi EXCEPT !.rows = SelectSeq(@, LAMBDA a : a.name = usersUi.search),
                                           !.of.search = usersUi.search]
             /\ calls' = calls
    <3>1. PICK rows, of : /\ usersUi' = [usersUi EXCEPT !.rows = rows, !.of = of]
                          /\ of = [usersUi.of EXCEPT !.search = usersUi.search]
      BY <2>2, Zenon
    <3>2. /\ usersUi'.page = usersUi.page /\ usersUi'.total = usersUi.total /\ usersUi'.search = usersUi.search
          /\ usersUi'.of = of /\ usersUi'.rows = rows /\ usersUi'.sure = usersUi.sure
      BY <3>1 DEF UsersInv, UsersShape, UsersFields
    <3>3. usersUi.search \in Name \union {None} /\ usersUi.of \in Asked
      BY DEF UsersListInv, UsersAsk
    <3>4. of \in Asked /\ of.page = usersUi.of.page /\ of.search = usersUi.search
      BY <3>1, <3>3 DEF Asked
    <3>5. FullPage(usersUi'.of, usersUi'.rows)
      BY <2>2, <3>2, <3>4 DEF FullPage
    <3>. QED BY <2>2, <3>2, <3>3, <3>4, <3>5, QuietEffect, UsersStays
  <2>. QED BY <1>2, <2>1, <2>2, Zenon DEF SearchUsers, UsersDo, Quiet
<1>3. ASSUME calls' = calls, NEW c, NEW d,
             \/ usersUi' = [usersUi EXCEPT !.form = FALSE]
             \/ usersUi' = [usersUi EXCEPT !.copied = TRUE]
             \/ usersUi' = [usersUi EXCEPT !.form = TRUE, !.editing = c, !.error = FALSE]
             \/ usersUi' = [usersUi EXCEPT !.dialog = d, !.chosen = c]
             \/ usersUi' = [usersUi EXCEPT !.dialog = "none", !.chosen = None]
             \/ usersUi' = TokenClosed(usersUi)
      PROVE  UsersListInv'
  <2>1. Same(usersUi')
    <3>1. DOMAIN usersUi = UsersFields
      BY DEF UsersInv, UsersShape
    <3>2. CASE usersUi' = TokenClosed(usersUi)
      <4>1. PICK u, b : /\ u = Closed(usersUi, "token")
                        /\ usersUi' = [u EXCEPT !.token = None, !.copied = FALSE, !.left = b]
        BY <3>2, Zenon DEF TokenClosed
      <4>2. u = usersUi \/ u = [usersUi EXCEPT !.dialog = "none", !.chosen = None]
        BY <4>1, Zenon DEF Closed
      <4>3. Same(u)
        BY <3>1, <4>2 DEF ListFields, UsersFields
      <4>. QED BY <3>1, <4>1, <4>2, <4>3 DEF ListFields, UsersFields
    <3>3. CASE \/ usersUi' = [usersUi EXCEPT !.form = FALSE]
               \/ usersUi' = [usersUi EXCEPT !.copied = TRUE]
               \/ usersUi' = [usersUi EXCEPT !.form = TRUE, !.editing = c, !.error = FALSE]
      BY <3>1, <3>3 DEF ListFields, UsersFields
    <3>4. CASE \/ usersUi' = [usersUi EXCEPT !.dialog = d, !.chosen = c]
               \/ usersUi' = [usersUi EXCEPT !.dialog = "none", !.chosen = None]
      BY <3>1, <3>4 DEF ListFields, UsersFields
    <3>. QED BY <1>3, <3>2, <3>3, <3>4
  <2>. QED BY <1>3, <2>1, UsersKeepsList
<1>4. ASSUME CancelForm \/ CopyToken \/ CloseDialog \/ (\E a : OpenForm(a)) \/ (\E a, dialog : Choose(dialog, a))
      PROVE  UsersListInv'
  <2>1. /\ calls' = calls
        /\ \/ usersUi' = [usersUi EXCEPT !.form = FALSE]
           \/ usersUi' = [usersUi EXCEPT !.copied = TRUE]
           \/ \E c : usersUi' = [usersUi EXCEPT !.form = TRUE, !.editing = c, !.error = FALSE]
           \/ \E c, d : usersUi' = [usersUi EXCEPT !.dialog = d, !.chosen = c]
           \/ usersUi' = [usersUi EXCEPT !.dialog = "none", !.chosen = None]
           \/ usersUi' = TokenClosed(usersUi)
    BY <1>4, Zenon DEF CancelForm, CopyToken, CloseDialog, OpenForm, Choose, UsersDo, Quiet
  <2>. QED BY <1>3, <2>1
<1>5. ASSUME NEW k \in UsersCalls \ {"users"}, NEW w, w.render = Render, Send(k, w),
             \/ usersUi' = [usersUi EXCEPT !.submitting = TRUE]
             \/ usersUi' = [usersUi EXCEPT !.error = FALSE, !.saving = TRUE]
      PROVE  UsersListInv'
  <2>1. Same(usersUi')
    BY <1>5 DEF ListFields, UsersInv, UsersShape, UsersFields
  <2>. QED BY <1>5, <2>1, UsersKeepsList
<1>6. CASE Confirm
  <2>1. PICK k, w : /\ k = usersUi.dialog /\ w = [user |-> usersUi.chosen, render |-> Render]
                    /\ k # "none" /\ usersUi' = [usersUi EXCEPT !.submitting = TRUE] /\ Send(k, w)
    BY <1>6, Zenon DEF Confirm, UsersDo
  <2>2. k \in UsersCalls \ {"users"} /\ w.render = Render
    BY <2>1 DEF UsersInv, UsersShape, UsersCalls
  <2>. QED BY <1>5, <2>1, <2>2
<1>7. ASSUME NEW f \in Typed, SubmitForm(f) PROVE UsersListInv'
  <2>1. /\ usersUi' = [usersUi EXCEPT !.error = FALSE, !.saving = TRUE]
        /\ \/ \E u, dt : Send("update", [user |-> u, data |-> dt, form |-> f, render |-> Render])
           \/ Send("create", [form |-> f, render |-> Render])
    BY <1>7, Zenon DEF SubmitForm, UsersDo
  <2>2. PICK k, w : k \in {"create", "update"} /\ w.render = Render /\ Send(k, w)
    <3>1. ASSUME NEW u, NEW dt, Send("update", [user |-> u, data |-> dt, form |-> f, render |-> Render])
          PROVE  \E w : w.render = Render /\ Send("update", w)
      <4>1. PICK w : w = [user |-> u, data |-> dt, form |-> f, render |-> Render]
        OBVIOUS
      <4>2. w.render = Render
        BY <4>1
      <4>. QED BY <3>1, <4>1, <4>2, Zenon
    <3>2. ASSUME Send("create", [form |-> f, render |-> Render])
          PROVE  \E w : w.render = Render /\ Send("create", w)
      <4>1. PICK w : w = [form |-> f, render |-> Render]
        OBVIOUS
      <4>2. w.render = Render
        BY <4>1
      <4>. QED BY <3>2, <4>1, <4>2, Zenon
    <3>. QED BY <2>1, <3>1, <3>2, Zenon
  <2>3. k \in UsersCalls \ {"users"}
    BY <2>2 DEF UsersCalls
  <2>. QED BY <1>5, <2>1, <2>2, <2>3
<1>8. ASSUME NEW p \in 1 .. MaxMade + 1, UsersPager(p) PROVE UsersListInv'
  BY <1>8, UsersPagerList
<1>. QED BY <1>1, <1>2, <1>4, <1>6, <1>7, <1>8, Zenon DEF UsersUser

LEMMA UsersAnswerList ==
  ASSUME CallsOK, SaveInv, UsersInv, UsersListInv, NEW n \in Slot, UsersAnswer(n),
         page' = page, accounts' = accounts, made' = made
  PROVE  UsersListInv'
<1>1. page = "users" /\ n \in Mine(UsersCalls) /\ DOMAIN usersUi = UsersFields
  BY UsersAnswerPage DEF UsersInv, UsersShape
<1>2. CASE FormSaved(n)
  <2>1. PICK w, ui : /\ ui = [usersUi EXCEPT !.form = FALSE, !.saving = FALSE] /\ w = calls[n].arg.render
                     /\ usersUi' = LoadUsers(ui, w, n) /\ Put(n, Call("users", w))
    BY <1>2, Zenon DEF FormSaved, UsersThen
  <2>2. DOMAIN ui = UsersFields /\ ListFields(ui, usersUi)
    BY <1>1, <2>1 DEF UsersFields, ListFields
  <2>3. n \in Mine(UsersCalls \ {"users"})
    BY <1>2 DEF FormSaved, Answered, Mine, UsersCalls
  <2>. QED BY <1>1, <2>1, <2>2, <2>3, UsersReloads
<1>3. CASE Confirmed(n)
  <2>1. PICK w, u, ui : /\ u = Closed(usersUi, calls[n].kind) /\ ui = [u EXCEPT !.submitting = FALSE]
                        /\ w = calls[n].arg.render
                        /\ usersUi' = LoadUsers(ui, w, n) /\ Put(n, Call("users", w))
    BY <1>3, Zenon DEF Confirmed, UsersThen
  <2>2. DOMAIN u = UsersFields /\ ListFields(u, usersUi)
    <3>1. u = [usersUi EXCEPT !.dialog = "none", !.chosen = None] \/ u = usersUi
      BY <2>1, Zenon DEF Closed
    <3>. QED BY <1>1, <3>1 DEF UsersFields, ListFields
  <2>3. DOMAIN ui = UsersFields /\ ListFields(ui, usersUi)
    BY <2>1, <2>2 DEF UsersFields, ListFields
  <2>4. n \in Mine(UsersCalls \ {"users"})
    BY <1>3 DEF Confirmed, Answered, Mine, UsersCalls
  <2>. QED BY <1>1, <2>1, <2>3, <2>4, UsersReloads
<1>4. CASE UsersLoaded(n)
  BY <1>4, UsersLoadedList
<1>5. CASE UsersFail(n)
  <2>1. usersUi' = [usersUi EXCEPT !.loading = FALSE, !.sure = FALSE] /\ Forget(n)
    BY <1>5 DEF UsersFail, UsersThen
  <2>2. ListFields(usersUi', usersUi) /\ usersUi'.sure = FALSE
    BY <1>1, <2>1 DEF UsersFields, ListFields
  <2>3. /\ calls'[n] = NoCall /\ \A m \in Slot \ {n} : calls'[m] = calls[m]
        /\ \A K : Mine(K)' = Mine(K) \ {n}
    BY <2>1, ForgetEffect DEF CallsOK
  <2>4. usersUi'.search \in Name \union {None} /\ usersUi'.of \in Asked
    BY <2>2 DEF ListFields, UsersListInv, UsersAsk
  <2>5. Mine({"users"})' \subseteq Mine({"users"}) /\ \A m \in Slot : calls'[m] = calls[m] \/ calls'[m] = NoCall
    BY <2>3
  <2>. QED BY <2>2, <2>4, <2>5, UsersStays DEF ListFields
<1>6. CASE TokenShown(n) \/ FormFails(n) \/ ConfirmFails(n)
  <2>1. Forget(n) /\ n \notin Mine({"users"})
    BY <1>6 DEF TokenShown, FormFails, ConfirmFails, Answered, Failing, Mine
  <2>2. PICK u : /\ DOMAIN u = UsersFields /\ ListFields(u, usersUi) /\ u.sure = usersUi.sure
                 /\ \/ \E a : usersUi' = [u EXCEPT !.token = a, !.submitting = FALSE]
                    \/ \E e : usersUi' = [u EXCEPT !.error = e, !.saving = FALSE]
                    \/ usersUi' = [u EXCEPT !.submitting = FALSE]
    <3>1. CASE TokenShown(n) \/ FormFails(n)
      <4>1. \/ \E a : usersUi' = [usersUi EXCEPT !.token = a, !.submitting = FALSE]
            \/ \E e : usersUi' = [usersUi EXCEPT !.error = e, !.saving = FALSE]
        BY <3>1, Zenon DEF TokenShown, FormFails, UsersThen
      <4>2. ListFields(usersUi, usersUi)
        BY DEF ListFields
      <4>. QED BY <1>1, <4>1, <4>2
    <3>2. CASE ConfirmFails(n)
      <4>1. PICK c, u : /\ c = Closed(usersUi, "token")
                        /\ u = [c EXCEPT !.left = FALSE] \/ u = usersUi
                        /\ usersUi' = [u EXCEPT !.submitting = FALSE]
        BY <3>2, Zenon DEF ConfirmFails, UsersThen
      <4>2. c = [usersUi EXCEPT !.dialog = "none", !.chosen = None] \/ c = usersUi
        BY <4>1, Zenon DEF Closed
      <4>3. DOMAIN c = UsersFields /\ ListFields(c, usersUi) /\ c.sure = usersUi.sure
        BY <1>1, <4>2 DEF UsersFields, ListFields
      <4>4. DOMAIN u = UsersFields /\ ListFields(u, usersUi) /\ u.sure = usersUi.sure
        BY <1>1, <4>1, <4>3 DEF UsersFields, ListFields
      <4>. QED BY <4>1, <4>4
    <3>. QED BY <1>6, <3>1, <3>2
  <2>3. ListFields(usersUi', usersUi) /\ usersUi'.sure = usersUi.sure
    BY <2>2 DEF UsersFields, ListFields
  <2>. QED BY <2>1, <2>3, UsersKeepsList
<1>. QED BY <1>2, <1>3, <1>4, <1>5, <1>6 DEF UsersAnswer, UsersFails

LEMMA OnUsersList ==
  ASSUME CallsOK, SaveInv, UsersInv, UsersListInv, OnUsers
  PROVE  UsersListInv'
<1>1. accounts' = accounts /\ made' = made
  BY OnUsersSave DEF usersDb
<1>2. page' = page
  BY DEF OnUsers, whoVars, Expires
<1>3. CASE UsersUser
  BY <1>1, <1>2, <1>3, UsersUserList
<1>4. CASE CopyTimer
  <2>1. usersUi' = [usersUi EXCEPT !.copied = FALSE] /\ calls' = calls
    BY <1>4 DEF CopyTimer, UsersThen, Quiet
  <2>2. ListFields(usersUi', usersUi) /\ usersUi'.sure = usersUi.sure
    BY <2>1 DEF UsersInv, UsersShape, UsersFields, ListFields
  <2>. QED BY <1>1, <1>2, <2>1, <2>2, UsersKeepsList
<1>5. ASSUME NEW n \in Slot, UsersAnswer(n) PROVE UsersListInv'
  BY <1>1, <1>2, <1>5, UsersAnswerList
<1>6. ASSUME NEW n \in Slot, Expires(n) PROVE UsersAnswer(n)
  BY <1>6 DEF Expires, UsersAnswer
<1>. QED BY <1>3, <1>4, <1>5, <1>6 DEF OnUsers

\* The handlers: the listing answers with a page of what it finds.
LEMMA ListedUsers ==
  ASSUME CallsOK, SaveInv, UsersListInv, page' = page, usersUi' = usersUi, NEW n \in Slot, ListUsers(n)
  PROVE  UsersListInv'
<1>1. PICK w, found, rows : /\ w = calls[n].arg /\ found = Found(w.search)
                            /\ rows = SubSeq(found, (w.page - 1) * PageSize + 1, MinOf(w.page * PageSize, Len(found)))
  OBVIOUS
<1>2. /\ Arriving(n, "users") /\ Served(n, [rows |-> rows, total |-> Len(found)])
      /\ accounts' = accounts /\ made' = made
  BY <1>1, Zenon DEF ListUsers, usersDb
<1>3. calls[n].kind = "users" /\ calls[n] # NoCall
  BY <1>2, CallsKind DEF Arriving, NoCall, CallsOK
<1>4. /\ \A m \in Slot \ {n} : calls'[m] = calls[m]
      /\ \/ calls'[n] = NoCall
         \/ /\ calls'[n].kind = "users" /\ calls'[n].arg = w /\ ~calls[n].gone
            /\ calls'[n].answer.rows = rows /\ calls'[n].answer.total = Len(found)
      /\ \A K : Mine(K)' = Mine(K)
  <2>1. PICK a : a = [rows |-> rows, total |-> Len(found)]
    OBVIOUS
  <2>2. a.rows = rows /\ a.total = Len(found)
    BY <2>1
  <2>3. Served(n, a)
    BY <1>2, <2>1
  <2>. QED BY <1>1, <1>3, <2>2, <2>3, ServedEffect DEF CallsOK
<1>5. w \in Asked /\ w.page \in Nat \ {0} /\ w.page \in Int
  <2>1. w \in Asked
    BY <1>1, <1>3 DEF UsersListInv, UsersAsk, RenderOf, UsersCalls
  <2>. QED BY <2>1, UsersAssumption DEF Asked
<1>6. /\ accounts \in Seq(Account) /\ Len(accounts) \in Nat /\ PageSize \in Nat \ {0}
  BY RowsCounted, UsersAssumption
<1>7. /\ found \in Seq(Account) /\ Len(found) \in 0 .. Len(accounts)
      /\ w.search = None => Len(found) = Len(accounts)
  <2>1. PICK K : K = {a \in Account : w.search \in {None, a.name}}
    OBVIOUS
  <2>2. found = Filtered(accounts, K)
    BY <1>1, <2>1, Zenon DEF Found
  <2>3. /\ found \in Seq(Account \intersect K) /\ Len(found) \in Nat /\ Len(found) <= Len(accounts)
        /\ Account \subseteq K => Len(found) = Len(accounts)
    BY <1>6, <2>2, FilteredProperties
  <2>4. w.search = None => Account \subseteq K
    BY <2>1
  <2>5. Account \intersect K = K
    BY <2>1
  <2>6. K \subseteq Account
    BY <2>1
  <2>7. found \in Seq(Account)
    BY <2>3, <2>5, <2>6
  <2>. QED BY <1>6, <2>3, <2>4, <2>7
<1>8. rows \in Seq(Account) /\ (w.page # 1 /\ Inside(w.page, Len(found), PageSize) => rows # <<>>)
  BY <1>1, <1>5, <1>6, <1>7, PageRows
<1>9. UsersAsk'
  BY <1>2, <1>3, <1>4, <1>5 DEF UsersListInv, UsersAsk, RenderOf, UsersCalls, NoCall
<1>10. \A m \in Slot : m \in Mine(UsersCalls)' => calls'[m].kind = calls[m].kind /\ calls'[m].arg = calls[m].arg
  BY <1>1, <1>3, <1>4 DEF Mine, UsersCalls, NoCall
<1>11. Mine({"users"}) \subseteq Mine(UsersCalls) /\ Mine(UsersCalls) \subseteq Slot
  BY DEF Mine, UsersCalls
<1>12. UsersList'
  BY <1>4, <1>10, <1>11 DEF UsersListInv, UsersList
<1>13. UsersFull'
  <2>. SUFFICES ASSUME page = "users", Len(accounts) = made
                PROVE  /\ Inside(usersUi.page, Len(accounts), PageSize)
                       /\ usersUi.total \in 0 .. Len(accounts)
                       /\ FullPage(usersUi.of, usersUi.rows)
                       /\ \A m \in Mine(UsersCalls) : Inside(RenderOf(calls'[m]).page, Len(accounts), PageSize)
                       /\ \A m \in Mine({"users"}) : calls'[m].served =>
                             /\ calls'[m].answer.total \in 0 .. Len(accounts)
                             /\ FullPage(calls'[m].arg, calls'[m].answer.rows)
    BY <1>2, <1>4 DEF UsersFull, FullPage, RenderOf
  <2>1. /\ Inside(usersUi.page, Len(accounts), PageSize)
        /\ usersUi.total \in 0 .. Len(accounts)
        /\ FullPage(usersUi.of, usersUi.rows)
        /\ \A m \in Mine(UsersCalls) : Inside(RenderOf(calls[m]).page, Len(accounts), PageSize)
        /\ \A m \in Mine({"users"}) : calls[m].served =>
              /\ calls[m].answer.total \in 0 .. Len(accounts)
              /\ FullPage(calls[m].arg, calls[m].answer.rows)
    BY DEF UsersListInv, UsersFull
  <2>2. \A m \in Mine(UsersCalls) : RenderOf(calls'[m]) = RenderOf(calls[m])
    BY <1>4, <1>10, <1>11 DEF RenderOf
  <2>3. ASSUME NEW m \in Mine({"users"}), calls'[m].served
        PROVE  calls'[m].answer.total \in 0 .. Len(accounts) /\ FullPage(calls'[m].arg, calls'[m].answer.rows)
    <3>1. CASE m # n
      BY <1>4, <1>11, <2>1, <2>3, <3>1
    <3>2. CASE m = n
      <4>1. /\ calls'[n].arg = w /\ calls'[n].answer.rows = rows /\ calls'[n].answer.total = Len(found)
        BY <1>3, <1>4, <1>10, <1>11, <2>3, <3>2 DEF NoCall
      <4>2. Inside(w.page, Len(accounts), PageSize)
        BY <1>1, <1>3, <1>11, <2>1, <2>3, <3>2 DEF RenderOf
      <4>3. FullPage(w, rows)
        BY <1>7, <1>8, <4>2 DEF FullPage
      <4>. QED BY <1>7, <3>2, <4>1, <4>3
    <3>. QED BY <3>1, <3>2
  <2>. QED BY <2>1, <2>2, <2>3
<1>. QED BY <1>2, <1>9, <1>12, <1>13 DEF UsersListInv

LEMMA SameDomain ==
  ASSUME NEW S, NEW s \in Seq(S), NEW t \in Seq(S), DOMAIN s = DOMAIN t
  PROVE  Len(s) = Len(t)
BY LenProperties

LEMMA UsersServedList ==
  ASSUME CallsOK, SaveInv, UsersListInv, page' = page, usersUi' = usersUi, NEW n \in Slot, UsersServer(n)
  PROVE  UsersListInv'
<1>0. /\ accounts \in Seq(Account) /\ Len(accounts) \in Nat /\ made \in Nat /\ Len(accounts) <= made
      /\ accounts' \in Seq(Account) /\ Len(accounts') \in Nat
  <2>1. SaveInv'
    BY ServerSave
  <2>2. accounts' \in Seq(Account)
    BY <2>1 DEF SaveInv, RowsOK
  <2>. QED BY <2>2, RowsCounted, LenProperties DEF UsersListInv
<1>1. ASSUME NEW k \in UsersCalls \ {"users"}, NEW a, Arriving(n, k), Served(n, a),
             Len(accounts') <= made', Len(accounts') = made' => Len(accounts) = made /\ Len(accounts) <= Len(accounts')
      PROVE  UsersListInv'
  <2>1. calls[n].kind = k /\ calls[n] # NoCall
    BY <1>1, UsersKinds, CallsKind DEF Arriving, NoCall, CallsOK
  <2>2. /\ \A m \in Slot \ {n} : calls'[m] = calls[m]
        /\ \/ calls'[n] = NoCall
           \/ calls'[n].kind = calls[n].kind /\ calls'[n].arg = calls[n].arg
        /\ \A K : Mine(K)' = Mine(K)
    BY <1>1, <2>1, ServedEffect DEF CallsOK
  <2>3. \A m \in Slot : calls'[m].kind \in UsersCalls =>
              /\ calls'[m].kind = calls[m].kind /\ calls'[m].arg = calls[m].arg
              /\ calls'[m].kind = "users" => calls'[m] = calls[m]
    BY <2>1, <2>2 DEF NoCall, UsersCalls
  <2>. QED BY <1>0, <1>1, <2>2, <2>3, UsersCarried
<1>2. CASE ListUsers(n)
  BY <1>2, ListedUsers
<1>3. CASE GenerateToken(n)
  <2>1. accounts' = accounts /\ made' = made /\ \E a : Arriving(n, "token") /\ Served(n, a)
    BY <1>3, Zenon DEF GenerateToken, usersDb
  <2>. QED BY <1>0, <1>1, <2>1 DEF UsersCalls
<1>4. CASE UpdateUser(n) \/ ToggleUser(n)
  <2>1. made' = made /\ \E k \in {"update", "toggle"} : \E a : Arriving(n, k) /\ Served(n, a)
    BY <1>4 DEF UpdateUser, ToggleUser
  <2>2. DOMAIN accounts' = DOMAIN accounts
    BY <1>4 DEF UpdateUser, ToggleUser
  <2>3. Len(accounts') = Len(accounts)
    BY <1>0, <2>2, SameDomain
  <2>. QED BY <1>0, <1>1, <2>1, <2>3 DEF UsersCalls
<1>5. CASE DeleteUser(n)
  <2>1. PICK i \in DOMAIN accounts :
            accounts' = SubSeq(accounts, 1, i - 1) \o SubSeq(accounts, i + 1, Len(accounts))
    BY <1>5 DEF DeleteUser, IndexOf
  <2>2. Arriving(n, "delete") /\ Served(n, "ok") /\ made' = made
    BY <1>5 DEF DeleteUser
  <2>3. PICK s, t : s \in Seq(Account) /\ s = accounts /\ t = accounts'
    BY <1>0
  <2>4. i \in DOMAIN s /\ t = SubSeq(s, 1, i - 1) \o SubSeq(s, i + 1, Len(s))
    BY <2>1, <2>3
  <2>5. Len(t) = Len(s) - 1
    BY <2>3, <2>4, CutIndex
  <2>6. Len(accounts') <= made' /\ Len(accounts') # made'
    BY <1>0, <2>2, <2>3, <2>5
  <2>. QED BY <1>1, <2>2, <2>6 DEF UsersCalls
<1>6. CASE CreateUser(n)
  <2>1. PICK b : accounts' = <<b>> \o accounts
    BY <1>6 DEF CreateUser
  <2>2. Arriving(n, "create") /\ Served(n, "ok") /\ made' = made + 1
    BY <1>6 DEF CreateUser
  <2>3. Len(accounts') = Len(accounts) + 1
    <3>1. PICK s, T : s = <<b>> /\ T = Account \union {b}
      OBVIOUS
    <3>2. s \in Seq(T) /\ Len(s) = 1 /\ accounts \in Seq(T)
      BY <1>0, <3>1
    <3>. QED BY <2>1, <3>1, <3>2, ConcatProperties
  <2>4. /\ Len(accounts') <= made'
        /\ Len(accounts') = made' => Len(accounts) = made /\ Len(accounts) <= Len(accounts')
    BY <1>0, <2>2, <2>3
  <2>. QED BY <1>1, <2>2, <2>4 DEF UsersCalls
<1>. QED BY <1>2, <1>3, <1>4, <1>5, <1>6 DEF UsersServer

LEMMA UsersListNext ==
  ASSUME AppInv, SaveInv, UsersListInv, [Next]_vars
  PROVE  UsersListInv'
<1>1. CallsOK /\ UsersInv /\ Len(accounts) \in Nat /\ Len(accounts) <= made
  BY RowsCounted DEF AppInv, PagesInv, UsersListInv
<1>2. ASSUME Fewer(UsersCalls), usersVars' = usersVars, page' # "users" PROVE UsersListInv'
  BY <1>1, <1>2, UsersElsewhere DEF usersVars, Fewer
<1>3. ASSUME NEW K, CallStep(K), K \intersect UsersCalls = {}, usersVars' = usersVars, page' # "users"
      PROVE  UsersListInv'
  <2>1. Fewer(UsersCalls)
    BY <1>3 DEF CallStep, Fewer, NoCall, UsersCalls
  <2>. QED BY <1>2, <1>3, <2>1
<1>4. ASSUME Fewer(UsersCalls), usersVars' = usersVars, page' = page,
             \A K \in SUBSET UsersCalls : Mine(K)' = Mine(K)
      PROVE  UsersListInv'
  BY <1>1, <1>4, UsersCarried DEF usersVars, Fewer
<1>5. CASE OnUsers
  BY <1>1, <1>5, OnUsersList
<1>6. CASE OnBuckets
  <2>1. usersVars' = usersVars /\ page' = page /\ page = "buckets"
    BY <1>6 DEF OnBuckets, usersVars, whoVars
  <2>2. CallStep(BucketsCalls)
    BY <1>1, <1>6, <2>1, BucketsStep DEF AppInv, PagesInv, BucketsGoal
  <2>. QED BY <1>3, <2>1, <2>2 DEF BucketsCalls, UsersCalls
<1>7. CASE OnReports
  <2>1. usersVars' = usersVars /\ page' = page /\ page = "reports"
    BY <1>7 DEF OnReports, usersVars, whoVars
  <2>2. CallStep(ReportsCalls)
    BY <1>1, <1>7, <2>1, ReportsStep DEF AppInv, PagesInv
  <2>. QED BY <1>3, <2>1, <2>2 DEF ReportsCalls, UsersCalls
<1>8. CASE Elsewhere \/ UNCHANGED vars
  <2>1. usersVars' = usersVars /\ calls' = calls /\ page' = page
    BY <1>8 DEF Elsewhere, usersVars, whoVars, vars, pageVars, dbVars
  <2>. QED BY <1>4, <2>1, QuietEffect DEF Fewer
<1>9. CASE Auth
  <2>1. dbVars' = dbVars /\ (Moved \/ Stayed)
    BY <1>9, AuthMoves
  <2>2. accounts' = accounts /\ made' = made
    BY <2>1 DEF dbVars
  <2>3. CASE Moved
    BY <2>2, <2>3, UsersMoved
  <2>4. CASE Stayed
    <3>1. Calls /\ Calls'
      BY NextStep DEF AppInv, CallsOK
    <3>2. SameCalls(UsersCalls) /\ page' = page /\ usersUi' = usersUi
      BY <2>4 DEF Stayed
    <3>3. Fewer(UsersCalls) /\ \A K \in SUBSET UsersCalls : Mine(K)' = Mine(K)
      BY <3>1, <3>2, SameFewer, SameMine
    <3>. QED BY <1>4, <2>2, <3>2, <3>3 DEF usersVars
  <2>. QED BY <2>1, <2>3, <2>4
<1>10. ASSUME NEW n \in Slot, Server(n) PROVE UsersListInv'
  <2>1. page' = page /\ usersUi' = usersUi /\ \A K : Mine(K)' = Mine(K)
    <3>1. ServerStep /\ pageVars' = pageVars /\ whoVars' = whoVars
      BY <1>1, <1>10, ServerIsStep
    <3>2. page' = page /\ usersUi' = usersUi
      BY <3>1 DEF pageVars, whoVars
    <3>. QED BY <1>1, <3>1, <3>2, ServerStepCalls
  <2>2. CASE UsersServer(n)
    BY <1>1, <2>1, <2>2, UsersServedList
  <2>3. CASE UNCHANGED <<accounts, made>> /\ Fewer(UsersCalls)
    BY <1>4, <2>1, <2>3 DEF usersVars
  <2>. QED BY <1>1, <1>10, <2>2, <2>3, ServerParts
<1>. QED BY <1>5, <1>6, <1>7, <1>8, <1>9, <1>10 DEF Next

LEMMA UsersListInit == Init => UsersListInv
<1>. SUFFICES ASSUME Init PROVE UsersListInv
  OBVIOUS
<1>1. Len(accounts) \in Nat /\ Len(accounts) = made
  BY AppAssumption, LenProperties DEF Init
<1>2. /\ usersUi.page = 1 /\ usersUi.search = None /\ usersUi.of = FirstRender /\ usersUi.total = 0
      /\ usersUi.of.page = 1
  BY DEF Init, FreshUsers, FirstRender
<1>3. \A n \in Slot : calls[n].kind \notin UsersCalls
  BY FirstCalls DEF UsersCalls
<1>4. UsersAsk
  BY <1>2, <1>3, FirstAsked DEF UsersAsk
<1>5. page # "users"
  BY DEF Init
<1>. QED BY <1>1, <1>4, <1>5 DEF UsersListInv, UsersList, UsersFull

LEMMA UsersListed ==
  ASSUME UsersListInv
  PROVE  /\ UsersSettled => usersUi.of.page = usersUi.page
         /\ UsersSettled /\ usersUi.of.search = None /\ usersUi.rows = <<>> /\ Len(accounts) = made =>
               usersUi.page = 1
BY DEF UsersListInv, UsersList, UsersFull, FullPage, UsersSettled

-----------------------------------------------------------------------------
(* The list of Reports.tsx *)

\* The filters that a listing of the logs can have.
Filters == [page : {1} \union 1 .. Len(Feed), bucket : Bucket \union {None}, status : Status \union {None}]
AllPass(rows, f) == \A l \in LogsIn(rows) : Passes(l, f)

\* The page p of those that pass f is there.
There(rows, p, f) == Inside(p, Len(Filtered(rows, {l \in Log : Passes(l, f)})), Limit)

LogsOK == logs \in Seq(Log) /\ Len(logs) <= sent /\ sent \in 0 .. Len(Feed)

ReportsAsk ==
    /\ Filter \in Filters /\ rp.of \in Filters /\ AllPass(rp.rows, rp.of) /\ rp.pages \in Nat
    /\ \A n \in Slot : calls[n].kind = "logs" =>
          /\ calls[n].arg \in Filters
          /\ calls[n].served => AllPass(calls[n].answer.rows, calls[n].arg) /\ calls[n].answer.pages \in Nat

\* While the last listing is sure, it is of the filter at hand.
ReportsList ==
    page = "reports" /\ rp.sure =>
        /\ \A n \in Mine({"logs"}) : calls[n].arg = Filter
        /\ Mine({"logs"}) = {} /\ ~rp.error => rp.of = Filter

\* Until a log is cleaned, every page that is asked for is there.
ReportsFull ==
    page = "reports" /\ ~rp.cleaned =>
        /\ There(logs, rp.pages, rp.of)
        /\ \A n \in Mine({"logs"}) : calls[n].served => There(logs, calls[n].answer.pages, calls[n].arg)
        /\ rp.sure =>
              /\ There(logs, rp.page, Filter)
              /\ \A n \in Mine({"logs"}) : calls[n].served /\ rp.page # 1 => calls[n].answer.rows # <<>>
              /\ Mine({"logs"}) = {} /\ ~rp.error /\ rp.page # 1 => rp.rows # <<>>

ReportsListInv == LogsOK /\ ReportsAsk /\ ReportsList /\ ReportsFull

LEMMA FiltersPages ==
  /\ Len(Feed) \in Nat /\ Limit \in Nat \ {0}
  /\ \A f \in Filters : f.page \in Int /\ f.page \in Nat \ {0}
<1>1. Len(Feed) \in Nat
  BY ReportsAssumption, LenProperties
<1>. QED BY <1>1, ReportsAssumption DEF Filters

LEMMA FirstFilters == FirstFilter \in Filters /\ FirstFilter.page = 1
BY DEF FirstFilter, Filters

LEMMA ThereSame ==
  ASSUME NEW rows, NEW p, NEW f, NEW g, f.bucket = g.bucket, f.status = g.status
  PROVE  There(rows, p, f) <=> There(rows, p, g)
<1>1. {l \in Log : Passes(l, f)} = {l \in Log : Passes(l, g)}
  BY DEF Passes
<1>. QED BY <1>1, Zenon DEF There

LEMMA ThereFirst == \A rows, f : There(rows, 1, f)
BY DEF There, Inside

LEMMA CountPassing ==
  ASSUME NEW rows \in Seq(Log), NEW f
  PROVE  Len(Filtered(rows, {l \in Log : Passes(l, f)})) \in Nat
BY FilteredProperties

LEMMA ThereEarlier ==
  ASSUME NEW rows \in Seq(Log), NEW f, NEW p \in Int, NEW q \in Int, q <= p, There(rows, p, f)
  PROVE  There(rows, q, f)
<1>1. PICK t \in Nat : t = Len(Filtered(rows, {l \in Log : Passes(l, f)}))
  BY CountPassing
<1>2. Inside(p, t, Limit) /\ t <= t
  BY <1>1 DEF There
<1>3. Inside(q, t, Limit)
  BY <1>2, FiltersPages, InsideMore
<1>. QED BY <1>1, <1>3 DEF There

\* A log that arrives takes no page away.
LEMMA ThereGrows ==
  ASSUME NEW rows \in Seq(Log), NEW x \in Log, NEW f, NEW p \in Int, There(rows, p, f)
  PROVE  There(<<x>> \o rows, p, f)
<1>1. PICK K, more : K = {l \in Log : Passes(l, f)} /\ more = <<x>> \o rows
  OBVIOUS
<1>2. more \in Seq(Log)
  <2>1. PICK s : s = <<x>>
    OBVIOUS
  <2>2. s \in Seq(Log)
    BY <2>1
  <2>. QED BY <1>1, <2>1, <2>2, ConcatProperties
<1>3. /\ Len(Filtered(rows, K)) \in Nat /\ Len(Filtered(more, K)) \in Nat
      /\ Len(Filtered(rows, K)) <= Len(Filtered(more, K))
  <2>1. Len(Filtered(rows, K)) \in Nat /\ Len(Filtered(more, K)) \in Nat
    BY <1>2, FilteredProperties
  <2>2. Len(Filtered(<<x>> \o rows, K)) >= Len(Filtered(rows, K))
    BY FilteredGrows
  <2>. QED BY <1>1, <2>1, <2>2
<1>4. Inside(p, Len(Filtered(rows, K)), Limit)
  BY <1>1 DEF There
<1>5. Inside(p, Len(Filtered(more, K)), Limit)
  BY <1>3, <1>4, FiltersPages, InsideMore
<1>. QED BY <1>1, <1>5 DEF There

\* What the list is about.
LogFields(v, ui) ==
    /\ v.page = ui.page /\ v.bucket = ui.bucket /\ v.status = ui.status
    /\ v.rows = ui.rows /\ v.pages = ui.pages /\ v.of = ui.of /\ v.sure = ui.sure /\ v.error = ui.error

LEMMA SameFilter ==
  ASSUME NEW v, NEW ui, v.page = ui.page, v.bucket = ui.bucket, v.status = ui.status
  PROVE  FilterOf(v) = FilterOf(ui)
BY DEF FilterOf

LEMMA FilterFields ==
  /\ \A ui : /\ FilterOf(ui).page = ui.page /\ FilterOf(ui).bucket = ui.bucket /\ FilterOf(ui).status = ui.status
  /\ Filter = FilterOf(rp)
BY DEF FilterOf, Filter

\* A step that leaves the list alone, and takes no page away unless it cleans.
LEMMA ReportsCarried ==
  ASSUME ReportsListInv, page' = page, LogFields(rp', rp), LogsOK', Mine({"logs"})' = Mine({"logs"}), Fewer({"logs"}),
         \/ rp'.cleaned
         \/ ~rp.cleaned /\ \A p \in Int : \A f : There(logs, p, f) => There(logs', p, f)
  PROVE  ReportsListInv'
<1>1. FilterOf(rp') = FilterOf(rp) /\ Filter = FilterOf(rp) /\ Filter' = FilterOf(rp')
  BY SameFilter DEF LogFields, Filter
<1>2. ReportsAsk'
  BY <1>1 DEF ReportsListInv, ReportsAsk, LogFields, Fewer
<1>3. \A n \in Mine({"logs"}) : n \in Slot /\ calls'[n] = calls[n]
  <2>1. \A n \in Mine({"logs"})' : n \in Slot /\ calls'[n].kind = "logs"
    BY DEF Mine
  <2>. QED BY <2>1 DEF Fewer
<1>4. ReportsList'
  BY <1>1, <1>3 DEF ReportsListInv, ReportsList, LogFields
<1>5. ReportsFull'
  <2>. SUFFICES ASSUME page = "reports", ~rp'.cleaned
                PROVE  /\ There(logs', rp.pages, rp.of)
                       /\ \A n \in Mine({"logs"}) :
                             calls[n].served => There(logs', calls[n].answer.pages, calls[n].arg)
                       /\ rp.sure =>
                             /\ There(logs', rp.page, FilterOf(rp))
                             /\ \A n \in Mine({"logs"}) : calls[n].served /\ rp.page # 1 => calls[n].answer.rows # <<>>
                             /\ Mine({"logs"}) = {} /\ ~rp.error /\ rp.page # 1 => rp.rows # <<>>
    BY <1>1, <1>3 DEF ReportsFull, LogFields, There
  <2>1. /\ There(logs, rp.pages, rp.of)
        /\ \A n \in Mine({"logs"}) : calls[n].served => There(logs, calls[n].answer.pages, calls[n].arg)
        /\ rp.sure =>
              /\ There(logs, rp.page, FilterOf(rp))
              /\ \A n \in Mine({"logs"}) : calls[n].served /\ rp.page # 1 => calls[n].answer.rows # <<>>
              /\ Mine({"logs"}) = {} /\ ~rp.error /\ rp.page # 1 => rp.rows # <<>>
    BY <1>1 DEF ReportsListInv, ReportsFull
  <2>2. rp.pages \in Int /\ rp.page \in Int
    BY <1>1, FiltersPages, FilterFields DEF ReportsListInv, ReportsAsk
  <2>3. \A n \in Mine({"logs"}) : calls[n].served => calls[n].answer.pages \in Int
    BY DEF Mine, ReportsListInv, ReportsAsk
  <2>4. \A p \in Int : \A f : There(logs, p, f) => There(logs', p, f)
    OBVIOUS
  <2>. QED BY <2>1, <2>2, <2>3, <2>4
<1>. QED BY <1>2, <1>4, <1>5 DEF ReportsListInv

LEMMA ReportsElsewhere ==
  ASSUME ReportsListInv, page' # "reports", rp' = rp, logs' = logs, sent' = sent, Fewer({"logs"})
  PROVE  ReportsListInv'
<1>1. ReportsAsk'
  BY DEF ReportsListInv, ReportsAsk, Fewer, Filter, FilterOf
<1>2. LogsOK'
  BY DEF ReportsListInv, LogsOK
<1>. QED BY <1>1, <1>2 DEF ReportsListInv, ReportsList, ReportsFull

LEMMA FreshLogs ==
  ASSUME NEW v, v = FreshReports
  PROVE  /\ FilterOf(v) = FirstFilter /\ v.of = FirstFilter /\ AllPass(v.rows, v.of) /\ v.pages = 1 /\ v.page = 1
         /\ v.bucket = None /\ v.status = None
<1>1. /\ v.of = FirstFilter /\ v.rows = <<>> /\ v.pages = 1 /\ v.page = 1 /\ v.bucket = None /\ v.status = None
  BY DEF FreshReports
<1>2. LogsIn(v.rows) = {}
  BY <1>1 DEF LogsIn
<1>. QED BY <1>1, <1>2 DEF FilterOf, FirstFilter, AllPass

LEMMA ReportsMoved ==
  ASSUME ReportsListInv, Moved, logs' = logs, sent' = sent
  PROVE  ReportsListInv'
<1>1. PICK v : v = rp' /\ v = FreshReports
  BY DEF Moved
<1>2. /\ FilterOf(v) = FirstFilter /\ v.of = FirstFilter /\ AllPass(v.rows, v.of) /\ v.pages = 1 /\ v.page = 1
  BY <1>1, FreshLogs
<1>3. Filter' = FirstFilter
  BY <1>1, <1>2 DEF Filter
<1>4. \A n \in Slot : calls'[n].kind = "logs" => calls'[n].arg = FirstFilter /\ ~calls'[n].served
  BY DEF Moved, Asking
<1>5. \A n \in Mine({"logs"})' : calls'[n].arg = FirstFilter /\ ~calls'[n].served
  BY <1>4 DEF Mine
<1>6. ReportsAsk'
  BY <1>1, <1>2, <1>3, <1>4, FirstFilters DEF ReportsAsk
<1>7. ReportsList'
  BY <1>1, <1>2, <1>3, <1>5 DEF ReportsList
<1>8. ReportsFull'
  <2>1. There(logs, v.pages, v.of) /\ There(logs, v.page, Filter')
    BY <1>2, ThereFirst
  <2>. QED BY <1>1, <1>2, <1>5, <2>1 DEF ReportsFull
<1>9. LogsOK'
  BY DEF ReportsListInv, LogsOK
<1>. QED BY <1>6, <1>7, <1>8, <1>9 DEF ReportsListInv

LEMMA LogsAskedFields ==
  ASSUME NEW ui, DOMAIN ui = RpFields, LogsAsked(ui)
  PROVE  /\ rp'.page = ui.page /\ rp'.bucket = ui.bucket /\ rp'.status = ui.status
         /\ rp'.rows = ui.rows /\ rp'.pages = ui.pages /\ rp'.of = ui.of /\ rp'.cleaned = ui.cleaned
         /\ rp'.sure => Mine({"logs"}) = {} /\ (ui.sure \/ ui.page = 1)
         /\ Send("logs", FilterOf(ui))
<1>1. /\ rp' = [ui EXCEPT !.loading = TRUE, !.error = FALSE,
                          !.sure = Mine({"logs"}) = {} /\ (@ \/ ui.page = 1)]
      /\ Send("logs", FilterOf(ui))
  BY Zenon DEF LogsAsked, RpDo
<1>. QED BY <1>1 DEF RpFields

\* A listing is asked for with the filter of ui.
LEMMA ReportsAsks ==
  ASSUME CallsOK, ReportsListInv, page' = page, logs' = logs, sent' = sent,
         NEW ui, DOMAIN ui = RpFields, LogsAsked(ui),
         ui.rows = rp.rows, ui.pages = rp.pages, ui.of = rp.of, ui.cleaned = rp.cleaned,
         FilterOf(ui) \in Filters,
         page = "reports" /\ ~rp.cleaned /\ Mine({"logs"}) = {} /\ ui.sure => There(logs, ui.page, FilterOf(ui))
  PROVE  ReportsListInv'
<1>1. PICK w : w = FilterOf(ui) /\ w \in Filters
  OBVIOUS
<1>2. /\ rp'.page = ui.page /\ rp'.bucket = ui.bucket /\ rp'.status = ui.status
      /\ rp'.rows = rp.rows /\ rp'.pages = rp.pages /\ rp'.of = rp.of /\ rp'.cleaned = rp.cleaned
      /\ rp'.sure => Mine({"logs"}) = {} /\ (ui.sure \/ ui.page = 1)
      /\ Send("logs", w)
  BY <1>1, LogsAskedFields
<1>3. Filter' = w
  BY <1>1, <1>2, SameFilter DEF Filter
<1>4. "logs" \in Kind \ (LcCalls \union {"versions"})
  BY DEF Kind, PageCalls, ReportsCalls, LcCalls
<1>5. PICK n \in Slot : /\ calls'[n].kind = "logs" /\ calls'[n].arg = w /\ ~calls'[n].served
                        /\ \A m \in Slot \ {n} : calls'[m] = calls[m]
                        /\ \A K : n \notin Mine(K)
                        /\ \A K : Mine(K)' = IF "logs" \in K THEN Mine(K) \union {n} ELSE Mine(K)
  BY <1>2, <1>4, PlainArg, SendOK
<1>6. LogsOK'
  BY DEF ReportsListInv, LogsOK
<1>7. ReportsAsk'
  BY <1>1, <1>2, <1>3, <1>5 DEF ReportsListInv, ReportsAsk
<1>8. n \in Mine({"logs"})' /\ (rp'.sure => Mine({"logs"})' = {n})
      /\ \A m \in Mine({"logs"})' : m = n \/ (m \in Mine({"logs"}) /\ calls'[m] = calls[m])
  BY <1>2, <1>5, MineSets
<1>9. ReportsList'
  BY <1>3, <1>5, <1>8 DEF ReportsList
<1>10. ReportsFull'
  <2>. SUFFICES ASSUME page = "reports", ~rp.cleaned
                PROVE  /\ There(logs, rp.pages, rp.of)
                       /\ \A m \in Mine({"logs"})' : calls'[m].served => There(logs, calls'[m].answer.pages, calls'[m].arg)
                       /\ rp'.sure => There(logs, ui.page, w)
    BY <1>2, <1>3, <1>5, <1>8 DEF ReportsFull
  <2>1. /\ There(logs, rp.pages, rp.of)
        /\ \A m \in Mine({"logs"}) : calls[m].served => There(logs, calls[m].answer.pages, calls[m].arg)
    BY DEF ReportsListInv, ReportsFull
  <2>. QED BY <1>1, <1>2, <1>5, <1>8, <2>1, ThereFirst
<1>. QED BY <1>6, <1>7, <1>9, <1>10 DEF ReportsListInv

LEMMA ReportsUserList ==
  ASSUME CallsOK, ReportsInv, ReportsListInv, ReportsUser, page' = page
  PROVE  ReportsListInv'
<1>0. DOMAIN rp = RpFields /\ LogsOK
  BY DEF ReportsInv, ReportsListInv
<1>1. logs' = logs /\ sent' = sent
  <2>1. reportsDb' = reportsDb
    BY Zenon DEF ReportsUser, TypeTerm, PickBucket, PickStatus, ReportsPager, ShowDetails, RetryLogs, LogsAsked, RpDo
  <2>. QED BY <2>1 DEF reportsDb
<1>2. ASSUME calls' = calls, NEW x, rp' = [rp EXCEPT !.term = x] \/ rp' = [rp EXCEPT !.selected = x]
      PROVE  ReportsListInv'
  <2>1. LogFields(rp', rp) /\ rp'.cleaned = rp.cleaned
    BY <1>0, <1>2 DEF RpFields, LogFields
  <2>2. LogsOK' /\ Fewer({"logs"}) /\ Mine({"logs"})' = Mine({"logs"})
    BY <1>0, <1>1, <1>2, QuietEffect DEF LogsOK, Fewer
  <2>. QED BY <1>1, <2>1, <2>2, ReportsCarried
<1>3. ASSUME NEW t, TypeTerm(t) PROVE ReportsListInv'
  <2>1. rp' = [rp EXCEPT !.term = t] /\ calls' = calls
    BY <1>3 DEF TypeTerm, RpDo, Quiet
  <2>. QED BY <1>2, <2>1
<1>4. ASSUME NEW l, ShowDetails(l) PROVE ReportsListInv'
  <2>1. (\E x : rp' = [rp EXCEPT !.selected = x]) /\ calls' = calls
    BY <1>4, Zenon DEF ShowDetails, RpDo, Quiet
  <2>. QED BY <1>2, <2>1
<1>5. Filter = FilterOf(rp) /\ Filter \in Filters /\ Filter.page = rp.page /\ Filter.bucket = rp.bucket /\ Filter.status = rp.status
  BY FilterFields DEF ReportsListInv, ReportsAsk
<1>6. rp.bucket \in Bucket \union {None} /\ rp.status \in Status \union {None} /\ rp.page \in Int /\ rp.page \in {1} \union 1 .. Len(Feed)
  BY <1>5, FiltersPages DEF Filters
<1>7. ASSUME NEW ui, DOMAIN ui = RpFields, LogsAsked(ui), ui.page = 1,
             ui.rows = rp.rows, ui.pages = rp.pages, ui.of = rp.of, ui.cleaned = rp.cleaned,
             ui.bucket \in Bucket \union {None}, ui.status \in Status \union {None}
      PROVE  ReportsListInv'
  <2>1. FilterOf(ui) \in Filters
    BY <1>7 DEF FilterOf, Filters
  <2>2. There(logs, ui.page, FilterOf(ui))
    BY <1>7, ThereFirst
  <2>. QED BY <1>1, <1>7, <2>1, <2>2, ReportsAsks
<1>8. ASSUME NEW b \in Bucket \union {None}, PickBucket(b) PROVE ReportsListInv'
  <2>1. PICK v, ui : v = [rp EXCEPT !.bucket = b] /\ ui = [v EXCEPT !.page = 1] /\ LogsAsked(ui)
    BY <1>8, Zenon DEF PickBucket, FromFirst
  <2>2. /\ DOMAIN ui = RpFields /\ ui.page = 1 /\ ui.bucket = b /\ ui.status = rp.status
        /\ ui.rows = rp.rows /\ ui.pages = rp.pages /\ ui.of = rp.of /\ ui.cleaned = rp.cleaned
    BY <1>0, <2>1 DEF RpFields
  <2>. QED BY <1>6, <1>7, <2>1, <2>2
<1>9. ASSUME NEW s \in Status \union {None}, PickStatus(s) PROVE ReportsListInv'
  <2>1. PICK v, ui : v = [rp EXCEPT !.status = s] /\ ui = [v EXCEPT !.page = 1] /\ LogsAsked(ui)
    BY <1>9, Zenon DEF PickStatus, FromFirst
  <2>2. /\ DOMAIN ui = RpFields /\ ui.page = 1 /\ ui.bucket = rp.bucket /\ ui.status = s
        /\ ui.rows = rp.rows /\ ui.pages = rp.pages /\ ui.of = rp.of /\ ui.cleaned = rp.cleaned
    BY <1>0, <2>1 DEF RpFields
  <2>. QED BY <1>6, <1>7, <2>1, <2>2
<1>10. CASE RetryLogs
  <2>1. LogsAsked(rp)
    BY <1>10 DEF RetryLogs
  <2>2. page = "reports" /\ ~rp.cleaned /\ rp.sure => There(logs, rp.page, FilterOf(rp))
    BY <1>5 DEF ReportsListInv, ReportsFull
  <2>3. FilterOf(rp) \in Filters
    BY <1>5
  <2>. QED BY <1>0, <1>1, <2>1, <2>2, <2>3, ReportsAsks
<1>11. ASSUME NEW p \in 1 .. Len(Feed), ReportsPager(p) PROVE ReportsListInv'
  <2>1. PICK ui : ui = [rp EXCEPT !.page = p] /\ LogsAsked(ui)
    BY <1>11, Zenon DEF ReportsPager
  <2>2. /\ DOMAIN ui = RpFields /\ ui.page = p /\ ui.bucket = rp.bucket /\ ui.status = rp.status
        /\ ui.rows = rp.rows /\ ui.pages = rp.pages /\ ui.of = rp.of /\ ui.cleaned = rp.cleaned /\ ui.sure = rp.sure
    BY <1>0, <2>1 DEF RpFields
  <2>3. FilterOf(ui) \in Filters
    BY <1>6, <2>2 DEF FilterOf, Filters
  <2>4. ~rp.error /\ ((p = rp.page - 1) \/ p <= rp.pages)
    BY <1>11, Zenon DEF ReportsPager, Table
  <2>5. ASSUME page = "reports", ~rp.cleaned, Mine({"logs"}) = {}, ui.sure PROVE There(logs, ui.page, FilterOf(ui))
    <3>1. /\ There(logs, rp.page, Filter) /\ There(logs, rp.pages, rp.of) /\ rp.of = Filter
          /\ logs \in Seq(Log) /\ rp.pages \in Int
      BY <1>0, <2>2, <2>4, <2>5 DEF ReportsListInv, ReportsList, ReportsFull, ReportsAsk, LogsOK
    <3>2. p \in Int
      OBVIOUS
    <3>3. There(logs, p, Filter)
      <4>1. CASE p = rp.page - 1
        <5>1. p <= rp.page
          BY <1>6, <4>1
        <5>. QED BY <1>6, <3>1, <3>2, <5>1, ThereEarlier
      <4>2. CASE p <= rp.pages
        BY <3>1, <3>2, <4>2, ThereEarlier
      <4>. QED BY <2>4, <4>1, <4>2
    <3>4. FilterOf(ui).bucket = Filter.bucket /\ FilterOf(ui).status = Filter.status
      BY <1>5, <2>2, FilterFields
    <3>. QED BY <2>2, <3>3, <3>4, ThereSame
  <2>. QED BY <1>1, <2>1, <2>2, <2>3, <2>5, ReportsAsks
<1>. QED BY <1>3, <1>4, <1>8, <1>9, <1>10, <1>11, Zenon DEF ReportsUser

LEMMA ReportsAnswerList ==
  ASSUME CallsOK, ReportsInv, ReportsListInv, NEW n \in Slot, ReportsAnswer(n), page' = page
  PROVE  ReportsListInv'
<1>0. DOMAIN rp = RpFields /\ LogsOK
  BY DEF ReportsInv, ReportsListInv
<1>1. logs' = logs /\ sent' = sent /\ Forget(n)
  <2>1. reportsDb' = reportsDb /\ Forget(n)
    BY Zenon DEF ReportsAnswer, LogsLoaded, OptionsLoaded, ReportsFails, LogsFail, OptionsFail, RpThen
  <2>. QED BY <2>1 DEF reportsDb
<1>2. /\ calls'[n] = NoCall /\ \A m \in Slot \ {n} : calls'[m] = calls[m]
      /\ \A K : Mine(K)' = Mine(K) \ {n}
  BY <1>1, ForgetEffect DEF CallsOK
<1>3. LogsOK' /\ Fewer({"logs"})
  BY <1>0, <1>1, <1>2 DEF LogsOK, Fewer, NoCall
<1>4. CASE OptionsLoaded(n) \/ OptionsFail(n)
  <2>1. n \in Mine({"logBuckets"})
    BY <1>4 DEF OptionsLoaded, OptionsFail, Answered, Failing
  <2>2. Mine({"logs"})' = Mine({"logs"})
    BY <1>2, <2>1 DEF Mine
  <2>3. rp' = rp \/ \E x : rp' = [rp EXCEPT !.options = x]
    BY <1>4, Zenon DEF OptionsLoaded, OptionsFail, RpThen
  <2>4. LogFields(rp', rp) /\ rp'.cleaned = rp.cleaned
    BY <1>0, <2>3 DEF RpFields, LogFields
  <2>. QED BY <1>1, <1>3, <2>2, <2>4, ReportsCarried
<1>5. \A m \in Mine({"logs"})' : m \in Mine({"logs"}) /\ m \in Slot /\ m # n /\ calls'[m] = calls[m]
  BY <1>2, MineSets
<1>6. \A m \in Slot : calls'[m].kind = "logs" => calls'[m] = calls[m]
  BY <1>3 DEF Fewer
<1>7. CASE LogsFail(n)
  <2>1. rp' = [rp EXCEPT !.error = TRUE, !.loading = FALSE]
    BY <1>7, Zenon DEF LogsFail, RpThen
  <2>2. /\ rp'.page = rp.page /\ rp'.bucket = rp.bucket /\ rp'.status = rp.status
        /\ rp'.rows = rp.rows /\ rp'.pages = rp.pages /\ rp'.of = rp.of /\ rp'.sure = rp.sure
        /\ rp'.error = TRUE /\ rp'.cleaned = rp.cleaned
    BY <1>0, <2>1 DEF RpFields
  <2>3. Filter' = Filter
    BY <2>2 DEF Filter, FilterOf
  <2>4. ReportsAsk'
    BY <1>6, <2>2, <2>3 DEF ReportsListInv, ReportsAsk
  <2>5. ReportsList'
    BY <1>5, <2>2, <2>3 DEF ReportsListInv, ReportsList
  <2>6. ReportsFull'
    BY <1>1, <1>5, <2>2, <2>3 DEF ReportsListInv, ReportsFull
  <2>. QED BY <1>3, <2>4, <2>5, <2>6 DEF ReportsListInv
<1>8. CASE LogsLoaded(n)
  <2>1. PICK rows, pages, w : rows = calls[n].answer.rows /\ pages = calls[n].answer.pages /\ w = calls[n].arg
    OBVIOUS
  <2>2. /\ rp' = [rp EXCEPT !.rows = rows, !.pages = pages, !.of = w, !.loading = FALSE]
        /\ n \in Mine({"logs"}) /\ calls[n].served
    BY <1>8, <2>1, Zenon DEF LogsLoaded, RpThen, Answered
  <2>3. /\ rp'.page = rp.page /\ rp'.bucket = rp.bucket /\ rp'.status = rp.status
        /\ rp'.rows = rows /\ rp'.pages = pages /\ rp'.of = w /\ rp'.sure = rp.sure
        /\ rp'.error = rp.error /\ rp'.cleaned = rp.cleaned
    BY <1>0, <2>2 DEF RpFields
  <2>4. Filter' = Filter
    BY <2>3 DEF Filter, FilterOf
  <2>5. w \in Filters /\ AllPass(rows, w) /\ pages \in Nat
    <3>1. calls[n].kind = "logs"
      BY <2>2 DEF Mine
    <3>. QED BY <2>1, <2>2, <3>1 DEF ReportsListInv, ReportsAsk
  <2>6. ReportsAsk'
    BY <1>6, <2>3, <2>4, <2>5 DEF ReportsListInv, ReportsAsk
  <2>7. page = "reports" /\ rp.sure => w = Filter
    BY <2>1, <2>2 DEF ReportsListInv, ReportsList
  <2>8. ReportsList'
    BY <1>5, <2>3, <2>4, <2>7 DEF ReportsListInv, ReportsList
  <2>9. page = "reports" /\ ~rp.cleaned => There(logs, pages, w) /\ (rp.sure /\ rp.page # 1 => rows # <<>>)
    BY <2>1, <2>2 DEF ReportsListInv, ReportsFull
  <2>10. ReportsFull'
    BY <1>1, <1>5, <2>3, <2>4, <2>9 DEF ReportsListInv, ReportsFull
  <2>. QED BY <1>3, <2>6, <2>8, <2>10 DEF ReportsListInv
<1>. QED BY <1>4, <1>7, <1>8 DEF ReportsAnswer, ReportsFails

\* What happens to the table.
LEMMA TableList ==
  ASSUME ReportsInv, ReportsListInv, Elsewhere
  PROVE  ReportsListInv'
<1>0. /\ DOMAIN rp = RpFields /\ logs \in Seq(Log) /\ Len(logs) \in Nat /\ Len(logs) <= sent
      /\ sent \in 0 .. Len(Feed) /\ Len(Feed) \in Nat
  BY LenProperties, FiltersPages DEF ReportsInv, ReportsListInv, LogsOK
<1>1. page' = page /\ Fewer({"logs"}) /\ Mine({"logs"})' = Mine({"logs"})
  BY QuietEffect DEF Elsewhere, whoVars, Fewer
<1>2. CASE LogsCleaned
  <2>1. /\ rp' = [rp EXCEPT !.cleaned = TRUE] /\ sent' = sent
        /\ logs # <<>> /\ logs' = SubSeq(logs, 1, Len(logs) - 1)
    BY <1>2 DEF LogsCleaned
  <2>2. LogFields(rp', rp) /\ rp'.cleaned
    BY <1>0, <2>1 DEF RpFields, LogFields
  <2>3. LogsOK'
    <3>1. PICK k \in Nat : Len(logs) = k + 1
      <4>1. Len(logs) # 0
        BY <1>0, <2>1, EmptySeq
      <4>2. Len(logs) - 1 \in Nat /\ Len(logs) = (Len(logs) - 1) + 1
        BY <1>0, <4>1
      <4>. QED BY <4>2
    <3>2. \A i \in 1 .. k : logs[i] \in Log
      BY <1>0, <3>1, ElementOfSeq
    <3>3. SubSeq(logs, 1, k) \in Seq(Log) /\ Len(SubSeq(logs, 1, k)) = IF 1 <= k THEN k - 1 + 1 ELSE 0
      BY <3>2, SubSeqProperties
    <3>4. Len(SubSeq(logs, 1, k)) = k
      BY <3>3
    <3>5. logs' = SubSeq(logs, 1, k)
      <4>1. Len(logs) - 1 = k
        BY <3>1
      <4>. QED BY <2>1, <4>1
    <3>. QED BY <1>0, <2>1, <3>1, <3>3, <3>4, <3>5 DEF LogsOK
  <2>. QED BY <1>1, <2>2, <2>3, ReportsCarried
<1>3. CASE LogArrives
  <2>1. PICK x : x = Feed[sent + 1]
    OBVIOUS
  <2>2. sent < Len(Feed) /\ sent' = sent + 1 /\ logs' = <<x>> \o logs /\ rp' = rp
    BY <1>3, <2>1 DEF LogArrives
  <2>3. x \in Log
    BY <1>0, <2>1, <2>2, ReportsAssumption, ElementOfSeq
  <2>4. LogsOK'
    <3>1. PICK s : s = <<x>>
      OBVIOUS
    <3>2. s \in Seq(Log) /\ Len(s) = 1
      BY <2>3, <3>1
    <3>3. logs' \in Seq(Log) /\ Len(logs') = 1 + Len(logs)
      BY <1>0, <2>2, <3>1, <3>2, ConcatProperties
    <3>. QED BY <1>0, <2>2, <3>3 DEF LogsOK
  <2>5. \A p \in Int : \A f : There(logs, p, f) => There(logs', p, f)
    BY <1>0, <2>2, <2>3, ThereGrows
  <2>6. LogFields(rp', rp) /\ (rp'.cleaned \/ ~rp.cleaned)
    BY <2>2 DEF LogFields
  <2>. QED BY <1>1, <2>4, <2>5, <2>6, ReportsCarried
<1>. QED BY <1>2, <1>3 DEF Elsewhere

\* The handler: a page of the logs that pass.
LEMMA ListedLogs ==
  ASSUME CallsOK, ReportsListInv, page' = page, rp' = rp, NEW n \in Slot, ListLogs(n)
  PROVE  ReportsListInv'
<1>1. PICK w, found, rows, pages : /\ w = calls[n].arg /\ found = Passing(w)
                                   /\ rows = SubSeq(found, (w.page - 1) * Limit + 1, MinOf(w.page * Limit, Len(found)))
                                   /\ pages = (Len(found) + Limit - 1) \div Limit
  OBVIOUS
<1>2. /\ Arriving(n, "logs") /\ Served(n, [rows |-> rows, pages |-> pages])
      /\ logs' = logs /\ sent' = sent
  BY <1>1, Zenon DEF ListLogs, reportsDb
<1>3. calls[n].kind = "logs" /\ calls[n] # NoCall
  BY <1>2, CallsKind DEF Arriving, NoCall, CallsOK
<1>4. /\ \A m \in Slot \ {n} : calls'[m] = calls[m]
      /\ \/ calls'[n] = NoCall
         \/ /\ calls'[n].kind = "logs" /\ calls'[n].arg = w
            /\ calls'[n].answer.rows = rows /\ calls'[n].answer.pages = pages
      /\ \A K : Mine(K)' = Mine(K)
  <2>1. PICK a : a = [rows |-> rows, pages |-> pages]
    OBVIOUS
  <2>2. a.rows = rows /\ a.pages = pages
    BY <2>1
  <2>3. Served(n, a)
    BY <1>2, <2>1
  <2>. QED BY <1>1, <1>3, <2>2, <2>3, ServedEffect DEF CallsOK
<1>5. w \in Filters /\ w.page \in Nat \ {0} /\ w.page \in Int
  BY <1>1, <1>3, FiltersPages DEF ReportsListInv, ReportsAsk
<1>6. PICK K : K = {l \in Log : Passes(l, w)}
  OBVIOUS
<1>7. found = Filtered(logs, K) /\ logs \in Seq(Log)
  BY <1>1, <1>6, Zenon DEF Passing, ReportsListInv, LogsOK
<1>8. found \in Seq(K) /\ Len(found) \in Nat
  <2>1. Log \intersect K = K
    BY <1>6
  <2>. QED BY <1>7, <2>1, FilteredProperties
<1>9. rows \in Seq(K) /\ (w.page # 1 /\ Inside(w.page, Len(found), Limit) => rows # <<>>)
  BY <1>1, <1>5, <1>8, FiltersPages, PageRows
<1>10. AllPass(rows, w)
  <2>1. \A i \in DOMAIN rows : rows[i] \in K
    BY <1>9, ElementOfSeq, LenProperties
  <2>. QED BY <1>6, <2>1 DEF AllPass, LogsIn
<1>11. pages \in Nat /\ There(logs, pages, w)
  <2>1. PICK t \in Nat : t = Len(found)
    BY <1>8
  <2>2. Limit \in Nat \ {0} /\ pages = (t + Limit - 1) \div Limit
    BY <1>1, <2>1, FiltersPages
  <2>3. pages \in Nat
    BY <2>2
  <2>4. Inside(pages, t, Limit)
    BY <2>2, <2>3, PagesInside
  <2>. QED BY <1>6, <1>7, <2>1, <2>3, <2>4 DEF There
<1>12. ReportsAsk'
  BY <1>3, <1>4, <1>5, <1>10, <1>11 DEF ReportsListInv, ReportsAsk, Filter, FilterOf, NoCall
<1>13. \A m \in Mine({"logs"}) : /\ m \in Slot /\ calls'[m].arg = calls[m].arg
                                 /\ m # n => calls'[m] = calls[m]
                                 /\ m = n => /\ calls'[n].arg = w
                                             /\ calls'[n].answer.rows = rows /\ calls'[n].answer.pages = pages
  <2>1. \A m \in Mine({"logs"})' : calls'[m].kind = "logs" /\ m \in Slot
    BY DEF Mine
  <2>2. \A m \in Mine({"logs"}) : calls'[m].kind = "logs" /\ m \in Slot
    BY <1>4, <2>1
  <2>3. NoCall.kind # "logs"
    BY DEF NoCall
  <2>. QED BY <1>1, <1>4, <2>2, <2>3
<1>14. Filter' = Filter
  BY DEF Filter, FilterOf
<1>15. ReportsList'
  BY <1>4, <1>13, <1>14 DEF ReportsListInv, ReportsList
<1>16. ReportsFull'
  <2>. SUFFICES ASSUME page = "reports", ~rp.cleaned
                PROVE  /\ There(logs, rp.pages, rp.of)
                       /\ \A m \in Mine({"logs"}) : calls'[m].served => There(logs, calls'[m].answer.pages, calls'[m].arg)
                       /\ rp.sure =>
                             /\ There(logs, rp.page, Filter)
                             /\ \A m \in Mine({"logs"}) : calls'[m].served /\ rp.page # 1 => calls'[m].answer.rows # <<>>
                             /\ Mine({"logs"}) = {} /\ ~rp.error /\ rp.page # 1 => rp.rows # <<>>
    BY <1>2, <1>4, <1>14 DEF ReportsFull
  <2>1. /\ There(logs, rp.pages, rp.of)
        /\ \A m \in Mine({"logs"}) : calls[m].served => There(logs, calls[m].answer.pages, calls[m].arg)
        /\ rp.sure =>
              /\ There(logs, rp.page, Filter)
              /\ \A m \in Mine({"logs"}) : calls[m].served /\ rp.page # 1 => calls[m].answer.rows # <<>>
              /\ Mine({"logs"}) = {} /\ ~rp.error /\ rp.page # 1 => rp.rows # <<>>
    BY DEF ReportsListInv, ReportsFull
  <2>2. ASSUME rp.sure, n \in Mine({"logs"}), rp.page # 1 PROVE rows # <<>>
    <3>1. w = Filter /\ w.page = rp.page
      BY <1>1, <2>2, FilterFields DEF ReportsListInv, ReportsList
    <3>2. Inside(w.page, Len(found), Limit)
      BY <1>6, <1>7, <2>1, <2>2, <3>1 DEF There
    <3>. QED BY <1>9, <2>2, <3>1, <3>2
  <2>. QED BY <1>11, <1>13, <2>1, <2>2
<1>17. LogsOK'
  BY <1>2 DEF ReportsListInv, LogsOK
<1>. QED BY <1>12, <1>15, <1>16, <1>17 DEF ReportsListInv

\* No handler changes the table, and only the listing answers a listing.
LEMMA ServerLogs ==
  ASSUME CallsOK, NEW n \in Slot, Server(n)
  PROVE  logs' = logs /\ sent' = sent /\ (ListLogs(n) \/ Fewer({"logs"}))
<1>. USE DEF Kind, PageCalls, UsersCalls, BucketsCalls, ReportsCalls
<1>1. ASSUME NEW k \in Kind \ {"logs"}, NEW a, Arriving(n, k), Served(n, a) PROVE Fewer({"logs"})
  <2>1. {"logs"} \in SUBSET Kind /\ k \notin {"logs"} /\ k \in Kind
    OBVIOUS
  <2>. QED BY <1>1, <2>1, ServedElsewhere
<1>2. ASSUME UsersServer(n) \/ BucketsServer(n) \/ ListLogBuckets(n) \/ AuthServer(n) PROVE Fewer({"logs"})
  <2>1. PICK k \in UsersCalls \union BucketsCalls \union {"logBuckets", "me", "login", "logout", "summary"} :
            \E a : Arriving(n, k) /\ Served(n, a)
    BY <1>2, Zenon DEF UsersServer, ListUsers, CreateUser, UpdateUser, DeleteUser, ToggleUser, GenerateToken,
                 BucketsServer, ListBuckets, ListAnalytics, CreateBucket, DeleteBucket, LifecycleServer, GetLifecycle,
                 UpdateLifecycle, DeleteLifecycle, VersionServer, ListObjectVersions, DeleteObject,
                 ListLogBuckets, AuthServer, Me, LoginServed, LogoutServed, Summary
  <2>2. k \in Kind \ {"logs"}
    OBVIOUS
  <2>. QED BY <1>1, <2>1, <2>2
<1>3. Vanish(n) => Fewer({"logs"})
  BY ForgetEffect DEF Vanish, Fewer, CallsOK, NoCall
<1>4. reportsDb' = reportsDb
  BY Zenon DEF Server, dbVars, reportsDb, ReportsServer, ListLogs, ListLogBuckets
<1>. QED BY <1>2, <1>3, <1>4 DEF Server, ReportsServer, reportsDb

LEMMA ReportsListNext ==
  ASSUME AppInv, ReportsListInv, [Next]_vars
  PROVE  ReportsListInv'
<1>1. CallsOK /\ ReportsInv
  BY DEF AppInv, PagesInv
<1>2. ASSUME NEW K, CallStep(K), "logs" \notin K, reportsVars' = reportsVars, page' # "reports" PROVE ReportsListInv'
  <2>1. Fewer({"logs"})
    BY <1>2 DEF CallStep, Fewer, NoCall
  <2>. QED BY <1>2, <2>1, ReportsElsewhere DEF reportsVars
<1>3. ASSUME Fewer({"logs"}), reportsVars' = reportsVars, page' = page, Mine({"logs"})' = Mine({"logs"})
      PROVE  ReportsListInv'
  <2>1. LogFields(rp', rp) /\ rp' = rp /\ logs' = logs /\ sent' = sent
    BY <1>3 DEF reportsVars, LogFields
  <2>2. LogsOK'
    BY <2>1 DEF ReportsListInv, LogsOK
  <2>. QED BY <1>3, <2>1, <2>2, ReportsCarried
<1>4. CASE OnUsers
  <2>1. reportsVars' = reportsVars /\ page' = page /\ page = "users"
    BY <1>4 DEF OnUsers, reportsVars, whoVars, Expires
  <2>2. CallStep(UsersCalls)
    BY <1>4, OnUsersCalls
  <2>. QED BY <1>2, <2>1, <2>2 DEF UsersCalls
<1>5. CASE OnBuckets
  <2>1. reportsVars' = reportsVars /\ page' = page /\ page = "buckets"
    BY <1>5 DEF OnBuckets, reportsVars, whoVars
  <2>2. CallStep(BucketsCalls)
    BY <1>1, <1>5, <2>1, BucketsStep DEF AppInv, PagesInv, BucketsGoal
  <2>. QED BY <1>2, <2>1, <2>2 DEF BucketsCalls
<1>6. CASE OnReports
  <2>1. page' = page
    BY <1>6 DEF OnReports, whoVars
  <2>. QED BY <1>1, <1>6, <2>1, ReportsUserList, ReportsAnswerList DEF OnReports
<1>7. CASE Elsewhere
  BY <1>1, <1>7, TableList
<1>8. CASE UNCHANGED vars
  <2>1. reportsVars' = reportsVars /\ calls' = calls /\ page' = page
    BY <1>8 DEF reportsVars, whoVars, vars, pageVars, dbVars
  <2>. QED BY <1>3, <2>1, QuietEffect DEF Fewer
<1>9. CASE Auth
  <2>1. dbVars' = dbVars /\ (Moved \/ Stayed)
    BY <1>9, AuthMoves
  <2>2. logs' = logs /\ sent' = sent
    BY <2>1 DEF dbVars
  <2>3. CASE Moved
    BY <2>2, <2>3, ReportsMoved
  <2>4. CASE Stayed
    <3>1. Calls /\ Calls'
      BY NextStep DEF AppInv, CallsOK
    <3>2. SameCalls(ReportsCalls) /\ page' = page /\ rp' = rp /\ {"logs"} \subseteq ReportsCalls
      BY <2>4 DEF Stayed, ReportsCalls
    <3>3. Fewer({"logs"}) /\ Mine({"logs"})' = Mine({"logs"})
      BY <3>1, <3>2, SameMine DEF SameCalls, Fewer
    <3>. QED BY <1>3, <2>2, <3>2, <3>3 DEF reportsVars
  <2>. QED BY <2>1, <2>3, <2>4
<1>10. ASSUME NEW n \in Slot, Server(n) PROVE ReportsListInv'
  <2>1. page' = page /\ rp' = rp /\ \A K : Mine(K)' = Mine(K)
    <3>1. ServerStep /\ pageVars' = pageVars /\ whoVars' = whoVars
      BY <1>1, <1>10, ServerIsStep
    <3>2. page' = page /\ rp' = rp
      BY <3>1 DEF pageVars, whoVars
    <3>. QED BY <1>1, <3>1, <3>2, ServerStepCalls
  <2>2. logs' = logs /\ sent' = sent /\ (ListLogs(n) \/ Fewer({"logs"}))
    BY <1>1, <1>10, ServerLogs
  <2>3. CASE ListLogs(n)
    BY <1>1, <2>1, <2>3, ListedLogs
  <2>4. CASE Fewer({"logs"})
    BY <1>3, <2>1, <2>2, <2>4 DEF reportsVars
  <2>. QED BY <2>2, <2>3, <2>4
<1>. QED BY <1>4, <1>5, <1>6, <1>7, <1>8, <1>9, <1>10 DEF Next

LEMMA ReportsListInit == Init => ReportsListInv
<1>. SUFFICES ASSUME Init PROVE ReportsListInv
  OBVIOUS
<1>1. rp = FreshReports /\ page # "reports" /\ sent = Logs /\ logs = [i \in 1 .. Logs |-> Feed[Logs + 1 - i]]
  BY DEF Init
<1>2. FilterOf(rp) = FirstFilter /\ rp.of = FirstFilter /\ AllPass(rp.rows, rp.of) /\ rp.pages = 1
  BY <1>1, FreshLogs
<1>3. \A n \in Slot : calls[n].kind # "logs"
  BY FirstCalls
<1>4. ReportsAsk
  BY <1>2, <1>3, FirstFilters DEF ReportsAsk, Filter
<1>5. LogsOK
  <2>1. Logs \in Nat /\ Len(Feed) \in Nat /\ Logs <= Len(Feed)
    BY AppAssumption, FiltersPages
  <2>2. \A i \in 1 .. Logs : Feed[Logs + 1 - i] \in Log
    <3>1. \A i \in 1 .. Logs : Logs + 1 - i \in 1 .. Len(Feed)
      BY <2>1
    <3>. QED BY <3>1, ReportsAssumption, ElementOfSeq
  <2>3. logs \in Seq(Log) /\ Len(logs) = Logs
    <3>1. logs \in [1 .. Logs -> Log]
      BY <1>1, <2>2
    <3>. QED BY <2>1, <3>1, SeqDef, LenProperties
  <2>. QED BY <1>1, <2>1, <2>3 DEF LogsOK
<1>. QED BY <1>1, <1>4, <1>5 DEF ReportsListInv, ReportsList, ReportsFull

LEMMA ReportsListed ==
  ASSUME ReportsListInv
  PROVE  /\ ReportsSettled => rp.of = Filter /\ \A l \in LogsIn(rp.rows) : Passes(l, Filter)
         /\ ReportsSettled /\ rp.rows = <<>> /\ ~rp.cleaned => rp.page = 1
BY DEF ReportsListInv, ReportsAsk, ReportsList, ReportsFull, ReportsSettled, AllPass

-----------------------------------------------------------------------------
(* The types of the rest: the buckets with what they hold, and what the user has done *)

\* The buckets there may ever be are those whose creation was asked for, and the first ones.
BucketsOK ==
    /\ buckets \subseteq Bucket /\ bp.tried \subseteq Bucket
    /\ objects \in [Bucket -> Seq(Stored)] /\ \A b \in Bucket : Len(objects[b]) <= MaxVersions

TypesInv == BucketsOK /\ acts \in 0 .. MaxActions

\* At most one click.
ActsStep == acts' = acts \/ Act

LEMMA ActsKept == TypesInv /\ ActsStep => acts' \in 0 .. MaxActions
<1>1. MaxActions \in Nat
  BY BrowserAssumption
<1>. QED BY <1>1 DEF TypesInv, ActsStep, Act

LEMMA UsersActs == OnUsers => ActsStep
<1>1. UsersUser => ActsStep
  BY Zenon DEF UsersUser, UsersPager, TypeSearch, SearchUsers, OpenForm, Choose, CancelForm, CloseDialog, CopyToken,
               SubmitForm, Confirm, UsersDo, ActsStep
<1>2. CopyTimer => ActsStep
  BY Zenon DEF CopyTimer, UsersThen, ActsStep
<1>3. ASSUME NEW n \in Slot, UsersAnswer(n) PROVE ActsStep
  BY <1>3, Zenon DEF UsersAnswer, FormSaved, Confirmed, TokenShown, UsersLoaded, UsersFails, FormFails, ConfirmFails,
                     UsersFail, UsersThen, ActsStep
<1>4. ASSUME NEW n \in Slot, Expires(n) PROVE UsersAnswer(n)
  BY <1>4 DEF Expires, UsersAnswer
<1>. QED BY <1>1, <1>2, <1>3, <1>4 DEF OnUsers

LEMMA ReportsActs == OnReports => ActsStep
<1>1. \A ui : LogsAsked(ui) => ActsStep
  BY Zenon DEF LogsAsked, RpDo, ActsStep
<1>2. ReportsUser => ActsStep
  BY <1>1, Zenon DEF ReportsUser, TypeTerm, PickBucket, PickStatus, ReportsPager, RetryLogs, ShowDetails, RpDo, ActsStep
<1>3. ASSUME NEW n \in Slot, ReportsAnswer(n) PROVE ActsStep
  BY <1>3, Zenon DEF ReportsAnswer, LogsLoaded, OptionsLoaded, ReportsFails, LogsFail, OptionsFail, RpThen, ActsStep
<1>. QED BY <1>2, <1>3 DEF OnReports

LEMMA BucketsActs == OnBuckets => ActsStep /\ buckets' = buckets /\ objects' = objects
<1>. DEFINE Goal == ActsStep /\ buckets' = buckets /\ objects' = objects
<1>1. ASSUME \/ RefreshBuckets \/ OpenCreate \/ CloseCreate \/ LeaveBucket \/ OpenVersions
             \/ \E b \in Bucket : SubmitBucket(b) \/ ClickDelete(b) \/ EnterBucket(b) \/ OpenLifecycle(b)
      PROVE  Goal
  BY <1>1, Zenon DEF RefreshBuckets, OpenCreate, CloseCreate, LeaveBucket, OpenVersions, SubmitBucket, ClickDelete,
                     EnterBucket, OpenLifecycle, BpDo, bucketsDb, ActsStep
<1>2. ASSUME LifecycleUser, buckets' = buckets, objects' = objects PROVE Goal
  BY <1>2, Zenon DEF LifecycleUser, Toggle, AddRule, SaveLifecycle, CloseLifecycle, RemoveRule, UpdateRule, LcEdit,
                     LcDo, ActsStep
<1>3. ASSUME VersionUser, buckets' = buckets PROVE Goal
  BY <1>3, Zenon DEF VersionUser, RetryVersions, CloseVersions, DeleteVersion, VmDo, ActsStep
<1>4. BucketsUser => Goal
  BY <1>1, <1>2, <1>3 DEF BucketsUser
<1>5. ASSUME NEW n \in Slot, BucketsAnswer(n) PROVE Goal
  <2>1. ASSUME \/ BucketsLoaded(n) \/ BucketsFail(n) \/ AnalyticsDone(n)
               \/ BucketCreated(n) \/ CreateFails(n) \/ BucketDeleted(n) \/ DeleteBucketFails(n)
        PROVE  Goal
    BY <2>1, Zenon DEF BucketsLoaded, BucketsFail, AnalyticsDone, BucketCreated, CreateFails, BucketDeleted, Reload,
                       DeleteBucketFails, BpThen, bucketsDb, ActsStep
  <2>2. ASSUME LifecycleAnswer(n), buckets' = buckets, objects' = objects PROVE Goal
    BY <2>2, Zenon DEF LifecycleAnswer, LifecycleLoaded, LifecycleSaved, LifecycleFailing, LifecycleFails, SaveFails,
                       LcThen, ActsStep
  <2>3. ASSUME VersionAnswer(n), buckets' = buckets PROVE Goal
    BY <2>3, Zenon DEF VersionAnswer, VersionDeletedOk, VersionsLoaded, VersionFails, VersionDeleteFails, VersionsFail,
                       VmThen, ActsStep
  <2>. QED BY <1>5, <2>1, <2>2, <2>3 DEF BucketsAnswer
<1>. QED BY <1>4, <1>5 DEF OnBuckets

LEMMA AuthActs == Auth => ActsStep
<1>1. ASSUME NEW n \in Slot,
             UserLoaded(n) \/ UserNotLoaded(n) \/ LoggedIn(n) \/ LoginFails(n) \/ LogoutDone(n) \/ SummaryDone(n)
      PROVE  ActsStep
  BY <1>1, Zenon DEF UserLoaded, UserNotLoaded, LoggedIn, LoginFails, LogoutDone, SummaryDone, ActsStep
<1>2. SubmitLogin \/ ClickLogout \/ ReloadPage \/ (\E p \in Protected : Navigate(p)) => ActsStep
  BY Zenon DEF SubmitLogin, ClickLogout, ReloadPage, Navigate, ActsStep
<1>. QED BY <1>1, <1>2 DEF Auth

\* The page asks for no creation but of a bucket that has a name.
LEMMA TriedNames ==
  ASSUME BucketsInv, bp.tried \subseteq Bucket, OnBuckets
  PROVE  bp'.tried \subseteq Bucket
<1>1. DOMAIN bp = BpFields
  BY DEF BucketsInv, BpInv
<1>2. ASSUME bp' = bp PROVE bp'.tried \subseteq Bucket
  BY <1>2
<1>3. ASSUME NEW ui, DOMAIN ui = BpFields, ui.tried = bp.tried, NEW w, bp' = BpLoading(ui) \/ bp' = BpSettled(ui, w)
      PROVE  bp'.tried \subseteq Bucket
  BY <1>3 DEF BpLoading, BpSettled, BpFields
<1>4. ASSUME BucketsUser PROVE bp'.tried \subseteq Bucket
  <2>1. CASE RefreshBuckets
    BY <1>1, <1>3, <2>1 DEF RefreshBuckets, BpDo
  <2>2. CASE OpenCreate \/ CloseCreate \/ LeaveBucket \/ \E b \in Bucket : EnterBucket(b)
    <3>1. \E f : bp' = [bp EXCEPT !.form = f] \/ bp' = [bp EXCEPT !.inside = f]
      BY <2>2 DEF OpenCreate, CloseCreate, LeaveBucket, EnterBucket, BpDo
    <3>. QED BY <1>1, <3>1 DEF BpFields
  <2>3. ASSUME NEW b \in Bucket, SubmitBucket(b) PROVE bp'.tried \subseteq Bucket
    <3>1. bp' = [bp EXCEPT !.creating = TRUE, !.tried = @ \union {b}]
      BY <2>3 DEF SubmitBucket, BpDo
    <3>. QED BY <1>1, <3>1 DEF BpFields
  <2>4. CASE OpenVersions \/ \E b \in Bucket : ClickDelete(b) \/ OpenLifecycle(b)
    BY <1>2, <2>4, Zenon DEF OpenVersions, ClickDelete, OpenLifecycle, BpDo
  <2>. QED BY <1>2, <1>4, <2>1, <2>2, <2>3, <2>4 DEF BucketsUser
<1>5. ASSUME NEW n \in Slot, BucketsAnswer(n) PROVE bp'.tried \subseteq Bucket
  <2>1. CASE BucketsLoaded(n) \/ BucketCreated(n) \/ CreateFails(n)
    <3>1. \/ bp' = [bp EXCEPT !.grid = calls[n].answer]
          \/ bp' = [bp EXCEPT !.form = FALSE, !.creating = FALSE, !.created = @ \union {calls[n].arg}]
          \/ bp' = [bp EXCEPT !.creating = FALSE]
      BY <2>1 DEF BucketsLoaded, BucketCreated, CreateFails, BpThen
    <3>. QED BY <1>1, <3>1 DEF BpFields
  <2>2. CASE BucketsFail(n)
    <3>1. PICK ui : ui = [bp EXCEPT !.error = TRUE]
      OBVIOUS
    <3>2. DOMAIN ui = BpFields /\ ui.tried = bp.tried
      BY <1>1, <3>1 DEF BpFields
    <3>. QED BY <1>3, <2>2, <3>1, <3>2 DEF BucketsFail, BpThen
  <2>3. CASE AnalyticsDone(n)
    BY <1>1, <1>3, <2>3 DEF AnalyticsDone, BpThen
  <2>4. CASE BucketDeleted(n)
    <3>1. PICK ui : ui = [bp EXCEPT !.created = @ \ {calls[n].arg}]
      OBVIOUS
    <3>2. DOMAIN ui = BpFields /\ ui.tried = bp.tried
      BY <1>1, <3>1 DEF BpFields
    <3>. QED BY <1>3, <2>4, <3>1, <3>2 DEF BucketDeleted, Reload, BpThen
  <2>5. CASE DeleteBucketFails(n)
    BY <1>2, <2>5 DEF DeleteBucketFails, BpThen
  <2>. QED BY <1>2, <1>5, <2>1, <2>2, <2>3, <2>4, <2>5 DEF BucketsAnswer
<1>. QED BY <1>4, <1>5 DEF OnBuckets

\* A deletion puts a marker on top of the versions.
LEMMA MarkerOnTop ==
  ASSUME NEW history \in Seq(Stored), Len(history) < MaxVersions
  PROVE  LET more == <<[id |-> Len(history) + 1, marker |-> TRUE]>> \o history
         IN  more \in Seq(Stored) /\ Len(more) <= MaxVersions
<1>1. Len(history) \in Nat /\ MaxVersions \in Nat
  BY LenProperties, VersionAssumption
<1>2. PICK v : v = [id |-> Len(history) + 1, marker |-> TRUE]
  OBVIOUS
<1>3. v \in Stored
  BY <1>1, <1>2 DEF Stored, Version
<1>4. <<v>> \in Seq(Stored) /\ Len(<<v>>) = 1
  BY <1>3
<1>5. <<v>> \o history \in Seq(Stored) /\ Len(<<v>> \o history) = Len(history) + 1
  BY <1>4, ConcatProperties
<1>. QED BY <1>1, <1>2, <1>5

LEMMA ServerBuckets ==
  ASSUME CallsOK, GridInv, BucketsOK, bp' = bp, NEW n \in Slot, Server(n)
  PROVE  BucketsOK'
<1>1. ASSUME buckets' = buckets, objects' = objects PROVE BucketsOK'
  BY <1>1 DEF BucketsOK
<1>2. CASE BucketsServer(n)
  <2>1. CASE ListBuckets(n) \/ ListAnalytics(n) \/ (LifecycleServer(n) /\ UNCHANGED <<buckets, objects>>)
    BY <1>1, <2>1, Zenon DEF ListBuckets, ListAnalytics, bucketsDb
  <2>2. CASE CreateBucket(n)
    <3>1. calls[n].kind = "makeBucket" /\ buckets' = buckets \union {calls[n].arg} /\ objects' = objects
      BY <2>2 DEF CreateBucket, Arriving
    <3>. QED BY <3>1 DEF GridInv, BucketsOK
  <2>3. CASE DeleteBucket(n)
    <3>1. buckets' = buckets \ {calls[n].arg} /\ objects' = objects
      BY <2>3 DEF DeleteBucket
    <3>. QED BY <3>1 DEF BucketsOK
  <2>4. CASE VersionServer(n) /\ UNCHANGED <<buckets, config>>
    <3>1. CASE ListObjectVersions(n)
      BY <1>1, <2>4, <3>1 DEF ListObjectVersions
    <3>2. CASE DeleteObject(n)
      <4>1. PICK b : b = calls[n].arg.bucket
        OBVIOUS
      <4>2. PICK more : more = <<[id |-> Len(objects[b]) + 1, marker |-> TRUE]>> \o objects[b]
        OBVIOUS
      <4>3. Len(objects[b]) < MaxVersions /\ objects' = [objects EXCEPT ![b] = more] /\ buckets' = buckets
        BY <2>4, <3>2, <4>1, <4>2, Zenon DEF DeleteObject
      <4>4. b \in Bucket => more \in Seq(Stored) /\ Len(more) <= MaxVersions
        BY <4>2, <4>3, MarkerOnTop DEF BucketsOK
      <4>. QED BY <4>3, <4>4 DEF BucketsOK
    <3>. QED BY <2>4, <3>1, <3>2 DEF VersionServer
  <2>. QED BY <1>2, <2>1, <2>2, <2>3, <2>4 DEF BucketsServer
<1>3. CASE UNCHANGED <<buckets, objects>>
  BY <1>1, <1>3
<1>. QED BY <1>2, <1>3, ServerParts

LEMMA TypesNext ==
  ASSUME AppInv, GridInv, TypesInv, [Next]_vars
  PROVE  TypesInv'
<1>1. CallsOK /\ BucketsInv /\ BucketsOK
  BY DEF AppInv, PagesInv, TypesInv
<1>2. ASSUME buckets' = buckets, objects' = objects, bp'.tried \subseteq Bucket, ActsStep PROVE TypesInv'
  BY <1>1, <1>2, ActsKept DEF BucketsOK, TypesInv
<1>3. bp' = bp => bp'.tried \subseteq Bucket
  BY <1>1 DEF BucketsOK
<1>4. CASE OnUsers
  BY <1>2, <1>3, <1>4, UsersActs DEF OnUsers, bucketsVars
<1>5. CASE OnBuckets
  BY <1>1, <1>2, <1>5, BucketsActs, TriedNames DEF BucketsOK
<1>6. CASE OnReports
  BY <1>2, <1>3, <1>6, ReportsActs DEF OnReports, bucketsVars
<1>7. CASE Elsewhere \/ UNCHANGED vars
  BY <1>2, <1>3, <1>7 DEF Elsewhere, bucketsVars, vars, pageVars, dbVars, ActsStep
<1>8. CASE Auth
  <2>1. dbVars' = dbVars /\ (Moved \/ Stayed) /\ ActsStep
    BY <1>8, AuthMoves, AuthActs
  <2>2. bp'.tried = bp.tried
    BY <2>1 DEF Moved, Stayed, FreshBuckets
  <2>. QED BY <1>1, <1>2, <2>1, <2>2 DEF dbVars, BucketsOK
<1>9. ASSUME NEW n \in Slot, Server(n) PROVE TypesInv'
  <2>1. bp' = bp /\ acts' = acts
    BY <1>9 DEF Server, pageVars
  <2>2. BucketsOK'
    BY <1>1, <1>9, <2>1, ServerBuckets
  <2>. QED BY <2>1, <2>2 DEF TypesInv
<1>. QED BY <1>4, <1>5, <1>6, <1>7, <1>8, <1>9 DEF Next

LEMMA TypesInit == Init => TypesInv
<1>. SUFFICES ASSUME Init PROVE TypesInv
  OBVIOUS
<1>1. /\ acts = 0 /\ bp = FreshBuckets /\ buckets = DOMAIN Contents
      /\ objects = [b \in Bucket |-> IF b \in buckets THEN Contents[b] ELSE <<>>]
  BY DEF Init
<1>2. \A b \in Bucket : b \in buckets => Contents[b] \in Seq(Stored) /\ Len(Contents[b]) <= MaxVersions
  BY <1>1, AppAssumption
<1>3. <<>> \in Seq(Stored) /\ Len(<<>>) <= MaxVersions
  BY VersionAssumption, EmptySeq
<1>4. bp.tried = {} /\ buckets \subseteq Bucket /\ acts \in 0 .. MaxActions
  BY <1>1, AppAssumption, BrowserAssumption DEF FreshBuckets
<1>. QED BY <1>1, <1>2, <1>3, <1>4 DEF TypesInv, BucketsOK

\* The whole frontend stays within its types, and the pagers on pages there may be
\* (Users.tsx:145, Reports.tsx:170-191).
THEOREM TypesHold == Spec => []AppTypeOK
<1>. DEFINE All == AppInv /\ SaveInv /\ RulesInv /\ GridInv /\ UsersListInv /\ ReportsListInv /\ TypesInv
<1>1. Init => All
  BY InitStep, SaveInit, RulesInit, GridInit, UsersListInit, ReportsListInit, TypesInit
<1>2. All /\ [Next]_vars => All'
  BY NextStep, SaveNext, RulesNext, GridNext, UsersListNext, ReportsListNext, TypesNext
<1>3. All => AppTypeOK
  <2>. SUFFICES ASSUME All PROVE AppTypeOK
    OBVIOUS
  <2>1. page \in Path \union {"spinner"} /\ {user, tokens} \subseteq Role \union {"nobody"}
    BY DEF AppInv, SessionInv
  <2>2. accounts \in Seq(Account) /\ made \in 0 .. MaxMade
    BY DEF SaveInv, RowsOK
  <2>3. \A b \in Bucket : config[b] \in Seq(Rule)
    BY DEF RulesInv
  <2>4. usersUi.page \in 1 .. MaxMade + 1
    BY DEF UsersListInv, UsersAsk
  <2>5. rp.page \in {1} \union 1 .. Len(Feed)
    BY FilterFields DEF ReportsListInv, ReportsAsk, Filters
  <2>6. logs \in Seq(Log) /\ Len(logs) <= sent /\ sent <= Len(Feed)
    BY FiltersPages DEF ReportsListInv, LogsOK
  <2>. QED BY <2>1, <2>2, <2>3, <2>4, <2>5, <2>6 DEF AppTypeOK, TypesInv, BucketsOK
<1>. HIDE DEF All
<1>. QED BY <1>1, <1>2, <1>3, PTL DEF Spec

LEMMA ListsInvariant == Spec => [](UsersListInv /\ ReportsListInv)
<1>. DEFINE All == AppInv /\ SaveInv /\ UsersListInv /\ ReportsListInv
<1>1. Init => All
  BY InitStep, SaveInit, UsersListInit, ReportsListInit
<1>2. All /\ [Next]_vars => All'
  BY NextStep, SaveNext, UsersListNext, ReportsListNext
<1>3. All => UsersListInv /\ ReportsListInv
  OBVIOUS
<1>. HIDE DEF All
<1>. QED BY <1>1, <1>2, <1>3, PTL DEF Spec

\* What a list shows is of the page and the filter of its controls (Users.tsx:55,
\* Reports.tsx:58-95), once the last listing was alone and has not failed.
THEOREM ListsAreOfTheirPage == Spec => []ListsBelong
<1>1. UsersListInv /\ ReportsListInv => ListsBelong
  BY UsersListed, ReportsListed DEF ListsBelong
<1>. QED BY <1>1, ListsInvariant, PTL

\* No pager leads behind the last page (Users.tsx:145, Reports.tsx:170-191) as long as nothing is
\* taken away from the list.
THEOREM NobodyStranded == Spec => []NotStranded
<1>1. UsersListInv /\ ReportsListInv => NotStranded
  BY UsersListed, ReportsListed DEF NotStranded
<1>. QED BY <1>1, ListsInvariant, PTL
=============================================================================
