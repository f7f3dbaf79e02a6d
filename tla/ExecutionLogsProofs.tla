------------------------ MODULE ExecutionLogsProofs ------------------------
(***************************************************************************)
(* Theorems about ExecutionLogs, for any buckets, requests, retention and  *)
(* page size, and however many logs are sent.                              *)
(***************************************************************************)
EXTENDS ExecutionLogs, FiniteSetTheorems, WellFoundedInduction, TLAPS

-----------------------------------------------------------------------------
(* Pages *)

\* There are no more pages than rows, and together they hold every row.
LEMMA Pages ==
    ASSUME NEW t \in Nat
    PROVE  /\ TotalPages(t) \in 0 .. t
           /\ \A p \in Nat : p >= TotalPages(t) => p * Limit >= t
<1>. DEFINE q == TotalPages(t)
<1>1. Limit \in Nat /\ Limit >= 1
  BY LimitAssumption
<1>2. q \in Nat /\ Limit * q <= t + Limit - 1 /\ t + Limit - 1 < Limit * q + Limit
  BY <1>1 DEF TotalPages
<1>. HIDE DEF q
<1>3. ASSUME q > t PROVE FALSE
  <2>1. PICK k \in Nat : q = t + 1 + k
    BY <1>2, <1>3
  <2>2. Limit * q = Limit * t + Limit + Limit * k
    BY <1>1, <2>1
  <2>3. Limit * k >= 0 /\ Limit * t >= t
    BY <1>1, <2>1
  <2>. QED BY <1>1, <1>2, <2>2, <2>3
<1>4. ASSUME NEW p \in Nat, p >= q PROVE p * Limit >= t
  <2>1. PICK k \in Nat : p = q + k
    BY <1>2, <1>4
  <2>2. p * Limit = Limit * q + Limit * k /\ Limit * k >= 0
    BY <1>1, <1>2, <2>1
  <2>. QED BY <1>1, <1>2, <2>2
<1>5. q \in 0 .. t
  BY <1>2, <1>3
<1>. QED BY <1>4, <1>5 DEF q

\* One of the rows is the newest.
LEMMA Newest ==
    ASSUME NEW S \in SUBSET Log, S # {}
    PROVE  \E u \in S : \A l \in S : l.id <= u.id
<1>. DEFINE T == {MaxLogs - l.id : l \in S}
<1>1. \A l \in S : l.id \in 1 .. MaxLogs
  BY DEF Log
<1>2. T \subseteq Nat /\ T # {}
  BY <1>1, BoundAssumption
<1>3. PICK x \in T : \A y \in T : ~(<<y, x>> \in OpToRel(<, Nat))
  BY <1>2, WFMin, NatLessThanWellFounded
<1>4. \A y \in T : ~(y < x)
  BY <1>2, <1>3 DEF OpToRel
<1>5. PICK u \in S : x = MaxLogs - u.id
  OBVIOUS
<1>6. \A l \in S : ~(MaxLogs - l.id < MaxLogs - u.id)
  BY <1>4, <1>5
<1>. QED BY <1>1, <1>6, BoundAssumption

-----------------------------------------------------------------------------
(* Types *)

Views == [pc : {"idle", "count", "data", "shown"}, filter : Bucket \union {NoBucket},
          page : 1 .. MaxLogs + 1, total : 0 .. MaxLogs]

\* The rows are finitely many, and no more than were sent.
RowsInv == IsFiniteSet(logs) /\ Cardinality(logs) <= sent
TypeInv == TypeOK /\ RowsInv

LEMMA SomeRows ==
    ASSUME TypeInv, NEW rows \in SUBSET logs
    PROVE  IsFiniteSet(rows) /\ Cardinality(rows) \in 0 .. sent /\ Cardinality(rows) \in 0 .. MaxLogs
<1>1. IsFiniteSet(rows) /\ Cardinality(rows) <= Cardinality(logs)
  BY FS_Subset DEF TypeInv, RowsInv
<1>2. Cardinality(rows) \in Nat /\ Cardinality(logs) \in Nat
  BY <1>1, FS_CardinalityType DEF TypeInv, RowsInv
<1>. QED BY <1>1, <1>2, BoundAssumption DEF TypeInv, RowsInv, TypeOK

LEMMA TypeInit == Init => TypeInv
<1>. SUFFICES ASSUME Init PROVE TypeInv
  OBVIOUS
<1>1. RowsInv
  BY FS_EmptySet DEF Init, RowsInv
<1>2. view \in Views
  BY BoundAssumption DEF Init, Closed, Views
<1>. QED BY <1>1, <1>2, BoundAssumption DEF Init, TypeInv, TypeOK, Views

\* Every log that is inserted is the newest and no older than any other.
LEMMA InsertTypes ==
    ASSUME TypeInv, NEW r \in Request, Insert(r)
    PROVE  TypeInv'
<1>1. PICK l : l = [id |-> sent + 1, bucket |-> pending[r], day |-> today]
  OBVIOUS
<1>2. /\ logs' = logs \union {l} /\ sent' = sent + 1 /\ sent' <= MaxLogs
      /\ slips' \in {slips, slips + 1}
      /\ UNCHANGED <<today, initial, ticker, stage, view, seen, whole>>
  <2>1. logs' = logs \union {l}
    BY <1>1, Zenon DEF Insert
  <2>2. sent < MaxLogs /\ sent' = sent + 1 /\ UNCHANGED <<today, cleanVars, viewVars>>
    BY Zenon DEF Insert
  <2>3. slips' = slips + IF view.pc = "data" /\ Matches(l, view.filter) THEN 1 ELSE 0
    BY <1>1, Zenon DEF Insert
  <2>. QED BY <2>1, <2>2, <2>3, BoundAssumption DEF TypeInv, TypeOK, cleanVars, viewVars
<1>3. l \in Log /\ l.id = sent + 1 /\ l.day = today
  <2>1. pending[r] \in Bucket /\ sent < MaxLogs
    BY Zenon DEF Insert, TypeInv, TypeOK
  <2>2. sent + 1 \in 1 .. MaxLogs /\ today \in 0 .. MaxDay
    BY <2>1, BoundAssumption DEF TypeInv, TypeOK
  <2>. QED BY <1>1, <2>1, <2>2 DEF Log
<1>4. l \notin logs
  BY <1>3 DEF TypeInv, TypeOK
<1>5. RowsInv'
  <2>1. IsFiniteSet(logs) /\ Cardinality(logs) \in Nat /\ Cardinality(logs) <= sent
    BY FS_CardinalityType DEF TypeInv, RowsInv
  <2>2. IsFiniteSet(logs') /\ Cardinality(logs') = Cardinality(logs) + 1
    BY <1>2, <1>4, <2>1, FS_AddElement
  <2>. QED BY <1>2, <2>1, <2>2 DEF RowsInv, TypeInv, TypeOK
<1>6. sent \in Nat /\ \A m \in logs : m.id <= sent /\ m.id \in Nat /\ m.day <= today /\ m.day \in Nat
  BY DEF TypeInv, TypeOK, Log
<1>7. \A k, m \in logs' : (k.id = m.id => k = m) /\ (k.id < m.id => k.day <= m.day)
  <2>1. \A k, m \in logs : (k.id = m.id => k = m) /\ (k.id < m.id => k.day <= m.day)
    BY DEF TypeInv, TypeOK
  <2>2. today \in Nat
    BY DEF TypeInv, TypeOK
  <2>. QED BY <1>2, <1>3, <1>6, <2>1, <2>2
<1>8. \A m \in logs' : m.id <= sent' /\ m.day <= today'
  BY <1>2, <1>3, <1>6 DEF TypeInv, TypeOK
<1>9. pending' \in [Request -> Bucket \union {NoBucket}]
  BY DEF Insert, TypeInv, TypeOK
<1>10. logs' \subseteq Log /\ whole' \subseteq logs' /\ slips' \in 0 .. sent' /\ sent' \in 0 .. MaxLogs
  BY <1>2, <1>3 DEF TypeInv, TypeOK
<1>. QED BY <1>2, <1>5, <1>7, <1>8, <1>9, <1>10 DEF TypeInv, TypeOK

\* A clean-up takes some of the rows, or none.
Cleaning == DeleteOlderThan \/ CleanFails

LEMMA CleanTypes ==
    ASSUME TypeInv, Cleaning, CleanFrame,
           initial' \in {"delete", "over"}, ticker' \in {"select", "delete", "exited"}, stage' = stage
    PROVE  TypeInv'
<1>1. logs' \subseteq logs /\ whole' \subseteq logs'
  BY DEF Cleaning, DeleteOlderThan, CleanFails, TypeInv, TypeOK
<1>2. UNCHANGED <<sent, today, pending, view, seen, slips>>
  BY DEF CleanFrame
<1>3. RowsInv'
  BY <1>1, <1>2, SomeRows DEF RowsInv
<1>. QED BY <1>1, <1>2, <1>3 DEF TypeInv, TypeOK

\* Steps that leave the table and the page alone.
LEMMA OtherTypes ==
    ASSUME TypeInv, UNCHANGED <<logs, sent, view, seen, whole, slips>>, today' \in {today, today + 1},
           today' <= MaxDay,
           pending' \in [Request -> Bucket \union {NoBucket}],
           initial' \in {"delete", "over"}, ticker' \in {"select", "delete", "exited"},
           stage' \in {"up", "cancelled", "waited", "closed"}
    PROVE  TypeInv'
<1>1. RowsInv'
  BY DEF TypeInv, RowsInv
<1>2. today' \in 0 .. MaxDay /\ \A l \in logs : l.day <= today'
  BY DEF TypeInv, TypeOK, Log
<1>. QED BY <1>1, <1>2 DEF TypeInv, TypeOK

\* Steps of the report page.
LEMMA ViewTypes ==
    ASSUME TypeInv, ViewStep, view' \in Views, seen' \subseteq Log, whole' \subseteq logs, slips' \in 0 .. sent
    PROVE  TypeInv'
<1>1. UNCHANGED <<logs, sent, today, pending, initial, ticker, stage>>
  BY DEF ViewStep, tableVars, cleanVars
<1>2. RowsInv'
  BY <1>1 DEF TypeInv, RowsInv
<1>. QED BY <1>1, <1>2 DEF TypeInv, TypeOK, Views

\* What the steps of the report page do to it.
Leaf == Count \/ Data \/ NextPage \/ PreviousPage

LEMMA LeafTypes == ASSUME TypeInv, Leaf PROVE TypeInv'
<1>1. ViewStep /\ UNCHANGED <<whole, slips>>
  BY DEF Leaf, Count, Data, NextPage, PreviousPage
<1>2. view \in Views /\ seen \subseteq Log /\ whole \subseteq logs /\ slips \in 0 .. sent /\ MaxLogs \in Nat
  BY BoundAssumption DEF TypeInv, TypeOK, Views
<1>3. seen' \subseteq Log
  BY <1>2 DEF Leaf, Count, Data, NextPage, PreviousPage, PageOf, Filtered, TypeInv, TypeOK
<1>4. view' \in Views
  <2>1. CASE Count
    <3>1. Cardinality(Filtered(view.filter)) \in 0 .. MaxLogs
      BY SomeRows DEF Filtered
    <3>. QED BY <1>2, <2>1, <3>1 DEF Count, Views
  <2>2. CASE Data
    BY <1>2, <2>2 DEF Data, Views
  <2>3. CASE NextPage
    <3>1. view.total \in Nat /\ view.total <= MaxLogs /\ view.page \in Nat
      BY <1>2 DEF Views
    <3>2. TotalPages(view.total) \in 0 .. view.total
      BY <3>1, Pages
    <3>3. view.page + 1 \in 1 .. MaxLogs + 1
      BY <1>2, <2>3, <3>1, <3>2 DEF NextPage, HasNext
    <3>. QED BY <1>2, <2>3, <3>3 DEF NextPage, Views
  <2>4. CASE PreviousPage
    <3>1. view.page - 1 \in 1 .. MaxLogs + 1
      BY <1>2, <2>4 DEF PreviousPage, Views
    <3>. QED BY <1>2, <2>4, <3>1 DEF PreviousPage, Views
  <2>. QED BY <2>1, <2>2, <2>3, <2>4 DEF Leaf
<1>. QED BY <1>1, <1>2, <1>3, <1>4, ViewTypes

LEMMA TypeStep == TypeInv /\ [Next]_vars => TypeInv'
<1>. SUFFICES ASSUME TypeInv, [Next]_vars PROVE TypeInv'
  OBVIOUS
<1>0. /\ today \in 0 .. MaxDay /\ pending \in [Request -> Bucket \union {NoBucket}]
      /\ initial \in {"delete", "over"} /\ ticker \in {"select", "delete", "exited"}
      /\ stage \in {"up", "cancelled", "waited", "closed"} /\ sent \in 0 .. MaxLogs
      /\ view \in Views /\ seen \subseteq Log /\ whole \subseteq logs /\ slips \in 0 .. sent
  BY DEF TypeInv, TypeOK, Views
<1>1. ASSUME NEW r \in Request, Insert(r) PROVE TypeInv'
  BY <1>1, InsertTypes
<1>2. ASSUME NEW r \in Request, InsertFails(r) \/ \E b \in Bucket : Verify(r, b) PROVE TypeInv'
  <2>1. pending' \in [Request -> Bucket \union {NoBucket}]
    BY <1>0, <1>2 DEF InsertFails, Verify
  <2>2. UNCHANGED <<tableVars, cleanVars, viewVars, slips>>
    BY <1>2 DEF InsertFails, Verify
  <2>. QED BY <1>0, <2>1, <2>2, OtherTypes DEF tableVars, cleanVars, viewVars
<1>3. CASE NextDay
  <2>1. today' = today + 1 /\ today' <= MaxDay
    BY <1>0, <1>3, BoundAssumption DEF NextDay
  <2>. QED BY <1>0, <1>3, <2>1, OtherTypes DEF NextDay, cleanVars, viewVars
<1>4. CASE InitialRun \/ Tick \/ TickDeletes \/ TickFails \/ TickerExits
  <2>1. Cleaning /\ CleanFrame /\ stage' = stage
    BY <1>4 DEF InitialRun, Tick, TickDeletes, TickFails, TickerExits, Clean, CleanFails, Cleaning
  <2>2. initial' \in {"delete", "over"} /\ ticker' \in {"select", "delete", "exited"}
    BY <1>0, <1>4 DEF InitialRun, Tick, TickDeletes, TickFails, TickerExits
  <2>. QED BY <2>1, <2>2, CleanTypes
<1>5. CASE Cancel \/ StopReturns \/ CloseDB
  <2>1. stage' \in {"up", "cancelled", "waited", "closed"}
        /\ UNCHANGED <<tableVars, pending, initial, ticker, viewVars, slips>>
    BY <1>5 DEF Cancel, StopReturns, CloseDB, Stopping
  <2>. QED BY <1>0, <2>1, OtherTypes DEF tableVars, viewVars
<1>6. ASSUME NEW filter \in Bucket \union {NoBucket}, Open(filter) PROVE TypeInv'
  <2>1. [pc |-> "count", filter |-> filter, page |-> 1, total |-> 0] \in Views
    BY BoundAssumption DEF Views
  <2>2. view' \in Views
    BY <1>6, <2>1, Zenon DEF Open
  <2>3. ViewStep /\ seen' = {} /\ slips' = 0 /\ whole' \subseteq logs
    BY <1>6 DEF Open, Filtered
  <2>. QED BY <1>0, <2>2, <2>3, ViewTypes
<1>7. CASE Count \/ Data \/ NextPage \/ PreviousPage
  BY <1>7, LeafTypes DEF Leaf
<1>8. CASE LoadFails
  <2>1. Closed \in Views
    BY BoundAssumption DEF Closed, Views
  <2>2. ViewStep /\ view' \in Views /\ seen' = {} /\ slips' = 0 /\ whole' = {}
    BY <1>8, <2>1 DEF LoadFails
  <2>. QED BY <1>0, <2>2, ViewTypes
<1>9. CASE UNCHANGED vars
  BY <1>0, <1>9, OtherTypes DEF vars, tableVars, cleanVars, viewVars
<1>. QED BY <1>1, <1>2, <1>3, <1>4, <1>5, <1>6, <1>7, <1>8, <1>9 DEF Next

\* The order of the ids stays that of the days, and the page number stays within the
\* pages there are (Create, List, Reports).
THEOREM TypeCorrect == Spec => []TypeOK
<1>1. TypeInv => TypeOK
  BY DEF TypeInv
<1>. QED BY <1>1, TypeInit, TypeStep, PTL DEF Spec

-----------------------------------------------------------------------------
(* The clean-up and the shutdown *)

LEMMA CloseStep == ScheduledBeforeClose /\ [Next]_vars => ScheduledBeforeClose'
<1>. SUFFICES ASSUME ScheduledBeforeClose, [Next]_vars PROVE ScheduledBeforeClose'
  OBVIOUS
<1>1. ASSUME UNCHANGED <<stage, ticker>> PROVE ScheduledBeforeClose'
  BY <1>1 DEF ScheduledBeforeClose
<1>2. ASSUME NEW r \in Request, Insert(r) \/ InsertFails(r) \/ \E b \in Bucket : Verify(r, b)
      PROVE  UNCHANGED <<stage, ticker>>
  BY <1>2 DEF Insert, InsertFails, Verify, cleanVars
<1>3. ASSUME NextDay \/ InitialRun PROVE UNCHANGED <<stage, ticker>>
  BY <1>3 DEF NextDay, InitialRun, cleanVars
<1>4. CASE Tick \/ TickDeletes \/ TickFails \/ TickerExits
  BY <1>4 DEF Tick, TickDeletes, TickFails, TickerExits, ScheduledBeforeClose
<1>5. CASE Cancel \/ StopReturns \/ CloseDB
  BY <1>5 DEF Cancel, StopReturns, CloseDB, Stopping, WaitReturns, ScheduledBeforeClose
<1>6. ASSUME \/ \E filter \in Bucket \union {NoBucket} : Open(filter)
             \/ Count \/ Data \/ NextPage \/ PreviousPage \/ LoadFails
      PROVE  UNCHANGED <<stage, ticker>>
  BY <1>6 DEF Open, Count, Data, NextPage, PreviousPage, LoadFails, ViewStep, cleanVars
<1>7. ASSUME UNCHANGED vars PROVE UNCHANGED <<stage, ticker>>
  BY <1>7 DEF vars, cleanVars
<1>. QED BY <1>1, <1>2, <1>3, <1>4, <1>5, <1>6, <1>7 DEF Next

\* The database is closed only after the ticker's goroutine has returned, so that no
\* scheduled clean-up meets a closed one (Stop, main).
THEOREM CloseWaits == Spec => []ScheduledBeforeClose
<1>1. Init => ScheduledBeforeClose
  BY DEF Init, ScheduledBeforeClose
<1>. QED BY <1>1, CloseStep, PTL DEF Spec

-----------------------------------------------------------------------------
(* Leafing *)

\* The rows of the filter, and how many of them come before a row.
Shown == Filtered(view.filter)
Ahead(l) == Cardinality(NewerThan(Shown, l))

\* What the user has not yet seen of what was there all the time stands behind the
\* pages already shown.
BehindInv ==
    \A l \in whole \ seen :
        /\ l \in Shown
        /\ (view.pc = "shown" => Ahead(l) >= view.page * Limit)
        /\ (view.pc \in {"count", "data"} => Ahead(l) >= (view.page - 1) * Limit)

\* Since the COUNT of a page, no more rows have come than have slipped in.
CountInv == view.pc = "data" => Cardinality(Shown) <= view.total + slips

\* On the last page no more are missing than have slipped in.
LastInv == view.pc = "shown" /\ view.page * Limit >= view.total => Cardinality(whole \ seen) <= slips

\* Nothing is awaited of a page that is not open.
IdleInv == view.pc = "idle" => whole = {}

LeafInv == BehindInv /\ CountInv /\ LastInv /\ IdleInv

LEMMA LeafInit == Init => LeafInv
BY DEF Init, Closed, LeafInv, BehindInv, CountInv, LastInv, IdleInv

LEMMA LeafImplies == TypeInv /\ LeafInv => AllSeen
<1>. SUFFICES ASSUME TypeInv, LeafInv, view.pc = "shown", view.page >= TotalPages(view.total)
     PROVE  Cardinality(whole \ seen) <= slips
  BY DEF AllSeen
<1>1. view.page \in Nat /\ view.total \in Nat
  BY DEF TypeInv, TypeOK
<1>2. view.page * Limit >= view.total
  BY <1>1, Pages
<1>. QED BY <1>2 DEF LeafInv, LastInv

\* With more rows, as many as before stand ahead of each, or more.
LEMMA MoreAhead ==
    ASSUME NEW S, NEW T, IsFiniteSet(T), S \subseteq T, NEW l
    PROVE  /\ Cardinality(NewerThan(S, l)) \in Nat /\ Cardinality(NewerThan(T, l)) \in Nat
           /\ Cardinality(NewerThan(T, l)) >= Cardinality(NewerThan(S, l))
<1>1. NewerThan(T, l) \in SUBSET T /\ NewerThan(S, l) \in SUBSET NewerThan(T, l)
  BY DEF NewerThan
<1>2. IsFiniteSet(NewerThan(T, l))
  BY <1>1, FS_Subset
<1>3. IsFiniteSet(NewerThan(S, l)) /\ Cardinality(NewerThan(S, l)) <= Cardinality(NewerThan(T, l))
  BY <1>1, <1>2, FS_Subset
<1>. QED BY <1>2, <1>3, FS_CardinalityType

LEMMA LeafInsert ==
    ASSUME TypeInv, TypeInv', LeafInv, NEW r \in Request, Insert(r)
    PROVE  LeafInv'
<1>1. PICK l : l = [id |-> sent + 1, bucket |-> pending[r], day |-> today]
  OBVIOUS
<1>2. /\ logs' = logs \union {l} /\ UNCHANGED <<view, seen, whole>>
      /\ slips' = slips + IF view.pc = "data" /\ Matches(l, view.filter) THEN 1 ELSE 0
  BY <1>1, Zenon DEF Insert, viewVars
<1>3. Shown' = IF Matches(l, view.filter) THEN Shown \union {l} ELSE Shown
  BY <1>2 DEF Shown, Filtered
<1>4. Shown \subseteq logs /\ Shown' \subseteq logs' /\ Shown \subseteq Shown'
  BY <1>3 DEF Shown, Filtered
<1>5. IsFiniteSet(Shown) /\ IsFiniteSet(Shown')
  BY <1>4, FS_Subset DEF TypeInv, RowsInv
<1>6. view \in Views /\ slips \in Nat
  BY DEF TypeInv, TypeOK, Views
<1>7. ASSUME NEW k \in whole' \ seen'
      PROVE  /\ k \in Shown'
             /\ (view'.pc = "shown" => Ahead(k)' >= view'.page * Limit)
             /\ (view'.pc \in {"count", "data"} => Ahead(k)' >= (view'.page - 1) * Limit)
  <2>1. k \in whole \ seen /\ k \in Shown
    BY <1>2 DEF LeafInv, BehindInv
  <2>2. Ahead(k) \in Nat /\ Ahead(k)' \in Nat /\ Ahead(k)' >= Ahead(k)
    BY <1>4, <1>5, MoreAhead DEF Ahead
  <2>3. view.page * Limit \in Nat /\ (view.page - 1) * Limit \in Nat
    BY <1>6, LimitAssumption DEF Views
  <2>4. /\ (view.pc = "shown" => Ahead(k) >= view.page * Limit)
        /\ (view.pc \in {"count", "data"} => Ahead(k) >= (view.page - 1) * Limit)
    BY <2>1 DEF LeafInv, BehindInv
  <2>. QED BY <1>2, <1>4, <2>1, <2>2, <2>3, <2>4
<1>8. ASSUME view'.pc = "data" PROVE Cardinality(Shown') <= view'.total + slips'
  <2>1. Cardinality(Shown) <= view.total + slips /\ view.total \in Nat
    BY <1>2, <1>6, <1>8 DEF LeafInv, CountInv, Views
  <2>2. Cardinality(Shown) \in Nat
    BY <1>5, FS_CardinalityType
  <2>3. CASE Matches(l, view.filter)
    <3>1. Cardinality(Shown') <= Cardinality(Shown) + 1
      BY <1>3, <1>5, <2>2, <2>3, FS_AddElement
    <3>2. Cardinality(Shown') \in Nat
      BY <1>5, FS_CardinalityType
    <3>. QED BY <1>2, <1>6, <1>8, <2>1, <2>2, <2>3, <3>1, <3>2
  <2>4. CASE ~Matches(l, view.filter)
    BY <1>2, <1>3, <1>6, <2>1, <2>2, <2>4
  <2>. QED BY <2>3, <2>4
<1>9. LastInv'
  BY <1>2, <1>6 DEF LeafInv, LastInv
<1>10. IdleInv'
  BY <1>2 DEF LeafInv, IdleInv
<1>. QED BY <1>7, <1>8, <1>9, <1>10 DEF LeafInv, BehindInv, CountInv

\* What is ahead of a row that a clean-up leaves is newer, so the clean-up leaves it too.
LEMMA LeafClean ==
    ASSUME TypeInv, TypeInv', LeafInv, DeleteOlderThan, UNCHANGED <<view, seen, slips>>
    PROVE  LeafInv'
<1>1. logs' = {l \in logs : ~Old(l)} /\ whole' = whole \intersect logs'
  BY DEF DeleteOlderThan
<1>2. Shown' = Shown \intersect logs' /\ Shown \subseteq logs
  BY <1>1 DEF Shown, Filtered
<1>3. view \in Views /\ whole \subseteq logs
  BY DEF TypeInv, TypeOK, Views
<1>4. IsFiniteSet(Shown) /\ IsFiniteSet(Shown') /\ Cardinality(Shown') <= Cardinality(Shown)
  <2>1. IsFiniteSet(Shown)
    BY <1>2, FS_Subset DEF TypeInv, RowsInv
  <2>. QED BY <1>2, <2>1, FS_Subset
<1>5. ASSUME NEW l \in logs', NEW m \in logs, m.id > l.id PROVE m \in logs'
  <2>1. l \in Log /\ m \in Log /\ l \in logs
    BY <1>1, <1>5 DEF TypeInv, TypeOK
  <2>2. l.id < m.id
    BY <1>5, <2>1 DEF Log
  <2>3. l.day <= m.day
    BY <2>1, <2>2 DEF TypeInv, TypeOK
  <2>4. ~(today - l.day > Retention)
    BY <1>1 DEF Old
  <2>5. ~(today - m.day > Retention)
    BY <2>1, <2>3, <2>4, RetentionAssumption DEF TypeInv, TypeOK, Log
  <2>. QED BY <1>1, <2>5 DEF Old
<1>6. ASSUME NEW l \in whole' \ seen'
      PROVE  /\ l \in Shown'
             /\ (view'.pc = "shown" => Ahead(l)' >= view'.page * Limit)
             /\ (view'.pc \in {"count", "data"} => Ahead(l)' >= (view'.page - 1) * Limit)
  <2>1. l \in whole \ seen /\ l \in logs' /\ l \in Shown
    BY <1>1 DEF LeafInv, BehindInv
  <2>2. NewerThan(Shown, l)' = NewerThan(Shown, l)
    BY <1>2, <1>5, <2>1 DEF NewerThan
  <2>3. Ahead(l)' = Ahead(l)
    BY <2>2 DEF Ahead
  <2>. QED BY <1>2, <2>1, <2>3 DEF LeafInv, BehindInv
<1>7. CountInv'
  <2>1. Cardinality(Shown) \in Nat /\ Cardinality(Shown') \in Nat
    BY <1>4, FS_CardinalityType
  <2>. QED BY <1>3, <1>4, <2>1 DEF LeafInv, CountInv, Views, TypeInv, TypeOK
<1>8. LastInv'
  <2>1. IsFiniteSet(whole \ seen)
    BY <1>3, FS_Subset DEF TypeInv, RowsInv
  <2>2. whole' \ seen' \in SUBSET (whole \ seen)
    BY <1>1
  <2>3. IsFiniteSet(whole' \ seen') /\ Cardinality(whole' \ seen') <= Cardinality(whole \ seen)
    BY <2>1, <2>2, FS_Subset
  <2>4. Cardinality(whole \ seen) \in Nat /\ Cardinality(whole' \ seen') \in Nat
    BY <2>1, <2>3, FS_CardinalityType
  <2>. QED BY <2>3, <2>4 DEF LeafInv, LastInv, TypeInv, TypeOK
<1>9. IdleInv'
  BY <1>1 DEF LeafInv, IdleInv
<1>. QED BY <1>6, <1>7, <1>8, <1>9 DEF LeafInv, BehindInv

LEMMA LeafOpen ==
    ASSUME TypeInv, TypeInv', LeafInv, NEW filter \in Bucket \union {NoBucket}, Open(filter)
    PROVE  LeafInv'
<1>1. /\ view'.pc = "count" /\ view'.filter = filter /\ view'.page = 1
      /\ logs' = logs /\ seen' = {} /\ whole' = Filtered(filter)
  BY DEF Open, ViewStep, tableVars
<1>2. Shown' = Filtered(filter)
  BY <1>1 DEF Shown, Filtered
<1>3. ASSUME NEW l \in whole' PROVE Ahead(l)' >= (view'.page - 1) * Limit
  <2>1. Shown' \subseteq logs'
    BY DEF Shown, Filtered
  <2>2. IsFiniteSet(Shown')
    BY <2>1, FS_Subset DEF TypeInv, RowsInv
  <2>3. Ahead(l)' \in Nat
    BY <2>2, MoreAhead DEF Ahead
  <2>4. (1 - 1) * Limit = 0
    BY LimitAssumption
  <2>. QED BY <1>1, <2>3, <2>4
<1>. QED BY <1>1, <1>2, <1>3 DEF LeafInv, BehindInv, CountInv, LastInv, IdleInv

LEMMA LeafCount ==
    ASSUME TypeInv, LeafInv, Count
    PROVE  LeafInv'
<1>1. view \in Views /\ slips \in Nat
  BY DEF TypeInv, TypeOK, Views
<1>2. PICK n : n = Cardinality(Shown)
  OBVIOUS
<1>3. n \in 0 .. MaxLogs
  BY <1>2, SomeRows DEF Shown, Filtered
<1>4. view' = [view EXCEPT !.pc = "data", !.total = n]
  BY <1>2, Zenon DEF Count, Shown
<1>5. /\ view.pc = "count" /\ view'.pc = "data" /\ view'.total = n
      /\ view'.filter = view.filter /\ view'.page = view.page
  BY <1>1, <1>4, Zenon DEF Count, Views
<1>6. UNCHANGED <<logs, seen, whole, slips>>
  BY DEF Count, ViewStep, tableVars
<1>7. Shown' = Shown /\ \A l : Ahead(l)' = Ahead(l)
  BY <1>5, <1>6 DEF Shown, Filtered, Ahead, NewerThan
<1>8. BehindInv'
  BY <1>5, <1>6, <1>7 DEF LeafInv, BehindInv
<1>9. CountInv'
  BY <1>1, <1>2, <1>3, <1>5, <1>6, <1>7 DEF CountInv
<1>. QED BY <1>5, <1>8, <1>9 DEF LeafInv, LastInv, IdleInv

\* The page shown takes what stood next, and what is still missing after the last page
\* cannot be more than what has come since the COUNT.
LEMMA LeafData ==
    ASSUME TypeInv, TypeInv', LeafInv, Data
    PROVE  LeafInv'
<1>1. view \in Views /\ slips \in Nat /\ whole \subseteq Log
  BY DEF TypeInv, TypeOK, Views
<1>2. view' = [view EXCEPT !.pc = "shown"] /\ view.pc = "data"
  BY DEF Data
<1>3. view'.pc = "shown" /\ view'.total = view.total /\ view'.filter = view.filter /\ view'.page = view.page
  BY <1>1, <1>2 DEF Views
<1>4. UNCHANGED <<logs, whole, slips>> /\ seen' = seen \union PageOf(Shown, view.page)
  BY DEF Data, ViewStep, tableVars, Shown
<1>5. Shown' = Shown /\ \A l : Ahead(l)' = Ahead(l)
  BY <1>3, <1>4 DEF Shown, Filtered, Ahead, NewerThan
<1>6. IsFiniteSet(Shown) /\ Cardinality(Shown) \in Nat
  BY SomeRows DEF Shown, Filtered
<1>7. /\ view.page \in Nat /\ Limit \in Nat /\ (view.page - 1) * Limit \in Nat
      /\ (view.page - 1) * Limit + Limit = view.page * Limit
  BY <1>1, LimitAssumption DEF Views
<1>8. ASSUME NEW l \in whole' \ seen' PROVE l \in Shown /\ Ahead(l) \in Nat /\ Ahead(l) >= view.page * Limit
  <2>1. l \in whole \ seen /\ l \notin PageOf(Shown, view.page)
    BY <1>4
  <2>2. l \in Shown /\ Ahead(l) >= (view.page - 1) * Limit
    BY <1>2, <2>1 DEF LeafInv, BehindInv
  <2>3. Ahead(l) \notin (view.page - 1) * Limit .. (view.page - 1) * Limit + Limit - 1
    BY <2>1, <2>2 DEF PageOf, Ahead
  <2>4. Ahead(l) \in Nat
    BY <1>6, MoreAhead DEF Ahead
  <2>. QED BY <1>7, <2>2, <2>3, <2>4
<1>9. ASSUME view.page * Limit >= view.total PROVE Cardinality(whole' \ seen') <= slips
  <2>. DEFINE U == whole' \ seen'
  <2>1. U \subseteq Shown /\ IsFiniteSet(U) /\ Cardinality(U) \in Nat
    BY <1>6, <1>8, FS_Subset, FS_CardinalityType
  <2>2. CASE U = {}
    BY <1>1, <2>2, FS_EmptySet
  <2>3. CASE U # {}
    <3>1. U \in SUBSET Log
      BY <1>1, <1>4
    <3>2. PICK u \in U : \A l \in U : l.id <= u.id
      BY <2>3, <3>1, Newest
    <3>. DEFINE N == NewerThan(Shown, u)
    <3>3. N \subseteq Shown /\ N \intersect U = {}
      <4>1. \A l \in U : l.id \in Nat
        BY <3>1 DEF Log
      <4>. QED BY <3>2, <4>1 DEF NewerThan
    <3>4. IsFiniteSet(N) /\ Cardinality(N) \in Nat /\ Cardinality(N) >= view.page * Limit
      <4>1. IsFiniteSet(N)
        BY <1>6, <3>3, FS_Subset
      <4>. QED BY <1>8, <3>2, <4>1, FS_CardinalityType DEF Ahead
    <3>. HIDE DEF U, N
    <3>5. Cardinality(N \union U) = Cardinality(N) + Cardinality(U)
      <4>1. Cardinality(N \union U) = Cardinality(N) + Cardinality(U) - Cardinality(N \intersect U)
        BY <2>1, <3>4, FS_Union
      <4>2. Cardinality(N \intersect U) = 0
        BY <3>3, FS_EmptySet
      <4>. QED BY <2>1, <3>4, <4>1, <4>2
    <3>6. Cardinality(N \union U) <= Cardinality(Shown)
      BY <1>6, <2>1, <3>3, FS_Subset
    <3>7. Cardinality(Shown) <= view.total + slips
      BY <1>2 DEF LeafInv, CountInv
    <3>8. view.total \in Nat /\ view.page * Limit \in Nat
      BY <1>1, <1>7 DEF Views
    <3>9. Cardinality(U) <= slips
      BY <1>1, <1>6, <1>9, <2>1, <3>4, <3>5, <3>6, <3>7, <3>8
    <3>. QED BY <3>9 DEF U
  <2>. QED BY <2>2, <2>3
<1>10. BehindInv'
  BY <1>3, <1>5, <1>8 DEF BehindInv
<1>11. LastInv'
  BY <1>3, <1>4, <1>9 DEF LastInv
<1>. QED BY <1>3, <1>10, <1>11 DEF LeafInv, CountInv, IdleInv

LEMMA LeafTurn ==
    ASSUME TypeInv, LeafInv, NextPage \/ PreviousPage
    PROVE  LeafInv'
<1>1. view \in Views
  BY DEF TypeInv, TypeOK, Views
<1>2. PICK p : p = view.page
  OBVIOUS
<1>3. PICK q : /\ view' = [view EXCEPT !.pc = "count", !.page = q]
               /\ q = p + 1 \/ (p > 1 /\ q = p - 1)
  BY <1>2, Zenon DEF NextPage, PreviousPage
<1>4. view'.pc = "count" /\ view'.filter = view.filter /\ view'.page = q
  BY <1>1, <1>3, Zenon DEF Views
<1>5. view'.page = p + 1 \/ (p > 1 /\ view'.page = p - 1)
  BY <1>3, <1>4
<1>6. view.pc = "shown" /\ UNCHANGED <<logs, seen, whole, slips>>
  BY DEF NextPage, HasNext, PreviousPage, ViewStep, tableVars
<1>7. Shown' = Shown /\ \A l : Ahead(l)' = Ahead(l)
  BY <1>4, <1>6 DEF Shown, Filtered, Ahead, NewerThan
<1>8. (view'.page - 1) * Limit <= p * Limit
  <2>1. p \in Nat /\ Limit \in Nat
    BY <1>1, <1>2, LimitAssumption DEF Views
  <2>2. CASE view'.page = p + 1
    BY <2>1, <2>2
  <2>3. CASE p > 1 /\ view'.page = p - 1
    <3>1. (p - 2) * Limit = p * Limit - 2 * Limit
      BY <2>1
    <3>2. view'.page - 1 = p - 2
      BY <2>1, <2>3
    <3>. QED BY <2>1, <3>1, <3>2
  <2>. QED BY <1>5, <2>2, <2>3
<1>9. ASSUME NEW l \in whole' \ seen' PROVE l \in Shown' /\ Ahead(l)' >= (view'.page - 1) * Limit
  <2>1. l \in Shown /\ Ahead(l) >= p * Limit
    BY <1>2, <1>6 DEF LeafInv, BehindInv
  <2>2. Ahead(l) \in Nat
    <3>1. IsFiniteSet(Shown)
      BY SomeRows DEF Shown, Filtered
    <3>. QED BY <3>1, MoreAhead DEF Ahead
  <2>3. p \in Nat /\ Limit \in Nat /\ view'.page \in Int /\ (view'.page - 1) * Limit \in Int /\ p * Limit \in Int
    BY <1>1, <1>2, <1>5, LimitAssumption DEF Views
  <2>. QED BY <1>7, <1>8, <2>1, <2>2, <2>3
<1>. QED BY <1>4, <1>9 DEF LeafInv, BehindInv, CountInv, LastInv, IdleInv

LEMMA LeafStep == TypeInv /\ TypeInv' /\ LeafInv /\ [Next]_vars => LeafInv'
<1>. SUFFICES ASSUME TypeInv, TypeInv', LeafInv, [Next]_vars PROVE LeafInv'
  OBVIOUS
<1>1. ASSUME UNCHANGED <<logs, view, seen, whole, slips>> PROVE LeafInv'
  <2>1. Shown' = Shown /\ \A l : Ahead(l)' = Ahead(l)
    BY <1>1 DEF Shown, Filtered, Ahead, NewerThan
  <2>2. BehindInv'
    BY <1>1, <2>1 DEF LeafInv, BehindInv
  <2>3. CountInv' /\ LastInv' /\ IdleInv'
    BY <1>1, <2>1 DEF LeafInv, CountInv, LastInv, IdleInv
  <2>. QED BY <2>2, <2>3 DEF LeafInv
<1>2. ASSUME NEW r \in Request, InsertFails(r) \/ \E b \in Bucket : Verify(r, b) PROVE LeafInv'
  BY <1>1, <1>2 DEF InsertFails, Verify, tableVars, viewVars
<1>3. CASE NextDay \/ Cancel \/ StopReturns \/ CloseDB \/ UNCHANGED vars
  BY <1>1, <1>3 DEF NextDay, Cancel, StopReturns, CloseDB, Stopping, vars, tableVars, viewVars
<1>4. CASE InitialRun \/ Tick \/ TickDeletes \/ TickFails \/ TickerExits
  <2>1. UNCHANGED <<view, seen, slips>> /\ (DeleteOlderThan \/ UNCHANGED <<logs, whole>>)
    BY <1>4 DEF InitialRun, Tick, TickDeletes, TickFails, TickerExits, Clean, CleanFails, CleanFrame
  <2>. QED BY <1>1, <2>1, LeafClean
<1>5. CASE LoadFails
  BY <1>5 DEF LoadFails, Closed, LeafInv, BehindInv, CountInv, LastInv, IdleInv
<1>. QED BY <1>2, <1>3, <1>4, <1>5, LeafInsert, LeafOpen, LeafCount, LeafData, LeafTurn DEF Next

\* However logs arrive and are cleaned up while the user leafs, back and forth, on the
\* last page no log that was there throughout is missing, except for one for each that
\* came between the COUNT and the SELECT of a page (List).
THEOREM NothingSkipped == Spec => []AllSeen
<1>. QED BY TypeInit, TypeStep, LeafInit, LeafStep, LeafImplies, PTL DEF Spec
=============================================================================
