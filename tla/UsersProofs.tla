----------------------------- MODULE UsersProofs -----------------------------
(***************************************************************************)
(* Theorems about Users, for any sets of ids, addresses and requests.      *)
(***************************************************************************)
EXTENDS Users, TLAPS

Row == [email : Email, gender : Gender, avatar : Gender, active : BOOLEAN, deleted : BOOLEAN]

\* A request that works on no row holds no id, so the row another one inserts is not its.
TargetOK ==
    /\ DOMAIN target = Request /\ DOMAIN base = Request /\ DOMAIN asked = Request
    /\ \A r \in Request : pc[r] \in {"idle", "insert"} => target[r] = NoId

TypeInv == TypeOK /\ TargetOK

-----------------------------------------------------------------------------
(* The statements *)

\* A written row replaces what was there, and every other one stays.
LEMMA PutOne ==
    ASSUME NEW id, NEW columns, NEW active, NEW deleted, Put(id, columns, active, deleted)
    PROVE  /\ DOMAIN rows' = Used \union {id}
           /\ rows'[id] = [email |-> columns.email, gender |-> columns.gender,
                           avatar |-> columns.avatar, active |-> active, deleted |-> deleted]
           /\ \A i \in Used : i # id => rows'[i] = rows[i]
BY DEF Put, Used

\* The columns of an insert, and those of an update.
LEMMA MergedColumns ==
    ASSUME NEW u \in Update, NEW c, c \in Columns \/ (c = NoColumns /\ u \in Fields)
    PROVE  Merge(c, u) \in Columns
BY BlankAssumption DEF Merge, Columns, NoColumns, Fields, Update, Avatar

\* A statement for one row keeps the table's types when it gives the row columns of their
\* types and an email of its own.
LEMMA PutTypes ==
    ASSUME TypeInv, NEW id \in Id, NEW columns \in Columns,
           NEW active \in BOOLEAN, NEW deleted \in BOOLEAN,
           Put(id, columns, active, deleted),
           \A i \in Used : i # id => rows[i].email # columns.email
    PROVE  /\ DOMAIN rows' \subseteq Id
           /\ \A i \in DOMAIN rows' : rows'[i] \in Row
           /\ \A i, j \in DOMAIN rows' : i # j => rows'[i].email # rows'[j].email
<1>1. DOMAIN rows' = Used \union {id} /\ \A i \in Used : i # id => rows'[i] = rows[i]
  BY PutOne
<1>2. rows'[id] = [email |-> columns.email, gender |-> columns.gender,
                   avatar |-> columns.avatar, active |-> active, deleted |-> deleted]
  BY Zenon DEF Put
<1>3. rows'[id] \in Row /\ rows'[id].email = columns.email
  BY <1>2 DEF Row, Columns
<1>4. Used \subseteq Id /\ \A i \in Used : rows[i] \in Row
  BY DEF TypeInv, TypeOK, Row
<1>5. \A i, j \in Used : i # j => rows[i].email # rows[j].email
  BY DEF TypeInv, TypeOK
<1>. QED BY <1>1, <1>3, <1>4, <1>5

\* What a request holds fits the rows there are.
HeldOK(r, used) ==
    /\ pc[r] \in {"idle", "insert", "update", "toggle"}
    /\ pc[r] \in {"idle", "insert"} => target[r] = NoId
    /\ pc[r] \in {"update", "toggle"} => target[r] \in used
    /\ pc[r] = "update" => base[r] \in Columns /\ asked[r] \in Update
    /\ pc[r] = "insert" => asked[r] \in Fields

LEMMA HeldBefore == TypeInv => Used \subseteq Id /\ \A r \in Request : HeldOK(r, Used)
BY DEF TypeInv, TypeOK, TargetOK, HeldOK

\* A request that moves to a place with what belongs there, while no row goes away.
LEMMA MoveTypes ==
    ASSUME TypeInv, NEW r \in Request, NEW place, NEW id, NEW c, NEW u,
           Move(r, place, id, c, u), Used \subseteq DOMAIN rows', DOMAIN rows' \subseteq Id,
           \/ place = "idle" /\ id = NoId
           \/ place = "insert" /\ id = NoId /\ u \in Fields
           \/ place = "update" /\ id \in Used /\ c \in Columns /\ u \in Update
           \/ place = "toggle" /\ id \in Used
    PROVE  /\ pc' \in [Request -> {"idle", "insert", "update", "toggle"}] /\ TargetOK'
           /\ \A q \in Request :
                 /\ pc'[q] \in {"update", "toggle"} <=> target'[q] \in DOMAIN rows'
                 /\ pc'[q] = "update" => base'[q] \in Columns /\ asked'[q] \in Update
                 /\ pc'[q] = "insert" => asked'[q] \in Fields
<1>1. /\ DOMAIN target' = Request /\ DOMAIN base' = Request /\ DOMAIN asked' = Request
      /\ pc' \in [Request -> {"idle", "insert", "update", "toggle"}]
  BY DEF Move, TypeInv, TypeOK, TargetOK
<1>2. /\ pc'[r] = place /\ target'[r] = id /\ base'[r] = c /\ asked'[r] = u
      /\ \A q \in Request \ {r} : /\ pc'[q] = pc[q] /\ target'[q] = target[q]
                                  /\ base'[q] = base[q] /\ asked'[q] = asked[q]
  BY DEF Move, TypeInv, TypeOK, TargetOK
<1>3. \A q \in Request :
         /\ pc'[q] \in {"idle", "insert"} => target'[q] = NoId
         /\ pc'[q] \in {"update", "toggle"} => target'[q] \in DOMAIN rows'
         /\ pc'[q] = "update" => base'[q] \in Columns /\ asked'[q] \in Update
         /\ pc'[q] = "insert" => asked'[q] \in Fields
  BY <1>2, HeldBefore DEF HeldOK
<1>4. NoId \notin DOMAIN rows'
  BY NoIdAssumption
<1>. QED BY <1>1, <1>3, <1>4 DEF TargetOK

-----------------------------------------------------------------------------
(* Types *)

LEMMA TypeInit == Init => TypeInv
BY NoIdAssumption DEF Init, TypeInv, TypeOK, TargetOK, Used

\* The table of a state that a statement for one row leads to, with its history.
LEMMA TypeFrom ==
    ASSUME TypeInv,
           /\ DOMAIN rows' \subseteq Id
           /\ \A i \in DOMAIN rows' : rows'[i] \in Row
           /\ \A i, j \in DOMAIN rows' : i # j => rows'[i].email # rows'[j].email,
           /\ pc' \in [Request -> {"idle", "insert", "update", "toggle"}] /\ TargetOK'
           /\ \A q \in Request :
                 /\ pc'[q] \in {"update", "toggle"} <=> target'[q] \in DOMAIN rows'
                 /\ pc'[q] = "update" => base'[q] \in Columns /\ asked'[q] \in Update
                 /\ pc'[q] = "insert" => asked'[q] \in Fields,
           toggled' \subseteq DOMAIN rows', raced' \subseteq DOMAIN rows',
           DOMAIN want' = DOMAIN rows'
    PROVE  TypeInv'
BY DEF TypeInv, TypeOK, Used, Row

\* The columns of a row that is there are columns, and no other row has its email.
LEMMA OwnColumns ==
    ASSUME TypeInv, NEW id \in Used
    PROVE  /\ ColumnsOf(id) \in Columns
           /\ rows[id].active \in BOOLEAN /\ rows[id].deleted \in BOOLEAN
           /\ \A i \in Used : i # id => rows[i].email # ColumnsOf(id).email
BY DEF TypeInv, TypeOK, ColumnsOf, Columns

LEMMA TypeStep == TypeInv /\ [Next]_vars => TypeInv'
<1>. USE DEF requestVars, historyVars
<1>. SUFFICES ASSUME TypeInv, [Next]_vars PROVE TypeInv'
  OBVIOUS
<1>. DEFINE TableOK == /\ DOMAIN rows' \subseteq Id
                       /\ \A i \in DOMAIN rows' : rows'[i] \in Row
                       /\ \A i, j \in DOMAIN rows' : i # j => rows'[i].email # rows'[j].email
            SameTable == UNCHANGED <<rows, historyVars>>
<1>1. /\ Used \subseteq Id /\ toggled \subseteq Used /\ raced \subseteq Used /\ DOMAIN want = Used
      /\ Used = DOMAIN rows
  BY DEF TypeInv, TypeOK, Used
<1>2. SameTable => TableOK
  BY DEF TypeInv, TypeOK, Row, Used
<1>3. ASSUME NEW r \in Request, SameTable, Move(r, "idle", NoId, NoColumns, NoFields)
      PROVE  TypeInv'
  BY <1>1, <1>2, <1>3, MoveTypes, TypeFrom
<1>4. ASSUME NEW r \in Request, Fail(r) PROVE TypeInv'
  BY <1>3, <1>4 DEF Fail, Answer
<1>5. ASSUME NEW r \in Request, NEW u \in Fields, CreateCheck(r, u) PROVE TypeInv'
  BY <1>1, <1>2, <1>5, MoveTypes, TypeFrom DEF CreateCheck
<1>6. ASSUME NEW r \in Request, NEW id \in Used, NEW u \in Update, UpdateRead(r, id, u)
      PROVE  TypeInv'
  BY <1>1, <1>2, <1>6, MoveTypes, TypeFrom, OwnColumns DEF UpdateRead
<1>7. ASSUME NEW r \in Request, NEW id \in Used, ToggleRead(r, id) PROVE TypeInv'
  BY <1>1, <1>2, <1>7, MoveTypes, TypeFrom DEF ToggleRead
<1>8. ASSUME NEW r \in Request, Insert(r) PROVE TypeInv'
  <2>1. asked[r] \in Fields /\ asked[r] \in Update /\ ~Taken(asked[r].email)
    BY <1>8, HeldBefore DEF Insert, HeldOK, Fields, Update
  <2>2. PICK id \in Id \ Used :
            /\ Put(id, Merge(NoColumns, asked[r]), TRUE, FALSE)
            /\ want' = [i \in Used \union {id} |-> IF i = id THEN asked[r] ELSE want[i]]
    BY <1>8 DEF Insert
  <2>3. Merge(NoColumns, asked[r]) \in Columns /\ Merge(NoColumns, asked[r]).email = asked[r].email
    <3>1. Merge(NoColumns, asked[r]) \in Columns
      BY <2>1, MergedColumns
    <3>. QED BY <2>1, <3>1, BlankAssumption DEF Merge, Fields
  <2>4. TableOK
    <3>1. \A i \in Used : i # id => rows[i].email # Merge(NoColumns, asked[r]).email
      BY <2>1, <2>3 DEF Taken
    <3>. QED BY <2>2, <2>3, <3>1, PutTypes, Zenon
  <2>5. DOMAIN rows' = Used \union {id}
    BY <2>2, PutOne
  <2>. QED BY <1>1, <1>8, <2>2, <2>4, <2>5, MoveTypes, TypeFrom DEF Insert, Answer
<1>9. ASSUME NEW r \in Request, UpdateWrite(r) PROVE TypeInv'
  <2>. DEFINE id == target[r]
              columns == Merge(base[r], asked[r])
  <2>1. id \in Used /\ columns \in Columns
    BY <1>9, HeldBefore, MergedColumns DEF UpdateWrite, HeldOK, Present
  <2>2. \A i \in Used : i # id => rows[i].email # columns.email
    BY <1>9, <2>1 DEF UpdateWrite, Taken, TypeInv, TypeOK
  <2>3. Put(id, columns, rows[id].active, rows[id].deleted)
    BY <1>9 DEF UpdateWrite, ActiveOf
  <2>4. TableOK
    BY <1>1, <2>1, <2>2, <2>3, PutTypes, OwnColumns
  <2>5. DOMAIN rows' = Used
    <3>1. DOMAIN rows' = Used \union {id}
      BY <2>3, PutOne, Zenon
    <3>. QED BY <2>1, <3>1
  <2>6. DOMAIN want' = Used /\ raced' \subseteq Used /\ UNCHANGED toggled
    BY <1>1, <1>9, <2>1 DEF UpdateWrite
  <2>. QED BY <1>1, <1>9, <2>4, <2>5, <2>6, MoveTypes, TypeFrom DEF UpdateWrite, Answer
<1>10. ASSUME NEW r \in Request, ToggleWrite(r) PROVE TypeInv'
  <2>. DEFINE id == target[r]
  <2>1. id \in Used
    BY <1>10 DEF ToggleWrite, Present
  <2>2. Put(id, ColumnsOf(id), ~rows[id].active, rows[id].deleted)
    BY <1>10 DEF ToggleWrite
  <2>3. TableOK
    <3>1. (~rows[id].active) \in BOOLEAN
      OBVIOUS
    <3>2. id \in Id
      BY <1>1, <2>1
    <3>3. /\ ColumnsOf(id) \in Columns /\ rows[id].deleted \in BOOLEAN
          /\ \A i \in Used : i # id => rows[i].email # ColumnsOf(id).email
      BY <2>1, OwnColumns
    <3>. QED BY <2>2, <3>1, <3>2, <3>3, PutTypes, Zenon
  <2>4. DOMAIN rows' = Used
    BY <2>1, <2>2, PutOne
  <2>5. DOMAIN want' = Used /\ raced' \subseteq Used /\ toggled' \subseteq Used
    BY <1>1, <1>10, <2>1 DEF ToggleWrite
  <2>. QED BY <1>1, <1>10, <2>3, <2>4, <2>5, MoveTypes, TypeFrom DEF ToggleWrite, Answer
<1>11. ASSUME NEW id \in Used, SoftDelete(id) PROVE TypeInv'
  <2>1. Put(id, ColumnsOf(id), FALSE, TRUE) /\ UNCHANGED <<requestVars, historyVars>>
    BY <1>11 DEF SoftDelete
  <2>2. TableOK
    BY <1>1, <2>1, PutTypes, OwnColumns
  <2>3. DOMAIN rows' = Used
    BY <2>1, PutOne
  <2>4. TargetOK'
    BY <2>1 DEF TypeInv, TargetOK
  <2>. QED BY <1>1, <2>1, <2>2, <2>3, <2>4, TypeFrom DEF TypeInv, TypeOK
<1>12. CASE UNCHANGED vars
  BY <1>12 DEF vars, TypeInv, TypeOK, TargetOK, Used
<1>. QED BY <1>4, <1>5, <1>6, <1>7, <1>8, <1>9, <1>10, <1>11, <1>12 DEF Next

\* The table keeps its types, and no two rows share an email, however requests with one
\* email overlap: the check of a creation may be stale, the constraint is not.
THEOREM TypeCorrect == Spec => []TypeOK
<1>1. TypeInv => TypeOK
  BY DEF TypeInv
<1>. QED BY <1>1, TypeInit, TypeStep, PTL DEF Spec

-----------------------------------------------------------------------------
(* What the table keeps of the requests *)

\* What each step does to the rows: an insert of a new one, or a write of one that is there
\* and not deleted.  Every property of the rows is about these four.
LEMMA RowSteps ==
    ASSUME TypeInv, [Next]_vars
    PROVE  \/ UNCHANGED <<rows, historyVars>>
           \/ \E r \in Request : Insert(r) \/ UpdateWrite(r) \/ ToggleWrite(r)
           \/ \E id \in Used : SoftDelete(id)
<1>1. CASE UNCHANGED vars
  BY <1>1 DEF vars
<1>2. CASE Next
  BY <1>2 DEF Next, Fail, CreateCheck, UpdateRead, ToggleRead
<1>. QED BY <1>1, <1>2

\* A row that is there before the step, after a write of a row that is there.
LEMMA Rewritten ==
    ASSUME NEW id \in Used, NEW columns, NEW active, NEW deleted, Put(id, columns, active, deleted)
    PROVE  /\ DOMAIN rows' = Used
           /\ rows'[id] = [email |-> columns.email, gender |-> columns.gender,
                           avatar |-> columns.avatar, active |-> active, deleted |-> deleted]
           /\ \A i \in Used : i # id => rows'[i] = rows[i]
<1>1. DOMAIN rows' = Used \union {id}
  BY PutOne, Zenon
<1>2. rows'[id] = [email |-> columns.email, gender |-> columns.gender,
                   avatar |-> columns.avatar, active |-> active, deleted |-> deleted]
  BY Zenon DEF Put
<1>3. \A i \in Used : i # id => rows'[i] = rows[i]
  BY PutOne, Zenon
<1>. QED BY <1>1, <1>2, <1>3

LEMMA FinalStep ==
    TypeInv /\ [Next]_vars =>
        \A id \in Used : rows[id].deleted => id \in DOMAIN rows' /\ rows'[id] = rows[id]
<1>. SUFFICES ASSUME TypeInv, [Next]_vars, NEW d \in Used, rows[d].deleted
              PROVE  d \in DOMAIN rows' /\ rows'[d] = rows[d]
  OBVIOUS
<1>1. CASE UNCHANGED <<rows, historyVars>>
  BY <1>1 DEF Used
<1>2. ASSUME NEW r \in Request, Insert(r) PROVE d \in DOMAIN rows' /\ rows'[d] = rows[d]
  <2>1. PICK id \in Id \ Used : Put(id, Merge(NoColumns, asked[r]), TRUE, FALSE)
    BY <1>2 DEF Insert
  <2>. QED BY <2>1, PutOne
<1>3. ASSUME NEW id \in Used, NEW columns, NEW active, Present(id), NEW deleted,
             Put(id, columns, active, deleted)
      PROVE  d \in DOMAIN rows' /\ rows'[d] = rows[d]
  BY <1>3, Rewritten DEF Present
<1>4. ASSUME NEW r \in Request, UpdateWrite(r) PROVE d \in DOMAIN rows' /\ rows'[d] = rows[d]
  BY <1>3, <1>4 DEF UpdateWrite, Present
<1>5. ASSUME NEW r \in Request, ToggleWrite(r) PROVE d \in DOMAIN rows' /\ rows'[d] = rows[d]
  BY <1>3, <1>5 DEF ToggleWrite, Present
<1>6. ASSUME NEW id \in Used, SoftDelete(id) PROVE d \in DOMAIN rows' /\ rows'[d] = rows[d]
  BY <1>3, <1>6 DEF SoftDelete
<1>. QED BY <1>1, <1>2, <1>4, <1>5, <1>6, RowSteps

\* No request brings back or changes an account that was deleted between its two statements.
THEOREM DeletedStaysFinal == Spec => DeletedIsFinal
<1>1. TypeInv /\ [Next]_vars =>
        [\A id \in Used : rows[id].deleted => id \in DOMAIN rows' /\ rows'[id] = rows[id]]_vars
  BY FinalStep
<1>. QED BY <1>1, TypeInit, TypeStep, PTL DEF Spec, DeletedIsFinal

LEMMA TogglesStep == TypeInv /\ TogglesKept /\ [Next]_vars => TogglesKept'
<1>. SUFFICES ASSUME TypeInv, TogglesKept, [Next]_vars PROVE TogglesKept'
  OBVIOUS
<1>. DEFINE Kept(i) == ~rows[i].deleted => (rows[i].active <=> i \notin toggled)
<1>1. \A i \in Used : Kept(i)
  BY Zenon DEF TogglesKept, Present
<1>2. SUFFICES \A i \in DOMAIN rows' : Kept(i)'
  BY Zenon DEF TogglesKept, Present, Used
<1>3. CASE UNCHANGED <<rows, historyVars>>
  BY <1>1, <1>3, Zenon DEF historyVars, Used
<1>4. ASSUME NEW r \in Request, Insert(r) PROVE \A i \in DOMAIN rows' : Kept(i)'
  <2>1. PICK id \in Id \ Used : Put(id, Merge(NoColumns, asked[r]), TRUE, FALSE)
    BY <1>4 DEF Insert
  <2>2. DOMAIN rows' = Used \union {id} /\ \A i \in Used : rows'[i] = rows[i]
    BY <2>1, PutOne
  <2>3. rows'[id].active
    <3>1. rows'[id] = [email |-> Merge(NoColumns, asked[r]).email,
                       gender |-> Merge(NoColumns, asked[r]).gender,
                       avatar |-> Merge(NoColumns, asked[r]).avatar, active |-> TRUE, deleted |-> FALSE]
      BY <2>1, Zenon DEF Put
    <3>. QED BY <3>1
  <2>4. id \notin toggled /\ toggled' = toggled
    BY <1>4 DEF Insert, TypeInv, TypeOK
  <2>. QED BY <1>1, <2>2, <2>3, <2>4, Zenon
<1>5. ASSUME NEW id \in Used, NEW columns, Put(id, columns, rows[id].active, rows[id].deleted),
             toggled' = toggled
      PROVE  \A i \in DOMAIN rows' : Kept(i)'
  <2>1. DOMAIN rows' = Used /\ \A i \in Used : i # id => rows'[i] = rows[i]
    BY <1>5, Rewritten
  <2>2. rows'[id].active = rows[id].active /\ rows'[id].deleted = rows[id].deleted
    <3>1. rows'[id] = [email |-> columns.email, gender |-> columns.gender, avatar |-> columns.avatar,
                       active |-> rows[id].active, deleted |-> rows[id].deleted]
      BY <1>5, Zenon DEF Put
    <3>. QED BY <3>1
  <2>. QED BY <1>1, <1>5, <2>1, <2>2, Zenon
<1>6. ASSUME NEW r \in Request, UpdateWrite(r) PROVE \A i \in DOMAIN rows' : Kept(i)'
  BY <1>5, <1>6 DEF UpdateWrite, ActiveOf, Present
<1>7. ASSUME NEW r \in Request, ToggleWrite(r) PROVE \A i \in DOMAIN rows' : Kept(i)'
  <2>. PICK id : id = target[r]
    OBVIOUS
  <2>1. id \in Used /\ ~rows[id].deleted
           /\ Put(id, ColumnsOf(id), ~rows[id].active, rows[id].deleted)
    BY <1>7 DEF ToggleWrite, Present
  <2>2. DOMAIN rows' = Used /\ \A i \in Used : i # id => rows'[i] = rows[i]
    BY <2>1, Rewritten
  <2>3. rows'[id].active = (~rows[id].active)
    <3>1. rows'[id] = [email |-> ColumnsOf(id).email, gender |-> ColumnsOf(id).gender,
                       avatar |-> ColumnsOf(id).avatar, active |-> ~rows[id].active,
                       deleted |-> rows[id].deleted]
      BY <2>1, Zenon DEF Put
    <3>. QED BY <3>1
  <2>4. /\ id \in toggled' <=> id \notin toggled
        /\ \A i \in Used : i # id => (i \in toggled' <=> i \in toggled)
    BY <1>7 DEF ToggleWrite
  <2>5. Kept(id)'
    BY <1>1, <2>1, <2>3, <2>4, Zenon
  <2>6. \A i \in Used : i # id => Kept(i)'
    BY <1>1, <2>2, <2>4, Zenon
  <2>. QED BY <2>2, <2>5, <2>6, Zenon
<1>8. ASSUME NEW id \in Used, SoftDelete(id) PROVE \A i \in DOMAIN rows' : Kept(i)'
  <2>1. Put(id, ColumnsOf(id), FALSE, TRUE) /\ toggled' = toggled
    BY <1>8 DEF SoftDelete, historyVars
  <2>2. DOMAIN rows' = Used /\ \A i \in Used : i # id => rows'[i] = rows[i]
    BY <2>1, Rewritten
  <2>3. rows'[id].deleted
    <3>1. rows'[id] = [email |-> ColumnsOf(id).email, gender |-> ColumnsOf(id).gender,
                       avatar |-> ColumnsOf(id).avatar, active |-> FALSE, deleted |-> TRUE]
      BY <2>1, Zenon DEF Put
    <3>. QED BY <3>1
  <2>. QED BY <1>1, <2>1, <2>2, <2>3, Zenon
<1>. QED BY <1>3, <1>4, <1>6, <1>7, <1>8, RowSteps

\* No toggle is lost, for any number of requests between whose statements others write.
THEOREM TogglesCorrect == Spec => []TogglesKept
<1>1. Init => TogglesKept
  BY DEF Init, TogglesKept, Used
<1>. QED BY <1>1, TypeInit, TypeStep, TogglesStep, PTL DEF Spec

LEMMA UpdatesStep == TypeInv /\ UpdatesKept /\ [Next]_vars => UpdatesKept'
<1>. SUFFICES ASSUME TypeInv, UpdatesKept, [Next]_vars PROVE UpdatesKept'
  OBVIOUS
<1>. DEFINE Kept(i) == rows[i].email = want[i].email /\ rows[i].gender = want[i].gender
<1>1. \A i \in Used \ raced : Kept(i)
  BY DEF UpdatesKept
<1>2. SUFFICES \A i \in DOMAIN rows' : i \notin raced' => Kept(i)'
  BY DEF UpdatesKept, Used
<1>3. CASE UNCHANGED <<rows, historyVars>>
  BY <1>1, <1>3 DEF historyVars, Used
<1>4. ASSUME NEW r \in Request, Insert(r)
      PROVE  \A i \in DOMAIN rows' : i \notin raced' => Kept(i)'
  <2>1. PICK id \in Id \ Used :
            /\ Put(id, Merge(NoColumns, asked[r]), TRUE, FALSE)
            /\ want' = [i \in Used \union {id} |-> IF i = id THEN asked[r] ELSE want[i]]
    BY <1>4 DEF Insert
  <2>2. DOMAIN rows' = Used \union {id} /\ \A i \in Used : rows'[i] = rows[i]
    BY <2>1, PutOne
  <2>3. /\ rows'[id].email = Merge(NoColumns, asked[r]).email
        /\ rows'[id].gender = Merge(NoColumns, asked[r]).gender
    <3>1. rows'[id] = [email |-> Merge(NoColumns, asked[r]).email,
                       gender |-> Merge(NoColumns, asked[r]).gender,
                       avatar |-> Merge(NoColumns, asked[r]).avatar, active |-> TRUE, deleted |-> FALSE]
      BY <2>1, Zenon DEF Put
    <3>. QED BY <3>1
  <2>4. asked[r] \in Fields
    BY <1>4, HeldBefore DEF Insert, HeldOK
  <2>5. rows'[id].email = asked[r].email /\ rows'[id].gender = asked[r].gender
    BY <2>3, <2>4, BlankAssumption DEF Merge, Fields
  <2>6. want'[id] = asked[r] /\ \A i \in Used : want'[i] = want[i]
    BY <2>1
  <2>7. raced' = raced
    BY <1>4 DEF Insert
  <2>. QED BY <1>1, <2>2, <2>5, <2>6, <2>7
<1>5. ASSUME NEW id \in Used, NEW active, NEW deleted, Put(id, ColumnsOf(id), active, deleted),
             UNCHANGED <<want, raced>>
      PROVE  \A i \in DOMAIN rows' : i \notin raced' => Kept(i)'
  <2>1. DOMAIN rows' = Used /\ \A i \in Used : i # id => rows'[i] = rows[i]
    BY <1>5, Rewritten
  <2>2. rows'[id].email = rows[id].email /\ rows'[id].gender = rows[id].gender
    <3>1. rows'[id] = [email |-> ColumnsOf(id).email, gender |-> ColumnsOf(id).gender,
                       avatar |-> ColumnsOf(id).avatar, active |-> active, deleted |-> deleted]
      BY <1>5, Zenon DEF Put
    <3>. QED BY <3>1 DEF ColumnsOf
  <2>. QED BY <1>1, <1>5, <2>1, <2>2
<1>6. ASSUME NEW r \in Request, ToggleWrite(r)
      PROVE  \A i \in DOMAIN rows' : i \notin raced' => Kept(i)'
  BY <1>5, <1>6 DEF ToggleWrite, Present
<1>7. ASSUME NEW id \in Used, SoftDelete(id)
      PROVE  \A i \in DOMAIN rows' : i \notin raced' => Kept(i)'
  BY <1>5, <1>7 DEF SoftDelete, historyVars
<1>8. ASSUME NEW r \in Request, UpdateWrite(r)
      PROVE  \A i \in DOMAIN rows' : i \notin raced' => Kept(i)'
  <2>. PICK id : id = target[r]
    OBVIOUS
  <2>. DEFINE columns == Merge(base[r], asked[r])
              wanted == [f \in {"email", "gender"} |->
                            IF asked[r][f] = Blank THEN want[id][f] ELSE asked[r][f]]
  <2>1. id \in Used /\ Put(id, columns, rows[id].active, rows[id].deleted)
    BY <1>8 DEF UpdateWrite, Present, ActiveOf
  <2>2. DOMAIN rows' = Used /\ \A i \in Used : i # id => rows'[i] = rows[i]
    BY <2>1, Rewritten
  <2>3. rows'[id].email = columns.email /\ rows'[id].gender = columns.gender
    <3>1. rows'[id] = [email |-> columns.email, gender |-> columns.gender, avatar |-> columns.avatar,
                       active |-> rows[id].active, deleted |-> rows[id].deleted]
      BY <2>1, Zenon DEF Put
    <3>. QED BY <3>1
  <2>4. DOMAIN want = Used
    BY DEF TypeInv, TypeOK
  <2>5. want' = [want EXCEPT ![id] = wanted]
    BY <1>8 DEF UpdateWrite
  <2>6. want'[id] = wanted /\ \A i \in Used : i # id => want'[i] = want[i]
    BY <2>1, <2>4, <2>5
  <2>7. raced \subseteq raced' /\ (id \notin raced' => base[r] = ColumnsOf(id))
    BY <1>8 DEF UpdateWrite
  <2>8. ASSUME id \notin raced' PROVE Kept(id)'
    <3>1. base[r].email = rows[id].email /\ base[r].gender = rows[id].gender
      BY <2>7, <2>8 DEF ColumnsOf
    <3>2. Kept(id)
      BY <1>1, <2>1, <2>7, <2>8
    <3>3. columns.email = wanted.email /\ columns.gender = wanted.gender
      BY <3>1, <3>2 DEF Merge
    <3>. QED BY <2>3, <2>6, <3>3
  <2>. QED BY <1>1, <2>2, <2>6, <2>7, <2>8
<1>. QED BY <1>3, <1>4, <1>6, <1>7, <1>8, RowSteps

\* Every accepted request's fields stay until a later one sets them, however requests
\* overlap, but for rows of which an update wrote back columns that had changed since.
THEOREM UpdatesCorrect == Spec => []UpdatesKept
<1>1. Init => UpdatesKept
  BY DEF Init, UpdatesKept, Used
<1>. QED BY <1>1, TypeInit, TypeStep, UpdatesStep, PTL DEF Spec
=============================================================================
