-------------------------------- MODULE Users --------------------------------
(***************************************************************************)
(* The users table: Create, Update, Delete and ToggleActive of             *)
(* api/internal/handlers/user_handler.go over user_repository.go, and the  *)
(* seed command (api/cmd/seed).  Create looks the email up and inserts     *)
(* later; Update reads the row and later writes all its columns; Toggle    *)
(* reads the row and later negates is_active; so requests interleave       *)
(* between the two statements.                                             *)
(***************************************************************************)
EXTENDS Integers, FiniteSets

CONSTANTS
    Id,        \* ids the database may give to rows
    Email,     \* addresses, the seed's among them
    Gender,    \* the gender stands for all fields that are no key
    Request,   \* requests and seeds that may be in progress at once
    Blank,     \* a field that an update does not set (the empty string)
    NoId

ASSUME BlankAssumption == Blank \notin Email \union Gender
ASSUME NoIdAssumption == NoId \notin Id

VARIABLES
    rows,      \* the table: a function on the ids in use; soft-deleted rows stay
    pc,        \* per request: "idle", "insert", "update" or "toggle"
    target,    \* per request, the id it works on
    base,      \* per request, the columns an update has read
    asked,     \* per request, the fields it wants
    toggled,   \* history: ids toggled an odd number of times
    want,      \* history: per id, what the accepted requests asked for, the latest last
    raced      \* history: ids of which an update wrote columns read before another write

requestVars == <<pc, target, base, asked>>
historyVars == <<toggled, want, raced>>
vars == <<rows, requestVars, historyVars>>

Fields == [email : Email, gender : Gender]
Update == [email : Email \union {Blank}, gender : Gender \union {Blank}]
Columns == [email : Email, gender : Gender, avatar : Gender]
NoFields == [email |-> Blank, gender |-> Blank]

\* generateAvatar(email, gender) depends on the gender alone.
Avatar(gender) == gender

Used == DOMAIN rows
ColumnsOf(id) == [email |-> rows[id].email, gender |-> rows[id].gender, avatar |-> rows[id].avatar]
\* Mutant: a constraint over the live rows alone.
TakenByLive(email) == \E id \in Used : ~rows[id].deleted /\ rows[id].email = email
Taken(email) == \E id \in Used : rows[id].email = email

\* Mutant: the statement without AND deleted_at IS NULL.
AnyRow(id) == id \in Used
Present(id) == id \in Used /\ ~rows[id].deleted
FindByEmail(email) == {id \in Used : Present(id) /\ rows[id].email = email}

\* Mutant: the blank fields of an update are written too, as the fields' first values.
MergeAll(columns, u) ==
    [email |-> IF u.email = Blank THEN columns.email ELSE u.email,
     gender |-> IF u.gender = Blank THEN CHOOSE g \in Gender : TRUE ELSE u.gender,
     avatar |-> Avatar(IF u.gender = Blank THEN CHOOSE g \in Gender : TRUE ELSE u.gender)]
Merge(columns, u) ==
    [email |-> IF u.email = Blank THEN columns.email ELSE u.email,
     gender |-> IF u.gender = Blank THEN columns.gender ELSE u.gender,
     avatar |-> IF u.gender = Blank THEN columns.avatar ELSE Avatar(u.gender)]

\* Mutant: an update activates the account.
Reactivated(id) == TRUE
ActiveOf(id) == rows[id].active

Put(id, columns, active, deleted) ==
    rows' = [i \in Used \union {id} |->
               IF i # id THEN rows[i]
               ELSE [email |-> columns.email, gender |-> columns.gender, avatar |-> columns.avatar,
                     active |-> active, deleted |-> deleted]]

Move(r, place, id, columns, u) ==
    /\ pc' = [pc EXCEPT ![r] = place]
    /\ target' = [target EXCEPT ![r] = id]
    /\ base' = [base EXCEPT ![r] = columns]
    /\ asked' = [asked EXCEPT ![r] = u]

NoColumns == [email |-> Blank, gender |-> Blank, avatar |-> Blank]
Answer(r) == Move(r, "idle", NoId, NoColumns, NoFields)

-----------------------------------------------------------------------------
\* Create and the seed: no live account has the email (else 409, or the seed skips).
CreateCheck(r, u) ==
    /\ pc[r] = "idle"
    /\ FindByEmail(u.email) = {}
    /\ Move(r, "insert", NoId, NoColumns, u)
    /\ UNCHANGED <<rows, historyVars>>

\* UNIQUE(email) holds for soft-deleted rows too.
Insert(r) ==
    /\ pc[r] = "insert" /\ ~Taken(asked[r].email)
    /\ \E id \in Id \ Used :
          /\ Put(id, Merge(NoColumns, asked[r]), TRUE, FALSE)
          /\ want' = [i \in Used \union {id} |-> IF i = id THEN asked[r] ELSE want[i]]
    /\ Answer(r)
    /\ UNCHANGED <<toggled, raced>>

UpdateRead(r, id, u) ==
    /\ pc[r] = "idle" /\ Present(id)
    /\ Move(r, "update", id, ColumnsOf(id), u)
    /\ UNCHANGED <<rows, historyVars>>

UpdateWrite(r) ==
    LET id == target[r]
        columns == Merge(base[r], asked[r])
    IN  /\ pc[r] = "update" /\ Present(id)
        /\ columns.email = rows[id].email \/ ~Taken(columns.email)
        /\ Put(id, columns, ActiveOf(id), rows[id].deleted)
        /\ want' = [want EXCEPT ![id] = [f \in {"email", "gender"} |->
                                            IF asked[r][f] = Blank THEN @[f] ELSE asked[r][f]]]
        /\ raced' = IF base[r] = ColumnsOf(id) THEN raced ELSE raced \union {id}
        /\ Answer(r)
        /\ UNCHANGED toggled

ToggleRead(r, id) ==
    /\ pc[r] = "idle" /\ Present(id)
    /\ Move(r, "toggle", id, NoColumns, NoFields)
    /\ UNCHANGED <<rows, historyVars>>

ToggleWrite(r) ==
    LET id == target[r]
    IN  /\ pc[r] = "toggle" /\ Present(id)
        /\ Put(id, ColumnsOf(id), ~rows[id].active, rows[id].deleted)
        /\ toggled' = IF id \in toggled THEN toggled \ {id} ELSE toggled \union {id}
        /\ Answer(r)
        /\ UNCHANGED <<want, raced>>

SoftDelete(id) ==
    /\ Present(id)
    /\ Put(id, ColumnsOf(id), FALSE, TRUE)
    /\ UNCHANGED <<requestVars, historyVars>>

\* A statement fails, or finds the row deleted or the email taken.
Fail(r) ==
    /\ pc[r] # "idle"
    /\ Answer(r)
    /\ UNCHANGED <<rows, historyVars>>

-----------------------------------------------------------------------------
Init ==
    /\ rows = [id \in {} |-> NoColumns]
    /\ pc = [r \in Request |-> "idle"]
    /\ target = [r \in Request |-> NoId]
    /\ base = [r \in Request |-> NoColumns]
    /\ asked = [r \in Request |-> NoFields]
    /\ toggled = {} /\ raced = {}
    /\ want = [id \in {} |-> NoFields]

Next ==
    \/ \E r \in Request : Insert(r) \/ UpdateWrite(r) \/ ToggleWrite(r) \/ Fail(r)
    \/ \E r \in Request, u \in Fields : CreateCheck(r, u)
    \/ \E r \in Request, id \in Used, u \in Update : UpdateRead(r, id, u)
    \/ \E r \in Request, id \in Used : ToggleRead(r, id)
    \/ \E id \in Used : SoftDelete(id)

Spec == Init /\ [][Next]_vars

-----------------------------------------------------------------------------
(* Properties *)

\* The state keeps its types, and no two rows, deleted ones included, share an email.
TypeOK ==
    /\ Used \subseteq Id
    /\ \A id \in Used : rows[id] \in [email : Email, gender : Gender, avatar : Gender,
                                      active : BOOLEAN, deleted : BOOLEAN]
    /\ \A i, j \in Used : i # j => rows[i].email # rows[j].email
    /\ pc \in [Request -> {"idle", "insert", "update", "toggle"}]
    /\ \A r \in Request : /\ pc[r] \in {"update", "toggle"} <=> target[r] \in Used
                          /\ pc[r] = "update" => base[r] \in Columns /\ asked[r] \in Update
                          /\ pc[r] = "insert" => asked[r] \in Fields
    /\ toggled \subseteq Used /\ raced \subseteq Used /\ DOMAIN want = Used

\* No toggle is lost: an account is active exactly if it was toggled an even number of
\* times, whatever updates read before a toggle and write after it.
TogglesKept == \A id \in Used : Present(id) => (rows[id].active <=> id \notin toggled)

\* A deleted account is final: no request that had read it before changes it or brings
\* it back (WHERE deleted_at IS NULL).
DeletedIsFinal ==
    [][\A id \in Used : rows[id].deleted => id \in DOMAIN rows' /\ rows'[id] = rows[id]]_vars

\* Every column holds what the last accepted request that set it asked for, unless an
\* update wrote back columns that another one had changed since it read them.
UpdatesKept ==
    \A id \in Used \ raced : /\ rows[id].email = want[id].email
                             /\ rows[id].gender = want[id].gender
=============================================================================
