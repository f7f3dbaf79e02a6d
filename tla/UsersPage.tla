------------------------------ MODULE UsersPage ------------------------------
(***************************************************************************)
(* pages/Users.tsx with its cards (UserCard.tsx), the form                 *)
(* (UserFormDialog.tsx), the three confirmations and the handlers of       *)
(* user_handler.go they call.  A user's name stands for name, surname,     *)
(* email and gender.  What is typed into the form is an input of its       *)
(* submission.                                                             *)
(***************************************************************************)
EXTENDS Browser

CONSTANTS
    Name,      \* what may be typed as a name or searched for
    PageSize,  \* rows of a page (10 in Users.tsx)
    MaxMade    \* bound: accounts ever made


VARIABLES
    usersUi,   \* the component's state
    accounts,  \* the live rows of the users table, the newest first
    made       \* ids given so far

usersDb == <<accounts, made>>

UserRole == {"endpoint", "user"}
ASSUME UsersAssumption == None \notin Name \union UserRole /\ PageSize \in Nat \ {0} /\ MaxMade \in Nat
Account == [id : 1 .. MaxMade, name : Name, role : UserRole, active : BOOLEAN]
Elements(rows) == {rows[i] : i \in DOMAIN rows}
IndexOf(id) == {i \in DOMAIN accounts : accounts[i].id = id}

-----------------------------------------------------------------------------
(* The handlers *)

Found(search) == Filtered(accounts, {a \in Account : search \in {None, a.name}})

ListUsers(n) ==
    LET w == calls[n].arg
        found == Found(w.search)
    IN  /\ Arriving(n, "users") /\ ByAdmin(n)
        /\ Served(n, [rows |-> SubSeq(found, (w.page - 1) * PageSize + 1, MinOf(w.page * PageSize, Len(found))),
                      total |-> Len(found)])
        /\ UNCHANGED usersDb

CreateUser(n) ==
    LET f == calls[n].arg.form
    IN  /\ Arriving(n, "create") /\ ByAdmin(n) /\ made < MaxMade
        /\ made' = made + 1
        /\ accounts' = <<[id |-> made + 1, name |-> f.name, role |-> f.role, active |-> TRUE]>> \o accounts
        /\ Served(n, "ok")

\* A field that is absent or empty is left as it is.  Mutant: every field is written.
MergeSent(a, data) == [a EXCEPT !.name = data.name, !.role = data.role]
MergeFields(a, data) ==
    [a EXCEPT !.name = IF data.name = None THEN @ ELSE data.name,
              !.role = IF data.role = None THEN @ ELSE data.role]

UpdateUser(n) ==
    /\ Arriving(n, "update") /\ ByAdmin(n)
    /\ \E i \in IndexOf(calls[n].arg.user.id) :
          accounts' = [accounts EXCEPT ![i] = MergeFields(@, calls[n].arg.data)]
    /\ Served(n, "ok") /\ UNCHANGED made

DeleteUser(n) ==
    /\ Arriving(n, "delete") /\ ByAdmin(n)
    /\ \E i \in IndexOf(calls[n].arg.user.id) :
          accounts' = SubSeq(accounts, 1, i - 1) \o SubSeq(accounts, i + 1, Len(accounts))
    /\ Served(n, "ok") /\ UNCHANGED made

ToggleUser(n) ==
    /\ Arriving(n, "toggle") /\ ByAdmin(n)
    /\ \E i \in IndexOf(calls[n].arg.user.id) : accounts' = [accounts EXCEPT ![i].active = ~@]
    /\ Served(n, "ok") /\ UNCHANGED made

GenerateToken(n) ==
    /\ Arriving(n, "token") /\ ByAdmin(n)
    /\ \E i \in IndexOf(calls[n].arg.user.id) : accounts[i].role = "endpoint"
    /\ Served(n, calls[n].arg.user) /\ UNCHANGED usersDb

UsersServer(n) == ListUsers(n) \/ CreateUser(n) \/ UpdateUser(n) \/ DeleteUser(n) \/ ToggleUser(n) \/ GenerateToken(n)

-----------------------------------------------------------------------------
(* The page *)

Render == [search |-> usersUi.search, page |-> usersUi.page]
FirstRender == [search |-> None, page |-> 1]
FreshUsers ==
    [rows |-> <<>>, total |-> 0, page |-> 1, search |-> None, loading |-> TRUE,
     form |-> FALSE, editing |-> None, error |-> FALSE, saving |-> FALSE,
     dialog |-> "none", chosen |-> None, token |-> None, copied |-> FALSE, submitting |-> FALSE,
     of |-> FirstRender,  \* history: what the rows were asked with
     sure |-> TRUE,       \* history: the last listing was alone, of this page, and did not fail
     left |-> FALSE]      \* history: a dialog was left while its token was on its way

\* Mutant: one page more than is full.
PagesRoundedUp(total) == total \div PageSize + 1
UsersPages(total) == (total + PageSize - 1) \div PageSize

NoDialog == ~usersUi.form /\ usersUi.dialog = "none" /\ usersUi.token = None
\* A handler of the page runs up to its await.
UsersDo(ui) == page = "users" /\ Act /\ usersUi' = ui /\ UNCHANGED usersDb
UsersThen(ui) == usersUi' = ui /\ UNCHANGED <<usersDb, acts>>

\* loadUsers, with the search and the page w of the render it was created in; n is the
\* call it follows upon, or 0.
LoadUsers(ui, w, n) ==
    [ui EXCEPT !.loading = TRUE, !.sure = Mine({"users"}) \ {n} = {} /\ w.page = ui.page]

\* The buttons of the pager, and the effect of a changed page.
UsersPager(p) ==
    LET pages == UsersPages(usersUi.total)
    IN  /\ NoDialog /\ pages > 1
        /\ \/ usersUi.page # 1 /\ p = usersUi.page - 1
           \/ usersUi.page # pages /\ p = MinOf(pages, usersUi.page + 1)
        /\ LET w == [Render EXCEPT !.page = p]
           IN  UsersDo(LoadUsers([usersUi EXCEPT !.page = p], w, 0)) /\ Send("users", w)

TypeSearch(q) == NoDialog /\ q # usersUi.search /\ UsersDo([usersUi EXCEPT !.search = q]) /\ Quiet

\* An empty text loads the page again, any other filters the rows at hand.
SearchUsers ==
    /\ NoDialog
    /\ \/ /\ usersUi.search = None
          /\ UsersDo(LoadUsers(usersUi, Render, 0)) /\ Send("users", Render)
       \/ /\ usersUi.search # None
          /\ UsersDo([usersUi EXCEPT !.rows = SelectSeq(@, LAMBDA a : a.name = usersUi.search),
                                     !.of.search = usersUi.search])
          /\ Quiet

\* The button "Novo Usuário", or the menu of a card in the grid.
Card(a) == ~usersUi.loading /\ a \in Elements(usersUi.rows)
OpenForm(a) ==
    /\ NoDialog /\ (a = None \/ Card(a))
    /\ UsersDo([usersUi EXCEPT !.form = TRUE, !.editing = a, !.error = FALSE]) /\ Quiet

Choose(dialog, a) ==
    /\ NoDialog /\ Card(a) /\ (dialog = "token" => a.role = "endpoint")
    /\ UsersDo([usersUi EXCEPT !.dialog = dialog, !.chosen = a]) /\ Quiet

CancelForm == usersUi.form /\ UsersDo([usersUi EXCEPT !.form = FALSE]) /\ Quiet

Closed(ui, dialog) == IF ui.dialog = dialog THEN [ui EXCEPT !.dialog = "none", !.chosen = None] ELSE ui

\* Escape, Cancelar or Fechar.  A token that arrives late is shown above a deletion or a
\* toggle, whose dialog stays open when that of the token is closed.  Mutant: the token stays when its dialog is closed.
TokenStays(ui) == [Closed(ui, "token") EXCEPT !.left = FALSE]
TokenClosed(ui) == [Closed(ui, "token") EXCEPT !.token = None, !.copied = FALSE, !.left = Mine({"token"}) # {}]
CloseDialog ==
    /\ usersUi.dialog # "none" \/ usersUi.token # None
    /\ \/ /\ usersUi.dialog \in {"delete", "toggle"} /\ usersUi.token = None
          /\ UsersDo([usersUi EXCEPT !.dialog = "none", !.chosen = None])
       \/ (usersUi.dialog = "token" \/ usersUi.token # None) /\ UsersDo(TokenClosed(usersUi))
    /\ Quiet

CopyToken == usersUi.token # None /\ UsersDo([usersUi EXCEPT !.copied = TRUE]) /\ Quiet
CopyTimer == usersUi.copied /\ UsersThen([usersUi EXCEPT !.copied = FALSE]) /\ Quiet

-----------------------------------------------------------------------------
(* The form *)

\* What differs from the row the form was opened with; a password is never sent.
\* Mutant: the fields are compared with the first role instead of the row's.
DiffFromDefault(a, f) == [name |-> f.name, role |-> IF f.role # "user" THEN f.role ELSE None]
Diff(a, f) == [name |-> IF f.name # a.name THEN f.name ELSE None,
               role |-> IF f.role # a.role THEN f.role ELSE None]

\* What the fields hold when the form is submitted.
Typed == [name : Name \union {None}, role : UserRole]

SubmitForm(f) ==
    LET a == usersUi.editing
    IN  /\ usersUi.form /\ ~usersUi.saving
        /\ UsersDo([usersUi EXCEPT !.error = FALSE, !.saving = TRUE])
        /\ \/ a # None /\ Send("update", [user |-> a, data |-> Diff(a, f), form |-> f, render |-> Render])
           \/ a = None /\ f.name # None /\ Send("create", [form |-> f, render |-> Render])

\* onSuccess, then onOpenChange(false): whatever the form shows by now.
FormSaved(n) ==
    /\ Answered(n, "create") \/ Answered(n, "update")
    /\ UsersThen(LoadUsers([usersUi EXCEPT !.form = FALSE, !.saving = FALSE], calls[n].arg.render, n))
    /\ Put(n, Call("users", calls[n].arg.render))

FormFails(n) ==
    /\ Failing(n, {"create", "update"})
    /\ UsersThen([usersUi EXCEPT !.error = usersUi.form, !.saving = FALSE])
    /\ Forget(n)

-----------------------------------------------------------------------------
(* The confirmations: the flag isSubmitting is the same for all three *)

\* Mutant: the button of the confirmation is not disabled while a call is on its way.
EvenIfSubmitting == TRUE
NotSubmitting == ~usersUi.submitting

Confirm ==
    /\ usersUi.dialog # "none" /\ usersUi.token = None /\ NotSubmitting
    /\ UsersDo([usersUi EXCEPT !.submitting = TRUE])
    /\ Send(usersUi.dialog, [user |-> usersUi.chosen, render |-> Render])

\* handleDelete and handleToggleActive: the dialog is closed and the page loaded again.
Confirmed(n) ==
    /\ Answered(n, "delete") \/ Answered(n, "toggle")
    /\ UsersThen(LoadUsers([Closed(usersUi, calls[n].kind) EXCEPT !.submitting = FALSE],
                           calls[n].arg.render, n))
    /\ Put(n, Call("users", calls[n].arg.render))

TokenShown(n) ==
    /\ Answered(n, "token")
    /\ UsersThen([usersUi EXCEPT !.token = calls[n].answer, !.submitting = FALSE])
    /\ Forget(n)

\* An error leaves the dialogs of the first two open and closes that of the token.
ConfirmFails(n) ==
    /\ Failing(n, {"delete", "toggle", "token"})
    /\ UsersThen([IF calls[n].kind = "token" THEN [Closed(usersUi, "token") EXCEPT !.left = FALSE] ELSE usersUi
                    EXCEPT !.submitting = FALSE])
    /\ Forget(n)

UsersLoaded(n) ==
    /\ Answered(n, "users")
    /\ UsersThen([usersUi EXCEPT !.rows = calls[n].answer.rows, !.total = calls[n].answer.total,
                                 !.of = calls[n].arg, !.loading = FALSE])
    /\ Forget(n)

\* A toast, and the rows stay.
UsersFail(n) ==
    /\ Failing(n, {"users"})
    /\ UsersThen([usersUi EXCEPT !.loading = FALSE, !.sure = FALSE])
    /\ Forget(n)

-----------------------------------------------------------------------------
UsersCalls == {"users", "create", "update", "delete", "toggle", "token"}
UsersUser ==
    \/ \E p \in 1 .. MaxMade + 1 : UsersPager(p)
    \/ \E q \in Name \union {None} : TypeSearch(q)
    \/ SearchUsers \/ CancelForm \/ CloseDialog \/ CopyToken \/ Confirm
    \/ \E a \in Elements(usersUi.rows) \union {None} : OpenForm(a)
    \/ \E a \in Elements(usersUi.rows), dialog \in {"delete", "toggle", "token"} : Choose(dialog, a)
    \/ \E f \in Typed : SubmitForm(f)
UsersFails(n) == FormFails(n) \/ ConfirmFails(n) \/ UsersFail(n)
UsersAnswer(n) == FormSaved(n) \/ Confirmed(n) \/ TokenShown(n) \/ UsersLoaded(n) \/ UsersFails(n)
=============================================================================
