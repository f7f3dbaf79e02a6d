-------------------------------- MODULE App --------------------------------
(***************************************************************************)
(* The frontend: App.tsx with its routes, AuthContext.tsx, Login.tsx, the  *)
(* navigation of Layout.tsx and Header.tsx, Dashboard.tsx, and the pages,  *)
(* which share the signed-in user, the stored tokens and the calls.        *)
(***************************************************************************)
EXTENDS UsersPage, BucketsPage, ReportsPage

CONSTANTS
    Accounts,  \* the databases and the storage service, when the tab is opened
    Contents,
    Rules,
    Logs       \* how many of the feed there are

\* Accounts have ids of their own, given in turn; the rules are as the dialog writes them.
ASSUME AppAssumption ==
    /\ Accounts \in Seq(Account) /\ Len(Accounts) <= MaxMade
    /\ \A i, j \in DOMAIN Accounts : Accounts[i].id = Accounts[j].id => i = j
    /\ \A i \in DOMAIN Accounts : Accounts[i].id <= Len(Accounts)
    /\ DOMAIN Contents \subseteq Bucket
    /\ \A b \in DOMAIN Contents : /\ Contents[b] \in Seq(Stored) /\ Len(Contents[b]) <= MaxVersions
                                  /\ Rules[b] \in Seq(Rule)
    /\ Logs \in 0 .. Len(Feed)

VARIABLES
    login,  \* Login.tsx: [submitting, error]
    dash    \* Dashboard.tsx: "loading", "error" or "shown"

pageVars == <<usersUi, bp, lc, vm, rp, login, dash>>
dbVars == <<accounts, made, buckets, objects, config, logs, sent>>
vars == <<whoVars, calls, acts, pageVars, dbVars>>

Protected == {"dashboard", "users", "buckets", "reports"}
Path == Protected \union {"login"}

\* ProtectedRoute and PublicRoute.
Landing(path, who) ==
    IF who = "nobody" THEN "login" ELSE IF path = "login" THEN "dashboard" ELSE path

\* What the effects of a page ask for when it is mounted.
Effects(p, who) ==
    CASE p = "users"     -> <<CallAs(who, "users", FirstRender)>>
      [] p = "buckets"   -> <<CallAs(who, "buckets", None)>>
      [] p = "reports"   -> <<CallAs(who, "logBuckets", None), CallAs(who, "logs", FirstFilter)>>
      [] p = "dashboard" -> <<CallAs(who, "summary", None)>>
      [] OTHER           -> <<>>

FreshLogin == [submitting |-> FALSE, error |-> FALSE]

\* A page takes the place of another; rest are the calls that outlive the change.
Mount(p, who, rest) ==
    LET asked == Effects(p, who)
        free == {n \in Slot : rest[n].kind = "none"}
        Rank(n) == Cardinality({m \in free : m <= n})
    IN  /\ Cardinality(free) >= Len(asked)
        /\ page' = p
        /\ calls' = [n \in Slot |-> IF n \in free /\ Rank(n) <= Len(asked) THEN asked[Rank(n)] ELSE rest[n]]
        /\ usersUi' = FreshUsers /\ rp' = FreshReports /\ login' = FreshLogin /\ dash' = "loading"
        /\ bp' = [FreshBuckets EXCEPT !.tried = bp.tried]
        /\ lc' = FreshLifecycle(None) /\ vm' = FreshVersions(None)

Without(n) == [Abandoned EXCEPT ![n] = NoCall]
Nothing == [n \in Slot |-> NoCall]

\* The page is loaded: loadUser asks who the stored tokens belong to.
Load(path, rest) ==
    /\ user' = "nobody" /\ UNCHANGED tokens
    /\ IF tokens = "nobody"
         THEN Mount("login", tokens, rest)
         ELSE \E n \in Slot : /\ rest[n].kind = "none" /\ \A m \in 1 .. n - 1 : rest[m].kind # "none"
                              /\ Mount("spinner", tokens, [rest EXCEPT ![n] = Call("me", path)])

\* A tab in which the page has just been loaded.
Init ==
    /\ user = "nobody" /\ tokens \in Role \union {"nobody"} /\ acts = 0
    /\ \E path \in Path :
          IF tokens = "nobody"
            THEN page = "login" /\ calls = Nothing
            ELSE page = "spinner" /\ calls = [Nothing EXCEPT ![1] = Call("me", path)]
    /\ usersUi = FreshUsers /\ rp = FreshReports /\ login = FreshLogin /\ dash = "loading"
    /\ bp = FreshBuckets /\ lc = FreshLifecycle(None) /\ vm = FreshVersions(None)
    /\ accounts = Accounts /\ made = Len(Accounts) /\ logs = [i \in 1 .. Logs |-> Feed[Logs + 1 - i]] /\ sent = Logs
    /\ buckets = DOMAIN Contents /\ objects = [b \in Bucket |-> IF b \in buckets THEN Contents[b] ELSE <<>>]
    /\ config = [b \in Bucket |-> IF b \in buckets THEN Rules[b] ELSE <<>>]

-----------------------------------------------------------------------------
(* AuthContext and Login *)

Me(n) == Arriving(n, "me") /\ Served(n, calls[n].as)
LoginServed(n) == Arriving(n, "login") /\ \E who \in Role : Served(n, who)
LogoutServed(n) == Arriving(n, "logout") /\ Served(n, "ok")
Summary(n) == Arriving(n, "summary") /\ Served(n, "ok")
AuthServer(n) == Me(n) \/ LoginServed(n) \/ LogoutServed(n) \/ Summary(n)

UserLoaded(n) ==
    /\ Answered(n, "me")
    /\ user' = calls[n].answer /\ UNCHANGED <<tokens, acts>>
    /\ Mount(Landing(calls[n].arg, user'), tokens, Without(n))

\* Whatever the error is, the tokens are gone.
UserNotLoaded(n) ==
    /\ Failing(n, {"me"})
    /\ user' = "nobody" /\ tokens' = "nobody" /\ UNCHANGED acts
    /\ Mount("login", tokens', Without(n))

SubmitLogin ==
    /\ page = "login" /\ ~login.submitting /\ Act
    /\ login' = [submitting |-> TRUE, error |-> FALSE] /\ Send("login", None)
    /\ UNCHANGED <<whoVars, usersUi, bp, lc, vm, rp, dash>>

\* storeTokens, setUser, and navigate or PublicRoute.
LoggedIn(n) ==
    /\ Answered(n, "login")
    /\ user' = calls[n].answer /\ tokens' = user' /\ UNCHANGED acts
    /\ Mount("dashboard", tokens', Without(n))

LoginFails(n) ==
    /\ Failing(n, {"login"})
    /\ login' = [submitting |-> FALSE, error |-> TRUE] /\ Forget(n)
    /\ UNCHANGED <<whoVars, acts, usersUi, bp, lc, vm, rp, dash>>

\* The end of logout: its errors are ignored.  A second click has its own end, which may
\* fall into a later login.  Mutant: only a logout that has succeeded clears the tokens.
ClearedIfServed(n) == IF calls[n].served THEN "nobody" ELSE tokens
Cleared(n) == "nobody"
LogoutDone(n) ==
    /\ Failing(n, {"logout"})
    /\ user' = "nobody" /\ tokens' = Cleared(n) /\ UNCHANGED acts
    /\ \/ page # "login" /\ Mount("login", tokens', Without(n))
       \/ page = "login" /\ Forget(n) /\ UNCHANGED <<page, pageVars>>

-----------------------------------------------------------------------------
(* Layout, Header and the tab *)

\* A dialog covers the menu and the button "Sair", the button of the tab it does not.
NothingOpen == (page = "users" => NoDialog) /\ (page = "buckets" => Uncovered)

ClickLogout ==
    /\ page \in Protected /\ NothingOpen /\ Act
    /\ \/ tokens # "nobody" /\ Send("logout", None) /\ UNCHANGED <<whoVars, pageVars>>
       \/ /\ tokens = "nobody" /\ user' = "nobody" /\ UNCHANGED tokens
          /\ Mount("login", tokens, Abandoned)

\* The menu, or back and forth in the history of the tab.
Navigate(p) ==
    /\ page \in Protected /\ p # page /\ Act
    /\ Mount(p, tokens, Abandoned) /\ UNCHANGED <<user, tokens>>

Unread == [n \in Slot |-> IF calls[n].kind = "logout" THEN NoCall ELSE Abandoned[n]]
ReloadPage == page # "spinner" /\ Act /\ Load(page, Unread)

\* Dashboard.tsx loads once.
SummaryDone(n) ==
    /\ Failing(n, {"summary"})
    /\ dash' = IF calls[n].served THEN "shown" ELSE "error"
    /\ Forget(n) /\ UNCHANGED <<whoVars, acts, usersUi, bp, lc, vm, rp, login>>

\* A call whose page was left, and that is lost.
Vanish(n) == calls[n].kind # "none" /\ calls[n].gone /\ Forget(n)

-----------------------------------------------------------------------------
(* Composition *)

usersVars == <<usersUi, accounts, made>>
bucketsVars == <<bp, lc, vm, buckets, objects, config>>
reportsVars == <<rp, logs, sent>>

Server(n) ==
    /\ \/ UsersServer(n) /\ UNCHANGED <<buckets, objects, config, reportsDb>>
       \/ BucketsServer(n) /\ UNCHANGED <<accounts, made, reportsDb>>
       \/ ReportsServer(n) /\ UNCHANGED <<accounts, made, buckets, objects, config>>
       \/ AuthServer(n) /\ UNCHANGED dbVars
       \/ Vanish(n) /\ UNCHANGED dbVars
    /\ UNCHANGED <<whoVars, acts, pageVars>>

\* services/users.ts tries to refresh the tokens and clears them when that fails; the user
\* stays signed in.  The other services have no such thing.
Expires(n) == UsersFails(n) /\ user # "nobody" /\ tokens' = "nobody" /\ UNCHANGED <<page, user>>

\* Only the page that is mounted has buttons, timers and calls that it waits for.
OnUsers ==
    /\ page = "users"
    /\ \/ (UsersUser \/ CopyTimer \/ \E n \in Slot : UsersAnswer(n)) /\ UNCHANGED whoVars
       \/ \E n \in Slot : Expires(n)
    /\ UNCHANGED <<bucketsVars, reportsVars, login, dash>>
OnBuckets ==
    /\ page = "buckets"
    /\ BucketsUser \/ \E n \in Slot : BucketsAnswer(n)
    /\ UNCHANGED <<whoVars, usersVars, reportsVars, login, dash>>
OnReports ==
    /\ page = "reports"
    /\ ReportsUser \/ \E n \in Slot : ReportsAnswer(n)
    /\ UNCHANGED <<whoVars, usersVars, bucketsVars, login, dash>>
Elsewhere ==
    /\ page = "reports"
    /\ LogsCleaned \/ LogArrives
    /\ UNCHANGED <<whoVars, calls, acts, usersVars, bucketsVars, login, dash>>
Auth ==
    /\ \/ SubmitLogin \/ ClickLogout \/ ReloadPage
       \/ \E p \in Protected : Navigate(p)
       \/ \E n \in Slot : \/ UserLoaded(n) \/ UserNotLoaded(n) \/ LoggedIn(n) \/ LoginFails(n)
                          \/ LogoutDone(n) \/ SummaryDone(n)
    /\ UNCHANGED dbVars

Next == OnUsers \/ OnBuckets \/ OnReports \/ Elsewhere \/ Auth \/ \E n \in Slot : Server(n)
Spec == Init /\ [][Next]_vars

-----------------------------------------------------------------------------
(* Properties *)

\* Everything has its type; the pagers stay on pages there may be.
AppTypeOK ==
    /\ page \in Path \union {"spinner"}
    /\ {user, tokens} \subseteq Role \union {"nobody"}
    /\ acts \in 0 .. MaxActions
    /\ accounts \in Seq(Account) /\ made \in 0 .. MaxMade
    /\ buckets \subseteq Bucket
    /\ \A b \in Bucket : config[b] \in Seq(Rule) /\ objects[b] \in Seq(Stored) /\ Len(objects[b]) <= MaxVersions
    /\ logs \in Seq(Log) /\ Len(logs) <= sent /\ sent <= Len(Feed)
    /\ usersUi.page \in 1 .. MaxMade + 1 /\ rp.page \in {1} \union 1 .. Len(Feed)

\* Who is signed in sees a page, everybody else the login page, and then no tokens are left
\* (App.tsx:11-45, AuthContext.tsx:46-57), however logins, logouts, reloads and expiries
\* follow upon each other; the tokens that are stored are the user's own.
SessionShown ==
    /\ page \in Protected => user # "nobody" /\ tokens \in {user, "nobody"}
    /\ page = "login" => user = "nobody" /\ tokens = "nobody"

Exactly(flag, set) == Cardinality(set) = IF flag THEN 1 ELSE 0

\* No page waits for a call that is not under way: every spinner has its call.  And no form
\* has two submissions under way, also when its dialog was closed and opened again in
\* between: the flags that disable the buttons (isSubmitting, saving, creating) are on
\* exactly while the submission is.
FlagsHonest ==
    /\ page = "users" =>
          /\ usersUi.loading => Mine({"users"}) # {}
          /\ Exactly(usersUi.saving, Mine({"create", "update"}))
          /\ Exactly(usersUi.submitting, Mine({"delete", "toggle", "token"}))
    /\ page = "buckets" =>
          /\ bp.loading => Mine({"buckets", "analytics"}) # {}
          /\ Exactly(bp.creating, Mine({"makeBucket"}))
          /\ lc.loading => Mine({"lifecycle"}) # {}
          /\ Exactly(lc.saving, {n \in Mine(LcCalls) : ~calls[n].arg.closed})
          /\ vm.loading => Mine({"versions"}) # {}
          /\ vm.deleting # None => Mine({"deleteObject", "versions"}) # {}
    /\ page = "reports" /\ rp.loading => Mine({"logs"}) # {}
    /\ page = "login" => Exactly(login.submitting, Mine({"login"}))

UsersSettled == page = "users" /\ ~usersUi.loading /\ usersUi.sure /\ Mine({"users"}) = {}
ReportsSettled == page = "reports" /\ ~rp.loading /\ ~rp.error /\ rp.sure /\ Mine({"logs"}) = {}

\* What a list shows is of the page and the filter that its controls show (Users.tsx:55,
\* Reports.tsx:58-95), once the last listing was alone and has not failed.
ListsBelong ==
    /\ UsersSettled => usersUi.of.page = usersUi.page
    /\ ReportsSettled => rp.of = Filter /\ \A l \in LogsIn(rp.rows) : Passes(l, Filter)

\* Nobody is stranded on an empty page behind the last (Users.tsx:145, Reports.tsx:170-191),
\* unless rows were deleted, or filtered by the local search.
NotStranded ==
    /\ UsersSettled /\ usersUi.of.search = None /\ usersUi.rows = <<>> /\ Len(accounts) = made =>
          usersUi.page = 1
    /\ ReportsSettled /\ rp.rows = <<>> /\ ~rp.cleaned => rp.page = 1

\* A token that is shown belongs to the user the dialog is about (Users.tsx:97-110), unless
\* the dialog before it was closed while its token was on its way.
TokenOfDialog ==
    usersUi.token # None /\ usersUi.dialog = "token" /\ ~usersUi.left =>
        usersUi.token.id = usersUi.chosen.id

\* The server takes up a call whose page is still there.
Serving(n, kinds) ==
    calls[n].kind \in kinds /\ ~calls[n].served /\ calls'[n].kind = calls[n].kind /\ calls'[n].served

\* Of a row that nobody has changed since the form was opened, an update makes what was
\* typed: only the differences are sent (UserFormDialog.tsx:69-75), and the handler leaves
\* alone what is not sent or empty.
SavedAsTyped ==
    [][\A n \in Slot : Serving(n, {"update"}) =>
          LET c == calls[n].arg
          IN  c.user \in Elements(accounts) =>
                [c.user EXCEPT !.name = IF c.form.name = None THEN @ ELSE c.form.name,
                               !.role = c.form.role] \in Elements(accounts')]_vars

\* A bucket that the page said it has deleted is not in the grid (BucketGrid.tsx:53-61), unless
\* listings overtook each other or its creation was asked for.
DeletedGone ==
    page = "buckets" /\ ~bp.loading /\ ~bp.error /\ ~bp.crossed =>
        bp.grid \intersect (bp.alerted \ bp.tried) = {}

SameDays(rules, others) ==
    /\ Len(rules) = Len(others)
    /\ \A i \in DOMAIN rules : rules[i].days = others[i].days /\ rules[i].noncurrent = others[i].noncurrent

\* A form that was loaded and saved untouched writes the days of the rules it has read, and
\* deletes none: a save cannot come before the rules (LifecycleModal.tsx:236).  A loading
\* that failed is the exception: it leaves a form whose save deletes all (lines 59-62).
RulesKept ==
    [][\A n \in Slot : Serving(n, LcCalls) =>
          LET c == calls[n].arg
          IN  ~c.form.touched /\ c.form.read # "failed" =>
                c.form.read = "ok" /\ SameDays(config'[c.bucket], c.form.got)]_vars
=============================================================================
