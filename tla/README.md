# B2 management: a verification of its stateful core

TLA+ models of the repository `backblaze-management`: a Go API (`src/api`) over
PostgreSQL and the S3 interface of Backblaze B2, and a React client
(`src/frontend`). The models are translated from the code; where a document or a
comment says otherwise, the code is what is modelled and the difference is listed
under *Findings*.

## 1. The system

### Components, their state and their operations

| Component (code) | State | Operations | What makes it correct |
|---|---|---|---|
| Analytics worker pool (`analytics/worker.go` 1-186) | context, wait group, ticker goroutine; per collection two channels and n workers | `Start`, `Stop`, `runOnce`, `worker` | the clean-up comes after the work; `Stop` waits for what it must; collections end |
| Object indexer (`analytics/worker.go` 189-288, `object_index_repository.go` `BulkUpsert`) | `bucket_objects` rows | one indexing run: two paginated listings, one upsert per page | rows written describe the bucket; every page is read |
| `bucket_analytics` table (`bucket_analytics_repository.go`) | a row per bucket | `Upsert`, `EnsureExists`, `DeleteByNames`, reads | rows = buckets that exist |
| Sessions (`auth_handler.go`, `session_repository.go`) | `sessions` rows; `users.is_active`, `deleted_at` | `Login`, `RefreshToken`, `Logout` | a token is exchanged once; revoked stays revoked; a login is not lost |
| Access tokens (`middleware/auth.go`) | none (a signed claim, 8 hours) | `AuthMiddleware`, `RoleMiddleware` | only live tokens, only permitted roles |
| Browser token store (`services/users.ts`, `services/api.ts`, `AuthContext.tsx`) | the pair in `localStorage`, the user on screen | `request` with refresh and retry, `loadUser`, `login`, `logout` | the stored pair works |
| Users (`user_handler.go`, `user_repository.go`, `cmd/seed`) | `users` rows | create, update, toggle, soft delete, list | no lost toggle; deletion is final; e-mails unique |
| Execution logs (`execution_log_handler.go`, `execution_log_repository.go`) | `execution_logs` rows | `CreateLog`, `ListLogs`, `DeleteOlderThan` | old logs go in the end; leafing misses nothing |
| Log clean-up (`analytics/log_cleanup.go`) | context, wait group, ticker goroutine | `Start`, `Stop`, `runOnce` | ends before the database is closed |
| API process (`cmd/api/main.go`) | start and shutdown order | signal, both `Stop`s, `db.Close` | nothing works on a closed database |
| Routes and sign-in (`App.tsx`, `AuthContext.tsx`, `Login.tsx`, `Layout.tsx`, `Header.tsx`) | the page mounted, the user, whose tokens are stored | load, sign in, sign out, navigate, reload | who is signed in sees a page, nobody else does |
| Users page (`pages/Users.tsx`, `UserCard.tsx`, `UserFormDialog.tsx`) | rows, total, page number, search, a form, three dialogs, three flags | list, leaf, search, create, edit, delete, toggle, token | the list is of the page shown, a form saves what was typed, no submission twice |
| Buckets page (`pages/Buckets.tsx`, `BucketGrid.tsx`, `BucketCard.tsx`) | the grid, the form, what is open | list, create, delete, enter | what it said it did is what it shows |
| Lifecycle dialog (`LifecycleModal.tsx`) | the rules as a form | load, edit, save | a save changes nothing the user did not |
| Version dialog (`ObjectVersionModal.tsx`) | the versions of an object | list, delete | its flags end |
| Reports page (`pages/Reports.tsx`) | filters, page number, rows, local search, details | filter, leaf, retry | rows, number of pages and pager are of one filter |
| Dashboard (`pages/Dashboard.tsx`) | one answer | load | |
| Object explorer (`components/ObjectExplorer.tsx` and its modals) | prefix, listing, search, selection | list, search, upload, delete, restore | what is shown belongs to the folder shown |
| Bucket handlers and AWS services (`bucket_handler.go`, `object_handler.go`, `services/`) | none of their own | one SDK call each, the lifecycle document | conversions keep what they carry |
| Configuration, router, migrations, UI widgets | read once, or presentation | | |

### How they interact

* `main` starts the pool and the log clean-up. Each launches one collection or
  clean-up with a bare `go` and one ticker goroutine that is in its wait group and
  calls `runOnce` inline. On a signal, `main` calls both `Stop`s, then closes the
  database; nothing waits for the two bare goroutines.
* A collection lists the buckets, sends one job per bucket to its workers, receives
  one result **per bucket**, and then deletes the rows of all other buckets. A worker
  sends one result **per worker**, when it leaves. Each worker indexes the objects of
  its bucket, one after the other.
* A handler is a sequence of separate SQL statements, never in a transaction except
  for `BulkUpsert`, so requests interleave between statements, and a failed
  statement undoes nothing of those before it.
* The client runs several `request` coroutines over one `localStorage`. Each reads
  the pair when it begins and uses what it read after its awaits.
* A page of the client holds its own state. Its handlers set state, send calls, and
  after an await use the values of the render that sent them. Leaving the page
  throws the state away, but not the calls: what changes something still reaches
  the server.
* The users' table decides whether a login or refresh is served; access tokens are
  checked without the database.

### What is hard to test here

The complete list, each at its line, is `hazards` in `PROJECT.json`. The main
groups: the mismatch between results per worker and results per bucket (a barrier
that opens early or never); two collections of one pool overlapping each other and
`Stop`; pagination over a bucket that changes; read-then-write pairs of
statements by concurrent requests; a refresh cut in two by a failure, a crash or a
lost answer; coroutines that act on the pair they read before an await; offset
pagination over a table that grows at one end and is cleaned up at the other; answers
that arrive in another order, at a dialog that was closed, or after the user has
signed out.

## 2. The modules

Each component has one specification; the `MC` module beside it only adds the
symmetry or the constant expressions of its TLC instance (`MCClientTokens` also states the
one documented claim that the run `client_claim_expired` refutes).

| Module | Models | Code |
|---|---|---|
| `WorkerPool` | the pool, its channels, `Stop`, the `bucket_analytics` rows | `worker.go` 32-186, `bucket_analytics_repository.go` |
| `WorkerPoolClaims` | a sentence of the comments of `worker.go` | |
| `Collections` | what the pool promises, without channels and workers (abstract) | `worker.go` 54-186 |
| `WorkerPoolCollections` | the refinement mapping from `WorkerPool` to `Collections` | |
| `WorkerPoolProofs` | theorems about `WorkerPool`, among them that it implements `Collections` | |
| `ObjectIndexer` | `indexBucketObjects` over a changing bucket | `worker.go` 189-288, `object_index_repository.go` |
| `Sessions` | the three handlers over the sessions table | `auth_handler.go`, `session_repository.go` |
| `Logins` | what the handlers promise of logins, without tokens and statements (abstract) | `auth_handler.go` 36-164 |
| `SessionsLogins` | the refinement mapping from `Sessions` to `Logins` | |
| `ClientTokens` | the browser, **composed with** `Sessions` (which it extends) | `users.ts`, `api.ts`, `AuthContext.tsx` |
| `ExecutionLogs` | logs, their clean-up, the shutdown, the report page, composed | `execution_log_*.go`, `log_cleanup.go`, `main.go`, `Reports.tsx` |
| `Users` | the accounts and the seed | `user_handler.go`, `user_repository.go`, `cmd/seed` |
| `UsersProofs`, `SessionsProofs`, `ClientTokensProofs`, `ObjectIndexerProofs`, `ObjectExplorerProofs`, `ExecutionLogsProofs`, `AppProofs` | theorems about the module each extends | |
| `ObjectExplorer` | the explorer while answers are on their way | `ObjectExplorer.tsx` |
| `Browser` | what all pages share: the page, the user, the calls on their way | `services/*.ts`, `AuthContext.tsx` |
| `UsersPage` | the page, its form and dialogs, the handlers they call | `Users.tsx`, `UserCard.tsx`, `UserFormDialog.tsx`, `user_handler.go` |
| `LifecycleModal`, `VersionModal` | the two dialogs and their handlers | `LifecycleModal.tsx`, `ObjectVersionModal.tsx`, `bucket_handler.go`, `object_handler.go` |
| `BucketsPage` | the grid and the page, **composed with** both dialogs | `Buckets.tsx`, `BucketGrid.tsx`, `BucketCard.tsx`, `bucket_handler.go` |
| `ReportsPage` | the page and its two handlers | `Reports.tsx`, `execution_log_handler.go` |
| `App` | routes, sign-in, navigation, dashboard, **composed with** every page | `App.tsx`, `AuthContext.tsx`, `Login.tsx`, `Layout.tsx`, `Header.tsx`, `Dashboard.tsx` |
| `AppClaims` | a sentence of a comment of `Buckets.tsx` | |

`map` in `PROJECT.json` gives the lines each definition stands for. Definitions
preceded by the word *Mutant* are plausible bugs of the one they precede; nothing
uses them except the mutants that show each property able to fail.

### WorkerPool

State is indexed by the collection ("run"): run 0 is the one `Start` launches, run k
the k-th the ticker goroutine makes. `queue` and `results` are the two buffered
channels; the results channel has room for one value per bucket, and `SendResult`
blocks when it is full. `wg` is the wait group, changed by `WgAdd` and `WgDone` where
the code calls `Add` and the deferred `Done`. `AtSelect` says that the ticker is at
its select, which needs the collection it began last to have returned.
`ListNothing` is both a failed and an empty listing. `outcome` is a
history variable. A bucket's row is absent, a placeholder (`EnsureExists`) or
measured (`Upsert`); sizes are left out, no property tells them apart. Channels are
sets, not queues: workers are interchangeable, and the order of jobs follows that of
a listing nobody depends on.

### Collections and its refinement

The abstract specification knows the rows, the stages of the collections, what each
has listed and has still to settle, and whether the pool was told to stop. A bucket is
settled at most once and in any order, even after its collection is over, and a
clean-up waits until at most `workers - buckets` are unsettled. The mapping: a row is
present when it is not `"absent"`, a run is open between its listing and its return,
`todo` is `Unhandled`, `stopped` is `ctxDone`. Spawning, sending, taking, measuring,
indexing and reporting map to stutters. What the refinement forbids is what
channels could get wrong: a bucket handed out twice, a result counted twice, a clean-up
before its barrier, a ticker that begins a collection too early.

### ObjectIndexer

Keys are 1..LastKey in listing order; a version list holds version numbers and
delete markers, the latest first. The two listings return any page of 1..PageSize
entries, with the continuation the code passes on: the key marker alone in the first
pass (so the next page begins at the **next key**, whatever versions of the last one
were left), the token in the second. `Fail` stops a run at any listing or
upsert. Size and date are a function of the version a row describes, so the row is
`[ver, deleted]`. `touched` is history: the keys changed since the run began.

### Sessions

One action per SQL statement. A refresh token is a random string under a UNIQUE
constraint, so it is written as the place of its row; `usable` is
`revoked_at IS NULL AND expires_at > NOW()`, and `Expire` is the passage of thirty
days. `RefreshToken` is find, revoke, read the user, create; `Revoke` that affects
no row is no error, as in the code. The deactivated user's login goes through
`createAfter401`, since the handler writes the 401 and goes on. `Fail` is a failed
statement anywhere, `Crash` kills the process between any two. History: `from` and
`family` (where a session came from) and `hurt` (the logins that a logout, an expiry,
or a failure between revoke and create may have ended).

### Logins and its refinement

The abstract specification has no rows: it knows which account a request has found, and
of each login whether it has not begun, lives or is over, whose sessions it has had, how
many, and whether it was hurt. The request that found an account may have one session
issued for it, also a deactivated account (the handler goes on after its 401) and also
when the account was deleted in between (the code does not look again): the first of a
new login, or a further one of a login of the same user that lives. A login that was
hurt may be over at any later step; what is over stays over. The mapping: a login is
named by the row of its first session and has the rows of its `family`; it lives while
one of them is usable or a request holds the token of one; a request is admitted while it
is at `create` or `createAfter401`. Finding and revoking a row are no steps of their own.
What the refinement forbids is what takes several requests: a session for a user other
than the one who began the login, two sessions for one lookup, a login that ends because of
another one's logout, and one that a stale token brings back. That a deleted user gains
nothing more is part of it: only an account that is not deleted is admitted, and each
admission is good for one session; `DeletedDriesUp` says the same of the table itself: what a
user still has and may still get only becomes fewer from the deletion on.

### ClientTokens

Extends `Sessions`: task k of the browser uses request k of the server. The actions
run from one await to the next. Whether an access token is still accepted depends on
eight hours that may or may not have passed, so 401 is an open choice
(`FetchUnauthorized`); `MeKnown` needs only a user that is not deleted. A call may
fail in transit before or after the server has served it (`ConnectionLost`), the
page may be reloaded at any time, and a request whose client is gone is still
served. The logout button stays enabled while its call is awaited, so any number of
`Logout` tasks may overlap; each carries the pair it read, and removes whatever is stored
when it ends, also the pair of a login made since. `trouble` is history: an answer for the stored pair may have been
lost.

### ExecutionLogs

The rows are a set; their ids are numbered by insertion, which is the order of
`executed_at` (both it and `created_at` are `NOW()` at insertion; two rows with the
same instant are not modelled). A page holds the rows with at least `offset` and less
than `offset + Limit` newer ones. `Count` and `Data` are the two statements of `List`. The user waits for a load before
the next (`Open`); loads that overtake each other because a filter is changed meanwhile
are in `ReportsPage`. A bucket that
`Verify` found may be deleted by then; the model places no condition on
it, like the code. The clean-up's ticker calls `runOnce` inline; the initial one is
outside the wait group. `stage` is the shutdown up to the closed database.

### Users

`rows` is a function on the ids in use, soft-deleted rows included, because UNIQUE
holds for them too. `UpdateRead`/`UpdateWrite` are the handler's `FindByID` and
`Update` (all columns), `ToggleRead`/`ToggleWrite` the existence check and
`is_active = NOT is_active`. The gender stands for the fields without a constraint;
the avatar is computed from it. History: `toggled`, `want`, `raced`.

### ObjectExplorer

One opening of the dialog, which `Buckets.tsx` mounts anew each time. A user action sets
state and sends a call in one step (React renders between handlers, not within), an
answer is applied in another, in any order. What a handler uses after its await, or a
timer's callback when it fires, are the values of the render that made it, so they are
kept in the call or the timer. A prefix `a/b/` is the sequence of its names, each
ending in a slash; `Split` is what `split("/")` makes of it, with the empty last item.
`listing` and `results` say what was asked for what is on screen, not the rows
themselves. History: `crossed`, `unheard`, `mixed`, `late` and the timer's `changed`.

### Browser, the pages and App

A call is a record in one of `MaxCalls` slots: its kind, its arguments (with the
values of the render that sent it), whose token it carries, and whether the server has
taken it up. The server's half of a call is one action here, since `Sessions` and
`Users` already split the handlers into their statements; the page's half is another,
and what follows an await without another await belongs to the same action
(`FormSaved` closes the form, begins the loading and sends it). A call can fail at any
time before its answer is applied, served or not, so an error is never taken as a proof
that nothing happened. Leaving a page (`Mount`) drops its state; of its calls, those
that change something may still be served (`gone`), the others are forgotten.

* `ui` records stand for the `useState`s of a component. A dialog over the page hides
  everything beneath it (`NoDialog`, `Uncovered`), Escape closes a dialog even while
  its button is disabled.
* The users page: `name` stands for name, surname, email and gender, `role` for the
  other fields that can be edited; both can be left empty in the form, and the handler
  skips what is empty (`MergeFields`). The local search filters the rows at hand and
  clearing it alone loads nothing. A token that arrives late opens its dialog above one of a
  deletion or a toggle, which is still there when the token's is closed (`TokenClosed`).
* The lifecycle dialog: a rule is its prefix and two numbers of days. `ReadRule` is the
  conversion the dialog makes of the answer.
* The version dialog: a bucket holds one object with a history of versions and markers.
* `bp.inside` is the explorer, open or closed; `ObjectExplorer` is about what it does.
* `user` is the state of `AuthContext`, `tokens` says whose pair is in `localStorage`;
  `ClientTokens` is about whether that pair works. `Expires` is the one way in which
  the two come apart: `services/users.ts` gives up refreshing, and removes the pair of a
  user who stays signed in.

## 3. The runs

| Run | Asks | Instance | Distinct states |
|---|---|---|---|
| `pool_rows` | what `Stop` covers, what a clean-up leaves, the refinement | 2 buckets, 1 worker, 2 overlapping collections, 1 change | 1 011 000 |
| `pool_live` | the barrier's slack; collections and `Stop` return | 1 bucket, 2 workers, 2 collections | 119 000 |
| `pool_claim_ticks` | *violated:* scheduled collections go on | 2 buckets, 1 worker | |
| `index` | what indexing writes while the bucket changes; that it ends | 3 keys, pages of at most 2, 1 change, 2 runs | 139 000 |
| `sessions` | what overlapping refreshes, logouts, failures do; the refinement | 2 users, 2 requests, 4 sessions | 178 000 |
| `client` | whether the stored pair works | 1 user, 2 tasks, 3 sessions | 221 000 |
| `client_claim_expired` | *violated:* only a dead pair is removed | the same | |
| `logs` | leafing, retention, shutdown | 3 logs, 2 buckets, pages of 2 | 295 000 |
| `users` | overlapping updates, toggles, deletions | 2 ids, 2 e-mails, 2 genders, 2 requests | 630 000 |
| `explorer` | what is shown when all is quiet | folders 2 deep, 2 texts, 2 calls on their way, 7 actions | 865 000 |
| `app` | the whole frontend: sign-in, pages, dialogs, answers in any order | 2 accounts, 2 buckets, 2 logs, pages of 2 and of 1, 2 calls on their way, 4 actions of the user | 738 000 |
| `app_claim_refresh` | *violated:* a bucket that was created is in the grid | the same | |

### What they show

* **The pool's barrier** (`BarrierSlack`, `CollectsAsPromised`). The wait is a barrier
  only with exactly one worker per bucket. With w workers and b < w buckets the
  clean-up begins with up to w - b buckets unsettled; with b > w it never begins.
  `CleanSyncsRows` states what the clean-up is for, under the conditions that make
  it true. Seen from the table, with overlapping collections, failures and a `Stop` at
  any time, the pool is the abstract `Collections`.
* **Stop** (`StopCoversTicks`, `StopReturns`). The wait group covers the ticker,
  the scheduled collections and their workers, and never goes below zero. It does not
  cover the initial collection.
* **The indexer** (`WritesAreExact`, `CompleteRunIsExact`, `RunEnds`). For a key that
  did not change during the run, every row written is right, also by a run that fails
  half-way; a complete run has written every such key, over any split into pages. Keys
  that change meanwhile may be wrong until the next run.
* **Sessions** (`SpentForGood`, `DeletedDriesUp`, `FamilySurvives`, `LoginsAsPromised`). Two refreshes of
  one token that overlap may both succeed; a revoked token gains nothing after that. A
  login survives any overlap of refreshes, and is lost only to a logout, expiry, or
  a failure between revoke and create. A deleted user gains no session beyond those
  whose creation had already read the user (`DeletedDriesUp`). Seen as a whole, under any interleaving, failure
  and crash, the handlers are the abstract `Logins`.
* **The client** (`StoreBacked`). The stored pair is usable, or a
  request that read it is replacing it, unless the server ended the login or an
  answer was lost. Two logouts may be under way, and the second may end in the middle of
  the next login: it may take the new pair away, but never leaves a dead one in its place.
* **Logs** (`AllSeen`, `OldLogsGo`, `ScheduledBeforeClose`,
  `ShutdownEnds`). Leafing to the end shows every log that was there throughout,
  short of one per log inserted between COUNT and SELECT, although pages are cut by
  offset: insertions shift rows to later pages and retention only removes the last
  ones.
* **Users** (`TogglesKept`, `UpdatesKept`, `DeletedIsFinal`).
  Toggles are never lost, because neither an update nor a read value touches
  `is_active`. Updates of different fields may undo each other, and only they can.

* **Explorer** (`FolderShown`, `TrailLeadsUp`, `ResultsBelong`). Once quiet, it shows the folder and the results it claims to show,
  except after listings or searches that overlapped, an upload whose user moved on,
  or a filter changed during a search: each exception is a history variable that
  only its cause sets and the next undisturbed call resets, and without any one of
  them the property fails.
* **Signing in and out** (`SessionShown`). Whatever sequence of logins, logouts clicked
  twice, reloads, failures of `/auth/me` and expiries: a protected page is only shown to
  a signed-in user, and the login page only when neither user nor tokens are left.
* **Spinners and buttons** (`FlagsHonest`). No page waits for a call that is not under
  way, and no form has two submissions under way, although dialogs can be closed and
  opened again while theirs is, and three of them share one flag.
* **Lists and pagers** (`ListsBelong`, `NotStranded`). A list is of the page and the filter
  its controls show once the last listing was alone. A user is on an empty page only after
  deletions (or the local search), or a listing that overlapped another.
* **Forms** (`SavedAsTyped`, `RulesKept`). A row nobody else changed becomes what was
  typed. A lifecycle form saved untouched keeps the days of all rules, since a save
  cannot come before the rules; a loading that failed is the exception.
* **Dialogs** (`TokenOfDialog`, `DeletedGone`). A token shown belongs to the user the
  dialog is about, unless an earlier dialog was closed while its token was on its way. A
  bucket the page said it deleted is not in the grid, unless listings overtook each other.

### Bounds, and why they are enough

Every bound is a constant, used in a guard: `MaxTicks`, `MaxChanges`, `MaxSessions`,
`MaxRuns`, `MaxLogs`, `MaxDay`, `PageSize`,
`Limit`, `MaxDepth`, `MaxCalls`, `MaxActions`, `MaxMade`, `MaxRules`, `MaxVersions`, `Feed`, `Term`. The instances were chosen so that each
action fires and each property has a bug of the code that breaks it:

* `pool_rows` lists any subset of 2 buckets with 1 worker, so fewer, as many and more
  buckets than workers occur (with none or one listed the collection ends, with two it
  blocks), and `pool_live` has more workers than buckets. More of either is what the
  theorems are for. Two collections are the most that can overlap: the initial one and
  one of the ticker.
* 3 keys with pages of at most 2 entries give a version list longer than a page, two
  pages of either listing, and a key on each side of a page boundary.
* 4 sessions allow two refreshes in a row or two overlapping ones, beside another
  login. `MaxSessions` limits the requests that begin (`Room`), so none is stuck.
* The client run has one account: the pair in the store belongs to whoever signed
  in, and no step compares users. Three sessions are a login, a
  refresh, and a second refresh or login.
* 3 logs with pages of 2 give two pages; one day with a retention of 0 makes logs
  old while others are not.
* `users` has as many ids as e-mails, so a unique violation, a reuse of a deleted
  address and two live accounts all occur.

* Each exception of `explorer`'s properties comes about within two user actions; seven
  let them combine and be repaired. Two calls on their way are what overlapping takes, and a folder two
  deep has a trail with an item above, itself and the empty one.
* `app`: each exception of its properties comes about within three actions, the fourth is
  for what follows. Two calls on their way are what answers in another order, a second
  submission and a deletion during a listing take. Pages of two users against three
  accounts give a full page, a last page with one row, and one that vanishes; one log
  per page gives two. One set of rules can be read by the dialog, the other cannot; one
  bucket can be deleted, the other is refused. Logs arrive and are cleaned only while
  the reports page is open, where alone they can be seen (`Elsewhere`), and once per visit
  (`cleaned`).

`CHECK_DEADLOCK FALSE` stands where the system may stop: the pool after `Stop`, or
blocked for ever (a finding), the indexer after its last run, and the
explorer and the app after the user's last action.

Symmetry is used in the runs without liveness, over identities nothing compares or
orders.

### Fairness

* `WorkerPool`: every goroutine that can run does run (`WF` per goroutine), calls to B2
  and the database are answered, a waiting `Stop` is woken. Nothing makes a tick or a
  signal happen. Weak fairness suffices: once a goroutine can move, only its
  own step changes that, except for receives on shared channels, where another worker
  takes the job and the argument starts over with fewer jobs.
* `ObjectIndexer`: the worker goroutine goes on, its calls are answered.
* `ExecutionLogs`: ticks keep coming and goroutines run (`WF`); Go's select chooses at
  random among its ready cases, so a case that is ready again and again is taken
  (`SF` on `TickerExits`), and the database does not fail on every tick for ever (`SF`
  on `TickDeletes`). `OldLogsGo` needs the second, `ShutdownEnds` the first.
* No fairness is assumed of users, requests, clocks or failures, so nothing is said of
  what the pages will eventually show.

## 4. What is proved

`WorkerPoolProofs` proves, for **any** finite sets of buckets and workers
(also with no workers), any `Indexed`, and any `MaxTicks` and `MaxChanges`:

| Theorem | States | Checked by |
|---|---|---|
| `TypeCorrect` | `TypeOK` | `pool_rows` |
| `ResultsCorrect` | `ResultsAreExits` | no run: a lemma of its own interest |
| `CleanNeedsWorkersCorrect` | `CleanNeedsWorkers` | no run: follows from it |
| `CounterCorrect` | `CounterCoversLive` | no run: what `StopCorrect` rests on |
| `StopCorrect` | `StopCoversTicks` | `pool_rows` |
| `BarrierCorrect` | `BarrierSlack` | `pool_live` |
| `Refinement` | `CollectsAsPromised`: `Spec => Abstract!Spec` | `pool_rows` |
| `CleanSyncsCorrect` | `CleanSyncsRows` | `pool_rows` |

The assumptions are the named `ASSUME`s of `WorkerPool`: the two sets are finite,
`NoJob` is no bucket, the bounds are natural numbers.

The argument goes in six layers, each an inductive invariant relative to the ones
before it.

1. `TypeInv`: the types, and `HandOK`, that a worker at work has a job in its hand.
   Without `HandOK`, `SaveRow` could write a row for `NoJob`.
2. `CountInv`: `ResultsAreExits`, and `CollectOK`, that a collection at its clean-up
   has received as many results as it listed buckets. The two give
   `CleanNeedsWorkers`: received results are at most the workers.
3. `TickOK` (collections of the ticker begin and end one after the other), then
   `CounterCoversLive` by counting the live workers, then `StopCoversTicks`: the
   counter is zero only with the ticker and all workers gone, and after that no
   tick can begin.
4. `SlackInv`: `DrainOK` (unless `Stop` was called, a worker that reported has seen the
   closed, empty channel), `PendingOK` (a bucket without outcome is unsent, queued
   or in some worker's hand), `SentOK` (nothing is unsent after the channel is
   closed). At the clean-up at least `b` of `w` workers have reported, so the channel
   is empty and the unsettled buckets are in the hands of at most `w - b` workers.
5. `LinkInv`, for the refinement: `FreshOK` (a collection that has not listed has touched
   nothing, so a listing makes *all* its buckets unsettled), `WaitingOK` and `SoloOK` (an
   unsettled bucket that is to be sent, in the channel or in a hand is in only one of
   these places, so saving a row settles a bucket that was unsettled, and no second
   worker settles it again), `StopOK`. `RunRefines` and `WorkerRefines` then map every
   action to an abstract one or a stutter; `CleanRows` needs layer 4.
6. `SavedOK` (a saved bucket has its row, unless another collection listed fewer buckets),
   for `CleanSyncsRows`: with as many workers as buckets, layer 4 leaves nothing
   unsettled at the clean-up.

`UsersProofs` proves what the run `users` checks of the accounts, for **any** sets of ids,
addresses, genders and requests:

| Theorem | States | Checked by |
|---|---|---|
| `TypeCorrect` | `TypeOK`, with it that no two rows share an email | `users` |
| `DeletedStaysFinal` | `DeletedIsFinal` | `users` |
| `TogglesCorrect` | `TogglesKept` | `users` |
| `UpdatesCorrect` | `UpdatesKept` | `users` |

It assumes `BlankAssumption` and `NoIdAssumption` of `Users`. `TypeInv` adds `TargetOK` to
the types: a request that works on no row holds no id. Without it an insert could give a
row the id that an idle request still holds, and the equivalence between a request's
place and its id would break. `TogglesKept` and `UpdatesKept` are inductive given `TypeInv`: the first
because no update writes `is_active` and a new row's id was never toggled; the second
because an update either finds the columns it had read, so the fields it leaves blank are
still what was wanted, or marks the row as raced.

`SessionsProofs` and `ClientTokensProofs` are about **any** accounts, any finite set of
requests or tasks, and any bound on the table:

| Theorem | States | Checked by |
|---|---|---|
| `Sessions` `TypeCorrect` | `TypeOK` | `sessions` |
| `FamiliesSurvive` | `FamilySurvives` | `sessions` |
| `SpentStaysSpent` | `SpentForGood` | `sessions` |
| `DeletedUsersDryUp` | `DeletedDriesUp` | `sessions` |
| `LoginsImplemented` | `LoginsAsPromised`: `Sessions` implements `Logins` | `sessions` |
| `ClientTypeCorrect` | `ClientTypeOK` | `client` |
| `StoredPairBacked` | `StoreBacked` | `client` |

`TypeInv` adds `ServeOK`: a request that holds a token holds one of a row, a family is the
row of its login, and the table has room for a row of each request in progress (the guard
of the bound is at the beginning of a request, its row comes later). `FamilySurvives`
is inductive given that. The two action properties are counting arguments: what a spent
token, or a deleted user, is still good for is a sum over rows and requests, and a
step that adds a row takes away the request it was for.

`LoginsImplemented` needs, beside these, `Owned`: a login is named by its own first row,
all its rows are of one user, and a request works for the owner of the token it holds,
also after it has read the user again. `StepKinds` sorts the steps: an account found
(`Admit`), a session created (`Begin` without a token held, `Renew` with one), an account
changed (`Change`), and all others, which are `Quiet` and map to `Lose`, possibly of
nothing. That a quiet step revives no login holds because a request only comes to hold a
token that is usable; that whatever it ends was hurt is `FamilySurvives` of the next state.

The client's
`LinkInv` says who else may know a pair: one on its way to a task is known to no other
task, request or store (`HandOver`), a request in progress is that of its task
(`OwnRequest`), and only a task that awaits the answer has the stored pair exchanged
(`StoreHolders`). Without the last a request abandoned by a reload could spend the stored
pair with nobody to take the new one; the model marks that as `trouble`, and
`StoreHolders` is why nothing else needs marking. `StoreBacked` is inductive relative to it.

`ObjectIndexerProofs` is about any number of keys, any versions they have, any page size,
and any number of changes and runs; `ObjectExplorerProofs` about any names, depth, texts
and calls; `ExecutionLogsProofs` about any buckets, requests, retention and page size:

| Theorem | States | Checked by |
|---|---|---|
| `IndexTypeCorrect` | `TypeOK` | `index` |
| `NoWrongRow` | `WritesAreExact` | `index` |
| `CompleteRunExact` | `CompleteRunIsExact` | `index` |
| `ObjectExplorer` `TypeCorrect` | `TypeOK` | `explorer` |
| `TrailIsAncestors` | `TrailLeadsUp` | `explorer` |
| `ShownIsCurrent` | `FolderShown` | `explorer` |
| `ResultsAreOfTheText` | `ResultsBelong` | `explorer` |
| `ExecutionLogs` `TypeCorrect` | `TypeOK` | `logs` |
| `NothingSkipped` | `AllSeen` | `logs` |
| `CloseWaits` | `ScheduledBeforeClose` | `logs` |

* **Indexer.** `IndexInv`, about the keys that did not change since the run began: what the
  first listing found deleted is deleted (`MarkersTrue`), it has found all up to its
  marker and in the end all (`MarkersFound`), the batch is right (`BatchExact`), and the
  second listing has written all up to its token but for the batch in hand
  (`ContentsWritten`). What makes it inductive is that a page holds, with a key, every
  key between the marker and it (`ContentPagePrefix`, `VersionPagePrefix`).
* **Explorer.** `ShownInv`: while no listing crossed another, each one on its way is for the
  current folder and filter, and so is what is shown when none is. `ResultsInv`: the timer
  will search for the text in the box (`TimerInv`), and a search on its way that is alone
  is for it (`AskedInv`). The trail is inductive by the lemmas on paths. The proof needs
  `NoTimerAssumption`: a timer that is set is not mistaken for none.
* **Logs.** `LeafInv`: every row that was there throughout and was not seen has at least
  `page * Limit` newer rows once the page is shown (`BehindInv`). Insertions only put
  more rows ahead; retention takes none of those ahead, because they are not older, which is
  where the order of ids and days in `TypeOK` is needed. `CountInv` bounds the rows by the
  total that was counted and what slipped in, so that on the last page the rows ahead leave
  no place for more than `slips` missing ones (`LastInv`). `TypeInv` adds that the rows
  are finitely many and no more than were sent.

`AppProofs` is about the pages as they are composed in `App`, for any number of calls at
once, any accounts, buckets with any contents and rules, any number of logs, and any page
size and bounds:

| Theorem | States | Checked by |
|---|---|---|
| `SignedInSeesPages` | `SessionShown` | `app` |
| `FlagsAreHonest` | `FlagsHonest` | `app` |
| `TokenBelongs` | `TokenOfDialog` | `app` |
| `SavesKeepTheRules` | `RulesKept` | `app` |
| `UpdatesAsTyped` | `SavedAsTyped` | `app` |
| `DeletedBucketsGone` | `DeletedGone` | `app` |
| `TypesHold` | `AppTypeOK` | `app` |
| `ListsAreOfTheirPage` | `ListsBelong` | `app` |
| `NobodyStranded` | `NotStranded` | `app` |

`AppInv` is inductive, and gives the first three. It has three parts:

* `CallsOK`: a slot holds nothing, a call that the page at hand waits for, or one that was
  left and may only still be served.
* `SessionInv`: who is shown is whose pair is stored, up to an expiry; the call of
  `AuthContext` carries that pair, and its answer is of that user.
* `PagesInv`, page by page: each flag is up with exactly the one call it stands for
  (`One`), not only with some call, because a second call of the kind would put the flag
  down early; the token in a dialog is of the user the dialog is about; a page that is not
  shown has no call and no flag. `Moved` and `Stayed` say what a step of one page leaves of
  the others, so that each page is proved by itself; `AuthMoves` does the same for the steps
  that put one page in the place of another.

The others are invariants relative to `AppInv`, of the page each is about:

* `RulesInv`: a form that was read and not touched since holds the rules as they were read,
  through every step of the dialog, and a saving carries the form it was sent from, which had
  finished loading. `ServerParts` says what each service of the storage leaves alone.
* `SaveInv`: the ids of the rows are their own and none was given later than the counter
  says; an update carries the difference between the row its form was opened on and the
  form (`Diff`), and writing that difference over the same row gives what was typed
  (`DiffMerged`).
* `GridInv`: a bucket whose deletion was answered, or that a listing ends the deletion of, is
  gone, or someone asked to make it anew (`Dead`, `DeadCalls`). While listings come in
  turn (`InTurn`), the one that is on its way was served after the last deletion, or will be,
  so neither it nor the grid shows such a bucket.
* `UsersListInv`, for the users' half of `ListsBelong` and `NotStranded`: every call carries
  the page of a render that was (`UsersAsk`); while the last listing is sure, it and the
  rows are of the page at hand (`UsersList`); and as long as no account was deleted, every page
  that is at hand, asked for or shown is there (`UsersFull`), for the pager leads no
  further than a total that was once counted, and accounts are only added since. That a
  page is there without a search is said by numbers, `Inside(p, total, size)`; `PageRows`
  makes rows of it.
* `ReportsListInv`, for the half of the logs. Here pages are counted among the logs that pass a
  filter, so the same needs more: the rows pass the filter they were asked with
  (`AllPass`), a changed filter begins at page 1, and a log that arrives leaves no
  fewer that pass any filter (`There`, `ThereGrows`). Arriving logs never take a page away;
  a clean-up may, which is what `cleaned` is for. `sure` must also remember that the pager
  was used on rows of the filter at hand: an answer of an earlier filter that lands last
  brings the number of pages of that filter, and the next page may not be there.
* `TypesInv`: the buckets there ever are and those whose creation was asked for are named, an
  object has no more versions than the bound, and no step clicks twice. With the
  others it gives `AppTypeOK`; that pagers stay on pages there may be is part of
  `UsersAsk` and `ReportsAsk`.

The two lists rest on what a query makes of a table. `Filtered` (`Browser`) is a recursive
function over the length of the table, so its properties are proved by induction on that
length, with `UpTo` for the induction: it speaks of a set of numbers, where the library's
theorem takes an operator. The rows are rows of the table, each in `K`
(`FilteredProperties`), and a row put ahead takes none away (`FilteredGrows`).

All rest on the named `ASSUME`s of their modules and on nothing else: bounds are natural
numbers, requests are finite, a page has room for a row, special values differ from
the others (`UsersAssumption`: an empty field is no name and no role), and what the
databases hold when the tab is opened is well formed (`AppAssumption`: ids are unique and
were given in turn, buckets hold versions within the bound, rules are such as the dialog can
write, and the logs are the first of the feed).

One proof found a fault of the model. What `LifecycleSaved` makes of each call was a `CASE`
whose guards overlap (the answered saving is one of the dialog's savings), and TLA+ leaves
open which arm is taken then; TLC takes the first, as was meant. It is now a conditional.

Only model-checked:

* Liveness, since temporal reasoning with fairness and ENABLED is out of the prover's reach:
  `RunsReturn`, `StopReturns`, `RunEnds`, `OldLogsGo`, `ShutdownEnds`.

## 5. Findings

* `pool_claim_ticks`: with fewer workers than buckets (two workers by default) the
  first scheduled collection never returns, and none is made again.
* `client_claim_expired`: a refresh that is refused late removes whatever pair
  is stored then, also one from a new login.
* `app_claim_refresh`: after a bucket was created nothing loads the grid, which
  "will automatically refresh" (`Buckets.tsx` 49).

Met while modelling, without a run of their own:

The pool:

* `worker.go` 125 says that the loop waits for all workers; with more workers than
  buckets the clean-up begins while a worker is at work (`BarrierSlack` says how many).
* With more than twice as many workers as buckets, workers block in sending their
  result for ever (the channel has room for one per bucket, and one per bucket is
  received), and `Stop` hangs. `pool_live` stays below that.
* The initial collection may write after `Stop` has returned and the database is
  closed (it is in no wait group; its workers are, but may be spawned later).
* A bucket created after a collection has listed the buckets, and indexed by an
  overlapping one, loses its row to the first one's clean-up until the next.

The explorer and the version dialog:

* Changing "Exibir Objetos excluídos" during a search repeats the search with the filter
  as it was before the change (`ShowDeletedChange`), so box and results disagree.
* The trail of a folder entered by a click ends in an empty item that leads to a prefix
  with two slashes, where there is nothing.
* Deleting a version deletes the object instead (`ObjectVersionModal.tsx` 77): a marker
  is put on top, the version stays and is listed again, under the message "Versão
  deletada com sucesso!". After that the row marked "Versão Atual" is a noncurrent one.
* Versions are listed by `Prefix = key`, which also finds those of other keys that begin
  with it; an empty list arrives as JSON `null`, on which `versions.length` throws. The
  model has one object per bucket and a version of it whenever the dialog opens
  (`OpenVersions`).

Signing in:

* `loadUser` clears a good pair on any failure of `/auth/me`, also an expired access
  token, since paths with `/auth/` are never refreshed.
* The end of a second click on "Sair" may fall into a later login and end it.
* A refresh refused in `services/users.ts` removes the tokens while the user stays
  signed in, until the next reload.

Users and reports:

* The password typed when a user is edited is never sent (`UserFormDialog.tsx` 69-75),
  although the form has the field.
* Deleting the last row of the last page leaves the user on an empty page; so does a
  search text that was typed but not submitted, when the pager then uses it.
* A form or a confirmation that ends late loads the page it was opened on, under
  the page number of now (`ListsBelong` excepts it).
* A token that arrives after its dialog was closed, and another user's was opened, is
  shown in the latter.
* In the reports a slow answer of an earlier filter may land last: the rows and the
  number of pages are the old filter's, and "next" leads to an empty page that has no
  pager. The filter "error" asks for exit code 1 only, while any code but 0 is shown as
  an error.

Buckets:

* The prefix of a rule lies under `Filter` in the answer and is not read, so saving a
  form makes a rule for a prefix one for the whole bucket.
* Rules without `NoncurrentVersionExpiration` and a loading that failed are both shown
  as no rules; "Salvar" then deletes all.
* A save that succeeds late closes the lifecycle dialog of whatever bucket is open then.

## 6. Not modelled

* Generated user interface components and toasts: no state of their own that changes
  anything else. The grid's local filter and the figures of cards and dashboard are
  computed while rendering.
* Configuration (values read once are constants) and running the migrations (their
  constraints are in the models).
* Read-only queries (`SearchObjects`, the numbers of `bucket_analytics`), downloads, and
  functions without a caller.
* Password hashing and JWT signatures, which are an open choice of outcome.
* In `App`, other browsers and administrators at the same time: `Users` and `Sessions` are
  about concurrent requests. The double effects of React's development mode.
* `main`'s two `Stop`s in sequence with the server's requests still running: each
  shutdown is modelled with its own component.

`PROJECT.json` names the reason for each component.

## 7. Plan

Written so far: `WorkerPool` first, as the most intricate part, then `ObjectIndexer`,
`Sessions`, `ClientTokens`, `ExecutionLogs`, `Users` and `ObjectExplorer`; then the pages,
composed as `App`; then `Collections` and `Logins`, with the proofs that the pool and
`Sessions` implement them; then theorems for the safety
properties of every module.
To come: two indexers over one table (the initial and the scheduled collection may index
the same bucket) as a further instance of `ObjectIndexer`; the pool, the log clean-up and
the database of `main` composed.
