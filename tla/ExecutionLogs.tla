--------------------------- MODULE ExecutionLogs ---------------------------
(***************************************************************************)
(* The execution_logs table and everything that works on it: CreateLog and *)
(* ListLogs of execution_log_handler.go, the clean-up of log_cleanup.go    *)
(* with its shutdown (main.go), and a user who leafs through the report    *)
(* page (frontend pages/Reports.tsx), which asks for one page at a time.   *)
(***************************************************************************)
EXTENDS Integers, FiniteSets

CONSTANTS
    Bucket,     \* names of buckets
    Request,    \* CreateLog requests that may be in progress at once
    Retention,  \* LOG_RETENTION_DAYS
    Limit,      \* rows of a page (20 in Reports.tsx)
    MaxLogs,    \* bound: logs ever sent
    MaxDay,     \* bound: days that pass
    NoBucket    \* no request, or no filter

ASSUME LimitAssumption == Limit \in Nat \ {0}
ASSUME RetentionAssumption == Retention \in Int
ASSUME BoundAssumption == MaxLogs \in Nat /\ MaxDay \in Nat
ASSUME NoBucketAssumption == NoBucket \notin Bucket

VARIABLES
    logs,     \* the rows; the order of their ids is that of executed_at (= created_at: both NOW())
    sent,     \* rows ever inserted
    today,
    pending,  \* per request, the bucket it has verified, or NoBucket
    initial,  \* the clean-up begun by Start: "delete" or "over"
    ticker,   \* its goroutine: "select", "delete" or "exited"
    stage,    \* the shutdown: "up", "cancelled", "waited" or "closed"
    view,     \* the report page: [pc, filter, page, total]
    seen,     \* history: rows shown since the user began to leaf
    whole,    \* history: rows of the filter that were there all that time
    slips     \* history: rows inserted between the two queries of a page since then

tableVars == <<logs, sent, today>>
cleanVars == <<initial, ticker, stage>>
viewVars == <<view, seen, whole>>
vars == <<tableVars, pending, cleanVars, viewVars, slips>>

Log == [id : 1 .. MaxLogs, bucket : Bucket, day : 0 .. MaxDay]

-----------------------------------------------------------------------------
(* Statements of the repository *)

Matches(l, filter) == filter \in {NoBucket, l.bucket}
Filtered(filter) == {l \in logs : Matches(l, filter)}

\* The rows ahead of l when the newest come first.  Mutant: the oldest come first.
OlderThan(rows, l) == {m \in rows : m.id < l.id}
NewerThan(rows, l) == {m \in rows : m.id > l.id}

\* LIMIT, OFFSET: less is returned near the end, nothing beyond it.
PageOf(rows, page) ==
    LET offset == (page - 1) * Limit
    IN  {l \in rows : Cardinality(NewerThan(rows, l)) \in offset .. offset + Limit - 1}

TotalPages(total) == (total + Limit - 1) \div Limit

\* Mutant: one day more.
DayLate(l) == today - l.day > Retention + 1
Old(l) == today - l.day > Retention

DeleteOlderThan ==
    /\ logs' = {l \in logs : ~Old(l)}
    /\ whole' = whole \intersect logs'

-----------------------------------------------------------------------------
(* CreateLog *)

\* The service lists the bucket, which anyone may delete before the row is inserted.
Verify(r, b) ==
    /\ pending[r] = NoBucket
    /\ pending' = [pending EXCEPT ![r] = b]
    /\ UNCHANGED <<tableVars, cleanVars, viewVars, slips>>

Insert(r) ==
    /\ pending[r] # NoBucket /\ stage # "closed" /\ sent < MaxLogs
    /\ LET l == [id |-> sent + 1, bucket |-> pending[r], day |-> today]
       IN  /\ logs' = logs \union {l}
           /\ slips' = slips + IF view.pc = "data" /\ Matches(l, view.filter) THEN 1 ELSE 0
    /\ sent' = sent + 1
    /\ pending' = [pending EXCEPT ![r] = NoBucket]
    /\ UNCHANGED <<today, cleanVars, viewVars>>

InsertFails(r) ==
    /\ pending[r] # NoBucket
    /\ pending' = [pending EXCEPT ![r] = NoBucket]
    /\ UNCHANGED <<tableVars, cleanVars, viewVars, slips>>

NextDay ==
    /\ today < MaxDay
    /\ today' = today + 1
    /\ UNCHANGED <<logs, sent, pending, cleanVars, viewVars, slips>>

-----------------------------------------------------------------------------
(* LogCleanup *)

Clean == stage # "closed" /\ DeleteOlderThan
CleanFails == UNCHANGED <<logs, whole>>
CleanFrame == UNCHANGED <<sent, today, pending, view, seen, slips>>

InitialRun ==
    /\ initial = "delete"
    /\ Clean \/ CleanFails
    /\ initial' = "over"
    /\ CleanFrame /\ UNCHANGED <<ticker, stage>>

\* Mutant: the loop without case <-lc.ctx.Done().
NotSeen == FALSE
Cancelled == stage # "up"

\* select takes either case when both are ready, so a tick also after the cancellation.
Tick ==
    /\ ticker = "select"
    /\ ticker' = "delete"
    /\ CleanFrame /\ UNCHANGED <<logs, whole, initial, stage>>

TickDeletes ==
    /\ ticker = "delete"
    /\ Clean
    /\ ticker' = "select"
    /\ CleanFrame /\ UNCHANGED <<initial, stage>>

TickFails ==
    /\ ticker = "delete"
    /\ CleanFails
    /\ ticker' = "select"
    /\ CleanFrame /\ UNCHANGED <<initial, stage>>

TickerExits ==
    /\ ticker = "select" /\ Cancelled
    /\ ticker' = "exited"
    /\ CleanFrame /\ UNCHANGED <<logs, whole, initial, stage>>

\* Mutant: wg.Wait without wg.Add.
NothingToWaitFor == TRUE
WaitReturns == ticker = "exited"

\* A signal: LogCleanup.Stop, then db.Close, then exit; the goroutine that Start began
\* for the first clean-up is not waited for.
Stopping(from, to) == stage = from /\ stage' = to /\ UNCHANGED <<tableVars, pending, initial, ticker, viewVars, slips>>
Cancel == Stopping("up", "cancelled")
StopReturns == WaitReturns /\ Stopping("cancelled", "waited")
CloseDB == Stopping("waited", "closed")

-----------------------------------------------------------------------------
(* ListLogs, as the report page calls it *)

ViewStep == UNCHANGED <<tableVars, pending, cleanVars>>

Closed == [pc |-> "idle", filter |-> NoBucket, page |-> 1, total |-> 0]

\* A filter is chosen, or the page is opened: setPage(1).  One load at a time: what becomes
\* of loads that overtake each other when the filter is changed meanwhile is in ReportsPage.
Open(filter) ==
    /\ view.pc \in {"idle", "shown"}
    /\ view' = [pc |-> "count", filter |-> filter, page |-> 1, total |-> 0]
    /\ seen' = {} /\ slips' = 0
    /\ whole' = Filtered(filter)
    /\ ViewStep

Count ==
    /\ view.pc = "count" /\ stage # "closed"
    /\ view' = [view EXCEPT !.pc = "data", !.total = Cardinality(Filtered(view.filter))]
    /\ ViewStep /\ UNCHANGED <<seen, whole, slips>>

Data ==
    /\ view.pc = "data" /\ stage # "closed"
    /\ view' = [view EXCEPT !.pc = "shown"]
    /\ seen' = seen \union PageOf(Filtered(view.filter), view.page)
    /\ ViewStep /\ UNCHANGED <<whole, slips>>

\* Mutant: the button is never disabled.
AlwaysNext == view.pc = "shown"
HasNext == view.pc = "shown" /\ view.page < TotalPages(view.total)

NextPage ==
    /\ HasNext
    /\ view' = [view EXCEPT !.pc = "count", !.page = @ + 1]
    /\ ViewStep /\ UNCHANGED <<seen, whole, slips>>

PreviousPage ==
    /\ view.pc = "shown" /\ view.page > 1
    /\ view' = [view EXCEPT !.pc = "count", !.page = @ - 1]
    /\ ViewStep /\ UNCHANGED <<seen, whole, slips>>

\* An error is shown in the place of the page.
LoadFails ==
    /\ view.pc \in {"count", "data"}
    /\ view' = Closed
    /\ seen' = {} /\ whole' = {} /\ slips' = 0
    /\ ViewStep

-----------------------------------------------------------------------------
Init ==
    /\ logs = {} /\ sent = 0 /\ today = 0
    /\ pending = [r \in Request |-> NoBucket]
    /\ initial = "delete" /\ ticker = "select" /\ stage = "up"
    /\ view = Closed
    /\ seen = {} /\ whole = {} /\ slips = 0

Next ==
    \/ \E r \in Request : Insert(r) \/ InsertFails(r) \/ \E b \in Bucket : Verify(r, b)
    \/ NextDay
    \/ InitialRun \/ Tick \/ TickDeletes \/ TickFails \/ TickerExits
    \/ Cancel \/ StopReturns \/ CloseDB
    \/ \E filter \in Bucket \union {NoBucket} : Open(filter)
    \/ Count \/ Data \/ NextPage \/ PreviousPage \/ LoadFails

Spec == Init /\ [][Next]_vars

\* Ticks keep coming and goroutines run (weak fairness); select is fair between its
\* cases and the database does not fail forever (strong fairness).
FairSpec ==
    /\ Spec
    /\ WF_vars(Tick) /\ WF_vars(TickDeletes \/ TickFails) /\ SF_vars(TickDeletes)
    /\ SF_vars(TickerExits)
    /\ WF_vars(StopReturns) /\ WF_vars(CloseDB)

-----------------------------------------------------------------------------
(* Properties *)

\* The state keeps its types, and the ids of the rows tell the order of their insertion.
TypeOK ==
    /\ logs \subseteq Log /\ sent \in 0 .. MaxLogs /\ today \in 0 .. MaxDay
    /\ \A l, m \in logs : (l.id = m.id => l = m) /\ (l.id < m.id => l.day <= m.day)
    /\ \A l \in logs : l.id <= sent /\ l.day <= today
    /\ pending \in [Request -> Bucket \union {NoBucket}]
    /\ initial \in {"delete", "over"} /\ ticker \in {"select", "delete", "exited"}
    /\ stage \in {"up", "cancelled", "waited", "closed"}
    /\ view \in [pc : {"idle", "count", "data", "shown"}, filter : Bucket \union {NoBucket},
                 page : 1 .. MaxLogs + 1, total : 0 .. MaxLogs]
    /\ seen \subseteq Log /\ whole \subseteq logs /\ slips \in 0 .. sent

\* A user who has leafed from the first page to the last, also back and forth, has
\* seen every log that was there all the time, whatever is sent and cleaned up
\* meanwhile, except for at most one per log that arrived between the COUNT and the
\* SELECT of a page (List).
AllSeen ==
    view.pc = "shown" /\ view.page >= TotalPages(view.total) => Cardinality(whole \ seen) <= slips

\* A scheduled clean-up never meets a closed database: Stop waits for the goroutine.
ScheduledBeforeClose == stage \in {"waited", "closed"} => ticker = "exited"

\* While the server is up, a log that has become too old is removed in the end, also
\* when single clean-ups fail.
OldLogsGo ==
    \A id \in 1 .. MaxLogs :
        (\E l \in logs : l.id = id /\ today - l.day > Retention)
            ~> ((\A l \in logs : l.id # id) \/ stage # "up")

\* The shutdown gets through to the closed database, also from the middle of a clean-up.
ShutdownEnds == stage = "cancelled" ~> stage = "closed"
=============================================================================
