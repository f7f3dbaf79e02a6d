---------------------------- MODULE ReportsPage ----------------------------
(***************************************************************************)
(* pages/Reports.tsx: the table of execution logs with its filters, its    *)
(* pages and its local search.  ExecutionLogs.tla is about the table       *)
(* behind it; here logs only arrive and are cleaned.                       *)
(***************************************************************************)
EXTENDS Browser

CONSTANTS
    Limit,  \* rows of a page (20 in Reports.tsx)
    Term,   \* bound: what is typed into the search, names of buckets and exit codes
    Feed    \* bound: the logs that are ever sent, in order

Exit == 0 .. 2
Log == [id : 1 .. Len(Feed), bucket : Bucket, exit : Exit]
ASSUME ReportsAssumption ==
    /\ Limit \in Nat \ {0} /\ Term \subseteq Bucket \union Exit
    /\ Feed \in Seq(Log) /\ \A i \in DOMAIN Feed : Feed[i].id = i

VARIABLES
    rp,    \* the component's state
    logs,  \* execution_logs, the newest first
    sent   \* how many of the feed were ever there

reportsDb == <<logs, sent>>
Status == {"success", "error"}
\* Mutant: the filter of the render before.
FilterBefore(ui) == [page |-> rp.page, bucket |-> rp.bucket, status |-> rp.status]
FilterOf(ui) == [page |-> ui.page, bucket |-> ui.bucket, status |-> ui.status]
Filter == FilterOf(rp)
FirstFilter == [page |-> 1, bucket |-> None, status |-> None]
LogsIn(rows) == {rows[i] : i \in DOMAIN rows}

\* of, sure and cleaned are history: what the rows were asked with; whether that listing
\* was alone, and those whose pager led to its page; whether a log was cleaned since the
\* page was opened (once at most, a bound).
FreshReports ==
    [rows |-> <<>>, pages |-> 1, page |-> 1, bucket |-> None, status |-> None, term |-> None,
     loading |-> TRUE, error |-> FALSE, selected |-> None, options |-> {},
     of |-> FirstFilter, sure |-> TRUE, cleaned |-> FALSE]

-----------------------------------------------------------------------------
(* The handlers, and what happens to the table *)

\* "error" asks for the exit code 1; whatever is not 0 is shown as an error.
Passes(l, filter) ==
    /\ filter.bucket \in {None, l.bucket}
    /\ filter.status = "success" => l.exit = 0
    /\ filter.status = "error" => l.exit = 1
Passing(filter) == Filtered(logs, {l \in Log : Passes(l, filter)})

ListLogs(n) ==
    LET w == calls[n].arg
        found == Passing(w)
    IN  /\ Arriving(n, "logs") /\ ByAdmin(n)
        /\ Served(n, [rows |-> SubSeq(found, (w.page - 1) * Limit + 1, MinOf(w.page * Limit, Len(found))),
                      pages |-> (Len(found) + Limit - 1) \div Limit])
        /\ UNCHANGED reportsDb

ListLogBuckets(n) ==
    /\ Arriving(n, "logBuckets") /\ ByAdmin(n)
    /\ Served(n, {l.bucket : l \in LogsIn(logs)}) /\ UNCHANGED reportsDb

LogArrives == sent < Len(Feed) /\ sent' = sent + 1 /\ logs' = <<Feed[sent']>> \o logs /\ UNCHANGED rp
LogsCleaned ==
    /\ logs # <<>> /\ ~rp.cleaned /\ logs' = SubSeq(logs, 1, Len(logs) - 1) /\ UNCHANGED sent
    /\ rp' = [rp EXCEPT !.cleaned = TRUE]

-----------------------------------------------------------------------------
(* The page.  Without the role of an admin the user sees nothing of it, but its effects *)
(* have sent their calls.                                                               *)

RpDo(ui) == page = "reports" /\ user = "admin" /\ Act /\ rp' = ui /\ UNCHANGED reportsDb
RpThen(ui) == rp' = ui /\ UNCHANGED <<reportsDb, acts>>

\* loadLogs, which runs whenever the page or a filter has changed.
LogsAsked(ui) ==
    /\ RpDo([ui EXCEPT !.loading = TRUE, !.error = FALSE, !.sure = Mine({"logs"}) = {} /\ (@ \/ ui.page = 1)])
    /\ Send("logs", FilterOf(ui))

\* The rows that pass the local search: by bucket or exit code.
Displayed == SelectSeq(rp.rows, LAMBDA l : rp.term \in {None, l.bucket, l.exit})
Table == ~rp.loading /\ ~rp.error /\ Displayed # <<>>

TypeTerm(t) == t # rp.term /\ RpDo([rp EXCEPT !.term = t]) /\ Quiet

\* A changed filter begins at the first page.
FromFirst(ui) == [ui EXCEPT !.page = 1]

PickBucket(b) ==
    /\ b \in rp.options \union {None} /\ FromFirst([rp EXCEPT !.bucket = b]) # rp
    /\ LogsAsked(FromFirst([rp EXCEPT !.bucket = b]))
PickStatus(s) ==
    /\ FromFirst([rp EXCEPT !.status = s]) # rp
    /\ LogsAsked(FromFirst([rp EXCEPT !.status = s]))

\* The buttons are below the table, and only there.
ReportsPager(p) ==
    /\ Table /\ rp.pages > 1
    /\ (p = rp.page - 1 /\ p >= 1) \/ (p = rp.page + 1 /\ p <= rp.pages)
    /\ LogsAsked([rp EXCEPT !.page = p])

RetryLogs == rp.error /\ ~rp.loading /\ LogsAsked(rp)

\* "Detalhes" opens and closes the content below the table.
ShowDetails(l) ==
    /\ Table /\ l \in LogsIn(Displayed)
    /\ RpDo([rp EXCEPT !.selected = IF @ = l THEN None ELSE l]) /\ Quiet

LogsLoaded(n) ==
    /\ Answered(n, "logs")
    /\ RpThen([rp EXCEPT !.rows = calls[n].answer.rows, !.pages = calls[n].answer.pages,
                         !.of = calls[n].arg, !.loading = FALSE])
    /\ Forget(n)

LogsFail(n) ==
    /\ Failing(n, {"logs"})
    /\ RpThen([rp EXCEPT !.error = TRUE, !.loading = FALSE])
    /\ Forget(n)

\* loadBuckets; it fails silently.
OptionsLoaded(n) ==
    /\ Answered(n, "logBuckets")
    /\ RpThen([rp EXCEPT !.options = calls[n].answer])
    /\ Forget(n)
OptionsFail(n) == Failing(n, {"logBuckets"}) /\ RpThen(rp) /\ Forget(n)

-----------------------------------------------------------------------------
ReportsServer(n) == ListLogs(n) \/ ListLogBuckets(n)
ReportsUser ==
    \/ \E t \in Term \union {None} : TypeTerm(t)
    \/ \E b \in Bucket \union {None} : PickBucket(b)
    \/ \E s \in Status \union {None} : PickStatus(s)
    \/ \E p \in 1 .. Len(Feed) : ReportsPager(p)
    \/ \E l \in LogsIn(rp.rows) : ShowDetails(l)
    \/ RetryLogs
ReportsFails(n) == LogsFail(n) \/ OptionsFail(n)
ReportsAnswer(n) == LogsLoaded(n) \/ OptionsLoaded(n) \/ ReportsFails(n)
=============================================================================
