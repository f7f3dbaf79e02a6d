---------------------------- MODULE BucketsPage ----------------------------
(***************************************************************************)
(* pages/Buckets.tsx with BucketGrid.tsx and BucketCard.tsx, its two       *)
(* modals, and the bucket handlers.  The object explorer is only open or   *)
(* closed here; ObjectExplorer.tla is about it.  A dialog that is open     *)
(* keeps the user from everything beneath it.                              *)
(***************************************************************************)
EXTENDS LifecycleModal, VersionModal

VARIABLES
    bp,       \* the state of the page and of its grid
    buckets   \* at the storage service: the buckets there are

bucketsDb == <<buckets, objects, config>>

FreshBuckets ==
    [grid |-> {}, loading |-> TRUE, error |-> FALSE, creating |-> FALSE, form |-> FALSE, inside |-> None,
     crossed |-> FALSE,  \* history: a listing was asked for while another was under way
     tried |-> {},       \* history: the buckets whose creation was asked for,
     created |-> {},     \* those the page said it had created, and
     alerted |-> {}]     \* those it said it had deleted

-----------------------------------------------------------------------------
(* The handlers *)

ListBuckets(n) ==
    /\ Arriving(n, "buckets")
    /\ Served(n, buckets) /\ UNCHANGED bucketsDb

\* Of bucket_analytics the page shows two numbers per card, which are left out.
ListAnalytics(n) ==
    /\ Arriving(n, "analytics")
    /\ Served(n, "ok") /\ UNCHANGED bucketsDb

CreateBucket(n) ==
    /\ Arriving(n, "makeBucket") /\ ByAdmin(n) /\ calls[n].arg \notin buckets
    /\ buckets' = buckets \union {calls[n].arg}
    /\ Served(n, "ok") /\ UNCHANGED <<objects, config>>

\* The service keeps a bucket that holds a version.
DeleteBucket(n) ==
    LET b == calls[n].arg
    IN  /\ Arriving(n, "dropBucket") /\ ByAdmin(n)
        /\ b \in buckets /\ objects[b] = <<>>
        /\ buckets' = buckets \ {b} /\ config' = [config EXCEPT ![b] = <<>>]
        /\ Served(n, "ok") /\ UNCHANGED objects

-----------------------------------------------------------------------------
(* The grid *)

BpDo(ui) == page = "buckets" /\ Act /\ bp' = ui /\ UNCHANGED <<bucketsDb, lc, vm>>
BpThen(ui) == bp' = ui /\ UNCHANGED <<bucketsDb, lc, vm, acts>>

Uncovered == page = "buckets" /\ ~bp.form /\ bp.inside = None /\ lc.bucket = None
CardOf(b) == Uncovered /\ ~bp.loading /\ ~bp.error /\ b \in bp.grid

\* loadBuckets up to its first await; then is the deletion it ends, or null.
BpLoading(ui) ==
    [ui EXCEPT !.loading = TRUE, !.error = FALSE,
               !.crossed = Mine({"buckets", "analytics"}) # {}]

\* "Tentar novamente" after an error, the button with the arrows otherwise.
RefreshBuckets == Uncovered /\ ~bp.loading /\ BpDo(BpLoading(bp)) /\ Send("buckets", None)

BucketsLoaded(n) ==
    /\ Answered(n, "buckets")
    /\ BpThen([bp EXCEPT !.grid = calls[n].answer])
    /\ Put(n, Call("analytics", calls[n].arg))

\* The end of loadBuckets, which throws nothing; then onDeleteBucket.
BpSettled(ui, b) == [ui EXCEPT !.loading = FALSE, !.alerted = IF b = None THEN @ ELSE @ \union {b}]

BucketsFail(n) ==
    /\ Failing(n, {"buckets"})
    /\ BpThen(BpSettled([bp EXCEPT !.error = TRUE], calls[n].arg))
    /\ Forget(n)

\* A failure of the analytics is logged, and nothing more.
AnalyticsDone(n) ==
    /\ page = "buckets" /\ Failing(n, {"analytics"})
    /\ BpThen(BpSettled(bp, calls[n].arg))
    /\ Forget(n)

-----------------------------------------------------------------------------
(* Creating and deleting buckets *)

OpenCreate == Uncovered /\ ~bp.loading /\ ~bp.error /\ user = "admin" /\ BpDo([bp EXCEPT !.form = TRUE]) /\ Quiet
\* The button Cancelar is disabled while the bucket is created, Escape is not.
CloseCreate == bp.form /\ BpDo([bp EXCEPT !.form = FALSE]) /\ Quiet

SubmitBucket(b) ==
    /\ bp.form /\ ~bp.creating
    /\ BpDo([bp EXCEPT !.creating = TRUE, !.tried = @ \union {b}]) /\ Send("makeBucket", b)

\* An alert; the grid is not loaded again.
BucketCreated(n) ==
    /\ Answered(n, "makeBucket")
    /\ BpThen([bp EXCEPT !.form = FALSE, !.creating = FALSE, !.created = @ \union {calls[n].arg}])
    /\ Forget(n)

CreateFails(n) ==
    /\ Failing(n, {"makeBucket"})
    /\ BpThen([bp EXCEPT !.creating = FALSE])
    /\ Forget(n)

\* The menu of a card.  A deletion sets no flag: the card stays, with its menu.
ClickDelete(b) == CardOf(b) /\ user = "admin" /\ BpDo(bp) /\ Send("dropBucket", b)

\* Mutant: deleted is said without loading the grid again.
NoReload(n) == BpThen(BpSettled(bp, calls[n].arg)) /\ Forget(n)
Reload(n) == BpThen(BpLoading([bp EXCEPT !.created = @ \ {calls[n].arg}])) /\ Put(n, Call("buckets", calls[n].arg))

BucketDeleted(n) == Answered(n, "dropBucket") /\ Reload(n)
DeleteBucketFails(n) == Failing(n, {"dropBucket"}) /\ BpThen(bp) /\ Forget(n)

-----------------------------------------------------------------------------
(* The modals *)

EnterBucket(b) == CardOf(b) /\ BpDo([bp EXCEPT !.inside = b]) /\ Quiet
LeaveBucket == bp.inside # None /\ vm.of = None /\ BpDo([bp EXCEPT !.inside = None]) /\ Quiet

\* An object is clicked that the explorer lists.
OpenVersions ==
    /\ page = "buckets" /\ bp.inside # None /\ vm.of = None /\ objects[bp.inside] # <<>>
    /\ Act /\ vm' = FreshVersions(bp.inside) /\ UNCHANGED <<bp, lc, bucketsDb>>
    /\ Send("versions", [bucket |-> bp.inside, then |-> "none"])

OpenLifecycle(b) ==
    /\ CardOf(b) /\ user = "admin"
    /\ Act /\ lc' = FreshLifecycle(b) /\ UNCHANGED <<bp, vm, bucketsDb>>
    /\ Send("lifecycle", b)

-----------------------------------------------------------------------------
BucketsServer(n) ==
    \/ ListBuckets(n) \/ ListAnalytics(n) \/ CreateBucket(n) \/ DeleteBucket(n)
    \/ LifecycleServer(n) /\ UNCHANGED <<buckets, objects>>
    \/ VersionServer(n) /\ UNCHANGED <<buckets, config>>
BucketsUser ==
    \/ RefreshBuckets \/ OpenCreate \/ CloseCreate \/ LeaveBucket \/ OpenVersions
    \/ \E b \in Bucket : \/ SubmitBucket(b) \/ ClickDelete(b) \/ EnterBucket(b) \/ OpenLifecycle(b)
    \/ LifecycleUser /\ UNCHANGED <<bp, buckets, vm, objects>>
    \/ VersionUser /\ UNCHANGED <<bp, buckets, lc, config>>
BucketsAnswer(n) ==
    \/ BucketsLoaded(n) \/ BucketsFail(n) \/ AnalyticsDone(n)
    \/ BucketCreated(n) \/ CreateFails(n) \/ BucketDeleted(n) \/ DeleteBucketFails(n)
    \/ LifecycleAnswer(n) /\ UNCHANGED <<bp, buckets, vm, objects>>
    \/ VersionAnswer(n) /\ UNCHANGED <<bp, buckets, lc, config>>
=============================================================================
