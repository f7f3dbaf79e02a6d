--------------------------- MODULE ObjectIndexer ---------------------------
(***************************************************************************)
(* indexBucketObjects of api/internal/analytics/worker.go for one bucket:  *)
(* a first pass over the pages of ListObjectVersions collects the keys     *)
(* whose latest version is a delete marker, a second one over the pages of *)
(* ListObjectsV2 upserts one batch of bucket_objects rows per page.        *)
(* Meanwhile users upload and delete objects and lifecycle rules expire    *)
(* them.  Any call may fail, which abandons the run where it is; a later   *)
(* collection starts over.                                                 *)
(***************************************************************************)
EXTENDS Integers, Sequences, FiniteSets

CONSTANTS
    LastKey,       \* the keys of the bucket are 1 .. LastKey, in listing order
    InitVersions,  \* version lists a key may have at first
    PageSize,      \* bound: entries of a page (1000 at the service)
    MaxChanges,    \* bound: uploads, deletions and expiries that are explored
    MaxRuns,       \* bound: indexing runs that are explored
    NoRow          \* what the index holds for a key it has no row of

Marker == 0        \* a delete marker in a version list; objects are positive

ASSUME KeyAssumption == LastKey \in Nat
ASSUME VersionsAssumption == InitVersions \subseteq Seq(0 .. 2)
ASSUME PageAssumption == PageSize \in Nat \ {0}
ASSUME BoundAssumption == MaxChanges \in Nat /\ MaxRuns \in Nat

Key == 1 .. LastKey

VARIABLES
    versions,     \* per key, its versions and delete markers, the latest first
    changes,      \* changes so far
    index,        \* bucket_objects: the row of each key
    pc,           \* "idle", "markers", "contents" or "upsert"
    keyMarker,    \* the first pass has listed the keys up to this one
    deletedKeys,  \* keys found deleted in the first pass
    token,        \* the second pass has listed the keys up to this one
    isTruncated,  \* the second pass has more pages
    batch,        \* rows about to be upserted, a function on some keys
    runs,         \* indexing runs begun
    touched       \* history: keys changed since the current run began

storeVars == <<versions, changes>>
runVars == <<keyMarker, deletedKeys, token, isTruncated, batch, runs>>
vars == <<storeVars, index, pc, runVars, touched>>

-----------------------------------------------------------------------------
(* The bucket, as the service keeps it *)

Latest(k) == versions[k][1]
IsLive(k) == versions[k] # <<>> /\ Latest(k) # Marker
IsDeleted(k) == versions[k] # <<>> /\ Latest(k) = Marker

Row(ver, deleted) == [ver |-> ver, deleted |-> deleted]

\* The row that describes a key that has versions as the bucket is now; a deleted
\* key has size 0 and no date, so no version.
Exact(k) == IF IsLive(k) THEN Row(Latest(k), FALSE) ELSE Row(0, TRUE)

\* New versions get numbers above all initial ones.
FreshVersion == 3 + changes

Change(k, vs) ==
    /\ changes < MaxChanges
    /\ versions' = [versions EXCEPT ![k] = vs]
    /\ changes' = changes + 1
    /\ touched' = touched \union {k}
    /\ UNCHANGED <<index, pc, runVars>>

\* PutObject; DeleteObject without a version id adds a delete marker; a lifecycle
\* rule removes noncurrent versions, or all that is left of a deleted key.
Upload(k) == Change(k, <<FreshVersion>> \o versions[k])
Delete(k) == IsLive(k) /\ Change(k, <<Marker>> \o versions[k])
ExpireNoncurrent(k) == Len(versions[k]) > 1 /\ Change(k, <<Latest(k)>>)
ExpireMarker(k) == versions[k] = <<Marker>> /\ Change(k, <<>>)

-----------------------------------------------------------------------------
(* Listings: a page holds the first n entries after a marker, in key order *)

\* Entries <<k, i>> of the version listing: i = 1 is the latest version of k.  The
\* code passes no version id marker, so the listing resumes at the next key.
VersionEntries(after) ==
    UNION {{k} \X (1 .. Len(versions[k])) : k \in {j \in Key : j > after}}
Precedes(e, f) == e[1] < f[1] \/ (e[1] = f[1] /\ e[2] < f[2])
VersionPage(after, n) ==
    {e \in VersionEntries(after) :
        Cardinality({f \in VersionEntries(after) : Precedes(f, e)}) < n}

ContentKeys(after) == {k \in Key : k > after /\ IsLive(k)}
ContentPage(after, n) ==
    {k \in ContentKeys(after) : Cardinality({j \in ContentKeys(after) : j < k}) < n}

LastOf(S, default) ==
    IF S = {} THEN default ELSE CHOOSE k \in S : \A j \in S : j <= k

-----------------------------------------------------------------------------
TypeOK ==
    /\ versions \in [Key -> Seq(Nat)] /\ changes \in 0 .. MaxChanges
    /\ index \in [Key -> [ver : Nat, deleted : BOOLEAN] \union {NoRow}]
    /\ pc \in {"idle", "markers", "contents", "upsert"}
    /\ keyMarker \in 0 .. LastKey /\ token \in 0 .. LastKey
    /\ deletedKeys \subseteq Key /\ touched \subseteq Key
    /\ isTruncated \in BOOLEAN /\ runs \in 0 .. MaxRuns
    /\ \E S \in SUBSET Key : batch \in [S -> [ver : Nat, deleted : BOOLEAN]]

Init ==
    /\ versions \in [Key -> InitVersions] /\ changes = 0
    /\ index = [k \in Key |-> NoRow]
    /\ pc = "idle" /\ keyMarker = 0 /\ token = 0
    /\ deletedKeys = {} /\ touched = {} /\ isTruncated = FALSE
    /\ batch = <<>> /\ runs = 0

Begin ==
    /\ pc = "idle" /\ runs < MaxRuns
    /\ pc' = "markers" /\ runs' = runs + 1
    /\ keyMarker' = 0 /\ token' = 0
    /\ deletedKeys' = {} /\ touched' = {}
    /\ UNCHANGED <<storeVars, index, isTruncated, batch>>

\* The keys of the page's delete markers that are latest.  Mutant: any delete marker.
AnyMarkersIn(page) == {e[1] : e \in {f \in page : versions[f[1]][f[2]] = Marker}}
MarkersIn(page) ==
    {e[1] : e \in {f \in page : versions[f[1]][f[2]] = Marker /\ f[2] = 1}}

\* Mutants: the marker counts entries; it is not taken from the answer.
MarkerByCount(page) == keyMarker + Cardinality(page)
SameMarker(page) == keyMarker
NextKeyMarker(page) == LastOf({e[1] : e \in page}, keyMarker)

\* One page of the first pass.
ListVersions ==
    /\ pc = "markers"
    /\ \E n \in 1 .. PageSize :
         LET page == VersionPage(keyMarker, n)
         IN  /\ deletedKeys' = deletedKeys \union MarkersIn(page)
             /\ IF page # VersionEntries(keyMarker)
                THEN keyMarker' = NextKeyMarker(page) /\ pc' = pc
                ELSE pc' = "contents" /\ keyMarker' = keyMarker
    /\ UNCHANGED <<storeVars, index, token, isTruncated, batch, runs, touched>>

\* The batch of one page: a row for each listed object, and a row for each deleted
\* key that this page does not list.  Mutant: without the latter.
ListedOnly(page) == [k \in page |-> Row(Latest(k), k \in deletedKeys)]
BatchOf(page) ==
    [k \in page \union deletedKeys |->
        IF k \in page THEN Row(Latest(k), k \in deletedKeys) ELSE Row(0, TRUE)]

\* One page of the second pass, up to the upsert.
ListContents ==
    /\ pc = "contents"
    /\ \E n \in 1 .. PageSize :
         LET page == ContentPage(token, n)
         IN  /\ batch' = BatchOf(page)
             /\ isTruncated' = (page # ContentKeys(token))
             /\ token' = LastOf(page, token)
    /\ pc' = "upsert"
    /\ UNCHANGED <<storeVars, index, keyMarker, deletedKeys, runs, touched>>

\* BulkUpsert: one transaction (none for an empty batch), then the next page or the
\* end of the run.
Upsert ==
    /\ pc = "upsert"
    /\ index' = [k \in Key |-> IF k \in DOMAIN batch THEN batch[k] ELSE index[k]]
    /\ batch' = <<>>
    /\ pc' = IF isTruncated THEN "contents" ELSE "idle"
    /\ UNCHANGED <<storeVars, keyMarker, deletedKeys, token, isTruncated, runs,
                   touched>>

\* A listing or the transaction fails: the error is returned, what earlier pages
\* wrote stays.
Fail ==
    /\ pc # "idle"
    /\ pc' = "idle" /\ batch' = <<>>
    /\ UNCHANGED <<storeVars, index, keyMarker, deletedKeys, token, isTruncated,
                   runs, touched>>

IndexStep == ListVersions \/ ListContents \/ Upsert

Next ==
    \/ \E k \in Key : Upload(k) \/ Delete(k) \/ ExpireNoncurrent(k) \/ ExpireMarker(k)
    \/ Begin
    \/ IndexStep
    \/ Fail

Spec == Init /\ [][Next]_vars

\* The worker goroutine keeps going and its calls are answered.
FairSpec == Spec /\ WF_vars(IndexStep)

-----------------------------------------------------------------------------
(* Properties *)

\* Whatever is written for a key that did not change since the run began is right,
\* so a run that fails half-way leaves no wrong row behind for such a key, and never
\* reports one that exists as deleted.
WritesAreExact ==
    [][\A k \in Key \ touched : index'[k] # index[k] => index'[k] = Exact(k)]_index

\* A run that comes to its end has written the row of every key that has versions and
\* did not change meanwhile, however the listings were split into pages and whatever
\* earlier runs, broken off or not, had left.
CompleteRunIsExact ==
    [][Upsert /\ ~isTruncated =>
         \A k \in Key \ touched : versions[k] # <<>> => index'[k] = Exact(k)]_vars

\* Both paginations make progress and every run ends, also while the bucket changes.
RunEnds == pc # "idle" ~> pc = "idle"
=============================================================================
