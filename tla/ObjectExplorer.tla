---------------------------- MODULE ObjectExplorer ----------------------------
(***************************************************************************)
(* One opening of components/ObjectExplorer.tsx: a user who walks through  *)
(* the folders of a bucket, searches it, uploads files and changes the     *)
(* filter, while the answers of earlier calls are still on their way.  A   *)
(* handler sets state and sends a call in one step; what it does with the  *)
(* answer it does with the values of the render in which it was created.   *)
(* The component is mounted anew for each opening (pages/Buckets.tsx).     *)
(***************************************************************************)
EXTENDS Integers, Sequences, FiniteSets

CONSTANTS
    Name,        \* names a folder may have
    Empty,       \* the empty name
    MaxDepth,    \* bound: how deep folders are nested
    Query,       \* texts to search for
    Blank,       \* nothing, or only spaces
    Call,        \* bound: calls that may be on their way at once
    NoTimer,     \* no debounce timer is set
    NoResults,   \* the result list is empty
    MaxActions   \* bound: what the user does after the opening

ASSUME EmptyAssumption == Empty \notin Name
ASSUME BlankAssumption == Blank \notin Query
ASSUME NoTimerAssumption ==
    NoTimer \notin [text : Query \union {Blank}, deleted : BOOLEAN, changed : BOOLEAN]
ASSUME BoundAssumption == MaxDepth \in Nat /\ MaxActions \in Nat

\* A prefix "a/b/" is written <<a, b>>: every name ends in a slash.
Folder == UNION {[1 .. n -> Name] : n \in 0 .. MaxDepth}
Path == Folder \union {Append(p, Empty) : p \in Folder \ {<<>>}}
Root == <<>>

VARIABLES
    prefix, breadcrumb, showDeleted, query, searchMode, loading, error, searching,
    listing,   \* objects and folders: the prefix and filter they were listed with
    results,   \* searchResults: the text and filter they were searched with
    timer,     \* debounceRef: the text and the filter its callback will search with
               \* (and, as history, whether the filter has been changed since)
    call,      \* per call, what it asks for
    actions,   \* what the user has done so far (for MaxActions only)
    crossed,   \* history: the last listing begun was not alone, or it followed an
               \* upload and the user had moved on
    unheard,   \* history: the filter was changed in a search since then
    mixed,     \* history: the last search begun was not alone
    late       \* history: it was begun by a change of the filter, or the filter was
               \* changed after the text had been typed

browseVars == <<prefix, breadcrumb, loading, error, listing, crossed>>
searchVars == <<query, searchMode, searching, results, timer, mixed, late>>
vars == <<browseVars, searchVars, showDeleted, call, actions, unheard>>

-----------------------------------------------------------------------------
(* Calls *)

NotSent == [kind |-> "none", at |-> Root, text |-> Blank, deleted |-> FALSE]
Sent(kind) == {c \in Call : call[c].kind \in kind}
Listings == Sent({"list", "reload"})
Free(c) == call[c].kind = "none"

AskFolder(c, kind, p, d) == call' = [call EXCEPT ![c] = [NotSent EXCEPT !.kind = kind, !.at = p, !.deleted = d]]
AskSearch(c, q, d) == call' = [call EXCEPT ![c] = [NotSent EXCEPT !.kind = "search", !.text = q, !.deleted = d]]
Forget(c) == call' = [call EXCEPT ![c] = NotSent]

\* loadObjects, up to its await.  p and d are what it is called with.
LoadObjects(c, kind, p, d) ==
    /\ AskFolder(c, kind, p, d)
    /\ loading' = TRUE /\ error' = FALSE
    /\ crossed' = \/ Listings \ {c} # {}
                  \/ kind = "reload" /\ (p # prefix \/ d # showDeleted)

\* handleSearch, up to its await, with the filter d of its render.
HandleSearch(c, q, d, changed) ==
    IF q = Blank
      THEN /\ searchMode' = FALSE /\ results' = NoResults
           /\ UNCHANGED <<searching, mixed, late, call>>
      ELSE /\ searchMode' = TRUE /\ searching' = TRUE
           /\ AskSearch(c, q, d)
           /\ mixed' = (Sent({"search"}) # {})
           /\ late' = changed
           /\ UNCHANGED results

Act == actions < MaxActions /\ actions' = actions + 1
-----------------------------------------------------------------------------
(* Walking through the folders *)

\* Mutant: loadObjects reads the prefix of its own render, which is the old one.
OfRender(p) == prefix
Target(p) == p

\* breadcrumb.slice(0, index + 1), which joined and with a slash at the end is the prefix.
UpTo(i) == SubSeq(breadcrumb, 1, i)

\* "a/b/".split("/") is ["a", "b", ""]: the trail ends in an empty item.
Split(p) == Append(p, Empty)

\* The trail after a click on it.  Mutants: it is made from the new prefix, or not cut.
TrailOfPrefix(i) == Split(UpTo(i))
TrailKept(i) == breadcrumb
TrailAt(i) == UpTo(i)

GoTo(c, p, trail) ==
    /\ Act /\ Free(c)
    /\ prefix' = p /\ breadcrumb' = trail
    /\ UNCHANGED <<listing, showDeleted, searchVars>>
    /\ LoadObjects(c, "list", Target(p), showDeleted)
    /\ unheard' = FALSE

\* The rows of the list that is shown, whose prefix may be another than the current one.
FolderRows == {p \in Folder : Len(p) > 0 /\ SubSeq(p, 1, Len(p) - 1) = listing.at}

FolderClick(c) ==
    /\ ~searchMode /\ ~loading /\ ~error
    /\ \E p \in FolderRows : GoTo(c, p, Split(p))

BreadcrumbClick(c) ==
    /\ ~searchMode
    /\ \/ GoTo(c, Root, <<>>)
       \/ \E i \in DOMAIN breadcrumb : GoTo(c, UpTo(i), TrailAt(i))

\* The button beside the filter, or "Tentar novamente".
Refresh(c) ==
    /\ Act /\ Free(c)
    /\ UNCHANGED <<prefix, breadcrumb, listing, showDeleted, searchVars>>
    /\ LoadObjects(c, "list", prefix, showDeleted)
    /\ unheard' = FALSE

\* One upload at a time, up to the end of its reload.
Upload(c) ==
    /\ Act /\ Free(c) /\ Sent({"upload", "reload"}) = {}
    /\ AskFolder(c, "upload", prefix, showDeleted)
    /\ UNCHANGED <<browseVars, searchVars, showDeleted, unheard>>

\* The folder is listed again for which, and with the filter with which, it was begun.
Uploaded(c) ==
    /\ call[c].kind = "upload"
    /\ UNCHANGED <<prefix, breadcrumb, listing, showDeleted, actions, searchVars>>
    /\ LoadObjects(c, "reload", call[c].at, call[c].deleted)
    /\ unheard' = FALSE

UploadFails(c) ==
    /\ call[c].kind = "upload"
    /\ Forget(c)
    /\ UNCHANGED <<browseVars, searchVars, showDeleted, actions, unheard>>

Listed(c) ==
    /\ c \in Listings
    /\ listing' = [at |-> call[c].at, deleted |-> call[c].deleted]
    /\ loading' = FALSE
    /\ Forget(c)
    /\ UNCHANGED <<prefix, breadcrumb, error, crossed, searchVars, showDeleted, actions, unheard>>

ListingFails(c) ==
    /\ c \in Listings
    /\ error' = TRUE
    /\ loading' = FALSE
    /\ Forget(c)
    /\ UNCHANGED <<prefix, breadcrumb, listing, crossed, searchVars, showDeleted, actions, unheard>>

-----------------------------------------------------------------------------
(* Searching *)

\* Mutant: handleSearch keeps the filter of the first render.
FirstFilter == FALSE
FilterOfRender == showDeleted

Type(q) ==
    /\ Act /\ (q # query \/ q = Blank)
    /\ query' = q
    /\ timer' = [text |-> q, deleted |-> FilterOfRender, changed |-> FALSE]
    /\ UNCHANGED <<browseVars, showDeleted, call, unheard, searchMode, searching, results, mixed, late>>

TimerFires(c) ==
    /\ timer # NoTimer /\ Free(c)
    /\ UNCHANGED <<browseVars, showDeleted, actions, unheard, query>>
    /\ timer' = NoTimer
    /\ HandleSearch(c, timer.text, timer.deleted, timer.changed)

ClearSearch ==
    /\ Act
    /\ query' = Blank /\ searchMode' = FALSE /\ results' = NoResults
    /\ timer' = NoTimer
    /\ UNCHANGED <<browseVars, showDeleted, call, unheard, searching, mixed, late>>

\* The filter is changed: a search is repeated with the filter of this render, the one
\* before the change; a folder is listed with the new one.
ShowDeletedChange(c) ==
    /\ Act /\ Free(c)
    /\ showDeleted' = ~showDeleted
    /\ timer' = IF timer = NoTimer THEN timer ELSE [timer EXCEPT !.changed = TRUE]
    /\ UNCHANGED <<prefix, breadcrumb, listing, query>>
    /\ \/ /\ searchMode
          /\ HandleSearch(c, query, FilterOfRender, TRUE)
          /\ unheard' = TRUE
          /\ UNCHANGED <<loading, error, crossed>>
       \/ /\ ~searchMode
          /\ LoadObjects(c, "list", prefix, ~showDeleted)
          /\ unheard' = FALSE
          /\ UNCHANGED <<searchMode, searching, results, mixed, late>>

SearchEnds(c, found) ==
    /\ call[c].kind = "search"
    /\ results' = found
    /\ searching' = FALSE
    /\ Forget(c)
    /\ UNCHANGED <<browseVars, showDeleted, actions, unheard, query, searchMode, timer, mixed, late>>

Found(c) == SearchEnds(c, [text |-> call[c].text, deleted |-> call[c].deleted])
SearchFails(c) == SearchEnds(c, NoResults)

-----------------------------------------------------------------------------
\* The effect of the first render has begun the listing of the root.
Init ==
    /\ prefix = Root /\ breadcrumb = <<>> /\ showDeleted = FALSE
    /\ loading = TRUE /\ error = FALSE
    /\ listing = [at |-> Root, deleted |-> FALSE]
    /\ query = Blank /\ searchMode = FALSE /\ searching = FALSE
    /\ results = NoResults /\ timer = NoTimer
    /\ \E c \in Call : call = [d \in Call |-> IF d = c THEN [NotSent EXCEPT !.kind = "list"] ELSE NotSent]
    /\ actions = 0
    /\ crossed = FALSE /\ unheard = FALSE /\ mixed = FALSE /\ late = FALSE

User(c) == FolderClick(c) \/ BreadcrumbClick(c) \/ Refresh(c) \/ Upload(c) \/ ShowDeletedChange(c)
Answer(c) == Uploaded(c) \/ UploadFails(c) \/ Listed(c) \/ ListingFails(c) \/ Found(c) \/ SearchFails(c)

Next ==
    \/ \E c \in Call : User(c) \/ Answer(c) \/ TimerFires(c)
    \/ \E q \in Query \union {Blank} : Type(q)
    \/ ClearSearch

Spec == Init /\ [][Next]_vars

-----------------------------------------------------------------------------
(* Properties *)

Filtered == [at : Path, deleted : BOOLEAN]
Searched == [text : Query \union {Blank}, deleted : BOOLEAN]

TypeOK ==
    /\ prefix \in Path /\ breadcrumb \in Path
    /\ \A b \in {showDeleted, searchMode, loading, error, searching, crossed, unheard, mixed, late} : b \in BOOLEAN
    /\ query \in Query \union {Blank}
    /\ listing \in Filtered /\ results \in Searched \union {NoResults}
    /\ timer \in [text : Query \union {Blank}, deleted : BOOLEAN, changed : BOOLEAN] \union {NoTimer}
    /\ call \in [Call -> [kind : {"none", "list", "upload", "reload", "search"}, at : Path,
                          text : Query \union {Blank}, deleted : BOOLEAN]]
    /\ actions \in 0 .. MaxActions

\* When no listing is on its way and no error is shown, the list is that of the current
\* folder and filter, unless two listings were on their way together, an upload listed
\* a folder that had been left, or the filter was changed in a search (loadObjects).
FolderShown ==
    Listings = {} /\ ~error /\ ~crossed =>
        /\ listing.at = prefix
        /\ listing.deleted = showDeleted \/ unheard

\* Each item of the trail leads to the current folder or one above it, except for an
\* empty item at its end, which leads to a folder that does not exist (Split).
TrailLeadsUp ==
    \A i \in DOMAIN breadcrumb :
        \/ i <= Len(prefix) /\ UpTo(i) = SubSeq(prefix, 1, i)
        \/ i = Len(breadcrumb) /\ breadcrumb[i] = Empty

\* When the timer has run out and no search is on its way, the results are those of the
\* text beside them and of the filter, unless two searches were on their way together
\* or the search was begun with the filter of an earlier render (handleSearch).
ResultsBelong ==
    timer = NoTimer /\ Sent({"search"}) = {} /\ searchMode /\ ~mixed /\ results # NoResults =>
        /\ results.text = query
        /\ results.deleted = showDeleted \/ late
=============================================================================
