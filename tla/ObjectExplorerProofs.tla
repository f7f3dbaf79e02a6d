------------------------ MODULE ObjectExplorerProofs ------------------------
(***************************************************************************)
(* Theorems about ObjectExplorer, for any names, depth, texts and calls    *)
(* and however much the user does.                                         *)
(***************************************************************************)
EXTENDS ObjectExplorer, SequenceTheorems, TLAPS

-----------------------------------------------------------------------------
(* Folders and trails *)

LEMMA LenOfDomain ==
    ASSUME NEW S, NEW s \in Seq(S), NEW n \in Nat, DOMAIN s = 1 .. n
    PROVE  Len(s) = n
<1>1. Len(s) \in Nat /\ DOMAIN s = 1 .. Len(s)
  BY LenProperties
<1>2. ASSUME Len(s) < n PROVE FALSE
  <2>1. n \in 1 .. n /\ n \notin 1 .. Len(s)
    BY <1>1, <1>2
  <2>. QED BY <1>1, <2>1
<1>3. ASSUME n < Len(s) PROVE FALSE
  <2>1. Len(s) \in 1 .. Len(s) /\ Len(s) \notin 1 .. n
    BY <1>1, <1>3
  <2>. QED BY <1>1, <2>1
<1>. QED BY <1>1, <1>2, <1>3

LEMMA Folders == \A p : p \in Folder <=> p \in Seq(Name) /\ Len(p) <= MaxDepth
<1>1. ASSUME NEW p \in Folder PROVE p \in Seq(Name) /\ Len(p) <= MaxDepth
  <2>1. PICK n \in 0 .. MaxDepth : p \in [1 .. n -> Name]
    BY DEF Folder
  <2>2. n \in Nat /\ p \in Seq(Name)
    BY <2>1, BoundAssumption, SeqDef
  <2>3. Len(p) = n
    BY <2>1, <2>2, LenOfDomain
  <2>. QED BY <2>1, <2>2, <2>3, BoundAssumption
<1>2. ASSUME NEW p \in Seq(Name), Len(p) <= MaxDepth PROVE p \in Folder
  <2>1. Len(p) \in 0 .. MaxDepth /\ p \in [1 .. Len(p) -> Name]
    BY <1>2, LenProperties, BoundAssumption
  <2>. QED BY <2>1 DEF Folder
<1>. QED BY <1>1, <1>2

\* A path is a sequence, and what leads up to an item of it is a path.
LEMMA PathSeq == \A p \in Path : p \in Seq(Name \union {Empty})
<1>1. ASSUME NEW p \in Seq(Name) PROVE p \in Seq(Name \union {Empty})
  <2>1. Len(p) \in Nat /\ p \in [1 .. Len(p) -> Name]
    BY LenProperties
  <2>2. p \in [1 .. Len(p) -> Name \union {Empty}]
    BY <2>1
  <2>. QED BY <2>1, <2>2, SeqDef
<1>2. \A p \in Folder : p \in Seq(Name \union {Empty})
  BY <1>1, Folders
<1>3. \A p \in Folder : Append(p, Empty) \in Seq(Name \union {Empty})
  BY <1>2, AppendProperties
<1>. QED BY <1>2, <1>3 DEF Path

LEMMA FolderUp ==
    ASSUME NEW p \in Folder, NEW i \in 0 .. Len(p)
    PROVE  SubSeq(p, 1, i) \in Folder
<1>1. p \in Seq(Name) /\ Len(p) <= MaxDepth /\ Len(p) \in Nat
  BY Folders, LenProperties
<1>2. \A j \in 1 .. i : p[j] \in Name
  BY <1>1, ElementOfSeq
<1>3. SubSeq(p, 1, i) \in Seq(Name) /\ Len(SubSeq(p, 1, i)) = i
  BY <1>1, <1>2, SubSeqProperties
<1>4. i <= MaxDepth
  BY <1>1, BoundAssumption
<1>. QED BY <1>3, <1>4, Folders, Zenon

\* The items before the empty one are those of the folder.
LEMMA SplitUp ==
    ASSUME NEW p \in Folder, NEW i \in 0 .. Len(p)
    PROVE  SubSeq(Append(p, Empty), 1, i) = SubSeq(p, 1, i)
<1>. DEFINE N == Name \union {Empty}
            a == Append(p, Empty)
<1>1. p \in Seq(N) /\ Len(p) \in Nat
  BY PathSeq, LenProperties DEF Path
<1>2. /\ a \in Seq(N) /\ Len(a) = Len(p) + 1
      /\ \A j \in 1 .. Len(p) : a[j] = p[j]
  BY <1>1, AppendProperties
<1>. HIDE DEF a
<1>3. \A j \in 1 .. i : p[j] \in N /\ a[j] = p[j]
  BY <1>1, <1>2, ElementOfSeq
<1>4. /\ SubSeq(p, 1, i) \in Seq(N) /\ Len(SubSeq(p, 1, i)) = i
      /\ \A j \in 1 .. i : SubSeq(p, 1, i)[j] = p[j]
  BY <1>1, <1>3, SubSeqProperties
<1>5. /\ SubSeq(a, 1, i) \in Seq(N) /\ Len(SubSeq(a, 1, i)) = i
      /\ \A j \in 1 .. i : SubSeq(a, 1, i)[j] = a[j]
  BY <1>1, <1>3, SubSeqProperties
<1>6. SubSeq(a, 1, i) = SubSeq(p, 1, i)
  BY <1>3, <1>4, <1>5, SeqEqual
<1>. QED BY <1>6 DEF a

LEMMA PathUp ==
    ASSUME NEW p \in Path, NEW i \in DOMAIN p
    PROVE  SubSeq(p, 1, i) \in Path /\ DOMAIN SubSeq(p, 1, i) = 1 .. i /\ Len(SubSeq(p, 1, i)) = i
<1>1. p \in Seq(Name \union {Empty}) /\ Len(p) \in Nat /\ DOMAIN p = 1 .. Len(p)
  BY PathSeq, LenProperties
<1>2. \A j \in 1 .. i : p[j] \in Name \union {Empty}
  BY <1>1, ElementOfSeq
<1>3. SubSeq(p, 1, i) \in Seq(Name \union {Empty}) /\ Len(SubSeq(p, 1, i)) = i
  BY <1>1, <1>2, SubSeqProperties
<1>4. DOMAIN SubSeq(p, 1, i) = 1 .. i
  BY <1>3, LenProperties
<1>5. CASE p \in Folder
  <2>1. i \in 0 .. Len(p)
    BY <1>1
  <2>. QED BY <1>3, <1>4, <1>5, <2>1, FolderUp DEF Path
<1>6. ASSUME NEW q \in Folder, p = Append(q, Empty) PROVE SubSeq(p, 1, i) \in Path
  <2>1. q \in Seq(Name \union {Empty}) /\ Len(q) \in Nat
    BY PathSeq, LenProperties DEF Path
  <2>2. Len(p) = Len(q) + 1
    BY <1>6, <2>1, AppendProperties
  <2>3. CASE i \in 0 .. Len(q)
    BY <1>6, <2>3, SplitUp, FolderUp DEF Path
  <2>4. CASE i = Len(p)
    BY <1>1, <2>4, SubSeqFull
  <2>. QED BY <1>1, <2>1, <2>2, <2>3, <2>4
<1>. QED BY <1>3, <1>4, <1>5, <1>6 DEF Path

LEMMA SplitPath ==
    ASSUME NEW p \in Folder, Len(p) > 0
    PROVE  Split(p) \in Path /\ p \in Path
<1>1. Len(<<>>) = 0
  BY EmptySeq
<1>2. p # <<>>
  BY <1>1
<1>. QED BY <1>2 DEF Path, Split

LEMMA RootPath == Root \in Path /\ Root = <<>>
<1>1. <<>> \in Seq(Name) /\ Len(<<>>) = 0
  BY EmptySeq
<1>2. 0 <= MaxDepth
  BY BoundAssumption
<1>3. <<>> \in Folder
  BY <1>1, <1>2, Folders, Zenon
<1>. QED BY <1>3 DEF Path, Root

-----------------------------------------------------------------------------
(* Calls *)

Text == Query \union {Blank}
Kind == {"none", "list", "upload", "reload", "search"}
Ask == [kind : Kind, at : Path, text : Text, deleted : BOOLEAN]

LEMMA NothingSent == NotSent \in Ask /\ NotSent.kind = "none"
BY RootPath DEF NotSent, Ask, Kind, Text

\* A call is begun for a folder, or for a text, or is over; the others stay.
LEMMA AskingFolder ==
    ASSUME TypeOK, NEW c \in Call, NEW kind \in Kind, NEW p \in Path, NEW d \in BOOLEAN,
           AskFolder(c, kind, p, d)
    PROVE  /\ call' \in [Call -> Ask]
           /\ call'[c].kind = kind /\ call'[c].at = p /\ call'[c].deleted = d
           /\ \A e \in Call \ {c} : call'[e] = call[e]
<1>1. PICK a : a = [NotSent EXCEPT !.kind = kind, !.at = p, !.deleted = d]
  OBVIOUS
<1>2. a \in Ask /\ a.kind = kind /\ a.at = p /\ a.deleted = d
  <2>1. PICK n : n = NotSent
    OBVIOUS
  <2>2. n \in Ask /\ a = [n EXCEPT !.kind = kind, !.at = p, !.deleted = d]
    BY <1>1, <2>1, NothingSent, Zenon
  <2>. QED BY <2>2 DEF Ask
<1>3. call \in [Call -> Ask]
  BY DEF TypeOK, Ask, Kind, Text
<1>4. call' = [call EXCEPT ![c] = a]
  BY <1>1, Zenon DEF AskFolder
<1>. QED BY <1>2, <1>3, <1>4

LEMMA AskingSearch ==
    ASSUME TypeOK, NEW c \in Call, NEW q \in Text, NEW d \in BOOLEAN, AskSearch(c, q, d)
    PROVE  /\ call' \in [Call -> Ask]
           /\ call'[c].kind = "search" /\ call'[c].text = q /\ call'[c].deleted = d
           /\ \A e \in Call \ {c} : call'[e] = call[e]
<1>1. PICK a : a = [NotSent EXCEPT !.kind = "search", !.text = q, !.deleted = d]
  OBVIOUS
<1>2. a \in Ask /\ a.kind = "search" /\ a.text = q /\ a.deleted = d
  <2>1. PICK n : n = NotSent
    OBVIOUS
  <2>2. n \in Ask /\ a = [n EXCEPT !.kind = "search", !.text = q, !.deleted = d]
    BY <1>1, <2>1, NothingSent, Zenon
  <2>. QED BY <2>2 DEF Ask, Kind
<1>3. call \in [Call -> Ask]
  BY DEF TypeOK, Ask, Kind, Text
<1>4. call' = [call EXCEPT ![c] = a]
  BY <1>1, Zenon DEF AskSearch
<1>. QED BY <1>2, <1>3, <1>4

LEMMA Forgetting ==
    ASSUME TypeOK, NEW c \in Call, Forget(c)
    PROVE  /\ call' \in [Call -> Ask]
           /\ call'[c].kind = "none"
           /\ \A e \in Call \ {c} : call'[e] = call[e]
<1>1. NotSent \in Ask /\ NotSent.kind = "none"
  BY NothingSent
<1>2. call \in [Call -> Ask]
  BY DEF TypeOK, Ask, Kind, Text
<1>3. call' \in [Call -> Ask] /\ call'[c] = NotSent /\ \A e \in Call \ {c} : call'[e] = call[e]
  BY <1>1, <1>2 DEF Forget
<1>. QED BY <1>1, <1>3

LEMMA CallTypes ==
    ASSUME TypeOK, NEW c \in Call
    PROVE  /\ call[c] \in Ask /\ call[c].kind \in Kind /\ call[c].at \in Path
           /\ call[c].text \in Text /\ call[c].deleted \in BOOLEAN
<1>1. call[c] \in Ask
  BY DEF TypeOK, Ask, Kind, Text
<1>. QED BY <1>1 DEF Ask

-----------------------------------------------------------------------------
(* Types *)

\* The state but for the calls and the count of what the user did.
RestOK ==
    /\ prefix \in Path /\ breadcrumb \in Path
    /\ showDeleted \in BOOLEAN /\ searchMode \in BOOLEAN /\ loading \in BOOLEAN
    /\ error \in BOOLEAN /\ searching \in BOOLEAN /\ crossed \in BOOLEAN
    /\ unheard \in BOOLEAN /\ mixed \in BOOLEAN /\ late \in BOOLEAN
    /\ query \in Text
    /\ listing \in Filtered /\ results \in Searched \union {NoResults}
    /\ timer \in [text : Text, deleted : BOOLEAN, changed : BOOLEAN] \union {NoTimer}

LEMMA Types == TypeOK <=> RestOK /\ call \in [Call -> Ask] /\ actions \in 0 .. MaxActions
BY DEF TypeOK, RestOK, Ask, Kind, Text

LEMMA TypesAfter == RestOK' /\ call' \in [Call -> Ask] /\ actions' \in 0 .. MaxActions => TypeOK'
BY DEF TypeOK, RestOK, Ask, Kind, Text

LEMMA ActCounts == ASSUME TypeOK, Act PROVE actions' \in 0 .. MaxActions
BY BoundAssumption DEF TypeOK, Act

LEMMA Loading ==
    ASSUME TypeOK, NEW c \in Call, NEW kind \in {"list", "reload"}, NEW p \in Path, NEW d \in BOOLEAN,
           LoadObjects(c, kind, p, d)
    PROVE  /\ call' \in [Call -> Ask] /\ loading' \in BOOLEAN /\ error' = FALSE /\ crossed' \in BOOLEAN
           /\ call'[c].kind = kind /\ call'[c].at = p /\ call'[c].deleted = d
           /\ \A e \in Call \ {c} : call'[e] = call[e]
<1>1. kind \in Kind /\ AskFolder(c, kind, p, d)
  BY DEF Kind, LoadObjects
<1>2. loading' \in BOOLEAN /\ error' = FALSE /\ crossed' \in BOOLEAN
  BY DEF LoadObjects
<1>. QED BY <1>1, <1>2, AskingFolder

LEMMA Searching ==
    ASSUME TypeOK, NEW c \in Call, NEW q \in Text, NEW d \in BOOLEAN, NEW changed \in BOOLEAN,
           HandleSearch(c, q, d, changed)
    PROVE  /\ call' \in [Call -> Ask] /\ searchMode' \in BOOLEAN /\ searching' \in BOOLEAN
           /\ mixed' \in BOOLEAN /\ late' \in BOOLEAN /\ results' \in Searched \union {NoResults}
           /\ \A e \in Call \ {c} : call'[e] = call[e]
           /\ \/ ~searchMode' /\ call' = call
              \/ /\ searchMode' /\ q # Blank /\ late' = changed
                 /\ call'[c].kind = "search" /\ call'[c].text = q /\ call'[c].deleted = d
                 /\ ~mixed' => Sent({"search"}) = {}
<1>1. call \in [Call -> Ask]
  BY Types
<1>2. CASE q = Blank
  BY <1>1, <1>2, Types DEF HandleSearch, RestOK
<1>3. CASE q # Blank
  <2>1. AskSearch(c, q, d) /\ searchMode' = TRUE /\ searching' = TRUE /\ late' = changed
        /\ mixed' = (Sent({"search"}) # {}) /\ UNCHANGED results
    BY <1>3 DEF HandleSearch
  <2>2. /\ call' \in [Call -> Ask]
        /\ call'[c].kind = "search" /\ call'[c].text = q /\ call'[c].deleted = d
        /\ \A e \in Call \ {c} : call'[e] = call[e]
    BY <2>1, AskingSearch
  <2>3. results' \in Searched \union {NoResults}
    BY <2>1, Types DEF RestOK
  <2>4. searchMode' \in BOOLEAN /\ searching' \in BOOLEAN /\ mixed' \in BOOLEAN /\ late' \in BOOLEAN
    BY <2>1
  <2>5. ~mixed' => Sent({"search"}) = {}
    BY <2>1
  <2>6. searchMode' /\ q # Blank /\ late' = changed
    BY <1>3, <2>1
  <2>. QED BY <2>2, <2>3, <2>4, <2>5, <2>6
<1>. QED BY <1>2, <1>3

-----------------------------------------------------------------------------
(* What the actions do *)

\* A click on a folder or on the trail: the folder it leads to and the new trail.
Going(c, p, trail) ==
    /\ p \in Path /\ trail \in Path /\ GoTo(c, p, trail)
    /\ \/ trail = p
       \/ p \in Folder /\ trail = Split(p)

LEMMA Clicks ==
    ASSUME TypeOK, NEW c \in Call, FolderClick(c) \/ BreadcrumbClick(c)
    PROVE  \E p, trail : Going(c, p, trail)
<1>1. ASSUME NEW p \in FolderRows, GoTo(c, p, Split(p)) PROVE Going(c, p, Split(p))
  BY <1>1, SplitPath DEF FolderRows, Going
<1>2. ASSUME GoTo(c, Root, <<>>) PROVE Going(c, Root, <<>>)
  BY <1>2, RootPath DEF Going
<1>3. ASSUME NEW i \in DOMAIN breadcrumb, GoTo(c, UpTo(i), TrailAt(i))
      PROVE  Going(c, UpTo(i), UpTo(i))
  <2>1. UpTo(i) \in Path
    BY PathUp DEF UpTo, TypeOK
  <2>. QED BY <1>3, <2>1 DEF Going, TrailAt
<1>. QED BY <1>1, <1>2, <1>3 DEF FolderClick, BreadcrumbClick

\* Every way in which a folder is listed again, for p with the filter d.
Listing(c, kind, p, d) ==
    /\ kind \in {"list", "reload"} /\ p \in Path /\ d \in BOOLEAN
    /\ LoadObjects(c, kind, p, d) /\ unheard' = FALSE
    /\ kind = "list" => p = prefix' /\ d = showDeleted'
    /\ kind = "reload" => prefix' = prefix /\ showDeleted' = showDeleted
    /\ UNCHANGED <<listing, query, searchMode, searching, results, mixed, late>>

LEMMA Listing1 ==
    ASSUME TypeOK, NEW c \in Call, NEW p, NEW trail, Going(c, p, trail)
    PROVE  Listing(c, "list", p, showDeleted) /\ UNCHANGED timer
BY DEF Going, GoTo, Target, Listing, TypeOK, searchVars

LEMMA Listing2 ==
    ASSUME TypeOK, NEW c \in Call, Refresh(c)
    PROVE  Listing(c, "list", prefix, showDeleted) /\ UNCHANGED <<breadcrumb, prefix, timer>>
BY DEF Refresh, Listing, TypeOK, searchVars

LEMMA Listing3 ==
    ASSUME TypeOK, NEW c \in Call, Uploaded(c)
    PROVE  Listing(c, "reload", call[c].at, call[c].deleted) /\ UNCHANGED <<breadcrumb, prefix, timer>>
BY CallTypes DEF Uploaded, Listing, TypeOK, searchVars

LEMMA Listing4 ==
    ASSUME TypeOK, NEW c \in Call, ShowDeletedChange(c), ~searchMode
    PROVE  Listing(c, "list", prefix, ~showDeleted)
<1>1. prefix \in Path /\ (~showDeleted) \in BOOLEAN
  BY DEF TypeOK
<1>2. /\ LoadObjects(c, "list", prefix, ~showDeleted) /\ unheard' = FALSE
      /\ UNCHANGED <<searchMode, searching, results, mixed, late>>
      /\ UNCHANGED <<prefix, listing, query>> /\ showDeleted' = ~showDeleted
  BY DEF ShowDeletedChange
<1>. QED BY <1>1, <1>2 DEF Listing

LEMMA TypeInit == Init => TypeOK
<1>. SUFFICES ASSUME Init PROVE TypeOK
  OBVIOUS
<1>1. PICK c \in Call : call = [d \in Call |-> IF d = c THEN [NotSent EXCEPT !.kind = "list"] ELSE NotSent]
  BY DEF Init
<1>2. PICK a : a = [NotSent EXCEPT !.kind = "list"]
  OBVIOUS
<1>3. a \in Ask
  <2>1. PICK n : n = NotSent
    OBVIOUS
  <2>2. n \in Ask /\ a = [n EXCEPT !.kind = "list"]
    BY <1>2, <2>1, NothingSent, Zenon
  <2>. QED BY <2>2 DEF Ask, Kind
<1>4. call = [d \in Call |-> IF d = c THEN a ELSE NotSent]
  BY <1>1, <1>2, Zenon
<1>5. call \in [Call -> Ask]
  BY <1>3, <1>4, NothingSent
<1>6. RestOK
  BY RootPath DEF Init, RestOK, Filtered, Text
<1>7. actions \in 0 .. MaxActions
  BY BoundAssumption DEF Init
<1>. QED BY <1>5, <1>6, <1>7, Types

LEMMA ListingTypes ==
    ASSUME TypeOK, NEW c \in Call, NEW kind, NEW p, NEW d, Listing(c, kind, p, d),
           prefix' \in Path, breadcrumb' \in Path, showDeleted' \in BOOLEAN,
           timer' \in [text : Text, deleted : BOOLEAN, changed : BOOLEAN] \union {NoTimer},
           actions' \in 0 .. MaxActions
    PROVE  TypeOK'
<1>1. call' \in [Call -> Ask] /\ loading' \in BOOLEAN /\ error' \in BOOLEAN /\ crossed' \in BOOLEAN
  BY Loading DEF Listing
<1>2. UNCHANGED <<listing, query, searchMode, searching, results, mixed, late>> /\ unheard' = FALSE
  BY DEF Listing
<1>3. RestOK
  BY Types
<1>4. RestOK'
  BY <1>1, <1>2, <1>3 DEF RestOK
<1>. QED BY <1>1, <1>4, TypesAfter

LEMMA TypeStep == TypeOK /\ [Next]_vars => TypeOK'
<1>. SUFFICES ASSUME TypeOK, [Next]_vars PROVE TypeOK'
  OBVIOUS
<1>1. RestOK /\ call \in [Call -> Ask] /\ actions \in 0 .. MaxActions
  BY Types
<1>2. ASSUME NEW c \in Call, FolderClick(c) \/ BreadcrumbClick(c) PROVE TypeOK'
  <2>1. PICK p, trail : Going(c, p, trail)
    BY <1>2, Clicks
  <2>2. Listing(c, "list", p, showDeleted) /\ UNCHANGED timer
    BY <2>1, Listing1
  <2>3. prefix' \in Path /\ breadcrumb' \in Path /\ UNCHANGED showDeleted /\ Act
    BY <2>1 DEF Going, GoTo
  <2>. QED BY <1>1, <2>2, <2>3, ActCounts, ListingTypes DEF RestOK
<1>3. ASSUME NEW c \in Call, Refresh(c) PROVE TypeOK'
  <2>1. Listing(c, "list", prefix, showDeleted) /\ UNCHANGED <<breadcrumb, prefix, timer>>
    BY <1>3, Listing2
  <2>2. Act /\ UNCHANGED showDeleted
    BY <1>3 DEF Refresh
  <2>. QED BY <1>1, <2>1, <2>2, ActCounts, ListingTypes DEF RestOK
<1>4. ASSUME NEW c \in Call, Uploaded(c) PROVE TypeOK'
  <2>1. Listing(c, "reload", call[c].at, call[c].deleted) /\ UNCHANGED <<breadcrumb, prefix, timer>>
    BY <1>4, Listing3
  <2>2. UNCHANGED <<actions, showDeleted>>
    BY <1>4 DEF Uploaded
  <2>. QED BY <1>1, <2>1, <2>2, ListingTypes DEF RestOK
<1>5. ASSUME NEW c \in Call, Upload(c) PROVE TypeOK'
  <2>1. "upload" \in Kind /\ prefix \in Path /\ showDeleted \in BOOLEAN
    BY <1>1 DEF Kind, RestOK
  <2>2. call' \in [Call -> Ask]
    BY <1>5, <2>1, AskingFolder DEF Upload
  <2>3. RestOK'
    BY <1>1, <1>5 DEF Upload, RestOK, browseVars, searchVars
  <2>4. actions' \in 0 .. MaxActions
    BY <1>5, ActCounts DEF Upload
  <2>. QED BY <2>2, <2>3, <2>4, TypesAfter
<1>6. ASSUME NEW c \in Call, UploadFails(c) PROVE TypeOK'
  <2>1. RestOK' /\ actions' = actions
    BY <1>1, <1>6 DEF UploadFails, RestOK, browseVars, searchVars
  <2>2. call' \in [Call -> Ask]
    BY <1>6, Forgetting DEF UploadFails
  <2>. QED BY <1>1, <2>1, <2>2, TypesAfter
<1>7. ASSUME NEW c \in Call, Listed(c) \/ ListingFails(c) PROVE TypeOK'
  <2>1. [at |-> call[c].at, deleted |-> call[c].deleted] \in Filtered
    BY CallTypes DEF Filtered
  <2>2. listing' \in Filtered
    BY <1>1, <1>7, <2>1, Zenon DEF Listed, ListingFails, RestOK
  <2>3. RestOK' /\ actions' = actions
    BY <1>1, <1>7, <2>2 DEF Listed, ListingFails, RestOK, searchVars
  <2>4. call' \in [Call -> Ask]
    BY <1>7, Forgetting DEF Listed, ListingFails
  <2>. QED BY <1>1, <2>3, <2>4, TypesAfter
<1>8. ASSUME NEW q \in Query \union {Blank}, Type(q) PROVE TypeOK'
  <2>1. [text |-> q, deleted |-> FilterOfRender, changed |-> FALSE]
            \in [text : Text, deleted : BOOLEAN, changed : BOOLEAN]
    BY <1>1 DEF Text, FilterOfRender, RestOK
  <2>2. timer' \in [text : Text, deleted : BOOLEAN, changed : BOOLEAN]
    BY <1>8, <2>1, Zenon DEF Type
  <2>3. RestOK'
    BY <1>1, <1>8, <2>2 DEF Type, RestOK, browseVars, Text
  <2>4. actions' \in 0 .. MaxActions /\ call' = call
    BY <1>8, ActCounts DEF Type
  <2>. QED BY <1>1, <2>3, <2>4, TypesAfter
<1>9. ASSUME NEW c \in Call, TimerFires(c) PROVE TypeOK'
  <2>1. timer.text \in Text /\ timer.deleted \in BOOLEAN /\ timer.changed \in BOOLEAN
    BY <1>1, <1>9 DEF TimerFires, RestOK
  <2>2. /\ call' \in [Call -> Ask] /\ searchMode' \in BOOLEAN /\ searching' \in BOOLEAN
        /\ mixed' \in BOOLEAN /\ late' \in BOOLEAN /\ results' \in Searched \union {NoResults}
    BY <1>9, <2>1, Searching DEF TimerFires
  <2>3. RestOK' /\ actions' = actions
    BY <1>1, <1>9, <2>2 DEF TimerFires, RestOK, browseVars
  <2>. QED BY <1>1, <2>2, <2>3, TypesAfter
<1>10. ASSUME ClearSearch PROVE TypeOK'
  <2>1. RestOK' /\ call' = call
    BY <1>1, <1>10 DEF ClearSearch, RestOK, browseVars, Text
  <2>2. actions' \in 0 .. MaxActions
    BY <1>10, ActCounts DEF ClearSearch
  <2>. QED BY <1>1, <2>1, <2>2, TypesAfter
<1>11. ASSUME NEW c \in Call, ShowDeletedChange(c) PROVE TypeOK'
  <2>1. /\ showDeleted' \in BOOLEAN /\ actions' \in 0 .. MaxActions
        /\ UNCHANGED <<prefix, breadcrumb, listing, query>>
        /\ timer' = IF timer = NoTimer THEN timer ELSE [timer EXCEPT !.changed = TRUE]
    BY <1>1, <1>11, ActCounts DEF ShowDeletedChange, RestOK
  <2>2. timer' \in [text : Text, deleted : BOOLEAN, changed : BOOLEAN] \union {NoTimer}
    BY <1>1, <2>1 DEF RestOK
  <2>3. ASSUME HandleSearch(c, query, FilterOfRender, TRUE), unheard' = TRUE,
               UNCHANGED <<loading, error, crossed>>
        PROVE  TypeOK'
    <3>1. query \in Text /\ FilterOfRender \in BOOLEAN /\ TRUE \in BOOLEAN
      BY <1>1 DEF RestOK, FilterOfRender
    <3>2. /\ call' \in [Call -> Ask] /\ searchMode' \in BOOLEAN /\ searching' \in BOOLEAN
          /\ mixed' \in BOOLEAN /\ late' \in BOOLEAN /\ results' \in Searched \union {NoResults}
      BY <2>3, <3>1, Searching
    <3>3. RestOK'
      BY <1>1, <2>1, <2>2, <2>3, <3>2 DEF RestOK
    <3>. QED BY <2>1, <3>2, <3>3, TypesAfter
  <2>4. ASSUME LoadObjects(c, "list", prefix, ~showDeleted), unheard' = FALSE,
               UNCHANGED <<searchMode, searching, results, mixed, late>>
        PROVE  TypeOK'
    <3>1. prefix \in Path /\ (~showDeleted) \in BOOLEAN
      BY <1>1 DEF RestOK
    <3>2. call' \in [Call -> Ask] /\ loading' \in BOOLEAN /\ error' \in BOOLEAN /\ crossed' \in BOOLEAN
      BY <2>4, <3>1, Loading
    <3>3. RestOK'
      BY <1>1, <2>1, <2>2, <2>4, <3>2 DEF RestOK
    <3>. QED BY <2>1, <3>2, <3>3, TypesAfter
  <2>. QED BY <1>11, <2>3, <2>4 DEF ShowDeletedChange
<1>12. ASSUME NEW c \in Call, Found(c) \/ SearchFails(c) PROVE TypeOK'
  <2>1. [text |-> call[c].text, deleted |-> call[c].deleted] \in Searched
    BY CallTypes DEF Searched, Text
  <2>2. PICK found \in Searched \union {NoResults} : SearchEnds(c, found)
    BY <1>12, <2>1 DEF Found, SearchFails
  <2>3. RestOK' /\ actions' = actions
    BY <1>1, <2>2 DEF SearchEnds, RestOK, browseVars
  <2>4. call' \in [Call -> Ask]
    BY <2>2, Forgetting DEF SearchEnds
  <2>. QED BY <1>1, <2>3, <2>4, TypesAfter
<1>13. CASE UNCHANGED vars
  <2>1. RestOK' /\ call' = call /\ actions' = actions
    BY <1>1, <1>13 DEF vars, browseVars, searchVars, RestOK
  <2>. QED BY <1>1, <2>1, TypesAfter
<1>. QED BY <1>2, <1>3, <1>4, <1>5, <1>6, <1>7, <1>8, <1>9, <1>10, <1>11, <1>12, <1>13
         DEF Next, User, Answer

\* Prefix, trail, calls and timer keep their shape however deep the user goes (TypeOK).
THEOREM TypeCorrect == Spec => []TypeOK
<1>. QED BY TypeInit, TypeStep, PTL DEF Spec

-----------------------------------------------------------------------------
(* The trail *)

\* A trail is the folder itself, or the folder with the empty item after it.
LEMMA TrailStep == TypeOK /\ TrailLeadsUp /\ [Next]_vars => TrailLeadsUp'
<1>. SUFFICES ASSUME TypeOK, TrailLeadsUp, [Next]_vars PROVE TrailLeadsUp'
  OBVIOUS
<1>1. ASSUME NEW c \in Call, FolderClick(c) \/ BreadcrumbClick(c) PROVE TrailLeadsUp'
  <2>1. PICK p, trail : Going(c, p, trail)
    BY <1>1, Clicks
  <2>2. prefix' = p /\ breadcrumb' = trail /\ p \in Path
    BY <2>1 DEF Going, GoTo
  <2>3. CASE trail = p
    <3>1. DOMAIN p = 1 .. Len(p) /\ Len(p) \in Nat
      BY <2>2, PathSeq, LenProperties
    <3>. QED BY <2>2, <2>3, <3>1 DEF TrailLeadsUp, UpTo
  <2>4. CASE p \in Folder /\ trail = Split(p)
    <3>1. p \in Seq(Name \union {Empty}) /\ Len(p) \in Nat
      BY <2>2, PathSeq, LenProperties
    <3>2. /\ Append(p, Empty) \in Seq(Name \union {Empty})
          /\ Len(Append(p, Empty)) = Len(p) + 1
          /\ Append(p, Empty)[Len(p) + 1] = Empty
      BY <3>1, AppendProperties
    <3>3. DOMAIN Append(p, Empty) = 1 .. Len(p) + 1
      BY <3>2, LenProperties
    <3>4. ASSUME NEW i \in 1 .. Len(p) + 1
          PROVE  \/ i <= Len(p) /\ SubSeq(Append(p, Empty), 1, i) = SubSeq(p, 1, i)
                 \/ i = Len(Append(p, Empty)) /\ Append(p, Empty)[i] = Empty
      <4>1. CASE i <= Len(p)
        <5>1. i \in 0 .. Len(p)
          BY <3>1, <4>1
        <5>. QED BY <2>4, <4>1, <5>1, SplitUp
      <4>2. CASE i = Len(p) + 1
        BY <3>2, <4>2
      <4>. QED BY <3>1, <4>1, <4>2
    <3>. QED BY <2>2, <2>4, <3>3, <3>4 DEF TrailLeadsUp, UpTo, Split
  <2>. QED BY <2>1, <2>3, <2>4 DEF Going
<1>2. ASSUME UNCHANGED <<prefix, breadcrumb>> PROVE TrailLeadsUp'
  BY <1>2 DEF TrailLeadsUp, UpTo
<1>3. ASSUME NEW c \in Call,
             \/ Refresh(c) \/ Upload(c) \/ ShowDeletedChange(c) \/ Answer(c) \/ TimerFires(c)
      PROVE  UNCHANGED <<prefix, breadcrumb>>
  BY <1>3 DEF Refresh, Upload, ShowDeletedChange, Answer, Uploaded, UploadFails, Listed, ListingFails,
              Found, SearchFails, SearchEnds, TimerFires, browseVars
<1>4. ASSUME NEW q \in Query \union {Blank}, Type(q) PROVE UNCHANGED <<prefix, breadcrumb>>
  BY <1>4 DEF Type, browseVars
<1>5. ASSUME ClearSearch \/ UNCHANGED vars PROVE UNCHANGED <<prefix, breadcrumb>>
  BY <1>5 DEF ClearSearch, vars, browseVars
<1>. QED BY <1>1, <1>2, <1>3, <1>4, <1>5 DEF Next, User

\* Whatever folders the user walks through, an item of the trail leads to the current
\* folder or one above it; only the empty item at the end leads elsewhere (TrailLeadsUp).
THEOREM TrailIsAncestors == Spec => []TrailLeadsUp
<1>1. Init => TrailLeadsUp
  BY EmptySeq DEF Init, TrailLeadsUp
<1>. QED BY <1>1, TypeInit, TypeStep, TrailStep, PTL DEF Spec

-----------------------------------------------------------------------------
(* The folder that is shown *)

\* A listing that is for the current folder and filter, or what is shown of it.
Current(at, deleted) == at = prefix /\ (deleted = showDeleted \/ unheard)

\* While nothing has crossed it, what is on its way is for the current folder, and so
\* is what is shown when nothing is on its way.
ShownInv ==
    ~crossed => /\ \A c \in Listings : Current(call[c].at, call[c].deleted)
                /\ (Listings = {} /\ ~error => Current(listing.at, listing.deleted))

LEMMA ShownImplies == ShownInv => FolderShown
BY DEF ShownInv, Current, FolderShown

LEMMA ShownInit == Init => ShownInv
<1>. SUFFICES ASSUME Init PROVE ShownInv
  OBVIOUS
<1>1. PICK c \in Call : call = [d \in Call |-> IF d = c THEN [NotSent EXCEPT !.kind = "list"] ELSE NotSent]
  BY DEF Init
<1>2. PICK n : n = NotSent
  OBVIOUS
<1>3. n = [kind |-> "none", at |-> Root, text |-> Blank, deleted |-> FALSE]
  BY <1>2, Zenon DEF NotSent
<1>4. PICK a : a = [n EXCEPT !.kind = "list"]
  OBVIOUS
<1>5. a.kind = "list" /\ a.at = Root /\ a.deleted = FALSE /\ n.kind = "none"
  BY <1>3, <1>4
<1>6. call = [d \in Call |-> IF d = c THEN a ELSE n]
  BY <1>1, <1>2, <1>4, Zenon
<1>7. Listings = {c}
  BY <1>5, <1>6 DEF Listings, Sent
<1>8. Current(call[c].at, call[c].deleted)
  BY <1>5, <1>6 DEF Init, Current
<1>. QED BY <1>7, <1>8 DEF ShownInv

\* A new listing is for the folder and the filter of its step, or it is crossed.
LEMMA ShownListing ==
    ASSUME TypeOK, NEW c \in Call, c \notin Listings, NEW kind, NEW p, NEW d, Listing(c, kind, p, d)
    PROVE  ShownInv'
<1>. SUFFICES ASSUME ~crossed' PROVE ShownInv'
  BY DEF ShownInv
<1>1. kind \in {"list", "reload"} /\ p \in Path /\ d \in BOOLEAN /\ LoadObjects(c, kind, p, d)
  BY DEF Listing
<1>2. /\ call'[c].kind = kind /\ call'[c].at = p /\ call'[c].deleted = d
      /\ \A e \in Call \ {c} : call'[e] = call[e]
  BY <1>1, Loading
<1>3. Listings \subseteq {c} /\ (kind = "reload" => p = prefix /\ d = showDeleted)
  BY <1>1 DEF LoadObjects
<1>4. p = prefix' /\ d = showDeleted'
  BY <1>1, <1>3 DEF Listing
<1>5. Listings' = {c}
  BY <1>1, <1>2, <1>3 DEF Listings, Sent
<1>6. Current(call[c].at, call[c].deleted)'
  BY <1>2, <1>4 DEF Current
<1>. QED BY <1>5, <1>6 DEF ShownInv

\* A step that begins and ends no listing, and at most changes the filter unheard.
LEMMA ShownQuiet ==
    ASSUME ShownInv, UNCHANGED <<prefix, error, listing, crossed>>,
           Listings' = Listings, \A c \in Listings : call'[c] = call[c],
           UNCHANGED <<showDeleted, unheard>> \/ unheard' = TRUE
    PROVE  ShownInv'
<1>1. ASSUME NEW at, NEW deleted, Current(at, deleted) PROVE Current(at, deleted)'
  BY <1>1 DEF Current
<1>. SUFFICES ASSUME ~crossed' PROVE ShownInv'
  BY DEF ShownInv
<1>2. \A c \in Listings : Current(call[c].at, call[c].deleted)
  BY DEF ShownInv
<1>3. Listings = {} /\ ~error => Current(listing.at, listing.deleted)
  BY DEF ShownInv
<1>4. ASSUME NEW c \in Listings' PROVE Current(call[c].at, call[c].deleted)'
  <2>1. Current(call[c].at, call[c].deleted) /\ call'[c] = call[c]
    BY <1>2
  <2>. QED BY <2>1 DEF Current
<1>5. Listings' = {} /\ ~error' => Current(listing.at, listing.deleted)'
  BY <1>3 DEF Current
<1>. QED BY <1>4, <1>5 DEF ShownInv

\* One call that is no listing becomes, or stays, none.
LEMMA OtherCall ==
    ASSUME NEW c \in Call, \A e \in Call \ {c} : call'[e] = call[e],
           c \notin Listings, call'[c].kind \notin {"list", "reload"}
    PROVE  Listings' = Listings /\ \A e \in Listings : call'[e] = call[e]
BY DEF Listings, Sent

LEMMA ShownStep == TypeOK /\ ShownInv /\ [Next]_vars => ShownInv'
<1>. SUFFICES ASSUME TypeOK, ShownInv, [Next]_vars PROVE ShownInv'
  OBVIOUS
<1>1. ASSUME NEW c \in Call, FolderClick(c) \/ BreadcrumbClick(c) PROVE ShownInv'
  <2>1. PICK p, trail : Going(c, p, trail)
    BY <1>1, Clicks
  <2>2. Listing(c, "list", p, showDeleted)
    BY <2>1, Listing1
  <2>3. c \notin Listings
    BY <2>1 DEF Going, GoTo, Free, Listings, Sent
  <2>. QED BY <2>2, <2>3, ShownListing
<1>2. ASSUME NEW c \in Call, Refresh(c) PROVE ShownInv'
  <2>1. Listing(c, "list", prefix, showDeleted)
    BY <1>2, Listing2
  <2>2. c \notin Listings
    BY <1>2 DEF Refresh, Free, Listings, Sent
  <2>. QED BY <2>1, <2>2, ShownListing
<1>3. ASSUME NEW c \in Call, Uploaded(c) PROVE ShownInv'
  <2>1. Listing(c, "reload", call[c].at, call[c].deleted)
    BY <1>3, Listing3
  <2>2. c \notin Listings
    BY <1>3 DEF Uploaded, Listings, Sent
  <2>. QED BY <2>1, <2>2, ShownListing
<1>4. ASSUME NEW c \in Call, Upload(c) PROVE ShownInv'
  <2>1. AskFolder(c, "upload", prefix, showDeleted) /\ Free(c)
    BY <1>4 DEF Upload
  <2>2. "upload" \in Kind /\ prefix \in Path /\ showDeleted \in BOOLEAN
    BY DEF TypeOK, Kind
  <2>3. call'[c].kind = "upload" /\ \A e \in Call \ {c} : call'[e] = call[e]
    BY <2>1, <2>2, AskingFolder
  <2>4. c \notin Listings /\ call'[c].kind \notin {"list", "reload"}
    BY <2>1, <2>3 DEF Free, Listings, Sent
  <2>5. Listings' = Listings /\ \A e \in Listings : call'[e] = call[e]
    BY <2>3, <2>4, OtherCall
  <2>6. UNCHANGED <<prefix, error, listing, crossed, showDeleted, unheard>>
    BY <1>4 DEF Upload, browseVars
  <2>. QED BY <2>5, <2>6, ShownQuiet
<1>5. ASSUME NEW c \in Call, UploadFails(c) \/ Found(c) \/ SearchFails(c) PROVE ShownInv'
  <2>1. Forget(c) /\ c \notin Listings
    BY <1>5 DEF UploadFails, Found, SearchFails, SearchEnds, Listings, Sent
  <2>2. call'[c].kind = "none" /\ \A e \in Call \ {c} : call'[e] = call[e]
    BY <2>1, Forgetting
  <2>3. Listings' = Listings /\ \A e \in Listings : call'[e] = call[e]
    BY <2>1, <2>2, OtherCall
  <2>4. UNCHANGED <<prefix, error, listing, crossed, showDeleted, unheard>>
    BY <1>5 DEF UploadFails, Found, SearchFails, SearchEnds, browseVars
  <2>. QED BY <2>3, <2>4, ShownQuiet
<1>6. ASSUME NEW c \in Call, Listed(c) \/ ListingFails(c) PROVE ShownInv'
  <2>. SUFFICES ASSUME ~crossed' PROVE ShownInv'
    BY DEF ShownInv
  <2>1. /\ UNCHANGED <<prefix, crossed, showDeleted, unheard>> /\ Forget(c) /\ c \in Listings
        /\ \/ listing' = [at |-> call[c].at, deleted |-> call[c].deleted]
           \/ error' = TRUE
    BY <1>6 DEF Listed, ListingFails
  <2>2. call'[c].kind = "none" /\ \A e \in Call \ {c} : call'[e] = call[e]
    BY <2>1, Forgetting
  <2>3. \A e \in Listings : Current(call[e].at, call[e].deleted)
    BY <2>1 DEF ShownInv
  <2>4. ASSUME NEW e \in Listings' PROVE Current(call[e].at, call[e].deleted)'
    <3>1. e \in Listings /\ call'[e] = call[e]
      BY <2>2 DEF Listings, Sent
    <3>2. Current(call[e].at, call[e].deleted)
      BY <2>3, <3>1
    <3>. QED BY <2>1, <3>1, <3>2 DEF Current
  <2>5. ASSUME ~error' PROVE Current(listing.at, listing.deleted)'
    <3>1. listing'.at = call[c].at /\ listing'.deleted = call[c].deleted
      BY <2>1, <2>5
    <3>2. Current(call[c].at, call[c].deleted)
      BY <2>1, <2>3
    <3>. QED BY <2>1, <3>1, <3>2 DEF Current
  <2>. QED BY <2>4, <2>5 DEF ShownInv
<1>7. ASSUME NEW c \in Call, TimerFires(c) PROVE ShownInv'
  <2>1. timer.text \in Text /\ timer.deleted \in BOOLEAN /\ timer.changed \in BOOLEAN
    BY <1>7 DEF TimerFires, TypeOK, Text
  <2>2. /\ \A e \in Call \ {c} : call'[e] = call[e]
        /\ call' = call \/ call'[c].kind = "search"
    BY <1>7, <2>1, Searching DEF TimerFires
  <2>3. Free(c) /\ UNCHANGED <<prefix, error, listing, crossed, showDeleted, unheard>>
    BY <1>7 DEF TimerFires, browseVars
  <2>4. c \notin Listings /\ call'[c].kind \notin {"list", "reload"}
    BY <2>2, <2>3 DEF Free, Listings, Sent
  <2>5. Listings' = Listings /\ \A e \in Listings : call'[e] = call[e]
    BY <2>2, <2>4, OtherCall
  <2>. QED BY <2>3, <2>5, ShownQuiet
<1>8. ASSUME NEW c \in Call, ShowDeletedChange(c) PROVE ShownInv'
  <2>1. Free(c) /\ c \notin Listings
    BY <1>8 DEF ShowDeletedChange, Free, Listings, Sent
  <2>2. CASE ~searchMode
    BY <1>8, <2>1, <2>2, Listing4, ShownListing
  <2>3. CASE searchMode
    <3>1. /\ HandleSearch(c, query, FilterOfRender, TRUE) /\ unheard' = TRUE
          /\ UNCHANGED <<prefix, error, listing, crossed>>
      BY <1>8, <2>3 DEF ShowDeletedChange
    <3>2. query \in Text /\ FilterOfRender \in BOOLEAN /\ TRUE \in BOOLEAN
      BY DEF TypeOK, FilterOfRender, Text
    <3>3. PICK q \in Text, d \in BOOLEAN, changed \in BOOLEAN : HandleSearch(c, q, d, changed)
      BY <3>1, <3>2
    <3>4. /\ \A e \in Call \ {c} : call'[e] = call[e]
          /\ call' = call \/ call'[c].kind = "search"
      BY <3>3, Searching
    <3>5. call'[c].kind \notin {"list", "reload"}
      BY <2>1, <3>4 DEF Free
    <3>6. Listings' = Listings /\ \A e \in Listings : call'[e] = call[e]
      BY <2>1, <3>4, <3>5, OtherCall
    <3>. QED BY <3>1, <3>6, ShownQuiet
  <2>. QED BY <2>2, <2>3
<1>9. ASSUME UNCHANGED <<browseVars, showDeleted, call, unheard>> PROVE ShownInv'
  BY <1>9, ShownQuiet DEF browseVars, Listings, Sent
<1>10. ASSUME NEW q \in Query \union {Blank}, Type(q)
       PROVE  UNCHANGED <<browseVars, showDeleted, call, unheard>>
  BY <1>10 DEF Type
<1>11. ASSUME ClearSearch \/ UNCHANGED vars PROVE UNCHANGED <<browseVars, showDeleted, call, unheard>>
  BY <1>11 DEF ClearSearch, vars
<1>. QED BY <1>1, <1>2, <1>3, <1>4, <1>5, <1>6, <1>7, <1>8, <1>9, <1>10, <1>11 DEF Next, User, Answer

\* However the answers arrive, once nothing is on its way the objects shown are those of
\* the current folder and filter, but for the crossings FolderShown names (loadObjects).
THEOREM ShownIsCurrent == Spec => []FolderShown
<1>. QED BY TypeInit, TypeStep, ShownInit, ShownStep, ShownImplies, PTL DEF Spec

-----------------------------------------------------------------------------
(* The results that are shown *)

\* What the timer will search for, and what the search on its way was begun with.
Sought(text, deleted, old) == text = query /\ (deleted = showDeleted \/ old)
TimerInv == timer # NoTimer => Sought(timer.text, timer.deleted, timer.changed)
AskedInv ==
    timer = NoTimer /\ searchMode /\ ~mixed =>
        \A c \in Sent({"search"}) : Sought(call[c].text, call[c].deleted, late)
ResultsInv == TimerInv /\ AskedInv /\ ResultsBelong

LEMMA ResultsInit == Init => ResultsInv
BY DEF Init, ResultsInv, TimerInv, AskedInv, ResultsBelong

\* A step that neither begins nor ends a search.
LEMMA ResultsQuiet ==
    ASSUME ResultsInv, UNCHANGED <<query, searchMode, results, timer, mixed, late, showDeleted>>,
           Sent({"search"})' = Sent({"search"}), \A c \in Sent({"search"}) : call'[c] = call[c]
    PROVE  ResultsInv'
<1>1. TimerInv'
  BY DEF ResultsInv, TimerInv, Sought
<1>2. ResultsBelong'
  BY DEF ResultsInv, ResultsBelong
<1>3. AskedInv'
  BY DEF ResultsInv, AskedInv, Sought
<1>. QED BY <1>1, <1>2, <1>3 DEF ResultsInv

LEMMA NoSearch ==
    ASSUME NEW c \in Call, \A e \in Call \ {c} : call'[e] = call[e],
           call[c].kind # "search", call'[c].kind # "search"
    PROVE  Sent({"search"})' = Sent({"search"}) /\ \A e \in Sent({"search"}) : call'[e] = call[e]
BY DEF Sent

\* A search begun alone for the text that is shown, with its filter or as a late one.
LEMMA SearchBegun ==
    ASSUME TypeOK, NEW c \in Call, NEW q \in Text, NEW d \in BOOLEAN, NEW changed \in BOOLEAN,
           HandleSearch(c, q, d, changed), Sought(q, d, changed)',
           changed' = changed, TimerInv'
    PROVE  ResultsInv'
<1>1. CASE q = Blank
  <2>1. ~searchMode'
    BY <1>1 DEF HandleSearch
  <2>. QED BY <2>1 DEF ResultsInv, AskedInv, ResultsBelong
<1>2. CASE q # Blank
  <2>1. AskSearch(c, q, d) /\ late' = changed /\ mixed' = (Sent({"search"}) # {})
    BY <1>2 DEF HandleSearch
  <2>2. /\ call'[c].kind = "search" /\ call'[c].text = q /\ call'[c].deleted = d
        /\ \A e \in Call \ {c} : call'[e] = call[e]
    BY <2>1, AskingSearch
  <2>3. c \in Sent({"search"})'
    BY <2>2 DEF Sent
  <2>4. ResultsBelong'
    BY <2>3 DEF ResultsBelong
  <2>5. ASSUME ~mixed', NEW e \in Sent({"search"})' PROVE Sought(call[e].text, call[e].deleted, late)'
    <3>1. Sent({"search"}) = {}
      BY <2>1, <2>5
    <3>2. e = c
      BY <2>2, <3>1 DEF Sent
    <3>. QED BY <2>1, <2>2, <3>2 DEF Sought
  <2>6. AskedInv'
    BY <2>5 DEF AskedInv
  <2>. QED BY <2>4, <2>6 DEF ResultsInv
<1>. QED BY <1>1, <1>2

LEMMA ResultsStep == TypeOK /\ ResultsInv /\ [Next]_vars => ResultsInv'
<1>. SUFFICES ASSUME TypeOK, ResultsInv, [Next]_vars PROVE ResultsInv'
  OBVIOUS
<1>1. ASSUME NEW c \in Call, NEW kind, NEW p, NEW d, Listing(c, kind, p, d),
             call[c].kind # "search", UNCHANGED <<timer, showDeleted>>
      PROVE  ResultsInv'
  <2>1. kind \in {"list", "reload"} /\ p \in Path /\ d \in BOOLEAN /\ LoadObjects(c, kind, p, d)
    BY <1>1 DEF Listing
  <2>2. call'[c].kind = kind /\ \A e \in Call \ {c} : call'[e] = call[e]
    BY <2>1, Loading
  <2>3. Sent({"search"})' = Sent({"search"}) /\ \A e \in Sent({"search"}) : call'[e] = call[e]
    BY <1>1, <2>1, <2>2, NoSearch
  <2>4. UNCHANGED <<query, searchMode, results, mixed, late>>
    BY <1>1 DEF Listing
  <2>. QED BY <1>1, <2>3, <2>4, ResultsQuiet
<1>2. ASSUME NEW c \in Call, FolderClick(c) \/ BreadcrumbClick(c) PROVE ResultsInv'
  <2>1. PICK p, trail : Going(c, p, trail)
    BY <1>2, Clicks
  <2>2. Listing(c, "list", p, showDeleted) /\ UNCHANGED timer
    BY <2>1, Listing1
  <2>3. call[c].kind # "search" /\ UNCHANGED showDeleted
    BY <2>1 DEF Going, GoTo, Free
  <2>. QED BY <1>1, <2>2, <2>3
<1>3. ASSUME NEW c \in Call, Refresh(c) PROVE ResultsInv'
  <2>1. Listing(c, "list", prefix, showDeleted) /\ UNCHANGED timer
    BY <1>3, Listing2
  <2>2. call[c].kind # "search" /\ UNCHANGED showDeleted
    BY <1>3 DEF Refresh, Free
  <2>. QED BY <1>1, <2>1, <2>2
<1>4. ASSUME NEW c \in Call, Uploaded(c) PROVE ResultsInv'
  <2>1. Listing(c, "reload", call[c].at, call[c].deleted) /\ UNCHANGED timer
    BY <1>4, Listing3
  <2>2. call[c].kind # "search" /\ UNCHANGED showDeleted
    BY <1>4 DEF Uploaded
  <2>. QED BY <1>1, <2>1, <2>2
<1>5. ASSUME NEW c \in Call, Upload(c) PROVE ResultsInv'
  <2>1. AskFolder(c, "upload", prefix, showDeleted) /\ Free(c)
    BY <1>5 DEF Upload
  <2>2. "upload" \in Kind /\ prefix \in Path /\ showDeleted \in BOOLEAN
    BY DEF TypeOK, Kind
  <2>3. call'[c].kind = "upload" /\ \A e \in Call \ {c} : call'[e] = call[e]
    BY <2>1, <2>2, AskingFolder
  <2>4. call[c].kind # "search" /\ call'[c].kind # "search"
    BY <2>1, <2>3 DEF Free
  <2>5. Sent({"search"})' = Sent({"search"}) /\ \A e \in Sent({"search"}) : call'[e] = call[e]
    BY <2>3, <2>4, NoSearch
  <2>6. UNCHANGED <<query, searchMode, results, timer, mixed, late, showDeleted>>
    BY <1>5 DEF Upload, searchVars
  <2>. QED BY <2>5, <2>6, ResultsQuiet
<1>6. ASSUME NEW c \in Call, UploadFails(c) \/ Listed(c) \/ ListingFails(c) PROVE ResultsInv'
  <2>1. Forget(c) /\ call[c].kind # "search"
    BY <1>6 DEF UploadFails, Listed, ListingFails, Listings, Sent
  <2>2. call'[c].kind # "search" /\ \A e \in Call \ {c} : call'[e] = call[e]
    BY <2>1, Forgetting
  <2>3. Sent({"search"})' = Sent({"search"}) /\ \A e \in Sent({"search"}) : call'[e] = call[e]
    BY <2>1, <2>2, NoSearch
  <2>4. UNCHANGED <<query, searchMode, results, timer, mixed, late, showDeleted>>
    BY <1>6 DEF UploadFails, Listed, ListingFails, searchVars
  <2>. QED BY <2>3, <2>4, ResultsQuiet
<1>7. ASSUME NEW q \in Query \union {Blank}, Type(q) PROVE ResultsInv'
  <2>1. PICK t : t = [text |-> q, deleted |-> FilterOfRender, changed |-> FALSE]
    OBVIOUS
  <2>2. timer' = t /\ query' = q /\ showDeleted' = showDeleted
    BY <1>7, <2>1, Zenon DEF Type
  <2>3. t \in [text : Query \union {Blank}, deleted : BOOLEAN, changed : BOOLEAN]
    BY <2>1 DEF FilterOfRender, TypeOK
  <2>4. timer' # NoTimer
    BY <2>2, <2>3, NoTimerAssumption
  <2>5. t.text = q /\ t.deleted = showDeleted
    BY <2>1 DEF FilterOfRender
  <2>6. TimerInv'
    BY <2>2, <2>5 DEF TimerInv, Sought
  <2>. QED BY <2>4, <2>6 DEF ResultsInv, AskedInv, ResultsBelong
<1>8. ASSUME NEW c \in Call, TimerFires(c) PROVE ResultsInv'
  <2>1. PICK q \in Text, d \in BOOLEAN, changed \in BOOLEAN :
          q = timer.text /\ d = timer.deleted /\ changed = timer.changed
    BY <1>8 DEF TimerFires, TypeOK, Text
  <2>2. HandleSearch(c, q, d, changed) /\ timer' = NoTimer /\ UNCHANGED <<query, showDeleted>>
    BY <1>8, <2>1, Zenon DEF TimerFires
  <2>3. Sought(q, d, changed)
    BY <1>8, <2>1 DEF ResultsInv, TimerInv, TimerFires
  <2>4. Sought(q, d, changed)' /\ TimerInv'
    BY <2>2, <2>3 DEF Sought, TimerInv
  <2>. QED BY <2>2, <2>4, SearchBegun
<1>9. ASSUME ClearSearch PROVE ResultsInv'
  BY <1>9 DEF ClearSearch, ResultsInv, TimerInv, AskedInv, ResultsBelong
<1>10. ASSUME NEW c \in Call, ShowDeletedChange(c) PROVE ResultsInv'
  <2>1. query' = query /\ timer' = IF timer = NoTimer THEN timer ELSE [timer EXCEPT !.changed = TRUE]
    BY <1>10 DEF ShowDeletedChange
  <2>2. TimerInv'
    <3>1. CASE timer = NoTimer
      BY <2>1, <3>1 DEF TimerInv
    <3>2. CASE timer # NoTimer
      <4>1. timer'.text = timer.text /\ timer'.changed = TRUE
        BY <2>1, <3>2 DEF TypeOK
      <4>. QED BY <2>1, <3>2, <4>1 DEF ResultsInv, TimerInv, Sought
    <3>. QED BY <3>1, <3>2
  <2>3. CASE searchMode
    <3>1. PICK q \in Text, d \in BOOLEAN : q = query /\ d = FilterOfRender
      BY DEF TypeOK, Text, FilterOfRender
    <3>2. HandleSearch(c, q, d, TRUE)
      BY <1>10, <2>3, <3>1 DEF ShowDeletedChange
    <3>3. Sought(q, d, TRUE)'
      BY <2>1, <3>1 DEF Sought
    <3>. QED BY <2>2, <3>2, <3>3, SearchBegun
  <2>4. CASE ~searchMode
    <3>1. ~searchMode'
      BY <1>10, <2>4, Listing4 DEF Listing
    <3>. QED BY <2>2, <3>1 DEF ResultsInv, AskedInv, ResultsBelong
  <2>. QED BY <2>3, <2>4
<1>11. ASSUME NEW c \in Call, Found(c) \/ SearchFails(c) PROVE ResultsInv'
  <2>1. /\ call[c].kind = "search" /\ Forget(c)
        /\ UNCHANGED <<query, searchMode, timer, mixed, late, showDeleted>>
        /\ \/ results' = [text |-> call[c].text, deleted |-> call[c].deleted]
           \/ results' = NoResults
    BY <1>11 DEF Found, SearchFails, SearchEnds
  <2>2. call'[c].kind = "none" /\ \A e \in Call \ {c} : call'[e] = call[e]
    BY <2>1, Forgetting
  <2>3. TimerInv'
    BY <2>1 DEF ResultsInv, TimerInv, Sought
  <2>4. ASSUME timer = NoTimer, searchMode, ~mixed
        PROVE  \A e \in Sent({"search"}) : Sought(call[e].text, call[e].deleted, late)
    BY <2>4 DEF ResultsInv, AskedInv
  <2>5. ASSUME NEW e \in Sent({"search"})' PROVE e \in Sent({"search"}) /\ call'[e] = call[e]
    BY <2>2 DEF Sent
  <2>6. AskedInv'
    BY <2>1, <2>4, <2>5 DEF AskedInv, Sought
  <2>7. ASSUME timer' = NoTimer, searchMode', ~mixed', results' # NoResults
        PROVE  results'.text = query' /\ (results'.deleted = showDeleted' \/ late')
    <3>1. results'.text = call[c].text /\ results'.deleted = call[c].deleted
      BY <2>1, <2>7
    <3>2. c \in Sent({"search"})
      BY <2>1 DEF Sent
    <3>3. Sought(call[c].text, call[c].deleted, late)
      BY <2>1, <2>4, <2>7, <3>2
    <3>. QED BY <2>1, <3>1, <3>3 DEF Sought
  <2>8. ResultsBelong'
    BY <2>7 DEF ResultsBelong
  <2>. QED BY <2>3, <2>6, <2>8 DEF ResultsInv
<1>12. CASE UNCHANGED vars
  <2>1. UNCHANGED <<query, searchMode, results, timer, mixed, late, showDeleted, call>>
    BY <1>12 DEF vars, searchVars
  <2>. QED BY <2>1, ResultsQuiet DEF Sent
<1>. QED BY <1>2, <1>3, <1>4, <1>5, <1>6, <1>7, <1>8, <1>9, <1>10, <1>11, <1>12 DEF Next, User, Answer

\* Whatever is typed, cleared and filtered while searches are on their way, the results
\* at rest are those of the text beside them, but for the renders ResultsBelong names
\* (handleSearch, handleSearchChange).
THEOREM ResultsAreOfTheText == Spec => []ResultsBelong
<1>1. ResultsInv => ResultsBelong
  BY DEF ResultsInv
<1>. QED BY <1>1, TypeInit, TypeStep, ResultsInit, ResultsStep, PTL DEF Spec

=============================================================================
