------------------------ MODULE ObjectIndexerProofs ------------------------
(***************************************************************************)
(* Theorems about ObjectIndexer, for any number of keys, any versions they *)
(* have at first, any page size and any number of changes and runs.        *)
(***************************************************************************)
EXTENDS ObjectIndexer, FiniteSetTheorems, SequenceTheorems, WellFoundedInduction, TLAPS

Entry == [ver : Nat, deleted : BOOLEAN]

\* The keys a run may speak for: those that did not change since it began.
Quiet == Key \ touched

\* What the first pass has found deleted is deleted.
MarkersTrue == \A k \in Quiet : k \in deletedKeys => IsDeleted(k)

\* What is about to be written is right.
BatchExact ==
    /\ pc # "upsert" => batch = <<>>
    /\ \A k \in Quiet : k \in DOMAIN batch => batch[k] = Exact(k)

\* The first pass has found every deleted key up to its marker, and at its end all.
MarkersFound ==
    \A k \in Quiet : IsDeleted(k) =>
        /\ (pc = "markers" /\ k <= keyMarker => k \in deletedKeys)
        /\ (pc \in {"contents", "upsert"} => k \in deletedKeys)
        /\ (pc = "upsert" => k \in DOMAIN batch)

\* The second pass has written every object up to its token, but for the current batch.
Written(k) == index[k] = Exact(k)
ContentsWritten ==
    /\ pc = "markers" => token = 0
    /\ \A k \in Quiet : IsLive(k) =>
           /\ (pc = "contents" /\ k <= token => Written(k))
           /\ (pc = "upsert" /\ (k <= token \/ ~isTruncated) => k \in DOMAIN batch \/ Written(k))

IndexInv == TypeOK /\ MarkersTrue /\ BatchExact /\ MarkersFound /\ ContentsWritten

-----------------------------------------------------------------------------
(* Listings *)

\* A set of keys that is not empty has a greatest.
LEMMA Greatest ==
    ASSUME NEW S \in SUBSET Key, S # {}
    PROVE  \E m \in S : \A j \in S : j <= m
<1>. DEFINE T == {LastKey - j : j \in S}
<1>1. LastKey \in Nat /\ \A j \in S : j \in Nat /\ j <= LastKey
  BY KeyAssumption DEF Key
<1>2. T \subseteq Nat /\ T # {}
  BY <1>1
<1>3. PICK x \in T : \A y \in T : ~(<<y, x>> \in OpToRel(<, Nat))
  BY <1>2, WFMin, NatLessThanWellFounded
<1>4. \A y \in T : ~(y < x)
  BY <1>2, <1>3 DEF OpToRel
<1>5. PICK m \in S : x = LastKey - m
  OBVIOUS
<1>. QED BY <1>1, <1>4, <1>5

LEMMA LastOfKeys ==
    ASSUME NEW S \in SUBSET Key, NEW default \in 0 .. LastKey
    PROVE  /\ LastOf(S, default) \in 0 .. LastKey
           /\ S # {} => LastOf(S, default) \in S /\ \A j \in S : j <= LastOf(S, default)
           /\ S = {} => LastOf(S, default) = default
<1>1. CASE S = {}
  BY <1>1 DEF LastOf
<1>2. CASE S # {}
  <2>1. \E m \in S : \A j \in S : j <= m
    BY <1>2, Greatest
  <2>2. LastOf(S, default) = CHOOSE m \in S : \A j \in S : j <= m
    BY <1>2 DEF LastOf
  <2>3. LastOf(S, default) \in S /\ \A j \in S : j <= LastOf(S, default)
    BY <2>1, <2>2
  <2>4. \A m \in S : m \in 0 .. LastKey
    BY KeyAssumption DEF Key
  <2>. QED BY <1>2, <2>3, <2>4, Zenon
<1>. QED BY <1>1, <1>2

LEMMA KeysFinite == IsFiniteSet(Key)
BY KeyAssumption, FS_Interval DEF Key

\* A content page holds, with a key, every live key before it.
LEMMA ContentPagePrefix ==
    ASSUME NEW after, NEW n \in Nat, NEW k \in ContentPage(after, n),
           NEW j \in ContentKeys(after), j < k
    PROVE  j \in ContentPage(after, n)
<1>. DEFINE Before(i) == {h \in ContentKeys(after) : h < i}
<1>1. ContentKeys(after) \subseteq Key /\ k \in ContentKeys(after)
  BY DEF ContentKeys, ContentPage
<1>2. Key \subseteq Nat
  BY DEF Key
<1>3. Before(j) \subseteq Before(k)
  <2>1. ASSUME NEW h \in ContentKeys(after), h < j PROVE h < k
    <3>1. h \in Nat /\ j \in Nat /\ k \in Nat
      BY <1>1, <1>2
    <3>. QED BY <2>1, <3>1
  <2>. QED BY <2>1
<1>4. IsFiniteSet(Before(k))
  BY <1>1, KeysFinite, FS_Subset
<1>5. /\ Cardinality(Before(j)) <= Cardinality(Before(k))
      /\ Cardinality(Before(j)) \in Nat /\ Cardinality(Before(k)) \in Nat
  BY <1>3, <1>4, FS_Subset, FS_CardinalityType
<1>6. Cardinality(Before(k)) < n
  BY DEF ContentPage
<1>. QED BY <1>5, <1>6 DEF ContentPage

LEMMA EntriesFinite ==
    ASSUME versions \in [Key -> Seq(Nat)], NEW after
    PROVE  IsFiniteSet(VersionEntries(after))
<1>. DEFINE K == {j \in Key : j > after}
            Of(k) == {k} \X (1 .. Len(versions[k]))
            f == [k \in K |-> Of(k)]
            T == {Of(k) : k \in K}
<1>1. IsFiniteSet(K)
  BY KeysFinite, FS_Subset
<1>2. f \in Surjection(K, T)
  BY DEF Surjection
<1>3. IsFiniteSet(T)
  BY <1>1, <1>2, FS_Surjection
<1>4. ASSUME NEW k \in K PROVE IsFiniteSet(Of(k))
  <2>1. Len(versions[k]) \in Nat
    BY LenProperties
  <2>2. IsFiniteSet(1 .. Len(versions[k]))
    BY <2>1, FS_Interval
  <2>. QED BY <2>2, FS_Singleton, FS_Product
<1>5. \A t \in T : IsFiniteSet(t)
  BY <1>4
<1>6. IsFiniteSet(UNION T)
  BY <1>3, <1>5, FS_UNION
<1>. QED BY <1>6 DEF VersionEntries

\* A version page holds, with an entry of a key, the latest version of every key up to it.
LEMMA VersionPagePrefix ==
    ASSUME versions \in [Key -> Seq(Nat)], NEW after, NEW n \in Nat,
           NEW e \in VersionPage(after, n), NEW k \in Key, k > after, k <= e[1], versions[k] # <<>>
    PROVE  <<k, 1>> \in VersionPage(after, n)
<1>. DEFINE E == VersionEntries(after)
            Before(g) == {f \in E : Precedes(f, g)}
            first == <<k, 1>>
<1>1. \A f \in E : f[1] \in Key /\ f[2] \in Nat /\ f[2] >= 1 /\ f = <<f[1], f[2]>>
  BY DEF VersionEntries
<1>2. first \in E
  <2>1. 1 \in 1 .. Len(versions[k])
    BY EmptySeq
  <2>2. first \in {k} \X (1 .. Len(versions[k]))
    BY <2>1
  <2>. QED BY <2>2 DEF VersionEntries
<1>3. e \in E /\ Cardinality(Before(e)) < n
  BY DEF VersionPage
<1>4. Key \subseteq Nat
  BY DEF Key
<1>5. Before(first) \subseteq Before(e)
  <2>. SUFFICES ASSUME NEW f \in E, Precedes(f, first) PROVE Precedes(f, e)
    OBVIOUS
  <2>1. f[1] < k
    BY <1>1 DEF Precedes
  <2>. QED BY <1>1, <1>3, <1>4, <2>1 DEF Precedes
<1>6. IsFiniteSet(Before(e))
  BY EntriesFinite, FS_Subset
<1>7. /\ Cardinality(Before(first)) <= Cardinality(Before(e))
      /\ Cardinality(Before(first)) \in Nat /\ Cardinality(Before(e)) \in Nat
  BY <1>5, <1>6, FS_Subset, FS_CardinalityType
<1>. QED BY <1>2, <1>3, <1>7 DEF VersionPage

-----------------------------------------------------------------------------
(* The steps *)

LEMMA IndexInit == Init => IndexInv
<1>. SUFFICES ASSUME Init PROVE IndexInv
  OBVIOUS
<1>1. InitVersions \subseteq Seq(Nat)
  <2>1. \A s \in Seq(0 .. 2) : s \in Seq(Nat)
    <3>. SUFFICES ASSUME NEW s \in Seq(0 .. 2) PROVE s \in Seq(Nat)
      OBVIOUS
    <3>1. Len(s) \in Nat /\ s \in [1 .. Len(s) -> 0 .. 2]
      BY LenProperties
    <3>2. s \in [1 .. Len(s) -> Nat]
      BY <3>1
    <3>. QED BY <3>1, <3>2, SeqDef
  <2>. QED BY <2>1, VersionsAssumption
<1>2. versions \in [Key -> Seq(Nat)]
  BY <1>1 DEF Init
<1>3. \E S \in SUBSET Key : batch \in [S -> Entry]
  <2>1. batch \in [{} -> Entry]
    BY DEF Init
  <2>2. {} \in SUBSET Key
    OBVIOUS
  <2>. QED BY <2>1, <2>2
<1>4. index \in [Key -> Entry \union {NoRow}]
  BY DEF Init
<1>5. /\ 0 \in 0 .. LastKey /\ 0 \in 0 .. MaxRuns /\ 0 \in 0 .. MaxChanges
      /\ changes = 0 /\ keyMarker = 0 /\ token = 0 /\ runs = 0
  BY KeyAssumption, BoundAssumption DEF Init
<1>6. TypeOK
  BY <1>2, <1>3, <1>4, <1>5 DEF Init, TypeOK, Entry
<1>. QED BY <1>6 DEF Init, IndexInv, MarkersTrue, BatchExact, MarkersFound, ContentsWritten

\* A change of one key, which the run may no longer speak for.
LEMMA ChangeKeeps ==
    ASSUME IndexInv, NEW k \in Key, NEW vs \in Seq(Nat), Change(k, vs)
    PROVE  IndexInv'
<1>1. /\ versions' = [versions EXCEPT ![k] = vs] /\ touched' = touched \union {k}
      /\ changes' = changes + 1 /\ changes < MaxChanges
      /\ UNCHANGED <<index, pc, keyMarker, deletedKeys, token, isTruncated, batch, runs>>
  BY DEF Change, runVars
<1>2. TypeOK'
  <2>1. versions' \in [Key -> Seq(Nat)]
    BY <1>1 DEF IndexInv, TypeOK
  <2>2. changes' \in 0 .. MaxChanges
    BY <1>1, BoundAssumption DEF IndexInv, TypeOK
  <2>3. touched' \subseteq Key
    BY <1>1 DEF IndexInv, TypeOK
  <2>. QED BY <1>1, <2>1, <2>2, <2>3 DEF IndexInv, TypeOK
<1>3. \A j \in Key \ {k} : versions'[j] = versions[j]
  BY <1>1 DEF IndexInv, TypeOK
<1>4. \A j \in Quiet' : /\ j \in Quiet /\ IsDeleted(j)' = IsDeleted(j) /\ IsLive(j)' = IsLive(j)
                        /\ Exact(j)' = Exact(j) /\ Written(j)' = Written(j)
  <2>. SUFFICES ASSUME NEW j \in Key \ (touched \union {k})
                PROVE  /\ j \in Quiet /\ IsDeleted(j)' = IsDeleted(j) /\ IsLive(j)' = IsLive(j)
                       /\ Exact(j)' = Exact(j) /\ Written(j)' = Written(j)
    BY <1>1 DEF Quiet
  <2>1. versions'[j] = versions[j]
    BY <1>3
  <2>2. Latest(j)' = Latest(j) /\ IsDeleted(j)' = IsDeleted(j) /\ IsLive(j)' = IsLive(j)
    BY <2>1 DEF IsDeleted, IsLive, Latest
  <2>3. Exact(j)' = Exact(j)
    BY <2>2 DEF Exact
  <2>. QED BY <1>1, <2>2, <2>3 DEF Quiet, Written
<1>5. MarkersTrue' /\ BatchExact'
  BY <1>1, <1>4 DEF IndexInv, MarkersTrue, BatchExact
<1>6. MarkersFound' /\ ContentsWritten'
  BY <1>1, <1>4 DEF IndexInv, MarkersFound, ContentsWritten
<1>. QED BY <1>2, <1>5, <1>6 DEF IndexInv

LEMMA Changes ==
    ASSUME IndexInv, NEW k \in Key, Upload(k) \/ Delete(k) \/ ExpireNoncurrent(k) \/ ExpireMarker(k)
    PROVE  IndexInv'
<1>1. versions[k] \in Seq(Nat) /\ changes \in Nat
  BY BoundAssumption DEF IndexInv, TypeOK
<1>2. \A n \in Nat : <<n>> \in Seq(Nat)
  OBVIOUS
<1>3. FreshVersion \in Nat /\ Marker \in Nat
  BY <1>1 DEF FreshVersion, Marker
<1>4. <<FreshVersion>> \o versions[k] \in Seq(Nat) /\ <<Marker>> \o versions[k] \in Seq(Nat)
  BY <1>1, <1>2, <1>3, ConcatProperties
<1>5. <<>> \in Seq(Nat)
  BY EmptySeq
<1>6. Len(versions[k]) > 1 => <<Latest(k)>> \in Seq(Nat)
  <2>. SUFFICES ASSUME Len(versions[k]) > 1 PROVE Latest(k) \in Nat
    BY <1>2
  <2>1. 1 \in 1 .. Len(versions[k])
    BY <1>1, LenProperties
  <2>. QED BY <1>1, <2>1, ElementOfSeq DEF Latest
<1>. QED BY <1>4, <1>5, <1>6, ChangeKeeps DEF Upload, Delete, ExpireNoncurrent, ExpireMarker

\* What only the run's own state can disturb.
LEMMA BucketStays ==
    ASSUME UNCHANGED <<storeVars, touched>>
    PROVE  /\ Quiet' = Quiet
           /\ \A k : IsDeleted(k)' = IsDeleted(k) /\ IsLive(k)' = IsLive(k)
           /\ \A k : Exact(k)' = Exact(k)
BY DEF storeVars, Quiet, IsDeleted, IsLive, Latest, Exact

LEMMA BeginKeeps == ASSUME IndexInv, Begin PROVE IndexInv'
<1>1. /\ pc' = "markers" /\ runs' = runs + 1 /\ runs < MaxRuns /\ keyMarker' = 0 /\ token' = 0
      /\ deletedKeys' = {} /\ touched' = {}
      /\ UNCHANGED <<versions, changes, index, isTruncated, batch>> /\ pc = "idle"
  BY DEF Begin, storeVars
<1>2. TypeOK'
  BY <1>1, KeyAssumption, BoundAssumption DEF IndexInv, TypeOK
<1>3. MarkersTrue' /\ MarkersFound' /\ ContentsWritten'
  BY <1>1 DEF MarkersTrue, MarkersFound, ContentsWritten, Quiet, Key
<1>4. BatchExact'
  BY <1>1 DEF IndexInv, BatchExact
<1>. QED BY <1>2, <1>3, <1>4 DEF IndexInv

LEMMA ListVersionsKeeps == ASSUME IndexInv, ListVersions PROVE IndexInv'
<1>1. PICK n \in 1 .. PageSize :
          LET page == VersionPage(keyMarker, n)
          IN  /\ deletedKeys' = deletedKeys \union MarkersIn(page)
              /\ IF page # VersionEntries(keyMarker)
                 THEN keyMarker' = NextKeyMarker(page) /\ pc' = pc
                 ELSE pc' = "contents" /\ keyMarker' = keyMarker
  BY DEF ListVersions
<1>. DEFINE page == VersionPage(keyMarker, n)
            listed == {e[1] : e \in page}
<1>2. /\ pc = "markers" /\ UNCHANGED <<versions, changes, index, token, isTruncated, batch, runs, touched>>
  BY DEF ListVersions, storeVars
<1>3. n \in Nat /\ versions \in [Key -> Seq(Nat)] /\ keyMarker \in 0 .. LastKey
  BY PageAssumption DEF IndexInv, TypeOK
<1>4. \A e \in VersionEntries(keyMarker) : e[1] \in Key /\ e[1] > keyMarker
  BY DEF VersionEntries
<1>5. page \subseteq VersionEntries(keyMarker)
  BY DEF VersionPage
<1>6. listed \subseteq Key /\ \A k \in listed : k > keyMarker
  BY <1>4, <1>5
<1>7. /\ NextKeyMarker(page) \in 0 .. LastKey
      /\ listed # {} => NextKeyMarker(page) \in listed /\ \A j \in listed : j <= NextKeyMarker(page)
      /\ listed = {} => NextKeyMarker(page) = keyMarker
  BY <1>3, <1>6, LastOfKeys DEF NextKeyMarker
<1>8. MarkersIn(page) \subseteq listed
  BY DEF MarkersIn
<1>9. ASSUME NEW k \in MarkersIn(page) PROVE IsDeleted(k)
  <2>1. PICK e \in page : e[1] = k /\ versions[k][1] = Marker /\ e[2] = 1
    BY DEF MarkersIn
  <2>2. k \in Key /\ 1 \in 1 .. Len(versions[k])
    BY <1>5, <2>1 DEF VersionEntries
  <2>3. versions[k] # <<>>
    BY <2>2, EmptySeq
  <2>. QED BY <2>1, <2>3 DEF IsDeleted, Latest
<1>10. ASSUME NEW k \in Key, IsDeleted(k), <<k, 1>> \in page PROVE k \in MarkersIn(page)
  <2>1. PICK e : e = <<k, 1>>
    OBVIOUS
  <2>2. e \in page /\ e[1] = k /\ e[2] = 1 /\ versions[k][1] = Marker
    BY <1>10, <2>1 DEF IsDeleted, Latest
  <2>. QED BY <2>2 DEF MarkersIn
<1>11. ASSUME NEW k \in Key, IsDeleted(k), k > keyMarker, NEW e \in page, k <= e[1]
       PROVE  k \in MarkersIn(page)
  <2>1. versions[k] # <<>>
    BY <1>11 DEF IsDeleted
  <2>2. <<k, 1>> \in page
    BY <1>3, <1>11, <2>1, VersionPagePrefix
  <2>. QED BY <1>10, <1>11, <2>2
<1>12. ASSUME NEW k \in Key, IsDeleted(k), k > keyMarker, page = VersionEntries(keyMarker)
       PROVE  k \in MarkersIn(page)
  <2>1. 1 \in 1 .. Len(versions[k])
    BY <1>3, <1>12, EmptySeq DEF IsDeleted
  <2>2. <<k, 1>> \in {k} \X (1 .. Len(versions[k]))
    BY <2>1
  <2>3. <<k, 1>> \in page
    BY <1>12, <2>2 DEF VersionEntries
  <2>. QED BY <1>10, <1>12, <2>3
<1>13. /\ deletedKeys' = deletedKeys \union MarkersIn(page)
       /\ \/ pc' = "markers" /\ keyMarker' = NextKeyMarker(page)
          \/ pc' = "contents" /\ keyMarker' = keyMarker /\ page = VersionEntries(keyMarker)
  BY <1>1, <1>2
<1>. HIDE DEF page
<1>14. TypeOK'
  BY <1>2, <1>6, <1>7, <1>8, <1>13 DEF IndexInv, TypeOK
<1>15. /\ Quiet' = Quiet
       /\ \A k \in Key : IsDeleted(k)' = IsDeleted(k) /\ IsLive(k)' = IsLive(k) /\ Exact(k)' = Exact(k)
  BY <1>2, BucketStays DEF storeVars
<1>16. MarkersTrue' /\ BatchExact'
  BY <1>2, <1>9, <1>13, <1>15 DEF IndexInv, MarkersTrue, BatchExact, Quiet
<1>17. MarkersFound'
  <2>. SUFFICES ASSUME NEW k \in Quiet, IsDeleted(k)
                PROVE  /\ (pc' = "markers" /\ k <= keyMarker' => k \in deletedKeys')
                       /\ (pc' = "contents" => k \in deletedKeys')
    BY <1>13, <1>15 DEF MarkersFound, Quiet
  <2>1. k \in Key /\ k \in Nat /\ keyMarker \in Nat
    BY <1>3 DEF Quiet, Key
  <2>2. k <= keyMarker => k \in deletedKeys
    BY <1>2 DEF IndexInv, MarkersFound
  <2>3. ASSUME k > keyMarker, k <= NextKeyMarker(page), pc' = "markers" PROVE k \in MarkersIn(page)
    <3>1. listed # {}
      BY <1>7, <2>1, <2>3
    <3>2. PICK e \in page : e[1] = NextKeyMarker(page)
      BY <1>7, <3>1
    <3>. QED BY <1>11, <2>1, <2>3, <3>2
  <2>4. ASSUME k > keyMarker, pc' = "contents" PROVE k \in MarkersIn(page)
    BY <1>12, <1>13, <2>1, <2>4
  <2>. QED BY <1>13, <2>1, <2>2, <2>3, <2>4
<1>18. ContentsWritten'
  BY <1>2, <1>13, <1>15 DEF IndexInv, ContentsWritten, Quiet, Key
<1>. QED BY <1>14, <1>16, <1>17, <1>18 DEF IndexInv

LEMMA ListContentsKeeps == ASSUME IndexInv, ListContents PROVE IndexInv'
<1>1. PICK n \in 1 .. PageSize :
          LET page == ContentPage(token, n)
          IN  /\ batch' = BatchOf(page)
              /\ isTruncated' = (page # ContentKeys(token))
              /\ token' = LastOf(page, token)
  BY DEF ListContents
<1>. DEFINE page == ContentPage(token, n)
<1>2. /\ pc = "contents" /\ pc' = "upsert"
      /\ UNCHANGED <<versions, changes, index, keyMarker, deletedKeys, runs, touched>>
  BY DEF ListContents, storeVars
<1>3. n \in Nat /\ versions \in [Key -> Seq(Nat)] /\ token \in 0 .. LastKey /\ deletedKeys \subseteq Key
  BY PageAssumption DEF IndexInv, TypeOK
<1>4. page \subseteq ContentKeys(token) /\ ContentKeys(token) = {k \in Key : k > token /\ IsLive(k)}
  BY DEF ContentPage, ContentKeys
<1>5. /\ LastOf(page, token) \in 0 .. LastKey
      /\ page # {} => LastOf(page, token) \in page
      /\ page = {} => LastOf(page, token) = token
  <2>1. page \in SUBSET Key
    BY <1>4
  <2>. HIDE DEF page
  <2>. QED BY <1>3, <2>1, LastOfKeys
<1>6. ASSUME NEW k \in Key, IsLive(k), k > token, k <= LastOf(page, token), page # {}
      PROVE  k \in page
  <2>1. k \in ContentKeys(token) /\ LastOf(page, token) \in page
    BY <1>4, <1>5, <1>6
  <2>2. CASE k = LastOf(page, token)
    BY <2>1, <2>2
  <2>3. CASE k < LastOf(page, token)
    BY <1>3, <2>1, <2>3, ContentPagePrefix
  <2>. QED BY <1>5, <1>6, <2>2, <2>3 DEF Key
<1>7. batch' = BatchOf(page) /\ isTruncated' = (page # ContentKeys(token)) /\ token' = LastOf(page, token)
  BY <1>1
<1>. HIDE DEF page
<1>8. /\ DOMAIN batch' = page \union deletedKeys
      /\ \A k \in DOMAIN batch' : batch'[k] = IF k \in page THEN Row(Latest(k), k \in deletedKeys) ELSE Row(0, TRUE)
  BY <1>7 DEF BatchOf
<1>9. ASSUME NEW k \in page PROVE k \in Key /\ IsLive(k) /\ Latest(k) \in Nat
  <2>1. k \in Key /\ IsLive(k)
    BY <1>4
  <2>2. 1 \in 1 .. Len(versions[k])
    BY <1>3, <2>1, EmptySeq DEF IsLive
  <2>. QED BY <1>3, <2>1, <2>2, ElementOfSeq DEF Latest
<1>10. batch' \in [page \union deletedKeys -> Entry]
  <2>1. \A v \in Nat, d \in BOOLEAN : Row(v, d) \in Entry
    BY DEF Row, Entry
  <2>2. \A k \in page \union deletedKeys :
            (IF k \in page THEN Row(Latest(k), k \in deletedKeys) ELSE Row(0, TRUE)) \in Entry
    <3>1. ASSUME NEW k \in page PROVE Row(Latest(k), k \in deletedKeys) \in Entry
      <4>1. Latest(k) \in Nat /\ (k \in deletedKeys) \in BOOLEAN
        BY <1>9, <3>1
      <4>. QED BY <2>1, <4>1, Zenon
    <3>2. Row(0, TRUE) \in Entry
      BY <2>1
    <3>. QED BY <3>1, <3>2, Zenon
  <2>. QED BY <1>7, <2>2 DEF BatchOf
<1>11. TypeOK'
  <2>1. page \union deletedKeys \in SUBSET Key
    BY <1>3, <1>9
  <2>2. \E S \in SUBSET Key : batch' \in [S -> Entry]
    BY <1>10, <2>1
  <2>. QED BY <1>2, <1>5, <1>7, <2>2 DEF IndexInv, TypeOK, Entry
<1>12. /\ Quiet' = Quiet
       /\ \A k \in Key : IsDeleted(k)' = IsDeleted(k) /\ IsLive(k)' = IsLive(k) /\ Exact(k)' = Exact(k)
  BY <1>2, BucketStays DEF storeVars
<1>13. BatchExact'
  <2>. SUFFICES ASSUME NEW k \in Quiet, k \in page \union deletedKeys PROVE batch'[k] = Exact(k)
    BY <1>2, <1>8, <1>12 DEF BatchExact, Quiet
  <2>1. k \in deletedKeys => IsDeleted(k)
    BY DEF IndexInv, MarkersTrue
  <2>2. CASE k \in page
    <3>1. IsLive(k) /\ k \notin deletedKeys
      BY <1>9, <2>1, <2>2 DEF IsLive, IsDeleted
    <3>2. (k \in deletedKeys) = FALSE
      BY <3>1
    <3>. QED BY <1>8, <2>2, <3>1, <3>2 DEF Exact, Row
  <2>3. CASE k \notin page
    BY <1>8, <2>1, <2>3 DEF IsLive, IsDeleted, Exact
  <2>. QED BY <2>2, <2>3
<1>14. MarkersTrue' /\ MarkersFound'
  BY <1>2, <1>8, <1>12 DEF IndexInv, MarkersTrue, MarkersFound, Quiet
<1>15. ContentsWritten'
  <2>. SUFFICES ASSUME NEW k \in Quiet, IsLive(k), k <= token' \/ ~isTruncated'
                PROVE  k \in DOMAIN batch' \/ Written(k)
    BY <1>2, <1>12 DEF ContentsWritten, Quiet, Written
  <2>1. k \in Key /\ k \in Nat /\ token \in Nat
    BY <1>3 DEF Quiet, Key
  <2>2. k <= token => Written(k)
    BY <1>2 DEF IndexInv, ContentsWritten
  <2>3. ASSUME k > token, k <= token' PROVE k \in page
    <3>1. page # {}
      BY <1>5, <1>7, <2>1, <2>3
    <3>. QED BY <1>6, <1>7, <2>1, <2>3, <3>1
  <2>4. ASSUME k > token, ~isTruncated' PROVE k \in page
    BY <1>4, <1>7, <2>1, <2>4
  <2>. QED BY <1>8, <2>1, <2>2, <2>3, <2>4
<1>. QED BY <1>11, <1>13, <1>14, <1>15 DEF IndexInv

\* What the upsert writes for a key that did not change.
LEMMA UpsertWrites ==
    ASSUME IndexInv, Upsert
    PROVE  /\ \A k \in Quiet : k \in DOMAIN batch => index'[k] = Exact(k)
           /\ \A k \in Key : k \notin DOMAIN batch => index'[k] = index[k]
<1>1. \A k \in Key : index'[k] = IF k \in DOMAIN batch THEN batch[k] ELSE index[k]
  BY DEF Upsert
<1>. QED BY <1>1 DEF IndexInv, BatchExact, Quiet

LEMMA UpsertKeeps == ASSUME IndexInv, Upsert PROVE IndexInv'
<1>1. /\ pc = "upsert" /\ batch' = <<>> /\ pc' = IF isTruncated THEN "contents" ELSE "idle"
      /\ UNCHANGED <<versions, changes, keyMarker, deletedKeys, token, isTruncated, runs, touched>>
  BY DEF Upsert, storeVars
<1>2. index' \in [Key -> Entry \union {NoRow}]
  <2>1. PICK S \in SUBSET Key : batch \in [S -> Entry]
    BY DEF IndexInv, TypeOK, Entry
  <2>2. \A k \in Key : (IF k \in DOMAIN batch THEN batch[k] ELSE index[k]) \in Entry \union {NoRow}
    BY <2>1 DEF IndexInv, TypeOK, Entry
  <2>. QED BY <2>2 DEF Upsert
<1>3. batch' \in [{} -> Entry] /\ {} \in SUBSET Key
  BY <1>1
<1>4. TypeOK'
  BY <1>1, <1>2, <1>3 DEF IndexInv, TypeOK, Entry
<1>5. /\ Quiet' = Quiet
      /\ \A k \in Key : IsDeleted(k)' = IsDeleted(k) /\ IsLive(k)' = IsLive(k) /\ Exact(k)' = Exact(k)
  BY <1>1, BucketStays DEF storeVars
<1>6. MarkersTrue' /\ BatchExact' /\ MarkersFound'
  BY <1>1, <1>5 DEF IndexInv, MarkersTrue, BatchExact, MarkersFound, Quiet
<1>7. ContentsWritten'
  <2>. SUFFICES ASSUME NEW k \in Quiet, IsLive(k), pc' = "contents", k <= token PROVE Written(k)'
    BY <1>1, <1>5 DEF ContentsWritten, Quiet
  <2>1. k \in DOMAIN batch \/ Written(k)
    BY <1>1 DEF IndexInv, ContentsWritten
  <2>2. k \in Key /\ Exact(k)' = Exact(k)
    BY <1>5 DEF Quiet
  <2>. QED BY <2>1, <2>2, UpsertWrites DEF Written
<1>. QED BY <1>4, <1>6, <1>7 DEF IndexInv

LEMMA FailKeeps == ASSUME IndexInv, Fail PROVE IndexInv'
<1>1. /\ pc' = "idle" /\ batch' = <<>>
      /\ UNCHANGED <<versions, changes, index, keyMarker, deletedKeys, token, isTruncated, runs, touched>>
  BY DEF Fail, storeVars
<1>2. batch' \in [{} -> Entry] /\ {} \in SUBSET Key
  BY <1>1
<1>3. TypeOK'
  BY <1>1, <1>2 DEF IndexInv, TypeOK, Entry
<1>4. /\ Quiet' = Quiet
      /\ \A k \in Key : IsDeleted(k)' = IsDeleted(k) /\ IsLive(k)' = IsLive(k) /\ Exact(k)' = Exact(k)
  BY <1>1, BucketStays DEF storeVars
<1>. QED BY <1>1, <1>3, <1>4
         DEF IndexInv, MarkersTrue, BatchExact, MarkersFound, ContentsWritten, Quiet

LEMMA IndexKeeps == IndexInv /\ [Next]_vars => IndexInv'
<1>. SUFFICES ASSUME IndexInv, [Next]_vars PROVE IndexInv'
  OBVIOUS
<1>1. CASE UNCHANGED vars
  <2>1. UNCHANGED <<versions, changes, index, pc, keyMarker, deletedKeys, token, isTruncated, batch, runs, touched>>
    BY <1>1 DEF vars, storeVars, runVars
  <2>2. TypeOK'
    BY <2>1 DEF IndexInv, TypeOK
  <2>3. /\ Quiet' = Quiet
        /\ \A k \in Key : IsDeleted(k)' = IsDeleted(k) /\ IsLive(k)' = IsLive(k) /\ Exact(k)' = Exact(k)
    BY <2>1, BucketStays DEF storeVars
  <2>. QED BY <2>1, <2>2, <2>3
           DEF IndexInv, MarkersTrue, BatchExact, MarkersFound, ContentsWritten, Quiet, Written
<1>. QED BY <1>1, Changes, BeginKeeps, ListVersionsKeeps, ListContentsKeeps, UpsertKeeps, FailKeeps
         DEF Next, IndexStep

-----------------------------------------------------------------------------
(* The results *)

\* The run keeps the types of its state: each marker is that of a key, and the rows it is
\* about to write are rows of keys.
THEOREM IndexTypeCorrect == Spec => []TypeOK
<1>1. IndexInv => TypeOK
  BY DEF IndexInv
<1>. QED BY <1>1, IndexInit, IndexKeeps, PTL DEF Spec

WriteExact == \A k \in Key \ touched : index'[k] # index[k] => index'[k] = Exact(k)

\* No run, also one that fails half-way, writes a wrong row for a key that did not change
\* since the run began.
THEOREM NoWrongRow == Spec => WritesAreExact
<1>1. ASSUME IndexInv, [Next]_vars, index' # index PROVE WriteExact
  <2>1. Upsert
    BY <1>1 DEF Next, IndexStep, Upload, Delete, ExpireNoncurrent, ExpireMarker, Change, Begin,
                ListVersions, ListContents, Fail, vars
  <2>. QED BY <1>1, <2>1, UpsertWrites DEF WriteExact, Quiet
<1>2. IndexInv /\ [Next]_vars => [WriteExact]_index
  BY <1>1
<1>3. Spec => [][WriteExact]_index
  BY <1>2, IndexInit, IndexKeeps, PTL DEF Spec
<1>. QED BY <1>3 DEF WritesAreExact, WriteExact

RunComplete ==
    Upsert /\ ~isTruncated => \A k \in Key \ touched : versions[k] # <<>> => index'[k] = Exact(k)

\* A run that comes to its end has written the row of every key that has versions and did
\* not change meanwhile, however the listings were split into pages.
THEOREM CompleteRunExact == Spec => CompleteRunIsExact
<1>1. ASSUME IndexInv, Upsert, ~isTruncated, NEW k \in Key \ touched, versions[k] # <<>>
      PROVE  index'[k] = Exact(k)
  <2>1. pc = "upsert" /\ k \in Quiet /\ (IsLive(k) \/ IsDeleted(k))
    BY <1>1 DEF Upsert, Quiet, IsLive, IsDeleted
  <2>2. k \in DOMAIN batch \/ Written(k)
    BY <1>1, <2>1 DEF IndexInv, MarkersFound, ContentsWritten
  <2>. QED BY <1>1, <2>1, <2>2, UpsertWrites DEF Written
<1>2. IndexInv /\ [Next]_vars => [RunComplete]_vars
  BY <1>1 DEF RunComplete
<1>3. Spec => [][RunComplete]_vars
  BY <1>2, IndexInit, IndexKeeps, PTL DEF Spec
<1>. QED BY <1>3 DEF CompleteRunIsExact, RunComplete
=============================================================================
