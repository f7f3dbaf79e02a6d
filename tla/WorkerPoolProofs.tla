-------------------------- MODULE WorkerPoolProofs --------------------------
(***************************************************************************)
(* Theorems about WorkerPool, for any finite sets of buckets and workers   *)
(* and any bounds: its invariants; then that it implements Collections and *)
(* that its clean-up leaves the rows in step with the buckets.             *)
(***************************************************************************)
EXTENDS WorkerPoolCollections, FiniteSetTheorems, TLAPS

\* Names of a single conjunct or expression of an action, expanded everywhere.
USE DEF WgAdd, WgDone, HasResult, LastResult, OnlyListed, Drained, Sent

-----------------------------------------------------------------------------
(* Types *)

\* A worker that processes a job holds the bucket it took from the channel.
HandOK ==
    \A r \in Run, w \in Worker :
        workerPc[r][w] \in {"metrics", "upsert", "ensure", "index"} =>
            job[r][w] \in Bucket

TypeInv == TypeOK /\ HandOK

LEMMA TypeInit == Init => TypeInv
<1>. SUFFICES ASSUME Init PROVE TypeInv
  OBVIOUS
<1>1. rows \in [Bucket -> {"absent", "placeholder", "measured"}]
  BY DEF Init
<1>2. ticks \in Run /\ changes \in 0 .. MaxChanges
  BY BoundAssumption DEF Init, Run
<1>3. /\ runPc \in [Run -> RunPc]
      /\ workerPc \in [Run -> [Worker -> WorkerPc]]
  BY DEF Init, RunPc, WorkerPc
<1>4. /\ job \in [Run -> [Worker -> Bucket \union {NoJob}]]
      /\ outcome \in [Run -> [Bucket -> {"pending", "failed", "saved"}]]
  BY DEF Init
<1>5. HandOK
  <2>1. \A r \in Run, w \in Worker : workerPc[r][w] = "new"
    BY DEF Init
  <2>. QED BY <2>1 DEF HandOK
<1>6. /\ listed \in [Run -> SUBSET Bucket] /\ unsent \in [Run -> SUBSET Bucket]
      /\ queue \in [Run -> SUBSET Bucket]
      /\ results \in [Run -> Nat] /\ received \in [Run -> Nat]
  BY DEF Init
<1>7. ctxDone \in BOOLEAN
  BY Zenon DEF Init
<1>8. /\ cloud \in SUBSET Bucket /\ wg \in Int
      /\ tickerPc \in {"looping", "exited"}
      /\ stopPc \in {"idle", "waiting", "returned"}
  BY DEF Init
<1>9. TypeOK
  BY <1>1, <1>2, <1>3, <1>4, <1>6, <1>7, <1>8 DEF TypeOK
<1>. QED BY <1>5, <1>9 DEF TypeInv

LEMMA TypeStep == TypeInv /\ [Next]_vars => TypeInv'
<1>. USE DEF TypeInv, TypeOK, HandOK, RunPc, WorkerPc, poolVars, cloudVars,
             runVars, workerVars
<1>. SUFFICES ASSUME TypeInv, [Next]_vars PROVE TypeInv'
  OBVIOUS
<1>1. CASE CloudStep
  <2>1. ASSUME NEW b \in Bucket, CreateBucket(b) PROVE TypeInv'
    BY <2>1, BoundAssumption DEF CreateBucket
  <2>2. ASSUME NEW b \in Bucket, DeleteBucket(b) PROVE TypeInv'
    BY <2>2, BoundAssumption DEF DeleteBucket
  <2>. QED BY <1>1, <2>1, <2>2 DEF CloudStep
<1>2. CASE BeginTick
  <2>1. ticks + 1 \in Run
    BY <1>2, BoundAssumption DEF BeginTick, Run
  <2>. QED BY <1>2, <2>1 DEF BeginTick
<1>3. CASE ExitTicker
  BY <1>3 DEF ExitTicker
<1>4. CASE Cancel
  BY <1>4 DEF Cancel
<1>5. CASE WaitReturns
  BY <1>5 DEF WaitReturns
<1>6. ASSUME NEW r \in Run, RunStep(r) PROVE TypeInv'
  <2>1. CASE ListNothing(r) BY <2>1 DEF ListNothing
  <2>2. CASE ListBuckets(r) BY <2>2 DEF ListBuckets
  <2>3. ASSUME NEW w \in Worker, SpawnWorker(r, w) PROVE TypeInv'
    BY <2>3 DEF SpawnWorker
  <2>4. ASSUME NEW b \in Bucket, SendJob(r, b) PROVE TypeInv'
    BY <2>4 DEF SendJob
  <2>5. CASE CloseJobs(r) BY <2>5 DEF CloseJobs
  <2>6. CASE ReceiveResult(r) BY <2>6 DEF ReceiveResult
  <2>7. CASE CleanRows(r) BY <2>7 DEF CleanRows
  <2>. QED BY <1>6, <2>1, <2>2, <2>3, <2>4, <2>5, <2>6, <2>7 DEF RunStep
<1>7. ASSUME NEW r \in Run, NEW w \in Worker, WorkerStep(r, w) PROVE TypeInv'
  <2>1. ASSUME NEW b \in Bucket, TakeJob(r, w, b) PROVE TypeInv'
    <3>1. CASE ctxDone
      <4>1. /\ workerPc' = [workerPc EXCEPT ![r][w] = "exit"]
            /\ job' = job
        BY <2>1, <3>1 DEF TakeJob
      <4>. QED BY <2>1, <4>1 DEF TakeJob
    <3>2. CASE ~ctxDone
      <4>1. /\ workerPc' = [workerPc EXCEPT ![r][w] = "metrics"]
            /\ job' = [job EXCEPT ![r][w] = b]
        BY <2>1, <3>2 DEF TakeJob
      <4>. QED BY <2>1, <4>1 DEF TakeJob
    <3>. QED BY <3>1, <3>2
  <2>2. CASE JobsExhausted(r, w) BY <2>2 DEF JobsExhausted
  <2>3. CASE GetMetrics(r, w)
    <3>1. CASE workerPc' = [workerPc EXCEPT ![r][w] = "upsert"]
      BY <2>3, <3>1 DEF GetMetrics
    <3>2. CASE workerPc' = [workerPc EXCEPT ![r][w] = "ensure"]
      BY <2>3, <3>2 DEF GetMetrics
    <3>. QED BY <2>3, <3>1, <3>2 DEF GetMetrics
  <2>4. ASSUME SaveRow(r, w) \/ SaveFails(r, w) PROVE TypeInv'
    <3>1. job[r][w] \in Bucket
      BY <2>4 DEF SaveRow, SaveFails
    <3>2. rows' \in [Bucket -> {"absent", "placeholder", "measured"}]
      BY <2>4, <3>1 DEF SaveRow, SaveFails
    <3>3. outcome' \in [Run -> [Bucket -> {"pending", "failed", "saved"}]]
      <4>1. PICK v \in {"saved", "failed"} :
                outcome' = [outcome EXCEPT ![r][job[r][w]] = v]
        BY <2>4 DEF SaveRow, SaveFails
      <4>. QED BY <4>1, <3>1
    <3>4. PICK p \in {"range", "index"} :
              workerPc' = [workerPc EXCEPT ![r][w] = p]
      BY <2>4 DEF SaveRow, SaveFails, AfterSave
    <3>5. \/ job' = job
          \/ workerPc' = [workerPc EXCEPT ![r][w] = "range"]
             /\ job' = [job EXCEPT ![r][w] = NoJob]
      BY <2>4 DEF SaveRow, SaveFails, AfterSave
    <3>6. workerPc' \in [Run -> [Worker -> WorkerPc]]
      BY <3>4
    <3>7. job' \in [Run -> [Worker -> Bucket \union {NoJob}]] /\ HandOK'
      <4>1. CASE job' = job
        BY <3>1, <3>4, <4>1
      <4>2. CASE /\ workerPc' = [workerPc EXCEPT ![r][w] = "range"]
                 /\ job' = [job EXCEPT ![r][w] = NoJob]
        BY <4>2
      <4>. QED BY <3>5, <4>1, <4>2
    <3>. QED BY <2>4, <3>2, <3>3, <3>6, <3>7 DEF SaveRow, SaveFails
  <2>6. CASE IndexObjects(r, w) BY <2>6 DEF IndexObjects
  <2>7. CASE SendResult(r, w) BY <2>7 DEF SendResult
  <2>8. CASE WorkerDone(r, w) BY <2>8 DEF WorkerDone
  <2>. QED BY <1>7, <2>1, <2>2, <2>3, <2>4, <2>6, <2>7, <2>8
           DEF WorkerStep
<1>8. CASE UNCHANGED vars
  BY <1>8 DEF vars
<1>. QED BY <1>1, <1>2, <1>3, <1>4, <1>5, <1>6, <1>7, <1>8 DEF Next

\* The state of the pool keeps its types: no counter, channel or pc ever holds
\* anything else, whatever the numbers of workers, buckets and collections.
THEOREM TypeCorrect == Spec => []TypeOK
<1>1. TypeInv => TypeOK
  BY DEF TypeInv
<1>. QED BY <1>1, TypeInit, TypeStep, PTL DEF Spec

-----------------------------------------------------------------------------
(* Results and exits *)

\* A run goes on to its clean-up with the last of its len(buckets) results.
CollectOK ==
    \A r \in Run : runPc[r] = "clean" => received[r] = Cardinality(listed[r])

CountInv == CollectOK /\ ResultsAreExits

\* The reporting workers of a run are finitely many, at most all of them.
LEMMA ReportedBound ==
    ASSUME NEW r \in Run
    PROVE  /\ IsFiniteSet(Reported(r))
           /\ Cardinality(Reported(r)) \in Nat
           /\ Cardinality(Worker) \in Nat
           /\ Cardinality(Reported(r)) <= Cardinality(Worker)
<1>1. Reported(r) \in SUBSET Worker
  BY DEF Reported
<1>2. /\ IsFiniteSet(Reported(r))
      /\ Cardinality(Reported(r)) <= Cardinality(Worker)
  BY <1>1, WorkerAssumption, FS_Subset
<1>. QED BY <1>2, WorkerAssumption, FS_CardinalityType

LEMMA CountInit == Init => CountInv
<1>. SUFFICES ASSUME Init, NEW r \in Run
              PROVE  /\ runPc[r] # "clean"
                     /\ received[r] + results[r] = Cardinality(Reported(r))
  BY DEF CountInv, CollectOK, ResultsAreExits
<1>1. Reported(r) = {}
  <2>1. \A w \in Worker : workerPc[r][w] = "new"
    BY DEF Init
  <2>. QED BY <2>1 DEF Reported
<1>. QED BY <1>1, FS_EmptySet DEF Init

\* A step that moves one worker between pcs outside {"done", "gone"}, or inside,
\* leaves every set of reporting workers as it was.
LEMMA SameReported ==
    ASSUME TypeInv, NEW r \in Run, NEW w \in Worker, NEW p,
           workerPc' = [workerPc EXCEPT ![r][w] = p],
           p \in {"done", "gone"} <=> workerPc[r][w] \in {"done", "gone"}
    PROVE  \A q \in Run : Reported(q)' = Reported(q)
BY DEF TypeInv, TypeOK, Reported

LEMMA CountStep == TypeInv /\ CountInv /\ [Next]_vars => CountInv'
<1>. USE DEF poolVars, cloudVars, runVars, workerVars
<1>. SUFFICES ASSUME TypeInv, CountInv, [Next]_vars PROVE CountInv'
  OBVIOUS
<1>. DEFINE Same == \A q \in Run : Reported(q)' = Reported(q)
<1>1. ASSUME Same, UNCHANGED <<runPc, listed, received, results>> PROVE CountInv'
  BY <1>1 DEF CountInv, CollectOK, ResultsAreExits
<1>2. ASSUME UNCHANGED workerPc PROVE Same
  BY <1>2 DEF Reported
<1>3. ASSUME UNCHANGED <<listed, received, results, workerPc>>,
             NEW r \in Run, NEW p \in RunPc, p # "clean",
             runPc' = [runPc EXCEPT ![r] = p]
      PROVE  CountInv'
  BY <1>2, <1>3 DEF TypeInv, TypeOK, CountInv, CollectOK, ResultsAreExits
<1>4. CASE CloudStep
  BY <1>1, <1>2, <1>4 DEF CloudStep, CreateBucket, DeleteBucket
<1>5. CASE BeginTick
  <2>1. ticks + 1 \in Run
    BY <1>5, BoundAssumption DEF BeginTick, Run, TypeInv, TypeOK
  <2>. QED BY <1>3, <1>5, <2>1 DEF BeginTick, RunPc
<1>6. CASE ExitTicker \/ Cancel \/ WaitReturns
  BY <1>1, <1>2, <1>6 DEF ExitTicker, Cancel, WaitReturns
<1>7. ASSUME NEW r \in Run, RunStep(r) PROVE CountInv'
  <2>1. CASE ListNothing(r)
    BY <1>3, <2>1 DEF ListNothing, RunPc
  <2>2. CASE ListBuckets(r)
    BY <1>2, <2>2 DEF ListBuckets, TypeInv, TypeOK, CountInv, CollectOK,
                      ResultsAreExits
  <2>3. ASSUME NEW w \in Worker, SpawnWorker(r, w) PROVE CountInv'
    BY <1>1, <2>3, SameReported DEF SpawnWorker
  <2>4. ASSUME NEW b \in Bucket, SendJob(r, b) PROVE CountInv'
    BY <1>1, <1>2, <2>4 DEF SendJob
  <2>5. CASE CloseJobs(r)
    BY <1>3, <2>5 DEF CloseJobs, RunPc
  <2>6. CASE ReceiveResult(r)
    <3>1. CollectOK'
      BY <2>6 DEF ReceiveResult, TypeInv, TypeOK, CountInv, CollectOK
    <3>2. ResultsAreExits'
      BY <1>2, <2>6 DEF ReceiveResult, TypeInv, TypeOK, CountInv, ResultsAreExits
    <3>. QED BY <3>1, <3>2 DEF CountInv
  <2>7. CASE CleanRows(r)
    BY <1>3, <2>7 DEF CleanRows, RunPc
  <2>. QED BY <1>7, <2>1, <2>2, <2>3, <2>4, <2>5, <2>6, <2>7 DEF RunStep
<1>8. ASSUME NEW r \in Run, NEW w \in Worker, WorkerStep(r, w) PROVE CountInv'
  <2>1. ASSUME NEW b \in Bucket, TakeJob(r, w, b) PROVE CountInv'
    <3>1. PICK p \in {"exit", "metrics"} :
              workerPc' = [workerPc EXCEPT ![r][w] = p]
      BY <2>1 DEF TakeJob
    <3>. QED BY <1>1, <2>1, <3>1, SameReported DEF TakeJob
  <2>2. CASE JobsExhausted(r, w)
    BY <1>1, <2>2, SameReported DEF JobsExhausted
  <2>3. CASE GetMetrics(r, w)
    <3>1. PICK p \in {"upsert", "ensure"} :
              workerPc' = [workerPc EXCEPT ![r][w] = p]
      BY <2>3 DEF GetMetrics
    <3>. QED BY <1>1, <2>3, <3>1, SameReported DEF GetMetrics
  <2>4. CASE SaveRow(r, w) \/ SaveFails(r, w)
    <3>1. PICK p \in {"range", "index"} :
              workerPc' = [workerPc EXCEPT ![r][w] = p]
      BY <2>4 DEF SaveRow, SaveFails, AfterSave
    <3>2. Same
      BY <2>4, <3>1, SameReported DEF SaveRow, SaveFails
    <3>. QED BY <1>1, <2>4, <3>2 DEF SaveRow, SaveFails
  <2>5. CASE IndexObjects(r, w)
    BY <1>1, <2>5, SameReported DEF IndexObjects
  <2>6. CASE SendResult(r, w)
    <3>1. w \notin Reported(r)
      BY <2>6 DEF SendResult, Reported
    <3>2. Reported(r)' = Reported(r) \union {w}
      BY <2>6 DEF SendResult, Reported, TypeInv, TypeOK
    <3>3. \A q \in Run \ {r} : Reported(q)' = Reported(q)
      BY <2>6 DEF SendResult, Reported, TypeInv, TypeOK
    <3>4. Cardinality(Reported(r)') = Cardinality(Reported(r)) + 1
      BY <3>1, <3>2, ReportedBound, FS_AddElement
    <3>5. ResultsAreExits'
      <4>. SUFFICES ASSUME NEW q \in Run
                    PROVE  received'[q] + results'[q] = Cardinality(Reported(q)')
        BY DEF ResultsAreExits
      <4>1. received[q] + results[q] = Cardinality(Reported(q))
        BY DEF CountInv, ResultsAreExits
      <4>2. received[q] \in Nat /\ results[q] \in Nat /\ received' = received
        BY <2>6 DEF SendResult, TypeInv, TypeOK
      <4>3. CASE q = r
        BY <2>6, <3>4, <4>1, <4>2, <4>3 DEF SendResult, TypeInv, TypeOK
      <4>4. CASE q # r
        BY <2>6, <3>3, <4>1, <4>2, <4>4 DEF SendResult, TypeInv, TypeOK
      <4>. QED BY <4>3, <4>4
    <3>. QED BY <2>6, <3>5 DEF SendResult, CountInv, CollectOK
  <2>7. CASE WorkerDone(r, w)
    BY <1>1, <2>7, SameReported DEF WorkerDone
  <2>. QED BY <1>8, <2>1, <2>2, <2>3, <2>4, <2>5, <2>6, <2>7 DEF WorkerStep
<1>9. CASE UNCHANGED vars
  BY <1>1, <1>2, <1>9 DEF vars
<1>. QED BY <1>4, <1>5, <1>6, <1>7, <1>8, <1>9 DEF Next

\* What a run has received and what its results channel holds are exactly its
\* workers that have left: no exit is lost and none is counted twice.
THEOREM ResultsCorrect == Spec => []ResultsAreExits
<1>1. CountInv => ResultsAreExits
  BY DEF CountInv
<1>. QED BY <1>1, TypeInit, TypeStep, CountInit, CountStep, PTL DEF Spec

\* A collection that has more buckets than the pool has workers never reaches its
\* clean-up, whatever the scheduling: it waits for results nobody will send.
THEOREM CleanNeedsWorkersCorrect == Spec => []CleanNeedsWorkers
<1>1. TypeInv /\ CountInv => CleanNeedsWorkers
  <2>. SUFFICES ASSUME TypeInv, CountInv, NEW r \in Run, runPc[r] = "clean"
                PROVE  Cardinality(listed[r]) <= Cardinality(Worker)
    BY DEF CleanNeedsWorkers
  <2>1. received[r] + results[r] <= Cardinality(Worker)
    BY ReportedBound DEF CountInv, ResultsAreExits
  <2>. QED BY <2>1, ReportedBound
           DEF TypeInv, TypeOK, CountInv, CollectOK
<1>. QED BY <1>1, TypeInit, TypeStep, CountInit, CountStep, PTL DEF Spec

-----------------------------------------------------------------------------
(* The wait group *)

\* Scheduled collections follow one another, and the ticker goroutine has exited
\* only between two of them.
TickOK ==
    /\ \A r \in Tick : /\ r < ticks => runPc[r] = "returned"
                       /\ r > ticks => runPc[r] = "idle"
    /\ tickerPc = "exited" => ticks = 0 \/ runPc[ticks] = "returned"

LEMMA TickInit == Init => TickOK
BY BoundAssumption DEF Init, TickOK, Tick, Run

LEMMA TickStep == TypeInv /\ TickOK /\ [Next]_vars => TickOK'
<1>. USE DEF poolVars, cloudVars, runVars, workerVars
<1>. SUFFICES ASSUME TypeInv, TickOK, [Next]_vars PROVE TickOK'
  OBVIOUS
<1>1. ASSUME UNCHANGED <<ticks, tickerPc, runPc>> PROVE TickOK'
  BY <1>1 DEF TickOK
<1>2. CASE BeginTick
  BY <1>2, BoundAssumption DEF BeginTick, AtSelect, TickOK, Tick, Run, TypeInv, TypeOK
<1>3. CASE ExitTicker
  BY <1>3 DEF ExitTicker, AtSelect, TickOK
<1>4. CASE CloudStep \/ Cancel \/ WaitReturns \/ UNCHANGED vars
  BY <1>1, <1>4 DEF CloudStep, CreateBucket, DeleteBucket, Cancel, WaitReturns,
                    vars
<1>5. ASSUME NEW r \in Run, RunStep(r) PROVE TickOK'
  <2>1. PICK p \in RunPc : runPc' = [runPc EXCEPT ![r] = p]
    <3>1. runPc \in [Run -> RunPc] /\ runPc = [runPc EXCEPT ![r] = runPc[r]]
      BY DEF TypeInv, TypeOK
    <3>. QED BY <1>5, <3>1 DEF RunStep, ListNothing, ListBuckets, SpawnWorker,
                SendJob, CloseJobs, ReceiveResult, CleanRows, RunPc
  <2>2. /\ runPc[r] \notin {"idle", "returned"}
        /\ UNCHANGED <<ticks, tickerPc>>
    BY <1>5 DEF RunStep, ListNothing, ListBuckets, SpawnWorker, SendJob,
                CloseJobs, ReceiveResult, CleanRows
  <2>. QED BY <2>1, <2>2, BoundAssumption DEF TickOK, Tick, Run, TypeInv, TypeOK
<1>6. ASSUME NEW r \in Run, NEW w \in Worker, WorkerStep(r, w) PROVE TickOK'
  BY <1>1, <1>6 DEF WorkerStep, TakeJob, JobsExhausted, GetMetrics, SaveRow,
                    SaveFails, IndexObjects, SendResult, WorkerDone
<1>. QED BY <1>2, <1>3, <1>4, <1>5, <1>6 DEF Next

\* The workers wg counts.
LiveSet == {x \in Run \X Worker : Live(x[1], x[2])}

LEMMA LiveSetFinite == IsFiniteSet(LiveSet) /\ Cardinality(LiveSet) \in Nat
<1>1. IsFiniteSet(Run)
  BY BoundAssumption, FS_Interval DEF Run
<1>2. IsFiniteSet(Run \X Worker)
  BY <1>1, WorkerAssumption, FS_Product
<1>3. LiveSet \in SUBSET (Run \X Worker)
  BY DEF LiveSet
<1>. QED BY <1>2, <1>3, FS_Subset, FS_CardinalityType

LEMMA CounterInit == Init => CounterCoversLive /\ StopCoversTicks
<1>. SUFFICES ASSUME Init PROVE CounterCoversLive /\ StopCoversTicks
  OBVIOUS
<1>1. \A r \in Run, w \in Worker : workerPc[r][w] = "new"
  BY DEF Init
<1>2. LiveSet = {}
  BY <1>1 DEF LiveSet, Live
<1>3. wg = (IF tickerPc = "looping" THEN 1 ELSE 0) + Cardinality(LiveSet)
  BY <1>2, FS_EmptySet DEF Init
<1>4. CounterCoversLive
  BY <1>3 DEF CounterCoversLive, LiveSet
<1>. QED BY <1>4 DEF Init, StopCoversTicks

\* A step of a worker between two pcs at which it is live leaves the live workers
\* as they were.
LEMMA SameLive ==
    ASSUME TypeInv, NEW r \in Run, NEW w \in Worker, NEW p,
           workerPc' = [workerPc EXCEPT ![r][w] = p],
           Live(r, w), p \notin {"new", "gone"}
    PROVE  LiveSet' = LiveSet
<1>1. \A q \in Run, v \in Worker : Live(q, v)' <=> Live(q, v)
  BY DEF TypeInv, TypeOK, Live
<1>. QED BY <1>1 DEF LiveSet

\* What any step of a worker does to its pc, and that it disturbs neither the
\* ticker, nor Stop, nor the pc of a collection.
LEMMA WorkerStepMoves ==
    ASSUME NEW r \in Run, NEW w \in Worker, WorkerStep(r, w)
    PROVE  /\ Live(r, w)
           /\ UNCHANGED <<tickerPc, stopPc, runPc>>
           /\ \/ /\ wg' = wg
                 /\ \E p \in WorkerPc \ {"new", "gone"} :
                        workerPc' = [workerPc EXCEPT ![r][w] = p]
              \/ /\ wg' = wg - 1
                 /\ workerPc' = [workerPc EXCEPT ![r][w] = "gone"]
<1>. USE DEF Live, WorkerPc, poolVars, runVars
<1>1. CASE \E b \in Bucket : TakeJob(r, w, b)
  BY <1>1 DEF TakeJob
<1>2. CASE JobsExhausted(r, w) \/ GetMetrics(r, w)
  BY <1>2 DEF JobsExhausted, GetMetrics
<1>3. CASE SaveRow(r, w) \/ SaveFails(r, w)
  BY <1>3 DEF SaveRow, SaveFails, AfterSave
<1>4. CASE IndexObjects(r, w) \/ SendResult(r, w)
  BY <1>4 DEF IndexObjects, SendResult
<1>5. CASE WorkerDone(r, w)
  BY <1>5 DEF WorkerDone
<1>. QED BY <1>1, <1>2, <1>3, <1>4, <1>5 DEF WorkerStep

LEMMA CounterStep ==
    TypeInv /\ TickOK /\ CounterCoversLive /\ [Next]_vars => CounterCoversLive'
<1>. USE DEF poolVars, cloudVars, runVars, workerVars
<1>. SUFFICES ASSUME TypeInv, CounterCoversLive, [Next]_vars
              PROVE  CounterCoversLive'
  OBVIOUS
<1>. DEFINE Ticker == IF tickerPc = "looping" THEN 1 ELSE 0
<1>1. wg = Ticker + Cardinality(LiveSet)
  BY DEF CounterCoversLive, LiveSet
<1>2. ASSUME UNCHANGED <<tickerPc, wg>>, LiveSet' = LiveSet
      PROVE  CounterCoversLive'
  BY <1>1, <1>2 DEF CounterCoversLive, LiveSet
<1>3. ASSUME UNCHANGED workerPc PROVE LiveSet' = LiveSet
  BY <1>3 DEF LiveSet, Live
<1>4. CASE ExitTicker
  <2>1. LiveSet' = LiveSet
    BY <1>3, <1>4 DEF ExitTicker
  <2>2. wg' = Cardinality(LiveSet) /\ tickerPc' = "exited"
    BY <1>1, <1>4, LiveSetFinite DEF ExitTicker, AtSelect
  <2>. QED BY <2>1, <2>2, LiveSetFinite DEF CounterCoversLive, LiveSet
<1>5. CASE CloudStep \/ BeginTick \/ Cancel \/ WaitReturns \/ UNCHANGED vars
  BY <1>2, <1>3, <1>5 DEF CloudStep, CreateBucket, DeleteBucket, BeginTick, Cancel,
                         WaitReturns, vars
<1>6. ASSUME NEW r \in Run, RunStep(r) PROVE CounterCoversLive'
  <2>1. ASSUME NEW w \in Worker, SpawnWorker(r, w) PROVE CounterCoversLive'
    <3>1. /\ workerPc[r][w] = "new" /\ wg' = wg + 1 /\ tickerPc' = tickerPc
          /\ workerPc' = [workerPc EXCEPT ![r][w] = "range"]
      BY <2>1 DEF SpawnWorker
    <3>2. \A q \in Run, v \in Worker :
             Live(q, v)' <=> (Live(q, v) \/ (q = r /\ v = w))
      BY <3>1 DEF TypeInv, TypeOK, Live
    <3>3. LiveSet' = LiveSet \union {<<r, w>>} /\ <<r, w>> \notin LiveSet
      BY <3>1, <3>2 DEF LiveSet, Live
    <3>4. Cardinality(LiveSet') = Cardinality(LiveSet) + 1
      BY <3>3, LiveSetFinite, FS_AddElement
    <3>5. wg' = Ticker + Cardinality(LiveSet')
      BY <1>1, <3>1, <3>4, LiveSetFinite
    <3>. QED BY <3>1, <3>5 DEF CounterCoversLive, LiveSet
  <2>2. ASSUME UNCHANGED <<tickerPc, wg, workerPc>> PROVE CounterCoversLive'
    BY <1>2, <1>3, <2>2
  <2>. QED BY <1>6, <2>1, <2>2 DEF RunStep, ListNothing, ListBuckets, SendJob,
              CloseJobs, ReceiveResult, CleanRows
<1>7. ASSUME NEW r \in Run, NEW w \in Worker, WorkerStep(r, w)
      PROVE  CounterCoversLive'
  <2>1. CASE wg' = wg
    <3>1. PICK p \in WorkerPc \ {"new", "gone"} :
              workerPc' = [workerPc EXCEPT ![r][w] = p]
      BY <1>7, <2>1, WorkerStepMoves DEF TypeInv, TypeOK
    <3>2. LiveSet' = LiveSet
      BY <1>7, <3>1, SameLive, WorkerStepMoves
    <3>. QED BY <1>2, <1>7, <2>1, <3>2, WorkerStepMoves
  <2>2. CASE wg' # wg
    <3>1. /\ wg' = wg - 1 /\ tickerPc' = tickerPc /\ Live(r, w)
          /\ workerPc' = [workerPc EXCEPT ![r][w] = "gone"]
      BY <1>7, <2>2, WorkerStepMoves
    <3>2. \A q \in Run, v \in Worker :
             Live(q, v)' <=> (Live(q, v) /\ ~(q = r /\ v = w))
      BY <3>1 DEF TypeInv, TypeOK, Live
    <3>3. LiveSet' = LiveSet \ {<<r, w>>} /\ <<r, w>> \in LiveSet
      BY <3>1, <3>2 DEF LiveSet
    <3>4. Cardinality(LiveSet') = Cardinality(LiveSet) - 1
      BY <3>3, LiveSetFinite, FS_RemoveElement
    <3>5. wg' = Ticker + Cardinality(LiveSet')
      BY <1>1, <3>1, <3>4, LiveSetFinite
    <3>. QED BY <3>1, <3>5 DEF CounterCoversLive, LiveSet
  <2>. QED BY <2>1, <2>2
<1>. QED BY <1>4, <1>5, <1>6, <1>7 DEF Next

LEMMA StopStep ==
    TypeInv /\ TickOK /\ CounterCoversLive /\ StopCoversTicks /\ [Next]_vars
        => StopCoversTicks'
<1>. USE DEF poolVars, cloudVars, runVars, workerVars
<1>. SUFFICES ASSUME TypeInv, TickOK, CounterCoversLive, StopCoversTicks,
                     [Next]_vars, stopPc' = "returned"
              PROVE  /\ tickerPc' = "exited"
                     /\ \A r \in Tick : /\ runPc'[r] \in {"idle", "returned"}
                                        /\ \A w \in Worker : ~Live(r, w)'
  BY DEF StopCoversTicks
<1>1. CASE WaitReturns
  <2>1. tickerPc = "exited" /\ Cardinality(LiveSet) = 0
    BY <1>1, LiveSetFinite DEF WaitReturns, CounterCoversLive, LiveSet, TypeInv, TypeOK
  <2>2. LiveSet = {}
    BY <2>1, LiveSetFinite, FS_EmptySet
  <2>3. \A r \in Tick : /\ r \in Run /\ r # 0 /\ runPc[r] \in {"idle", "returned"}
    <3>1. ticks \in Run /\ (ticks = 0 \/ runPc[ticks] = "returned")
      BY <2>1 DEF TickOK, TypeInv, TypeOK
    <3>. SUFFICES ASSUME NEW r \in Tick
                  PROVE  /\ r \in Run /\ r # 0
                         /\ runPc[r] \in {"idle", "returned"}
      OBVIOUS
    <3>3. r \in Run /\ r # 0 /\ r \in Int /\ ticks \in Int
      BY <3>1, BoundAssumption DEF Tick, Run
    <3>4. CASE r = ticks
      <4>1. runPc[ticks] = "returned" BY <3>1, <3>3, <3>4
      <4>. QED BY <3>3, <3>4, <4>1
    <3>5. CASE r # ticks
      BY <3>3, <3>5 DEF TickOK
    <3>. QED BY <3>4, <3>5
  <2>4. \A r \in Tick, w \in Worker : ~Live(r, w)
    <3>1. \A r \in Run, w \in Worker : Live(r, w) => <<r, w>> \in LiveSet
      BY DEF LiveSet
    <3>. QED BY <2>2, <2>3, <3>1
  <2>. QED BY <1>1, <2>1, <2>3, <2>4 DEF WaitReturns, Live
<1>2. CASE stopPc = "returned"
  <2>1. /\ tickerPc = "exited"
        /\ \A r \in Tick : /\ runPc[r] \in {"idle", "returned"}
                           /\ \A w \in Worker : ~Live(r, w)
    BY <1>2 DEF StopCoversTicks
  <2>2. ASSUME NEW r \in Run, RunStep(r)
        PROVE  /\ UNCHANGED tickerPc /\ r \notin Tick
               /\ \A q \in Run \ {r} : /\ runPc'[q] = runPc[q]
                                       /\ \A w \in Worker : Live(q, w)' <=> Live(q, w)
    <3>1. runPc[r] \notin {"idle", "returned"} /\ UNCHANGED tickerPc
      BY <2>2 DEF RunStep, ListNothing, ListBuckets, SpawnWorker, SendJob,
                  CloseJobs, ReceiveResult, CleanRows
    <3>2. \A q \in Run \ {r} : runPc'[q] = runPc[q]
      BY <2>2 DEF RunStep, ListNothing, ListBuckets, SpawnWorker, SendJob,
                  CloseJobs, ReceiveResult, CleanRows, TypeInv, TypeOK
    <3>3. \A q \in Run \ {r} : workerPc'[q] = workerPc[q]
      BY <2>2 DEF RunStep, ListNothing, ListBuckets, SpawnWorker, SendJob,
                  CloseJobs, ReceiveResult, CleanRows, TypeInv, TypeOK
    <3>. QED BY <2>1, <3>1, <3>2, <3>3 DEF Live
  <2>3. ASSUME NEW r \in Run, NEW w \in Worker, WorkerStep(r, w)
        PROVE  /\ UNCHANGED <<tickerPc, runPc>> /\ r \notin Tick
               /\ \A q \in Run \ {r} : workerPc'[q] = workerPc[q]
    <3>1. /\ Live(r, w) /\ UNCHANGED <<tickerPc, runPc>>
          /\ \E p : workerPc' = [workerPc EXCEPT ![r][w] = p]
      BY <2>3, WorkerStepMoves
    <3>. QED BY <2>1, <3>1 DEF TypeInv, TypeOK
  <2>4. ASSUME UNCHANGED <<tickerPc, runPc, workerPc>>
        PROVE  /\ tickerPc' = "exited"
               /\ \A r \in Tick : /\ runPc'[r] \in {"idle", "returned"}
                                  /\ \A w \in Worker : ~Live(r, w)'
    BY <2>1, <2>4 DEF Live
  <2>5. Tick \subseteq Run
    BY BoundAssumption DEF Tick, Run
  <2>6. CASE \E r \in Run : RunStep(r)
    BY <2>1, <2>2, <2>5, <2>6
  <2>7. CASE \E r \in Run, w \in Worker : WorkerStep(r, w)
    BY <2>1, <2>3, <2>5, <2>7 DEF Live
  <2>8. ~BeginTick /\ ~ExitTicker
    BY <2>1 DEF BeginTick, ExitTicker, AtSelect
  <2>9. CASE CloudStep \/ Cancel \/ WaitReturns \/ UNCHANGED vars
    BY <2>4, <2>9 DEF CloudStep, CreateBucket, DeleteBucket, Cancel, WaitReturns,
                      vars
  <2>. QED BY <2>6, <2>7, <2>8, <2>9 DEF Next
<1>3. CASE stopPc # "returned" /\ ~WaitReturns
  BY <1>3, WorkerStepMoves
     DEF Next, CloudStep, CreateBucket, DeleteBucket, BeginTick, ExitTicker, Cancel,
         RunStep, ListNothing, ListBuckets, SpawnWorker, SendJob, CloseJobs,
         ReceiveResult, CleanRows, vars
<1>. QED BY <1>1, <1>2, <1>3

\* The wait group counts the ticker goroutine and the live workers of every
\* collection exactly, so it never goes below zero.
THEOREM CounterCorrect == Spec => []CounterCoversLive
BY TypeInit, TypeStep, TickInit, TickStep, CounterInit, CounterStep, PTL DEF Spec

\* When Stop has returned the ticker goroutine, every scheduled collection and all
\* their workers are over, for ever.
THEOREM StopCorrect == Spec => []StopCoversTicks
BY TypeInit, TypeStep, TickInit, TickStep, CounterInit, CounterStep, StopStep, PTL
   DEF Spec

-----------------------------------------------------------------------------
(* The barrier before the clean-up *)

\* Without a cancelled context a worker leaves only when the channel is drained and
\* closed, which it then stays.
DrainOK ==
    \A r \in Run, w \in Worker :
        workerPc[r][w] \in {"exit", "done", "gone"} =>
            ctxDone \/ (queue[r] = {} /\ JobsClosed(r))

\* A listed bucket without an outcome is still to be sent, is in the channel, or is
\* in the hands of a worker.
PendingOK ==
    ~ctxDone =>
        \A r \in Run : \A b \in Unhandled(r) :
            \/ b \in unsent[r]
            \/ b \in queue[r]
            \/ \E w \in Worker : /\ workerPc[r][w] \in {"metrics", "upsert", "ensure"}
                                 /\ job[r][w] = b

\* The channel is closed only when every job has been sent, and nothing is
\* collected for an empty list.
SentOK ==
    \A r \in Run :
        /\ runPc[r] \in {"collect", "clean"} => unsent[r] = {}
        /\ runPc[r] \in {"start", "collect", "clean"} => listed[r] # {}

SlackInv == DrainOK /\ PendingOK /\ SentOK

LEMMA SlackInit == Init => SlackInv
<1>. SUFFICES ASSUME Init PROVE SlackInv
  OBVIOUS
<1>1. DrainOK
  <2>1. \A r \in Run, w \in Worker : workerPc[r][w] = "new"
    BY DEF Init
  <2>. QED BY <2>1 DEF DrainOK
<1>2. PendingOK
  BY DEF Init, PendingOK, Unhandled
<1>3. SentOK
  BY DEF Init, SentOK
<1>. QED BY <1>1, <1>2, <1>3 DEF SlackInv

\* The barrier, from the invariants: a result that arrived before the clean-up
\* shows that the channel is drained, every worker that reported has settled its
\* jobs, and the others hold at most one bucket each.
LEMMA SlackSuffices == TypeInv /\ CountInv /\ SlackInv => BarrierSlack
<1>. SUFFICES ASSUME TypeInv, CountInv, SlackInv,
                     NEW r \in Run, runPc[r] = "clean", ~ctxDone
              PROVE  /\ queue[r] = {}
                     /\ Cardinality(Unhandled(r))
                          <= Cardinality(Worker) - Cardinality(listed[r])
  BY DEF BarrierSlack
<1>1. IsFiniteSet(listed[r]) /\ Cardinality(listed[r]) \in Nat \ {0}
  <2>1. listed[r] \in SUBSET Bucket /\ listed[r] # {}
    BY DEF TypeInv, TypeOK, SlackInv, SentOK
  <2>2. IsFiniteSet(listed[r])
    BY <2>1, BucketAssumption, FS_Subset
  <2>. QED BY <2>1, <2>2, FS_CardinalityType, FS_EmptySet
<1>2. Cardinality(listed[r]) <= Cardinality(Reported(r))
  <2>1. /\ received[r] = Cardinality(listed[r])
        /\ received[r] + results[r] = Cardinality(Reported(r))
    BY DEF CountInv, CollectOK, ResultsAreExits
  <2>2. received[r] \in Nat /\ results[r] \in Nat
    BY DEF TypeInv, TypeOK
  <2>. QED BY <2>1, <2>2
<1>3. PICK w \in Worker : w \in Reported(r)
  <2>1. Reported(r) # {}
    BY <1>1, <1>2, FS_EmptySet
  <2>. QED BY <2>1 DEF Reported
<1>4. queue[r] = {}
  BY <1>3 DEF SlackInv, DrainOK, Reported
<1>. DEFINE Others == Worker \ Reported(r)
            Holder == [b \in Unhandled(r) |->
                          CHOOSE v \in Others : job[r][v] = b]
<1>5. \A b \in Unhandled(r) : Holder[b] \in Others /\ job[r][Holder[b]] = b
  <2>. SUFFICES ASSUME NEW b \in Unhandled(r)
                PROVE  \E v \in Others : job[r][v] = b
    OBVIOUS
  <2>1. b \notin unsent[r] /\ b \notin queue[r]
    BY <1>4 DEF SlackInv, SentOK
  <2>2. PICK v \in Worker : /\ workerPc[r][v] \in {"metrics", "upsert", "ensure"}
                            /\ job[r][v] = b
    BY <2>1 DEF SlackInv, PendingOK
  <2>. QED BY <2>2 DEF Reported
<1>6. Holder \in Injection(Unhandled(r), Others)
  BY <1>5 DEF Injection, IsInjective
<1>7. /\ IsFiniteSet(Others)
      /\ Cardinality(Others) = Cardinality(Worker) - Cardinality(Reported(r))
  <2>1. Reported(r) \in SUBSET Worker
    BY DEF Reported
  <2>2. Worker \intersect Reported(r) = Reported(r)
    BY <2>1
  <2>. QED BY <2>2, WorkerAssumption, FS_Difference
<1>8. Cardinality(Unhandled(r)) <= Cardinality(Others)
  BY <1>6, <1>7, FS_Injection
<1>9. Cardinality(Unhandled(r)) \in Nat
  BY <1>6, <1>7, FS_Injection, FS_CardinalityType
<1>10. Cardinality(Unhandled(r)) <= Cardinality(Worker) - Cardinality(listed[r])
  BY <1>1, <1>2, <1>7, <1>8, <1>9, ReportedBound
<1>. QED BY <1>4, <1>10

\* A closed jobs channel stays closed: runOnce only moves forward, and the ticker
\* begins a collection that was idle.
LEMMA ClosedStays ==
    ASSUME TypeInv, TickOK, [Next]_vars, NEW r \in Run, JobsClosed(r)
    PROVE  JobsClosed(r)'
<1>. USE DEF JobsClosed, poolVars, cloudVars, runVars, workerVars
<1>1. ASSUME UNCHANGED runPc PROVE JobsClosed(r)'
  BY <1>1
<1>2. CASE BeginTick
  <2>1. runPc[ticks + 1] = "idle" /\ ticks + 1 \in Run
    BY <1>2, BoundAssumption DEF BeginTick, TickOK, Tick, Run, TypeInv, TypeOK
  <2>. QED BY <1>2, <2>1 DEF BeginTick, TypeInv, TypeOK
<1>3. CASE CloudStep \/ ExitTicker \/ Cancel \/ WaitReturns \/ UNCHANGED vars
  BY <1>1, <1>3 DEF CloudStep, CreateBucket, DeleteBucket, ExitTicker, Cancel,
                    WaitReturns, vars
<1>4. ASSUME NEW q \in Run, RunStep(q) PROVE JobsClosed(r)'
  BY <1>4 DEF RunStep, ListNothing, ListBuckets, SpawnWorker, SendJob, CloseJobs,
              ReceiveResult, CleanRows, TypeInv, TypeOK
<1>5. ASSUME NEW q \in Run, NEW w \in Worker, WorkerStep(q, w)
      PROVE  JobsClosed(r)'
  BY <1>1, <1>5, WorkerStepMoves
<1>. QED BY <1>2, <1>3, <1>4, <1>5 DEF Next

LEMMA DrainStep == TypeInv /\ TickOK /\ DrainOK /\ [Next]_vars => DrainOK'
<1>. USE DEF poolVars, cloudVars, runVars, workerVars
<1>. SUFFICES ASSUME TypeInv, TickOK, DrainOK, [Next]_vars,
                     NEW r \in Run, NEW w \in Worker,
                     workerPc'[r][w] \in {"exit", "done", "gone"}, ~ctxDone'
              PROVE  queue'[r] = {} /\ JobsClosed(r)'
  BY DEF DrainOK
<1>1. ~ctxDone
  BY DEF Next, CloudStep, CreateBucket, DeleteBucket, BeginTick, ExitTicker, Cancel,
         WaitReturns, RunStep, ListNothing, ListBuckets, SpawnWorker, SendJob,
         CloseJobs, ReceiveResult, CleanRows, WorkerStep, TakeJob, JobsExhausted,
         GetMetrics, SaveRow, SaveFails, IndexObjects, SendResult, WorkerDone, vars
\* No step puts a job into the channel once it is closed.
<1>2. ASSUME queue[r] = {}, JobsClosed(r) PROVE queue'[r] = {} /\ JobsClosed(r)'
  <2>1. ASSUME NEW q \in Run, RunStep(q) PROVE queue'[r] = {}
    BY <1>2, <2>1 DEF RunStep, ListNothing, ListBuckets, SpawnWorker, SendJob,
       CloseJobs, ReceiveResult, CleanRows, JobsClosed, TypeInv, TypeOK
  <2>2. ASSUME NEW q \in Run, NEW v \in Worker, WorkerStep(q, v)
        PROVE  queue'[r] = {}
    <3>1. ASSUME NEW b \in Bucket, TakeJob(q, v, b) PROVE queue'[r] = {}
      BY <1>2, <3>1 DEF TakeJob, TypeInv, TypeOK
    <3>2. ASSUME UNCHANGED queue PROVE queue'[r] = {}
      BY <1>2, <3>2
    <3>. QED BY <2>2, <3>1, <3>2 DEF WorkerStep, JobsExhausted, GetMetrics, SaveRow,
                SaveFails, IndexObjects, SendResult, WorkerDone
  <2>3. ASSUME UNCHANGED queue PROVE queue'[r] = {}
    BY <1>2, <2>3
  <2>4. queue'[r] = {}
    BY <2>1, <2>2, <2>3 DEF Next, CloudStep, CreateBucket, DeleteBucket, BeginTick,
       ExitTicker, Cancel, WaitReturns, vars
  <2>. QED BY <1>2, <2>4, ClosedStays
<1>3. CASE workerPc[r][w] \in {"exit", "done", "gone"}
  BY <1>1, <1>2, <1>3 DEF DrainOK
<1>4. CASE workerPc[r][w] \notin {"exit", "done", "gone"}
  <2>1. JobsExhausted(r, w)
    <3>1. ASSUME NEW q \in Run, RunStep(q) PROVE FALSE
      <4>1. ASSUME NEW v \in Worker, SpawnWorker(q, v) PROVE FALSE
        BY <1>4, <4>1 DEF SpawnWorker, TypeInv, TypeOK
      <4>2. ASSUME UNCHANGED workerPc PROVE FALSE
        BY <1>4, <4>2
      <4>. QED BY <3>1, <4>1, <4>2 DEF RunStep, ListNothing, ListBuckets, SendJob,
                  CloseJobs, ReceiveResult, CleanRows
    <3>2. ASSUME NEW q \in Run, NEW v \in Worker, WorkerStep(q, v)
          PROVE  JobsExhausted(r, w)
      <4>1. q = r /\ v = w
        <5>1. PICK p : workerPc' = [workerPc EXCEPT ![q][v] = p]
          BY <3>2, WorkerStepMoves
        <5>. QED BY <1>4, <5>1 DEF TypeInv, TypeOK
      <4>2. ~(\E b \in Bucket : TakeJob(r, w, b))
        BY <1>1, <1>4 DEF TakeJob, TypeInv, TypeOK
      <4>3. ~GetMetrics(r, w) /\ ~IndexObjects(r, w)
        BY <1>4 DEF GetMetrics, IndexObjects, TypeInv, TypeOK
      <4>4. ~SaveRow(r, w) /\ ~SaveFails(r, w)
        BY <1>4 DEF SaveRow, SaveFails, AfterSave, TypeInv, TypeOK
      <4>5. ~SendResult(r, w) /\ ~WorkerDone(r, w)
        BY <1>4 DEF SendResult, WorkerDone
      <4>. QED BY <3>2, <4>1, <4>2, <4>3, <4>4, <4>5 DEF WorkerStep
    <3>3. CASE UNCHANGED workerPc
      BY <1>4, <3>3
    <3>. QED BY <3>1, <3>2, <3>3 DEF Next, CloudStep, CreateBucket, DeleteBucket,
                BeginTick, ExitTicker, Cancel, WaitReturns, vars
  <2>. QED BY <1>2, <2>1 DEF JobsExhausted
<1>. QED BY <1>3, <1>4

LEMMA SentStep == TypeInv /\ SentOK /\ [Next]_vars => SentOK'
<1>. USE DEF poolVars, cloudVars, runVars, workerVars
<1>. SUFFICES ASSUME TypeInv, SentOK, [Next]_vars PROVE SentOK'
  OBVIOUS
<1>1. ASSUME UNCHANGED <<runPc, unsent, listed>> PROVE SentOK'
  BY <1>1 DEF SentOK
<1>2. CASE BeginTick
  <2>1. ticks + 1 \in Run
    BY <1>2, BoundAssumption DEF BeginTick, Run, TypeInv, TypeOK
  <2>. QED BY <1>2, <2>1 DEF BeginTick, SentOK, TypeInv, TypeOK
<1>3. CASE CloudStep \/ ExitTicker \/ Cancel \/ WaitReturns \/ UNCHANGED vars
  BY <1>1, <1>3 DEF CloudStep, CreateBucket, DeleteBucket, ExitTicker, Cancel,
                    WaitReturns, vars
<1>4. ASSUME NEW r \in Run, RunStep(r) PROVE SentOK'
  <2>1. CASE ListBuckets(r)
    BY <2>1 DEF ListBuckets, SentOK, TypeInv, TypeOK
  <2>2. ASSUME NEW b \in Bucket, SendJob(r, b) PROVE SentOK'
    BY <2>2 DEF SendJob, SentOK, TypeInv, TypeOK
  <2>3. CASE ListNothing(r) \/ CloseJobs(r)
    BY <2>3 DEF ListNothing, CloseJobs, SentOK, TypeInv, TypeOK
  <2>4. CASE ReceiveResult(r) \/ CleanRows(r)
    BY <2>4 DEF ReceiveResult, CleanRows, SentOK, TypeInv, TypeOK
  <2>5. CASE \E w \in Worker : SpawnWorker(r, w)
    BY <1>1, <2>5 DEF SpawnWorker
  <2>. QED BY <1>4, <2>1, <2>2, <2>3, <2>4, <2>5 DEF RunStep
<1>5. ASSUME NEW r \in Run, NEW w \in Worker, WorkerStep(r, w) PROVE SentOK'
  BY <1>1, <1>5 DEF WorkerStep, TakeJob, JobsExhausted, GetMetrics, SaveRow,
                    SaveFails, IndexObjects, SendResult, WorkerDone
<1>. QED BY <1>2, <1>3, <1>4, <1>5 DEF Next

\* Where a bucket without an outcome is (the three disjuncts of PendingOK).
Placed(r, b) ==
    \/ b \in unsent[r]
    \/ b \in queue[r]
    \/ \E w \in Worker : /\ workerPc[r][w] \in {"metrics", "upsert", "ensure"}
                         /\ job[r][w] = b

LEMMA PendingStep == TypeInv /\ PendingOK /\ [Next]_vars => PendingOK'
<1>. USE DEF poolVars, cloudVars, runVars, workerVars
<1>. SUFFICES ASSUME TypeInv, PendingOK, [Next]_vars, ~ctxDone',
                     NEW q \in Run, NEW b \in Unhandled(q)'
              PROVE  Placed(q, b)'
  BY DEF PendingOK, Placed
<1>1. ~ctxDone
  BY DEF Next, CloudStep, CreateBucket, DeleteBucket, BeginTick, ExitTicker, Cancel,
         WaitReturns, RunStep, ListNothing, ListBuckets, SpawnWorker, SendJob,
         CloseJobs, ReceiveResult, CleanRows, WorkerStep, TakeJob, JobsExhausted,
         GetMetrics, SaveRow, SaveFails, IndexObjects, SendResult, WorkerDone, vars
<1>2. b \in Unhandled(q) => Placed(q, b)
  BY <1>1 DEF PendingOK, Placed
<1>3. ASSUME UNCHANGED <<unsent, queue, listed, workerPc, job, outcome>>
      PROVE  Placed(q, b)'
  BY <1>2, <1>3 DEF Placed, Unhandled
<1>4. CASE CloudStep \/ BeginTick \/ ExitTicker \/ Cancel \/ WaitReturns
           \/ UNCHANGED vars
  BY <1>3, <1>4 DEF CloudStep, CreateBucket, DeleteBucket, BeginTick, ExitTicker,
                    Cancel, WaitReturns, vars
<1>5. ASSUME NEW r \in Run, RunStep(r) PROVE Placed(q, b)'
  <2>1. CASE ListBuckets(r)
    BY <1>2, <2>1 DEF ListBuckets, Placed, Unhandled, TypeInv, TypeOK
  <2>2. ASSUME NEW w \in Worker, SpawnWorker(r, w) PROVE Placed(q, b)'
    BY <1>2, <2>2 DEF SpawnWorker, Placed, Unhandled, TypeInv, TypeOK
  <2>3. ASSUME NEW c \in Bucket, SendJob(r, c) PROVE Placed(q, b)'
    BY <1>2, <2>3 DEF SendJob, Placed, Unhandled, TypeInv, TypeOK
  <2>4. CASE ListNothing(r) \/ CloseJobs(r) \/ ReceiveResult(r) \/ CleanRows(r)
    BY <1>3, <2>4 DEF ListNothing, CloseJobs, ReceiveResult, CleanRows
  <2>. QED BY <1>5, <2>1, <2>2, <2>3, <2>4 DEF RunStep
<1>6. ASSUME NEW r \in Run, NEW w \in Worker, WorkerStep(r, w)
      PROVE  Placed(q, b)'
  <2>1. ASSUME NEW c \in Bucket, TakeJob(r, w, c) PROVE Placed(q, b)'
    <3>1. /\ workerPc[r][w] = "range"
          /\ workerPc' = [workerPc EXCEPT ![r][w] = "metrics"]
          /\ job' = [job EXCEPT ![r][w] = c]
          /\ queue' = [queue EXCEPT ![r] = @ \ {c}]
          /\ UNCHANGED <<unsent, listed, outcome>>
      BY <1>1, <2>1 DEF TakeJob
    <3>2. Placed(q, b)
      BY <1>2, <3>1 DEF Unhandled
    <3>3. CASE q = r /\ b = c
      BY <3>1, <3>3 DEF Placed, TypeInv, TypeOK
    <3>4. CASE q # r \/ b # c
      BY <3>1, <3>2, <3>4 DEF Placed, TypeInv, TypeOK
    <3>. QED BY <3>3, <3>4
  <2>2. ASSUME UNCHANGED <<unsent, queue, listed, outcome, job>>, NEW p,
               workerPc' = [workerPc EXCEPT ![r][w] = p],
               p \in {"metrics", "upsert", "ensure"} <=>
                   workerPc[r][w] \in {"metrics", "upsert", "ensure"}
        PROVE  Placed(q, b)'
    BY <1>2, <2>2 DEF Placed, Unhandled, TypeInv, TypeOK
  <2>3. CASE JobsExhausted(r, w) \/ SendResult(r, w) \/ WorkerDone(r, w)
    BY <2>2, <2>3 DEF JobsExhausted, SendResult, WorkerDone
  <2>4. CASE GetMetrics(r, w)
    BY <2>2, <2>4 DEF GetMetrics
  <2>5. CASE SaveRow(r, w) \/ SaveFails(r, w)
    <3>1. /\ workerPc[r][w] \in {"upsert", "ensure"}
          /\ \E v \in {"saved", "failed"} :
                outcome' = [outcome EXCEPT ![r][job[r][w]] = v]
          /\ UNCHANGED <<unsent, queue, listed>>
      BY <2>5 DEF SaveRow, SaveFails
    <3>2. /\ \A s \in Run, v \in Worker : ~(s = r /\ v = w) =>
                 workerPc'[s][v] = workerPc[s][v] /\ job'[s][v] = job[s][v]
      BY <2>5 DEF SaveRow, SaveFails, AfterSave, TypeInv, TypeOK
    <3>3. job[r][w] \in Bucket
      BY <3>1 DEF TypeInv, HandOK
    <3>4. b \in Unhandled(q) /\ ~(q = r /\ b = job[r][w])
      BY <3>1, <3>3 DEF Unhandled, TypeInv, TypeOK
    <3>. QED BY <1>2, <3>1, <3>2, <3>4 DEF Placed
  <2>6. CASE IndexObjects(r, w)
    <3>1. /\ workerPc[r][w] = "index"
          /\ UNCHANGED <<unsent, queue, listed, outcome>>
      BY <2>6 DEF IndexObjects
    <3>2. /\ \A s \in Run, v \in Worker : ~(s = r /\ v = w) =>
                 workerPc'[s][v] = workerPc[s][v] /\ job'[s][v] = job[s][v]
      BY <2>6 DEF IndexObjects, TypeInv, TypeOK
    <3>3. b \in Unhandled(q)
      BY <3>1 DEF Unhandled
    <3>. QED BY <1>2, <3>1, <3>2, <3>3 DEF Placed
  <2>. QED BY <1>6, <2>1, <2>3, <2>4, <2>5, <2>6 DEF WorkerStep
<1>. QED BY <1>4, <1>5, <1>6 DEF Next

\* Unless Stop has been called, a collection that goes on to its clean-up has drained
\* its jobs and at most (workers - buckets) listed buckets are still unsettled; with
\* one worker per bucket the clean-up comes after all of the work.
THEOREM BarrierCorrect == Spec => []BarrierSlack
<1>1. TypeInv /\ TickOK /\ SlackInv /\ [Next]_vars => SlackInv'
  BY DrainStep, SentStep, PendingStep DEF SlackInv
<1>. QED BY <1>1, SlackSuffices, TypeInit, TypeStep, TickInit, TickStep, CountInit,
            CountStep, SlackInit, PTL DEF Spec

-----------------------------------------------------------------------------
(* The invariant that links the two *)

\* A collection that has not listed yet has touched nothing.
FreshOK ==
    \A r \in Run : runPc[r] \in {"idle", "list"} =>
        /\ listed[r] = {} /\ unsent[r] = {} /\ queue[r] = {}
        /\ \A b \in Bucket : outcome[r][b] = "pending"
        /\ \A w \in Worker : workerPc[r][w] = "new"

Holds(r, w) == workerPc[r][w] \in {"metrics", "upsert", "ensure"}

\* A bucket that is to be sent, in the channel or in a worker's hand is listed and has no
\* outcome yet,
WaitingOK ==
    \A r \in Run :
        /\ \A b \in unsent[r] \union queue[r] : b \in Unhandled(r)
        /\ \A w \in Worker : Holds(r, w) => job[r][w] \in Unhandled(r)

\* and it is in one of these places only.
SoloOK ==
    \A r \in Run :
        /\ unsent[r] \intersect queue[r] = {}
        /\ \A w \in Worker : Holds(r, w) => job[r][w] \notin unsent[r] \union queue[r]
        /\ \A v, w \in Worker : Holds(r, v) /\ Holds(r, w) /\ job[r][v] = job[r][w] => v = w

StopOK == stopPc = "idle" => ~ctxDone

LinkInv == FreshOK /\ WaitingOK /\ SoloOK /\ StopOK

PlaceInv == FreshOK /\ WaitingOK /\ SoloOK

LEMMA LinkInit == Init => LinkInv
<1>. SUFFICES ASSUME Init PROVE LinkInv
  OBVIOUS
<1>1. \A r \in Run, w \in Worker : workerPc[r][w] = "new"
  BY DEF Init
<1>2. FreshOK
  BY <1>1 DEF Init, FreshOK
<1>3. WaitingOK /\ SoloOK
  BY <1>1 DEF Init, WaitingOK, SoloOK, Holds
<1>. QED BY <1>2, <1>3 DEF Init, StopOK, LinkInv

LEMMA StopOKStep == TypeInv /\ StopOK /\ [Next]_vars => StopOK'
<1>. USE DEF poolVars, cloudVars, runVars, workerVars
<1>. SUFFICES ASSUME TypeInv, StopOK, [Next]_vars PROVE StopOK'
  OBVIOUS
<1>1. ASSUME UNCHANGED <<stopPc, ctxDone>> PROVE StopOK'
  BY <1>1 DEF StopOK
<1>2. CASE Cancel \/ WaitReturns
  BY <1>2 DEF Cancel, WaitReturns, StopOK
<1>3. CASE CloudStep \/ BeginTick \/ ExitTicker \/ UNCHANGED vars
  BY <1>1, <1>3 DEF CloudStep, CreateBucket, DeleteBucket, BeginTick, ExitTicker, vars
<1>4. ASSUME NEW r \in Run, RunStep(r) PROVE StopOK'
  BY <1>1, <1>4 DEF RunStep, ListNothing, ListBuckets, SpawnWorker, SendJob,
                    CloseJobs, ReceiveResult, CleanRows
<1>5. ASSUME NEW r \in Run, NEW w \in Worker, WorkerStep(r, w) PROVE StopOK'
  BY <1>1, <1>5 DEF WorkerStep, TakeJob, JobsExhausted, GetMetrics, SaveRow,
                    SaveFails, IndexObjects, SendResult, WorkerDone
<1>. QED BY <1>2, <1>3, <1>4, <1>5 DEF Next

LEMMA PlaceStep == TypeInv /\ TickOK /\ PlaceInv /\ [Next]_vars => PlaceInv'
<1>. USE DEF poolVars, cloudVars, runVars, workerVars
<1>. SUFFICES ASSUME TypeInv, TickOK, PlaceInv, [Next]_vars PROVE PlaceInv'
  OBVIOUS
\* A step that leaves the buckets where they are, and no collection goes back.
<1>1. ASSUME UNCHANGED <<unsent, queue, listed, workerPc, job, outcome>>,
             \A r \in Run : runPc'[r] \in {"idle", "list"} => runPc[r] \in {"idle", "list"}
      PROVE  PlaceInv'
  BY <1>1 DEF PlaceInv, FreshOK, WaitingOK, SoloOK, Holds, Unhandled
<1>2. CASE BeginTick
  <2>1. ticks + 1 \in Run /\ runPc[ticks + 1] = "idle"
    BY <1>2, BoundAssumption DEF BeginTick, TickOK, Tick, Run, TypeInv, TypeOK
  <2>. QED BY <1>1, <1>2, <2>1 DEF BeginTick, TypeInv, TypeOK
<1>3. CASE CloudStep \/ ExitTicker \/ Cancel \/ WaitReturns \/ UNCHANGED vars
  BY <1>1, <1>3 DEF CloudStep, CreateBucket, DeleteBucket, ExitTicker, Cancel,
                    WaitReturns, vars
<1>4. ASSUME NEW r \in Run, RunStep(r) PROVE PlaceInv'
  <2>1. CASE ListNothing(r)
    BY <1>1, <2>1 DEF ListNothing, TypeInv, TypeOK
  <2>2. CASE ListBuckets(r)
    <3>1. /\ runPc[r] = "list" /\ runPc' = [runPc EXCEPT ![r] = "start"]
          /\ listed' = [listed EXCEPT ![r] = cloud]
          /\ unsent' = [unsent EXCEPT ![r] = cloud]
          /\ UNCHANGED <<queue, workerPc, job, outcome>>
          /\ cloud \in SUBSET Bucket
      BY <2>2 DEF ListBuckets, TypeInv, TypeOK
    <3>2. /\ queue[r] = {} /\ \A b \in Bucket : outcome[r][b] = "pending"
          /\ \A w \in Worker : workerPc[r][w] = "new"
      BY <3>1 DEF PlaceInv, FreshOK
    <3>3. FreshOK'
      BY <3>1 DEF PlaceInv, FreshOK, TypeInv, TypeOK
    <3>4. WaitingOK'
      BY <3>1, <3>2 DEF PlaceInv, WaitingOK, Unhandled, Holds, TypeInv, TypeOK
    <3>5. SoloOK'
      BY <3>1, <3>2 DEF PlaceInv, SoloOK, Holds, TypeInv, TypeOK
    <3>. QED BY <3>3, <3>4, <3>5 DEF PlaceInv
  <2>3. ASSUME NEW w \in Worker, SpawnWorker(r, w) PROVE PlaceInv'
    BY <2>3 DEF SpawnWorker, PlaceInv, FreshOK, WaitingOK, SoloOK, Holds, Unhandled,
                TypeInv, TypeOK
  <2>4. ASSUME NEW b \in Bucket, SendJob(r, b) PROVE PlaceInv'
    BY <2>4 DEF SendJob, PlaceInv, FreshOK, WaitingOK, SoloOK, Holds, Unhandled,
                TypeInv, TypeOK
  <2>5. CASE CloseJobs(r) \/ ReceiveResult(r) \/ CleanRows(r)
    BY <1>1, <2>5 DEF CloseJobs, ReceiveResult, CleanRows, TypeInv, TypeOK
  <2>. QED BY <1>4, <2>1, <2>2, <2>3, <2>4, <2>5 DEF RunStep
<1>5. ASSUME NEW r \in Run, NEW w \in Worker, WorkerStep(r, w) PROVE PlaceInv'
  <2>1. workerPc[r][w] # "new" /\ runPc[r] \notin {"idle", "list"} /\ UNCHANGED runPc
    BY <1>5, WorkerStepMoves DEF Live, PlaceInv, FreshOK
  <2>2. /\ UNCHANGED <<unsent, listed>>
        /\ \A q \in Run \ {r} : /\ queue'[q] = queue[q] /\ workerPc'[q] = workerPc[q]
                                /\ job'[q] = job[q] /\ outcome'[q] = outcome[q]
    BY <1>5 DEF WorkerStep, TakeJob, JobsExhausted, GetMetrics, SaveRow, SaveFails,
                AfterSave, IndexObjects, SendResult, WorkerDone, TypeInv, TypeOK
  <2>3. FreshOK'
    BY <2>1, <2>2 DEF PlaceInv, FreshOK
  <2>4. \A v \in Worker \ {w} : workerPc'[r][v] = workerPc[r][v] /\ job'[r][v] = job[r][v]
    BY <1>5 DEF WorkerStep, TakeJob, JobsExhausted, GetMetrics, SaveRow, SaveFails,
                AfterSave, IndexObjects, SendResult, WorkerDone, TypeInv, TypeOK
  \* The others' places are theirs; what is left is run r and worker w.
  <2>. DEFINE Kept == \A b \in unsent[r] \union queue'[r] : b \in Unhandled(r)'
              Mine == Holds(r, w)' =>
                        /\ job'[r][w] \in Unhandled(r)' \ (unsent[r] \union queue'[r])
                        /\ \A v \in Worker \ {w} : Holds(r, v) => job[r][v] # job'[r][w]
              Theirs == \A v \in Worker \ {w} : Holds(r, v) => job[r][v] \in Unhandled(r)'
  <2>5. ASSUME Kept, Mine, Theirs, queue'[r] \subseteq queue[r] PROVE WaitingOK' /\ SoloOK'
    <3>1. \A q \in Run \ {r}, v \in Worker : /\ Holds(q, v)' <=> Holds(q, v)
                                             /\ Unhandled(q)' = Unhandled(q)
      BY <2>2 DEF Holds, Unhandled
    <3>2. \A v \in Worker \ {w} : Holds(r, v)' <=> Holds(r, v)
      BY <2>4 DEF Holds
    <3>3. WaitingOK'
      BY <2>2, <2>4, <2>5, <3>1, <3>2 DEF PlaceInv, WaitingOK
    <3>4. SoloOK'
      BY <2>2, <2>4, <2>5, <3>1, <3>2 DEF PlaceInv, SoloOK
    <3>. QED BY <3>3, <3>4
  <2>6. ASSUME NEW b \in Bucket, TakeJob(r, w, b) PROVE Kept /\ Mine /\ Theirs /\ queue'[r] \subseteq queue[r]
    <3>1. /\ b \in queue[r] /\ queue'[r] = queue[r] \ {b} /\ UNCHANGED outcome
          /\ \/ workerPc'[r][w] = "exit"
             \/ workerPc'[r][w] = "metrics" /\ job'[r][w] = b
      BY <2>6 DEF TakeJob, TypeInv, TypeOK
    <3>2. Unhandled(r)' = Unhandled(r)
      BY <2>2, <3>1 DEF Unhandled
    <3>3. /\ b \in Unhandled(r) /\ b \notin unsent[r]
          /\ \A v \in Worker : Holds(r, v) => job[r][v] # b
      BY <3>1 DEF PlaceInv, WaitingOK, SoloOK
    <3>. QED BY <3>1, <3>2, <3>3 DEF PlaceInv, WaitingOK, Holds
  <2>7. ASSUME UNCHANGED <<queue, job, outcome>>, Holds(r, w)' => Holds(r, w)
        PROVE  Kept /\ Mine /\ Theirs /\ queue'[r] \subseteq queue[r]
    BY <2>2, <2>7 DEF PlaceInv, WaitingOK, SoloOK, Unhandled
  <2>8. CASE JobsExhausted(r, w) \/ GetMetrics(r, w) \/ SendResult(r, w) \/ WorkerDone(r, w)
    <3>1. UNCHANGED <<queue, job, outcome>> /\ (Holds(r, w)' => Holds(r, w))
      BY <2>8 DEF JobsExhausted, GetMetrics, SendResult, WorkerDone, Holds, TypeInv, TypeOK
    <3>. QED BY <2>3, <2>5, <2>7, <3>1 DEF PlaceInv
  <2>9. CASE SaveRow(r, w) \/ SaveFails(r, w) \/ IndexObjects(r, w)
    <3>1. ~Holds(r, w)' /\ UNCHANGED queue
      BY <2>9 DEF SaveRow, SaveFails, AfterSave, IndexObjects, Holds, TypeInv, TypeOK
    <3>2. \/ UNCHANGED outcome
          \/ Holds(r, w) /\ \E o : outcome' = [outcome EXCEPT ![r][job[r][w]] = o]
      BY <2>9 DEF SaveRow, SaveFails, IndexObjects, Holds
    <3>3. \A b \in Unhandled(r) : b \in Unhandled(r)' \/ (Holds(r, w) /\ b = job[r][w])
      BY <2>2, <3>2 DEF Unhandled, TypeInv, TypeOK
    <3>. QED BY <2>2, <2>3, <2>5, <3>1, <3>3 DEF PlaceInv, WaitingOK, SoloOK
  <2>. QED BY <1>5, <2>3, <2>5, <2>6, <2>8, <2>9 DEF WorkerStep, PlaceInv
<1>. QED BY <1>2, <1>3, <1>4, <1>5 DEF Next

-----------------------------------------------------------------------------
(* The refinement *)

LEMMA InitRefines == Init => Abstract!Init
<1>. SUFFICES ASSUME Init PROVE Abstract!Init
  OBVIOUS
<1>1. Present \in SUBSET Bucket
  BY DEF Present
<1>2. Stage = [r \in Run |-> IF r = 0 THEN "open" ELSE "idle"]
  BY DEF Init, Stage, StageOf
<1>3. Todo = [r \in Run |-> {}]
  BY DEF Init, Todo, Unhandled
<1>. QED BY <1>1, <1>2, <1>3 DEF Init, Abstract!Init

\* What a step of one collection does to the stages: nothing, when its pc moves within a
\* stage.
LEMMA SameStage ==
    ASSUME TypeInv, NEW r \in Run, NEW p, runPc' = [runPc EXCEPT ![r] = p]
    PROVE  Stage' = [Stage EXCEPT ![r] = StageOf(p)]
BY DEF TypeInv, TypeOK, Stage

\* Where a listing and the outcomes stay, so do the buckets to settle.
LEMMA SameTodo == UNCHANGED <<listed, outcome>> => Todo' = Todo
BY DEF Todo, Unhandled

LEMMA SamePresent == UNCHANGED rows => Present' = Present
BY DEF Present

LEMMA RunRefines ==
    ASSUME TypeInv, TickOK, CountInv, SlackInv, LinkInv, NEW r \in Run, RunStep(r)
    PROVE  [Abstract!Next]_(Abstract!vars)
<1>. USE DEF poolVars, cloudVars, runVars, workerVars
<1>. DEFINE Same == UNCHANGED <<Present, Stage, listed, Todo, ctxDone>>
<1>1. Same => UNCHANGED Abstract!vars
  BY DEF Abstract!vars
<1>2. ASSUME runPc[r] = "list", runPc' = [runPc EXCEPT ![r] = "returned"],
             UNCHANGED <<rows, ctxDone, listed, outcome>>
      PROVE  Abstract!GiveUp(r)
  <2>1. Stage' = [Stage EXCEPT ![r] = "closed"] /\ Stage[r] = "open"
    BY <1>2, SameStage DEF StageOf, Stage
  <2>2. listed[r] = {}
    BY <1>2 DEF LinkInv, FreshOK
  <2>. QED BY <1>2, <2>1, <2>2, SameTodo, SamePresent DEF Abstract!GiveUp
<1>3. CASE ListNothing(r)
  BY <1>2, <1>3 DEF ListNothing, Abstract!Next
<1>4. CASE ListBuckets(r)
  <2>1. Stage' = Stage /\ Stage[r] = "open"
    BY <1>4, SameStage DEF ListBuckets, StageOf, Stage
  <2>2. listed[r] = {} /\ \A b \in Bucket : outcome[r][b] = "pending"
    BY <1>4 DEF ListBuckets, LinkInv, FreshOK
  <2>3. Todo' = [Todo EXCEPT ![r] = cloud]
    <3>1. \A q \in Run : Unhandled(q)' = IF q = r THEN cloud ELSE Unhandled(q)
      BY <1>4, <2>2 DEF ListBuckets, Unhandled, TypeInv, TypeOK
    <3>. QED BY <3>1 DEF Todo
  <2>4. Abstract!List(r, cloud)
    BY <1>4, <2>1, <2>2, <2>3, SamePresent DEF ListBuckets, Abstract!List
  <2>. QED BY <2>4 DEF Abstract!Next, TypeInv, TypeOK
<1>5. CASE (\E w \in Worker : SpawnWorker(r, w)) \/ (\E b \in Bucket : SendJob(r, b))
  <2>1. UNCHANGED <<rows, ctxDone, runPc, listed, outcome>>
    BY <1>5 DEF SpawnWorker, SendJob
  <2>. QED BY <1>1, <2>1, SameTodo, SamePresent DEF Stage
<1>6. CASE CloseJobs(r) \/ ReceiveResult(r)
  <2>1. PICK p \in {"start", "collect", "clean"} : runPc' = [runPc EXCEPT ![r] = p]
    BY <1>6 DEF CloseJobs, ReceiveResult, TypeInv, TypeOK
  <2>2. Stage' = Stage
    BY <1>6, <2>1, SameStage DEF CloseJobs, ReceiveResult, Stage, StageOf
  <2>3. UNCHANGED <<rows, ctxDone, listed, outcome>>
    BY <1>6 DEF CloseJobs, ReceiveResult
  <2>. QED BY <1>1, <2>2, <2>3, SameTodo, SamePresent
<1>7. CASE CleanRows(r)
  <2>1. Stage' = [Stage EXCEPT ![r] = "closed"] /\ Stage[r] = "open"
    BY <1>7, SameStage DEF CleanRows, StageOf, Stage
  <2>2. listed[r] # {} /\ Todo' = Todo /\ UNCHANGED <<listed, ctxDone>>
    BY <1>7, SameTodo DEF CleanRows, SlackInv, SentOK
  <2>3. ctxDone \/ Cardinality(Todo[r]) <= Cardinality(Worker) - Cardinality(listed[r])
    <3>1. BarrierSlack
      BY SlackSuffices
    <3>. QED BY <1>7, <3>1 DEF CleanRows, BarrierSlack, Todo
  <2>4. Present' \in {Present, Present \intersect listed[r]}
    <3>1. CASE rows' = rows
      BY <3>1, SamePresent
    <3>2. CASE rows' = OnlyListed(r)
      <4>1. \A b \in Bucket : rows'[b] # "absent" <=> rows[b] # "absent" /\ b \in listed[r]
        BY <3>2 DEF OnlyListed
      <4>2. Present' = Present \intersect listed[r]
        BY <4>1 DEF Present
      <4>. QED BY <4>2
    <3>. QED BY <1>7, <3>1, <3>2 DEF CleanRows
  <2>5. Abstract!Clean(r)
    \* The instance has a Cardinality of its own.
    <3>1. \A S : Abstract!Cardinality(S) = Cardinality(S)
      BY DEF Cardinality, Abstract!Cardinality
    <3>2. \/ ctxDone
          \/ Abstract!Cardinality(Todo[r])
               <= Cardinality(Worker) - Abstract!Cardinality(listed[r])
      BY <2>3, <3>1, Zenon
    <3>. QED BY <2>1, <2>2, <2>4, <3>2, Zenon DEF Abstract!Clean
  <2>. QED BY <2>5 DEF Abstract!Next
<1>. QED BY <1>3, <1>4, <1>5, <1>6, <1>7 DEF RunStep

LEMMA WorkerRefines ==
    ASSUME TypeInv, LinkInv, NEW r \in Run, NEW w \in Worker, WorkerStep(r, w)
    PROVE  [Abstract!Next]_(Abstract!vars)
<1>. USE DEF poolVars, cloudVars, runVars, workerVars
<1>1. Stage' = Stage
  BY WorkerStepMoves DEF Stage
<1>2. UNCHANGED <<listed, ctxDone>>
  BY DEF WorkerStep, TakeJob, JobsExhausted, GetMetrics, SaveRow, SaveFails,
         IndexObjects, SendResult, WorkerDone
<1>3. CASE UNCHANGED <<rows, outcome>>
  BY <1>1, <1>2, <1>3, SameTodo, SamePresent DEF Abstract!vars
<1>4. CASE SaveRow(r, w) \/ SaveFails(r, w)
  <2>. DEFINE b == job[r][w]
  <2>1. b \in Bucket /\ b \in Unhandled(r)
    BY <1>4 DEF SaveRow, SaveFails, TypeInv, HandOK, LinkInv, WaitingOK, Holds
  <2>2. Todo' = [Todo EXCEPT ![r] = @ \ {b}]
    <3>1. PICK o \in {"saved", "failed"} : outcome' = [outcome EXCEPT ![r][b] = o]
      BY <1>4 DEF SaveRow, SaveFails
    <3>2. \A q \in Run : Unhandled(q)' = IF q = r THEN Unhandled(q) \ {b} ELSE Unhandled(q)
      BY <1>2, <2>1, <3>1 DEF Unhandled, TypeInv, TypeOK
    <3>. QED BY <3>2 DEF Todo
  <2>3. Present' \in {Present, Present \union {b}}
    <3>1. CASE rows' = rows
      BY <3>1, SamePresent
    <3>2. CASE SaveRow(r, w)
      <4>. DEFINE x == IF workerPc[r][w] = "upsert" THEN "measured"
                       ELSE IF rows[b] = "absent" THEN "placeholder" ELSE rows[b]
      <4>1. rows' = [rows EXCEPT ![b] = x] /\ x # "absent"
        BY <3>2 DEF SaveRow
      <4>2. \A c \in Bucket : rows'[c] # "absent" <=> rows[c] # "absent" \/ c = b
        BY <2>1, <4>1 DEF TypeInv, TypeOK
      <4>3. Present' = Present \union {b}
        BY <2>1, <4>2 DEF Present
      <4>. QED BY <4>3
    <3>. QED BY <1>4, <3>1, <3>2 DEF SaveFails
  <2>4. Abstract!Settle(r, b)
    BY <1>1, <1>2, <2>1, <2>2, <2>3 DEF Abstract!Settle, Todo
  <2>. QED BY <2>1, <2>4 DEF Abstract!Next
<1>. QED BY <1>3, <1>4 DEF WorkerStep, TakeJob, JobsExhausted, GetMetrics, IndexObjects,
                           SendResult, WorkerDone

LEMMA StepRefines ==
    TypeInv /\ TickOK /\ CountInv /\ SlackInv /\ LinkInv /\ [Next]_vars
        => [Abstract!Next]_(Abstract!vars)
<1>. USE DEF poolVars, cloudVars, runVars, workerVars
<1>. SUFFICES ASSUME TypeInv, TickOK, CountInv, SlackInv, LinkInv, [Next]_vars
              PROVE  [Abstract!Next]_(Abstract!vars)
  OBVIOUS
<1>1. CASE CloudStep \/ ExitTicker \/ WaitReturns \/ UNCHANGED vars
  <2>1. UNCHANGED <<rows, ctxDone, runPc, listed, outcome>>
    BY <1>1 DEF CloudStep, CreateBucket, DeleteBucket, ExitTicker, WaitReturns, vars
  <2>. QED BY <2>1, SameTodo, SamePresent DEF Stage, Abstract!vars
<1>2. CASE BeginTick
  <2>. DEFINE r == ticks + 1
  <2>1. r \in Run /\ runPc[r] = "idle"
    BY <1>2, BoundAssumption DEF BeginTick, TickOK, Tick, Run, TypeInv, TypeOK
  <2>2. \A q \in Run : 0 < q /\ q < r => runPc[q] = "returned"
    BY <1>2, BoundAssumption DEF BeginTick, AtSelect, TickOK, Tick, Run, TypeInv, TypeOK
  <2>3. Stage' = [Stage EXCEPT ![r] = "open"]
    <3>1. runPc' = [runPc EXCEPT ![r] = "list"]
      BY <1>2 DEF BeginTick
    <3>2. Stage' = [Stage EXCEPT ![r] = StageOf("list")]
      BY <2>1, <3>1, SameStage
    <3>. QED BY <3>2 DEF StageOf
  <2>4. Stage[r] = "idle" /\ \A q \in Run : 0 < q /\ q < r => Stage[q] = "closed"
    BY <2>1, <2>2 DEF Stage, StageOf
  <2>5. Abstract!Begin(r)
    BY <1>2, <2>3, <2>4, SameTodo, SamePresent DEF BeginTick, Abstract!Begin
  <2>. QED BY <2>1, <2>5 DEF Abstract!Next
<1>3. CASE Cancel
  <2>1. ~ctxDone /\ ctxDone' = TRUE
    BY <1>3, Zenon DEF Cancel, LinkInv, StopOK
  <2>2. UNCHANGED <<rows, runPc, listed, outcome>>
    BY <1>3 DEF Cancel
  <2>3. UNCHANGED <<Present, Stage, listed, Todo>>
    BY <2>2, SameTodo, SamePresent DEF Stage
  <2>4. Abstract!Stop
    BY <2>1, <2>3, Zenon DEF Abstract!Stop
  <2>. QED BY <2>4 DEF Abstract!Next
<1>4. ASSUME NEW r \in Run, RunStep(r) PROVE [Abstract!Next]_(Abstract!vars)
  BY <1>4, RunRefines
<1>5. ASSUME NEW r \in Run, NEW w \in Worker, WorkerStep(r, w)
      PROVE  [Abstract!Next]_(Abstract!vars)
  BY <1>5, WorkerRefines
<1>. QED BY <1>1, <1>2, <1>3, <1>4, <1>5 DEF Next

\* The pool implements Collections: seen from the table, whatever the channels, the
\* goroutines and Stop do, its collections settle each bucket at most once and clean up
\* only behind their barrier.
THEOREM Refinement == Spec => CollectsAsPromised
<1>1. TypeInv /\ TickOK /\ SlackInv /\ [Next]_vars => SlackInv'
  BY DrainStep, SentStep, PendingStep DEF SlackInv
<1>2. TypeInv /\ TickOK /\ LinkInv /\ [Next]_vars => LinkInv'
  BY StopOKStep, PlaceStep DEF LinkInv, PlaceInv
<1>. QED BY <1>1, <1>2, TypeInit, TypeStep, TickInit, TickStep, CountInit, CountStep,
            SlackInit, LinkInit, InitRefines, StepRefines, PTL
         DEF Spec, CollectsAsPromised, Abstract!Spec

-----------------------------------------------------------------------------
(* What a clean-up leaves *)

\* A bucket that run r has saved has a row, unless another collection may remove it.
SavedOK ==
    \A r \in Run : NoConflictingList(r) =>
        \A b \in listed[r] : outcome[r][b] = "saved" => rows[b] # "absent"

LEMMA SavedInit == Init => SavedOK
BY DEF Init, SavedOK

\* A list is made once, so a conflict between two does not go away.
LEMMA ConflictStays ==
    ASSUME TypeInv, FreshOK, [Next]_vars, NEW r \in Run, listed'[r] = listed[r],
           NoConflictingList(r)'
    PROVE  NoConflictingList(r)
<1>1. \A q \in Run : listed'[q] = listed[q] \/ listed[q] = {}
  <2>1. ASSUME NEW q \in Run, ListBuckets(q)
        PROVE  \A s \in Run : listed'[s] = listed[s] \/ listed[s] = {}
    BY <2>1 DEF ListBuckets, FreshOK, TypeInv, TypeOK
  <2>2. listed' = listed \/ \E q \in Run : ListBuckets(q)
    BY DEF Next, CloudStep, CreateBucket, DeleteBucket, BeginTick, ExitTicker, Cancel,
           WaitReturns, RunStep, ListNothing, SpawnWorker, SendJob, CloseJobs,
           ReceiveResult, CleanRows, WorkerStep, TakeJob, JobsExhausted, GetMetrics,
           SaveRow, SaveFails, IndexObjects, SendResult, WorkerDone, vars, runVars
  <2>. QED BY <2>1, <2>2
<1>. QED BY <1>1 DEF NoConflictingList

LEMMA SavedStep == TypeInv /\ SentOK /\ PlaceInv /\ SavedOK /\ [Next]_vars => SavedOK'
<1>. USE DEF poolVars, cloudVars, runVars, workerVars
<1>. SUFFICES ASSUME TypeInv, SentOK, PlaceInv, SavedOK, [Next]_vars,
                     NEW q \in Run, NoConflictingList(q)',
                     NEW b \in listed'[q], outcome'[q][b] = "saved"
              PROVE  rows'[b] # "absent"
  BY DEF SavedOK
<1>1. b \in Bucket
  BY TypeStep DEF TypeInv, TypeOK
<1>2. CASE listed'[q] # listed[q]
  <2>1. PICK r \in Run : ListBuckets(r)
    BY <1>2 DEF Next, CloudStep, CreateBucket, DeleteBucket, BeginTick, ExitTicker, Cancel,
           WaitReturns, RunStep, ListNothing, SpawnWorker, SendJob, CloseJobs,
           ReceiveResult, CleanRows, WorkerStep, TakeJob, JobsExhausted, GetMetrics,
           SaveRow, SaveFails, IndexObjects, SendResult, WorkerDone, vars
  <2>2. q = r /\ outcome[q][b] = "pending" /\ UNCHANGED outcome
    BY <1>1, <1>2, <2>1 DEF ListBuckets, PlaceInv, FreshOK, TypeInv, TypeOK
  <2>. QED BY <2>2
<1>3. CASE listed'[q] = listed[q]
  <2>1. NoConflictingList(q)
    BY <1>3, ConflictStays DEF PlaceInv
  <2>2. outcome[q][b] = "saved" => rows[b] # "absent"
    BY <1>3, <2>1 DEF SavedOK
  <2>3. ASSUME UNCHANGED <<rows, outcome>> PROVE rows'[b] # "absent"
    BY <2>2, <2>3
  <2>4. ASSUME NEW r \in Run, CleanRows(r) PROVE rows'[b] # "absent"
    <3>1. UNCHANGED <<outcome, listed>> /\ b \in listed[r]
      BY <1>3, <2>1, <2>4 DEF CleanRows, SentOK, NoConflictingList
    <3>. QED BY <1>1, <2>2, <2>4, <3>1 DEF CleanRows, OnlyListed
  <2>5. ASSUME NEW r \in Run, NEW w \in Worker, SaveRow(r, w) PROVE rows'[b] # "absent"
    <3>1. job[r][w] \in Bucket
      BY <2>5 DEF SaveRow, TypeInv, HandOK
    <3>2. CASE b = job[r][w]
      BY <1>1, <2>5, <3>2 DEF SaveRow, TypeInv, TypeOK
    <3>3. CASE b # job[r][w]
      BY <1>1, <2>2, <2>5, <3>1, <3>3 DEF SaveRow, TypeInv, TypeOK
    <3>. QED BY <3>2, <3>3
  <2>6. ASSUME NEW r \in Run, NEW w \in Worker, SaveFails(r, w) PROVE rows'[b] # "absent"
    <3>1. job[r][w] \in Bucket
      BY <2>6 DEF SaveFails, TypeInv, HandOK
    <3>. QED BY <1>1, <2>2, <2>6, <3>1 DEF SaveFails, TypeInv, TypeOK
  <2>. QED
    BY <2>3, <2>4, <2>5, <2>6
       DEF Next, CloudStep, CreateBucket, DeleteBucket, BeginTick, ExitTicker, Cancel,
           WaitReturns, RunStep, ListNothing, ListBuckets, SpawnWorker, SendJob, CloseJobs,
           ReceiveResult, WorkerStep, TakeJob, JobsExhausted, GetMetrics, IndexObjects,
           SendResult, WorkerDone, vars
<1>. QED BY <1>2, <1>3

\* With one worker per bucket nothing is unsettled at the clean-up.
LEMMA AllSettled ==
    ASSUME TypeInv, CountInv, SlackInv, NEW r \in Run, runPc[r] = "clean", ~ctxDone,
           Cardinality(listed[r]) = Cardinality(Worker)
    PROVE  Unhandled(r) = {}
<1>1. Cardinality(Unhandled(r)) <= Cardinality(Worker) - Cardinality(listed[r])
  BY SlackSuffices DEF BarrierSlack
<1>2. IsFiniteSet(Unhandled(r))
  <2>1. Unhandled(r) \in SUBSET Bucket
    BY DEF Unhandled, TypeInv, TypeOK
  <2>. QED BY <2>1, BucketAssumption, FS_Subset
<1>3. Cardinality(Worker) \in Nat /\ Cardinality(Unhandled(r)) \in Nat
  BY <1>2, WorkerAssumption, FS_CardinalityType
<1>4. Cardinality(Unhandled(r)) = 0
  BY <1>1, <1>3
<1>. QED BY <1>2, <1>4, FS_EmptySet

\* A clean-up that removes something, with one worker per bucket, no failed statement, no
\* Stop and no other collection that saw fewer buckets, leaves the rows of the buckets
\* listed and no others.
THEOREM CleanSyncsCorrect == Spec => CleanSyncsRows
<1>. DEFINE Sync(r) ==
         /\ runPc[r] = "clean" /\ runPc'[r] = "returned" /\ ~ctxDone
         /\ Cardinality(listed[r]) = Cardinality(Worker)
         /\ \A b \in listed[r] : outcome[r][b] # "failed"
         /\ NoConflictingList(r)
         /\ rows' # rows
         => {b \in Bucket : rows'[b] # "absent"} = listed[r]
<1>1. TypeInv /\ CountInv /\ SlackInv /\ SavedOK /\ [Next]_vars => [\A r \in Run : Sync(r)]_vars
  <2>. SUFFICES ASSUME TypeInv, CountInv, SlackInv, SavedOK, Next, NEW r \in Run,
                       runPc[r] = "clean", runPc'[r] = "returned", ~ctxDone,
                       Cardinality(listed[r]) = Cardinality(Worker),
                       \A b \in listed[r] : outcome[r][b] # "failed",
                       NoConflictingList(r), rows' # rows
                PROVE  {b \in Bucket : rows'[b] # "absent"} = listed[r]
    OBVIOUS
  <2>1. rows' = OnlyListed(r)
    <3>1. ASSUME NEW q \in Run, NEW w \in Worker, WorkerStep(q, w) PROVE FALSE
      BY <3>1, WorkerStepMoves
    <3>2. ASSUME NEW q \in Run, RunStep(q) PROVE rows' = OnlyListed(r)
      <4>1. CleanRows(q)
        BY <3>2 DEF RunStep, ListNothing, ListBuckets, SpawnWorker, SendJob, CloseJobs,
                    ReceiveResult
      <4>2. q = r
        BY <4>1 DEF CleanRows, TypeInv, TypeOK
      <4>. QED BY <4>1, <4>2 DEF CleanRows
    <3>. QED BY <3>1, <3>2 DEF Next, CloudStep, CreateBucket, DeleteBucket, BeginTick,
                ExitTicker, Cancel, WaitReturns
  <2>2. \A b \in listed[r] : outcome[r][b] = "saved"
    BY AllSettled DEF Unhandled, TypeInv, TypeOK
  <2>3. \A b \in listed[r] : b \in Bucket /\ rows[b] # "absent"
    BY <2>2 DEF SavedOK, TypeInv, TypeOK
  <2>. QED BY <2>1, <2>3 DEF OnlyListed
<1>2. TypeInv /\ TickOK /\ SlackInv /\ [Next]_vars => SlackInv'
  BY DrainStep, SentStep, PendingStep DEF SlackInv
<1>3. TypeInv /\ SlackInv /\ PlaceInv /\ SavedOK /\ [Next]_vars => SavedOK'
  BY SavedStep DEF SlackInv
<1>4. Init => PlaceInv
  BY LinkInit DEF LinkInv, PlaceInv
<1>. QED BY <1>1, <1>2, <1>3, <1>4, TypeInit, TypeStep, TickInit, TickStep, CountInit,
            CountStep, SlackInit, PlaceStep, SavedInit, PTL
         DEF Spec, CleanSyncsRows
=============================================================================
