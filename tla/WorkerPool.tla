----------------------------- MODULE WorkerPool -----------------------------
(***************************************************************************)
(* The analytics worker pool of api/internal/analytics/worker.go: the      *)
(* initial and the scheduled collections (runOnce), the worker goroutines  *)
(* each one starts, the jobs and results channels between them, the        *)
(* context and the wait group that Stop uses, and the bucket_analytics     *)
(* table the workers write and a collection cleans up at its end.          *)
(*                                                                         *)
(* Run 0 is the collection that Start launches with "go wp.runOnce()";     *)
(* run k > 0 is the k-th collection the ticker goroutine calls inline.     *)
(* Every run makes its own two channels, so all channel and worker state   *)
(* is indexed by the run.                                                  *)
(***************************************************************************)
EXTENDS Integers, FiniteSets

CONSTANTS
    Bucket,      \* names a bucket of the account may have
    Worker,      \* one identity for each of the wp.workers goroutines of a run
    NoJob,       \* what a worker without a job in hand holds
    Indexed,     \* buckets whose objects are indexed (enableIndexing, not excluded)
    MaxTicks,    \* bound: scheduled collections that are explored
    MaxChanges   \* bound: bucket creations and deletions that are explored

ASSUME BucketAssumption == IsFiniteSet(Bucket)
ASSUME WorkerAssumption == IsFiniteSet(Worker)
ASSUME NoJobAssumption == NoJob \notin Bucket
ASSUME IndexedAssumption == Indexed \subseteq Bucket
ASSUME BoundAssumption == MaxTicks \in Nat /\ MaxChanges \in Nat

Run == 0 .. MaxTicks
Tick == 1 .. MaxTicks          \* the runs the ticker goroutine makes

VARIABLES
    cloud,      \* buckets that exist at the storage service
    changes,    \* how often cloud has changed (counted for MaxChanges only)
    rows,       \* bucket_analytics: what the row of a bucket holds
    ctxDone,    \* wp.ctx is cancelled
    wg,         \* the counter of wp.wg
    tickerPc,   \* "looping" or "exited": the goroutine of Start
    ticks,      \* scheduled collections begun so far
    stopPc,     \* "idle", "waiting" (in wg.Wait) or "returned": a call of Stop
    runPc,      \* where each runOnce is
    listed,     \* the slice "buckets" of each run
    unsent,     \* jobs of a run not yet sent
    queue,      \* the jobs channel of a run
    results,    \* how many values the results channel of a run holds
    received,   \* how many results a run has received
    workerPc,   \* where each worker of each run is
    job,        \* the job each worker has in hand
    outcome     \* history: what became of each listed bucket in a run

cloudVars == <<cloud, changes>>
poolVars == <<ctxDone, tickerPc, ticks, stopPc>>
runVars == <<runPc, listed, unsent, received>>
workerVars == <<workerPc, job, outcome>>
vars == <<cloudVars, rows, wg, poolVars, runVars, queue, results, workerVars>>

-----------------------------------------------------------------------------
RunPc == {"idle", "list", "start", "collect", "clean", "returned"}
WorkerPc == {"new", "range", "metrics", "upsert", "ensure", "index",
             "exit", "done", "gone"}

TypeOK ==
    /\ cloud \in SUBSET Bucket /\ changes \in 0 .. MaxChanges
    /\ rows \in [Bucket -> {"absent", "placeholder", "measured"}]
    /\ ctxDone \in BOOLEAN /\ wg \in Int
    /\ tickerPc \in {"looping", "exited"} /\ ticks \in Run
    /\ stopPc \in {"idle", "waiting", "returned"}
    /\ runPc \in [Run -> RunPc]
    /\ listed \in [Run -> SUBSET Bucket]
    /\ unsent \in [Run -> SUBSET Bucket]
    /\ queue \in [Run -> SUBSET Bucket]
    /\ results \in [Run -> Nat] /\ received \in [Run -> Nat]
    /\ workerPc \in [Run -> [Worker -> WorkerPc]]
    /\ job \in [Run -> [Worker -> Bucket \union {NoJob}]]
    /\ outcome \in [Run -> [Bucket -> {"pending", "failed", "saved"}]]

\* The state in which Start returns: the initial collection is launched but not
\* counted in wg, the ticker goroutine is.
Init ==
    /\ cloud \in SUBSET Bucket /\ changes = 0
    /\ rows \in [Bucket -> {"absent", "measured"}]
    /\ ctxDone = FALSE /\ wg = 1
    /\ tickerPc = "looping" /\ ticks = 0 /\ stopPc = "idle"
    /\ runPc = [r \in Run |-> IF r = 0 THEN "list" ELSE "idle"]
    /\ listed = [r \in Run |-> {}]
    /\ unsent = [r \in Run |-> {}]
    /\ queue = [r \in Run |-> {}]
    /\ results = [r \in Run |-> 0] /\ received = [r \in Run |-> 0]
    /\ workerPc = [r \in Run |-> [w \in Worker |-> "new"]]
    /\ job = [r \in Run |-> [w \in Worker |-> NoJob]]
    /\ outcome = [r \in Run |-> [b \in Bucket |-> "pending"]]

-----------------------------------------------------------------------------
\* The wait group of the pool.  Mutant: a call that was forgotten.
NoDone == UNCHANGED wg
WgAdd == wg' = wg + 1
WgDone == wg' = wg - 1

-----------------------------------------------------------------------------
\* The storage service: users create and delete buckets while the pool works.

CreateBucket(b) ==
    /\ changes < MaxChanges
    /\ b \notin cloud
    /\ cloud' = cloud \union {b}
    /\ changes' = changes + 1
    /\ UNCHANGED <<rows, wg, poolVars, runVars, queue, results, workerVars>>

DeleteBucket(b) ==
    /\ changes < MaxChanges
    /\ b \in cloud
    /\ cloud' = cloud \ {b}
    /\ changes' = changes + 1
    /\ UNCHANGED <<rows, wg, poolVars, runVars, queue, results, workerVars>>

-----------------------------------------------------------------------------
\* The ticker goroutine of Start.  It calls runOnce inline, so it is back at its
\* select only when the collection it began last has returned.

\* Mutant: the ticker starts a collection with "go" and returns to its select.
AtSelectAlways == tickerPc = "looping"

AtSelect ==
    /\ tickerPc = "looping"
    /\ ticks = 0 \/ runPc[ticks] = "returned"

\* case <-ticker.C: Go's select may choose it although the context is done too.
BeginTick ==
    /\ AtSelect
    /\ ticks < MaxTicks
    /\ ticks' = ticks + 1
    /\ runPc' = [runPc EXCEPT ![ticks + 1] = "list"]
    /\ UNCHANGED <<cloudVars, rows, wg, ctxDone, tickerPc, stopPc, listed,
                   unsent, received, queue, results, workerVars>>

\* case <-wp.ctx.Done(): return, with the deferred wg.Done.
ExitTicker ==
    /\ AtSelect
    /\ ctxDone
    /\ tickerPc' = "exited"
    /\ WgDone
    /\ UNCHANGED <<cloudVars, rows, ctxDone, ticks, stopPc, runVars, queue,
                   results, workerVars>>

-----------------------------------------------------------------------------
\* Stop, which main calls once on SIGINT or SIGTERM.

Cancel ==
    /\ stopPc = "idle"
    /\ stopPc' = "waiting"
    /\ ctxDone' = TRUE
    /\ UNCHANGED <<cloudVars, rows, wg, tickerPc, ticks, runVars, queue,
                   results, workerVars>>

WaitReturns ==
    /\ stopPc = "waiting"
    /\ wg = 0
    /\ stopPc' = "returned"
    /\ UNCHANGED <<cloudVars, rows, wg, ctxDone, tickerPc, ticks, runVars,
                   queue, results, workerVars>>

-----------------------------------------------------------------------------
\* runOnce.

\* The listing fails or is empty, and the collection is over.
ListNothing(r) ==
    /\ runPc[r] = "list"
    /\ runPc' = [runPc EXCEPT ![r] = "returned"]
    /\ UNCHANGED <<cloudVars, rows, wg, poolVars, listed, unsent, received,
                   queue, results, workerVars>>

ListBuckets(r) ==
    /\ runPc[r] = "list"
    /\ cloud # {}
    /\ runPc' = [runPc EXCEPT ![r] = "start"]
    /\ listed' = [listed EXCEPT ![r] = cloud]
    /\ unsent' = [unsent EXCEPT ![r] = cloud]
    /\ UNCHANGED <<cloudVars, rows, wg, poolVars, received, queue, results,
                   workerVars>>

SpawnWorker(r, w) ==
    /\ runPc[r] = "start"
    /\ workerPc[r][w] = "new"
    /\ workerPc' = [workerPc EXCEPT ![r][w] = "range"]
    /\ WgAdd
    /\ UNCHANGED <<cloudVars, rows, poolVars, runVars, queue, results, job,
                   outcome>>

AllSpawned(r) == \A w \in Worker : workerPc[r][w] # "new"

\* The channel holds len(buckets) jobs, so a send never blocks.
SendJob(r, b) ==
    /\ runPc[r] = "start" /\ AllSpawned(r)
    /\ b \in unsent[r]
    /\ unsent' = [unsent EXCEPT ![r] = @ \ {b}]
    /\ queue' = [queue EXCEPT ![r] = @ \union {b}]
    /\ UNCHANGED <<cloudVars, rows, wg, poolVars, runPc, listed, received,
                   results, workerVars>>

CloseJobs(r) ==
    /\ runPc[r] = "start" /\ AllSpawned(r)
    /\ unsent[r] = {}
    /\ runPc' = [runPc EXCEPT ![r] = "collect"]
    /\ UNCHANGED <<cloudVars, rows, wg, poolVars, listed, unsent, received,
                   queue, results, workerVars>>

\* Mutant: runOnce forgets close(jobs).
NeverClosed(r) == FALSE

JobsClosed(r) == runPc[r] \in {"collect", "clean", "returned"}

\* Mutant: the receive does not wait.
NoWait(r) == TRUE

HasResult(r) == results[r] > 0
LastResult(r) == received[r] + 1 = Cardinality(listed[r])

\* The loop that receives one result per bucket.
ReceiveResult(r) ==
    /\ runPc[r] = "collect"
    /\ HasResult(r)
    /\ results' = [results EXCEPT ![r] = @ - 1]
    /\ received' = [received EXCEPT ![r] = @ + 1]
    /\ runPc' = IF LastResult(r)
                THEN [runPc EXCEPT ![r] = "clean"] ELSE runPc
    /\ UNCHANGED <<cloudVars, rows, wg, poolVars, listed, unsent, queue,
                   workerVars>>

\* Mutant: DELETE ... IN instead of NOT IN.
WithoutListed(r) == [b \in Bucket |-> IF b \in listed[r] THEN "absent" ELSE rows[b]]
OnlyListed(r) == [b \in Bucket |-> IF b \in listed[r] THEN rows[b] ELSE "absent"]

\* analyticsRepo.DeleteByNames(existingNames); a database error is only logged.
CleanRows(r) ==
    /\ runPc[r] = "clean"
    /\ runPc' = [runPc EXCEPT ![r] = "returned"]
    /\ \/ rows' = OnlyListed(r)
       \/ rows' = rows
    /\ UNCHANGED <<cloudVars, wg, poolVars, listed, unsent, received, queue,
                   results, workerVars>>

-----------------------------------------------------------------------------
\* worker.

\* "for job := range jobs" takes a job; a cancelled context drops it and returns.
TakeJob(r, w, b) ==
    /\ workerPc[r][w] = "range"
    /\ b \in queue[r]
    /\ queue' = [queue EXCEPT ![r] = @ \ {b}]
    /\ \/ /\ ctxDone
          /\ workerPc' = [workerPc EXCEPT ![r][w] = "exit"]
          /\ job' = job
       \/ /\ ~ctxDone
          /\ workerPc' = [workerPc EXCEPT ![r][w] = "metrics"]
          /\ job' = [job EXCEPT ![r][w] = b]
    /\ UNCHANGED <<cloudVars, rows, wg, poolVars, runVars, results, outcome>>

\* Mutant: a worker leaves when it finds the channel empty, closed or not.
Empty(r) == queue[r] = {}
Drained(r) == queue[r] = {} /\ JobsClosed(r)

\* The range loop ends when the channel is closed and empty.
JobsExhausted(r, w) ==
    /\ workerPc[r][w] = "range"
    /\ Drained(r)
    /\ workerPc' = [workerPc EXCEPT ![r][w] = "exit"]
    /\ UNCHANGED <<cloudVars, rows, wg, poolVars, runVars, queue, results, job,
                   outcome>>

\* GetBucketStorageMetrics: may fail at any time, must fail for a missing bucket.
GetMetrics(r, w) ==
    /\ workerPc[r][w] = "metrics"
    /\ \/ /\ job[r][w] \in cloud
          /\ workerPc' = [workerPc EXCEPT ![r][w] = "upsert"]
       \/ workerPc' = [workerPc EXCEPT ![r][w] = "ensure"]
    /\ UNCHANGED <<cloudVars, rows, wg, poolVars, runVars, queue, results, job,
                   outcome>>

\* What follows the table write: indexing, or the next turn of the loop.
AfterSave(r, w) ==
    IF job[r][w] \in Indexed
    THEN /\ workerPc' = [workerPc EXCEPT ![r][w] = "index"]
         /\ job' = job
    ELSE /\ workerPc' = [workerPc EXCEPT ![r][w] = "range"]
         /\ job' = [job EXCEPT ![r][w] = NoJob]

\* Upsert after the metrics arrived, EnsureExists (ON CONFLICT DO NOTHING) after
\* they failed.
SaveRow(r, w) ==
    /\ workerPc[r][w] \in {"upsert", "ensure"}
    /\ rows' = [rows EXCEPT ![job[r][w]] =
                   IF workerPc[r][w] = "upsert" THEN "measured"
                   ELSE IF @ = "absent" THEN "placeholder" ELSE @]
    /\ outcome' = [outcome EXCEPT ![r][job[r][w]] = "saved"]
    /\ AfterSave(r, w)
    /\ UNCHANGED <<cloudVars, wg, poolVars, runVars, queue, results>>

\* The same when the database refuses the statement: logged, and the worker goes on.
SaveFails(r, w) ==
    /\ workerPc[r][w] \in {"upsert", "ensure"}
    /\ outcome' = [outcome EXCEPT ![r][job[r][w]] = "failed"]
    /\ AfterSave(r, w)
    /\ UNCHANGED <<cloudVars, rows, wg, poolVars, runVars, queue, results>>

\* indexBucketObjects, whose own steps are in ObjectIndexer; it does not touch
\* anything of the pool, and its error is only logged.
IndexObjects(r, w) ==
    /\ workerPc[r][w] = "index"
    /\ workerPc' = [workerPc EXCEPT ![r][w] = "range"]
    /\ job' = [job EXCEPT ![r][w] = NoJob]
    /\ UNCHANGED <<cloudVars, rows, wg, poolVars, runVars, queue, results,
                   outcome>>

Sent(r) == [results EXCEPT ![r] = @ + 1]

\* The second deferred call: one result when the worker leaves, however many jobs
\* it took.  The channel holds len(buckets) results.
SendResult(r, w) ==
    /\ workerPc[r][w] = "exit"
    /\ results[r] < Cardinality(listed[r])
    /\ results' = Sent(r)
    /\ workerPc' = [workerPc EXCEPT ![r][w] = "done"]
    /\ UNCHANGED <<cloudVars, rows, wg, poolVars, runVars, queue, job, outcome>>

\* The first deferred call, which runs last: wg.Done.
WorkerDone(r, w) ==
    /\ workerPc[r][w] = "done"
    /\ workerPc' = [workerPc EXCEPT ![r][w] = "gone"]
    /\ WgDone
    /\ UNCHANGED <<cloudVars, rows, poolVars, runVars, queue, results, job,
                   outcome>>

-----------------------------------------------------------------------------
WorkerStep(r, w) ==
    \/ \E b \in Bucket : TakeJob(r, w, b)
    \/ JobsExhausted(r, w)
    \/ GetMetrics(r, w)
    \/ SaveRow(r, w)
    \/ SaveFails(r, w)
    \/ IndexObjects(r, w)
    \/ SendResult(r, w)
    \/ WorkerDone(r, w)

RunStep(r) ==
    \/ ListNothing(r)
    \/ ListBuckets(r)
    \/ \E w \in Worker : SpawnWorker(r, w)
    \/ \E b \in Bucket : SendJob(r, b)
    \/ CloseJobs(r)
    \/ ReceiveResult(r)
    \/ CleanRows(r)

CloudStep == \E b \in Bucket : CreateBucket(b) \/ DeleteBucket(b)

Next ==
    \/ CloudStep
    \/ BeginTick
    \/ ExitTicker
    \/ Cancel
    \/ WaitReturns
    \/ \E r \in Run : RunStep(r)
    \/ \E r \in Run, w \in Worker : WorkerStep(r, w)

Spec == Init /\ [][Next]_vars

\* Every goroutine that can run does run, every call of the service and of the
\* database is answered, and a waiting Stop is woken.  Nothing makes a tick, a
\* signal or a change of the buckets happen.
Fairness ==
    /\ WF_vars(ExitTicker) /\ WF_vars(WaitReturns)
    /\ \A r \in Run : WF_vars(RunStep(r))
    /\ \A r \in Run, w \in Worker : WF_vars(WorkerStep(r, w))

FairSpec == Spec /\ Fairness

-----------------------------------------------------------------------------
(* Properties *)

\* A worker of run r has been spawned and has not left yet.
Live(r, w) == workerPc[r][w] \notin {"new", "gone"}

\* Workers of run r that have put their result into the channel.
Reported(r) == {w \in Worker : workerPc[r][w] \in {"done", "gone"}}

Unhandled(r) == {b \in listed[r] : outcome[r][b] = "pending"}

\* Every result is a worker's exit and none is lost or counted twice: what a run
\* has received and what its channel holds are exactly the workers that reported.
ResultsAreExits ==
    \A r \in Run : received[r] + results[r] = Cardinality(Reported(r))

\* A collection waits for len(buckets) results but gets one per worker, so the
\* clean-up is reached only with at least as many workers as listed buckets.
CleanNeedsWorkers ==
    \A r \in Run : runPc[r] = "clean" =>
        Cardinality(listed[r]) <= Cardinality(Worker)

\* How good the wait before the clean-up is as a barrier: unless Stop has been
\* called, all jobs have been taken and at most (workers - buckets) buckets are
\* still without an outcome; with one worker per bucket every bucket is settled.
BarrierSlack ==
    \A r \in Run : runPc[r] = "clean" /\ ~ctxDone =>
        /\ queue[r] = {}
        /\ Cardinality(Unhandled(r)) <= Cardinality(Worker) - Cardinality(listed[r])

\* Stop's wg.Wait covers the ticker goroutine, every scheduled collection and all
\* of its workers: after Stop has returned none of them is alive.
StopCoversTicks ==
    stopPc = "returned" =>
        /\ tickerPc = "exited"
        /\ \A r \in Tick : /\ runPc[r] \in {"idle", "returned"}
                           /\ \A w \in Worker : ~Live(r, w)

\* No worker is left to call wg.Done on a counter already at zero (sync would
\* panic with "negative WaitGroup counter").
CounterCoversLive ==
    wg = (IF tickerPc = "looping" THEN 1 ELSE 0)
         + Cardinality({x \in Run \X Worker : Live(x[1], x[2])})

\* Other collections whose clean-up cannot remove the rows of run r's buckets.
NoConflictingList(r) == \A q \in Run : listed[q] = {} \/ listed[r] \subseteq listed[q]

\* With one worker per listed bucket, a clean-up that succeeds leaves a row for
\* each listed bucket and for no other, provided no statement of the run failed,
\* Stop was not called and no overlapping collection saw fewer buckets.
CleanSyncsRows ==
    [][\A r \in Run :
         /\ runPc[r] = "clean" /\ runPc'[r] = "returned" /\ ~ctxDone
         /\ Cardinality(listed[r]) = Cardinality(Worker)
         /\ \A b \in listed[r] : outcome[r][b] # "failed"
         /\ NoConflictingList(r)
         /\ rows' # rows
         => {b \in Bucket : rows'[b] # "absent"} = listed[r]]_vars

\* With at least one worker per bucket every collection that began returns, so the
\* ticker goroutine comes back to its select.
RunsReturn == \A r \in Run : runPc[r] # "idle" ~> runPc[r] = "returned"

\* With between one and two workers per bucket a Stop returns.
StopReturns == stopPc = "waiting" ~> stopPc = "returned"
=============================================================================
