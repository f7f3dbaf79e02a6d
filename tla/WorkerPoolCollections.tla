----------------------- MODULE WorkerPoolCollections -----------------------
(***************************************************************************)
(* The worker pool implements Collections.                                 *)
(***************************************************************************)
EXTENDS WorkerPool

StageOf(pc) == IF pc = "idle" THEN "idle" ELSE IF pc = "returned" THEN "closed" ELSE "open"
Present == {b \in Bucket : rows[b] # "absent"}
Stage == [r \in Run |-> StageOf(runPc[r])]
Todo == [r \in Run |-> Unhandled(r)]

Abstract == INSTANCE Collections WITH
    Workers <- Cardinality(Worker), present <- Present, stage <- Stage, todo <- Todo,
    stopped <- ctxDone

\* Whatever the channels and the goroutines do, seen from the table they are collections
\* that clean up only behind their barrier, each bucket of which is settled at most once
\* (worker.go:70-140).
CollectsAsPromised == Abstract!Spec
=============================================================================
