-------------------------- MODULE WorkerPoolClaims --------------------------
(***************************************************************************)
(* What the comments of worker.go say of the pool, for numbers of workers  *)
(* and buckets for which the code does otherwise.                          *)
(***************************************************************************)
EXTENDS WorkerPool

\* "Agenda execuções periódicas" (worker.go:60): a scheduled collection does not
\* keep the ticker goroutine from its next tick for ever.
KeepsTicking == \A r \in Tick : runPc[r] = "list" ~> AtSelect
=============================================================================
