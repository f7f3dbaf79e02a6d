---------------------------- MODULE MCWorkerPool ----------------------------
\* The instances of the worker pool that TLC explores.
EXTENDS WorkerPoolCollections, TLC

\* Buckets that are indexed differ from the others, so only workers and equally
\* treated buckets may be exchanged.
Symmetry == Permutations(Worker) \union Permutations(Indexed)
            \union Permutations(Bucket \ Indexed)
=============================================================================
