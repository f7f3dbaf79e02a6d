---------------------------- MODULE Collections ----------------------------
(***************************************************************************)
(* What the worker pool promises of its collections, without channels and  *)
(* workers.  A collection lists buckets and settles them in any order,     *)
(* some even after it is over; at its end it removes the rows of other     *)
(* buckets, but not before its buckets are settled, except for as many as  *)
(* there are workers more than buckets.                                    *)
(***************************************************************************)
EXTENDS Integers, FiniteSets

CONSTANTS
    Bucket,   \* names of buckets
    Workers,  \* how many workers a collection has
    Run       \* the collections: 0 is the first, the others follow upon each other

VARIABLES
    present,  \* the buckets that have a row
    stage,    \* per collection "idle", "open" or "closed"
    listed,   \* the buckets it lists
    todo,     \* those of them that it has not settled
    stopped   \* the pool is told to stop

vars == <<present, stage, listed, todo, stopped>>

Init ==
    /\ present \in SUBSET Bucket
    /\ stage = [r \in Run |-> IF r = 0 THEN "open" ELSE "idle"]
    /\ listed = [r \in Run |-> {}] /\ todo = [r \in Run |-> {}]
    /\ stopped = FALSE

\* A scheduled collection begins when the one before it is over.
Begin(r) ==
    /\ stage[r] = "idle" /\ \A q \in Run : 0 < q /\ q < r => stage[q] = "closed"
    /\ stage' = [stage EXCEPT ![r] = "open"]
    /\ UNCHANGED <<present, listed, todo, stopped>>

List(r, found) ==
    /\ stage[r] = "open" /\ listed[r] = {} /\ found # {}
    /\ listed' = [listed EXCEPT ![r] = found] /\ todo' = [todo EXCEPT ![r] = found]
    /\ UNCHANGED <<present, stage, stopped>>

\* The listing fails or is empty.
GiveUp(r) ==
    /\ stage[r] = "open" /\ listed[r] = {}
    /\ stage' = [stage EXCEPT ![r] = "closed"]
    /\ UNCHANGED <<present, listed, todo, stopped>>

\* A bucket is settled once: with a row, unless the database refuses it.
Settle(r, b) ==
    /\ b \in todo[r]
    /\ todo' = [todo EXCEPT ![r] = @ \ {b}]
    /\ present' \in {present, present \union {b}}
    /\ UNCHANGED <<stage, listed, stopped>>

Clean(r) ==
    /\ stage[r] = "open" /\ listed[r] # {}
    /\ stopped \/ Cardinality(todo[r]) <= Workers - Cardinality(listed[r])
    /\ present' \in {present, present \intersect listed[r]}
    /\ stage' = [stage EXCEPT ![r] = "closed"]
    /\ UNCHANGED <<listed, todo, stopped>>

Stop == ~stopped /\ stopped' = TRUE /\ UNCHANGED <<present, stage, listed, todo>>

Next ==
    \/ Stop
    \/ \E r \in Run : \/ Begin(r) \/ GiveUp(r) \/ Clean(r)
                      \/ \E found \in SUBSET Bucket : List(r, found)
                      \/ \E b \in Bucket : Settle(r, b)

Spec == Init /\ [][Next]_vars
=============================================================================
