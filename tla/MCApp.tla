------------------------------- MODULE MCApp -------------------------------
\* The instance of App that TLC explores: two endpoints and a user on two pages, a bucket
\* that holds a version and an empty one, rules that the dialog can read and one it cannot.
EXTENDS App, TLC

CONSTANTS n1, n2, b1, b2

Endpoint(i, name) == [id |-> i, name |-> name, role |-> "endpoint", active |-> TRUE]
SomeAccounts == <<Endpoint(2, n2), Endpoint(1, n1)>>
SomeContents == (b1 :> <<[id |-> 1, marker |-> FALSE]>>) @@ (b2 :> <<>>)
SomeRules == (b1 :> <<[prefix |-> "p/", days |-> 7, noncurrent |-> 7]>>)
             @@ (b2 :> <<[prefix |-> "", days |-> 7, noncurrent |-> 0]>>)
SomeTerms == {0}
SomeFeed == <<[id |-> 1, bucket |-> b1, exit |-> 0], [id |-> 2, bucket |-> b2, exit |-> 2]>>
=============================================================================
