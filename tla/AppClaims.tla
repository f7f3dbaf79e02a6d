----------------------------- MODULE AppClaims -----------------------------
(***************************************************************************)
(* What a comment of the frontend says where its code does otherwise.     *)
(***************************************************************************)
EXTENDS MCApp

\* "BucketGrid will automatically refresh" (Buckets.tsx:49): a bucket that the page said it
\* has created is in the grid, when nothing is under way any more.
CreatedShown ==
    page = "buckets" /\ Mine({"buckets", "analytics"}) = {} /\ ~bp.loading /\ ~bp.error =>
        bp.created \subseteq bp.grid
=============================================================================
