------------------------- MODULE MCBucketConfig --------------------------
(***************************************************************************)
(* Values for model-checking BucketConfig: two requests, one configuration *)
(* that says something, and the ways to say nothing.                       *)
(***************************************************************************)
EXTENDS BucketConfig, TLC

CONSTANTS r1, r2, v1, nothing, empty, blank, unsupported, keep, refused

MCSymmetry == Permutations({r1, r2})
=============================================================================
