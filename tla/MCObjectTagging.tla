------------------------- MODULE MCObjectTagging -------------------------
(***************************************************************************)
(* Values for model-checking ObjectTagging: two tag keys with one value,   *)
(* so that every set of keys is a tag set.                                 *)
(***************************************************************************)
EXTENDS ObjectTagging, TLC

CONSTANTS a, b, v, delete, gone, r1, r2

MCUntagged == {[k \in {} |-> delete]}
MCAnyTags == MCUntagged \cup {a :> v}

MCSymmetry == Permutations({r1, r2})
=============================================================================
