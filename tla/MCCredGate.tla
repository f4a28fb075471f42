--------------------------- MODULE MCCredGate ---------------------------
(***************************************************************************)
(* Values for model-checking CredGate. Two clients; a key whose secret     *)
(* changes, a key that comes and goes, and an empty object.                *)
(***************************************************************************)
EXTENDS CredGate, TLC

CONSTANTS k1, k2, s1, s2, blank, torn, nokey, c1, c2

MCRotated == k1 :> s2
MCGrown == (k1 :> s1) @@ (k2 :> s2)
MCNoEntry == [k \in {} |-> blank]
MCObjects == {MCRotated, MCGrown, MCNoEntry}

MCEnv(file, legacy, dryRun, strict) ==
  [file |-> file, inline |-> FALSE, legacy |-> legacy, dryRun |-> dryRun, strict |-> strict]
(* A live proxy with a credential file, one with the legacy pair only, and *)
(* a laptop without credentials; HMAC_STRICT has its default.              *)
MCEnvs == {MCEnv(TRUE, TRUE, FALSE, TRUE), MCEnv(FALSE, TRUE, FALSE, FALSE),
           MCEnv(FALSE, FALSE, TRUE, TRUE)}

MCClientSymmetry == Permutations({c1, c2})
=============================================================================
