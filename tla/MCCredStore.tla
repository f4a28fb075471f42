--------------------------- MODULE MCCredStore ---------------------------
(***************************************************************************)
(* Values for model-checking CredStore: two keys, a key rotation, a key    *)
(* added, and the contents parse refuses.                                  *)
(***************************************************************************)
EXTENDS CredStore, TLC

CONSTANTS k1, k2, s1, s2, blank, torn

MCRotated == k1 :> s2
MCGrown == (k1 :> s1) @@ (k2 :> s2)
MCRenamed == k2 :> s1
MCNoEntry == [k \in {} |-> blank]
MCBlankSecret == (k1 :> s1) @@ (k2 :> blank)

MCObjects == {MCRotated, MCGrown, MCNoEntry}
MCObjectsAll == MCObjects \cup {MCRenamed, MCBlankSecret}

(* HMAC_STRICT has its default. *)
MCEnv(file, inline, legacy, dryRun) ==
  [file |-> file, inline |-> inline, legacy |-> legacy, dryRun |-> dryRun,
   strict |-> file \/ inline \/ ~legacy]

(* Every combination of sources. A file goes before the other two, so with *)
(* one it is enough to have both or none.                                  *)
MCEnvs == {MCEnv(FALSE, i, l, d) : i, l, d \in BOOLEAN}
            \cup {MCEnv(TRUE, TRUE, TRUE, FALSE), MCEnv(TRUE, FALSE, FALSE, TRUE)}
MCFileEnv == {MCEnv(TRUE, FALSE, TRUE, FALSE)}

=============================================================================
