------------------------ MODULE MCRequestPipeline ------------------------
(***************************************************************************)
(* Values for model-checking RequestPipeline: two requests, one token.     *)
(* Statuses keep their numbers.                                            *)
(***************************************************************************)
EXTENDS RequestPipeline

CONSTANTS r1, r2
=============================================================================
