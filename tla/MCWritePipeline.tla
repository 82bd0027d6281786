--------------------------- MODULE MCWritePipeline ---------------------------
(***************************************************************************)
(* WritePipeline for TLC.  The specification is finite as it stands: an    *)
(* input has at most N batches, and a batch at most MaxRetries + 1         *)
(* attempts, each stored at most once.  `use_v2_api` and `no_sync` matter  *)
(* to Validate only: a pair it refuses and one it accepts.                 *)
(***************************************************************************)
EXTENDS WritePipeline

MCInit == Init /\ options.no_sync = options.use_v2_api

MCSpec == MCInit /\ [][Next]_vars
MCFairSpec == MCSpec /\ Fairness
=============================================================================
