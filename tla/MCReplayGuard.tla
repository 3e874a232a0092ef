---------------------------- MODULE MCReplayGuard -----------------------------
(***************************************************************************)
(* The replay guard with few nonces.  Nonces are only ever compared, and   *)
(* every property is a safety property, so that they may be permuted.      *)
(***************************************************************************)
EXTENDS ReplayGuard, TLC

NonceSymmetry == Permutations(Nonces)
===============================================================================
