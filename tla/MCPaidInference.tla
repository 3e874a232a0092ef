---------------------------- MODULE MCPaidInference ---------------------------
(***************************************************************************)
(* Two nodes, two prices, and enough calls for two of them to wait for an  *)
(* invoice at once while the third is served; one receipt at a time.       *)
(***************************************************************************)
EXTENDS PaidInference, TLC

Symmetry == Permutations(Calls) \cup Permutations(Posts) \cup Permutations(Nodes)
===============================================================================
