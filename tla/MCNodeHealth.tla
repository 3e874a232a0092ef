----------------------------- MODULE MCNodeHealth -----------------------------
(***************************************************************************)
(* Two nodes and two requests: enough for a request to be under way at, or *)
(* to have before it, a node whose cooldown the other one sets, prolongs   *)
(* or lifts.  Heartbeats, cooldowns, the cache, health entries and nodes   *)
(* all expire before the clock stops.                                      *)
(***************************************************************************)
EXTENDS NodeHealth, TLC

Symmetric == Permutations(Requests) \cup Permutations(Nodes)
===============================================================================
