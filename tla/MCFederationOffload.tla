------------------------- MODULE MCFederationOffload --------------------------
(***************************************************************************)
(* Two peers, one job and two calls that offload it; of the three prices   *)
(* one is above the cap, and the other two differ in sats.                 *)
(***************************************************************************)
EXTENDS FederationOffload, TLC

CONSTANTS job

MCJobs == {job}
MCJobOf == [o \in Offloads |-> job]

Symmetry == Permutations(Peers) \cup Permutations(Offloads) \cup Permutations(Outputs)
===============================================================================
