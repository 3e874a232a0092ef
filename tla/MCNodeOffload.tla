----------------------------- MODULE MCNodeOffload ----------------------------
(***************************************************************************)
(* Two nodes.  Either each is the other's peer, so that offloads go in a   *)
(* circle, or one holds an auction with the other as its only bidder, or   *)
(* one asks the router and the other nobody.                               *)
(***************************************************************************)
EXTENDS NodeOffload, TLC

CONSTANTS a, b

Alone == [peers |-> <<>>, auction |-> FALSE, router |-> FALSE]

MCConfigurations ==
  {a :> [Alone EXCEPT !.peers = <<b>>] @@ b :> [Alone EXCEPT !.peers = <<a>>],
   a :> [Alone EXCEPT !.peers = <<b>>, !.auction = TRUE] @@ b :> [Alone EXCEPT !.auction = TRUE],
   a :> [Alone EXCEPT !.router = TRUE] @@ b :> Alone}

MCCapacity == a :> 1 @@ b :> 1
MCLatency == a :> 1 @@ b :> 1
===============================================================================
