------------------------- MODULE MCFederationTransport ------------------------
(* Announcements to three peers by HTTPS, announcements over two relays, and *)
(* requests for bids through the limiter.                                   *)
EXTENDS FederationTransport

CONSTANTS p, q, r, x, y, caps, status

MCPeers == <<p, q, r>>
MCKinds == <<caps, status>>
MCVersions == (caps :> 2) @@ (status :> 1)
MCConfigurations ==
  {[relays |-> FALSE, limited |-> FALSE, announces |-> TRUE],
   [relays |-> TRUE, limited |-> FALSE, announces |-> TRUE],
   [relays |-> FALSE, limited |-> TRUE, announces |-> FALSE]}
===============================================================================
