--------------------------- MODULE MCRouterLifecycle --------------------------
(* One payment of each scope, one node and one stake, one who claims the router.  *)
EXTENDS RouterLifecycle

CONSTANTS client, job, node, stake, alice

ClientKeysDef == {client}
FederationKeysDef == {job}
NodesDef == {node}
StakesDef == {stake}
OwnersDef == {alice}
===============================================================================
