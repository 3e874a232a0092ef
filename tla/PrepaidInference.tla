--------------------------- MODULE PrepaidInference ---------------------------
(***************************************************************************)
(* What "pay before work" promises of one client request, whatever the     *)
(* messages between client, router, nodes and invoice provider do: a node  *)
(* works only against one of its invoices that was offered to the client   *)
(* and has been paid before.                                               *)
(***************************************************************************)
CONSTANTS
  Nodes,    \* the payees
  Invoices  \* the invoices of the provider

VARIABLES
  offered,  \* which invoices, of which node, the client was offered
  paid,     \* which of them it has paid
  served    \* those against which their node has worked

vars == <<offered, paid, served>>

Init == offered = {} /\ paid = {} /\ served = {}

Offer(n, i) ==
  /\ offered' = offered \cup {<<n, i>>}
  /\ UNCHANGED <<paid, served>>

Pay(n, i) ==
  /\ <<n, i>> \in offered
  /\ paid' = paid \cup {<<n, i>>}
  /\ UNCHANGED <<offered, served>>

Serve(n, i) ==
  /\ <<n, i>> \in paid
  /\ served' = served \cup {<<n, i>>}
  /\ UNCHANGED <<offered, paid>>

Next == \E n \in Nodes, i \in Invoices : Offer(n, i) \/ Pay(n, i) \/ Serve(n, i)

Spec == Init /\ [][Next]_vars
===============================================================================
