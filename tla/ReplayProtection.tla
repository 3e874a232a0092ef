--------------------------- MODULE ReplayProtection ---------------------------
(***************************************************************************)
(* What replay protection promises to the handlers of the router and of    *)
(* the node, whatever store keeps the nonces: an envelope is let through   *)
(* at most once, and only while its timestamp is within the window of the  *)
(* receiver's clock.  It says nothing of how this is remembered.           *)
(***************************************************************************)
EXTENDS Integers

CONSTANTS
  Envelopes,  \* signed envelopes, as records with a field "ts"
  Window      \* the largest distance between an envelope's ts and the clock

VARIABLES
  now,        \* the receiver's clock
  accepts     \* accepts[e]: how often envelope e was let through

vars == <<now, accepts>>

InWindow(e) == now - e.ts <= Window /\ e.ts - now <= Window

Init ==
  /\ now = 0
  /\ accepts = [e \in Envelopes |-> 0]

Accept(e) ==
  /\ InWindow(e)
  /\ accepts[e] = 0
  /\ accepts' = [accepts EXCEPT ![e] = 1]
  /\ UNCHANGED now

Tick ==
  /\ now' = now + 1
  /\ UNCHANGED accepts

Next == Tick \/ \E e \in Envelopes : Accept(e)

Spec == Init /\ [][Next]_vars
===============================================================================
