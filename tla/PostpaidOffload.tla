--------------------------- MODULE PostpaidOffload ----------------------------
(***************************************************************************)
(* What "pay on valid receipt" promises of the jobs that one router hands  *)
(* over to others, whatever becomes of messages and processes: it owes a   *)
(* router only for work that this router has done, the work only for an    *)
(* award, at no more than the price that was awarded, and it is paid only  *)
(* what it was owed.                                                       *)
(***************************************************************************)
EXTENDS Naturals

CONSTANTS
  Jobs,
  Routers,    \* those that may do a job
  Prices,     \* in msat
  Due(_)      \* the amount in sats that is asked for a price

VARIABLES
  awarded,  \* the terms on which jobs were awarded
  worked,   \* the work done, at the price of its receipt
  owed,     \* the amounts that the router was asked for and has accepted
  settled   \* those that were paid

vars == <<awarded, worked, owed, settled>>

Terms == [job : Jobs, worker : Routers, price : Prices]

AmountOf(t) == [job |-> t.job, worker |-> t.worker, sats |-> Due(t.price)]

Init == awarded = {} /\ worked = {} /\ owed = {} /\ settled = {}

Award(t) ==
  /\ awarded' = awarded \cup {t}
  /\ UNCHANGED <<worked, owed, settled>>

Work(t) ==
  /\ \E a \in awarded : a.job = t.job /\ a.worker = t.worker /\ t.price <= a.price
  /\ worked' = worked \cup {t}
  /\ UNCHANGED <<awarded, owed, settled>>

Owe(t) ==
  /\ t \in worked
  /\ owed' = owed \cup {AmountOf(t)}
  /\ UNCHANGED <<awarded, worked, settled>>

Settle(t) ==
  /\ AmountOf(t) \in owed
  /\ settled' = settled \cup {AmountOf(t)}
  /\ UNCHANGED <<awarded, worked, owed>>

Next == \E t \in Terms : Award(t) \/ Work(t) \/ Owe(t) \/ Settle(t)

Spec == Init /\ [][Next]_vars
===============================================================================
