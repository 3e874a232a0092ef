--------------------------- MODULE FederationProofs ---------------------------
(***************************************************************************)
(* Proofs about the federation: offloads to peers, for all peers, jobs,    *)
(* prices, numbers of calls and durations; and the transports, for any     *)
(* receivers, kinds and relays, all limits, delays and numbers of runs and *)
(* faults.                                                                 *)
(***************************************************************************)
EXTENDS FederationOffload, FederationTransport,
        FiniteSetTheorems, SequenceTheorems, WellFoundedInduction, TLAPS

-------------------------------------------------------------------------------
(* Offloads to peers                                                          *)

(* A call has a deal, within the spending cap, from the end of its auction
   on; a peer serves it only when its job was submitted. *)
CallsInv ==
  \A o \in Offloads :
    /\ phase[o] \in {"idle", "auction"} => deal[o] = None
    /\ phase[o] \in {"awarding", "awarded"} => deal[o] # None
    /\ o \in Submitted => deal[o] # None
    /\ deal[o] # None => deal[o].price <= MaxSpend
    /\ served[o] # "no" => o \in Submitted
    /\ sentAt[o] <= now

(* A call is answered by one receipt at most, at no more than its price. *)
ReceiptsInv ==
  /\ \A r \in receipts : /\ r.offload \in Submitted
                         /\ served[r.offload] = "ended"
                         /\ r.price <= deal[r.offload].price
  /\ \A r1, r2 \in receipts : r1.offload = r2.offload => r1 = r2

(* A record is of a call that submitted its job, not older than the submission,
   and its result is one of this job, by whichever call. *)
RecordsInv ==
  \A j \in Known :
    /\ outbound[j].by \in Submitted
    /\ JobOf[outbound[j].by] = j
    /\ sentAt[outbound[j].by] <= outbound[j].updatedAt
    /\ outbound[j].receipt # None =>
         /\ outbound[j].receipt \in receipts
         /\ JobOfReceipt(outbound[j].receipt) = j

(* Records are there for as long as WorkIsPayable needs them. *)
RecordsKept ==
  \A o \in Submitted :
    \/ JobOf[o] \in Known
    \/ phase[o] = "forgotten"
    \/ sentAt[o] + JobRetention < now
    \/ Repeated(o)

(* What is stored as requested was issued for this job; a receipt has one
   request at a time. *)
RequestsInv ==
  /\ \A q \in issued : q.receipt \in receipts
  /\ \A q1, q2 \in issued : q1.receipt = q2.receipt => q1 = q2
  /\ \A j \in Jobs : requests[j] # None =>
       requests[j] \in issued /\ JobOfReceipt(requests[j].receipt) = j
  /\ \A r \in settled : \E q \in issued : q.receipt = r

RequestsKept ==
  \A q \in issued :
    \/ requests[JobOfReceipt(q.receipt)] # None
    \/ phase[q.receipt.offload] = "forgotten"
    \/ q.at + RequestLifetime < now
    \/ Repeated(q.receipt.offload)

OffloadInv ==
  /\ TypeOK
  /\ CallsInv
  /\ ReceiptsInv
  /\ RecordsInv
  /\ RecordsKept
  /\ RequestsInv
  /\ RequestsKept

-------------------------------------------------------------------------------
(* Types *)

LEMMA TimesAreNumbers ==
  /\ \A t \in Times : t \in Nat
  /\ \A t \in Times : t + AuctionExpiry \in 0 .. MaxTime + AuctionExpiry
  /\ \A t \in Times : t < MaxTime => t + 1 \in Times
  /\ \A p \in Prices : p \in Nat
  BY ParametersAssumption DEF Times

LEMMA NoneIsNothing ==
  /\ None \notin Offloads
  /\ None \notin Deal
  /\ None \notin Receipt
  /\ None \notin Job
  /\ None \notin Request
  BY NoneAssumption

LEMMA OffloadInvInit == Init => OffloadInv
<1> SUFFICES ASSUME Init PROVE OffloadInv
  OBVIOUS
<1>1. TypeOK
  BY ParametersAssumption DEF Init, TypeOK, Times, Phases
<1>2. Submitted = {} /\ Known = {}
  BY DEF Init, Submitted, Known
<1>3. CallsInv
  BY <1>2, ParametersAssumption DEF Init, CallsInv
<1>4. ReceiptsInv /\ RecordsInv /\ RecordsKept /\ RequestsInv /\ RequestsKept
  BY <1>2 DEF Init, ReceiptsInv, RecordsInv, RecordsKept, RequestsInv, RequestsKept
<1> QED
  BY <1>1, <1>3, <1>4 DEF OffloadInv

LEMMA TypeOKStep == TypeOK /\ CallsInv /\ [Next]_vars => TypeOK'
<1> SUFFICES ASSUME TypeOK, CallsInv, [Next]_vars PROVE TypeOK'
  OBVIOUS
<1> USE DEF TypeOK
<1>1. now \in Times /\ now \in Nat /\ JobOf \in [Offloads -> Jobs]
  BY TimesAreNumbers, ParametersAssumption
<1>2. ASSUME NEW o \in Offloads, StartAuction(o) PROVE TypeOK'
  BY <1>1, <1>2, TimesAreNumbers DEF StartAuction, worker, settlement, Phases
<1>3. ASSUME NEW o \in Offloads, RefuseOffload(o) \/ AuctionLost(o) \/ SubmitFails(o)
      PROVE  TypeOK'
  BY <1>3 DEF RefuseOffload, AuctionLost, SubmitFails, worker, settlement, Phases
<1>4. ASSUME NEW o \in Offloads, AuctionWon(o) PROVE TypeOK'
  <2>1. PICK w \in Peers, p \in Prices : deal' = [deal EXCEPT ![o] = [worker |-> w, price |-> p]]
    BY <1>4 DEF AuctionWon
  <2>2. deal' \in [Offloads -> Deal \cup {None}]
    BY <2>1 DEF Deal
  <2> QED
    BY <1>4, <2>2 DEF AuctionWon, worker, settlement, Phases
<1>5. ASSUME NEW o \in Offloads, SubmitJob(o) PROVE TypeOK'
  <2>1. [by |-> o, receipt |-> None, updatedAt |-> now] \in Job
    BY <1>1 DEF Job
  <2>2. outbound' \in [Jobs -> Job \cup {None}]
    BY <1>1, <1>5, <2>1 DEF SubmitJob
  <2> QED
    BY <1>1, <1>5, <2>2 DEF SubmitJob, worker, settlement, Phases
<1>6. ASSUME NEW j \in Known, NEW r \in receipts, StoreResult(j, r)
      PROVE  outbound' \in [Jobs -> Job \cup {None}]
  <2>1. outbound[j] \in Job
    BY DEF Known
  <2>2. [outbound[j] EXCEPT !.receipt = r, !.updatedAt = now] \in Job
    BY <1>1, <2>1 DEF Job
  <2> QED
    BY <1>6, <2>2 DEF StoreResult, Known
<1>7. ASSUME NEW j \in Known
      PROVE  [outbound EXCEPT ![j].updatedAt = now] \in [Jobs -> Job \cup {None}]
  <2>1. outbound[j] \in Job
    BY DEF Known
  <2>2. [outbound[j] EXCEPT !.updatedAt = now] \in Job
    BY <1>1, <2>1 DEF Job
  <2> QED
    BY <2>2 DEF Known
<1>8. ASSUME NEW o \in Offloads, ReceiveResult(o) PROVE TypeOK'
  <2>1. outbound' \in [Jobs -> Job \cup {None}]
    BY <1>6, <1>8 DEF ReceiveResult
  <2> QED
    BY <1>8, <2>1 DEF ReceiveResult, worker, settlement, Phases
<1>9. ASSUME NEW o \in Offloads, DeliverAward(o) PROVE TypeOK'
  <2>1. deal[o].worker \in Peers
    BY <1>9, NoneIsNothing DEF DeliverAward, CallsInv, Deal
  <2> QED
    BY <1>1, <1>9, <2>1 DEF DeliverAward, settlement, Phases
<1>10. ASSUME NEW o \in Offloads, AcceptJob(o) \/ RejectJob(o) \/ FailJob(o)
       PROVE  TypeOK'
  BY <1>10 DEF AcceptJob, RejectJob, FailJob, requester, settlement
<1>11. ASSUME NEW o \in Offloads, FinishJob(o) PROVE TypeOK'
  <2>1. PICK e \in Prices, out \in Outputs :
          receipts' = receipts \cup {[offload |-> o, price |-> Charge(o, e), output |-> out]}
    BY <1>11 DEF FinishJob
  <2>2. deal[o] \in Deal
    BY <1>11 DEF FinishJob, CallsInv
  <2>3. Charge(o, e) \in Prices
    BY <2>2 DEF Charge, Deal
  <2>4. receipts' \subseteq Receipt
    BY <2>1, <2>3 DEF Receipt
  <2> QED
    BY <1>11, <2>4 DEF FinishJob, requester, settlement
<1>12. ASSUME NEW r \in receipts, PostResult(r) PROVE TypeOK'
  <2>1. outbound' \in [Jobs -> Job \cup {None}]
    BY <1>6, <1>12 DEF PostResult, FromWinner
  <2> QED
    BY <1>12, <2>1 DEF PostResult, worker, settlement
<1>13. ASSUME NEW r \in receipts, RequestPayment(r) PROVE TypeOK'
  <2>1. outbound' \in [Jobs -> Job \cup {None}]
    BY <1>7, <1>13 DEF RequestPayment, Payable, FromWinner
  <2>2. [receipt |-> r, at |-> now] \in Request
    BY <1>1 DEF Request
  <2> QED
    BY <1>13, <2>1, <2>2 DEF RequestPayment, worker
<1>14. ASSUME NEW q \in issued, PostPayment(q) PROVE TypeOK'
  <2>1. outbound' \in [Jobs -> Job \cup {None}]
    BY <1>7, <1>14 DEF PostPayment
  <2>2. q.receipt \in Receipt
    BY DEF Request
  <2> QED
    BY <1>14, <2>1, <2>2 DEF PostPayment, worker
<1>15. CASE Prune
  BY <1>15 DEF Prune, worker
<1>16. CASE RequesterRestarts
  <2>1. \A p \in Phases : PhaseAfterRestart(p) \in Phases
    BY DEF Phases, PhaseAfterRestart
  <2> QED
    BY <1>16, <2>1 DEF RequesterRestarts, worker
<1>17. ASSUME NEW w \in Peers, PeerRestarts(w) PROVE TypeOK'
  BY <1>17 DEF PeerRestarts, requester, settlement
<1>18. CASE Tick
  BY <1>18, TimesAreNumbers DEF Tick, requester, worker, settlement
<1>19. CASE UNCHANGED vars
  BY <1>19 DEF vars, requester, worker, settlement
<1> QED
  BY <1>2, <1>3, <1>4, <1>5, <1>8, <1>9, <1>10, <1>11, <1>12, <1>13, <1>14, <1>15, <1>16,
     <1>17, <1>18, <1>19 DEF Next
-------------------------------------------------------------------------------
(* What no step undoes. *)

LEMMA NothingIsUndone ==
  ASSUME OffloadInv, [Next]_vars
  PROVE  /\ now \in Nat /\ now' \in Nat /\ now <= now'
         /\ Submitted \subseteq Submitted'
         /\ \A o \in Offloads : deal[o] # None => deal'[o] = deal[o]
         /\ \A o \in Submitted : sentAt'[o] = sentAt[o]
         /\ \A o \in Offloads : phase[o] = "forgotten" => phase'[o] = "forgotten"
         /\ receipts \subseteq receipts'
<1> USE DEF OffloadInv, TypeOK
<1>1. now \in Nat /\ now' \in Nat /\ now <= now'
  <2>1. now \in Nat
    BY TimesAreNumbers
  <2>2. now' = now \/ now' = now + 1
    BY DEF Next, StartAuction, RefuseOffload, AuctionWon, AuctionLost, DeliverAward, SubmitJob,
           ReceiveResult, SubmitFails, AcceptJob, RejectJob, FinishJob, FailJob, PostResult,
           RequestPayment, PostPayment, PeerRestarts, Prune, RequesterRestarts, Tick, vars
  <2> QED
    BY <2>1, <2>2
<1>2. Submitted \subseteq Submitted'
      /\ \A o \in Offloads : phase[o] = "forgotten" => phase'[o] = "forgotten"
  <2>1. CASE RequesterRestarts
    BY <2>1 DEF RequesterRestarts, PhaseAfterRestart, Submitted
  <2>2. CASE phase' = phase
    BY <2>2 DEF Submitted
  <2>3. ASSUME NEW o \in Offloads,
               \/ StartAuction(o) \/ RefuseOffload(o) \/ AuctionWon(o) \/ AuctionLost(o)
               \/ DeliverAward(o) \/ SubmitJob(o) \/ ReceiveResult(o) \/ SubmitFails(o)
        PROVE  /\ Submitted \subseteq Submitted'
               /\ \A x \in Offloads : phase[x] = "forgotten" => phase'[x] = "forgotten"
    BY <2>3 DEF StartAuction, RefuseOffload, AuctionWon, AuctionLost, DeliverAward, SubmitJob,
                ReceiveResult, SubmitFails, Submitted
  <2> QED
    BY <2>1, <2>2, <2>3
    DEF Next, AcceptJob, RejectJob, FinishJob, FailJob, PostResult,
        RequestPayment, PostPayment, PeerRestarts, Prune, Tick, vars, requester
<1>3. \A o \in Offloads : deal[o] # None => deal'[o] = deal[o]
  <2>1. ASSUME NEW o \in Offloads, AuctionWon(o)
        PROVE  \A x \in Offloads : deal[x] # None => deal'[x] = deal[x]
    BY <2>1 DEF AuctionWon, CallsInv
  <2>2. deal' = deal \/ \E o \in Offloads : AuctionWon(o)
    BY DEF Next, StartAuction, RefuseOffload, AuctionLost, DeliverAward, SubmitJob,
           ReceiveResult, SubmitFails, AcceptJob, RejectJob, FinishJob, FailJob, PostResult,
           RequestPayment, PostPayment, PeerRestarts, Prune, RequesterRestarts, Tick, vars, requester
  <2> QED
    BY <2>1, <2>2
<1>4. \A o \in Submitted : sentAt'[o] = sentAt[o]
  <2>1. ASSUME NEW o \in Offloads, SubmitJob(o)
        PROVE  \A x \in Submitted : sentAt'[x] = sentAt[x]
    BY <2>1 DEF SubmitJob, Submitted
  <2>2. sentAt' = sentAt \/ \E o \in Offloads : SubmitJob(o)
    BY DEF Next, StartAuction, RefuseOffload, AuctionWon, AuctionLost, DeliverAward,
           ReceiveResult, SubmitFails, AcceptJob, RejectJob, FinishJob, FailJob, PostResult,
           RequestPayment, PostPayment, PeerRestarts, Prune, RequesterRestarts, Tick, vars, requester
  <2> QED
    BY <2>1, <2>2
<1>5. receipts \subseteq receipts'
  BY DEF Next, StartAuction, RefuseOffload, AuctionWon, AuctionLost, DeliverAward, SubmitJob,
         ReceiveResult, SubmitFails, AcceptJob, RejectJob, FinishJob, FailJob, PostResult,
         RequestPayment, PostPayment, PeerRestarts, Prune, RequesterRestarts, Tick, vars, worker
<1> QED
  BY <1>1, <1>2, <1>3, <1>4, <1>5

LEMMA RepeatedStays ==
  ASSUME OffloadInv, [Next]_vars, NEW o \in Offloads, Repeated(o)
  PROVE  Repeated(o)'
  BY NothingIsUndone DEF Repeated

-------------------------------------------------------------------------------
(* Calls and receipts *)

LEMMA CallsInvStep == OffloadInv /\ [Next]_vars => CallsInv'
<1> SUFFICES ASSUME OffloadInv, [Next]_vars PROVE CallsInv'
  OBVIOUS
<1> USE NothingIsUndone
<1>1. TypeOK /\ CallsInv /\ sentAt \in [Offloads -> Times] /\ TypeOK'
  BY TypeOKStep DEF OffloadInv, TypeOK
<1>2. ASSUME NEW o \in Offloads,
             \/ StartAuction(o) \/ RefuseOffload(o) \/ AuctionLost(o)
             \/ DeliverAward(o) \/ ReceiveResult(o) \/ SubmitFails(o)
      PROVE  CallsInv'
  BY <1>1, <1>2
  DEF CallsInv, Submitted, TypeOK, StartAuction, RefuseOffload, AuctionLost, DeliverAward,
      ReceiveResult, SubmitFails, worker
<1>3. ASSUME NEW o \in Offloads, AuctionWon(o) PROVE CallsInv'
  <2>1. PICK w \in Peers, p \in Prices :
          p <= MaxSpend /\ deal' = [deal EXCEPT ![o] = [worker |-> w, price |-> p]]
    BY <1>3 DEF AuctionWon
  <2>2. [worker |-> w, price |-> p] # None
    BY NoneIsNothing DEF Deal
  <2> QED
    BY <1>1, <1>3, <2>1, <2>2 DEF CallsInv, Submitted, TypeOK, AuctionWon, worker
<1>4. ASSUME NEW o \in Offloads, SubmitJob(o) PROVE CallsInv'
  BY <1>1, <1>4 DEF CallsInv, Submitted, TypeOK, SubmitJob, worker
<1>5. ASSUME NEW o \in Offloads, AcceptJob(o) \/ RejectJob(o) \/ FinishJob(o) \/ FailJob(o)
      PROVE  CallsInv'
  BY <1>1, <1>5
  DEF CallsInv, Submitted, TypeOK, AcceptJob, RejectJob, FinishJob, FailJob, requester
<1>6. ASSUME NEW r \in receipts, PostResult(r) \/ RequestPayment(r) PROVE CallsInv'
  BY <1>1, <1>6 DEF CallsInv, Submitted, PostResult, RequestPayment, worker
<1>7. ASSUME NEW q \in issued, PostPayment(q) PROVE CallsInv'
  BY <1>1, <1>7 DEF CallsInv, Submitted, PostPayment, worker
<1>8. CASE Prune
  BY <1>1, <1>8 DEF CallsInv, Submitted, Prune, worker
<1>9. CASE RequesterRestarts
  <2>1. \A o \in Offloads :
          /\ phase'[o] \in {"idle", "auction"} => phase[o] = "idle"
          /\ phase'[o] \notin {"awarding", "awarded"}
          /\ phase'[o] \in {"submitted", "done", "broken", "forgotten"} => o \in Submitted
    BY <1>1, <1>9 DEF RequesterRestarts, PhaseAfterRestart, Submitted, TypeOK, Phases
  <2> QED
    BY <1>1, <1>9, <2>1 DEF CallsInv, Submitted, RequesterRestarts, worker
<1>10. ASSUME NEW w \in Peers, PeerRestarts(w) PROVE CallsInv'
  BY <1>1, <1>10 DEF CallsInv, Submitted, PeerRestarts, requester
<1>11. CASE Tick
  BY <1>1, <1>11, TimesAreNumbers DEF CallsInv, Submitted, Tick, requester, worker
<1>12. CASE UNCHANGED vars
  BY <1>1, <1>12 DEF CallsInv, Submitted, vars, requester, worker
<1> QED
  BY <1>2, <1>3, <1>4, <1>5, <1>6, <1>7, <1>8, <1>9, <1>10, <1>11, <1>12 DEF Next

LEMMA ReceiptsInvStep == OffloadInv /\ [Next]_vars => ReceiptsInv'
<1> SUFFICES ASSUME OffloadInv, [Next]_vars PROVE ReceiptsInv'
  OBVIOUS
<1>1. /\ TypeOK /\ CallsInv /\ ReceiptsInv
      /\ \A r \in receipts : r.offload \in Offloads /\ deal[r.offload] # None
  BY DEF OffloadInv, TypeOK, Receipt, ReceiptsInv, CallsInv
<1>2. CASE receipts' = receipts /\ \A o \in Offloads : served[o] = "ended" => served'[o] = "ended"
  BY <1>1, <1>2, NothingIsUndone DEF ReceiptsInv
<1>3. ASSUME NEW o \in Offloads, FinishJob(o) PROVE ReceiptsInv'
  <2>1. PICK e \in Prices, out \in Outputs :
          receipts' = receipts \cup {[offload |-> o, price |-> Charge(o, e), output |-> out]}
    BY <1>3 DEF FinishJob
  <2>2. deal[o] \in Deal /\ o \in Submitted /\ served[o] = "running"
    BY <1>1, <1>3 DEF FinishJob, CallsInv, TypeOK
  <2>3. Charge(o, e) <= deal[o].price
    BY <2>2, TimesAreNumbers DEF Charge, Deal
  <2>4. \A r \in receipts : r.offload # o
    BY <1>1, <2>2 DEF ReceiptsInv
  <2>5. /\ deal' = deal /\ Submitted' = Submitted
        /\ served' = [served EXCEPT ![o] = "ended"]
    BY <1>3 DEF FinishJob, requester, Submitted
  <2> QED
    BY <1>1, <2>1, <2>2, <2>3, <2>4, <2>5 DEF ReceiptsInv, TypeOK
<1>4. \/ receipts' = receipts /\ \A o \in Offloads : served[o] = "ended" => served'[o] = "ended"
      \/ \E o \in Offloads : FinishJob(o)
  BY <1>1 DEF TypeOK, Next, StartAuction, RefuseOffload, AuctionWon, AuctionLost, DeliverAward,
         SubmitJob, ReceiveResult, SubmitFails, AcceptJob, RejectJob, FailJob, PostResult,
         RequestPayment, PostPayment, PeerRestarts, Prune, RequesterRestarts, Tick, vars, worker
<1> QED
  BY <1>2, <1>3, <1>4
-------------------------------------------------------------------------------
(* Records *)

(* What a step does to a record: nothing, deletes it, refreshes it (with a
   result of its job, perhaps) or replaces it by that of a new call. *)
Refreshed(j) ==
  /\ j \in Known
  /\ outbound'[j] # None
  /\ outbound'[j].by = outbound[j].by
  /\ outbound'[j].updatedAt = now
  /\ \/ outbound'[j].receipt = outbound[j].receipt
     \/ outbound'[j].receipt \in receipts /\ JobOfReceipt(outbound'[j].receipt) = j

Replaced(j) ==
  \E o \in Offloads :
    /\ JobOf[o] = j
    /\ phase'[o] = "submitted"
    /\ sentAt'[o] = now
    /\ outbound'[j] = [by |-> o, receipt |-> None, updatedAt |-> now]

RecordStep(j) ==
  \/ outbound'[j] = outbound[j]
  \/ outbound'[j] = None
  \/ Refreshed(j)
  \/ Replaced(j)

LEMMA StoreRefreshes ==
  ASSUME OffloadInv, NEW j \in Known, NEW r \in receipts, JobOfReceipt(r) = j,
         StoreResult(j, r)
  PROVE  \A i \in Jobs : RecordStep(i)
<1>1. outbound \in [Jobs -> Job \cup {None}] /\ outbound[j] \in Job /\ j \in Jobs
  BY DEF OffloadInv, TypeOK, Known
<1>2. DEFINE job == [outbound[j] EXCEPT !.receipt = r, !.updatedAt = now]
<1>3. job.by = outbound[j].by /\ job.receipt = r /\ job.updatedAt = now
  BY <1>1 DEF Job
<1>4. job \in Job
  BY <1>1, TimesAreNumbers DEF Job, OffloadInv, TypeOK
<1>5. outbound' = [outbound EXCEPT ![j] = job]
  BY DEF StoreResult
<1> HIDE DEF job
<1>6. Refreshed(j)
  BY <1>1, <1>3, <1>4, <1>5, NoneIsNothing DEF Refreshed
<1> QED
  BY <1>1, <1>5, <1>6 DEF RecordStep

LEMMA TouchRefreshes ==
  ASSUME OffloadInv, NEW j \in Known, outbound' = [outbound EXCEPT ![j].updatedAt = now]
  PROVE  \A i \in Jobs : RecordStep(i)
<1>1. outbound \in [Jobs -> Job \cup {None}] /\ outbound[j] \in Job /\ j \in Jobs
  BY DEF OffloadInv, TypeOK, Known
<1>2. DEFINE job == [outbound[j] EXCEPT !.updatedAt = now]
<1>3. job.by = outbound[j].by /\ job.receipt = outbound[j].receipt /\ job.updatedAt = now
  BY <1>1 DEF Job
<1>4. job \in Job
  BY <1>1 DEF Job, OffloadInv, TypeOK
<1>5. outbound' = [outbound EXCEPT ![j] = job]
  OBVIOUS
<1> HIDE DEF job
<1>6. Refreshed(j)
  BY <1>1, <1>3, <1>4, <1>5, NoneIsNothing DEF Refreshed
<1> QED
  BY <1>1, <1>5, <1>6 DEF RecordStep

LEMMA StepsOfRecords ==
  ASSUME OffloadInv, [Next]_vars
  PROVE  \A j \in Jobs : RecordStep(j)
<1>1. CASE UNCHANGED outbound
  BY <1>1 DEF RecordStep
<1>2. ASSUME NEW o \in Offloads, SubmitJob(o) PROVE \A j \in Jobs : RecordStep(j)
  <2>1. /\ outbound' = [outbound EXCEPT ![JobOf[o]] =
                          [by |-> o, receipt |-> None, updatedAt |-> now]]
        /\ sentAt'[o] = now /\ phase'[o] = "submitted"
    BY <1>2 DEF SubmitJob, OffloadInv, TypeOK
  <2>2. outbound \in [Jobs -> Job \cup {None}]
    BY DEF OffloadInv, TypeOK
  <2>3. ASSUME NEW j \in Jobs PROVE RecordStep(j)
    <3>1. CASE JobOf[o] = j
      BY <2>1, <2>2, <3>1 DEF RecordStep, Replaced
    <3>2. CASE JobOf[o] # j
      BY <2>1, <2>2, <3>2 DEF RecordStep
    <3> QED
      BY <3>1, <3>2
  <2> QED
    BY <2>3
<1>3. ASSUME NEW o \in Offloads, ReceiveResult(o) PROVE \A j \in Jobs : RecordStep(j)
  <2>1. PICK r \in receipts :
          /\ r.offload = o
          /\ IF JobOf[o] \in Known THEN StoreResult(JobOf[o], r) ELSE UNCHANGED outbound
    BY <1>3 DEF ReceiveResult
  <2>2. JobOfReceipt(r) = JobOf[o]
    BY <2>1 DEF JobOfReceipt
  <2> QED
    BY <1>1, <2>1, <2>2, StoreRefreshes
<1>4. ASSUME NEW r \in receipts, PostResult(r) PROVE \A j \in Jobs : RecordStep(j)
  BY <1>4, StoreRefreshes DEF PostResult, FromWinner
<1>5. ASSUME NEW r \in receipts, RequestPayment(r) PROVE \A j \in Jobs : RecordStep(j)
  BY <1>5, TouchRefreshes DEF RequestPayment, Payable, FromWinner
<1>6. ASSUME NEW q \in issued, PostPayment(q) PROVE \A j \in Jobs : RecordStep(j)
  BY <1>1, <1>6, TouchRefreshes DEF PostPayment
<1>7. CASE Prune \/ RequesterRestarts
  BY <1>7 DEF Prune, RequesterRestarts, RecordStep
<1> QED
  BY <1>1, <1>2, <1>3, <1>4, <1>5, <1>6, <1>7
  DEF Next, StartAuction, RefuseOffload, AuctionWon, AuctionLost, DeliverAward, SubmitFails,
      AcceptJob, RejectJob, FinishJob, FailJob, PeerRestarts, Tick, vars, requester

LEMMA RecordsInvStep == OffloadInv /\ [Next]_vars => RecordsInv'
<1> SUFFICES ASSUME OffloadInv, [Next]_vars, NEW j \in Jobs, outbound'[j] # None
             PROVE  /\ outbound'[j].by \in Submitted'
                    /\ JobOf[outbound'[j].by] = j
                    /\ sentAt'[outbound'[j].by] <= outbound'[j].updatedAt
                    /\ outbound'[j].receipt # None =>
                         /\ outbound'[j].receipt \in receipts'
                         /\ JobOfReceipt(outbound'[j].receipt) = j
  BY DEF RecordsInv, Known, JobOfReceipt
<1> USE NothingIsUndone
<1>1. RecordStep(j)
  BY StepsOfRecords
<1>2. j \in Known => /\ outbound[j].by \in Submitted
                     /\ JobOf[outbound[j].by] = j
                     /\ sentAt[outbound[j].by] <= outbound[j].updatedAt
                     /\ sentAt[outbound[j].by] <= now
                     /\ outbound[j].receipt # None =>
                          /\ outbound[j].receipt \in receipts
                          /\ JobOfReceipt(outbound[j].receipt) = j
  BY DEF OffloadInv, RecordsInv, CallsInv, Submitted
<1>3. CASE outbound'[j] = outbound[j]
  BY <1>2, <1>3 DEF Known
<1>4. CASE Refreshed(j)
  BY <1>2, <1>4 DEF Refreshed
<1>5. CASE Replaced(j)
  BY <1>5 DEF Replaced, Submitted
<1> QED
  BY <1>1, <1>3, <1>4, <1>5 DEF RecordStep
LEMMA SubmissionMakesRecord ==
  ASSUME OffloadInv, [Next]_vars, NEW o \in Submitted', o \notin Submitted
  PROVE  JobOf[o] \in Known'
<1>1. o \in Offloads /\ JobOf[o] \in Jobs /\ TypeOK
  BY ParametersAssumption DEF Submitted, OffloadInv
<1>2. SubmitJob(o)
  <2>1. CASE RequesterRestarts
    BY <1>1, <2>1 DEF RequesterRestarts, PhaseAfterRestart, Submitted, TypeOK, Phases
  <2>2. CASE phase' = phase
    BY <2>2 DEF Submitted
  <2>3. ASSUME NEW x \in Offloads,
               \/ StartAuction(x) \/ RefuseOffload(x) \/ AuctionWon(x) \/ AuctionLost(x)
               \/ DeliverAward(x) \/ ReceiveResult(x) \/ SubmitFails(x)
        PROVE  FALSE
    BY <1>1, <2>3 DEF StartAuction, RefuseOffload, AuctionWon, AuctionLost, DeliverAward,
                ReceiveResult, SubmitFails, Submitted, TypeOK
  <2>4. ASSUME NEW x \in Offloads, SubmitJob(x), x # o PROVE FALSE
    BY <1>1, <2>4 DEF SubmitJob, Submitted, TypeOK
  <2> QED
    BY <2>1, <2>2, <2>3, <2>4
    DEF Next, AcceptJob, RejectJob, FinishJob, FailJob, PostResult,
        RequestPayment, PostPayment, PeerRestarts, Prune, Tick, vars, requester
<1>3. outbound'[JobOf[o]] = [by |-> o, receipt |-> None, updatedAt |-> now]
  BY <1>1, <1>2 DEF SubmitJob, TypeOK
<1>4. outbound'[JobOf[o]] \in Job
  BY <1>1, <1>3 DEF Job, TypeOK
<1> QED
  BY <1>1, <1>4, NoneIsNothing DEF Known

\* A record is lost to a restart, or when nothing happened to it for the retention.
LEMMA LossOfRecords ==
  ASSUME OffloadInv, [Next]_vars, NEW j \in Known, j \notin Known'
  PROVE  RequesterRestarts \/ (Prune /\ Stale(outbound[j]))
<1>1. j \in Jobs /\ RecordStep(j) /\ outbound[j] # None /\ outbound'[j] = None
  BY StepsOfRecords DEF Known
<1>2. CASE Prune
  BY <1>1, <1>2 DEF Prune
<1>3. \A o \in Offloads : [by |-> o, receipt |-> None, updatedAt |-> now] # None
  BY NoneIsNothing DEF Job, OffloadInv, TypeOK
<1>4. ~ UNCHANGED outbound
  BY <1>1
<1>5. ASSUME NEW i \in Known, NEW r \in receipts, StoreResult(i, r) PROVE FALSE
  <2>1. outbound[i] \in Job /\ outbound \in [Jobs -> Job \cup {None}] /\ r \in Receipt /\ now \in Times
    BY DEF OffloadInv, TypeOK, Known
  <2>2. [outbound[i] EXCEPT !.receipt = r, !.updatedAt = now] \in Job
    BY <2>1 DEF Job
  <2> QED
    BY <1>1, <1>5, <2>1, <2>2, NoneIsNothing DEF StoreResult
<1>6. ASSUME NEW i \in Known, outbound' = [outbound EXCEPT ![i].updatedAt = now] PROVE FALSE
  <2>1. outbound[i] \in Job /\ outbound \in [Jobs -> Job \cup {None}] /\ now \in Times
    BY DEF OffloadInv, TypeOK, Known
  <2>2. [outbound[i] EXCEPT !.updatedAt = now] \in Job
    BY <2>1 DEF Job
  <2> QED
    BY <1>1, <1>6, <2>1, <2>2, NoneIsNothing
<1>7. ASSUME NEW o \in Offloads, SubmitJob(o) PROVE FALSE
  BY <1>1, <1>3, <1>7 DEF SubmitJob, OffloadInv, TypeOK
<1>8. ASSUME NEW o \in Offloads, ReceiveResult(o) PROVE FALSE
  BY <1>4, <1>5, <1>8 DEF ReceiveResult
<1>9. ASSUME NEW r \in receipts, PostResult(r) \/ RequestPayment(r) PROVE FALSE
  BY <1>5, <1>6, <1>9 DEF PostResult, RequestPayment, Payable, FromWinner
<1>10. ASSUME NEW q \in issued, PostPayment(q) PROVE FALSE
  BY <1>4, <1>6, <1>10 DEF PostPayment
<1> QED
  BY <1>2, <1>4, <1>7, <1>8, <1>9, <1>10
  DEF Next, StartAuction, RefuseOffload, AuctionWon, AuctionLost, DeliverAward, SubmitFails,
      AcceptJob, RejectJob, FinishJob, FailJob, PeerRestarts, Tick, vars, requester

LEMMA RecordsKeptStep == OffloadInv /\ [Next]_vars => RecordsKept'
<1> SUFFICES ASSUME OffloadInv, [Next]_vars, NEW o \in Submitted'
             PROVE  \/ JobOf[o] \in Known'
                    \/ phase'[o] = "forgotten"
                    \/ sentAt'[o] + JobRetention < now'
                    \/ Repeated(o)'
  BY DEF RecordsKept
<1>1. CASE o \notin Submitted
  BY <1>1, SubmissionMakesRecord
<1>2. CASE o \in Submitted
  <2>1. /\ o \in Offloads
        /\ sentAt[o] \in Nat
        /\ JobRetention \in Nat
        /\ \/ JobOf[o] \in Known
           \/ phase[o] = "forgotten"
           \/ sentAt[o] + JobRetention < now
           \/ Repeated(o)
    BY <1>2, ParametersAssumption, TimesAreNumbers DEF OffloadInv, RecordsKept, Submitted, TypeOK
  <2>2. CASE sentAt[o] + JobRetention < now
    BY <1>2, <2>1, <2>2, NothingIsUndone
  <2>3. CASE JobOf[o] \in Known /\ JobOf[o] \notin Known'
    <3>1. CASE RequesterRestarts
      BY <1>2, <3>1 DEF RequesterRestarts, PhaseAfterRestart, Submitted
    <3>2. CASE Prune /\ Stale(outbound[JobOf[o]])
      <4> DEFINE by == outbound[JobOf[o]].by
      <4>1. /\ by \in Submitted /\ JobOf[by] = JobOf[o]
            /\ sentAt[by] <= outbound[JobOf[o]].updatedAt
        BY <2>3 DEF OffloadInv, RecordsInv
      <4>2. CASE by # o
        <5>1. Repeated(o)
          BY <4>1, <4>2 DEF Repeated
        <5> QED
          BY <2>1, <5>1, RepeatedStays
      <4>3. CASE by = o
        <5>1. outbound[JobOf[o]].updatedAt \in Nat
          BY <2>3, TimesAreNumbers DEF OffloadInv, TypeOK, Known, Job
        <5>2. sentAt[o] + JobRetention < now
          BY <2>1, <3>2, <4>1, <4>3, <5>1, NothingIsUndone DEF Stale
        <5> QED
          BY <1>2, <2>1, <5>2, NothingIsUndone
      <4> QED
        BY <4>2, <4>3
    <3> QED
      BY <2>3, <3>1, <3>2, LossOfRecords
  <2> QED
    BY <2>1, <2>2, <2>3, NothingIsUndone, RepeatedStays
<1> QED
  BY <1>1, <1>2

-------------------------------------------------------------------------------
(* Requests *)

LEMMA RequestsInvStep == OffloadInv /\ [Next]_vars => RequestsInv'
<1> SUFFICES ASSUME OffloadInv, [Next]_vars PROVE RequestsInv'
  OBVIOUS
<1>1. /\ RequestsInv
      /\ receipts \subseteq receipts'
      /\ requests \in [Jobs -> Request \cup {None}]
  BY NothingIsUndone DEF OffloadInv, TypeOK
<1>2. CASE UNCHANGED settlement
  BY <1>1, <1>2 DEF RequestsInv, settlement, JobOfReceipt
<1>3. CASE Prune \/ RequesterRestarts
  <2>1. /\ UNCHANGED <<issued, settled>>
        /\ \A j \in Jobs : requests'[j] # None => requests'[j] = requests[j]
    BY <1>3 DEF Prune, RequesterRestarts
  <2> QED
    BY <1>1, <2>1 DEF RequestsInv, JobOfReceipt
<1>4. ASSUME NEW r \in receipts, RequestPayment(r) PROVE RequestsInv'
  <2> DEFINE new == [receipt |-> r, at |-> now]
  <2>1. /\ requests' = [requests EXCEPT ![JobOfReceipt(r)] = new]
        /\ issued' = {q \in issued : q.receipt # r} \cup {new}
        /\ settled' = settled
        /\ JobOfReceipt(r) \in Jobs
        /\ new.receipt = r
    BY <1>4 DEF RequestPayment, Payable, FromWinner, Known
  <2> HIDE DEF new
  <2>2. ASSUME NEW j \in Jobs, requests'[j] # None
        PROVE  requests'[j] \in issued' /\ JobOfReceipt(requests'[j].receipt) = j
    <3>1. CASE j = JobOfReceipt(r)
      BY <1>1, <2>1, <3>1
    <3>2. CASE j # JobOfReceipt(r)
      BY <1>1, <2>1, <2>2, <3>2 DEF RequestsInv
    <3> QED
      BY <3>1, <3>2
  <2>3. \A s \in settled' : \E q \in issued' : q.receipt = s
    BY <1>1, <2>1 DEF RequestsInv
  <2>4. \A q \in issued' : q.receipt \in receipts'
    BY <1>1, <2>1 DEF RequestsInv
  <2>5. \A q1, q2 \in issued' : q1.receipt = q2.receipt => q1 = q2
    BY <1>1, <2>1 DEF RequestsInv
  <2> QED
    BY <2>2, <2>3, <2>4, <2>5 DEF RequestsInv, JobOfReceipt
<1>5. ASSUME NEW q \in issued, PostPayment(q) PROVE RequestsInv'
  BY <1>1, <1>5 DEF PostPayment, RequestsInv, JobOfReceipt
<1> QED
  BY <1>2, <1>3, <1>4, <1>5
  DEF Next, StartAuction, RefuseOffload, AuctionWon, AuctionLost, DeliverAward, SubmitJob,
      ReceiveResult, SubmitFails, AcceptJob, RejectJob, FinishJob, FailJob, PostResult,
      PeerRestarts, Tick, vars

LEMMA RequestsKeptStep == OffloadInv /\ [Next]_vars => RequestsKept'
<1> SUFFICES ASSUME OffloadInv, [Next]_vars, NEW q \in issued'
             PROVE  \/ requests'[JobOfReceipt(q.receipt)] # None
                    \/ phase'[q.receipt.offload] = "forgotten"
                    \/ q.at + RequestLifetime < now'
                    \/ Repeated(q.receipt.offload)'
  BY DEF RequestsKept, JobOfReceipt
<1> DEFINE o == q.receipt.offload
<1> DEFINE j == JobOfReceipt(q.receipt)
<1>1. ASSUME q \in issued
      PROVE  /\ o \in Offloads /\ o \in Submitted
             /\ j = JobOf[o] /\ j \in Jobs
             /\ q.at \in Nat /\ RequestLifetime \in Nat
             /\ \/ requests[j] # None
                \/ phase[o] = "forgotten"
                \/ q.at + RequestLifetime < now
                \/ Repeated(o)
  BY <1>1, ParametersAssumption, TimesAreNumbers
  DEF OffloadInv, TypeOK, Request, Receipt, RequestsKept, RequestsInv, ReceiptsInv, JobOfReceipt
<1> HIDE DEF o, j
<1>2. ASSUME NEW r \in receipts, RequestPayment(r)
      PROVE  requests'[j] # None \/ (q \in issued /\ requests'[j] = requests[j])
  <2>1. /\ requests \in [Jobs -> Request \cup {None}]
        /\ requests' = [requests EXCEPT ![JobOfReceipt(r)] = [receipt |-> r, at |-> now]]
        /\ JobOfReceipt(r) \in Jobs
        /\ [receipt |-> r, at |-> now] \in Request
        /\ q \in issued \/ q = [receipt |-> r, at |-> now]
    BY <1>2 DEF RequestPayment, Payable, FromWinner, Known, OffloadInv, TypeOK, Request
  <2>2. CASE j = JobOfReceipt(r)
    BY <2>1, <2>2, NoneIsNothing
  <2>3. CASE j # JobOfReceipt(r)
    BY <2>1, <2>3 DEF j
  <2> QED
    BY <2>2, <2>3
<1>3. \/ requests'[j] # None
      \/ q \in issued /\ requests'[j] = requests[j]
      \/ q \in issued /\ Prune
      \/ q \in issued /\ RequesterRestarts
  BY <1>2
  DEF Next, StartAuction, RefuseOffload, AuctionWon, AuctionLost, DeliverAward, SubmitJob,
      ReceiveResult, SubmitFails, AcceptJob, RejectJob, FinishJob, FailJob, PostResult,
      PostPayment, PeerRestarts, Prune, RequesterRestarts, Tick, vars, settlement
<1>4. ASSUME q \in issued,
             phase[o] = "forgotten" \/ q.at + RequestLifetime < now \/ Repeated(o)
      PROVE  phase'[o] = "forgotten" \/ q.at + RequestLifetime < now' \/ Repeated(o)'
  BY <1>1, <1>4, NothingIsUndone, RepeatedStays
<1>5. CASE q \in issued /\ RequesterRestarts
  BY <1>1, <1>5 DEF RequesterRestarts, PhaseAfterRestart, Submitted, o
<1>6. CASE q \in issued /\ Prune /\ requests[j] # None /\ requests'[j] = None
  <2>1. requests[j] \in issued /\ JobOfReceipt(requests[j].receipt) = j
    BY <1>1, <1>6 DEF OffloadInv, RequestsInv
  <2>2. requests[j].at + RequestLifetime < now
    BY <1>1, <1>6 DEF Prune, Outdated
  <2>3. CASE requests[j] = q
    BY <1>4, <1>6, <2>2, <2>3 DEF o
  <2>4. CASE requests[j] # q
    <3>1. requests[j].receipt # q.receipt
      BY <1>6, <2>1, <2>4 DEF OffloadInv, RequestsInv
    <3>2. requests[j].receipt.offload # o
      BY <1>6, <2>1, <3>1 DEF OffloadInv, RequestsInv, ReceiptsInv, o
    <3>3. requests[j].receipt.offload \in Submitted
      BY <2>1 DEF OffloadInv, RequestsInv, ReceiptsInv
    <3>4. Repeated(o)
      BY <1>1, <1>6, <2>1, <3>2, <3>3 DEF Repeated, JobOfReceipt
    <3> QED
      BY <1>4, <1>6, <3>4 DEF o
  <2> QED
    BY <2>3, <2>4
<1> QED
  BY <1>1, <1>3, <1>4, <1>5, <1>6 DEF o, j
-------------------------------------------------------------------------------
(* Theorems *)

\* The inductive invariant of the offloads.
THEOREM OffloadInvariant == Spec => []OffloadInv
<1>1. Init => OffloadInv
  BY OffloadInvInit
<1>2. OffloadInv /\ [Next]_vars => OffloadInv'
  BY TypeOKStep, CallsInvStep, ReceiptsInvStep, RecordsInvStep, RecordsKeptStep,
     RequestsInvStep, RequestsKeptStep DEF OffloadInv
<1> QED
  BY <1>1, <1>2, PTL DEF Spec

\* All state has its type.
THEOREM OffloadTypeCorrect == Spec => []TypeOK
<1>1. OffloadInv => TypeOK
  BY DEF OffloadInv
<1> QED
  BY <1>1, OffloadInvariant, PTL

\* Two receipts of one job that was offloaded once are one receipt.
LEMMA OneReceipt ==
  ASSUME OffloadInv, NEW r \in receipts, NEW s \in receipts,
         JobOfReceipt(s) = JobOfReceipt(r), ~Repeated(r.offload)
  PROVE  s = r
<1>1. s.offload \in Submitted
  BY DEF OffloadInv, ReceiptsInv
<1>2. s.offload = r.offload
  BY <1>1 DEF Repeated, JobOfReceipt
<1> QED
  BY <1>2 DEF OffloadInv, ReceiptsInv

\* Awarded work is payable: unless the job's retention is over, the router was
\* restarted or the job was offloaded again, /federation/payment-request grants it.
THEOREM AwardedWorkIsPayable == Spec => []WorkIsPayable
<1>1. OffloadInv => WorkIsPayable
  <2> SUFFICES ASSUME OffloadInv, NEW r \in receipts,
                      phase[r.offload] # "forgotten",
                      ~(sentAt[r.offload] + JobRetention < now),
                      ~Repeated(r.offload)
               PROVE  Payable(r)
    BY DEF WorkIsPayable
  <2> DEFINE o == r.offload
  <2> DEFINE job == outbound[JobOf[o]]
  <2>1. o \in Submitted /\ r \in Receipt /\ r.price <= deal[o].price
    BY DEF OffloadInv, TypeOK, ReceiptsInv
  <2>2. JobOf[o] \in Known
    BY <2>1 DEF OffloadInv, RecordsKept
  <2>3. job.by = o
    BY <2>1, <2>2 DEF OffloadInv, RecordsInv, Repeated
  <2>4. deal[o] \in Deal /\ deal[o].price <= MaxSpend
    BY <2>1 DEF OffloadInv, CallsInv, TypeOK, Submitted
  <2>5. r.price <= MaxSpend
    <3>1. r.price \in Nat /\ deal[o].price \in Nat /\ MaxSpend \in Nat
      BY <2>1, <2>4, TimesAreNumbers, ParametersAssumption DEF Receipt, Deal
    <3> QED
      BY <2>1, <2>4, <3>1
  <2>6. FromWinner(r)
    BY <2>2, <2>3, <2>5 DEF FromWinner, JobOfReceipt, WorkerOf
  <2>7. SameOutput(r, job)
    <3>1. CASE job.receipt = None
      BY <3>1 DEF SameOutput
    <3>2. CASE job.receipt # None
      <4>1. job.receipt \in receipts /\ JobOfReceipt(job.receipt) = JobOf[o]
        BY <2>2, <3>2 DEF OffloadInv, RecordsInv
      <4>2. job.receipt = r
        BY <4>1, OneReceipt DEF JobOfReceipt
      <4> QED
        BY <4>2 DEF SameOutput
    <3> QED
      BY <3>1, <3>2
  <2> QED
    BY <2>6, <2>7 DEF Payable, JobOfReceipt
<1> QED
  BY <1>1, OffloadInvariant, PTL

\* A payment that was asked for is accepted: unless its request has been kept
\* for its time, the router was restarted or the job was offloaded again.
THEOREM RequestedPaymentsAreAccepted == Spec => []PaymentsAreAccepted
<1>1. OffloadInv => PaymentsAreAccepted
  <2> SUFFICES ASSUME OffloadInv, NEW q \in issued,
                      phase[q.receipt.offload] # "forgotten",
                      ~(q.at + RequestLifetime < now),
                      ~Repeated(q.receipt.offload)
               PROVE  Acceptable(q)
    BY DEF PaymentsAreAccepted
  <2> DEFINE kept == requests[JobOfReceipt(q.receipt)]
  <2>1. q.receipt \in receipts /\ q.receipt \in Receipt
    BY DEF OffloadInv, RequestsInv, TypeOK
  <2>2. JobOfReceipt(q.receipt) \in Jobs
    BY <2>1, ParametersAssumption DEF JobOfReceipt, Receipt
  <2>3. kept # None
    BY DEF OffloadInv, RequestsKept
  <2>4. /\ kept.receipt \in receipts
        /\ JobOfReceipt(kept.receipt) = JobOfReceipt(q.receipt)
    BY <2>2, <2>3 DEF OffloadInv, RequestsInv
  <2>5. kept.receipt = q.receipt
    BY <2>1, <2>4, OneReceipt
  <2> QED
    BY <2>3, <2>5 DEF Acceptable
<1> QED
  BY <1>1, OffloadInvariant, PTL

-------------------------------------------------------------------------------
(* Refinement *)

AwardedTerms ==
  {[job |-> JobOf[o], worker |-> deal[o].worker, price |-> deal[o].price] :
     o \in {x \in Offloads : deal[x] # None}}

\* Pay on valid receipt: auctions, jobs and settlement implement PostpaidOffload.
THEOREM PayOnReceipt == Spec => ImplementsPostpaid
<1>1. Init => Postpaid!Init
  BY DEF Init, Postpaid!Init
<1>2. OffloadInv /\ OffloadInv' /\ [Next]_vars => [Postpaid!Next]_(Postpaid!vars)
  <2> SUFFICES ASSUME OffloadInv, OffloadInv', [Next]_vars
               PROVE  [Postpaid!Next]_(Postpaid!vars)
    OBVIOUS
  <2> USE DEF JobOfReceipt, WorkerOf
  <2>1. /\ TypeOK /\ TypeOK'
        /\ \A o \in Offloads : deal[o] # None => deal'[o] = deal[o]
        /\ \A r \in receipts : /\ r \in Receipt
                               /\ deal[r.offload] \in Deal
                               /\ deal'[r.offload] = deal[r.offload]
    BY NothingIsUndone DEF OffloadInv, TypeOK, ReceiptsInv, CallsInv, Submitted
  <2>2. /\ \A q \in issued : q.receipt \in receipts
        /\ \A r \in settled : r \in receipts
    BY DEF OffloadInv, RequestsInv
  <2>3. \A r \in receipts : TermsOf(r) \in Postpaid!Terms
    BY <2>1, ParametersAssumption DEF TermsOf, Postpaid!Terms, Receipt, Deal
  <2>4. \A r \in receipts : Postpaid!AmountOf(TermsOf(r)) = AmountOf(r)
    BY DEF Postpaid!AmountOf, TermsOf, AmountOf
  <2>5. ASSUME NEW o \in Offloads, AuctionWon(o)
        PROVE  Postpaid!Next
    <3>1. PICK w \in Peers, p \in Prices :
            deal' = [deal EXCEPT ![o] = [worker |-> w, price |-> p]]
      BY <2>5 DEF AuctionWon
    <3> DEFINE t == [job |-> JobOf[o], worker |-> w, price |-> p]
    <3>2. /\ deal[o] = None /\ deal'[o] # None
          /\ \A x \in Offloads : x # o => deal'[x] = deal[x]
          /\ deal'[o].worker = w /\ deal'[o].price = p
      BY <2>1, <2>5, <3>1, NoneIsNothing DEF AuctionWon, OffloadInv, CallsInv, TypeOK, Deal
    <3>3. AwardedTerms' = AwardedTerms \cup {t}
      BY <3>2 DEF AwardedTerms
    <3>4. t \in Postpaid!Terms
      BY <3>1, ParametersAssumption DEF Postpaid!Terms
    <3>5. UNCHANGED <<receipts, issued, settled>>
      BY <2>5 DEF AuctionWon, worker, settlement
    <3>6. \A r \in receipts : TermsOf(r)' = TermsOf(r) /\ AmountOf(r)' = AmountOf(r)
      BY <2>1 DEF TermsOf, AmountOf, InSats
    <3>7. /\ {TermsOf(r) : r \in receipts}' = {TermsOf(r) : r \in receipts}
          /\ {AmountOf(q.receipt) : q \in issued}' = {AmountOf(q.receipt) : q \in issued}
          /\ {AmountOf(r) : r \in settled}' = {AmountOf(r) : r \in settled}
      BY <2>2, <3>5, <3>6
    <3> QED
      BY <3>3, <3>4, <3>7 DEF AwardedTerms, Postpaid!Next, Postpaid!Award
  <2>6. ASSUME deal' = deal
        PROVE  /\ AwardedTerms' = AwardedTerms
               /\ \A r : TermsOf(r)' = TermsOf(r) /\ AmountOf(r)' = AmountOf(r)
    BY <2>6 DEF AwardedTerms, TermsOf, AmountOf, InSats
  <2>7. ASSUME NEW o \in Offloads, FinishJob(o)
        PROVE  Postpaid!Next
    <3>1. PICK e \in Prices, out \in Outputs :
            receipts' = receipts \cup {[offload |-> o, price |-> Charge(o, e), output |-> out]}
      BY <2>7 DEF FinishJob
    <3> DEFINE r == [offload |-> o, price |-> Charge(o, e), output |-> out]
    <3>2. /\ deal[o] \in Deal /\ deal[o] # None
          /\ deal' = deal /\ UNCHANGED <<issued, settled>>
      BY <2>1, <2>7 DEF FinishJob, OffloadInv, CallsInv, TypeOK, requester, settlement
    <3>3. r \in Receipt /\ r \in receipts'
      BY <2>1, <3>1 DEF TypeOK
    <3>4. TermsOf(r) \in Postpaid!Terms
      BY <3>2, <3>3, ParametersAssumption DEF TermsOf, Postpaid!Terms, Receipt, Deal
    <3>5. \E a \in AwardedTerms :
            a.job = TermsOf(r).job /\ a.worker = TermsOf(r).worker /\ TermsOf(r).price <= a.price
      <4>1. [job |-> JobOf[o], worker |-> deal[o].worker, price |-> deal[o].price] \in AwardedTerms
        BY <3>2 DEF AwardedTerms
      <4>2. Charge(o, e) <= deal[o].price
        BY <3>2, TimesAreNumbers DEF Charge, Deal
      <4> QED
        BY <4>1, <4>2 DEF TermsOf
    <3> HIDE DEF r
    <3>6. {TermsOf(x) : x \in receipts'} = {TermsOf(x) : x \in receipts} \cup {TermsOf(r)}
      BY <3>1 DEF r
    <3> QED
      BY <2>6, <3>2, <3>4, <3>5, <3>6 DEF AwardedTerms, Postpaid!Next, Postpaid!Work
  <2>8. ASSUME NEW r \in receipts, RequestPayment(r)
        PROVE  Postpaid!Next
    <3> DEFINE new == [receipt |-> r, at |-> now]
    <3>1. /\ issued' = {q \in issued : q.receipt # r} \cup {new}
          /\ new.receipt = r
          /\ deal' = deal /\ UNCHANGED <<receipts, settled>>
      BY <2>8 DEF RequestPayment, worker
    <3> HIDE DEF new
    <3>2. {AmountOf(q.receipt) : q \in issued'} =
            {AmountOf(q.receipt) : q \in issued} \cup {AmountOf(r)}
      <4> DEFINE old == {q \in issued : q.receipt # r}
      <4>1. {AmountOf(q.receipt) : q \in old \cup {new}} =
              {AmountOf(q.receipt) : q \in old} \cup {AmountOf(new.receipt)}
        BY Zenon
      <4>2. {AmountOf(q.receipt) : q \in old} \cup {AmountOf(r)} =
              {AmountOf(q.receipt) : q \in issued} \cup {AmountOf(r)}
        BY Zenon
      <4> QED
        BY <3>1, <4>1, <4>2
    <3> QED
      BY <2>3, <2>4, <2>6, <3>1, <3>2 DEF AwardedTerms, Postpaid!Next, Postpaid!Owe
  <2>9. ASSUME NEW q \in issued, PostPayment(q)
        PROVE  Postpaid!Next
    <3>1. /\ settled' = settled \cup {q.receipt}
          /\ deal' = deal /\ UNCHANGED <<receipts, issued>>
      BY <2>9 DEF PostPayment, worker
    <3>2. {AmountOf(r) : r \in settled'} = {AmountOf(r) : r \in settled} \cup {AmountOf(q.receipt)}
      BY <3>1
    <3> QED
      BY <2>2, <2>3, <2>4, <2>6, <3>1, <3>2 DEF AwardedTerms, Postpaid!Next, Postpaid!Settle
  <2>10. ASSUME UNCHANGED <<deal, receipts, issued, settled>>
         PROVE  UNCHANGED Postpaid!vars
    BY <2>6, <2>10 DEF AwardedTerms, Postpaid!vars
  <2>11. \/ UNCHANGED <<deal, receipts, issued, settled>>
         \/ \E o \in Offloads : AuctionWon(o) \/ FinishJob(o)
         \/ \E r \in receipts : RequestPayment(r)
         \/ \E q \in issued : PostPayment(q)
    BY DEF Next, StartAuction, RefuseOffload, AuctionLost, DeliverAward, SubmitJob,
           ReceiveResult, SubmitFails, AcceptJob, RejectJob, FailJob, PostResult,
           PeerRestarts, Prune, RequesterRestarts, Tick, vars, requester, worker, settlement
  <2> QED
    BY <2>5, <2>7, <2>8, <2>9, <2>10, <2>11
<1> QED
  BY <1>1, <1>2, OffloadInvariant, PTL DEF Spec, ImplementsPostpaid, Postpaid!Spec

-------------------------------------------------------------------------------
(* The transports                                                             *)

RunState ==
  [kind : 0 .. Len(Kinds), version : Nat, rest : Seq(PeerSet), flying : SUBSET PeerSet]

Message == [run : 0 .. MaxRuns, peer : PeerSet, kind : 1 .. Len(Kinds), version : Nat]

HttpsTypeOK ==
  /\ local \in [KindSet -> Nat]
  /\ heard \in [PeerSet -> [KindSet -> Nat]]
  /\ runs \in [Runs -> RunState]
  /\ \A i \in Runs : runs[i].kind = 0 => runs[i].flying = {}
  /\ wire \subseteq Message
  /\ posted \in [Runs -> [PeerSet -> Nat]]

NostrTypeOK ==
  /\ up \subseteq Relays
  /\ failures \in [Relays -> 0 .. Doublings + 1]
  /\ nextAttempt \in [Relays -> 0 .. MaxDelay]
  /\ active \subseteq Relays
  /\ open \subseteq Relays
  /\ stored \subseteq Announcements
  /\ retryTimer \in -1 .. MaxDelay
  /\ publishing \subseteq Relays

LimiterTypeOK ==
  /\ bucket \in [age : 0 .. RateWindow, count : 0 .. RateMax]
  /\ passed \in [Remembered -> 0 .. RateWindow]

TransportTypeOK ==
  /\ config \in Configurations
  /\ faults \in 0 .. MaxFaults
  /\ HttpsTypeOK
  /\ NostrTypeOK
  /\ LimiterTypeOK

(* A run has posted its message once to every peer but those that are left.  *)
RestIsLeft ==
  \A i \in Runs : runs[i].kind # 0 =>
    /\ IsInjective(runs[i].rest)
    /\ \A p \in PeerSet : posted[i][p] = IF p \in ToSet(runs[i].rest) THEN 0 ELSE 1

(* The messages that the bucket does not count are older than its window, and *)
(* all but as many as the limit of them a window older than that.            *)
WindowsAreApart ==
  /\ bucket.count = 0 => \A i \in Remembered : passed[i] = RateWindow
  /\ \A i \in Remembered :
       /\ i > bucket.count => passed[i] >= bucket.age
       /\ i > bucket.count + RateMax => passed[i] = RateWindow

(* Over relays this router is subscribed to one, or a timer is set to try     *)
(* again: however the relays fail, it does not fall silent.                 *)
SubscribedOrRetrying == config.relays => open # {} \/ retryTimer # -1

TransportInv == TransportTypeOK /\ RestIsLeft /\ WindowsAreApart /\ SubscribedOrRetrying

-------------------------------------------------------------------------------
(* Numbers and sequences *)

LEMMA Numbers ==
  /\ Concurrency \in Nat
  /\ MinDelay \in Nat /\ MaxDelay \in Nat
  /\ Doublings \in Nat
  /\ RateMax \in Nat /\ RateMax > 0
  /\ RateWindow \in Nat /\ RateWindow > 0
  /\ MaxRuns \in Nat /\ MaxFaults \in Nat
  BY NumbersAssumption

(* A set of naturals has a least member. *)
LEMMA MinIsLeast ==
  ASSUME NEW S, S \subseteq Nat, S # {}
  PROVE  Min(S) \in S /\ \A y \in S : Min(S) <= y
<1>1. \E x \in S : \A y \in S : ~ (<<y, x>> \in OpToRel(<, Nat))
  BY WFMin, NatLessThanWellFounded, Zenon
<1>2. \E x \in S : \A y \in S : x <= y
  <2>1. PICK x \in S : \A y \in S : ~ (<<y, x>> \in OpToRel(<, Nat))
    BY <1>1, Zenon
  <2>2. \A y \in S : ~(y < x)
    BY <2>1 DEF OpToRel
  <2>3. \A y \in S : x <= y
    BY <2>2
  <2> QED
    BY <2>3
<1> QED
  BY <1>2 DEF Min

LEMMA MinOfTwo ==
  ASSUME NEW a \in Nat, NEW b \in Nat
  PROVE  Min({a, b}) = IF a <= b THEN a ELSE b
  BY MinIsLeast

(* A power of two counts the subsets of a set, so it is a number. *)
LEMMA PowersOfTwo ==
  ASSUME NEW n \in Nat
  PROVE  2 ^ n \in Nat
<1>1. IsFiniteSet(1 .. n) /\ Cardinality(1 .. n) = n
  BY FS_Interval
<1>2. IsFiniteSet(SUBSET (1 .. n)) /\ Cardinality(SUBSET (1 .. n)) = 2 ^ n
  BY <1>1, FS_SUBSET
<1> QED
  BY <1>2, FS_CardinalityType

LEMMA Lists ==
  /\ Receivers \in Seq(PeerSet) /\ Len(Receivers) \in Nat /\ Len(Receivers) > 0
  /\ DOMAIN Receivers = 1 .. Len(Receivers)
  /\ \A i, j \in 1 .. Len(Receivers) : Receivers[i] = Receivers[j] => i = j
  /\ Kinds \in Seq(KindSet) /\ Len(Kinds) \in Nat
  /\ \A k \in 1 .. Len(Kinds) : Kinds[k] \in KindSet
<1>1. Receivers \in Seq(PeerSet) /\ Kinds \in Seq(KindSet) /\ Receivers # <<>>
  BY PeersAssumption DEF PeerSet, KindSet
<1>2. Len(Receivers) \in Nat /\ Len(Receivers) > 0 /\ DOMAIN Receivers = 1 .. Len(Receivers)
  BY <1>1
<1>3. \A i, j \in 1 .. Len(Receivers) : Receivers[i] = Receivers[j] => i = j
  BY <1>2, PeersAssumption DEF IsInjective
<1> QED
  BY <1>1, <1>2, <1>3

LEMMA WorkersAreBounded == Workers \in 1 .. Len(Receivers)
  BY Lists, Numbers DEF Workers

(* What the workers start with and what they leave are the peers, each once.  *)
LEMMA PeersAreSplit ==
  /\ RemainingPeers \in Seq(PeerSet)
  /\ IsInjective(RemainingPeers)
  /\ FirstPeers \subseteq PeerSet
  /\ FirstPeers # {}
  /\ \A p \in PeerSet : p \in FirstPeers <=> p \notin ToSet(RemainingPeers)
<1> DEFINE n == Len(Receivers)
           w == Workers
<1>1. n \in Nat /\ w \in 1 .. n /\ w \in Nat
  BY Lists, WorkersAreBounded
<1>2. /\ RemainingPeers = [i \in 1 .. n - w |-> Receivers[i + w]]
      /\ SubSeq(Receivers, 1, w) = [i \in 1 .. w |-> Receivers[i]]
  BY <1>1 DEF RemainingPeers
<1>3. \A i, j \in 1 .. n : Receivers[i] = Receivers[j] => i = j
  BY Lists
<1>4. \A i \in 1 .. n : Receivers[i] \in PeerSet
  BY Lists
<1>5. \A p \in PeerSet : \E i \in 1 .. n : p = Receivers[i]
  BY Lists DEF PeerSet, ToSet
<1> HIDE DEF n, w
<1>6. RemainingPeers \in Seq(PeerSet)
  <2>1. n - w \in Nat /\ \A i \in 1 .. n - w : i + w \in 1 .. n
    BY <1>1
  <2> QED
    BY <1>2, <1>4, <2>1
<1>7. IsInjective(RemainingPeers)
  BY <1>1, <1>2, <1>3 DEF IsInjective
<1>8. FirstPeers = {Receivers[i] : i \in 1 .. w}
  <2>1. FirstPeers = ToSet(SubSeq(Receivers, 1, w))
    BY DEF FirstPeers, w
  <2> QED
    BY <1>2, <2>1 DEF ToSet
<1>9. ToSet(RemainingPeers) = {Receivers[i] : i \in w + 1 .. n}
  <2>1. ToSet(RemainingPeers) = {Receivers[i + w] : i \in 1 .. n - w}
    BY <1>2 DEF ToSet
  <2>2. ASSUME NEW i \in w + 1 .. n
        PROVE  i - w \in 1 .. n - w /\ Receivers[(i - w) + w] = Receivers[i]
    BY <1>1
  <2>3. \A i \in 1 .. n - w : i + w \in w + 1 .. n
    BY <1>1
  <2> QED
    BY <2>1, <2>2, <2>3
<1>10. FirstPeers \subseteq PeerSet /\ FirstPeers # {}
  BY <1>1, <1>4, <1>8
<1>11. ASSUME NEW p \in PeerSet
       PROVE  p \in FirstPeers <=> p \notin ToSet(RemainingPeers)
  <2>1. PICK i \in 1 .. n : p = Receivers[i]
    BY <1>5
  <2>2. CASE i <= w
    <3>1. i \in 1 .. w
      BY <1>1, <2>2
    <3>2. \A j \in w + 1 .. n : p # Receivers[j]
      BY <1>1, <1>3, <2>1, <2>2
    <3> QED
      BY <1>8, <1>9, <2>1, <3>1, <3>2
  <2>3. CASE ~(i <= w)
    <3>1. i \in w + 1 .. n
      BY <1>1, <2>3
    <3>2. \A j \in 1 .. w : p # Receivers[j]
      BY <1>1, <1>3, <2>1, <2>3
    <3> QED
      BY <1>8, <1>9, <2>1, <3>1, <3>2
  <2> QED
    BY <2>2, <2>3
<1> QED
  BY <1>6, <1>7, <1>10, <1>11

(* The next peer of a list without repetitions is in no more of it. *)
LEMMA TailOfInjective ==
  ASSUME NEW S, NEW s \in Seq(S), s # <<>>, IsInjective(s)
  PROVE  /\ Head(s) \in S /\ Tail(s) \in Seq(S)
         /\ IsInjective(Tail(s))
         /\ Head(s) \in ToSet(s)
         /\ ToSet(Tail(s)) = ToSet(s) \ {Head(s)}
<1>1. Len(s) \in Nat /\ Len(s) > 0 /\ DOMAIN s = 1 .. Len(s) /\ Head(s) = s[1]
  OBVIOUS
<1>2. Tail(s) = [i \in 1 .. Len(s) - 1 |-> s[i + 1]]
  <2>1. Tail(s) = SubSeq(s, 2, Len(s))
    BY TailIsSubSeq
  <2>2. SubSeq(s, 2, Len(s)) = [i \in 1 .. Len(s) - 1 |-> s[i + 1]]
    BY <1>1
  <2> QED
    BY <2>1, <2>2
<1>3. \A i, j \in 1 .. Len(s) : s[i] = s[j] => i = j
  BY <1>1 DEF IsInjective
<1>4. Head(s) \in S /\ Tail(s) \in Seq(S) /\ Head(s) \in ToSet(s)
  BY <1>1 DEF ToSet
<1>5. IsInjective(Tail(s))
  BY <1>1, <1>2, <1>3 DEF IsInjective
<1>6. ToSet(s) = {s[i] : i \in 1 .. Len(s)}
  BY <1>1 DEF ToSet
<1>7. ToSet(Tail(s)) = {s[i + 1] : i \in 1 .. Len(s) - 1}
  BY <1>2 DEF ToSet
<1>8. ASSUME NEW e \in ToSet(s), e # Head(s)
      PROVE  e \in ToSet(Tail(s))
  <2>1. PICK i \in 1 .. Len(s) : e = s[i]
    BY <1>6
  <2>2. i - 1 \in 1 .. Len(s) - 1 /\ (i - 1) + 1 = i
    BY <1>1, <1>8, <2>1
  <2> QED
    BY <1>7, <2>1, <2>2
<1>9. ASSUME NEW i \in 1 .. Len(s) - 1
      PROVE  s[i + 1] \in ToSet(s) /\ s[i + 1] # Head(s)
  <2>1. i + 1 \in 1 .. Len(s) /\ i + 1 # 1 /\ 1 \in 1 .. Len(s)
    BY <1>1
  <2> QED
    BY <1>1, <1>3, <1>6, <2>1
<1>10. ToSet(Tail(s)) = ToSet(s) \ {Head(s)}
  BY <1>7, <1>8, <1>9
<1> QED
  BY <1>4, <1>5, <1>10

-------------------------------------------------------------------------------
(* The limiter *)

(* A message is let through. *)
LEMMA PassKeepsWindows ==
  ASSUME LimiterTypeOK, WindowsAreApart, HearRfb
  PROVE  LimiterTypeOK' /\ WindowsAreApart'
<1>1. PICK b \in Allow : bucket' = b
  BY DEF HearRfb, Pass
<1>2. passed' = [i \in Remembered |-> IF i = 1 THEN 0 ELSE passed[i - 1]]
  BY DEF HearRfb, Pass
<1>3. /\ bucket.age \in 0 .. RateWindow /\ bucket.count \in 0 .. RateMax
      /\ passed \in [Remembered -> 0 .. RateWindow]
  BY DEF LimiterTypeOK
<1>4. RateMax \in Nat /\ RateMax > 0 /\ RateWindow \in Nat
  BY Numbers
<1>5. \A i \in Remembered : i \in Nat /\ i >= 1 /\ (i # 1 => i - 1 \in Remembered)
  BY <1>4 DEF Remembered
<1>6. passed' \in [Remembered -> 0 .. RateWindow]
  BY <1>2, <1>3, <1>4, <1>5
<1>7. CASE bucket.count = 0 \/ bucket.age >= RateWindow
  <2>1. bucket' = [age |-> 0, count |-> 1]
    BY <1>1, <1>7 DEF Allow
  <2>2. bucket' \in [age : 0 .. RateWindow, count : 0 .. RateMax]
    BY <1>4, <2>1
  <2>3. ASSUME NEW i \in Remembered, i > 1
        PROVE  passed'[i] >= 0 /\ (i > 1 + RateMax => passed'[i] = RateWindow)
    <3>1. /\ i - 1 \in Remembered /\ passed'[i] = passed[i - 1]
          /\ passed[i - 1] \in 0 .. RateWindow
      BY <1>2, <1>3, <1>5, <2>3
    <3>2. i > 1 + RateMax => i - 1 > bucket.count
      BY <1>3, <1>4, <1>5
    <3>3. i > 1 + RateMax => passed[i - 1] >= bucket.age
      BY <3>1, <3>2 DEF WindowsAreApart
    <3>4. i > 1 + RateMax => passed[i - 1] = RateWindow
      BY <1>3, <1>4, <1>7, <3>1, <3>3 DEF WindowsAreApart
    <3> QED
      BY <3>1, <3>4, <1>4
  <2> QED
    BY <1>4, <1>5, <1>6, <2>1, <2>2, <2>3 DEF LimiterTypeOK, WindowsAreApart
<1>8. CASE ~(bucket.count = 0 \/ bucket.age >= RateWindow)
  <2>1. bucket.count < RateMax /\ bucket' = [bucket EXCEPT !.count = bucket.count + 1]
    BY <1>1, <1>3, <1>4, <1>8 DEF Allow
  <2>2. bucket'.age = bucket.age /\ bucket'.count = bucket.count + 1
    BY <2>1 DEF LimiterTypeOK
  <2>3. bucket' \in [age : 0 .. RateWindow, count : 0 .. RateMax]
    <3>1. bucket.count + 1 \in 0 .. RateMax
      BY <1>3, <1>4, <2>1
    <3> QED
      BY <2>1, <3>1 DEF LimiterTypeOK
  <2>4. ASSUME NEW i \in Remembered
        PROVE  /\ i > bucket'.count => passed'[i] >= bucket'.age
               /\ i > bucket'.count + RateMax => passed'[i] = RateWindow
    <3>1. CASE i = 1
      <4>1. ~(1 > bucket'.count) /\ ~(1 > bucket'.count + RateMax)
        BY <1>3, <1>4, <1>8, <2>2
      <4> QED
        BY <3>1, <4>1
    <3>2. CASE i # 1
      <4>1. i - 1 \in Remembered /\ passed'[i] = passed[i - 1] /\ i \in Nat
        BY <1>2, <1>5, <3>2
      <4>2. /\ i > bucket'.count => i - 1 > bucket.count
            /\ i > bucket'.count + RateMax => i - 1 > bucket.count + RateMax
        BY <1>3, <1>4, <2>2, <4>1
      <4> QED
        BY <2>2, <4>1, <4>2 DEF WindowsAreApart
    <3> QED
      BY <3>1, <3>2
  <2>5. bucket'.count # 0
    BY <1>3, <2>2
  <2> QED
    BY <1>6, <2>3, <2>4, <2>5 DEF LimiterTypeOK, WindowsAreApart
<1> QED
  BY <1>7, <1>8

(* Time passes. *)
LEMMA TickKeepsWindows ==
  ASSUME LimiterTypeOK, WindowsAreApart, TimePasses
  PROVE  LimiterTypeOK' /\ WindowsAreApart'
<1>1. /\ bucket \in [age : 0 .. RateWindow, count : 0 .. RateMax]
      /\ bucket.age \in 0 .. RateWindow /\ bucket.count \in 0 .. RateMax
      /\ passed \in [Remembered -> 0 .. RateWindow]
  BY DEF LimiterTypeOK
<1>2. RateMax \in Nat /\ RateWindow \in Nat
  BY Numbers
<1>3. ASSUME NEW a \in 0 .. RateWindow
      PROVE  Min({a + 1, RateWindow}) = IF a = RateWindow THEN RateWindow ELSE a + 1
  <2>1. a + 1 \in Nat /\ Min({a + 1, RateWindow}) = IF a + 1 <= RateWindow THEN a + 1
                                                      ELSE RateWindow
    BY <1>2, MinOfTwo
  <2> QED
    BY <1>2, <2>1
<1>4. \A i \in Remembered :
        passed'[i] = IF passed[i] = RateWindow THEN RateWindow ELSE passed[i] + 1
  <2>1. \A i \in Remembered : passed'[i] = Min({passed[i] + 1, RateWindow})
    BY DEF TimePasses
  <2>2. \A i \in Remembered : passed[i] \in 0 .. RateWindow
    BY <1>1
  <2> QED
    BY <1>3, <2>1, <2>2
<1>5. passed' \in [Remembered -> 0 .. RateWindow]
  <2>1. passed' = [i \in Remembered |-> Min({passed[i] + 1, RateWindow})]
    BY DEF TimePasses
  <2>2. \A i \in Remembered : passed'[i] \in 0 .. RateWindow
    BY <1>1, <1>2, <1>4
  <2> QED
    BY <2>1, <2>2
<1>6. CASE bucket.count = 0
  <2>1. bucket' = bucket
    BY <1>6 DEF TimePasses
  <2>2. \A i \in Remembered : passed'[i] = RateWindow
    BY <1>4, <1>6 DEF WindowsAreApart
  <2> QED
    BY <1>1, <1>2, <1>5, <2>1, <2>2 DEF LimiterTypeOK, WindowsAreApart
<1>7. CASE bucket.count # 0
  <2>1. bucket' = [bucket EXCEPT !.age = Min({bucket.age + 1, RateWindow})]
    BY <1>7 DEF TimePasses
  <2>2. /\ bucket'.count = bucket.count
        /\ bucket'.age = IF bucket.age = RateWindow THEN RateWindow ELSE bucket.age + 1
    BY <1>1, <1>3, <2>1
  <2>3. bucket' \in [age : 0 .. RateWindow, count : 0 .. RateMax]
    <3>1. Min({bucket.age + 1, RateWindow}) \in 0 .. RateWindow
      BY <1>1, <1>2, <1>3
    <3> QED
      BY <1>1, <2>1, <3>1
  <2>4. ASSUME NEW i \in Remembered
        PROVE  /\ i > bucket'.count => passed'[i] >= bucket'.age
               /\ i > bucket'.count + RateMax => passed'[i] = RateWindow
    <3>1. /\ passed[i] \in 0 .. RateWindow
          /\ passed'[i] = IF passed[i] = RateWindow THEN RateWindow ELSE passed[i] + 1
      BY <1>1, <1>4
    <3>2. /\ i > bucket.count => passed[i] >= bucket.age
          /\ i > bucket.count + RateMax => passed[i] = RateWindow
      BY DEF WindowsAreApart
    <3> QED
      BY <1>1, <1>2, <2>2, <3>1, <3>2
  <2> QED
    BY <1>5, <1>7, <2>2, <2>3, <2>4 DEF LimiterTypeOK, WindowsAreApart
<1> QED
  BY <1>6, <1>7

LEMMA LimiterStep ==
  ASSUME LimiterTypeOK, WindowsAreApart, [TransportNext]_transportVars
  PROVE  LimiterTypeOK' /\ WindowsAreApart'
<1>1. CASE UNCHANGED limiter
  BY <1>1 DEF limiter, LimiterTypeOK, WindowsAreApart
<1>2. CASE UNCHANGED transportVars
  BY <1>1, <1>2 DEF transportVars
<1>3. CASE Delivery
  <2>1. UNCHANGED limiter
    BY <1>3 DEF Delivery, PublishTimer, Answered, PostEnds, PeerHears
  <2> QED
    BY <1>1, <2>1
<1>4. CASE Subscribing
  <2>1. UNCHANGED limiter
    BY <1>4 DEF Subscribing, RetryFires, CannotConnect
  <2> QED
    BY <1>1, <2>1
<1>5. CASE \E k \in KindSet : Announce(k) \/ RelayBrings(k)
  <2>1. UNCHANGED limiter
    BY <1>5 DEF Announce, RelayBrings
  <2> QED
    BY <1>1, <2>1
<1>6. CASE \E i \in Runs, p \in PeerSet : PostLost(i, p) \/ PostTimesOut(i, p)
  <2>1. UNCHANGED limiter
    BY <1>6 DEF PostLost, PostTimesOut, PostEnds
  <2> QED
    BY <1>1, <2>1
<1>7. CASE \/ \E r \in Relays : ClosedByRelay(r) \/ RelayFails(r) \/ RelayRecovers(r)
           \/ Publish
           \/ Published
           \/ \E a \in Announcements : RelayBringsStored(a)
  <2>1. UNCHANGED limiter
    BY <1>7 DEF ClosedByRelay, RelayFails, RelayRecovers, Publish, Published, RelayBringsStored
  <2> QED
    BY <1>1, <2>1
<1> QED
  BY <1>2, <1>3, <1>4, <1>5, <1>6, <1>7, PassKeepsWindows, TickKeepsWindows DEF TransportNext

-------------------------------------------------------------------------------
(* Publishing by HTTPS *)

LEMMA IdleRunType == IdleRun \in RunState /\ IdleRun.kind = 0 /\ IdleRun.flying = {}
<1>1. 0 \in 0 .. Len(Kinds) /\ <<>> \in Seq(PeerSet)
  BY Lists
<1> QED
  BY <1>1 DEF IdleRun, RunState

LEMMA PostsType ==
  ASSUME NEW i \in Runs, NEW run \in RunState, run.kind # 0, NEW S \in SUBSET PeerSet
  PROVE  Posts(i, run, S) \subseteq Message
<1>1. i \in 0 .. MaxRuns
  BY Numbers DEF Runs
<1>2. run.kind \in 1 .. Len(Kinds) /\ run.version \in Nat
  BY Lists DEF RunState
<1> QED
  BY <1>1, <1>2 DEF Posts, Message

(* What a step has to do to one run, and to the posts. *)
LEMMA OneRunChanges ==
  ASSUME HttpsTypeOK, RestIsLeft, NEW i \in Runs, NEW run \in RunState,
         runs' = [runs EXCEPT ![i] = run], run.kind = 0 => run.flying = {},
         wire' \subseteq Message, UNCHANGED <<local, heard>>,
         posted' \in [Runs -> [PeerSet -> Nat]],
         \A j \in Runs : j # i => posted'[j] = posted[j],
         run.kind # 0 =>
           /\ IsInjective(run.rest)
           /\ \A p \in PeerSet : posted'[i][p] = IF p \in ToSet(run.rest) THEN 0 ELSE 1
  PROVE  HttpsTypeOK' /\ RestIsLeft'
<1>1. /\ runs' \in [Runs -> RunState]
      /\ runs'[i] = run
      /\ \A j \in Runs : j # i => runs'[j] = runs[j]
  BY DEF HttpsTypeOK
<1>2. HttpsTypeOK'
  BY <1>1 DEF HttpsTypeOK
<1>3. ASSUME NEW j \in Runs, runs'[j].kind # 0
      PROVE  /\ IsInjective(runs'[j].rest)
             /\ \A p \in PeerSet : posted'[j][p] = IF p \in ToSet(runs'[j].rest) THEN 0 ELSE 1
  <2>1. CASE j = i
    BY <1>1, <1>3, <2>1
  <2>2. CASE j # i
    <3>1. runs'[j] = runs[j] /\ posted'[j] = posted[j]
      BY <1>1, <2>2
    <3> QED
      BY <1>3, <3>1 DEF RestIsLeft
  <2> QED
    BY <2>1, <2>2
<1> QED
  BY <1>2, <1>3 DEF RestIsLeft

LEMMA StartKindKeeps ==
  ASSUME HttpsTypeOK, RestIsLeft, NEW i \in Runs, NEW k \in Nat, k >= 1,
         NEW left \in SUBSET Message, StartKind(i, k, left), UNCHANGED <<local, heard>>
  PROVE  HttpsTypeOK' /\ RestIsLeft'
<1> DEFINE later == {j \in k .. Len(Kinds) : local[Kinds[j]] # 0}
<1>1. CASE later = {}
  <2>1. runs' = [runs EXCEPT ![i] = IdleRun] /\ wire' = left /\ posted' = posted
    BY <1>1 DEF StartKind
  <2>2. posted' \in [Runs -> [PeerSet -> Nat]]
    BY <2>1 DEF HttpsTypeOK
  <2> QED
    BY <2>1, <2>2, IdleRunType, OneRunChanges
<1>2. CASE later # {}
  <2> DEFINE run == [kind |-> Min(later), version |-> local[Kinds[Min(later)]],
                     rest |-> RemainingPeers, flying |-> FirstPeers]
             first == [p \in PeerSet |-> IF p \in FirstPeers THEN 1 ELSE 0]
  <2>1. /\ runs' = [runs EXCEPT ![i] = run]
        /\ wire' = left \cup Posts(i, run, FirstPeers)
        /\ posted' = [posted EXCEPT ![i] = first]
    BY <1>2 DEF StartKind
  <2>2. Min(later) \in 1 .. Len(Kinds)
    <3>1. later \subseteq Nat /\ later \subseteq 1 .. Len(Kinds)
      BY Lists
    <3> HIDE DEF later
    <3> QED
      BY <1>2, <3>1, MinIsLeast
  <2>3. run \in RunState /\ run.kind # 0
    <3>1. local[Kinds[Min(later)]] \in Nat
      BY <2>2, Lists DEF HttpsTypeOK
    <3>2. Min(later) \in 0 .. Len(Kinds) /\ Min(later) # 0
      BY <2>2, Lists
    <3> HIDE DEF later
    <3> QED
      BY <3>1, <3>2, PeersAreSplit DEF RunState
  <2>4. /\ IsInjective(run.rest)
        /\ \A p \in PeerSet : first[p] = IF p \in ToSet(run.rest) THEN 0 ELSE 1
    BY PeersAreSplit
  <2>5. first \in [PeerSet -> Nat]
    OBVIOUS
  <2> HIDE DEF run, first, later
  <2>6. wire' \subseteq Message
    BY <2>1, <2>3, PostsType, PeersAreSplit
  <2>7. /\ posted' \in [Runs -> [PeerSet -> Nat]]
        /\ posted'[i] = first
        /\ \A j \in Runs : j # i => posted'[j] = posted[j]
    BY <2>1, <2>5 DEF HttpsTypeOK
  <2> QED
    BY <2>1, <2>3, <2>4, <2>6, <2>7, OneRunChanges
<1> QED
  BY <1>1, <1>2

(* A post ends: the next peer, the next kind or the end of the run. *)
LEMMA PostEndsKeeps ==
  ASSUME HttpsTypeOK, RestIsLeft, NEW i \in Runs, NEW p \in PeerSet,
         NEW left \in SUBSET Message, PostEnds(i, p, left)
  PROVE  HttpsTypeOK' /\ RestIsLeft'
<1> DEFINE run == runs[i]
<1>1. /\ run \in RunState /\ run.kind \in Nat /\ run.rest \in Seq(PeerSet)
      /\ run.flying \subseteq PeerSet /\ run.kind # 0
  <2>1. run \in RunState /\ p \in run.flying
    BY DEF HttpsTypeOK, PostEnds
  <2>2. run.kind # 0
    BY <2>1 DEF HttpsTypeOK
  <2> QED
    BY <2>1, <2>2, Lists DEF RunState
<1>2. UNCHANGED <<local, heard>>
  BY DEF PostEnds
<1>3. /\ IsInjective(run.rest)
      /\ \A q \in PeerSet : posted[i][q] = IF q \in ToSet(run.rest) THEN 0 ELSE 1
  BY <1>1 DEF RestIsLeft
<1>4. CASE run.rest # <<>>
  <2> DEFINE next == Head(run.rest)
             flying == (run.flying \ {p}) \cup {next}
             then == [run EXCEPT !.flying = flying, !.rest = Tail(run.rest)]
  <2>1. /\ next \in PeerSet /\ next \in ToSet(run.rest)
        /\ Tail(run.rest) \in Seq(PeerSet)
        /\ IsInjective(Tail(run.rest))
        /\ ToSet(Tail(run.rest)) = ToSet(run.rest) \ {next}
    BY <1>1, <1>3, <1>4, TailOfInjective
  <2>2. /\ runs' = [runs EXCEPT ![i].flying = flying, ![i].rest = Tail(run.rest)]
        /\ wire' = left \cup Posts(i, run, {next})
        /\ posted' = [posted EXCEPT ![i][next] = @ + 1]
    BY <1>4 DEF PostEnds
  <2>3. runs' = [runs EXCEPT ![i] = then]
    BY <2>2 DEF HttpsTypeOK, RunState
  <2>4. /\ then \in RunState /\ then.kind = run.kind
        /\ then.rest = Tail(run.rest)
    BY <1>1, <2>1 DEF RunState
  <2> HIDE DEF next, flying, then, run
  <2>5. wire' \subseteq Message
    <3>1. {next} \in SUBSET PeerSet
      BY <2>1
    <3> QED
      BY <1>1, <2>2, <3>1, PostsType
  <2>6. /\ posted' \in [Runs -> [PeerSet -> Nat]]
        /\ posted'[i][next] = posted[i][next] + 1
        /\ \A q \in PeerSet : q # next => posted'[i][q] = posted[i][q]
        /\ \A j \in Runs : j # i => posted'[j] = posted[j]
    BY <2>1, <2>2 DEF HttpsTypeOK
  <2>7. \A q \in PeerSet : posted'[i][q] = IF q \in ToSet(then.rest) THEN 0 ELSE 1
    BY <1>3, <2>1, <2>4, <2>6
  <2> QED
    BY <1>1, <1>2, <2>1, <2>3, <2>4, <2>5, <2>6, <2>7, OneRunChanges
<1>5. CASE run.rest = <<>> /\ run.flying # {p}
  <2> DEFINE then == [run EXCEPT !.flying = run.flying \ {p}]
  <2>1. /\ runs' = [runs EXCEPT ![i].flying = run.flying \ {p}]
        /\ wire' = left /\ posted' = posted
    BY <1>5 DEF PostEnds
  <2>2. runs' = [runs EXCEPT ![i] = then]
    BY <2>1 DEF HttpsTypeOK, RunState
  <2>3. /\ then \in RunState /\ then.kind = run.kind /\ then.rest = run.rest
    BY <1>1 DEF RunState
  <2>4. posted' \in [Runs -> [PeerSet -> Nat]]
    BY <2>1 DEF HttpsTypeOK
  <2> HIDE DEF then, run
  <2> QED
    BY <1>1, <1>2, <1>3, <2>1, <2>2, <2>3, <2>4, OneRunChanges
<1>6. CASE run.rest = <<>> /\ run.flying = {p}
  <2>1. StartKind(i, run.kind + 1, left)
    BY <1>6 DEF PostEnds
  <2>2. run.kind + 1 \in Nat /\ run.kind + 1 >= 1
    BY <1>1
  <2> QED
    BY <1>2, <2>1, <2>2, StartKindKeeps
<1> QED
  BY <1>4, <1>5, <1>6

(* A message whose run has given it up is still under way. *)
LEMMA LatePostsType ==
  ASSUME HttpsTypeOK, NEW i \in Runs, NEW p \in PeerSet
  PROVE  /\ wire \ PostsOf(i, p) \subseteq Message
         /\ (wire \ PostsOf(i, p)) \cup {[w EXCEPT !.run = 0] : w \in PostsOf(i, p)}
              \subseteq Message
<1>1. wire \subseteq Message /\ PostsOf(i, p) \subseteq Message
  BY DEF HttpsTypeOK, PostsOf
<1>2. ASSUME NEW w \in PostsOf(i, p)
      PROVE  [w EXCEPT !.run = 0] \in Message
  <2>1. w \in Message /\ 0 \in 0 .. MaxRuns
    BY <1>1, Numbers
  <2> QED
    BY <2>1 DEF Message
<1> QED
  BY <1>1, <1>2

LEMMA HttpsStep ==
  ASSUME HttpsTypeOK, RestIsLeft, NostrTypeOK, [TransportNext]_transportVars
  PROVE  HttpsTypeOK' /\ RestIsLeft'
<1>1. CASE UNCHANGED <<https, heard>>
  BY <1>1 DEF https, HttpsTypeOK, RestIsLeft
<1>2. CASE UNCHANGED transportVars
  BY <1>1, <1>2 DEF transportVars
<1>3. ASSUME NEW i \in Runs, PublishTimer(i)
      PROVE  HttpsTypeOK' /\ RestIsLeft'
  <2>1. StartKind(i, 1, wire) /\ UNCHANGED <<local, heard>> /\ wire \in SUBSET Message
    BY <1>3 DEF PublishTimer, HttpsTypeOK
  <2> QED
    BY <2>1, StartKindKeeps
<1>4. ASSUME NEW i \in Runs, NEW p \in PeerSet, Answered(i, p)
      PROVE  HttpsTypeOK' /\ RestIsLeft'
  <2>1. PostEnds(i, p, wire) /\ wire \in SUBSET Message
    BY <1>4 DEF Answered, HttpsTypeOK
  <2> QED
    BY <2>1, PostEndsKeeps
<1>5. ASSUME NEW i \in Runs, NEW p \in PeerSet, PostLost(i, p) \/ PostTimesOut(i, p)
      PROVE  HttpsTypeOK' /\ RestIsLeft'
  <2>1. \/ PostEnds(i, p, wire \ PostsOf(i, p))
        \/ PostEnds(i, p, (wire \ PostsOf(i, p))
                            \cup {[w EXCEPT !.run = 0] : w \in PostsOf(i, p)})
    BY <1>5 DEF PostLost, PostTimesOut
  <2> QED
    BY <2>1, LatePostsType, PostEndsKeeps
<1>6. ASSUME NEW w \in wire, PeerHears(w)
      PROVE  HttpsTypeOK' /\ RestIsLeft'
  <2>1. /\ UNCHANGED <<local, runs, posted>>
        /\ wire' = wire \ {w}
        /\ heard' = [heard EXCEPT ![w.peer][Kinds[w.kind]] = w.version]
    BY <1>6 DEF PeerHears
  <2>2. w.peer \in PeerSet /\ Kinds[w.kind] \in KindSet /\ w.version \in Nat
    BY Lists DEF HttpsTypeOK, Message
  <2>3. heard' \in [PeerSet -> [KindSet -> Nat]]
    BY <2>1, <2>2 DEF HttpsTypeOK
  <2> QED
    BY <2>1, <2>3 DEF HttpsTypeOK, RestIsLeft
<1>7. ASSUME NEW k \in KindSet, Announce(k)
      PROVE  HttpsTypeOK' /\ RestIsLeft'
  <2>1. UNCHANGED <<heard, runs, wire, posted>> /\ local' = [local EXCEPT ![k] = @ + 1]
    BY <1>7 DEF Announce
  <2>2. local' \in [KindSet -> Nat]
    BY <2>1 DEF HttpsTypeOK
  <2> QED
    BY <2>1, <2>2 DEF HttpsTypeOK, RestIsLeft
<1>8. Receivers[1] \in PeerSet
  BY Lists DEF PeerSet, ToSet
<1>9. ASSUME NEW k \in KindSet, RelayBrings(k)
      PROVE  HttpsTypeOK' /\ RestIsLeft'
  <2>1. /\ UNCHANGED <<local, runs, wire, posted>>
        /\ heard' = [heard EXCEPT ![Receivers[1]][k] = local[k]]
    BY <1>9 DEF RelayBrings, https
  <2>2. heard' \in [PeerSet -> [KindSet -> Nat]]
    BY <1>8, <2>1 DEF HttpsTypeOK
  <2> QED
    BY <2>1, <2>2 DEF HttpsTypeOK, RestIsLeft
<1>10. ASSUME NEW a \in Announcements, RelayBringsStored(a)
       PROVE  HttpsTypeOK' /\ RestIsLeft'
  <2>1. /\ UNCHANGED <<local, runs, wire, posted>>
        /\ heard' = [heard EXCEPT ![Receivers[1]][a[1]] = a[2]]
    BY <1>10 DEF RelayBringsStored, https
  <2>2. a[1] \in KindSet /\ a[2] \in Nat
    BY DEF Announcements
  <2>3. heard' \in [PeerSet -> [KindSet -> Nat]]
    BY <1>8, <2>1, <2>2 DEF HttpsTypeOK
  <2> QED
    BY <2>1, <2>3 DEF HttpsTypeOK, RestIsLeft
<1>11. CASE \/ Subscribing \/ HearRfb \/ Publish \/ Published \/ TimePasses
            \/ \E r \in Relays : ClosedByRelay(r) \/ RelayFails(r) \/ RelayRecovers(r)
  <2>1. UNCHANGED <<https, heard>>
    BY <1>11 DEF Subscribing, RetryFires, CannotConnect, HearRfb, Publish, Published, TimePasses,
                 ClosedByRelay, RelayFails, RelayRecovers
  <2> QED
    BY <1>1, <2>1
<1> QED
  BY <1>2, <1>3, <1>4, <1>5, <1>6, <1>7, <1>9, <1>10, <1>11 DEF TransportNext, Delivery

-------------------------------------------------------------------------------
(* Relays *)

LEMMA DelaysAreBounded ==
  /\ \A f \in Nat \ {0} : Backoff(f) \in 0 .. MaxDelay
  /\ \A f \in Nat \ {0} : Capped(f) \in 1 .. Doublings + 1
<1>1. ASSUME NEW f \in Nat \ {0}
      PROVE  Backoff(f) \in 0 .. MaxDelay
  <2> DEFINE x == MinDelay * 2 ^ (f - 1)
  <2>1. 2 ^ (f - 1) \in Nat
    BY PowersOfTwo
  <2>2. x \in Nat
    <3> DEFINE power == 2 ^ (f - 1)
    <3>1. power \in Nat
      BY <2>1
    <3> HIDE DEF power
    <3>2. MinDelay * power \in Nat
      BY <3>1, Numbers
    <3> QED
      BY <3>2 DEF power
  <2> HIDE DEF x
  <2>3. Backoff(f) = Min({MaxDelay, x})
    BY DEF Backoff, x
  <2> QED
    BY <2>2, <2>3, MinOfTwo, Numbers
<1>2. ASSUME NEW f \in Nat \ {0}
      PROVE  Capped(f) \in 1 .. Doublings + 1
  <2>1. f \in Nat /\ Doublings + 1 \in Nat
    BY Numbers
  <2>2. Min({f, Doublings + 1}) = IF f <= Doublings + 1 THEN f ELSE Doublings + 1
    BY <2>1, MinOfTwo
  <2> QED
    BY <2>1, <2>2, Numbers DEF Capped
<1> QED
  BY <1>1, <1>2

LEMMA RecordType ==
  ASSUME NostrTypeOK, NEW failed, NEW succeeded, Record(failed, succeeded)
  PROVE  /\ failures' \in [Relays -> 0 .. Doublings + 1]
         /\ nextAttempt' \in [Relays -> 0 .. MaxDelay]
<1>1. /\ failures \in [Relays -> 0 .. Doublings + 1]
      /\ nextAttempt \in [Relays -> 0 .. MaxDelay]
  BY DEF NostrTypeOK
<1>2. ASSUME NEW r \in Relays
      PROVE  /\ failures'[r] \in 0 .. Doublings + 1
             /\ r \in failed => failures'[r] \in Nat \ {0}
  <2>1. failures[r] + 1 \in Nat \ {0}
    BY <1>1
  <2>2. Capped(failures[r] + 1) \in 1 .. Doublings + 1
    BY <2>1, DelaysAreBounded
  <2>3. failures'[r] = IF r \in failed THEN Capped(failures[r] + 1)
                       ELSE IF r \in succeeded THEN 0 ELSE failures[r]
    BY DEF Record
  <2> QED
    BY <1>1, <2>2, <2>3, Numbers
<1>3. ASSUME NEW r \in Relays
      PROVE  nextAttempt'[r] \in 0 .. MaxDelay
  <2>1. nextAttempt'[r] = IF r \in failed THEN Backoff(failures'[r])
                          ELSE IF r \in succeeded THEN 0 ELSE nextAttempt[r]
    BY DEF Record
  <2>2. r \in failed => Backoff(failures'[r]) \in 0 .. MaxDelay
    BY <1>2, DelaysAreBounded
  <2> QED
    BY <1>1, <2>1, <2>2, Numbers
<1>4. failures' = [r \in Relays |-> failures'[r]]
  BY DEF Record
<1>5. nextAttempt' = [r \in Relays |-> nextAttempt'[r]]
  BY DEF Record
<1> QED
  BY <1>2, <1>3, <1>4, <1>5

(* The next attempt of any relay is within the longest delay. *)
LEMMA RetryIsTimed ==
  ASSUME NEW next \in [Relays -> 0 .. MaxDelay]
  PROVE  Min({next[r] : r \in Relays}) \in 0 .. MaxDelay
<1> DEFINE S == {next[r] : r \in Relays}
<1>1. S \subseteq 0 .. MaxDelay /\ S # {} /\ S \subseteq Nat
  BY PeersAssumption, Numbers
<1> HIDE DEF S
<1>2. Min(S) \in S
  BY <1>1, MinIsLeast
<1>3. Min(S) \in 0 .. MaxDelay
  BY <1>1, <1>2
<1> QED
  BY <1>3 DEF S

LEMMA SubscribeKeeps ==
  ASSUME NostrTypeOK, Subscribe, UNCHANGED <<up, manager, publishing>>
  PROVE  NostrTypeOK' /\ (open' # {} \/ retryTimer' # -1)
<1>1. nextAttempt \in [Relays -> 0 .. MaxDelay] /\ -1 \in -1 .. MaxDelay
  BY Numbers DEF NostrTypeOK
<1>2. CASE ActiveRelays = {}
  <2>1. /\ retryTimer' = Min({nextAttempt[r] : r \in Relays})
        /\ UNCHANGED <<active, open, stored>>
    BY <1>2 DEF Subscribe
  <2>2. retryTimer' \in 0 .. MaxDelay
    BY <1>1, <2>1, RetryIsTimed
  <2>3. retryTimer' \in -1 .. MaxDelay /\ retryTimer' # -1
    BY <2>2, Numbers
  <2> QED
    BY <2>1, <2>3 DEF NostrTypeOK, manager
<1>3. CASE ActiveRelays # {}
  <2>1. /\ retryTimer' = -1 /\ active' = ActiveRelays /\ open' = ActiveRelays
        /\ stored' \subseteq Announcements
    BY <1>3 DEF Subscribe
  <2> QED
    BY <1>1, <1>3, <2>1 DEF NostrTypeOK, manager, ActiveRelays
<1> QED
  BY <1>2, <1>3

LEMMA ClosesKeeps ==
  ASSUME NostrTypeOK, SubscribedOrRetrying, NEW r \in Relays, Closes(r),
         UNCHANGED <<config, up, active, publishing>>
  PROVE  NostrTypeOK' /\ SubscribedOrRetrying'
<1>1. open' = open \ {r} /\ stored' \subseteq Announcements
  BY DEF Closes, NostrTypeOK
<1>2. CASE open' = {}
  <2>1. Record(active, {})
    BY <1>2 DEF Closes
  <2>2. /\ failures' \in [Relays -> 0 .. Doublings + 1]
        /\ nextAttempt' \in [Relays -> 0 .. MaxDelay]
    BY <2>1, RecordType
  <2>3. retryTimer' = IF retryTimer # -1 THEN retryTimer
                      ELSE Min({nextAttempt'[s] : s \in Relays})
    BY <1>2 DEF Closes
  <2>4. Min({nextAttempt'[s] : s \in Relays}) \in 0 .. MaxDelay
    BY <2>2, RetryIsTimed
  <2>5. retryTimer' \in -1 .. MaxDelay /\ retryTimer' # -1
    BY <2>3, <2>4, Numbers DEF NostrTypeOK
  <2> QED
    BY <1>1, <2>2, <2>5 DEF NostrTypeOK, SubscribedOrRetrying
<1>3. CASE open' # {}
  <2>1. UNCHANGED <<manager, retryTimer>>
    BY <1>3 DEF Closes
  <2> QED
    BY <1>1, <1>3, <2>1 DEF NostrTypeOK, SubscribedOrRetrying, manager
<1> QED
  BY <1>2, <1>3

LEMMA TickKeepsTimers ==
  ASSUME NostrTypeOK, SubscribedOrRetrying, TimePasses
  PROVE  NostrTypeOK' /\ SubscribedOrRetrying'
<1>1. /\ nextAttempt \in [Relays -> 0 .. MaxDelay]
      /\ retryTimer \in -1 .. MaxDelay /\ retryTimer # 0
  BY DEF NostrTypeOK, TimePasses
<1>2. /\ nextAttempt' = [r \in Relays |-> Sooner(nextAttempt[r])]
      /\ retryTimer' = Sooner(retryTimer)
      /\ UNCHANGED <<config, up, failures, active, open, stored, publishing>>
  BY DEF TimePasses
<1>3. nextAttempt' \in [Relays -> 0 .. MaxDelay]
  <2>1. \A d \in 0 .. MaxDelay : Sooner(d) \in 0 .. MaxDelay
    BY Numbers DEF Sooner
  <2> QED
    BY <1>1, <1>2, <2>1
<1>4. retryTimer' \in -1 .. MaxDelay /\ (retryTimer # -1 => retryTimer' # -1)
  BY <1>1, <1>2, Numbers DEF Sooner
<1> QED
  BY <1>2, <1>3, <1>4 DEF NostrTypeOK, SubscribedOrRetrying

LEMMA NostrStep ==
  ASSUME NostrTypeOK, SubscribedOrRetrying, [TransportNext]_transportVars
  PROVE  NostrTypeOK' /\ SubscribedOrRetrying'
<1>1. CASE UNCHANGED <<config, nostr>>
  BY <1>1 DEF nostr, manager, NostrTypeOK, SubscribedOrRetrying
<1>2. CASE UNCHANGED transportVars
  BY <1>1, <1>2 DEF transportVars
<1>3. CASE Delivery
  <2>1. UNCHANGED <<config, nostr>>
    BY <1>3 DEF Delivery, PublishTimer, Answered, PostEnds, PeerHears
  <2> QED
    BY <1>1, <2>1
<1>4. CASE RetryFires
  <2>1. Subscribe /\ UNCHANGED <<up, manager, publishing>> /\ config' = config
    BY <1>4 DEF RetryFires
  <2> QED
    BY <2>1, SubscribeKeeps DEF SubscribedOrRetrying
<1>5. ASSUME NEW r \in Relays, CannotConnect(r) \/ ClosedByRelay(r)
      PROVE  NostrTypeOK' /\ SubscribedOrRetrying'
  <2>1. Closes(r) /\ UNCHANGED <<config, up, active, publishing>>
    BY <1>5 DEF CannotConnect, ClosedByRelay
  <2> QED
    BY <2>1, ClosesKeeps
<1>6. ASSUME NEW r \in Relays, RelayFails(r) \/ RelayRecovers(r)
      PROVE  NostrTypeOK' /\ SubscribedOrRetrying'
  <2>1. /\ up' \subseteq Relays
        /\ UNCHANGED <<config, manager, active, open, stored, retryTimer, publishing>>
    BY <1>6 DEF RelayFails, RelayRecovers, NostrTypeOK
  <2> QED
    BY <2>1 DEF NostrTypeOK, SubscribedOrRetrying, manager
<1>7. CASE \E k \in KindSet : Announce(k) \/ RelayBrings(k)
  <2>1. UNCHANGED <<config, nostr>>
    BY <1>7 DEF Announce, RelayBrings
  <2> QED
    BY <1>1, <2>1
<1>8. CASE \E i \in Runs, p \in PeerSet : PostLost(i, p) \/ PostTimesOut(i, p)
  <2>1. UNCHANGED <<config, nostr>>
    BY <1>8 DEF PostLost, PostTimesOut, PostEnds
  <2> QED
    BY <1>1, <2>1
<1>9. CASE HearRfb
  <2>1. UNCHANGED <<config, nostr>>
    BY <1>9 DEF HearRfb
  <2> QED
    BY <1>1, <2>1
<1>10. CASE Publish
  <2>1. publishing' = active /\ UNCHANGED <<config, up, manager, active, open, stored, retryTimer>>
    BY <1>10 DEF Publish
  <2> QED
    BY <2>1 DEF NostrTypeOK, SubscribedOrRetrying, manager
<1>11. CASE Published
  <2>1. /\ Record(publishing \ up, publishing \cap up) /\ publishing' = {}
        /\ UNCHANGED <<config, up, active, open, stored, retryTimer>>
    BY <1>11 DEF Published
  <2> QED
    BY <2>1, RecordType DEF NostrTypeOK, SubscribedOrRetrying
<1>12. ASSUME NEW a \in Announcements, RelayBringsStored(a)
       PROVE  NostrTypeOK' /\ SubscribedOrRetrying'
  <2>1. /\ stored' = stored \ {a}
        /\ UNCHANGED <<config, up, manager, active, open, retryTimer, publishing>>
    BY <1>12 DEF RelayBringsStored
  <2> QED
    BY <2>1 DEF NostrTypeOK, SubscribedOrRetrying, manager
<1> QED
  BY <1>2, <1>3, <1>4, <1>5, <1>6, <1>7, <1>8, <1>9, <1>10, <1>11, <1>12, TickKeepsTimers
     DEF TransportNext, Subscribing

-------------------------------------------------------------------------------
(* Results *)

LEMMA ConfigAndFaults ==
  ASSUME config \in Configurations, faults \in 0 .. MaxFaults, [TransportNext]_transportVars
  PROVE  config' \in Configurations /\ faults' \in 0 .. MaxFaults
<1>1. Fault => faults' \in 0 .. MaxFaults
  BY Numbers DEF Fault
<1>2. CASE UNCHANGED transportVars
  BY <1>2 DEF transportVars
<1>3. CASE Delivery
  BY <1>3 DEF Delivery, PublishTimer, Answered, PostEnds, PeerHears
<1>4. CASE Subscribing
  BY <1>4 DEF Subscribing, RetryFires, CannotConnect
<1>5. CASE \E k \in KindSet : Announce(k) \/ RelayBrings(k)
  BY <1>5 DEF Announce, RelayBrings
<1>6. CASE \E i \in Runs, p \in PeerSet : PostLost(i, p) \/ PostTimesOut(i, p)
  BY <1>1, <1>6 DEF PostLost, PostTimesOut, PostEnds
<1>7. CASE HearRfb \/ Publish \/ Published \/ TimePasses
  BY <1>7 DEF HearRfb, Publish, Published, TimePasses
<1>8. CASE \E r \in Relays : ClosedByRelay(r) \/ RelayFails(r) \/ RelayRecovers(r)
  BY <1>1, <1>8 DEF ClosedByRelay, RelayFails, RelayRecovers
<1>9. CASE \E a \in Announcements : RelayBringsStored(a)
  BY <1>9 DEF RelayBringsStored
<1> QED
  BY <1>2, <1>3, <1>4, <1>5, <1>6, <1>7, <1>8, <1>9 DEF TransportNext

LEMMA InitSatisfiesInv == TransportInit => TransportInv
<1> SUFFICES ASSUME TransportInit PROVE TransportInv
  OBVIOUS
<1>1. config \in Configurations /\ faults \in 0 .. MaxFaults
  BY Numbers DEF TransportInit
<1>2. HttpsTypeOK /\ RestIsLeft
  BY IdleRunType DEF TransportInit, HttpsTypeOK, RestIsLeft
<1>3. NostrTypeOK
  <2>1. /\ up \subseteq Relays /\ active \subseteq Relays /\ open = active
        /\ stored = {} /\ publishing = {}
    BY DEF TransportInit
  <2>2. /\ failures \in [Relays -> 0 .. Doublings + 1]
        /\ nextAttempt \in [Relays -> 0 .. MaxDelay]
        /\ retryTimer \in -1 .. MaxDelay
    BY Numbers DEF TransportInit
  <2> QED
    BY <2>1, <2>2 DEF NostrTypeOK
<1>4. LimiterTypeOK /\ WindowsAreApart
  <2>1. bucket = [age |-> 0, count |-> 0] /\ passed = [i \in Remembered |-> RateWindow]
    BY DEF TransportInit, NoBucket
  <2> QED
    BY <2>1, Numbers DEF LimiterTypeOK, WindowsAreApart
<1>5. SubscribedOrRetrying
  BY PeersAssumption DEF TransportInit, SubscribedOrRetrying
<1> QED
  BY <1>1, <1>2, <1>3, <1>4, <1>5 DEF TransportInv, TransportTypeOK

LEMMA StepKeepsInv == TransportInv /\ [TransportNext]_transportVars => TransportInv'
<1> SUFFICES ASSUME TransportInv, [TransportNext]_transportVars PROVE TransportInv'
  OBVIOUS
<1>1. /\ config' \in Configurations /\ faults' \in 0 .. MaxFaults
      /\ HttpsTypeOK' /\ RestIsLeft'
      /\ NostrTypeOK' /\ SubscribedOrRetrying'
      /\ LimiterTypeOK' /\ WindowsAreApart'
  BY ConfigAndFaults, HttpsStep, NostrStep, LimiterStep DEF TransportInv, TransportTypeOK
<1> QED
  BY <1>1 DEF TransportInv, TransportTypeOK

(* The runs of the publishing timer, the relay manager and the limiter stay    *)
(* within what the configuration allows: delays within the longest, counts    *)
(* within the limits.                                                        *)
THEOREM TransportTypeCorrect == TransportSpec => []TransportTypeOK
<1>1. TransportInv => TransportTypeOK
  BY DEF TransportInv
<1> QED
  BY <1>1, InitSatisfiesInv, StepKeepsInv, PTL DEF TransportSpec

(* The limiter never lets more than twice its limit through in any stretch of  *)
(* time as long as a window.                                                 *)
THEOREM LimiterAdmitsTwiceAtMost == TransportSpec => []AtMostTwiceTheLimit
<1>1. TransportInv => AtMostTwiceTheLimit
  <2> SUFFICES ASSUME TransportInv PROVE AtMostTwiceTheLimit
    OBVIOUS
  <2>1. /\ bucket.count \in 0 .. RateMax
        /\ 2 * RateMax + 1 \in Remembered
        /\ 2 * RateMax + 1 > bucket.count + RateMax
    BY Numbers DEF TransportInv, TransportTypeOK, LimiterTypeOK, Remembered
  <2>2. passed[2 * RateMax + 1] = RateWindow
    BY <2>1 DEF TransportInv, WindowsAreApart
  <2> QED
    BY <2>2, Numbers DEF AtMostTwiceTheLimit
<1> QED
  BY <1>1, InitSatisfiesInv, StepKeepsInv, PTL DEF TransportSpec

(* A subscription that has ended is always followed by a timer: federation     *)
(* over relays never stops trying.                                           *)
THEOREM SubscriptionIsRetried == TransportSpec => []SubscribedOrRetrying
<1>1. TransportInv => SubscribedOrRetrying
  BY DEF TransportInv
<1> QED
  BY <1>1, InitSatisfiesInv, StepKeepsInv, PTL DEF TransportSpec

LEMMA PostEndsWhenPosted ==
  ASSUME TransportInv, NEW i \in Runs, NEW j \in Runs, NEW p \in PeerSet, NEW left,
         PostEnds(j, p, left), runs[i].kind # 0, runs'[i].kind # runs[i].kind
  PROVE  \A q \in PeerSet : posted[i][q] = 1
<1>1. HttpsTypeOK /\ RestIsLeft
  BY DEF TransportInv, TransportTypeOK
<1>2. runs \in [Runs -> RunState]
  BY <1>1 DEF HttpsTypeOK
<1>3. CASE runs[j].rest # <<>>
  <2>1. runs' = [runs EXCEPT ![j].flying = (runs[j].flying \ {p}) \cup {Head(runs[j].rest)},
                             ![j].rest = Tail(runs[j].rest)]
    BY <1>3 DEF PostEnds
  <2>2. runs'[i].kind = runs[i].kind
    BY <1>2, <2>1 DEF RunState
  <2> QED
    BY <2>2
<1>4. CASE runs[j].rest = <<>> /\ runs[j].flying # {p}
  <2>1. runs' = [runs EXCEPT ![j].flying = runs[j].flying \ {p}]
    BY <1>4 DEF PostEnds
  <2>2. runs'[i].kind = runs[i].kind
    BY <1>2, <2>1 DEF RunState
  <2> QED
    BY <2>2
<1>5. CASE runs[j].rest = <<>> /\ runs[j].flying = {p}
  <2>1. StartKind(j, runs[j].kind + 1, left)
    BY <1>5 DEF PostEnds
  <2>2. \A m \in Runs : m # j => runs'[m] = runs[m]
    BY <1>2, <2>1 DEF StartKind
  <2>3. i = j
    BY <2>2
  <2>4. ToSet(runs[i].rest) = {}
    BY <1>5, <2>3 DEF ToSet
  <2> QED
    BY <1>1, <2>4 DEF RestIsLeft
<1> QED
  BY <1>3, <1>4, <1>5

(* When a run of the publishing timer goes on to its next kind, or ends, its   *)
(* message was posted to every peer once, however its workers overlapped.     *)
THEOREM RunsPostToEveryPeer == TransportSpec => EveryPeerIsPosted
<1> DEFINE Turned(i) ==
      (runs[i].kind # 0 /\ runs'[i].kind # runs[i].kind) => \A p \in PeerSet : posted[i][p] = 1
<1>1. ASSUME TransportInv, [TransportNext]_transportVars, NEW i \in Runs
      PROVE  Turned(i)
  <2>1. CASE UNCHANGED runs
    BY <2>1
  <2>2. CASE UNCHANGED transportVars
    BY <2>1, <2>2 DEF transportVars, https
  <2>3. ASSUME NEW j \in Runs, PublishTimer(j)
        PROVE  Turned(i)
    <3>1. StartKind(j, 1, wire) /\ runs[j].kind = 0
      BY <2>3 DEF PublishTimer
    <3>2. i # j => runs'[i] = runs[i]
      BY <1>1, <3>1 DEF StartKind, TransportInv, TransportTypeOK, HttpsTypeOK
    <3> QED
      BY <3>1, <3>2
  <2>4. ASSUME NEW j \in Runs, NEW p \in PeerSet,
               Answered(j, p) \/ PostLost(j, p) \/ PostTimesOut(j, p)
        PROVE  Turned(i)
    <3>1. PICK left : PostEnds(j, p, left)
      BY <2>4 DEF Answered, PostLost, PostTimesOut
    <3> QED
      BY <1>1, <3>1, PostEndsWhenPosted
  <2>5. CASE \/ \E w \in wire : PeerHears(w)
             \/ \E k \in KindSet : Announce(k) \/ RelayBrings(k)
             \/ \E a \in Announcements : RelayBringsStored(a)
             \/ Subscribing \/ HearRfb \/ Publish \/ Published \/ TimePasses
             \/ \E r \in Relays : ClosedByRelay(r) \/ RelayFails(r) \/ RelayRecovers(r)
    <3>1. UNCHANGED runs
      BY <2>5 DEF PeerHears, Announce, RelayBrings, RelayBringsStored, Subscribing, RetryFires,
                  CannotConnect, HearRfb, Publish, Published, TimePasses, ClosedByRelay, RelayFails,
                  RelayRecovers, https
    <3> QED
      BY <2>1, <3>1
  <2> QED
    BY <1>1, <2>2, <2>3, <2>4, <2>5 DEF TransportNext, Delivery
<1>2. TransportInv /\ [TransportNext]_transportVars => [\A i \in Runs : Turned(i)]_transportVars
  BY <1>1
<1> QED
  BY <1>2, InitSatisfiesInv, StepKeepsInv, PTL DEF TransportSpec, EveryPeerIsPosted
===============================================================================
