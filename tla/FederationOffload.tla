--------------------------- MODULE FederationOffload --------------------------
(***************************************************************************)
(* A router without capacity hands requests over to its peers: the auction *)
(* and award (attemptFederationOffload, federation/publisher.ts), the      *)
(* peers' /federation/award and /federation/job-submit, and the settlement *)
(* on the requesting router: /federation/job-result, /payment-request,     *)
(* /payment-receipt, retention and restarts.                               *)
(*                                                                         *)
(* A job is known by its requestId alone.  One request may be offloaded    *)
(* several times: /node/offload does so for each node that a router tries  *)
(* and that sends the request back, and clients retry.  All routers run    *)
(* this code; signatures, replay and privacy checks succeed between them,  *)
(* and calls of one requestId have one prompt, so the input hashes agree.  *)
(* What is written and never read by a handler (outboundAwards, bids, the  *)
(* peers' jobs, a job's settlement record) is left out.                    *)
(***************************************************************************)
EXTENDS Integers, FiniteSets

CONSTANTS
  Peers,            \* the routers asked for bids
  Jobs,             \* requestIds
  Offloads,         \* calls of attemptFederationOffload
  JobOf,            \* the job of each call
  Prices,           \* what a peer may bid or find in the end, in msat
  Outputs,          \* what a run may produce
  None,             \* undefined
  MaxSpend,         \* maxSpendMsat
  MaxOffloads,      \* maxOffloads
  MsatPerSat,       \* 1000
  AuctionExpiry,    \* FEDERATION_AUCTION_EXPIRY_MS
  JobRetention,     \* federationJobRetentionMs
  RequestLifetime,  \* PAYMENT_WINDOW_MS + paymentRequestRetentionMs
  MaxTime           \* bound: the clock stops here

ASSUME ParametersAssumption ==
  /\ JobOf \in [Offloads -> Jobs]
  /\ Prices \subseteq Nat \ {0}
  /\ MaxSpend \in Nat
  /\ MaxOffloads \in Nat
  /\ MsatPerSat \in Nat \ {0}
  /\ AuctionExpiry \in Nat
  /\ JobRetention \in Nat
  /\ RequestLifetime \in Nat
  /\ MaxTime \in Nat

VARIABLES
  now,
  phase,     \* how far a call of attemptFederationOffload is
  deadline,  \* the deadlineMs of its RFB, the awardExpiry of its award
  deal,      \* the peer it was awarded to and the accepted price
  sentAt,    \* when it submitted its job
  outbound,  \* service.federation.outboundJobs
  awards,    \* service.federation.awards of each peer: whose award it holds
  served,    \* how far the awarded peer's /federation/job-submit is
  receipts,  \* the RouterReceipts that peers have signed
  requests,  \* service.federationPaymentRequests
  issued,    \* the PaymentRequests that peers got, the latest for each receipt
  settled    \* those whose PaymentReceipt was accepted

requester == <<phase, deadline, deal, sentAt, outbound>>
worker == <<awards, served, receipts>>
settlement == <<requests, issued, settled>>
vars == <<now, requester, worker, settlement>>

Times == 0 .. MaxTime

Deal == [worker : Peers, price : Prices]

\* The output stands for its hash; the receipt's job and worker are its offload's.
Receipt == [offload : Offloads, price : Prices, output : Outputs]

\* by is the call whose submit, award and peer the record has; receipt is that
\* of its result, if it has one.
Job == [by : Offloads, receipt : Receipt \cup {None}, updatedAt : Times]

Request == [receipt : Receipt, at : Times]

ASSUME NoneAssumption ==
  None \notin Offloads \cup Deal \cup Receipt \cup Job \cup Request

(* refused: answered before a job was submitted; broken: after;
   forgotten: submitted before the router was restarted. *)
Phases == {"idle", "auction", "awarding", "awarded", "submitted",
           "done", "refused", "broken", "forgotten"}

TypeOK ==
  /\ now \in Times
  /\ phase \in [Offloads -> Phases]
  /\ deadline \in [Offloads -> 0 .. MaxTime + AuctionExpiry]
  /\ deal \in [Offloads -> Deal \cup {None}]
  /\ sentAt \in [Offloads -> Times]
  /\ outbound \in [Jobs -> Job \cup {None}]
  /\ awards \in [Peers -> [Jobs -> Offloads \cup {None}]]
  /\ served \in [Offloads -> {"no", "running", "ended"}]
  /\ receipts \subseteq Receipt
  /\ requests \in [Jobs -> Request \cup {None}]
  /\ issued \subseteq Request
  /\ settled \subseteq Receipt

Init ==
  /\ now = 0
  /\ phase = [o \in Offloads |-> "idle"]
  /\ deadline = [o \in Offloads |-> 0]
  /\ deal = [o \in Offloads |-> None]
  /\ sentAt = [o \in Offloads |-> 0]
  /\ outbound = [j \in Jobs |-> None]
  /\ awards = [w \in Peers |-> [j \in Jobs |-> None]]
  /\ served = [o \in Offloads |-> "no"]
  /\ receipts = {}
  /\ requests = [j \in Jobs |-> None]
  /\ issued = {}
  /\ settled = {}

-------------------------------------------------------------------------------
(* The requesting router: one call of attemptFederationOffload. *)

Known == {j \in Jobs : outbound[j] # None}

CapReached == Cardinality(Known) >= MaxOffloads

StartAuction(o) ==
  /\ phase[o] = "idle"
  /\ ~CapReached
  /\ phase' = [phase EXCEPT ![o] = "auction"]
  /\ deadline' = [deadline EXCEPT ![o] = now + AuctionExpiry]
  /\ UNCHANGED <<now, deal, sentAt, outbound, worker, settlement>>

RefuseOffload(o) ==
  /\ phase[o] = "idle"
  /\ CapReached
  /\ phase' = [phase EXCEPT ![o] = "refused"]
  /\ UNCHANGED <<now, deadline, deal, sentAt, outbound, worker, settlement>>

\* The bids of all peers are in, or have timed out.  A peer bids no more than
\* the RFB's maxPriceMsat; the cheapest of any bids may be any bid.
AuctionWon(o) ==
  /\ phase[o] = "auction"
  /\ \E w \in Peers, p \in Prices :
       /\ p <= MaxSpend
       /\ deal' = [deal EXCEPT ![o] = [worker |-> w, price |-> p]]
  /\ phase' = [phase EXCEPT ![o] = "awarding"]
  /\ UNCHANGED <<now, deadline, sentAt, outbound, worker, settlement>>

AuctionLost(o) ==
  /\ phase[o] = "auction"
  /\ phase' = [phase EXCEPT ![o] = "refused"]
  /\ UNCHANGED <<now, deadline, deal, sentAt, outbound, worker, settlement>>

\* The record replaces the one that an earlier call for this job has made.
\* Whether the award was delivered is not looked at: publishAward's result is
\* dropped.
SubmitJob(o) ==
  /\ phase[o] \in {"awarding", "awarded"}
  /\ phase' = [phase EXCEPT ![o] = "submitted"]
  /\ sentAt' = [sentAt EXCEPT ![o] = now]
  /\ outbound' = [outbound EXCEPT ![JobOf[o]] =
                    [by |-> o, receipt |-> None, updatedAt |-> now]]
  /\ UNCHANGED <<now, deadline, deal, worker, settlement>>

\* The result and receipt r are stored with the job j, as it is known now.
StoreResult(j, r) ==
  outbound' = [outbound EXCEPT ![j] = [@ EXCEPT !.receipt = r, !.updatedAt = now]]

\* The peer's inline answer: a job that was pruned is left alone, one that was
\* replaced gets this result.
ReceiveResult(o) ==
  /\ phase[o] = "submitted"
  /\ \E r \in receipts :
       /\ r.offload = o
       /\ IF JobOf[o] \in Known THEN StoreResult(JobOf[o], r) ELSE UNCHANGED outbound
  /\ phase' = [phase EXCEPT ![o] = "done"]
  /\ UNCHANGED <<now, deadline, deal, sentAt, worker, settlement>>

\* The fetch fails, the peer refuses or its answer is not valid.
SubmitFails(o) ==
  /\ phase[o] = "submitted"
  /\ phase' = [phase EXCEPT ![o] = "broken"]
  /\ UNCHANGED <<now, deadline, deal, sentAt, outbound, worker, settlement>>

-------------------------------------------------------------------------------
(* The peers: /federation/award and /federation/job-submit. *)

\* The newest award for a job replaces others.
DeliverAward(o) ==
  /\ phase[o] = "awarding"
  /\ now <= deadline[o]
  /\ awards' = [awards EXCEPT ![deal[o].worker][JobOf[o]] = o]
  /\ phase' = [phase EXCEPT ![o] = "awarded"]
  /\ UNCHANGED <<now, deadline, deal, sentAt, outbound, served, receipts, settlement>>

HeldAward(o) == awards[deal[o].worker][JobOf[o]]

\* maxCostMsat is the accepted price of the call's own award; it is compared
\* with that of the award the peer holds.
Admissible(o) ==
  /\ HeldAward(o) # None
  /\ now <= deadline[HeldAward(o)]
  /\ deal[HeldAward(o)].price <= deal[o].price

AcceptJob(o) ==
  /\ phase[o] = "submitted"
  /\ served[o] = "no"
  /\ Admissible(o)
  /\ served' = [served EXCEPT ![o] = "running"]
  /\ UNCHANGED <<now, requester, awards, receipts, settlement>>

RejectJob(o) ==
  /\ phase[o] = "submitted"
  /\ served[o] = "no"
  /\ ~Admissible(o)
  /\ served' = [served EXCEPT ![o] = "ended"]
  /\ UNCHANGED <<now, requester, awards, receipts, settlement>>

\* amountSats: msat rounded up to whole sats, one at least.
InSats(price) ==
  LET sats == (price + MsatPerSat - 1) \div MsatPerSat
  IN IF sats < 1 THEN 1 ELSE sats

\* A mutant of Charge: without the cap.
ChargeUncapped(o, estimate) == estimate

\* The price of the receipt: an estimate from the actual usage, capped.
Charge(o, estimate) == IF deal[o].price <= estimate THEN deal[o].price ELSE estimate

FinishJob(o) ==
  /\ served[o] = "running"
  /\ served' = [served EXCEPT ![o] = "ended"]
  /\ \E estimate \in Prices, output \in Outputs :
       receipts' = receipts \cup
         {[offload |-> o, price |-> Charge(o, estimate), output |-> output]}
  /\ UNCHANGED <<now, requester, awards, settlement>>

\* No node, or none that answers.
FailJob(o) ==
  /\ served[o] = "running"
  /\ served' = [served EXCEPT ![o] = "ended"]
  /\ UNCHANGED <<now, requester, awards, receipts, settlement>>

-------------------------------------------------------------------------------
(* Settlement, on the requesting router. *)

JobOfReceipt(r) == JobOf[r.offload]
WorkerOf(r) == deal[r.offload].worker

\* The peer that did r is the one that the job, as it is known now, was awarded to.
FromWinner(r) ==
  /\ JobOfReceipt(r) \in Known
  /\ WorkerOf(r) = deal[outbound[JobOfReceipt(r)].by].worker
  /\ r.price <= MaxSpend

\* /federation/job-result: the peer posts the result itself.
PostResult(r) ==
  /\ FromWinner(r)
  /\ StoreResult(JobOfReceipt(r), r)
  /\ UNCHANGED <<now, phase, deadline, deal, sentAt, worker, settlement>>

SameOutput(r, job) == job.receipt # None => job.receipt.output = r.output

\* The checks of /federation/payment-request.
Payable(r) == FromWinner(r) /\ SameOutput(r, outbound[JobOfReceipt(r)])

RequestPayment(r) ==
  /\ Payable(r)
  /\ requests' = [requests EXCEPT ![JobOfReceipt(r)] = [receipt |-> r, at |-> now]]
  /\ issued' = {q \in issued : q.receipt # r} \cup {[receipt |-> r, at |-> now]}
  /\ outbound' = [outbound EXCEPT ![JobOfReceipt(r)].updatedAt = now]
  /\ UNCHANGED <<now, phase, deadline, deal, sentAt, worker, settled>>

\* Mutant of Acceptable: sats compared with msat.
AcceptableInMsat(q) ==
  LET stored == requests[JobOfReceipt(q.receipt)]
  IN stored # None /\ InSats(stored.receipt.price) = q.receipt.price

\* The checks of /federation/payment-receipt, for the payment of request q.
Acceptable(q) ==
  LET stored == requests[JobOfReceipt(q.receipt)]
  IN stored # None /\ InSats(stored.receipt.price) = InSats(q.receipt.price)

PostPayment(q) ==
  /\ Acceptable(q)
  /\ settled' = settled \cup {q.receipt}
  /\ outbound' = IF JobOfReceipt(q.receipt) \in Known
                 THEN [outbound EXCEPT ![JobOfReceipt(q.receipt)].updatedAt = now]
                 ELSE outbound
  /\ UNCHANGED <<now, phase, deadline, deal, sentAt, worker, requests, issued>>

-------------------------------------------------------------------------------
(* Retention, restarts and time. *)

\* Mutant of Stale: a job that was touched exactly the retention ago is deleted.
StaleInclusive(job) == job.updatedAt + JobRetention <= now

Stale(job) == job.updatedAt + JobRetention < now
Outdated(request) == request.at + RequestLifetime < now

Prune ==
  /\ outbound' = [j \in Jobs |->
                    IF j \in Known /\ Stale(outbound[j]) THEN None ELSE outbound[j]]
  /\ requests' = [j \in Jobs |->
                    IF requests[j] # None /\ Outdated(requests[j])
                    THEN None ELSE requests[j]]
  /\ UNCHANGED <<now, phase, deadline, deal, sentAt, worker, issued, settled>>

\* outboundJobs are not saved.  Payment requests are, but loadRouterState files
\* them under request, payee type and payee, where no handler looks for them.
PhaseAfterRestart(p) ==
  CASE p = "idle" -> "idle"
    [] p \in {"auction", "awarding", "awarded", "refused"} -> "refused"
    [] OTHER -> "forgotten"

RequesterRestarts ==
  /\ phase' = [o \in Offloads |-> PhaseAfterRestart(phase[o])]
  /\ outbound' = [j \in Jobs |-> None]
  /\ requests' = [j \in Jobs |-> None]
  /\ UNCHANGED <<now, deadline, deal, sentAt, worker, issued, settled>>

\* Neither awards nor running jobs survive; signed receipts are the peers' own.
PeerRestarts(w) ==
  /\ awards' = [awards EXCEPT ![w] = [j \in Jobs |-> None]]
  /\ served' = [o \in Offloads |->
       IF served[o] = "running" /\ deal[o].worker = w THEN "ended" ELSE served[o]]
  /\ UNCHANGED <<now, requester, receipts, settlement>>

Tick ==
  /\ now < MaxTime
  /\ now' = now + 1
  /\ UNCHANGED <<requester, worker, settlement>>

Next ==
  \/ \E o \in Offloads :
       \/ StartAuction(o)
       \/ RefuseOffload(o)
       \/ AuctionWon(o)
       \/ AuctionLost(o)
       \/ DeliverAward(o)
       \/ SubmitJob(o)
       \/ ReceiveResult(o)
       \/ SubmitFails(o)
       \/ AcceptJob(o)
       \/ RejectJob(o)
       \/ FinishJob(o)
       \/ FailJob(o)
  \/ \E r \in receipts : PostResult(r) \/ RequestPayment(r)
  \/ \E q \in issued : PostPayment(q)
  \/ \E w \in Peers : PeerRestarts(w)
  \/ Prune
  \/ RequesterRestarts
  \/ Tick

Spec == Init /\ [][Next]_vars

-------------------------------------------------------------------------------
(* Properties. *)

Submitted == {o \in Offloads : phase[o] \in {"submitted", "done", "broken", "forgotten"}}

\* Another call has submitted the same job.
Repeated(o) == \E other \in Submitted \ {o} : JobOf[other] = JobOf[o]

\* A receipt is refused by /federation/payment-request only when the retention
\* of its job is over, the router was restarted, or the job was offloaded twice:
\* lost or late answers, awards and results of other jobs do not matter.
WorkIsPayable ==
  \A r \in receipts :
    \/ Payable(r)
    \/ phase[r.offload] = "forgotten"
    \/ sentAt[r.offload] + JobRetention < now
    \/ Repeated(r.offload)

\* A payment that was asked for is refused by /federation/payment-receipt only
\* when its request has been kept for its time, the router was restarted, or
\* the same job was offloaded twice.
PaymentsAreAccepted ==
  \A q \in issued :
    \/ Acceptable(q)
    \/ phase[q.receipt.offload] = "forgotten"
    \/ q.at + RequestLifetime < now
    \/ Repeated(q.receipt.offload)

\* What the router owes and pays to a peer was awarded to and done by this peer,
\* at no more than the price of the award.
TermsOf(r) == [job |-> JobOfReceipt(r), worker |-> WorkerOf(r), price |-> r.price]
AmountOf(r) == [job |-> JobOfReceipt(r), worker |-> WorkerOf(r), sats |-> InSats(r.price)]

Postpaid == INSTANCE PostpaidOffload WITH
  Routers <- Peers,
  Due <- InSats,
  awarded <- {[job |-> JobOf[o], worker |-> deal[o].worker, price |-> deal[o].price] :
                o \in {x \in Offloads : deal[x] # None}},
  worked <- {TermsOf(r) : r \in receipts},
  owed <- {AmountOf(q.receipt) : q \in issued},
  settled <- {AmountOf(r) : r \in settled}

ImplementsPostpaid == Postpaid!Spec

\* "Postpay (default): pay on valid receipt": as long as the job's retention
\* lasts and the router is not restarted, the receipt of an awarded peer is paid.
ReceiptsArePaid ==
  \A r \in receipts :
    \/ Payable(r)
    \/ phase[r.offload] = "forgotten"
    \/ sentAt[r.offload] + JobRetention < now

\* "max inflight offloads".
InFlightWithinCap ==
  Cardinality({o \in Offloads : phase[o] = "submitted"}) <= MaxOffloads
===============================================================================
