------------------------------ MODULE NodeOffload -----------------------------
(***************************************************************************)
(* Inference on the nodes: /infer and /infer/stream with the checks before *)
(* a call gets a slot, the runner and its timeout, the offload to peers    *)
(* (auction first, then one peer after the other) and to the router, and   *)
(* the router's /node/offload, which asks other nodes.                     *)
(*                                                                         *)
(* A call is one HTTP request that a node or the router handles; a call    *)
(* that offloads awaits another call, its child.  A step is the code       *)
(* between two awaits.  What a node checks without keeping state           *)
(* (signature, access, limits, the receipt) may have either verdict.       *)
(***************************************************************************)
EXTENDS Integers, Sequences, FiniteSets

CONSTANTS
  Nodes,
  Router,
  None,           \* the parent of a call that comes from outside
  Configurations, \* the offload settings the nodes may have
  Capacity,       \* capacityMaxConcurrent - capacityCurrentLoad of each node
  Latency,        \* capabilityLatencyMs of each node
  RequirePayment, \* the nodes with requirePayment
  Timed,          \* the nodes with maxInferenceMs
  Streaming,      \* the nodes whose runner has inferStream
  MaxCalls,       \* bound: so many calls at once
  MaxEnvelopes,   \* bound: so many nonces
  MaxArrivals,    \* bound: so many calls from outside
  MaxLosses       \* bound: so many lost connections

(* offloadPeers in order and without the node itself, offloadAuctionEnabled  *)
(* and offloadRouter.                                                       *)
OffloadSettings == [peers : Seq(Nodes), auction : BOOLEAN, router : BOOLEAN]

ASSUME NodesAssumption ==
  /\ IsFiniteSet(Nodes)
  /\ Router \notin Nodes
  /\ None \notin Nodes \cup {Router}
  /\ Configurations \subseteq [Nodes -> OffloadSettings]
  /\ Capacity \in [Nodes -> Int]
  /\ Latency \in [Nodes -> Nat]
  /\ RequirePayment \subseteq Nodes
  /\ Timed \subseteq Nodes
  /\ Streaming \subseteq Nodes

ASSUME BoundsAssumption ==
  /\ MaxCalls \in Nat
  /\ MaxEnvelopes \in Nat
  /\ MaxArrivals \in Nat
  /\ MaxLosses \in Nat

Calls == 1 .. MaxCalls
Envelopes == 1 .. MaxEnvelopes

VARIABLES
  config,    \* the offload settings of each node
  calls,
  inFlight,  \* service.inFlight of each node
  seen,      \* the nonces in the replay store of each node and of the router
  late,      \* calls of each runner whose result nobody awaits any more
  worked,    \* history: how often each runner was started for an envelope
  fresh,     \* the last nonce made
  arrivals,
  losses

vars == <<config, calls, inFlight, seen, late, worked, fresh, arrivals, losses>>

(* Where a call may be: waiting for the verdict on its signature and the     *)
(* context window of its model, the receipt, the runner, the bids, the      *)
(* award, its turn to ask the next target, or the child it has asked.       *)
PCs == {"idle", "validating", "verifying", "running",
        "bidding", "awarding", "offloading", "waiting", "answered"}

(* held: inFlightRegistered; streaming: the response head was sent; left:   *)
(* the targets to try; asked: the peers whose bid is awaited; bids: their   *)
(* etaMs, -1 without a bid; avoid: avoidNodeIds with the origin.            *)
CallState ==
  [pc : PCs, at : Nodes \cup {Router, None}, kind : {"infer", "stream", "offload"},
   env : Envelopes \cup {0}, parent : Calls \cup {0}, held : BOOLEAN,
   streaming : BOOLEAN, left : Seq(Nodes \cup {Router}), asked : SUBSET Nodes,
   bids : [Nodes -> Int], avoid : SUBSET (Nodes \cup {Router})]

NoBids == [p \in Nodes |-> -1]

NewCall(at, kind, env, parent, avoid) ==
  [pc |-> "validating", at |-> at, kind |-> kind, env |-> env, parent |-> parent,
   held |-> FALSE, streaming |-> FALSE, left |-> <<>>, asked |-> {}, bids |-> NoBids,
   avoid |-> avoid]

IdleCall == [NewCall(None, "infer", 0, 0, {}) EXCEPT !.pc = "idle"]

Init ==
  /\ config \in Configurations
  /\ calls = [c \in Calls |-> IdleCall]
  /\ inFlight = [n \in Nodes |-> 0]
  /\ seen = [s \in Nodes \cup {Router} |-> {}]
  /\ late = [n \in Nodes |-> 0]
  /\ worked = [n \in Nodes |-> [e \in Envelopes |-> 0]]
  /\ fresh = 0
  /\ arrivals = 0
  /\ losses = 0

(* The names of the calls do not matter: a new one gets the first free.     *)
IsNextFree(c) == /\ calls[c].pc = "idle"
                 /\ \A d \in 1 .. c - 1 : calls[d].pc # "idle"

Saturated(n) == inFlight[n] >= Capacity[n]

(* What a call does when it was refused a slot, timed out or failed: the    *)
(* auction, then every peer in order, then the router.                      *)
Peers(n) == config[n].peers
Targets(n) == Peers(n) \o (IF config[n].router THEN <<Router>> ELSE <<>>)
PeersOf(n) == {Peers(n)[i] : i \in DOMAIN Peers(n)}

AttemptOffload(call) ==
  IF config[call.at].auction /\ Peers(call.at) # <<>>
  THEN [call EXCEPT !.pc = "bidding", !.left = Targets(call.at), !.asked = PeersOf(call.at)]
  ELSE [call EXCEPT !.pc = "offloading", !.left = Targets(call.at)]

(* Mutant: the slot is given back with a result only, not with an error.    *)
ReturnWithoutFinally(c, ok) ==
  LET n == calls[c].at
      p == calls[c].parent
      HearFrom(call) ==
        IF ok THEN [call EXCEPT !.pc = "answered"]
              ELSE [call EXCEPT !.pc = "offloading", !.left = Tail(@)]
  IN  /\ calls' = [d \in Calls |-> CASE d = c -> IdleCall
                                     [] d # c /\ d = p -> HearFrom(calls[d])
                                     [] OTHER -> calls[d]]
      /\ inFlight' = IF calls[c].held /\ ok THEN [inFlight EXCEPT ![n] = @ - 1] ELSE inFlight

(* The end of a call, by a result or an error.  Its finally gives the slot  *)
(* back; the parent, if it still listens, has its answer or asks the next.  *)
Return(c, ok) ==
  LET n == calls[c].at
      p == calls[c].parent
      HearFrom(call) ==
        IF ok THEN [call EXCEPT !.pc = "answered"]
              ELSE [call EXCEPT !.pc = "offloading", !.left = Tail(@)]
  IN  /\ calls' = [d \in Calls |-> CASE d = c -> IdleCall
                                     [] d # c /\ d = p -> HearFrom(calls[d])
                                     [] OTHER -> calls[d]]
      /\ inFlight' = IF calls[c].held THEN [inFlight EXCEPT ![n] = @ - 1] ELSE inFlight

-------------------------------------------------------------------------------
(* Up to the slot *)

(* A client or its router posts an envelope, a new one or one posted before. *)
Arrive(c, n, kind, e) ==
  /\ IsNextFree(c)
  /\ arrivals < MaxArrivals
  /\ e \in 1 .. fresh + 1
  /\ calls' = [calls EXCEPT ![c] = NewCall(n, kind, e, 0, {})]
  /\ fresh' = IF e > fresh THEN e ELSE fresh
  /\ arrivals' = arrivals + 1
  /\ UNCHANGED <<config, inFlight, seen, late, worked, losses>>

(* The signature, the access lists, the rate limit, a size or the length    *)
(* for the model's context window is wrong.                                 *)
Refuse(c) ==
  /\ calls[c].pc = "validating"
  /\ Return(c, FALSE)
  /\ UNCHANGED <<config, seen, late, worked, fresh, arrivals, losses>>

Replayed(c) ==
  /\ calls[c].pc = "validating"
  /\ calls[c].env \in seen[calls[c].at]
  /\ Return(c, FALSE)
  /\ UNCHANGED <<config, seen, late, worked, fresh, arrivals, losses>>

(* The capacity check and, in the same step, the slot and the runner.       *)
TakeSlot(c) ==
  LET n == calls[c].at IN
  /\ ~Saturated(n)
  /\ inFlight' = [inFlight EXCEPT ![n] = @ + 1]
  /\ worked' = [worked EXCEPT ![n][calls[c].env] = @ + 1]
  /\ calls' = [calls EXCEPT ![c].pc = "running", ![c].held = TRUE,
                            ![c].streaming = calls[c].kind = "stream"]

FindNoSlot(c) ==
  /\ Saturated(calls[c].at)
  /\ calls' = [calls EXCEPT ![c] = AttemptOffload(@)]
  /\ UNCHANGED <<inFlight, worked>>

(* Mutant: a node that has the receipt to verify does not keep the nonce.   *)
FreshUnkept(c) ==
  LET n == calls[c].at IN
  /\ calls[c].pc = "validating"
  /\ n \in Nodes
  /\ calls[c].env \notin seen[n]
  /\ IF n \in RequirePayment
     THEN /\ calls' = [calls EXCEPT ![c].pc = "verifying"]
          /\ UNCHANGED <<inFlight, worked, seen>>
     ELSE /\ TakeSlot(c) \/ FindNoSlot(c)
          /\ seen' = [seen EXCEPT ![n] = @ \cup {calls[c].env}]
  /\ UNCHANGED <<config, late, fresh, arrivals, losses>>

(* The first time the node sees the nonce.                                  *)
Fresh(c) ==
  LET n == calls[c].at IN
  /\ calls[c].pc = "validating"
  /\ n \in Nodes
  /\ calls[c].env \notin seen[n]
  /\ seen' = [seen EXCEPT ![n] = @ \cup {calls[c].env}]
  /\ IF n \in RequirePayment
     THEN /\ calls' = [calls EXCEPT ![c].pc = "verifying"]
          /\ UNCHANGED <<inFlight, worked>>
     ELSE TakeSlot(c) \/ FindNoSlot(c)
  /\ UNCHANGED <<config, late, fresh, arrivals, losses>>

Paid(c) ==
  /\ calls[c].pc = "verifying"
  /\ TakeSlot(c) \/ FindNoSlot(c)
  /\ UNCHANGED <<config, seen, late, fresh, arrivals, losses>>

Unpaid(c) ==
  /\ calls[c].pc = "verifying"
  /\ Return(c, FALSE)
  /\ UNCHANGED <<config, seen, late, worked, fresh, arrivals, losses>>

-------------------------------------------------------------------------------
(* The runner *)

RunnerAnswers(c) ==
  /\ calls[c].pc = "running"
  /\ Return(c, TRUE)
  /\ UNCHANGED <<config, seen, late, worked, fresh, arrivals, losses>>

(* Mutant: the catch does not ask whether the stream has begun.             *)
CatchErrorOffloading(c) ==
  /\ calls' = [calls EXCEPT ![c] = AttemptOffload(@)]
  /\ UNCHANGED inFlight

(* What the catch does: a stream that has begun ends with an error event,   *)
(* any other call is offloaded, and keeps its slot meanwhile.               *)
CatchError(c) ==
  IF calls[c].streaming
  THEN Return(c, FALSE)
  ELSE /\ calls' = [calls EXCEPT ![c] = AttemptOffload(@)]
       /\ UNCHANGED inFlight

RunnerFails(c) ==
  /\ calls[c].pc = "running"
  /\ CatchError(c)
  /\ UNCHANGED <<config, seen, late, worked, fresh, arrivals, losses>>

(* The key of the receipt cannot be parsed: the catch offloads the call as   *)
(* if its runner had failed, though it holds no slot and nobody has paid.   *)
ReceiptThrows(c) ==
  /\ calls[c].pc = "verifying"
  /\ CatchError(c)
  /\ UNCHANGED <<config, seen, late, worked, fresh, arrivals, losses>>

(* The timer wins the race; the runner goes on.  A runner that streams is   *)
(* not raced: its deadline is looked at when it yields a chunk, and that     *)
(* failure, which also stops it, is RunnerFails.                            *)
HasTimer(c) ==
  /\ calls[c].at \in Timed
  /\ calls[c].kind = "stream" => calls[c].at \notin Streaming

RunnerUntimed(c) == FALSE  \* mutant: the call awaits the runner alone

RunnerTimeout(c) ==
  /\ calls[c].pc = "running"
  /\ HasTimer(c)
  /\ CatchError(c)
  /\ late' = [late EXCEPT ![calls[c].at] = @ + 1]
  /\ UNCHANGED <<config, seen, worked, fresh, arrivals, losses>>

LateAnswer(n) ==
  /\ late[n] > 0
  /\ late' = [late EXCEPT ![n] = @ - 1]
  /\ UNCHANGED <<config, calls, inFlight, seen, worked, fresh, arrivals, losses>>

(* The client of a stream has gone, which the handler sees at a chunk.      *)
StreamAbandoned(c) ==
  /\ calls[c].pc = "running"
  /\ calls[c].kind = "stream"
  /\ calls[c].at \in Streaming
  /\ Return(c, FALSE)
  /\ UNCHANGED <<config, seen, late, worked, fresh, arrivals, losses>>

-------------------------------------------------------------------------------
(* Offload *)

(* /offload/rfb at peer p: a bid by its load at that time, or 409.          *)
Bid(c, p) ==
  /\ calls[c].pc = "bidding"
  /\ p \in calls[c].asked
  /\ calls' = [calls EXCEPT
       ![c].asked = @ \ {p},
       ![c].bids[p] = IF Saturated(p) \/ ~config[p].auction THEN -1
                      ELSE Latency[p] + inFlight[p] * Latency[p]]
  /\ UNCHANGED <<config, inFlight, seen, late, worked, fresh, arrivals, losses>>

(* No bid within offloadAuctionMs: refused, lost, late or not valid.        *)
NoBid(c, p) ==
  /\ calls[c].pc = "bidding"
  /\ p \in calls[c].asked
  /\ calls' = [calls EXCEPT ![c].asked = @ \ {p}]
  /\ UNCHANGED <<config, inFlight, seen, late, worked, fresh, arrivals, losses>>

(* The least etaMs, the first in the order of the peers among equals.       *)
IsWinner(i, order, bids) ==
  /\ bids[order[i]] >= 0
  /\ \A j \in DOMAIN order : bids[order[j]] >= 0 =>
       \/ bids[order[i]] < bids[order[j]]
       \/ bids[order[i]] = bids[order[j]] /\ i <= j

(* The winner is tried first, and again when its turn comes.                *)
CloseAuction(c) ==
  LET order == Peers(calls[c].at)
      bids == calls[c].bids
  IN  /\ calls[c].pc = "bidding"
      /\ calls[c].asked = {}
      /\ \/ /\ bids = NoBids
            /\ calls' = [calls EXCEPT ![c].pc = "offloading"]
         \/ \E i \in DOMAIN order :
              /\ IsWinner(i, order, bids)
              /\ calls' = [calls EXCEPT ![c].pc = "awarding", ![c].bids = NoBids,
                                        ![c].left = <<order[i]>> \o @]
      /\ UNCHANGED <<config, inFlight, seen, late, worked, fresh, arrivals, losses>>

(* /offload/award reserves nothing at the winner, and its answer, or none   *)
(* within offloadAuctionMs, changes nothing at the caller.                  *)
Award(c) ==
  /\ calls[c].pc = "awarding"
  /\ calls' = [calls EXCEPT ![c].pc = "offloading"]
  /\ UNCHANGED <<config, inFlight, seen, late, worked, fresh, arrivals, losses>>

(* forwardToPeer posts the envelope as it came, and so does the router to   *)
(* its candidates.                                                          *)
ForwardToPeer(c, d) ==
  /\ calls[c].pc = "offloading"
  /\ calls[c].left # <<>>
  /\ Head(calls[c].left) \in Nodes
  /\ IsNextFree(d)
  /\ calls' = [calls EXCEPT ![c].pc = "waiting",
                            ![d] = NewCall(Head(calls[c].left), "infer", calls[c].env, c, {})]
  /\ UNCHANGED <<config, inFlight, seen, late, worked, fresh, arrivals, losses>>

(* The router gets an envelope of the node, with a nonce of its own.        *)
AskRouter(c, d) ==
  /\ calls[c].pc = "offloading"
  /\ calls[c].left # <<>>
  /\ Head(calls[c].left) = Router
  /\ IsNextFree(d)
  /\ fresh < MaxEnvelopes
  /\ fresh' = fresh + 1
  /\ calls' = [calls EXCEPT ![c].pc = "waiting",
                            ![d] = NewCall(Router, "offload", fresh', c, {calls[c].at})]
  /\ UNCHANGED <<config, inFlight, seen, late, worked, arrivals, losses>>

(* /node/offload: any of the nodes to avoid no more, in the order of rank.  *)
RouterAdmit(c, ranked) ==
  /\ calls[c].pc = "validating"
  /\ calls[c].at = Router
  /\ calls[c].env \notin seen[Router]
  /\ \A i \in DOMAIN ranked : ranked[i] \notin calls[c].avoid
  /\ seen' = [seen EXCEPT ![Router] = @ \cup {calls[c].env}]
  /\ calls' = [calls EXCEPT ![c].pc = "offloading", ![c].left = ranked]
  /\ UNCHANGED <<config, inFlight, late, worked, fresh, arrivals, losses>>

(* No candidate is left: the router has asked other routers, and one did it. *)
FederationAnswers(c) ==
  /\ calls[c].pc = "offloading"
  /\ calls[c].at = Router
  /\ calls[c].left = <<>>
  /\ Return(c, TRUE)
  /\ UNCHANGED <<config, seen, late, worked, fresh, arrivals, losses>>

(* offload-unavailable, runner-timeout, internal-error, no-nodes-available. *)
GiveUp(c) ==
  /\ calls[c].pc = "offloading"
  /\ calls[c].left = <<>>
  /\ Return(c, FALSE)
  /\ UNCHANGED <<config, seen, late, worked, fresh, arrivals, losses>>

(* The child's answer is valid and becomes the answer of this call.         *)
PassOn(c) ==
  /\ calls[c].pc = "answered"
  /\ Return(c, TRUE)
  /\ UNCHANGED <<config, seen, late, worked, fresh, arrivals, losses>>

(* The connection to the child breaks, or its answer is not valid: the      *)
(* parent asks the next target while the child goes on.                     *)
LoseAnswer(c) ==
  LET p == calls[c].parent IN
  /\ calls[c].pc # "idle"
  /\ p # 0
  /\ losses < MaxLosses
  /\ losses' = losses + 1
  /\ calls' = [calls EXCEPT ![c].parent = 0, ![p].pc = "offloading",
                            ![p].left = Tail(@)]
  /\ UNCHANGED <<config, inFlight, seen, late, worked, fresh, arrivals>>

-------------------------------------------------------------------------------
(* The sequences the router may rank candidates in: without repetition.     *)
Rankings == {s \in UNION {[1 .. k -> Nodes] : k \in 0 .. Cardinality(Nodes)} :
               \A i, j \in DOMAIN s : s[i] = s[j] => i = j}

(* /infer and /infer/stream check the same, in the same order.              *)
Check(c) ==
  Refuse(c) \/ Replayed(c) \/ Fresh(c) \/ Paid(c) \/ Unpaid(c) \/ ReceiptThrows(c)
InferCheck(c) == calls[c].kind = "infer" /\ Check(c)
StreamCheck(c) == calls[c].kind = "stream" /\ Check(c)

Run(c) == RunnerAnswers(c) \/ RunnerFails(c)
InferRun(c) == calls[c].kind = "infer" /\ Run(c)
StreamRun(c) == calls[c].kind = "stream" /\ Run(c)

(* /node/offload, which tries one candidate after the other.                *)
ServeOffload(c) ==
  \/ calls[c].kind = "offload" /\ (Refuse(c) \/ Replayed(c))
  \/ \E ranked \in Rankings : RouterAdmit(c, ranked)
  \/ FederationAnswers(c)

(* The steps that the event loop, a timer or a timeout brings about.        *)
Handle(c) ==
  \/ InferCheck(c) \/ StreamCheck(c) \/ ServeOffload(c)
  \/ RunnerTimeout(c)
  \/ \E p \in Nodes : Bid(c, p) \/ NoBid(c, p)
  \/ CloseAuction(c) \/ Award(c)
  \/ \E d \in Calls : ForwardToPeer(c, d) \/ AskRouter(c, d)
  \/ GiveUp(c) \/ PassOn(c)

Next ==
  \/ \E c \in Calls :
       \/ \E n \in Nodes, kind \in {"infer", "stream"}, e \in Envelopes : Arrive(c, n, kind, e)
       \/ Handle(c) \/ InferRun(c) \/ StreamRun(c) \/ StreamAbandoned(c) \/ LoseAnswer(c)
  \/ \E n \in Nodes : LateAnswer(n)

Spec == Init /\ [][Next]_vars

(* Some handler goes on as long as one can, and a runner that no timer       *)
(* watches answers or fails.  One that is watched may hang.                 *)
FairSpec ==
  /\ Spec
  /\ WF_vars(\E c \in Calls : Handle(c) \/ (~HasTimer(c) /\ (InferRun(c) \/ StreamRun(c))))

-------------------------------------------------------------------------------
TypeOK ==
  /\ config \in Configurations
  /\ calls \in [Calls -> CallState]
  /\ inFlight \in [Nodes -> Int]
  /\ seen \in [Nodes \cup {Router} -> SUBSET Envelopes]
  /\ late \in [Nodes -> Nat]
  /\ worked \in [Nodes -> [Envelopes -> Nat]]
  /\ fresh \in 0 .. MaxEnvelopes
  /\ arrivals \in 0 .. MaxArrivals
  /\ losses \in 0 .. MaxLosses

(* The slots that calls of node n hold.                                     *)
Holders(n) == {c \in Calls : calls[c].at = n /\ calls[c].held}

(* Every path of a call, with its runner's failure, its timeout and the      *)
(* offload that follows, gives back the slot it took, and only that: the     *)
(* counter is the number of calls that hold one, and within the capacity.    *)
SlotsAreHeld ==
  \A n \in Nodes :
    /\ inFlight[n] = Cardinality(Holders(n))
    /\ inFlight[n] > 0 => inFlight[n] <= Capacity[n]

(* Whatever peers forward to each other, in a circle or twice to the winner  *)
(* of an auction, and whatever connections break, a node's runner is started *)
(* at most once for an envelope.                                             *)
WorkOnce == \A n \in Nodes, e \in Envelopes : worked[n][e] <= 1

(* Once the head of an event stream is sent, no other node takes over: the   *)
(* client never gets the chunks of one node and the result of another.       *)
StreamKeepsItsNode == \A c \in Calls : calls[c].streaming => calls[c].pc = "running"

(* Every call is answered, also when peers name each other and when a runner *)
(* that is watched by a timer hangs: after the last one arrived, there comes *)
(* a time without calls.                                                     *)
EveryCallReturns == []<>(\A c \in Calls : calls[c].pc = "idle")

(* docs/runbooks/node-ops.md:45: NODE_CAPACITY_MAX: max concurrent jobs.     *)
JobsWithinCapacity ==
  \A n \in Nodes :
    Cardinality({c \in Calls : calls[c].at = n /\ calls[c].pc = "running"}) + late[n]
      <= Capacity[n]
===============================================================================
