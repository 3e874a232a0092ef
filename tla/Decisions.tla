------------------------------ MODULE Decisions ------------------------------
(***************************************************************************)
(* The pure parts of the system: how candidates are scored and ranked, what *)
(* trust and stake a node has, what is offered and accepted as payment,     *)
(* which relays are used.  A state is one input, and every input of the     *)
(* given sets is reached from the state that has none.                     *)
(***************************************************************************)
EXTENDS Integers, FiniteSets, Sequences

CONSTANTS
  AnyModel, NoJob, None, NoInvoice, NoRole,
  Schedules,    \* registered nodes and a request
  Trusts,       \* the health, claim, manifest and stake of a node
  Actors,       \* those who stake
  Stakes,       \* a store of stakes, and a commit with its identifier for it
  Slashes,      \* the slashes that may come next, with their identifiers
  Machines,     \* two machines
  Offers,       \* a node's price, a router's fee policy, a node's limit
  Receipts,     \* an offer and a receipt
  Unpaids,      \* expiries of offers, and those that were paid
  Discoveries   \* what directories answer, and the policy for their relays

(* Where nothing is set there is -1. *)
OrUnset(S) == S \cup {-1}

Capability == [model : STRING, jobs : SUBSET STRING, window : Nat, unit : {"token", "second"},
               inRate : Nat, outRate : Nat, latency : Nat]
Candidate == [id : STRING, caps : Seq(Capability), load : Nat, max : Nat, trust : Nat]
Request == [model : STRING \cup {AnyModel}, job : STRING \cup {NoJob}, in : Nat, out : Nat]

Health == [good : Nat, bad : Nat, streak : Nat]

Machine == [x64 : BOOLEAN, avx2 : BOOLEAN, cores : Nat, gb : Nat,
            disk : {"ssd", "hdd", "unknown"}, vram : Nat, latency : OrUnset(Nat)]

Commit == [actor : Actors, units : Nat, expires : Int]
Slash  == [actor : Actors, units : Nat]
Finite(f, S) == IsFiniteSet(DOMAIN f) /\ f \in [DOMAIN f -> S]

Split == [type : {"node", "router"}, id : Nat, amount : Nat,
          role : {NoRole, "node-inference", "router-fee", "other"}]
FeePolicy == [enabled : BOOLEAN, split : BOOLEAN, bps : Nat, flat : Nat,
              min : OrUnset(Nat), max : OrUnset(Nat)]
FeeLimit == [maxSats : OrUnset(Nat), maxBps : OrUnset(Nat)]
Entries(urls) == Seq([url : urls, score : OrUnset(Int), latency : OrUnset(Nat)])

ASSUME KindsAssumption ==
  /\ \A i \in Schedules : i.kind = "schedule"
  /\ \A i \in Stakes : i.kind = "stake"
  /\ \A i \in Receipts : i.kind = "receipt"
  /\ \A i \in Unpaids : i.kind = "unpaid"
  /\ \A i \in Discoveries : i.kind = "relays"

ASSUME SchedulesAssumption ==
  Schedules \subseteq
    [kind : {"schedule"}, nodes : Seq(Candidate), request : Request, topK : Int]

ASSUME NoneAssumption ==
  None \notin Int \cup Capability \cup Candidate \cup [node : Candidate, score : Int]

ASSUME WeightsAssumption ==
  /\ Trusts \subseteq [kind : {"trust"}, health : Health, claimed : Nat, points : Nat, units : Nat]
  /\ Machines \subseteq [kind : {"machine"}, machine : Machine, better : Machine]

ASSUME StakesAssumption ==
  /\ \A i \in Stakes : /\ i.now \in Int /\ i.commit \in Commit
                      /\ i.store = [commits |-> i.store.commits, slashes |-> i.store.slashes]
                      /\ Finite(i.store.commits, Commit) /\ Finite(i.store.slashes, Slash)
  /\ \A s \in Slashes : s.slash \in Slash

ASSUME PaymentsAssumption ==
  /\ NoRole \notin {"node-inference", "router-fee", "other"}
  /\ Offers \subseteq [kind : {"offer"}, nodeTotal : Nat, policy : FeePolicy, limit : FeeLimit]
  /\ \A i \in Receipts : i.offer.splits \in Seq(Split) /\ i.receipt.splits \in Seq(Split)
  /\ \A i \in Unpaids : /\ i.now \in Int /\ i.grace \in Int
                       /\ \A k \in DOMAIN i.expires : i.expires[k] \in Int

ASSUME DiscoveriesAssumption ==
  \A i \in Discoveries :
    /\ \A u \in DOMAIN i.trust : i.trust[u] \in Int
    /\ i.boot \in Entries(DOMAIN i.trust)
    /\ i.payloads \in [1 .. 3 -> Entries(DOMAIN i.trust)]
    /\ i.options \in [minScore : Int, maxResults : OrUnset(Nat)]
    /\ i.policy \in [require : BOOLEAN, maxAge : Int, minScore : Int, maxResults : Int]
    /\ i.age \in Nat

VARIABLE input

Scores == INSTANCE Scheduling
Weights == INSTANCE TrustWeights
Terms == INSTANCE PaymentTerms
Relays == INSTANCE RelayAdmission WITH DefaultMinScore <- 1, DefaultMaxResults <- 3

DecisionInit == input = [kind |-> "none"]

DecisionNext ==
  /\ input.kind = "none"
  /\ \/ input' \in Schedules
     \/ input' \in Trusts
     \/ input' \in Stakes
     \/ input' \in Machines
     \/ input' \in Offers
     \/ input' \in Receipts
     \/ input' \in Unpaids
     \/ input' \in Discoveries

DecisionSpec == DecisionInit /\ [][DecisionNext]_input

-----------------------------------------------------------------------------
(* Properties                                                                 *)

(* The candidates of a request are the best topK nodes by falling score with       *)
(* equals in the order of registration, and the node of /infer is the first of     *)
(* those of /infer/stream: two loops of the code, one that inserts and truncates.   *)
RankingIsTheTopK ==
  input.kind = "schedule" =>
    LET nodes == input.nodes
        r     == input.request
        ranked == Scores!RankCandidateNodes(nodes, r, input.topK)
    IN  /\ ranked = Scores!TopK(nodes, r, input.topK)
        /\ Scores!SelectNode(nodes, r) = IF ranked = <<>> THEN None ELSE Head(ranked)

(* A node is scored by the capability that it is then asked and paid for; and where *)
(* it has one capability for each model and the model is named, quote and offer are  *)
(* the same price. If the price is per token, the client library estimates it the    *)
(* same and does not sort the node out; a price per second it estimates otherwise.   *)
PricesAgree ==
  input.kind = "schedule" =>
    LET nodes == input.nodes
        r     == input.request
        best  == Scores!SelectNode(nodes, r)
        cap   == Scores!SdkPickCapability(best, r.model)
    IN  /\ \A i \in DOMAIN nodes :
             Scores!ScoredCapability(nodes[i], r) = Scores!PickCapabilityForRequest(nodes[i], r)
        /\ best # None /\ r.model # AnyModel /\ Scores!OneForEachModel(best) =>
             /\ Scores!Quote(nodes, r) = Scores!NodeTotal(best, r)
             /\ cap.unit = "token" =>
                  /\ Scores!SdkEstimatePrice(cap, r) = 1000 * Scores!NodeTotal(best, r)
                  /\ \E i \in Scores!FilterNodesByPrice(nodes, r, Scores!NodeTotal(best, r)) :
                       nodes[i] = best

(* "Prices are per-token or per-second, defined per model" and quotes derive from     *)
(* them (docs/pricing.md:8): whatever the unit, the router quotes what the client       *)
(* library estimates, if it can. The code does not: the router prices by tokens only.  *)
QuotesKeepTheUnit ==
  input.kind = "schedule" =>
    LET r     == input.request
        best  == Scores!SelectNode(input.nodes, r)
        price == Scores!SdkEstimatePrice(Scores!SdkPickCapability(best, r.model), r)
    IN  best # None /\ r.model # AnyModel /\ Scores!OneForEachModel(best) /\ price # None =>
          price = 1000 * Scores!Quote(input.nodes, r)

(* One more failure never raises the trust that a node is ranked with, whatever it   *)
(* takes from the weight of the manifest and over the thresholds of the samples.     *)
FailuresNeverHelp ==
  input.kind = "trust" =>
    LET Trust(h) == Weights!WeightedTrust(input.claimed, input.points, input.units, h)
    IN  Trust(Weights!Failed(input.health)) <= Trust(input.health)

(* Stake only fades: time, another slash, or the same commit or slash posted twice    *)
(* give no actor more units than its live commits are worth, and never fewer than none. *)
StakeOnlyFades ==
  input.kind = "stake" =>
    LET once   == Weights!RecordCommit(input.store, input.id, input.commit)
        twice  == Weights!RecordCommit(once, input.id, input.commit)
        Units(s, a, t) == Weights!EffectiveStakeUnits(s, a, t)
    IN  \A a \in Actors :
          /\ Units(input.store, a, input.now + 1) <= Units(input.store, a, input.now)
          /\ Units(once, a, input.now) \in 0 .. Weights!LiveUnits(once, a, input.now)
          /\ Units(twice, a, input.now) = Units(once, a, input.now)
          /\ \A s \in Slashes :
               LET slashed == Weights!RecordSlash(input.store, s.id, s.slash)
               IN  /\ s.id \notin DOMAIN input.store.slashes =>
                        Units(slashed, a, input.now) <= Units(input.store, a, input.now)
                   /\ Weights!RecordSlash(slashed, s.id, s.slash) = slashed

AtLeast(b, m) ==
  /\ m.x64 => b.x64
  /\ m.avx2 => b.avx2
  /\ m.disk = "ssd" => b.disk = "ssd"
  /\ b.cores >= m.cores
  /\ b.gb >= m.gb
  /\ b.vram >= m.vram
  /\ \/ m.latency = Weights!Unset
     \/ b.latency # Weights!Unset /\ b.latency <= m.latency

(* A machine that is no worse than another in any respect never gets fewer points of   *)
(* trust, and has every role and the eligibility to route that the other has. A latency *)
(* that was not measured counts as worse than any that was.                           *)
BetterMachinesGetNoLess ==
  input.kind = "machine" /\ AtLeast(input.better, input.machine) =>
    LET m == input.machine
        b == input.better
        Bands(x) == Weights!CapabilityBands(x)
    IN  /\ Weights!ManifestScore(Bands(m)) <= Weights!ManifestScore(Bands(b))
        /\ Weights!NodeProfiles(Bands(m)) \subseteq Weights!NodeProfiles(Bands(b))
        /\ Weights!RouterEligible(m, Bands(m), TRUE) => Weights!RouterEligible(b, Bands(b), TRUE)

(* A receipt for the offered terms, its splits in any order, is accepted by the       *)
(* router, the client library and a node whose limit leaves room for the rounding of  *)
(* the fee; what the router accepts the library accepts, and it is for the offered     *)
(* splits; what the router counts as unpaid the library does.                         *)
TermsAreHonoured ==
  /\ input.kind = "offer" =>
       LET offer == Terms!Offer("r", 1, 2, input.nodeTotal, input.policy, "i")
           paid  == Terms!CreatePaymentReceipt(offer)
           turned == [paid EXCEPT !.splits = [i \in DOMAIN @ |-> @[Len(@) + 1 - i]]]
       IN  \A receipt \in {paid, turned} :
             /\ Terms!RouterAccepts(offer, receipt)
             /\ Terms!SdkMatches(receipt, offer)
             /\ Terms!LeavesRoom(input.policy, input.limit, Terms!Greater(1, input.nodeTotal)) =>
                  Terms!NodeAccepts(1, "r", receipt, input.limit)
  /\ input.kind = "receipt" =>
       /\ Terms!RouterAccepts(input.offer, input.receipt) =>
            Terms!SdkMatches(input.receipt, input.offer)
       /\ Terms!SplitsMatch(input.offer.splits, input.receipt.splits)
            <=> Terms!Reordered(input.offer.splits, input.receipt.splits)
  /\ input.kind = "unpaid" =>
       Terms!RouterMissing(input.expires, input.paid, input.now, input.grace)
         \subseteq Terms!SdkExpired(input.expires, input.paid, input.now)

(* The snapshot of a discovery is admitted unless it is empty, too old or was made     *)
(* with options below the policy: the relays in it always keep the options beside      *)
(* them. And their scores are the same in whatever order the directories answered.     *)
OwnSnapshotsAreAdmitted ==
  input.kind = "relays" =>
    LET Found(ps) == Relays!DiscoverRelays(input.boot, ps, input.trust, input.options)
        FoundScores(ps) == LET found == Found(ps) IN [i \in DOMAIN found |-> found[i].score]
        a == input.payloads[1]
        b == input.payloads[2]
        c == input.payloads[3]
        relays == Found(input.payloads)
        snapshot == Relays!BuildDiscoverySnapshot(relays, input.options, 5)
    IN  /\ Relays!Eligible(snapshot, input.policy, 5 + input.age, 0) <=>
             /\ relays # <<>>
             /\ input.age <= input.policy.maxAge
             /\ Relays!StrictEnough(input.options, input.policy)
        /\ \A ps \in {<<a, c, b>>, <<b, a, c>>, <<b, c, a>>, <<c, a, b>>, <<c, b, a>>} :
             FoundScores(ps) = FoundScores(input.payloads)
=============================================================================
