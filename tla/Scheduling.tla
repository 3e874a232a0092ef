------------------------------ MODULE Scheduling ------------------------------
(* How a router chooses nodes and what they ask: scores and capabilities        *)
(* (scheduler/score.ts), the one best node (scheduler/index.ts), the ranked      *)
(* candidates (scheduler/ranking.ts), the answer of /quote, and the price that   *)
(* the client library computes itself. The functions pick capabilities with     *)
(* separate copies of the same rules.                                           *)
(*                                                                              *)
(* A node is [id, caps, load, max, trust] with a sequence of capabilities       *)
(* [model, jobs, window, unit, inRate, outRate, latency]; no job types is {}, no *)
(* window is 0, no estimate of the latency is 0 ms. The price is per token or    *)
(* per second. A request is [model, job, in, out]; NoJob stands for none and     *)
(* AnyModel for any model. Scores are counted in thousandths.                    *)
EXTENDS Integers, SequencesExt

CONSTANTS AnyModel, NoJob, None

-----------------------------------------------------------------------------
(* Capabilities                                                               *)

MatchesJobType(cap, request) ==
  request.job = NoJob \/ request.job \in cap.jobs

FitsContextWindow(cap, request) ==
  cap.window = 0 \/ request.in + request.out <= cap.window

(* The router's price, whatever the unit.                                       *)
EstimatePrice(cap, request) ==
  cap.inRate * request.in + cap.outRate * request.out

\* A variant of Fits, for a mutant: the window is forgotten.
FitsAnyWindow(cap, request) == MatchesJobType(cap, request)

Fits(cap, request) == MatchesJobType(cap, request) /\ FitsContextWindow(cap, request)

(* The capability at the first of the places I.                                 *)
FirstAt(caps, I) == IF I = {} THEN None ELSE caps[CHOOSE i \in I : \A j \in I : i <= j]

(* The capability of least price at the places I, the first one of that price.    *)
CheapestAt(caps, I, request) ==
  LET Price(i) == EstimatePrice(caps[i], request)
      Cheapest == {i \in I : \A j \in I : Price(i) <= Price(j)}
  IN  FirstAt(caps, Cheapest)

(* What score.ts scores a node by.                                             *)
FindCapability(node, request) ==
  FirstAt(node.caps, {i \in DOMAIN node.caps : /\ node.caps[i].model = request.model
                                              /\ Fits(node.caps[i], request)})

PickCheapestCapability(node, request) ==
  CheapestAt(node.caps, {i \in DOMAIN node.caps : Fits(node.caps[i], request)}, request)

ScoredCapability(node, request) ==
  IF request.model = AnyModel THEN PickCheapestCapability(node, request)
                          ELSE FindCapability(node, request)

(* What ranking.ts picks for the offer and for the node, with rules of its own. *)
PickCapabilityForRequest(node, request) ==
  LET Serves(cap) == /\ request.job = NoJob \/ request.job \in cap.jobs
                     /\ cap.window = 0 \/ request.in + request.out <= cap.window
  IN  IF request.model # AnyModel
      THEN FirstAt(node.caps, {i \in DOMAIN node.caps : /\ node.caps[i].model = request.model
                                                       /\ Serves(node.caps[i])})
      ELSE CheapestAt(node.caps, {i \in DOMAIN node.caps : Serves(node.caps[i])}, request)

-----------------------------------------------------------------------------
(* Scores and ranking                                                         *)

LoadFactor(node) == IF node.max > 0 THEN (1000 * node.load) \div node.max ELSE 1000

ScoreNode(node, request) ==
  LET cap == ScoredCapability(node, request)
  IN  IF cap = None THEN None
      ELSE 10 * node.trust - 1000 * EstimatePrice(cap, request) - LoadFactor(node) - cap.latency

Scored(node, request) == [node |-> node, score |-> ScoreNode(node, request)]

SelectNode(nodes, request) ==
  LET Better(best, node) ==
        IF ScoreNode(node, request) = None THEN best
        ELSE IF best = None THEN Scored(node, request)
        ELSE IF best.score < ScoreNode(node, request) THEN Scored(node, request) ELSE best
      best == FoldLeft(Better, None, nodes)
  IN  IF best = None THEN None ELSE best.node

\* A variant, for a mutant: an entry overtakes its equals.
InsertRankedBeforeEquals(ranked, entry) ==
  LET NotHigher == {i \in 1 .. Len(ranked) : entry.score >= ranked[i].score}
      at == IF NotHigher = {} THEN Len(ranked) + 1
            ELSE CHOOSE i \in NotHigher : \A j \in NotHigher : i <= j
  IN  InsertAt(ranked, at, entry)

(* The entry goes before the first of a lower score.                           *)
InsertRanked(ranked, entry) ==
  LET Lower == {i \in 1 .. Len(ranked) : entry.score > ranked[i].score}
      at    == IF Lower = {} THEN Len(ranked) + 1 ELSE CHOOSE i \in Lower : \A j \in Lower : i <= j
  IN  InsertAt(ranked, at, entry)

RankCandidateNodes(nodes, request, topK) ==
  LET limit == IF topK > 0 THEN topK ELSE Len(nodes)
      Rank(ranked, node) ==
        IF ScoreNode(node, request) = None THEN ranked
        ELSE LET longer == InsertRanked(ranked, Scored(node, request))
             IN  IF Len(longer) > limit THEN SubSeq(longer, 1, limit) ELSE longer
      ranked == FoldLeft(Rank, <<>>, nodes)
  IN  [i \in DOMAIN ranked |-> ranked[i].node]

-----------------------------------------------------------------------------
(* Prices                                                                     *)

(* /infer: the node's part of the offer for the node that was selected.         *)
NodeTotal(node, request) == EstimatePrice(PickCapabilityForRequest(node, request), request)

(* /quote: the selected node's first capability of that name, whatever fits.     *)
Quote(nodes, request) ==
  LET node == SelectNode(nodes, request)
      cap  == FirstAt(node.caps, {i \in DOMAIN node.caps : node.caps[i].model = request.model})
  IN  IF node = None THEN None
      ELSE IF cap = None THEN None
      ELSE EstimatePrice(cap, request)

(* The client library: capability by name; its price by its unit, in thousandths;  *)
(* the places of the nodes up to a price.                                        *)
SdkPickCapability(node, model) ==
  FirstAt(node.caps, {i \in DOMAIN node.caps : node.caps[i].model = model})

SdkEstimatePrice(cap, request) ==
  CASE cap.unit = "token"                     -> 1000 * (cap.inRate * request.in
                                                           + cap.outRate * request.out)
    [] cap.unit = "second" /\ cap.latency # 0 -> cap.inRate * cap.latency
    [] OTHER                                  -> None

FilterNodesByPrice(nodes, request, maxPrice) ==
  {i \in DOMAIN nodes :
     LET cap   == SdkPickCapability(nodes[i], request.model)
         price == SdkEstimatePrice(cap, request)
     IN  cap # None /\ price # None /\ price <= 1000 * maxPrice}

-----------------------------------------------------------------------------
(* References                                                                 *)

(* The servable nodes by falling score, equals in their order, up to the limit.  *)
TopK(nodes, request, topK) ==
  LET Servable == {i \in DOMAIN nodes : ScoreNode(nodes[i], request) # None}
      Before(j, i) == \/ ScoreNode(nodes[j], request) > ScoreNode(nodes[i], request)
                      \/ ScoreNode(nodes[j], request) = ScoreNode(nodes[i], request) /\ j < i
      Place(i) == Cardinality({j \in Servable : Before(j, i)}) + 1
      size == IF topK > 0 /\ topK < Cardinality(Servable) THEN topK ELSE Cardinality(Servable)
  IN  [p \in 1 .. size |-> nodes[CHOOSE i \in Servable : Place(i) = p]]

(* One capability for each model: what a registration without variants has.      *)
OneForEachModel(node) ==
  \A i, j \in DOMAIN node.caps : node.caps[i].model = node.caps[j].model => i = j
=============================================================================
