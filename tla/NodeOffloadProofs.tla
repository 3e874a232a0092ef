--------------------------- MODULE NodeOffloadProofs --------------------------
(***************************************************************************)
(* Proofs about nodes that offload to each other, for any number of nodes, *)
(* calls, envelopes and lost connections, and every offload setting.       *)
(***************************************************************************)
EXTENDS NodeOffload, FiniteSetTheorems, SequenceTheorems, TLAPS

(* Before the runner no call holds a slot, and what holds one is at a node. *)
HeldAtNodes ==
  \A c \in Calls :
    /\ calls[c].pc \in {"idle", "validating", "verifying"} => ~calls[c].held
    /\ calls[c].held => calls[c].at \in Nodes

(* A call is where its step can be taken. *)
Placed ==
  \A c \in Calls :
    /\ calls[c].pc \in {"verifying", "running", "bidding"} => calls[c].at \in Nodes
    /\ calls[c].pc # "idle" => calls[c].env \in Envelopes /\ calls[c].at \in Nodes \cup {Router}
    /\ calls[c].pc = "waiting" => calls[c].left # <<>>

(* A call that listens to another one waits for it, and for no other. *)
ParentsWait ==
  /\ \A c \in Calls : calls[c].parent # 0 =>
       /\ calls[c].pc # "idle"
       /\ calls[c].parent # c
       /\ calls[calls[c].parent].pc = "waiting"
  /\ \A c, d \in Calls :
       calls[c].parent = calls[d].parent /\ calls[c].parent # 0 => c = d

(* A runner was started only for nonces that the node knows, and not yet for *)
(* the one whose receipt is verified.                                       *)
WorkIsSeen ==
  /\ \A n \in Nodes, e \in Envelopes : worked[n][e] > 0 => e \in seen[n]
  /\ \A c \in Calls : calls[c].pc = "verifying" =>
       /\ calls[c].env \in seen[calls[c].at]
       /\ worked[calls[c].at][calls[c].env] = 0
  /\ \A c, d \in Calls :
       /\ calls[c].pc = "verifying" /\ calls[d].pc = "verifying"
       /\ calls[c].at = calls[d].at /\ calls[c].env = calls[d].env
       => c = d

OffloadInv ==
  /\ TypeOK
  /\ HeldAtNodes
  /\ Placed
  /\ ParentsWait
  /\ WorkIsSeen
  /\ SlotsAreHeld
  /\ WorkOnce
  /\ StreamKeepsItsNode

-------------------------------------------------------------------------------
(* Calls *)

(* What a parent becomes when it hears from its child. *)
LEMMA HearingCall ==
  ASSUME NEW x \in CallState, x.left # <<>>,
         NEW y \in {[x EXCEPT !.pc = "answered"],
                    [x EXCEPT !.pc = "offloading", !.left = Tail(@)]}
  PROVE  /\ y \in CallState
         /\ y.pc \in {"answered", "offloading"}
         /\ y.at = x.at /\ y.env = x.env /\ y.parent = x.parent
         /\ y.held = x.held /\ y.streaming = x.streaming
<1>1. Tail(x.left) \in Seq(Nodes \cup {Router})
  BY HeadTailProperties DEF CallState
<1>2. CASE y = [x EXCEPT !.pc = "answered"]
  BY <1>2 DEF CallState, PCs
<1>3. CASE y = [x EXCEPT !.pc = "offloading", !.left = Tail(@)]
  BY <1>1, <1>3 DEF CallState, PCs
<1> QED
  BY <1>2, <1>3

-------------------------------------------------------------------------------
(* Slots *)

LEMMA CallsAreFinite == IsFiniteSet(Calls) /\ 0 \notin Calls
  BY FS_Interval, BoundsAssumption DEF Calls

LEMMA NothingAsked == NoBids \in [Nodes -> Int] /\ <<>> \in Seq(Nodes \cup {Router})
  BY DEF NoBids

LEMMA IdleCallType ==
  /\ IdleCall \in CallState
  /\ IdleCall.pc = "idle" /\ IdleCall.parent = 0
  /\ ~IdleCall.held /\ ~IdleCall.streaming
  BY NothingAsked DEF IdleCall, NewCall, CallState, PCs

LEMMA HoldersAreFinite ==
  ASSUME NEW n
  PROVE  IsFiniteSet(Holders(n)) /\ Cardinality(Holders(n)) \in Nat
<1>1. Holders(n) \subseteq Calls
  BY DEF Holders
<1> QED
  BY <1>1, CallsAreFinite, FS_Subset, FS_CardinalityType

(* Nobody takes or gives back a slot. *)
LEMMA SameHolders ==
  ASSUME SlotsAreHeld,
         \A c \in Calls, n \in Nodes :
           (calls'[c].at = n /\ calls'[c].held) <=> (calls[c].at = n /\ calls[c].held),
         UNCHANGED inFlight
  PROVE  SlotsAreHeld'
<1>1. \A n \in Nodes : Holders(n)' = Holders(n)
  BY DEF Holders
<1> QED
  BY <1>1 DEF SlotsAreHeld

-------------------------------------------------------------------------------
(* Ends of calls *)

LEMMA Returns ==
  ASSUME OffloadInv, NEW c \in Calls, NEW ok \in BOOLEAN,
         calls[c].pc \notin {"idle", "waiting"},
         Return(c, ok),
         UNCHANGED <<config, seen, worked, fresh, arrivals, losses>>,
         late' \in [Nodes -> Nat]
  PROVE  OffloadInv'
<1> DEFINE p == calls[c].parent
           n == calls[c].at
<1> USE DEF OffloadInv
<1>0. /\ calls \in [Calls -> CallState]
      /\ inFlight \in [Nodes -> Int]
  BY DEF TypeOK
<1>1. calls[c] \in CallState
  BY <1>0
<1>2. p \in Calls \cup {0} /\ p # c
  BY <1>1, CallsAreFinite DEF CallState, ParentsWait
<1>3. p # 0 => calls[p].pc = "waiting" /\ calls[p].left # <<>>
  BY <1>2, CallsAreFinite DEF ParentsWait, Placed
<1>4. calls' = [d \in Calls |-> IF d = c THEN IdleCall
                                ELSE IF d = p
                                THEN IF ok THEN [calls[d] EXCEPT !.pc = "answered"]
                                     ELSE [calls[d] EXCEPT !.pc = "offloading", !.left = Tail(@)]
                                ELSE calls[d]]
  BY DEF Return
<1>5. inFlight' = IF calls[c].held THEN [inFlight EXCEPT ![n] = @ - 1] ELSE inFlight
  BY DEF Return
<1>6. IdleCall \in CallState /\ IdleCall.pc = "idle" /\ ~IdleCall.held
      /\ IdleCall.parent = 0 /\ ~IdleCall.streaming
  BY IdleCallType
<1>7. calls'[c] = IdleCall
  BY <1>4
<1>8. \A d \in Calls \ {c} :
        /\ calls'[d] \in CallState
        /\ calls'[d].at = calls[d].at
        /\ calls'[d].env = calls[d].env
        /\ calls'[d].parent = calls[d].parent
        /\ calls'[d].held = calls[d].held
        /\ calls'[d].streaming = calls[d].streaming
        /\ d # p => calls'[d] = calls[d]
        /\ d = p => calls'[d].pc \in {"answered", "offloading"}
  <2> SUFFICES ASSUME NEW d \in Calls \ {c}
               PROVE  /\ calls'[d] \in CallState
                      /\ calls'[d].at = calls[d].at
                      /\ calls'[d].env = calls[d].env
                      /\ calls'[d].parent = calls[d].parent
                      /\ calls'[d].held = calls[d].held
                      /\ calls'[d].streaming = calls[d].streaming
                      /\ d # p => calls'[d] = calls[d]
                      /\ d = p => calls'[d].pc \in {"answered", "offloading"}
    OBVIOUS
  <2>1. CASE d # p
    BY <2>1, <1>0, <1>4
  <2>2. CASE d = p
    <3>1. calls[d] \in CallState /\ calls[d].left # <<>>
      BY <2>2, <1>0, <1>3, CallsAreFinite
    <3>2. calls'[d] \in {[calls[d] EXCEPT !.pc = "answered"],
                        [calls[d] EXCEPT !.pc = "offloading", !.left = Tail(@)]}
      BY <2>2, <1>4
    <3>3. /\ calls'[d] \in CallState
          /\ calls'[d].pc \in {"answered", "offloading"}
          /\ calls'[d].at = calls[d].at
          /\ calls'[d].env = calls[d].env
          /\ calls'[d].parent = calls[d].parent
          /\ calls'[d].held = calls[d].held
          /\ calls'[d].streaming = calls[d].streaming
      BY <3>1, <3>2, HearingCall
    <3> QED
      BY <2>2, <3>3
  <2> QED
    BY <2>1, <2>2
<1>9. TypeOK'
  <2>1. calls' \in [Calls -> CallState]
    BY <1>4, <1>6, <1>7, <1>8
  <2>2. inFlight' \in [Nodes -> Int]
    BY <1>5, <1>0 DEF HeldAtNodes
  <2> QED
    BY <2>1, <2>2 DEF TypeOK
<1>10. HeldAtNodes'
  BY <1>6, <1>7, <1>8 DEF HeldAtNodes
<1>11. Placed'
  BY <1>3, <1>6, <1>7, <1>8, CallsAreFinite DEF Placed
<1>12. ParentsWait'
  <2>1. \A d \in Calls : calls'[d].parent # 0 =>
          /\ d # c
          /\ calls'[d].parent = calls[d].parent
          /\ calls[d].parent # p
          /\ calls[d].parent # c
    BY <1>6, <1>7, <1>8 DEF ParentsWait
  <2>2. \A d \in Calls : calls'[d].parent # 0 =>
          calls'[calls'[d].parent].pc = "waiting" /\ calls'[d].pc # "idle"
    <3> SUFFICES ASSUME NEW d \in Calls, calls'[d].parent # 0
                 PROVE  calls'[calls'[d].parent].pc = "waiting" /\ calls'[d].pc # "idle"
      OBVIOUS
    <3>1. calls[d].parent \in Calls /\ calls[d] \in CallState
      BY <2>1, <1>0 DEF CallState
    <3>2. calls'[calls[d].parent] = calls[calls[d].parent]
      BY <3>1, <2>1, <1>8
    <3> QED
      BY <3>1, <3>2, <2>1, <1>8 DEF ParentsWait
  <2> QED
    BY <2>1, <2>2 DEF ParentsWait
<1>13. WorkIsSeen'
  <2>1. \A d \in Calls : calls'[d].pc = "verifying" => d # c /\ calls'[d] = calls[d]
    BY <1>6, <1>7, <1>8
  <2> QED
    BY <2>1 DEF WorkIsSeen
<1>14. SlotsAreHeld'
  <2>1. CASE ~calls[c].held
    <3>1. \A d \in Calls, m \in Nodes :
            (calls'[d].at = m /\ calls'[d].held) <=> (calls[d].at = m /\ calls[d].held)
      BY <2>1, <1>6, <1>7, <1>8
    <3> QED
      BY <2>1, <3>1, <1>5, SameHolders
  <2>2. CASE calls[c].held
    <3>1. PICK m \in Nodes : m = calls[c].at
      BY <2>2 DEF HeldAtNodes
    <3>2. Holders(m)' = Holders(m) \ {c} /\ c \in Holders(m)
      BY <2>2, <3>1, <1>6, <1>7, <1>8 DEF Holders
    <3>3. /\ Cardinality(Holders(m)') = Cardinality(Holders(m)) - 1
          /\ Cardinality(Holders(m)) \in Nat
      <4> DEFINE H == Holders(m)
      <4>1. IsFiniteSet(H) /\ Cardinality(H) \in Nat
        BY HoldersAreFinite
      <4>2. Holders(m)' = H \ {c} /\ c \in H
        BY <3>2
      <4> HIDE DEF H
      <4>3. Cardinality(H \ {c}) = Cardinality(H) - 1
        BY <4>1, <4>2, FS_RemoveElement
      <4>4. Cardinality(Holders(m)') = Cardinality(H) - 1
        BY <4>2, <4>3
      <4> QED
        BY <4>1, <4>4 DEF H
    <3>4. \A k \in Nodes \ {m} : Holders(k)' = Holders(k)
      BY <3>1, <1>6, <1>7, <1>8 DEF Holders
    <3>5. \A k \in Nodes : inFlight'[k] = IF k = m THEN inFlight[k] - 1 ELSE inFlight[k]
      BY <2>2, <3>1, <1>0, <1>5
    <3>6. Capacity \in [Nodes -> Int]
      BY NodesAssumption
    <3> QED
      BY <3>3, <3>4, <3>5, <3>6, <1>0 DEF SlotsAreHeld
  <2> QED
    BY <2>1, <2>2
<1>15. WorkOnce'
  BY DEF WorkOnce
<1>16. StreamKeepsItsNode'
  <2>1. p # 0 => ~calls[p].streaming
    BY <1>2, <1>3 DEF StreamKeepsItsNode
  <2> QED
    BY <2>1, <1>6, <1>7, <1>8, CallsAreFinite DEF StreamKeepsItsNode
<1> QED
  BY <1>9, <1>10, <1>11, <1>12, <1>13, <1>14, <1>15, <1>16


-------------------------------------------------------------------------------
(* Calls that go on without taking or giving back a slot *)

LEMMA Moves ==
  ASSUME OffloadInv, NEW c \in Calls, NEW x \in CallState,
         calls[c].pc \notin {"idle", "waiting"},
         calls' = [calls EXCEPT ![c] = x],
         x.pc \in {"verifying", "bidding", "awarding", "offloading"},
         x.at = calls[c].at, x.env = calls[c].env, x.parent = calls[c].parent,
         x.held = calls[c].held, ~x.streaming,
         x.pc = "bidding" => x.at \in Nodes,
         x.pc = "verifying" => /\ x.at \in Nodes
                               /\ ~x.held
                               /\ x.env \in seen'[x.at] \ seen[x.at],
         seen' \in [Nodes \cup {Router} -> SUBSET Envelopes],
         \A s \in Nodes \cup {Router} : seen[s] \subseteq seen'[s],
         late' \in [Nodes -> Nat],
         UNCHANGED <<config, inFlight, worked, fresh, arrivals, losses>>
  PROVE  OffloadInv'
<1> USE DEF OffloadInv
<1>0. /\ calls \in [Calls -> CallState]
      /\ calls[c] \in CallState
      /\ worked \in [Nodes -> [Envelopes -> Nat]]
  BY DEF TypeOK
<1>1. calls'[c] = x /\ \A d \in Calls \ {c} : calls'[d] = calls[d]
  BY <1>0
<1>2. TypeOK'
  BY <1>0 DEF TypeOK
<1>3. HeldAtNodes'
  BY <1>1 DEF HeldAtNodes
<1>4. Placed'
  BY <1>1 DEF Placed
<1>5. ParentsWait'
  <2>1. \A d \in Calls : /\ calls'[d].parent = calls[d].parent
                         /\ calls[d].pc = "waiting" => calls'[d].pc = "waiting"
                         /\ calls'[d].pc = "idle" <=> calls[d].pc = "idle"
    BY <1>1
  <2>2. \A d \in Calls : calls[d].parent \in Calls \cup {0}
    BY <1>0 DEF CallState
  <2> QED
    BY <2>1, <2>2 DEF ParentsWait
<1>6. WorkIsSeen'
  <2>1. \A n \in Nodes, e \in Envelopes : worked'[n][e] > 0 => e \in seen'[n]
    BY DEF WorkIsSeen
  <2>2. x.pc = "verifying" => worked[x.at][x.env] = 0
    <3> SUFFICES ASSUME x.pc = "verifying"
                 PROVE  worked[x.at][x.env] = 0
      OBVIOUS
    <3>1. x.at \in Nodes /\ x.env \in Envelopes /\ x.env \notin seen[x.at]
      BY DEF Placed
    <3>2. worked[x.at][x.env] \in Nat /\ ~(worked[x.at][x.env] > 0)
      BY <3>1, <1>0 DEF WorkIsSeen
    <3> QED
      BY <3>2
  <2>3. \A d \in Calls : calls'[d].pc = "verifying" =>
          calls'[d].env \in seen'[calls'[d].at] /\ worked'[calls'[d].at][calls'[d].env] = 0
    BY <1>1, <2>2 DEF WorkIsSeen, Placed
  <2>4. \A d \in Calls \ {c} :
          ~(x.pc = "verifying" /\ calls[d].pc = "verifying"
            /\ x.at = calls[d].at /\ x.env = calls[d].env)
    BY DEF WorkIsSeen
  <2>5. \A d, b \in Calls :
          /\ calls'[d].pc = "verifying" /\ calls'[b].pc = "verifying"
          /\ calls'[d].at = calls'[b].at /\ calls'[d].env = calls'[b].env
          => d = b
    BY <1>1, <2>4 DEF WorkIsSeen
  <2> QED
    BY <2>1, <2>3, <2>5 DEF WorkIsSeen
<1>7. SlotsAreHeld'
  <2>1. \A d \in Calls, n \in Nodes :
          (calls'[d].at = n /\ calls'[d].held) <=> (calls[d].at = n /\ calls[d].held)
    BY <1>1
  <2> QED
    BY <2>1, SameHolders
<1>8. WorkOnce'
  BY DEF WorkOnce
<1>9. StreamKeepsItsNode'
  BY <1>1 DEF StreamKeepsItsNode
<1> QED
  BY <1>2, <1>3, <1>4, <1>5, <1>6, <1>7, <1>8, <1>9

(* attemptOffload keeps all of the call but its targets. *)
LEMMA Offloads ==
  ASSUME OffloadInv, NEW c \in Calls, calls[c].at \in Nodes
  PROVE  LET x == AttemptOffload(calls[c]) IN
         /\ x \in CallState
         /\ x.pc \in {"bidding", "offloading"}
         /\ x.at = calls[c].at /\ x.env = calls[c].env /\ x.parent = calls[c].parent
         /\ x.held = calls[c].held /\ x.streaming = calls[c].streaming
<1> DEFINE n == calls[c].at
<1>1. calls[c] \in CallState /\ config \in [Nodes -> OffloadSettings]
  BY NodesAssumption DEF OffloadInv, TypeOK
<1>2. config[n] \in OffloadSettings
  BY <1>1
<1>3. Peers(n) \in Seq(Nodes)
  BY <1>2 DEF Peers, OffloadSettings
<1>4. Peers(n) \in Seq(Nodes \cup {Router})
  BY <1>3, SeqDef
<1>5. Targets(n) \in Seq(Nodes \cup {Router})
  <2>1. <<Router>> \in Seq(Nodes \cup {Router}) /\ <<>> \in Seq(Nodes \cup {Router})
    OBVIOUS
  <2>2. \A s, t \in Seq(Nodes \cup {Router}) : s \o t \in Seq(Nodes \cup {Router})
    BY ConcatProperties
  <2> QED
    BY <1>4, <2>1, <2>2 DEF Targets
<1>6. PeersOf(n) \subseteq Nodes
  BY <1>3, ElementOfSeq DEF PeersOf
<1> HIDE DEF n
<1>7. LET x == AttemptOffload(calls[c]) IN
        \/ x = [calls[c] EXCEPT !.pc = "bidding", !.left = Targets(n), !.asked = PeersOf(n)]
        \/ x = [calls[c] EXCEPT !.pc = "offloading", !.left = Targets(n)]
  BY DEF AttemptOffload, n
<1> QED
  BY <1>1, <1>5, <1>6, <1>7 DEF CallState, PCs

(* A call that offloads after its runner failed or when it got no slot. *)
LEMMA OffloadingMoves ==
  ASSUME OffloadInv, NEW c \in Calls, calls[c].at \in Nodes,
         calls[c].pc \notin {"idle", "waiting"}, ~calls[c].streaming,
         calls' = [calls EXCEPT ![c] = AttemptOffload(@)],
         seen' \in [Nodes \cup {Router} -> SUBSET Envelopes],
         \A s \in Nodes \cup {Router} : seen[s] \subseteq seen'[s],
         late' \in [Nodes -> Nat],
         UNCHANGED <<config, inFlight, worked, fresh, arrivals, losses>>
  PROVE  OffloadInv'
<1> DEFINE x == AttemptOffload(calls[c])
<1>1. /\ x \in CallState
      /\ x.pc \in {"bidding", "offloading"}
      /\ x.at = calls[c].at /\ x.env = calls[c].env /\ x.parent = calls[c].parent
      /\ x.held = calls[c].held /\ ~x.streaming
  BY Offloads
<1>2. calls' = [calls EXCEPT ![c] = x]
  OBVIOUS
<1> HIDE DEF x
<1> QED
  BY <1>1, <1>2, Moves

-------------------------------------------------------------------------------
(* Calls that get a slot *)

LEMMA Starts ==
  ASSUME OffloadInv, NEW c \in Calls,
         calls[c].at \in Nodes,
         calls[c].pc \in {"validating", "verifying"},
         worked[calls[c].at][calls[c].env] = 0,
         \A d \in Calls \ {c} :
           ~(/\ calls[d].pc = "verifying"
             /\ calls[d].at = calls[c].at
             /\ calls[d].env = calls[c].env),
         calls[c].env \in seen'[calls[c].at],
         TakeSlot(c),
         seen' \in [Nodes \cup {Router} -> SUBSET Envelopes],
         \A s \in Nodes \cup {Router} : seen[s] \subseteq seen'[s],
         UNCHANGED <<config, late, fresh, arrivals, losses>>
  PROVE  OffloadInv'
<1> USE DEF OffloadInv
<1>0. /\ calls \in [Calls -> CallState]
      /\ calls[c] \in CallState
      /\ worked \in [Nodes -> [Envelopes -> Nat]]
      /\ inFlight \in [Nodes -> Int]
      /\ calls[c].env \in Envelopes
  BY DEF TypeOK, Placed
<1>m. PICK m \in Nodes : m = calls[c].at
  OBVIOUS
<1>e. PICK e \in Envelopes : e = calls[c].env
  BY <1>0
<1>1. /\ inFlight' = [inFlight EXCEPT ![m] = @ + 1]
      /\ worked' = [worked EXCEPT ![m][e] = @ + 1]
      /\ inFlight[m] < Capacity[m]
  <2>1. /\ inFlight' = [inFlight EXCEPT ![m] = @ + 1]
        /\ worked' = [worked EXCEPT ![m][e] = @ + 1]
        /\ ~(inFlight[m] >= Capacity[m])
    BY <1>m, <1>e DEF TakeSlot, Saturated
  <2>2. inFlight[m] \in Int /\ Capacity[m] \in Int
    BY <1>0, NodesAssumption
  <2> QED
    BY <2>1, <2>2
<1>2. PICK x \in CallState :
        /\ calls' = [calls EXCEPT ![c] = x]
        /\ x.pc = "running" /\ x.held
        /\ x.at = m /\ x.env = e /\ x.parent = calls[c].parent
  <2>0. PICK b \in BOOLEAN : b = (calls[c].kind = "stream")
    OBVIOUS
  <2> DEFINE x == [calls[c] EXCEPT !.pc = "running", !.held = TRUE, !.streaming = b]
  <2>1. calls' = [calls EXCEPT ![c] = x]
    BY <1>0, <2>0 DEF TakeSlot
  <2>2. /\ x \in CallState
        /\ x.pc = "running" /\ x.held
        /\ x.at = m /\ x.env = e /\ x.parent = calls[c].parent
    BY <1>0, <1>m, <1>e DEF CallState, PCs
  <2> QED
    BY <2>1, <2>2
<1>3. calls'[c] = x /\ \A d \in Calls \ {c} : calls'[d] = calls[d]
  BY <1>2, <1>0
<1>4. \A n \in Nodes, f \in Envelopes :
        worked'[n][f] = IF n = m /\ f = e THEN 1 ELSE worked[n][f]
  BY <1>0, <1>1, <1>m, <1>e
<1>5. TypeOK'
  <2>1. worked' \in [Nodes -> [Envelopes -> Nat]]
    BY <1>0, <1>1
  <2>2. inFlight' \in [Nodes -> Int]
    BY <1>0, <1>1
  <2> QED
    BY <2>1, <2>2, <1>0, <1>2 DEF TypeOK
<1>6. HeldAtNodes'
  BY <1>2, <1>3 DEF HeldAtNodes
<1>7. Placed'
  BY <1>2, <1>3 DEF Placed
<1>8. ParentsWait'
  <2>1. \A d \in Calls : /\ calls'[d].parent = calls[d].parent
                         /\ calls[d].pc = "waiting" => calls'[d].pc = "waiting"
                         /\ calls'[d].pc = "idle" <=> calls[d].pc = "idle"
    BY <1>2, <1>3
  <2>2. \A d \in Calls : calls[d].parent \in Calls \cup {0}
    BY <1>0 DEF CallState
  <2> QED
    BY <2>1, <2>2 DEF ParentsWait
<1>9. WorkIsSeen'
  <2>1. \A n \in Nodes, f \in Envelopes : worked'[n][f] > 0 => f \in seen'[n]
    BY <1>4, <1>m, <1>e DEF WorkIsSeen
  <2>2. \A d \in Calls : calls'[d].pc = "verifying" =>
          /\ calls'[d] = calls[d]
          /\ calls[d].env \in Envelopes /\ calls[d].at \in Nodes
          /\ ~(calls[d].at = m /\ calls[d].env = e)
    BY <1>2, <1>3, <1>m, <1>e DEF Placed
  <2>3. \A d \in Calls : calls'[d].pc = "verifying" =>
          calls'[d].env \in seen'[calls'[d].at] /\ worked'[calls'[d].at][calls'[d].env] = 0
    BY <2>2, <1>4 DEF WorkIsSeen
  <2> QED
    BY <2>1, <2>2, <2>3 DEF WorkIsSeen
<1>10. SlotsAreHeld'
  <2>1. Holders(m)' = Holders(m) \cup {c} /\ c \notin Holders(m)
    BY <1>2, <1>3 DEF Holders, HeldAtNodes
  <2>2. /\ Cardinality(Holders(m)') = Cardinality(Holders(m)) + 1
        /\ Cardinality(Holders(m)) \in Nat
    <3> DEFINE H == Holders(m)
    <3>1. IsFiniteSet(H) /\ Cardinality(H) \in Nat
      BY HoldersAreFinite
    <3>2. Holders(m)' = H \cup {c} /\ c \notin H
      BY <2>1
    <3> HIDE DEF H
    <3>3. Cardinality(H \cup {c}) = Cardinality(H) + 1
      BY <3>1, <3>2, FS_AddElement
    <3>4. Cardinality(Holders(m)') = Cardinality(H) + 1
      BY <3>2, <3>3
    <3> QED
      BY <3>1, <3>4 DEF H
  <2>3. \A k \in Nodes \ {m} : Holders(k)' = Holders(k)
    BY <1>2, <1>3, <1>m DEF Holders
  <2>4. \A k \in Nodes : inFlight'[k] = IF k = m THEN inFlight[k] + 1 ELSE inFlight[k]
    BY <1>0, <1>1
  <2>5. Capacity \in [Nodes -> Int]
    BY NodesAssumption
  <2> QED
    BY <2>2, <2>3, <2>4, <2>5, <1>0, <1>1 DEF SlotsAreHeld
<1>11. WorkOnce'
  BY <1>4 DEF WorkOnce
<1>12. StreamKeepsItsNode'
  BY <1>2, <1>3 DEF StreamKeepsItsNode
<1> QED
  BY <1>5, <1>6, <1>7, <1>8, <1>9, <1>10, <1>11, <1>12

-------------------------------------------------------------------------------
(* New calls *)

(* Call d comes from outside, or call c asks and waits for it. *)
LEMMA Calling ==
  ASSUME OffloadInv, NEW d \in Calls, calls[d].pc = "idle",
         NEW x \in CallState, x.pc = "validating", x.at \in Nodes \cup {Router},
         x.env \in Envelopes, x.parent \in Calls \cup {0}, ~x.held, ~x.streaming,
         x.parent # 0 => calls[x.parent].pc = "offloading" /\ calls[x.parent].left # <<>>,
         calls' \in [Calls -> CallState], calls'[d] = x,
         \A e \in Calls \ {d} :
           calls'[e] = IF e = x.parent THEN [calls[e] EXCEPT !.pc = "waiting"] ELSE calls[e],
         fresh' \in 0 .. MaxEnvelopes, arrivals' \in 0 .. MaxArrivals,
         UNCHANGED <<config, inFlight, seen, late, worked, losses>>
  PROVE  OffloadInv'
<1> USE DEF OffloadInv
<1> DEFINE parent == x.parent
<1> HIDE DEF parent
<1>0. calls \in [Calls -> CallState] /\ 0 \notin Calls /\ parent # d
  BY CallsAreFinite DEF TypeOK, parent
<1>1. /\ x \in CallState
      /\ x.pc = "validating" /\ x.parent = parent
      /\ x.at \in Nodes \cup {Router} /\ x.env \in Envelopes
      /\ ~x.held /\ ~x.streaming
      /\ parent \in Calls \cup {0}
      /\ parent # 0 => calls[parent].pc = "offloading" /\ calls[parent].left # <<>>
      /\ \A e \in Calls \ {d} :
           calls'[e] = IF e = parent THEN [calls[e] EXCEPT !.pc = "waiting"] ELSE calls[e]
  BY DEF parent
<1>2. calls'[d] = x
  OBVIOUS
<1>3. \A e \in Calls \ {d} :
        /\ calls'[e] \in CallState
        /\ calls'[e].at = calls[e].at
        /\ calls'[e].env = calls[e].env
        /\ calls'[e].parent = calls[e].parent
        /\ calls'[e].held = calls[e].held
        /\ calls'[e].streaming = calls[e].streaming
        /\ calls'[e].left = calls[e].left
        /\ calls'[e].pc = IF e = parent THEN "waiting" ELSE calls[e].pc
  <2> SUFFICES ASSUME NEW e \in Calls \ {d}
               PROVE  /\ calls'[e] \in CallState
                      /\ calls'[e].at = calls[e].at
                      /\ calls'[e].env = calls[e].env
                      /\ calls'[e].parent = calls[e].parent
                      /\ calls'[e].held = calls[e].held
                      /\ calls'[e].streaming = calls[e].streaming
                      /\ calls'[e].left = calls[e].left
                      /\ calls'[e].pc = IF e = parent THEN "waiting" ELSE calls[e].pc
    OBVIOUS
  <2>1. calls[e] \in CallState
    BY <1>0
  <2>2. CASE e = parent
    <3>1. calls'[e] = [calls[e] EXCEPT !.pc = "waiting"]
      BY <1>1, <2>2
    <3> QED
      BY <2>1, <2>2, <3>1 DEF CallState, PCs
  <2>3. CASE e # parent
    BY <1>1, <2>1, <2>3
  <2> QED
    BY <2>2, <2>3
<1>4. TypeOK'
  BY DEF TypeOK
<1>5. ~calls[d].held
  BY DEF HeldAtNodes
<1>6. HeldAtNodes'
  BY <1>1, <1>2, <1>3 DEF HeldAtNodes
<1>7. Placed'
  BY <1>0, <1>1, <1>2, <1>3 DEF Placed
<1>8. ParentsWait'
  <2>1. \A e \in Calls \ {d} : calls[e].parent # parent \/ parent = 0
    BY <1>1 DEF ParentsWait
  <2>2. \A e \in Calls \ {d} : calls[e].parent # d /\ calls[e].parent \in Calls \cup {0}
    BY <1>0 DEF ParentsWait, CallState
  <2>3. \A e \in Calls : calls'[e].parent # 0 =>
          /\ calls'[e].pc # "idle"
          /\ calls'[e].parent # e
          /\ calls'[calls'[e].parent].pc = "waiting"
    BY <2>1, <2>2, <1>0, <1>1, <1>2, <1>3 DEF ParentsWait
  <2>4. \A e, f \in Calls :
          calls'[e].parent = calls'[f].parent /\ calls'[e].parent # 0 => e = f
    BY <2>1, <1>1, <1>2, <1>3 DEF ParentsWait
  <2> QED
    BY <2>3, <2>4 DEF ParentsWait
<1>9. WorkIsSeen'
  <2>1. \A e \in Calls : calls'[e].pc = "verifying" =>
          e # d /\ calls[e].pc = "verifying"
    BY <1>1, <1>2, <1>3
  <2> QED
    BY <2>1, <1>3 DEF WorkIsSeen
<1>10. SlotsAreHeld'
  <2>1. \A e \in Calls, n \in Nodes :
          (calls'[e].at = n /\ calls'[e].held) <=> (calls[e].at = n /\ calls[e].held)
    BY <1>1, <1>2, <1>3, <1>5
  <2> QED
    BY <2>1, SameHolders
<1>11. WorkOnce'
  BY DEF WorkOnce
<1>12. StreamKeepsItsNode'
  BY <1>0, <1>1, <1>2, <1>3 DEF StreamKeepsItsNode
<1> QED
  BY <1>4, <1>6, <1>7, <1>8, <1>9, <1>10, <1>11, <1>12

(* Call c asks with call d and waits for it. *)
LEMMA Asking ==
  ASSUME OffloadInv, NEW c \in Calls, NEW d \in Calls, calls[d].pc = "idle",
         calls[c].pc = "offloading", calls[c].left # <<>>,
         NEW x \in CallState, x.pc = "validating", x.at \in Nodes \cup {Router},
         x.env \in Envelopes, x.parent = c, ~x.held, ~x.streaming,
         calls' = [calls EXCEPT ![c].pc = "waiting", ![d] = x],
         fresh' \in 0 .. MaxEnvelopes,
         UNCHANGED <<config, inFlight, seen, late, worked, arrivals, losses>>
  PROVE  OffloadInv'
<1>1. /\ calls \in [Calls -> CallState]
      /\ c # d /\ c # 0
      /\ arrivals' \in 0 .. MaxArrivals
  BY CallsAreFinite DEF OffloadInv, TypeOK
<1>2. [calls[c] EXCEPT !.pc = "waiting"] \in CallState
  BY <1>1 DEF CallState, PCs
<1>3. calls' \in [Calls -> CallState] /\ calls'[d] = x
  BY <1>1, <1>2
<1>4. \A e \in Calls \ {d} :
        calls'[e] = IF e = c THEN [calls[e] EXCEPT !.pc = "waiting"] ELSE calls[e]
  BY <1>1
<1>5. x.parent \in Calls \cup {0}
  OBVIOUS
<1>6. \A e \in Calls \ {d} :
        calls'[e] = IF e = x.parent THEN [calls[e] EXCEPT !.pc = "waiting"] ELSE calls[e]
  BY <1>4
<1> QED
  BY <1>1, <1>3, <1>5, <1>6, Calling

-------------------------------------------------------------------------------
(* The steps *)

LEMMA InitSatisfiesInv == Init => OffloadInv
<1> SUFFICES ASSUME Init
             PROVE  OffloadInv
  OBVIOUS
<1>1. \A c \in Calls : /\ calls[c] \in CallState
                       /\ calls[c].pc = "idle" /\ calls[c].parent = 0
                       /\ ~calls[c].held /\ ~calls[c].streaming
  BY IdleCallType DEF Init
<1>2. TypeOK
  BY <1>1, BoundsAssumption DEF Init, TypeOK
<1>3. SlotsAreHeld
  <2>1. \A n \in Nodes : Holders(n) = {}
    BY <1>1 DEF Holders
  <2>2. \A n \in Nodes : inFlight[n] = 0
    BY DEF Init
  <2>3. Cardinality({}) = 0
    BY FS_EmptySet
  <2> QED
    BY <2>1, <2>2, <2>3 DEF SlotsAreHeld
<1>4. HeldAtNodes /\ Placed /\ ParentsWait /\ StreamKeepsItsNode
  BY <1>1 DEF HeldAtNodes, Placed, ParentsWait, StreamKeepsItsNode
<1>5. WorkIsSeen /\ WorkOnce
  BY <1>1 DEF WorkIsSeen, WorkOnce, Init
<1> QED
  BY <1>2, <1>3, <1>4, <1>5 DEF OffloadInv

(* What a call is known to be before any of its steps. *)
LEMMA CallFacts ==
  ASSUME OffloadInv, NEW c \in Calls
  PROVE  /\ calls[c] \in CallState
         /\ calls \in [Calls -> CallState]
         /\ seen \in [Nodes \cup {Router} -> SUBSET Envelopes]
         /\ late \in [Nodes -> Nat]
         /\ worked \in [Nodes -> [Envelopes -> Nat]]
         /\ calls[c].streaming => calls[c].pc = "running"
         /\ calls[c].pc \in {"verifying", "running", "bidding"} => calls[c].at \in Nodes
         /\ calls[c].pc # "idle" =>
              calls[c].env \in Envelopes /\ calls[c].at \in Nodes \cup {Router}
         /\ calls[c].pc \in {"validating", "verifying"} => ~calls[c].held
  BY DEF OffloadInv, TypeOK, StreamKeepsItsNode, Placed, HeldAtNodes

(* The first time a node sees a nonce. *)
LEMMA FreshStep ==
  ASSUME OffloadInv, NEW c \in Calls, Fresh(c)
  PROVE  OffloadInv'
<1> DEFINE n == calls[c].at
<1>1. /\ calls[c].pc = "validating" /\ n \in Nodes /\ calls[c].env \notin seen[n]
      /\ seen' = [seen EXCEPT ![n] = @ \cup {calls[c].env}]
      /\ UNCHANGED <<config, late, fresh, arrivals, losses>>
  BY DEF Fresh
<1>2. calls[c].env \in Envelopes
  BY <1>1, CallFacts
<1>3. /\ seen' \in [Nodes \cup {Router} -> SUBSET Envelopes]
      /\ \A s \in Nodes \cup {Router} : seen[s] \subseteq seen'[s]
      /\ calls[c].env \in seen'[calls[c].at]
  BY <1>1, <1>2, CallFacts
<1>4. CASE n \in RequirePayment
  <2> DEFINE x == [calls[c] EXCEPT !.pc = "verifying"]
  <2>1. calls' = [calls EXCEPT ![c] = x] /\ UNCHANGED <<inFlight, worked>>
    BY <1>4, CallFacts DEF Fresh
  <2>2. /\ x \in CallState
        /\ x.pc = "verifying"
        /\ x.at = n /\ x.env = calls[c].env /\ x.parent = calls[c].parent
        /\ x.held = calls[c].held /\ x.streaming = calls[c].streaming
    BY CallFacts DEF CallState, PCs
  <2>3. late' \in [Nodes -> Nat] /\ ~calls[c].held /\ ~calls[c].streaming
    BY <1>1, CallFacts
  <2> HIDE DEF x
  <2>4. /\ ~x.held /\ ~x.streaming /\ x.at \in Nodes
        /\ x.env \in seen'[x.at] \ seen[x.at]
    BY <1>1, <1>3, <2>2, <2>3
  <2> QED
    BY <1>1, <1>3, <2>1, <2>2, <2>3, <2>4, Moves
<1>5. CASE n \notin RequirePayment /\ TakeSlot(c)
  <2>1. worked[n][calls[c].env] = 0
    BY <1>1, <1>2, CallFacts DEF OffloadInv, WorkIsSeen
  <2>2. \A d \in Calls \ {c} :
          ~(calls[d].pc = "verifying" /\ calls[d].at = n /\ calls[d].env = calls[c].env)
    BY <1>1 DEF OffloadInv, WorkIsSeen
  <2> QED
    BY <1>1, <1>3, <1>5, <2>1, <2>2, Starts
<1>6. CASE n \notin RequirePayment /\ FindNoSlot(c)
  <2>1. calls' = [calls EXCEPT ![c] = AttemptOffload(@)] /\ UNCHANGED <<inFlight, worked>>
    BY <1>6 DEF FindNoSlot
  <2>2. late' \in [Nodes -> Nat] /\ ~calls[c].streaming
    BY <1>1, CallFacts
  <2> QED
    BY <1>1, <1>3, <2>1, <2>2, OffloadingMoves
<1> QED
  BY <1>4, <1>5, <1>6 DEF Fresh

(* The checks of /infer and /infer/stream. *)
LEMMA CheckStep ==
  ASSUME OffloadInv, NEW c \in Calls, Check(c)
  PROVE  OffloadInv'
<1>1. late \in [Nodes -> Nat]
  BY CallFacts
<1>2. CASE Refuse(c)
  BY <1>1, <1>2, Returns DEF Refuse
<1>3. CASE Replayed(c)
  BY <1>1, <1>3, Returns DEF Replayed
<1>4. CASE Fresh(c)
  BY <1>4, FreshStep
<1>5. CASE Paid(c)
  <2>1. /\ calls[c].pc = "verifying" /\ calls[c].at \in Nodes
        /\ UNCHANGED <<config, seen, late, fresh, arrivals, losses>>
        /\ ~calls[c].streaming
    BY <1>5, CallFacts DEF Paid
  <2>2. CASE TakeSlot(c)
    <3>1. /\ worked[calls[c].at][calls[c].env] = 0
          /\ calls[c].env \in seen[calls[c].at]
          /\ \A d \in Calls \ {c} :
               ~(/\ calls[d].pc = "verifying"
                 /\ calls[d].at = calls[c].at
                 /\ calls[d].env = calls[c].env)
      BY <2>1 DEF OffloadInv, WorkIsSeen
    <3>2. seen' = seen /\ seen \in [Nodes \cup {Router} -> SUBSET Envelopes]
      BY <2>1, CallFacts
    <3> QED
      BY <2>1, <2>2, <3>1, <3>2, Starts
  <2>3. CASE FindNoSlot(c)
    <3>1. calls' = [calls EXCEPT ![c] = AttemptOffload(@)] /\ UNCHANGED <<inFlight, worked>>
      BY <2>3 DEF FindNoSlot
    <3>2. seen' = seen /\ seen \in [Nodes \cup {Router} -> SUBSET Envelopes]
      BY <2>1, CallFacts
    <3> QED
      BY <1>1, <2>1, <3>1, <3>2, OffloadingMoves
  <2> QED
    BY <1>5, <2>2, <2>3 DEF Paid
<1>6. CASE Unpaid(c)
  BY <1>1, <1>6, Returns DEF Unpaid
<1>7. CASE ReceiptThrows(c)
  <2>1. /\ calls[c].pc = "verifying" /\ CatchError(c)
        /\ UNCHANGED <<config, seen, late, worked, fresh, arrivals, losses>>
    BY <1>7 DEF ReceiptThrows
  <2>2. CASE calls[c].streaming
    BY <1>1, <2>1, <2>2, Returns DEF CatchError
  <2>3. CASE ~calls[c].streaming
    <3>1. calls' = [calls EXCEPT ![c] = AttemptOffload(@)] /\ UNCHANGED inFlight
      BY <2>1, <2>3 DEF CatchError
    <3>2. calls[c].at \in Nodes /\ seen' = seen /\ seen \in [Nodes \cup {Router} -> SUBSET Envelopes]
      BY <2>1, CallFacts
    <3> QED
      BY <1>1, <2>1, <2>3, <3>1, <3>2, OffloadingMoves
  <2> QED
    BY <2>2, <2>3
<1> QED
  BY <1>2, <1>3, <1>4, <1>5, <1>6, <1>7 DEF Check

(* The runner, its timer and the client of a stream. *)
LEMMA RunnerStep ==
  ASSUME OffloadInv, NEW c \in Calls,
         Run(c) \/ RunnerTimeout(c) \/ StreamAbandoned(c)
  PROVE  OffloadInv'
<1>1. late \in [Nodes -> Nat] /\ seen \in [Nodes \cup {Router} -> SUBSET Envelopes]
  BY CallFacts
<1>2. CASE RunnerAnswers(c)
  BY <1>1, <1>2, Returns DEF RunnerAnswers
<1>3. CASE StreamAbandoned(c)
  BY <1>1, <1>3, Returns DEF StreamAbandoned
<1>4. ASSUME calls[c].pc = "running", CatchError(c), late' \in [Nodes -> Nat],
             UNCHANGED <<config, seen, worked, fresh, arrivals, losses>>
      PROVE  OffloadInv'
  <2>1. CASE calls[c].streaming
    BY <1>4, <2>1, Returns DEF CatchError
  <2>2. CASE ~calls[c].streaming
    <3>1. calls' = [calls EXCEPT ![c] = AttemptOffload(@)] /\ UNCHANGED inFlight
      BY <1>4, <2>2 DEF CatchError
    <3>2. calls[c].at \in Nodes
      BY <1>4, CallFacts
    <3> QED
      BY <1>1, <1>4, <2>2, <3>1, <3>2, OffloadingMoves
  <2> QED
    BY <2>1, <2>2
<1>5. CASE RunnerFails(c)
  BY <1>1, <1>4, <1>5 DEF RunnerFails
<1>6. CASE RunnerTimeout(c)
  <2>1. calls[c].at \in Nodes /\ late' = [late EXCEPT ![calls[c].at] = @ + 1]
    BY <1>6, CallFacts DEF RunnerTimeout
  <2>2. late' \in [Nodes -> Nat]
    BY <1>1, <2>1
  <2> QED
    BY <1>4, <1>6, <2>2 DEF RunnerTimeout
<1> QED
  BY <1>2, <1>3, <1>5, <1>6 DEF Run

(* Bids and the award. *)
LEMMA AuctionStep ==
  ASSUME OffloadInv, NEW c \in Calls,
         \/ \E p \in Nodes : Bid(c, p) \/ NoBid(c, p)
         \/ CloseAuction(c) \/ Award(c)
  PROVE  OffloadInv'
<1>1. /\ late \in [Nodes -> Nat]
      /\ seen \in [Nodes \cup {Router} -> SUBSET Envelopes]
      /\ calls \in [Calls -> CallState]
      /\ calls[c] \in CallState
  BY CallFacts
<1>2. SUFFICES ASSUME NEW x \in CallState,
                      calls' = [calls EXCEPT ![c] = x],
                      \/ x.pc = "bidding" /\ calls[c].pc = "bidding"
                      \/ x.pc \in {"awarding", "offloading"},
                      calls[c].pc \in {"bidding", "awarding"},
                      x.at = calls[c].at, x.env = calls[c].env, x.parent = calls[c].parent,
                      x.held = calls[c].held, x.streaming = calls[c].streaming,
                      UNCHANGED <<config, inFlight, seen, late, worked, fresh, arrivals, losses>>
               PROVE  OffloadInv'
  <2>1. CASE \E p \in Nodes : Bid(c, p)
    <3>1. PICK p \in Nodes : Bid(c, p)
      BY <2>1
    <3>2. PICK b \in Int :
            /\ calls' = [calls EXCEPT ![c].asked = @ \ {p}, ![c].bids[p] = b]
            /\ calls[c].pc = "bidding"
            /\ UNCHANGED <<config, inFlight, seen, late, worked, fresh, arrivals, losses>>
      <4>1. Latency[p] + inFlight[p] * Latency[p] \in Int
        BY NodesAssumption DEF OffloadInv, TypeOK
      <4>2. PICK b \in Int : b = IF Saturated(p) \/ ~config[p].auction THEN -1
                               ELSE Latency[p] + inFlight[p] * Latency[p]
        BY <4>1
      <4> QED
        BY <3>1, <4>2 DEF Bid
    <3> DEFINE x == [calls[c] EXCEPT !.asked = @ \ {p}, !.bids[p] = b]
    <3>3. calls' = [calls EXCEPT ![c] = x]
      BY <3>2, <1>1
    <3>4. /\ x \in CallState
          /\ x.pc = calls[c].pc
          /\ x.at = calls[c].at /\ x.env = calls[c].env /\ x.parent = calls[c].parent
          /\ x.held = calls[c].held /\ x.streaming = calls[c].streaming
      BY <1>1, <3>2 DEF CallState
    <3> HIDE DEF x
    <3> QED
      BY <3>2, <3>3, <3>4, <1>2
  <2>2. CASE \E p \in Nodes : NoBid(c, p)
    <3>1. PICK p \in Nodes : NoBid(c, p)
      BY <2>2
    <3> DEFINE x == [calls[c] EXCEPT !.asked = @ \ {p}]
    <3>2. /\ calls' = [calls EXCEPT ![c] = x]
          /\ calls[c].pc = "bidding"
          /\ UNCHANGED <<config, inFlight, seen, late, worked, fresh, arrivals, losses>>
      BY <3>1, <1>1 DEF NoBid
    <3>3. /\ x \in CallState
          /\ x.pc = calls[c].pc
          /\ x.at = calls[c].at /\ x.env = calls[c].env /\ x.parent = calls[c].parent
          /\ x.held = calls[c].held /\ x.streaming = calls[c].streaming
      BY <1>1 DEF CallState
    <3> HIDE DEF x
    <3> QED
      BY <3>2, <3>3, <1>2
  <2>3. CASE CloseAuction(c)
    <3>1. /\ calls[c].pc = "bidding"
          /\ UNCHANGED <<config, inFlight, seen, late, worked, fresh, arrivals, losses>>
          /\ calls[c].at \in Nodes
      BY <2>3, CallFacts DEF CloseAuction
    <3>2. CASE calls' = [calls EXCEPT ![c].pc = "offloading"]
      <4> DEFINE x == [calls[c] EXCEPT !.pc = "offloading"]
      <4>1. calls' = [calls EXCEPT ![c] = x]
        BY <3>2, <1>1
      <4>2. /\ x \in CallState
            /\ x.pc = "offloading"
            /\ x.at = calls[c].at /\ x.env = calls[c].env /\ x.parent = calls[c].parent
            /\ x.held = calls[c].held /\ x.streaming = calls[c].streaming
        BY <1>1 DEF CallState, PCs
      <4> HIDE DEF x
      <4> QED
        BY <3>1, <4>1, <4>2, <1>2
    <3>3. CASE \E p \in Nodes :
                 calls' = [calls EXCEPT ![c].pc = "awarding", ![c].bids = NoBids,
                                        ![c].left = <<p>> \o @]
      <4>1. PICK p \in Nodes :
              calls' = [calls EXCEPT ![c].pc = "awarding", ![c].bids = NoBids,
                                     ![c].left = <<p>> \o @]
        BY <3>3
      <4> DEFINE left == <<p>> \o calls[c].left
                 x == [calls[c] EXCEPT !.pc = "awarding", !.bids = NoBids, !.left = left]
      <4>2. calls' = [calls EXCEPT ![c] = x]
        BY <4>1, <1>1
      <4>3. left \in Seq(Nodes \cup {Router}) /\ NoBids \in [Nodes -> Int]
        BY <1>1 DEF CallState, NoBids
      <4> HIDE DEF left
      <4>4. /\ x \in CallState
            /\ x.pc = "awarding"
            /\ x.at = calls[c].at /\ x.env = calls[c].env /\ x.parent = calls[c].parent
            /\ x.held = calls[c].held /\ x.streaming = calls[c].streaming
        BY <1>1, <4>3 DEF CallState, PCs
      <4> HIDE DEF x
      <4> QED
        BY <3>1, <4>2, <4>4, <1>2
    <3>4. \A i \in DOMAIN Peers(calls[c].at) : Peers(calls[c].at)[i] \in Nodes
      <4>1. config \in [Nodes -> OffloadSettings]
        BY NodesAssumption DEF OffloadInv, TypeOK
      <4>2. Peers(calls[c].at) \in Seq(Nodes)
        BY <3>1, <4>1 DEF Peers, OffloadSettings
      <4> QED
        BY <4>2, ElementOfSeq
    <3> QED
      BY <2>3, <3>2, <3>3, <3>4 DEF CloseAuction
  <2>4. CASE Award(c)
    <3> DEFINE x == [calls[c] EXCEPT !.pc = "offloading"]
    <3>1. /\ calls' = [calls EXCEPT ![c] = x]
          /\ calls[c].pc = "awarding"
          /\ UNCHANGED <<config, inFlight, seen, late, worked, fresh, arrivals, losses>>
      BY <2>4, <1>1 DEF Award
    <3>2. /\ x \in CallState
          /\ x.pc = "offloading"
          /\ x.at = calls[c].at /\ x.env = calls[c].env /\ x.parent = calls[c].parent
          /\ x.held = calls[c].held /\ x.streaming = calls[c].streaming
      BY <1>1 DEF CallState, PCs
    <3> HIDE DEF x
    <3> QED
      BY <3>1, <3>2, <1>2
  <2> QED
    BY <2>1, <2>2, <2>3, <2>4
<1>3. ~calls[c].streaming /\ (x.pc = "bidding" => x.at \in Nodes)
  BY <1>2, CallFacts
<1>4. seen' = seen /\ late' \in [Nodes -> Nat]
  BY <1>1, <1>2
<1> QED
  BY <1>1, <1>2, <1>3, <1>4, Moves

(* A call that asks another node or the router, or that gives up or is answered. *)
LEMMA ForwardStep ==
  ASSUME OffloadInv, NEW c \in Calls,
         \/ \E d \in Calls : ForwardToPeer(c, d) \/ AskRouter(c, d)
         \/ GiveUp(c) \/ PassOn(c) \/ FederationAnswers(c)
  PROVE  OffloadInv'
<1>1. /\ late \in [Nodes -> Nat]
      /\ calls \in [Calls -> CallState]
      /\ calls[c] \in CallState
      /\ 0 \notin Calls
      /\ fresh \in 0 .. MaxEnvelopes /\ arrivals \in 0 .. MaxArrivals
  BY CallFacts, CallsAreFinite DEF OffloadInv, TypeOK
<1>2. CASE GiveUp(c)
  BY <1>1, <1>2, Returns DEF GiveUp
<1>3. CASE PassOn(c)
  BY <1>1, <1>3, Returns DEF PassOn
<1>4. CASE FederationAnswers(c)
  BY <1>1, <1>4, Returns DEF FederationAnswers
<1>6. CASE \E d \in Calls : ForwardToPeer(c, d)
  <2>1. PICK d \in Calls : ForwardToPeer(c, d)
    BY <1>6
  <2> DEFINE x == NewCall(Head(calls[c].left), "infer", calls[c].env, c, {})
  <2>2. /\ calls[c].env \in Envelopes
        /\ Head(calls[c].left) \in Nodes
        /\ calls[d].pc = "idle" /\ calls[c].pc = "offloading" /\ calls[c].left # <<>>
        /\ calls' = [calls EXCEPT ![c].pc = "waiting", ![d] = x]
        /\ fresh' \in 0 .. MaxEnvelopes
        /\ UNCHANGED <<config, inFlight, seen, late, worked, arrivals, losses>>
    BY <1>1, <2>1, CallFacts DEF ForwardToPeer, IsNextFree
  <2>3. /\ x \in CallState /\ x.pc = "validating" /\ x.at \in Nodes \cup {Router}
        /\ x.env \in Envelopes /\ x.parent = c /\ ~x.held /\ ~x.streaming
    BY <2>2, NothingAsked DEF NewCall, CallState, PCs
  <2> HIDE DEF x
  <2> QED
    BY <1>1, <2>2, <2>3, Asking
<1>7. CASE \E d \in Calls : AskRouter(c, d)
  <2>1. PICK d \in Calls : AskRouter(c, d)
    BY <1>7
  <2>2. /\ fresh + 1 \in Envelopes /\ fresh' = fresh + 1
        /\ fresh' \in 0 .. MaxEnvelopes
    BY <1>1, <2>1, BoundsAssumption DEF AskRouter, Envelopes
  <2> DEFINE x == NewCall(Router, "offload", fresh', c, {calls[c].at})
  <2>3. /\ calls[d].pc = "idle" /\ calls[c].pc = "offloading" /\ calls[c].left # <<>>
        /\ calls' = [calls EXCEPT ![c].pc = "waiting", ![d] = x]
        /\ UNCHANGED <<config, inFlight, seen, late, worked, arrivals, losses>>
    BY <2>1, <2>2 DEF AskRouter, IsNextFree
  <2>4. /\ Router \in Nodes \cup {Router, None} /\ fresh' \in Envelopes \cup {0}
        /\ "offload" \in {"infer", "stream", "offload"}
        /\ c \in Calls \cup {0} /\ {calls[c].at} \in SUBSET (Nodes \cup {Router})
    BY <2>2, <2>3, CallFacts
  <2>5. /\ x \in CallState
        /\ x.pc = "validating" /\ x.at = Router /\ x.env = fresh' /\ x.parent = c
        /\ ~x.held /\ ~x.streaming
    BY <2>4, NothingAsked DEF NewCall, CallState, PCs
  <2> HIDE DEF x
  <2> QED
    BY <1>1, <2>2, <2>3, <2>5, Asking
<1> QED
  BY <1>2, <1>3, <1>4, <1>6, <1>7

(* The connection between a parent and its child breaks. *)
LEMMA LossStep ==
  ASSUME OffloadInv, NEW c \in Calls, LoseAnswer(c)
  PROVE  OffloadInv'
<1> USE DEF OffloadInv
<1>0. /\ calls \in [Calls -> CallState]
      /\ 0 \notin Calls
      /\ calls[c] \in CallState
      /\ calls[c].pc # "idle"
      /\ losses' \in 0 .. MaxLosses
      /\ UNCHANGED <<config, inFlight, seen, late, worked, fresh, arrivals>>
  BY CallsAreFinite, BoundsAssumption DEF TypeOK, LoseAnswer
<1>1. PICK p \in Calls : /\ p = calls[c].parent
                         /\ p # c /\ p # 0
                         /\ calls[p].pc = "waiting" /\ calls[p].left # <<>>
                         /\ ~calls[p].streaming
  BY <1>0 DEF CallState, LoseAnswer, ParentsWait, Placed, StreamKeepsItsNode
<1> DEFINE x == [calls[c] EXCEPT !.parent = 0]
           y == [calls[p] EXCEPT !.pc = "offloading", !.left = Tail(@)]
<1>2. calls' = [d \in Calls |-> IF d = c THEN x ELSE IF d = p THEN y ELSE calls[d]]
  BY <1>0, <1>1 DEF LoseAnswer
<1>3. /\ x \in CallState
      /\ x.pc = calls[c].pc /\ x.at = calls[c].at /\ x.env = calls[c].env /\ x.parent = 0
      /\ x.held = calls[c].held /\ x.streaming = calls[c].streaming /\ x.left = calls[c].left
  BY <1>0 DEF CallState
<1>4. /\ y \in CallState
      /\ y.pc = "offloading"
      /\ y.at = calls[p].at /\ y.env = calls[p].env /\ y.parent = calls[p].parent
      /\ y.held = calls[p].held /\ y.streaming = calls[p].streaming
  <2>1. calls[p] \in CallState
    BY <1>0, <1>1
  <2>2. Tail(calls[p].left) \in Seq(Nodes \cup {Router})
    BY <1>1, <2>1, HeadTailProperties DEF CallState
  <2> QED
    BY <2>1, <2>2 DEF CallState, PCs
<1> HIDE DEF x, y
<1>5. /\ calls'[c] = x /\ calls'[p] = y
      /\ \A d \in Calls \ {c, p} : calls'[d] = calls[d]
  BY <1>1, <1>2
<1>6. TypeOK'
  <2>1. calls' \in [Calls -> CallState]
    BY <1>0, <1>2, <1>3, <1>4
  <2> QED
    BY <2>1, <1>0 DEF TypeOK
<1>7. HeldAtNodes'
  BY <1>3, <1>4, <1>5 DEF HeldAtNodes
<1>8. Placed'
  BY <1>1, <1>3, <1>4, <1>5 DEF Placed
<1>9. ParentsWait'
  <2>1. \A d \in Calls : calls'[d].parent # 0 =>
          /\ d # c
          /\ calls'[d].parent = calls[d].parent
          /\ calls[d].parent # p
          /\ calls[d].parent \in Calls
    <3>1. \A d \in Calls : calls[d].parent \in Calls \cup {0}
      BY <1>0 DEF CallState
    <3> QED
      BY <3>1, <1>1, <1>3, <1>4, <1>5 DEF ParentsWait
  <2>2. \A d \in Calls : calls[d].pc = "waiting" /\ d # p => calls'[d].pc = "waiting"
    BY <1>3, <1>5
  <2>3. \A d \in Calls : calls'[d].pc = "idle" => calls[d].pc = "idle"
    BY <1>3, <1>4, <1>5
  <2> QED
    BY <2>1, <2>2, <2>3 DEF ParentsWait
<1>10. WorkIsSeen'
  <2>1. \A d \in Calls : calls'[d].pc = "verifying" =>
          calls[d].pc = "verifying" /\ calls'[d].at = calls[d].at /\ calls'[d].env = calls[d].env
    BY <1>3, <1>4, <1>5
  <2> QED
    BY <2>1, <1>0 DEF WorkIsSeen
<1>11. SlotsAreHeld'
  <2>1. \A d \in Calls, n \in Nodes :
          (calls'[d].at = n /\ calls'[d].held) <=> (calls[d].at = n /\ calls[d].held)
    BY <1>3, <1>4, <1>5
  <2> QED
    BY <2>1, <1>0, SameHolders
<1>12. WorkOnce'
  BY <1>0 DEF WorkOnce
<1>13. StreamKeepsItsNode'
  BY <1>1, <1>3, <1>4, <1>5 DEF StreamKeepsItsNode
<1> QED
  BY <1>6, <1>7, <1>8, <1>9, <1>10, <1>11, <1>12, <1>13

LEMMA ArriveStep ==
  ASSUME OffloadInv, NEW c \in Calls, NEW n \in Nodes, NEW kind \in {"infer", "stream"},
         NEW e \in Envelopes, Arrive(c, n, kind, e)
  PROVE  OffloadInv'
<1> DEFINE x == NewCall(n, kind, e, 0, {})
<1>1. /\ calls \in [Calls -> CallState]
      /\ 0 \notin Calls
      /\ fresh \in 0 .. MaxEnvelopes /\ arrivals \in 0 .. MaxArrivals
  BY CallsAreFinite DEF OffloadInv, TypeOK
<1>2. calls' = [calls EXCEPT ![c] = x]
  BY DEF Arrive
<1>3. /\ fresh' \in 0 .. MaxEnvelopes
      /\ arrivals' \in 0 .. MaxArrivals
      /\ calls[c].pc = "idle"
      /\ UNCHANGED <<config, inFlight, seen, late, worked, losses>>
  BY <1>1, BoundsAssumption DEF Arrive, IsNextFree, Envelopes
<1>4. /\ x \in CallState /\ x.pc = "validating" /\ x.at \in Nodes \cup {Router}
      /\ x.env \in Envelopes /\ x.parent = 0 /\ ~x.held /\ ~x.streaming
  <2>1. /\ n \in Nodes \cup {Router, None} /\ e \in Envelopes \cup {0}
        /\ kind \in {"infer", "stream", "offload"}
        /\ 0 \in Calls \cup {0} /\ {} \in SUBSET (Nodes \cup {Router})
    OBVIOUS
  <2>2. /\ x \in CallState
        /\ x.pc = "validating" /\ x.at = n /\ x.env = e /\ x.parent = 0
        /\ ~x.held /\ ~x.streaming
    BY <2>1, NothingAsked DEF NewCall, CallState, PCs
  <2> QED
    BY <2>2
<1> HIDE DEF x
<1>5. calls' \in [Calls -> CallState] /\ calls'[c] = x
  BY <1>1, <1>2, <1>4
<1>6. \A d \in Calls \ {c} :
        calls'[d] = IF d = x.parent THEN [calls[d] EXCEPT !.pc = "waiting"] ELSE calls[d]
  BY <1>1, <1>2, <1>4
<1> QED
  BY <1>3, <1>4, <1>5, <1>6, Calling

LEMMA AdmitStep ==
  ASSUME OffloadInv, NEW c \in Calls, NEW ranked \in Rankings, RouterAdmit(c, ranked)
  PROVE  OffloadInv'
<1> DEFINE x == [calls[c] EXCEPT !.pc = "offloading", !.left = ranked]
<1>1. ranked \in Seq(Nodes \cup {Router})
  <2>1. PICK k \in 0 .. Cardinality(Nodes) : ranked \in [1 .. k -> Nodes]
    BY DEF Rankings
  <2>2. k \in Nat /\ ranked \in [1 .. k -> Nodes \cup {Router}]
    BY <2>1, NodesAssumption, FS_CardinalityType
  <2> QED
    BY <2>2, SeqDef
<1>2. /\ calls' = [calls EXCEPT ![c] = x]
      /\ calls[c].pc = "validating"
      /\ seen' = [seen EXCEPT ![Router] = @ \cup {calls[c].env}]
      /\ UNCHANGED <<config, inFlight, late, worked, fresh, arrivals, losses>>
  BY CallFacts DEF RouterAdmit
<1>3. /\ x \in CallState
      /\ x.pc = "offloading"
      /\ x.at = calls[c].at /\ x.env = calls[c].env /\ x.parent = calls[c].parent
      /\ x.held = calls[c].held /\ x.streaming = calls[c].streaming
  BY <1>1, CallFacts DEF CallState, PCs
<1>4. /\ ~calls[c].streaming
      /\ seen' \in [Nodes \cup {Router} -> SUBSET Envelopes]
      /\ \A s \in Nodes \cup {Router} : seen[s] \subseteq seen'[s]
      /\ late' \in [Nodes -> Nat]
  BY <1>2, CallFacts
<1> HIDE DEF x
<1> QED
  BY <1>2, <1>3, <1>4, Moves

LEMMA SameCalls ==
  ASSUME OffloadInv, late' \in [Nodes -> Nat],
         UNCHANGED <<config, calls, inFlight, seen, worked, fresh, arrivals, losses>>
  PROVE  OffloadInv'
<1> USE DEF OffloadInv
<1>1. TypeOK'
  BY DEF TypeOK
<1>2. HeldAtNodes' /\ Placed' /\ ParentsWait'
  BY DEF HeldAtNodes, Placed, ParentsWait
<1>3. WorkIsSeen' /\ WorkOnce' /\ StreamKeepsItsNode'
  BY DEF WorkIsSeen, WorkOnce, StreamKeepsItsNode
<1>4. SlotsAreHeld'
  BY SameHolders
<1> QED
  BY <1>1, <1>2, <1>3, <1>4

LEMMA LateStep ==
  ASSUME OffloadInv, NEW n \in Nodes, LateAnswer(n)
  PROVE  OffloadInv'
<1>1. late \in [Nodes -> Nat]
  BY DEF OffloadInv, TypeOK
<1>2. late' \in [Nodes -> Nat]
      /\ UNCHANGED <<config, calls, inFlight, seen, worked, fresh, arrivals, losses>>
  BY <1>1 DEF LateAnswer
<1> QED
  BY <1>2, SameCalls

LEMMA StepKeepsInv == OffloadInv /\ [Next]_vars => OffloadInv'
<1> SUFFICES ASSUME OffloadInv, [Next]_vars
             PROVE  OffloadInv'
  OBVIOUS
<1>1. CASE UNCHANGED vars
  <2>1. late' \in [Nodes -> Nat]
        /\ UNCHANGED <<config, calls, inFlight, seen, worked, fresh, arrivals, losses>>
    BY <1>1 DEF vars, OffloadInv, TypeOK
  <2> QED
    BY <2>1, SameCalls
<1>2. ASSUME NEW n \in Nodes, LateAnswer(n)
      PROVE  OffloadInv'
  BY <1>2, LateStep
<1>3. ASSUME NEW c \in Calls,
             \E n \in Nodes, kind \in {"infer", "stream"}, e \in Envelopes : Arrive(c, n, kind, e)
      PROVE  OffloadInv'
  BY <1>3, ArriveStep
<1>4. ASSUME NEW c \in Calls, LoseAnswer(c)
      PROVE  OffloadInv'
  BY <1>4, LossStep
<1>5. ASSUME NEW c \in Calls, InferRun(c) \/ StreamRun(c) \/ StreamAbandoned(c)
      PROVE  OffloadInv'
  BY <1>5, RunnerStep DEF InferRun, StreamRun
<1>6. ASSUME NEW c \in Calls, ServeOffload(c)
      PROVE  OffloadInv'
  <2>1. CASE Refuse(c) \/ Replayed(c)
    BY <2>1, CheckStep DEF Check
  <2>2. CASE \E ranked \in Rankings : RouterAdmit(c, ranked)
    BY <2>2, AdmitStep
  <2>3. CASE FederationAnswers(c)
    BY <2>3, ForwardStep
  <2> QED
    BY <1>6, <2>1, <2>2, <2>3 DEF ServeOffload
<1>7. ASSUME NEW c \in Calls, Handle(c)
      PROVE  OffloadInv'
  <2>1. CASE InferCheck(c) \/ StreamCheck(c)
    BY <2>1, CheckStep DEF InferCheck, StreamCheck
  <2>2. CASE ServeOffload(c)
    BY <2>2, <1>6
  <2>3. CASE RunnerTimeout(c)
    BY <2>3, RunnerStep
  <2>4. CASE (\E p \in Nodes : Bid(c, p) \/ NoBid(c, p)) \/ CloseAuction(c) \/ Award(c)
    BY <2>4, AuctionStep
  <2>5. CASE (\E d \in Calls : ForwardToPeer(c, d) \/ AskRouter(c, d)) \/ GiveUp(c) \/ PassOn(c)
    BY <2>5, ForwardStep
  <2> QED
    BY <1>7, <2>1, <2>2, <2>3, <2>4, <2>5 DEF Handle
<1> QED
  BY <1>1, <1>2, <1>3, <1>4, <1>5, <1>7 DEF Next

LEMMA SpecKeepsInv == Spec => []OffloadInv
  BY InitSatisfiesInv, StepKeepsInv, PTL DEF Spec

-------------------------------------------------------------------------------
(* Theorems *)

(* Calls, counters, nonces and histories keep their types. *)
THEOREM OffloadTypeCorrect == Spec => []TypeOK
<1>1. OffloadInv => TypeOK
  BY DEF OffloadInv
<1> QED
  BY <1>1, SpecKeepsInv, PTL

(* service.inFlight counts the calls that hold a slot, and stays within the  *)
(* capacity, on every path through /infer and /infer/stream.                *)
THEOREM SlotsAreGivenBack == Spec => []SlotsAreHeld
<1>1. OffloadInv => SlotsAreHeld
  BY DEF OffloadInv
<1> QED
  BY <1>1, SpecKeepsInv, PTL

(* A node's runner is started at most once for an envelope, whichever way    *)
(* and however often peers and routers forward it.                          *)
THEOREM EnvelopesRunOnce == Spec => []WorkOnce
<1>1. OffloadInv => WorkOnce
  BY DEF OffloadInv
<1> QED
  BY <1>1, SpecKeepsInv, PTL

(* An event stream that has begun is never taken over by another node.      *)
THEOREM StreamsAreNotTakenOver == Spec => []StreamKeepsItsNode
<1>1. OffloadInv => StreamKeepsItsNode
  BY DEF OffloadInv
<1> QED
  BY <1>1, SpecKeepsInv, PTL

===============================================================================
