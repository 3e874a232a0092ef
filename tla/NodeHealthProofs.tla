--------------------------- MODULE NodeHealthProofs ---------------------------
(***************************************************************************)
(* Proofs about the health of nodes, for every set of nodes, any number of *)
(* requests, and all thresholds, durations and retention times that meet   *)
(* the assumptions of NodeHealth.                                          *)
(***************************************************************************)
EXTENDS NodeHealth, FiniteSetTheorems, SequenceTheorems, TLAPS

(* Nothing is dated in the future. *)
DatedInThePast ==
  /\ cachedAt <= now
  /\ \A n \in DOMAIN nodes : nodes[n] <= now
  /\ \A n \in DOMAIN health : health[n].lastFailure <= now
  /\ \A r \in Requests : req[r].startedAt <= now

(* The cache knows every heartbeat that came before it was computed.       *)
CacheKnowsOlderHeartbeats ==
  cachedAt > 0 => \A n \in DOMAIN nodes : nodes[n] < cachedAt =>
                    n \in DOMAIN cached /\ cached[n] = nodes[n]

HealthInv ==
  /\ TypeOK
  /\ DatedInThePast
  /\ CacheKnowsOlderHeartbeats
  /\ CooldownMatchesStreak
  /\ CoolingCandidatesPredate

-------------------------------------------------------------------------------
(* The backoff *)

(* A longer streak has a backoff that is no shorter, up to the cap. *)
LEMMA BackoffGrows ==
  ASSUME NEW k \in Nat, k >= FailureThreshold
  PROVE  /\ Backoff(k) \in Nat
         /\ Backoff(k) <= Backoff(k + 1)
         /\ Backoff(k) <= BaseCooldown * BackoffCap
<1> DEFINE m(i) == IF i - FailureThreshold + 1 < BackoffCap
                   THEN i - FailureThreshold + 1 ELSE BackoffCap
<1>1. /\ m(k) \in Nat
      /\ m(k + 1) \in Nat
      /\ m(k) <= m(k + 1)
      /\ m(k) <= BackoffCap
  BY CountsAssumption
<1>2. Backoff(k) = BaseCooldown * m(k) /\ Backoff(k + 1) = BaseCooldown * m(k + 1)
  BY DEF Backoff
<1>3. ASSUME NEW b \in Nat, NEW x \in Nat, NEW y \in Nat, x <= y
      PROVE  b * x \in Nat /\ b * x <= b * y
  <2>1. PICK d \in Nat : y = x + d
    <3>1. y - x \in Nat /\ y = x + (y - x)
      BY <1>3
    <3> QED
      BY <3>1
  <2>2. b * y = b * x + b * d
    BY <2>1
  <2>3. b * d \in Nat /\ b * x \in Nat
    OBVIOUS
  <2> QED
    BY <2>2, <2>3
<1>4. BaseCooldown \in Nat /\ BackoffCap \in Nat
  BY DurationsAssumption, CountsAssumption
<1> HIDE DEF m
<1>5. BaseCooldown * m(k) \in Nat /\ BaseCooldown * m(k) <= BaseCooldown * m(k + 1)
  BY <1>1, <1>3, <1>4
<1>6. BaseCooldown * m(k) <= BaseCooldown * BackoffCap
  BY <1>1, <1>3, <1>4
<1> QED
  BY <1>2, <1>5, <1>6

-------------------------------------------------------------------------------
(* The maps *)

LEMMA HealthOfType ==
  ASSUME TypeOK, NEW n \in Nodes
  PROVE  HealthOf(n) \in HealthEntry
<1>1. 0 \in Times
  BY DurationsAssumption DEF Times
<1> QED
  BY <1>1 DEF HealthOf, TypeOK, HealthEntry

(* What markNodeFailure does to the maps. *)
LEMMA MarkFailureEffect ==
  ASSUME TypeOK, NEW n \in Nodes, MarkFailure(n)
  PROVE  /\ DOMAIN health' = DOMAIN health \cup {n}
         /\ health' \in [DOMAIN health' -> HealthEntry]
         /\ health'[n].lastFailure = now
         /\ health'[n].consecutive = HealthOf(n).consecutive + 1
         /\ \A x \in DOMAIN health : x # n => health'[x] = health[x]
         /\ IF health'[n].consecutive >= FailureThreshold
            THEN /\ DOMAIN cooldown' = DOMAIN cooldown \cup {n}
                 /\ cooldown'[n] = now + Backoff(health'[n].consecutive)
                 /\ \A x \in DOMAIN cooldown : x # n => cooldown'[x] = cooldown[x]
            ELSE cooldown' = cooldown
<1> DEFINE e == [consecutive |-> HealthOf(n).consecutive + 1, lastFailure |-> now,
                 lastSuccess |-> HealthOf(n).lastSuccess]
<1>1. HealthOf(n) \in HealthEntry /\ now \in Times
  BY HealthOfType DEF TypeOK
<1>2. /\ e \in HealthEntry
      /\ e.lastFailure = now
      /\ e.consecutive = HealthOf(n).consecutive + 1
  BY <1>1 DEF HealthEntry
<1>3. health' = Put(health, n, e)
  BY DEF MarkFailure
<1>4. cooldown' = IF e.consecutive >= FailureThreshold
                  THEN Put(cooldown, n, now + Backoff(e.consecutive)) ELSE cooldown
  BY <1>2 DEF MarkFailure
<1> HIDE DEF e
<1>5. health'[n] = e
  BY <1>3 DEF Put
<1> QED
  BY <1>2, <1>3, <1>4, <1>5 DEF Put, TypeOK

(* What recordNodeSuccess does to the maps. *)
LEMMA RecordSuccessEffect ==
  ASSUME TypeOK, NEW n \in Nodes, RecordSuccess(n)
  PROVE  /\ DOMAIN health' = DOMAIN health \cup {n}
         /\ health' \in [DOMAIN health' -> HealthEntry]
         /\ health'[n].consecutive = 0
         /\ health'[n].lastFailure = HealthOf(n).lastFailure
         /\ \A x \in DOMAIN health : x # n => health'[x] = health[x]
         /\ DOMAIN cooldown' = DOMAIN cooldown \ {n}
         /\ \A x \in DOMAIN cooldown : x # n => cooldown'[x] = cooldown[x]
<1> DEFINE e == [consecutive |-> 0, lastSuccess |-> now,
                 lastFailure |-> HealthOf(n).lastFailure]
<1>1. HealthOf(n) \in HealthEntry /\ now \in Times
  BY HealthOfType DEF TypeOK
<1>2. /\ e \in HealthEntry
      /\ e.consecutive = 0
      /\ e.lastFailure = HealthOf(n).lastFailure
  BY <1>1 DEF HealthEntry
<1>3. health' = Put(health, n, e)
  BY DEF RecordSuccess
<1>4. cooldown' = Without(cooldown, {n})
  BY DEF RecordSuccess
<1> HIDE DEF e
<1>5. health'[n] = e
  BY <1>3 DEF Put
<1> QED
  BY <1>2, <1>3, <1>4, <1>5 DEF Put, Without, TypeOK

(* What one attempt on node n may do to the maps. *)
HealthStep(n) == MarkFailure(n) \/ RecordSuccess(n) \/ UNCHANGED <<health, cooldown>>

LEMMA HealthStepTypes ==
  ASSUME HealthInv, NEW n \in Nodes, HealthStep(n)
  PROVE  /\ DOMAIN health' \subseteq Nodes
         /\ health' \in [DOMAIN health' -> HealthEntry]
         /\ DOMAIN cooldown' \subseteq Nodes
         /\ cooldown' \in [DOMAIN cooldown' -> Nat]
         /\ \A x \in DOMAIN health' : health'[x].lastFailure <= now
<1>1. /\ TypeOK
      /\ now \in Nat
      /\ 0 <= now
  BY DurationsAssumption DEF HealthInv, TypeOK, Times
<1>2. CASE MarkFailure(n)
  <2>1. ASSUME health'[n].consecutive >= FailureThreshold
        PROVE  now + Backoff(health'[n].consecutive) \in Nat
    <3>1. health'[n].consecutive \in Nat
      BY <1>1, <1>2, MarkFailureEffect DEF HealthEntry
    <3> QED
      BY <1>1, <2>1, <3>1, BackoffGrows
  <2>2. DOMAIN health' \subseteq Nodes /\ health' \in [DOMAIN health' -> HealthEntry]
    BY <1>1, <1>2, MarkFailureEffect DEF TypeOK
  <2>3. cooldown' \in [DOMAIN cooldown' -> Nat] /\ DOMAIN cooldown' \subseteq Nodes
    BY <1>1, <1>2, <2>1, MarkFailureEffect DEF TypeOK, MarkFailure, Put
  <2>4. ASSUME NEW x \in DOMAIN health' PROVE health'[x].lastFailure <= now
    <3>1. CASE x = n
      <4>1. health'[n].lastFailure = now
        BY <1>1, <1>2, MarkFailureEffect
      <4> QED
        BY <1>1, <3>1, <4>1
    <3>2. CASE x # n
      <4>1. x \in DOMAIN health /\ health'[x] = health[x]
        BY <1>1, <1>2, <3>2, MarkFailureEffect
      <4> QED
        BY <4>1 DEF HealthInv, DatedInThePast
    <3> QED
      BY <3>1, <3>2
  <2> QED
    BY <2>2, <2>3, <2>4
<1>3. CASE RecordSuccess(n)
  <2>1. HealthOf(n).lastFailure <= now
    BY <1>1 DEF HealthOf, HealthInv, DatedInThePast
  <2>2. DOMAIN health' \subseteq Nodes /\ health' \in [DOMAIN health' -> HealthEntry]
    BY <1>1, <1>3, RecordSuccessEffect DEF TypeOK
  <2>3. cooldown' \in [DOMAIN cooldown' -> Nat] /\ DOMAIN cooldown' \subseteq Nodes
    BY <1>1, <1>3 DEF TypeOK, RecordSuccess, Without
  <2>4. ASSUME NEW x \in DOMAIN health' PROVE health'[x].lastFailure <= now
    <3>1. CASE x = n
      BY <1>1, <1>3, <2>1, <3>1, RecordSuccessEffect
    <3>2. CASE x # n
      <4>1. x \in DOMAIN health /\ health'[x] = health[x]
        BY <1>1, <1>3, <3>2, RecordSuccessEffect
      <4> QED
        BY <4>1 DEF HealthInv, DatedInThePast
    <3> QED
      BY <3>1, <3>2
  <2> QED
    BY <2>2, <2>3, <2>4
<1>4. CASE UNCHANGED <<health, cooldown>>
  BY <1>1, <1>4 DEF HealthInv, TypeOK, DatedInThePast
<1> QED
  BY <1>2, <1>3, <1>4 DEF HealthStep

LEMMA HealthStepKeepsStreak ==
  ASSUME HealthInv, NEW n \in Nodes, HealthStep(n), now' = now
  PROVE  CooldownMatchesStreak'
<1>1. TypeOK /\ CooldownMatchesStreak /\ now \in Nat
  BY DurationsAssumption DEF HealthInv, TypeOK, Times
<1>2. CASE MarkFailure(n)
  <2>1. HealthOf(n).consecutive \in Nat
    BY <1>1, HealthOfType DEF HealthEntry
  <2>2. CASE health'[n].consecutive >= FailureThreshold
    <3>1. /\ DOMAIN health' = DOMAIN health \cup {n}
          /\ DOMAIN cooldown' = DOMAIN cooldown \cup {n}
          /\ health'[n].lastFailure = now
          /\ cooldown'[n] = now + Backoff(health'[n].consecutive)
      BY <1>1, <1>2, <2>2, MarkFailureEffect
    <3>2. /\ \A x \in DOMAIN health : x # n => health'[x] = health[x]
          /\ \A x \in DOMAIN cooldown : x # n => cooldown'[x] = cooldown[x]
      BY <1>1, <1>2, <2>2, MarkFailureEffect
    <3>3. ASSUME NEW x \in DOMAIN cooldown'
          PROVE  /\ x \in DOMAIN health'
                 /\ health'[x].consecutive >= FailureThreshold
                 /\ cooldown'[x] = health'[x].lastFailure + Backoff(health'[x].consecutive)
      <4>1. CASE x = n
        BY <2>2, <3>1, <4>1
      <4>2. CASE x # n
        BY <1>1, <3>1, <3>2, <4>2 DEF CooldownMatchesStreak
      <4> QED
        BY <4>1, <4>2
    <3>4. ASSUME NEW x \in DOMAIN health',
                 health'[x].consecutive >= FailureThreshold,
                 health'[x].lastFailure + Backoff(health'[x].consecutive) > now
          PROVE  x \in DOMAIN cooldown'
      <4>1. CASE x = n
        BY <3>1, <4>1
      <4>2. CASE x # n
        BY <1>1, <3>1, <3>2, <3>4, <4>2 DEF CooldownMatchesStreak
      <4> QED
        BY <4>1, <4>2
    <3> QED
      BY <3>3, <3>4 DEF CooldownMatchesStreak, Backoff
  <2>3. CASE ~ (health'[n].consecutive >= FailureThreshold)
    <3>1. n \notin DOMAIN cooldown
      <4>1. health'[n].consecutive = HealthOf(n).consecutive + 1
        BY <1>1, <1>2, MarkFailureEffect
      <4>2. ~ (HealthOf(n).consecutive >= FailureThreshold)
        BY <2>1, <2>3, <4>1, CountsAssumption
      <4> QED
        BY <1>1, <4>2 DEF CooldownMatchesStreak, HealthOf
    <3>2. cooldown' = cooldown
      BY <1>1, <1>2, <2>3, MarkFailureEffect
    <3>3. \A x \in DOMAIN cooldown' :
            /\ x \in DOMAIN health'
            /\ health'[x].consecutive >= FailureThreshold
            /\ cooldown'[x] = health'[x].lastFailure + Backoff(health'[x].consecutive)
      BY <1>1, <1>2, <3>1, <3>2, MarkFailureEffect DEF CooldownMatchesStreak
    <3>4. \A x \in DOMAIN health' :
            /\ health'[x].consecutive >= FailureThreshold
            /\ health'[x].lastFailure + Backoff(health'[x].consecutive) > now
            => x \in DOMAIN cooldown'
      BY <1>1, <1>2, <2>3, <3>2, MarkFailureEffect DEF CooldownMatchesStreak
    <3> QED
      BY <3>3, <3>4 DEF CooldownMatchesStreak, Backoff
  <2> QED
    BY <2>2, <2>3
<1>3. CASE RecordSuccess(n)
  <2>1. ~ (health'[n].consecutive >= FailureThreshold)
    <3>1. health'[n].consecutive = 0
      BY <1>1, <1>3, RecordSuccessEffect
    <3> QED
      BY <3>1, CountsAssumption
  <2>2. \A x \in DOMAIN cooldown' :
          /\ x \in DOMAIN health'
          /\ health'[x].consecutive >= FailureThreshold
          /\ cooldown'[x] = health'[x].lastFailure + Backoff(health'[x].consecutive)
    BY <1>1, <1>3, RecordSuccessEffect DEF CooldownMatchesStreak
  <2>3. \A x \in DOMAIN health' :
          /\ health'[x].consecutive >= FailureThreshold
          /\ health'[x].lastFailure + Backoff(health'[x].consecutive) > now
          => x \in DOMAIN cooldown'
    BY <1>1, <1>3, <2>1, RecordSuccessEffect DEF CooldownMatchesStreak
  <2> QED
    BY <2>2, <2>3 DEF CooldownMatchesStreak, Backoff
<1>4. CASE UNCHANGED <<health, cooldown>>
  BY <1>1, <1>4 DEF CooldownMatchesStreak, Backoff
<1> QED
  BY <1>2, <1>3, <1>4 DEF HealthStep

(* A node that is cooling down after an attempt was so before with the same
   last failure, or has just failed. *)
LEMMA HealthStepCooling ==
  ASSUME HealthInv, NEW n \in Nodes, HealthStep(n), now' = now,
         NEW x \in Nodes, x \in DOMAIN cooldown', cooldown'[x] > now
  PROVE  /\ x \in DOMAIN health'
         /\ \/ health'[x].lastFailure = now
            \/ Cooling(x) /\ health'[x].lastFailure = health[x].lastFailure
<1>1. TypeOK
  BY DEF HealthInv
<1>2. x \in DOMAIN health'
  BY HealthStepKeepsStreak DEF CooldownMatchesStreak
<1>3. CASE MarkFailure(n)
  BY <1>1, <1>2, <1>3, MarkFailureEffect DEF Cooling
<1>4. CASE RecordSuccess(n)
  BY <1>1, <1>2, <1>4, RecordSuccessEffect DEF Cooling
<1>5. CASE UNCHANGED <<health, cooldown>>
  BY <1>2, <1>5 DEF Cooling
<1> QED
  BY <1>2, <1>3, <1>4, <1>5 DEF HealthStep

-------------------------------------------------------------------------------
(* The requests *)

(* What an attempt may do to its request: drop the nodes it is done with. *)
Shrinks(r) ==
  /\ req' \in [Requests -> RequestState]
  /\ \A q \in Requests : q # r => req'[q] = req[q]
  /\ req'[r].startedAt <= req[r].startedAt
  /\ req'[r].pc = "trying" => req'[r].rest # <<>>
  /\ \A i \in 1 .. Len(req'[r].rest) :
       \E j \in 1 .. Len(req[r].rest) : req'[r].rest[i] = req[r].rest[j]

LEMMA TargetType ==
  ASSUME TypeOK, NEW r \in Requests, req[r].pc = "trying"
  PROVE  /\ req[r] \in RequestState
         /\ req[r].rest \in Seq(Nodes)
         /\ Len(req[r].rest) \in Nat \ {0}
         /\ Target(r) \in Nodes
         /\ Tail(req[r].rest) \in Seq(Nodes)
         /\ Len(Tail(req[r].rest)) = Len(req[r].rest) - 1
         /\ \A i \in 1 .. Len(Tail(req[r].rest)) :
              /\ i + 1 \in 1 .. Len(req[r].rest)
              /\ Tail(req[r].rest)[i] = req[r].rest[i + 1]
<1>1. req[r] \in RequestState /\ req[r].rest \in Seq(Nodes) /\ req[r].rest # <<>>
  BY DEF TypeOK, RequestState
<1>2. Len(req[r].rest) \in Nat \ {0}
  BY <1>1, EmptySeq
<1>3. Target(r) \in Nodes
  BY <1>1, HeadTailProperties DEF Target
<1>4. /\ Tail(req[r].rest) \in Seq(Nodes)
      /\ Len(Tail(req[r].rest)) = Len(req[r].rest) - 1
      /\ \A i \in 1 .. Len(Tail(req[r].rest)) : Tail(req[r].rest)[i] = req[r].rest[i + 1]
  BY <1>1, HeadTailProperties
<1>5. \A i \in 1 .. Len(Tail(req[r].rest)) : i + 1 \in 1 .. Len(req[r].rest)
  BY <1>2, <1>4
<1> QED
  BY <1>1, <1>2, <1>3, <1>4, <1>5

LEMMA UntriedType ==
  ASSUME NEW pc \in {"idle", "ok", "failed"}, NEW rest \in Seq(Nodes)
  PROVE  Untried(pc, rest) \in RequestState
<1>1. 0 \in Times
  BY DurationsAssumption DEF Times
<1> QED
  BY <1>1 DEF Untried, RequestState

LEMMA TryingType ==
  ASSUME NEW rest \in Seq(Nodes), NEW at \in Times, NEW stream \in BOOLEAN,
         NEW ended \in BOOLEAN
  PROVE  Trying(rest, at, stream, ended) \in RequestState
  BY DEF Trying, RequestState

LEMMA FailOverShrinks ==
  ASSUME TypeOK, NEW r \in Requests, req[r].pc = "trying", NEW ended \in BOOLEAN,
         FailOver(r, ended)
  PROVE  Shrinks(r)
<1>1. /\ req \in [Requests -> RequestState]
      /\ req[r].startedAt \in Times
      /\ req[r].stream \in BOOLEAN
  BY DEF TypeOK, RequestState
<1>2. 0 <= req[r].startedAt /\ req[r].startedAt <= req[r].startedAt
  BY <1>1, DurationsAssumption DEF Times
<1>3. CASE Len(req[r].rest) = 1
  <2>1. req' = [req EXCEPT ![r] = Untried("failed", <<>>)]
    BY <1>3 DEF FailOver
  <2>2. Untried("failed", <<>>) \in RequestState
    BY UntriedType, EmptySeq
  <2>3. req'[r] = Untried("failed", <<>>) /\ Len(<<>>) = 0
    BY <1>1, <2>1, EmptySeq
  <2> QED
    BY <1>1, <1>2, <2>1, <2>2, <2>3 DEF Shrinks, Untried
<1>4. CASE Len(req[r].rest) # 1
  <2> DEFINE t == Trying(Tail(req[r].rest), req[r].startedAt, req[r].stream, ended)
  <2>1. req' = [req EXCEPT ![r] = t]
    BY <1>4 DEF FailOver
  <2>2. /\ t \in RequestState
        /\ t.startedAt = req[r].startedAt
        /\ t.rest = Tail(req[r].rest)
    BY <1>1, TargetType, TryingType DEF Trying
  <2>3. t.rest # <<>>
    <3>1. Len(Tail(req[r].rest)) # 0
      BY <1>4, TargetType
    <3> QED
      BY <2>2, <3>1, EmptySeq
  <2>4. req'[r] = t
    BY <1>1, <2>1
  <2> HIDE DEF t
  <2>5. \A i \in 1 .. Len(t.rest) : \E j \in 1 .. Len(req[r].rest) : t.rest[i] = req[r].rest[j]
    BY <2>2, TargetType
  <2> QED
    BY <1>1, <1>2, <2>1, <2>2, <2>3, <2>4, <2>5 DEF Shrinks
<1> QED
  BY <1>3, <1>4

(* Every reply of a node is one of these. *)
LEMMA ReplyShape ==
  ASSUME TypeOK, NEW r \in Requests, Reply(r)
  PROVE  /\ Shrinks(r)
         /\ Target(r) \in Nodes
         /\ HealthStep(Target(r))
         /\ UNCHANGED <<now, nodes, cachedAt, cached>>
<1>1. req[r].pc = "trying"
  BY DEF Reply, NodeFails, StreamBreaks, AttemptThrows, NodeAnswers
<1>2. /\ Target(r) \in Nodes
      /\ req \in [Requests -> RequestState]
      /\ Tail(req[r].rest) \in Seq(Nodes)
      /\ <<>> \in Seq(Nodes)
  BY <1>1, TargetType, EmptySeq DEF TypeOK
<1>3. req[r].ended \in BOOLEAN /\ req[r].startedAt \in Times
  BY <1>2 DEF RequestState
<1>4. 0 <= req[r].startedAt
  BY <1>3, DurationsAssumption DEF Times
<1>5. CASE NodeFails(r) \/ StreamBreaks(r)
  BY <1>1, <1>2, <1>3, <1>5, FailOverShrinks DEF NodeFails, StreamBreaks, HealthStep
<1>6. CASE AttemptThrows(r)
  <2> DEFINE t == Untried("failed", Tail(req[r].rest))
  <2>1. /\ t \in RequestState
        /\ t.startedAt = 0
        /\ t.rest = Tail(req[r].rest)
        /\ t.pc = "failed"
    BY <1>2, UntriedType DEF Untried
  <2>2. req' = [req EXCEPT ![r] = t]
    BY <1>6 DEF AttemptThrows
  <2> HIDE DEF t
  <2>3. req'[r] = t
    BY <1>2, <2>2
  <2>4. \A i \in 1 .. Len(t.rest) : \E j \in 1 .. Len(req[r].rest) : t.rest[i] = req[r].rest[j]
    BY <1>1, <2>1, TargetType
  <2>5. Shrinks(r)
    BY <1>2, <1>4, <2>1, <2>2, <2>3, <2>4 DEF Shrinks
  <2> QED
    BY <1>2, <1>6, <2>5 DEF AttemptThrows, HealthStep
<1>7. CASE NodeAnswers(r)
  <2> DEFINE t == Untried("ok", <<>>)
  <2>1. /\ t \in RequestState
        /\ t.startedAt = 0
        /\ Len(t.rest) = 0
        /\ t.pc = "ok"
    BY <1>2, UntriedType, EmptySeq DEF Untried
  <2>2. req' = [req EXCEPT ![r] = t]
    BY <1>7 DEF NodeAnswers
  <2> HIDE DEF t
  <2>3. req'[r] = t
    BY <1>2, <2>2
  <2>4. Shrinks(r)
    BY <1>2, <1>4, <2>1, <2>2, <2>3 DEF Shrinks
  <2> QED
    BY <1>2, <1>7, <2>4 DEF NodeAnswers, HealthStep
<1> QED
  BY <1>5, <1>6, <1>7 DEF Reply

-------------------------------------------------------------------------------
(* The steps *)

LEMMA ReplyKeepsHealthInv ==
  ASSUME HealthInv, NEW r \in Requests, Reply(r)
  PROVE  HealthInv'
<1>1. /\ TypeOK
      /\ now \in Nat
      /\ Shrinks(r)
      /\ Target(r) \in Nodes
      /\ HealthStep(Target(r))
      /\ UNCHANGED <<now, nodes, cachedAt, cached>>
  BY ReplyShape, DurationsAssumption DEF HealthInv, TypeOK, Times
<1>2. ASSUME NEW q \in Requests
      PROVE  /\ req[q].startedAt \in Int
             /\ req'[q].startedAt \in Int
             /\ req'[q].startedAt <= req[q].startedAt
             /\ req[q].startedAt <= now
  <2>1. req \in [Requests -> RequestState] /\ req' \in [Requests -> RequestState]
    BY <1>1 DEF Shrinks, TypeOK
  <2>2. req[q].startedAt \in Int /\ req'[q].startedAt \in Int
    BY <2>1, DurationsAssumption DEF RequestState, Times
  <2>3. req'[q].startedAt <= req[q].startedAt
    <3>1. CASE q = r
      BY <1>1, <3>1 DEF Shrinks
    <3>2. CASE q # r
      BY <1>1, <2>2, <3>2 DEF Shrinks
    <3> QED
      BY <3>1, <3>2
  <2>4. req[q].startedAt <= now
    BY DEF HealthInv, DatedInThePast
  <2> QED
    BY <2>2, <2>3, <2>4
<1>3. TypeOK'
  <2>1. /\ DOMAIN health' \subseteq Nodes
        /\ health' \in [DOMAIN health' -> HealthEntry]
        /\ DOMAIN cooldown' \subseteq Nodes
        /\ cooldown' \in [DOMAIN cooldown' -> Nat]
    BY <1>1, HealthStepTypes
  <2>2. /\ req' \in [Requests -> RequestState]
        /\ \A q \in Requests : req'[q].pc = "trying" => req'[q].rest # <<>>
    BY <1>1 DEF Shrinks, TypeOK
  <2> QED
    BY <1>1, <2>1, <2>2 DEF TypeOK
<1>4. DatedInThePast'
  <2>1. \A x \in DOMAIN health' : health'[x].lastFailure <= now
    BY <1>1, HealthStepTypes
  <2>2. \A q \in Requests : req'[q].startedAt <= now
    BY <1>1, <1>2
  <2> QED
    BY <1>1, <2>1, <2>2 DEF HealthInv, DatedInThePast
<1>5. CacheKnowsOlderHeartbeats'
  BY <1>1 DEF HealthInv, CacheKnowsOlderHeartbeats
<1>6. CooldownMatchesStreak'
  BY <1>1, HealthStepKeepsStreak
<1>7. ASSUME NEW q \in Requests, NEW i \in 1 .. Len(req'[q].rest), NEW n,
             n = req'[q].rest[i], n \in DOMAIN cooldown', cooldown'[n] > now
      PROVE  n \in DOMAIN health' /\ req'[q].startedAt <= health'[n].lastFailure
  <2>1. PICK j \in 1 .. Len(req[q].rest) : n = req[q].rest[j]
    BY <1>1, <1>7 DEF Shrinks
  <2>2. req[q].rest \in Seq(Nodes)
    BY <1>1 DEF TypeOK, RequestState
  <2>3. n \in Nodes
    BY <2>1, <2>2, ElementOfSeq
  <2>4. /\ n \in DOMAIN health'
        /\ \/ health'[n].lastFailure = now
           \/ Cooling(n) /\ health'[n].lastFailure = health[n].lastFailure
    BY <1>1, <1>7, <2>3, HealthStepCooling
  <2>5. CASE health'[n].lastFailure = now
    BY <1>2, <1>1, <2>4, <2>5
  <2>6. CASE Cooling(n) /\ health'[n].lastFailure = health[n].lastFailure
    <3>1. n \in DOMAIN health /\ req[q].startedAt <= health[n].lastFailure
      BY <2>1, <2>6 DEF HealthInv, CoolingCandidatesPredate
    <3>2. health[n].lastFailure \in Int
      BY <1>1, <3>1, DurationsAssumption DEF TypeOK, HealthEntry, Times
    <3> QED
      BY <1>2, <2>4, <2>6, <3>1, <3>2
  <2> QED
    BY <2>4, <2>5, <2>6
<1>8. CoolingCandidatesPredate'
  BY <1>1, <1>7 DEF CoolingCandidatesPredate, Cooling
<1> QED
  BY <1>3, <1>4, <1>5, <1>6, <1>8 DEF HealthInv

LEMMA TickKeepsHealthInv ==
  ASSUME HealthInv, Tick
  PROVE  HealthInv'
<1>1. /\ TypeOK
      /\ now \in Nat \ {0}
      /\ now' = now + 1
      /\ UNCHANGED <<nodes, health, cooldown, cachedAt, cached, req>>
  BY DurationsAssumption DEF HealthInv, TypeOK, Times, Tick
<1>2. TypeOK'
  <2>1. now' \in Times \ {0}
    BY <1>1, DurationsAssumption DEF Times, Tick
  <2> QED
    BY <1>1, <2>1 DEF TypeOK
<1>3. DatedInThePast'
  <2>1. /\ cachedAt \in Int
        /\ \A n \in DOMAIN nodes : nodes[n] \in Int
        /\ \A n \in DOMAIN health : health[n].lastFailure \in Int
        /\ \A r \in Requests : req[r].startedAt \in Int
    BY <1>1, DurationsAssumption DEF TypeOK, Times, HealthEntry, RequestState
  <2> QED
    BY <1>1, <2>1 DEF HealthInv, DatedInThePast
<1>4. CacheKnowsOlderHeartbeats'
  BY <1>1 DEF HealthInv, CacheKnowsOlderHeartbeats
<1>5. CooldownMatchesStreak'
  <2>1. ASSUME NEW n \in DOMAIN health,
               health[n].consecutive >= FailureThreshold,
               health[n].lastFailure + Backoff(health[n].consecutive) > now + 1
        PROVE  health[n].lastFailure + Backoff(health[n].consecutive) > now
    <3>1. health[n].lastFailure \in Int /\ health[n].consecutive \in Nat
      BY <1>1, DurationsAssumption DEF TypeOK, HealthEntry, Times
    <3>2. Backoff(health[n].consecutive) \in Nat
      BY <2>1, <3>1, BackoffGrows
    <3> QED
      BY <1>1, <2>1, <3>1, <3>2
  <2> QED
    BY <1>1, <2>1 DEF HealthInv, CooldownMatchesStreak, Backoff
<1>6. CoolingCandidatesPredate'
  <2>1. \A n : Cooling(n)' => Cooling(n)
    BY <1>1 DEF Cooling, TypeOK
  <2> QED
    BY <1>1, <2>1 DEF HealthInv, CoolingCandidatesPredate
<1> QED
  BY <1>2, <1>3, <1>4, <1>5, <1>6 DEF HealthInv

LEMMA RegisterKeepsHealthInv ==
  ASSUME HealthInv, NEW n \in Nodes, Register(n)
  PROVE  HealthInv'
<1>1. /\ TypeOK
      /\ now \in Nat
      /\ cachedAt \in Nat
      /\ nodes' = Put(nodes, n, now)
      /\ UNCHANGED <<now, health, cooldown, cachedAt, cached, req>>
  BY DurationsAssumption DEF HealthInv, TypeOK, Times, Register
<1>2. TypeOK'
  BY <1>1 DEF TypeOK, Put
<1>3. DatedInThePast'
  BY <1>1 DEF HealthInv, DatedInThePast, Put
<1>4. CacheKnowsOlderHeartbeats'
  <2>1. ~ (now < cachedAt)
    BY <1>1 DEF HealthInv, DatedInThePast
  <2> QED
    BY <1>1, <2>1 DEF HealthInv, CacheKnowsOlderHeartbeats, Put
<1>5. CooldownMatchesStreak' /\ CoolingCandidatesPredate'
  BY <1>1 DEF HealthInv, CooldownMatchesStreak, CoolingCandidatesPredate, Cooling, Backoff
<1> QED
  BY <1>2, <1>3, <1>4, <1>5 DEF HealthInv

(* Pruning drops a health entry only when its cooldown is over. *)
LEMMA PruneKeepsHealthInv ==
  ASSUME HealthInv, Prune
  PROVE  HealthInv'
<1>1. /\ TypeOK
      /\ now \in Nat
      /\ UNCHANGED <<now, cachedAt, cached, req>>
      /\ DOMAIN nodes' \subseteq DOMAIN nodes
      /\ \A n \in DOMAIN nodes' : nodes'[n] = nodes[n]
      /\ DOMAIN health' = {n \in DOMAIN health : ~ (LastSeen(n) < now - HealthRetention)}
      /\ \A n \in DOMAIN health' : health'[n] = health[n]
      /\ DOMAIN cooldown' = {n \in DOMAIN cooldown : ~ Expired(n)}
      /\ \A n \in DOMAIN cooldown' : cooldown'[n] = cooldown[n]
  BY DurationsAssumption DEF HealthInv, TypeOK, Times, Prune, Without
<1>2. TypeOK'
  BY <1>1 DEF TypeOK, Prune, Without
<1>3. DatedInThePast'
  BY <1>1 DEF HealthInv, DatedInThePast
<1>4. CacheKnowsOlderHeartbeats'
  BY <1>1 DEF HealthInv, CacheKnowsOlderHeartbeats
<1>5. ASSUME NEW n \in DOMAIN cooldown
      PROVE  cooldown[n] \in Nat /\ (Expired(n) <=> cooldown[n] <= now)
  <2>1. cooldown[n] \in Nat
    BY <1>1 DEF TypeOK
  <2> QED
    BY <1>1, <2>1, DurationsAssumption DEF Expired
<1>6. ASSUME NEW n \in DOMAIN cooldown, cooldown[n] > now
      PROVE  n \in DOMAIN health'
  <2>1. /\ n \in DOMAIN health
        /\ health[n].consecutive >= FailureThreshold
        /\ cooldown[n] = health[n].lastFailure + Backoff(health[n].consecutive)
    BY DEF HealthInv, CooldownMatchesStreak
  <2>2. /\ health[n].consecutive \in Nat
        /\ health[n].lastFailure \in Int
        /\ health[n].lastSuccess \in Int
    BY <1>1, <2>1, DurationsAssumption DEF TypeOK, HealthEntry, Times
  <2>3. /\ Backoff(health[n].consecutive) \in Nat
        /\ Backoff(health[n].consecutive) <= BaseCooldown * BackoffCap
    BY <2>1, <2>2, BackoffGrows
  <2>4. LastSeen(n) \in Int /\ LastSeen(n) >= health[n].lastFailure
    BY <2>2 DEF LastSeen
  <2>5. BaseCooldown * BackoffCap \in Int
    BY DurationsAssumption, CountsAssumption
  <2> HIDE DEF LastSeen, Backoff
  <2>6. ~ (LastSeen(n) < now - HealthRetention)
    BY <1>1, <1>6, <2>1, <2>2, <2>3, <2>4, <2>5, HealthOutlivesCooldown
  <2> QED
    BY <1>1, <2>1, <2>6
<1>7. CooldownMatchesStreak'
  <2>1. ASSUME NEW n \in DOMAIN cooldown'
        PROVE  /\ n \in DOMAIN health'
               /\ health'[n].consecutive >= FailureThreshold
               /\ cooldown'[n] = health'[n].lastFailure + Backoff(health'[n].consecutive)
    <3>1. n \in DOMAIN cooldown /\ cooldown[n] > now
      BY <1>1, <1>5
    <3>2. n \in DOMAIN health' /\ health'[n] = health[n] /\ cooldown'[n] = cooldown[n]
      BY <1>1, <1>6, <3>1
    <3> QED
      BY <3>1, <3>2 DEF HealthInv, CooldownMatchesStreak
  <2>2. ASSUME NEW n \in DOMAIN health',
               health'[n].consecutive >= FailureThreshold,
               health'[n].lastFailure + Backoff(health'[n].consecutive) > now
        PROVE  n \in DOMAIN cooldown'
    <3>1. n \in DOMAIN health /\ health'[n] = health[n]
      BY <1>1
    <3>2. n \in DOMAIN cooldown /\ cooldown[n] > now
      BY <2>2, <3>1 DEF HealthInv, CooldownMatchesStreak
    <3> QED
      BY <1>1, <1>5, <3>2
  <2> QED
    BY <1>1, <2>1, <2>2 DEF CooldownMatchesStreak, Backoff
<1>8. CoolingCandidatesPredate'
  <2>1. ASSUME NEW n, Cooling(n)'
        PROVE  Cooling(n) /\ n \in DOMAIN health' /\ health'[n] = health[n]
    <3>1. n \in DOMAIN cooldown' /\ n \in DOMAIN cooldown /\ cooldown[n] > now
      BY <1>1, <2>1 DEF Cooling
    <3> QED
      BY <1>1, <1>6, <3>1 DEF Cooling
  <2> QED
    BY <1>1, <2>1 DEF HealthInv, CoolingCandidatesPredate
<1> QED
  BY <1>2, <1>3, <1>4, <1>7, <1>8 DEF HealthInv

(* A ranking lists active nodes, and all of them unless it is cut. *)
LEMMA RankingFacts ==
  ASSUME TypeOK, NEW s \in Rankings
  PROVE  /\ s \in Seq(Nodes)
         /\ Len(s) \in Nat
         /\ \A i \in 1 .. Len(s) : s[i] \in Active
         /\ \/ Len(s) = TopK
            \/ \A n \in Active : \E i \in 1 .. Len(s) : s[i] = n
<1>1. Active \subseteq Nodes
  BY DEF Active, Recent, Weighted, TypeOK
<1>2. IsFiniteSet(Active) /\ Cardinality(Active) \in Nat
  BY <1>1, NodesAssumption, FS_Subset, FS_CardinalityType
<1>3. PICK k \in Nat : /\ k = TopK \/ k = Cardinality(Active)
                       /\ s \in [1 .. k -> Active]
                       /\ \A i, j \in 1 .. k : s[i] = s[j] => i = j
  BY <1>2, CountsAssumption DEF Rankings
<1>4. s \in Seq(Nodes) /\ Len(s) = k
  <2>1. s \in [1 .. k -> Nodes]
    BY <1>1, <1>3
  <2>2. s \in Seq(Nodes)
    BY <2>1, SeqDef
  <2> QED
    BY <2>1, <2>2, LenProperties
<1>5. ASSUME k = Cardinality(Active), NEW n \in Active
      PROVE  \E i \in 1 .. k : s[i] = n
  <2>1. s \in Injection(1 .. k, Active)
    BY <1>3 DEF Injection, IsInjective
  <2>2. Cardinality(1 .. k) = k
    BY FS_Interval
  <2>3. s \in Surjection(1 .. k, Active)
    BY <1>2, <1>5, <2>1, <2>2, FS_Injection
  <2> QED
    BY <2>3 DEF Surjection
<1> QED
  BY <1>3, <1>4, <1>5

LEMMA StartKeepsHealthInv ==
  ASSUME HealthInv, NEW r \in Requests, NEW stream \in BOOLEAN, Start(r, stream)
  PROVE  HealthInv'
<1>1. /\ TypeOK
      /\ now \in Nat \ {0}
      /\ now \in Times
      /\ cachedAt \in Nat
      /\ cached' = Weighted
      /\ cachedAt' = IF CacheIsFresh THEN cachedAt ELSE now
      /\ UNCHANGED <<now, nodes, health, cooldown>>
  BY DurationsAssumption DEF HealthInv, TypeOK, Times, Start
<1>2. PICK s \in Rankings :
        req' = [req EXCEPT ![r] = IF s = <<>> THEN Untried("failed", <<>>)
                                  ELSE Trying(s, now, stream, FALSE)]
  BY DEF Start
<1>3. /\ s \in Seq(Nodes)
      /\ \A i \in 1 .. Len(s) : s[i] \in Active
  BY <1>1, RankingFacts
<1>4. /\ req' \in [Requests -> RequestState]
      /\ \A q \in Requests : q # r => req'[q] = req[q]
      /\ req'[r].rest = s
      /\ req'[r].startedAt \in {0, now}
      /\ req'[r].pc = "trying" => s # <<>>
  <2>1. req \in [Requests -> RequestState]
    BY <1>1 DEF TypeOK
  <2>2. CASE s = <<>>
    <3>1. Untried("failed", <<>>) \in RequestState
      BY UntriedType, EmptySeq
    <3>2. req' = [req EXCEPT ![r] = Untried("failed", <<>>)]
      BY <1>2, <2>2
    <3> QED
      BY <2>1, <2>2, <3>1, <3>2 DEF Untried
  <2>3. CASE s # <<>>
    <3>1. Trying(s, now, stream, FALSE) \in RequestState
      BY <1>1, <1>3, TryingType
    <3>2. req' = [req EXCEPT ![r] = Trying(s, now, stream, FALSE)]
      BY <1>2, <2>3
    <3> QED
      BY <2>1, <2>3, <3>1, <3>2 DEF Trying
  <2> QED
    BY <2>2, <2>3
<1>5. TypeOK'
  <2>1. cachedAt' \in Times
    BY <1>1 DEF TypeOK
  <2>2. DOMAIN cached' \subseteq Nodes /\ cached' \in [DOMAIN cached' -> Times]
    BY <1>1 DEF TypeOK, Weighted
  <2>3. \A q \in Requests : req'[q].pc = "trying" => req'[q].rest # <<>>
    BY <1>1, <1>4 DEF TypeOK
  <2> QED
    BY <1>1, <1>4, <2>1, <2>2, <2>3 DEF TypeOK
<1>6. DatedInThePast'
  <2>1. cachedAt' <= now
    BY <1>1 DEF HealthInv, DatedInThePast
  <2>2. ASSUME NEW q \in Requests PROVE req'[q].startedAt <= now
    BY <1>1, <1>4 DEF HealthInv, DatedInThePast
  <2> QED
    BY <1>1, <2>1, <2>2 DEF HealthInv, DatedInThePast
<1>7. CacheKnowsOlderHeartbeats'
  BY <1>1 DEF HealthInv, CacheKnowsOlderHeartbeats, Weighted, CacheIsFresh
<1>8. CooldownMatchesStreak'
  BY <1>1 DEF HealthInv, CooldownMatchesStreak, Backoff
<1>9. CoolingCandidatesPredate'
  <2>1. ASSUME NEW q \in Requests, NEW i \in 1 .. Len(req'[q].rest), NEW n,
               n = req'[q].rest[i], Cooling(n)
        PROVE  n \in DOMAIN health /\ req'[q].startedAt <= health[n].lastFailure
    <3>1. q # r
      BY <1>3, <1>4, <2>1 DEF Active
    <3> QED
      BY <1>4, <2>1, <3>1 DEF HealthInv, CoolingCandidatesPredate
  <2> QED
    BY <1>1, <2>1 DEF CoolingCandidatesPredate, Cooling
<1> QED
  BY <1>5, <1>6, <1>7, <1>8, <1>9 DEF HealthInv

LEMMA HealthInvInit == Init => HealthInv
<1> SUFFICES ASSUME Init PROVE HealthInv
  OBVIOUS
<1>1. 0 \in Times /\ 1 \in Times
  BY DurationsAssumption DEF Times
<1>2. Untried("idle", <<>>) \in RequestState
  BY UntriedType, EmptySeq
<1>3. \A r \in Requests : req[r] = Untried("idle", <<>>)
  BY DEF Init
<1>4. \A r \in Requests : req[r].pc = "idle" /\ req[r].rest = <<>> /\ req[r].startedAt = 0
  BY <1>3 DEF Untried
<1>5. TypeOK
  BY <1>1, <1>2, <1>4 DEF Init, TypeOK
<1>6. DatedInThePast /\ CacheKnowsOlderHeartbeats /\ CooldownMatchesStreak
  BY <1>4 DEF Init, DatedInThePast, CacheKnowsOlderHeartbeats, CooldownMatchesStreak
<1>7. CoolingCandidatesPredate
  BY DEF Init, CoolingCandidatesPredate, Cooling
<1> QED
  BY <1>5, <1>6, <1>7 DEF HealthInv

LEMMA HealthInvStep == HealthInv /\ [Next]_vars => HealthInv'
<1> SUFFICES ASSUME HealthInv, [Next]_vars PROVE HealthInv'
  OBVIOUS
<1>1. CASE Tick
  BY <1>1, TickKeepsHealthInv
<1>2. CASE Prune
  BY <1>2, PruneKeepsHealthInv
<1>3. ASSUME NEW n \in Nodes, Register(n) PROVE HealthInv'
  BY <1>3, RegisterKeepsHealthInv
<1>4. ASSUME NEW r \in Requests, Reply(r) PROVE HealthInv'
  BY <1>4, ReplyKeepsHealthInv
<1>5. ASSUME NEW r \in Requests, NEW stream \in BOOLEAN, Start(r, stream) PROVE HealthInv'
  BY <1>5, StartKeepsHealthInv
<1>6. CASE UNCHANGED vars
  BY <1>6 DEF vars, HealthInv, TypeOK, DatedInThePast, CacheKnowsOlderHeartbeats,
              CooldownMatchesStreak, CoolingCandidatesPredate, Cooling, Backoff
<1> QED
  BY <1>1, <1>2, <1>3, <1>4, <1>5, <1>6 DEF Next

-------------------------------------------------------------------------------
(* What one step does to a cooldown and to the choice of candidates *)

LEMMA ReplyExtendsCooldown ==
  ASSUME HealthInv, NEW r \in Requests, Reply(r), NEW n \in Nodes, Cooling(n)
  PROVE  \/ n \in DOMAIN cooldown' /\ cooldown'[n] >= cooldown[n]
         \/ n \in DOMAIN health' /\ health'[n].consecutive = 0
<1> DEFINE m == Target(r)
<1>1. TypeOK /\ m \in Nodes /\ HealthStep(m) /\ now \in Nat
  BY ReplyShape, DurationsAssumption DEF HealthInv, TypeOK, Times
<1>2. /\ n \in DOMAIN cooldown
      /\ cooldown[n] \in Nat
      /\ n \in DOMAIN health
      /\ health[n].consecutive >= FailureThreshold
      /\ cooldown[n] = health[n].lastFailure + Backoff(health[n].consecutive)
      /\ health[n].lastFailure <= now
  BY <1>1 DEF HealthInv, TypeOK, CooldownMatchesStreak, DatedInThePast, Cooling
<1>3. health[n].consecutive \in Nat /\ health[n].lastFailure \in Nat
  BY <1>1, <1>2, DurationsAssumption DEF TypeOK, HealthEntry, Times
<1> HIDE DEF m
<1>4. CASE MarkFailure(m) /\ m = n
  <2>1. health'[n].consecutive = health[n].consecutive + 1
    BY <1>1, <1>2, <1>4, MarkFailureEffect DEF HealthOf
  <2>2. health'[n].consecutive >= FailureThreshold
    BY <1>2, <1>3, <2>1, CountsAssumption
  <2>3. /\ n \in DOMAIN cooldown'
        /\ cooldown'[n] = now + Backoff(health[n].consecutive + 1)
    BY <1>1, <1>4, <2>1, <2>2, MarkFailureEffect
  <2>4. /\ Backoff(health[n].consecutive) \in Nat
        /\ Backoff(health[n].consecutive + 1) \in Nat
        /\ Backoff(health[n].consecutive) <= Backoff(health[n].consecutive + 1)
    <3>1. health[n].consecutive + 1 >= FailureThreshold
      BY <1>2, <1>3, CountsAssumption
    <3> QED
      BY <1>2, <1>3, <3>1, BackoffGrows
  <2> QED
    BY <1>1, <1>2, <1>3, <2>3, <2>4
<1>5. CASE MarkFailure(m) /\ m # n
  <2>1. n \in DOMAIN cooldown' /\ cooldown'[n] = cooldown[n]
    BY <1>1, <1>2, <1>5, MarkFailureEffect
  <2> QED
    BY <1>2, <2>1
<1>6. CASE RecordSuccess(m)
  <2>1. CASE m = n
    BY <1>1, <1>6, <2>1, RecordSuccessEffect
  <2>2. CASE m # n
    <3>1. n \in DOMAIN cooldown' /\ cooldown'[n] = cooldown[n]
      BY <1>1, <1>2, <1>6, <2>2, RecordSuccessEffect
    <3> QED
      BY <1>2, <3>1
  <2> QED
    BY <2>1, <2>2
<1>7. CASE UNCHANGED <<health, cooldown>>
  BY <1>2, <1>7
<1> QED
  BY <1>1, <1>4, <1>5, <1>6, <1>7 DEF HealthStep

LEMMA StepExtendsCooldown ==
  ASSUME HealthInv, [Next]_vars, NEW n \in Nodes, Cooling(n)
  PROVE  \/ n \in DOMAIN cooldown' /\ cooldown'[n] >= cooldown[n]
         \/ n \in DOMAIN health' /\ health'[n].consecutive = 0
<1>1. /\ n \in DOMAIN cooldown
      /\ cooldown[n] \in Nat
      /\ cooldown[n] > now
      /\ now \in Nat
  BY DurationsAssumption DEF HealthInv, TypeOK, Times, Cooling
<1>2. CASE Prune
  <2>1. ~ Expired(n)
    BY <1>1, DurationsAssumption DEF Expired
  <2> QED
    BY <1>1, <1>2, <2>1 DEF Prune, Without
<1>3. ASSUME NEW r \in Requests, Reply(r)
      PROVE  \/ n \in DOMAIN cooldown' /\ cooldown'[n] >= cooldown[n]
             \/ n \in DOMAIN health' /\ health'[n].consecutive = 0
  BY <1>3, ReplyExtendsCooldown
<1>4. ASSUME cooldown' = cooldown
      PROVE  n \in DOMAIN cooldown' /\ cooldown'[n] >= cooldown[n]
  BY <1>1, <1>4
<1> QED
  BY <1>2, <1>3, <1>4 DEF Next, Tick, Register, Start, vars

(* Whichever nodes the cache holds, a node with a heartbeat that is older than
   the cache may be, and recent, is among the active ones. *)
LEMMA FreshNodesAreActive ==
  ASSUME HealthInv, NEW n \in DOMAIN nodes, nodes[n] >= now - HeartbeatWindow,
         nodes[n] + CacheTtl <= now, ~ Cooling(n)
  PROVE  n \in Active
<1>1. /\ nodes[n] \in Nat
      /\ now \in Nat
      /\ cachedAt \in Nat
      /\ CacheTtl \in Nat
  BY DurationsAssumption DEF HealthInv, TypeOK, Times
<1>2. n \in DOMAIN Weighted /\ Weighted[n] = nodes[n]
  <2>1. CASE CacheIsFresh
    BY <1>1, <2>1 DEF HealthInv, CacheKnowsOlderHeartbeats, CacheIsFresh, Weighted
  <2>2. CASE ~ CacheIsFresh
    BY <2>2 DEF Weighted
  <2> QED
    BY <2>1, <2>2
<1> QED
  BY <1>2 DEF Active, Recent

LEMMA OnlyStartLeavesIdle ==
  ASSUME HealthInv, [Next]_vars, NEW r \in Requests, req[r].pc = "idle", req'[r].pc # "idle"
  PROVE  \E stream \in BOOLEAN : Start(r, stream)
<1>1. TypeOK
  BY DEF HealthInv
<1>2. ASSUME req' = req PROVE FALSE
  BY <1>2
<1>3. ASSUME NEW q \in Requests, Reply(q) PROVE FALSE
  <2>1. req[q].pc = "trying"
    BY <1>3 DEF Reply, NodeFails, StreamBreaks, AttemptThrows, NodeAnswers
  <2>2. Shrinks(q)
    BY <1>1, <1>3, ReplyShape
  <2> QED
    BY <2>1, <2>2 DEF Shrinks
<1>4. ASSUME NEW q \in Requests, NEW stream \in BOOLEAN, Start(q, stream)
      PROVE  q = r
  BY <1>1, <1>4 DEF Start, TypeOK
<1> QED
  BY <1>2, <1>3, <1>4 DEF Next, Tick, Prune, Register, vars

LEMMA StepConsidersFreshNodes ==
  ASSUME HealthInv, [Next]_vars, NEW r \in Requests, NEW n \in DOMAIN nodes,
         req[r].pc = "idle", req'[r].pc # "idle",
         nodes[n] >= now - HeartbeatWindow, nodes[n] + CacheTtl <= now, ~ Cooling(n)
  PROVE  \/ \E i \in 1 .. Len(req'[r].rest) : req'[r].rest[i] = n
         \/ Len(req'[r].rest) = TopK
<1>1. PICK stream \in BOOLEAN : Start(r, stream)
  BY OnlyStartLeavesIdle
<1>2. PICK s \in Rankings :
        req' = [req EXCEPT ![r] = IF s = <<>> THEN Untried("failed", <<>>)
                                  ELSE Trying(s, now, stream, FALSE)]
  BY <1>1 DEF Start
<1>3. req \in [Requests -> RequestState] /\ TypeOK
  BY DEF HealthInv, TypeOK
<1>4. req'[r].rest = s
  BY <1>2, <1>3 DEF Untried, Trying
<1>5. n \in Active
  BY FreshNodesAreActive
<1>6. \/ Len(s) = TopK
      \/ \A x \in Active : \E i \in 1 .. Len(s) : s[i] = x
  BY <1>3, RankingFacts
<1> QED
  BY <1>4, <1>5, <1>6

-------------------------------------------------------------------------------
(* The theorems *)

(* The inductive invariant of the router's bookkeeping of nodes.            *)
THEOREM HealthInvariant == Spec => []HealthInv
<1> QED
  BY HealthInvInit, HealthInvStep, PTL DEF Spec

(* Every map, cache and request stays in its type.                          *)
THEOREM HealthTypeCorrect == Spec => []TypeOK
<1>1. HealthInv => TypeOK
  BY DEF HealthInv
<1> QED
  BY <1>1, HealthInvariant, PTL

(* markNodeFailure, recordNodeSuccess and pruneRouterState keep streaks and
   cooldowns consistent in every interleaving.                              *)
THEOREM CooldownsMatchStreaks == Spec => []CooldownMatchesStreak
<1>1. HealthInv => CooldownMatchesStreak
  BY DEF HealthInv
<1> QED
  BY <1>1, HealthInvariant, PTL

(* No request that starts after a node's last failure has it as a candidate
   while it cools down, although candidates come from a cache.              *)
THEOREM CoolingNodesAreNotRanked == Spec => []CoolingCandidatesPredate
<1>1. HealthInv => CoolingCandidatesPredate
  BY DEF HealthInv
<1> QED
  BY <1>1, HealthInvariant, PTL

(* No step but a success of the node ends or shortens a running cooldown.   *)
THEOREM CooldownsOnlyExtend == Spec => CooldownOnlyExtends
<1>1. HealthInv /\ [Next]_vars =>
        [\A n \in Nodes : Cooling(n) =>
           \/ n \in DOMAIN cooldown' /\ cooldown'[n] >= cooldown[n]
           \/ n \in DOMAIN health' /\ health'[n].consecutive = 0]_vars
  BY StepExtendsCooldown
<1> QED
  BY <1>1, HealthInvariant, PTL DEF Spec, CooldownOnlyExtends

(* The cache and the cut to topK are the only reasons why a live node that is
   not cooling down is no candidate of a request.                           *)
THEOREM LiveNodesAreCandidates == Spec => FreshNodesAreCandidates
<1>1. HealthInv /\ [Next]_vars =>
        [\A r \in Requests, n \in DOMAIN nodes :
           /\ req[r].pc = "idle" /\ req'[r].pc # "idle"
           /\ nodes[n] >= now - HeartbeatWindow
           /\ nodes[n] + CacheTtl <= now
           /\ ~ Cooling(n)
           => \/ \E i \in 1 .. Len(req'[r].rest) : req'[r].rest[i] = n
              \/ Len(req'[r].rest) = TopK]_vars
  BY StepConsidersFreshNodes
<1> QED
  BY <1>1, HealthInvariant, PTL DEF Spec, FreshNodesAreCandidates
===============================================================================
