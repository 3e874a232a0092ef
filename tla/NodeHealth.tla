------------------------------ MODULE NodeHealth ------------------------------
(***************************************************************************)
(* How the router chooses nodes and reacts to their failures, on the path  *)
(* where no payment is required: registration (http.ts), the cache of      *)
(* weighted nodes and the ranking (scheduler/ranking.ts), the failover     *)
(* loops of /infer and /infer/stream with the attempts on the nodes        *)
(* (http.ts), failures and cooldowns (scheduler/health.ts) and the pruning *)
(* timer (prune.ts).                                                       *)
(*                                                                         *)
(* A request ranks the active nodes once, when it starts, and then tries   *)
(* them one after the other.  Each attempt is an await: other requests,    *)
(* registrations and the pruning timer run in between, on the same maps.   *)
(*                                                                         *)
(* Prices, load, trust and stake decide only the order of the candidates,  *)
(* so that any order may come out of the ranking; every node serves the    *)
(* models that are asked for.                                              *)
(***************************************************************************)
EXTENDS Integers, Sequences, FiniteSets

CONSTANTS
  Nodes,              \* the identities of nodes
  Requests,           \* the requests that clients send to the router
  HeartbeatInterval,  \* heartbeatIntervalMs of the nodes, 0 for any moment
  HeartbeatWindow,    \* NODE_HEARTBEAT_WINDOW_MS
  FailureThreshold,   \* NODE_FAILURE_THRESHOLD
  BaseCooldown,       \* NODE_FAILURE_BASE_COOLDOWN_MS
  BackoffCap,         \* NODE_FAILURE_BACKOFF_CAP
  CacheTtl,           \* how long weighted nodes are cached: 1000 ms
  TopK,               \* schedulerTopK
  HealthRetention,    \* nodeHealthRetentionMs
  CooldownRetention,  \* nodeCooldownRetentionMs
  NodeRetention,      \* nodeRetentionMs
  MaxTime             \* bound: the clock stops here

ASSUME NodesAssumption == IsFiniteSet(Nodes)

ASSUME DurationsAssumption ==
  /\ HeartbeatInterval \in Nat
  /\ HeartbeatWindow \in Nat
  /\ BaseCooldown \in Nat
  /\ CacheTtl \in Nat
  /\ CooldownRetention \in Nat
  /\ NodeRetention \in Nat
  /\ MaxTime \in Nat \ {0}

ASSUME CountsAssumption ==
  /\ FailureThreshold \in Nat \ {0}
  /\ BackoffCap \in Nat \ {0}
  /\ TopK \in Nat \ {0}

(* The defaults are an hour of health against two minutes of cooldown. *)
ASSUME HealthOutlivesCooldown ==
  /\ HealthRetention \in Nat
  /\ HealthRetention >= BaseCooldown * BackoffCap

VARIABLES
  now,       \* Date.now(); it starts at 1, for 0 is the code's "never"
  nodes,     \* service.nodes: lastHeartbeatMs of each registered node
  health,    \* service.nodeHealth
  cooldown,  \* service.nodeCooldown: until when
  cachedAt,  \* weightedNodesCache.computedAtMs, 0 if there is no cache
  cached,    \* weightedNodesCache.nodes
  req        \* the requests in the router

vars == <<now, nodes, health, cooldown, cachedAt, cached, req>>

Times == 0 .. MaxTime
HealthEntry == [consecutive : Nat, lastFailure : Times, lastSuccess : Times]

(* A request is being tried on the first of the nodes in rest.  ended says *)
(* that the event stream to its client was already closed with an error.   *)
RequestState ==
  [pc : {"idle", "trying", "ok", "failed"}, rest : Seq(Nodes),
   startedAt : Times, stream : BOOLEAN, ended : BOOLEAN]

TypeOK ==
  /\ now \in Times \ {0}
  /\ DOMAIN nodes \subseteq Nodes
  /\ nodes \in [DOMAIN nodes -> Times]
  /\ DOMAIN health \subseteq Nodes
  /\ health \in [DOMAIN health -> HealthEntry]
  /\ DOMAIN cooldown \subseteq Nodes
  /\ cooldown \in [DOMAIN cooldown -> Nat]
  /\ cachedAt \in Times
  /\ DOMAIN cached \subseteq Nodes
  /\ cached \in [DOMAIN cached -> Times]
  /\ req \in [Requests -> RequestState]
  /\ \A r \in Requests : req[r].pc = "trying" => req[r].rest # <<>>

(* A request that no node is being asked about, and one that is at a node. *)
Untried(pc, rest) ==
  [pc |-> pc, rest |-> rest, startedAt |-> 0, stream |-> FALSE, ended |-> FALSE]

Trying(rest, startedAt, stream, ended) ==
  [pc |-> "trying", rest |-> rest, startedAt |-> startedAt, stream |-> stream,
   ended |-> ended]

Init ==
  /\ now = 1
  /\ nodes = [n \in {} |-> 0]
  /\ health = [n \in {} |-> 0]
  /\ cooldown = [n \in {} |-> 0]
  /\ cachedAt = 0
  /\ cached = [n \in {} |-> 0]
  /\ req = [r \in Requests |-> Untried("idle", <<>>)]

(* Map.set and a Map without some of its keys. *)
Put(f, n, v) == [x \in DOMAIN f \cup {n} |-> IF x = n THEN v ELSE f[x]]
Without(f, S) == [x \in DOMAIN f \ S |-> f[x]]

-------------------------------------------------------------------------------
(* Health and cooldown *)

Cooling(n) == n \in DOMAIN cooldown /\ cooldown[n] > now

HealthOf(n) ==
  IF n \in DOMAIN health THEN health[n]
  ELSE [consecutive |-> 0, lastFailure |-> 0, lastSuccess |-> 0]

(* How long a node that has failed k times in a row is left alone. *)
Backoff(k) ==
  LET over == k - FailureThreshold + 1
  IN  BaseCooldown * (IF over < BackoffCap THEN over ELSE BackoffCap)

MarkFailure(n) ==
  LET k == HealthOf(n).consecutive + 1 IN
  /\ health' = Put(health, n, [consecutive |-> k, lastFailure |-> now,
                               lastSuccess |-> HealthOf(n).lastSuccess])
  /\ cooldown' = IF k >= FailureThreshold
                 THEN Put(cooldown, n, now + Backoff(k))
                 ELSE cooldown

RecordSuccess(n) ==
  /\ health' = Put(health, n, [consecutive |-> 0, lastSuccess |-> now,
                               lastFailure |-> HealthOf(n).lastFailure])
  /\ cooldown' = Without(cooldown, {n})

-------------------------------------------------------------------------------
(* The candidates of a request *)

CacheNeverExpires == cachedAt > 0

CacheIsFresh == cachedAt > 0 /\ now - cachedAt < CacheTtl

Weighted == IF CacheIsFresh THEN cached ELSE nodes

Recent == {n \in DOMAIN Weighted : Weighted[n] >= now - HeartbeatWindow}

Active == {n \in Recent : ~ Cooling(n)}

(* Every order of the active nodes, cut after the first TopK. *)
Rankings ==
  LET k == IF Cardinality(Active) < TopK THEN Cardinality(Active) ELSE TopK
  IN  {s \in [1 .. k -> Active] : \A i, j \in 1 .. k : s[i] = s[j] => i = j}

-------------------------------------------------------------------------------
(* The operations *)

Tick ==
  /\ now < MaxTime
  /\ now' = now + 1
  /\ UNCHANGED <<nodes, health, cooldown, cachedAt, cached, req>>

(* /register-node: also a node's heartbeat.  The cache keeps what it has. *)
Register(n) ==
  /\ n \in DOMAIN nodes => nodes[n] + HeartbeatInterval <= now
  /\ nodes' = Put(nodes, n, now)
  /\ UNCHANGED <<now, health, cooldown, cachedAt, cached, req>>

(* /infer and /infer/stream up to the first attempt; without a candidate the
   request goes to a peer router or gets a 503. *)
Start(r, stream) ==
  /\ req[r].pc = "idle"
  /\ cached' = Weighted
  /\ cachedAt' = IF CacheIsFresh THEN cachedAt ELSE now
  /\ \E s \in Rankings :
       req' = [req EXCEPT ![r] = IF s = <<>> THEN Untried("failed", <<>>)
                                 ELSE Trying(s, now, stream, FALSE)]
  /\ UNCHANGED <<now, nodes, health, cooldown>>

Target(r) == Head(req[r].rest)

(* The next candidate, if there is one. *)
FailOver(r, ended) ==
  req' = [req EXCEPT ![r] = IF Len(@.rest) = 1 THEN Untried("failed", <<>>)
                            ELSE Trying(Tail(@.rest), @.startedAt, @.stream, ended)]

(* The node does not answer, answers with an error status, or with something
   that is not a valid, signed response to this request. *)
NodeFails(r) ==
  /\ req[r].pc = "trying"
  /\ MarkFailure(Target(r))
  /\ FailOver(r, req[r].ended)
  /\ UNCHANGED <<now, nodes, cachedAt, cached>>

(* The event stream of the node ends without a valid final event: the client
   gets an error event and the end of its stream, the loop goes on. *)
StreamBreaks(r) ==
  /\ req[r].pc = "trying"
  /\ req[r].stream
  /\ ~ req[r].ended
  /\ MarkFailure(Target(r))
  /\ FailOver(r, TRUE)
  /\ UNCHANGED <<now, nodes, cachedAt, cached>>

(* The body is no JSON, or the connection breaks while it is read: the
   exception goes to the handler, past the failover and the bookkeeping.  So
   does that of a second startSse on a stream that has ended. *)
AttemptThrows(r) ==
  /\ req[r].pc = "trying"
  /\ req' = [req EXCEPT ![r] = Untried("failed", Tail(@.rest))]
  /\ UNCHANGED <<now, nodes, health, cooldown, cachedAt, cached>>

(* A valid response; a stream that ends well is not recorded. *)
NodeAnswers(r) ==
  /\ req[r].pc = "trying"
  /\ ~ req[r].ended
  /\ IF req[r].stream
     THEN UNCHANGED <<health, cooldown>>
     ELSE RecordSuccess(Target(r))
  /\ req' = [req EXCEPT ![r] = Untried("ok", <<>>)]
  /\ UNCHANGED <<now, nodes, cachedAt, cached>>

LastSeen(n) ==
  IF health[n].lastFailure > health[n].lastSuccess
  THEN health[n].lastFailure ELSE health[n].lastSuccess

ExpiredBeforeRetention(n) == cooldown[n] < now - CooldownRetention

Expired(n) == cooldown[n] <= now \/ cooldown[n] < now - CooldownRetention

(* pruneRouterState, at start and then every pruneIntervalMs. *)
Prune ==
  /\ nodes' = Without(nodes, {n \in DOMAIN nodes : nodes[n] < now - NodeRetention})
  /\ health' = Without(health, {n \in DOMAIN health : LastSeen(n) < now - HealthRetention})
  /\ cooldown' = Without(cooldown, {n \in DOMAIN cooldown : Expired(n)})
  /\ UNCHANGED <<now, cachedAt, cached, req>>

Reply(r) == NodeFails(r) \/ StreamBreaks(r) \/ AttemptThrows(r) \/ NodeAnswers(r)

Next ==
  \/ Tick
  \/ Prune
  \/ \E n \in Nodes : Register(n)
  \/ \E r \in Requests : Reply(r) \/ \E stream \in BOOLEAN : Start(r, stream)

Spec == Init /\ [][Next]_vars

-------------------------------------------------------------------------------
(* Properties *)

\* A node cools down exactly as long as its streak of failures demands, whatever
\* order failures, successes, late replies and pruning come in: an entry of the
\* cooldown map belongs to a streak that has reached the threshold and ends the
\* backoff of that streak after its last failure; and a node with such a streak
\* is not let back before that.
CooldownMatchesStreak ==
  /\ \A n \in DOMAIN cooldown :
       /\ n \in DOMAIN health
       /\ health[n].consecutive >= FailureThreshold
       /\ cooldown[n] = health[n].lastFailure + Backoff(health[n].consecutive)
  /\ \A n \in DOMAIN health :
       /\ health[n].consecutive >= FailureThreshold
       /\ health[n].lastFailure + Backoff(health[n].consecutive) > now
       => n \in DOMAIN cooldown

\* Only a success of the node itself ends a running cooldown early: no failure
\* that arrives late, no pruning and no registration shortens or lifts it.
CooldownOnlyExtends ==
  [][\A n \in Nodes : Cooling(n) =>
       \/ n \in DOMAIN cooldown' /\ cooldown'[n] >= cooldown[n]
       \/ n \in DOMAIN health' /\ health'[n].consecutive = 0]_vars

\* A request goes to a node that is cooling down only if it had ranked its
\* candidates before the node's last failure: the cooldown holds for all
\* requests that come after it, the cache notwithstanding.
CoolingCandidatesPredate ==
  \A r \in Requests : \A i \in 1 .. Len(req[r].rest) :
    LET n == req[r].rest[i]
    IN  Cooling(n) => n \in DOMAIN health /\ req[r].startedAt <= health[n].lastFailure

\* A live node is not overlooked: one that is registered, not cooling down, and
\* whose last heartbeat is recent but older than the cache may be, is a
\* candidate of every request that starts, or else topK others are.
FreshNodesAreCandidates ==
  [][\A r \in Requests, n \in DOMAIN nodes :
       /\ req[r].pc = "idle" /\ req'[r].pc # "idle"
       /\ nodes[n] >= now - HeartbeatWindow
       /\ nodes[n] + CacheTtl <= now
       /\ ~ Cooling(n)
       => \/ \E i \in 1 .. Len(req'[r].rest) : req'[r].rest[i] = n
          \/ Len(req'[r].rest) = TopK]_vars

\* "Router retries alternative nodes on inference failure when payment is not
\* locked to a specific node": a request fails only when no candidate is left.
FailsOnlyWithoutAlternative ==
  \A r \in Requests : req[r].pc = "failed" => req[r].rest = <<>>
===============================================================================
