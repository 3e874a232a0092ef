-------------------------- MODULE FederationTransport -------------------------
(***************************************************************************)
(* How the messages of the federation travel: by HTTPS to every configured *)
(* peer (federation/publisher.ts, the handlers of http.ts) or over Nostr   *)
(* relays (federation/nostr.ts, relay-manager.ts), with the limiter that   *)
(* both pass requests for bids through (rate-limit.ts).                    *)
(*                                                                         *)
(* By HTTPS this router announces and its peers hear; over relays another  *)
(* router announces and this one hears.  An announcement is the number of the  *)
(* version it was made from; each kind of it has one place at the receiver. *)
(* A timer is the time that is left until it is due.                       *)
(***************************************************************************)
EXTENDS Integers, Sequences, FiniteSets, SequencesExt

CONSTANTS
  Receivers,       \* the peers that are posted to, in order and only once
  Kinds,           \* capabilities, status and prices, in the order of publishing
  Relays,
  Configurations,  \* the transports and limits a router may run with
  Concurrency,     \* publishConcurrency
  MinDelay,        \* nostrRelayRetryMinMs
  MaxDelay,        \* nostrRelayRetryMaxMs
  Doublings,       \* bound: so many failures reach MaxDelay and count on
  RateMax,         \* rateLimitMax
  RateWindow,      \* rateLimitWindowMs
  MaxRuns,         \* bound: so many overlapping runs of the publishing timer
  MaxVersions,     \* bound: so many announcements of each kind
  MaxFaults        \* bound: so many losses, timeouts and closed subscriptions

(* relays: whether federation runs over relays; limited: whether the limiter *)
(* is on; announces: whether there is anything to announce.                 *)
Settings == [relays : BOOLEAN, limited : BOOLEAN, announces : BOOLEAN]

ASSUME PeersAssumption ==
  /\ Receivers \in Seq(ToSet(Receivers)) \ {<<>>}
  /\ IsInjective(Receivers)
  /\ Kinds \in Seq(ToSet(Kinds))
  /\ IsInjective(Kinds)
  /\ IsFiniteSet(Relays)
  /\ Relays # {}
  /\ Configurations \subseteq Settings

ASSUME NumbersAssumption ==
  /\ Concurrency \in Nat
  /\ MinDelay \in Nat \ {0}
  /\ MaxDelay \in Nat
  /\ MaxDelay >= MinDelay
  /\ Doublings \in Nat
  /\ MinDelay * 2 ^ Doublings >= MaxDelay
  /\ RateMax \in Nat \ {0}
  /\ RateWindow \in Nat \ {0}
  /\ MaxRuns \in Nat \ {0}
  /\ MaxVersions \in [ToSet(Kinds) -> Nat]
  /\ MaxFaults \in Nat

PeerSet == ToSet(Receivers)
KindSet == ToSet(Kinds)
Runs == 1 .. MaxRuns
Remembered == 1 .. 2 * RateMax + 1  \* so many messages are remembered
Announcements == UNION {{k} \X (1 .. MaxVersions[k]) : k \in KindSet}

VARIABLES
  config,
  local,       \* the version of each kind that is announced, 0 for none
  heard,       \* the version of each kind at each receiver
  runs,        \* publishFederation calls
  wire,        \* HTTPS requests under way
  posted,      \* history: how often a run posted its message to each peer
  up,          \* the relays that work
  failures, nextAttempt,  \* the relay manager
  active,      \* runtime.relays, the relays of the last subscription
  open,        \* those of them that have not closed it
  stored,      \* announcements that relays send a new subscription
  retryTimer,  \* -1 without a timer
  publishing,  \* relays an event was published to, awaiting their answers
  bucket,      \* the limiter's bucket of one peer and one type
  passed,      \* history: the ages of the messages it let through, the last one first
  faults

https == <<local, runs, wire, posted>>
manager == <<failures, nextAttempt>>
nostr == <<up, manager, active, open, stored, retryTimer, publishing>>
limiter == <<bucket, passed>>
transportVars == <<config, heard, faults, https, nostr, limiter>>

IdleRun == [kind |-> 0, version |-> 0, rest |-> <<>>, flying |-> {}]
NoBucket == [age |-> 0, count |-> 0]

Fault == faults < MaxFaults /\ faults' = faults + 1

-------------------------------------------------------------------------------
(* The limiter *)

(* Mutant: a new window does not count the message that opens it.           *)
AllowUncounted ==
  IF bucket.count = 0 \/ bucket.age >= RateWindow
  THEN {[age |-> 0, count |-> 0]}
  ELSE IF bucket.count >= RateMax THEN {}
       ELSE {[bucket EXCEPT !.count = @ + 1]}

(* The bucket after a message that is let through; none if it is refused.   *)
Allow ==
  IF bucket.count = 0 \/ bucket.age >= RateWindow
  THEN {[age |-> 0, count |-> 1]}
  ELSE IF bucket.count >= RateMax THEN {}
       ELSE {[bucket EXCEPT !.count = @ + 1]}

Pass ==
  IF config.limited
  THEN /\ \E b \in Allow : bucket' = b
       /\ passed' = [i \in Remembered |-> IF i = 1 THEN 0 ELSE passed[i - 1]]
  ELSE UNCHANGED limiter

-------------------------------------------------------------------------------
(* HTTPS *)

(* POST /federation/self/caps, /status and /price.                          *)
Announce(k) ==
  /\ config.announces
  /\ local[k] < MaxVersions[k]
  /\ local' = [local EXCEPT ![k] = @ + 1]
  /\ UNCHANGED <<config, heard, faults, runs, wire, posted, nostr, limiter>>

(* Workers: at most Concurrency posts at once, all of them without a limit. *)
Workers == IF Concurrency = 0 \/ Concurrency > Len(Receivers) THEN Len(Receivers) ELSE Concurrency

FirstPeers == ToSet(SubSeq(Receivers, 1, Workers))

(* Mutant: the cursor starts behind the workers' first peers.               *)
RemainingPeersOverlapping == SubSeq(Receivers, Workers, Len(Receivers))

RemainingPeers == SubSeq(Receivers, Workers + 1, Len(Receivers))

Posts(i, run, S) ==
  {[run |-> i, peer |-> p, kind |-> run.kind, version |-> run.version] : p \in S}

PostsOf(i, p) == {w \in wire : w.run = i /\ w.peer = p}

(* The first kind from the k-th on that there is something to announce of:   *)
(* its message is made and the workers post it.                             *)
StartKind(i, k, left) ==
  LET later == {j \in k .. Len(Kinds) : local[Kinds[j]] # 0} IN
  IF later = {}
  THEN /\ runs' = [runs EXCEPT ![i] = IdleRun]
       /\ wire' = left
       /\ UNCHANGED posted
  ELSE LET run == [kind |-> Min(later), version |-> local[Kinds[Min(later)]],
                   rest |-> RemainingPeers, flying |-> FirstPeers]
       IN  /\ runs' = [runs EXCEPT ![i] = run]
           /\ wire' = left \cup Posts(i, run, FirstPeers)
           /\ posted' = [posted EXCEPT ![i] =
                            [p \in PeerSet |-> IF p \in FirstPeers THEN 1 ELSE 0]]

(* The timer does not wait for an earlier run.                              *)
PublishTimer(i) ==
  /\ ~config.relays
  /\ runs[i].kind = 0
  /\ \A j \in 1 .. i - 1 : runs[j].kind # 0
  /\ \E k \in KindSet : local[k] # 0
  /\ StartKind(i, 1, wire)
  /\ UNCHANGED <<config, heard, faults, local, nostr, limiter>>

(* A peer takes whatever announcement comes, and answers.                   *)
PeerHears(w) ==
  /\ heard' = [heard EXCEPT ![w.peer][Kinds[w.kind]] = w.version]
  /\ wire' = wire \ {w}
  /\ UNCHANGED <<config, faults, local, runs, posted, nostr, limiter>>

(* A worker takes the next peer; the last one to end starts the next kind.  *)
PostEnds(i, p, left) ==
  LET run == runs[i] IN
  /\ p \in run.flying
  /\ IF run.rest # <<>>
     THEN /\ runs' = [runs EXCEPT ![i].flying = (run.flying \ {p}) \cup {Head(run.rest)},
                                  ![i].rest = Tail(run.rest)]
          /\ wire' = left \cup Posts(i, run, {Head(run.rest)})
          /\ posted' = [posted EXCEPT ![i][Head(run.rest)] = @ + 1]
     ELSE IF run.flying # {p}
     THEN /\ runs' = [runs EXCEPT ![i].flying = run.flying \ {p}]
          /\ wire' = left
          /\ UNCHANGED posted
     ELSE StartKind(i, run.kind + 1, left)
  /\ UNCHANGED <<config, heard, local, nostr, limiter>>

Answered(i, p) ==
  /\ PostsOf(i, p) = {}
  /\ PostEnds(i, p, wire)
  /\ UNCHANGED faults

PostLost(i, p) ==
  /\ Fault
  /\ PostEnds(i, p, wire \ PostsOf(i, p))

(* The request takes too long, and arrives later.                           *)
PostTimesOut(i, p) ==
  /\ Fault
  /\ PostsOf(i, p) # {}
  /\ PostEnds(i, p, (wire \ PostsOf(i, p)) \cup {[w EXCEPT !.run = 0] : w \in PostsOf(i, p)})

(* A request for bids, by either way: it is answered with a bid or not.     *)
HearRfb ==
  /\ config.limited
  /\ Pass
  /\ UNCHANGED <<config, heard, faults, https, nostr>>

-------------------------------------------------------------------------------
(* Relays *)

Backoff(f) == Min({MaxDelay, MinDelay * 2 ^ (f - 1)})

Capped(f) == Min({f, Doublings + 1})

(* recordFailure and recordSuccess.                                         *)
Record(failed, succeeded) ==
  /\ failures' = [r \in Relays |-> IF r \in failed THEN Capped(failures[r] + 1)
                                   ELSE IF r \in succeeded THEN 0 ELSE failures[r]]
  /\ nextAttempt' = [r \in Relays |-> IF r \in failed THEN Backoff(failures'[r])
                                      ELSE IF r \in succeeded THEN 0 ELSE nextAttempt[r]]

ActiveRelays == {r \in Relays : nextAttempt[r] = 0}

(* subscribeToRelays.  Relays send the announcements they have stored.      *)
Subscribe ==
  IF ActiveRelays = {}
  THEN /\ retryTimer' = Min({nextAttempt[r] : r \in Relays})
       /\ UNCHANGED <<active, open, stored>>
  ELSE /\ retryTimer' = -1
       /\ active' = ActiveRelays
       /\ open' = ActiveRelays
       /\ stored' = {a \in Announcements : a[2] <= local[a[1]]}

RetryFires ==
  /\ retryTimer = 0
  /\ Subscribe
  /\ UNCHANGED <<config, heard, faults, https, up, manager, publishing, limiter>>

(* Mutant: onclose counts the failures and leaves it at that.               *)
ClosesForGood(r) ==
  /\ r \in open
  /\ open' = open \ {r}
  /\ stored' = IF open' = {} THEN {} ELSE stored
  /\ IF open' = {} THEN Record(active, {}) ELSE UNCHANGED manager
  /\ UNCHANGED retryTimer

(* A relay ends the subscription; when all have, onclose counts a failure of *)
(* each and schedules a retry, unless there is one.                         *)
Closes(r) ==
  /\ r \in open
  /\ open' = open \ {r}
  /\ stored' = IF open' = {} THEN {} ELSE stored
  /\ IF open' = {}
     THEN /\ Record(active, {})
          /\ retryTimer' = IF retryTimer # -1 THEN retryTimer
                           ELSE Min({nextAttempt'[s] : s \in Relays})
     ELSE UNCHANGED <<manager, retryTimer>>

CannotConnect(r) ==
  /\ r \notin up
  /\ Closes(r)
  /\ UNCHANGED <<config, heard, faults, https, up, active, publishing, limiter>>

ClosedByRelay(r) ==
  /\ r \in up
  /\ Fault
  /\ Closes(r)
  /\ UNCHANGED <<config, heard, https, up, active, publishing, limiter>>

RelayFails(r) ==
  /\ config.relays
  /\ r \in up
  /\ Fault
  /\ up' = up \ {r}
  /\ UNCHANGED <<config, heard, https, manager, active, open, stored, retryTimer, publishing,
                 limiter>>

RelayRecovers(r) ==
  /\ config.relays
  /\ r \notin up
  /\ up' = up \cup {r}
  /\ UNCHANGED <<config, heard, faults, https, manager, active, open, stored, retryTimer,
                 publishing, limiter>>

(* The timer of this router's own announcements, or a bid.                  *)
Publish ==
  /\ config.relays
  /\ publishing = {}
  /\ publishing' = active
  /\ publishing' # {}
  /\ UNCHANGED <<config, heard, faults, https, up, manager, active, open, stored, retryTimer,
                 limiter>>

(* All relays have answered; meanwhile others may have become active.       *)
Published ==
  /\ publishing # {}
  /\ Record(publishing \ up, publishing \cap up)
  /\ publishing' = {}
  /\ UNCHANGED <<config, heard, faults, https, up, active, open, stored, retryTimer, limiter>>

(* Another router publishes its announcements, again and again.             *)
RelayBrings(k) ==
  /\ config.relays
  /\ open \cap up # {}
  /\ local[k] # 0
  /\ heard' = [heard EXCEPT ![Receivers[1]][k] = local[k]]
  /\ UNCHANGED <<config, faults, https, nostr, limiter>>

(* What was stored comes in any order.                                      *)
RelayBringsStored(a) ==
  /\ open \cap up # {}
  /\ a \in stored
  /\ stored' = stored \ {a}
  /\ heard' = [heard EXCEPT ![Receivers[1]][a[1]] = a[2]]
  /\ UNCHANGED <<config, faults, https, up, manager, active, open, retryTimer, publishing,
                 limiter>>

-------------------------------------------------------------------------------
TransportInit ==
  /\ config \in Configurations
  /\ local = [k \in KindSet |-> 0]
  /\ heard = [p \in PeerSet |-> [k \in KindSet |-> 0]]
  /\ runs = [i \in Runs |-> IdleRun]
  /\ wire = {}
  /\ posted = [i \in Runs |-> [p \in PeerSet |-> 0]]
  /\ up \in IF config.relays THEN SUBSET Relays ELSE {{}}
  /\ failures = [r \in Relays |-> 0]
  /\ nextAttempt = [r \in Relays |-> 0]
  /\ active = IF config.relays THEN Relays ELSE {}
  /\ open = active
  /\ stored = {}
  /\ retryTimer = -1
  /\ publishing = {}
  /\ bucket = NoBucket
  /\ passed = [i \in Remembered |-> RateWindow]
  /\ faults = 0

Sooner(d) == IF d > 0 THEN d - 1 ELSE d

(* Time passes for the backoffs, the retry timer and the window; a timer     *)
(* that is due fires first.                                                 *)
TimePasses ==
  /\ retryTimer # 0
  /\ nextAttempt' = [r \in Relays |-> Sooner(nextAttempt[r])]
  /\ retryTimer' = Sooner(retryTimer)
  /\ bucket' = IF bucket.count = 0 THEN bucket
               ELSE [bucket EXCEPT !.age = Min({bucket.age + 1, RateWindow})]
  /\ passed' = [i \in Remembered |-> Min({passed[i] + 1, RateWindow})]
  /\ UNCHANGED <<config, heard, faults, https, up, failures, active, open, stored, publishing>>

Delivery ==
  \/ \E i \in Runs : PublishTimer(i) \/ (\E p \in PeerSet : Answered(i, p))
  \/ \E w \in wire : PeerHears(w)

Subscribing ==
  \/ RetryFires
  \/ \E r \in Relays : CannotConnect(r)

TransportNext ==
  \/ Delivery
  \/ Subscribing
  \/ \E k \in KindSet : Announce(k) \/ RelayBrings(k)
  \/ \E i \in Runs, p \in PeerSet : PostLost(i, p) \/ PostTimesOut(i, p)
  \/ HearRfb
  \/ \E r \in Relays : ClosedByRelay(r) \/ RelayFails(r) \/ RelayRecovers(r)
  \/ Publish
  \/ Published
  \/ \E a \in Announcements : RelayBringsStored(a)
  \/ TimePasses

TransportSpec == TransportInit /\ [][TransportNext]_transportVars

(* Requests are answered or fail, timers fire, relays come back and other    *)
(* routers publish again and again.                                         *)
FairTransportSpec ==
  /\ TransportSpec
  /\ WF_transportVars(Delivery)
  /\ WF_transportVars(Subscribing)
  /\ WF_transportVars(TimePasses)
  /\ WF_transportVars(\E r \in Relays : RelayRecovers(r))
  /\ WF_transportVars(\E k \in KindSet : RelayBrings(k))

-------------------------------------------------------------------------------
(* Properties *)

(* However the workers interleave: when a run turns to its next kind or ends, *)
(* its message was posted to every peer, and exactly once.                  *)
EveryPeerIsPosted ==
  [][\A i \in Runs :
       (runs[i].kind # 0 /\ runs'[i].kind # runs[i].kind) =>
         \A p \in PeerSet : posted[i][p] = 1]_transportVars

(* Windows are not aligned, but in no stretch of a window's length more than *)
(* twice the limit is let through.                                          *)
AtMostTwiceTheLimit == passed[2 * RateMax + 1] >= RateWindow

(* However requests are lost, late or overtaken, runs overlap, relays fail   *)
(* and subscriptions are replayed: in the end every receiver has the last    *)
(* announcement of each kind, unless that one expires on the way.           *)
AnnouncementsArrive ==
  <>[](\A k \in KindSet :
         /\ config.relays => heard[Receivers[1]][k] = local[k]
         /\ ~config.relays => \A p \in PeerSet : heard[p][k] = local[k])
===============================================================================
