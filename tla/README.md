# fed_AI in TLA+

TLA+ modules, model-checking configurations and machine-checked proofs for fed_AI, a federation of
routers that send inference requests of clients to paid nodes. The modules are translated from the
TypeScript sources under `src/`; `PROJECT.json` maps every definition to the lines it stands for.

## 1. The system

| Part | State | Operations | What makes it hard |
|---|---|---|---|
| Replay protection (`packages/protocol/src/replay.ts`), used by every signed endpoint of router and node | Map of nonces; with a file: debounce timer, running write, queued flag | `checkReplay`, `cleanup`, `persist`, `load` | entries expire while their envelopes are still valid; restarts between accept and write; a failed write |
| Scheduling and node health (`services/router/src/scheduler`, `prune.ts`, `/register-node`, `/infer`, `/infer/stream`) | nodes with their last heartbeat, health entries, cooldowns, a one-second cache of weighted nodes, the candidates of each request under way | register, rank, attempt, fail over, mark failure or success, prune | every attempt is an await: lists ranked long ago meet maps that others have changed; late failures and successes; replies that cannot be read |
| Envelope worker pool (`workers/envelope-worker-pool.ts`, in both services) | queue, slots, the workers' inboxes, timers | `validateAndVerify`, `dispatch`, `cleanup`, timeout, error | late answers, dead workers, a full queue, wake-ups |
| Pay before work (`/infer`, `/payment-receipt`, `payments/*`, the node's check of receipts) | offers and receipts by request and payee; invoices of the provider | 402, invoice, receipt, verification, forwarding, retention | clock read before an await and used after it; concurrent calls of one request; expiry, pruning and late receipts |
| Invoice adapter (`tools/ln-adapter/server.js`) and client SDK (`packages/sdk-js`) | cache of answers by idempotency key; nothing beyond the call | `/invoice`, `/verify`; infer, pay, send receipt, retry | lookup, await, store; cached failures; a cache that outlives invoices; retries of what was already done, at three levels |
| Router federation (`/federation/*`, `federation/logic.ts`, `federation/publisher.ts`) | bids, awards, jobs, outbound jobs, federation payment requests and receipts | auction, award, job submit and result, payment request and receipt | limits checked before an await; lost awards; repeated submissions; restarts |
| Federation transport (`federation/nostr.ts`, `relay-manager.ts`, `publisher.ts`, `rate-limit.ts`) | relays with backoff, subscriptions, runs of the publishing timer, the limiter's windows | connect, fail, retry, post to all peers, receive | exponential backoff, several relays at once, overlapping runs, announcements that overtake each other |
| Router state (`state.ts`, `storage/*`, `prune.ts`, `main.ts`, `admin.ts`) | the maps of the service, database rows, the state file, the administrator | record, save, prune, persist, load, setup, claim, configure | the process may end between any two steps; writes fail, or end in another order; rows and file are pruned by different times |
| Node inference and offload (`services/node/src/http.ts`, `/node/offload`) | `inFlight`, nonces | capacity check, runner, timer, auction and offload to another node or the router | slots given back on every path, a runner that outlives its timer, nodes that offload to each other in circles |
| Scores, trust, staking, machine profiles, fees, splits, relay admission | small records | pure functions | boundaries, order of slashes and commits, two loops that must agree |
| Streaming relay (`streamNodeResponse`) | the client's event stream | chunks, final, error | a second node after a broken stream |

Clients call routers over HTTP, routers call nodes and each other over HTTP or Nostr relays, nodes call
each other and their router, and everything that is signed goes through the worker pool and replay
protection. All handlers of a process run on one event loop: a step of a model is the code between two
awaits, so that two handlers interleave only there.

`PROJECT.json` lists all parts as *components*, those without a module too, with the reason, and the
*hazards*: the places where this code could go wrong in a way that a unit test hardly reaches.

## 2. Plan

In order of what a request depends on most; the modules of all points are written:

1. `ReplayProtection`, `ReplayGuard`, `FileNonceStore`, with proofs.
2. `NodeHealth`, with proofs.
3. `EnvelopeWorkerPool`, with proofs.
4. `PrepaidInference`, `PaidInference` and the proof of the refinement; `PaymentRetries` for the provider
   and the retries that `PaidInference` abstracts from.
5. `PostpaidOffload`, `FederationOffload` and the proof of the refinement: auction to settlement
   between routers; `FederationTransport` for the way their announcements travel.
6. `NodeOffload`, with proofs.
7. `RouterLifecycle`, with proofs: what a router keeps over restarts.
8. Pure decisions: `Scheduling`, `TrustWeights`, `PaymentTerms`, `RelayAdmission`, put together in
   `Decisions`, with proofs of what holds for inputs of any size.

Left: a `PostgresNonceStore` beside `FileNonceStore` and the deeper paths of the validators.

## 3. Modules and code

**`ReplayProtection`** (abstract) is what `checkReplay` promises: each envelope is let through at most
once, and only while its timestamp is inside the window. **`ReplayGuard`** is `checkReplay` over
`InMemoryNonceStore`: `held` is the Map as a set of entries `[nonce, ts]`; `Has`, `Add`, `Cleanup` are
the store's methods; `Accept` and `Reject` are the two outcomes of the call, for any envelope, in any
order, any number of times. `accepts` is a history variable. **`FileNonceStore`** extends it with the
file, the debounce timer, the write under way and restarts. A write failure is a restart, because the
rejected promise of `void this.persist()` ends the process; it leaves the previous file, as the data
goes to a temporary file that is renamed.

**`NodeHealth`**: `nodes` is the registry (node to last heartbeat), `health` and `cooldown` the Maps of
the service, `cachedAt` and `cached` the cache of weighted nodes, `req` the requests under way with the
rest of their candidates. `Start` is a handler up to its first attempt; `NodeFails`, `StreamBreaks`,
`AttemptThrows`, `NodeAnswers` are the ways in which an attempt ends; `Register`, `Prune` and `Tick` are
the others on the same maps. Scores decide only the order of the candidates: `Rankings` admits every
order. Model support and prices are left out: every node can serve every request. The requests are those
of clients: the loops of `/federation/job-submit` and `/node/offload` make the same attempts, but allow
delegation (`http.ts:500-522`), by which a success may be another node's than the one that was asked; they
are not followed. To the maps such a success is what an answer to another client's request is.

**`EnvelopeWorkerPool`**: `queue`, `serving` (the task of each slot), `posted` (what a worker was sent
and has not answered). `Submit` is `validateAndVerify` with `dispatch`; `Answer`, `Timeout` and
`WorkerDies` are `onMessage`, the timer and `onError`, each with its `cleanup` and the `dispatch` in it.
`outcome` says what the caller gets; "unchecked" and "late" are the cases in which
`validateSignedEnvelope` checks the envelope itself.

**`PrepaidInference`** (abstract) is pay before work: an invoice of a node is offered, paid, worked for,
in this order. **`PaidInference`** is one request with several calls of `/infer` or `/infer/stream` and
of `/payment-receipt`, on one router: `requests` and `receipts` are the router's Maps (their keys differ
only in the payee for one request), `invoices` is what the provider has made, `calls` and `posts` the
handlers under way. A handler that waits for the provider (`NewInvoice`, `SameInvoice`, `NoInvoice`)
keeps the time `at` it had read before. The provider, the verification service and the Lightning
payment are external and modelled by what the code sends them and makes of their answers. The
refinement maps `offered` and `paid` to the offers that the client got and those whose invoice is paid.

**`PaymentRetries`** is the same request with every retry in the repository: the application calls
`inferWithPayment` again (`Try`), `requestWithRetry` posts an envelope again (`RetryOrThrow`), the
router's `withRetry` asks for the invoice again (`RetryInvoice`), and the adapter of `tools/ln-adapter`
answers from its cache or asks the Lightning backend. `handlers` are the router's handlers under way,
those of posts that the SDK has given up included, so that an old one may answer after a new one;
`backend` are the invoices under way, whoever still waits for them. Time is what is left of each
lifetime, so that no clock ends and an application may try for ever. Worth knowing of the code: a post
is repeated only if `retry.methods` includes POST, and a repeated post whose first one was handled gets
400 `replay`; a failure of NWC is an answer and is cached for the whole TTL; with `onPaymentRequired`
given, `sendReceipt` defaults to false and the router is never told of the payment (the model sends it).

**`PostpaidOffload`** (abstract) is pay on receipt: an amount is owed for work that was done, the work is
done for an award, at no more than its price, and only what is owed is paid. **`FederationOffload`** is
one requesting router, with all its calls of `attemptFederationOffload`, and its peers. `phase`,
`deadline`, `deal` and `sentAt` are the local variables of a call: how far it is, the deadline of its
RFB, the award and the time of its submission. `outbound` is `outboundJobs` and `requests` is
`federationPaymentRequests`, both by requestId, so that two calls of one request share an entry;
`awards` is each peer's `federation.awards`, `served` its `/federation/job-submit` for a call, `receipts`
what the peers have signed. `PostResult`, `RequestPayment` and `PostPayment` are the settlement
endpoints, `Prune` is `pruneRouterState` on these maps, and a restart of either side takes what is not
saved, or is saved under keys that no handler looks up. `issued` and `settled` are histories. The bids
are arbitrary, so the cheapest may be any; what is written and never read (`outboundAwards`, `bids`, the
peers' `jobs`, the settlement record) is left out.

**`FederationTransport`** has the two ways in which announcements travel. By HTTPS, `runs` are calls of
`publishFederation` (the interval timer starts one whether or not the last has ended), each with the
`rest` of the peers that its workers share and those that are `flying`; `wire` are requests that may
arrive late or twice in another order. Over relays, `failures` and `nextAttempt` are the relay manager,
`active` and `open` the subscription, `retryTimer` its timer, `stored` what relays send to a new
subscription. A receiver keeps the announcement that came last, without looking at its age (by HTTPS all
peers' announcements go to one slot), and a relay in backoff is not subscribed to again while others stay
open; that announcements arrive all the same rests on their being repeated. `bucket` is one bucket of the
limiter; the history `passed` has the ages of the last `2 * RateMax + 1` messages that it let through, the
newest first, so that one more than twice the limit within a window shows in its last place.

**`NodeOffload`** is a group of nodes with their router. A call is a handler of `/infer`, `/infer/stream` or
`/node/offload`; `parent` is the call that waits for its answer; `left` the targets it has yet to try;
`held` is `inFlightRegistered`. `AttemptOffload` is what a call does when it finds the node full, its runner
fails or the key of a receipt cannot be parsed (`ReceiptThrows`): an auction among the peers (`Bid`,
`NoBid`, `CloseAuction`, `Award`), the peers in order or the router, as `config` says. `Return` is the end
of a call with its `finally`: the slot is given back and the parent hears of it. A runner whose timer has
won goes on as one of `late`. An envelope that a peer gets is the client's, nonce included, so that the
peers' replay protection ends a circle; the router gets a new one, and with `offloadRouter` two nodes may
pass a request to and fro, each time with a fresh nonce and only the last node on the list to avoid.

**`RouterLifecycle`** is everything a router keeps. A row is an entry of one of its maps, and all that
matters of it is the time it is pruned by: requests by `expiresAtMs`, receipts by `paidAtMs`, nodes by
their heartbeat, stakes never. `Record` is memory first, then the database (`saving`, answered in any
order); `Persist` and `PersistDone` are the snapshot timer with its `inFlight` and `queued` flags;
`StartFromStore`, `StartFromFile`, `StartEmpty` and `StartSetup` are the four ways `main.ts` starts. The
database deletes by `updated_at`, which an upsert moves, memory by the row's own time; a read that fails
is logged, and the router starts empty and overwrites the file (`state.ts:160`). A node that the
administrator removes is removed from memory only and comes back from the database with the next start
(`RemoveNode`). `acked` and `paid` are histories of what callers were told.

**`Scheduling`**, **`TrustWeights`**, **`PaymentTerms`** and **`RelayAdmission`** are operators without
state: scores, `selectNode`, the ranking by insertion and the prices; health, penalties, decay, stake and
machine profiles; offers with fees and splits and the comparisons that SDK, router and node make; relay
discovery and its policy. **`StableSort`** is the language's sort, which splits and relays go through,
by positions: an entry stands where as many come before it as there are places before. Doubles are
integers scaled by a common factor (scores in thousandths); quotients are compared exactly, and inputs
keep a distance where rounding could decide. The library's prices are in thousandths, as a price per second
is taken of milliseconds. **`Decisions`** takes each input of eight given sets in a
step of its own and compares the operators with reference definitions or with each other; `MCDecisions`
fills the sets with small inputs.

## 4. What the runs check

| Run | Instance | Shows |
|---|---|---|
| `nonce_memory` | 3 nonces, window 2, clock to 5 | each envelope accepted at most once and only inside the window, although nonces are forgotten all the time; refinement of `ReplayProtection` |
| `nonce_file` | 2 nonces, window 1, clock to 3, one restart | what reached the file is never accepted again; what is held is written in the end |
| `node_health` | 2 nodes, 2 requests, clock to 6, one failure to cool down, backoff up to twofold | cooldowns match streaks, cooling nodes get no new request, live nodes are not overlooked |
| `worker_pool` | 2 workers, 1 place in the queue, 5 calls | no call lost or stuck; slots used; verdicts are the envelope's own until a task is overtaken; every call returns |
| `paid_inference` | 2 nodes, 2 prices, 3 calls, 1 receipt, 2 invoices, clock to 2 | a live offer is the one receipts are compared with, invoices keep their terms, receipts paid in time are not refused; refinement of `PrepaidInference` |
| `payment_retries` | 2 tries at a time, 2 attempts of SDK and router each, NWC, 5 invoices, 3 faults; a unit of time is 2.5 minutes | no second invoice is paid while a paid one is live; a try runs once; the application is served in the end |
| `federation` | 2 peers, 2 calls for 1 job, 3 prices, 2 outputs, clock to 1 | receipts and payments are refused only after retention, a restart or a second call for the job; refinement of `PostpaidOffload` |
| `federation_transport` | 3 peers, 2 relays, 2 kinds (2 and 1 versions), 2 workers, 2 overlapping runs, delays 1 and 2, limit 2 in a window of 3, 1 fault; three configurations | a run posts to every peer exactly once; every receiver has the last announcement in the end; no more than twice the limit in any window |
| `node_offload` | 2 nodes of capacity 1, 6 calls, 4 envelopes, 2 arrivals, 1 lost answer; a circle of peers, an auction, the router | slots are counted and given back; no envelope runs twice at a node; a started stream stays with its node; every call is answered |
| `router_lifecycle` | a client's and a federation key, a node, a stake, an owner, clock to 4, 2 records, 2 crashes, 1 failure; with and without a database | answered rows survive; a paid request is never counted as missing; the claim holds; the file never goes back and follows memory in the end |
| `decisions` | every small input of eight kinds, see `MCDecisions` | the ranking is the top k and its head is `selectNode`'s; prices agree; failures do not help, stake only fades, better machines get no less; offered terms are accepted; a router admits its own snapshots |
| `node_offload_jobs` | as `node_offload` | expected violation: more jobs than the capacity |

*Bounds.* The clock covers each duration and one unit more, so that every entry expires, is pruned and
comes again: nonces leave the window and are used again, a cooldown ends and a second one is longer,
the cache becomes stale, an offer expires and is replaced. Two nodes are enough for a request to have
another candidate behind the one at which it fails, and two requests for one to change what the other
has read. In the pool the third call is the first that can get the answer of a task that timed out, five
are enough to fill slots and queue and to be refused. `node_health` counts one failure as a streak, to
keep the clock short; the theorems hold for all thresholds. With `PaymentWindow` 1 and a clock to 2 an
offer is live, expires, is pruned and replaced. In `federation` all durations are 0: awards, jobs and
requests are valid in their own tick and over with the next, which is all that the checks tell apart. Of
the prices 1, 3 and 5 msat, at 2 msat to a sat, two make different amounts and the third exceeds the
cap of 3. Two calls for one job are the fewest in which one replaces what the other is paid by.

In `payment_retries` a cached answer (4 units) outlives an invoice (2), and three faults are enough to
lose a post, let an invoice request time out and fail the backend in one behaviour; five invoices are
more than four places can refer to. In `node_offload` two nodes are the shortest circle, a capacity of
one makes the second request offload, six calls let a request go round and be refused as a replay. Two
nodes that both use `offloadRouter` are left out: a request may go to and fro between them and the router
with a fresh nonce each time, for as long as both are full, and no bound on envelopes is enough.
In `router_lifecycle` the retentions 1, 2 and 1 with a lifetime of 1 are the smallest that meet
`ReceiptsOutliveRequests`; two records make a request and its receipt, two crashes a start after a
start. In `federation_transport` three peers and two workers let a worker run ahead of the other, and
the second run overtakes the first.

Where symmetry is used, values are only compared and all properties are safety properties.
`CHECK_DEADLOCK FALSE` stands where a system with all its work done may stop.

*Fairness.* `FairFileSpec` lets timers fire (`setTimeout`) and writes end, by success or by a restart;
the pool lets its timers fire and assumes nothing of workers. In `NodeOffload` the event loop goes on
with some handler, and a runner without a timer answers: with a timer nothing is assumed of it. In
`PaymentRetries` SDK, router and adapter take their steps and the application keeps trying; time passes
(strong fairness, as the model stops its clock during a payment). In `RouterLifecycle` the interval timer
fires and a write ends, by success or failure. In `FederationTransport` requests are delivered, timers
fire, relays recover and the other routers republish, as their interval timers do. Nothing else is fair:
clients, nodes and crashes owe nothing.

Each property of a passing run has a mutant in `PROJECT.json`: a plausible bug in a mapped definition
that makes TLC find the property violated. The mutated operators stand before the definitions they
replace (`CleanupInclusive` before `Cleanup`, and so on); no specification uses them.

## 5. What is proved

All theorems hold for every value of the constants that meets the named assumptions, proved by TLAPS
from an inductive invariant each. Type invariants are theorems (`TypeCorrect`, `FileTypeCorrect`,
`HealthTypeCorrect`, `PoolTypeCorrect`, `PaidTypeCorrect`, `OffloadTypeCorrect` twice, `LifecycleTypeCorrect`,
`RetriesTypeCorrect`, `TransportTypeCorrect`).

* `EnvelopeProofs`, the guard in memory: `GuardInv` adds to type and at-most-once that every accepted
  envelope is held or too old for the window. Theorems: `AtMostOnce`, `OnlyAcceptedAreHeld`, `Forgetful`,
  `Refinement`.
* `EnvelopeProofs`, the file: `FileInv` adds that a nonce which has been in the file and is still inside the
  window is in the Map, in the file and in any snapshot under way, whatever a restart takes; and that
  what is being written is held or has expired. Theorems: `NothingUnsavedIsForgotten`, `PersistedAtMostOnce`.
* `NodeHealthProofs`: `HealthInv` adds that nothing is dated in the future and that the cache knows all
  heartbeats that are older than it. `CooldownsMatchStreaks` needs the assumption
  `HealthOutlivesCooldown` (an hour of health against two minutes of cooldown by default): with a
  shorter retention, pruning takes the streak away while its cooldown runs. Also
  `CoolingNodesAreNotRanked`, `CooldownsOnlyExtend` (from the growth of the backoff), `LiveNodesAreCandidates`
  (by counting: a ranking shorter than topK is a permutation of all active nodes).
* `DecisionsProofs`, the weights: `FailuresNeverRaiseTrust` and `BetterMachinesAreTrusted` compare quotients
  by their greatest multiples, threshold by threshold: nine samples become ten, four become five.
  `StakeFades` is about sums over stores of any size. A sum is the number of pairs of an entry and one of
  its units (`UnitsAreCounted`): that count has the equation of the fold, and a function with the same
  equation that differs from it would differ on a least set, of which it does not. With sets of pairs
  in place of sums, fewer entries are a subset.
* `DecisionsProofs`, the ranking: the place of a candidate is one more than the number of those ahead of
  it, and every place up to the number of candidates has exactly one (`PositionsAreHeld`, for any order: an
  injection between sets of one size). One more candidate, the last in order, takes the place before the
  first of a lower score and moves those behind by one (`PlacesOfOneMore`), which is what the insertion does; what
  the truncation drops never comes back (`RankKeepsLeading`). Both loops thus compute the leading
  candidates of every prefix, again by a least counterexample (`LoopRanks`, `LoopSelects`).
  Theorems: `RankingKeepsTheBest`, `OnePriceForAll`: one price per token for router and client library, and
  for any unit one for quote and offer.
* `DecisionsProofs`, the terms: `ReceiptsHonourOffers`. Two sequences are *rearranged* when a bijection of
  their positions takes each entry to an equal one. Sorted, rearranged sequences have at no place one entry
  before the other's (`SortedAreNoLater`: otherwise more entries of the one would come first than the other
  has), and as only equal splits come in no order, they are the same; the other way round, what sorts to the
  same is rearranged (`MatchingIsRearranging`). So is what has every split as often, which is how the
  reference is stated, one bijection for each value (`ReorderingIsRearranging`). Sums are counts of
  shares again, which a rearrangement keeps (`RearrangedSums`); that the node's limit leaves room is
  arithmetic over the rounding of the rate (`FeesAreBounded`).
* `DecisionsProofs`, the relays: `SnapshotsAreAdmitted`. What is merged of any number of entries has each URL
  once with the best score that was heard for it (`MergeKeepsBest`, and by least counterexample
  `EntriesAreMerged`), so that it is the same for the same entries but for its order (`MergedIsRearranged`);
  sorting leaves the same scores at each place (`SortedScoresAreSame`) and cutting the same number of them.
  The relays themselves may differ where scores are equal and the cut goes between them: the theorem, as the
  code, promises scores only.
* `EnvelopeProofs`, the pool: `PoolInv` adds that until a task is overtaken each worker has exactly its
  slot's task to do. Theorems: `TasksAreKept`, `SlotsAreUsed`, `VerdictsMatchUntilLate`.
* `PaidInferenceProofs`: `PaidInv` adds that what a handler read before an await is no newer than the
  clock, that the router keeps only what it sent, and that receipts, kept or forwarded, are *covered*:
  their payee was offered their invoice, and it is paid if the router verifies. Theorems:
  `LiveOffersAreCurrent`, `TermsAreKept`, `RefusalsAreJust`, and `PayBeforeWork`, the refinement. It needs
  `SomeoneVerifies`: router or node has a verification service.
* `FederationProofs`, the offloads: `OffloadInv` adds that a call has its deal, within the cap, from the end of
  its auction on; that it is answered by one receipt at most, at no more than its price; that records and
  requests belong to calls and receipts of their job; and that they are kept, unless retention, a restart
  or a second call took them. Theorems: `AwardedWorkIsPayable`, `RequestedPaymentsAreAccepted`, and
  `PayOnReceipt`, the refinement.
* `NodeOffloadProofs`: `OffloadInv` adds where a call may hold a slot (`HeldAtNodes`), that every child
  has a parent of its own, which waits for it (`ParentsWait`), and that a nonce is known to a node before
  its runner starts, with one call at most between the two (`WorkIsSeen`). The count of slots is by
  cardinality: a step changes the holders of one node by one call at most. Theorems: `SlotsAreGivenBack`,
  `EnvelopesRunOnce`, `StreamsAreNotTakenOver`, for any number of nodes, calls and lost answers, and all
  settings of the offload.
* `RouterLifecycleProofs`: `LifecycleInv` adds that a save which waits is as young as the clock and what a
  live handler saves is in memory (`SavesAreRecent`); that memory, file, snapshot under way and database
  each hold whatever was answered for until its retention, and each hold the receipt of every paid offer
  they hold (`MemoryIsSound`, `FileIsSound`, `StoreIsSound`), so that it does not matter which of them a
  start reads; and that one snapshot is written at a time, with all stakes of the file (`StakesStay`). For
  the database the offer may also be on its way, hence `OfferTimes`. It needs `ReceiptsOutliveRequests`
  (receipts are kept as long as requests and the lifetime of an offer together, 60 minutes against 10 and
  the minutes of an invoice by default). Theorems: `AnswersSurvive`, `PaymentsAreReconciled`, `OneOwner`,
  `FilesMoveForward`.
* `PaymentRetriesProofs`: `RetryInv` adds that a first inference which waits for an invoice, or whose offer
  the client has, did not reach the node, so that only the inference with the receipt can, which the nonce
  store admits once (`RunsAreCounted`); that what is to be paid and what the adapter has cached are
  invoices (`OffersAreInvoices`); and that a paid invoice that has not expired is the one that the router
  has stored, and so is a live one that is about to be paid (`LivePaymentIsStored`): nothing replaces it
  before it expires. Theorems: `ClientPaysOncePerLifetime`, `NodeRunsOncePerTry`.
* `FederationProofs`, the transports: `TransportInv` adds that a run has posted its message once to every
  peer but those that are left (`RestIsLeft`), that what the bucket does not count is older than its window, and
  all but the limit of it a window older than that (`WindowsAreApart`), and that a router which is
  subscribed nowhere has a timer to try again (`SubscribedOrRetrying`). Theorems:
  `LimiterAdmitsTwiceAtMost` for every limit and window, `RunsPostToEveryPeer` for all lists of peers and
  kinds and any number of workers, `SubscriptionIsRetried`.

`OnlyAcceptedAreHeld`, `Forgetful`, `NothingUnsavedIsForgotten`, `CooldownsOnlyExtend` and
`SubscriptionIsRetried` are proved and not checked by a run: what they say is covered by the others.

Only model-checked is liveness under fairness, which is beyond the prover: `EventuallyPersisted`,
`EveryCallReturns` of the pool and of the nodes, `ServedInTheEnd`, `StateIsSaved`, `AnnouncementsArrive`.
Every invariant, action property and refinement that a passing run checks is a theorem.
What was proved about folds took an induction of its own each time, by a least counterexample as in `UnitsAreCounted`, since the library's
theorems that are schemes of induction cannot be applied by the provers at hand. `Decisions` assumes of its
inputs that they have the types of the code's, and that `None`, which stands for null, is no number, node
or capability, nor `NoRole` one of the roles.

## 6. Disagreements found

`node_offload_jobs` is a finding: `NODE_CAPACITY_MAX` bounds the calls that are answered, not the jobs
that run (`services/node/src/http.ts:1109`; `docs/runbooks/node-ops.md:45` says "max concurrent jobs").

Seven more places have a configuration of their own beside the runs; TLC finds each violation at once:

| Configuration | What it shows |
|---|---|
| `MCFileNonceStoreRestart` | a restart forgets the nonces of the last interval (`replay.ts:112`) |
| `MCNodeHealthFailover` | a reply that cannot be read ends the request with a candidate left (`services/router/src/http.ts:464`) |
| `MCEnvelopeWorkerPoolVerdict` | a late answer settles the next task (`envelope-worker-pool.ts:72`) |
| `MCPaidInferenceAttached` | receipts attached to a request are not read by the router (`http.ts:2248`) |
| `MCFederationOffloadPostpay` | a second call for a job loses the first peer's payment (`http.ts:335`) |
| `MCFederationOffloadCap` | `maxOffloads` does not bound the calls in flight (`http.ts:276`) |
| `MCDecisionsUnits` | a price per second is quoted by tokens (`services/router/src/scheduler/score.ts:43`) |

And in the pure functions, where a property of `decisions` is stated around it:

* Prices are per token or per second (`docs/pricing.md:8`, `packages/protocol/src/types.ts:23`), but the router
  does not look at the unit: scores, `/quote` and the offers of `/infer` multiply the rates by tokens
  (`scheduler/score.ts:43`, `http.ts:1643`, `http.ts:2254`). The client library does
  (`packages/sdk-js/src/index.ts:425-431`): for a price per second it estimates rate times latency, or nothing
  without an estimate of the latency, so that `filterNodesByPrice` compares another price than the client is
  then asked, and drops nodes that have no estimate. `PricesAgree` claims the library's price for prices per
  token only; `QuotesKeepTheUnit`, which claims it for all, is violated in `MCDecisionsUnits`.
* `/quote` looks the capability up again by its model's name (`http.ts:1635`). For the model `auto`, or
  a node with two capabilities for one model, it answers 503 or another price than `/infer` asks
  (`docs/pricing.md:10`, `docs/protocol.md:110`). `PricesAgree` claims a price for one capability per model.
* The router rounds its fee, the node rounds its limit down (`services/node/src/http.ts:785`): with equal
  settings about half of the paid requests are refused with `router-fee-exceeds-cap`
  (`docs/runbooks/node-ops.md:62`). `TermsAreHonoured` asks for half a sat of room.
* Stake is added after penalties are taken away and may outweigh them (`README.md:518`, `docs/router.md:69`).
* A success may lower a node's trust: with more samples the weight of its manifest decays, and the
  success rate counts. `FailuresNeverHelp` is about failures only.

## 7. Assumptions, and what is not modelled

* The clock of a process does not go back. A signature tells authentic envelopes from others.
* The client of `PaidInference` is honest: it sends receipts only for offers it got, and pays an offer
  only while it is live; it may send receipts early, late and twice.
* The routers of `FederationOffload` run this code, and calls of one requestId carry one prompt. The
  spending cap `maxSpendMsat` is configured, and the retention of jobs and requests is.
* A worker's result is delivered before the worker's death.
* An announcement is delivered before it expires: receivers ignore expired ones (`nostr.ts:222`), which
  `FederationTransport` does not follow. `AnnouncementsArrive` is about announcements that have not expired.
* No unit of time passes during a payment in `PaymentRetries`, or during an invoice request or a save in
  `RouterLifecycle`: these take seconds, the lifetimes minutes.
* Saves of one row may reach the database in any order, as they go through a pool of connections.
* `ReceiptsOutliveRequests`: the default retentions; with a shorter retention of receipts a paid
  request may be counted as missing.
* In `PaidInference` an unreachable verification service and a payment it refuses are one outcome: both
  answer with an error and store nothing.
* In `RouterLifecycle` a router starts with the rows under the keys they were recorded with. Those of
  federation payments come back under another key (`state.ts:117-131`): rows and their times are the same,
  so that the properties do not depend on it; what it does to receipts is in `FederationOffload`, where only
  a restart excuses a refused payment.
* `Claim` writes the file and the memory in one step: the code between is synchronous (`admin.ts:78-79`),
  and an end of the process there leaves what a claim followed by a crash does, but for the answer. An
  `adminKey` in the configuration, with which nobody can claim, is not modelled.
* Not modelled: `PostgresNonceStore` (its checks are those of `ReplayGuard`; a flush that fails drops the
  nonces it took from the queue, which a restart then forgets), the block list of the administrator,
  discovery of routers and parsing of event streams in the SDK, the formula of federation bids and their
  privacy levels.
* Not modelled for good: cryptography and field validation (a predicate of one message), authorisation
  (the same), model runners and hardware probes (I/O), the simulator, dashboards and examples, which no
  request passes through, logging and metrics, configuration parsing.
