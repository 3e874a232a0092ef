----------------------------- MODULE PaymentRetries ---------------------------
(***************************************************************************)
(* Retries at every level around one paid request: the application calls   *)
(* inferWithPayment of the SDK again until it is served; the SDK posts an   *)
(* envelope again; the router asks for an invoice again; the adapter        *)
(* answers from its idempotency cache or asks the Lightning backend.        *)
(*                                                                         *)
(* PaidInference assumes a provider that knows its keys.  This module has   *)
(* the provider that is in the repository, whose cache is written after an  *)
(* await and outlives the invoices in it.                                  *)
(*                                                                         *)
(* Time is kept as what is left of each lifetime, so that the clock needs   *)
(* no end.  One node and one amount: one idempotency key.                   *)
(***************************************************************************)
EXTENDS Integers, FiniteSets

CONSTANTS
  Lifetime,        \* of an invoice: 5 minutes
  IdempotencyTtl,  \* of an answer in the adapter's cache: 10 minutes
  MaxLag,          \* the router's requests for an invoice take no longer in all
  ClientAttempts,  \* retry.maxAttempts of the SDK, with POST among its methods
  RouterAttempts,  \* retryMaxAttempts of the router's invoice provider
  Nwc,             \* the backend is NWC: its failures are answers, not errors
  MaxInvoices,     \* bound: so many invoices that are still referred to
  MaxFaults        \* bound: so many lost or late messages and failures

ASSUME RetryAssumption ==
  /\ {Lifetime, IdempotencyTtl, MaxLag, ClientAttempts, RouterAttempts} \subseteq Nat \ {0}
  /\ Lifetime <= IdempotencyTtl
  /\ Nwc \in BOOLEAN
  /\ MaxInvoices \in Nat
  /\ MaxFaults \in Nat

Tries == {1, 2}  \* a try may start while the router still handles the one before
Phases == {"infer", "receipt", "again"}
Invoices == 1 .. MaxInvoices
None == 0

VARIABLES
  client,    \* inferWithPayment, or inferStreamWithPayment
  handled,   \* the envelopes of each try that the router's nonce store knows
  handlers,  \* what the router does with the envelopes of each try
  request,   \* the invoice of the stored PaymentRequest
  receipt,   \* the invoice of the stored PaymentReceipt
  cache,     \* the adapter's entry for the idempotency key
  backend,   \* the invoices the adapter has asked the backend for
  life,      \* the time left of each invoice, negative when it has expired
  paid,      \* the invoices the client has paid
  runs,      \* history: how often the node ran the request of a try
  faults

vars == <<client, handled, handlers, request, receipt, cache, backend, life, paid, runs, faults>>

Offers == Invoices \cup {None}
Floor == -(IdempotencyTtl + MaxLag)

ClientState ==
  [pc : {"idle", "sending", "awaiting", "paying", "done"}, stream : BOOLEAN, phase : Phases,
   attempt : 1 .. ClientAttempts, try : Tries, offer : Offers]

(* lag: the age of the clock reading that the handler will use.             *)
HandlerState ==
  [pc : {"none", "asking", "waiting", "verifying", "at node"}, attempt : 1 .. RouterAttempts,
   lag : 0 .. MaxLag]

CacheState == [status : {"none", "ok", "failed"}, invoice : Offers, left : 0 .. IdempotencyTtl]

TypeOK ==
  /\ client \in ClientState
  /\ handled \in [Tries -> SUBSET Phases]
  /\ handlers \in [Tries -> [Phases -> HandlerState]]
  /\ request \in Offers
  /\ receipt \in Offers
  /\ cache \in CacheState
  /\ backend \subseteq [try : Tries, phase : Phases, attempt : 1 .. RouterAttempts]
  /\ life \in [Invoices -> Floor .. Lifetime]
  /\ paid \subseteq Invoices
  /\ runs \in [Tries -> Nat]
  /\ faults \in 0 .. MaxFaults

NoHandler == [pc |-> "none", attempt |-> 1, lag |-> 0]
NoEntry == [status |-> "none", invoice |-> None, left |-> 0]

Init ==
  /\ client = [pc |-> "idle", stream |-> FALSE, phase |-> "infer", attempt |-> 1, try |-> 1,
               offer |-> None]
  /\ handled = [t \in Tries |-> {}]
  /\ handlers = [t \in Tries |-> [p \in Phases |-> NoHandler]]
  /\ request = None
  /\ receipt = None
  /\ cache = NoEntry
  /\ backend = {}
  /\ life = [i \in Invoices |-> 0]
  /\ paid = {}
  /\ runs = [t \in Tries |-> 0]
  /\ faults = 0

Fault == faults < MaxFaults /\ faults' = faults + 1

-------------------------------------------------------------------------------
(* The SDK *)

(* requestWithRetry, when an attempt failed: the same envelope again, or the *)
(* error for the application.                                               *)
RetryOrThrow(cl) ==
  IF cl.attempt < ClientAttempts
  THEN [cl EXCEPT !.pc = "sending", !.attempt = @ + 1]
  ELSE [cl EXCEPT !.pc = "idle"]

NextPhase(cl, phase) == [cl EXCEPT !.pc = "sending", !.phase = phase, !.attempt = 1]

(* The response reaches an SDK that still awaits it.  Only the first        *)
(* inference may end in a payment; whatever else is no success is thrown,   *)
(* except the statuses that requestWithRetry tries again.                   *)
Hear(t, phase, answer, offer) ==
  client' = IF ~(client.pc = "awaiting" /\ client.try = t /\ client.phase = phase)
            THEN client
            ELSE CASE answer = "ok" /\ phase = "receipt" -> NextPhase(client, "again")
                   [] answer = "ok" /\ phase # "receipt" -> [client EXCEPT !.pc = "done"]
                   [] answer = "402" /\ phase = "infer" ->
                        [client EXCEPT !.pc = "paying", !.offer = offer]
                   [] answer = "502" -> RetryOrThrow(client)
                   [] OTHER -> [client EXCEPT !.pc = "idle"]

(* The application calls the SDK, for the first time or once more.          *)
Try(t, stream) ==
  /\ client.pc = "idle"
  /\ t # client.try
  /\ \A p \in Phases : handlers[t][p].pc = "none"
  /\ client' = [pc |-> "sending", stream |-> stream, phase |-> "infer", attempt |-> 1,
                try |-> t, offer |-> None]
  /\ handled' = [handled EXCEPT ![t] = {}]
  /\ runs' = [runs EXCEPT ![t] = 0]
  /\ UNCHANGED <<handlers, request, receipt, cache, backend, life, paid, faults>>

(* The request does not reach the router.                                   *)
PostLost ==
  /\ client.pc = "sending"
  /\ Fault
  /\ client' = RetryOrThrow(client)
  /\ UNCHANGED <<handled, handlers, request, receipt, cache, backend, life, paid, runs>>

(* timeoutMs, or a broken connection: the router goes on.  A stream that    *)
(* breaks after its head is not posted again.                               *)
ClientTimeout ==
  /\ client.pc = "awaiting"
  /\ Fault
  /\ \/ client' = RetryOrThrow(client)
     \/ /\ client.stream
        /\ client.phase # "receipt"
        /\ handlers[client.try][client.phase].pc = "at node"
        /\ client' = [client EXCEPT !.pc = "idle"]
  /\ UNCHANGED <<handled, handlers, request, receipt, cache, backend, life, paid, runs>>

(* onPaymentRequired pays, as long as the invoice has not expired; a wallet  *)
(* pays an invoice once and returns its proof again.                        *)
Pay ==
  /\ client.pc = "paying"
  /\ IF life[client.offer] > 0 \/ client.offer \in paid
     THEN /\ paid' = paid \cup {client.offer}
          /\ client' = NextPhase(client, "receipt")
     ELSE /\ client' = [client EXCEPT !.pc = "idle"]
          /\ UNCHANGED paid
  /\ UNCHANGED <<handled, handlers, request, receipt, cache, backend, life, runs, faults>>

-------------------------------------------------------------------------------
(* The router *)

Handler(t, p, pc) == [handlers EXCEPT ![t][p] = [NoHandler EXCEPT !.pc = pc]]

(* Mutant: no checkReplay.                                                  *)
DeliverAnyNonce ==
  LET t == client.try
      p == client.phase
  IN  /\ client.pc = "sending"
      /\ p # "receipt"
      /\ client' = [client EXCEPT !.pc = "awaiting"]
      /\ handled' = [handled EXCEPT ![t] = @ \cup {p}]
      /\ handlers' = Handler(t, p, IF receipt = None THEN "asking" ELSE "at node")
      /\ runs' = IF receipt = None THEN runs ELSE [runs EXCEPT ![t] = @ + 1]
      /\ UNCHANGED <<request, receipt, cache, backend, life, paid, faults>>

(* /infer or /infer/stream: an envelope once.  With a stored receipt the     *)
(* request goes to the node, without one the router needs an invoice.       *)
Deliver ==
  LET t == client.try
      p == client.phase
  IN  /\ client.pc = "sending"
      /\ p # "receipt"
      /\ IF p \in handled[t]
         THEN /\ client' = [client EXCEPT !.pc = "idle"]
              /\ UNCHANGED <<handled, handlers, runs>>
         ELSE /\ client' = [client EXCEPT !.pc = "awaiting"]
              /\ handled' = [handled EXCEPT ![t] = @ \cup {p}]
              /\ handlers' = Handler(t, p, IF receipt = None THEN "asking" ELSE "at node")
              /\ runs' = IF receipt = None THEN runs ELSE [runs EXCEPT ![t] = @ + 1]
      /\ UNCHANGED <<request, receipt, cache, backend, life, paid, faults>>

(* /payment-receipt, which knows no nonces: the receipt must be for the      *)
(* invoice of the stored request.                                           *)
DeliverReceipt ==
  /\ client.pc = "sending"
  /\ client.phase = "receipt"
  /\ IF request = client.offer
     THEN /\ client' = [client EXCEPT !.pc = "awaiting"]
          /\ handlers' = Handler(client.try, "receipt", "verifying")
     ELSE /\ client' = [client EXCEPT !.pc = "idle"]
          /\ UNCHANGED handlers
  /\ UNCHANGED <<handled, request, receipt, cache, backend, life, paid, runs, faults>>

(* The verification service has the payment (the verdict is not cached), or  *)
(* fails after as many attempts as are configured.                          *)
Verify(t) ==
  /\ handlers[t]["receipt"].pc = "verifying"
  /\ handlers' = Handler(t, "receipt", "none")
  /\ \/ /\ Hear(t, "receipt", "ok", None)
        /\ receipt' = request
        /\ UNCHANGED faults
     \/ /\ Fault
        /\ Hear(t, "receipt", "400", None)
        /\ UNCHANGED receipt
  /\ UNCHANGED <<handled, request, cache, backend, life, paid, runs>>

(* The node answers, or fails, which the router reports as a 502.           *)
NodeAnswers(t, p) ==
  /\ handlers[t][p].pc = "at node"
  /\ handlers' = Handler(t, p, "none")
  /\ \/ Hear(t, p, "ok", None) /\ UNCHANGED faults
     \/ Fault /\ Hear(t, p, "502", None)
  /\ UNCHANGED <<handled, request, receipt, cache, backend, life, paid, runs>>

(* Mutant: the invoice that came last is the one to pay.                    *)
OfferForLatest(t, p, i) == i

(* The offer for a handler that got invoice i: the stored one, unless that   *)
(* had expired when the handler read the clock, before it asked.            *)
OfferFor(t, p, i) ==
  IF request # None /\ life[request] + handlers[t][p].lag > 0
  THEN request
  ELSE i

SendOffer(t, p, i) ==
  LET offer == OfferFor(t, p, i) IN
  /\ request' = offer
  /\ Hear(t, p, "402", offer)

(* withRetry in requestInvoice: one more request with the same key, or 502. *)
RetryInvoice(t, p) ==
  IF handlers[t][p].attempt < RouterAttempts
  THEN /\ handlers' = [handlers EXCEPT ![t][p].pc = "asking", ![t][p].attempt = @ + 1]
       /\ UNCHANGED client
  ELSE /\ handlers' = Handler(t, p, "none")
       /\ Hear(t, p, "502", None)

(* The router gives up on an attempt; the adapter goes on.                  *)
InvoiceTimeout(t, p) ==
  /\ handlers[t][p].pc \in {"asking", "waiting"}
  /\ Fault
  /\ RetryInvoice(t, p)
  /\ UNCHANGED <<handled, request, receipt, cache, backend, life, paid, runs>>

-------------------------------------------------------------------------------
(* The adapter *)

(* getCachedIdempotency has an answer.                                      *)
AnswerFromCache(t, p) ==
  /\ handlers[t][p].pc = "asking"
  /\ cache.status # "none"
  /\ IF cache.status = "ok"
     THEN /\ SendOffer(t, p, cache.invoice)
          /\ handlers' = Handler(t, p, "none")
     ELSE /\ RetryInvoice(t, p)
          /\ UNCHANGED request
  /\ UNCHANGED <<handled, receipt, cache, backend, life, paid, runs, faults>>

(* It has none: the backend is asked, whoever else has asked it meanwhile.  *)
AskBackend(t, p) ==
  /\ handlers[t][p].pc = "asking"
  /\ cache.status = "none"
  /\ handlers' = [handlers EXCEPT ![t][p].pc = "waiting"]
  /\ backend' = backend \cup {[try |-> t, phase |-> p, attempt |-> handlers[t][p].attempt]}
  /\ UNCHANGED <<client, handled, request, receipt, cache, life, paid, runs, faults>>

IsAwaited(b) ==
  /\ handlers[b.try][b.phase].pc = "waiting"
  /\ handlers[b.try][b.phase].attempt = b.attempt

(* Nobody refers to the invoice any more: its name is free.                 *)
IsFree(i) == i \notin {request, receipt, cache.invoice, client.offer}

(* The backend makes an invoice.  Its answer is cached over any other, and   *)
(* sent to the router if that still waits.                                  *)
MakeInvoice(b, i) ==
  /\ b \in backend
  /\ IsFree(i)
  /\ \A j \in 1 .. i - 1 : ~IsFree(j)
  /\ backend' = backend \ {b}
  /\ life' = [life EXCEPT ![i] = Lifetime]
  /\ paid' = paid \ {i}
  /\ cache' = [status |-> "ok", invoice |-> i, left |-> IdempotencyTtl]
  /\ IF IsAwaited(b)
     THEN /\ SendOffer(b.try, b.phase, i)
          /\ handlers' = Handler(b.try, b.phase, "none")
     ELSE UNCHANGED <<client, handlers, request>>
  /\ UNCHANGED <<handled, receipt, runs, faults>>

(* The backend fails.  The 502 of NWC is an answer and is cached; LNbits and *)
(* LND throw, which is not.                                                 *)
BackendFails(b) ==
  /\ b \in backend
  /\ Fault
  /\ backend' = backend \ {b}
  /\ cache' = IF Nwc THEN [status |-> "failed", invoice |-> None, left |-> IdempotencyTtl]
              ELSE cache
  /\ IF IsAwaited(b) THEN RetryInvoice(b.try, b.phase) ELSE UNCHANGED <<client, handlers>>
  /\ UNCHANGED <<handled, request, receipt, life, paid, runs>>

-------------------------------------------------------------------------------
(* Mutant: an entry of the cache stays.                                     *)
CacheForever == cache

(* An entry is gone at the time it expires.                                 *)
CacheLater == IF cache.left > 1 THEN [cache EXCEPT !.left = @ - 1] ELSE NoEntry

IsBusy(h) == h.pc \in {"asking", "waiting"}

(* Time passes.  The client pays at once, and no handler is older than its   *)
(* attempts may take.                                                       *)
Tick ==
  /\ client.pc # "paying"
  /\ \A t \in Tries, p \in Phases : IsBusy(handlers[t][p]) => handlers[t][p].lag < MaxLag
  /\ life' = [i \in Invoices |-> IF life[i] > Floor THEN life[i] - 1 ELSE Floor]
  /\ cache' = CacheLater
  /\ handlers' = [t \in Tries |-> [p \in Phases |->
       IF IsBusy(handlers[t][p]) THEN [handlers[t][p] EXCEPT !.lag = @ + 1] ELSE handlers[t][p]]]
  /\ UNCHANGED <<client, handled, request, receipt, backend, paid, runs, faults>>

Sdk == Pay \/ \E t \in Tries, stream \in BOOLEAN : Try(t, stream)

Router ==
  \/ Deliver \/ DeliverReceipt
  \/ \E t \in Tries : Verify(t) \/ \E p \in Phases : NodeAnswers(t, p)

Adapter ==
  \/ \E t \in Tries, p \in Phases : AnswerFromCache(t, p) \/ AskBackend(t, p)
  \/ \E b \in backend, i \in Invoices : MakeInvoice(b, i)

Trouble ==
  \/ PostLost \/ ClientTimeout
  \/ \E t \in Tries, p \in Phases : InvoiceTimeout(t, p)
  \/ \E b \in backend : BackendFails(b)

Next == Sdk \/ Router \/ Adapter \/ Trouble \/ Tick

Spec == Init /\ [][Next]_vars

(* The application does not give up, services answer, and time passes,       *)
(* although the clock stops for each payment.                               *)
FairSpec == Spec /\ WF_vars(Sdk) /\ WF_vars(Router) /\ WF_vars(Adapter) /\ SF_vars(Tick)

-------------------------------------------------------------------------------
(* Properties *)

\* Whichever attempts overlap, and whichever of two invoices for one key the cache
\* ends up with, the client never pays a second invoice while one that it has paid
\* could still be settled: the router offers the stored one until it expires.
PaysOncePerLifetime == Cardinality({i \in paid : life[i] > 0}) <= 1

\* The SDK's retries of a post, and the router's own, never make a node run the
\* request of one inferWithPayment twice.
OneRunPerTry == \A t \in Tries : runs[t] <= 1

\* An application that tries again and again is served in the end, although failures
\* and dead invoices are cached and an answered envelope cannot be posted again.
ServedInTheEnd == <>(client.pc = "done")
===============================================================================
