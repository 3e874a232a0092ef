------------------------- MODULE PaymentRetriesProofs -------------------------
(***************************************************************************)
(* Proofs about the retries around one paid request, for all lifetimes and *)
(* numbers of attempts, any number of invoices and any number of faults.    *)
(***************************************************************************)
EXTENDS PaymentRetries, FiniteSetTheorems, TLAPS

(* The router has answered the first inference of try t with an offer. *)
WasOffered(t) == client.try = t /\ (client.phase # "infer" \/ client.pc = "paying")

(* A first inference that waits for an invoice did not go to the node, and    *)
(* neither did one that was answered with an offer: the request of such a try *)
(* can run in "again" only, whose envelope the nonce store admits once.      *)
RunsAreCounted ==
  \A t \in Tries :
    /\ runs[t] <= 1
    /\ "infer" \notin handled[t] =>
         runs[t] = 0 /\ ~WasOffered(t) /\ ~IsBusy(handlers[t]["infer"])
    /\ IsBusy(handlers[t]["infer"]) => runs[t] = 0 /\ ~WasOffered(t)
    /\ WasOffered(t) /\ "again" \notin handled[t] => runs[t] = 0

(* What is to be paid, and what is in the cache, is an invoice. *)
OffersAreInvoices ==
  /\ client.pc = "paying" => client.offer \in Invoices
  /\ cache.status = "ok" => cache.invoice \in Invoices

(* A paid invoice that has not expired is the stored one, and so is one that  *)
(* is about to be paid: nothing replaces it before it expires.               *)
LivePaymentIsStored ==
  /\ \A i \in paid : life[i] > 0 => i = request
  /\ client.pc = "paying" /\ life[client.offer] > 0 => client.offer = request

RetryInv == TypeOK /\ RunsAreCounted /\ OffersAreInvoices /\ LivePaymentIsStored

-------------------------------------------------------------------------------
(* Types *)

LEMMA Numbers ==
  /\ Lifetime \in Nat /\ Lifetime > 0
  /\ IdempotencyTtl \in Nat /\ IdempotencyTtl > 0
  /\ MaxLag \in Nat
  /\ ClientAttempts \in Nat /\ ClientAttempts > 0
  /\ RouterAttempts \in Nat /\ RouterAttempts > 0
  /\ MaxInvoices \in Nat /\ MaxFaults \in Nat
  /\ Floor \in Int /\ Floor <= 0
  /\ Invoices \subseteq Offers /\ Invoices \subseteq Nat \ {0} /\ None \in Offers /\ None \notin Invoices
  BY RetryAssumption DEF Floor, Invoices, Offers, None

LEMMA Constants ==
  /\ NoHandler \in HandlerState
  /\ NoEntry \in CacheState
  /\ \A pc \in {"none", "asking", "waiting", "verifying", "at node"} :
       [NoHandler EXCEPT !.pc = pc] \in HandlerState
<1>1. 1 \in 1 .. RouterAttempts /\ 0 \in 0 .. MaxLag /\ 0 \in 0 .. IdempotencyTtl /\ None \in Offers
  BY Numbers
<1>2. NoHandler \in HandlerState
  BY <1>1 DEF NoHandler, HandlerState
<1>3. NoEntry \in CacheState
  BY <1>1 DEF NoEntry, CacheState
<1>4. \A pc \in {"none", "asking", "waiting", "verifying", "at node"} :
       [NoHandler EXCEPT !.pc = pc] \in HandlerState
  BY <1>2 DEF HandlerState
<1> QED
  BY <1>2, <1>3, <1>4

LEMMA HandlerType ==
  ASSUME TypeOK, NEW t \in Tries, NEW p \in Phases,
         NEW pc \in {"none", "asking", "waiting", "verifying", "at node"}
  PROVE  Handler(t, p, pc) \in [Tries -> [Phases -> HandlerState]]
  BY Constants DEF TypeOK, Handler

LEMMA HandlerHere ==
  ASSUME TypeOK, NEW t \in Tries, NEW p \in Phases,
         NEW pc \in {"none", "asking", "waiting", "verifying", "at node"}
  PROVE  Handler(t, p, pc)[t][p].pc = pc
<1>1. Handler(t, p, pc)[t][p] = [NoHandler EXCEPT !.pc = pc]
  BY DEF TypeOK, Handler
<1>2. [NoHandler EXCEPT !.pc = pc].pc = pc
  BY DEF NoHandler
<1> QED
  BY <1>1, <1>2

LEMMA HandlersElsewhere ==
  ASSUME TypeOK, NEW t \in Tries, NEW p \in Phases, NEW pc,
         NEW u \in Tries, NEW q \in Phases, u # t \/ q # p
  PROVE  Handler(t, p, pc)[u][q] = handlers[u][q]
  BY DEF TypeOK, Handler

LEMMA ClientMoves ==
  ASSUME NEW cl \in ClientState
  PROVE  /\ RetryOrThrow(cl) \in ClientState
         /\ RetryOrThrow(cl).pc \in {"sending", "idle"}
         /\ RetryOrThrow(cl).phase = cl.phase
         /\ RetryOrThrow(cl).try = cl.try
         /\ \A ph \in Phases :
              /\ NextPhase(cl, ph) \in ClientState
              /\ NextPhase(cl, ph).pc = "sending"
              /\ NextPhase(cl, ph).phase = ph
              /\ NextPhase(cl, ph).try = cl.try
<1>1. RetryOrThrow(cl) \in ClientState
  <2>1. CASE cl.attempt < ClientAttempts
    <3>1. cl.attempt + 1 \in 1 .. ClientAttempts
      BY <2>1, Numbers DEF ClientState
    <3> QED
      BY <2>1, <3>1 DEF RetryOrThrow, ClientState
  <2>2. CASE ~(cl.attempt < ClientAttempts)
    BY <2>2 DEF RetryOrThrow, ClientState
  <2> QED
    BY <2>1, <2>2
<1>2. /\ RetryOrThrow(cl).pc \in {"sending", "idle"}
      /\ RetryOrThrow(cl).phase = cl.phase
      /\ RetryOrThrow(cl).try = cl.try
  BY DEF RetryOrThrow, ClientState
<1>3. ASSUME NEW ph \in Phases
      PROVE  /\ NextPhase(cl, ph) \in ClientState
             /\ NextPhase(cl, ph).pc = "sending"
             /\ NextPhase(cl, ph).phase = ph
             /\ NextPhase(cl, ph).try = cl.try
  <2>1. 1 \in 1 .. ClientAttempts
    BY Numbers
  <2> QED
    BY <2>1 DEF NextPhase, ClientState
<1> QED
  BY <1>1, <1>2, <1>3

(* What a response does to the SDK. *)
LEMMA Hears ==
  ASSUME client \in ClientState, NEW t \in Tries, NEW ph \in Phases, NEW answer,
         NEW offer \in Offers, Hear(t, ph, answer, offer)
  PROVE  /\ client' \in ClientState
         /\ client'.try = client.try
         /\ \/ client' = client
            \/ client'.pc # "paying" /\ client'.phase = client.phase
            \/ /\ client'.pc = "sending" /\ client'.phase = "again"
               /\ client.phase = "receipt" /\ answer = "ok"
            \/ /\ client'.pc = "paying" /\ client'.phase = "infer" /\ client'.offer = offer
               /\ client.phase = "infer" /\ client.try = t /\ ph = "infer" /\ answer = "402"
<1>1. CASE ~(client.pc = "awaiting" /\ client.try = t /\ client.phase = ph)
  BY <1>1 DEF Hear
<1>2. CASE client.pc = "awaiting" /\ client.try = t /\ client.phase = ph
  <2>1. CASE answer = "ok" /\ ph = "receipt"
    <3>1. client' = NextPhase(client, "again")
      BY <1>2, <2>1 DEF Hear
    <3> QED
      BY <1>2, <2>1, <3>1, ClientMoves DEF Phases
  <2>2. CASE answer = "ok" /\ ph # "receipt"
    <3>1. client' = [client EXCEPT !.pc = "done"]
      BY <1>2, <2>2 DEF Hear
    <3> QED
      BY <3>1 DEF ClientState
  <2>3. CASE answer = "402" /\ ph = "infer"
    <3>1. client' = [client EXCEPT !.pc = "paying", !.offer = offer]
      BY <1>2, <2>3 DEF Hear
    <3> QED
      BY <1>2, <2>3, <3>1 DEF ClientState
  <2>4. CASE answer = "502"
    <3>1. client' = RetryOrThrow(client)
      BY <1>2, <2>4 DEF Hear
    <3> QED
      BY <3>1, ClientMoves
  <2>5. CASE answer \notin {"ok", "502"} /\ ~(answer = "402" /\ ph = "infer")
    <3>1. client' = [client EXCEPT !.pc = "idle"]
      BY <1>2, <2>5 DEF Hear
    <3> QED
      BY <3>1 DEF ClientState
  <2> QED
    BY <2>1, <2>2, <2>3, <2>4, <2>5
<1> QED
  BY <1>1, <1>2

(* An offer is the stored one as long as that has not expired. *)
LEMMA OfferKeepsTheLive ==
  ASSUME TypeOK, NEW t \in Tries, NEW p \in Phases, NEW i \in Invoices
  PROVE  /\ OfferFor(t, p, i) \in Invoices
         /\ OfferFor(t, p, i) \in {request, i}
         /\ request # None /\ life[request] > 0 => OfferFor(t, p, i) = request
<1>1. handlers[t][p].lag \in Nat
  <2>1. handlers[t][p] \in HandlerState
    BY DEF TypeOK
  <2>2. handlers[t][p].lag \in 0 .. MaxLag
    BY <2>1 DEF HandlerState
  <2> QED
    BY <2>2, Numbers
<1>2. request # None => request \in Invoices /\ life[request] \in Int
  BY Numbers DEF TypeOK, Offers, None
<1> QED
  BY <1>1, <1>2 DEF OfferFor

(* One more request for an invoice, or the end of the handler with a 502. *)
LEMMA RetriesInvoice ==
  ASSUME TypeOK, NEW t \in Tries, NEW p \in Phases, RetryInvoice(t, p)
  PROVE  /\ handlers' \in [Tries -> [Phases -> HandlerState]]
         /\ \A u \in Tries, q \in Phases :
              handlers'[u][q] = handlers[u][q] \/ (u = t /\ q = p)
         /\ client' \in ClientState
         /\ client'.try = client.try
         /\ client' = client \/ (client'.pc # "paying" /\ client'.phase = client.phase)
<1>1. CASE handlers[t][p].attempt < RouterAttempts
  <2>1. /\ handlers' = [handlers EXCEPT ![t][p].pc = "asking", ![t][p].attempt = @ + 1]
        /\ client' = client
    BY <1>1 DEF RetryInvoice
  <2>2. handlers[t][p] \in HandlerState /\ handlers[t][p].attempt + 1 \in 1 .. RouterAttempts
    <3>1. handlers[t][p] \in HandlerState
      BY DEF TypeOK
    <3>2. handlers[t][p].attempt \in 1 .. RouterAttempts
      BY <3>1 DEF HandlerState
    <3> QED
      BY <1>1, <3>1, <3>2, Numbers
  <2>3. [handlers[t][p] EXCEPT !.pc = "asking", !.attempt = @ + 1] \in HandlerState
    BY <2>2 DEF HandlerState
  <2>4. handlers' = [handlers EXCEPT ![t][p] =
                       [handlers[t][p] EXCEPT !.pc = "asking", !.attempt = @ + 1]]
    BY <2>1, <2>2 DEF TypeOK, HandlerState
  <2> DEFINE h == [handlers[t][p] EXCEPT !.pc = "asking", !.attempt = @ + 1]
  <2> HIDE DEF h
  <2>5. h \in HandlerState /\ handlers' = [handlers EXCEPT ![t][p] = h]
    BY <2>3, <2>4 DEF h
  <2>6. /\ handlers' \in [Tries -> [Phases -> HandlerState]]
        /\ \A u \in Tries, q \in Phases : handlers'[u][q] = handlers[u][q] \/ (u = t /\ q = p)
    BY <2>5 DEF TypeOK
  <2> QED
    BY <2>1, <2>6 DEF TypeOK
<1>2. CASE ~(handlers[t][p].attempt < RouterAttempts)
  <2>1. handlers' = Handler(t, p, "none") /\ Hear(t, p, "502", None)
    BY <1>2 DEF RetryInvoice
  <2>2. client \in ClientState /\ None \in Offers
    BY Numbers DEF TypeOK
  <2>3. /\ client' \in ClientState
        /\ client'.try = client.try
        /\ client' = client \/ (client'.pc # "paying" /\ client'.phase = client.phase)
    BY <2>1, <2>2, Hears
  <2>4. handlers' \in [Tries -> [Phases -> HandlerState]]
    BY <2>1, HandlerType
  <2>5. \A u \in Tries, q \in Phases :
          handlers'[u][q] = handlers[u][q] \/ (u = t /\ q = p)
    BY <2>1 DEF Handler, TypeOK
  <2> QED
    BY <2>3, <2>4, <2>5
<1> QED
  BY <1>1, <1>2

LEMMA HandlersAsk ==
  ASSUME TypeOK, NEW t \in Tries, NEW p \in Phases
  PROVE  /\ handlers[t][p] \in HandlerState
         /\ handlers[t][p].attempt \in 1 .. RouterAttempts
         /\ [handlers EXCEPT ![t][p].pc = "waiting"] \in [Tries -> [Phases -> HandlerState]]
         /\ [handlers EXCEPT ![t][p].pc = "waiting"][t][p].pc = "waiting"
         /\ \A u \in Tries, q \in Phases :
              \/ [handlers EXCEPT ![t][p].pc = "waiting"][u][q] = handlers[u][q]
              \/ u = t /\ q = p
<1> DEFINE h == [handlers[t][p] EXCEPT !.pc = "waiting"]
<1>1. handlers[t][p] \in HandlerState
  BY DEF TypeOK
<1>2. handlers[t][p].attempt \in 1 .. RouterAttempts
  BY <1>1 DEF HandlerState
<1>3. h \in HandlerState /\ h.pc = "waiting"
  BY <1>1 DEF HandlerState
<1>4. [handlers EXCEPT ![t][p].pc = "waiting"] = [handlers EXCEPT ![t][p] = h]
  BY DEF TypeOK
<1> HIDE DEF h
<1> QED
  BY <1>1, <1>2, <1>3, <1>4 DEF TypeOK

(* Time passes for the handlers that wait. *)
LEMMA HandlersAge ==
  ASSUME TypeOK, Tick
  PROVE  /\ handlers' \in [Tries -> [Phases -> HandlerState]]
         /\ \A t \in Tries, p \in Phases : handlers'[t][p].pc = handlers[t][p].pc
<1> SUFFICES ASSUME NEW t \in Tries, NEW p \in Phases
             PROVE  handlers'[t][p] \in HandlerState /\ handlers'[t][p].pc = handlers[t][p].pc
  BY DEF Tick
<1>1. handlers[t][p] \in HandlerState
  BY DEF TypeOK
<1>2. handlers'[t][p] = IF IsBusy(handlers[t][p])
                        THEN [handlers[t][p] EXCEPT !.lag = @ + 1] ELSE handlers[t][p]
  BY DEF Tick
<1>3. CASE IsBusy(handlers[t][p])
  <2>1. handlers[t][p].lag \in 0 .. MaxLag /\ handlers[t][p].lag < MaxLag
    BY <1>1, <1>3 DEF Tick, HandlerState
  <2>2. handlers[t][p].lag + 1 \in 0 .. MaxLag
    BY <2>1, Numbers
  <2> QED
    BY <1>1, <1>2, <1>3, <2>2 DEF HandlerState
<1>4. CASE ~IsBusy(handlers[t][p])
  BY <1>1, <1>2, <1>4
<1> QED
  BY <1>3, <1>4

-------------------------------------------------------------------------------
(* Each step keeps the types *)

LEMMA TypeOfInit == Init => TypeOK
<1> SUFFICES ASSUME Init PROVE TypeOK
  OBVIOUS
<1>1. client \in ClientState
  <2>1. 1 \in 1 .. ClientAttempts /\ None \in Offers
    BY Numbers
  <2> QED
    BY <2>1 DEF Init, ClientState, Tries, Phases
<1>2. handled \in [Tries -> SUBSET Phases] /\ backend = {} /\ paid = {}
  BY DEF Init
<1>3. handlers \in [Tries -> [Phases -> HandlerState]] /\ cache \in CacheState
  BY Constants DEF Init
<1>4. request \in Offers /\ receipt \in Offers
  BY Numbers DEF Init
<1>5. life \in [Invoices -> Floor .. Lifetime] /\ runs \in [Tries -> Nat]
  BY Numbers DEF Init
<1>6. faults \in 0 .. MaxFaults
  BY Numbers DEF Init
<1> QED
  BY <1>1, <1>2, <1>3, <1>4, <1>5, <1>6 DEF TypeOK

LEMMA FaultType == TypeOK /\ Fault => faults' \in 0 .. MaxFaults
  BY Numbers DEF TypeOK, Fault

LEMMA SdkType ==
  ASSUME TypeOK, OffersAreInvoices, Sdk \/ PostLost \/ ClientTimeout
  PROVE  TypeOK'
<1>1. client \in ClientState /\ RetryOrThrow(client) \in ClientState
  BY ClientMoves DEF TypeOK
<1>2. CASE Pay
  <2>1. client.offer \in Invoices
    BY <1>2 DEF Pay, OffersAreInvoices
  <2>2. NextPhase(client, "receipt") \in ClientState /\ [client EXCEPT !.pc = "idle"] \in ClientState
    BY <1>1, ClientMoves DEF ClientState, Phases
  <2>3. client' \in ClientState /\ paid' \subseteq Invoices
    BY <1>2, <2>1, <2>2 DEF Pay, TypeOK
  <2> QED
    BY <1>2, <2>3 DEF Pay, TypeOK
<1>3. ASSUME NEW t \in Tries, NEW stream \in BOOLEAN, Try(t, stream)
      PROVE  TypeOK'
  <2>1. 1 \in 1 .. ClientAttempts /\ None \in Offers
    BY Numbers
  <2>2. client' \in ClientState
    BY <1>3, <2>1 DEF Try, ClientState, Phases
  <2>3. handled' \in [Tries -> SUBSET Phases] /\ runs' \in [Tries -> Nat]
    BY <1>3 DEF Try, TypeOK
  <2> QED
    BY <1>3, <2>2, <2>3 DEF Try, TypeOK
<1>4. CASE PostLost
  BY <1>1, <1>4, FaultType DEF PostLost, TypeOK
<1>5. CASE ClientTimeout
  <2>1. [client EXCEPT !.pc = "idle"] \in ClientState
    BY <1>1 DEF ClientState
  <2>2. client' \in ClientState
    BY <1>1, <1>5, <2>1 DEF ClientTimeout
  <2> QED
    BY <1>5, <2>2, FaultType DEF ClientTimeout, TypeOK
<1> QED
  BY <1>2, <1>3, <1>4, <1>5 DEF Sdk

LEMMA RouterType ==
  ASSUME TypeOK, Router
  PROVE  TypeOK'
<1>1. /\ client \in ClientState /\ client.try \in Tries /\ client.phase \in Phases
      /\ [client EXCEPT !.pc = "idle"] \in ClientState
      /\ [client EXCEPT !.pc = "awaiting"] \in ClientState
      /\ None \in Offers
  BY Numbers DEF TypeOK, ClientState
<1>2. CASE Deliver
  <2>1. client' \in ClientState
    BY <1>1, <1>2 DEF Deliver
  <2> DEFINE t == client.try
             p == client.phase
  <2>5. t \in Tries /\ p \in Phases
    BY <1>1
  <2>6. /\ handled' = handled \/ handled' = [handled EXCEPT ![t] = @ \cup {p}]
        /\ \/ handlers' = handlers
           \/ handlers' = Handler(t, p, "asking")
           \/ handlers' = Handler(t, p, "at node")
        /\ runs' = runs \/ runs' = [runs EXCEPT ![t] = @ + 1]
    BY <1>2 DEF Deliver
  <2> HIDE DEF t, p
  <2>2. handled' \in [Tries -> SUBSET Phases]
    <3>1. handled \in [Tries -> SUBSET Phases]
      BY DEF TypeOK
    <3>2. [handled EXCEPT ![t] = @ \cup {p}] \in [Tries -> SUBSET Phases]
      BY <2>5, <3>1
    <3> QED
      BY <2>6, <3>1, <3>2
  <2>3. handlers' \in [Tries -> [Phases -> HandlerState]]
    <3>1. /\ handlers \in [Tries -> [Phases -> HandlerState]]
          /\ Handler(t, p, "asking") \in [Tries -> [Phases -> HandlerState]]
          /\ Handler(t, p, "at node") \in [Tries -> [Phases -> HandlerState]]
      BY <2>5, HandlerType DEF TypeOK
    <3> QED
      BY <2>6, <3>1
  <2>4. runs' \in [Tries -> Nat]
    <3>1. runs \in [Tries -> Nat]
      BY DEF TypeOK
    <3>2. [runs EXCEPT ![t] = @ + 1] \in [Tries -> Nat]
      BY <2>5, <3>1
    <3> QED
      BY <2>6, <3>1, <3>2
  <2> QED
    BY <1>2, <2>1, <2>2, <2>3, <2>4 DEF Deliver, TypeOK
<1>3. CASE DeliverReceipt
  <2>1. client' \in ClientState
    BY <1>1, <1>3 DEF DeliverReceipt
  <2>2. handlers' \in [Tries -> [Phases -> HandlerState]]
    BY <1>1, <1>3, HandlerType DEF DeliverReceipt, TypeOK, Phases
  <2> QED
    BY <1>3, <2>1, <2>2 DEF DeliverReceipt, TypeOK
<1>4. ASSUME NEW t \in Tries, Verify(t)
      PROVE  TypeOK'
  <2>1. "receipt" \in Phases
    BY DEF Phases
  <2>2. handlers' \in [Tries -> [Phases -> HandlerState]]
    BY <1>4, <2>1, HandlerType DEF Verify
  <2>3. client' \in ClientState
    BY <1>1, <1>4, <2>1, Hears DEF Verify
  <2>4. receipt' \in Offers /\ faults' \in 0 .. MaxFaults
    BY <1>4, FaultType DEF Verify, TypeOK
  <2> QED
    BY <1>4, <2>2, <2>3, <2>4 DEF Verify, TypeOK
<1>5. ASSUME NEW t \in Tries, NEW p \in Phases, NodeAnswers(t, p)
      PROVE  TypeOK'
  <2>1. handlers' \in [Tries -> [Phases -> HandlerState]]
    BY <1>5, HandlerType DEF NodeAnswers
  <2>2. client' \in ClientState
    BY <1>1, <1>5, Hears DEF NodeAnswers
  <2>3. faults' \in 0 .. MaxFaults
    BY <1>5, FaultType DEF NodeAnswers, TypeOK
  <2> QED
    BY <1>5, <2>1, <2>2, <2>3 DEF NodeAnswers, TypeOK
<1> QED
  BY <1>2, <1>3, <1>4, <1>5 DEF Router

LEMMA AdapterType ==
  ASSUME TypeOK, OffersAreInvoices,
         \/ Adapter
         \/ \E t \in Tries, p \in Phases : InvoiceTimeout(t, p)
         \/ \E b \in backend : BackendFails(b)
  PROVE  TypeOK'
<1>1. client \in ClientState /\ request \in Offers
  BY DEF TypeOK
<1>2. ASSUME NEW t \in Tries, NEW p \in Phases, AnswerFromCache(t, p)
      PROVE  TypeOK'
  <2>1. CASE cache.status = "ok"
    <3>1. OfferFor(t, p, cache.invoice) \in Offers
      BY <2>1, OfferKeepsTheLive, Numbers DEF OffersAreInvoices
    <3>2. request' \in Offers /\ client' \in ClientState
      BY <1>1, <1>2, <2>1, <3>1, Hears DEF AnswerFromCache, SendOffer
    <3>3. handlers' \in [Tries -> [Phases -> HandlerState]]
      <4>1. handlers' = Handler(t, p, "none")
        BY <1>2, <2>1 DEF AnswerFromCache
      <4> QED
        BY <4>1, HandlerType
    <3> QED
      BY <1>2, <3>2, <3>3 DEF AnswerFromCache, TypeOK
  <2>2. CASE cache.status # "ok"
    <3>1. RetryInvoice(t, p) /\ request' = request
      BY <1>2, <2>2 DEF AnswerFromCache
    <3>2. handlers' \in [Tries -> [Phases -> HandlerState]] /\ client' \in ClientState
      BY <3>1, RetriesInvoice
    <3> QED
      BY <1>2, <3>1, <3>2 DEF AnswerFromCache, TypeOK
  <2> QED
    BY <2>1, <2>2
<1>3. ASSUME NEW t \in Tries, NEW p \in Phases, AskBackend(t, p)
      PROVE  TypeOK'
  <2>1. handlers' \in [Tries -> [Phases -> HandlerState]]
    BY <1>3, HandlersAsk DEF AskBackend
  <2>2. backend' \subseteq [try : Tries, phase : Phases, attempt : 1 .. RouterAttempts]
    <3>1. [try |-> t, phase |-> p, attempt |-> handlers[t][p].attempt]
            \in [try : Tries, phase : Phases, attempt : 1 .. RouterAttempts]
      BY HandlersAsk
    <3>2. backend' = backend \cup {[try |-> t, phase |-> p, attempt |-> handlers[t][p].attempt]}
      BY <1>3 DEF AskBackend
    <3> QED
      BY <3>1, <3>2 DEF TypeOK
  <2> QED
    BY <1>3, <2>1, <2>2 DEF AskBackend, TypeOK
<1>4. ASSUME NEW b \in backend, NEW i \in Invoices, MakeInvoice(b, i)
      PROVE  TypeOK'
  <2>1. b.try \in Tries /\ b.phase \in Phases
    BY DEF TypeOK
  <2>2. life' \in [Invoices -> Floor .. Lifetime] /\ paid' \subseteq Invoices
    BY <1>4, Numbers DEF MakeInvoice, TypeOK
  <2>3. cache' \in CacheState
    BY <1>4, Numbers DEF MakeInvoice, CacheState
  <2>4. /\ handlers' \in [Tries -> [Phases -> HandlerState]]
        /\ client' \in ClientState
        /\ request' \in Offers
    <3>1. CASE IsAwaited(b)
      <4>1. SendOffer(b.try, b.phase, i) /\ handlers' = Handler(b.try, b.phase, "none")
        BY <1>4, <3>1 DEF MakeInvoice
      <4>2. OfferFor(b.try, b.phase, i) \in Offers
        BY <2>1, OfferKeepsTheLive, Numbers
      <4>3. handlers' \in [Tries -> [Phases -> HandlerState]]
        BY <2>1, <4>1, HandlerType
      <4> QED
        BY <1>1, <2>1, <4>1, <4>2, <4>3, Hears DEF SendOffer
    <3>2. CASE ~IsAwaited(b)
      BY <1>1, <1>4, <3>2 DEF MakeInvoice, TypeOK
    <3> QED
      BY <3>1, <3>2
  <2> QED
    BY <1>4, <2>2, <2>3, <2>4 DEF MakeInvoice, TypeOK
<1>5. ASSUME NEW t \in Tries, NEW p \in Phases, InvoiceTimeout(t, p)
      PROVE  TypeOK'
  <2>1. handlers' \in [Tries -> [Phases -> HandlerState]] /\ client' \in ClientState
    BY <1>5, RetriesInvoice DEF InvoiceTimeout
  <2> QED
    BY <1>5, <2>1, FaultType DEF InvoiceTimeout, TypeOK
<1>6. ASSUME NEW b \in backend, BackendFails(b)
      PROVE  TypeOK'
  <2>1. b.try \in Tries /\ b.phase \in Phases
    BY DEF TypeOK
  <2>2. cache' \in CacheState
    BY <1>6, Numbers DEF BackendFails, CacheState, TypeOK
  <2>3. handlers' \in [Tries -> [Phases -> HandlerState]] /\ client' \in ClientState
    BY <1>6, <2>1, RetriesInvoice DEF BackendFails, TypeOK
  <2> QED
    BY <1>6, <2>2, <2>3, FaultType DEF BackendFails, TypeOK
<1> QED
  BY <1>2, <1>3, <1>4, <1>5, <1>6 DEF Adapter

LEMMA TickType ==
  ASSUME TypeOK, Tick
  PROVE  TypeOK'
<1>1. life' \in [Invoices -> Floor .. Lifetime]
  BY Numbers DEF Tick, TypeOK
<1>2. cache' \in CacheState
  <2>1. cache \in CacheState /\ cache' = CacheLater
    BY DEF TypeOK, Tick
  <2>2. CASE cache.left > 1
    <3>1. cache.left - 1 \in 0 .. IdempotencyTtl
      BY <2>1, <2>2, Numbers DEF CacheState
    <3> QED
      BY <2>1, <2>2, <3>1 DEF CacheLater, CacheState
  <2>3. CASE ~(cache.left > 1)
    BY <2>1, <2>3, Constants DEF CacheLater
  <2> QED
    BY <2>2, <2>3
<1> QED
  BY <1>1, <1>2, HandlersAge DEF Tick, TypeOK

LEMMA TypeStep ==
  ASSUME TypeOK, OffersAreInvoices, [Next]_vars
  PROVE  TypeOK'
<1>1. CASE UNCHANGED vars
  BY <1>1 DEF vars, TypeOK
<1> QED
  BY <1>1, SdkType, RouterType, AdapterType, TickType DEF Next, Trouble

-------------------------------------------------------------------------------
(* Runs *)

(* Nothing is run and no envelope comes: what becomes of the counts.          *)
LEMMA RunsKept ==
  ASSUME RunsAreCounted, runs' = runs, handled' = handled,
         \A t \in Tries : IsBusy(handlers'[t]["infer"]) => IsBusy(handlers[t]["infer"]),
         \A t \in Tries : WasOffered(t)' =>
           WasOffered(t) \/ (IsBusy(handlers[t]["infer"]) /\ ~IsBusy(handlers'[t]["infer"]))
  PROVE  RunsAreCounted'
  BY DEF RunsAreCounted

(* A response moves the SDK on from the first inference only when it is an    *)
(* offer for it.                                                            *)
LEMMA HearingOffers ==
  ASSUME TypeOK, NEW t \in Tries, NEW p \in Phases, NEW answer, NEW offer \in Offers,
         Hear(t, p, answer, offer)
  PROVE  \A u \in Tries : WasOffered(u)' =>
           WasOffered(u) \/ (answer = "402" /\ p = "infer" /\ u = t)
<1>1. client \in ClientState
  BY DEF TypeOK
<1>2. /\ client'.try = client.try
      /\ \/ client' = client
         \/ client'.pc # "paying" /\ client'.phase = client.phase
         \/ client.phase = "receipt"
         \/ client.try = t /\ p = "infer" /\ answer = "402"
  BY <1>1, Hears
<1> QED
  BY <1>2 DEF WasOffered

LEMMA RunsOfSdk ==
  ASSUME TypeOK, RunsAreCounted, Sdk \/ PostLost \/ ClientTimeout
  PROVE  RunsAreCounted'
<1>1. client \in ClientState /\ client.try \in Tries
  BY DEF TypeOK, ClientState
<1>2. CASE Pay
  <2>1. client.pc = "paying" /\ UNCHANGED <<handled, handlers, runs>> /\ client'.try = client.try
    BY <1>1, <1>2, ClientMoves DEF Pay, Phases, ClientState
  <2>2. \A t \in Tries : WasOffered(t)' => WasOffered(t)
    BY <2>1 DEF WasOffered
  <2> QED
    BY <2>1, <2>2, RunsKept
<1>3. ASSUME NEW t \in Tries, NEW stream \in BOOLEAN, Try(t, stream)
      PROVE  RunsAreCounted'
  <2>1. /\ handlers' = handlers /\ handlers[t]["infer"].pc = "none"
        /\ handled' = [handled EXCEPT ![t] = {}]
        /\ runs' = [runs EXCEPT ![t] = 0]
        /\ client'.try = t /\ client'.phase = "infer" /\ client'.pc = "sending"
    BY <1>3 DEF Try, Phases
  <2>2. ~IsBusy(handlers[t]["infer"])
    BY <2>1 DEF IsBusy
  <2>3. \A u \in Tries : ~WasOffered(u)'
    BY <2>1 DEF WasOffered
  <2>4. \A u \in Tries : IF u = t THEN runs'[u] = 0
                         ELSE runs'[u] = runs[u] /\ handled'[u] = handled[u]
    BY <2>1 DEF TypeOK
  <2> QED
    BY <2>1, <2>2, <2>3, <2>4 DEF RunsAreCounted
<1>4. CASE PostLost \/ ClientTimeout
  <2>1. /\ UNCHANGED <<handled, handlers, runs>>
        /\ client' = RetryOrThrow(client) \/ client' = [client EXCEPT !.pc = "idle"]
    BY <1>4 DEF PostLost, ClientTimeout
  <2>2. client'.try = client.try /\ client'.phase = client.phase /\ client'.pc # "paying"
    BY <1>1, <2>1, ClientMoves DEF ClientState
  <2>3. \A t \in Tries : WasOffered(t)' => WasOffered(t)
    BY <2>2 DEF WasOffered
  <2> QED
    BY <2>1, <2>3, RunsKept
<1> QED
  BY <1>2, <1>3, <1>4 DEF Sdk

(* The one step that runs a request: an envelope that the nonce store lets    *)
(* through while there is a receipt.                                        *)
LEMMA RunsOfDeliver ==
  ASSUME TypeOK, RunsAreCounted, Deliver
  PROVE  RunsAreCounted'
<1> DEFINE t == client.try
           p == client.phase
<1>1. client \in ClientState /\ t \in Tries /\ p \in {"infer", "again"} /\ client.pc = "sending"
  BY DEF Deliver, TypeOK, ClientState, Phases
<1>2. CASE p \in handled[t]
  <2>1. UNCHANGED <<handled, handlers, runs>> /\ client' = [client EXCEPT !.pc = "idle"]
    BY <1>2 DEF Deliver
  <2>2. \A u \in Tries : WasOffered(u)' => WasOffered(u)
    BY <1>1, <2>1 DEF WasOffered, ClientState
  <2> QED
    BY <2>1, <2>2, RunsKept
<1>3. CASE p \notin handled[t]
  <2>1. /\ client' = [client EXCEPT !.pc = "awaiting"]
        /\ handled' = [handled EXCEPT ![t] = @ \cup {p}]
        /\ handlers' = Handler(t, p, IF receipt = None THEN "asking" ELSE "at node")
        /\ runs' = IF receipt = None THEN runs ELSE [runs EXCEPT ![t] = @ + 1]
    BY <1>3 DEF Deliver
  <2>2. client'.try = t /\ client'.phase = p /\ client'.pc = "awaiting"
    BY <1>1, <2>1 DEF ClientState
  <2>3. /\ IF receipt = None THEN handlers'[t][p].pc = "asking"
                             ELSE handlers'[t][p].pc = "at node"
        /\ \A u \in Tries, q \in Phases :
             handlers'[u][q] = handlers[u][q] \/ (u = t /\ q = p)
    <3>1. t \in Tries /\ p \in Phases
      BY <1>1 DEF Phases
    <3>2. IF receipt = None THEN handlers' = Handler(t, p, "asking")
                            ELSE handlers' = Handler(t, p, "at node")
      BY <2>1
    <3> HIDE DEF t, p
    <3>3. CASE receipt = None
      <4>1. handlers' = Handler(t, p, "asking")
        BY <3>2, <3>3
      <4>2. Handler(t, p, "asking")[t][p].pc = "asking"
        BY <3>1, HandlerHere
      <4>3. \A u \in Tries, q \in Phases :
              u # t \/ q # p => Handler(t, p, "asking")[u][q] = handlers[u][q]
        BY <3>1, HandlersElsewhere
      <4> QED
        BY <3>3, <4>1, <4>2, <4>3
    <3>4. CASE receipt # None
      <4>1. handlers' = Handler(t, p, "at node")
        BY <3>2, <3>4
      <4>2. Handler(t, p, "at node")[t][p].pc = "at node"
        BY <3>1, HandlerHere
      <4>3. \A u \in Tries, q \in Phases :
              u # t \/ q # p => Handler(t, p, "at node")[u][q] = handlers[u][q]
        BY <3>1 DEF TypeOK, Handler
      <4> QED
        BY <3>4, <4>1, <4>2, <4>3
    <3> QED
      BY <3>3, <3>4
  <2>4. /\ handled'[t] = handled[t] \cup {p}
        /\ runs'[t] \in {runs[t], runs[t] + 1}
        /\ receipt = None => runs'[t] = runs[t]
        /\ \A u \in Tries : u # t => handled'[u] = handled[u] /\ runs'[u] = runs[u]
    BY <1>1, <2>1 DEF TypeOK
  <2>5. \A u \in Tries : WasOffered(u)' => WasOffered(u)
    BY <1>1, <2>2 DEF WasOffered
  <2>6. runs[t] = 0
    <3>1. CASE p = "infer"
      BY <1>1, <1>3, <3>1 DEF RunsAreCounted
    <3>2. CASE p = "again"
      BY <1>1, <1>3, <3>2 DEF RunsAreCounted, WasOffered
    <3> QED
      BY <1>1, <3>1, <3>2
  <2> HIDE DEF t, p
  <2>7. ASSUME NEW u \in Tries, u # t
        PROVE  /\ runs'[u] <= 1
               /\ "infer" \notin handled'[u] =>
                    runs'[u] = 0 /\ ~WasOffered(u)' /\ ~IsBusy(handlers'[u]["infer"])
               /\ IsBusy(handlers'[u]["infer"]) => runs'[u] = 0 /\ ~WasOffered(u)'
               /\ WasOffered(u)' /\ "again" \notin handled'[u] => runs'[u] = 0
    <3>1. handlers'[u]["infer"] = handlers[u]["infer"]
      BY <2>3, <2>7 DEF Phases
    <3> QED
      BY <2>4, <2>5, <2>7, <3>1 DEF RunsAreCounted
  <2>8. ASSUME NEW u \in Tries, u = t
        PROVE  /\ runs'[u] <= 1
               /\ "infer" \notin handled'[u] =>
                    runs'[u] = 0 /\ ~WasOffered(u)' /\ ~IsBusy(handlers'[u]["infer"])
               /\ IsBusy(handlers'[u]["infer"]) => runs'[u] = 0 /\ ~WasOffered(u)'
               /\ WasOffered(u)' /\ "again" \notin handled'[u] => runs'[u] = 0
    <3>1. CASE p = "infer"
      <4>1. ~WasOffered(u)' /\ "infer" \in handled'[u]
        BY <2>2, <2>4, <2>8, <3>1 DEF WasOffered
      <4>2. receipt # None => ~IsBusy(handlers'[u]["infer"])
        BY <2>3, <2>8, <3>1 DEF IsBusy
      <4> QED
        BY <2>4, <2>6, <2>8, <4>1, <4>2
    <3>2. CASE p = "again"
      <4>1. WasOffered(u) /\ ~IsBusy(handlers[u]["infer"])
        BY <1>1, <2>8, <3>2 DEF RunsAreCounted, WasOffered, t, p
      <4>2. handlers'[u]["infer"] = handlers[u]["infer"] /\ "again" \in handled'[u]
        BY <1>1, <2>3, <2>4, <2>8, <3>2 DEF Phases
      <4>3. "infer" \in handled'[u]
        BY <1>1, <2>4, <2>8, <4>1 DEF RunsAreCounted
      <4> QED
        BY <2>4, <2>6, <2>8, <4>1, <4>2, <4>3
    <3> QED
      BY <1>1, <3>1, <3>2
  <2>9. \A u \in Tries :
          /\ runs'[u] <= 1
          /\ "infer" \notin handled'[u] =>
               runs'[u] = 0 /\ ~WasOffered(u)' /\ ~IsBusy(handlers'[u]["infer"])
          /\ IsBusy(handlers'[u]["infer"]) => runs'[u] = 0 /\ ~WasOffered(u)'
          /\ WasOffered(u)' /\ "again" \notin handled'[u] => runs'[u] = 0
    <3> TAKE u \in Tries
    <3>1. CASE u = t
      BY <2>8, <3>1
    <3>2. CASE u # t
      BY <2>7, <3>2
    <3> QED
      BY <3>1, <3>2
  <2> QED
    BY <2>9 DEF RunsAreCounted
<1> QED
  BY <1>2, <1>3

(* A handler that ends is not asking for an invoice any more. *)
LEMMA NotBusier ==
  ASSUME TypeOK, NEW t \in Tries, NEW p \in Phases, handlers' = Handler(t, p, "none")
  PROVE  /\ ~IsBusy(handlers'[t][p])
         /\ \A u \in Tries : IsBusy(handlers'[u]["infer"]) => IsBusy(handlers[u]["infer"])
<1>1. ~IsBusy(handlers'[t][p])
  <2>1. handlers'[t][p].pc = "none"
    BY HandlerHere
  <2> QED
    BY <2>1 DEF IsBusy
<1>2. ASSUME NEW u \in Tries
      PROVE  IsBusy(handlers'[u]["infer"]) => IsBusy(handlers[u]["infer"])
  <2>1. CASE u = t /\ p = "infer"
    BY <1>1, <2>1
  <2>2. CASE ~(u = t /\ p = "infer")
    <3>1. handlers'[u]["infer"] = handlers[u]["infer"]
      BY <2>2, HandlersElsewhere DEF Phases
    <3> QED
      BY <3>1
  <2> QED
    BY <2>1, <2>2
<1> QED
  BY <1>1, <1>2

(* A handler answers: with an offer only when it has asked for an invoice.    *)
LEMMA RunsOfAnswer ==
  ASSUME TypeOK, RunsAreCounted, NEW t \in Tries, NEW p \in Phases, NEW answer,
         NEW offer \in Offers, Hear(t, p, answer, offer),
         handlers' = Handler(t, p, "none"), runs' = runs, handled' = handled,
         answer = "402" => IsBusy(handlers[t][p])
  PROVE  RunsAreCounted'
<1>1. \A u \in Tries : WasOffered(u)' =>
        WasOffered(u) \/ (answer = "402" /\ p = "infer" /\ u = t)
  BY HearingOffers
<1>2. /\ ~IsBusy(handlers'[t][p])
      /\ \A u \in Tries : IsBusy(handlers'[u]["infer"]) => IsBusy(handlers[u]["infer"])
  BY NotBusier
<1>3. \A u \in Tries : WasOffered(u)' =>
        WasOffered(u) \/ (IsBusy(handlers[u]["infer"]) /\ ~IsBusy(handlers'[u]["infer"]))
  BY <1>1, <1>2
<1> QED
  BY <1>2, <1>3, RunsKept

(* A request for an invoice that failed: the handler asks again or gives up.  *)
LEMMA RunsOfRetry ==
  ASSUME TypeOK, RunsAreCounted, NEW t \in Tries, NEW p \in Phases, RetryInvoice(t, p),
         IsBusy(handlers[t][p]), runs' = runs, handled' = handled
  PROVE  RunsAreCounted'
<1>1. /\ \A u \in Tries, q \in Phases :
           handlers'[u][q] = handlers[u][q] \/ (u = t /\ q = p)
      /\ client'.try = client.try
      /\ client' = client \/ (client'.pc # "paying" /\ client'.phase = client.phase)
  BY RetriesInvoice
<1>2. \A u \in Tries : IsBusy(handlers'[u]["infer"]) => IsBusy(handlers[u]["infer"])
  <2> TAKE u \in Tries
  <2>1. CASE u = t /\ p = "infer"
    BY <2>1
  <2>2. CASE ~(u = t /\ p = "infer")
    <3>1. handlers'[u]["infer"] = handlers[u]["infer"]
      BY <1>1, <2>2 DEF Phases
    <3> QED
      BY <3>1
  <2> QED
    BY <2>1, <2>2
<1>3. \A u \in Tries : WasOffered(u)' => WasOffered(u)
  BY <1>1 DEF WasOffered
<1> QED
  BY <1>2, <1>3, RunsKept

LEMMA RunsOfRouter ==
  ASSUME TypeOK, RunsAreCounted, Router
  PROVE  RunsAreCounted'
<1>1. client \in ClientState /\ client.try \in Tries /\ None \in Offers /\ "receipt" \in Phases
  BY Numbers DEF TypeOK, ClientState, Phases
<1>2. CASE DeliverReceipt
  <2>1. /\ client'.try = client.try /\ client'.phase = client.phase
        /\ client'.pc \in {"awaiting", "idle"}
        /\ handled' = handled /\ runs' = runs
    BY <1>1, <1>2 DEF DeliverReceipt, ClientState
  <2>2. \A u \in Tries : handlers'[u]["infer"] = handlers[u]["infer"]
    <3>1. handlers' = handlers \/ handlers' = Handler(client.try, "receipt", "verifying")
      BY <1>2 DEF DeliverReceipt
    <3>2. \A u \in Tries : Handler(client.try, "receipt", "verifying")[u]["infer"]
                             = handlers[u]["infer"]
      BY <1>1 DEF TypeOK, Handler, Phases
    <3> QED
      BY <3>1, <3>2
  <2>3. \A u \in Tries : WasOffered(u)' => WasOffered(u)
    BY <2>1 DEF WasOffered
  <2> QED
    BY <2>1, <2>2, <2>3, RunsKept
<1>3. ASSUME NEW t \in Tries, Verify(t)
      PROVE  RunsAreCounted'
  <2>1. /\ handlers' = Handler(t, "receipt", "none") /\ handled' = handled /\ runs' = runs
        /\ Hear(t, "receipt", "ok", None) \/ Hear(t, "receipt", "400", None)
    BY <1>3 DEF Verify
  <2> QED
    BY <1>1, <2>1, RunsOfAnswer
<1>4. ASSUME NEW t \in Tries, NEW p \in Phases, NodeAnswers(t, p)
      PROVE  RunsAreCounted'
  <2>1. /\ handlers' = Handler(t, p, "none") /\ handled' = handled /\ runs' = runs
        /\ Hear(t, p, "ok", None) \/ Hear(t, p, "502", None)
    BY <1>4 DEF NodeAnswers
  <2> QED
    BY <1>1, <2>1, RunsOfAnswer
<1> QED
  BY <1>2, <1>3, <1>4, RunsOfDeliver DEF Router

LEMMA RunsOfAdapter ==
  ASSUME TypeOK, RunsAreCounted, OffersAreInvoices,
         \/ Adapter
         \/ \E t \in Tries, p \in Phases : InvoiceTimeout(t, p)
         \/ \E b \in backend : BackendFails(b)
  PROVE  RunsAreCounted'
<1>1. ASSUME NEW t \in Tries, NEW p \in Phases, AnswerFromCache(t, p)
      PROVE  RunsAreCounted'
  <2>1. IsBusy(handlers[t][p]) /\ handled' = handled /\ runs' = runs
    BY <1>1 DEF AnswerFromCache, IsBusy
  <2>2. CASE cache.status = "ok"
    <3>1. Hear(t, p, "402", OfferFor(t, p, cache.invoice)) /\ handlers' = Handler(t, p, "none")
      BY <1>1, <2>2 DEF AnswerFromCache, SendOffer
    <3>2. OfferFor(t, p, cache.invoice) \in Offers
      BY <2>2, OfferKeepsTheLive, Numbers DEF OffersAreInvoices
    <3> QED
      BY <2>1, <3>1, <3>2, RunsOfAnswer
  <2>3. CASE cache.status # "ok"
    <3>1. RetryInvoice(t, p)
      BY <1>1, <2>3 DEF AnswerFromCache
    <3> QED
      BY <2>1, <3>1, RunsOfRetry
  <2> QED
    BY <2>2, <2>3
<1>2. ASSUME NEW t \in Tries, NEW p \in Phases, AskBackend(t, p)
      PROVE  RunsAreCounted'
  <2>1. /\ IsBusy(handlers[t][p]) /\ handled' = handled /\ runs' = runs /\ client' = client
        /\ handlers' = [handlers EXCEPT ![t][p].pc = "waiting"]
    BY <1>2 DEF AskBackend, IsBusy
  <2>2. \A u \in Tries, q \in Phases :
          handlers'[u][q] = handlers[u][q] \/ (u = t /\ q = p)
    BY <2>1, HandlersAsk
  <2>3. \A u \in Tries : IsBusy(handlers'[u]["infer"]) => IsBusy(handlers[u]["infer"])
    BY <2>1, <2>2 DEF Phases
  <2>4. \A u \in Tries : WasOffered(u)' => WasOffered(u)
    BY <2>1 DEF WasOffered
  <2> QED
    BY <2>1, <2>3, <2>4, RunsKept
<1>3. ASSUME NEW b \in backend, NEW i \in Invoices, MakeInvoice(b, i)
      PROVE  RunsAreCounted'
  <2>1. b.try \in Tries /\ b.phase \in Phases /\ handled' = handled /\ runs' = runs
    BY <1>3 DEF TypeOK, MakeInvoice
  <2>2. CASE IsAwaited(b)
    <3>1. /\ IsBusy(handlers[b.try][b.phase])
          /\ Hear(b.try, b.phase, "402", OfferFor(b.try, b.phase, i))
          /\ handlers' = Handler(b.try, b.phase, "none")
      BY <1>3, <2>2 DEF MakeInvoice, SendOffer, IsAwaited, IsBusy
    <3>2. OfferFor(b.try, b.phase, i) \in Offers
      BY <2>1, OfferKeepsTheLive, Numbers
    <3> QED
      BY <2>1, <3>1, <3>2, RunsOfAnswer
  <2>3. CASE ~IsAwaited(b)
    <3>1. client' = client /\ handlers' = handlers
      BY <1>3, <2>3 DEF MakeInvoice
    <3>2. \A u \in Tries : WasOffered(u)' => WasOffered(u)
      BY <3>1 DEF WasOffered
    <3> QED
      BY <2>1, <3>1, <3>2, RunsKept
  <2> QED
    BY <2>2, <2>3
<1>4. ASSUME NEW t \in Tries, NEW p \in Phases, InvoiceTimeout(t, p)
      PROVE  RunsAreCounted'
  <2>1. IsBusy(handlers[t][p]) /\ RetryInvoice(t, p) /\ handled' = handled /\ runs' = runs
    BY <1>4 DEF InvoiceTimeout, IsBusy
  <2> QED
    BY <2>1, RunsOfRetry
<1>5. ASSUME NEW b \in backend, BackendFails(b)
      PROVE  RunsAreCounted'
  <2>1. b.try \in Tries /\ b.phase \in Phases /\ handled' = handled /\ runs' = runs
    BY <1>5 DEF TypeOK, BackendFails
  <2>2. CASE IsAwaited(b)
    <3>1. IsBusy(handlers[b.try][b.phase]) /\ RetryInvoice(b.try, b.phase)
      BY <1>5, <2>2 DEF BackendFails, IsAwaited, IsBusy
    <3> QED
      BY <2>1, <3>1, RunsOfRetry
  <2>3. CASE ~IsAwaited(b)
    <3>1. client' = client /\ handlers' = handlers
      BY <1>5, <2>3 DEF BackendFails
    <3>2. \A u \in Tries : WasOffered(u)' => WasOffered(u)
      BY <3>1 DEF WasOffered
    <3> QED
      BY <2>1, <3>1, <3>2, RunsKept
  <2> QED
    BY <2>2, <2>3
<1> QED
  BY <1>1, <1>2, <1>3, <1>4, <1>5 DEF Adapter

LEMMA RunsStep ==
  ASSUME TypeOK, RunsAreCounted, OffersAreInvoices, [Next]_vars
  PROVE  RunsAreCounted'
<1>1. CASE UNCHANGED vars
  BY <1>1 DEF vars, RunsAreCounted, WasOffered
<1>2. CASE Tick
  <2>1. /\ handled' = handled /\ runs' = runs /\ client' = client
        /\ \A t \in Tries : handlers'[t]["infer"].pc = handlers[t]["infer"].pc
    BY <1>2, HandlersAge DEF Tick, Phases
  <2>2. \A t \in Tries : IsBusy(handlers'[t]["infer"]) => IsBusy(handlers[t]["infer"])
    BY <2>1 DEF IsBusy
  <2>3. \A t \in Tries : WasOffered(t)' => WasOffered(t)
    BY <2>1 DEF WasOffered
  <2> QED
    BY <2>1, <2>2, <2>3, RunsKept
<1> QED
  BY <1>1, <1>2, RunsOfSdk, RunsOfRouter, RunsOfAdapter DEF Next, Trouble

-------------------------------------------------------------------------------
(* Payments *)

(* The stored invoice stays, nothing new is to be paid, and lives only end.   *)
LEMMA PaymentsKept ==
  ASSUME TypeOK, LivePaymentIsStored, OffersAreInvoices, request' = request,
         paid' \subseteq paid \cup {request},
         life' \in [Invoices -> Int], \A i \in Invoices : life'[i] <= life[i],
         client' = client \/ client'.pc # "paying"
  PROVE  LivePaymentIsStored' /\ (client'.pc = "paying" => client'.offer \in Invoices)
<1>1. life \in [Invoices -> Int] /\ paid \subseteq Invoices
  BY Numbers DEF TypeOK
<1>2. ASSUME NEW i \in paid', life'[i] > 0
      PROVE  i = request
  <2>1. CASE i \in paid
    <3>1. i \in Invoices
      BY <1>1, <2>1
    <3>2. life[i] > 0
      BY <1>1, <1>2, <3>1
    <3> QED
      BY <2>1, <3>2 DEF LivePaymentIsStored
  <2>2. CASE i = request
    BY <2>2
  <2> QED
    BY <2>1, <2>2
<1>3. ASSUME client'.pc = "paying", life'[client'.offer] > 0
      PROVE  client'.offer = request
  <2>1. client' = client /\ client.offer \in Invoices
    BY <1>3 DEF OffersAreInvoices
  <2>2. life[client.offer] > 0
    BY <1>1, <1>3, <2>1
  <2> QED
    BY <1>3, <2>1, <2>2 DEF LivePaymentIsStored
<1>4. client'.pc = "paying" => client'.offer \in Invoices
  BY DEF OffersAreInvoices
<1> QED
  BY <1>2, <1>3, <1>4 DEF LivePaymentIsStored

(* An offer replaces the stored invoice only when that has expired: with it   *)
(* has whatever was paid or is about to be.                                  *)
LEMMA OfferReplacesTheDead ==
  ASSUME TypeOK, LivePaymentIsStored, OffersAreInvoices,
         NEW t \in Tries, NEW p \in Phases, NEW i \in Invoices, SendOffer(t, p, i),
         paid' \subseteq paid, \A j \in paid' : life'[j] = life[j],
         client.pc = "paying" => life'[client.offer] = life[client.offer]
  PROVE  LivePaymentIsStored' /\ (client'.pc = "paying" => client'.offer \in Invoices)
<1>1. /\ OfferFor(t, p, i) \in Invoices
      /\ request # None /\ life[request] > 0 => OfferFor(t, p, i) = request
  BY OfferKeepsTheLive
<1>2. request' = OfferFor(t, p, i) /\ Hear(t, p, "402", OfferFor(t, p, i))
  BY DEF SendOffer
<1>3. \/ client' = client
      \/ client'.pc # "paying"
      \/ client'.pc = "paying" /\ client'.offer = request'
  <2>1. client \in ClientState /\ OfferFor(t, p, i) \in Offers
    BY <1>1, Numbers DEF TypeOK
  <2> QED
    BY <1>2, <2>1, Hears
<1>4. ASSUME NEW j \in Invoices, j = request, life[j] > 0
      PROVE  request' = j
  BY <1>1, <1>2, <1>4, Numbers
<1>5. ASSUME NEW j \in paid', life'[j] > 0
      PROVE  j = request'
  <2>1. j \in paid /\ j \in Invoices /\ life[j] > 0
    BY <1>5 DEF TypeOK
  <2>2. j = request
    BY <2>1 DEF LivePaymentIsStored
  <2> QED
    BY <1>4, <2>1, <2>2
<1>6. ASSUME client'.pc = "paying", life'[client'.offer] > 0
      PROVE  client'.offer = request'
  <2>1. CASE client' = client
    <3>1. client.offer \in Invoices /\ life[client.offer] > 0 /\ client.offer = request
      BY <1>6, <2>1 DEF LivePaymentIsStored, OffersAreInvoices
    <3> QED
      BY <1>4, <2>1, <3>1
  <2> QED
    BY <1>3, <1>6, <2>1
<1>7. client'.pc = "paying" => client'.offer \in Invoices
  BY <1>1, <1>2, <1>3 DEF OffersAreInvoices
<1> QED
  BY <1>5, <1>6, <1>7 DEF LivePaymentIsStored

LEMMA PaymentsOfSdk ==
  ASSUME TypeOK, LivePaymentIsStored, OffersAreInvoices, Sdk \/ PostLost \/ ClientTimeout
  PROVE  LivePaymentIsStored' /\ OffersAreInvoices'
<1>1. client \in ClientState /\ life \in [Invoices -> Int]
  BY Numbers DEF TypeOK
<1>2. CASE Pay
  <2>1. /\ client.offer \in Invoices /\ request' = request /\ life' = life /\ cache' = cache
        /\ client'.pc # "paying"
    BY <1>1, <1>2, ClientMoves DEF Pay, OffersAreInvoices, Phases, ClientState
  <2>2. CASE life[client.offer] > 0 \/ client.offer \in paid
    <3>1. paid' \subseteq paid \cup {request}
      BY <1>2, <2>2 DEF Pay, LivePaymentIsStored
    <3> QED
      BY <1>1, <2>1, <3>1, PaymentsKept DEF OffersAreInvoices
  <2>3. CASE ~(life[client.offer] > 0 \/ client.offer \in paid)
    <3>1. paid' = paid
      BY <1>2, <2>3 DEF Pay
    <3> QED
      BY <1>1, <2>1, <3>1, PaymentsKept DEF OffersAreInvoices
  <2> QED
    BY <2>2, <2>3
<1>3. ASSUME \/ \E t \in Tries, stream \in BOOLEAN : Try(t, stream)
             \/ PostLost
             \/ ClientTimeout
      PROVE  LivePaymentIsStored' /\ OffersAreInvoices'
  <2>1. request' = request /\ life' = life /\ paid' = paid /\ cache' = cache
    BY <1>3 DEF Try, PostLost, ClientTimeout
  <2>2. client'.pc # "paying"
    <3>1. RetryOrThrow(client).pc # "paying" /\ [client EXCEPT !.pc = "idle"].pc # "paying"
      BY <1>1, ClientMoves DEF ClientState
    <3>2. CASE PostLost \/ ClientTimeout
      BY <3>1, <3>2 DEF PostLost, ClientTimeout
    <3>3. ASSUME NEW t \in Tries, NEW stream \in BOOLEAN, Try(t, stream)
          PROVE  client'.pc = "sending"
      BY <3>3 DEF Try
    <3> QED
      BY <1>3, <3>2, <3>3
  <2> QED
    BY <1>1, <2>1, <2>2, PaymentsKept DEF OffersAreInvoices
<1> QED
  BY <1>2, <1>3 DEF Sdk

LEMMA PaymentsOfRouter ==
  ASSUME TypeOK, LivePaymentIsStored, OffersAreInvoices, Router
  PROVE  LivePaymentIsStored' /\ OffersAreInvoices'
<1>1. client \in ClientState /\ life \in [Invoices -> Int] /\ None \in Offers /\ "receipt" \in Phases
  BY Numbers DEF TypeOK, Phases
<1>2. request' = request /\ life' = life /\ paid' = paid /\ cache' = cache
  BY DEF Router, Deliver, DeliverReceipt, Verify, NodeAnswers
<1>3. client' = client \/ client'.pc # "paying"
  <2>1. CASE Deliver \/ DeliverReceipt
    <3>1. \/ client' = [client EXCEPT !.pc = "idle"]
          \/ client' = [client EXCEPT !.pc = "awaiting"]
      BY <2>1 DEF Deliver, DeliverReceipt
    <3> QED
      BY <1>1, <3>1 DEF ClientState
  <2>2. ASSUME NEW t \in Tries, Verify(t)
        PROVE  client' = client \/ client'.pc # "paying"
    <3>1. Hear(t, "receipt", "ok", None) \/ Hear(t, "receipt", "400", None)
      BY <2>2 DEF Verify
    <3> QED
      BY <1>1, <3>1, Hears
  <2>3. ASSUME NEW t \in Tries, NEW p \in Phases, NodeAnswers(t, p)
        PROVE  client' = client \/ client'.pc # "paying"
    <3>1. Hear(t, p, "ok", None) \/ Hear(t, p, "502", None)
      BY <2>3 DEF NodeAnswers
    <3> QED
      BY <1>1, <3>1, Hears
  <2> QED
    BY <2>1, <2>2, <2>3 DEF Router
<1> QED
  BY <1>1, <1>2, <1>3, PaymentsKept DEF OffersAreInvoices

LEMMA PaymentsOfAdapter ==
  ASSUME TypeOK, LivePaymentIsStored, OffersAreInvoices,
         \/ Adapter
         \/ \E t \in Tries, p \in Phases : InvoiceTimeout(t, p)
         \/ \E b \in backend : BackendFails(b)
  PROVE  LivePaymentIsStored' /\ OffersAreInvoices'
<1>1. client \in ClientState /\ life \in [Invoices -> Int]
  BY Numbers DEF TypeOK
<1>2. ASSUME NEW t \in Tries, NEW p \in Phases, RetryInvoice(t, p), request' = request,
             life' = life, paid' = paid, cache'.status = "ok" => cache'.invoice \in Invoices
      PROVE  LivePaymentIsStored' /\ OffersAreInvoices'
  BY <1>1, <1>2, RetriesInvoice, PaymentsKept DEF OffersAreInvoices
<1>3. ASSUME NEW t \in Tries, NEW p \in Phases, AnswerFromCache(t, p)
      PROVE  LivePaymentIsStored' /\ OffersAreInvoices'
  <2>1. life' = life /\ paid' = paid /\ cache' = cache
    BY <1>3 DEF AnswerFromCache
  <2>2. CASE cache.status = "ok"
    <3>1. cache.invoice \in Invoices /\ SendOffer(t, p, cache.invoice)
      BY <1>3, <2>2 DEF AnswerFromCache, OffersAreInvoices
    <3> QED
      BY <2>1, <3>1, OfferReplacesTheDead DEF OffersAreInvoices
  <2>3. CASE cache.status # "ok"
    <3>1. RetryInvoice(t, p) /\ request' = request
      BY <1>3, <2>3 DEF AnswerFromCache
    <3> QED
      BY <1>2, <2>1, <2>3, <3>1
  <2> QED
    BY <2>2, <2>3
<1>4. ASSUME NEW t \in Tries, NEW p \in Phases, AskBackend(t, p)
      PROVE  LivePaymentIsStored' /\ OffersAreInvoices'
  <2>1. UNCHANGED <<client, request, life, paid, cache>>
    BY <1>4 DEF AskBackend
  <2> QED
    BY <1>1, <2>1, PaymentsKept DEF OffersAreInvoices
<1>5. ASSUME NEW b \in backend, NEW i \in Invoices, MakeInvoice(b, i)
      PROVE  LivePaymentIsStored' /\ OffersAreInvoices'
  <2>1. /\ b.try \in Tries /\ b.phase \in Phases
        /\ i # request /\ i # client.offer
        /\ life' = [life EXCEPT ![i] = Lifetime] /\ paid' = paid \ {i}
        /\ cache'.status = "ok" /\ cache'.invoice = i
    BY <1>5 DEF TypeOK, MakeInvoice, IsFree
  <2>2. /\ \A j \in paid' : life'[j] = life[j]
        /\ client.pc = "paying" => life'[client.offer] = life[client.offer]
    BY <1>1, <2>1 DEF TypeOK, OffersAreInvoices
  <2>3. CASE IsAwaited(b)
    <3>1. SendOffer(b.try, b.phase, i)
      BY <1>5, <2>3 DEF MakeInvoice
    <3> QED
      BY <2>1, <2>2, <3>1, OfferReplacesTheDead DEF OffersAreInvoices
  <2>4. CASE ~IsAwaited(b)
    <3>1. client' = client /\ request' = request
      BY <1>5, <2>4 DEF MakeInvoice
    <3>2. ASSUME NEW j \in paid', life'[j] > 0
          PROVE  j = request
      <4>1. j \in paid /\ life[j] > 0
        BY <2>1, <2>2, <3>2
      <4> QED
        BY <4>1 DEF LivePaymentIsStored
    <3>3. client.pc = "paying" /\ life'[client.offer] > 0 => client.offer = request
      BY <2>2 DEF LivePaymentIsStored
    <3> QED
      BY <2>1, <3>1, <3>2, <3>3 DEF LivePaymentIsStored, OffersAreInvoices
  <2> QED
    BY <2>3, <2>4
<1>6. ASSUME NEW t \in Tries, NEW p \in Phases, InvoiceTimeout(t, p)
      PROVE  LivePaymentIsStored' /\ OffersAreInvoices'
  <2>1. RetryInvoice(t, p) /\ UNCHANGED <<request, life, paid, cache>>
    BY <1>6 DEF InvoiceTimeout
  <2> QED
    BY <1>2, <2>1 DEF OffersAreInvoices
<1>7. ASSUME NEW b \in backend, BackendFails(b)
      PROVE  LivePaymentIsStored' /\ OffersAreInvoices'
  <2>1. /\ b.try \in Tries /\ b.phase \in Phases
        /\ UNCHANGED <<request, life, paid>>
        /\ cache' = cache \/ cache'.status = "failed"
    BY <1>7 DEF TypeOK, BackendFails
  <2>2. cache'.status = "ok" => cache'.invoice \in Invoices
    BY <2>1 DEF OffersAreInvoices
  <2>3. CASE IsAwaited(b)
    <3>1. RetryInvoice(b.try, b.phase)
      BY <1>7, <2>3 DEF BackendFails
    <3> QED
      BY <1>2, <2>1, <2>2, <3>1
  <2>4. CASE ~IsAwaited(b)
    <3>1. client' = client
      BY <1>7, <2>4 DEF BackendFails
    <3> QED
      BY <1>1, <2>1, <2>2, <3>1, PaymentsKept DEF OffersAreInvoices
  <2> QED
    BY <2>3, <2>4
<1> QED
  BY <1>3, <1>4, <1>5, <1>6, <1>7 DEF Adapter

LEMMA PaymentsStep ==
  ASSUME TypeOK, LivePaymentIsStored, OffersAreInvoices, [Next]_vars
  PROVE  LivePaymentIsStored' /\ OffersAreInvoices'
<1>1. CASE UNCHANGED vars
  BY <1>1 DEF vars, LivePaymentIsStored, OffersAreInvoices
<1>2. CASE Tick
  <2>1. /\ request' = request /\ paid' = paid /\ client' = client
        /\ cache' = CacheLater
        /\ life' = [i \in Invoices |-> IF life[i] > Floor THEN life[i] - 1 ELSE Floor]
    BY <1>2 DEF Tick
  <2>2. life' \in [Invoices -> Int] /\ \A i \in Invoices : life'[i] <= life[i]
    BY <2>1, Numbers DEF TypeOK
  <2>3. cache'.status = "ok" => cache'.invoice \in Invoices
    <3>1. CASE cache.left > 1
      BY <2>1, <3>1 DEF CacheLater, OffersAreInvoices, TypeOK, CacheState
    <3>2. CASE ~(cache.left > 1)
      BY <2>1, <3>2 DEF CacheLater, NoEntry
    <3> QED
      BY <3>1, <3>2
  <2> QED
    BY <2>1, <2>2, <2>3, PaymentsKept DEF OffersAreInvoices
<1> QED
  BY <1>1, <1>2, PaymentsOfSdk, PaymentsOfRouter, PaymentsOfAdapter DEF Next, Trouble

-------------------------------------------------------------------------------
(* Results *)

LEMMA InitSatisfiesInv == Init => RetryInv
<1> SUFFICES ASSUME Init PROVE RetryInv
  OBVIOUS
<1>1. TypeOK
  BY TypeOfInit
<1>2. RunsAreCounted
  BY DEF Init, NoHandler, RunsAreCounted, WasOffered, IsBusy, Tries, Phases
<1>3. OffersAreInvoices /\ LivePaymentIsStored
  BY DEF Init, NoEntry, OffersAreInvoices, LivePaymentIsStored
<1> QED
  BY <1>1, <1>2, <1>3 DEF RetryInv

LEMMA StepKeepsInv == RetryInv /\ [Next]_vars => RetryInv'
  BY TypeStep, RunsStep, PaymentsStep DEF RetryInv

(* The values of all variables stay what the code makes of them, at every     *)
(* level of retries: attempts within their limits, lags within MaxLag.       *)
THEOREM RetriesTypeCorrect == Spec => []TypeOK
<1>1. RetryInv => TypeOK
  BY DEF RetryInv
<1> QED
  BY <1>1, InitSatisfiesInv, StepKeepsInv, PTL DEF Spec

(* The client never has two paid invoices that can still be settled, however  *)
(* the attempts of the SDK, the router and the adapter overlap.              *)
THEOREM ClientPaysOncePerLifetime == Spec => []PaysOncePerLifetime
<1>1. RetryInv => PaysOncePerLifetime
  <2> SUFFICES ASSUME RetryInv PROVE PaysOncePerLifetime
    OBVIOUS
  <2> DEFINE live == {i \in paid : life[i] > 0}
  <2>1. live \subseteq {request}
    BY DEF RetryInv, LivePaymentIsStored
  <2>2. IsFiniteSet({request}) /\ Cardinality({request}) = 1
    BY FS_Singleton
  <2>3. Cardinality(live) <= Cardinality({request})
    BY <2>1, <2>2, FS_Subset
  <2> QED
    BY <2>2, <2>3 DEF PaysOncePerLifetime
<1> QED
  BY <1>1, InitSatisfiesInv, StepKeepsInv, PTL DEF Spec

(* The node runs the request of one inferWithPayment once, whatever is posted *)
(* again: the second envelope is let through only by a try whose first one    *)
(* was answered with an offer, and that never went to the node.              *)
THEOREM NodeRunsOncePerTry == Spec => []OneRunPerTry
<1>1. RetryInv => OneRunPerTry
  BY DEF RetryInv, RunsAreCounted, OneRunPerTry
<1> QED
  BY <1>1, InitSatisfiesInv, StepKeepsInv, PTL DEF Spec
===============================================================================
