------------------------- MODULE PaidInferenceProofs --------------------------
(***************************************************************************)
(* Proofs about pay-before-work, for all nodes, prices, numbers of calls   *)
(* and receipts, and whoever of router and nodes verifies payments.        *)
(***************************************************************************)
EXTENDS PaidInference, SequenceTheorems, TLAPS

(* What a handler read before an await is no newer than the clock. *)
ReadInThePast == \A c \in Calls : calls[c].at <= now

(* A call that waits for an invoice has a node and a price. *)
InvoicingIsPriced ==
  \A c \in Calls : calls[c].pc = "invoicing" =>
    calls[c].node \in Nodes /\ calls[c].amount \in Amounts

(* The router keeps only offers that it sent, each under its payee. *)
RequestsWereSent ==
  \A n \in DOMAIN requests : requests[n] \in offers /\ requests[n].node = n

PostsAreOfOffers == \A p \in Posts : posts[p].pc = "verifying" => posts[p].offer \in offers

(* Node n was offered for invoice i, which is paid if the router checks that. *)
Covered(n, i) ==
  /\ \E o \in offers : o.node = n /\ o.invoice = i
  /\ RouterVerifies => i \in paid

ReceiptsAreCovered == \A n \in DOMAIN receipts : Covered(n, receipts[n].offer.invoice)

ForwardedIsCovered ==
  \A c \in Calls : calls[c].pc = "at node" => Covered(calls[c].node, calls[c].invoice)

PaidWasOffered == \A i \in paid : \E o \in offers : o.invoice = i

PaidInv ==
  /\ TypeOK
  /\ ReadInThePast
  /\ InvoicingIsPriced
  /\ RequestsWereSent
  /\ PostsAreOfOffers
  /\ ReceiptsAreCovered
  /\ ForwardedIsCovered
  /\ PaidWasOffered
  /\ LiveOfferIsCurrent
  /\ InvoicesKeepTheirTerms

-------------------------------------------------------------------------------
(* Offers *)

LEMMA TimesAreNumbers ==
  /\ \A t \in Times : t \in Nat /\ t + PaymentWindow \in Expiries
  /\ \A e \in Expiries : e \in Nat
  BY ParametersAssumption DEF Times, Expiries

(* A call with an invoice on these terms leaves everything in order. *)
LEMMA SendOfferKeepsPaidInv ==
  ASSUME PaidInv, NEW c \in Calls, calls[c].pc = "invoicing",
         NEW i \in InvoiceIds, NEW e \in Expiries, SendOffer(c, i, e),
         invoices' \in Seq(Invoice), Len(invoices') <= MaxInvoices,
         \A j \in DOMAIN invoices : j \in DOMAIN invoices' /\ invoices'[j] = invoices[j],
         i \in DOMAIN invoices',
         invoices'[i].node = calls[c].node, invoices'[i].amount = calls[c].amount
  PROVE  PaidInv'
<1> DEFINE n == calls[c].node
<1> DEFINE offer == OfferFor(c, i, e)
<1>1. /\ TypeOK
      /\ calls \in [Calls -> CallState]
      /\ now \in Nat
      /\ n \in Nodes
      /\ calls[c].amount \in Amounts
      /\ calls[c].at \in Nat
      /\ calls[c].at <= now
  BY TimesAreNumbers DEF PaidInv, TypeOK, CallState, InvoicingIsPriced, ReadInThePast
<1>2. /\ requests' = Put(requests, n, offer)
      /\ offers' = offers \cup {offer}
      /\ calls' = [calls EXCEPT ![c].pc = "offered"]
      /\ UNCHANGED <<now, receipts, paid, posts, served>>
  BY DEF SendOffer
<1>3. /\ offer.node = n
      /\ offer \in Offer
      /\ \/ offer \in offers /\ n \in DOMAIN requests /\ offer = requests[n]
         \/ /\ offer.invoice = i
            /\ offer.amount = calls[c].amount
            /\ ~ (n \in DOMAIN requests /\ requests[n].expiresAtMs > calls[c].at)
  <2>1. CASE n \in DOMAIN requests /\ requests[n].expiresAtMs > calls[c].at
    BY <1>1, <2>1 DEF OfferFor, PaidInv, TypeOK, RequestsWereSent
  <2>2. CASE ~ (n \in DOMAIN requests /\ requests[n].expiresAtMs > calls[c].at)
    <3>1. offer = [node |-> n, amount |-> calls[c].amount, invoice |-> i, expiresAtMs |-> e]
      BY <2>2 DEF OfferFor
    <3> HIDE DEF offer, n
    <3> QED
      BY <1>1, <2>2, <3>1 DEF Offer, n
  <2> QED
    BY <2>1, <2>2
<1> HIDE DEF offer
<1>4. /\ calls' \in [Calls -> CallState]
      /\ \A d \in Calls : /\ calls'[d].at = calls[d].at
                          /\ calls'[d].node = calls[d].node
                          /\ calls'[d].amount = calls[d].amount
                          /\ calls'[d].invoice = calls[d].invoice
                          /\ calls'[d].pc = IF d = c THEN "offered" ELSE calls[d].pc
  BY <1>1, <1>2 DEF CallState
<1> HIDE DEF n
<1>5. /\ DOMAIN requests' = DOMAIN requests \cup {n}
      /\ requests'[n] = offer
      /\ \A m \in DOMAIN requests : m # n => requests'[m] = requests[m]
      /\ requests' \in [DOMAIN requests' -> Offer]
  BY <1>1, <1>2, <1>3 DEF Put, TypeOK
<1>6. TypeOK'
  BY <1>1, <1>2, <1>3, <1>4, <1>5 DEF TypeOK
<1>7. ReadInThePast' /\ InvoicingIsPriced'
  BY <1>2, <1>4 DEF PaidInv, ReadInThePast, InvoicingIsPriced
<1>8. RequestsWereSent'
  BY <1>2, <1>3, <1>5 DEF PaidInv, RequestsWereSent
<1>9. PostsAreOfOffers' /\ PaidWasOffered'
  BY <1>2 DEF PaidInv, PostsAreOfOffers, PaidWasOffered
<1>10. \A m, j : Covered(m, j) => Covered(m, j)'
  BY <1>2 DEF Covered
<1>11. ReceiptsAreCovered' /\ ForwardedIsCovered'
  <2>1. ReceiptsAreCovered'
    BY <1>2, <1>10 DEF PaidInv, ReceiptsAreCovered
  <2>2. ASSUME NEW d \in Calls, calls'[d].pc = "at node"
        PROVE  /\ \E o \in offers' : o.node = calls'[d].node /\ o.invoice = calls'[d].invoice
               /\ RouterVerifies => calls'[d].invoice \in paid'
    <3>1. Covered(calls[d].node, calls[d].invoice)
      BY <1>4, <2>2 DEF PaidInv, ForwardedIsCovered
    <3> QED
      BY <1>2, <1>4, <3>1 DEF Covered
  <2> QED
    BY <2>1, <2>2 DEF ForwardedIsCovered, Covered
<1>12. LiveOfferIsCurrent'
  <2> SUFFICES ASSUME NEW o \in offers', o.expiresAtMs > now
               PROVE  o.node \in DOMAIN requests' /\ requests'[o.node] = o
    BY <1>2 DEF LiveOfferIsCurrent
  <2>1. CASE o = offer
    BY <1>3, <1>5, <2>1
  <2>2. CASE o # offer
    <3>1. /\ o \in offers
          /\ o.node \in DOMAIN requests
          /\ requests[o.node] = o
          /\ o.expiresAtMs \in Nat
      BY <1>1, <1>2, <2>2, TimesAreNumbers DEF PaidInv, LiveOfferIsCurrent, TypeOK, Offer
    <3>2. o.expiresAtMs > calls[c].at
      BY <1>1, <3>1
    <3>3. o.node # n
      BY <1>3, <2>2, <3>1, <3>2
    <3> QED
      BY <1>5, <3>1, <3>3
  <2> QED
    BY <2>1, <2>2
<1>13. InvoicesKeepTheirTerms'
  <2>1. ASSUME NEW o \in offers'
        PROVE  /\ o.invoice \in DOMAIN invoices'
               /\ o.node = invoices'[o.invoice].node
               /\ o.amount = invoices'[o.invoice].amount
    <3>1. CASE o \in offers
      BY <3>1 DEF PaidInv, InvoicesKeepTheirTerms
    <3>2. CASE o \notin offers
      BY <1>2, <1>3, <3>2 DEF n
    <3> QED
      BY <3>1, <3>2
  <2> QED
    BY <1>2, <2>1 DEF PaidInv, InvoicesKeepTheirTerms
<1> QED
  BY <1>6, <1>7, <1>8, <1>9, <1>11, <1>12, <1>13 DEF PaidInv

-------------------------------------------------------------------------------
(* The steps *)

LEMMA PaidInvInit == Init => PaidInv
<1> SUFFICES ASSUME Init PROVE PaidInv
  OBVIOUS
<1>1. /\ 0 \in Times /\ MaxInvoices \in Nat
      /\ invoices \in Seq(Invoice) /\ Len(invoices) = 0
  BY ParametersAssumption, EmptySeq DEF Init, Times
<1>2. calls \in [Calls -> CallState] /\ posts \in [Posts -> PostState]
  <2>1. [pc |-> "idle", node |-> NoNode, amount |-> 0, at |-> 0,
         invoice |-> 0, attached |-> FALSE] \in CallState
    BY <1>1 DEF CallState
  <2>2. [pc |-> "idle", offer |-> NoOffer, at |-> 0] \in PostState
    BY <1>1 DEF PostState
  <2> QED
    BY <2>1, <2>2 DEF Init
<1>3. TypeOK
  <2>1. /\ DOMAIN requests = {} /\ requests \in [DOMAIN requests -> Offer]
        /\ DOMAIN receipts = {} /\ receipts \in [DOMAIN receipts -> Receipt]
    BY DEF Init
  <2>2. now \in Times /\ Len(invoices) <= MaxInvoices
    BY <1>1 DEF Init
  <2>3. offers \subseteq Offer /\ paid \subseteq InvoiceIds /\ served \subseteq Nodes \X InvoiceIds
    BY DEF Init
  <2> QED
    BY <1>1, <1>2, <2>1, <2>2, <2>3 DEF TypeOK
<1>4. \A c \in Calls : calls[c].at = 0 /\ calls[c].pc = "idle"
  BY DEF Init
<1>5. \A p \in Posts : posts[p].pc = "idle"
  BY DEF Init
<1>6. ReadInThePast /\ InvoicingIsPriced /\ ForwardedIsCovered
  <2>1. now = 0
    BY DEF Init
  <2>2. ReadInThePast
    BY <1>4, <2>1 DEF ReadInThePast
  <2>3. InvoicingIsPriced /\ ForwardedIsCovered
    BY <1>4 DEF InvoicingIsPriced, ForwardedIsCovered
  <2> QED
    BY <2>2, <2>3
<1>7. RequestsWereSent /\ PostsAreOfOffers /\ ReceiptsAreCovered /\ PaidWasOffered
  BY <1>5 DEF Init, RequestsWereSent, PostsAreOfOffers, ReceiptsAreCovered, PaidWasOffered
<1>8. LiveOfferIsCurrent /\ InvoicesKeepTheirTerms
  BY DEF Init, LiveOfferIsCurrent, InvoicesKeepTheirTerms
<1> QED
  BY <1>3, <1>6, <1>7, <1>8 DEF PaidInv

LEMMA TickKeepsPaidInv ==
  ASSUME PaidInv, Tick
  PROVE  PaidInv'
<1>1. /\ TypeOK
      /\ now \in Nat
      /\ now' = now + 1
      /\ now' \in Times
      /\ UNCHANGED <<invoices, requests, receipts, offers, paid, calls, posts, served>>
  BY TimesAreNumbers, ParametersAssumption DEF PaidInv, TypeOK, Tick, Times
<1>2. TypeOK'
  BY <1>1 DEF TypeOK
<1>3. ReadInThePast'
  <2>1. \A c \in Calls : calls[c].at \in Nat
    BY <1>1, TimesAreNumbers DEF TypeOK, CallState
  <2> QED
    BY <1>1, <2>1 DEF PaidInv, ReadInThePast
<1>4. LiveOfferIsCurrent'
  <2>1. \A o \in offers : o.expiresAtMs \in Nat
    BY <1>1, TimesAreNumbers DEF TypeOK, Offer
  <2> QED
    BY <1>1, <2>1 DEF PaidInv, LiveOfferIsCurrent
<1> QED
  BY <1>1, <1>2, <1>3, <1>4
     DEF PaidInv, InvoicingIsPriced, RequestsWereSent, PostsAreOfOffers, ReceiptsAreCovered,
         ForwardedIsCovered, PaidWasOffered, InvoicesKeepTheirTerms, Covered

LEMMA PruneKeepsPaidInv ==
  ASSUME PaidInv, Prune
  PROVE  PaidInv'
<1>1. /\ TypeOK
      /\ now \in Nat
      /\ DOMAIN requests' = {n \in DOMAIN requests : ~ (requests[n].expiresAtMs < now - RequestRetention)}
      /\ \A n \in DOMAIN requests' : requests'[n] = requests[n]
      /\ DOMAIN receipts' \subseteq DOMAIN receipts
      /\ \A n \in DOMAIN receipts' : receipts'[n] = receipts[n]
      /\ UNCHANGED <<now, invoices, offers, paid, calls, posts, served>>
  BY TimesAreNumbers DEF PaidInv, TypeOK, Prune, Without
<1>2. TypeOK'
  BY <1>1 DEF TypeOK, Prune, Without
<1>3. LiveOfferIsCurrent'
  <2> SUFFICES ASSUME NEW o \in offers, o.expiresAtMs > now
               PROVE  o.node \in DOMAIN requests' /\ requests'[o.node] = o
    BY <1>1 DEF LiveOfferIsCurrent
  <2>1. o.node \in DOMAIN requests /\ requests[o.node] = o /\ o.expiresAtMs \in Nat
    BY <1>1, TimesAreNumbers DEF PaidInv, LiveOfferIsCurrent, TypeOK, Offer
  <2>2. ~ (o.expiresAtMs < now - RequestRetention)
    BY <1>1, <2>1, ParametersAssumption
  <2> QED
    BY <1>1, <2>1, <2>2
<1>4. RequestsWereSent'
  BY <1>1 DEF PaidInv, RequestsWereSent
<1>5. ReceiptsAreCovered'
  BY <1>1 DEF PaidInv, ReceiptsAreCovered, Covered
<1>6. InvoicesKeepTheirTerms'
  BY <1>1 DEF PaidInv, InvoicesKeepTheirTerms
<1> QED
  BY <1>1, <1>2, <1>3, <1>4, <1>5, <1>6
     DEF PaidInv, ReadInThePast, InvoicingIsPriced, PostsAreOfOffers, ForwardedIsCovered,
         PaidWasOffered, Covered

(* A step that touches only calls, none of which comes to wait for an invoice
   or to be at a node, keeps the invariant. *)
LEMMA EndingCallKeepsPaidInv ==
  ASSUME PaidInv, NEW c \in Calls, NEW pc \in {"offered", "ok", "failed"},
         calls' = [calls EXCEPT ![c].pc = pc],
         served' \in SUBSET (Nodes \X InvoiceIds),
         UNCHANGED <<now, invoices, requests, receipts, offers, paid, posts>>
  PROVE  PaidInv'
<1>1. calls \in [Calls -> CallState]
  BY DEF PaidInv, TypeOK
<1>2. /\ calls' \in [Calls -> CallState]
      /\ \A d \in Calls : /\ calls'[d].at = calls[d].at
                          /\ calls'[d].node = calls[d].node
                          /\ calls'[d].amount = calls[d].amount
                          /\ calls'[d].invoice = calls[d].invoice
                          /\ calls'[d].pc = IF d = c THEN pc ELSE calls[d].pc
  BY <1>1 DEF CallState
<1>3. TypeOK'
  BY <1>2 DEF PaidInv, TypeOK
<1>4. ReadInThePast' /\ InvoicingIsPriced' /\ ForwardedIsCovered'
  BY <1>2 DEF PaidInv, ReadInThePast, InvoicingIsPriced, ForwardedIsCovered, Covered
<1> QED
  BY <1>3, <1>4
     DEF PaidInv, RequestsWereSent, PostsAreOfOffers, ReceiptsAreCovered, PaidWasOffered,
         LiveOfferIsCurrent, InvoicesKeepTheirTerms, Covered

LEMMA InferKeepsPaidInv ==
  ASSUME PaidInv, NEW c \in Calls, NEW n \in Nodes, NEW amount \in Amounts,
         Infer(c, n, amount)
  PROVE  PaidInv'
<1>1. /\ TypeOK
      /\ calls \in [Calls -> CallState]
      /\ now \in Times
      /\ now \in Nat
      /\ UNCHANGED <<now, invoices, requests, receipts, offers, paid, posts, served>>
  BY TimesAreNumbers DEF PaidInv, TypeOK, Infer
<1> DEFINE e == [pc |-> IF n \in DOMAIN receipts THEN "at node" ELSE "invoicing",
                 node |-> n, amount |-> amount, at |-> now,
                 invoice |-> IF n \in DOMAIN receipts THEN receipts[n].offer.invoice ELSE 0,
                 attached |-> \E o \in offers : o.node = n /\ o.invoice \in paid]
<1>2. calls' = [calls EXCEPT ![c] = e]
  BY DEF Infer
<1>3. /\ e \in CallState
      /\ e.node = n /\ e.amount = amount /\ e.at = now
      /\ e.pc = "at node" => n \in DOMAIN receipts /\ e.invoice = receipts[n].offer.invoice
  <2>1. (IF n \in DOMAIN receipts THEN receipts[n].offer.invoice ELSE 0) \in InvoiceIds \cup {0}
    BY <1>1 DEF TypeOK, Receipt, Offer
  <2>2. (\E o \in offers : o.node = n /\ o.invoice \in paid) \in BOOLEAN
    OBVIOUS
  <2> QED
    BY <1>1, <2>1, <2>2 DEF CallState
<1> HIDE DEF e
<1>4. calls' \in [Calls -> CallState] /\ \A d \in Calls : calls'[d] = IF d = c THEN e ELSE calls[d]
  BY <1>1, <1>2, <1>3
<1>5. TypeOK'
  BY <1>1, <1>4 DEF TypeOK
<1>6. ReadInThePast' /\ InvoicingIsPriced'
  <2>1. ASSUME NEW d \in Calls
        PROVE  /\ calls'[d].at <= now'
               /\ calls'[d].pc = "invoicing" => calls'[d].node \in Nodes /\ calls'[d].amount \in Amounts
    <3>1. CASE d = c
      <4>1. calls'[d] = e
        BY <1>4, <3>1
      <4>2. now \in Nat /\ now' = now
        BY <1>1
      <4>3. calls'[d].at <= now'
        <5>1. calls'[d].at = now
          BY <1>3, <4>1
        <5>2. now' \in Nat /\ calls'[d].at = now'
          BY <4>2, <5>1
        <5> QED
          BY <5>2
      <4>4. calls'[d].node \in Nodes /\ calls'[d].amount \in Amounts
        BY <1>3, <4>1
      <4> QED
        BY <4>3, <4>4
    <3>2. CASE d # c
      BY <1>1, <1>4, <3>2 DEF PaidInv, ReadInThePast, InvoicingIsPriced
    <3> QED
      BY <3>1, <3>2
  <2> QED
    BY <2>1 DEF ReadInThePast, InvoicingIsPriced
<1>7. ForwardedIsCovered'
  <2>1. ASSUME NEW d \in Calls, calls'[d].pc = "at node"
        PROVE  /\ \E o \in offers' : o.node = calls'[d].node /\ o.invoice = calls'[d].invoice
               /\ RouterVerifies => calls'[d].invoice \in paid'
    <3>1. CASE d = c
      <4>1. Covered(n, receipts[n].offer.invoice)
        BY <1>3, <1>4, <2>1, <3>1 DEF PaidInv, ReceiptsAreCovered
      <4> QED
        BY <1>1, <1>3, <1>4, <2>1, <3>1, <4>1 DEF Covered
    <3>2. CASE d # c
      <4>1. calls'[d] = calls[d]
        BY <1>4, <3>2
      <4>2. Covered(calls[d].node, calls[d].invoice)
        BY <2>1, <4>1 DEF PaidInv, ForwardedIsCovered
      <4> QED
        BY <1>1, <4>1, <4>2 DEF Covered
    <3> QED
      BY <3>1, <3>2
  <2> QED
    BY <2>1 DEF ForwardedIsCovered, Covered
<1> QED
  BY <1>1, <1>5, <1>6, <1>7
     DEF PaidInv, RequestsWereSent, PostsAreOfOffers, ReceiptsAreCovered, PaidWasOffered,
         LiveOfferIsCurrent, InvoicesKeepTheirTerms, Covered

LEMMA NewInvoiceKeepsPaidInv ==
  ASSUME PaidInv, NEW c \in Calls, NewInvoice(c)
  PROVE  PaidInv'
<1> DEFINE v == [node |-> calls[c].node, amount |-> calls[c].amount,
                 expiresAtMs |-> now + PaymentWindow]
<1>1. /\ calls[c].pc = "invoicing"
      /\ calls[c].node \in Nodes
      /\ calls[c].amount \in Amounts
      /\ calls[c].at \in Times
      /\ now \in Times
      /\ invoices \in Seq(Invoice)
      /\ Len(invoices) \in Nat
      /\ Len(invoices) < MaxInvoices
      /\ MaxInvoices \in Nat
  <2>1. calls[c] \in CallState /\ now \in Times /\ invoices \in Seq(Invoice)
    BY DEF PaidInv, TypeOK
  <2>2. calls[c].pc = "invoicing" /\ Len(invoices) < MaxInvoices
    BY DEF NewInvoice
  <2>3. calls[c].node \in Nodes /\ calls[c].amount \in Amounts
    BY <2>2 DEF PaidInv, InvoicingIsPriced
  <2>4. calls[c].at \in Times
    BY <2>1 DEF CallState
  <2>5. Len(invoices) \in Nat
    BY <2>1, LenProperties
  <2> QED
    BY <2>1, <2>2, <2>3, <2>4, <2>5, ParametersAssumption
<1>2. v \in Invoice /\ v.node = calls[c].node /\ v.amount = calls[c].amount
  BY <1>1, TimesAreNumbers DEF Invoice
<1>3. invoices' = Append(invoices, v)
  BY DEF NewInvoice
<1> HIDE DEF v
<1>4. /\ invoices' \in Seq(Invoice)
      /\ Len(invoices') = Len(invoices) + 1
      /\ DOMAIN invoices' = 1 .. Len(invoices) + 1
      /\ DOMAIN invoices = 1 .. Len(invoices)
      /\ \A j \in 1 .. Len(invoices) : invoices'[j] = invoices[j]
      /\ invoices'[Len(invoices) + 1] = v
  BY <1>1, <1>2, <1>3, AppendProperties
<1>5. Len(invoices) + 1 \in InvoiceIds /\ Len(invoices') <= MaxInvoices
  BY <1>1, <1>4 DEF InvoiceIds
<1>6. PICK t \in {now, calls[c].at} : SendOffer(c, Len(invoices) + 1, t + PaymentWindow)
  BY DEF NewInvoice
<1>7. t + PaymentWindow \in Expiries
  BY <1>1, TimesAreNumbers
<1> QED
  BY <1>1, <1>2, <1>4, <1>5, <1>6, <1>7, SendOfferKeepsPaidInv

LEMMA SameInvoiceKeepsPaidInv ==
  ASSUME PaidInv, NEW c \in Calls, SameInvoice(c)
  PROVE  PaidInv'
<1>1. PICK i \in DOMAIN invoices :
        /\ invoices[i].node = calls[c].node
        /\ invoices[i].amount = calls[c].amount
        /\ \E t \in {invoices[i].expiresAtMs, calls[c].at + PaymentWindow} : SendOffer(c, i, t)
  BY DEF SameInvoice
<1>2. PICK t \in {invoices[i].expiresAtMs, calls[c].at + PaymentWindow} : SendOffer(c, i, t)
  BY <1>1
<1>3. /\ calls[c].pc = "invoicing"
      /\ calls[c].at \in Times
      /\ invoices \in Seq(Invoice)
      /\ Len(invoices) \in Nat
      /\ Len(invoices) <= MaxInvoices
      /\ invoices' = invoices
      /\ MaxInvoices \in Nat
  <2>1. calls[c] \in CallState /\ invoices \in Seq(Invoice) /\ Len(invoices) <= MaxInvoices
    BY DEF PaidInv, TypeOK
  <2>2. calls[c].pc = "invoicing" /\ invoices' = invoices
    BY DEF SameInvoice
  <2>3. calls[c].at \in Times
    BY <2>1 DEF CallState
  <2>4. Len(invoices) \in Nat
    BY <2>1, LenProperties
  <2> QED
    BY <2>1, <2>2, <2>3, <2>4, ParametersAssumption
<1>4. i \in InvoiceIds /\ invoices[i] \in Invoice
  BY <1>1, <1>3 DEF InvoiceIds
<1>5. t \in Expiries
  BY <1>2, <1>3, <1>4, TimesAreNumbers DEF Invoice
<1> QED
  BY <1>1, <1>2, <1>3, <1>4, <1>5, SendOfferKeepsPaidInv

LEMMA NodeRunsKeepsPaidInv ==
  ASSUME PaidInv, NEW c \in Calls, NodeRuns(c)
  PROVE  PaidInv'
<1>1. Covered(calls[c].node, calls[c].invoice)
  BY DEF PaidInv, ForwardedIsCovered, NodeRuns
<1>2. <<calls[c].node, calls[c].invoice>> \in Nodes \X InvoiceIds
  BY <1>1 DEF Covered, PaidInv, TypeOK, Offer
<1>3. served' \in SUBSET (Nodes \X InvoiceIds)
  BY <1>2 DEF PaidInv, TypeOK, NodeRuns
<1> QED
  BY <1>3, EndingCallKeepsPaidInv DEF NodeRuns

LEMMA PayKeepsPaidInv ==
  ASSUME PaidInv, NEW o \in offers, Pay(o)
  PROVE  PaidInv'
<1>1. /\ paid' = paid \cup {o.invoice}
      /\ UNCHANGED <<now, invoices, requests, receipts, offers, calls, posts, served>>
      /\ o.invoice \in InvoiceIds
  BY DEF Pay, PaidInv, TypeOK, Offer
<1>2. TypeOK' /\ PaidWasOffered'
  BY <1>1 DEF PaidInv, TypeOK, PaidWasOffered
<1>3. ReceiptsAreCovered' /\ ForwardedIsCovered'
  BY <1>1 DEF PaidInv, ReceiptsAreCovered, ForwardedIsCovered, Covered
<1> QED
  BY <1>1, <1>2, <1>3
     DEF PaidInv, ReadInThePast, InvoicingIsPriced, RequestsWereSent, PostsAreOfOffers,
         LiveOfferIsCurrent, InvoicesKeepTheirTerms

(* What a step of a post may do to the receipts. *)
LEMMA PostStepKeepsPaidInv ==
  ASSUME PaidInv, NEW p \in Posts, NEW s \in PostState, posts' = [posts EXCEPT ![p] = s],
         s.pc = "verifying" => s.offer \in offers,
         UNCHANGED <<now, invoices, requests, offers, paid, calls, served>>,
         receipts' = receipts
           \/ \E o \in offers, at \in Times :
                /\ RouterVerifies => o.invoice \in paid
                /\ receipts' = Put(receipts, o.node, [offer |-> o, paidAtMs |-> at])
  PROVE  PaidInv'
<1>1. posts' \in [Posts -> PostState] /\ \A q \in Posts : posts'[q] = IF q = p THEN s ELSE posts[q]
  BY DEF PaidInv, TypeOK
<1>2. /\ DOMAIN receipts' \subseteq Nodes
      /\ receipts' \in [DOMAIN receipts' -> Receipt]
      /\ \A n \in DOMAIN receipts' : /\ receipts'[n].offer \in offers
                                    /\ receipts'[n].offer.node = n
                                    /\ Covered(n, receipts'[n].offer.invoice)
  <2>1. CASE receipts' = receipts
    BY <2>1 DEF PaidInv, TypeOK, InvoicesKeepTheirTerms, ReceiptsAreCovered
  <2>2. CASE receipts' # receipts
    <3>1. PICK o \in offers, at \in Times :
            /\ RouterVerifies => o.invoice \in paid
            /\ receipts' = Put(receipts, o.node, [offer |-> o, paidAtMs |-> at])
      BY <2>2
    <3> DEFINE r == [offer |-> o, paidAtMs |-> at]
    <3>2. o \in Offer /\ o.node \in Nodes /\ r \in Receipt /\ r.offer = o
      BY DEF PaidInv, TypeOK, Offer, Receipt
    <3>3. receipts' = Put(receipts, o.node, r)
      BY <3>1
    <3> HIDE DEF r
    <3>4. /\ DOMAIN receipts' = DOMAIN receipts \cup {o.node}
          /\ receipts'[o.node] = r
          /\ \A n \in DOMAIN receipts : n # o.node => receipts'[n] = receipts[n]
          /\ receipts' \in [DOMAIN receipts' -> Receipt]
      BY <3>2, <3>3 DEF Put, PaidInv, TypeOK
    <3>5. Covered(o.node, o.invoice)
      BY <3>1 DEF Covered
    <3> QED
      BY <3>2, <3>4, <3>5 DEF PaidInv, TypeOK, InvoicesKeepTheirTerms, ReceiptsAreCovered
  <2> QED
    BY <2>1, <2>2
<1>3. TypeOK'
  BY <1>1, <1>2 DEF PaidInv, TypeOK
<1>4. PostsAreOfOffers'
  BY <1>1 DEF PaidInv, PostsAreOfOffers
<1>5. ReceiptsAreCovered'
  BY <1>2 DEF ReceiptsAreCovered, Covered
<1>6. InvoicesKeepTheirTerms'
  BY <1>2 DEF PaidInv, InvoicesKeepTheirTerms
<1> QED
  BY <1>3, <1>4, <1>5, <1>6
     DEF PaidInv, ReadInThePast, InvoicingIsPriced, RequestsWereSent, ForwardedIsCovered,
         PaidWasOffered, LiveOfferIsCurrent, Covered

(* The steps of a post, action by action. *)
LEMMA PostsKeepPaidInv ==
  ASSUME PaidInv, NEW p \in Posts,
         \/ \E o \in offers : Post(p, o)
         \/ Verified(p) \/ Unsettled(p) \/ VerificationFails(p)
  PROVE  PaidInv'
<1>1. /\ posts \in [Posts -> PostState]
      /\ posts[p].offer \in Offer \cup {NoOffer}
      /\ posts[p].at \in Times
      /\ now \in Times
      /\ offers \subseteq Offer
  BY DEF PaidInv, TypeOK, PostState
<1>2. ASSUME NEW o \in offers, Post(p, o)
      PROVE  PaidInv'
  <2> DEFINE s == [pc |-> IF Matches(o) THEN "verifying" ELSE "refused",
                   offer |-> o, at |-> now]
  <2>1. s \in PostState /\ s.offer \in offers
    BY <1>1 DEF PostState
  <2>2. /\ posts' = [posts EXCEPT ![p] = s]
        /\ receipts' = receipts
        /\ UNCHANGED <<now, invoices, requests, offers, paid, calls, served>>
    BY <1>2 DEF Post
  <2> HIDE DEF s
  <2> QED
    BY <2>1, <2>2, PostStepKeepsPaidInv
<1>3. ASSUME NEW pc \in {"accepted", "refused", "failed"}, posts' = [posts EXCEPT ![p].pc = pc],
             UNCHANGED <<now, invoices, requests, offers, paid, calls, served>>,
             receipts' = receipts
               \/ \E o \in offers, at \in Times :
                    /\ RouterVerifies => o.invoice \in paid
                    /\ receipts' = Put(receipts, o.node, [offer |-> o, paidAtMs |-> at])
      PROVE  PaidInv'
  <2> DEFINE s == [pc |-> pc, offer |-> posts[p].offer, at |-> posts[p].at]
  <2>1. s \in PostState /\ s.pc # "verifying"
    BY <1>1, <1>3 DEF PostState
  <2>2. posts' = [posts EXCEPT ![p] = s]
    <3>1. posts[p] \in PostState
      BY <1>1
    <3>2. [posts[p] EXCEPT !.pc = pc] = s
      BY <3>1 DEF PostState
    <3>3. posts' = [posts EXCEPT ![p] = [posts[p] EXCEPT !.pc = pc]]
      BY <1>3
    <3> QED
      BY <3>2, <3>3
  <2> HIDE DEF s
  <2> QED
    BY <1>3, <2>1, <2>2, PostStepKeepsPaidInv
<1>4. CASE Verified(p)
  <2>1. posts[p].offer \in offers
    BY <1>4 DEF Verified, PaidInv, PostsAreOfOffers
  <2> QED
    BY <1>1, <1>3, <1>4, <2>1 DEF Verified
<1>5. CASE Unsettled(p) \/ VerificationFails(p)
  BY <1>3, <1>5 DEF Unsettled, VerificationFails
<1> QED
  BY <1>2, <1>4, <1>5

LEMMA PaidInvStep ==
  ASSUME PaidInv, [Next]_vars
  PROVE  PaidInv'
<1>1. ASSUME NEW c \in Calls, NoInvoice(c) \/ NodeRefuses(c)
      PROVE  PaidInv'
  <2>1. /\ calls' = [calls EXCEPT ![c].pc = "failed"]
        /\ UNCHANGED <<now, invoices, requests, receipts, offers, paid, posts>>
        /\ served' = served
    BY <1>1 DEF NoInvoice, NodeRefuses
  <2>2. served' \in SUBSET (Nodes \X InvoiceIds)
    BY <2>1 DEF PaidInv, TypeOK
  <2> QED
    BY <2>1, <2>2, EndingCallKeepsPaidInv
<1>2. CASE UNCHANGED vars
  BY <1>2
     DEF vars, PaidInv, TypeOK, ReadInThePast, InvoicingIsPriced, RequestsWereSent, PostsAreOfOffers,
         ReceiptsAreCovered, ForwardedIsCovered, PaidWasOffered, LiveOfferIsCurrent,
         InvoicesKeepTheirTerms, Covered
<1>3. CASE Next
  <2>1. CASE Tick \/ Prune
    BY <2>1, TickKeepsPaidInv, PruneKeepsPaidInv
  <2>2. CASE \E c \in Calls :
               \/ \E n \in Nodes, amount \in Amounts : Infer(c, n, amount)
               \/ NewInvoice(c) \/ SameInvoice(c) \/ NoInvoice(c)
               \/ NodeRuns(c) \/ NodeRefuses(c)
    BY <1>1, <2>2, InferKeepsPaidInv, NewInvoiceKeepsPaidInv, SameInvoiceKeepsPaidInv,
       NodeRunsKeepsPaidInv
  <2>3. CASE \E o \in offers : Pay(o) \/ \E p \in Posts : Post(p, o)
    BY <2>3, PayKeepsPaidInv, PostsKeepPaidInv
  <2>4. CASE \E p \in Posts : Verified(p) \/ Unsettled(p) \/ VerificationFails(p)
    BY <2>4, PostsKeepPaidInv
  <2> QED
    BY <1>3, <2>1, <2>2, <2>3, <2>4 DEF Next
<1> QED
  BY <1>2, <1>3

-------------------------------------------------------------------------------
(* The theorems *)

\* What the router holds, what the calls and posts wait for and what the client
\* has paid fit together in every state.
THEOREM PaidInvariant == Spec => []PaidInv
<1>1. Init => PaidInv
  BY PaidInvInit
<1>2. PaidInv /\ [Next]_vars => PaidInv'
  BY PaidInvStep
<1> QED
  BY <1>1, <1>2, PTL DEF Spec

\* All variables keep their types: offers, receipts and served inferences are
\* those of nodes and invoices.
THEOREM PaidTypeCorrect == Spec => []TypeOK
<1>1. PaidInv => TypeOK
  BY DEF PaidInv
<1> QED
  BY <1>1, PaidInvariant, PTL

\* For any number of calls that wait for invoices at the same time, an offer that
\* has not expired is the one that the router compares receipts with.
THEOREM LiveOffersAreCurrent == Spec => []LiveOfferIsCurrent
<1>1. PaidInv => LiveOfferIsCurrent
  BY DEF PaidInv
<1> QED
  BY <1>1, PaidInvariant, PTL

\* An invoice stands for one node and one amount wherever it appears.
THEOREM TermsAreKept == Spec => []InvoicesKeepTheirTerms
<1>1. PaidInv => InvoicesKeepTheirTerms
  BY DEF PaidInv
<1> QED
  BY <1>1, PaidInvariant, PTL

\* /payment-receipt refuses a receipt only after its offer's expiry or if its
\* invoice is not paid.
THEOREM RefusalsAreJust == Spec => PaidInTimeIsNotRefused
<1>1. PaidInv /\ [Next]_vars =>
        [\A p \in Posts : posts[p].pc # "refused" /\ posts'[p].pc = "refused" =>
           \/ posts'[p].offer.expiresAtMs <= now
           \/ posts'[p].offer.invoice \notin paid]_vars
  <2> SUFFICES ASSUME PaidInv, Next, NEW p \in Posts,
                      posts[p].pc # "refused", posts'[p].pc = "refused"
               PROVE  \/ posts'[p].offer.expiresAtMs <= now
                      \/ posts'[p].offer.invoice \notin paid
    OBVIOUS
  <2>1. posts \in [Posts -> PostState] /\ now \in Nat /\ \A o \in offers : o.expiresAtMs \in Nat
    BY TimesAreNumbers DEF PaidInv, TypeOK, Offer
  <2>2. \/ \E q \in Posts : \/ \E o \in offers : Post(q, o)
                           \/ Verified(q) \/ Unsettled(q) \/ VerificationFails(q)
        \/ posts' = posts
    BY DEF Next, Tick, Prune, Infer, NewInvoice, SameInvoice, SendOffer, NoInvoice, NodeRuns,
           NodeRefuses, Pay
  <2>3. ASSUME NEW q \in Posts, NEW o \in offers, Post(q, o)
        PROVE  posts'[p].offer.expiresAtMs <= now
    <3>1. q = p /\ posts'[p].offer = o /\ ~ Matches(o)
      BY <2>1, <2>3 DEF Post
    <3>2. ~ (o.expiresAtMs > now)
      BY <3>1 DEF PaidInv, LiveOfferIsCurrent, Matches
    <3> QED
      BY <2>1, <3>1, <3>2
  <2>4. ASSUME NEW q \in Posts, Unsettled(q)
        PROVE  posts'[p].offer.invoice \notin paid
    <3>1. q = p /\ posts'[p].offer = posts[p].offer
      BY <2>1, <2>4 DEF Unsettled, PostState
    <3> QED
      BY <2>4, <3>1 DEF Unsettled
  <2>5. ASSUME NEW q \in Posts, Verified(q) \/ VerificationFails(q)
        PROVE  FALSE
    BY <2>1, <2>5 DEF Verified, VerificationFails, PostState
  <2> QED
    BY <2>2, <2>3, <2>4, <2>5
<1> QED
  BY <1>1, PaidInvariant, PTL DEF Spec, PaidInTimeIsNotRefused

-------------------------------------------------------------------------------
(* The refinement *)

(* A 402 is the promise's Offer: an offer for an invoice that was paid before
   pays for nothing new, as an invoice is always one node's. *)
LEMMA OfferIsPromised ==
  ASSUME PaidInv, PaidInv', NEW offer \in Offer, offers' = offers \cup {offer},
         UNCHANGED <<paid, served>>
  PROVE  Prepaid!Next
<1>1. {<<o.node, o.invoice>> : o \in offers'}
        = {<<o.node, o.invoice>> : o \in offers} \cup {<<offer.node, offer.invoice>>}
  OBVIOUS
<1>2. {<<o.node, o.invoice>> : o \in {x \in offers' : x.invoice \in paid'}}
        = {<<o.node, o.invoice>> : o \in {x \in offers : x.invoice \in paid}}
  <2>1. ASSUME offer.invoice \in paid
        PROVE  \E o \in offers : o.invoice \in paid /\ o.node = offer.node /\ o.invoice = offer.invoice
    <3>1. PICK o \in offers : o.invoice = offer.invoice
      BY <2>1 DEF PaidInv, PaidWasOffered
    <3>2. o.node = invoices'[o.invoice].node /\ offer.node = invoices'[offer.invoice].node
      BY DEF PaidInv, InvoicesKeepTheirTerms
    <3> QED
      BY <2>1, <3>1, <3>2
  <2> QED
    BY <2>1
<1>3. offer.node \in Nodes /\ offer.invoice \in InvoiceIds
  BY DEF Offer
<1> QED
  BY <1>1, <1>2, <1>3 DEF Prepaid!Next, Prepaid!Offer

\* Whatever calls, receipts, expiries and pruning do, a node works only against an
\* invoice of its own that the client was offered and has paid before.
THEOREM PayBeforeWork == Spec => ImplementsPrepaid
<1>1. Init => Prepaid!Init
  BY DEF Init, Prepaid!Init
<1>2. PaidInv /\ PaidInv' /\ [Next]_vars => [Prepaid!Next]_(Prepaid!vars)
  <2> SUFFICES ASSUME PaidInv, PaidInv', [Next]_vars
               PROVE  [Prepaid!Next]_(Prepaid!vars)
    OBVIOUS
  <2>1. ASSUME NEW c \in Calls, NEW i, NEW e, SendOffer(c, i, e)
        PROVE  Prepaid!Next
    <3>1. offers' = offers \cup {OfferFor(c, i, e)} /\ UNCHANGED <<paid, served>>
      BY <2>1 DEF SendOffer
    <3>2. OfferFor(c, i, e) \in Offer
      BY <3>1 DEF PaidInv, TypeOK
    <3> QED
      BY <3>1, <3>2, OfferIsPromised
  <2>2. ASSUME NEW c \in Calls, NewInvoice(c) \/ SameInvoice(c)
        PROVE  Prepaid!Next
    BY <2>1, <2>2 DEF NewInvoice, SameInvoice
  <2>3. ASSUME NEW o \in offers, Pay(o)
        PROVE  Prepaid!Next
    <3>1. paid' = paid \cup {o.invoice} /\ offers' = offers /\ served' = served
      BY <2>3 DEF Pay
    <3>2. \A x \in offers : x.invoice = o.invoice => x.node = o.node
      BY DEF PaidInv, InvoicesKeepTheirTerms
    <3>3. {<<x.node, x.invoice>> : x \in {y \in offers : y.invoice \in paid \cup {o.invoice}}}
            = {<<x.node, x.invoice>> : x \in {y \in offers : y.invoice \in paid}}
                \cup {<<o.node, o.invoice>>}
      BY <3>2
    <3>4. o.node \in Nodes /\ o.invoice \in InvoiceIds
      BY DEF PaidInv, TypeOK, Offer
    <3> QED
      BY <3>1, <3>3, <3>4 DEF Prepaid!Next, Prepaid!Pay
  <2>4. ASSUME NEW c \in Calls, NodeRuns(c)
        PROVE  Prepaid!Next
    <3>1. /\ served' = served \cup {<<calls[c].node, calls[c].invoice>>}
          /\ offers' = offers /\ paid' = paid
          /\ Covered(calls[c].node, calls[c].invoice)
          /\ calls[c].invoice \in paid
      BY <2>4, SomeoneVerifies DEF NodeRuns, PaidInv, ForwardedIsCovered, Covered
    <3>2. PICK o \in offers : o.node = calls[c].node /\ o.invoice = calls[c].invoice
      BY <3>1 DEF Covered
    <3>3. o.node \in Nodes /\ o.invoice \in InvoiceIds
      BY DEF PaidInv, TypeOK, Offer
    <3>4. <<o.node, o.invoice>> \in {<<x.node, x.invoice>> : x \in {y \in offers : y.invoice \in paid}}
      BY <3>1, <3>2
    <3> QED
      BY <3>1, <3>2, <3>3, <3>4 DEF Prepaid!Next, Prepaid!Serve
  <2>5. ASSUME UNCHANGED <<offers, paid, served>>
        PROVE  UNCHANGED Prepaid!vars
    BY <2>5 DEF Prepaid!vars
  <2>6. CASE UNCHANGED vars
    BY <2>5, <2>6 DEF vars
  <2>7. CASE Next
    <3>1. \/ UNCHANGED <<offers, paid, served>>
          \/ \E c \in Calls : NewInvoice(c) \/ SameInvoice(c) \/ NodeRuns(c)
          \/ \E o \in offers : Pay(o)
      BY <2>7 DEF Next, Tick, Prune, Infer, NoInvoice, NodeRefuses, Post, Verified, Unsettled,
                  VerificationFails
    <3> QED
      BY <2>2, <2>3, <2>4, <2>5, <3>1
  <2> QED
    BY <2>6, <2>7
<1> QED
  BY <1>1, <1>2, PaidInvariant, PTL DEF Spec, ImplementsPrepaid, Prepaid!Spec
===============================================================================
