---------------------------- MODULE PaidInference -----------------------------
(***************************************************************************)
(* One client request on a router that requires payment: /infer and        *)
(* /infer/stream up to the 402 or the forwarded request, /payment-receipt, *)
(* the retention of offers and receipts, and the node's own check of the   *)
(* receipt.  Everything the router keeps is keyed by request and payee, so *)
(* that one request with its several calls shows all the sharing there is. *)
(*                                                                         *)
(* The handlers await the invoice provider and the verification service;   *)
(* other handlers run in between.  The client is honest: it sends receipts *)
(* only for offers it got, but it may send one before its payment settles, *)
(* late, or twice.  Amount and splits go together (computeRouterFeeSats),  *)
(* so that the amount stands for both.                                     *)
(***************************************************************************)
EXTENDS Integers, Sequences

CONSTANTS
  Nodes,             \* the nodes, each a payee
  Amounts,           \* what a call may cost, router fee included
  Calls,             \* calls of /infer or /infer/stream
  Posts,             \* calls of /payment-receipt
  NoNode,            \* the node of a call that was not made yet
  NoOffer,           \* the offer of a post that was not made yet
  PaymentWindow,     \* PAYMENT_WINDOW_MS, and the provider's time to expiry
  RequestRetention,  \* paymentRequestRetentionMs
  ReceiptRetention,  \* paymentReceiptRetentionMs
  RouterVerifies,    \* the router has a verification service configured
  NodeVerifies,      \* the nodes have
  MaxInvoices,       \* bound: so many invoices
  MaxTime            \* bound: the clock stops here

ASSUME ParametersAssumption ==
  /\ PaymentWindow \in Nat
  /\ RequestRetention \in Nat
  /\ ReceiptRetention \in Nat
  /\ MaxInvoices \in Nat
  /\ MaxTime \in Nat

(* "Router verifies payment proofs ...; node validates the receipt": one of
   them at least can tell whether an invoice is paid. *)
ASSUME SomeoneVerifies ==
  /\ RouterVerifies \in BOOLEAN
  /\ NodeVerifies \in BOOLEAN
  /\ RouterVerifies \/ NodeVerifies

VARIABLES
  now,
  invoices,  \* what the provider has made: invoice 1, 2, ...
  requests,  \* service.paymentRequests, by payee
  receipts,  \* service.paymentReceipts, by payee
  offers,    \* the PaymentRequests the client got with a 402
  paid,      \* the invoices the client has paid
  calls,     \* the calls of /infer
  posts,     \* the calls of /payment-receipt
  served     \* the node and the invoice of the receipt, for each inference done

vars == <<now, invoices, requests, receipts, offers, paid, calls, posts, served>>

Times == 0 .. MaxTime
Expiries == 0 .. MaxTime + PaymentWindow
InvoiceIds == 1 .. MaxInvoices

Invoice == [node : Nodes, amount : Amounts, expiresAtMs : Expiries]
Offer == [node : Nodes, amount : Amounts, invoice : InvoiceIds, expiresAtMs : Expiries]
Receipt == [offer : Offer, paidAtMs : Times]

(* at is the time that the handler read before it asked for an invoice;    *)
(* invoice is that of the receipt which goes to the node with the request;  *)
(* attached says that the client sent a receipt for this node along.        *)
CallState ==
  [pc : {"idle", "invoicing", "offered", "at node", "ok", "failed"},
   node : Nodes \cup {NoNode}, amount : Amounts \cup {0}, at : Times,
   invoice : InvoiceIds \cup {0}, attached : BOOLEAN]

PostState ==
  [pc : {"idle", "verifying", "accepted", "refused", "failed"},
   offer : Offer \cup {NoOffer}, at : Times]

TypeOK ==
  /\ now \in Times
  /\ invoices \in Seq(Invoice)
  /\ Len(invoices) <= MaxInvoices
  /\ DOMAIN requests \subseteq Nodes
  /\ requests \in [DOMAIN requests -> Offer]
  /\ DOMAIN receipts \subseteq Nodes
  /\ receipts \in [DOMAIN receipts -> Receipt]
  /\ offers \subseteq Offer
  /\ paid \subseteq InvoiceIds
  /\ calls \in [Calls -> CallState]
  /\ posts \in [Posts -> PostState]
  /\ served \subseteq Nodes \X InvoiceIds

Init ==
  /\ now = 0
  /\ invoices = <<>>
  /\ requests = [n \in {} |-> NoOffer]
  /\ receipts = [n \in {} |-> NoOffer]
  /\ offers = {}
  /\ paid = {}
  /\ calls = [c \in Calls |-> [pc |-> "idle", node |-> NoNode, amount |-> 0, at |-> 0,
                               invoice |-> 0, attached |-> FALSE]]
  /\ posts = [p \in Posts |-> [pc |-> "idle", offer |-> NoOffer, at |-> 0]]
  /\ served = {}

(* Map.set and a Map without some of its keys. *)
Put(f, k, v) == [x \in DOMAIN f \cup {k} |-> IF x = k THEN v ELSE f[x]]
Without(f, S) == [x \in DOMAIN f \ S |-> f[x]]

Tick ==
  /\ now < MaxTime
  /\ now' = now + 1
  /\ UNCHANGED <<invoices, requests, receipts, offers, paid, calls, posts, served>>

-------------------------------------------------------------------------------
(* /infer *)

(* The scheduler picks node n, at whose rates the call costs amount. *)
Infer(c, n, amount) ==
  /\ calls[c].pc = "idle"
  /\ calls' = [calls EXCEPT ![c] =
       [pc |-> IF n \in DOMAIN receipts THEN "at node" ELSE "invoicing",
        node |-> n, amount |-> amount, at |-> now,
        invoice |-> IF n \in DOMAIN receipts THEN receipts[n].offer.invoice ELSE 0,
        attached |-> \E o \in offers : o.node = n /\ o.invoice \in paid]]
  /\ UNCHANGED <<now, invoices, requests, receipts, offers, paid, posts, served>>

OfferWithoutReuse(c, i, expiresAtMs) ==
  [node |-> calls[c].node, amount |-> calls[c].amount, invoice |-> i,
   expiresAtMs |-> expiresAtMs]

(* The offer of a call whose handler got invoice i: the one that was issued
   before, unless that had expired when the handler looked at the clock. *)
OfferFor(c, i, expiresAtMs) ==
  IF /\ calls[c].node \in DOMAIN requests
     /\ requests[calls[c].node].expiresAtMs > calls[c].at
  THEN requests[calls[c].node]
  ELSE [node |-> calls[c].node, amount |-> calls[c].amount, invoice |-> i,
        expiresAtMs |-> expiresAtMs]

(* The 402 with the offer, which the router keeps. *)
SendOffer(c, i, expiresAtMs) ==
  LET offer == OfferFor(c, i, expiresAtMs) IN
  /\ requests' = Put(requests, calls[c].node, offer)
  /\ offers' = offers \cup {offer}
  /\ calls' = [calls EXCEPT ![c].pc = "offered"]
  /\ UNCHANGED <<now, receipts, paid, posts, served>>

(* The provider makes an invoice.  It may leave the expiry to the router. *)
NewInvoice(c) ==
  /\ calls[c].pc = "invoicing"
  /\ Len(invoices) < MaxInvoices
  /\ invoices' = Append(invoices, [node |-> calls[c].node, amount |-> calls[c].amount,
                                   expiresAtMs |-> now + PaymentWindow])
  /\ \E t \in {now, calls[c].at} : SendOffer(c, Len(invoices) + 1, t + PaymentWindow)

SameInvoiceForAnyAmount(c) ==
  /\ calls[c].pc = "invoicing"
  /\ \E i \in DOMAIN invoices :
       /\ invoices[i].node = calls[c].node
       /\ \E t \in {invoices[i].expiresAtMs, calls[c].at + PaymentWindow} : SendOffer(c, i, t)
  /\ UNCHANGED invoices

(* The provider knows the idempotency key, which is made of request, payee
   and amount, and answers with the invoice it made for it. *)
SameInvoice(c) ==
  /\ calls[c].pc = "invoicing"
  /\ \E i \in DOMAIN invoices :
       /\ invoices[i].node = calls[c].node
       /\ invoices[i].amount = calls[c].amount
       /\ \E t \in {invoices[i].expiresAtMs, calls[c].at + PaymentWindow} : SendOffer(c, i, t)
  /\ UNCHANGED invoices

(* The provider fails; the client gets a 502. *)
NoInvoice(c) ==
  /\ calls[c].pc = "invoicing"
  /\ calls' = [calls EXCEPT ![c].pc = "failed"]
  /\ UNCHANGED <<now, invoices, requests, receipts, offers, paid, posts, served>>

(* The node checks the receipt that came with the request, and runs it. *)
NodeRuns(c) ==
  /\ calls[c].pc = "at node"
  /\ NodeVerifies => calls[c].invoice \in paid
  /\ served' = served \cup {<<calls[c].node, calls[c].invoice>>}
  /\ calls' = [calls EXCEPT ![c].pc = "ok"]
  /\ UNCHANGED <<now, invoices, requests, receipts, offers, paid, posts>>

(* The node refuses the receipt or fails: no other node is tried. *)
NodeRefuses(c) ==
  /\ calls[c].pc = "at node"
  /\ calls' = [calls EXCEPT ![c].pc = "failed"]
  /\ UNCHANGED <<now, invoices, requests, receipts, offers, paid, posts, served>>

-------------------------------------------------------------------------------
(* The client, and /payment-receipt *)

(* The client pays over Lightning, as long as the offer has not expired. *)
Pay(o) ==
  /\ o \in offers
  /\ o.expiresAtMs > now
  /\ paid' = paid \cup {o.invoice}
  /\ UNCHANGED <<now, invoices, requests, receipts, offers, calls, posts, served>>

(* Amount, splits and invoice of the receipt are those of the stored offer. *)
Matches(o) ==
  /\ o.node \in DOMAIN requests
  /\ requests[o.node].amount = o.amount
  /\ requests[o.node].invoice = o.invoice

(* The receipt arrives and is compared with the stored offer. *)
Post(p, o) ==
  /\ posts[p].pc = "idle"
  /\ o \in offers
  /\ posts' = [posts EXCEPT ![p] = [pc |-> IF Matches(o) THEN "verifying" ELSE "refused",
                                    offer |-> o, at |-> now]]
  /\ UNCHANGED <<now, invoices, requests, receipts, offers, paid, calls, served>>

VerifiedUnasked(p) ==
  /\ posts[p].pc = "verifying"
  /\ receipts' = Put(receipts, posts[p].offer.node,
                     [offer |-> posts[p].offer, paidAtMs |-> posts[p].at])
  /\ posts' = [posts EXCEPT ![p].pc = "accepted"]
  /\ UNCHANGED <<now, invoices, requests, offers, paid, calls, served>>

(* The verification service answers: the receipt is stored, whatever has
   become of the offer. *)
Verified(p) ==
  /\ posts[p].pc = "verifying"
  /\ RouterVerifies => posts[p].offer.invoice \in paid
  /\ receipts' = Put(receipts, posts[p].offer.node,
                     [offer |-> posts[p].offer, paidAtMs |-> posts[p].at])
  /\ posts' = [posts EXCEPT ![p].pc = "accepted"]
  /\ UNCHANGED <<now, invoices, requests, offers, paid, calls, served>>

Unsettled(p) ==
  /\ posts[p].pc = "verifying"
  /\ RouterVerifies
  /\ posts[p].offer.invoice \notin paid
  /\ posts' = [posts EXCEPT ![p].pc = "refused"]
  /\ UNCHANGED <<now, invoices, requests, receipts, offers, paid, calls, served>>

(* The verification service cannot be reached. *)
VerificationFails(p) ==
  /\ posts[p].pc = "verifying"
  /\ RouterVerifies
  /\ posts' = [posts EXCEPT ![p].pc = "failed"]
  /\ UNCHANGED <<now, invoices, requests, receipts, offers, paid, calls, served>>

(* pruneRouterState *)
Prune ==
  /\ requests' = Without(requests, {n \in DOMAIN requests :
                    requests[n].expiresAtMs < now - RequestRetention})
  /\ receipts' = Without(receipts, {n \in DOMAIN receipts :
                    receipts[n].paidAtMs < now - ReceiptRetention})
  /\ UNCHANGED <<now, invoices, offers, paid, calls, posts, served>>

Next ==
  \/ Tick
  \/ Prune
  \/ \E c \in Calls :
       \/ \E n \in Nodes, amount \in Amounts : Infer(c, n, amount)
       \/ NewInvoice(c) \/ SameInvoice(c) \/ NoInvoice(c)
       \/ NodeRuns(c) \/ NodeRefuses(c)
  \/ \E o \in offers : Pay(o) \/ \E p \in Posts : Post(p, o)
  \/ \E p \in Posts : Verified(p) \/ Unsettled(p) \/ VerificationFails(p)

Spec == Init /\ [][Next]_vars

-------------------------------------------------------------------------------
(* Properties *)

\* A client never holds two live offers for one payee, nor one that the router has
\* forgotten: every offer that has not expired is the one the router compares
\* receipts with, although calls wait for invoices at the same time and look at a
\* clock that is out of date.
LiveOfferIsCurrent ==
  \A o \in offers : o.expiresAtMs > now => o.node \in DOMAIN requests /\ requests[o.node] = o

\* A receipt is refused only if its offer has expired or its invoice is not paid.
PaidInTimeIsNotRefused ==
  [][\A p \in Posts : posts[p].pc # "refused" /\ posts'[p].pc = "refused" =>
       \/ posts'[p].offer.expiresAtMs <= now
       \/ posts'[p].offer.invoice \notin paid]_vars

\* An invoice stands for one node and one amount in all offers and receipts,
\* whichever call asked for it and whichever offer was sent in the end.
InvoicesKeepTheirTerms ==
  /\ \A o \in offers : /\ o.invoice \in DOMAIN invoices
                       /\ o.node = invoices[o.invoice].node
                       /\ o.amount = invoices[o.invoice].amount
  /\ \A n \in DOMAIN receipts : receipts[n].offer \in offers /\ receipts[n].offer.node = n

\* Pay before work: the calls, receipts and checks implement PrepaidInference.
Prepaid == INSTANCE PrepaidInference WITH
  Invoices <- InvoiceIds,
  offered <- {<<o.node, o.invoice>> : o \in offers},
  paid <- {<<o.node, o.invoice>> : o \in {x \in offers : x.invoice \in paid}},
  served <- served

ImplementsPrepaid == Prepaid!Spec

\* "... or include signed receipts in the next inference attempt": a call that
\* brings the receipt of a paid invoice along is not asked to pay again.
AttachedReceiptCounts ==
  \A c \in Calls : calls[c].attached => calls[c].pc # "offered"
===============================================================================
