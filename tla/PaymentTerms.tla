----------------------------- MODULE PaymentTerms -----------------------------
(* Amounts, fees and splits of a payment: what the router offers                 *)
(* (payments/utils.ts and the 402 of /infer), the receipt that the client library *)
(* makes of it, and the three places that judge a receipt: the router's           *)
(* /payment-receipt, the node before it works, the client library. Also who       *)
(* counts an offer as unpaid: reconcile.ts and the library's reconciliation.      *)
(*                                                                              *)
(* A fee policy is [enabled, split, bps, flat, min, max], a node's limit is        *)
(* [maxSats, maxBps]; Unset stands for undefined. A split is                       *)
(* [type, id, amount, role]; a request or receipt is                               *)
(* [request, type, payee, amount, splits, invoice].                                *)
EXTENDS Integers, SequencesExt, StableSort

CONSTANTS NoInvoice, NoRole

Unset == -1

Lesser(a, b)  == IF a < b THEN a ELSE b
Greater(a, b) == IF a > b THEN a ELSE b
RoundDiv(a, b) == (2 * a + b) \div (2 * b)

-----------------------------------------------------------------------------
(* The offer                                                                  *)

Bounded(fee, policy) ==
  LET least == IF policy.min = Unset THEN fee ELSE Greater(policy.min, fee)
  IN  IF policy.max = Unset THEN least ELSE Lesser(policy.max, least)

\* A variant, for a mutant: parts of a sat are always the router's.
RouterFeeSatsUp(amount, policy) ==
  IF ~ policy.enabled \/ ~ policy.split THEN 0
  ELSE Greater(0, Bounded((amount * policy.bps + 9999) \div 10000 + policy.flat, policy))

RouterFeeSats(amount, policy) ==
  IF ~ policy.enabled \/ ~ policy.split THEN 0
  ELSE Greater(0, Bounded(RoundDiv(amount * policy.bps, 10000) + policy.flat, policy))

Splits(node, router, nodeAmount, fee) ==
  IF fee = 0 THEN <<>>
  ELSE << [type |-> "node",   id |-> node,   amount |-> nodeAmount, role |-> "node-inference"],
          [type |-> "router", id |-> router, amount |-> fee,        role |-> "router-fee"] >>

(* The node's part is at least one sat; the invoice is over both parts.           *)
Offer(request, node, router, nodeTotal, policy, invoice) ==
  LET nodeAmount == Greater(1, nodeTotal)
      fee        == RouterFeeSats(nodeAmount, policy)
  IN  [request |-> request, type |-> "node", payee |-> node, amount |-> nodeAmount + fee,
       splits |-> Splits(node, router, nodeAmount, fee), invoice |-> invoice]

(* createPaymentReceipt without overrides: the terms of the request.              *)
CreatePaymentReceipt(offer) ==
  [request |-> offer.request, type |-> offer.type, payee |-> offer.payee,
   amount |-> offer.amount, splits |-> offer.splits, invoice |-> offer.invoice]

-----------------------------------------------------------------------------
(* Splits                                                                     *)

SumAt(splits, I) == MapThenSumSet(LAMBDA i : splits[i].amount, I)
SumSplits(splits) == SumAt(splits, DOMAIN splits)
AmountOf(type, splits) == SumAt(splits, {i \in DOMAIN splits : splits[i].type = type})

(* The sort key names the type, the payee, the amount and the role, "" for none;   *)
(* numbers come in their own order here, as only equal keys make a difference.      *)
SortsBefore(a, b) ==
  LET Type(s) == IF s.type = "node" THEN 0 ELSE 1
      Role(s) == CASE s.role = NoRole -> 0
                   [] s.role = "node-inference" -> 1
                   [] s.role = "other" -> 2
                   [] s.role = "router-fee" -> 3
  IN  \/ Type(a) < Type(b)
      \/ Type(a) = Type(b) /\ a.id < b.id
      \/ Type(a) = Type(b) /\ a.id = b.id /\ a.amount < b.amount
      \/ Type(a) = Type(b) /\ a.id = b.id /\ a.amount = b.amount /\ Role(a) < Role(b)

NormalizeSplits(splits) == SortedAt(splits, DOMAIN splits, SortsBefore)

SplitsMatch(expected, actual) ==
  /\ Len(actual) = Len(expected)
  /\ NormalizeSplits(expected) = NormalizeSplits(actual)

-----------------------------------------------------------------------------
(* Judging a receipt                                                          *)

InvoicesAgree(offer, receipt) ==
  offer.invoice = NoInvoice \/ receipt.invoice = NoInvoice \/ offer.invoice = receipt.invoice

(* /payment-receipt up to the verification: the request is looked up by its id and *)
(* payee, then compared.                                                          *)
RouterAccepts(offer, receipt) ==
  /\ receipt.request = offer.request
  /\ receipt.type = offer.type /\ receipt.payee = offer.payee
  /\ receipt.amount = offer.amount
  /\ SplitsMatch(offer.splits, receipt.splits)
  /\ receipt.splits = <<>> \/ SumSplits(receipt.splits) = receipt.amount
  /\ InvoicesAgree(offer, receipt)

(* paymentReceiptMatchesRequest of the client library.                            *)
SdkMatches(receipt, offer) ==
  /\ receipt.request = offer.request
  /\ receipt.type = offer.type /\ receipt.payee = offer.payee
  /\ receipt.amount = offer.amount
  /\ InvoicesAgree(offer, receipt)
  /\ SumSplits(offer.splits) = SumSplits(receipt.splits)

FeeWithinLimit(receipt, limit) ==
  LET fee        == AmountOf("router", receipt.splits)
      nodeAmount == AmountOf("node", receipt.splits)
      base       == IF nodeAmount = 0 THEN receipt.amount ELSE nodeAmount
  IN  /\ limit.maxSats = Unset \/ fee <= limit.maxSats
      /\ limit.maxBps = Unset \/ fee <= (base * limit.maxBps) \div 10000

(* The node's checks of the receipt in a request, up to its signature.            *)
NodeAccepts(node, request, receipt, limit) ==
  /\ receipt.type = "node" /\ receipt.payee = node
  /\ receipt.amount >= 1
  /\ receipt.request = request
  /\ receipt.splits # <<>> =>
       SumSplits(receipt.splits) = receipt.amount /\ FeeWithinLimit(receipt, limit)

-----------------------------------------------------------------------------
(* Unpaid offers: expiry by key, and the keys with a receipt                      *)

RouterMissing(expires, paid, now, grace) ==
  {k \in DOMAIN expires : expires[k] + Greater(0, grace) < now /\ k \notin paid}

SdkExpired(expires, paid, now) ==
  {k \in DOMAIN expires : k \notin paid /\ expires[k] <= now}

-----------------------------------------------------------------------------
(* References                                                                 *)

(* The same splits in another order.                                            *)
Reordered(a, b) ==
  /\ Len(a) = Len(b)
  /\ \A s \in ToSet(a) \cup ToSet(b) :
       Cardinality({i \in DOMAIN a : a[i] = s}) = Cardinality({i \in DOMAIN b : b[i] = s})

(* The limit leaves half a sat above the rate, for the rounding of the fee.        *)
LeavesRoom(policy, limit, nodeAmount) ==
  /\ limit.maxSats = Unset \/ (policy.max # Unset /\ policy.max <= limit.maxSats)
  /\ \/ limit.maxBps = Unset
     \/ /\ policy.flat = 0 /\ policy.min = Unset
        /\ nodeAmount * policy.bps + 5000 <= nodeAmount * limit.maxBps
=============================================================================
