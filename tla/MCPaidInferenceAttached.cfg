CONSTANTS
  Nodes = {n1, n2}
  Amounts = {1, 2}
  Calls = {c1, c2, c3}
  Posts = {p1}
  NoNode = NoNode
  NoOffer = NoOffer
  PaymentWindow = 1
  RequestRetention = 0
  ReceiptRetention = 1
  RouterVerifies = TRUE
  NodeVerifies = FALSE
  MaxInvoices = 2
  MaxTime = 2
SPECIFICATION Spec
SYMMETRY Symmetry
INVARIANT AttachedReceiptCounts
CHECK_DEADLOCK FALSE
