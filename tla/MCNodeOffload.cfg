CONSTANTS
  a = a
  b = b
  Nodes = {a, b}
  Router = Router
  None = None
  Configurations <- MCConfigurations
  Capacity <- MCCapacity
  Latency <- MCLatency
  RequirePayment = {b}
  Timed = {a}
  Streaming = {a}
  MaxCalls = 6
  MaxEnvelopes = 4
  MaxArrivals = 2
  MaxLosses = 1
SPECIFICATION FairSpec
INVARIANTS
  SlotsAreHeld
  WorkOnce
  StreamKeepsItsNode
PROPERTY EveryCallReturns
CHECK_DEADLOCK FALSE
