CONSTANTS
  job = job
  Peers = {w1, w2}
  Jobs <- MCJobs
  Offloads = {o1, o2}
  JobOf <- MCJobOf
  Prices = {1, 3, 5}
  Outputs = {a, b}
  None = None
  MaxSpend = 3
  MaxOffloads = 1
  MsatPerSat = 2
  AuctionExpiry = 0
  JobRetention = 0
  RequestLifetime = 0
  MaxTime = 1
SPECIFICATION Spec
INVARIANT InFlightWithinCap
CHECK_DEADLOCK FALSE
