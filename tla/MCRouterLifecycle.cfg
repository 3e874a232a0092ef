CONSTANTS
  client = client
  job = job
  node = node
  stake = stake
  alice = alice
  None = None
  ClientKeys <- ClientKeysDef
  FederationKeys <- FederationKeysDef
  Nodes <- NodesDef
  Stakes <- StakesDef
  Owners <- OwnersDef
  Lifetime = 1
  Grace = 0
  RequestRetention = 1
  ReceiptRetention = 2
  NodeRetention = 1
  MaxTime = 4
  MaxRecords = 2
  MaxCrashes = 2
  MaxFailures = 1
SPECIFICATION FairSpec
INVARIANTS AnsweredRowsAreKept PaidIsNeverMissing ClaimedOnce
PROPERTIES FileMovesForward StateIsSaved
CHECK_DEADLOCK FALSE
