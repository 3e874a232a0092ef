SPECIFICATION Spec
SYMMETRY Symmetric
CONSTANTS
  Nodes = {n1, n2}
  Requests = {r1, r2}
  HeartbeatInterval = 2
  HeartbeatWindow = 2
  FailureThreshold = 1
  BaseCooldown = 2
  BackoffCap = 2
  CacheTtl = 2
  TopK = 2
  HealthRetention = 4
  CooldownRetention = 2
  NodeRetention = 4
  MaxTime = 6
INVARIANTS
  CooldownMatchesStreak
  CoolingCandidatesPredate
PROPERTIES
  FreshNodesAreCandidates
