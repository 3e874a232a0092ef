SPECIFICATION FileSpec
CONSTANTS
  Nonces = {n1}
  Window = 1
  MaxTime = 2
  CleanupInterval = 1
  MaxCrashes = 1
INVARIANTS
  AcceptedAtMostOnce
