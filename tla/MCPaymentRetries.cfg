CONSTANTS
  Lifetime = 2
  IdempotencyTtl = 4
  MaxLag = 1
  ClientAttempts = 2
  RouterAttempts = 2
  Nwc = TRUE
  MaxInvoices = 5
  MaxFaults = 3
SPECIFICATION FairSpec
INVARIANTS
  PaysOncePerLifetime
  OneRunPerTry
PROPERTY ServedInTheEnd
CHECK_DEADLOCK FALSE
