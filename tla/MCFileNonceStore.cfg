SPECIFICATION FairFileSpec
CONSTANTS
  Nonces = {n1, n2}
  Window = 1
  MaxTime = 3
  CleanupInterval = 2
  MaxCrashes = 1
PROPERTIES
  PersistedNeverReaccepted
  EventuallyPersisted
