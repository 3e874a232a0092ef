SPECIFICATION Spec
SYMMETRY NonceSymmetry
CONSTANTS
  Nonces = {n1, n2, n3}
  Window = 2
  MaxTime = 5
INVARIANTS
  AcceptedAtMostOnce
PROPERTIES
  ImplementsReplayProtection
