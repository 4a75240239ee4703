SPECIFICATION Spec
CONSTANTS
  KeyIds = {1, 2, 3, 4, 5}
  AlgorithmOf <- OneAndOther
  Scenarios <- Twice
INVARIANT NeverBogus
