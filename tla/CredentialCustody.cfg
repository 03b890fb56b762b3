SPECIFICATION FairSpec
CONSTANTS
  NConns = 2
  MaxTokens = 3
  Sweeps = {s1, s2}
INVARIANTS
  RefusedRests
PROPERTIES
  DoomedIsNoticed
  DueIsRenewed
CHECK_DEADLOCK FALSE
