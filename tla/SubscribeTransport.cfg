SPECIFICATION FairSpec
CONSTANTS
  Chunks = 2
  MaxChanges = 1
  MaxFaults = 2
  MaxTokens = 3
  MaxAttempt = 1
INVARIANTS
  OpenIsAccepted
  NoHotLoop
PROPERTIES
  ViewGoesForward
  ConsumerCatchesUp
  SessionFollowsToken
CHECK_DEADLOCK FALSE
