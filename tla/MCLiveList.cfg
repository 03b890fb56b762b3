SPECIFICATION Spec
CONSTANTS
  Entries = {e1, e2}
  Handles = {h1, h2, h3}
  NoEntry = NoEntry
  NoHandle = NoHandle
  MaxRev = 1
INVARIANTS
  StreamFollowsConsumers
  AttachedAreCurrent
PROPERTIES
  WindowLeavesWithConsumer
  FanOutsAreSafe
SYMMETRY Symmetry
CHECK_DEADLOCK FALSE
