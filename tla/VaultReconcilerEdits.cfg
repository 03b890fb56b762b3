SPECIFICATION Spec
CONSTANTS
  Notes = {n1}
  NoDoc = NoDoc
  NoEntry = NoEntry
  LoadKinds = {"load", "adopt"}
  Faults = {"fetch", "lostAck"}
  Scopes = {"tagged", "gone"}
  MaxExternal = 1
  MaxEdits = 2
  MaxOps = 1
  MaxChan = 1
  MaxCrashes = 1
  MaxDrops = 0
INVARIANTS
  WorkIsScheduled
  NoSilentLoss
PROPERTY
  ReseedsGoForward
CHECK_DEADLOCK FALSE
