SPECIFICATION Spec
CONSTANTS
  Notes = {n1}
  NoDoc = NoDoc
  NoEntry = NoEntry
  LoadKinds = {"load"}
  Faults = {"hook", "store"}
  Scopes = {"tagged"}
  MaxExternal = 1
  MaxEdits = 2
  MaxOps = 1
  MaxChan = 1
  MaxCrashes = 0
  MaxDrops = 1
INVARIANTS
  TypeOK
  NoBlindOverwrite
  CleanMeansWritten
CHECK_DEADLOCK FALSE
