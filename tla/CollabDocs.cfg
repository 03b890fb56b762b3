SPECIFICATION FairCollabSpec
CONSTANTS
  Notes = {"n1"}
  NoDoc = NoDoc
  NoEntry = NoEntry
  LoadKinds = {"adopt"}
  Faults = {"fetch", "write"}
  Scopes = {"tagged"}
  MaxExternal = 1
  MaxEdits = 1
  MaxOps = 2
  MaxChan = 1
  MaxCrashes = 0
  MaxDrops = 1
  MaxConns = 2
INVARIANTS
  ServedDocsAreAdopted
PROPERTIES
  EditsSettle
  KeepsPromise
  LeftDocsAreReleased
CHECK_DEADLOCK FALSE
