SPECIFICATION ChannelSpec
CONSTANTS
  Agents = {a1, a2}
  NVaults = 2
  Named = {2}
  Tails = {6}
  Refusals = {"denied"}
  MaxTurns = 2
  MaxAttach = 1
  MaxDeletes = 1
INVARIANTS
  TurnsLandOnce
  NobodyLosesTheRace
  ReadsReachTheEnd
SYMMETRY Symmetry
CHECK_DEADLOCK FALSE
