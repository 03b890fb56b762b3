SPECIFICATION Spec
CONSTANTS
  v1 = v1
  v2 = v2
  st = st
  srv = srv
  None = None
  Names = {a}
  Conns = {c1}
  ReadConns = {}
  Bundles = {v1, v2, st}
  ServerOf <- MCServerOf
  Gated = {srv}
  Tasks = {t1, t2}
  Busy = {a}
  CrashLoopMax = 2
  MaxInflight = 1
  MaxOps = 2
SYMMETRY Interchangeable
INVARIANTS
  ServedShortOfQuarantine
  RoutesMatchDisk
  QuietBackendsAreCurrent
  ManifestIsCurrent
PROPERTY
  QuarantineHolds
CHECK_DEADLOCK FALSE
