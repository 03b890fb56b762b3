SPECIFICATION Spec
CONSTANTS
  k = k
  gk = gk
  capK = capK
  s1 = s1
  s2 = s2
  Links = {k}
  Personal = {k}
  Grants = {gk}
  Subjects = {capK}
  SubjectOf <- MCSubjectOf
  ShareOf <- MCShareOf
  SubjectsOf <- MCSubjectsOf
  Granted = {"view", "edit"}
  StoreFaults = {}
  Operators = {"operator"}
  Nobody = Nobody
  Sockets = {s1, s2}
  NoSocket = NoSocket
  NoteFaults = {}
  MaxRewrites = 1
  MaxChan = 1
  MaxDrops = 0
SYMMETRY SocketSymmetry
INVARIANTS
  LiveCacheIsExact
  SettledSessionsAreEntitled
CHECK_DEADLOCK FALSE
