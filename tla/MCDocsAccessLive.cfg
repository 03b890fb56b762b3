SPECIFICATION FairSpec
CONSTANTS
  k = k
  gk = gk
  capK = capK
  s1 = s1
  s2 = s2
  Links = {k}
  Personal = {}
  Grants = {gk}
  Subjects = {capK}
  SubjectOf <- MCSubjectOf
  ShareOf <- MCShareOf
  SubjectsOf <- MCSubjectsOf
  Granted = {"edit"}
  StoreFaults = {"query", "create", "delete"}
  Operators = {}
  Nobody = Nobody
  Sockets = {s1}
  NoSocket = NoSocket
  NoteFaults = {"fetch", "scope"}
  MaxRewrites = 1
  MaxChan = 1
  MaxDrops = 2
INVARIANT
  DegradedReadsAreRecent
PROPERTY RevokedSessionsEnd
CHECK_DEADLOCK FALSE
