SPECIFICATION Spec
CONSTANTS
  Tabs = {t1, t2}
  Callers = {k1, k2}
  WebLocks = TRUE
  Features = {"login", "logout", "condemn", "revoke", "refused", "reload"}
  NoTab = NoTab
  MaxCalls = 2
  MaxLogins = 2
  MaxExpiries = 1
  MaxOrphans = 1
INVARIANTS
  NeverReplayed
  StoredPairIsUsable
  WaitersAreServed
SYMMETRY Symmetry
CHECK_DEADLOCK FALSE
