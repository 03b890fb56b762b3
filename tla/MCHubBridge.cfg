SPECIFICATION Spec
CONSTANTS
  Callers = {k1, k2, k3, k4}
  MaxClients = 4
  MaxForgets = 2
  MaxOutages = 1
INVARIANTS
  CallsRunOnce
  NoForgottenClient
  LoneCallsSucceed
SYMMETRY Symmetry
CHECK_DEADLOCK FALSE
