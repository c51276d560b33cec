SPECIFICATION Spec
CONSTANTS
  None = None
  d1 = d1
  d2 = d2
  t1 = t1
  Devices = {d1, d2}
  Conns = {c1, c2}
  Tokens = {t1, t2}
  Scenarios <- AllScenarios
  MaxUnauth = 2
  MaxAttempts = 2
  MaxCodes = 1
  MaxRequests = 2
SYMMETRY Interchangeable
INVARIANTS
  AccessInv
  ForwardersAreTold
  TokenGoesWithDevice
CHECK_DEADLOCK FALSE
