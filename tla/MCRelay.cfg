SPECIFICATION Spec
CONSTANTS
  d1 = d1  d2 = d2  d3 = d3  k1 = k1  k2 = k2  k3 = k3  n1 = n1
  t1 = t1  t2 = t2  c1 = c1  c2 = c2
  None = None
  Slots = {r1, r2}
  Daemons = {d1, d2, d3}
  Keys = {k1, k2, k3}
  Tokens = {t1, t2}
  Codes = {c1, c2}
  Nonces = {n1}
  Scenarios <- AllScenarios
  MaxClock = 4
  MaxPubs = 2
  Skew = 1
  PruneInterval = 1
  TokenTTL = 2
  Retention = 3
  Timeout = 1
  CodeTTL = 1
  MaxDaemons = 2
  MaxTokens = 1
INVARIANTS
  WithinBounds
  NoReplay
  AckedIsKept
  SpentCodesAreGone
PROPERTIES
  KeyHandoverIfNotReturned
SYMMETRY Interchangeable
CHECK_DEADLOCK FALSE
