SPECIFICATION Spec
CONSTANTS
  Sessions = {s1}
  Names = {n1}
  Handlers = {h1}
  MaxStored = 1
  MaxKills = 1
  MaxCrashes = 0
  MayFail = FALSE
INVARIANTS AckedKillIsGone
CHECK_DEADLOCK FALSE
