SPECIFICATION Spec
CONSTANTS
  None = None
  Clients = {c1, c2}
  Sizes <- AllSizes
  SpawnSize <- Full
  Scenarios <- AllScenarios
  IdleAfter = 1
  BuildMin = 2
  QueueCapacity = 1
  MaxReads = 2
INVARIANTS
  SessionControlInv
  ViewportIfUncrossed
PROPERTIES
  InputReachesChild
  SilenceBecomesIdle
CHECK_DEADLOCK FALSE
