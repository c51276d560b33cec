SPECIFICATION FairSpec
CONSTANTS
  Sessions = {s1}
  Names = {n1}
  Handlers = {h1}
  MaxStored = 1
  MaxKills = 1
  MaxCrashes = 1
  MayFail = TRUE
INVARIANTS
  RegistryInv
  LastListIsCurrentIfUncrossed
PROPERTIES
  ExitedIsEvicted
CHECK_DEADLOCK FALSE
