SPECIFICATION Spec
CONSTANTS
  Sessions = {s1, s2}
  Names = {n1, n2}
  Handlers = {h1}
  MaxStored = 1
  MaxKills = 1
  MaxCrashes = 0
  MayFail = TRUE
INVARIANTS
  RegistryInv
  UniqueNamesUnlessFreed
SYMMETRY Interchangeable
VIEW WithoutDatabase
CHECK_DEADLOCK FALSE
