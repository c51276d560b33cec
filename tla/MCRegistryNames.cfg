SPECIFICATION Spec
CONSTANTS
  Sessions = {s1, s2, s3}
  Names = {n1}
  Handlers = {h1, h2}
  MaxStored = 1
  MaxKills = 1
  MaxCrashes = 0
  MayFail = FALSE
INVARIANTS NamesAreUnique
SYMMETRY Interchangeable
VIEW WithoutDatabase
CHECK_DEADLOCK FALSE
