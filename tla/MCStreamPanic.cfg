SPECIFICATION Spec
CONSTANTS
  Clients = {c1}
  Capacity = 2
  MaxSeq = 3
  MaxChunk = 3
  MaxBytes = 4
  QueueCapacity = 1
  WireCapacity = 2
  MaxNotes = 0
  MaxAttaches = 1
  ParserMayPanic = TRUE
INVARIANTS
  OffsetsContiguous
  WindowIsSuffix
  ReplayIsExact
CHECK_DEADLOCK FALSE
