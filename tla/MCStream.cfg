SPECIFICATION FairSpec
CONSTANTS
  Clients = {c1}
  Capacity = 1
  MaxSeq = 100
  MaxChunk = 2
  MaxBytes = 3
  QueueCapacity = 1
  WireCapacity = 1
  MaxNotes = 1
  MaxAttaches = 2
  ParserMayPanic = FALSE
INVARIANTS
  ScreenExact
  AttachReplyFirst
  LagIsTerminal
  ExitComesOnceAndLast
PROPERTIES
  ImplementsByteStream
  ExitIsLearned
  CatchesUp
CHECK_DEADLOCK FALSE
