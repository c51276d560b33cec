SPECIFICATION ClientsSpec
CONSTANTS
  \* MobileCore
  Daemons = {d1, d2}
  Calls = {c1, c2}
  Attempts = {a1}
  MaxCalls = 4
  MaxBroken = 1
  NoDaemon = NoDaemon
  NoCall = NoCall
  NoAttempt = NoAttempt
  \* MobileStreams
  PingInterval = 3
  ReadTimeout = 8
  MaxDelay = 4
  MaxLists = 1
  Readers = {r1, r2}
  FirstSeq = 2
  MaxSeq = 4
  MaxWrites = 3
  NoReader = NoReader
  \* CliTerminal
  MaxTyped = 5
  \* CliCommands
  Cmds = {k1, k2}
  Names = {n1, n2}
  AutoNames = {n2, n3, n4}
  MaxSessions = 3
  PrefixIds = {1, 2}
  Nothing = Nothing
  \* Wire
  HeaderLen = 2
  MAX_FRAME_LEN = 2
  Lengths = {0, 2, 3}
  Handler = handler
  Forwarder = forwarder
  MaxMessages = 2
INVARIANTS
  MobileInv
  StreamsInv
  TerminalInv
  CommandsInv
  WireInv
PROPERTIES
  DeadDaemonIsNoticed
  CommandsFinish
  FramesArrive
CHECK_DEADLOCK FALSE
