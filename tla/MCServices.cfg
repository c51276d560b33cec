SPECIFICATION ServicesSpec
CONSTANTS
  \* PushDispatcher
  None = None
  phone = phone
  tablet = tablet
  old = old
  new = new
  other = other
  Devices = {phone, tablet}
  TokensOf <- TwoPhones
  MinDelay = 1
  MaxDelay = 2
  Budget = 3
  MaxCommands = 3
  MaxCrashes = 1
  MayForget = TRUE
  \* PushProviders
  Sends = {s1, s2}
  RefreshSkew = 2
  MinUsable = 1
  Lifetimes = {0, 1, 4}
  JwtTtl = 2
  JwtLimit = 4
  MaxTime = 6
  \* DaemonStartup
  Procs = {p1, p2, p3}
  Callers = {k1, k2}
  Installers = {k2}
  Interactive = {k1}
  MaxStops = 1
  MaxToggles = 1
  Nobody = Nobody
INVARIANTS
  PushInv
  ProvidersInv
  StartupInv
PROPERTIES
  DeliveriesEnd
  CommandsEnd
CHECK_DEADLOCK FALSE
