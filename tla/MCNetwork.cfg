CONSTANTS
  Messages = {m1, m2, m3}
  Names = {"greet", "watch"}
  Files <- FourFiles
  Items = {"toy"}
  Environments = 2
  MaxTimers = 2
  MaxReloads = 2
  MaxDeeds = 3
  Thinkers = {"quick", "slow"}
  Daily = {"noon"}
  Interval <- Often
  Day = 3
  Hour <- AtTwo
  MinTicks = 1
  Listings <- EitherKind
  MaxClock = 6
  MaxLoads = 2
  Ports = {"game"}
  Players = {"knight", "druid"}
  Privileged = {"druid"}
  MaxCommands = 2
  MaxErrors = 1
  MaxRestarts = 2
  RestartOnSuccess = FALSE
  MaxSignals = 2
  MaxStarts = 3
  Window = 5
  Rapid = 1
  Limit = 5
  BlockTime = 3
  Penalty = 1
  StatusTimeout = 4
  Trusted = FALSE
  MaxBlock = 4
  Immune = {"druid"}
  MaxBans = 2
  MaxWrites = 1
  MaxJobs = 3
  MaxLogins = 1
  DayLength = 2
  Granted = 2
  Most = 6
  Amounts = {1, 2}
  MaxSince = 6
  MaxGifts = 2
  PacketKinds = {"leave", "logout", "autoWalk", "useItem", "debugAssert"}
  Expiration = 1
  MaxPackets = 2
  MaxTicks = 2
  Watchers = {"knight", "druid", "sage"}
  AccountOf <- TwoAndOne
  Accessing = {"sage"}
  Special = {"sage"}
  Limits = {1, 2}
  MaxRequests = 2
SPECIFICATION MCSpec
INVARIANTS
  OneWriteAtATime
  InOrder
  Attentive
  GracefulCloseFlushes
  EntriesAreSound
  ViewIsSound
  ScriptsAreSound
PROPERTIES
  ConnectionsEnd
CHECK_DEADLOCK FALSE
