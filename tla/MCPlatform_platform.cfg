\* Every part, one after the other.
SPECIFICATION Spec
CONSTANTS
  Parts = {"walk", "grades", "streaks", "digest", "backups", "login", "keys", "events", "shelves"}
  Capital = 1000000
  Prices = {90, 95, 120}
  Missing = Missing
  Stops = {5, 10}
  Takes = {20}
  Drift = 5
  WalkDays = 4
  Closes = {100}
  SpyCloses = {100, 103}
  Calls = {"buy", "reduce", "hold"}
  Horizons = {1, 2}
  MinSplit = 2
  SplitPct = {30, 80}
  Rolling = 2
  GradeDays = 3
  MaxFills = 1
  MaxDay = 5
  Trading <- HolidayOn
  Postures = {offensive, normal}
  Updates = {a1, a2}
  MaxInterruptions = 1
  MaxLate = 1
  Procs = {a1, a2}
  NoOne = NoOne
  MaxDate = 3
  Sessions <- DigestSessions
  MaxUpdates = 2
  MaxBoots = 3
  Retention = 3
  Cooldown = 2
  MaxNight = 5
  MaxMishaps = 2
  Ips = {"home", "cafe"}
  Logins = {a1, a2}
  Threshold = 2
  Window = 1
  FetchWindow = 2
  MaxClock = 3
  MaxAttempts = 4
  Passwords = {old, new}
  NoPassword = NoPassword
  MaxKey = 4
  Tickers = {AAPL, NVDA}
  Market = Market
  Syncs = {a1, a2}
  NotRunning = NotRunning
  CatalystDays = 2
  ReleaseDays = {1, 2}
  YamlEvents <- Yaml
  Pastes <- Pasted
  Horizon = 1
  MaxSyncs = 2
  Requests = {a1, a2}
  Symbols = {AAPL}
  Names = {tech, chips}
  Unfiled = Unfiled
  MaxIds = 2
  MaxPerUser = 1
SYMMETRY Alike
INVARIANTS TypeOK Ledger Disciplines PostureOnBaseline StudySamples
  SnapshotsAndStreaksPair StreaksAddUp RebuildRestoresTruth
  DigestAtMostOnce RestorableBackup LockoutHolds PasswordIsLastSet NoDanglingShelf
PROPERTIES GradesFinal SyncKeepsWhatItCouldNotFetch
\* Every bound spent, a part stops.
CHECK_DEADLOCK FALSE
