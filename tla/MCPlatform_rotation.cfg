\* The encryption key is rotated while a Schwab connection is stored.
SPECIFICATION Spec
CONSTANTS
  Parts = {"keys"}
  Capital = 1000000
  Prices = {90, 95, 120}
  Missing = Missing
  Stops = {5, 10}
  Takes = {20}
  Drift = 5
  WalkDays = 4
  Closes = {100, 103}
  SpyCloses = {100, 103}
  Calls = {"buy", "reduce", "hold"}
  Horizons = {1, 2}
  MinSplit = 2
  SplitPct = {30, 60, 80}
  Rolling = 2
  GradeDays = 3
  MaxFills = 1
  MaxDay = 5
  Trading <- HolidayOn
  Postures = {offensive, normal}
  Updates = {u1, u2}
  MaxInterruptions = 1
  MaxLate = 1
  Procs = {p1, p2}
  NoOne = NoOne
  MaxDate = 3
  Sessions <- DigestSessions
  MaxUpdates = 3
  MaxBoots = 3
  Retention = 3
  Cooldown = 2
  MaxNight = 6
  MaxMishaps = 2
  Ips = {"home", "cafe"}
  Logins = {r1, r2}
  Threshold = 2
  Window = 1
  FetchWindow = 2
  MaxClock = 3
  MaxAttempts = 5
  Passwords = {old, new}
  NoPassword = NoPassword
  MaxKey = 4
  Tickers = {AAPL, NVDA}
  Market = Market
  Syncs = {s1, s2}
  NotRunning = NotRunning
  CatalystDays = 2
  ReleaseDays = {1, 2}
  YamlEvents <- Yaml
  Pastes <- Pasted
  Horizon = 1
  MaxSyncs = 2
  Requests = {r1, r2}
  Symbols = {AAPL}
  Names = {tech, chips}
  Unfiled = Unfiled
  MaxIds = 2
  MaxPerUser = 1
PROPERTIES RotationCoversRow
\* Every bound spent, a part stops.
CHECK_DEADLOCK FALSE
