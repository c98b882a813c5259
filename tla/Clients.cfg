\* Two callers of each client, two runs of each job; one message of the CDN's queue at a
\* time, with log files good and bad, and one row per batch of UpdateDownloads.
SPECIFICATION MCSpec
CONSTANTS
  AppCallers = {h1, h2}
  RefreshMargin = 1
  TokenLife = 3
  MaxAppNow = 4
  MaxInstalls = 3

  ApiSecrets = {"a"}
  PubSecrets = {"t"}
  Reports = {h1, h2}
  KeyLifetime = 1
  MaxFetchTicks = 1
  MaxScanNow = 2
  MaxKeys = 2
  MaxReports = 2

  Versions = {"v1", "v2"}
  Crates = {"c1", "c2"}
  CrateOf <- MCCrateOf
  Logs = {"l1", "l2", "index", "bad", "odd"}
  Extension <- MCExtension
  Format <- MCFormat
  Lines <- MCLines
  Ignored = {"index"}
  Messages = {"m1", "m2", "m3"}
  Records <- MCRecords
  QueueRuns = {"q1"}
  LogWorkers = {h1, h2}
  Updaters = {u1, u2}
  Archivers = {a1, a2}
  MaxMessages = 1
  MaxBatch = 1
  BatchSize = 1
  KeepMarks = 0
  MaxDay = 2
  MaxTrouble = 2
SYMMETRY MCSymmetry
\* Requests and jobs come to an end, and the bounds end the changes.
CHECK_DEADLOCK FALSE
INVARIANTS AppInv ScanInv DownloadsInv
