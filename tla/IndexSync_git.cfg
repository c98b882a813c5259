\* The git index job: one worker, two handlers, two changes, fair scheduling.
SPECIFICATION SyncFairSpec
CONSTANTS
  w1 = w1
  c1 = c1
  c2 = c2
  git = git
  sparse = sparse
  Nobody = Nobody
  Workers = {w1}
  Clients = {c1, c2}
  Kinds = {git}
  Deduplicated = {git}
  Registered <- MCRegistered
  Priority <- MCPriority
  Healthy = {git}
  SyncToGitIndex = git
  SyncToSparseIndex = sparse
  GitWorker = w1
  MaxId = 2
  MaxRetries = 0
  MaxRun = 0
  AgeCap = 2
  MaxChanges = 2
  ShutdownWhenQueueEmpty = FALSE
INVARIANTS SyncInv
PROPERTIES GitIndexIsCopy GitIndexCatchesUp
