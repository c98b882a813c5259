\* One worker, a deduplicated kind of the higher priority whose jobs may fail for ever, and another kind.
SPECIFICATION FairSpec
CONSTANTS
  w1 = w1
  w2 = w2
  c1 = c1
  c2 = c2
  sync = sync
  mail = mail
  Nobody = Nobody
  Workers = {w1}
  Clients = {c1}
  Kinds = {sync, mail}
  Deduplicated = {sync}
  Registered <- MCRegistered
  Priority <- MCPriority
  Healthy = {mail}
  MaxId = 2
  MaxRetries = 1
  MaxRun = 1
  AgeCap = 3
  ShutdownWhenQueueEmpty = FALSE
PROPERTIES ChangesAreSeen
