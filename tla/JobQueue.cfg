\* Two workers that stop when their queue is empty, two enqueuing transactions, a
\* deduplicated kind.
SPECIFICATION Spec
CONSTANTS
  w1 = w1
  w2 = w2
  c1 = c1
  c2 = c2
  sync = sync
  mail = mail
  Nobody = Nobody
  Workers = {w1, w2}
  Clients = {c1, c2}
  Kinds = {sync}
  Deduplicated = {sync}
  Registered <- MCRegistered
  Priority <- MCPriority
  Healthy = {sync}
  MaxId = 2
  MaxRetries = 1
  MaxRun = 0
  AgeCap = 3
  ShutdownWhenQueueEmpty = TRUE
INVARIANTS QueueInv
PROPERTIES OnlySuccessRemoves DrainedOnShutdown
