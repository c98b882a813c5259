\* One file of each kind, one failure, batches of one path.
SPECIFICATION CdnFairSpec
CONSTANTS
  IndexPaths = {"index"}
  DerivedPaths = {"feed"}
  CratePaths = {"crate"}
  BatchSize = 1
  MaxAttempts = 2
  MaxContent = 2
  MaxChanged = 2
  MaxFailures = 1
\* The CDNs come to rest when their bounds are reached.
CHECK_DEADLOCK FALSE
INVARIANTS CdnInv
PROPERTIES StaleIsPurged
