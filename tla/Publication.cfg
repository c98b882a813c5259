\* Publication: two publications, a deletion and an admin tool at a time.  Rate limit:
\* two concurrent requests, an override, three answers, and
\* time for two refills.  Git index: two
\* crates, an edit, an order of an administrator, two processes, a fault.
SPECIFICATION MCSpec
CONSTANTS
  h1 = h1
  h2 = h2
  d1 = d1
  a1 = a1
  w1 = w1
  Names = {"a-b"}
  Canon <- MCCanon
  Reserved = {}
  Nums = {1, 2}
  Publishers = {h1, h2}
  Deleters = {d1}
  Admins = {a1}
  Workers = {w1}
  Day = 1
  FreeAge = 0
  AdminDelays = {1}
  DailyLimit = 1
  MaxNow = 1
  MaxId = 2
  MaxRows = 1
  MaxExcused = 0

  Requests = {h1, h2}
  Rate = 2
  Second = 2
  Burst = 2
  Bursts = {0, 3}
  Ends = {2, 5}
  MaxTime = 4
  MaxAnswers = 3

  IndexCrates = {h1, h2}
  Processes = {h1, h2}
  Batches = {{h1}, {h2}}
  MaxEdits = 2
  MaxDay = 2
  MaxCommits = 4
  MaxOrders = 1
  MaxFaults = 1
SYMMETRY Symmetry
\* The bounds on the clocks end a behaviour.
CHECK_DEADLOCK FALSE
INVARIANTS PublicationInv RateInv GitInv
PROPERTIES NameNotReused RetryAfterHonoured HistoryKept
