SPECIFICATION MCSpec
CONSTANTS
  w1 = w1
  w2 = w2
  MaxJson = 2
  MaxUpload = 2
  MaxUnpack = 7
  MaxNameLength = 2
  MaxFeatures = 3
  MaxDeps = 2
  SplitLimit = 1
  Values = {"d", "1", "-", "_", ".", "?", "/", "dep:"}
  MaxTokens = 4
  MaxEntries = 3

  FeedCrates = {"c", "d"}
  FeedNums = {1, 2}
  FeedPublishers = {"p", "q"}
  FeedWorkers = {w1, w2}
  NumItems <- MCNumItems
  AlwaysIncludeAge <- MCAge
  MaxFeedNow = 1
  MaxFeedJobs = 1
  MaxItems = 5

  ReadmeCrates = {"c"}
  ReadmeNums = {1, 2}
  ReadmeWorkers = {w1, w2}
  PageSize = 1
  MaxReadmeFails = 2
  MaxTools = 1

  ImageNums = {1, 2}
  ImageWorkers = {w1, w2}
  MaxImageRows = 1
  MaxExtras = 1

  MailUsers = {"u1", "u2"}
  MaxMailFails = 2
  MaxMailChanges = 1

  CsvFiles = {"d1", "d2"}
  IndexWorkers = {w1, w2}
  MaxIndexFails = 2

  OldNames <- MCOldNames
  NewNames <- MCNewNames
  AffixWords = {"rs"}
  Resembles <- MCResembles
  NameOwners <- MCNameOwners
  CheckTasks = {w1, w2}
  TopCrates = 1
  MaxNameChanges = 1
  MaxLoadFails = 1
SYMMETRY MCSymmetry
\* Requests and jobs come to an end, and the bounds end the changes.
CHECK_DEADLOCK FALSE
INVARIANTS ManifestInv FeedInv ReadmeInv ImageInv NoticeInv TypoInv ArchiveInv
