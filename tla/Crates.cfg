\* Two requests at a time, two workers of the default version job, the index job, a
\* release and a later pre-release; two changes of a setting against a publication; two
\* requests about a followed crate over two pools.
SPECIFICATION MCSpec
CONSTANTS
  Versions = {1, 2}
  Prerelease = {2}
  Messages = {"m"}
  Jobs = {"default", "index"}
  Handlers = {h1, h2}
  Workers = {w1, w2}
  MaxRows = 1

  Patchers = {h1, h2}
  Publishers = {"p"}
  People = {"u"}
  MaxSettingCalls = 2
  MaxPeopleChanges = 1
  MaxSettingErrors = 1

  Calls = {h1, h2}
  PoolSize = 1
  MaxOutages = 1
  MaxFollowCalls = 2
SYMMETRY MCSymmetry
\* Requests and jobs come to an end, and the bounds end the changes.
CHECK_DEADLOCK FALSE
INVARIANTS RowsSound VersionsSettle SettingInv FollowInv
