\* Lists of up to four rows in pages of one or two, one change while the client
\* walks; a crate of three versions and two changes; two crates, two changes, two dumps.
SPECIFICATION MCSpec
CONSTANTS
  RowIds = {1, 2, 3, 4}
  Kinds = {"name", "new", "recent-updates", "recent-downloads", "downloads", "query", "relevance", "semver", "date", "id", "invitation", "counts", "followed", "reverse"}
  ParamSets = {{"keyword"}, {"all_keywords", "keyword"}, {"letter", "user_id"}, {"user_id", "team_id"}, {"team_id", "following"}, {"following", "ids"}, {"category", "ids"}}
  PerPage = {1, 2}
  MaxPage = 3
  MaxChanges = 1

  VersionIds = {1, 2, 3}
  Latest = 1
  MaxWrites = 2

  DumpUsers = {"u1", "u2"}
  DumpTeams = {"t"}
  DumpCrates = {"c1", "c2"}
  DumpWorkers = {w1, w2}
  MaxDbWrites = 2
  MaxDumps = 2
\* A client stops after its last page, and the bounds end the changes.
CHECK_DEADLOCK FALSE
SYMMETRY MCSymmetry
INVARIANTS ListInv ViewInv DumpInv
