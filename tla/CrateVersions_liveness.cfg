\* One request at a time, one worker, a release and a later pre-release.
SPECIFICATION FairSpec
CONSTANTS
  Versions = {1, 2}
  Prerelease = {2}
  Messages = {}
  Jobs = {"default", "index"}
  Handlers = {h1}
  Workers = {w1}
  MaxRows = 2
PROPERTIES DefaultCatchesUp
\* The deletion of the crate may be the last thing to happen.
CHECK_DEADLOCK FALSE
