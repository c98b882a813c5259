\* Two removals at a time.
SPECIFICATION Spec
CONSTANTS
  NoUser = NoUser
  Users = {u1, u2}
  Teams = {t1}
  Creator = u1
  Handlers = {h1, h2}
  MaxInvites = 2
INVARIANTS IndividualOwnerRequired
\* The deletion of the crate may be the last thing to happen.
CHECK_DEADLOCK FALSE
