SPECIFICATION MCSpec
CONSTANTS
  Browsers = {"b1", "b2"}
  People = {"p1"}
  Logins = {h1, h2}
  MaxStates = 2

  Accounts = {"u1", "u2"}
  Addresses = {"a1", "a2"}
  Profile <- MCProfile
  Updates = {h1, h2}
  MaxSecret = 3

  Holders = {"u1", "u2"}
  Reachable = {"u1"}
  Expiries <- MCExpiries
  Scopes <- MCScopes
  Makers = {"r1"}
  MaxPerUser = 1
  Threshold = 3
  Notifiers = {h1, h2}
  MaxRows = 1
  MaxTokenId = 2
  MaxClock = 1
  MaxLosses = 1

  Team = {"p", "q"}
  Syncs = {h1, h2}
  MaxChanges = 2

  Crates = {"c1"}
  Jwts = {"lab1", "lab2", "hub"}
  Claims <- MCClaims
  Lower <- MCLower
  Offers <- MCOffers
  Keys <- MCKeys
  Exchanges = {h1, h2}
  Creators = {"k1"}
  MaxConfigs = 1
  Leeway = 1
  TokenLife = 1
  MinAge = 1
  RequestTime = 1
  MaxConfigId = 2
  MaxToken = 2
  MaxNow = 2

  u1 = u1
  u2 = u2
  t1 = t1
  NoUser = NoUser
  Users = {u1, u2}
  Teams = {t1}
  Creator = u1
  Handlers = {h1, h2}
  MaxInvites = 2
SYMMETRY MCSymmetry
\* Bounds, and the deletion of the crate, may be the last thing to happen.
CHECK_DEADLOCK FALSE
INVARIANTS SessionsInv MailInv TokensInv AdminsInv TrustpubInv OwnershipInv
PROPERTIES ExchangedOnce
