SPECIFICATION FairSpec
CONSTANTS
  Parts = {"shells", "checks", "transfer", "attachments", "research", "mobile"}
  Sessions = {s1}
  MaxConcurrent = 1
  Ttl = 3
  IdleFor = 2
  RenewWithin = 1
  MaxTotal = 5
  LastIssue = 1
  Hosts = {h1, h2}
  Keys = {k1, k2}
  None = None
  MaxEdits = 1
  MaxChanges = 1
  Chunks = 4
  Window = 2
  MaxChecks = 5
  Calls = {c1, c2}
  MaxTurns = 4
  Requests = {r1, r2}
  Flow = Flow
  MaxPairs = 2
  MaxClicks = 0
  MaxCrashes = 0
  MaxFails = 0
  MaxLosses = 0
  MaxDeaths = 1
INVARIANTS TypeOK ForgottenEnds  StoreMatchesRow  NeverSpentTwice
PROPERTIES  ComesToAnEnd SaysTheTruth
CHECK_DEADLOCK FALSE
