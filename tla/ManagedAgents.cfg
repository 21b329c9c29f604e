SPECIFICATION FairAgents
CONSTANTS
  Parts = {"agents"}
  Sessions = {s1}
  MaxConcurrent = 1
  Ttl = 3
  IdleFor = 2
  RenewWithin = 1
  MaxTotal = 5
  LastIssue = 1
  Hosts = {h1}
  Keys = {k1}
  None = None
  MaxEdits = 1
  MaxChanges = 1
  Chunks = 0
  Window = 2
  MaxChecks = 5
  Calls = {c1}
  MaxTurns = 0
  Requests = {r1}
  Flow = Flow
  MaxPairs = 1
  MaxClicks = 3
  MaxCrashes = 2
  MaxFails = 1
  MaxLosses = 1
  MaxDeaths = 1
INVARIANTS StoppedIsGone 
PROPERTIES Settles
CHECK_DEADLOCK FALSE
