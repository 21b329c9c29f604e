SPECIFICATION Spec
CONSTANTS
  t1 = t1
  t2 = t2
  h1 = h1
  a1 = a1
  a2 = a2
  Tasks = {t1}
  Humans = {h1}
  Agents = {a1}
  NoOne = NoOne
  NoTask = NoTask
  Keep = Keep
  Filings <- MCFilings
  Requests <- MCPatches
  Archivals = {TRUE, FALSE}
  Modes = {"manual", "autonomous"}
  SweepBatch = 1
  MaxInFlight = 1
  MaxAborts = 1
PROPERTY DeadClaimReleased
