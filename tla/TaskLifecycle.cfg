SPECIFICATION Spec
CONSTANTS
  t1 = t1
  t2 = t2
  h1 = h1
  a1 = a1
  a2 = a2
  Tasks = {t1}
  Humans = {h1}
  Agents = {a1, a2}
  NoOne = NoOne
  NoTask = NoTask
  Keep = Keep
  Filings <- MCPlainFiling
  Archivals = {FALSE}
  Requests <- MCLinks
  Modes = {"manual"}
  SweepBatch = 1
  MaxInFlight = 2
  MaxAborts = 0
INVARIANTS QueuedIsUnclaimed ClaimedOnce 
SYMMETRY AgentSymmetry
 
