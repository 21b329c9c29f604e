SPECIFICATION Spec
CONSTANTS
  r1 = r1
  Slots = {r1}
  Modes = {"auto", "autonomous"}
  Acts = {"decide", "assume", "clear", "merge", "sync", "resume", "mode", "close", "land"}
  Verdicts = {"pending", "passing", "failing"}
  MaxReports = 1
  MaxDeaths = 1
 
PROPERTIES DoneMeansMerged MachineMovesForward
