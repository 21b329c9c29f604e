SPECIFICATION Spec
CHECK_DEADLOCK FALSE
CONSTANTS
  r1 = r1
  Slots = {r1}
  Modes = {"autonomous"}
  Acts = {}
  Verdicts = {"passing", "failing"}
  MaxReports = 2
  MaxDeaths = 0
PROPERTY NeverParked
