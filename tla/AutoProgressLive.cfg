SPECIFICATION Spec
CONSTANTS
  r1 = r1
  Slots = {r1}
  Modes = {"auto", "auto_merge"}
  Acts = {"decide"}
  Verdicts = {"passing", "failing"}
  MaxReports = 3
  MaxDeaths = 0
PROPERTY NeverParked
