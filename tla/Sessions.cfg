SPECIFICATION Spec
CONSTANTS
  Devices = {phone}
  Requests = {q1, q2}
  PerSecond = 2
  Max = 2
  Grace = 1
  AccessTtl = 1
  MaxTokens = 3
  MaxNow = 5
  MaxLogouts = 1
  Lag = 1
SYMMETRY SessionsSymmetry
INVARIANTS TypeOK NobodyStranded 
PROPERTIES LogoutEndsAll
CHECK_DEADLOCK FALSE
