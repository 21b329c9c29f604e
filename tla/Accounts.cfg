SPECIFICATION Spec
CONSTANTS
  People = {ann, bob}
  Orgs = {home, second}
  Invites = {i1, i2}
  Requests = {q1, q2}
  Founder = ann
  Settled = {bob}
  Home = home
  NoOne = NoOne
  Roles = {"OWNER", "MEMBER"}
  MaxBirths = 2
  MaxRequests = 4
  MaxDeaths = 1
SYMMETRY AccountsSymmetry
INVARIANTS TypeOK NobodyStranded
PROPERTIES LinksKeepTheirWord
CHECK_DEADLOCK FALSE
