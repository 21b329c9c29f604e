SPECIFICATION Spec
CONSTANTS
  t1 = t1
  t2 = t2
  t3 = t3
  e1 = e1
  e2 = e2
  Tasks = {t1, t2, t3}
  NoTask = NoTask
  Blank = {t3}
  Editors = {e1, e2}
  Adders = {e1}
  Mortals = {e2}
  Moves <- MCMoves
INVARIANTS  CancelCutsLoose
 
CHECK_DEADLOCK FALSE
