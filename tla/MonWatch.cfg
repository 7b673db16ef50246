SPECIFICATION FairSpec
CONSTANTS
  Request = {q1}
  MaxEvents = 2
  MaxTime = 2
  MaxRestarts = 1
INVARIANTS
  NewestStateWins
  ToldOnce
PROPERTIES
  PanelCatchesUp
CHECK_DEADLOCK FALSE
