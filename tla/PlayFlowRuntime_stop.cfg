SPECIFICATION Spec
CONSTANTS
  MaxRuns = 1
  MaxGames = 0
  CycleModes = {"single"}
  SelectedQueue = TRUE
  RoleBased = TRUE
INVARIANT StopReasonKept
CHECK_DEADLOCK FALSE
