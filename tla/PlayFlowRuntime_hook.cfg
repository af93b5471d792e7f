SPECIFICATION Spec
CONSTANTS
  MaxRuns = 2
  MaxGames = 0
  CycleModes = {"single"}
  SelectedQueue = TRUE
  RoleBased = FALSE
INVARIANT YieldsWhileActive
CHECK_DEADLOCK FALSE
