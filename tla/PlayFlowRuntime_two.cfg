SPECIFICATION Spec
CONSTANTS
  MaxRuns = 2
  MaxGames = 1
  CycleModes = {"repeat"}
  SelectedQueue = FALSE
  RoleBased = FALSE
INVARIANT SingleDriver
PROPERTY SendsOnlyWhileCurrent
CHECK_DEADLOCK FALSE
