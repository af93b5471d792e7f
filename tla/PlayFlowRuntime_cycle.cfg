SPECIFICATION Spec
CONSTANTS
  MaxRuns = 1
  MaxGames = 2
  CycleModes = {"single", "repeat"}
  SelectedQueue = TRUE
  RoleBased = TRUE
INVARIANTS
  TypeOK
  OneStartPerGame
PROPERTIES
  RunsEndWhenDue
CHECK_DEADLOCK FALSE
