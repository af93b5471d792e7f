CONSTANTS
  Profiles = {a}
  Multi = {a}
  NoProfile = NoProfile
  MaxRuns = 2
  MaxWrites = 0
  MaxOpens = 0
SPECIFICATION FairSpec
INVARIANT OneRunAtATime
PROPERTY NoForeignKill
PROPERTY EngineReleased
CHECK_DEADLOCK FALSE
