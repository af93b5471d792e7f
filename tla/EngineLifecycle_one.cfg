CONSTANTS
  Profiles = {a, b}
  NoProfile = NoProfile
  MaxRuns = 1
  MaxWrites = 2
  MaxOpens = 1
  Multi = {}
SPECIFICATION Spec
SYMMETRY ProfileSymmetry
INVARIANT TypeOK
INVARIANT SavesOwnAccount
INVARIANT FinalWriteKept
PROPERTY RollbackNeedsInterference
CHECK_DEADLOCK FALSE
