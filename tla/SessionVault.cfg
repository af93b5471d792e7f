CONSTANTS
  Accounts = {a, b}
  Profiles = {a}
  Nobody = Nobody
  MaxFaults = 2
SPECIFICATION Spec
INVARIANT TypeOK
INVARIANT SavesOneAccount
PROPERTY LosesFilesOnlyToACut
PROPERTY KeepsSaves
CHECK_DEADLOCK FALSE
