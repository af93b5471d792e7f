SPECIFICATION Spec
CONSTANTS
  o1 = o1
  o2 = o2
  o3 = o3
  t1 = t1
  t2 = t2
  Operations = {o1, o2, o3}
  Targets = {t1, t2}
  Plan <- SharedPlan
  Expansions = {o2, o3}
  Bulk = {o2}
  MaxReceipts = 2
CONSTRAINT SharedTarget
INVARIANTS
  TypeOK
  OncePerTarget
  CancelStopsSoon
  ReceiptsTrue
PROPERTIES
  StopsWhenUnclear
  RunsEnd
  KeepsPromise
CHECK_DEADLOCK FALSE
