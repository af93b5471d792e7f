SPECIFICATION FairSpec
CONSTANTS
  c1 = c1
  c2 = c2
  top = top
  mid = mid
  Champions = {c1, c2}
  NoChampion = NoChampion
  Bravery = Bravery
  FirstAvailable = FirstAvailable
  Roles = {top, mid}
  NoRole = NoRole
  Kinds = {"draft", "arena", "aram"}
  BanPlan <- Ban
  PickPlan <- Pick
  ArenaPlan <- Arena
  AramPlan <- Aram
INVARIANTS
  TypeOK
  LockedOnce
PROPERTIES
  PlayerKept
  BenchKept
  BanLeftIfChosen
  LockSettles
