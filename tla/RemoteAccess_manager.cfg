SPECIFICATION Spec
CONSTANTS
  Handlers = {h1, h2}
  Main = h1
  MaxServers = 2
  MaxCodes = 3
  MaxSessions = 2
INVARIANTS
  TypeOK
  NoOrphanListener
  CodePairsOnce
  EndedStaysEnded
