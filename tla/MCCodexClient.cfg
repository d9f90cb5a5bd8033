SPECIFICATION FairSpec
CONSTANTS
  p1 = p1
  p2 = p2
  Prompts <- MCPrompts
  Guarded <- MCGuarded
  Threads <- MCThreads
  None = None
  MaxDrops = 1
  MaxLoads = 1
  MaxErrors = 1
INVARIANTS TypeOK InFlight ScreenAgrees
PROPERTIES KeepsThread Connects
CHECK_DEADLOCK FALSE
