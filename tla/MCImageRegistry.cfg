CONSTANTS
  Aliases = {a1, a2}
  Toggles = {t1, t2}
  Deleters = {del}
  Pruners = {prune}
  Builders = {build}
  Nobody = Nobody
  Refused = Refused
  Dirs = {old, new}
  MaxActs = 2
  MaxFaults = 1
  MaxMoves = 1
SPECIFICATION FairSpec
INVARIANTS TypeOK MasterIsLaunched
PROPERTIES UpdatesAtomic UpdatesSettle
CHECK_DEADLOCK FALSE
