CONSTANTS
  save = save
  sync = sync
  Callers <- MCCallers
  MaxRetries <- MCMaxRetries
  MaxGen = 3
  MaxCrashes = 1
SPECIFICATION FairSpec
INVARIANTS TypeOK MutualExclusion
PROPERTIES RobbedOnlyInWindow EveryAttemptYields OrphanDoesNotWedge
