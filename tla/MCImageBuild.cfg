CONSTANTS
  Builds = {b1, b2, b3}
  MaxConcurrent = 1
  MaxQueued = 1
SPECIFICATION FairSpec
INVARIANTS TypeOK SlotsExact RecordedIfSuccess
PROPERTY BuildsEnd
CHECK_DEADLOCK FALSE
