SPECIFICATION FairSpec
CONSTANTS
  t1 = t1
  t2 = t2
  launch = launch
  remove = remove
  Tabs <- MCTabs
  Visible <- MCVisible
  Actions <- MCActions
  by <- MCBy
  Double <- MCActions
  Deletes <- MCDeletes
  Nobody = Nobody
  MaxFaults = 2
INVARIANTS TypeOK ReadsOwnWrites
PROPERTY Converges
CHECK_DEADLOCK FALSE
