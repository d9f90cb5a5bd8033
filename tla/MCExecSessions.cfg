SPECIFICATION FairExecSpec
CONSTANTS
  t1 = t1
  t2 = t2
  t3 = t3
  Terminals <- MCTerminals
  MaxSessions = 2
  MaxFaults = 1
INVARIANTS ExecTypeOK Accounted
PROPERTY Stopped
CHECK_DEADLOCK FALSE
