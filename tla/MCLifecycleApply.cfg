CONSTANTS
  on = on
  other = other
  off = off
  broken = broken
  invalid = invalid
  Configs = {on, off, broken, invalid}
  Installed = on
  Enabled <- MCEnabled
  Invalid <- MCInvalid
  Broken <- MCBroken
  appdata = appdata
  elsewhere = elsewhere
  Dirs <- MCDirs
  Dir <- MCDir
  None = None
  Applies = {a1, a2}
  Watchdogs = {w1}
  Pids = {p1}
  MaxAttempts = 1
  MaxRestarts = 0
  MaxEvents = 1
  MaxFaults = 0
  MaxKills = 1
SPECIFICATION Spec
CONSTRAINTS OneByOne StaysUp
SYMMETRY Symmetry
INVARIANTS OffIsStopped ServiceMatches
PROPERTY PromotedIsReconciled
CHECK_DEADLOCK FALSE
