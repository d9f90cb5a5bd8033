CONSTANTS
  on = on
  other = other
  off = off
  broken = broken
  invalid = invalid
  Configs = {on, other, off, broken, invalid}
  Installed = on
  Enabled <- MCEnabled
  Invalid <- MCInvalid
  Broken <- MCBroken
  appdata = appdata
  elsewhere = elsewhere
  Dirs <- MCDirs
  Dir <- MCDir
  None = None
  Applies = {}
  Watchdogs = {w1, w2}
  Pids = {p1, p2}
  MaxAttempts = 2
  MaxRestarts = 2
  MaxEvents = 2
  MaxFaults = 2
  MaxKills = 0
SPECIFICATION FairSpec
INVARIANTS TypeOK StoppedUnlessRaced Tracked
PROPERTY Recovers
CHECK_DEADLOCK FALSE
