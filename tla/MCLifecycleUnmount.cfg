CONSTANTS
  on = on
  other = other
  off = off
  broken = broken
  invalid = invalid
  Configs = {on, other, off, broken, invalid}
  Installed = on
  Enabled <- MCEnabled
  Invalid <- MCInvalid
  Broken <- MCBroken
  appdata = appdata
  elsewhere = elsewhere
  Dirs <- MCDirs
  Dir <- MCDir
  None = None
  Applies = {a1}
  Watchdogs = {w1}
  Pids = {p1, p2}
  MaxAttempts = 2
  MaxRestarts = 1
  MaxEvents = 1
  MaxFaults = 0
  MaxKills = 1
SPECIFICATION Spec
INVARIANT StoppedBeforeUnmount
CHECK_DEADLOCK FALSE
