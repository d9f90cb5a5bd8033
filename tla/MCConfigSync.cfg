CONSTANTS
  k1 = k1
  k2 = k2
  plain = plain
  quoted = quoted
  mangled = mangled
  first = first
  second = second
  Keys <- MCKeys
  Values <- MCValues
  Unset = Unset
  Missing = Missing
  Parsed <- MCParsed
  Defaults <- MCDefaults
  Saves <- MCSaves
  Input <- MCInput
  Nobody = Nobody
  Edits <- MCEdits
  MaxRetries = 1
  MaxEdits = 1
  MaxFaults = 2
  MaxCrashes = 1
SPECIFICATION FairSpec
INVARIANTS TypeOK NoLostSave FailedSaveRestores RestAgreement
PROPERTY ChangesFollowed
CHECK_DEADLOCK FALSE
