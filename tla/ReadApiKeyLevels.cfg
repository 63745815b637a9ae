SPECIFICATION Spec
CONSTANTS
  r1 = r1
  r2 = r2
  recent = recent
  old = old
  Requests <- MCRequests
  Signals <- MCSignals
  Old <- MCOld
  Served <- MCServed
  Profiles <- MCProfiles
  TTL = 2
  FetchTime = 1
PROPERTIES
  KeyLevelsForPro
CHECK_DEADLOCK FALSE
