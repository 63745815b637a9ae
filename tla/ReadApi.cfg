SPECIFICATION Spec
CONSTANTS
  r1 = r1
  r2 = r2
  recent = recent
  old = old
  Requests <- MCRequests
  Signals <- MCSignals
  Old <- MCOld
  Served <- MCServed
  Profiles <- MCProfiles
  TTL = 2
  FetchTime = 1
INVARIANTS
  ReadInv
PROPERTIES
  GrantIsRecent
  RefusalHasCause
  ProOnlyNotForTheLapsed
  WindowUnlessFree
  NotFoundIsTrue
CHECK_DEADLOCK FALSE
