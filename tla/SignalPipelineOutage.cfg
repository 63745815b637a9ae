SPECIFICATION Spec
CONSTANTS
  s1 = s1
  Signals <- MCOneSignal
  MaxVersion = 1
INVARIANTS
  OutageIsParked
CHECK_DEADLOCK FALSE
