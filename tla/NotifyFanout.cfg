SPECIFICATION Spec
CONSTANTS
  u1 = u1
  u2 = u2
  tok = tok
  c1 = c1
  c2 = c2
  Users <- MCUsers
  Devices <- MCDevices
  Signals <- MCSignals
  Entitled <- MCUsers
  Subscribed <- MCSubscribed
  Calls <- MCCalls
SYMMETRY Symmetry
INVARIANTS
  IInv
  TallyIsTrue
  SilencedOnlyInARace
  GoneStaysSilent
CHECK_DEADLOCK FALSE
