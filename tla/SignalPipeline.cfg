SPECIFICATION FairSpec
CONSTANTS
  s1 = s1
  Signals <- MCOneSignal
  MaxVersion = 3
INVARIANTS
  IInv
  ReadableWhenPushed
  AcceptedStaysVisible
  RefusedIsParked
PROPERTIES
  NoRegression
  DeliveredIsAnswered
  AcceptedIsFannedOut
CHECK_DEADLOCK FALSE
