SPECIFICATION Spec
CONSTANTS
  r1 = r1
  r2 = r2
  r3 = r3
  Requests <- MCRequests
  Window = 3
  TTL = 4
  Limit = 1
  MaxTime = 7
SYMMETRY Symmetry
INVARIANTS
  IInv
  MinuteBudget
  RefusedForCause
  RetryLeadsOut
CHECK_DEADLOCK FALSE
