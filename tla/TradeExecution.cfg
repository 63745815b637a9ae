SPECIFICATION Spec
CONSTANTS
  u1 = u1
  btc = btc
  k1 = k1
  k2 = k2
  r1 = r1
  r2 = r2
  Users <- MCUsers
  Symbols <- MCSymbols
  Keys <- MCKeys
  Requests <- MCRequests
  Bodies <- MCBodies
  Lapsing = {}
  Relinking = {}
  DefaultLeverage = 20
SYMMETRY Symmetry
INVARIANTS
  IInv
  FilledIsBracketed
  PartialHoldsPosition
  RefusalSendsNothing
  BracketsFollowEntry
  LedgerAgrees
  EntrySettings
PROPERTIES
  NoOrderAfterTheAnswer
  ImplementsContract
CHECK_DEADLOCK FALSE
