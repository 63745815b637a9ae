SPECIFICATION FairSpec
CONSTANTS
  u1 = u1
  btc = btc
  k1 = k1
  k2 = k2
  r1 = r1
  r2 = r2
  Users <- MCUsers
  Symbols <- MCSymbols
  Keys <- MCTwoKeys
  Requests <- MCOneRequest
  Bodies <- MCEdgeBodies
  Lapsing <- MCUsers
  Relinking <- MCUsers
  DefaultLeverage = 20
INVARIANTS
  SettingsInv
PROPERTIES
  Settles
CHECK_DEADLOCK FALSE
