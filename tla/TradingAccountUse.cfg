SPECIFICATION AccountSpec
CONSTANTS
  u1 = u1
  btc = btc
  k1 = k1
  r1 = r1
  c1 = c1
  d1 = d1
  Users <- MCUsers
  Symbols <- MCSymbols
  Keys <- MCKeys
  Requests <- MCOneRequest
  Bodies <- MCBodies
  Lapsing = {}
  Relinking <- MCUsers
  DefaultLeverage = 20
  ConnectCalls <- MCOneConnect
  DisconnectCalls <- MCOneDisconnect
  MaxMaster = 0
PROPERTIES
  NeverUsedAgain
CHECK_DEADLOCK FALSE
