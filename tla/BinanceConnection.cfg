SPECIFICATION Spec
CONSTANTS
  u1 = u1
  k1 = k1
  k2 = k2
  c1 = c1
  c2 = c2
  d1 = d1
  Users <- MCUsers
  Keys <- MCKeys
  ConnectCalls <- MCConnectCalls
  DisconnectCalls <- MCDisconnectCalls
  MaxMaster = 1
INVARIANTS
  IInv
  StoredKeysAreVetted
  FlagFollowsRow
  AnswersAreTrue
  UnreadableOnlyByRotation
CHECK_DEADLOCK FALSE
