SPECIFICATION FairGateway
CONSTANTS
  Client = {k1, k2}
  NoClient = NoClient
  Talkers = {k1, k2}
  Faults = {"reset"}
  Garbled = FALSE
  MaxSend = 4
  OutMax = 1
  UpMax = 1
  CoorMax = 1
  Deaf = {k2}
INVARIANTS CircleNeedsTalkers
CHECK_DEADLOCK FALSE
PROPERTIES BroadcastEnds
