SPECIFICATION FairSpec
CONSTANTS
  NoConn = NoConn
  Skip = Skip
  Short = Short
  Conn = {d1, d2}
  Coor = {c1}
  Frames = {c1}
  Docs = {}
  Datagrams = {}
  Faulty = FALSE
  MqttExternal = FALSE
  MaxClients = 2
  Backlog = 2
  NumEvents = 10
  RecvMax = 2
  RxMax = 1
  MqMaxMsg = 2
  MqMsgSize = 8192
  MaxBufferSize = 8096
  Leftover = {0}
PROPERTIES SendReturns
CHECK_DEADLOCK FALSE
