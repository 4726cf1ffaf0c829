SPECIFICATION FairSpec
CONSTANTS
  NoConn = NoConn
  Skip = Skip
  Short = Short
  Conn = {d1, d2}
  Coor = {c1, c2}
  Frames = {Skip}
  Docs = {}
  Datagrams = {"data", "empty"}
  Faulty = TRUE
  MqttExternal = FALSE
  MaxClients = 1
  Backlog = 1
  NumEvents = 10
  RecvMax = 1
  RxMax = 1
  MqMaxMsg = 2
  MqMsgSize = 8192
  MaxBufferSize = 8096
  Leftover = {0, 1}
INVARIANTS TypeOK EventsReadable
PROPERTIES BusyQueueHangs
CHECK_DEADLOCK FALSE
