SPECIFICATION Spec
CONSTANTS
  NoConn = NoConn
  Skip = Skip
  Short = Short
  Conn = {d1, d2}
  Coor = {c1, c2}
  Frames = {c1, c2}
  Docs = {c1, c2}
  Datagrams = {}
  Faulty = FALSE
  MqttExternal = TRUE
  MaxClients = 2
  Backlog = 2
  NumEvents = 10
  RecvMax = 2
  RxMax = 1
  MqMaxMsg = 2
  MqMsgSize = 8192
  MaxBufferSize = 8096
  Leftover = {0}
SYMMETRY Symmetry
INVARIANTS RouteMatches
CHECK_DEADLOCK FALSE
