SPECIFICATION FairSpec
CONSTANTS
  NoConn = NoConn
  Skip = Skip
  Short = Short
  Conn = {d1, d2}
  Coor = {c1}
  Frames = {c1}
  Docs = {c1}
  Datagrams = {}
  Faulty = FALSE
  MqttExternal = TRUE
  MaxClients = 2
  Backlog = 2
  NumEvents = 10
  RecvMax = 1
  RxMax = 2
  MqMaxMsg = 2
  MqMsgSize = 8192
  MaxBufferSize = 8096
  Leftover = {0}
PROPERTIES FramesRead CommandsRead BacklogMoves
CHECK_DEADLOCK FALSE
