----------------------------- MODULE SeridProofs -----------------------------
(***************************************************************************)
(* Proofs about the event loop of serid, for every number of connections,  *)
(* coordinators and descriptors, every size of the buffers and both builds. *)
(***************************************************************************)
EXTENDS Serid, SequenceTheorems, TLAPS

AllFds == {TcpSock, UdpSock, Uplink} \cup ClientFds

-----------------------------------------------------------------------------
(* The descriptors are what they look like. *)
LEMMA FdFacts ==
  /\ TcpSock # UdpSock /\ TcpSock # Uplink /\ UdpSock # Uplink
  /\ \A f \in ClientFds : f \in Nat /\ f > Uplink /\ f > UdpSock /\ f > TcpSock
  /\ Idle \notin ClientFds /\ Queued \notin ClientFds /\ Closed \notin ClientFds
  /\ NoFd \notin ClientFds
  /\ Idle # Queued /\ Idle # Closed /\ Queued # Closed
BY SizeAssumption DEF TcpSock, UdpSock, Uplink, ClientFds, Idle, Queued, Closed,
  NoFd, Table!NoFd

(* What one recv takes and what it leaves. *)
LEMMA RecvFacts ==
  ASSUME NEW S, NEW buf \in Seq(S), buf # <<>>
  PROVE  /\ Received(buf) \in Seq(S)
         /\ Len(Received(buf)) = Least(Len(buf), RecvMax)
         /\ \A i \in 1 .. Len(Received(buf)) : Received(buf)[i] = buf[i]
         /\ Remaining(buf) \in Seq(S)
         /\ Len(Remaining(buf)) = Len(buf) - Least(Len(buf), RecvMax)
<1> DEFINE n == Least(Len(buf), RecvMax)
<1>1. Len(buf) \in Nat \ {0} /\ RecvMax \in Nat \ {0}
  BY EmptySeq, SizeAssumption
<1>2. n \in 1 .. Len(buf)
  BY <1>1 DEF Least
<1>3. \A i \in 1 .. Len(buf) : buf[i] \in S
  BY ElementOfSeq
<1> HIDE DEF n
<1>4. /\ SubSeq(buf, 1, n) \in Seq(S)
      /\ Len(SubSeq(buf, 1, n)) = n
      /\ \A i \in 1 .. n : SubSeq(buf, 1, n)[i] = buf[i]
  <2>1. 1 \in Int /\ n \in Int /\ 1 <= n /\ \A i \in 1 .. n : buf[i] \in S
    BY <1>1, <1>2, <1>3
  <2>2. /\ SubSeq(buf, 1, n) \in Seq(S)
        /\ Len(SubSeq(buf, 1, n)) = IF 1 <= n THEN n - 1 + 1 ELSE 0
        /\ \A i \in 1 .. n - 1 + 1 : SubSeq(buf, 1, n)[i] = buf[1 + i - 1]
    BY <2>1, SubSeqProperties
  <2> QED BY <2>1, <2>2
<1>5. /\ SubSeq(buf, n + 1, Len(buf)) \in Seq(S)
      /\ Len(SubSeq(buf, n + 1, Len(buf))) = Len(buf) - n
  <2>1. n + 1 \in Int /\ Len(buf) \in Int /\ n \in Int /\ n <= Len(buf)
        /\ \A i \in n + 1 .. Len(buf) : buf[i] \in S
    BY <1>1, <1>2, <1>3
  <2>2. /\ SubSeq(buf, n + 1, Len(buf)) \in Seq(S)
        /\ Len(SubSeq(buf, n + 1, Len(buf))) =
             IF n + 1 <= Len(buf) THEN Len(buf) - (n + 1) + 1 ELSE 0
    BY <2>1, SubSeqProperties
  <2> QED BY <2>1, <2>2
<1> QED BY <1>1, <1>2, <1>4, <1>5 DEF Received, Remaining, n

LEMMA OursFacts ==
  ASSUME NEW msg
  PROVE  /\ {msg[i] : i \in Ours(msg)} \subseteq Coor
         /\ CoorIds(msg) \subseteq Coor
BY DEF Ours, CoorIds

-----------------------------------------------------------------------------
(* When the process stops nothing is left that could be of the wrong type. *)
LEMMA StopTypes ==
  ASSUME NEW p \in {"exited", "killed"}, TypeOK, Stop(p)
  PROVE  TypeOK'
<1>1. <<>> \in Seq(Frames) /\ <<>> \in Seq(Conn) /\ <<>> \in Seq(Coor \cup {Short})
      /\ <<>> \in Seq({"data", "empty"}) /\ Len(<<>>) = 0
  BY EmptySeq
<1>2. sock' \in [Conn -> {Idle, Queued, Closed} \cup ClientFds]
  BY DEF Stop
<1>3. Table!TypeOK'
  BY DEF Stop, Table!TypeOK, NoFd
<1>4. Len(accq') <= Backlog
  BY <1>1, SizeAssumption DEF Stop
<1> QED BY <1>1, <1>2, <1>3, <1>4 DEF Stop, TypeOK

-----------------------------------------------------------------------------
(* Type correctness.  It is inductive together with EventsReadable, without *)
(* which mq_receive could take from an empty queue.                         *)
USE FdFacts

LEMMA QueueNotEmpty ==
  ASSUME TypeOK, EventsReadable, ~MqttExternal, Uplink \in events
  PROVE  mqlen > 0
<1>1. \A d \in Conn : Open(d) => sock[d] # Uplink
  BY DEF Open
<1> QED BY <1>1 DEF EventsReadable, Readable

LEMMA EpollWaitType ==
  ASSUME TypeOK, EpollWait
  PROVE  TypeOK'
<1>1. Ready \subseteq AllFds
  BY DEF Ready, TypeOK, AllFds
<1>2. events' \subseteq AllFds /\ edge' \subseteq AllFds
  BY <1>1 DEF EpollWait, Kept, TypeOK, AllFds
<1> QED BY <1>2 DEF EpollWait, TypeOK, AllFds, Table!TypeOK, clients, uplink, table, history

LEMMA AcceptType ==
  ASSUME TypeOK, Accept
  PROVE  TypeOK'
<1>1. /\ Head(accq) \in Conn /\ Tail(accq) \in Seq(Conn)
      /\ Len(Tail(accq)) = Len(accq) - 1 /\ Len(accq) \in Nat
  BY HeadTailProperties, LenProperties DEF Accept, TypeOK
<1>2. Len(accq') <= Backlog
  BY <1>1, SizeAssumption DEF Accept, TypeOK
<1>3. PICK f \in ClientFds : /\ sock' = [sock EXCEPT ![Head(accq)] = f]
                             /\ edge' = Added(Head(accq), f)
  BY DEF Accept, FreeFds
<1>4. /\ sock' \in [Conn -> {Idle, Queued, Closed} \cup ClientFds]
      /\ edge' \subseteq AllFds
  BY <1>1, <1>3 DEF TypeOK, Added, AllFds
<1> QED BY <1>1, <1>2, <1>4
    DEF Accept, Handled, TypeOK, AllFds, Table!TypeOK, uplink, table, history

LEMMA ZigbeeRecvType ==
  ASSUME NEW d \in Conn, TypeOK, ZigbeeRecv(d)
  PROVE  TypeOK'
<1>1. rx[d] \in Seq(Frames) /\ rx[d] # <<>>
  BY DEF TypeOK, ZigbeeRecv, HasInput
<1>2. Remaining(rx[d]) \in Seq(Frames)
  BY <1>1, RecvFacts
<1>3. rx' \in [Conn -> Seq(Frames)]
  BY <1>2 DEF TypeOK, ZigbeeRecv
<1>4. PICK id \in Coor : /\ Table!coor_add(id, sock[d])
                         /\ registrar' = [registrar EXCEPT ![id] = d]
  BY OursFacts DEF ZigbeeRecv
<1>5. Table!TypeOK' /\ registrar' \in [Coor -> Conn \cup {NoConn}]
  BY <1>4 DEF TypeOK, Table!TypeOK, Table!coor_add, Table!Bind, Table!NoMemory,
    ZigbeeRecv, HasInput, Open
<1>6. got' \in [Conn -> SUBSET Coor]
  BY OursFacts DEF ZigbeeRecv, TypeOK
<1>7. /\ phase' \in {"running", "mqsend"} /\ mqlen' \in 0 .. MqMaxMsg
      /\ hub' \in {"up", "absent", "eof", "reset", "broken"}
  BY SizeAssumption DEF ZigbeeRecv, HasInput, SendUp, AfterSend, MqFull, TypeOK
<1> QED BY <1>3, <1>5, <1>6, <1>7 DEF ZigbeeRecv, Handled, TypeOK

LEMMA ZigbeeCloseType ==
  ASSUME NEW d \in Conn, TypeOK, ZigbeeClose(d)
  PROVE  TypeOK'
<1>1. sock' \in [Conn -> {Idle, Queued, Closed} \cup ClientFds]
  BY DEF TypeOK, ZigbeeClose
<1> QED BY <1>1 DEF ZigbeeClose, Handled, TypeOK, Table!TypeOK, uplink, table, history

LEMMA MqReceiveType ==
  ASSUME TypeOK, EventsReadable, MqReceive
  PROVE  TypeOK'
<1>1. mqlen > 0
  BY QueueNotEmpty DEF MqReceive
<1>2. mqlen' \in 0 .. MqMaxMsg
  BY <1>1, SizeAssumption DEF MqReceive, TypeOK
<1> QED BY <1>2 DEF MqReceive, Handled, TypeOK, Table!TypeOK, clients, table, history

LEMMA ClientRecvType ==
  ASSUME TypeOK, ClientRecv
  PROVE  TypeOK'
<1>1. hubrx \in Seq(Coor \cup {Short}) /\ hubrx # <<>>
  BY DEF TypeOK, ClientRecv, HubInput
<1>2. Remaining(hubrx) \in Seq(Coor \cup {Short}) /\ Head(hubrx) \in Coor \cup {Short}
  BY <1>1, RecvFacts, HeadTailProperties
<1>3. peer' \in [Conn -> {"up", "eof", "reset", "broken"}]
  BY DEF ClientRecv, TypeOK, AfterSend
<1>4. ASSUME NEW d \in Conn, Open(d), sock[d] = Target
      PROVE  Head(hubrx) \in Coor
  BY <1>4, <1>2 DEF Target, Open
<1>5. cmds' \in [Conn -> SUBSET Coor]
  BY <1>4 DEF ClientRecv, TypeOK
<1> QED BY <1>2, <1>3, <1>5 DEF ClientRecv, Handled, TypeOK, Table!TypeOK, table

LEMMA UdpType ==
  ASSUME TypeOK, UdpDispatch \/ UdpRecvfrom
  PROVE  TypeOK'
<1>1. CASE UdpDispatch
  BY <1>1 DEF UdpDispatch, Handled, TypeOK, Table!TypeOK, clients, uplink, table, history
<1>2. CASE UdpRecvfrom
  <2>1. Tail(udpq) \in Seq({"data", "empty"})
    BY <1>2, HeadTailProperties DEF TypeOK, UdpRecvfrom
  <2> QED BY <1>2, <2>1
      DEF UdpRecvfrom, TypeOK, Table!TypeOK, clients, uplink, table, history
<1> QED BY <1>1, <1>2

LEMMA ConnectionType ==
  ASSUME NEW d \in Conn, TypeOK,
         Connect(d) \/ PeerFin(d) \/ PeerReset(d) \/ \E m \in Frames : PeerSend(d, m)
  PROVE  TypeOK'
<1>1. edge' \subseteq AllFds
  BY DEF Connect, PeerFin, PeerReset, PeerSend, Wake, WakeConn, Open, TypeOK, AllFds
<1>2. CASE Connect(d)
  <2>1. accq' \in Seq(Conn) /\ Len(accq') = Len(accq) + 1 /\ Len(accq) \in Nat
    BY <1>2, AppendProperties, LenProperties DEF Connect, TypeOK
  <2>2. Len(accq') <= Backlog
    BY <1>2, <2>1, SizeAssumption DEF Connect
  <2>3. sock' \in [Conn -> {Idle, Queued, Closed} \cup ClientFds]
    BY <1>2 DEF Connect, TypeOK
  <2> QED BY <1>1, <1>2, <2>1, <2>2, <2>3
      DEF Connect, TypeOK, AllFds, Table!TypeOK, process, uplink, table, history
<1>3. CASE PeerFin(d) \/ PeerReset(d)
  <2>1. peer' \in [Conn -> {"up", "eof", "reset", "broken"}]
    BY <1>3 DEF PeerFin, PeerReset, TypeOK
  <2> QED BY <1>1, <1>3, <2>1
      DEF PeerFin, PeerReset, TypeOK, AllFds, Table!TypeOK, process, uplink, table, history
<1>4. ASSUME NEW m \in Frames, PeerSend(d, m)
      PROVE  TypeOK'
  <2>1. m \in Frames /\ rx[d] \in Seq(Frames)
    BY DEF TypeOK
  <2>2. Append(rx[d], m) \in Seq(Frames)
    BY <2>1, AppendProperties
  <2>3. rx' \in [Conn -> Seq(Frames)]
    BY <1>4, <2>2 DEF PeerSend, TypeOK
  <2> QED BY <1>1, <1>4, <2>3
      DEF PeerSend, TypeOK, AllFds, Table!TypeOK, process, uplink, table, history
<1> QED BY <1>2, <1>3, <1>4

LEMMA OutsideType ==
  ASSUME TypeOK,
         \/ \E m \in Docs : HubSend(m)
         \/ HubLeaves \/ HubReset
         \/ \E m \in Datagrams : Datagram(m)
         \/ Restart
  PROVE  TypeOK'
<1>1. ASSUME NEW m \in Docs, HubSend(m)
      PROVE  TypeOK'
  <2>1. Append(hubrx, m) \in Seq(Coor \cup {Short})
    BY AppendProperties, DataAssumption DEF TypeOK
  <2> QED BY <1>1, <2>1
      DEF HubSend, Wake, TypeOK, Table!TypeOK, process, clients, table, history
<1>2. CASE HubLeaves \/ HubReset
  <2>1. hub' \in {"up", "absent", "eof", "reset", "broken"}
    BY <1>2 DEF HubLeaves, HubReset, TypeOK
  <2> QED BY <1>2, <2>1
      DEF HubLeaves, HubReset, Wake, TypeOK, Table!TypeOK, process, clients, table, history
<1>3. ASSUME NEW m \in Datagrams, Datagram(m)
      PROVE  TypeOK'
  <2>1. Append(udpq, m) \in Seq({"data", "empty"})
    BY AppendProperties, DataAssumption DEF TypeOK
  <2> QED BY <1>3, <2>1
      DEF Datagram, Wake, TypeOK, Table!TypeOK, process, clients, uplink, table, history
<1>4. CASE Restart
  BY <1>4 DEF Restart, HubAtStart, TypeOK, Table!TypeOK, clients, table, history
<1> QED BY <1>1, <1>2, <1>3, <1>4

(* The steps that end the process, whoever takes them. *)
Stops ==
  \/ AcceptFails \/ \E d \in Conn : ZigbeeRecvKilled(d)
  \/ ClientRecvKilled \/ HubClosed
  \/ EpollWaitInterrupted \/ Crash

LEMMA StopsStop ==
  ASSUME Stops
  PROVE  \E p \in {"exited", "killed"} : Stop(p)
BY DEF Stops, AcceptFails, ZigbeeRecvKilled, ClientRecvKilled, HubClosed,
  EpollWaitInterrupted, Crash

LEMMA TypeStep ==
  ASSUME TypeOK, EventsReadable, [Next]_vars
  PROVE  TypeOK'
<1>1. CASE Stops
  BY <1>1, StopsStop, StopTypes
<1>2. CASE EpollWait
  BY <1>2, EpollWaitType
<1>3. CASE Accept
  BY <1>3, AcceptType
<1>4. CASE \E d \in Conn : ZigbeeRecv(d) \/ ZigbeeClose(d)
  BY <1>4, ZigbeeRecvType, ZigbeeCloseType
<1>5. CASE MqReceive \/ ClientRecv
  BY <1>5, MqReceiveType, ClientRecvType
<1>6. CASE UdpDispatch \/ UdpRecvfrom
  BY <1>6, UdpType
<1>7. ASSUME NEW d \in Conn,
             Connect(d) \/ PeerFin(d) \/ PeerReset(d) \/ \E m \in Frames : PeerSend(d, m)
      PROVE  TypeOK'
  BY <1>7, ConnectionType
<1>8. CASE \/ \E m \in Docs : HubSend(m)
           \/ HubLeaves \/ HubReset
           \/ \E m \in Datagrams : Datagram(m)
           \/ Restart
  BY <1>8, OutsideType
<1>9. CASE UNCHANGED vars
  BY <1>9 DEF vars, process, clients, uplink, table, history, TypeOK, Table!TypeOK
<1> QED BY <1>1, <1>2, <1>3, <1>4, <1>5, <1>6, <1>7, <1>8, <1>9
    DEF Next, LoopStep, Environment, Stops

-----------------------------------------------------------------------------
(* The accept queue holds waiting connections, each once. *)
QueueSound ==
  \A i \in 1 .. Len(accq) :
    /\ sock[accq[i]] = Queued
    /\ \A j \in 1 .. Len(accq) : accq[i] = accq[j] => i = j

LEMMA QueueHead ==
  ASSUME TypeOK, QueueSound, accq # <<>>
  PROVE  /\ Head(accq) = accq[1] /\ Len(accq) \in Nat \ {0}
         /\ Head(accq) \in Conn /\ sock[Head(accq)] = Queued
<1>1. accq \in Seq(Conn) /\ Len(accq) \in Nat \ {0}
  BY EmptySeq DEF TypeOK
<1>2. Head(accq) = accq[1] /\ accq[1] \in Conn
  BY <1>1, ElementOfSeq
<1> QED BY <1>1, <1>2 DEF QueueSound

LEMMA QueueSoundStep ==
  ASSUME TypeOK, QueueSound, [Next]_vars
  PROVE  QueueSound'
<1>1. CASE Stops
  <2>1. Len(accq') = 0
    BY <1>1, StopsStop, EmptySeq DEF Stop
  <2> QED BY <2>1 DEF QueueSound
<1>2. CASE Accept
  <2>1. accq # <<>> /\ accq' = Tail(accq)
    BY <1>2 DEF Accept
  <2>2. /\ Len(accq') = Len(accq) - 1
        /\ \A i \in 1 .. Len(accq') : accq'[i] = accq[i + 1] /\ i + 1 \in 1 .. Len(accq)
    BY <2>1, QueueHead, HeadTailProperties DEF TypeOK
  <2>3. \A i \in 1 .. Len(accq') : accq[i + 1] # Head(accq)
    BY <2>1, <2>2, QueueHead DEF QueueSound
  <2>4. \A d \in Conn : d # Head(accq) => sock'[d] = sock[d]
    BY <1>2 DEF Accept, TypeOK
  <2>5. \A i \in 1 .. Len(accq) : accq[i] \in Conn
    BY ElementOfSeq DEF TypeOK
  <2>6. \A i \in 1 .. Len(accq') : sock'[accq'[i]] = Queued
    BY <2>2, <2>3, <2>4, <2>5 DEF QueueSound
  <2>7. \A i, j \in 1 .. Len(accq') : accq'[i] = accq'[j] => i = j
    <3> SUFFICES ASSUME NEW i \in 1 .. Len(accq'), NEW j \in 1 .. Len(accq'),
                        accq'[i] = accq'[j]
                 PROVE  i = j
      OBVIOUS
    <3>1. i + 1 = j + 1
      BY <2>2 DEF QueueSound
    <3> QED BY <3>1, <2>2
  <2> QED BY <2>6, <2>7 DEF QueueSound
<1>3. ASSUME NEW d \in Conn, Connect(d)
      PROVE  QueueSound'
  <2>1. /\ accq \in Seq(Conn) /\ Len(accq) \in Nat /\ Len(accq') = Len(accq) + 1
        /\ \A i \in 1 .. Len(accq) : accq'[i] = accq[i] /\ accq[i] \in Conn
        /\ accq'[Len(accq) + 1] = d
    BY <1>3, AppendProperties, ElementOfSeq, LenProperties DEF Connect, TypeOK
  <2>2. \A i \in 1 .. Len(accq) : accq[i] # d /\ sock'[accq[i]] = Queued
    BY <1>3, <2>1 DEF Connect, QueueSound, TypeOK
  <2>3. sock'[d] = Queued
    BY <1>3 DEF Connect, TypeOK
  <2> QED BY <2>1, <2>2, <2>3 DEF QueueSound
<1>4. ASSUME NEW d \in Conn, ZigbeeClose(d)
      PROVE  QueueSound'
  <2>1. accq' = accq /\ sock' = [sock EXCEPT ![d] = Closed] /\ sock[d] # Queued
    BY <1>4 DEF ZigbeeClose, Open
  <2>2. \A i \in 1 .. Len(accq) : accq[i] \in Conn /\ accq[i] # d
    BY <2>1, ElementOfSeq DEF QueueSound, TypeOK
  <2> QED BY <2>1, <2>2 DEF QueueSound, TypeOK
<1>5. CASE UNCHANGED <<sock, accq>>
  BY <1>5 DEF QueueSound
<1>6. ASSUME [Next]_vars, ~Stops, ~Accept,
             \A d \in Conn : ~Connect(d) /\ ~ZigbeeClose(d)
      PROVE  UNCHANGED <<sock, accq>>
  BY <1>6 DEF Next, LoopStep, Environment, Stops, vars, clients, EpollWait, ZigbeeRecv,
    MqReceive, ClientRecv, UdpDispatch, UdpRecvfrom, PeerFin, PeerReset, PeerSend,
    HubSend, HubLeaves, HubReset, Datagram, Restart
<1> QED BY <1>1, <1>2, <1>3, <1>4, <1>5, <1>6

-----------------------------------------------------------------------------
(* A process that is down has nothing left of its last batch, and one that  *)
(* loops on the UDP socket has taken that socket off its batch.             *)
BatchSound ==
  /\ Down => events = {}
  /\ phase = "udploop" => UdpSock \notin events

LEMMA BatchSoundStep ==
  ASSUME BatchSound, [Next]_vars
  PROVE  BatchSound'
<1>1. CASE Stops
  BY <1>1, StopsStop DEF Stop, BatchSound
<1>2. CASE LoopStep /\ ~Stops /\ ~UdpDispatch /\ ~UdpRecvfrom
  <2>1. phase' \notin {"exited", "killed", "udploop"}
    BY <1>2 DEF LoopStep, Stops, EpollWait, Accept, ZigbeeRecv, HasInput, SendUp,
      ZigbeeClose, MqReceive, ClientRecv, HubInput
  <2> QED BY <2>1 DEF BatchSound, Down
<1>3. CASE UdpDispatch \/ UdpRecvfrom
  BY <1>3 DEF UdpDispatch, UdpRecvfrom, Handled, BatchSound, Down
<1>4. CASE Environment /\ ~Stops
  BY <1>4 DEF Environment, Stops, BatchSound, Down, process, Connect, PeerFin, PeerReset,
    PeerSend, HubSend, HubLeaves, HubReset, Datagram, Restart
<1>5. CASE UNCHANGED vars
  BY <1>5 DEF vars, process, BatchSound, Down
<1> QED BY <1>1, <1>2, <1>3, <1>4, <1>5 DEF Next, LoopStep, Environment, Stops

-----------------------------------------------------------------------------
(* What was readable stays readable until its own handler runs. *)

(* Steps that leave the sockets of accepted connections alone, or only add  *)
(* to them, take nothing away.                                              *)
LEMMA StillReadable ==
  ASSUME NEW f, Readable(f),
         accq # <<>> => accq' # <<>> \/ f # TcpSock,
         udpq # <<>> => udpq' # <<>> \/ f # UdpSock,
         hubrx # <<>> => hubrx' # <<>> \/ f # Uplink,
         hub \notin {"up", "absent"} => hub' \notin {"up", "absent"} \/ f # Uplink,
         mqlen > 0 => mqlen' > 0 \/ f # Uplink,
         \A d \in Conn : Open(d) /\ Stirred(d) /\ sock[d] = f =>
           Open(d)' /\ Stirred(d)' /\ sock'[d] = f
  PROVE  Readable(f)'
<1>1. CASE \E d \in Conn : sock[d] = f /\ Open(d) /\ Stirred(d)
  BY <1>1 DEF Readable
<1> QED BY <1>1 DEF Readable

LEMMA EventsReadableStep ==
  ASSUME TypeOK, EventsReadable, QueueSound, BatchSound, [Next]_vars
  PROVE  EventsReadable'
<1> SUFFICES ASSUME NEW f \in events' PROVE Readable(f)'
  BY DEF EventsReadable
<1>0. \A d \in Conn : Open(d) => sock[d] \notin {TcpSock, UdpSock, Uplink}
  BY DEF Open
<1>1. CASE Stops
  BY <1>1, StopsStop DEF Stop
<1>2. CASE EpollWait
  <2>1. Readable(f)
    BY <1>2 DEF EpollWait, Ready
  <2> QED BY <1>2, <2>1, StillReadable DEF EpollWait, clients, uplink, Open, Stirred
<1>3. CASE Accept
  <2>1. Readable(f) /\ f # TcpSock
    BY <1>3 DEF Accept, Handled, EventsReadable
  <2>2. Head(accq) \in Conn /\ ~Open(Head(accq))
    BY <1>3, QueueHead DEF Accept, Open
  <2>3. \A d \in Conn : Open(d) => Open(d)' /\ sock'[d] = sock[d]
    BY <1>3, <2>2 DEF Accept, Open, TypeOK
  <2> QED BY <1>3, <2>1, <2>3, StillReadable DEF Accept, Stirred, uplink
<1>4. ASSUME NEW e \in Conn, ZigbeeRecv(e)
      PROVE  Readable(f)'
  <2>1. Readable(f) /\ f # sock[e] /\ Open(e)
    BY <1>4 DEF ZigbeeRecv, Handled, HasInput, EventsReadable
  <2>2. \A d \in Conn : Open(d) /\ Stirred(d) /\ sock[d] = f =>
           Open(d)' /\ Stirred(d)' /\ sock'[d] = f
    BY <1>4, <2>1 DEF ZigbeeRecv, Open, Stirred, TypeOK
  <2>3. /\ accq' = accq /\ udpq' = udpq /\ hubrx' = hubrx
        /\ hub \notin {"up", "absent"} => hub' \notin {"up", "absent"}
        /\ mqlen > 0 => mqlen' > 0
    BY <1>4 DEF ZigbeeRecv, SendUp, AfterSend, TypeOK
  <2> QED BY <2>1, <2>2, <2>3, StillReadable
<1>5. ASSUME NEW e \in Conn, ZigbeeClose(e)
      PROVE  Readable(f)'
  <2>1. Readable(f) /\ f # sock[e] /\ Open(e)
    BY <1>5 DEF ZigbeeClose, Handled, EventsReadable
  <2> QED BY <1>5, <2>1, StillReadable DEF ZigbeeClose, Open, Stirred, TypeOK, uplink
<1>6. CASE MqReceive \/ ClientRecv
  <2>1. Readable(f) /\ f # Uplink
    BY <1>6 DEF MqReceive, ClientRecv, HubInput, Handled, EventsReadable
  <2>2. \A d \in Conn : Open(d) /\ Stirred(d) => Open(d)' /\ Stirred(d)' /\ sock'[d] = sock[d]
    BY <1>6 DEF MqReceive, ClientRecv, clients, Open, Stirred, TypeOK, AfterSend
  <2> QED BY <1>6, <2>1, <2>2, StillReadable DEF MqReceive, ClientRecv, clients
<1>7. CASE UdpDispatch \/ UdpRecvfrom
  <2>1. CASE UdpDispatch
    <3>1. Readable(f)
      BY <2>1 DEF UdpDispatch, Handled, EventsReadable
    <3> QED BY <2>1, <3>1, StillReadable DEF UdpDispatch, clients, uplink, Open, Stirred
  <2>2. CASE UdpRecvfrom
    <3>1. Readable(f) /\ f # UdpSock
      BY <2>2 DEF UdpRecvfrom, EventsReadable, BatchSound
    <3> QED BY <2>2, <3>1, StillReadable DEF UdpRecvfrom, clients, uplink, Open, Stirred
  <2> QED BY <1>7, <2>1, <2>2
<1>8. CASE Environment /\ ~Stops
  <2>1. Readable(f)
    <3>1. events' = events
      BY <1>8 DEF Environment, Stops, Connect, PeerFin, PeerReset, PeerSend, process,
        HubSend, HubLeaves, HubReset, Datagram, Restart
    <3> QED BY <3>1 DEF EventsReadable
  <2>2. ASSUME NEW d \in Conn, Connect(d)
        PROVE  Readable(f)'
    <3>1. Append(accq, d) # <<>>
      <4>1. accq \in Seq(Conn) /\ d \in Conn
        BY DEF TypeOK
      <4> QED BY <4>1, AppendProperties
    <3>3. accq' # <<>>
      BY <2>2, <3>1 DEF Connect
    <3>2. \A e \in Conn : Open(e) => Open(e)' /\ sock'[e] = sock[e]
      BY <2>2 DEF Connect, Open, TypeOK
    <3> QED BY <2>1, <2>2, <3>3, <3>2, StillReadable DEF Connect, Stirred, uplink
  <2>3. ASSUME NEW d \in Conn, PeerFin(d) \/ PeerReset(d)
        PROVE  Readable(f)'
    <3>1. \A e \in Conn : Stirred(e) => Stirred(e)'
      BY <2>3 DEF PeerFin, PeerReset, Stirred, TypeOK
    <3> QED BY <2>1, <2>3, <3>1, StillReadable DEF PeerFin, PeerReset, Open, uplink
  <2>4. ASSUME NEW d \in Conn, NEW m \in Frames, PeerSend(d, m)
        PROVE  Readable(f)'
    <3>1. rx'[d] # <<>>
      <4>1. m \in Frames /\ rx[d] \in Seq(Frames)
        BY DEF TypeOK
      <4>2. Append(rx[d], m) # <<>>
        BY <4>1, AppendProperties
      <4> QED BY <2>4, <4>2 DEF PeerSend, TypeOK
    <3>2. \A e \in Conn : Stirred(e) => Stirred(e)'
      BY <2>4, <3>1 DEF PeerSend, Stirred, TypeOK
    <3> QED BY <2>1, <2>4, <3>2, StillReadable DEF PeerSend, Open, uplink
  <2>5. ASSUME NEW m \in Docs, HubSend(m)
        PROVE  Readable(f)'
    <3>1. Append(hubrx, m) # <<>>
      <4>1. hubrx \in Seq(Coor \cup {Short}) /\ m \in Coor \cup {Short}
        BY DataAssumption DEF TypeOK
      <4> QED BY <4>1, AppendProperties
    <3>2. hubrx' # <<>>
      BY <2>5, <3>1 DEF HubSend
    <3> QED BY <2>1, <2>5, <3>2, StillReadable DEF HubSend, clients, Open, Stirred
  <2>6. CASE HubLeaves \/ HubReset
    BY <2>1, <2>6, StillReadable DEF HubLeaves, HubReset, clients, Open, Stirred
  <2>7. ASSUME NEW m \in Datagrams, Datagram(m)
        PROVE  Readable(f)'
    <3>1. Append(udpq, m) # <<>>
      <4>1. udpq \in Seq({"data", "empty"}) /\ m \in {"data", "empty"}
        BY DataAssumption DEF TypeOK
      <4> QED BY <4>1, AppendProperties
    <3>2. udpq' # <<>>
      BY <2>7, <3>1 DEF Datagram
    <3> QED BY <2>1, <2>7, <3>2, StillReadable DEF Datagram, clients, uplink, Open, Stirred
  <2>8. CASE Restart
    BY <2>8 DEF Restart, BatchSound
  <2> QED BY <1>8, <2>2, <2>3, <2>4, <2>5, <2>6, <2>7, <2>8 DEF Environment, Stops
<1>9. CASE UNCHANGED vars
  <2>1. Readable(f)
    BY <1>9 DEF vars, process, EventsReadable
  <2> QED BY <1>9, <2>1, StillReadable DEF vars, clients, uplink, Open, Stirred
<1> QED BY <1>1, <1>2, <1>3, <1>4, <1>5, <1>6, <1>7, <1>8, <1>9
    DEF Next, LoopStep, Environment, Stops

-----------------------------------------------------------------------------
(* The first inductive invariant, and two theorems from it. *)
LoopInv == TypeOK /\ EventsReadable /\ QueueSound /\ BatchSound

LEMMA LoopInvInit == Init => LoopInv
<1> SUFFICES ASSUME Init PROVE LoopInv
  OBVIOUS
<1>1. <<>> \in Seq(Frames) /\ <<>> \in Seq(Conn) /\ <<>> \in Seq(Coor \cup {Short})
      /\ <<>> \in Seq({"data", "empty"}) /\ Len(<<>>) = 0
  BY EmptySeq
<1>2. Table!TypeOK
  BY DEF Init, Table!Init, Table!TypeOK
<1>3. TypeOK
  <2>1. /\ phase \in {"running"} /\ mqlen \in 0 .. MqMaxMsg /\ Len(accq) <= Backlog
        /\ hub \in {"up", "absent"}
    BY <1>1, SizeAssumption DEF Init, HubAtStart
  <2> QED BY <1>1, <1>2, <2>1 DEF Init, TypeOK
<1>4. QueueSound
  BY <1>1 DEF Init, QueueSound
<1>5. EventsReadable /\ BatchSound
  BY DEF Init, EventsReadable, BatchSound, Down
<1> QED BY <1>3, <1>4, <1>5 DEF LoopInv

THEOREM LoopInvariant == Spec => []LoopInv
<1>1. LoopInv /\ [Next]_vars => LoopInv'
  BY TypeStep, EventsReadableStep, QueueSoundStep, BatchSoundStep DEF LoopInv
<1> QED BY <1>1, LoopInvInit, PTL DEF Spec

(* Every reachable state is well typed: no buffer outgrows its bound, and   *)
(* the queue never has fewer than no messages (main.c).                     *)
THEOREM TypeCorrect == Spec => []TypeOK
<1>1. LoopInv => TypeOK
  BY DEF LoopInv
<1> QED BY <1>1, LoopInvariant, PTL

(* No handler of a batch takes away what a later event of the batch was     *)
(* reported for, so no blocking call of the loop blocks (main.c:181-318).   *)
THEOREM BatchNeverBlocks == Spec => []EventsReadable
<1>1. LoopInv => EventsReadable
  BY DEF LoopInv
<1> QED BY <1>1, LoopInvariant, PTL

-----------------------------------------------------------------------------
(* Wakeups.  A descriptor with a wakeup keeps it until its own handler runs. *)
Handles(f) ==
  \/ Accept /\ f = TcpSock
  \/ \E d \in Conn : (ZigbeeRecv(d) \/ ZigbeeClose(d)) /\ f = sock[d]

LEMMA WakeupKept ==
  ASSUME TypeOK, [Next]_vars, ~Stops,
         NEW f \in edge \cup events, Readable(f), f \notin {UdpSock, Uplink},
         ~Handles(f)
  PROVE  f \in edge' \cup events'
<1>1. CASE EpollWait
  <2>1. f \in edge
    BY <1>1 DEF EpollWait
  <2>2. f \in Ready
    BY <2>1 DEF Ready
  <2> QED BY <1>1, <2>1, <2>2 DEF EpollWait, Kept
<1>2. CASE Accept
  BY <1>2 DEF Accept, Handled, Added, Handles
<1>3. CASE \E d \in Conn : ZigbeeRecv(d) \/ ZigbeeClose(d)
  BY <1>3 DEF ZigbeeRecv, ZigbeeClose, Handled, Handles
<1>4. CASE MqReceive \/ ClientRecv
  BY <1>4 DEF MqReceive, ClientRecv, Handled
<1>5. CASE UdpDispatch \/ UdpRecvfrom
  BY <1>5 DEF UdpDispatch, UdpRecvfrom, Handled
<1>6. CASE Environment /\ ~Stops
  <2>1. events' = events
    BY <1>6 DEF Environment, Stops, process, Connect, PeerFin, PeerReset, PeerSend,
      HubSend, HubLeaves, HubReset, Datagram, Restart
  <2>2. edge \subseteq edge'
    BY <1>6 DEF Environment, Stops, Connect, PeerFin, PeerReset, PeerSend, Wake, WakeConn,
      HubSend, HubLeaves, HubReset, Datagram, Restart
  <2> QED BY <2>1, <2>2
<1>7. CASE UNCHANGED vars
  BY <1>7 DEF vars, process
<1> QED BY <1>1, <1>2, <1>3, <1>4, <1>5, <1>6, <1>7 DEF Next, LoopStep, Environment, Stops

LEMMA AcceptNotWedgedStep ==
  ASSUME TypeOK, QueueSound, AcceptNotWedged, [Next]_vars
  PROVE  AcceptNotWedged'
<1> SUFFICES ASSUME Len(accq') = Backlog PROVE TcpSock \in edge' \cup events'
  BY DEF AcceptNotWedged
<1>1. ~Stops
  <2>1. Stops => Len(accq') = 0
    BY StopsStop, EmptySeq DEF Stop
  <2> QED BY <2>1, SizeAssumption
<1>2. ~Accept
  <2>1. Accept => Len(accq') = Len(accq) - 1 /\ Len(accq) \in Nat
    BY QueueHead, HeadTailProperties DEF Accept, TypeOK
  <2> QED BY <2>1, SizeAssumption DEF TypeOK
<1>3. CASE \E d \in Conn : Connect(d)
  BY <1>3 DEF Connect, Wake
<1>4. CASE accq' = accq
  <2>1. TcpSock \in edge \cup events
    BY <1>4 DEF AcceptNotWedged
  <2>2. accq # <<>>
    <3>1. Len(accq) # 0
      BY <1>4, SizeAssumption
    <3> QED BY <3>1, EmptySeq
  <2>3. Readable(TcpSock)
    BY <2>2 DEF Readable
  <2>4. ~Handles(TcpSock)
    BY <1>2 DEF Handles, ZigbeeRecv, HasInput, ZigbeeClose, Open
  <2> QED BY <1>1, <2>1, <2>3, <2>4, WakeupKept
<1>5. ASSUME \A d \in Conn : ~Connect(d)
      PROVE  accq' = accq
  BY <1>1, <1>2, <1>5 DEF Next, LoopStep, Environment, Stops, vars, clients, EpollWait,
    ZigbeeRecv, ZigbeeClose, MqReceive, ClientRecv, UdpDispatch, UdpRecvfrom, PeerFin,
    PeerReset, PeerSend, HubSend, HubLeaves, HubReset, Datagram, Restart
<1> QED BY <1>3, <1>4, <1>5

(* Although the loop accepts one connection per edge, the listener is never *)
(* left with a full queue and no wakeup (main.c:87-95, 183-196).            *)
THEOREM ListenerNotWedged == Spec => []AcceptNotWedged
<1>1. Init => AcceptNotWedged
  <2>1. Init => Len(accq) = 0
    BY EmptySeq DEF Init
  <2> QED BY <2>1, SizeAssumption DEF AcceptNotWedged
<1>2. LoopInv /\ AcceptNotWedged /\ [Next]_vars => AcceptNotWedged'
  BY AcceptNotWedgedStep DEF LoopInv
<1> QED BY <1>1, <1>2, LoopInvariant, PTL DEF Spec

-----------------------------------------------------------------------------
(* Routes.  A descriptor belongs to one connection at a time, and a closed  *)
(* connection stays closed.                                                 *)
FdsDistinct == \A d, e \in Conn : Open(d) /\ sock[d] = sock[e] => d = e

(* What a step may do to connections and to the table. *)
LEMMA SockStep ==
  ASSUME TypeOK, QueueSound, [Next]_vars, NEW d \in Conn, sock'[d] # sock[d]
  PROVE  \/ Stops
         \/ Accept /\ d = Head(accq) /\ sock[d] = Queued /\ sock'[d] \in FreeFds
         \/ ZigbeeClose(d) /\ sock'[d] = Closed
         \/ Connect(d) /\ sock[d] = Idle /\ sock'[d] = Queued
<1>1. CASE Accept
  <2>1. Head(accq) \in Conn /\ sock[Head(accq)] = Queued
    BY <1>1, QueueHead DEF Accept
  <2> QED BY <1>1, <2>1 DEF Accept, TypeOK
<1>2. ASSUME NEW e \in Conn, ZigbeeClose(e) \/ Connect(e)
      PROVE  d = e
  BY <1>2 DEF ZigbeeClose, Connect, TypeOK
<1>3. CASE ZigbeeClose(d) \/ Connect(d)
  BY <1>3 DEF ZigbeeClose, Connect, TypeOK
<1>4. ASSUME ~Stops, ~Accept, \A e \in Conn : ~ZigbeeClose(e) /\ ~Connect(e)
      PROVE  sock' = sock
  BY <1>4 DEF Next, LoopStep, Environment, Stops, vars, clients, EpollWait,
    ZigbeeRecv, MqReceive, ClientRecv, UdpDispatch, UdpRecvfrom, PeerFin,
    PeerReset, PeerSend, HubSend, HubLeaves, HubReset, Datagram, Restart
<1> QED BY <1>1, <1>2, <1>3, <1>4

LEMMA FdsDistinctStep ==
  ASSUME TypeOK, QueueSound, FdsDistinct, [Next]_vars
  PROVE  FdsDistinct'
<1> SUFFICES ASSUME NEW d \in Conn, NEW e \in Conn, Open(d)', sock'[d] = sock'[e]
             PROVE  d = e
  BY DEF FdsDistinct
<1>1. ~Stops
  BY StopsStop DEF Stop, Open
<1>2. CASE sock'[d] = sock[d] /\ sock'[e] = sock[e]
  BY <1>2 DEF FdsDistinct, Open
<1>3. CASE sock'[d] # sock[d]
  <2>1. Accept /\ d = Head(accq) /\ sock'[d] \in FreeFds
    BY <1>1, <1>3, SockStep DEF Open
  <2>2. sock'[e] # sock[e]
    BY <2>1 DEF FreeFds
  <2> QED BY <1>1, <2>1, <2>2, SockStep DEF Open, FreeFds
<1>4. CASE sock'[e] # sock[e]
  <2>1. Accept /\ e = Head(accq) /\ sock'[e] \in FreeFds
    BY <1>1, <1>4, SockStep DEF Open
  <2>2. sock'[d] # sock[d]
    BY <2>1 DEF FreeFds
  <2> QED BY <1>1, <2>1, <2>2, SockStep DEF Open, FreeFds
<1> QED BY <1>2, <1>3, <1>4

(* A binding is new only for the connection whose frames were just read. *)
LEMMA TableStep ==
  ASSUME TypeOK, [Next]_vars, ~Stops, NEW c \in Coor, coors'[c] # NoFd
  PROVE  \/ coors'[c] = coors[c] /\ registrar'[c] = registrar[c]
         \/ \E d \in Conn :
              /\ ZigbeeRecv(d) /\ c \in CoorIds(Received(rx[d]))
              /\ coors'[c] = sock[d] /\ registrar'[c] = d /\ Open(d)
<1>1. ASSUME NEW d \in Conn, ZigbeeRecv(d)
      PROVE  \/ coors'[c] = coors[c] /\ registrar'[c] = registrar[c]
             \/ /\ c \in CoorIds(Received(rx[d]))
                /\ coors'[c] = sock[d] /\ registrar'[c] = d /\ Open(d)
  <2>1. PICK id \in CoorIds(Received(rx[d])) :
          /\ Table!coor_add(id, sock[d])
          /\ registrar' = [registrar EXCEPT ![id] = d]
    BY <1>1 DEF ZigbeeRecv
  <2>2. id \in Coor /\ Open(d)
    BY <1>1, OursFacts DEF ZigbeeRecv, HasInput
  <2>3. CASE c # id
    BY <2>1, <2>2, <2>3 DEF TypeOK, Table!TypeOK, Table!coor_add, Table!Bind, Table!NoMemory
  <2>4. CASE c = id
    BY <2>1, <2>2, <2>4
    DEF TypeOK, Table!TypeOK, Table!coor_add, Table!Bind, Table!NoMemory, NoFd
  <2> QED BY <2>3, <2>4
<1>2. ASSUME \A d \in Conn : ~ZigbeeRecv(d)
      PROVE  coors' = coors /\ registrar' = registrar
  BY <1>2 DEF Next, LoopStep, Environment, Stops, vars, table, EpollWait, Accept,
    ZigbeeClose, MqReceive, ClientRecv, UdpDispatch, UdpRecvfrom, Connect, PeerFin,
    PeerReset, PeerSend, HubSend, HubLeaves, HubReset, Datagram, Restart
<1> QED BY <1>1, <1>2

LEMMA RouteStaleStep ==
  ASSUME TypeOK, QueueSound, RouteStaleOnlyAfterClose, [Next]_vars
  PROVE  RouteStaleOnlyAfterClose'
<1> SUFFICES ASSUME NEW c \in Coor, coors'[c] # NoFd
             PROVE  /\ registrar'[c] \in Conn
                    /\ sock'[registrar'[c]] \in {coors'[c], Closed}
  BY DEF RouteStaleOnlyAfterClose
<1>1. ~Stops
  BY StopsStop DEF Stop
<1>2. CASE coors'[c] = coors[c] /\ registrar'[c] = registrar[c]
  <2> DEFINE r == registrar[c]
  <2>1. r \in Conn /\ sock[r] \in {coors[c], Closed}
    BY <1>2 DEF RouteStaleOnlyAfterClose
  <2>2. coors[c] \in ClientFds
    BY <1>2 DEF TypeOK, Table!TypeOK, NoFd
  <2>3. CASE sock'[r] = sock[r]
    BY <1>2, <2>1, <2>3
  <2>4. CASE sock'[r] # sock[r]
    <3>1. sock[r] \notin {Queued, Idle}
      BY <2>1, <2>2
    <3>2. sock'[r] = Closed
      BY <1>1, <2>1, <2>4, <3>1, SockStep
    <3> QED BY <1>2, <2>1, <3>2
  <2> QED BY <2>3, <2>4
<1>3. ASSUME NEW d \in Conn, ZigbeeRecv(d), coors'[c] = sock[d], registrar'[c] = d
      PROVE  registrar'[c] \in Conn /\ sock'[registrar'[c]] \in {coors'[c], Closed}
  BY <1>3 DEF ZigbeeRecv
<1> QED BY <1>1, <1>2, <1>3, TableStep

(* A route goes stale in one way only: the connection that registered it is *)
(* closed (main.c:302, 316; coor.c:27-46).                                  *)
THEOREM StaleRoutesComeFromClose == Spec => []RouteStaleOnlyAfterClose
<1>1. Init => RouteStaleOnlyAfterClose
  BY DEF Init, Table!Init, RouteStaleOnlyAfterClose, NoFd
<1>2. LoopInv /\ RouteStaleOnlyAfterClose /\ [Next]_vars => RouteStaleOnlyAfterClose'
  BY RouteStaleStep DEF LoopInv
<1> QED BY <1>1, <1>2, LoopInvariant, PTL DEF Spec

-----------------------------------------------------------------------------
(* The histories: got only grows while the process lives, and a coordinator *)
(* whose frame ends a chunk has been recorded.                              *)
LEMMA GotGrows ==
  ASSUME TypeOK, [Next]_vars, ~Stops, NEW d \in Conn
  PROVE  got[d] \subseteq got'[d]
<1>1. CASE \E e \in Conn : ZigbeeRecv(e)
  BY <1>1 DEF ZigbeeRecv, TypeOK
<1>2. ASSUME \A e \in Conn : ~ZigbeeRecv(e)
      PROVE  got' = got
  BY <1>2 DEF Next, LoopStep, Environment, Stops, vars, history, EpollWait, Accept,
    ZigbeeClose, MqReceive, ClientRecv, UdpDispatch, UdpRecvfrom, Connect, PeerFin,
    PeerReset, PeerSend, HubSend, HubLeaves, HubReset, Datagram, Restart
<1> QED BY <1>1, <1>2

LEMMA AnnouncedByRecv ==
  ASSUME TypeOK, Frames \subseteq Coor, NEW d \in Conn, ZigbeeRecv(d),
         NEW c \in CoorIds(Received(rx[d]))
  PROVE  c \in got'[d]
<1> DEFINE msg == Received(rx[d])
<1>1. /\ msg \in Seq(Frames) /\ Len(msg) = Least(Len(rx[d]), RecvMax)
      /\ Len(rx[d]) \in Nat \ {0}
  BY RecvFacts, EmptySeq DEF ZigbeeRecv, HasInput, TypeOK
<1>2. Len(msg) \in Nat \ {0}
  BY <1>1, SizeAssumption DEF Least
<1> HIDE DEF msg
<1>3. \A i \in 1 .. Len(msg) : msg[i] \in Coor /\ msg[i] # Short
  BY <1>1, ElementOfSeq, DataAssumption, KindAssumption
<1>4. 1 \in Ours(msg)
  BY <1>2, <1>3 DEF Ours
<1>5. c \in {msg[i] : i \in Ours(msg)}
  BY <1>4 DEF CoorIds, msg
<1> QED BY <1>5 DEF ZigbeeRecv, TypeOK, msg

LEMMA RouteAnnouncedStep ==
  ASSUME TypeOK, RouteStaleOnlyAfterClose, RouteAnnounced, [Next]_vars
  PROVE  RouteAnnounced'
<1> SUFFICES ASSUME Frames \subseteq Coor, NEW c \in Coor, coors'[c] # NoFd
             PROVE  c \in got'[registrar'[c]]
  BY DEF RouteAnnounced
<1>1. ~Stops
  BY StopsStop DEF Stop
<1>2. CASE coors'[c] = coors[c] /\ registrar'[c] = registrar[c]
  <2>1. registrar[c] \in Conn /\ c \in got[registrar[c]]
    BY <1>2 DEF RouteStaleOnlyAfterClose, RouteAnnounced
  <2> QED BY <1>1, <1>2, <2>1, GotGrows
<1>3. ASSUME NEW d \in Conn, ZigbeeRecv(d), c \in CoorIds(Received(rx[d])), registrar'[c] = d
      PROVE  c \in got'[registrar'[c]]
  BY <1>3, AnnouncedByRecv
<1> QED BY <1>1, <1>2, <1>3, TableStep

LEMMA MisroutedStep ==
  ASSUME TypeOK, QueueSound, FdsDistinct, RouteStaleOnlyAfterClose, RouteAnnounced,
         MisroutedOnlyByReuse, [Next]_vars
  PROVE  MisroutedOnlyByReuse'
<1> SUFFICES ASSUME Frames \subseteq Coor, NEW d \in Conn, NEW c \in cmds'[d] \ got'[d]
             PROVE  \E e \in Conn \ {d} : sock'[e] = Closed /\ c \in got'[e]
  BY DEF MisroutedOnlyByReuse
<1>1. ~Stops
  BY StopsStop DEF Stop
<1>2. c \notin got[d]
  BY <1>1, GotGrows
<1>3. ASSUME NEW e \in Conn \ {d}, sock[e] = Closed, c \in got[e]
      PROVE  sock'[e] = Closed /\ c \in got'[e]
  BY <1>1, <1>3, GotGrows, SockStep
<1>4. \E e \in Conn \ {d} : sock[e] = Closed /\ c \in got[e]
  <2>1. CASE c \in cmds[d]
    BY <1>2, <2>1 DEF MisroutedOnlyByReuse
  <2>2. CASE c \notin cmds[d]
    <3>1. ClientRecv
      BY <1>1, <2>2 DEF Next, LoopStep, Environment, Stops, vars, history, EpollWait,
        Accept, ZigbeeRecv, ZigbeeClose, MqReceive, UdpDispatch, UdpRecvfrom, Connect,
        PeerFin, PeerReset, PeerSend, HubSend, HubLeaves, HubReset, Datagram, Restart
    <3>2. Open(d) /\ sock[d] = Target /\ c = Head(hubrx)
      BY <2>2, <3>1 DEF ClientRecv, TypeOK
    <3>3. c \in Coor /\ coors[c] = sock[d] /\ coors[c] # NoFd
      BY <3>2 DEF Target, Open
    <3>4. /\ registrar[c] \in Conn /\ c \in got[registrar[c]]
          /\ sock[registrar[c]] \in {coors[c], Closed}
      BY <3>3 DEF RouteStaleOnlyAfterClose, RouteAnnounced
    <3>5. registrar[c] # d
      BY <1>2, <3>4
    <3>6. sock[registrar[c]] = Closed
      BY <3>2, <3>3, <3>4, <3>5 DEF FdsDistinct
    <3> QED BY <3>4, <3>5, <3>6
  <2> QED BY <2>1, <2>2
<1> QED BY <1>3, <1>4

RouteInv == LoopInv /\ FdsDistinct /\ RouteStaleOnlyAfterClose /\ RouteAnnounced
              /\ MisroutedOnlyByReuse

THEOREM RouteInvariant == Spec => []RouteInv
<1>1. Init => FdsDistinct
  BY DEF Init, FdsDistinct, Open
<1>2. Init => RouteStaleOnlyAfterClose /\ RouteAnnounced
  BY DEF Init, Table!Init, RouteStaleOnlyAfterClose, RouteAnnounced, NoFd
<1>3. Init => MisroutedOnlyByReuse
  BY DEF Init, MisroutedOnlyByReuse
<1>4. Init => RouteInv
  BY <1>1, <1>2, <1>3, LoopInvInit DEF RouteInv
<1>5. RouteInv /\ LoopInv' /\ [Next]_vars => RouteInv'
  BY FdsDistinctStep, RouteStaleStep, RouteAnnouncedStep, MisroutedStep
  DEF RouteInv, LoopInv
<1> QED BY <1>4, <1>5, LoopInvariant, PTL DEF Spec

(* A command reaches a connection its coordinator never spoke on only when  *)
(* the coordinator's own connection is closed and its descriptor is in the  *)
(* hands of another (main.c:240-245, 302, 316).                             *)
THEOREM MisroutingNeedsReuse == Spec => []MisroutedOnlyByReuse
<1>1. RouteInv => MisroutedOnlyByReuse
  BY DEF RouteInv
<1> QED BY <1>1, RouteInvariant, PTL

(* With whole frames only, the table never binds a coordinator to a         *)
(* connection none of its frames came from (main.c:291-302).                *)
THEOREM RoutesAreAnnounced == Spec => []RouteAnnounced
<1>1. RouteInv => RouteAnnounced
  BY DEF RouteInv
<1> QED BY <1>1, RouteInvariant, PTL

-----------------------------------------------------------------------------
(* Edge-triggered reading. *)
RxBounded == \A d \in Conn : Len(rx[d]) <= RxMax

LEMMA RxStep ==
  ASSUME TypeOK, [Next]_vars, NEW d \in Conn, rx'[d] # rx[d]
  PROVE  \/ Stops /\ rx'[d] = <<>>
         \/ ZigbeeRecv(d) /\ rx'[d] = Remaining(rx[d]) /\ rx[d] # <<>>
         \/ \E m \in Frames : PeerSend(d, m) /\ rx'[d] = Append(rx[d], m)
<1>1. CASE Stops
  BY <1>1, StopsStop DEF Stop
<1>2. ASSUME NEW e \in Conn, ZigbeeRecv(e)
      PROVE  d = e /\ rx'[d] = Remaining(rx[d]) /\ rx[d] # <<>>
  BY <1>2 DEF ZigbeeRecv, HasInput, TypeOK
<1>3. ASSUME NEW e \in Conn, NEW m \in Frames, PeerSend(e, m)
      PROVE  d = e /\ rx'[d] = Append(rx[d], m)
  BY <1>3 DEF PeerSend, TypeOK
<1>4. ASSUME ~Stops, \A e \in Conn : ~ZigbeeRecv(e) /\ \A m \in Frames : ~PeerSend(e, m)
      PROVE  rx' = rx
  BY <1>4 DEF Next, LoopStep, Environment, Stops, vars, clients, EpollWait, Accept,
    ZigbeeClose, MqReceive, ClientRecv, UdpDispatch, UdpRecvfrom, Connect, PeerFin,
    PeerReset, HubSend, HubLeaves, HubReset, Datagram, Restart
<1> QED BY <1>1, <1>2, <1>3, <1>4

LEMMA RxBoundedStep ==
  ASSUME TypeOK, RxBounded, [Next]_vars
  PROVE  RxBounded'
<1> SUFFICES ASSUME NEW d \in Conn PROVE Len(rx'[d]) <= RxMax
  BY DEF RxBounded
<1>0. rx[d] \in Seq(Frames) /\ Len(rx[d]) \in Nat /\ Len(rx[d]) <= RxMax
  BY LenProperties DEF TypeOK, RxBounded
<1>1. CASE rx'[d] = rx[d]
  BY <1>0, <1>1
<1>2. CASE rx'[d] = <<>>
  <2>1. Len(<<>>) = 0
    BY EmptySeq
  <2> QED BY <1>2, <2>1, SizeAssumption
<1>3. CASE rx'[d] = Remaining(rx[d]) /\ rx[d] # <<>>
  <2>1. Len(rx'[d]) = Len(rx[d]) - Least(Len(rx[d]), RecvMax)
    BY <1>0, <1>3, RecvFacts
  <2> QED BY <1>0, <2>1, SizeAssumption DEF Least
<1>4. ASSUME NEW m \in Frames, PeerSend(d, m), rx'[d] = Append(rx[d], m)
      PROVE  Len(rx'[d]) <= RxMax
  <2>1. Len(rx'[d]) = Len(rx[d]) + 1 /\ Len(rx[d]) < RxMax
    BY <1>0, <1>4, AppendProperties DEF PeerSend
  <2> QED BY <1>0, <2>1, SizeAssumption
<1> QED BY <1>1, <1>2, <1>3, <1>4, RxStep

LEMMA LeftBound ==
  ASSUME NEW n \in Nat, n <= RxMax
  PROVE  /\ MaxLeft \in Nat /\ Least(n, RecvMax) \in Nat
         /\ n - Least(n, RecvMax) <= MaxLeft
<1>1. RecvMax \in Nat /\ RxMax \in Nat
  BY SizeAssumption
<1>2. CASE RecvMax < RxMax
  BY <1>1, <1>2 DEF MaxLeft, Least
<1>3. CASE ~(RecvMax < RxMax)
  BY <1>1, <1>3 DEF MaxLeft, Least
<1> QED BY <1>2, <1>3

LEMMA NoUnreadStep ==
  ASSUME TypeOK, QueueSound, FdsDistinct, RxBounded, NoUnreadWithoutWakeup, [Next]_vars
  PROVE  NoUnreadWithoutWakeup'
<1> SUFFICES ASSUME NEW d \in Conn, Open(d)', Len(rx'[d]) > MaxLeft
             PROVE  sock'[d] \in edge' \cup events'
  BY DEF NoUnreadWithoutWakeup, MaxLeft
<1>0. /\ rx[d] # <<>> => ~(rx'[d] = Remaining(rx[d]))
      /\ rx'[d] # <<>>
  <2>1. rx[d] \in Seq(Frames) /\ Len(rx[d]) <= RxMax /\ Len(rx[d]) \in Nat
    BY LenProperties DEF TypeOK, RxBounded
  <2>2. /\ MaxLeft \in Nat /\ Least(Len(rx[d]), RecvMax) \in Nat
        /\ Len(rx[d]) - Least(Len(rx[d]), RecvMax) <= MaxLeft
    BY <2>1, LeftBound
  <2>3. CASE rx[d] # <<>> /\ rx'[d] = Remaining(rx[d])
    <3>1. Len(rx'[d]) = Len(rx[d]) - Least(Len(rx[d]), RecvMax)
      BY <2>1, <2>3, RecvFacts
    <3> QED BY <2>1, <2>2, <3>1
  <2>4. CASE rx'[d] = <<>>
    <3>1. Len(rx'[d]) = 0
      BY <2>4, EmptySeq
    <3> QED BY <2>2, <3>1
  <2> QED BY <2>3, <2>4
<1>1. ~Stops
  BY <1>0, StopsStop DEF Stop
<1>2. CASE rx'[d] # rx[d]
  <2>1. PICK m \in Frames : PeerSend(d, m)
    BY <1>0, <1>1, <1>2, RxStep
  <2> QED BY <2>1 DEF PeerSend, WakeConn, Open
<1>3. CASE rx'[d] = rx[d] /\ sock'[d] # sock[d]
  <2>1. Accept /\ d = Head(accq)
    BY <1>1, <1>3, SockStep DEF Open
  <2>2. PICK f \in FreeFds : sock' = [sock EXCEPT ![d] = f] /\ edge' = Added(d, f)
    BY <2>1 DEF Accept
  <2>3. Stirred(d)
    BY <1>0, <1>3 DEF Stirred
  <2> QED BY <2>2, <2>3 DEF Added, TypeOK
<1>4. CASE rx'[d] = rx[d] /\ sock'[d] = sock[d]
  <2>1. Open(d) /\ sock[d] \in edge \cup events /\ sock[d] \notin {TcpSock, UdpSock, Uplink}
    BY <1>4 DEF NoUnreadWithoutWakeup, Open
  <2>2. Readable(sock[d])
    BY <1>0, <1>4, <2>1 DEF Readable, Stirred
  <2>3. ASSUME NEW e \in Conn, ZigbeeRecv(e) \/ ZigbeeClose(e), sock[d] = sock[e]
        PROVE  FALSE
    <3>1. e = d
      BY <2>1, <2>3 DEF FdsDistinct
    <3>2. CASE ZigbeeClose(e)
      BY <1>4, <2>1, <3>1, <3>2 DEF ZigbeeClose, TypeOK, Open
    <3>3. CASE ZigbeeRecv(e)
      <4>1. rx[d] # <<>> /\ rx'[d] = Remaining(rx[d])
        BY <3>1, <3>3 DEF ZigbeeRecv, HasInput, TypeOK
      <4> QED BY <1>0, <4>1
    <3> QED BY <2>3, <3>2, <3>3
  <2>4. ~Handles(sock[d])
    BY <2>1, <2>3 DEF Handles
  <2> QED BY <1>1, <1>4, <2>1, <2>2, <2>4, WakeupKept
<1> QED BY <1>2, <1>3, <1>4

(* Edge-triggered reading leaves no more on an accepted connection without  *)
(* a wakeup than one recv may leave of a full buffer, and nothing when it   *)
(* empties every buffer (main.c:193-195, 279-311).                          *)
THEOREM NoFrameForgotten == Spec => []NoUnreadWithoutWakeup
<1>1. Init => RxBounded /\ NoUnreadWithoutWakeup
  <2>1. Init => \A d \in Conn : rx[d] = <<>>
    BY DEF Init
  <2>2. Len(<<>>) = 0
    BY EmptySeq
  <2> QED BY <2>1, <2>2, SizeAssumption DEF RxBounded, NoUnreadWithoutWakeup, MaxLeft
<1>2. RouteInv /\ RxBounded /\ NoUnreadWithoutWakeup /\ [Next]_vars
        => RxBounded' /\ NoUnreadWithoutWakeup'
  BY RxBoundedStep, NoUnreadStep DEF RouteInv, LoopInv
<1> QED BY <1>1, <1>2, RouteInvariant, PTL DEF Spec
=============================================================================
