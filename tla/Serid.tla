-------------------------------- MODULE Serid --------------------------------
(***************************************************************************)
(* The event loop of serid (serid/src/main.c): one thread, one epoll set,  *)
(* a listening socket for the zigbee coordinators, a UDP socket, and an    *)
(* uplink that is either a connection to the mqtt_client hub (the build    *)
(* with MQTT_EXTERNAL) or a POSIX message queue (the build the Makefile    *)
(* makes).  A step of the loop is one call of epoll_wait or the handling   *)
(* of one event; between two of them the peers, the hub and the network    *)
(* move as they like.                                                      *)
(***************************************************************************)
EXTENDS Integers, Sequences, FiniteSets, Chunks

CONSTANTS
  Conn,          (* the connections coordinators may open, each once       *)
  NoConn,
  Frames,        (* what a peer may send: ids, Skip, Short                 *)
  Docs,          (* what the hub may send: ids of commands, Short          *)
  Datagrams,     (* what may reach the UDP port: "data", "empty"           *)
  Faulty,        (* whether resets, signals, crashes and restarts happen   *)
  MqttExternal,  (* the build: MQTT_EXTERNAL                               *)
  MaxClients,    (* descriptors left for clients under RLIMIT_NOFILE       *)
  Backlog,       (* connections listen(tcp_sock, 1) lets wait              *)
  NumEvents,     (* NUM_EVENTS                                             *)
  RecvMax,       (* frames or documents one recv of MAX_BUFFER_SIZE holds  *)
  RxMax,         (* bound: units a receive buffer is allowed to hold       *)
  MqMaxMsg,      (* msg_max of the queue                                   *)
  MqMsgSize,     (* mq_msgsize of the queue                                *)
  MaxBufferSize, (* MAX_BUFFER_SIZE                                        *)
  Leftover       (* messages an earlier run may have left in the queue     *)

TcpSock == 4     (* epfd is 3 *)
UdpSock == 5
Uplink  == 6     (* client_sock or mq_fd *)
ClientFds == 7 .. (6 + MaxClients)

(* What a connection is to serid when it is not one of its descriptors. *)
Idle   == -4     (* not opened yet          *)
Queued == -3     (* waiting to be accepted  *)
Closed == -2

ASSUME ConnAssumption == NoConn \notin Conn
ASSUME DataAssumption ==
  /\ Frames \subseteq Coor \cup {Skip, Short}
  /\ Docs \subseteq Coor \cup {Short}
  /\ Datagrams \subseteq {"data", "empty"}
ASSUME BuildAssumption == MqttExternal \in BOOLEAN /\ Faulty \in BOOLEAN
ASSUME SizeAssumption ==
  /\ MaxClients \in Nat \ {0} /\ Backlog \in Nat \ {0}
  /\ NumEvents \in Nat \ {0}
  /\ RecvMax \in Nat \ {0} /\ RxMax \in Nat \ {0}
  /\ MqMaxMsg \in Nat \ {0} /\ MqMsgSize \in Nat /\ MaxBufferSize \in Nat
  /\ Leftover \subseteq 0 .. MqMaxMsg

VARIABLES
  phase,     (* what the thread is doing                                    *)
  sock,      (* per connection: its descriptor, or Idle, Queued, Closed      *)
  peer,      (* per connection: what the kernel has seen of the peer         *)
  rx,        (* per connection: its receive buffer                           *)
  accq,      (* the accept queue of tcp_sock                                 *)
  edge,      (* edge-triggered descriptors with a wakeup not yet reported    *)
  events,    (* the rest of the batch epoll_wait returned                    *)
  coors,     (* the coordinator table                                        *)
  mqlen,     (* messages in the queue; it outlives the process               *)
  hub,       (* what the kernel has seen of the hub                          *)
  hubrx,     (* receive buffer of client_sock                                *)
  udpq,      (* receive buffer of udp_sock                                   *)
  got,       (* history: the ids read from each connection                   *)
  cmds,      (* history: the ids of the commands sent on each connection     *)
  registrar  (* history: the connection each id was last announced on         *)

process == <<phase, events>>
clients == <<sock, peer, rx, accq>>
uplink  == <<mqlen, hub, hubrx>>
table   == <<coors, registrar>>
history == <<got, cmds>>
vars == <<process, clients, edge, uplink, udpq, table, history>>

Table == INSTANCE CoorMap WITH fdof <- coors, Fd <- ClientFds

NoFd == Table!NoFd

Down == phase \in {"exited", "killed"}
Open(d) == sock[d] \in ClientFds
Least(m, n) == IF m < n THEN m ELSE n

-----------------------------------------------------------------------------
(* Data, a FIN or a reset wait on the connection: recv would return. *)
Stirred(d) == rx[d] # <<>> \/ peer[d] # "up"

Readable(f) ==
  \/ f = TcpSock /\ accq # <<>>
  \/ f = UdpSock /\ udpq # <<>>
  \/ f = Uplink /\ MqttExternal /\ (hubrx # <<>> \/ hub \notin {"up", "absent"})
  \/ f = Uplink /\ ~MqttExternal /\ mqlen > 0
  \/ \E d \in Conn : sock[d] = f /\ Open(d) /\ Stirred(d)

(* Reported by the next epoll_wait: the queue whenever it is readable, the *)
(* others only on a wakeup since they were last reported.                  *)
Ready == {f \in edge \cup (IF MqttExternal THEN {} ELSE {Uplink}) : Readable(f)}

(* Mutants: i does not advance; a break leaves the for loop. *)
HandledTwice(f) == events' = events
HandledAlone(f) == events' = {}

Handled(f) == events' = events \ {f}

(* exit(1), SIGPIPE or a kill: the kernel closes what the process had and   *)
(* keeps the queue; the histories are those of one process.                 *)
Stop(p) ==
  /\ phase' = p
  /\ events' = {}
  /\ sock' = [d \in Conn |-> IF sock[d] = Idle THEN Idle ELSE Closed]
  /\ rx' = [d \in Conn |-> <<>>]
  /\ accq' = <<>>
  /\ edge' = {}
  /\ hub' = "absent"
  /\ hubrx' = <<>>
  /\ udpq' = <<>>
  /\ coors' = [c \in Coor |-> NoFd]
  /\ registrar' = [c \in Coor |-> NoConn]
  /\ peer' = [d \in Conn |-> "up"]
  /\ got' = [d \in Conn |-> {}]
  /\ cmds' = [d \in Conn |-> {}]
  /\ UNCHANGED mqlen

(* serid has bound its sockets and connected or failed to connect to the   *)
(* hub; client_sock is put into the epoll set only when it connected.      *)
HubAtStart == IF MqttExternal THEN {"up", "absent"} ELSE {"absent"}

Init ==
  /\ phase = "running" /\ events = {} /\ edge = {}
  /\ sock = [d \in Conn |-> Idle]
  /\ peer = [d \in Conn |-> "up"]
  /\ rx = [d \in Conn |-> <<>>]
  /\ accq = <<>>
  /\ mqlen \in Leftover
  /\ hub \in HubAtStart
  /\ hubrx = <<>> /\ udpq = <<>>
  /\ Table!Init
  /\ registrar = [c \in Coor |-> NoConn]
  /\ got = [d \in Conn |-> {}]
  /\ cmds = [d \in Conn |-> {}]

-----------------------------------------------------------------------------
(* The loop *)

(* Wakeups that stay for the next call.  Mutant: none do. *)
NothingKept == {}

Kept == (edge \cap Ready) \ events'

(* At most NUM_EVENTS of the ready descriptors; the rest keep their wakeup. *)
EpollWait ==
  /\ phase = "running"
  /\ events = {}
  /\ Ready # {}
  /\ IF Cardinality(Ready) <= NumEvents
     THEN events' = Ready
     ELSE events' \in {S \in SUBSET Ready : Cardinality(S) = NumEvents}
  /\ edge' = Kept
  /\ UNCHANGED <<phase, clients, uplink, udpq, table, history>>

(* A stop signal and its SIGCONT end epoll_wait with EINTR. *)
EpollWaitInterrupted ==
  /\ Faulty
  /\ phase = "running"
  /\ events = {}
  /\ Stop("exited")

FreeFds == ClientFds \ {sock[d] : d \in Conn}

(* EPOLL_CTL_ADD reports what has already arrived.  Mutant: it is forgotten. *)
NotAdded(d, f) == edge

Added(d, f) == edge \cup (IF Stirred(d) THEN {f} ELSE {})

(* One accept per event, whatever the queue holds. *)
Accept ==
  /\ phase = "running"
  /\ TcpSock \in events
  /\ accq # <<>>
  /\ \E f \in FreeFds :
       /\ \A g \in FreeFds : f <= g
       /\ sock' = [sock EXCEPT ![Head(accq)] = f]
       /\ edge' = Added(Head(accq), f)
  /\ accq' = Tail(accq)
  /\ Handled(TcpSock)
  /\ UNCHANGED <<phase, peer, rx, uplink, udpq, table, history>>

(* No descriptor is left (EMFILE). *)
AcceptFails ==
  /\ phase = "running"
  /\ TcpSock \in events
  /\ FreeFds = {}
  /\ Stop("exited")

(* A peer that has reset turns the first send into an error and the next    *)
(* into SIGPIPE, and so does a socket that was never connected.             *)
AfterSend(s) == IF s = "reset" THEN "broken" ELSE s
SendKills(s) == s \in {"broken", "absent"}

-----------------------------------------------------------------------------
(* A coordinator's connection *)

Received(buf) == SubSeq(buf, 1, Least(Len(buf), RecvMax))

Remaining(buf) == SubSeq(buf, Least(Len(buf), RecvMax) + 1, Len(buf))

(* Mutant: one message too many. *)
MqOverfull == mqlen > MqMaxMsg

MqFull == mqlen >= MqMaxMsg

(* The document goes up even when it lists no device. *)
SendUp ==
  \/ /\ MqttExternal
     /\ hub' = AfterSend(hub)
     /\ UNCHANGED <<phase, mqlen>>
  \/ /\ ~MqttExternal
     /\ ~MqFull
     /\ mqlen' = mqlen + 1
     /\ UNCHANGED <<phase, hub>>
  \/ /\ ~MqttExternal
     /\ MqFull
     /\ phase' = "mqsend"
     /\ UNCHANGED <<mqlen, hub>>

HasInput(d) ==
  /\ phase = "running"
  /\ Open(d)
  /\ sock[d] \in events
  /\ rx[d] # <<>>

(* recv, seri_msgproc, coor_add, and the document sent up.  mq_send blocks  *)
(* on a full queue: the thread never leaves it, as nobody else takes from   *)
(* the queue.                                                               *)
ZigbeeRecv(d) ==
  /\ HasInput(d)
  /\ ~(MqttExternal /\ SendKills(hub))
  /\ \E id \in CoorIds(Received(rx[d])) :
       /\ Table!coor_add(id, sock[d])
       /\ registrar' = [registrar EXCEPT ![id] = d]
  /\ got' = [got EXCEPT ![d] = @ \cup {Received(rx[d])[i] : i \in Ours(Received(rx[d]))}]
  /\ rx' = [rx EXCEPT ![d] = Remaining(@)]
  /\ SendUp
  /\ Handled(sock[d])
  /\ UNCHANGED <<sock, peer, accq, edge, hubrx, udpq, cmds>>

(* The same handler when the send to the hub raises SIGPIPE. *)
ZigbeeRecvKilled(d) ==
  /\ HasInput(d)
  /\ MqttExternal
  /\ SendKills(hub)
  /\ Stop("killed")

(* recv returned 0 or -1: the descriptor is closed and free again; the      *)
(* coordinators bound to it stay in the table.                              *)
ZigbeeClose(d) ==
  /\ phase = "running"
  /\ Open(d)
  /\ sock[d] \in events
  /\ rx[d] = <<>>
  /\ peer[d] # "up"
  /\ sock' = [sock EXCEPT ![d] = Closed]
  /\ edge' = edge \ {sock[d]}
  /\ Handled(sock[d])
  /\ UNCHANGED <<phase, peer, rx, accq, uplink, udpq, table, history>>

-----------------------------------------------------------------------------
(* The uplink *)

(* Mutant: the sizes are not compared. *)
AnyBufferFits == FALSE

(* mq_receive's EMSGSIZE. *)
BufferTooSmall == MaxBufferSize < MqMsgSize

(* Default build: received and printed, or refused; the event is over.      *)
MqReceive ==
  /\ ~MqttExternal
  /\ phase = "running"
  /\ Uplink \in events
  /\ mqlen' = IF BufferTooSmall THEN mqlen ELSE mqlen - 1
  /\ Handled(Uplink)
  /\ UNCHANGED <<phase, clients, edge, hub, hubrx, udpq, table, history>>

HubInput ==
  /\ MqttExternal
  /\ phase = "running"
  /\ Uplink \in events
  /\ hubrx # <<>>

(* Mutant: coor_findfd answers whatever node it finds. *)
AnyTarget ==
  IF \A c \in Coor : coors[c] = NoFd THEN NoFd
  ELSE CHOOSE f \in {coors[c] : c \in Coor} : f # NoFd

(* Where the command goes: json_msgproc encodes the first document of what  *)
(* was received and drops the rest.                                         *)
Target == IF Head(hubrx) \in Coor THEN coors[Head(hubrx)] ELSE NoFd

(* coor_findfd may name a descriptor that nothing holds any more: EBADF. *)
ClientRecv ==
  /\ HubInput
  /\ \A d \in Conn : Open(d) /\ sock[d] = Target => peer[d] # "broken"
  /\ cmds' = [d \in Conn |->
                IF Open(d) /\ sock[d] = Target /\ peer[d] # "reset"
                THEN cmds[d] \cup {Head(hubrx)} ELSE cmds[d]]
  /\ peer' = [d \in Conn |->
                IF Open(d) /\ sock[d] = Target THEN AfterSend(peer[d]) ELSE peer[d]]
  /\ hubrx' = Remaining(hubrx)
  /\ Handled(Uplink)
  /\ UNCHANGED <<phase, sock, rx, accq, edge, mqlen, hub, udpq, table, got>>

ClientRecvKilled ==
  /\ HubInput
  /\ \E d \in Conn : Open(d) /\ sock[d] = Target /\ peer[d] = "broken"
  /\ Stop("killed")

(* The hub has gone: serid closes client_sock and exits. *)
HubClosed ==
  /\ MqttExternal
  /\ phase = "running"
  /\ Uplink \in events
  /\ hubrx = <<>>
  /\ Stop("exited")

-----------------------------------------------------------------------------
(* The UDP socket *)

UdpDispatch ==
  /\ phase = "running"
  /\ UdpSock \in events
  /\ phase' = "udploop"
  /\ Handled(UdpSock)
  /\ UNCHANGED <<clients, edge, uplink, udpq, table, history>>

(* while (2): recvfrom until it returns more than 0.  Nothing to read is    *)
(* EAGAIN and an empty datagram is 0; both go round again.                  *)
UdpRecvfrom ==
  /\ phase = "udploop"
  /\ udpq # <<>>
  /\ phase' = IF Head(udpq) = "empty" THEN "udploop" ELSE "running"
  /\ udpq' = Tail(udpq)
  /\ UNCHANGED <<events, clients, edge, uplink, table, history>>

-----------------------------------------------------------------------------
(* The environment: coordinators, the hub, the network, the operator *)

Wake(f) == edge' = edge \cup {f}
WakeConn(d) == edge' = edge \cup (IF Open(d) THEN {sock[d]} ELSE {})
Alive(d) == Open(d) \/ sock[d] = Queued

(* The kernel completes handshakes on its own as long as the queue has room. *)
Connect(d) ==
  /\ ~Down
  /\ sock[d] = Idle
  /\ Len(accq) < Backlog
  /\ sock' = [sock EXCEPT ![d] = Queued]
  /\ accq' = Append(accq, d)
  /\ Wake(TcpSock)
  /\ UNCHANGED <<process, peer, rx, uplink, udpq, table, history>>

PeerSend(d, m) ==
  /\ Alive(d)
  /\ peer[d] = "up"
  /\ Len(rx[d]) < RxMax
  /\ rx' = [rx EXCEPT ![d] = Append(@, m)]
  /\ WakeConn(d)
  /\ UNCHANGED <<process, sock, peer, accq, uplink, udpq, table, history>>

PeerFin(d) ==
  /\ Alive(d)
  /\ peer[d] = "up"
  /\ peer' = [peer EXCEPT ![d] = "eof"]
  /\ WakeConn(d)
  /\ UNCHANGED <<process, sock, rx, accq, uplink, udpq, table, history>>

PeerReset(d) ==
  /\ Faulty
  /\ Alive(d)
  /\ peer[d] \in {"up", "eof"}
  /\ peer' = [peer EXCEPT ![d] = IF @ = "up" THEN "reset" ELSE "broken"]
  /\ WakeConn(d)
  /\ UNCHANGED <<process, sock, rx, accq, uplink, udpq, table, history>>

HubSend(m) ==
  /\ hub = "up"
  /\ Len(hubrx) < RxMax
  /\ hubrx' = Append(hubrx, m)
  /\ Wake(Uplink)
  /\ UNCHANGED <<process, clients, mqlen, hub, udpq, table, history>>

HubLeaves ==
  /\ Faulty
  /\ hub \in {"up", "eof"}
  /\ hub' = IF hub = "up" THEN "eof" ELSE "broken"
  /\ Wake(Uplink)
  /\ UNCHANGED <<process, clients, mqlen, hubrx, udpq, table, history>>

HubReset ==
  /\ Faulty
  /\ hub = "up"
  /\ hub' = "reset"
  /\ Wake(Uplink)
  /\ UNCHANGED <<process, clients, mqlen, hubrx, udpq, table, history>>

Datagram(m) ==
  /\ ~Down
  /\ Len(udpq) < RxMax
  /\ udpq' = Append(udpq, m)
  /\ Wake(UdpSock)
  /\ UNCHANGED <<process, clients, uplink, table, history>>

Crash ==
  /\ Faulty
  /\ ~Down
  /\ Stop("killed")

Restart ==
  /\ Faulty
  /\ Down
  /\ phase' = "running"
  /\ hub' \in HubAtStart
  /\ UNCHANGED <<events, clients, edge, mqlen, hubrx, udpq, table, history>>

-----------------------------------------------------------------------------
LoopStep ==
  \/ EpollWait
  \/ Accept \/ AcceptFails
  \/ \E d \in Conn : ZigbeeRecv(d) \/ ZigbeeRecvKilled(d) \/ ZigbeeClose(d)
  \/ MqReceive
  \/ ClientRecv \/ ClientRecvKilled \/ HubClosed
  \/ UdpDispatch \/ UdpRecvfrom

Environment ==
  \/ \E d \in Conn :
       \/ Connect(d) \/ PeerFin(d) \/ PeerReset(d)
       \/ \E m \in Frames : PeerSend(d, m)
  \/ \E m \in Docs : HubSend(m)
  \/ HubLeaves \/ HubReset
  \/ \E m \in Datagrams : Datagram(m)
  \/ EpollWaitInterrupted \/ Crash \/ Restart

Next == LoopStep \/ Environment

Spec == Init /\ [][Next]_vars

(* The thread is scheduled: a step of the loop that stays possible is taken. *)
(* Nothing is assumed of the peers, the hub or the operator.                 *)
FairSpec == Spec /\ WF_vars(LoopStep)

-----------------------------------------------------------------------------
(* Properties *)

(* Every variable has its type and no buffer exceeds its bound.  mqlen in   *)
(* particular never goes below 0: mq_receive is never called on an empty    *)
(* queue, where it would block (main.c:264).                                *)
TypeOK ==
  /\ phase \in {"running", "mqsend", "udploop", "exited", "killed"}
  /\ sock \in [Conn -> {Idle, Queued, Closed} \cup ClientFds]
  /\ peer \in [Conn -> {"up", "eof", "reset", "broken"}]
  /\ rx \in [Conn -> Seq(Frames)]
  /\ accq \in Seq(Conn) /\ Len(accq) <= Backlog
  /\ edge \subseteq {TcpSock, UdpSock, Uplink} \cup ClientFds
  /\ events \subseteq {TcpSock, UdpSock, Uplink} \cup ClientFds
  /\ Table!TypeOK
  /\ mqlen \in 0 .. MqMaxMsg
  /\ hub \in {"up", "absent", "eof", "reset", "broken"}
  /\ hubrx \in Seq(Coor \cup {Short})
  /\ udpq \in Seq({"data", "empty"})
  /\ got \in [Conn -> SUBSET Coor]
  /\ cmds \in [Conn -> SUBSET Coor]
  /\ registrar \in [Coor -> Conn \cup {NoConn}]

(* A descriptor epoll_wait reported is still readable when its turn in the  *)
(* batch comes, whatever the handlers before it did: none of the blocking   *)
(* recv, accept and mq_receive calls of the loop can block (main.c:181-318). *)
EventsReadable == \A f \in events : Readable(f)

(* One accept per edge can leave connections waiting, but a full accept     *)
(* queue always has a wakeup on its way: the listener is never deaf to the  *)
(* network for good (main.c:87-95, 183-196).                                *)
AcceptNotWedged == Len(accq) = Backlog => TcpSock \in edge \cup events

(* What one recv may leave of a full receive buffer.  A handler calls recv  *)
(* once (main.c:229, 288), so that much may lie there until more arrives:   *)
(* nothing at all if MAX_BUFFER_SIZE holds whatever a buffer can.           *)
MaxLeft == IF RecvMax < RxMax THEN RxMax - RecvMax ELSE 0

(* Edge-triggered reading loses no frame but those one recv may leave: when *)
(* more than these lies unread on an accepted connection, a wakeup is on    *)
(* its way (main.c:193-195, 279-311).                                       *)
NoUnreadWithoutWakeup ==
  \A d \in Conn : Open(d) /\ Len(rx[d]) > MaxLeft => sock[d] \in edge \cup events

(* The descriptor in the table is the one of the connection that registered *)
(* the coordinator, unless that connection has been closed since: closing a *)
(* connection is the only way a route goes stale (main.c:302, 316).         *)
RouteStaleOnlyAfterClose ==
  \A c \in Coor : coors[c] # NoFd =>
    /\ registrar[c] \in Conn
    /\ sock[registrar[c]] \in {coors[c], Closed}

(* If every chunk holds a whole frame of ours, a coordinator is bound only  *)
(* to a connection one of its own frames came from (main.c:291-302).        *)
RouteAnnounced ==
  Frames \subseteq Coor =>
    \A c \in Coor : coors[c] # NoFd => c \in got[registrar[c]]

(* Then a command goes to a connection its coordinator never spoke on only  *)
(* when the coordinator's own connection has been closed and its descriptor *)
(* has been given to another (main.c:240-245, 316).                         *)
MisroutedOnlyByReuse ==
  Frames \subseteq Coor =>
    \A d \in Conn : \A c \in cmds[d] \ got[d] :
      \E e \in Conn \ {d} : sock[e] = Closed /\ c \in got[e]

(* Clients that go on sending bring the default build's thread to a halt    *)
(* when its buffer of 8096 bytes is smaller than the queue's messages of    *)
(* 8192: it ends in mq_send, if not in the loop that an empty datagram      *)
(* holds it in.  Whatever an earlier run left in the queue, and however     *)
(* reads of the queue, datagrams and crashes come between, every document   *)
(* makes the queue fuller and nothing makes it emptier                      *)
(* (main.c:150, 202, 264, 306).                                             *)
BusyQueueHangs ==
  ~MqttExternal /\ MaxBufferSize < MqMsgSize =>
    ([]<>(\E d \in Conn : Open(d) /\ Len(rx[d]) > MaxLeft) =>
       <>[](phase \in {"mqsend", "udploop"}))

(* A coordinator that goes on sending is read from again and again: when    *)
(* more lies on its connection than one recv may leave, it is eventually    *)
(* read down to that (main.c:279-291).  That the rest is read too is only   *)
(* so if a recv empties the buffer; otherwise the last frames wait for the  *)
(* coordinator's next word, for ever if there is none.                      *)
FramesRead ==
  \A d \in Conn : (Open(d) /\ Len(rx[d]) > MaxLeft) ~> (Len(rx[d]) <= MaxLeft)

(* The same of the hub's commands (main.c:218-230).  Read is not obeyed:    *)
(* of what one recv returns the first document is encoded (Target).         *)
CommandsRead == (Len(hubrx) > MaxLeft) ~> (Len(hubrx) <= MaxLeft)

(* A full accept queue eventually has room again (main.c:183-196). *)
BacklogMoves == (Len(accq) = Backlog) ~> (Len(accq) < Backlog)

-----------------------------------------------------------------------------
(* What the comments and the ReadMe say, and the code does not do *)

(* main.c:239 "dispatch to the fd found by the coorid address": a command   *)
(* goes to a connection its coordinator has announced itself on.            *)
RouteMatches == \A d \in Conn : cmds[d] \subseteq got[d]

(* main.c:296-298 "send to the zigbee-mqtt server": the call that does it   *)
(* comes back.                                                              *)
SendReturns == (phase = "mqsend") ~> (phase # "mqsend")

(* main.c:312-317 "the client closed the connection": when a client has     *)
(* closed and everything it sent has been read, its descriptor is closed.   *)
ClosedIsNoticed ==
  \A d \in Conn : (Open(d) /\ rx[d] = <<>> /\ peer[d] = "eof") ~> ~Open(d)
=============================================================================
