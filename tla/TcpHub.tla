-------------------------------- MODULE TcpHub --------------------------------
(***************************************************************************)
(* The TCP hub of mqtt_client (infra/tcp.py): a thread that accepts, and a *)
(* thread per client that sends what its client says to all the others.    *)
(* They share the list connections without a lock, so that under CPython's *)
(* interpreter lock the atomic steps are the single list operations: len,  *)
(* a subscript, append, remove, and one advance of a for loop's iterator.  *)
(* serid, built with MQTT_EXTERNAL, is one of the clients.                 *)
(***************************************************************************)
EXTENDS Integers, Sequences, FiniteSets, SequencesExt

CONSTANTS
  Client,    (* the clients, each connecting at most once               *)
  NoClient,
  Talkers,   (* those that send                                         *)
  Faults,    (* what may befall a client: "fin", "reset"                *)
  Garbled,   (* whether a client may send what is not UTF-8             *)
  MaxSend,   (* bound: pieces of data each client sends                 *)
  OutMax     (* pieces a socket's buffers take before sendall blocks    *)

ASSUME ClientAssumption == 
  NoClient \notin Client /\ IsFiniteSet(Client) /\ Talkers \subseteq Client
ASSUME FaultAssumption == Faults \subseteq {"fin", "reset"} /\ Garbled \in BOOLEAN
ASSUME BoundAssumption == MaxSend \in Nat /\ OutMax \in Nat \ {0}

Piece == [from : Client, n : 1 .. MaxSend, utf8 : BOOLEAN]

VARIABLES
  connections,       (* the shared list                                        *)
  total_connections,
  accpc,             (* the accepting thread: "accept", "len", "index", "dead" *)
  line,              (* which of lines 65, 66, 67 it is at                     *)
  idx,               (* the subscript it has computed                          *)
  queue,             (* connections waiting for accept                         *)
  pc,                (* per client: where its thread is                        *)
  id,                (* per client: Client.id                                  *)
  data,              (* per thread: the data being sent to everyone            *)
  pos,               (* per thread: the index of the for loop's iterator       *)
  target,            (* per thread: client, the one being sent to              *)
  rest,              (* per thread: what sendall has still to hand over        *)
  peer,              (* per client: what the kernel has seen of it             *)
  rx,                (* per client: its receive buffer in the hub              *)
  unread,            (* per client: pieces handed to its socket and not read   *)
  sent,              (* history: pieces the client has sent                    *)
  out,               (* history: pieces handed to the client's socket          *)
  due,               (* history: whom the current data has still to reach      *)
  shifts             (* history: removals behind the iterator during the loop  *)

acceptor == <<total_connections, accpc, line, idx, queue>>
threads  == <<pc, id, data, pos, target, rest>>
sockets  == <<peer, rx, unread>>
history  == <<sent, out, due, shifts>>
vars == <<connections, acceptor, threads, sockets, history>>

Walking(c) == pc[c] \in {"walk", "send"}
Listed == ToSet(connections)

Init ==
  /\ connections = <<>>
  /\ total_connections = 0
  /\ accpc = "accept" /\ line = 65 /\ idx = 0
  /\ queue = <<>>
  /\ pc = [c \in Client |-> "away"]
  /\ id = [c \in Client |-> -1]
  /\ data = [c \in Client |-> <<>>]
  /\ pos = [c \in Client |-> 0]
  /\ target = [c \in Client |-> NoClient]
  /\ rest = [c \in Client |-> <<>>]
  /\ peer = [c \in Client |-> "up"]
  /\ rx = [c \in Client |-> <<>>]
  /\ unread = [c \in Client |-> 0]
  /\ sent = [c \in Client |-> 0]
  /\ out = [c \in Client |-> <<>>]
  /\ due = [c \in Client |-> {}]
  /\ shifts = [c \in Client |-> 0]

-----------------------------------------------------------------------------
(* newconnections: the accepting thread *)

(* accept, Client(...) with the current total, and append. *)
Accept ==
  /\ accpc = "accept"
  /\ queue # <<>>
  /\ connections' = Append(connections, Head(queue))
  /\ id' = [id EXCEPT ![Head(queue)] = total_connections]
  /\ pc' = [pc EXCEPT ![Head(queue)] = "built"]
  /\ queue' = Tail(queue)
  /\ accpc' = "len"
  /\ UNCHANGED <<line, total_connections, idx, data, pos, target, rest, sockets, history>>

(* Mutant: the subscript is the length. *)
OnePast == Len(connections)

LastIndex == Len(connections) - 1

(* len(connections) - 1 *)
ComputeIndex ==
  /\ accpc = "len"
  /\ idx' = LastIndex
  /\ accpc' = "index"
  /\ UNCHANGED <<connections, total_connections, line, queue, threads, sockets, history>>

(* A subscript of -1, which an empty list yields, counts from the end. *)
InRange == idx < Len(connections) /\ -idx <= Len(connections)
Subscripted == connections[IF idx < 0 THEN Len(connections) + idx + 1 ELSE idx + 1]

(* connections[...].start(): threads can be started once only. *)
Start ==
  /\ accpc = "index" /\ line = 65
  /\ InRange
  /\ IF pc[Subscripted] = "built"
     THEN /\ pc' = [pc EXCEPT ![Subscripted] = "recv"]
          /\ accpc' = "len" /\ line' = 66
     ELSE accpc' = "dead" /\ UNCHANGED <<pc, line>>
  /\ idx' = 0
  /\ UNCHANGED <<connections, total_connections, queue,
                 id, data, pos, target, rest, sockets, history>>

NextRound == "accept"

(* The subscripts of the two messages, and the end of the loop's body. *)
Announce ==
  /\ accpc = "index" /\ line \in {66, 67}
  /\ InRange
  /\ \/ line = 66 /\ line' = 67 /\ accpc' = "len" /\ UNCHANGED total_connections
     \/ /\ line = 67 /\ accpc' = NextRound
        /\ total_connections' = total_connections + 1
        /\ line' = 65
  /\ idx' = 0
  /\ UNCHANGED <<connections, queue, threads, sockets, history>>

(* Nothing catches an IndexError: the thread ends. *)
IndexError ==
  /\ accpc = "index"
  /\ ~InRange
  /\ accpc' = "dead"
  /\ UNCHANGED <<connections, total_connections, line, idx, queue, threads, sockets, history>>

AcceptorStep == Accept \/ ComputeIndex \/ Start \/ Announce \/ IndexError

-----------------------------------------------------------------------------
(* Client.run: the thread of a client *)

Decodable(s) == \A i \in DOMAIN s : s[i].utf8

(* Mutant: the loop begins with the second client. *)
FromSecond == 1

FromFirst == 0

(* recv takes what is there; data that does not decode raises outside the    *)
(* try, and the thread ends.                                                *)
Recv(c) ==
  /\ pc[c] = "recv"
  /\ rx[c] # <<>>
  /\ rx' = [rx EXCEPT ![c] = <<>>]
  /\ data' = [data EXCEPT ![c] = rx[c]]
  /\ IF Decodable(rx[c])
     THEN /\ pc' = [pc EXCEPT ![c] = "walk"]
          /\ pos' = [pos EXCEPT ![c] = FromFirst]
          /\ due' = [due EXCEPT ![c] = Listed \ {c}]
          /\ shifts' = [shifts EXCEPT ![c] = 0]
     ELSE /\ pc' = [pc EXCEPT ![c] = "dead"]
          /\ UNCHANGED <<pos, due, shifts>>
  /\ UNCHANGED <<connections, acceptor, id, target, rest, peer, unread, sent, out>>

(* At the end of the stream recv returns nothing, time after time. *)
RecvNothing(c) ==
  /\ pc[c] = "recv"
  /\ rx[c] = <<>>
  /\ peer[c] \in {"eof", "broken"}
  /\ UNCHANGED vars

(* The first call on a reset connection raises, and takes the error with it. *)
RecvFails(c) ==
  /\ pc[c] = "recv"
  /\ rx[c] = <<>>
  /\ peer[c] = "reset"
  /\ peer' = [peer EXCEPT ![c] = "broken"]
  /\ pc' = [pc EXCEPT ![c] = "remove"]
  /\ UNCHANGED <<connections, acceptor, id, data, pos, target, rest, rx, unread, history>>

(* Mutant: the last client is taken off the list, whoever it is. *)
PopIndexes(c) == {Len(connections)}

RemoveIndexes(c) == {i \in DOMAIN connections : connections[i] = c}

(* connections.remove(self); what lies behind it moves up by one. *)
RemoveSelf(c) ==
  /\ pc[c] = "remove"
  /\ \E i \in RemoveIndexes(c) :
       /\ connections' = RemoveAt(connections, i)
       /\ shifts' = [w \in Client |->
            IF Walking(w) /\ i <= pos[w] THEN shifts[w] + 1 ELSE shifts[w]]
  /\ due' = [w \in Client |-> due[w] \ {c}]
  /\ pc' = [pc EXCEPT ![c] = "done"]
  /\ UNCHANGED <<acceptor, id, data, pos, target, rest, sockets, sent, out>>

(* Mutant: the iterator stands still. *)
Still(c) == pos[c]

Advanced(c) == pos[c] + 1

(* Mutant: nobody is skipped. *)
Anyone(c, client) == TRUE

Other(c, client) == id[client] # id[c]

(* The for loop takes its next client, and skips itself. *)
NextClient(c) ==
  /\ pc[c] = "walk"
  /\ pos[c] < Len(connections)
  /\ pos' = [pos EXCEPT ![c] = Advanced(c)]
  /\ LET client == connections[pos[c] + 1] IN
       IF Other(c, client)
       THEN /\ pc' = [pc EXCEPT ![c] = "send"]
            /\ target' = [target EXCEPT ![c] = client]
            /\ rest' = [rest EXCEPT ![c] = data[c]]
       ELSE UNCHANGED <<pc, target, rest>>
  /\ UNCHANGED <<connections, acceptor, id, data, sockets, history>>

(* The locals of a loop are dead after it; the model clears them. *)
LoopLeft(c) ==
  /\ data' = [data EXCEPT ![c] = <<>>]
  /\ pos' = [pos EXCEPT ![c] = 0]
  /\ target' = [target EXCEPT ![c] = NoClient]
  /\ rest' = [rest EXCEPT ![c] = <<>>]
  /\ due' = [due EXCEPT ![c] = {}]
  /\ shifts' = [shifts EXCEPT ![c] = 0]

ReadAgain == "recv"

(* The loop ends; printing and parsing the data changes nothing. *)
EndOfList(c) ==
  /\ pc[c] = "walk"
  /\ pos[c] >= Len(connections)
  /\ pc' = [pc EXCEPT ![c] = ReadAgain]
  /\ LoopLeft(c)
  /\ UNCHANGED <<connections, acceptor, id, sockets, sent, out>>

Least(m, n) == IF m < n THEN m ELSE n

(* Mutant: one piece too many is taken. *)
Overfill(c) == Least(Len(rest[c]), OutMax + 1 - unread[target[c]])

(* How much of the rest the socket takes now. *)
Taken(c) == Least(Len(rest[c]), OutMax - unread[target[c]])

Lost == {"reset", "broken"}

(* sendall hands over what the buffers take and waits for room for the rest. *)
Sendall(c) ==
  /\ pc[c] = "send"
  /\ peer[target[c]] \notin Lost
  /\ Taken(c) > 0
  /\ out' = [out EXCEPT ![target[c]] = @ \o SubSeq(rest[c], 1, Taken(c))]
  /\ unread' = [unread EXCEPT ![target[c]] = @ + Taken(c)]
  /\ rest' = [rest EXCEPT ![c] = SubSeq(@, Taken(c) + 1, Len(@))]
  /\ IF Taken(c) = Len(rest[c])
     THEN /\ pc' = [pc EXCEPT ![c] = "walk"]
          /\ target' = [target EXCEPT ![c] = NoClient]
          /\ due' = [due EXCEPT ![c] = @ \ {target[c]}]
     ELSE UNCHANGED <<pc, target, due>>
  /\ UNCHANGED <<connections, acceptor, id, data, pos, peer, rx, sent, shifts>>

(* It raises when the receiver has gone, and nothing catches that: the      *)
(* sender's thread ends, its client stays on the list.                      *)
SendallFails(c) ==
  /\ pc[c] = "send"
  /\ peer[target[c]] \in Lost
  /\ peer' = [peer EXCEPT ![target[c]] = "broken"]
  /\ pc' = [pc EXCEPT ![c] = "dead"]
  /\ LoopLeft(c)
  /\ UNCHANGED <<connections, acceptor, id, rx, unread, sent, out>>

ThreadStep(c) ==
  \/ Recv(c) \/ RecvNothing(c) \/ RecvFails(c) \/ RemoveSelf(c)
  \/ NextClient(c) \/ EndOfList(c) \/ Sendall(c) \/ SendallFails(c)

-----------------------------------------------------------------------------
(* The clients *)

Connected(c) == pc[c] # "away" /\ pc[c] # "done"

Connect(c) ==
  /\ pc[c] = "away"
  /\ pc' = [pc EXCEPT ![c] = "queued"]
  /\ queue' = Append(queue, c)
  /\ UNCHANGED <<connections, total_connections, accpc, line, idx,
                 id, data, pos, target, rest, sockets, history>>

ClientSends(c, utf8) ==
  /\ c \in Talkers
  /\ Connected(c)
  /\ peer[c] = "up"
  /\ sent[c] < MaxSend
  /\ sent' = [sent EXCEPT ![c] = @ + 1]
  /\ rx' = [rx EXCEPT ![c] = Append(@, [from |-> c, n |-> sent[c] + 1, utf8 |-> utf8])]
  /\ UNCHANGED <<connections, acceptor, threads, peer, unread, out, due, shifts>>

ClientReads(c) ==
  /\ peer[c] \in {"up", "eof"}
  /\ unread[c] > 0
  /\ unread' = [unread EXCEPT ![c] = 0]
  /\ UNCHANGED <<connections, acceptor, threads, peer, rx, history>>

ClientCloses(c) ==
  /\ "fin" \in Faults
  /\ Connected(c)
  /\ peer[c] = "up"
  /\ peer' = [peer EXCEPT ![c] = "eof"]
  /\ UNCHANGED <<connections, acceptor, threads, rx, unread, history>>

(* After a FIN a reset is not reported to recv, only to send. *)
ClientResets(c) ==
  /\ "reset" \in Faults
  /\ Connected(c)
  /\ peer[c] \in {"up", "eof"}
  /\ peer' = [peer EXCEPT ![c] = IF @ = "up" THEN "reset" ELSE "broken"]
  /\ UNCHANGED <<connections, acceptor, threads, rx, unread, history>>

ClientStep(c) ==
  \/ Connect(c) \/ ClientReads(c) \/ ClientCloses(c) \/ ClientResets(c)
  \/ \E utf8 \in IF Garbled THEN BOOLEAN ELSE {TRUE} : ClientSends(c, utf8)

-----------------------------------------------------------------------------
Next == AcceptorStep \/ \E c \in Client : ThreadStep(c) \/ ClientStep(c)

Spec == Init /\ [][Next]_vars

-----------------------------------------------------------------------------
(* Properties *)

(* Every variable has its type, and no socket holds more than its buffers. *)
TypeOK ==
  /\ connections \in Seq(Client)
  /\ total_connections \in Nat
  /\ accpc \in {"accept", "len", "index", "dead"}
  /\ line \in 65 .. 67 /\ idx \in -1 .. Cardinality(Client)
  /\ queue \in Seq(Client)
  /\ pc \in [Client -> {"away", "queued", "built", "recv", "walk", "send",
                        "remove", "done", "dead"}]
  /\ id \in [Client -> Nat \cup {-1}]
  /\ data \in [Client -> Seq(Piece)] /\ rest \in [Client -> Seq(Piece)]
  /\ pos \in [Client -> Nat]
  /\ target \in [Client -> Client \cup {NoClient}]
  /\ peer \in [Client -> {"up", "eof", "reset", "broken"}]
  /\ rx \in [Client -> Seq(Piece)] /\ out \in [Client -> Seq(Piece)]
  /\ unread \in [Client -> 0 .. OutMax]
  /\ sent \in [Client -> 0 .. MaxSend]
  /\ due \in [Client -> SUBSET Client]
  /\ shifts \in [Client -> Nat]

(* The list holds exactly the accepted clients that have not removed        *)
(* themselves, each once, and their ids differ: connections.remove(self)    *)
(* always finds itself, and the test of the ids excludes the sender and     *)
(* nobody else (tcp.py:40, 46, 64, 68).                                     *)
ListSound ==
  /\ Listed = {c \in Client : pc[c] \notin {"away", "queued", "done"}}
  /\ \A i, j \in DOMAIN connections :
       i # j => id[connections[i]] # id[connections[j]]

(* However the threads interleave and the list changes under their loops,   *)
(* nobody receives a sender's data twice, out of order, or back from the    *)
(* hub that it sent it to (tcp.py:45-47).                                   *)
StreamsInOrder ==
  \A c \in Client : \A i, j \in DOMAIN out[c] :
    /\ out[c][i].from # c
    /\ i < j /\ out[c][i].from = out[c][j].from => out[c][i].n < out[c][j].n

(* A client that was on the list when a broadcast began, and is still, is   *)
(* left out only because another removed itself from the part of the list   *)
(* already walked: at most one is left out for each removal (tcp.py:40, 45). *)
MissedOnlyByRemoval ==
  \A c \in Client : pc[c] = "walk" /\ pos[c] >= Len(connections) =>
    Cardinality(due[c]) <= shifts[c]

(* The accepting thread ends only if some client has removed itself: the    *)
(* subscripts of lines 65 to 67 are out of range for no other reason        *)
(* (tcp.py:65-67).                                                          *)
AcceptorDiesOnlyByRemoval ==
  accpc = "dead" => \E c \in Client : pc[c] = "done"

(* A client's thread ends by an exception only for data that is not UTF-8   *)
(* or for another client, whose connection has been reset (tcp.py:42, 47).  *)
DeathHasCause ==
  \A c \in Client : pc[c] = "dead" =>
    ~Decodable(data[c]) \/ \E d \in Client \ {c} : peer[d] = "broken"
=============================================================================
