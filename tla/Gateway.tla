-------------------------------- MODULE Gateway --------------------------------
(***************************************************************************)
(* serids on the hub: what each of their single threads waits for, and     *)
(* what the hub's threads wait for in turn.  The hub is TcpHub with every  *)
(* client a serid built with MQTT_EXTERNAL, whose loop reads what the hub  *)
(* sent only when it is not blocked itself, in send to the hub or in send  *)
(* to a coordinator.  The sockets are blocking in both programs.           *)
(***************************************************************************)
EXTENDS TcpHub

CONSTANTS
  UpMax,     (* documents the buffers from a serid to the hub hold         *)
  CoorMax,   (* frames the buffers from a serid to its coordinator hold    *)
  Deaf       (* serids whose coordinator does not read                     *)

ASSUME GatewayAssumption ==
  UpMax \in Nat \ {0} /\ CoorMax \in Nat \ {0} /\ Deaf \subseteq Client

VARIABLES
  thread,   (* per serid: in its loop, in send to the hub or to the coordinator *)
  coorq     (* per serid: frames its coordinator has not read                   *)

gatewayVars == <<vars, thread, coorq>>

Order == SetToSeq(Client)

(* Everyone has been accepted: every thread of the hub is in its recv. *)
GatewayInit ==
  /\ connections = Order
  /\ total_connections = Cardinality(Client)
  /\ accpc = "accept" /\ line = 65 /\ idx = 0
  /\ queue = <<>>
  /\ pc = [c \in Client |-> "recv"]
  /\ id = [c \in Client |-> (CHOOSE i \in DOMAIN Order : Order[i] = c) - 1]
  /\ data = [c \in Client |-> <<>>]
  /\ pos = [c \in Client |-> 0]
  /\ target = [c \in Client |-> NoClient]
  /\ rest = [c \in Client |-> <<>>]
  /\ peer = [c \in Client |-> "up"]
  /\ rx = [c \in Client |-> <<>>]
  /\ unread = [c \in Client |-> 0]
  /\ sent = [c \in Client |-> 0]
  /\ out = [c \in Client |-> <<>>]
  /\ due = [c \in Client |-> {}]
  /\ shifts = [c \in Client |-> 0]
  /\ thread = [c \in Client |-> "loop"]
  /\ coorq = [c \in Client |-> 0]

Turns(c, to) == thread' = [thread EXCEPT ![c] = to]

(* Frames have arrived and are one document: recv, seri_msgproc, coor_add. *)
ZigbeeRecv(c) ==
  /\ thread[c] = "loop"
  /\ c \in Talkers /\ Connected(c) /\ sent[c] < MaxSend
  /\ Turns(c, "up")
  /\ UNCHANGED <<vars, coorq>>

(* send to client_sock returns when the document is in the buffers. *)
SendUp(c) ==
  /\ thread[c] = "up"
  /\ Len(rx[c]) < UpMax
  /\ ClientSends(c, TRUE)
  /\ Turns(c, "loop")
  /\ UNCHANGED coorq

(* recv from client_sock and json_msgproc: a command for a coordinator of   *)
(* this serid is sent on to it; anything else, the documents of the other   *)
(* serids among it, ends here.                                              *)
ClientRecv(c) ==
  /\ thread[c] = "loop"
  /\ ClientReads(c)
  /\ \E to \in {"loop", "coor"} : Turns(c, to)
  /\ UNCHANGED coorq

SendDown(c) ==
  /\ thread[c] = "coor"
  /\ coorq[c] < CoorMax
  /\ coorq' = [coorq EXCEPT ![c] = @ + 1]
  /\ Turns(c, "loop")
  /\ UNCHANGED vars

CoorReads(c) ==
  /\ c \notin Deaf
  /\ coorq[c] > 0
  /\ coorq' = [coorq EXCEPT ![c] = 0]
  /\ UNCHANGED <<vars, thread>>

(* The process ends with its connections. *)
Crash(c) ==
  /\ thread[c] # "gone"
  /\ ClientResets(c)
  /\ Turns(c, "gone")
  /\ UNCHANGED coorq

SeridStep(c) == SendUp(c) \/ ClientRecv(c) \/ SendDown(c)

HubStep(c) == ThreadStep(c) /\ UNCHANGED <<thread, coorq>>

GatewayNext ==
  \E c \in Client : HubStep(c) \/ ZigbeeRecv(c) \/ SeridStep(c) \/ CoorReads(c) \/ Crash(c)

GatewaySpec == GatewayInit /\ [][GatewayNext]_gatewayVars

(* Every thread of the hub and of the serids is scheduled, and a            *)
(* coordinator reads unless it is deaf.  Nobody has to send anything.       *)
FairGateway ==
  /\ GatewaySpec
  /\ \A c \in Client :
       WF_gatewayVars(HubStep(c)) /\ WF_gatewayVars(SeridStep(c)) /\ WF_gatewayVars(CoorReads(c))

-----------------------------------------------------------------------------
(* Properties *)

(* The hub's thread of c waits in sendall for the serid it is sending to. *)
HubWaits(c) ==
  pc[c] = "send" /\ peer[target[c]] \notin Lost /\ unread[target[c]] = OutMax

(* The serid waits in send for its thread in the hub. *)
SeridWaits(c) == thread[c] = "up" /\ Len(rx[c]) >= UpMax

(* serids and their threads in the hub wait for each other all around. *)
Circle(S) ==
  /\ S # {}
  /\ \A c \in S : HubWaits(c) /\ SeridWaits(target[c]) /\ target[c] \in S

(* The serid waits for a thread that has ended. *)
Unheard(c) == SeridWaits(c) /\ pc[c] = "dead"

(* It waits for a coordinator that does not read. *)
Unread(c) == thread[c] = "coor" /\ coorq[c] = CoorMax /\ c \in Deaf

Held ==
  \/ \E S \in SUBSET Client : Circle(S)
  \/ \E c \in Client : Unheard(c) \/ Unread(c)

(* The threads of serids and hub wait for each other only when at least two *)
(* serids talk, and each of those waited for has filled its way to the hub  *)
(* and more: one talking serid never brings the gateway to a halt           *)
(* (main.c:304, tcp.py:47).                                                 *)
CircleNeedsTalkers ==
  \A S \in SUBSET Client : Circle(S) =>
    \A c \in S : target[c] # c /\ target[c] \in Talkers /\ sent[target[c]] > UpMax

(* A broadcast comes to an end, unless serids and hub wait in a circle, a   *)
(* serid waits for a thread of the hub that has ended, or a coordinator     *)
(* does not read (tcp.py:45-47, main.c:244, 304).                           *)
BroadcastEnds == \A c \in Client : Walking(c) ~> (~Walking(c) \/ Held)
=============================================================================
