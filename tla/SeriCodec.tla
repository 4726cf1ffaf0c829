------------------------------ MODULE SeriCodec ------------------------------
(***************************************************************************)
(* The codec of serid (serijson.c) on the bytes of a coordinator's stream. *)
(* A recv returns the next bytes of the stream, wherever that cuts them;   *)
(* seri_msgproc turns them into a document, frame by frame; and the        *)
(* document, which the hub sends to every other serid, is turned into a    *)
(* command by json_msgproc there.                                          *)
(***************************************************************************)
EXTENDS Integers, Sequences, SequencesExt

CONSTANTS
  Frame,     (* what coordinators send: records of FrameType              *)
  Garbage,   (* what id may hold before it is assigned                    *)
  MaxFrames, (* bound: frames in the stream                               *)
  Skip, Short

HeadLen == 16     (* sizeof(SERIAL_RCVMSG_S) *)
ZIGBEE_MAX_DATALEN == 50
LOCAL_ADDR == 57007
LOCAL_COOR == 1

UCHAR_MAX == 255
USHRT_MAX == 65535

Byte == 0 .. UCHAR_MAX
Ushort == 0 .. USHRT_MAX

(* A frame as its sender has it; dev are the bytes of addr2 on the wire. *)
FrameType == [to : Ushort, dev : Byte \X Byte, coor : Ushort, rssi : Byte, devtype : Byte,
              tlvs : Seq([type : Byte, value : Seq(Byte)])]

(* The names of the device types, from DEV_MODE_ERROR on. *)
seri_dev_modestr == <<"na", "coor", "sensor", "switch", "other">>

ASSUME GarbageAssumption == Garbage \subseteq Ushort /\ Garbage # {}

ASSUME MarkAssumption == Skip \notin Ushort /\ Short \notin Ushort /\ Skip # Short

VARIABLES
  stream,   (* the frames sent, in order                        *)
  start,    (* bytes of the stream received before this chunk   *)
  chunk,    (* what the current recv returned                   *)
  pc,       (* "recv", "decode", "done", "sent"                 *)
  remain,   (* remain_len                                       *)
  id,       (* the local of seri_msgproc, uninitialised at first *)
  old_id,
  dev,      (* the devices of the document                      *)
  command   (* what json_msgproc answers to the document        *)

vars == <<stream, start, chunk, pc, remain, id, old_id, dev, command>>

-----------------------------------------------------------------------------
(* The wire *)

High(n) == n \div 256
Low(n) == n % 256

TlvBytes(tlvs) ==
  FlattenSeq([i \in DOMAIN tlvs |-> <<tlvs[i].type, Len(tlvs[i].value)>> \o tlvs[i].value])

(* The text of one TLV must fit into print_strbuf, and the command made of *)
(* them all into seribuf: the code checks neither before it writes.  Nor   *)
(* does it ask whether a device type has a name before it looks it up.     *)
ASSUME FrameAssumption ==
  \A f \in Frame :
    /\ f \in FrameType /\ f.devtype + 1 \in DOMAIN seri_dev_modestr
    /\ HeadLen + Len(TlvBytes(f.tlvs)) <= ZIGBEE_MAX_DATALEN
    /\ \A i \in DOMAIN f.tlvs : 2 * Len(f.tlvs[i].value) + 2 < ZIGBEE_MAX_DATALEN

(* sop, version, len, addr1, addr2, addr3, rssi, devtype, pad, crc *)
Wire(f) ==
  LET tlvs == TlvBytes(f.tlvs)
  IN  <<254, 1, High(Len(tlvs)), Low(Len(tlvs)), High(f.to), Low(f.to), f.dev[1], f.dev[2],
        High(f.coor), Low(f.coor), f.rssi, f.devtype, 0, 0, 0, 0>> \o tlvs

WireOf == [f \in Frame |-> Wire(f)]

(* The bytes of the first i frames, and the offset at which frame i ends. *)
Sent(i) == FlattenSeq([k \in 1 .. i |-> WireOf[stream[k]]])
FrameEnd(i) == Len(Sent(i))

Boundaries == {FrameEnd(i) : i \in 0 .. Len(stream)}

-----------------------------------------------------------------------------
(* Conversions *)

(* The byte at offset i of the receive buffer, which was cleared first. *)
At(i) == IF i < Len(chunk) THEN chunk[i + 1] ELSE 0

ntohs(i) == 256 * At(i) + At(i + 1)

Swapped(n) == High(n) + 256 * Low(n)

(* "%05d" *)
Decimal(n) == <<n \div 10000, (n \div 1000) % 10, (n \div 100) % 10, (n \div 10) % 10, n % 10>>

Number(base, digits) ==
  LET n[k \in 0 .. Len(digits)] == IF k = 0 THEN 0 ELSE base * n[k - 1] + digits[k]
  IN  n[Len(digits)]

atoi(digits) == Number(10, digits)

(* A string is the sequence of its character codes; "%02x" is lower case. *)
HexChar(n) == IF n < 10 THEN 48 + n ELSE 87 + n
Printed(value) ==
  <<48, 120>> \o FlattenSeq([i \in DOMAIN value |->
                   <<HexChar(value[i] \div 16), HexChar(value[i] % 16)>>])

(* Mutant: 'a' counts as 0. *)
DigitFromZero(c) == IF c \in 97 .. 102 THEN c - 97 ELSE c - 48

Digit(c) ==
  IF c \in 65 .. 70 THEN c - 55 ELSE IF c \in 97 .. 102 THEN c - 87 ELSE c - 48

hextodec(s) == Number(16, [i \in DOMAIN s |-> Digit(s[i])])

-----------------------------------------------------------------------------
(* From frames to a document *)

Offset == Len(chunk) - remain
DataLen == ntohs(Offset + 2)
Addr1 == ntohs(Offset + 4)
Addr2 == ntohs(Offset + 6)
Addr3 == ntohs(Offset + 8)

Tlv(p) == [tag |-> At(p), len |-> At(p + 1),
           value |-> Printed([i \in 1 .. At(p + 1) |-> At(p + 1 + i)])]

(* The for loop over the TLVs, from offset p to the end of the frame. *)
TlvsFrom[p \in Nat] ==
  IF p >= Offset + HeadLen + DataLen THEN <<>>
  ELSE <<Tlv(p)>> \o TlvsFrom[p + 2 + At(p + 1)]

Device == [devid |-> Decimal(Swapped(Addr2)), coorid |-> Decimal(Addr3),
           devrssi |-> At(Offset + 10), devrtype |-> seri_dev_modestr[At(Offset + 11) + 1],
           devtlv |-> TlvsFrom[Offset + HeadLen]]

(* Mutants: the header is not counted; a frame that just fits is cut short. *)
DataOnly == remain < DataLen
MustExceed == remain <= HeadLen + DataLen

CutShort == remain < HeadLen \/ remain < HeadLen + DataLen

NotForUs == Addr1 # LOCAL_ADDR \/ Addr2 = LOCAL_COOR

(* Mutant: the length is set after the addresses have been checked. *)
RemainIfOurs == IF NotForUs THEN remain ELSE remain - (HeadLen + DataLen)

Rest == remain - (HeadLen + DataLen)

(* Mutant: the first id is kept. *)
FirstId(new) == IF old_id = 0 THEN new ELSE old_id

LastId(new) == new

(* recv, and the start of seri_msgproc.  What follows a frame that was cut  *)
(* is not modelled: the code takes the rest of it for a header.             *)
Recv ==
  /\ pc = "recv"
  /\ start \in Boundaries
  /\ LET wire == Sent(Len(stream)) IN
       \E n \in 1 .. Len(wire) - start :
         /\ chunk' = SubSeq(wire, start + 1, start + n)
         /\ remain' = n
  /\ id' \in Garbage
  /\ old_id' = 0
  /\ dev' = <<>>
  /\ pc' = "decode"
  /\ UNCHANGED <<stream, start, command>>

(* One turn of the loop of seri_msgproc. *)
Seri2json ==
  /\ pc = "decode"
  /\ remain > 0
  /\ \/ /\ CutShort
        /\ remain' = 0
        /\ UNCHANGED <<id, dev>>
     \/ /\ ~CutShort /\ NotForUs
        /\ remain' = Rest
        /\ UNCHANGED <<id, dev>>
     \/ /\ ~CutShort /\ ~NotForUs
        /\ remain' = Rest
        /\ id' = Addr3
        /\ dev' = Append(dev, Device)
  /\ old_id' = LastId(id')
  /\ UNCHANGED <<stream, start, chunk, pc, command>>

(* The end of seri_msgproc: old_id is the coordinator of the document. *)
Finish ==
  /\ pc = "decode"
  /\ remain <= 0
  /\ pc' = "done"
  /\ UNCHANGED <<stream, start, chunk, remain, id, old_id, dev, command>>

-----------------------------------------------------------------------------
(* From a document to a command *)

Failed == [sent |-> FALSE]

(* The bytes of a TLV: its text is read two characters at a time. *)
SeriTlv(t) ==
  <<t.tag, t.len>> \o
    [i \in 1 .. t.len |-> hextodec(SubSeq(t.value, 2 * i + 1, 2 * i + 2)) % 256]

SeriTlvs(d) == FlattenSeq([i \in DOMAIN d.devtlv |-> SeriTlv(d.devtlv[i])])

(* addr1 is stored as the machine has it, the length exchanged first. *)
SeriBuf(d) ==
  LET tlvs  == SeriTlvs(d)
      len   == Swapped(Len(tlvs))
      addr1 == atoi(d.devid)
  IN  <<254, 1, Low(len), High(len), Low(addr1), High(addr1),
        0, 0, 0, 0, 0, 0, 0, 0, 0, 0>> \o tlvs

(* The list of devices is overwritten with the TLVs of its first: the loop  *)
(* ends there.                                                              *)
Encoded == 1

(* A buffer that is full counts as one that overflowed. *)
JsonMsgproc ==
  /\ pc = "done"
  /\ command' =
       IF dev = <<>> \/ Len(SeriBuf(dev[Encoded])) >= ZIGBEE_MAX_DATALEN THEN Failed
       ELSE [sent |-> TRUE, coorid |-> atoi(dev[Encoded].coorid), bytes |-> SeriBuf(dev[Encoded])]
  /\ pc' = "sent"
  /\ UNCHANGED <<stream, start, chunk, remain, id, old_id, dev>>

(* outbuffer and buffer are cleared for the next recv. *)
NextRecv ==
  /\ pc = "sent"
  /\ start' = start + Len(chunk)
  /\ chunk' = <<>> /\ dev' = <<>> /\ command' = Failed
  /\ remain' = 0 /\ id' = 0 /\ old_id' = 0
  /\ pc' = "recv"
  /\ UNCHANGED stream

CoordinatorSends(f) ==
  /\ pc = "recv"
  /\ Len(stream) < MaxFrames
  /\ stream' = Append(stream, f)
  /\ UNCHANGED <<start, chunk, pc, remain, id, old_id, dev, command>>

-----------------------------------------------------------------------------
Init ==
  /\ stream = <<>> /\ start = 0 /\ chunk = <<>>
  /\ pc = "recv" /\ remain = 0 /\ id = 0 /\ old_id = 0
  /\ dev = <<>> /\ command = Failed

Decode == Seri2json \/ Finish

Next == Recv \/ Decode \/ JsonMsgproc \/ NextRecv \/ \E f \in Frame : CoordinatorSends(f)

Spec == Init /\ [][Next]_vars

(* seri_msgproc, once called, runs on; nothing is assumed of anyone else. *)
FairSpec == Spec /\ WF_vars(Decode)

-----------------------------------------------------------------------------
(* Properties *)

(* Every variable has its type; the length that remains is never negative. *)
TypeOK ==
  /\ stream \in Seq(Frame) /\ start \in Nat
  /\ chunk \in Seq(Byte)
  /\ pc \in {"recv", "decode", "done", "sent"}
  /\ remain \in 0 .. Len(chunk)
  /\ id \in Ushort /\ old_id \in Ushort

(* The frames that lie in the chunk from end to end, and what of them the   *)
(* loop of serid is told.                                                   *)
Within ==
  LET first == CHOOSE i \in 0 .. Len(stream) : FrameEnd(i) = start
      last  == CHOOSE i \in 0 .. Len(stream) :
                 /\ FrameEnd(i) <= start + Len(chunk)
                 /\ i < Len(stream) => FrameEnd(i + 1) > start + Len(chunk)
  IN  SubSeq(stream, first + 1, last)
ForUs(f) == f.to = LOCAL_ADDR /\ f.dev # <<0, 1>>
Wanted ==
  LET frames == Within
  IN  FlattenSeq([i \in DOMAIN frames |-> IF ForUs(frames[i]) THEN <<frames[i]>> ELSE <<>>])

Describes(d, f) ==
  /\ atoi(d.devid) = f.dev[1] + 256 * f.dev[2]
  /\ atoi(d.coorid) = f.coor
  /\ d.devrssi = f.rssi /\ d.devrtype = seri_dev_modestr[f.devtype + 1]
  /\ [i \in DOMAIN d.devtlv |-> d.devtlv[i].tag] = [i \in DOMAIN f.tlvs |-> f.tlvs[i].type]

(* However frames are joined in a chunk and wherever the chunk ends, its    *)
(* document lists the devices of exactly the frames that are for us and     *)
(* lie whole within it, in order; the one that is cut is dropped and not    *)
(* half decoded (serijson.c:75-116, 394-412).                               *)
WholeFramesDecoded ==
  pc = "done" =>
    LET wanted == Wanted IN
      /\ Len(dev) = Len(wanted)
      /\ \A i \in DOMAIN wanted : Describes(dev[i], wanted[i])

Loop == INSTANCE Chunks WITH Coor <- {f.coor : f \in Frame} \cup Garbage

Abstract ==
  LET kind == [f \in Frame |-> IF ForUs(f) THEN f.coor ELSE Skip]
      frames == Within
  IN  [k \in DOMAIN frames |-> kind[frames[k]]]
      \o (IF start + Len(chunk) \in Boundaries THEN <<>> ELSE <<Short>>)

(* The id the bytes of a chunk yield is one the model of the event loop     *)
(* allows for its frames: the last of ours, or anything if there is none    *)
(* (serijson.c:385, 406-413; main.c:291-302).                               *)
IdAsLoopExpects == pc = "done" => old_id \in Loop!CoorIds(Abstract)

(* A document that comes back as a command names the coordinator it came    *)
(* from, and its bytes carry the address and the TLVs of its first device   *)
(* as they were received, whatever was done to them on the way: byte orders *)
(* exchanged, decimal and hexadecimal text.  It fails only for no device or *)
(* one that fills the buffer (serijson.c:112-194, 268-370).                 *)
CommandReturns ==
  pc = "sent" =>
    LET wanted == Wanted
        tlvs   == TlvBytes(wanted[1].tlvs)
    IN  IF wanted = <<>> \/ HeadLen + Len(tlvs) = ZIGBEE_MAX_DATALEN
        THEN ~command.sent
        ELSE /\ command.sent
             /\ command.coorid = wanted[1].coor
             /\ command.bytes = <<254, 1, High(Len(tlvs)), Low(Len(tlvs)),
                                  wanted[1].dev[1], wanted[1].dev[2],
                                  0, 0, 0, 0, 0, 0, 0, 0, 0, 0>> \o tlvs

(* The loop of seri_msgproc comes to an end on every chunk, whatever frames *)
(* it skips (serijson.c:394-412).                                           *)
DecodeEnds == (pc = "decode") ~> (pc = "done")
=============================================================================
