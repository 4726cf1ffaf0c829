----------------------------- MODULE MCSeriCodec -----------------------------
(* Frames of every kind the decoder tells apart: without TLVs, with as many *)
(* as a command can carry, with one byte more, for another address, and     *)
(* from a coordinator, whose address is another device's the other way      *)
(* round.                                                                   *)
EXTENDS SeriCodec, TLC

From(to, d, coor, devtype, tlvs) ==
  [to |-> to, dev |-> d, coor |-> coor, rssi |-> 35, devtype |-> devtype, tlvs |-> tlvs]

Tlvs(n) ==
  << [type |-> 12, value |-> <<1, 175, 250>>], [type |-> 1, value |-> <<>>],
     [type |-> 20, value |-> [i \in 1 .. n |-> 12 * i]],
     [type |-> 19, value |-> <<25, 100>>] >>

MCFrame == {
  From(LOCAL_ADDR, <<1, 0>>, 56797, 4, <<>>),
  From(LOCAL_ADDR, <<18, 52>>, 4660, 2, Tlvs(20)),
  From(LOCAL_ADDR, <<255, 254>>, 7, 0, Tlvs(21)),
  From(4660, <<18, 52>>, 9, 3, <<>>),
  From(LOCAL_ADDR, <<0, 1>>, 10, 1, <<>>) }
=============================================================================
