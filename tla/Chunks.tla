-------------------------------- MODULE Chunks --------------------------------
(***************************************************************************)
(* What the event loop of serid sees of the codec: a chunk, the result of  *)
(* one recv, is a sequence of frames, and seri_msgproc answers with one    *)
(* coordinator id for all of them.  Serid works with this; SeriCodec has   *)
(* the bytes and shows that the ids they yield are among these.            *)
(***************************************************************************)
EXTENDS Naturals, Sequences

CONSTANTS
  Coor,   (* coordinator ids (addr3 of a frame, coorid of a command)      *)
  Skip,   (* a frame for another address, or from a coordinator           *)
  Short   (* a frame or a document cut short: it fails to parse           *)

ASSUME KindAssumption == Skip \notin Coor /\ Short \notin Coor /\ Skip # Short

(* seri_msgproc decodes frame after frame until one is cut short; those     *)
(* that are ours are the ones that yield an id.                             *)
Ours(msg) ==
  {i \in 1 .. Len(msg) : msg[i] \in Coor /\ \A j \in 1 .. i : msg[j] # Short}

(* Mutant: the id is never taken from a frame. *)
NeverSet(msg) == Coor

(* The id handed to coor_add: the last one decoded; if there was none, id   *)
(* is read uninitialised.                                                   *)
CoorIds(msg) ==
  IF Ours(msg) = {} THEN Coor
  ELSE {msg[i] : i \in {k \in Ours(msg) : \A j \in Ours(msg) : j <= k}}
=============================================================================
