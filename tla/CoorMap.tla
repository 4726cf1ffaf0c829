------------------------------- MODULE CoorMap -------------------------------
(***************************************************************************)
(* What the coordinator table of serid promises its caller, the event loop *)
(* of main.c: for every coordinator id it remembers at most one socket     *)
(* descriptor, the one of the last coor_add, and forgets it on coor_del.   *)
(* CoorTable implements this with the linked list of coor.c and list.h;    *)
(* Serid uses it as the table its event loop consults.                     *)
(***************************************************************************)
EXTENDS Integers

CONSTANTS
  Coor, (* coordinator ids: the ushort addr3 of a frame *)
  Fd    (* descriptors a coordinator can be bound to    *)

VARIABLE fdof (* what coor_findfd answers for each id *)

(* coor_findfd answers -1 for an id the table does not hold. *)
NoFd == -1

TypeOK == fdof \in [Coor -> Fd \cup {NoFd}]

Init == fdof = [c \in Coor |-> NoFd]

(* Mutant: a node that exists keeps its descriptor. *)
FirstWins(c, fd) ==
  fdof' = [fdof EXCEPT ![c] = IF @ = NoFd THEN fd ELSE @]

Bind(c, fd) == fdof' = [fdof EXCEPT ![c] = fd]

(* malloc returned NULL for the node of a new id: coor_add is void and its *)
(* caller never learns that nothing was stored.                            *)
NoMemory(c) ==
  /\ fdof[c] = NoFd
  /\ UNCHANGED fdof

coor_add(c, fd) == Bind(c, fd) \/ NoMemory(c)

coor_del(c) == fdof' = [fdof EXCEPT ![c] = NoFd]

Next == \E c \in Coor :
  \/ \E fd \in Fd : coor_add(c, fd)
  \/ coor_del(c)

Spec == Init /\ [][Next]_fdof
=============================================================================
