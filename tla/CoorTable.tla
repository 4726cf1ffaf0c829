------------------------------ MODULE CoorTable ------------------------------
(***************************************************************************)
(* The coordinator table as serid builds it: coor.c on the intrusive       *)
(* singly linked list of list.h.  A node is a heap cell with the fields of *)
(* coor_node_t; the list is what pfirst and the pnext fields spell out.    *)
(* coorfd_init, coor_add and coor_find/coor_findfd are called by main.c;   *)
(* coor_del and coorfd_fini are offered by coor.h and called by nobody.    *)
(***************************************************************************)
EXTENDS Integers, FiniteSets

CONSTANTS
  Coor, Fd,
  Addr, (* the heap cells malloc can hand out for nodes *)
  NULL

ASSUME AddrAssumption == NULL \notin Addr /\ IsFiniteSet(Addr)
ASSUME FdAssumption == Fd \subseteq Nat

VARIABLES
  pfirst,  (* coorhead.pfirst                                       *)
  node,    (* the bytes of every cell, allocated or not             *)
  live,    (* the cells malloc has handed out and free has not seen *)
  aborted  (* free was given a cell that was not live               *)

vars == <<pfirst, node, live, aborted>>

coor_node_t == [pnext : Addr \cup {NULL}, coorid : Coor, fd : Fd]

-----------------------------------------------------------------------------
(* SL_FOREACH_SAFE visits pfirst, its pnext, and so on until NULL; a list  *)
(* of the live cells is never longer than the heap.                        *)
Visited[i \in 0..Cardinality(Addr)] ==
  IF i = 0 THEN pfirst
  ELSE LET p == Visited[i - 1] IN IF p = NULL THEN NULL ELSE node[p].pnext

Reachable == {Visited[i] : i \in 0 .. Cardinality(Addr)} \ {NULL}

(* The first node on the list with this id, or NULL. *)
coor_find(c) ==
  LET hits == {i \in 0 .. Cardinality(Addr) :
                 LET p == Visited[i] IN p # NULL /\ node[p].coorid = c}
  IN  IF hits = {} THEN NULL
      ELSE Visited[CHOOSE i \in hits : \A j \in hits : i <= j]

coor_findfd(c) == IF coor_find(c) = NULL THEN -1 ELSE node[coor_find(c)].fd

-----------------------------------------------------------------------------
(* The global coorhead, emptied by coorfd_init; the heap holds leftovers, *)
(* the same in every cell to bound the initial states.                    *)
Init ==
  /\ pfirst = NULL
  /\ \E n \in coor_node_t : n.pnext = NULL /\ node = [a \in Addr |-> n]
  /\ live = {}
  /\ aborted = FALSE

Rebind(c, fd) ==
  /\ coor_find(c) # NULL
  /\ node' = [node EXCEPT ![coor_find(c)].fd = fd]
  /\ UNCHANGED <<pfirst, live, aborted>>

(* Mutant: the result of malloc is not tested. *)
FreshOrNull == IF live = Addr THEN {NULL} ELSE Addr \ live

Fresh == Addr \ live

(* malloc a node, fill it in and sl_addhead it. *)
Insert(c, fd) ==
  /\ coor_find(c) = NULL
  /\ \E a \in Fresh :
       /\ node' = [node EXCEPT ![a] = [pnext |-> pfirst, coorid |-> c, fd |-> fd]]
       /\ pfirst' = a
       /\ live' = live \cup {a}
  /\ UNCHANGED aborted

OutOfMemory(c) ==
  /\ coor_find(c) = NULL
  /\ live = Addr
  /\ UNCHANGED vars

coor_add(c, fd) ==
  /\ ~aborted
  /\ Rebind(c, fd) \/ Insert(c, fd) \/ OutOfMemory(c)

(* Mutant: the head is always the one unlinked. *)
DropHead(a) == pfirst' = node[pfirst].pnext /\ UNCHANGED node

(* Mutant: the node is unlinked together with all that follow it. *)
CutTail(a) ==
  IF a = pfirst
  THEN pfirst' = NULL /\ UNCHANGED node
  ELSE /\ node' = [b \in Addr |-> IF node[b].pnext = a
                                  THEN [node[b] EXCEPT !.pnext = NULL] ELSE node[b]]
       /\ UNCHANGED pfirst

(* Unlink a node that is on the list: by pfirst, or by the pnext of the one *)
(* before it.                                                               *)
sl_del(a) ==
  IF a = pfirst
  THEN /\ pfirst' = node[a].pnext
       /\ UNCHANGED node
  ELSE /\ \E b \in Reachable :
            /\ node[b].pnext = a
            /\ node' = [node EXCEPT ![b].pnext = node[a].pnext]
       /\ UNCHANGED pfirst

coor_del(c) ==
  /\ ~aborted
  /\ coor_find(c) # NULL
  /\ sl_del(coor_find(c))
  /\ live' = live \ {coor_find(c)}
  /\ UNCHANGED aborted

(* coor_delall frees every node with sl_freeall in the first turn of its    *)
(* loop and then frees the first one again: the allocator aborts.           *)
coorfd_fini ==
  /\ ~aborted
  /\ pfirst # NULL
  /\ live' = live \ Reachable
  /\ aborted' = TRUE
  /\ UNCHANGED <<pfirst, node>>

Next ==
  \/ \E c \in Coor, fd \in Fd : coor_add(c, fd)
  \/ \E c \in Coor : coor_del(c)
  \/ coorfd_fini

Spec == Init /\ [][Next]_vars

-----------------------------------------------------------------------------
(* Every variable has the type of its C declaration. *)
TypeOK ==
  /\ pfirst \in Addr \cup {NULL}
  /\ node \in [Addr -> coor_node_t]
  /\ live \subseteq Addr
  /\ aborted \in BOOLEAN

(* As long as nobody has called coorfd_fini, the list ends, it reaches      *)
(* exactly the cells malloc has handed out (nothing dangles, nothing is     *)
(* leaked), and no coordinator id is on it twice, so that coor_del leaves   *)
(* no older binding behind (coor.c:27-83, list.h:39-63).                    *)
ListSound ==
  ~aborted =>
    /\ Visited[Cardinality(Addr)] = NULL
    /\ Reachable = live
    /\ \A a, b \in live : node[a].coorid = node[b].coorid => a = b

(* The linked list implements the table CoorMap promises: what coor_findfd  *)
(* answers changes only as coor_add and coor_del say (coor.c:27-120).       *)
Table == INSTANCE CoorMap WITH fdof <- [c \in Coor |-> coor_findfd(c)]

ImplementsCoorMap == Table!Spec
=============================================================================
