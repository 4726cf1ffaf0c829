--------------------------- MODULE CoorTableProofs ---------------------------
(***************************************************************************)
(* Proofs about the coordinator table, for any number of coordinators,     *)
(* descriptors and heap cells: the pointers always spell out a list of the *)
(* live nodes, and what coor_findfd answers is what CoorMap promises.      *)
(***************************************************************************)
EXTENDS CoorTable, Recursion

N == Cardinality(Addr)

LEMMA HeapSize == N \in Nat
  BY AddrAssumption, FS_CardinalityType DEF N

(* s is the list of n cells that begins with first. *)
IsList(first, nd, n, s) ==
  /\ n \in Nat /\ s \in [1 .. n -> Addr]
  /\ \A i, j \in 1 .. n : s[i] = s[j] => i = j
  /\ first = IF n = 0 THEN NULL ELSE s[1]
  /\ \A i \in 1 .. n : nd[s[i]].pnext = IF i = n THEN NULL ELSE s[i + 1]

(* lv are the cells on the list that begins with first, and no two of them *)
(* have the same id.                                                       *)
Holds(first, nd, lv) ==
  /\ first \in Addr \cup {NULL} /\ nd \in [Addr -> coor_node_t]
  /\ \E n \in Nat : \E s \in [1 .. n -> Addr] :
       IsList(first, nd, n, s) /\ lv = {s[i] : i \in 1 .. n}
  /\ \A a, b \in lv : nd[a].coorid = nd[b].coorid => a = b

(* Inductive: until coorfd_fini the list holds the live cells. *)
TableInv == TypeOK /\ (~aborted => Holds(pfirst, node, live))

-----------------------------------------------------------------------------
(* The walk *)

(* Visited, of any first cell and any bytes. *)
Walk(first, nd) ==
  CHOOSE v : v = [i \in 0 .. Cardinality(Addr) |->
                    IF i = 0 THEN first
                    ELSE LET p == v[i - 1] IN IF p = NULL THEN NULL ELSE nd[p].pnext]

LEMMA WalkIs ==
  ASSUME NEW first \in Addr \cup {NULL}, NEW nd \in [Addr -> coor_node_t]
  PROVE  /\ Walk(first, nd) \in [0 .. N -> Addr \cup {NULL}]
         /\ \A i \in 0 .. N :
              Walk(first, nd)[i] =
                IF i = 0 THEN first
                ELSE IF Walk(first, nd)[i - 1] = NULL THEN NULL
                     ELSE nd[Walk(first, nd)[i - 1]].pnext
<1> DEFINE A == Addr \cup {NULL}
           Next1(p) == IF p = NULL THEN NULL ELSE nd[p].pnext
           step == [x \in A \X (1 .. N) |-> Next1(x[1])]
           Solves(v) == v = [i \in 0 .. N |-> IF i = 0 THEN first ELSE Next1(v[i - 1])]
<1>1. \A p \in A : Next1(p) \in A
  BY AddrAssumption DEF coor_node_t
<1>2. \A p \in A, i \in (0 + 1) .. N : step[<<p, i>>] = Next1(p)
  OBVIOUS
<1>3. PICK f \in [0 .. N -> A] : Iterates(f, 0, N, first, step)
  <2> HIDE DEF step, Next1
  <2>1. Steps(A, 0, N, step)
    BY <1>1, <1>2 DEF Steps
  <2>2. first \in A /\ 0 \in Int /\ N \in Int
    BY HeapSize
  <2> HIDE DEF A
  <2> QED BY <2>1, <2>2, Iteration
<1>4. \A i \in 0 .. N : f[i] = IF i = 0 THEN first ELSE step[<<f[i - 1], i>>]
  BY <1>3 DEF Iterates
<1>5. ASSUME NEW i \in 0 .. N PROVE f[i] = IF i = 0 THEN first ELSE Next1(f[i - 1])
  <2>1. CASE i # 0
    <3>1. i - 1 \in 0 .. N /\ i \in (0 + 1) .. N
      BY <2>1, HeapSize
    <3>2. f[i - 1] \in A
      BY <3>1
    <3>3. step[<<f[i - 1], i>>] = Next1(f[i - 1])
      BY <1>2, <3>1, <3>2
    <3> HIDE DEF step, Next1
    <3> QED BY <1>4, <2>1, <3>3
  <2>2. CASE i = 0
    BY <1>4, <2>2
  <2> QED BY <2>1, <2>2
<1>6. Solves(f)
  <2> HIDE DEF Next1
  <2> QED BY <1>5
<1>7. Walk(first, nd) = CHOOSE v : Solves(v)
  BY DEF Walk, N
<1>8. Solves(Walk(first, nd))
  <2> HIDE DEF Solves
  <2> QED BY <1>6, <1>7
<1>9. \A i \in 0 .. N : Walk(first, nd)[i] = IF i = 0 THEN first ELSE Next1(Walk(first, nd)[i - 1])
  <2> HIDE DEF Next1
  <2> QED BY <1>8
<1>10. Walk(first, nd) = f
  <2> DEFINE W == Walk(first, nd)
             S == {i \in 0 .. N : W[i] = f[i]}
  <2>1. 0 \in S
    BY <1>5, <1>9, HeapSize
  <2>2. ASSUME NEW i \in 0 .. (N - 1), i \in S PROVE i + 1 \in S
    <3>1. i + 1 \in 0 .. N /\ i + 1 # 0 /\ (i + 1) - 1 = i
      BY HeapSize
    <3>2. W[i] = f[i]
      BY <2>2
    <3> HIDE DEF W, Next1
    <3>3. f[i + 1] = Next1(f[i])
      BY <1>5, <3>1
    <3>4. W[i + 1] = Next1(W[i])
      BY <1>9, <3>1 DEF W
    <3> QED BY <3>1, <3>2, <3>3, <3>4
  <2>3. 0 .. N \subseteq S
    <3> HIDE DEF S
    <3> QED BY <2>1, <2>2, HeapSize, IntervalSet
  <2>4. \A i \in 0 .. N : W[i] = f[i]
    BY <2>3
  <2>5. W = [i \in 0 .. N |-> W[i]]
    <3> HIDE DEF Next1
    <3> QED BY <1>8
  <2>6. f = [i \in 0 .. N |-> f[i]]
    OBVIOUS
  <2> QED BY <2>4, <2>5, <2>6
<1> QED BY <1>9, <1>10

(* What the walk meets on a list. *)
LEMMA WalkOnList ==
  ASSUME NEW first \in Addr \cup {NULL}, NEW nd \in [Addr -> coor_node_t],
         NEW n \in Nat, NEW s \in [1 .. n -> Addr], IsList(first, nd, n, s)
  PROVE  /\ n <= N
         /\ \A i \in 0 .. N : Walk(first, nd)[i] = IF i < n THEN s[i + 1] ELSE NULL
<1> DEFINE W == Walk(first, nd)
           S == {i \in 0 .. N : W[i] = IF i < n THEN s[i + 1] ELSE NULL}
<1>0. /\ W \in [0 .. N -> Addr \cup {NULL}]
      /\ \A i \in 0 .. N : W[i] = IF i = 0 THEN first
                                  ELSE IF W[i - 1] = NULL THEN NULL ELSE nd[W[i - 1]].pnext
  BY WalkIs
<1>1. n <= N
  <2>1. s \in Injection(1 .. n, Addr)
    BY DEF IsList, Injection, IsInjective
  <2>2. IsFiniteSet(1 .. n) /\ Cardinality(1 .. n) = n
    BY FS_Interval
  <2>3. Cardinality(1 .. n) <= Cardinality(Addr)
    BY <2>1, <2>2, AddrAssumption, FS_Injection
  <2> QED BY <2>2, <2>3 DEF N
<1>2. 0 \in S
  <2>0. 0 \in 0 .. N
    BY HeapSize
  <2> HIDE DEF W
  <2>1. W[0] = first
    BY <1>0, <2>0
  <2> QED BY <2>1, HeapSize DEF IsList
<1>3. ASSUME NEW i \in 0 .. (N - 1), i \in S PROVE i + 1 \in S
  <2>1. i + 1 \in 0 .. N /\ i + 1 # 0 /\ (i + 1) - 1 = i
    BY HeapSize
  <2>2. W[i + 1] = IF W[i] = NULL THEN NULL ELSE nd[W[i]].pnext
    BY <1>0, <2>1
  <2>3. W[i] = IF i < n THEN s[i + 1] ELSE NULL
    BY <1>3
  <2> HIDE DEF W
  <2>4. CASE i < n
    <3>1. i + 1 \in 1 .. n /\ s[i + 1] \in Addr /\ s[i + 1] # NULL
      BY <2>4, AddrAssumption
    <3>2. nd[s[i + 1]].pnext = IF i + 1 = n THEN NULL ELSE s[(i + 1) + 1]
      BY <3>1 DEF IsList
    <3> QED BY <2>1, <2>2, <2>3, <2>4, <3>1, <3>2
  <2>5. CASE ~(i < n)
    BY <2>1, <2>2, <2>3, <2>5
  <2> QED BY <2>4, <2>5
<1>4. 0 .. N \subseteq S
  <2> HIDE DEF S
  <2> QED BY <1>2, <1>3, HeapSize, IntervalSet
<1> QED BY <1>1, <1>4

LEMMA VisitedWalks == Visited = Walk(pfirst, node) /\ Visited' = Walk(pfirst', node')
  BY DEF Visited, Walk

-----------------------------------------------------------------------------
(* Lookup *)

(* coor_find on any list. *)
Find(first, nd, c) ==
  LET hits == {i \in 0 .. Cardinality(Addr) :
                 LET p == Walk(first, nd)[i] IN p # NULL /\ nd[p].coorid = c}
  IN  IF hits = {} THEN NULL
      ELSE Walk(first, nd)[CHOOSE i \in hits : \A j \in hits : i <= j]

FdOf(first, nd, c) == IF Find(first, nd, c) = NULL THEN -1 ELSE nd[Find(first, nd, c)].fd

LEMMA FindFinds ==
  /\ \A c : coor_find(c) = Find(pfirst, node, c) /\ coor_findfd(c) = FdOf(pfirst, node, c)
  /\ \A c : coor_find(c)' = Find(pfirst', node', c) /\ coor_findfd(c)' = FdOf(pfirst', node', c)
  BY VisitedWalks DEF coor_find, coor_findfd, Find, FdOf

(* The node found is the one with the id; none is found if none has it. *)
LEMMA FindIs ==
  ASSUME NEW first, NEW nd, NEW lv, Holds(first, nd, lv), NEW c
  PROVE  \/ Find(first, nd, c) = NULL /\ \A a \in lv : nd[a].coorid # c
         \/ Find(first, nd, c) \in lv /\ nd[Find(first, nd, c)].coorid = c
<1> DEFINE W == Walk(first, nd)
           hits == {i \in 0 .. N : W[i] # NULL /\ nd[W[i]].coorid = c}
<1>0. PICK n \in Nat : \E s \in [1 .. n -> Addr] :
        IsList(first, nd, n, s) /\ lv = {s[i] : i \in 1 .. n}
  BY DEF Holds
<1>1. PICK s \in [1 .. n -> Addr] : IsList(first, nd, n, s) /\ lv = {s[i] : i \in 1 .. n}
  BY <1>0
<1>2. /\ n <= N
      /\ \A i \in 0 .. N : W[i] = IF i < n THEN s[i + 1] ELSE NULL
  BY <1>1, WalkOnList DEF Holds
<1>3. Find(first, nd, c) = IF hits = {} THEN NULL ELSE W[CHOOSE i \in hits : \A j \in hits : i <= j]
  BY DEF Find, N
<1> HIDE DEF W
<1>4. ASSUME NEW k \in 1 .. n PROVE s[k] = W[k - 1] /\ s[k] # NULL /\ k - 1 \in 0 .. N
  BY <1>2, AddrAssumption, HeapSize
<1>5. ASSUME NEW i \in hits PROVE W[i] \in lv
  <2>1. i \in 0 .. N /\ W[i] # NULL
    OBVIOUS
  <2>2. i < n /\ W[i] = s[i + 1]
    BY <1>2, <2>1
  <2>3. i + 1 \in 1 .. n
    BY <2>1, <2>2, HeapSize
  <2> QED BY <1>1, <2>2, <2>3
<1>6. CASE hits = {}
  <2>1. ASSUME NEW k \in 1 .. n PROVE nd[s[k]].coorid # c
    BY <1>4, <1>6
  <2> QED BY <1>1, <1>3, <1>6, <2>1
<1>7. CASE hits # {}
  <2> DEFINE i == CHOOSE i \in hits : \A j \in hits : i <= j
  <2>1. hits \in SUBSET Nat
    BY HeapSize
  <2>2. \E x \in hits : \A j \in hits : x <= j
    <3> HIDE DEF hits
    <3> QED BY <1>7, <2>1, LeastNatural
  <2>3. i \in hits
    <3> HIDE DEF hits
    <3> QED BY <2>2
  <2>4. Find(first, nd, c) = W[i]
    BY <1>3, <1>7
  <2> HIDE DEF i
  <2> QED BY <1>5, <2>3, <2>4
<1> QED BY <1>6, <1>7

(* Who has the id is found. *)
LEMMA FindWho ==
  ASSUME NEW first, NEW nd, NEW lv, Holds(first, nd, lv), NEW a \in lv
  PROVE  Find(first, nd, nd[a].coorid) = a
<1>1. Find(first, nd, nd[a].coorid) \in lv /\ nd[Find(first, nd, nd[a].coorid)].coorid = nd[a].coorid
  BY FindIs
<1> QED BY <1>1 DEF Holds

(* What lookups answer: the descriptor of the node with the id, or -1. *)
Answers(first, nd, lv) ==
  \A c : /\ \A a \in lv : nd[a].coorid = c => FdOf(first, nd, c) = nd[a].fd
         /\ (\A a \in lv : nd[a].coorid # c) => FdOf(first, nd, c) = -1

LEMMA AnswerIs ==
  ASSUME NEW first, NEW nd, NEW lv, Holds(first, nd, lv)
  PROVE  Answers(first, nd, lv)
<1>1. lv \subseteq Addr /\ NULL \notin lv
  BY AddrAssumption DEF Holds
<1>2. ASSUME NEW c, NEW a \in lv, nd[a].coorid = c PROVE FdOf(first, nd, c) = nd[a].fd
  BY <1>1, <1>2, FindWho DEF FdOf
<1>3. ASSUME NEW c, \A a \in lv : nd[a].coorid # c PROVE FdOf(first, nd, c) = -1
  BY <1>3, FindIs DEF FdOf
<1> QED BY <1>2, <1>3 DEF Answers

-----------------------------------------------------------------------------
(* What is done to the list *)

LEMMA EmptyHolds ==
  ASSUME NEW nd \in [Addr -> coor_node_t]
  PROVE  Holds(NULL, nd, {})
<1> DEFINE s == [i \in 1 .. 0 |-> NULL]
<1>1. 1 .. 0 = {}
  OBVIOUS
<1>2. s \in [1 .. 0 -> Addr]
  BY <1>1
<1>3. IsList(NULL, nd, 0, s)
  BY <1>1, <1>2 DEF IsList
<1>4. {} = {s[i] : i \in 1 .. 0}
  BY <1>1
<1> HIDE DEF s
<1> QED BY <1>2, <1>3, <1>4 DEF Holds

LEMMA ReboundHolds ==
  ASSUME NEW first, NEW nd, NEW lv, Holds(first, nd, lv), NEW a \in lv, NEW fd \in Fd
  PROVE  Holds(first, [nd EXCEPT ![a].fd = fd], lv)
<1> DEFINE nd2 == [nd EXCEPT ![a].fd = fd]
<1>0. PICK n \in Nat : \E s \in [1 .. n -> Addr] :
        IsList(first, nd, n, s) /\ lv = {s[i] : i \in 1 .. n}
  BY DEF Holds
<1>1. PICK s \in [1 .. n -> Addr] : IsList(first, nd, n, s) /\ lv = {s[i] : i \in 1 .. n}
  BY <1>0
<1>2. nd \in [Addr -> coor_node_t] /\ lv \subseteq Addr
  BY DEF Holds
<1>3. nd2 \in [Addr -> coor_node_t]
  BY <1>2 DEF coor_node_t
<1>4. \A b \in Addr : nd2[b].pnext = nd[b].pnext /\ nd2[b].coorid = nd[b].coorid
  BY <1>2 DEF coor_node_t
<1> HIDE DEF nd2
<1>5. IsList(first, nd2, n, s)
  BY <1>1, <1>4 DEF IsList
<1>6. \A x, y \in lv : nd2[x].coorid = nd2[y].coorid => x = y
  BY <1>2, <1>4 DEF Holds
<1>7. first \in Addr \cup {NULL}
  BY DEF Holds
<1>8. \E m \in Nat : \E u \in [1 .. m -> Addr] :
        IsList(first, nd2, m, u) /\ lv = {u[i] : i \in 1 .. m}
  BY <1>1, <1>5
<1> QED BY <1>3, <1>6, <1>7, <1>8 DEF Holds, nd2

LEMMA InsertedHolds ==
  ASSUME NEW first, NEW nd, NEW lv, Holds(first, nd, lv), NEW a \in Addr \ lv,
         NEW c \in Coor, NEW fd \in Fd, \A b \in lv : nd[b].coorid # c
  PROVE  Holds(a, [nd EXCEPT ![a] = [pnext |-> first, coorid |-> c, fd |-> fd]], lv \cup {a})
<1> DEFINE nd2 == [nd EXCEPT ![a] = [pnext |-> first, coorid |-> c, fd |-> fd]]
<1>0. PICK n \in Nat : \E s \in [1 .. n -> Addr] :
        IsList(first, nd, n, s) /\ lv = {s[i] : i \in 1 .. n}
  BY DEF Holds
<1>1. PICK s \in [1 .. n -> Addr] : IsList(first, nd, n, s) /\ lv = {s[i] : i \in 1 .. n}
  BY <1>0
<1> DEFINE t == [i \in 1 .. (n + 1) |-> IF i = 1 THEN a ELSE s[i - 1]]
<1>2. /\ nd \in [Addr -> coor_node_t] /\ lv \subseteq Addr /\ first \in Addr \cup {NULL}
      /\ \A x, y \in lv : nd[x].coorid = nd[y].coorid => x = y
  BY DEF Holds
<1>3. nd2 \in [Addr -> coor_node_t]
  BY <1>2 DEF coor_node_t
<1>4. nd2[a].pnext = first /\ nd2[a].coorid = c /\ \A b \in lv : nd2[b] = nd[b]
  BY <1>2
<1>5. t \in [1 .. (n + 1) -> Addr] /\ t[1] = a
  OBVIOUS
<1>6. \A i \in 2 .. (n + 1) : t[i] = s[i - 1] /\ i - 1 \in 1 .. n /\ t[i] \in lv
  BY <1>1
<1> HIDE DEF nd2, t
<1>7. \A i \in 1 .. (n + 1) : i # 1 => i \in 2 .. (n + 1)
  OBVIOUS
<1>8. ASSUME NEW i \in 1 .. (n + 1), NEW j \in 1 .. (n + 1), t[i] = t[j] PROVE i = j
  <2>1. a \notin lv
    OBVIOUS
  <2>2. (i = 1) <=> (j = 1)
    BY <1>5, <1>6, <1>7, <1>8, <2>1
  <2>3. CASE i # 1
    <3>1. i - 1 \in 1 .. n /\ j - 1 \in 1 .. n /\ s[i - 1] = s[j - 1]
      BY <1>6, <1>7, <1>8, <2>2, <2>3
    <3>2. i - 1 = j - 1
      BY <1>1, <3>1 DEF IsList
    <3> QED BY <3>2
  <2> QED BY <2>2, <2>3
<1>9. ASSUME NEW i \in 1 .. (n + 1)
      PROVE  nd2[t[i]].pnext = IF i = n + 1 THEN NULL ELSE t[i + 1]
  <2>1. CASE i = 1
    <3>1. n = 0 \/ (2 \in 2 .. (n + 1) /\ t[2] = s[2 - 1])
      BY <1>6
    <3>2. first = IF n = 0 THEN NULL ELSE s[1]
      BY <1>1 DEF IsList
    <3> QED BY <1>4, <1>5, <2>1, <3>1, <3>2
  <2>2. CASE i # 1
    <3>1. t[i] = s[i - 1] /\ i - 1 \in 1 .. n /\ t[i] \in lv
      BY <1>6, <1>7, <2>2
    <3>2. nd2[t[i]].pnext = IF i - 1 = n THEN NULL ELSE s[(i - 1) + 1]
      BY <1>1, <1>4, <3>1 DEF IsList
    <3>3. CASE i = n + 1
      BY <3>2, <3>3
    <3>4. CASE i # n + 1
      <4>1. i + 1 \in 2 .. (n + 1)
        BY <3>4
      <4>2. t[i + 1] = s[(i + 1) - 1]
        BY <1>6, <4>1
      <4> QED BY <3>2, <3>4, <4>2
    <3> QED BY <3>3, <3>4
  <2> QED BY <2>1, <2>2
<1>10. IsList(a, nd2, n + 1, t)
  BY <1>5, <1>8, <1>9 DEF IsList
<1>11. lv \cup {a} = {t[i] : i \in 1 .. (n + 1)}
  <2>1. ASSUME NEW b \in lv PROVE \E i \in 1 .. (n + 1) : t[i] = b
    <3>1. PICK k \in 1 .. n : b = s[k]
      BY <1>1
    <3>2. k + 1 \in 2 .. (n + 1) /\ k + 1 \in 1 .. (n + 1) /\ (k + 1) - 1 = k
      OBVIOUS
    <3> QED BY <1>6, <3>1, <3>2
  <2>2. \A i \in 1 .. (n + 1) : t[i] \in lv \cup {a}
    BY <1>5, <1>6, <1>7
  <2>3. 1 \in 1 .. (n + 1)
    OBVIOUS
  <2> QED BY <1>5, <2>1, <2>2, <2>3
<1>12. \A x, y \in lv \cup {a} : nd2[x].coorid = nd2[y].coorid => x = y
  BY <1>2, <1>4
<1>13. n + 1 \in Nat /\ a \in Addr \cup {NULL}
  OBVIOUS
<1>14. \E m \in Nat : \E u \in [1 .. m -> Addr] :
         IsList(a, nd2, m, u) /\ lv \cup {a} = {u[i] : i \in 1 .. m}
  BY <1>5, <1>10, <1>11, <1>13
<1> QED BY <1>3, <1>12, <1>13, <1>14 DEF Holds, nd2

LEMMA HeadUnlinkedHolds ==
  ASSUME NEW first, NEW nd, NEW lv, Holds(first, nd, lv), first # NULL
  PROVE  Holds(nd[first].pnext, nd, lv \ {first})
<1>0. PICK n \in Nat : \E s \in [1 .. n -> Addr] :
        IsList(first, nd, n, s) /\ lv = {s[i] : i \in 1 .. n}
  BY DEF Holds
<1>1. PICK s \in [1 .. n -> Addr] : IsList(first, nd, n, s) /\ lv = {s[i] : i \in 1 .. n}
  BY <1>0
<1>2. n # 0 /\ first = s[1] /\ 1 \in 1 .. n /\ n - 1 \in Nat
  BY <1>1 DEF IsList
<1> DEFINE t == [i \in 1 .. (n - 1) |-> s[i + 1]]
<1>3. \A i \in 1 .. (n - 1) : i + 1 \in 1 .. n /\ i + 1 # 1 /\ t[i] = s[i + 1]
  BY <1>2
<1>4. t \in [1 .. (n - 1) -> Addr]
  BY <1>3
<1> HIDE DEF t
<1>5. nd[first].pnext = IF n - 1 = 0 THEN NULL ELSE t[1]
  <2>1. nd[s[1]].pnext = IF 1 = n THEN NULL ELSE s[1 + 1]
    BY <1>1, <1>2 DEF IsList
  <2>2. n # 1 => 1 \in 1 .. (n - 1)
    BY <1>2
  <2> QED BY <1>2, <1>3, <2>1, <2>2
<1>6. ASSUME NEW i \in 1 .. (n - 1)
      PROVE  nd[t[i]].pnext = IF i = n - 1 THEN NULL ELSE t[i + 1]
  <2>1. nd[s[i + 1]].pnext = IF i + 1 = n THEN NULL ELSE s[(i + 1) + 1]
    BY <1>1, <1>3 DEF IsList
  <2>2. i # n - 1 => i + 1 \in 1 .. (n - 1)
    BY <1>2
  <2> QED BY <1>2, <1>3, <2>1, <2>2
<1>7. \A i, j \in 1 .. (n - 1) : t[i] = t[j] => i = j
  <2> SUFFICES ASSUME NEW i \in 1 .. (n - 1), NEW j \in 1 .. (n - 1), t[i] = t[j] PROVE i = j
    OBVIOUS
  <2>1. i + 1 = j + 1
    BY <1>1, <1>3 DEF IsList
  <2> QED BY <2>1
<1>8. IsList(nd[first].pnext, nd, n - 1, t)
  BY <1>2, <1>4, <1>5, <1>6, <1>7 DEF IsList
<1>9. lv \ {first} = {t[i] : i \in 1 .. (n - 1)}
  <2>1. ASSUME NEW b \in lv \ {first} PROVE \E i \in 1 .. (n - 1) : t[i] = b
    <3>1. PICK k \in 1 .. n : b = s[k]
      BY <1>1
    <3>2. k # 1
      BY <1>2, <3>1
    <3>3. k - 1 \in 1 .. (n - 1) /\ (k - 1) + 1 = k
      BY <3>2
    <3> QED BY <1>3, <3>1, <3>3
  <2>2. ASSUME NEW i \in 1 .. (n - 1) PROVE t[i] \in lv \ {first}
    <3>1. s[i + 1] \in lv /\ s[i + 1] # s[1]
      BY <1>1, <1>2, <1>3 DEF IsList
    <3> QED BY <1>2, <1>3, <3>1
  <2> QED BY <2>1, <2>2
<1>10. /\ nd \in [Addr -> coor_node_t] /\ first \in Addr
       /\ \A x, y \in lv \ {first} : nd[x].coorid = nd[y].coorid => x = y
  BY DEF Holds
<1>11. nd[first].pnext \in Addr \cup {NULL}
  BY <1>10 DEF coor_node_t
<1>12. \E m \in Nat : \E u \in [1 .. m -> Addr] :
         IsList(nd[first].pnext, nd, m, u) /\ lv \ {first} = {u[i] : i \in 1 .. m}
  BY <1>2, <1>4, <1>8, <1>9
<1> QED BY <1>10, <1>11, <1>12 DEF Holds

LEMMA UnlinkedHolds ==
  ASSUME NEW first, NEW nd, NEW lv, Holds(first, nd, lv), NEW a \in lv, a # first,
         NEW b \in lv, nd[b].pnext = a
  PROVE  Holds(first, [nd EXCEPT ![b].pnext = nd[a].pnext], lv \ {a})
<1> DEFINE nd2 == [nd EXCEPT ![b].pnext = nd[a].pnext]
<1>0. PICK n \in Nat : \E s \in [1 .. n -> Addr] :
        IsList(first, nd, n, s) /\ lv = {s[i] : i \in 1 .. n}
  BY DEF Holds
<1>1. PICK s \in [1 .. n -> Addr] : IsList(first, nd, n, s) /\ lv = {s[i] : i \in 1 .. n}
  BY <1>0
<1>2. /\ nd \in [Addr -> coor_node_t] /\ lv \subseteq Addr /\ first \in Addr \cup {NULL}
      /\ \A x, y \in lv : nd[x].coorid = nd[y].coorid => x = y
  BY DEF Holds
<1>3. nd[a].pnext \in Addr \cup {NULL}
  BY <1>2 DEF coor_node_t
<1>4. nd2 \in [Addr -> coor_node_t]
  BY <1>2, <1>3 DEF coor_node_t
<1>5. /\ nd2[b].pnext = nd[a].pnext
      /\ \A x \in Addr : nd2[x].coorid = nd[x].coorid /\ (x # b => nd2[x].pnext = nd[x].pnext)
  BY <1>2 DEF coor_node_t
<1>6. PICK k \in 1 .. n : b = s[k]
  BY <1>1
<1>7. nd[s[k]].pnext = IF k = n THEN NULL ELSE s[k + 1]
  BY <1>1 DEF IsList
<1>8. k # n /\ a = s[k + 1] /\ k + 1 \in 1 .. n /\ n - 1 \in Nat
  BY <1>2, <1>6, <1>7, AddrAssumption
<1> DEFINE at(i) == IF i <= k THEN i ELSE i + 1
           t == [i \in 1 .. (n - 1) |-> s[at(i)]]
<1>9. \A i \in 1 .. (n - 1) : at(i) \in 1 .. n /\ at(i) # k + 1 /\ t[i] = s[at(i)]
  BY <1>8
<1>10. t \in [1 .. (n - 1) -> Addr]
  BY <1>9
<1> HIDE DEF nd2, t
<1>11. first = IF n - 1 = 0 THEN NULL ELSE t[1]
  <2>1. n # 1 /\ n # 0 /\ 1 \in 1 .. (n - 1) /\ at(1) = 1
    BY <1>8
  <2>2. first = s[1]
    BY <1>1, <2>1 DEF IsList
  <2> QED BY <1>9, <2>1, <2>2
<1>12. ASSUME NEW i \in 1 .. (n - 1)
       PROVE  nd2[t[i]].pnext = IF i = n - 1 THEN NULL ELSE t[i + 1]
  <2>0. \A j \in 1 .. n : nd[s[j]].pnext = IF j = n THEN NULL ELSE s[j + 1]
    BY <1>1 DEF IsList
  <2>1. CASE i = k
    <3>1. nd2[t[i]].pnext = IF k + 1 = n THEN NULL ELSE s[(k + 1) + 1]
      BY <1>5, <1>6, <1>8, <1>9, <2>0, <2>1
    <3>2. i # n - 1 => i + 1 \in 1 .. (n - 1) /\ at(i + 1) = (k + 1) + 1
      BY <1>8, <2>1
    <3> QED BY <1>8, <1>9, <2>1, <3>1, <3>2
  <2>2. CASE i # k
    <3>1. at(i) # k
      BY <2>2
    <3>2. s[at(i)] # b /\ s[at(i)] \in Addr
      BY <1>1, <1>6, <1>9, <3>1 DEF IsList
    <3>3. nd2[t[i]].pnext = IF at(i) = n THEN NULL ELSE s[at(i) + 1]
      BY <1>5, <1>9, <2>0, <3>2
    <3>4. i # n - 1 => i + 1 \in 1 .. (n - 1) /\ at(i + 1) = at(i) + 1 /\ at(i) # n
      BY <1>8, <2>2
    <3>5. i = n - 1 => at(i) = n
      BY <1>8, <2>2
    <3> QED BY <1>9, <3>3, <3>4, <3>5
  <2> QED BY <2>1, <2>2
<1>13. \A i, j \in 1 .. (n - 1) : t[i] = t[j] => i = j
  <2> SUFFICES ASSUME NEW i \in 1 .. (n - 1), NEW j \in 1 .. (n - 1), t[i] = t[j] PROVE i = j
    OBVIOUS
  <2>1. at(i) = at(j)
    BY <1>1, <1>9 DEF IsList
  <2> QED BY <2>1
<1>14. IsList(first, nd2, n - 1, t)
  BY <1>8, <1>10, <1>11, <1>12, <1>13 DEF IsList
<1>15. lv \ {a} = {t[i] : i \in 1 .. (n - 1)}
  <2>1. ASSUME NEW x \in lv \ {a} PROVE \E i \in 1 .. (n - 1) : t[i] = x
    <3>1. PICK j \in 1 .. n : x = s[j]
      BY <1>1
    <3>2. j # k + 1
      BY <1>8, <3>1
    <3> DEFINE i == IF j <= k THEN j ELSE j - 1
    <3>3. i \in 1 .. (n - 1) /\ at(i) = j
      BY <1>8, <3>2
    <3> QED BY <1>9, <3>1, <3>3
  <2>2. ASSUME NEW i \in 1 .. (n - 1) PROVE t[i] \in lv \ {a}
    BY <1>1, <1>8, <1>9 DEF IsList
  <2> QED BY <2>1, <2>2
<1>16. \A x, y \in lv \ {a} : nd2[x].coorid = nd2[y].coorid => x = y
  BY <1>2, <1>5
<1>17. \E m \in Nat : \E u \in [1 .. m -> Addr] :
         IsList(first, nd2, m, u) /\ lv \ {a} = {u[i] : i \in 1 .. m}
  BY <1>8, <1>10, <1>14, <1>15
<1> QED BY <1>2, <1>4, <1>16, <1>17 DEF Holds, nd2

(* The cells the walk meets are those on the list, and the walk ends. *)
LEMMA ReachableHeld ==
  ASSUME NEW first, NEW nd, NEW lv, Holds(first, nd, lv)
  PROVE  /\ Walk(first, nd)[N] = NULL
         /\ {Walk(first, nd)[i] : i \in 0 .. N} \ {NULL} = lv
<1> DEFINE W == Walk(first, nd)
<1>0. PICK n \in Nat : \E s \in [1 .. n -> Addr] :
        IsList(first, nd, n, s) /\ lv = {s[i] : i \in 1 .. n}
  BY DEF Holds
<1>1. PICK s \in [1 .. n -> Addr] : IsList(first, nd, n, s) /\ lv = {s[i] : i \in 1 .. n}
  BY <1>0
<1>2. /\ n <= N
      /\ \A i \in 0 .. N : W[i] = IF i < n THEN s[i + 1] ELSE NULL
  BY <1>1, WalkOnList DEF Holds
<1> HIDE DEF W
<1>3. W[N] = NULL
  BY <1>2, HeapSize
<1>4. ASSUME NEW i \in 0 .. N, W[i] # NULL PROVE W[i] \in lv
  <2>1. i < n /\ W[i] = s[i + 1] /\ i + 1 \in 1 .. n
    BY <1>2, <1>4, HeapSize
  <2> QED BY <1>1, <2>1
<1>5. ASSUME NEW a \in lv PROVE a # NULL /\ \E i \in 0 .. N : W[i] = a
  <2>1. PICK k \in 1 .. n : a = s[k]
    BY <1>1
  <2>2. k - 1 \in 0 .. N /\ k - 1 < n /\ (k - 1) + 1 = k
    BY <1>2, HeapSize
  <2> QED BY <1>2, <2>1, <2>2, AddrAssumption
<1> QED BY <1>3, <1>4, <1>5 DEF W

-----------------------------------------------------------------------------
(* The table *)

LEMMA TableSound == TableInv => ListSound
<1> SUFFICES ASSUME TableInv, ~aborted PROVE ListSound
  BY DEF ListSound
<1>1. Holds(pfirst, node, live)
  BY DEF TableInv
<1>2. Visited[Cardinality(Addr)] = NULL /\ Reachable = live
  BY <1>1, ReachableHeld, VisitedWalks DEF Reachable, N
<1> QED BY <1>1, <1>2 DEF ListSound, Holds

LEMMA TableInit == Init => TableInv
<1> SUFFICES ASSUME Init PROVE TableInv
  OBVIOUS
<1>1. TypeOK
  BY DEF Init, TypeOK
<1> QED BY <1>1, EmptyHolds DEF Init, TypeOK, TableInv

(* What a call of coor_add does to a sound table: the descriptor is bound, *)
(* or nothing is changed.                                                  *)
LEMMA AddStep ==
  ASSUME TableInv, NEW c \in Coor, NEW fd \in Fd, coor_add(c, fd)
  PROVE  /\ TableInv'
         /\ \/ \A d \in Coor : coor_findfd(d)' = IF d = c THEN fd ELSE coor_findfd(d)
            \/ UNCHANGED vars
<1> DEFINE found == Find(pfirst, node, c)
<1>1. TypeOK /\ Holds(pfirst, node, live) /\ ~aborted
  BY DEF TableInv, coor_add
<1>2. live \subseteq Addr /\ NULL \notin live /\ node \in [Addr -> coor_node_t]
  BY <1>1, AddrAssumption DEF TypeOK
<1>3. \A d : coor_findfd(d) = FdOf(pfirst, node, d) /\ coor_findfd(d)' = FdOf(pfirst', node', d)
  BY FindFinds
<1>4. coor_find(c) = found
  BY FindFinds
<1>8. Answers(pfirst, node, live)
  BY <1>1, AnswerIs
<1>5. CASE Rebind(c, fd)
  <2>1. found \in live /\ node[found].coorid = c
    <3>1. found # NULL
      BY <1>4, <1>5 DEF Rebind
    <3> HIDE DEF found
    <3> QED BY <1>1, <3>1, FindIs DEF found
  <2>2. /\ node' = [node EXCEPT ![found].fd = fd]
        /\ pfirst' = pfirst /\ live' = live /\ aborted' = aborted
    BY <1>4, <1>5 DEF Rebind
  <2> HIDE DEF found
  <2>3. Holds(pfirst', node', live')
    BY <1>1, <2>1, <2>2, ReboundHolds
  <2>4. TypeOK'
    BY <1>1, <2>2, <2>3 DEF TypeOK, Holds
  <2>5. \A a \in live : /\ node'[a].coorid = node[a].coorid
                        /\ node'[a].fd = IF a = found THEN fd ELSE node[a].fd
    BY <1>2, <2>1, <2>2 DEF coor_node_t
  <2>6. Answers(pfirst', node', live')
    BY <2>3, AnswerIs
  <2>7. ASSUME NEW d \in Coor
        PROVE  FdOf(pfirst', node', d) = IF d = c THEN fd ELSE FdOf(pfirst, node, d)
    <3>1. CASE d = c
      BY <2>1, <2>2, <2>5, <2>6, <3>1 DEF Answers
    <3>2. CASE d # c /\ \A a \in live : node[a].coorid # d
      <4>1. \A a \in live' : node'[a].coorid # d
        BY <2>2, <2>5, <3>2
      <4> QED BY <1>8, <2>6, <3>2, <4>1 DEF Answers
    <3>3. CASE d # c /\ \E a \in live : node[a].coorid = d
      <4>1. PICK a \in live : node[a].coorid = d
        BY <3>3
      <4>2. a # found
        BY <2>1, <3>3, <4>1
      <4> QED BY <1>8, <2>2, <2>5, <2>6, <3>3, <4>1, <4>2 DEF Answers
    <3> QED BY <3>1, <3>2, <3>3
  <2> QED BY <1>3, <2>3, <2>4, <2>7 DEF TableInv
<1>6. CASE Insert(c, fd)
  <2>1. \A a \in live : node[a].coorid # c
    <3>1. found = NULL
      BY <1>4, <1>6 DEF Insert
    <3>2. \/ found = NULL /\ \A a \in live : node[a].coorid # c
          \/ found \in live /\ node[found].coorid = c
      BY <1>1, FindIs
    <3> QED BY <1>2, <3>1, <3>2
  <2>2. PICK a \in Addr \ live :
          /\ node' = [node EXCEPT ![a] = [pnext |-> pfirst, coorid |-> c, fd |-> fd]]
          /\ pfirst' = a /\ live' = live \cup {a} /\ aborted' = aborted
    BY <1>6 DEF Insert, Fresh
  <2>3. Holds(pfirst', node', live')
    BY <1>1, <2>1, <2>2, InsertedHolds
  <2>4. TypeOK'
    BY <1>1, <2>2, <2>3 DEF TypeOK, Holds
  <2>5. /\ node'[a].coorid = c /\ node'[a].fd = fd
        /\ \A b \in live : node'[b] = node[b]
    BY <1>2, <2>2
  <2>6. Answers(pfirst', node', live')
    BY <2>3, AnswerIs
  <2>7. ASSUME NEW d \in Coor
        PROVE  FdOf(pfirst', node', d) = IF d = c THEN fd ELSE FdOf(pfirst, node, d)
    <3>1. CASE d = c
      <4>1. a \in live' /\ node'[a].coorid = d
        BY <2>2, <2>5, <3>1
      <4>2. FdOf(pfirst', node', d) = node'[a].fd
        BY <2>6, <4>1 DEF Answers
      <4> QED BY <2>5, <3>1, <4>2
    <3>2. CASE d # c /\ \A b \in live : node[b].coorid # d
      <4>1. \A b \in live' : node'[b].coorid # d
        BY <2>2, <2>5, <3>2
      <4> QED BY <1>8, <2>6, <3>2, <4>1 DEF Answers
    <3>3. CASE d # c /\ \E b \in live : node[b].coorid = d
      <4>1. PICK b \in live : node[b].coorid = d
        BY <3>3
      <4>2. b \in live' /\ node'[b] = node[b]
        BY <2>2, <2>5
      <4> QED BY <1>8, <2>6, <3>3, <4>1, <4>2 DEF Answers
    <3> QED BY <3>1, <3>2, <3>3
  <2> QED BY <1>3, <2>3, <2>4, <2>7 DEF TableInv
<1>7. CASE OutOfMemory(c)
  BY <1>7 DEF OutOfMemory, vars, TableInv, TypeOK
<1> QED BY <1>5, <1>6, <1>7 DEF coor_add

(* coor_del forgets the id and no other. *)
LEMMA DelStep ==
  ASSUME TableInv, NEW c \in Coor, coor_del(c)
  PROVE  /\ TableInv'
         /\ \A d \in Coor : coor_findfd(d)' = IF d = c THEN -1 ELSE coor_findfd(d)
<1> DEFINE a == Find(pfirst, node, c)
<1>1. TypeOK /\ Holds(pfirst, node, live) /\ ~aborted
  BY DEF TableInv, coor_del
<1>2. live \subseteq Addr /\ NULL \notin live /\ node \in [Addr -> coor_node_t]
  BY <1>1, AddrAssumption DEF TypeOK
<1>3. \A d : coor_findfd(d) = FdOf(pfirst, node, d) /\ coor_findfd(d)' = FdOf(pfirst', node', d)
  BY FindFinds
<1>4. coor_find(c) = a
  BY FindFinds
<1>5. a \in live /\ node[a].coorid = c
  BY <1>1, <1>4, FindIs DEF coor_del
<1>6. sl_del(a) /\ live' = live \ {a} /\ aborted' = aborted
  BY <1>4 DEF coor_del
<1> HIDE DEF a
<1>7. Holds(pfirst', node', live')
  <2>1. CASE a = pfirst
    <3>1. pfirst' = node[pfirst].pnext /\ node' = node /\ pfirst # NULL
      BY <1>2, <1>5, <1>6, <2>1 DEF sl_del
    <3> QED BY <1>1, <1>6, <2>1, <3>1, HeadUnlinkedHolds
  <2>2. CASE a # pfirst
    <3>1. Reachable = live
      BY <1>1, ReachableHeld, VisitedWalks DEF Reachable, N
    <3>2. PICK b \in live : node[b].pnext = a /\ node' = [node EXCEPT ![b].pnext = node[a].pnext]
      BY <1>6, <2>2, <3>1 DEF sl_del
    <3>3. pfirst' = pfirst
      BY <1>6, <2>2 DEF sl_del
    <3> QED BY <1>1, <1>5, <1>6, <2>2, <3>2, <3>3, UnlinkedHolds
  <2> QED BY <2>1, <2>2
<1>8. \A b \in live : node'[b].coorid = node[b].coorid /\ node'[b].fd = node[b].fd
  BY <1>2, <1>6 DEF sl_del, coor_node_t
<1>9. TypeOK'
  BY <1>1, <1>6, <1>7 DEF TypeOK, Holds
<1>10. Answers(pfirst, node, live) /\ Answers(pfirst', node', live')
  BY <1>1, <1>7, AnswerIs
<1>11. ASSUME NEW d \in Coor
       PROVE  FdOf(pfirst', node', d) = IF d = c THEN -1 ELSE FdOf(pfirst, node, d)
  <2>1. CASE d = c
    <3>1. \A b \in live' : node'[b].coorid # c
      BY <1>1, <1>5, <1>6, <1>8 DEF Holds
    <3> QED BY <1>10, <2>1, <3>1 DEF Answers
  <2>2. CASE d # c /\ \A b \in live : node[b].coorid # d
    <3>1. \A b \in live' : node'[b].coorid # d
      BY <1>6, <1>8, <2>2
    <3> QED BY <1>10, <2>2, <3>1 DEF Answers
  <2>3. CASE d # c /\ \E b \in live : node[b].coorid = d
    <3>1. PICK b \in live : node[b].coorid = d
      BY <2>3
    <3>2. b \in live' /\ node'[b].coorid = d
      BY <1>5, <1>6, <1>8, <2>3, <3>1
    <3> QED BY <1>8, <1>10, <2>3, <3>1, <3>2 DEF Answers
  <2> QED BY <2>1, <2>2, <2>3
<1> QED BY <1>3, <1>7, <1>9, <1>11 DEF TableInv

LEMMA FiniStep ==
  ASSUME TableInv, coorfd_fini
  PROVE  TableInv' /\ \A d : coor_findfd(d)' = coor_findfd(d)
<1>1. TableInv'
  BY DEF TableInv, TypeOK, coorfd_fini
<1> QED BY <1>1, FindFinds DEF coorfd_fini

LEMMA TableNext == TableInv /\ [Next]_vars => TableInv'
<1> SUFFICES ASSUME TableInv, [Next]_vars PROVE TableInv'
  OBVIOUS
<1>1. CASE UNCHANGED vars
  BY <1>1 DEF vars, TableInv, TypeOK
<1> QED BY <1>1, AddStep, DelStep, FiniStep DEF Next

(* Every variable of the table keeps the type of its C declaration. *)
THEOREM TableTypeCorrect == Spec => []TypeOK
<1>1. TableInv => TypeOK
  BY DEF TableInv
<1> QED BY <1>1, TableInit, TableNext, PTL DEF Spec

(* coor.c:27-83, list.h:39-63: whatever is added and deleted in whatever   *)
(* order, the list ends, holds the live nodes and each id once.            *)
THEOREM ListIsSound == Spec => []ListSound
  BY TableInit, TableNext, TableSound, PTL DEF Spec

(* The linked list implements CoorMap: what a lookup answers is changed by *)
(* coor_add and coor_del alone, for the id they are given, as they say.    *)
THEOREM ListImplementsMap == Spec => ImplementsCoorMap
<1> DEFINE fdof == [c \in Coor |-> coor_findfd(c)]
<1>1. Init => Table!Init
  <2> SUFFICES ASSUME Init, NEW c \in Coor PROVE coor_findfd(c) = -1
    BY DEF Table!Init, Table!NoFd
  <2>1. TableInv /\ ~aborted /\ live = {}
    BY TableInit DEF Init
  <2> QED BY <2>1, AnswerIs, FindFinds DEF TableInv, Answers
<1>2. TableInv /\ [Next]_vars => [Table!Next]_fdof
  <2> SUFFICES ASSUME TableInv, [Next]_vars PROVE [Table!Next]_fdof
    OBVIOUS
  <2>1. ASSUME UNCHANGED vars PROVE fdof' = fdof
    BY <2>1, FindFinds DEF vars
  <2>2. ASSUME NEW c \in Coor, NEW fd \in Fd, coor_add(c, fd) PROVE [Table!Next]_fdof
    <3>1. ASSUME \A d \in Coor : coor_findfd(d)' = IF d = c THEN fd ELSE coor_findfd(d)
          PROVE  fdof' = [fdof EXCEPT ![c] = fd]
      BY <3>1
    <3>2. fdof' = [fdof EXCEPT ![c] = fd] => Table!Next
      BY DEF Table!Next, Table!coor_add, Table!Bind
    <3> QED BY <2>1, <2>2, <3>1, <3>2, AddStep
  <2>3. ASSUME NEW c \in Coor, coor_del(c) PROVE [Table!Next]_fdof
    <3>1. fdof' = [fdof EXCEPT ![c] = -1]
      BY <2>3, DelStep
    <3> QED BY <3>1 DEF Table!Next, Table!coor_del, Table!NoFd
  <2>4. ASSUME coorfd_fini PROVE fdof' = fdof
    BY <2>4, FiniStep
  <2> QED BY <2>1, <2>2, <2>3, <2>4 DEF Next
<1> QED BY <1>1, <1>2, TableInit, TableNext, PTL DEF Spec, ImplementsCoorMap, Table!Spec
=============================================================================
