---------------------------- MODULE JsonTreeProofs ----------------------------
(***************************************************************************)
(* Every function of cJSON that links or unlinks an item keeps the lists   *)
(* of its memory linked (JsonList's Linked), for any number of items and   *)
(* any depth; every call a client of JsonTree makes keeps the memory whole *)
(* (Sound): whatever there is hangs from the client's own items or from    *)
(* what a call that failed was given, is in one list at one place, and its *)
(* strings are counted.  JsonTree's invariants follow.                     *)
(***************************************************************************)
EXTENDS JsonTree, Recursion

(* An item in no list, as the client's own are. *)
Loose(m, i) ==
  /\ i \in Live(m) /\ m.item[i].next = NULL /\ m.item[i].prev = NULL
  /\ \A y \in Live(m) : Owner(m, y) => m.item[y].child # i

(* A member of a's list. *)
MemberOf(m, a, i) == a \in Live(m) /\ Owner(m, a) /\ i \in Chain(m, a)

-----------------------------------------------------------------------------
(* Every list ends. *)

(* A list starts with its owner's child, goes on along next, and is live. *)
LEMMA ChainFacts ==
  ASSUME NEW m \in Memory, NEW a \in Live(m), Owner(m, a), Linked(m),
         m.item[a].child # NULL
  PROVE  /\ m.item[a].child \in Chain(m, a)
         /\ \A x \in Chain(m, a) : m.item[x].next # NULL => m.item[x].next \in Chain(m, a)
         /\ Chain(m, a) \subseteq Live(m)
<1> DEFINE head == m.item[a].child
<1>1. m.item \in [Cell -> Item] /\ a \in Cell
  BY DEF Memory, Live
<1>2. head \in Live(m)
  BY DEF Linked
<1>3. head \in Chain(m, a)
  BY <1>2 DEF Chain, Live
<1>4. ASSUME NEW x \in Chain(m, a), m.item[x].next # NULL
      PROVE  m.item[x].next \in Chain(m, a)
  <2>1. x \in Cell /\ m.item[x].next \in Cell
    BY <1>1, <1>4 DEF Chain, Item, Pointer
  <2>2. SUFFICES ASSUME NEW S \in SUBSET Cell, head \in S,
                        \A y \in S : m.item[y].next # NULL => m.item[y].next \in S
                 PROVE  m.item[x].next \in S
    BY <2>1 DEF Chain
  <2>3. x \in S
    BY <2>2 DEF Chain
  <2> QED BY <2>2, <2>3, <1>4
<1>5. Chain(m, a) \subseteq Live(m)
  <2>1. Live(m) \in SUBSET Cell
    BY DEF Live
  <2>2. \A y \in Live(m) : m.item[y].next # NULL => m.item[y].next \in Live(m)
    BY DEF Linked
  <2> QED BY <1>2, <2>1, <2>2 DEF Chain
<1> QED BY <1>3, <1>4, <1>5

(* A member is not its own neighbour, and only the head has no prev: a     *)
(* chain without a member nobody leads to would be a smaller one.          *)
LEMMA MemberFacts ==
  ASSUME NEW m \in Memory, NEW a, NEW i, MemberOf(m, a, i), Linked(m)
  PROVE  /\ i \in Live(m) /\ a \in Live(m) /\ Owner(m, a)
         /\ m.item[i].prev = NULL => m.item[a].child = i
         /\ m.item[i].next # i /\ m.item[i].prev # i
<1> DEFINE head == m.item[a].child
           C == Chain(m, a)
<1>1. a \in Live(m) /\ Owner(m, a) /\ i \in C
  BY DEF MemberOf
<1>2. head # NULL
  <2>1. SUFFICES ASSUME head = NULL PROVE FALSE
    OBVIOUS
  <2>2. i \in {}
    BY <1>1, <2>1 DEF Chain
  <2> QED BY <2>2
<1>3. /\ head \in C /\ C \subseteq Live(m) /\ C \subseteq Cell
      /\ \A x \in C : m.item[x].next # NULL => m.item[x].next \in C
  BY <1>1, <1>2, ChainFacts DEF Live
<1>4. ASSUME NEW x \in Live(m)
      PROVE  /\ m.item[x].next # NULL => m.item[m.item[x].next].prev = x
             /\ x # NULL
  BY NullAssumption DEF Linked, Live
<1>5. m.item[head].prev = NULL
  BY <1>1, <1>2 DEF Linked
<1>6. CASE i = head
  BY <1>1, <1>3, <1>4, <1>5, <1>6
<1>7. CASE i # head
  <2>1. PICK x \in C \ {i} : m.item[x].next = i
    <3>1. SUFFICES ASSUME \A x \in C \ {i} : m.item[x].next # i PROVE FALSE
      OBVIOUS
    <3>2. /\ C \ {i} \in SUBSET Cell /\ head \in C \ {i}
          /\ \A x \in C \ {i} : m.item[x].next # NULL => m.item[x].next \in C \ {i}
      BY <1>3, <1>7, <3>1
    <3>3. i \in C \ {i}
      <4> HIDE DEF head
      <4>1. \A S \in SUBSET Cell :
              /\ m.item[a].child # NULL => m.item[a].child \in S
              /\ \A y \in S : m.item[y].next # NULL => m.item[y].next \in S
              => i \in S
        BY <1>1 DEF Chain
      <4> QED BY <3>2, <4>1 DEF head
    <3> QED BY <3>3
  <2>2. m.item[i].prev = x /\ x # NULL /\ x # i
    BY <1>1, <1>3, <1>4, <2>1
  <2>3. m.item[i].next # i
    BY <1>1, <1>3, <1>4, <2>2
  <2> QED BY <1>1, <1>3, <2>2, <2>3
<1> QED BY <1>6, <1>7

(* The walk of add_item_to_array (cJSON.c:1860) reaches an item without a  *)
(* next: next maps the list one to one into the list without its head.     *)
THEOREM ListEnds ==
  ASSUME NEW m \in Memory, NEW a \in Live(m), Owner(m, a), Linked(m),
         m.item[a].child # NULL
  PROVE  /\ LastItem(m, a) \in Live(m) /\ LastItem(m, a) \in Chain(m, a)
         /\ m.item[LastItem(m, a)].next = NULL
<1> DEFINE head == m.item[a].child
           C == Chain(m, a)
           f == [x \in C |-> m.item[x].next]
<1>1. head \in C /\ C \subseteq Live(m) /\ C \subseteq Cell
  BY ChainFacts DEF Live
<1>2. \A x \in C : m.item[x].next # NULL => m.item[x].next \in C
  BY ChainFacts
<1>3. SUFFICES \E x \in C : m.item[x].next = NULL
  BY <1>1 DEF LastItem
<1>4. SUFFICES ASSUME \A x \in C : m.item[x].next # NULL
               PROVE  FALSE
  OBVIOUS
<1>5. m.item[head].prev = NULL
  BY DEF Linked
<1>6. \A x \in C : m.item[m.item[x].next].prev = x
  BY <1>1, <1>4 DEF Linked
<1>7. NULL \notin C
  BY <1>1, NullAssumption
<1>8. f \in [C -> C \ {head}]
  BY <1>2, <1>4, <1>5, <1>6, <1>7
<1>9. f \in Injection(C, C \ {head})
  BY <1>6, <1>8 DEF Injection, IsInjective
<1>10. IsFiniteSet(C) /\ IsFiniteSet(C \ {head})
  BY <1>1, CellAssumption, FS_Subset
<1>11. Cardinality(C) <= Cardinality(C \ {head})
  BY <1>9, <1>10, FS_Injection
<1>12. Cardinality(C \ {head}) = Cardinality(C) - 1 /\ Cardinality(C) \in Nat
  BY <1>1, <1>10, FS_RemoveElement, FS_CardinalityType
<1> QED BY <1>11, <1>12

-----------------------------------------------------------------------------
(* Appending *)

(* An item in no list goes behind the last one of a list. *)
LEMMA SuffixLinked ==
  ASSUME NEW m \in Memory, NEW p \in Live(m), NEW i, Loose(m, i), Linked(m),
         m.item[p].next = NULL
  PROVE  Linked(suffix_object(m, p, i))
<1> DEFINE n == suffix_object(m, p, i)
<1>1. m.item \in [Cell -> Item] /\ p \in Cell /\ i \in Cell
  BY DEF Memory, Live, Loose
<1>2. \A c \in Cell :
        /\ n.item[c].next = IF c = p THEN i ELSE m.item[c].next
        /\ n.item[c].prev = IF c = i THEN p ELSE m.item[c].prev
        /\ n.item[c].child = m.item[c].child
        /\ n.item[c].kind = m.item[c].kind /\ n.item[c].ref = m.item[c].ref
  BY <1>1 DEF suffix_object, Memory, Item
<1>3. Live(n) = Live(m) /\ \A c \in Cell : Owner(n, c) <=> Owner(m, c)
  BY <1>2 DEF Live, Owner
<1>4. p # NULL /\ i # NULL
  BY <1>1, NullAssumption
<1>5. ASSUME NEW x \in Live(m)
      PROVE  /\ n.item[x].next # NULL =>
                  n.item[x].next \in Live(m) /\ n.item[n.item[x].next].prev = x
             /\ n.item[x].prev # NULL =>
                  n.item[x].prev \in Live(m) /\ n.item[n.item[x].prev].next = x
  <2>1. x \in Cell
    BY DEF Live
  <2>2. m.item[x].next # NULL => m.item[x].next \in Live(m) /\ m.item[m.item[x].next].prev = x
    BY DEF Linked
  <2>3. m.item[x].prev # NULL => m.item[x].prev \in Live(m) /\ m.item[m.item[x].prev].next = x
    BY DEF Linked
  <2>4. \A y \in Live(m) : y \in Cell
    BY DEF Live
  <2>5. i \in Live(m) /\ m.item[i].prev = NULL
    BY DEF Loose
  <2> HIDE DEF n
  <2> QED BY <1>1, <1>2, <1>4, <2>1, <2>2, <2>3, <2>4, <2>5, NullAssumption
<1>6. ASSUME NEW x \in Live(m), Owner(m, x), m.item[x].child # NULL
      PROVE  /\ n.item[x].child \in Live(m) /\ n.item[n.item[x].child].prev = NULL
             /\ \A y \in Live(m) : Owner(m, y) /\ n.item[y].child = n.item[x].child => y = x
  <2>1. \A y \in Live(m) : y \in Cell
    BY DEF Live
  <2>2. /\ m.item[x].child \in Live(m) /\ m.item[m.item[x].child].prev = NULL
        /\ \A y \in Live(m) : Owner(m, y) /\ m.item[y].child = m.item[x].child => y = x
    BY <1>6 DEF Linked
  <2>3. m.item[x].child # i
    BY <1>6 DEF Loose
  <2> HIDE DEF n
  <2> QED BY <1>2, <2>1, <2>2, <2>3
<1> HIDE DEF n
<1>7. \A x \in Live(m) : x \in Cell
  BY DEF Live
<1>8. Linked(n)
  BY <1>2, <1>3, <1>5, <1>6, <1>7 DEF Linked
<1> QED BY <1>8 DEF n

(* cJSON_AddItemToArray and the adds to an object leave the lists linked   *)
(* when they are given an item that is in none.                            *)
THEOREM AppendLinked ==
  ASSUME NEW m \in Memory, NEW a \in Live(m), Owner(m, a), NEW i, Loose(m, i), Linked(m)
  PROVE  Linked(add_item_to_array(m, a, i))
<1>1. CASE m.item[a].child # NULL
  BY <1>1, ListEnds, SuffixLinked DEF add_item_to_array
<1>2. CASE m.item[a].child = NULL
  <2> DEFINE n == [m EXCEPT !.item[a].child = i]
  <2>1. m.item \in [Cell -> Item] /\ a \in Cell /\ i \in Cell
    BY DEF Memory, Live, Loose
  <2>2. \A c \in Cell :
          /\ n.item[c].child = IF c = a THEN i ELSE m.item[c].child
          /\ n.item[c].next = m.item[c].next /\ n.item[c].prev = m.item[c].prev
          /\ n.item[c].kind = m.item[c].kind /\ n.item[c].ref = m.item[c].ref
    BY <2>1 DEF Memory, Item
  <2>3. Live(n) = Live(m) /\ \A c \in Cell : Owner(n, c) <=> Owner(m, c)
    BY <2>2 DEF Live, Owner
  <2>4. \A x \in Live(m) : x \in Cell
    BY DEF Live
  <2>5. /\ i \in Live(m) /\ m.item[i].prev = NULL
        /\ \A y \in Live(m) : Owner(m, y) => m.item[y].child # i
    BY DEF Loose
  <2> HIDE DEF n
  <2>6. ASSUME NEW x \in Live(m)
        PROVE  /\ n.item[x].next # NULL =>
                    n.item[x].next \in Live(m) /\ n.item[n.item[x].next].prev = x
               /\ n.item[x].prev # NULL =>
                    n.item[x].prev \in Live(m) /\ n.item[n.item[x].prev].next = x
    <3>1. /\ m.item[x].next # NULL => m.item[x].next \in Live(m) /\ m.item[m.item[x].next].prev = x
          /\ m.item[x].prev # NULL => m.item[x].prev \in Live(m) /\ m.item[m.item[x].prev].next = x
      BY DEF Linked
    <3> QED BY <2>2, <2>4, <3>1
  <2>7. ASSUME NEW x \in Live(m), Owner(m, x), n.item[x].child # NULL
        PROVE  /\ n.item[x].child \in Live(m) /\ n.item[n.item[x].child].prev = NULL
               /\ \A y \in Live(m) : Owner(m, y) /\ n.item[y].child = n.item[x].child => y = x
    <3>1. CASE x = a
      BY <2>1, <2>2, <2>4, <2>5, <3>1
    <3>2. CASE x # a
      <4>1. n.item[x].child = m.item[x].child
        BY <2>2, <2>4, <3>2
      <4>2. /\ m.item[x].child \in Live(m) /\ m.item[m.item[x].child].prev = NULL
            /\ \A y \in Live(m) : Owner(m, y) /\ m.item[y].child = m.item[x].child => y = x
        BY <2>7, <4>1 DEF Linked
      <4>3. m.item[x].child # i
        BY <2>5, <2>7
      <4> QED BY <2>2, <2>4, <4>1, <4>2, <4>3
    <3> QED BY <3>1, <3>2
  <2>8. Linked(n)
    BY <2>2, <2>3, <2>4, <2>6, <2>7 DEF Linked
  <2> QED BY <1>2, <2>8 DEF add_item_to_array, n
<1> QED BY <1>1, <1>2

-----------------------------------------------------------------------------
(* Detaching, inserting and replacing *)

(* cJSON_DetachItemViaPointer: a member of parent's list, be it the first, *)
(* the last or in between, leaves linked lists and is in none of them.     *)
THEOREM DetachLinked ==
  ASSUME NEW m \in Memory, NEW parent, NEW i, MemberOf(m, parent, i), parent # i, Linked(m)
  PROVE  Linked(cJSON_DetachItemViaPointer(m, parent, i)) /\ Loose(cJSON_DetachItemViaPointer(m, parent, i), i)
<1> DEFINE n == cJSON_DetachItemViaPointer(m, parent, i)
<1>1. m.item \in [Cell -> Item] /\ i \in Cell
  BY MemberFacts DEF Memory, Live, Loose
<1>2. \A c \in Cell :
        /\ n.item[c].next = IF c = i THEN NULL
                            ELSE IF c = m.item[i].prev THEN m.item[i].next ELSE m.item[c].next
        /\ n.item[c].prev = IF c = i THEN NULL
                            ELSE IF c = m.item[i].next THEN m.item[i].prev ELSE m.item[c].prev
        /\ n.item[c].child = IF c = parent /\ m.item[c].child = i /\ c # i
                             THEN m.item[i].next ELSE m.item[c].child
        /\ n.item[c].kind = m.item[c].kind /\ n.item[c].ref = m.item[c].ref
  BY <1>1 DEF cJSON_DetachItemViaPointer, Memory, Item
<1>3. Live(n) = Live(m) /\ \A c \in Cell : Owner(n, c) <=> Owner(m, c)
  BY <1>2 DEF Live, Owner
<1>4. /\ i \in Live(m) /\ parent \in Live(m) /\ Owner(m, parent) /\ parent # i
      /\ m.item[i].prev = NULL => m.item[parent].child = i
  BY MemberFacts
<1>5. \A x \in Live(m) : x \in Cell
  BY DEF Live
<1>6. \A x \in Live(m) :
        /\ m.item[x].next # NULL => m.item[x].next \in Live(m) /\ m.item[m.item[x].next].prev = x
        /\ m.item[x].prev # NULL => m.item[x].prev \in Live(m) /\ m.item[m.item[x].prev].next = x
  BY DEF Linked
<1>7. \A x \in Live(m) : Owner(m, x) /\ m.item[x].child # NULL =>
        /\ m.item[x].child \in Live(m) /\ m.item[m.item[x].child].prev = NULL
        /\ \A y \in Live(m) : Owner(m, y) /\ m.item[y].child = m.item[x].child => y = x
  BY DEF Linked
<1> HIDE DEF n
<1>8. ASSUME NEW x \in Live(m)
      PROVE  /\ n.item[x].next # NULL =>
                  n.item[x].next \in Live(m) /\ n.item[n.item[x].next].prev = x
             /\ n.item[x].prev # NULL =>
                  n.item[x].prev \in Live(m) /\ n.item[n.item[x].prev].next = x
  BY SMTT(30), <1>2, <1>4, <1>5, <1>6, <1>7, NullAssumption
<1>9. ASSUME NEW x \in Live(m), Owner(m, x), n.item[x].child # NULL
      PROVE  /\ n.item[x].child \in Live(m) /\ n.item[n.item[x].child].prev = NULL
             /\ \A y \in Live(m) : Owner(m, y) /\ n.item[y].child = n.item[x].child => y = x
  BY <1>2, <1>4, <1>5, <1>6, <1>7, <1>9, NullAssumption
<1>10. Linked(n)
  BY <1>2, <1>3, <1>5, <1>8, <1>9 DEF Linked
<1>11. Loose(n, i)
  BY <1>2, <1>3, <1>4, <1>5, <1>6, <1>7, NullAssumption DEF Loose
<1> QED BY <1>10, <1>11 DEF n

(* cJSON_InsertItemInArray: in front of any member of a's list. *)
THEOREM InsertLinked ==
  ASSUME NEW m \in Memory, NEW a, NEW after, MemberOf(m, a, after),
         NEW i, Loose(m, i), a # i, after # i, Linked(m)
  PROVE  Linked(InsertBefore(m, a, after, i))
<1> DEFINE n == InsertBefore(m, a, after, i)
<1>1. m.item \in [Cell -> Item] /\ i \in Cell
  BY MemberFacts DEF Memory, Live, Loose
<1>2. \A c \in Cell :
        /\ n.item[c].next = IF c = i THEN after
                            ELSE IF c = m.item[after].prev /\ after # m.item[a].child
                                 THEN i ELSE m.item[c].next
        /\ n.item[c].prev = IF c = i THEN m.item[after].prev
                            ELSE IF c = after THEN i ELSE m.item[c].prev
        /\ n.item[c].child = IF c = a /\ m.item[c].child = after /\ c # i
                             THEN i ELSE m.item[c].child
        /\ n.item[c].kind = m.item[c].kind /\ n.item[c].ref = m.item[c].ref
  BY <1>1 DEF InsertBefore, Memory, Item
<1>3. Live(n) = Live(m) /\ \A c \in Cell : Owner(n, c) <=> Owner(m, c)
  BY <1>2 DEF Live, Owner
<1>4. /\ i \in Live(m) /\ m.item[i].next = NULL /\ m.item[i].prev = NULL
      /\ \A y \in Live(m) : Owner(m, y) => m.item[y].child # i
      /\ after \in Live(m) /\ a \in Live(m) /\ Owner(m, a) /\ a # i /\ after # i
      /\ m.item[after].prev = NULL => m.item[a].child = after
  BY MemberFacts DEF Loose
<1>5. \A x \in Live(m) : x \in Cell
  BY DEF Live
<1>6. \A x \in Live(m) :
        /\ m.item[x].next # NULL => m.item[x].next \in Live(m) /\ m.item[m.item[x].next].prev = x
        /\ m.item[x].prev # NULL => m.item[x].prev \in Live(m) /\ m.item[m.item[x].prev].next = x
  BY DEF Linked
<1>7. \A x \in Live(m) : Owner(m, x) /\ m.item[x].child # NULL =>
        /\ m.item[x].child \in Live(m) /\ m.item[m.item[x].child].prev = NULL
        /\ \A y \in Live(m) : Owner(m, y) /\ m.item[y].child = m.item[x].child => y = x
  BY DEF Linked
<1> HIDE DEF n
<1>8. ASSUME NEW x \in Live(m)
      PROVE  /\ n.item[x].next # NULL =>
                  n.item[x].next \in Live(m) /\ n.item[n.item[x].next].prev = x
             /\ n.item[x].prev # NULL =>
                  n.item[x].prev \in Live(m) /\ n.item[n.item[x].prev].next = x
  <2>1. (m.item[after].prev = NULL) <=> (m.item[a].child = after)
    BY <1>4, <1>5, <1>6, <1>7, NullAssumption
  <2>2. ASSUME n.item[x].next # NULL
        PROVE  n.item[x].next \in Live(m) /\ n.item[n.item[x].next].prev = x
    <3>1. CASE x = i
      BY <1>2, <1>4, <1>5, <1>6, <2>1, <2>2, <3>1, NullAssumption
    <3>2. CASE x # i /\ x = m.item[after].prev
      BY <1>2, <1>4, <1>5, <1>6, <2>1, <2>2, <3>2, NullAssumption
    <3>3. CASE x # i /\ x # m.item[after].prev
      BY <1>2, <1>4, <1>5, <1>6, <2>1, <2>2, <3>3, NullAssumption
    <3> QED BY <3>1, <3>2, <3>3
  <2>3. ASSUME n.item[x].prev # NULL
        PROVE  n.item[x].prev \in Live(m) /\ n.item[n.item[x].prev].next = x
    <3>1. CASE x = i
      BY <1>2, <1>4, <1>5, <1>6, <2>1, <2>3, <3>1, NullAssumption
    <3>2. CASE x # i /\ x = after
      BY <1>2, <1>4, <1>5, <1>6, <2>1, <2>3, <3>2, NullAssumption
    <3>3. CASE x # i /\ x # after
      BY <1>2, <1>4, <1>5, <1>6, <2>1, <2>3, <3>3, NullAssumption
    <3> QED BY <3>1, <3>2, <3>3
  <2> QED BY <2>2, <2>3
<1>9. ASSUME NEW x \in Live(m), Owner(m, x), n.item[x].child # NULL
      PROVE  /\ n.item[x].child \in Live(m) /\ n.item[n.item[x].child].prev = NULL
             /\ \A y \in Live(m) : Owner(m, y) /\ n.item[y].child = n.item[x].child => y = x
  BY <1>2, <1>4, <1>5, <1>6, <1>7, <1>9, NullAssumption
<1>10. Linked(n)
  BY <1>2, <1>3, <1>5, <1>8, <1>9 DEF Linked
<1> QED BY <1>10 DEF n

(* r takes the place of any member of parent's list, which is in no list   *)
(* after that and may be deleted.                                          *)
THEOREM ReplacedLinked ==
  ASSUME NEW m \in Memory, NEW parent, NEW i, MemberOf(m, parent, i), parent # i,
         NEW r, Loose(m, r), parent # r, i # r, Linked(m)
  PROVE  Linked(Replaced(m, parent, i, r)) /\ Loose(Replaced(m, parent, i, r), i)
<1> DEFINE n == Replaced(m, parent, i, r)
<1>1. m.item \in [Cell -> Item] /\ i \in Cell
  BY MemberFacts DEF Memory, Live, Loose
<1>2. \A c \in Cell :
        /\ n.item[c].next = IF c = r THEN m.item[i].next ELSE IF c = i THEN NULL
                            ELSE IF c = m.item[i].prev THEN r ELSE m.item[c].next
        /\ n.item[c].prev = IF c = r THEN m.item[i].prev ELSE IF c = i THEN NULL
                            ELSE IF c = m.item[i].next THEN r ELSE m.item[c].prev
        /\ n.item[c].child = IF c = parent /\ m.item[c].child = i /\ c # i /\ c # r
                             THEN r ELSE m.item[c].child
        /\ n.item[c].kind = m.item[c].kind /\ n.item[c].ref = m.item[c].ref
  BY <1>1 DEF Replaced, Memory, Item
<1>3. Live(n) = Live(m) /\ \A c \in Cell : Owner(n, c) <=> Owner(m, c)
  BY <1>2 DEF Live, Owner
<1>4. /\ r \in Live(m) /\ m.item[r].next = NULL /\ m.item[r].prev = NULL
      /\ \A y \in Live(m) : Owner(m, y) => m.item[y].child # r
      /\ i \in Live(m) /\ parent \in Live(m) /\ Owner(m, parent)
      /\ parent # i /\ parent # r /\ i # r
      /\ m.item[i].next # i /\ m.item[i].prev # i
      /\ m.item[i].prev = NULL => m.item[parent].child = i
  BY MemberFacts DEF Loose
<1>5. \A x \in Live(m) : x \in Cell
  BY DEF Live
<1>6. \A x \in Live(m) :
        /\ m.item[x].next # NULL => m.item[x].next \in Live(m) /\ m.item[m.item[x].next].prev = x
        /\ m.item[x].prev # NULL => m.item[x].prev \in Live(m) /\ m.item[m.item[x].prev].next = x
  BY DEF Linked
<1>7. \A x \in Live(m) : Owner(m, x) /\ m.item[x].child # NULL =>
        /\ m.item[x].child \in Live(m) /\ m.item[m.item[x].child].prev = NULL
        /\ \A y \in Live(m) : Owner(m, y) /\ m.item[y].child = m.item[x].child => y = x
  BY DEF Linked
<1> HIDE DEF n
<1>8. ASSUME NEW x \in Live(m)
      PROVE  /\ n.item[x].next # NULL =>
                  n.item[x].next \in Live(m) /\ n.item[n.item[x].next].prev = x
             /\ n.item[x].prev # NULL =>
                  n.item[x].prev \in Live(m) /\ n.item[n.item[x].prev].next = x
  <2>1. /\ m.item[i].next # NULL => m.item[i].next \in Live(m) /\ m.item[m.item[i].next].prev = i
        /\ m.item[i].prev # NULL => m.item[i].prev \in Live(m) /\ m.item[m.item[i].prev].next = i
        /\ m.item[i].next \notin {i, r} /\ m.item[i].prev \notin {i, r}
    BY <1>4, <1>5, <1>6, <1>7, NullAssumption
  <2>2. ASSUME n.item[x].next # NULL
        PROVE  n.item[x].next \in Live(m) /\ n.item[n.item[x].next].prev = x
    <3>1. CASE x = r
      BY <1>2, <1>4, <1>5, <1>6, <2>1, <2>2, <3>1, NullAssumption
    <3>2. CASE x = i
      BY <1>2, <1>4, <1>5, <1>6, <2>1, <2>2, <3>2, NullAssumption
    <3>3. CASE x # r /\ x # i /\ x = m.item[i].prev
      BY <1>2, <1>4, <1>5, <1>6, <2>1, <2>2, <3>3, NullAssumption
    <3>4. CASE x # r /\ x # i /\ x # m.item[i].prev
      <4>1. x \in Cell /\ n.item[x].next = m.item[x].next /\ m.item[x].next # NULL
        BY <1>2, <1>5, <2>2, <3>4
      <4>2. m.item[x].next \in Live(m) /\ m.item[m.item[x].next].prev = x
        BY <1>6, <4>1
      <4>3. m.item[x].next # i /\ m.item[x].next # r /\ m.item[x].next # m.item[i].next
        BY <1>4, <1>5, <2>1, <3>4, <4>2, NullAssumption
      <4> QED BY <1>2, <1>5, <4>1, <4>2, <4>3
    <3> QED BY <3>1, <3>2, <3>3, <3>4
  <2>3. ASSUME n.item[x].prev # NULL
        PROVE  n.item[x].prev \in Live(m) /\ n.item[n.item[x].prev].next = x
    <3>1. CASE x = r
      BY <1>2, <1>4, <1>5, <1>6, <2>1, <2>3, <3>1, NullAssumption
    <3>2. CASE x = i
      BY <1>2, <1>4, <1>5, <1>6, <2>1, <2>3, <3>2, NullAssumption
    <3>3. CASE x # r /\ x # i /\ x = m.item[i].next
      BY <1>2, <1>4, <1>5, <1>6, <2>1, <2>3, <3>3, NullAssumption
    <3>4. CASE x # r /\ x # i /\ x # m.item[i].next
      <4>1. x \in Cell /\ n.item[x].prev = m.item[x].prev /\ m.item[x].prev # NULL
        BY <1>2, <1>5, <2>3, <3>4
      <4>2. m.item[x].prev \in Live(m) /\ m.item[m.item[x].prev].next = x
        BY <1>6, <4>1
      <4>3. m.item[x].prev # i /\ m.item[x].prev # r /\ m.item[x].prev # m.item[i].prev
        BY <1>4, <1>5, <2>1, <3>4, <4>2, NullAssumption
      <4> QED BY <1>2, <1>5, <4>1, <4>2, <4>3
    <3> QED BY <3>1, <3>2, <3>3, <3>4
  <2> QED BY <2>2, <2>3
<1>9. ASSUME NEW x \in Live(m), Owner(m, x), n.item[x].child # NULL
      PROVE  /\ n.item[x].child \in Live(m) /\ n.item[n.item[x].child].prev = NULL
             /\ \A y \in Live(m) : Owner(m, y) /\ n.item[y].child = n.item[x].child => y = x
  BY <1>2, <1>4, <1>5, <1>6, <1>7, <1>9, NullAssumption
<1>10. Linked(n)
  BY <1>2, <1>3, <1>5, <1>8, <1>9 DEF Linked
<1>11. Loose(n, i)
  BY <1>2, <1>3, <1>4, <1>5, <1>6, <1>7, NullAssumption DEF Loose
<1> QED BY <1>10, <1>11 DEF n

-----------------------------------------------------------------------------
(* Deleting *)

(* What cJSON_Delete goes through: it starts with i, every item is led to  *)
(* from another one, and it leaves nothing behind that it leads to.        *)
LEMMA DoomedFacts ==
  ASSUME NEW m \in Memory, NEW i \in Live(m), Linked(m)
  PROVE  /\ i \in Doomed(m, i) /\ Doomed(m, i) \subseteq Live(m)
         /\ \A y \in Doomed(m, i) : Follows(m, y) \cap Cell \subseteq Doomed(m, i)
         /\ \A y \in Doomed(m, i) \ {i} : \E z \in Doomed(m, i) : y \in Follows(m, z)
<1> DEFINE D == Doomed(m, i)
<1>1. i \in D /\ D \subseteq Cell
  BY DEF Doomed, Live
<1>2. \A x \in D : \A S \in SUBSET Cell :
        i \in S /\ (\A y \in S : Follows(m, y) \subseteq S) => x \in S
  BY DEF Doomed
<1>3. ASSUME NEW y \in D, NEW c \in Follows(m, y) \cap Cell
      PROVE  c \in D
  <2>1. SUFFICES ASSUME NEW S \in SUBSET Cell, i \in S, \A z \in S : Follows(m, z) \subseteq S
                 PROVE  c \in S
    BY DEF Doomed
  <2>2. y \in S
    BY <1>2, <2>1
  <2> QED BY <2>1, <2>2
<1>4. \A y \in D : Follows(m, y) \subseteq Cell
  BY <1>1 DEF Follows, Memory, Item, Pointer
<1>5. ASSUME NEW y \in D \ {i}, \A z \in D : y \notin Follows(m, z)
      PROVE  FALSE
  <2>1. D \ {y} \in SUBSET Cell /\ i \in D \ {y}
    BY <1>1
  <2>2. \A z \in D \ {y} : Follows(m, z) \subseteq D \ {y}
    BY <1>3, <1>4, <1>5
  <2>3. y \in D \ {y}
    <3> HIDE DEF D
    <3> QED BY <1>2, <2>1, <2>2
  <2> QED BY <2>3
<1>6. D \subseteq Live(m)
  <2>1. Live(m) \in SUBSET Cell
    BY DEF Live
  <2>2. \A y \in Live(m) : Follows(m, y) \subseteq Live(m)
    BY DEF Linked, Follows, Owner, Live
  <2> HIDE DEF D
  <2> QED BY <1>2, <2>1, <2>2
<1> QED BY <1>1, <1>3, <1>5, <1>6

(* cJSON_Delete of an item in no list frees no item another one points to: *)
(* whatever is deleted besides i has its neighbour or its owner deleted.   *)
THEOREM DeleteLinked ==
  ASSUME NEW m \in Memory, NEW i, Loose(m, i), Linked(m)
  PROVE  Linked(cJSON_Delete(m, i))
<1> DEFINE D == Doomed(m, i)
           n == Freed(m, D)
<1>1. m.item \in [Cell -> Item] /\ i \in Live(m) /\ i \in Cell /\ i # NULL
  BY NullAssumption DEF Memory, Live, Loose
<1>2. /\ i \in D /\ D \subseteq Live(m) /\ D \subseteq Cell
      /\ \A y \in D : Follows(m, y) \cap Cell \subseteq D
      /\ \A y \in D \ {i} : \E z \in D : y \in Follows(m, z)
  BY <1>1, DoomedFacts DEF Live
<1>3. \A c \in Cell : n.item[c] = IF c \in D THEN FreeItem ELSE m.item[c]
  BY DEF Freed
<1>4. Live(n) = Live(m) \ D
  BY <1>3 DEF Live, FreeItem
<1>5. \A x \in Live(n) : n.item[x] = m.item[x] /\ x \in Cell /\ (Owner(n, x) <=> Owner(m, x))
  BY <1>3, <1>4 DEF Live, Owner
<1>6. \A y \in D \ {i} : \E z \in D :
        \/ m.item[z].next = y
        \/ Owner(m, z) /\ m.item[z].child = y
  <2>1. SUFFICES ASSUME NEW y \in D \ {i}
                 PROVE  \E z \in D : m.item[z].next = y \/ (Owner(m, z) /\ m.item[z].child = y)
    OBVIOUS
  <2>2. PICK z \in D : y \in Follows(m, z)
    BY <1>2, <2>1
  <2>3. z \in Live(m)
    BY <1>2
  <2> QED BY <2>2, <2>3 DEF Follows, Owner, Live
<1>7. \A x \in D : /\ m.item[x].next # NULL => m.item[x].next \in D
                   /\ Owner(m, x) /\ m.item[x].child # NULL => m.item[x].child \in D
  BY <1>1, <1>2 DEF Follows, Owner, Item, Pointer, Live
<1>8. \A x \in Live(m) :
        /\ x \in Cell /\ x # NULL
        /\ m.item[x].next # NULL => m.item[x].next \in Live(m) /\ m.item[m.item[x].next].prev = x
        /\ m.item[x].prev # NULL => m.item[x].prev \in Live(m) /\ m.item[m.item[x].prev].next = x
        /\ Owner(m, x) /\ m.item[x].child # NULL =>
             /\ m.item[x].child \in Live(m) /\ m.item[m.item[x].child].prev = NULL
             /\ \A y \in Live(m) : Owner(m, y) /\ m.item[y].child = m.item[x].child => y = x
  BY NullAssumption DEF Linked, Live
<1>9. /\ m.item[i].prev = NULL
      /\ \A y \in Live(m) : Owner(m, y) => m.item[y].child # i
  BY DEF Loose
<1>10. D \subseteq Live(m) /\ NULL \notin D /\ \A x \in D : m.item[x].next = NULL \/ m.item[x].next \in D
  BY <1>2, <1>7, <1>8
<1>11. \A x, y \in Live(m) : /\ m.item[x].next # NULL /\ m.item[x].next = m.item[y].next => x = y
                             /\ Owner(m, y) /\ m.item[x].next # NULL => m.item[y].child # m.item[x].next
  <2>1. SUFFICES ASSUME NEW x \in Live(m), NEW y \in Live(m), m.item[x].next # NULL
                 PROVE  /\ m.item[x].next = m.item[y].next => x = y
                        /\ Owner(m, y) => m.item[y].child # m.item[x].next
    OBVIOUS
  <2>2. m.item[m.item[x].next].prev = x /\ x # NULL
    BY <1>8, <2>1
  <2>3. m.item[y].next # NULL => m.item[m.item[y].next].prev = y
    BY <1>8
  <2>4. Owner(m, y) /\ m.item[y].child # NULL => m.item[m.item[y].child].prev = NULL
    BY <1>8
  <2> QED BY <2>1, <2>2, <2>3, <2>4
<1> HIDE DEF n, D
<1>12. ASSUME NEW x \in Live(n)
       PROVE  /\ m.item[x].next # NULL => m.item[x].next \in Live(n)
              /\ m.item[x].prev # NULL => m.item[x].prev \in Live(n)
              /\ Owner(m, x) /\ m.item[x].child # NULL => m.item[x].child \in Live(n)
  <2>1. x \in Live(m) /\ x \notin D
    BY <1>4
  <2>2. ASSUME m.item[x].next \in D PROVE FALSE
    <3>1. m.item[x].next # NULL /\ m.item[m.item[x].next].prev = x /\ x # NULL
      BY <1>8, <1>10, <2>1, <2>2
    <3>2. m.item[x].next # i
      BY <1>9, <3>1
    <3>3. PICK z \in D : m.item[z].next = m.item[x].next
                         \/ (Owner(m, z) /\ m.item[z].child = m.item[x].next)
      BY <1>6, <2>2, <3>2
    <3>4. z \in Live(m) /\ z # x
      BY <1>10, <2>1
    <3>5. CASE m.item[z].next = m.item[x].next
      BY <1>11, <2>1, <3>1, <3>4, <3>5
    <3>6. CASE Owner(m, z) /\ m.item[z].child = m.item[x].next
      BY <1>11, <2>1, <3>1, <3>4, <3>6
    <3> QED BY <3>3, <3>5, <3>6
  <2>3. ASSUME m.item[x].prev \in D PROVE FALSE
    <3>1. m.item[x].prev # NULL /\ m.item[m.item[x].prev].next = x /\ x # NULL
      BY <1>8, <1>10, <2>1, <2>3
    <3> QED BY <1>10, <2>1, <2>3, <3>1
  <2>4. ASSUME Owner(m, x), m.item[x].child \in D PROVE FALSE
    <3>1. /\ m.item[x].child # NULL
          /\ \A y \in Live(m) : Owner(m, y) /\ m.item[y].child = m.item[x].child => y = x
      BY <1>8, <1>10, <2>1, <2>4
    <3>2. m.item[x].child # i
      BY <1>9, <2>1, <2>4
    <3>3. PICK z \in D : m.item[z].next = m.item[x].child
                         \/ (Owner(m, z) /\ m.item[z].child = m.item[x].child)
      BY <1>6, <2>4, <3>2
    <3>4. z \in Live(m)
      BY <1>10
    <3> QED BY <1>11, <2>1, <2>4, <3>1, <3>3, <3>4
  <2>5. /\ m.item[x].next # NULL => m.item[x].next \in Live(m)
        /\ m.item[x].prev # NULL => m.item[x].prev \in Live(m)
        /\ Owner(m, x) /\ m.item[x].child # NULL => m.item[x].child \in Live(m)
    BY <1>8, <2>1
  <2> QED BY <1>4, <2>2, <2>3, <2>4, <2>5
<1>13. Linked(n)
  BY <1>4, <1>5, <1>8, <1>12 DEF Linked
<1> QED BY <1>1, <1>13 DEF cJSON_Delete, n, D

(* cJSON_ReplaceItemViaPointer: the lists are linked with the replacement  *)
(* in them, and with what it replaced gone.                                *)
THEOREM ReplaceLinked ==
  ASSUME NEW m \in Memory, NEW parent, NEW i, MemberOf(m, parent, i), parent # i,
         NEW r, Loose(m, r), parent # r, i # r, Linked(m)
  PROVE  Linked(cJSON_ReplaceItemViaPointer(m, parent, i, r))
<1> DEFINE n == Replaced(m, parent, i, r)
<1>1. Linked(n) /\ Loose(n, i)
  BY ReplacedLinked
<1>2. i \in Cell /\ i # NULL /\ r \in Cell /\ parent \in Cell
  BY MemberFacts, NullAssumption DEF Live, Loose
<1>3. n \in Memory
  <2>1. m.item \in [Cell -> Item] /\ i \in Cell /\ r \in Cell
    BY <1>2 DEF Memory
  <2>2. m.item[i].prev \in Pointer /\ m.item[i].next \in Pointer /\ NULL \in Pointer /\ r \in Pointer
    BY <2>1 DEF Item, Pointer
  <2>3. ASSUME NEW c \in Cell PROVE n.item[c] \in Item
    <3>1. m.item[c] \in Item
      BY <2>1
    <3> QED BY <2>2, <3>1 DEF Replaced, Memory, Item
  <2>4. n.item = [c \in Cell |-> n.item[c]]
    BY DEF Replaced, Memory
  <2>5. n = [m EXCEPT !.item = n.item]
    BY DEF Replaced, Memory
  <2> HIDE DEF n
  <2>6. n.item \in [Cell -> Item]
    BY <2>3, <2>4
  <2> QED BY <2>5, <2>6 DEF Memory
<1> QED BY <1>1, <1>2, <1>3, DeleteLinked DEF cJSON_ReplaceItemViaPointer

-----------------------------------------------------------------------------
(* Creating *)

(* A new item is in no list, and so is a reference to any other: what it   *)
(* shares keeps the owner it had.                                          *)
THEOREM NewLinked ==
  ASSUME NEW m \in Memory, NEW c \in Cell \ Live(m), NEW kind \in Kind \ {"free"}, Linked(m)
  PROVE  /\ Linked(cJSON_New_Item(m, c, kind)) /\ Loose(cJSON_New_Item(m, c, kind), c)
         /\ \A i \in Live(m) : /\ Linked(create_reference(m, c, i))
                               /\ Loose(create_reference(m, c, i), c)
<1>1. m.item \in [Cell -> Item] /\ c \in Cell /\ m.item[c].kind = "free"
  BY DEF Memory, Live
<1>2. ASSUME NEW n, NEW made, made.kind # "free", made.next = NULL, made.prev = NULL,
             made.ref \/ made.child = NULL, n.item = [m.item EXCEPT ![c] = made]
      PROVE  Linked(n) /\ Loose(n, c)
  <2>1. \A x \in Cell : n.item[x] = IF x = c THEN made ELSE m.item[x]
    BY <1>1, <1>2
  <2>2. Live(n) = Live(m) \cup {c}
    BY <1>1, <1>2, <2>1 DEF Live
  <2>3. \A x \in Live(m) : x # c /\ x \in Cell /\ n.item[x] = m.item[x]
    BY <1>1, <2>1 DEF Live
  <2>4. \A x \in Live(m) :
        /\ m.item[x].next # NULL => m.item[x].next \in Live(m) /\ m.item[m.item[x].next].prev = x
        /\ m.item[x].prev # NULL => m.item[x].prev \in Live(m) /\ m.item[m.item[x].prev].next = x
        /\ Owner(m, x) /\ m.item[x].child # NULL =>
             /\ m.item[x].child \in Live(m) /\ m.item[m.item[x].child].prev = NULL
             /\ \A y \in Live(m) : Owner(m, y) /\ m.item[y].child = m.item[x].child => y = x
    BY DEF Linked
  <2>5. n.item[c] = made /\ \A x \in Live(m) : Owner(n, x) <=> Owner(m, x)
    BY <1>1, <2>1, <2>3 DEF Owner
  <2>6. Owner(n, c) => made.child = NULL
    BY <1>2, <2>5 DEF Owner
  <2>7. Linked(n)
    BY <1>2, <2>2, <2>3, <2>4, <2>5, <2>6 DEF Linked
  <2>8. Loose(n, c)
    BY <1>1, <1>2, <2>2, <2>3, <2>4, <2>5, <2>6, NullAssumption DEF Loose
  <2> QED BY <2>7, <2>8
<1>3. Linked(cJSON_New_Item(m, c, kind)) /\ Loose(cJSON_New_Item(m, c, kind), c)
  <2> DEFINE n == cJSON_New_Item(m, c, kind)
             made == [FreeItem EXCEPT !.kind = kind]
  <2>1. /\ made.kind # "free" /\ made.next = NULL /\ made.prev = NULL /\ made.child = NULL
        /\ n.item = [m.item EXCEPT ![c] = made]
    BY DEF cJSON_New_Item, FreeItem, Memory
  <2> HIDE DEF n, made
  <2>2. Linked(n) /\ Loose(n, c)
    BY <1>2, <2>1
  <2> QED BY <2>2 DEF n
<1>4. ASSUME NEW i \in Live(m)
      PROVE  /\ Linked(create_reference(m, c, i))
             /\ Loose(create_reference(m, c, i), c)
  <2> DEFINE n == create_reference(m, c, i)
             made == [m.item[i] EXCEPT !.name = NULL, !.ref = TRUE, !.next = NULL, !.prev = NULL]
  <2>1. /\ made.kind # "free" /\ made.next = NULL /\ made.prev = NULL /\ made.ref
        /\ n.item = [m.item EXCEPT ![c] = made]
    <3>1. m.item[i] \in Item /\ m.item[i].kind # "free"
      BY <1>1 DEF Live
    <3> QED BY <3>1 DEF create_reference, Memory, Item
  <2> HIDE DEF n, made
  <2>2. Linked(n) /\ Loose(n, c)
    BY <1>2, <2>1
  <2> QED BY <2>2 DEF n
<1> QED BY <1>3, <1>4

-----------------------------------------------------------------------------
(* What holds of a memory between two calls. *)

(* S contains what its members lead to. *)
Closed(m, S) ==
  \A y \in S : /\ m.item[y].next # NULL => m.item[y].next \in S
               /\ Owner(m, y) /\ m.item[y].child # NULL => m.item[y].child \in S

(* Every item there is is reached from one of H. *)
Reached(m, H) ==
  \A S \in SUBSET Live(m) : H \subseteq S /\ Closed(m, S) => Live(m) \subseteq S

(* H are the items in no list; everything hangs from them. *)
Tied(m, H) ==
  /\ Linked(m) /\ H \subseteq Live(m)
  /\ \A h \in H : Loose(m, h)
  /\ Reached(m, H)

OwnedNames(m) == {c \in Live(m) : OwnsName(m, c)}
OwnedTexts(m) == {c \in Live(m) : OwnsText(m, c)}
Counted(m) == m.strings = Cardinality(OwnedNames(m)) + Cardinality(OwnedTexts(m))

(* The members of an object have a name. *)
Named(m) ==
  \A o \in Live(m) : Owner(m, o) /\ m.item[o].kind = "object" =>
    \A x \in Chain(m, o) : m.item[x].name # NULL

Sound(m, H, named) ==
  m \in Memory /\ Tied(m, H) /\ Counted(m) /\ (named => Named(m))

-----------------------------------------------------------------------------
(* Functions that change pointers only *)

SameItems(m, n) ==
  /\ n \in Memory /\ n.strings = m.strings
  /\ \A c \in Cell :
       /\ n.item[c].kind = m.item[c].kind /\ n.item[c].ref = m.item[c].ref
       /\ n.item[c].name = m.item[c].name /\ n.item[c].const = m.item[c].const
       /\ n.item[c].text = m.item[c].text

(* What is live, who owns a list and which strings are counted stay. *)
LEMMA SameItemsFacts ==
  ASSUME NEW m, NEW n, SameItems(m, n)
  PROVE  /\ Live(n) = Live(m) /\ \A c \in Cell : Owner(n, c) <=> Owner(m, c)
         /\ Counted(m) => Counted(n)
<1>1. Live(n) = Live(m) /\ \A c \in Cell : Owner(n, c) <=> Owner(m, c)
  BY DEF SameItems, Live, Owner
<1>2. OwnedNames(n) = OwnedNames(m)
  BY <1>1 DEF SameItems, OwnedNames, OwnsName, Live
<1>3. OwnedTexts(n) = OwnedTexts(m)
  BY <1>1 DEF SameItems, OwnedTexts, OwnsText, Live
<1>4. Counted(m) => Counted(n)
  BY <1>2, <1>3 DEF Counted, SameItems
<1> QED BY <1>1, <1>4

(* One item is another one. *)
LEMMA ItemWritten ==
  ASSUME NEW m \in Memory, NEW c \in Cell, NEW x \in Item
  PROVE  /\ [m EXCEPT !.item[c] = x] \in Memory /\ [m EXCEPT !.item[c] = x].strings = m.strings
         /\ [m EXCEPT !.item[c] = x].item = [m.item EXCEPT ![c] = x]
         /\ \A y \in Cell : [m EXCEPT !.item[c] = x].item[y] = IF y = c THEN x ELSE m.item[y]
<1>1. m.item \in [Cell -> Item] /\ m = [item |-> m.item, strings |-> m.strings] /\ m.strings \in Nat
  BY DEF Memory
<1>2. [m EXCEPT !.item[c] = x] = [item |-> [m.item EXCEPT ![c] = x], strings |-> m.strings]
  BY <1>1
<1>3. [m.item EXCEPT ![c] = x] \in [Cell -> Item]
  BY <1>1
<1> QED BY <1>1, <1>2, <1>3 DEF Memory

(* What suffix_object writes. *)
LEMMA SuffixFields ==
  ASSUME NEW m \in Memory, NEW p \in Cell, NEW i \in Cell
  PROVE  /\ SameItems(m, suffix_object(m, p, i))
         /\ \A c \in Cell :
              /\ suffix_object(m, p, i).item[c].next = IF c = p THEN i ELSE m.item[c].next
              /\ suffix_object(m, p, i).item[c].prev = IF c = i THEN p ELSE m.item[c].prev
              /\ suffix_object(m, p, i).item[c].child = m.item[c].child
<1> DEFINE n == suffix_object(m, p, i)
           x == [m.item[p] EXCEPT !.next = i]
           mid == [m EXCEPT !.item[p] = x]
           y == [mid.item[i] EXCEPT !.prev = p]
<1>1. m.item \in [Cell -> Item] /\ p \in Pointer /\ i \in Pointer
  BY DEF Memory, Pointer
<1>2. x \in Item
  BY <1>1 DEF Item
<1>3. /\ mid \in Memory /\ mid.strings = m.strings
      /\ \A c \in Cell : mid.item[c] = IF c = p THEN x ELSE m.item[c]
  BY <1>2, ItemWritten
<1>4. n = [mid EXCEPT !.item[i] = y]
  BY DEF suffix_object
<1>5. \A c \in Cell : mid.item[c] \in Item
  BY <1>1, <1>2, <1>3
<1>6. /\ \A c \in Cell : mid.item[c].next = IF c = p THEN i ELSE m.item[c].next
      /\ \A c \in Cell : mid.item[c].prev = m.item[c].prev
      /\ \A c \in Cell : mid.item[c].child = m.item[c].child
      /\ \A c \in Cell : mid.item[c].kind = m.item[c].kind
      /\ \A c \in Cell : mid.item[c].name = m.item[c].name
      /\ \A c \in Cell : mid.item[c].text = m.item[c].text
  BY <1>1, <1>3 DEF Item
<1>7. /\ \A c \in Cell : mid.item[c].ref = m.item[c].ref
      /\ \A c \in Cell : mid.item[c].const = m.item[c].const
  BY <1>1, <1>3 DEF Item
<1> HIDE DEF mid, x
<1>8. y \in Item
  BY <1>1, <1>5 DEF Item
<1>9. /\ n \in Memory /\ n.strings = mid.strings
      /\ \A c \in Cell : n.item[c] = IF c = i THEN y ELSE mid.item[c]
  BY <1>3, <1>4, <1>8, ItemWritten
<1>10. /\ y.next = mid.item[i].next /\ y.prev = p /\ y.child = mid.item[i].child
       /\ y.kind = mid.item[i].kind /\ y.name = mid.item[i].name /\ y.text = mid.item[i].text
  BY <1>5 DEF Item
<1>11. y.ref = mid.item[i].ref /\ y.const = mid.item[i].const
  BY <1>5 DEF Item
<1> HIDE DEF n, y
<1>12. SameItems(m, n)
  BY <1>3, <1>6, <1>7, <1>9, <1>10, <1>11 DEF SameItems
<1>13. \A c \in Cell :
         /\ n.item[c].next = IF c = p THEN i ELSE m.item[c].next
         /\ n.item[c].prev = IF c = i THEN p ELSE m.item[c].prev
         /\ n.item[c].child = m.item[c].child
  BY <1>6, <1>9, <1>10
<1> QED BY <1>12, <1>13 DEF n

(* What it writes to make an item the first of a list. *)
LEMMA FirstFields ==
  ASSUME NEW m \in Memory, NEW a \in Cell, NEW i \in Cell
  PROVE  /\ SameItems(m, [m EXCEPT !.item[a].child = i])
         /\ \A c \in Cell :
              /\ [m EXCEPT !.item[a].child = i].item[c].next = m.item[c].next
              /\ [m EXCEPT !.item[a].child = i].item[c].prev = m.item[c].prev
              /\ [m EXCEPT !.item[a].child = i].item[c].child = IF c = a THEN i ELSE m.item[c].child
<1> DEFINE x == [m.item[a] EXCEPT !.child = i]
           n == [m EXCEPT !.item[a] = x]
<1>1. m.item \in [Cell -> Item] /\ i \in Pointer
  BY DEF Memory, Pointer
<1>2. x \in Item
  BY <1>1 DEF Item
<1>3. /\ n \in Memory /\ n.strings = m.strings
      /\ \A c \in Cell : n.item[c] = IF c = a THEN x ELSE m.item[c]
  BY <1>2, ItemWritten
<1>4. n = [m EXCEPT !.item[a].child = i]
  OBVIOUS
<1>5. /\ x.next = m.item[a].next /\ x.prev = m.item[a].prev /\ x.child = i
      /\ x.kind = m.item[a].kind /\ x.name = m.item[a].name /\ x.text = m.item[a].text
  BY <1>1 DEF Item
<1>6. x.ref = m.item[a].ref /\ x.const = m.item[a].const
  BY <1>1 DEF Item
<1> HIDE DEF n, x
<1>7. SameItems(m, n)
  BY <1>3, <1>5, <1>6 DEF SameItems
<1>8. \A c \in Cell :
        /\ n.item[c].next = m.item[c].next
        /\ n.item[c].prev = m.item[c].prev
        /\ n.item[c].child = IF c = a THEN i ELSE m.item[c].child
  BY <1>3, <1>5
<1> QED BY <1>4, <1>7, <1>8

(* A memory whose items are written all at once. *)
LEMMA PointwiseMemory ==
  ASSUME NEW m \in Memory, NEW f, f = [c \in Cell |-> f[c]], \A c \in Cell : f[c] \in Item
  PROVE  [m EXCEPT !.item = f] \in Memory /\ [m EXCEPT !.item = f].item = f
         /\ [m EXCEPT !.item = f].strings = m.strings
<1>1. f \in [Cell -> Item]
  OBVIOUS
<1> QED BY <1>1 DEF Memory

(* What cJSON_DetachItemViaPointer writes. *)
LEMMA DetachFields ==
  ASSUME NEW m \in Memory, NEW parent \in Cell, NEW i \in Cell
  PROVE  LET n == cJSON_DetachItemViaPointer(m, parent, i)
         IN  /\ SameItems(m, n)
             /\ \A c \in Cell :
                  /\ n.item[c].next = IF c = i THEN NULL
                            ELSE IF c = m.item[i].prev THEN m.item[i].next ELSE m.item[c].next
                  /\ n.item[c].prev = IF c = i THEN NULL
                            ELSE IF c = m.item[i].next THEN m.item[i].prev ELSE m.item[c].prev
                  /\ n.item[c].child = IF c = parent /\ m.item[c].child = i /\ c # i
                             THEN m.item[i].next ELSE m.item[c].child
<1> DEFINE f == [c \in Cell |->
                  IF c = i THEN [m.item[c] EXCEPT !.prev = NULL, !.next = NULL]
                  ELSE [m.item[c] EXCEPT
                         !.next = IF c = m.item[i].prev THEN m.item[i].next ELSE @,
                         !.prev = IF c = m.item[i].next THEN m.item[i].prev ELSE @,
                         !.child = IF c = parent /\ @ = i THEN m.item[i].next ELSE @]]
           n == cJSON_DetachItemViaPointer(m, parent, i)
<1>1. m.item \in [Cell -> Item]
  BY DEF Memory
<1>2. m.item[i].prev \in Pointer /\ m.item[i].next \in Pointer /\ NULL \in Pointer
  BY <1>1 DEF Item, Pointer
<1>3. ASSUME NEW c \in Cell
      PROVE  /\ f[c] \in Item
             /\ f[c].next = IF c = i THEN NULL
                            ELSE IF c = m.item[i].prev THEN m.item[i].next ELSE m.item[c].next
             /\ f[c].prev = IF c = i THEN NULL
                            ELSE IF c = m.item[i].next THEN m.item[i].prev ELSE m.item[c].prev
             /\ f[c].child = IF c = parent /\ m.item[c].child = i /\ c # i
                             THEN m.item[i].next ELSE m.item[c].child
             /\ f[c].kind = m.item[c].kind
             /\ f[c].name = m.item[c].name
             /\ f[c].text = m.item[c].text
  <2>1. m.item[c] \in Item
    BY <1>1
  <2> QED BY <1>2, <2>1 DEF Item
<1>4. ASSUME NEW c \in Cell
      PROVE  f[c].ref = m.item[c].ref /\ f[c].const = m.item[c].const
  <2>1. m.item[c] \in Item
    BY <1>1
  <2> QED BY <2>1 DEF Item
<1>5. n = [m EXCEPT !.item = f] /\ f = [c \in Cell |-> f[c]]
  BY DEF cJSON_DetachItemViaPointer
<1> HIDE DEF f, n
<1>6. n \in Memory /\ n.item = f /\ n.strings = m.strings
  BY <1>3, <1>5, PointwiseMemory
<1>7. SameItems(m, n)
  BY <1>3, <1>4, <1>6 DEF SameItems
<1>8. \A c \in Cell :
        /\ n.item[c].next = IF c = i THEN NULL
                            ELSE IF c = m.item[i].prev THEN m.item[i].next ELSE m.item[c].next
        /\ n.item[c].prev = IF c = i THEN NULL
                            ELSE IF c = m.item[i].next THEN m.item[i].prev ELSE m.item[c].prev
        /\ n.item[c].child = IF c = parent /\ m.item[c].child = i /\ c # i
                             THEN m.item[i].next ELSE m.item[c].child
  BY <1>3, <1>6
<1> QED BY <1>7, <1>8 DEF n
(* What the insertion in front of a member writes. *)
LEMMA InsertFields ==
  ASSUME NEW m \in Memory, NEW a \in Cell, NEW i \in Cell, NEW r \in Cell
  PROVE  LET n == InsertBefore(m, a, i, r)
         IN  /\ SameItems(m, n)
             /\ \A c \in Cell :
                  /\ n.item[c].next = IF c = r THEN i ELSE IF c = m.item[i].prev /\ i # m.item[a].child THEN r ELSE m.item[c].next
                  /\ n.item[c].prev = IF c = r THEN m.item[i].prev ELSE IF c = i THEN r ELSE m.item[c].prev
                  /\ n.item[c].child = IF c = a /\ m.item[c].child = i /\ c # r THEN r ELSE m.item[c].child
<1> DEFINE f == [c \in Cell |->
                  IF c = r THEN [m.item[c] EXCEPT !.prev = m.item[i].prev, !.next = i]
                  ELSE [m.item[c] EXCEPT
                         !.prev = IF c = i THEN r ELSE @,
                         !.next = IF c = m.item[i].prev /\ i # m.item[a].child THEN r ELSE @,
                         !.child = IF c = a /\ @ = i THEN r ELSE @]]
           n == InsertBefore(m, a, i, r)
<1>1. m.item \in [Cell -> Item]
  BY DEF Memory
<1>2. /\ m.item[i].prev \in Pointer /\ m.item[i].next \in Pointer /\ NULL \in Pointer
      /\ i \in Pointer /\ r \in Pointer
  BY <1>1 DEF Item, Pointer
<1>3. ASSUME NEW c \in Cell
      PROVE  /\ f[c] \in Item
             /\ f[c].next = IF c = r THEN i ELSE IF c = m.item[i].prev /\ i # m.item[a].child THEN r ELSE m.item[c].next
             /\ f[c].prev = IF c = r THEN m.item[i].prev ELSE IF c = i THEN r ELSE m.item[c].prev
             /\ f[c].child = IF c = a /\ m.item[c].child = i /\ c # r THEN r ELSE m.item[c].child
             /\ f[c].kind = m.item[c].kind
             /\ f[c].name = m.item[c].name
             /\ f[c].text = m.item[c].text
  <2>1. m.item[c] \in Item
    BY <1>1
  <2> QED BY <1>2, <2>1 DEF Item
<1>4. ASSUME NEW c \in Cell
      PROVE  f[c].ref = m.item[c].ref /\ f[c].const = m.item[c].const
  <2>1. m.item[c] \in Item
    BY <1>1
  <2> QED BY <2>1 DEF Item
<1>5. n = [m EXCEPT !.item = f] /\ f = [c \in Cell |-> f[c]]
  BY DEF InsertBefore
<1> HIDE DEF f, n
<1>6. n \in Memory /\ n.item = f /\ n.strings = m.strings
  BY <1>3, <1>5, PointwiseMemory
<1>7. SameItems(m, n)
  BY <1>3, <1>4, <1>6 DEF SameItems
<1>8. \A c \in Cell :
        /\ n.item[c].next = IF c = r THEN i ELSE IF c = m.item[i].prev /\ i # m.item[a].child THEN r ELSE m.item[c].next
        /\ n.item[c].prev = IF c = r THEN m.item[i].prev ELSE IF c = i THEN r ELSE m.item[c].prev
        /\ n.item[c].child = IF c = a /\ m.item[c].child = i /\ c # r THEN r ELSE m.item[c].child
  BY <1>3, <1>6
<1> QED BY <1>7, <1>8 DEF n

(* What a replacement writes. *)
LEMMA ReplacedFields ==
  ASSUME NEW m \in Memory, NEW a \in Cell, NEW i \in Cell, NEW r \in Cell
  PROVE  LET n == Replaced(m, a, i, r)
         IN  /\ SameItems(m, n)
             /\ \A c \in Cell :
                  /\ n.item[c].next = IF c = r THEN m.item[i].next ELSE IF c = i THEN NULL ELSE IF c = m.item[i].prev THEN r ELSE m.item[c].next
                  /\ n.item[c].prev = IF c = r THEN m.item[i].prev ELSE IF c = i THEN NULL ELSE IF c = m.item[i].next THEN r ELSE m.item[c].prev
                  /\ n.item[c].child = IF c = a /\ m.item[c].child = i /\ c # r /\ c # i THEN r ELSE m.item[c].child
<1> DEFINE f == [c \in Cell |->
                  IF c = r THEN [m.item[c] EXCEPT !.prev = m.item[i].prev, !.next = m.item[i].next]
                  ELSE IF c = i THEN [m.item[c] EXCEPT !.prev = NULL, !.next = NULL]
                  ELSE [m.item[c] EXCEPT
                         !.next = IF c = m.item[i].prev THEN r ELSE @,
                         !.prev = IF c = m.item[i].next THEN r ELSE @,
                         !.child = IF c = a /\ @ = i THEN r ELSE @]]
           n == Replaced(m, a, i, r)
<1>1. m.item \in [Cell -> Item]
  BY DEF Memory
<1>2. /\ m.item[i].prev \in Pointer /\ m.item[i].next \in Pointer /\ NULL \in Pointer
      /\ i \in Pointer /\ r \in Pointer
  BY <1>1 DEF Item, Pointer
<1>3. ASSUME NEW c \in Cell
      PROVE  /\ f[c] \in Item
             /\ f[c].next = IF c = r THEN m.item[i].next ELSE IF c = i THEN NULL ELSE IF c = m.item[i].prev THEN r ELSE m.item[c].next
             /\ f[c].prev = IF c = r THEN m.item[i].prev ELSE IF c = i THEN NULL ELSE IF c = m.item[i].next THEN r ELSE m.item[c].prev
             /\ f[c].child = IF c = a /\ m.item[c].child = i /\ c # r /\ c # i THEN r ELSE m.item[c].child
             /\ f[c].kind = m.item[c].kind
             /\ f[c].name = m.item[c].name
             /\ f[c].text = m.item[c].text
  <2>1. m.item[c] \in Item
    BY <1>1
  <2> QED BY <1>2, <2>1 DEF Item
<1>4. ASSUME NEW c \in Cell
      PROVE  f[c].ref = m.item[c].ref /\ f[c].const = m.item[c].const
  <2>1. m.item[c] \in Item
    BY <1>1
  <2> QED BY <2>1 DEF Item
<1>5. n = [m EXCEPT !.item = f] /\ f = [c \in Cell |-> f[c]]
  BY DEF Replaced
<1> HIDE DEF f, n
<1>6. n \in Memory /\ n.item = f /\ n.strings = m.strings
  BY <1>3, <1>5, PointwiseMemory
<1>7. SameItems(m, n)
  BY <1>3, <1>4, <1>6 DEF SameItems
<1>8. \A c \in Cell :
        /\ n.item[c].next = IF c = r THEN m.item[i].next ELSE IF c = i THEN NULL ELSE IF c = m.item[i].prev THEN r ELSE m.item[c].next
        /\ n.item[c].prev = IF c = r THEN m.item[i].prev ELSE IF c = i THEN NULL ELSE IF c = m.item[i].next THEN r ELSE m.item[c].prev
        /\ n.item[c].child = IF c = a /\ m.item[c].child = i /\ c # r /\ c # i THEN r ELSE m.item[c].child
  BY <1>3, <1>6
<1> QED BY <1>7, <1>8 DEF n

(* Two memories with the same items and pointers are one. *)
LEMMA SameMemory ==
  ASSUME NEW m, NEW x, NEW y, SameItems(m, x), SameItems(m, y),
         \A c \in Cell : /\ x.item[c].next = y.item[c].next
                         /\ x.item[c].prev = y.item[c].prev
                         /\ x.item[c].child = y.item[c].child
  PROVE  x = y
<1>1. /\ x = [item |-> x.item, strings |-> x.strings] /\ x.item \in [Cell -> Item]
      /\ y = [item |-> y.item, strings |-> y.strings] /\ y.item \in [Cell -> Item]
      /\ x.strings = y.strings
  BY DEF SameItems, Memory
<1>2. ASSUME NEW c \in Cell PROVE x.item[c] = y.item[c]
  <2> DEFINE u == x.item[c]
             v == y.item[c]
  <2>1. u \in Item /\ v \in Item
    BY <1>1
  <2>2. /\ u.next = v.next /\ u.prev = v.prev /\ u.child = v.child
        /\ u.kind = v.kind /\ u.name = v.name /\ u.text = v.text
    BY DEF SameItems
  <2>3. u.ref = v.ref /\ u.const = v.const
    BY DEF SameItems
  <2> HIDE DEF u, v
  <2>4. /\ u = [kind |-> u.kind, next |-> u.next, prev |-> u.prev, child |-> u.child,
                name |-> u.name, text |-> u.text, ref |-> u.ref, const |-> u.const]
        /\ v = [kind |-> v.kind, next |-> v.next, prev |-> v.prev, child |-> v.child,
                name |-> v.name, text |-> v.text, ref |-> v.ref, const |-> v.const]
    BY <2>1 DEF Item
  <2>5. u = v
    BY <2>2, <2>3, <2>4, Zenon
  <2> QED BY <2>5 DEF u, v
<1>3. x.item = y.item
  BY <1>1, <1>2
<1> QED BY <1>1, <1>3

(* To replace an item is to insert another in front of it and to detach it. *)
LEMMA ReplacedIs ==
  ASSUME NEW m \in Memory, NEW a, NEW i, MemberOf(m, a, i), a # i,
         NEW r, Loose(m, r), a # r, i # r, Linked(m)
  PROVE  Replaced(m, a, i, r) = cJSON_DetachItemViaPointer(InsertBefore(m, a, i, r), a, i)
<1> DEFINE k == InsertBefore(m, a, i, r)
           n == cJSON_DetachItemViaPointer(k, a, i)
           p == Replaced(m, a, i, r)
<1>1. a \in Cell /\ i \in Cell /\ r \in Cell /\ i \in Live(m) /\ Owner(m, a) /\ a \in Live(m) /\ r \in Live(m)
  BY MemberFacts DEF Live, Loose
<1>2. /\ SameItems(m, k)
      /\ \A c \in Cell :
           /\ k.item[c].next = IF c = r THEN i
                ELSE IF c = m.item[i].prev /\ i # m.item[a].child THEN r ELSE m.item[c].next
           /\ k.item[c].prev = IF c = r THEN m.item[i].prev ELSE IF c = i THEN r ELSE m.item[c].prev
           /\ k.item[c].child = IF c = a /\ m.item[c].child = i /\ c # r THEN r ELSE m.item[c].child
  BY <1>1, InsertFields
<1>3. /\ SameItems(m, p)
      /\ \A c \in Cell :
           /\ p.item[c].next = IF c = r THEN m.item[i].next ELSE IF c = i THEN NULL
                               ELSE IF c = m.item[i].prev THEN r ELSE m.item[c].next
           /\ p.item[c].prev = IF c = r THEN m.item[i].prev ELSE IF c = i THEN NULL
                               ELSE IF c = m.item[i].next THEN r ELSE m.item[c].prev
           /\ p.item[c].child = IF c = a /\ m.item[c].child = i /\ c # r /\ c # i THEN r
                                ELSE m.item[c].child
  BY <1>1, ReplacedFields
<1>4. k \in Memory
  BY <1>2 DEF SameItems
<1> HIDE DEF k, p
<1>5. /\ SameItems(k, n)
      /\ \A c \in Cell :
           /\ n.item[c].next = IF c = i THEN NULL
                     ELSE IF c = k.item[i].prev THEN k.item[i].next ELSE k.item[c].next
           /\ n.item[c].prev = IF c = i THEN NULL
                     ELSE IF c = k.item[i].next THEN k.item[i].prev ELSE k.item[c].prev
           /\ n.item[c].child = IF c = a /\ k.item[c].child = i /\ c # i
                      THEN k.item[i].next ELSE k.item[c].child
  BY <1>1, <1>4, DetachFields
<1> HIDE DEF n
<1>6. SameItems(m, n)
  BY <1>2, <1>5 DEF SameItems
<1>7. /\ m.item[i].prev # i /\ m.item[i].next # i
      /\ m.item[r].next = NULL /\ m.item[r].prev = NULL
  BY MemberFacts DEF Loose
<1>8. /\ m.item[i].next # r /\ m.item[i].prev # r /\ r # NULL
      /\ m.item[i].prev # NULL => m.item[a].child # i
  BY <1>1, <1>7, NullAssumption DEF Linked
<1>9. k.item[i].prev = r /\ k.item[i].next = m.item[i].next /\ k.item[r].next = i
  BY <1>1, <1>2, <1>7
<1>10. ASSUME NEW c \in Cell
       PROVE  n.item[c].next = p.item[c].next
  BY <1>1, <1>2, <1>3, <1>5, <1>7, <1>8, <1>9, NullAssumption
<1>11. ASSUME NEW c \in Cell
       PROVE  n.item[c].prev = p.item[c].prev
  BY <1>1, <1>2, <1>3, <1>5, <1>7, <1>8, <1>9, NullAssumption
<1>12. ASSUME NEW c \in Cell
       PROVE  n.item[c].child = p.item[c].child
  BY <1>1, <1>2, <1>3, <1>5, <1>7, <1>8, <1>9, NullAssumption
<1>13. p = n
  BY <1>3, <1>6, <1>10, <1>11, <1>12, SameMemory
<1> QED BY <1>13 DEF p, n, k

-----------------------------------------------------------------------------
(* Lists and what hangs from an item *)

(* A list is within any set that its first item and every next one is in. *)
LEMMA ChainWithin ==
  ASSUME NEW m, NEW a, NEW S \in SUBSET Cell,
         m.item[a].child # NULL => m.item[a].child \in S,
         \A y \in S : m.item[y].next # NULL => m.item[y].next \in S
  PROVE  Chain(m, a) \subseteq S
  BY DEF Chain

(* An item that leads nowhere has no list. *)
LEMMA NoChain ==
  ASSUME NEW m, NEW a, m.item[a].child = NULL
  PROVE  Chain(m, a) = {}
<1>1. {} \in SUBSET Cell
  OBVIOUS
<1>2. Chain(m, a) \subseteq {}
  BY <1>1, ChainWithin
<1> QED BY <1>2

(* The item in front of a member is a member. *)
LEMMA PrevInChain ==
  ASSUME NEW m \in Memory, NEW a, NEW i, MemberOf(m, a, i), Linked(m)
  PROVE  /\ m.item[a].child # NULL
         /\ (m.item[i].prev = NULL) <=> (m.item[a].child = i)
         /\ m.item[i].prev # NULL => m.item[i].prev \in Chain(m, a)
<1> DEFINE head == m.item[a].child
           C == Chain(m, a)
<1>1. /\ i \in Live(m) /\ a \in Live(m) /\ Owner(m, a) /\ i \in C
      /\ m.item[i].prev = NULL => head = i
  BY MemberFacts DEF MemberOf
<1>2. head # NULL
  BY <1>1, NoChain
<1>3. head \in C /\ C \subseteq Live(m) /\ C \subseteq Cell
  BY <1>1, <1>2, ChainFacts DEF Live
<1>4. m.item[head].prev = NULL
  BY <1>1, <1>2 DEF Linked
<1>5. ASSUME m.item[i].prev # NULL, m.item[i].prev \notin C PROVE FALSE
  <2>1. C \ {i} \in SUBSET Cell /\ head \in C \ {i}
    BY <1>3, <1>4, <1>5
  <2>2. ASSUME NEW y \in C \ {i}, m.item[y].next # NULL PROVE m.item[y].next \in C \ {i}
    <3>1. m.item[y].next \in C /\ m.item[m.item[y].next].prev = y
      BY <1>1, <1>2, <1>3, <2>2, ChainFacts DEF Linked
    <3> QED BY <1>5, <3>1
  <2>3. C \subseteq C \ {i}
    BY <2>1, <2>2, ChainWithin
  <2> QED BY <1>1, <2>3
<1> QED BY <1>1, <1>2, <1>4, <1>5

(* An item is in one list at most. *)
LEMMA ChainsApart ==
  ASSUME NEW m \in Memory, Linked(m), NEW a, NEW b, NEW x, MemberOf(m, a, x), MemberOf(m, b, x)
  PROVE  a = b
<1> DEFINE C == Chain(m, a) \ Chain(m, b)
<1>1. SUFFICES ASSUME a # b PROVE FALSE
  OBVIOUS
<1>2. /\ a \in Live(m) /\ Owner(m, a) /\ x \in Chain(m, a) /\ m.item[a].child # NULL
      /\ b \in Live(m) /\ Owner(m, b) /\ x \in Chain(m, b) /\ m.item[b].child # NULL
  BY PrevInChain DEF MemberOf
<1>3. /\ m.item[a].child \in Chain(m, a) /\ Chain(m, a) \subseteq Live(m)
      /\ m.item[m.item[a].child].prev = NULL
  BY <1>2, ChainFacts DEF Linked
<1>4. m.item[a].child \in C
  <2>1. SUFFICES ASSUME m.item[a].child \in Chain(m, b) PROVE FALSE
    BY <1>3
  <2>2. MemberOf(m, b, m.item[a].child)
    BY <1>2, <2>1 DEF MemberOf
  <2>3. m.item[b].child = m.item[a].child
    BY <1>3, <2>2, PrevInChain
  <2> QED BY <1>1, <1>2, <2>3 DEF Linked
<1>5. ASSUME NEW y \in C, m.item[y].next # NULL PROVE m.item[y].next \in C
  <2> DEFINE z == m.item[y].next
  <2>1. y \in Live(m) /\ z \in Chain(m, a) /\ m.item[z].prev = y /\ y # NULL
    BY <1>2, <1>3, <1>5, ChainFacts, NullAssumption DEF Linked, Live
  <2>2. ASSUME z \in Chain(m, b) PROVE FALSE
    <3>1. MemberOf(m, b, z)
      BY <1>2, <2>2 DEF MemberOf
    <3>2. y \in Chain(m, b)
      BY <2>1, <3>1, PrevInChain
    <3> QED BY <3>2
  <2> QED BY <2>1, <2>2
<1>6. C \in SUBSET Cell
  BY <1>3 DEF Live
<1>7. Chain(m, a) \subseteq C
  BY <1>4, <1>5, <1>6, ChainWithin
<1> QED BY <1>2, <1>7

(* An item of the client's own is in none. *)
LEMMA LooseApart ==
  ASSUME NEW m \in Memory, Linked(m), NEW i, Loose(m, i), NEW a
  PROVE  ~MemberOf(m, a, i)
  BY PrevInChain DEF Loose, MemberOf

(* What an item leads to is a member of a list. *)
LEMMA LeadsToMember ==
  ASSUME NEW m \in Memory, Linked(m), NEW a \in Live(m), Owner(m, a)
  PROVE  /\ m.item[a].child # NULL => MemberOf(m, a, m.item[a].child)
         /\ \A x \in Chain(m, a) : MemberOf(m, a, x) /\ (m.item[x].next # NULL => MemberOf(m, a, m.item[x].next))
<1>1. CASE m.item[a].child = NULL
  BY <1>1, NoChain
<1>2. CASE m.item[a].child # NULL
  BY <1>2, ChainFacts DEF MemberOf
<1> QED BY <1>1, <1>2

(* What hangs from i is the least set with i that is closed. *)
LEMMA DoomedIs ==
  ASSUME NEW m \in Memory, Linked(m), NEW i \in Live(m)
  PROVE  /\ i \in Doomed(m, i) /\ Doomed(m, i) \subseteq Live(m) /\ Closed(m, Doomed(m, i))
         /\ \A T \in SUBSET Live(m) : i \in T /\ Closed(m, T) => Doomed(m, i) \subseteq T
<1>1. /\ i \in Doomed(m, i) /\ Doomed(m, i) \subseteq Live(m)
      /\ \A y \in Doomed(m, i) : Follows(m, y) \cap Cell \subseteq Doomed(m, i)
  BY DoomedFacts
<1>2. Closed(m, Doomed(m, i))
  <2>1. ASSUME NEW y \in Doomed(m, i)
        PROVE  /\ m.item[y].next # NULL => m.item[y].next \in Doomed(m, i)
               /\ Owner(m, y) /\ m.item[y].child # NULL => m.item[y].child \in Doomed(m, i)
    <3>1. m.item[y].next \in Pointer /\ m.item[y].child \in Pointer
      BY <1>1 DEF Memory, Item, Live
    <3> QED BY <1>1, <3>1 DEF Follows, Owner, Pointer
  <2> QED BY <2>1 DEF Closed
<1>3. ASSUME NEW T \in SUBSET Live(m), i \in T, Closed(m, T)
      PROVE  Doomed(m, i) \subseteq T
  <2>1. \A y \in T : Follows(m, y) \subseteq T
    BY <1>3 DEF Closed, Follows, Owner, Live
  <2>2. T \in SUBSET Cell
    BY DEF Live
  <2> QED BY <1>3, <2>1, <2>2 DEF Doomed
<1> QED BY <1>1, <1>2, <1>3

(* A list hangs from an item whole or not at all. *)
LEMMA DoomedWhole ==
  ASSUME NEW m \in Memory, Linked(m), NEW i, Loose(m, i),
         NEW a \in Live(m) \ Doomed(m, i), Owner(m, a)
  PROVE  Chain(m, a) \cap Doomed(m, i) = {}
<1> DEFINE D == Doomed(m, i)
           T == D \ Chain(m, a)
<1>1. i \in Live(m)
  BY DEF Loose
<1>2. i \in D /\ D \subseteq Live(m) /\ Closed(m, D)
  BY <1>1, DoomedIs
<1>3. i \in T
  BY <1>2, LooseApart DEF MemberOf
<1>4. ASSUME NEW y \in T, m.item[y].next # NULL PROVE m.item[y].next \in T
  <2> DEFINE z == m.item[y].next
  <2>1. z \in D /\ m.item[z].prev = y /\ y # NULL
    BY <1>2, <1>4, NullAssumption DEF Closed, Linked, Live
  <2>2. ASSUME z \in Chain(m, a) PROVE FALSE
    <3>1. MemberOf(m, a, z)
      BY <2>2 DEF MemberOf
    <3>2. y \in Chain(m, a)
      BY <2>1, <3>1, PrevInChain
    <3> QED BY <3>2
  <2> QED BY <2>1, <2>2
<1>5. ASSUME NEW y \in T, Owner(m, y), m.item[y].child # NULL PROVE m.item[y].child \in T
  <2> DEFINE z == m.item[y].child
  <2>1. y \in Live(m) /\ z \in D /\ m.item[z].prev = NULL
    BY <1>2, <1>5 DEF Closed, Linked
  <2>2. ASSUME z \in Chain(m, a) PROVE FALSE
    <3>1. MemberOf(m, a, z)
      BY <2>2 DEF MemberOf
    <3>2. m.item[a].child = z
      BY <2>1, <3>1, PrevInChain
    <3>3. y = a
      BY <1>5, <2>1, <3>2 DEF Linked
    <3> QED BY <3>3
  <2> QED BY <2>1, <2>2
<1>6. Closed(m, T) /\ T \in SUBSET Live(m)
  BY <1>2, <1>4, <1>5 DEF Closed
<1>7. D \subseteq T
  BY <1>1, <1>3, <1>6, DoomedIs
<1> QED BY <1>7

(* No item is in its own list. *)
LEMMA NotItsOwn ==
  ASSUME NEW m \in Memory, NEW H, Tied(m, H), NEW a, NEW i, MemberOf(m, a, i)
  PROVE  a # i
<1>1. SUFFICES ASSUME a = i PROVE FALSE
  OBVIOUS
<1> DEFINE T == Live(m) \ Chain(m, a)
<1>2. Linked(m) /\ a \in Live(m) /\ Owner(m, a) /\ a \in Chain(m, a)
  BY <1>1 DEF Tied, MemberOf
<1>3. H \subseteq T
  BY <1>2, LooseApart DEF Tied, MemberOf
<1>4. ASSUME NEW y \in T, m.item[y].next # NULL PROVE m.item[y].next \in T
  <2> DEFINE z == m.item[y].next
  <2>1. z \in Live(m) /\ m.item[z].prev = y /\ y # NULL
    BY <1>2, <1>4, NullAssumption DEF Linked, Live
  <2>2. ASSUME z \in Chain(m, a) PROVE FALSE
    <3>1. MemberOf(m, a, z)
      BY <1>2, <2>2 DEF MemberOf
    <3>2. y \in Chain(m, a)
      BY <1>2, <2>1, <3>1, PrevInChain
    <3> QED BY <3>2
  <2> QED BY <2>1, <2>2
<1>5. ASSUME NEW y \in T, Owner(m, y), m.item[y].child # NULL PROVE m.item[y].child \in T
  <2> DEFINE z == m.item[y].child
  <2>1. z \in Live(m) /\ m.item[z].prev = NULL
    BY <1>2, <1>5 DEF Linked
  <2>2. ASSUME z \in Chain(m, a) PROVE FALSE
    <3>1. MemberOf(m, a, z)
      BY <1>2, <2>2 DEF MemberOf
    <3>2. m.item[a].child = z
      BY <1>2, <2>1, <3>1, PrevInChain
    <3>3. y = a
      BY <1>2, <1>5, <2>1, <3>2 DEF Linked
    <3> QED BY <1>2, <3>3
  <2> QED BY <2>1, <2>2
<1>6. Closed(m, T) /\ T \in SUBSET Live(m)
  BY <1>4, <1>5 DEF Closed
<1>7. Live(m) \subseteq T
  BY <1>3, <1>6 DEF Tied, Reached
<1> QED BY <1>2, <1>7

(* Every item is the client's own or a member of a list. *)
LEMMA Somewhere ==
  ASSUME NEW m \in Memory, NEW H, Tied(m, H)
  PROVE  \A x \in Live(m) : x \in H \/ \E a \in Live(m) : MemberOf(m, a, x)
<1> DEFINE T == {x \in Live(m) : x \in H \/ \E a \in Live(m) : MemberOf(m, a, x)}
<1>1. Linked(m) /\ H \subseteq Live(m) /\ \A h \in H : Loose(m, h)
  BY DEF Tied
<1>2. ASSUME NEW y \in T, m.item[y].next # NULL PROVE m.item[y].next \in T
  <2>1. PICK a \in Live(m) : MemberOf(m, a, y)
    BY <1>1, <1>2 DEF Loose
  <2>2. Owner(m, a) /\ y \in Chain(m, a)
    BY <2>1 DEF MemberOf
  <2>3. MemberOf(m, a, m.item[y].next) /\ m.item[y].next \in Live(m)
    BY <1>1, <1>2, <2>2, LeadsToMember DEF Linked
  <2> QED BY <2>3
<1>3. ASSUME NEW y \in T, Owner(m, y), m.item[y].child # NULL PROVE m.item[y].child \in T
  <2>1. MemberOf(m, y, m.item[y].child) /\ m.item[y].child \in Live(m)
    BY <1>1, <1>3, LeadsToMember DEF Linked
  <2> QED BY <2>1
<1>4. Closed(m, T) /\ T \in SUBSET Live(m) /\ H \subseteq T
  BY <1>1, <1>2, <1>3 DEF Closed
<1>5. Live(m) \subseteq T
  <2> HIDE DEF T
  <2> QED BY <1>4 DEF Tied, Reached
<1> QED BY <1>5

-----------------------------------------------------------------------------
(* What a function does to the items that are there and to their lists *)

(* The same cells are in use, and the same items own a list. *)
SameLife(m, n) == Live(n) = Live(m) /\ \A c \in Cell : Owner(n, c) <=> Owner(m, c)

(* A root that hangs from another item after the call is reached with all  *)
(* that hangs from it.                                                     *)
LEMMA AttachReached ==
  ASSUME NEW m \in Memory, NEW H, Tied(m, H), NEW i \in H, NEW p \in Live(m) \ Doomed(m, i),
         NEW n, SameLife(m, n),
         \A T \in SUBSET Live(m) : Closed(n, T) => Closed(m, T) /\ (p \in T => i \in T)
  PROVE  Reached(n, H \ {i})
<1>1. Live(n) = Live(m) /\ Linked(m) /\ i \in Live(m)
  BY DEF Tied, SameLife
<1>2. SUFFICES ASSUME NEW T \in SUBSET Live(m), H \ {i} \subseteq T, Closed(n, T)
               PROVE  Live(m) \subseteq T
  BY <1>1 DEF Reached
<1>3. Closed(m, T) /\ (p \in T => i \in T)
  BY <1>2
<1> DEFINE D == Doomed(m, i)
           S == T \cup D
<1>4. /\ i \in D /\ D \subseteq Live(m) /\ Closed(m, D)
      /\ i \in T => D \subseteq T
  BY <1>1, <1>3, DoomedIs
<1>5. S \in SUBSET Live(m) /\ H \subseteq S /\ Closed(m, S)
  BY <1>2, <1>3, <1>4 DEF Closed
<1>6. Live(m) \subseteq S
  <2> HIDE DEF S
  <2> QED BY <1>5 DEF Tied, Reached
<1> QED BY <1>3, <1>4, <1>6

(* A root goes behind the last member of a list that does not hang from it. *)
LEMMA TiedSuffix ==
  ASSUME NEW m \in Memory, NEW H, Tied(m, H), NEW i \in H,
         NEW a \in Live(m) \ Doomed(m, i), NEW p, MemberOf(m, a, p), m.item[p].next = NULL
  PROVE  Tied(suffix_object(m, p, i), H \ {i})
<1> DEFINE n == suffix_object(m, p, i)
<1>1. /\ Linked(m) /\ H \subseteq Live(m) /\ \A h \in H : Loose(m, h)
      /\ p \in Live(m) /\ Owner(m, a) /\ i \in Cell /\ p \in Cell /\ p # i
  <2>1. Linked(m) /\ H \subseteq Live(m) /\ \A h \in H : Loose(m, h)
    BY DEF Tied
  <2> QED BY <2>1, MemberFacts, LooseApart DEF Live
<1>2. p \notin Doomed(m, i)
  BY <1>1, DoomedWhole DEF MemberOf
<1>3. /\ SameItems(m, n)
      /\ \A c \in Cell :
           /\ n.item[c].next = IF c = p THEN i ELSE m.item[c].next
           /\ n.item[c].prev = IF c = i THEN p ELSE m.item[c].prev
           /\ n.item[c].child = m.item[c].child
  BY <1>1, SuffixFields
<1>4. SameLife(m, n)
  BY <1>3, SameItemsFacts DEF SameLife
<1>5. Linked(n)
  BY <1>1, SuffixLinked
<1> HIDE DEF n
<1>6. ASSUME NEW T \in SUBSET Live(m), Closed(n, T)
      PROVE  Closed(m, T) /\ (p \in T => i \in T)
  <2>1. i # NULL /\ T \subseteq Cell
    BY <1>1, NullAssumption DEF Live
  <2> QED BY <1>1, <1>3, <1>4, <1>6, <2>1 DEF Closed, SameLife
<1>7. Reached(n, H \ {i})
  BY <1>1, <1>2, <1>4, <1>6, AttachReached
<1>8. \A h \in H \ {i} : Loose(n, h)
  <2>1. \A h \in H : h # p
    BY <1>1, LooseApart
  <2> QED BY <1>1, <1>3, <1>4, <2>1 DEF Loose, SameLife, Live
<1>9. Tied(n, H \ {i})
  BY <1>1, <1>4, <1>5, <1>7, <1>8 DEF Tied, SameLife
<1> QED BY <1>9 DEF n

(* A root becomes the first of an empty list. *)
LEMMA TiedFirst ==
  ASSUME NEW m \in Memory, NEW H, Tied(m, H), NEW i \in H,
         NEW a \in Live(m) \ Doomed(m, i), Owner(m, a), m.item[a].child = NULL
  PROVE  Tied([m EXCEPT !.item[a].child = i], H \ {i})
<1> DEFINE n == [m EXCEPT !.item[a].child = i]
<1>1. /\ Linked(m) /\ H \subseteq Live(m) /\ \A h \in H : Loose(m, h)
      /\ i \in Cell /\ a \in Cell
  BY DEF Tied, Live
<1>2. /\ SameItems(m, n)
      /\ \A c \in Cell : /\ n.item[c].next = m.item[c].next
                         /\ n.item[c].prev = m.item[c].prev
                         /\ n.item[c].child = IF c = a THEN i ELSE m.item[c].child
  BY <1>1, FirstFields
<1>3. SameLife(m, n)
  BY <1>2, SameItemsFacts DEF SameLife
<1>4. Linked(n)
  <2>1. n = add_item_to_array(m, a, i)
    BY DEF add_item_to_array
  <2> HIDE DEF n
  <2> QED BY <1>1, <2>1, AppendLinked
<1> HIDE DEF n
<1>5. ASSUME NEW T \in SUBSET Live(m), Closed(n, T)
      PROVE  Closed(m, T) /\ (a \in T => i \in T)
  <2>1. i # NULL /\ T \subseteq Cell
    BY <1>1, NullAssumption DEF Live
  <2> QED BY <1>1, <1>2, <1>3, <1>5, <2>1 DEF Closed, SameLife
<1>6. Reached(n, H \ {i})
  BY <1>3, <1>5, AttachReached
<1>7. \A h \in H \ {i} : Loose(n, h)
  BY <1>1, <1>2, <1>3 DEF Loose, SameLife, Live
<1>8. Tied(n, H \ {i})
  BY <1>1, <1>3, <1>4, <1>6, <1>7 DEF Tied, SameLife
<1> QED BY <1>8 DEF n

(* A root goes in front of a member. *)
LEMMA TiedInsert ==
  ASSUME NEW m \in Memory, NEW H, Tied(m, H), NEW i \in H,
         NEW a \in Live(m) \ Doomed(m, i), NEW after, MemberOf(m, a, after)
  PROVE  Tied(InsertBefore(m, a, after, i), H \ {i})
<1> DEFINE n == InsertBefore(m, a, after, i)
           prev == m.item[after].prev
<1>1. /\ Linked(m) /\ H \subseteq Live(m) /\ \A h \in H : Loose(m, h)
      /\ after \in Live(m) /\ Owner(m, a) /\ i \in Cell /\ after \in Cell /\ a \in Cell
      /\ after # i /\ i \in Live(m)
  <2>1. Linked(m) /\ H \subseteq Live(m) /\ \A h \in H : Loose(m, h)
    BY DEF Tied
  <2> QED BY <2>1, MemberFacts, LooseApart DEF Live
<1>2. a # i
  BY <1>1, DoomedIs
<1>3. /\ SameItems(m, n)
      /\ \A c \in Cell :
           /\ n.item[c].next = IF c = i THEN after
                ELSE IF c = m.item[after].prev /\ after # m.item[a].child THEN i ELSE m.item[c].next
           /\ n.item[c].prev = IF c = i THEN m.item[after].prev
                ELSE IF c = after THEN i ELSE m.item[c].prev
           /\ n.item[c].child = IF c = a /\ m.item[c].child = after /\ c # i THEN i ELSE m.item[c].child
  BY <1>1, InsertFields
<1>4. SameLife(m, n)
  BY <1>3, SameItemsFacts DEF SameLife
<1>5. Linked(n)
  BY <1>1, <1>2, InsertLinked
<1> HIDE DEF n
<1>6. /\ (prev = NULL) <=> (m.item[a].child = after)
      /\ prev # NULL => prev \in Chain(m, a) /\ prev \in Live(m) /\ m.item[prev].next = after
  BY <1>1, PrevInChain DEF Linked
<1>7. i # NULL /\ after # NULL /\ m.item[i].next = NULL
  BY <1>1, NullAssumption DEF Loose
<1>8. PICK p \in Live(m) \ Doomed(m, i) :
        \A T \in SUBSET Live(m) : Closed(n, T) => Closed(m, T) /\ (p \in T => i \in T)
  <2>0. \A T \in SUBSET Live(m) : T \subseteq Cell
    BY DEF Live
  <2>1. CASE prev = NULL
    <3>1. ASSUME NEW T \in SUBSET Live(m), Closed(n, T)
          PROVE  Closed(m, T) /\ (a \in T => i \in T)
      <4>1. a \in T => i \in T
        BY <1>1, <1>2, <1>3, <1>4, <1>6, <1>7, <2>1, <3>1 DEF Closed, SameLife
      <4>2. i \in T => after \in T
        BY <1>1, <1>3, <1>7, <3>1 DEF Closed
      <4>3. ASSUME NEW y \in T, m.item[y].next # NULL PROVE m.item[y].next \in T
        BY <1>3, <1>6, <1>7, <2>0, <2>1, <3>1, <4>3 DEF Closed
      <4>4. ASSUME NEW y \in T, Owner(m, y), m.item[y].child # NULL PROVE m.item[y].child \in T
        <5>1. y \in Cell /\ Owner(n, y)
          BY <1>4, <2>0, <4>4 DEF SameLife
        <5>2. CASE y = a
          BY <1>6, <2>1, <4>1, <4>2, <4>4, <5>2
        <5>3. CASE y # a
          BY <1>3, <3>1, <4>4, <5>1, <5>3 DEF Closed
        <5> QED BY <5>2, <5>3
      <4> QED BY <4>1, <4>3, <4>4 DEF Closed
    <3> QED BY <3>1
  <2>2. CASE prev # NULL
    <3>1. prev \notin Doomed(m, i) /\ prev # i /\ prev \in Live(m) /\ prev \in Cell
      BY <1>1, <1>6, <1>7, <2>2, DoomedWhole DEF Live
    <3>2. ASSUME NEW T \in SUBSET Live(m), Closed(n, T)
          PROVE  Closed(m, T) /\ (prev \in T => i \in T)
      <4>1. prev \in T => i \in T
        BY <1>3, <1>6, <1>7, <2>2, <3>1, <3>2 DEF Closed
      <4>2. i \in T => after \in T
        BY <1>1, <1>3, <1>7, <3>2 DEF Closed
      <4>3. ASSUME NEW y \in T, m.item[y].next # NULL PROVE m.item[y].next \in T
        <5>1. CASE y = prev
          BY <1>6, <2>2, <4>1, <4>2, <4>3, <5>1
        <5>2. CASE y # prev
          BY <1>3, <1>7, <2>0, <3>2, <4>3, <5>2 DEF Closed
        <5> QED BY <5>1, <5>2
      <4>4. ASSUME NEW y \in T, Owner(m, y), m.item[y].child # NULL PROVE m.item[y].child \in T
        <5>1. y \in Cell /\ Owner(n, y)
          BY <1>4, <2>0, <4>4 DEF SameLife
        <5>2. n.item[y].child = m.item[y].child
          BY <1>3, <1>6, <2>2, <5>1
        <5> QED BY <3>2, <4>4, <5>1, <5>2 DEF Closed
      <4> QED BY <4>1, <4>3, <4>4 DEF Closed
    <3> QED BY <3>1, <3>2
  <2> QED BY <2>1, <2>2
<1>9. Reached(n, H \ {i})
  BY <1>4, <1>8, AttachReached
<1>10. \A h \in H \ {i} : Loose(n, h)
  <2>1. SUFFICES ASSUME NEW h \in H \ {i} PROVE Loose(n, h)
    OBVIOUS
  <2>2. Loose(m, h) /\ h \in Cell /\ h \in Live(m)
    BY <1>1 DEF Live
  <2>3. h # prev /\ h # after
    <3>1. h # NULL /\ m.item[h].next = NULL
      BY <2>2, NullAssumption DEF Loose
    <3>2. h # after
      BY <1>1, <2>2, LooseApart
    <3> QED BY <1>6, <1>7, <3>1, <3>2
  <2>4. n.item[h].next = NULL /\ n.item[h].prev = NULL
    BY <1>3, <2>2, <2>3 DEF Loose
  <2>5. \A y \in Live(m) : Owner(n, y) => n.item[y].child # h
    BY <1>3, <1>4, <2>2 DEF Loose, SameLife, Live
  <2> QED BY <1>4, <2>2, <2>4, <2>5 DEF Loose, SameLife
<1>11. Tied(n, H \ {i})
  BY <1>1, <1>4, <1>5, <1>9, <1>10 DEF Tied, SameLife
<1> QED BY <1>11 DEF n

(* A member that is detached is a root, with all that hangs from it. *)
LEMMA TiedDetach ==
  ASSUME NEW m \in Memory, NEW H, Tied(m, H), NEW a, NEW i, MemberOf(m, a, i)
  PROVE  Tied(cJSON_DetachItemViaPointer(m, a, i), H \cup {i})
<1> DEFINE n == cJSON_DetachItemViaPointer(m, a, i)
           prev == m.item[i].prev
           next == m.item[i].next
<1>1. /\ Linked(m) /\ H \subseteq Live(m) /\ \A h \in H : Loose(m, h)
      /\ i \in Live(m) /\ a \in Live(m) /\ Owner(m, a) /\ i \in Cell /\ a \in Cell
      /\ a # i /\ i \notin H /\ next # i /\ prev # i
  <2>1. Linked(m) /\ H \subseteq Live(m) /\ \A h \in H : Loose(m, h)
    BY DEF Tied
  <2> QED BY <2>1, MemberFacts, LooseApart, NotItsOwn DEF Live
<1>2. /\ SameItems(m, n)
      /\ \A c \in Cell :
           /\ n.item[c].next = IF c = i THEN NULL
                     ELSE IF c = m.item[i].prev THEN m.item[i].next ELSE m.item[c].next
           /\ n.item[c].prev = IF c = i THEN NULL
                     ELSE IF c = m.item[i].next THEN m.item[i].prev ELSE m.item[c].prev
           /\ n.item[c].child = IF c = a /\ m.item[c].child = i /\ c # i
                      THEN m.item[i].next ELSE m.item[c].child
  BY <1>1, DetachFields
<1>3. SameLife(m, n)
  BY <1>2, SameItemsFacts DEF SameLife
<1>4. Linked(n) /\ Loose(n, i)
  BY <1>1, DetachLinked
<1> HIDE DEF n
<1>5. /\ (prev = NULL) <=> (m.item[a].child = i)
      /\ prev # NULL => prev \in Chain(m, a) /\ prev \in Live(m) /\ m.item[prev].next = i
      /\ next # NULL => next \in Live(m) /\ m.item[next].prev = i
      /\ i # NULL
  BY <1>1, PrevInChain, NullAssumption DEF Linked
<1>6. ASSUME NEW y \in Live(m), m.item[y].next = i PROVE y = prev
  BY <1>5, <1>6, <1>1 DEF Linked
<1>7. ASSUME NEW y \in Live(m), Owner(m, y), m.item[y].child = i PROVE y = a /\ prev = NULL
  BY <1>1, <1>5, <1>7 DEF Linked
<1>8. Reached(n, H \cup {i})
  <2>1. SUFFICES ASSUME NEW T \in SUBSET Live(m), H \cup {i} \subseteq T, Closed(n, T)
                 PROVE  Live(m) \subseteq T
    BY <1>3 DEF Reached, SameLife
  <2>2. T \subseteq Cell
    BY DEF Live
  <2>3. ASSUME NEW y \in T \ {i}, m.item[y].next # NULL, m.item[y].next # i
        PROVE  m.item[y].next \in T
    <3>1. y \in Live(m) /\ y \in Cell /\ y # NULL
      BY <2>2, NullAssumption
    <3>2. n.item[y].next = m.item[y].next
      BY <1>2, <1>5, <2>3, <3>1
    <3> QED BY <2>1, <2>3, <3>2 DEF Closed
  <2>4. ASSUME NEW y \in T \ {i}, Owner(m, y), m.item[y].child # NULL, m.item[y].child # i
        PROVE  m.item[y].child \in T
    BY <1>2, <1>3, <2>1, <2>2, <2>4 DEF Closed, SameLife
  <2>5. CASE next = NULL \/ next \in T
    <3>1. ASSUME NEW y \in T, m.item[y].next # NULL PROVE m.item[y].next \in T
      BY <2>1, <2>3, <2>5, <3>1
    <3>2. ASSUME NEW y \in T, Owner(m, y), m.item[y].child # NULL PROVE m.item[y].child \in T
      <4>1. CASE y = i
        BY <1>1, <1>2, <1>3, <2>1, <3>2, <4>1 DEF Closed, SameLife
      <4>2. CASE y # i
        BY <2>1, <2>4, <3>2, <4>2
      <4> QED BY <4>1, <4>2
    <3>3. Closed(m, T)
      BY <3>1, <3>2 DEF Closed
    <3> QED BY <2>1, <3>3 DEF Tied, Reached
  <2>6. CASE next # NULL /\ next \notin T
    <3> DEFINE S == T \ {i}
    <3>1. prev # NULL => prev \notin T
      BY <1>1, <1>2, <1>5, <2>1, <2>6 DEF Closed, Live
    <3>2. prev = NULL => a \notin T
      BY <1>1, <1>2, <1>3, <1>5, <2>1, <2>6 DEF Closed, SameLife
    <3>3. ASSUME NEW y \in S, m.item[y].next # NULL PROVE m.item[y].next \in S
      <4>1. m.item[y].next # i
        BY <1>5, <1>6, <3>1, <3>3, NullAssumption DEF Live
      <4> QED BY <2>3, <3>3, <4>1
    <3>4. ASSUME NEW y \in S, Owner(m, y), m.item[y].child # NULL PROVE m.item[y].child \in S
      <4>1. m.item[y].child # i
        BY <1>7, <3>2, <3>4
      <4> QED BY <2>4, <3>4, <4>1
    <3>5. Closed(m, S) /\ S \in SUBSET Live(m) /\ H \subseteq S
      BY <1>1, <2>1, <3>3, <3>4 DEF Closed
    <3>6. Live(m) \subseteq S
      <4> HIDE DEF S
      <4> QED BY <3>5 DEF Tied, Reached
    <3> QED BY <1>1, <3>6
  <2> QED BY <2>5, <2>6
<1>9. ASSUME NEW h \in H PROVE Loose(n, h)
  <2>1. Loose(m, h) /\ h \in Cell /\ h \in Live(m) /\ h # i
    BY <1>1 DEF Live
  <2>2. h # prev /\ h # next
    <3>1. h # NULL /\ m.item[h].next = NULL /\ m.item[h].prev = NULL
      BY <2>1, NullAssumption DEF Loose
    <3> QED BY <1>1, <1>5, <3>1
  <2>3. n.item[h].next = NULL /\ n.item[h].prev = NULL
    BY <1>2, <2>1, <2>2 DEF Loose
  <2>4. \A y \in Live(m) : Owner(n, y) => n.item[y].child # h
    BY <1>2, <1>3, <2>1, <2>2 DEF Loose, SameLife, Live
  <2> QED BY <1>3, <2>1, <2>3, <2>4 DEF Loose, SameLife
<1>10. Tied(n, H \cup {i})
  BY <1>1, <1>3, <1>4, <1>8, <1>9 DEF Tied, SameLife
<1> QED BY <1>10 DEF n

(* The items of S are as they were. *)
Kept(m, n, S) == \A x \in S : n.item[x] = m.item[x]

-----------------------------------------------------------------------------
(* Deleting a root *)

(* What cJSON_Delete leaves, and that it frees the strings it has to. *)
LEMMA DeleteFields ==
  ASSUME NEW m \in Memory, NEW H, Tied(m, H), Counted(m), NEW i \in H
  PROVE  /\ cJSON_Delete(m, i) \in Memory
         /\ Live(cJSON_Delete(m, i)) = Live(m) \ Doomed(m, i)
         /\ Kept(m, cJSON_Delete(m, i), Live(m) \ Doomed(m, i))
         /\ Counted(cJSON_Delete(m, i))
<1> DEFINE D == Doomed(m, i)
           n == cJSON_Delete(m, i)
<1>1. i \in Live(m) /\ i # NULL /\ D \subseteq Live(m) /\ Live(m) \subseteq Cell
  <2>1. i \in Live(m) /\ Linked(m)
    BY DEF Tied
  <2> QED BY <2>1, DoomedIs, NullAssumption DEF Live
<1>2. /\ n.item = [c \in Cell |-> IF c \in D THEN FreeItem ELSE m.item[c]]
      /\ n = [item |-> n.item, strings |-> n.strings]
      /\ n.strings = m.strings - Cardinality({c \in D : OwnsName(m, c)})
                               - Cardinality({c \in D : OwnsText(m, c)})
  BY <1>1 DEF cJSON_Delete, Freed
<1>3. m.item \in [Cell -> Item] /\ FreeItem \in Item /\ FreeItem.kind = "free" /\ m.strings \in Nat
  BY DEF Memory, Item, FreeItem, Kind, Pointer
<1> HIDE DEF n, D
<1>4. n.item \in [Cell -> Item]
  BY <1>2, <1>3
<1>5. Live(n) = Live(m) \ D
  BY <1>2, <1>3 DEF Live
<1>6. Kept(m, n, Live(m) \ D)
  BY <1>1, <1>2 DEF Kept
<1>7. /\ {c \in D : OwnsName(m, c)} = OwnedNames(m) \cap D
      /\ {c \in D : OwnsText(m, c)} = OwnedTexts(m) \cap D
      /\ OwnedNames(n) = OwnedNames(m) \ D /\ OwnedTexts(n) = OwnedTexts(m) \ D
  BY <1>1, <1>5, <1>6 DEF OwnedNames, OwnedTexts, Kept, OwnsName, OwnsText
<1>8. IsFiniteSet(OwnedNames(m)) /\ IsFiniteSet(OwnedTexts(m))
  <2>1. OwnedNames(m) \subseteq Cell /\ OwnedTexts(m) \subseteq Cell
    BY <1>1 DEF OwnedNames, OwnedTexts
  <2> QED BY <2>1, CellAssumption, FS_Subset
<1>9. /\ Cardinality(OwnedNames(m) \ D) = Cardinality(OwnedNames(m)) - Cardinality(OwnedNames(m) \cap D)
      /\ Cardinality(OwnedTexts(m) \ D) = Cardinality(OwnedTexts(m)) - Cardinality(OwnedTexts(m) \cap D)
  BY <1>8, FS_Difference
<1>10. /\ Cardinality(OwnedNames(m)) \in Nat /\ Cardinality(OwnedTexts(m)) \in Nat
       /\ Cardinality(OwnedNames(m) \cap D) \in Nat /\ Cardinality(OwnedTexts(m) \cap D) \in Nat
       /\ Cardinality(OwnedNames(m) \ D) \in Nat /\ Cardinality(OwnedTexts(m) \ D) \in Nat
  <2>1. /\ IsFiniteSet(OwnedNames(m) \cap D) /\ IsFiniteSet(OwnedTexts(m) \cap D)
        /\ IsFiniteSet(OwnedNames(m) \ D) /\ IsFiniteSet(OwnedTexts(m) \ D)
    BY <1>8, FS_Subset
  <2> QED BY <1>8, <2>1, FS_CardinalityType
<1>11. n.strings = Cardinality(OwnedNames(n)) + Cardinality(OwnedTexts(n)) /\ n.strings \in Nat
  <2>1. m.strings = Cardinality(OwnedNames(m)) + Cardinality(OwnedTexts(m))
    BY DEF Counted
  <2>2. n.strings = m.strings - Cardinality(OwnedNames(m) \cap D) - Cardinality(OwnedTexts(m) \cap D)
    BY <1>2, <1>7
  <2>3. n.strings = Cardinality(OwnedNames(m) \ D) + Cardinality(OwnedTexts(m) \ D)
    BY <1>9, <1>10, <2>1, <2>2
  <2> QED BY <1>7, <1>10, <2>3
<1>12. n \in Memory /\ Counted(n)
  <2>1. n = [item |-> n.item, strings |-> n.strings]
    BY <1>2
  <2> QED BY <1>4, <1>11, <2>1 DEF Memory, Counted
<1> QED BY <1>5, <1>6, <1>12 DEF n, D

(* What is left hangs from the other roots. *)
LEMMA TiedDelete ==
  ASSUME NEW m \in Memory, NEW H, Tied(m, H), Counted(m), NEW i \in H
  PROVE  Tied(cJSON_Delete(m, i), H \ {i})
<1> DEFINE D == Doomed(m, i)
           n == cJSON_Delete(m, i)
<1>1. /\ Linked(m) /\ H \subseteq Live(m) /\ \A h \in H : Loose(m, h)
      /\ i \in Live(m) /\ i \in D /\ D \subseteq Live(m) /\ Closed(m, D)
  <2>1. Linked(m) /\ H \subseteq Live(m) /\ \A h \in H : Loose(m, h)
    BY DEF Tied
  <2> QED BY <2>1, DoomedIs
<1>2. /\ n \in Memory /\ Live(n) = Live(m) \ D
      /\ \A x \in Live(m) \ D : n.item[x] = m.item[x]
  BY DeleteFields DEF Kept
<1>3. Linked(n)
  BY <1>1, DeleteLinked
<1>4. \A x \in Live(n) : Owner(n, x) <=> Owner(m, x)
  BY <1>2 DEF Owner
<1>5. ASSUME NEW h \in H \ {i} PROVE h \notin D
  <2>1. Loose(m, h)
    BY <1>1
  <2>2. D \ {h} \in SUBSET Live(m) /\ i \in D \ {h}
    BY <1>1
  <2>3. Closed(m, D \ {h})
    <3>1. \A y \in D : m.item[y].next # h
      BY <1>1, <2>1, NullAssumption DEF Linked, Loose, Live
    <3>2. \A y \in D : Owner(m, y) => m.item[y].child # h
      BY <1>1, <2>1 DEF Loose
    <3> QED BY <1>1, <3>1, <3>2 DEF Closed
  <2>4. D \subseteq D \ {h}
    BY <1>1, <2>2, <2>3, DoomedIs
  <2> QED BY <2>4
<1> HIDE DEF n, D
<1>6. Reached(n, H \ {i})
  <2>1. SUFFICES ASSUME NEW T \in SUBSET Live(n), H \ {i} \subseteq T, Closed(n, T)
                 PROVE  Live(n) \subseteq T
    BY DEF Reached
  <2> DEFINE S == T \cup D
  <2>2. S \in SUBSET Live(m) /\ H \subseteq S
    BY <1>1, <1>2, <2>1
  <2>3. Closed(m, S)
    BY <1>1, <1>2, <1>4, <2>1 DEF Closed
  <2>4. Live(m) \subseteq S
    <3> HIDE DEF S
    <3> QED BY <2>2, <2>3 DEF Tied, Reached
  <2> QED BY <1>2, <2>4
<1>7. \A h \in H \ {i} : Loose(n, h)
  BY <1>1, <1>2, <1>4, <1>5 DEF Loose
<1>8. H \ {i} \subseteq Live(n)
  BY <1>1, <1>2, <1>5
<1>9. Tied(n, H \ {i})
  BY <1>3, <1>6, <1>7, <1>8 DEF Tied
<1> QED BY <1>9 DEF n

(* What is deleted besides i hangs from i. *)
LEMMA SoundDelete ==
  ASSUME NEW m, NEW H, NEW named, Sound(m, H, named), NEW i \in H
  PROVE  /\ Sound(cJSON_Delete(m, i), H \ {i}, named)
         /\ Live(cJSON_Delete(m, i)) = Live(m) \ Doomed(m, i)
         /\ Kept(m, cJSON_Delete(m, i), Live(m) \ Doomed(m, i))
<1> DEFINE D == Doomed(m, i)
           n == cJSON_Delete(m, i)
<1>1. m \in Memory /\ Tied(m, H) /\ Counted(m) /\ (named => Named(m))
  BY DEF Sound
<1>2. /\ n \in Memory /\ Live(n) = Live(m) \ D /\ Kept(m, n, Live(m) \ D) /\ Counted(n)
      /\ Tied(n, H \ {i})
  BY <1>1, DeleteFields, TiedDelete
<1>3. Linked(m) /\ Loose(m, i)
  BY <1>1 DEF Tied
<1> HIDE DEF n, D
<1>4. ASSUME Named(m), NEW o \in Live(n), Owner(n, o), n.item[o].kind = "object", NEW x \in Chain(n, o)
      PROVE  n.item[x].name # NULL
  <2>1. o \in Live(m) \ D /\ n.item[o] = m.item[o] /\ Owner(m, o)
    BY <1>2, <1>4 DEF Kept, Owner
  <2>2. \A y \in Chain(m, o) : y \notin D /\ y \in Live(m) /\ n.item[y] = m.item[y]
    <3>1. Chain(m, o) \cap D = {}
      BY <1>1, <1>3, <2>1, DoomedWhole DEF D
    <3>2. Chain(m, o) \subseteq Live(m)
      BY <1>1, <1>3, <2>1, ChainFacts, NoChain
    <3> QED BY <1>2, <3>1, <3>2 DEF Kept
  <2>3. /\ m.item[o].child # NULL => m.item[o].child \in Chain(m, o)
        /\ \A y \in Chain(m, o) : m.item[y].next # NULL => m.item[y].next \in Chain(m, o)
    BY <1>1, <1>3, <2>1, LeadsToMember DEF MemberOf
  <2>4. Chain(m, o) \in SUBSET Cell
    BY DEF Chain
  <2>5. Chain(n, o) \subseteq Chain(m, o)
    BY <2>1, <2>2, <2>3, <2>4, ChainWithin
  <2>6. m.item[x].name # NULL
    BY <1>4, <2>1, <2>5 DEF Named
  <2> QED BY <1>4, <2>2, <2>5, <2>6
<1>5. named => Named(n)
  BY <1>1, <1>4 DEF Named
<1> QED BY <1>2, <1>5 DEF Sound, n, D

-----------------------------------------------------------------------------
(* A new item, as malloc and the assignments that follow it leave it *)

Fresh(made) == /\ made \in Item /\ made.kind # "free" /\ made.next = NULL /\ made.prev = NULL
               /\ made.ref \/ made.child = NULL

With(m, c, made) ==
  [item |-> [m.item EXCEPT ![c] = made],
   strings |-> m.strings + (IF made.name # NULL /\ ~made.const THEN 1 ELSE 0)
                         + (IF made.text # NULL /\ ~made.ref THEN 1 ELSE 0)]

(* The memory with a new item. *)
LEMMA WithFields ==
  ASSUME NEW m \in Memory, NEW c \in Cell \ Live(m), NEW made, Fresh(made)
  PROVE  /\ With(m, c, made) \in Memory
         /\ \A x \in Cell : With(m, c, made).item[x] = IF x = c THEN made ELSE m.item[x]
         /\ Live(With(m, c, made)) = Live(m) \cup {c}
         /\ Kept(m, With(m, c, made), Live(m))
         /\ With(m, c, made).strings = m.strings + (IF made.name # NULL /\ ~made.const THEN 1 ELSE 0)
                                                 + (IF made.text # NULL /\ ~made.ref THEN 1 ELSE 0)
<1> DEFINE n == With(m, c, made)
           k == IF made.name # NULL /\ ~made.const THEN 1 ELSE 0
           t == IF made.text # NULL /\ ~made.ref THEN 1 ELSE 0
<1>1. n.item = [m.item EXCEPT ![c] = made] /\ n.strings = m.strings + k + t
  BY DEF With
<1>2. m.item \in [Cell -> Item] /\ m.strings \in Nat /\ made \in Item /\ made.kind # "free"
  BY DEF Memory, Fresh
<1>3. k \in Nat /\ t \in Nat
  OBVIOUS
<1>4. n = [item |-> n.item, strings |-> n.strings]
  BY DEF With
<1> HIDE DEF n, k, t
<1>5. n.item \in [Cell -> Item] /\ n.strings \in Nat
  BY <1>1, <1>2, <1>3
<1>6. n \in Memory
  BY <1>4, <1>5 DEF Memory
<1>7. \A x \in Cell : n.item[x] = IF x = c THEN made ELSE m.item[x]
  BY <1>1, <1>2
<1>8. Live(n) = Live(m) \cup {c}
  BY <1>2, <1>7 DEF Live
<1>9. Kept(m, n, Live(m))
  BY <1>7 DEF Kept, Live
<1> QED BY <1>1, <1>6, <1>7, <1>8, <1>9 DEF n, k, t

(* Its strings are counted. *)
LEMMA WithCounted ==
  ASSUME NEW m \in Memory, Counted(m), NEW c \in Cell \ Live(m), NEW made, Fresh(made)
  PROVE  Counted(With(m, c, made))
<1> DEFINE n == With(m, c, made)
           k == IF made.name # NULL /\ ~made.const THEN 1 ELSE 0
           t == IF made.text # NULL /\ ~made.ref THEN 1 ELSE 0
<1>1. /\ Live(n) = Live(m) \cup {c} /\ n.item[c] = made /\ Kept(m, n, Live(m))
      /\ n.strings = m.strings + k + t
  BY WithFields
<1> HIDE DEF n
<1>2. /\ OwnsName(n, c) <=> made.name # NULL /\ ~made.const
      /\ OwnsText(n, c) <=> made.text # NULL /\ ~made.ref
  BY <1>1 DEF OwnsName, OwnsText
<1>3. \A x \in Live(m) : /\ OwnsName(n, x) <=> OwnsName(m, x)
                         /\ OwnsText(n, x) <=> OwnsText(m, x)
  BY <1>1 DEF OwnsName, OwnsText, Kept
<1>4. /\ OwnedNames(n) = IF OwnsName(n, c) THEN OwnedNames(m) \cup {c} ELSE OwnedNames(m)
      /\ OwnedTexts(n) = IF OwnsText(n, c) THEN OwnedTexts(m) \cup {c} ELSE OwnedTexts(m)
  BY <1>1, <1>3 DEF OwnedNames, OwnedTexts
<1>5. /\ IsFiniteSet(OwnedNames(m)) /\ IsFiniteSet(OwnedTexts(m))
      /\ c \notin OwnedNames(m) /\ c \notin OwnedTexts(m)
  <2>1. OwnedNames(m) \subseteq Cell /\ OwnedTexts(m) \subseteq Cell
    BY DEF OwnedNames, OwnedTexts, Live
  <2>2. c \notin OwnedNames(m) /\ c \notin OwnedTexts(m)
    BY DEF OwnedNames, OwnedTexts
  <2> QED BY <2>1, <2>2, CellAssumption, FS_Subset
<1>6. /\ Cardinality(OwnedNames(m) \cup {c}) = Cardinality(OwnedNames(m)) + 1
      /\ Cardinality(OwnedTexts(m) \cup {c}) = Cardinality(OwnedTexts(m)) + 1
  BY <1>5, FS_AddElement
<1>7. Cardinality(OwnedNames(m)) \in Nat /\ Cardinality(OwnedTexts(m)) \in Nat
  BY <1>5, FS_CardinalityType
<1>8. Cardinality(OwnedNames(n)) = Cardinality(OwnedNames(m)) + k
  BY <1>2, <1>4, <1>6, <1>7
<1>9. Cardinality(OwnedTexts(n)) = Cardinality(OwnedTexts(m)) + t
  BY <1>2, <1>4, <1>6, <1>7
<1>10. k \in Nat /\ t \in Nat
  OBVIOUS
<1>11. m.strings = Cardinality(OwnedNames(m)) + Cardinality(OwnedTexts(m))
  BY DEF Counted
<1> HIDE DEF k, t
<1>12. Counted(n)
  BY <1>1, <1>7, <1>8, <1>9, <1>10, <1>11 DEF Counted
<1> QED BY <1>12 DEF n

(* The new item is in no list. *)
LEMMA WithLinked ==
  ASSUME NEW m \in Memory, Linked(m), NEW c \in Cell \ Live(m), NEW made, Fresh(made)
  PROVE  Linked(With(m, c, made)) /\ Loose(With(m, c, made), c)
<1> DEFINE n == With(m, c, made)
<1>1. /\ Live(n) = Live(m) \cup {c} /\ n.item[c] = made
      /\ \A x \in Live(m) : n.item[x] = m.item[x] /\ x # c /\ x \in Cell
  <2>1. \A x \in Live(m) : x # c /\ x \in Cell
    BY DEF Live
  <2> QED BY <2>1, WithFields DEF Kept
<1>2. /\ made.next = NULL /\ made.prev = NULL /\ made.kind # "free"
      /\ Owner(n, c) => made.child = NULL
  BY <1>1 DEF Fresh, Owner
<1>3. \A x \in Live(m) : Owner(n, x) <=> Owner(m, x)
  BY <1>1 DEF Owner
<1> HIDE DEF n
<1>4. \A x \in Live(m) :
        /\ m.item[x].next # NULL => m.item[x].next \in Live(m) /\ m.item[m.item[x].next].prev = x
        /\ m.item[x].prev # NULL => m.item[x].prev \in Live(m) /\ m.item[m.item[x].prev].next = x
        /\ Owner(m, x) /\ m.item[x].child # NULL =>
             /\ m.item[x].child \in Live(m) /\ m.item[m.item[x].child].prev = NULL
             /\ \A y \in Live(m) : Owner(m, y) /\ m.item[y].child = m.item[x].child => y = x
  BY DEF Linked
<1>5. Linked(n)
  BY <1>1, <1>2, <1>3, <1>4 DEF Linked
<1>6. Loose(n, c)
  BY <1>1, <1>2, <1>3, <1>4, NullAssumption DEF Loose
<1> QED BY <1>5, <1>6 DEF n

(* The new item is one more root. *)
LEMMA SoundNew ==
  ASSUME NEW m, NEW H, NEW named, Sound(m, H, named), NEW c \in Cell \ Live(m),
         NEW made, Fresh(made)
  PROVE  Sound(With(m, c, made), H \cup {c}, named)
<1> DEFINE n == With(m, c, made)
<1>1. m \in Memory /\ Linked(m) /\ H \subseteq Live(m) /\ (\A h \in H : Loose(m, h))
      /\ Tied(m, H) /\ Counted(m) /\ (named => Named(m))
  BY DEF Sound, Tied
<1>2. /\ n \in Memory /\ Live(n) = Live(m) \cup {c} /\ n.item[c] = made
      /\ \A x \in Live(m) : n.item[x] = m.item[x] /\ x # c /\ x \in Cell
  <2>1. \A x \in Live(m) : x # c /\ x \in Cell
    BY DEF Live
  <2> QED BY <1>1, <2>1, WithFields DEF Kept
<1>3. Linked(n) /\ Loose(n, c) /\ Counted(n)
  BY <1>1, WithLinked, WithCounted
<1>4. Owner(n, c) => made.child = NULL
  BY <1>2 DEF Fresh, Owner
<1>5. \A x \in Live(m) : Owner(n, x) <=> Owner(m, x)
  BY <1>2 DEF Owner
<1> HIDE DEF n
<1>6. Reached(n, H \cup {c})
  <2>1. SUFFICES ASSUME NEW T \in SUBSET Live(n), H \cup {c} \subseteq T, Closed(n, T)
                 PROVE  Live(n) \subseteq T
    BY DEF Reached
  <2> DEFINE S == T \ {c}
  <2>2. S \in SUBSET Live(m) /\ H \subseteq S
    BY <1>1, <1>2, <2>1
  <2>3. Closed(m, S)
    <3>1. ASSUME NEW y \in S, m.item[y].next # NULL PROVE m.item[y].next \in S
      <4>1. y \in Live(m) /\ m.item[y].next \in Live(m)
        BY <1>1, <2>2, <3>1 DEF Linked
      <4> QED BY <1>2, <2>1, <3>1, <4>1 DEF Closed
    <3>2. ASSUME NEW y \in S, Owner(m, y), m.item[y].child # NULL PROVE m.item[y].child \in S
      <4>1. y \in Live(m) /\ m.item[y].child \in Live(m)
        BY <1>1, <2>2, <3>2 DEF Linked
      <4> QED BY <1>2, <1>5, <2>1, <3>2, <4>1 DEF Closed
    <3> QED BY <3>1, <3>2 DEF Closed
  <2>4. Live(m) \subseteq S
    <3> HIDE DEF S
    <3> QED BY <1>1, <2>2, <2>3 DEF Tied, Reached
  <2> QED BY <1>2, <2>1, <2>4
<1>7. \A h \in H : Loose(n, h)
  <2>1. SUFFICES ASSUME NEW h \in H PROVE Loose(n, h)
    OBVIOUS
  <2>2. Loose(m, h) /\ h \in Live(m) /\ h # NULL
    BY <1>1, <1>2, NullAssumption
  <2> QED BY <1>2, <1>4, <1>5, <2>2 DEF Loose
<1>8. Tied(n, H \cup {c})
  BY <1>1, <1>2, <1>3, <1>6, <1>7 DEF Tied
<1>9. ASSUME Named(m), NEW o \in Live(n), Owner(n, o), n.item[o].kind = "object", NEW x \in Chain(n, o)
      PROVE  n.item[x].name # NULL
  <2>1. o # c
    BY <1>2, <1>4, <1>9, NoChain
  <2>2. o \in Live(m) /\ Owner(m, o) /\ n.item[o] = m.item[o]
    BY <1>2, <1>5, <1>9, <2>1
  <2>3. \A y \in Chain(m, o) : y \in Live(m) /\ n.item[y] = m.item[y]
    BY <1>1, <1>2, <2>2, ChainFacts, NoChain
  <2>4. /\ m.item[o].child # NULL => m.item[o].child \in Chain(m, o)
        /\ \A y \in Chain(m, o) : m.item[y].next # NULL => m.item[y].next \in Chain(m, o)
    BY <1>1, <2>2, LeadsToMember DEF MemberOf
  <2>5. Chain(m, o) \in SUBSET Cell
    BY DEF Chain
  <2>6. Chain(n, o) \subseteq Chain(m, o)
    BY <2>2, <2>3, <2>4, <2>5, ChainWithin
  <2>7. m.item[x].name # NULL
    BY <1>9, <2>2, <2>6 DEF Named
  <2> QED BY <1>9, <2>3, <2>6, <2>7
<1>10. named => Named(n)
  BY <1>1, <1>9 DEF Named
<1> QED BY <1>2, <1>3, <1>8, <1>10 DEF Sound, n

-----------------------------------------------------------------------------
(* A new name *)

(* What a rename writes. *)
LEMMA RenameFields ==
  ASSUME NEW m \in Memory, NEW i \in Cell, NEW name \in Name \cup {NULL}, NEW const \in BOOLEAN
  PROVE  LET n == Rename(m, i, name, const)
         IN  /\ n = [item |-> n.item, strings |-> n.strings] /\ n.item \in [Cell -> Item]
             /\ n.strings = m.strings - (IF OwnsName(m, i) THEN 1 ELSE 0)
                                      + (IF const \/ name = NULL THEN 0 ELSE 1)
             /\ \A c \in Cell : c # i => n.item[c] = m.item[c]
             /\ n.item[i].kind = m.item[i].kind /\ n.item[i].next = m.item[i].next
             /\ n.item[i].prev = m.item[i].prev /\ n.item[i].child = m.item[i].child
             /\ n.item[i].text = m.item[i].text /\ n.item[i].name = name
             /\ n.item[i].ref = m.item[i].ref /\ n.item[i].const = const
<1> DEFINE n == Rename(m, i, name, const)
           x == [m.item[i] EXCEPT !.name = name]
           y == [x EXCEPT !.const = const]
           k == (IF const \/ name = NULL THEN 0 ELSE 1)
           o == (IF OwnsName(m, i) THEN 1 ELSE 0)
<1>1. m.item \in [Cell -> Item] /\ m = [item |-> m.item, strings |-> m.strings]
  BY DEF Memory
<1>2. m.item[i] \in Item
  BY <1>1
<1>3. x \in Item
  BY <1>2 DEF Item
<1>4. /\ x.kind = m.item[i].kind /\ x.next = m.item[i].next /\ x.prev = m.item[i].prev
      /\ x.child = m.item[i].child /\ x.text = m.item[i].text /\ x.name = name
  BY <1>2 DEF Item
<1>5. x.ref = m.item[i].ref
  BY <1>2 DEF Item
<1> HIDE DEF x
<1>6. y \in Item
  BY <1>3 DEF Item
<1>7. /\ y.kind = x.kind /\ y.next = x.next /\ y.prev = x.prev
      /\ y.child = x.child /\ y.text = x.text /\ y.name = x.name
  BY <1>3 DEF Item
<1>8. y.ref = x.ref /\ y.const = const
  BY <1>3 DEF Item
<1>9. n.item = [[m.item EXCEPT ![i] = x] EXCEPT ![i] = y] /\ n.strings = m.strings - o + k
      /\ n = [item |-> n.item, strings |-> n.strings]
  <2> HIDE DEF k, o
  <2>1. n = [[[m EXCEPT !.item[i] = x] EXCEPT !.item[i] = y] EXCEPT !.strings = @ - o + k]
    <3>1. [m EXCEPT !.item[i] = x].item[i] = x
      BY <1>1
    <3> QED BY <1>1, <3>1 DEF Rename, x, k, o
  <2>2. [m EXCEPT !.item[i] = x] = [item |-> [m.item EXCEPT ![i] = x], strings |-> m.strings]
    BY <1>1
  <2> HIDE DEF y
  <2>3. [[m EXCEPT !.item[i] = x] EXCEPT !.item[i] = y]
          = [item |-> [[m.item EXCEPT ![i] = x] EXCEPT ![i] = y], strings |-> m.strings]
    <3> DEFINE mid == [m EXCEPT !.item[i] = x]
               f == [m.item EXCEPT ![i] = x]
    <3>1. mid = [item |-> f, strings |-> m.strings]
      BY <2>2
    <3> HIDE DEF mid, f
    <3>2. [mid EXCEPT !.item[i] = y] = [item |-> [f EXCEPT ![i] = y], strings |-> m.strings]
      BY <3>1
    <3> QED BY <3>2 DEF mid, f
  <2> QED BY <2>1, <2>3
<1> HIDE DEF n, y
<1>10. n.item \in [Cell -> Item] /\ n.item[i] = y /\ \A c \in Cell : c # i => n.item[c] = m.item[c]
  BY <1>1, <1>3, <1>6, <1>9
<1>11. /\ n.item[i].kind = m.item[i].kind /\ n.item[i].next = m.item[i].next
       /\ n.item[i].prev = m.item[i].prev /\ n.item[i].child = m.item[i].child
       /\ n.item[i].text = m.item[i].text /\ n.item[i].name = name
  BY <1>4, <1>7, <1>10
<1>12. n.item[i].ref = m.item[i].ref /\ n.item[i].const = const
  BY <1>5, <1>8, <1>10
<1> QED BY <1>9, <1>10, <1>11, <1>12 DEF n, k, o
(* A root, in no list yet, may get any name, or none. *)
LEMMA SoundRename ==
  ASSUME NEW m, NEW H, NEW named, Sound(m, H, named), NEW i \in H,
         NEW name \in Name \cup {NULL}, NEW const \in BOOLEAN
  PROVE  /\ Sound(Rename(m, i, name, const), H, named)
         /\ Live(Rename(m, i, name, const)) = Live(m)
         /\ \A c \in Cell : c # i => Rename(m, i, name, const).item[c] = m.item[c]
         /\ Rename(m, i, name, const).item[i].kind = m.item[i].kind
         /\ Rename(m, i, name, const).item[i].ref = m.item[i].ref
         /\ Rename(m, i, name, const).item[i].next = m.item[i].next
         /\ Rename(m, i, name, const).item[i].child = m.item[i].child
         /\ Rename(m, i, name, const).item[i].name = name
<1> DEFINE n == Rename(m, i, name, const)
           k == IF const \/ name = NULL THEN 0 ELSE 1
           o == IF OwnsName(m, i) THEN 1 ELSE 0
<1>1. m \in Memory /\ Linked(m) /\ H \subseteq Live(m) /\ (\A h \in H : Loose(m, h))
      /\ Tied(m, H) /\ Counted(m) /\ (named => Named(m)) /\ i \in Cell /\ i \in Live(m)
  BY DEF Sound, Tied, Live
<1>2. /\ n = [item |-> n.item, strings |-> n.strings] /\ n.item \in [Cell -> Item]
      /\ n.strings = m.strings - o + k
      /\ \A c \in Cell : c # i => n.item[c] = m.item[c]
      /\ n.item[i].kind = m.item[i].kind /\ n.item[i].next = m.item[i].next
      /\ n.item[i].prev = m.item[i].prev /\ n.item[i].child = m.item[i].child
      /\ n.item[i].text = m.item[i].text /\ n.item[i].name = name
      /\ n.item[i].ref = m.item[i].ref /\ n.item[i].const = const
  BY <1>1, RenameFields
<1> HIDE DEF n
<1>3. \A c \in Cell : /\ n.item[c].kind = m.item[c].kind /\ n.item[c].next = m.item[c].next
                      /\ n.item[c].prev = m.item[c].prev /\ n.item[c].child = m.item[c].child
                      /\ n.item[c].text = m.item[c].text
  BY <1>2
<1>4. \A c \in Cell : n.item[c].ref = m.item[c].ref
  BY <1>2
<1>5. Live(n) = Live(m) /\ \A c \in Cell : Owner(n, c) <=> Owner(m, c)
  BY <1>3, <1>4 DEF Live, Owner
<1>6. \A c \in Cell : OwnsText(n, c) <=> OwnsText(m, c)
  BY <1>3, <1>4 DEF OwnsText
<1>7. \A c \in Cell : c # i => (OwnsName(n, c) <=> OwnsName(m, c))
  BY <1>2 DEF OwnsName
<1>8. OwnsName(n, i) <=> ~(const \/ name = NULL)
  BY <1>2 DEF OwnsName
<1>9. OwnedTexts(n) = OwnedTexts(m)
  BY <1>5, <1>6 DEF OwnedTexts, Live
<1>10. /\ OwnedNames(m) = (OwnedNames(m) \ {i}) \cup (IF OwnsName(m, i) THEN {i} ELSE {})
       /\ OwnedNames(n) = (OwnedNames(m) \ {i}) \cup (IF OwnsName(n, i) THEN {i} ELSE {})
  <2>1. OwnedNames(m) = (OwnedNames(m) \ {i}) \cup (IF OwnsName(m, i) THEN {i} ELSE {})
    BY <1>1 DEF OwnedNames
  <2>2. \A c \in Live(m) : c \in Cell
    BY DEF Live
  <2>3. OwnedNames(n) = (OwnedNames(m) \ {i}) \cup (IF OwnsName(n, i) THEN {i} ELSE {})
    BY <1>1, <1>5, <1>7, <2>2 DEF OwnedNames
  <2> QED BY <2>1, <2>3
<1> DEFINE R == OwnedNames(m) \ {i}
<1>11. IsFiniteSet(R) /\ i \notin R /\ Cardinality(R) \in Nat /\ Cardinality(OwnedTexts(m)) \in Nat
  <2>1. R \subseteq Cell /\ OwnedTexts(m) \subseteq Cell
    BY DEF OwnedNames, OwnedTexts, Live
  <2>2. IsFiniteSet(R) /\ IsFiniteSet(OwnedTexts(m))
    BY <2>1, CellAssumption, FS_Subset
  <2> QED BY <2>2, FS_CardinalityType
<1>12. /\ OwnedNames(m) = IF OwnsName(m, i) THEN R \cup {i} ELSE R
       /\ OwnedNames(n) = IF OwnsName(n, i) THEN R \cup {i} ELSE R
  BY <1>10
<1> HIDE DEF R
<1>13. Cardinality(R \cup {i}) = Cardinality(R) + 1
  BY <1>11, FS_AddElement
<1>14. /\ Cardinality(OwnedNames(m)) = Cardinality(R) + o
       /\ Cardinality(OwnedNames(n)) = Cardinality(R) + k
  BY <1>8, <1>11, <1>12, <1>13
<1>15. o \in Nat /\ k \in Nat
  OBVIOUS
<1>16. m.strings = Cardinality(OwnedNames(m)) + Cardinality(OwnedTexts(m))
  BY <1>1 DEF Counted
<1> HIDE DEF o, k
<1>17. n.strings = Cardinality(OwnedNames(n)) + Cardinality(OwnedTexts(n)) /\ n.strings \in Nat
  BY <1>2, <1>9, <1>11, <1>14, <1>15, <1>16
<1>18. n \in Memory /\ Counted(n)
  BY <1>2, <1>17 DEF Memory, Counted
<1>19. \A x \in Live(m) : x \in Cell
  BY DEF Live
<1>20. Tied(n, H)
  <2>1. Linked(n)
    BY <1>1, <1>3, <1>5, <1>19 DEF Linked
  <2>2. \A h \in H : Loose(n, h)
    BY <1>1, <1>3, <1>5, <1>19 DEF Loose
  <2>3. \A S \in SUBSET Live(m) : Closed(n, S) => Closed(m, S)
    BY <1>3, <1>5, <1>19 DEF Closed
  <2>4. Reached(n, H)
    BY <1>1, <1>5, <2>3 DEF Tied, Reached
  <2> QED BY <1>1, <1>5, <2>1, <2>2, <2>4 DEF Tied
<1>21. ASSUME Named(m), NEW u \in Live(n), Owner(n, u), n.item[u].kind = "object", NEW x \in Chain(n, u)
       PROVE  n.item[x].name # NULL
  <2>1. u \in Live(m) /\ Owner(m, u) /\ m.item[u].kind = "object" /\ u \in Cell
    BY <1>3, <1>5, <1>19, <1>21
  <2>2. Chain(n, u) = Chain(m, u)
    BY <1>3, <2>1 DEF Chain
  <2>3. x # i
    BY <1>1, <1>21, <2>1, <2>2, LooseApart DEF MemberOf
  <2>4. m.item[x].name # NULL /\ x \in Cell
    BY <1>21, <2>1, <2>2 DEF Named, Chain
  <2> QED BY <1>2, <2>3, <2>4
<1>22. named => Named(n)
  BY <1>1, <1>21 DEF Named
<1> QED BY <1>2, <1>5, <1>18, <1>20, <1>22 DEF Sound, n

-----------------------------------------------------------------------------
(* Pointers only *)

(* A function that changes pointers only leaves a sound memory when the    *)
(* tree and the objects' members are right.                                *)
LEMMA SoundSame ==
  ASSUME NEW m, NEW H, NEW named, Sound(m, H, named), NEW n, SameItems(m, n), NEW G, Tied(n, G),
         \A o \in Live(m) : Owner(m, o) /\ m.item[o].kind = "object" /\ named =>
           \A x \in Chain(n, o) : m.item[x].name # NULL
  PROVE  Sound(n, G, named)
<1>1. Live(n) = Live(m) /\ (\A c \in Cell : Owner(n, c) <=> Owner(m, c)) /\ Counted(n)
  BY SameItemsFacts DEF Sound
<1>2. n \in Memory /\ \A c \in Cell : n.item[c].kind = m.item[c].kind /\ n.item[c].name = m.item[c].name
  BY DEF SameItems
<1>3. named => Named(n)
  <2>1. SUFFICES ASSUME named, NEW o \in Live(n), Owner(n, o), n.item[o].kind = "object", NEW x \in Chain(n, o)
                 PROVE  n.item[x].name # NULL
    BY DEF Named
  <2>2. o \in Live(m) /\ o \in Cell
    BY <1>1 DEF Live
  <2>3. x \in Cell
    BY DEF Chain
  <2> QED BY <1>1, <1>2, <2>1, <2>2, <2>3
<1> QED BY <1>1, <1>2, <1>3 DEF Sound

(* Detaching leaves a sound memory with one more root. *)
LEMMA SoundDetach ==
  ASSUME NEW m, NEW H, NEW named, Sound(m, H, named), NEW a, NEW i, MemberOf(m, a, i)
  PROVE  /\ Sound(cJSON_DetachItemViaPointer(m, a, i), H \cup {i}, named)
         /\ SameItems(m, cJSON_DetachItemViaPointer(m, a, i))
         /\ i \in Live(m) /\ i \notin H
<1> DEFINE n == cJSON_DetachItemViaPointer(m, a, i)
<1>1. /\ m \in Memory /\ Linked(m) /\ Tied(m, H) /\ (named => Named(m))
      /\ \A h \in H : Loose(m, h)
  BY DEF Sound, Tied
<1>2. /\ i \in Live(m) /\ a \in Live(m) /\ Owner(m, a) /\ i \in Cell /\ a \in Cell /\ i \in Chain(m, a)
      /\ i \notin H
  BY <1>1, MemberFacts, LooseApart DEF Live, MemberOf
<1>3. /\ SameItems(m, n)
      /\ \A c \in Cell :
           /\ n.item[c].next = IF c = i THEN NULL
                     ELSE IF c = m.item[i].prev THEN m.item[i].next ELSE m.item[c].next
           /\ n.item[c].child = IF c = a /\ m.item[c].child = i /\ c # i
                      THEN m.item[i].next ELSE m.item[c].child
  BY <1>1, <1>2, DetachFields
<1>4. Tied(n, H \cup {i})
  BY <1>1, TiedDetach
<1> HIDE DEF n
<1>5. m.item[i].prev # NULL => m.item[m.item[i].prev].next = i
  BY <1>1, <1>2 DEF Linked
<1>6. ASSUME NEW o \in Live(m), Owner(m, o) PROVE Chain(n, o) \subseteq Chain(m, o)
  <2>1. /\ m.item[o].child # NULL => m.item[o].child \in Chain(m, o)
        /\ \A y \in Chain(m, o) : m.item[y].next # NULL => m.item[y].next \in Chain(m, o)
    BY <1>1, <1>6, LeadsToMember DEF MemberOf
  <2>2. Chain(m, o) \in SUBSET Cell /\ o \in Cell
    BY DEF Chain, Live
  <2>3. n.item[o].child # NULL => n.item[o].child \in Chain(m, o)
    BY <1>2, <1>3, <2>1, <2>2
  <2>4. ASSUME NEW y \in Chain(m, o), n.item[y].next # NULL PROVE n.item[y].next \in Chain(m, o)
    <3>1. y \in Cell /\ y # NULL /\ i # NULL
      BY <1>2, <2>2, NullAssumption
    <3>2. CASE y = m.item[i].prev /\ y # i
      <4>1. i \in Chain(m, o) /\ n.item[y].next = m.item[i].next
        BY <1>3, <1>5, <2>1, <3>1, <3>2
      <4> QED BY <2>1, <2>4, <4>1
    <3>3. CASE ~(y = m.item[i].prev /\ y # i)
      BY <1>3, <2>1, <2>4, <3>1, <3>3
    <3> QED BY <3>2, <3>3
  <2> QED BY <2>2, <2>3, <2>4, ChainWithin
<1>7. \A o \in Live(m) : Owner(m, o) /\ m.item[o].kind = "object" /\ named =>
        \A x \in Chain(n, o) : m.item[x].name # NULL
  BY <1>1, <1>6 DEF Named
<1>8. Sound(n, H \cup {i}, named)
  BY <1>3, <1>4, <1>7, SoundSame
<1> QED BY <1>2, <1>3, <1>8 DEF n

(* So does the insertion of a root, with one less. *)
LEMMA SoundInsert ==
  ASSUME NEW m, NEW H, NEW named, Sound(m, H, named), NEW i \in H,
         NEW a \in Live(m) \ Doomed(m, i), NEW after, MemberOf(m, a, after),
         named /\ m.item[a].kind = "object" => m.item[i].name # NULL
  PROVE  Sound(InsertBefore(m, a, after, i), H \ {i}, named)
<1> DEFINE n == InsertBefore(m, a, after, i)
<1>1. /\ m \in Memory /\ Linked(m) /\ Tied(m, H) /\ (named => Named(m))
      /\ \A h \in H : Loose(m, h)
      /\ i \in Live(m) /\ i \in Cell /\ Loose(m, i)
  BY DEF Sound, Tied, Live
<1>2. /\ after \in Live(m) /\ Owner(m, a) /\ after \in Cell /\ a \in Cell /\ after \in Chain(m, a) /\ a # i
  BY <1>1, MemberFacts, DoomedIs DEF Live, MemberOf
<1>3. /\ SameItems(m, n)
      /\ \A c \in Cell :
           /\ n.item[c].next = IF c = i THEN after
                ELSE IF c = m.item[after].prev /\ after # m.item[a].child THEN i ELSE m.item[c].next
           /\ n.item[c].child = IF c = a /\ m.item[c].child = after /\ c # i THEN i ELSE m.item[c].child
  BY <1>1, <1>2, InsertFields
<1>4. Tied(n, H \ {i})
  BY <1>1, TiedInsert
<1> HIDE DEF n
<1>5. m.item[after].prev # NULL => m.item[after].prev \in Chain(m, a)
  BY <1>1, PrevInChain
<1>6. ASSUME NEW o \in Live(m), Owner(m, o)
      PROVE  Chain(n, o) \subseteq Chain(m, o) \cup (IF o = a THEN {i} ELSE {})
  <2> DEFINE S == Chain(m, o) \cup (IF o = a THEN {i} ELSE {})
  <2>1. /\ m.item[o].child # NULL => m.item[o].child \in Chain(m, o)
        /\ \A y \in Chain(m, o) : MemberOf(m, o, y) /\ (m.item[y].next # NULL => m.item[y].next \in Chain(m, o))
    BY <1>1, <1>6, LeadsToMember DEF MemberOf
  <2>2. S \in SUBSET Cell /\ o \in Cell /\ Chain(m, o) \subseteq Cell
    BY <1>1 DEF Chain, Live
  <2>3. n.item[o].child # NULL => n.item[o].child \in S
    BY <1>1, <1>2, <1>3, <2>1, <2>2
  <2>4. i \notin Chain(m, o)
    BY <1>1, <2>1, LooseApart
  <2>5. ASSUME NEW y \in S, n.item[y].next # NULL PROVE n.item[y].next \in S
    <3>1. CASE y = i
      <4>1. o = a
        BY <2>4, <3>1
      <4> QED BY <1>1, <1>2, <1>3, <3>1, <4>1
    <3>2. CASE y # i
      <4>1. y \in Chain(m, o) /\ y \in Cell /\ y # NULL
        BY <2>2, <3>2, NullAssumption
      <4>2. CASE y = m.item[after].prev
        <5>1. o = a
          BY <1>1, <1>2, <1>5, <2>1, <4>1, <4>2, ChainsApart DEF MemberOf
        <5> QED BY <1>3, <2>1, <2>5, <3>2, <4>1, <5>1
      <4>3. CASE y # m.item[after].prev
        BY <1>3, <2>1, <2>5, <3>2, <4>1, <4>3
      <4> QED BY <4>2, <4>3
    <3> QED BY <3>1, <3>2
  <2> HIDE DEF S
  <2>6. Chain(n, o) \subseteq S
    BY <2>2, <2>3, <2>5, ChainWithin
  <2> QED BY <2>6 DEF S
<1>7. \A o \in Live(m) : Owner(m, o) /\ m.item[o].kind = "object" /\ named =>
        \A x \in Chain(n, o) : m.item[x].name # NULL
  BY <1>1, <1>6 DEF Named
<1>8. Sound(n, H \ {i}, named)
  BY <1>3, <1>4, <1>7, SoundSame
<1> QED BY <1>8 DEF n

(* last is the last member of a's list, or there is none. *)
LastOf(m, a, last) ==
  /\ last = NULL => m.item[a].child = NULL
  /\ last # NULL => MemberOf(m, a, last) /\ m.item[last].next = NULL

(* What the linking of a new last item writes. *)
LEMMA LinkingFields ==
  ASSUME NEW m \in Memory, NEW a \in Cell, NEW last \in Pointer, NEW i \in Cell
  PROVE  /\ SameItems(m, Linking(m, a, last, i))
         /\ \A c \in Cell :
              /\ Linking(m, a, last, i).item[c].next = IF c = last THEN i ELSE m.item[c].next
              /\ Linking(m, a, last, i).item[c].child =
                   IF c = a /\ last = NULL THEN i ELSE m.item[c].child
<1>1. CASE last = NULL
  <2> DEFINE n == [m EXCEPT !.item[a].child = i]
  <2>1. /\ SameItems(m, n)
        /\ \A c \in Cell : /\ n.item[c].next = m.item[c].next
                           /\ n.item[c].child = IF c = a THEN i ELSE m.item[c].child
    BY FirstFields
  <2>2. Linking(m, a, last, i) = n
    BY <1>1 DEF Linking
  <2> HIDE DEF n
  <2> QED BY <1>1, <2>1, <2>2, NullAssumption
<1>2. CASE last # NULL
  <2> DEFINE n == suffix_object(m, last, i)
  <2>1. last \in Cell
    BY <1>2 DEF Pointer
  <2>2. /\ SameItems(m, n)
        /\ \A c \in Cell : /\ n.item[c].next = IF c = last THEN i ELSE m.item[c].next
                           /\ n.item[c].child = m.item[c].child
    BY <2>1, SuffixFields
  <2>3. Linking(m, a, last, i) = n
    BY <1>2 DEF Linking
  <2> HIDE DEF n
  <2> QED BY <1>2, <2>2, <2>3
<1> QED BY <1>1, <1>2

(* A root becomes the last of a list. *)
LEMMA SoundLinking ==
  ASSUME NEW m, NEW H, NEW named, Sound(m, H, named), NEW i \in H,
         NEW a \in Live(m) \ Doomed(m, i), Owner(m, a), NEW last \in Pointer, LastOf(m, a, last),
         named /\ m.item[a].kind = "object" => m.item[i].name # NULL
  PROVE  Sound(Linking(m, a, last, i), H \ {i}, named)
<1> DEFINE n == Linking(m, a, last, i)
<1>1. /\ m \in Memory /\ Linked(m) /\ Tied(m, H) /\ (named => Named(m))
      /\ i \in Live(m) /\ i \in Cell /\ Loose(m, i) /\ a \in Cell
  BY DEF Sound, Tied, Live
<1>2. /\ SameItems(m, n)
      /\ \A c \in Cell :
           /\ n.item[c].next = IF c = last THEN i ELSE m.item[c].next
           /\ n.item[c].child = IF c = a /\ last = NULL THEN i ELSE m.item[c].child
  BY <1>1, LinkingFields
<1>3. Tied(n, H \ {i})
  <2>1. CASE last = NULL
    BY <1>1, <2>1, TiedFirst DEF LastOf, Linking
  <2>2. CASE last # NULL
    BY <1>1, <2>2, TiedSuffix DEF LastOf, Linking
  <2> QED BY <2>1, <2>2
<1> HIDE DEF n
<1>4. ASSUME NEW o \in Live(m), Owner(m, o)
      PROVE  Chain(n, o) \subseteq Chain(m, o) \cup (IF o = a THEN {i} ELSE {})
  <2> DEFINE S == Chain(m, o) \cup (IF o = a THEN {i} ELSE {})
  <2>1. /\ m.item[o].child # NULL => m.item[o].child \in Chain(m, o)
        /\ \A y \in Chain(m, o) : MemberOf(m, o, y) /\ (m.item[y].next # NULL => m.item[y].next \in Chain(m, o))
    BY <1>1, <1>4, LeadsToMember DEF MemberOf
  <2>2. S \in SUBSET Cell /\ o \in Cell /\ Chain(m, o) \subseteq Cell
    BY <1>1 DEF Chain, Live
  <2>3. n.item[o].child # NULL => n.item[o].child \in S
    BY <1>1, <1>2, <2>1, <2>2
  <2>4. i \notin Chain(m, o)
    BY <1>1, <2>1, LooseApart
  <2>5. i # last
    <3>1. last # NULL => MemberOf(m, a, last)
      BY DEF LastOf
    <3> QED BY <1>1, <3>1, LooseApart, NullAssumption
  <2>6. ASSUME NEW y \in S, n.item[y].next # NULL PROVE n.item[y].next \in S
    <3>1. CASE y = i
      BY <1>1, <1>2, <2>5, <2>6, <3>1 DEF Loose
    <3>2. CASE y # i
      <4>1. y \in Chain(m, o) /\ y \in Cell /\ y # NULL
        BY <2>2, <3>2, NullAssumption
      <4>2. CASE y = last
        <5>1. o = a
          BY <1>1, <2>1, <4>1, <4>2, ChainsApart DEF LastOf
        <5> QED BY <1>2, <4>1, <4>2, <5>1
      <4>3. CASE y # last
        BY <1>2, <2>1, <2>6, <4>1, <4>3
      <4> QED BY <4>2, <4>3
    <3> QED BY <3>1, <3>2
  <2> HIDE DEF S
  <2>7. Chain(n, o) \subseteq S
    BY <2>2, <2>3, <2>6, ChainWithin
  <2> QED BY <2>7 DEF S
<1>5. \A o \in Live(m) : Owner(m, o) /\ m.item[o].kind = "object" /\ named =>
        \A x \in Chain(n, o) : m.item[x].name # NULL
  BY <1>1, <1>4 DEF Named
<1>6. Sound(n, H \ {i}, named)
  BY <1>2, <1>3, <1>5, SoundSame
<1> QED BY <1>6 DEF n

(* The lists of the others are what they were, and i is the last of a's.   *)
LEMMA LinkingLists ==
  ASSUME NEW m \in Memory, Linked(m), NEW i, Loose(m, i), NEW a \in Live(m), Owner(m, a),
         NEW last \in Pointer, LastOf(m, a, last), i # a
  PROVE  /\ LastOf(Linking(m, a, last, i), a, i)
         /\ \A b \in Live(m), x \in Pointer :
              b # a /\ Owner(m, b) /\ LastOf(m, b, x) => LastOf(Linking(m, a, last, i), b, x)
<1> DEFINE n == Linking(m, a, last, i)
<1>1. i \in Live(m) /\ i \in Cell /\ a \in Cell /\ i # NULL /\ m.item[i].next = NULL
  BY NullAssumption DEF Loose, Live
<1>2. /\ SameItems(m, n)
      /\ \A c \in Cell :
           /\ n.item[c].next = IF c = last THEN i ELSE m.item[c].next
           /\ n.item[c].child = IF c = a /\ last = NULL THEN i ELSE m.item[c].child
  BY <1>1, LinkingFields
<1>3. Live(n) = Live(m) /\ \A c \in Cell : Owner(n, c) <=> Owner(m, c)
  BY <1>2, SameItemsFacts
<1> HIDE DEF n
<1>4. /\ last # NULL => MemberOf(m, a, last) /\ m.item[last].next = NULL
      /\ last = NULL => m.item[a].child = NULL
  BY DEF LastOf
<1>5. i # last
  BY <1>1, <1>4, LooseApart
<1>6. ASSUME NEW b \in Live(m), Owner(m, b) PROVE Chain(m, b) \subseteq Chain(n, b)
  <2>1. SUFFICES ASSUME NEW S \in SUBSET Cell, n.item[b].child # NULL => n.item[b].child \in S,
                        \A y \in S : n.item[y].next # NULL => n.item[y].next \in S
                 PROVE  Chain(m, b) \subseteq S
    BY DEF Chain
  <2>2. b \in Cell
    BY DEF Live
  <2>3. m.item[b].child # NULL => m.item[b].child \in S
    BY <1>2, <1>4, <2>1, <2>2
  <2>4. ASSUME NEW y \in S, m.item[y].next # NULL PROVE m.item[y].next \in S
    <3>1. y # last /\ y \in Cell
      BY <1>4, <2>4, NullAssumption
    <3>2. n.item[y].next = m.item[y].next
      BY <1>2, <3>1
    <3> QED BY <2>1, <2>4, <3>2
  <2> QED BY <2>3, <2>4, ChainWithin
<1>7. i \in Chain(n, a)
  <2>1. SUFFICES ASSUME NEW S \in SUBSET Cell, n.item[a].child # NULL => n.item[a].child \in S,
                        \A y \in S : n.item[y].next # NULL => n.item[y].next \in S
                 PROVE  i \in S
    BY <1>1 DEF Chain
  <2>2. CASE last = NULL
    BY <1>1, <1>2, <2>1, <2>2
  <2>3. CASE last # NULL
    <3>1. last \in Chain(n, a) /\ last \in Cell
      BY <1>4, <1>6, <2>3 DEF MemberOf, Pointer
    <3>2. last \in S
      BY <2>1, <3>1 DEF Chain
    <3>3. n.item[last].next = i
      BY <1>2, <3>1
    <3> QED BY <1>1, <2>1, <3>2, <3>3
  <2> QED BY <2>2, <2>3
<1>8. LastOf(n, a, i)
  BY <1>1, <1>2, <1>3, <1>5, <1>7 DEF LastOf, MemberOf
<1>9. ASSUME NEW b \in Live(m), NEW x \in Pointer, b # a, Owner(m, b), LastOf(m, b, x)
      PROVE  LastOf(n, b, x)
  <2>1. b \in Cell
    BY DEF Live
  <2>2. CASE x = NULL
    BY <1>2, <1>9, <2>1, <2>2 DEF LastOf
  <2>3. CASE x # NULL
    <3>1. MemberOf(m, b, x) /\ m.item[x].next = NULL /\ x \in Cell
      BY <1>9, <2>3 DEF LastOf, Pointer
    <3>2. x # last
      BY <1>4, <1>9, <2>3, <3>1, ChainsApart
    <3>3. MemberOf(n, b, x)
      BY <1>3, <1>6, <1>9, <2>1, <3>1 DEF MemberOf
    <3> QED BY <1>2, <2>3, <3>1, <3>2, <3>3 DEF LastOf
  <2> QED BY <2>2, <2>3
<1> QED BY <1>8, <1>9 DEF n

(* add_item_to_array, which looks for the last one itself. *)
LEMMA SoundAppend ==
  ASSUME NEW m, NEW H, NEW named, Sound(m, H, named), NEW i \in H,
         NEW a \in Live(m) \ Doomed(m, i), Owner(m, a),
         named /\ m.item[a].kind = "object" => m.item[i].name # NULL
  PROVE  Sound(add_item_to_array(m, a, i), H \ {i}, named)
<1>1. m \in Memory /\ Linked(m)
  BY DEF Sound, Tied
<1> DEFINE last == IF m.item[a].child = NULL THEN NULL ELSE LastItem(m, a)
<1>2. m.item[a].child # NULL => /\ LastItem(m, a) \in Live(m) /\ LastItem(m, a) \in Chain(m, a)
                                /\ m.item[LastItem(m, a)].next = NULL
  BY <1>1, ListEnds
<1>3. \A x \in Live(m) : x \in Cell /\ x # NULL
  BY NullAssumption DEF Live
<1>4. LastOf(m, a, last) /\ last \in Pointer
  BY <1>2, <1>3 DEF LastOf, MemberOf, Pointer
<1>5. add_item_to_array(m, a, i) = Linking(m, a, last, i)
  BY <1>2, <1>3 DEF add_item_to_array, Linking
<1> HIDE DEF last
<1> QED BY <1>4, <1>5, SoundLinking

(* A root takes the place of a member, which is deleted. *)
LEMMA SoundReplace ==
  ASSUME NEW m, NEW H, NEW named, Sound(m, H, named), NEW i \in H,
         NEW a \in Live(m) \ Doomed(m, i), NEW old, MemberOf(m, a, old),
         named /\ m.item[a].kind = "object" => m.item[i].name # NULL
  PROVE  Sound(cJSON_ReplaceItemViaPointer(m, a, old, i), H \ {i}, named)
<1> DEFINE k == InsertBefore(m, a, old, i)
           n == cJSON_DetachItemViaPointer(k, a, old)
<1>1. /\ m \in Memory /\ Linked(m) /\ Tied(m, H) /\ Loose(m, i) /\ i \in Live(m)
      /\ old \in Live(m) /\ Owner(m, a) /\ old \in Chain(m, a) /\ old # NULL /\ i \in Cell
  BY NullAssumption, MemberFacts DEF Sound, Tied, Live, MemberOf
<1>2. a # old /\ a # i /\ old # i
  BY <1>1, NotItsOwn, DoomedIs, LooseApart
<1>3. Sound(k, H \ {i}, named)
  BY SoundInsert
<1>4. SameItems(m, k) /\ \A c \in Cell :
           /\ k.item[c].next = IF c = i THEN old
                ELSE IF c = m.item[old].prev /\ old # m.item[a].child THEN i ELSE m.item[c].next
           /\ k.item[c].child = IF c = a /\ m.item[c].child = old /\ c # i THEN i ELSE m.item[c].child
  BY <1>1, InsertFields DEF Live
<1>5. Live(k) = Live(m) /\ \A c \in Cell : Owner(k, c) <=> Owner(m, c)
  BY <1>4, SameItemsFacts
<1> HIDE DEF k
<1>6. MemberOf(k, a, old)
  <2>1. /\ (m.item[old].prev = NULL) <=> (m.item[a].child = old)
    BY <1>1, PrevInChain
  <2>2. SUFFICES ASSUME NEW S \in SUBSET Cell, k.item[a].child # NULL => k.item[a].child \in S,
                        \A y \in S : k.item[y].next # NULL => k.item[y].next \in S
                 PROVE  old \in S
    BY <1>1, <1>5 DEF MemberOf, Chain, Live
  <2>3. i \in S => old \in S
    BY <1>1, <1>4, <2>2
  <2>4. SUFFICES ASSUME i \notin S PROVE old \in S
    BY <2>3
  <2>5. a \in Cell /\ i # NULL
    BY <1>1, NullAssumption DEF Live
  <2>6. m.item[a].child # NULL => m.item[a].child \in S
    BY <1>4, <2>2, <2>4, <2>5
  <2>7. ASSUME NEW y \in S, m.item[y].next # NULL PROVE m.item[y].next \in S
    BY <1>4, <2>2, <2>4, <2>5, <2>7
  <2>8. Chain(m, a) \subseteq S
    BY <2>6, <2>7, ChainWithin
  <2> QED BY <1>1, <2>8
<1>7. Sound(n, (H \ {i}) \cup {old}, named) /\ old \notin H \ {i}
  BY <1>3, <1>6, SoundDetach
<1>8. n = Replaced(m, a, old, i)
  BY <1>1, <1>2, ReplacedIs DEF k
<1> HIDE DEF n
<1>9. Sound(cJSON_Delete(n, old), ((H \ {i}) \cup {old}) \ {old}, named)
  BY <1>7, SoundDelete
<1>10. ((H \ {i}) \cup {old}) \ {old} = H \ {i}
  BY <1>7
<1> QED BY <1>1, <1>8, <1>9, <1>10 DEF cJSON_ReplaceItemViaPointer

-----------------------------------------------------------------------------
(* The walk along a list *)

NextOf(m, p) == IF p = NULL THEN NULL ELSE m.item[p].next

Walk(m, a) ==
  CHOOSE v : v = [k \in Nat |-> IF k = 0 THEN m.item[a].child ELSE NextOf(m, v[k - 1])]

(* The walk is along the list until it is NULL. *)
LEMMA WalkIs ==
  ASSUME NEW m \in Memory, Linked(m), NEW a \in Live(m), Owner(m, a)
  PROVE  /\ Walk(m, a)[0] = m.item[a].child
         /\ \A k \in Nat : /\ Walk(m, a)[k] \in Chain(m, a) \cup {NULL}
                           /\ Walk(m, a)[k + 1] = NextOf(m, Walk(m, a)[k])
<1> DEFINE A == Chain(m, a) \cup {NULL}
           head == m.item[a].child
           step == [p \in A |-> NextOf(m, p)]
           Solves(v) == v = [k \in Nat |-> IF k = 0 THEN head ELSE NextOf(m, v[k - 1])]
           W == Walk(m, a)
<1>1. head \in A /\ \A p \in A : NextOf(m, p) \in A
  BY LeadsToMember DEF MemberOf, NextOf
<1>2. \A p \in A : step[p] = NextOf(m, p) /\ step[p] \in A
  BY <1>1
<1> HIDE DEF A, head, step
<1>3. PICK f \in [Nat -> A] : Runs(f, head, step)
  <2>1. head \in A
    BY <1>1
  <2>2. StaysIn(A, step)
    BY <1>2 DEF StaysIn
  <2> QED BY <2>1, <2>2, NatIteration
<1>4. Solves(f)
  <2>1. ASSUME NEW k \in Nat PROVE f[k] = IF k = 0 THEN head ELSE NextOf(m, f[k - 1])
    <3>1. CASE k = 0
      BY <1>3, <3>1 DEF Runs
    <3>2. CASE k # 0
      <4>1. k - 1 \in Nat /\ (k - 1) + 1 = k
        BY <3>2
      <4>2. f[(k - 1) + 1] = step[f[k - 1]] /\ f[k - 1] \in A
        BY <1>3, <4>1 DEF Runs
      <4> QED BY <1>2, <3>2, <4>1, <4>2
    <3> QED BY <3>1, <3>2
  <2>2. f = [k \in Nat |-> f[k]]
    OBVIOUS
  <2> QED BY <2>1, <2>2
<1>5. W = CHOOSE v : Solves(v)
  BY DEF Walk, head
<1>6. Solves(W)
  <2> HIDE DEF Solves, W
  <2> QED BY <1>4, <1>5
<1> HIDE DEF W
<1>7. \A k \in Nat : W[k] = IF k = 0 THEN head ELSE NextOf(m, W[k - 1])
  BY <1>6
<1>8. W[0] = head /\ \A k \in Nat : W[k + 1] = NextOf(m, W[k])
  <2>1. \A k \in Nat : k + 1 \in Nat /\ k + 1 # 0 /\ (k + 1) - 1 = k
    OBVIOUS
  <2>2. 0 \in Nat
    OBVIOUS
  <2> QED BY <1>7, <2>1, <2>2
<1>9. \A k \in Nat : W[k] \in A => W[k + 1] = step[W[k]]
  BY <1>2, <1>8
<1>10. \A k \in Nat : W[k] \in A
  <2>1. head \in A /\ StaysIn(A, step)
    BY <1>1, <1>2 DEF StaysIn
  <2> QED BY <1>8, <1>9, <2>1, NatIterates
<1> QED BY <1>8, <1>10 DEF W, head, A

(* It ends, meets every member once, and nothing after the end. *)
LEMMA WalkFacts ==
  ASSUME NEW m \in Memory, Linked(m), NEW a \in Live(m), Owner(m, a)
  PROVE  LET W == Walk(m, a)
         IN  /\ \A j, k \in Nat : j < k /\ W[j] # NULL => W[j] # W[k]
             /\ \A x \in Chain(m, a) : \E k \in Nat : W[k] = x
             /\ \E n \in 0 .. Cardinality(Cell) : \A k \in Nat : W[k] # NULL <=> k < n
<1> DEFINE W == Walk(m, a)
           head == m.item[a].child
<1>1. /\ W[0] = head
      /\ \A k \in Nat : W[k] \in Chain(m, a) \cup {NULL} /\ W[k + 1] = NextOf(m, W[k])
  BY WalkIs
<1> HIDE DEF W
<1>2. /\ \A x \in Chain(m, a) : x \in Live(m) /\ x \in Cell /\ x # NULL
      /\ head # NULL => m.item[head].prev = NULL
  <2>1. Chain(m, a) \subseteq Live(m)
    BY ChainFacts, NoChain
  <2>2. head # NULL => m.item[head].prev = NULL
    BY DEF Linked
  <2> QED BY <2>1, <2>2, NullAssumption DEF Live
<1>3. \A k \in Nat : W[k + 1] # NULL => W[k] # NULL /\ m.item[W[k + 1]].prev = W[k]
  BY <1>1, <1>2 DEF NextOf, Linked
<1>4. ASSUME NEW j \in Nat, NEW k \in Nat, j < k, W[j] # NULL PROVE W[j] # W[k]
  <2> DEFINE S == {i \in Nat : \A l \in Nat : i < l /\ W[i] # NULL => W[i] # W[l]}
  <2>1. 0 \in S
    <3>1. SUFFICES ASSUME NEW l \in Nat, 0 < l, W[0] # NULL, W[0] = W[l] PROVE FALSE
      OBVIOUS
    <3>2. l - 1 \in Nat /\ (l - 1) + 1 = l
      BY <3>1
    <3>3. W[l - 1] # NULL /\ m.item[W[l]].prev = W[l - 1]
      BY <1>3, <3>1, <3>2
    <3> QED BY <1>1, <1>2, <3>1, <3>3
  <2>2. ASSUME NEW i \in Nat, i \in S PROVE i + 1 \in S
    <3>1. SUFFICES ASSUME NEW l \in Nat, i + 1 < l, W[i + 1] # NULL, W[i + 1] = W[l] PROVE FALSE
      OBVIOUS
    <3>2. l - 1 \in Nat /\ (l - 1) + 1 = l /\ i < l - 1
      BY <3>1
    <3>3. W[l - 1] # NULL /\ m.item[W[l]].prev = W[l - 1]
      BY <1>3, <3>1, <3>2
    <3>4. W[i] # NULL /\ m.item[W[i + 1]].prev = W[i]
      BY <1>3, <3>1
    <3>5. W[i] = W[l - 1]
      BY <3>1, <3>3, <3>4
    <3> QED BY <2>2, <3>2, <3>4, <3>5
  <2>3. Nat \subseteq S
    <3> HIDE DEF S
    <3> QED BY <2>1, <2>2, NatSet
  <2> QED BY <1>4, <2>3
<1>5. \A x \in Chain(m, a) : \E k \in Nat : W[k] = x
  <2> DEFINE S == {x \in Cell : \E k \in Nat : W[k] = x}
  <2>1. S \in SUBSET Cell
    OBVIOUS
  <2>2. head # NULL => head \in S
    <3>1. 0 \in Nat
      OBVIOUS
    <3> QED BY <1>1, <1>2, <3>1
  <2>3. ASSUME NEW y \in S, m.item[y].next # NULL PROVE m.item[y].next \in S
    <3>1. PICK k \in Nat : W[k] = y
      BY <2>3
    <3>2. y # NULL
      BY NullAssumption
    <3>3. W[k + 1] = m.item[y].next /\ k + 1 \in Nat
      BY <1>1, <3>1, <3>2 DEF NextOf
    <3>4. m.item[y].next \in Cell
      BY <1>1, <1>2, <2>3, <3>3
    <3> QED BY <3>3, <3>4
  <2>4. Chain(m, a) \subseteq S
    <3> HIDE DEF S
    <3> QED BY <2>1, <2>2, <2>3, ChainWithin
  <2> QED BY <2>4
<1> DEFINE N == Cardinality(Cell)
<1>6. N \in Nat
  BY CellAssumption, FS_CardinalityType
<1>7. \E k \in 0 .. N : W[k] = NULL
  <2>1. SUFFICES ASSUME \A k \in 0 .. N : W[k] # NULL PROVE FALSE
    OBVIOUS
  <2> DEFINE g == [k \in 0 .. N |-> W[k]]
  <2>2. g \in [0 .. N -> Cell]
    BY <1>1, <1>2, <2>1
  <2>3. \A j, k \in 0 .. N : g[j] = g[k] => j = k
    <3>1. SUFFICES ASSUME NEW j \in 0 .. N, NEW k \in 0 .. N, W[j] = W[k], j # k PROVE FALSE
      OBVIOUS
    <3>2. j < k \/ k < j
      BY <1>6, <3>1
    <3> QED BY <1>4, <2>1, <3>1, <3>2
  <2> HIDE DEF g
  <2>4. g \in Injection(0 .. N, Cell)
    BY <2>2, <2>3 DEF Injection, IsInjective
  <2>5. IsFiniteSet(0 .. N) /\ Cardinality(0 .. N) = N + 1
    BY <1>6, FS_Interval
  <2>6. Cardinality(0 .. N) <= Cardinality(Cell)
    BY <2>4, <2>5, CellAssumption, FS_Injection
  <2> QED BY <1>6, <2>5, <2>6
<1> HIDE DEF N
<1>8. PICK n \in {k \in Nat : W[k] = NULL} : \A k \in {i \in Nat : W[i] = NULL} : n <= k
  <2>1. {k \in Nat : W[k] = NULL} \in SUBSET Nat /\ {k \in Nat : W[k] = NULL} # {}
    BY <1>6, <1>7
  <2> QED BY <2>1, LeastNatural
<1>9. n \in 0 .. N
  BY <1>6, <1>7, <1>8
<1>10. ASSUME NEW k \in Nat PROVE W[k] # NULL <=> k < n
  <2>1. k < n => W[k] # NULL
    BY <1>8
  <2>2. ASSUME k >= n PROVE W[k] = NULL
    <3> DEFINE S == {i \in n .. k : W[i] = NULL}
    <3>1. n \in S
      BY <1>8, <2>2
    <3>2. \A i \in n .. (k - 1) : i \in S => i + 1 \in S
      BY <1>3, <1>8
    <3>3. n .. k \subseteq S
      <4>1. n \in Int /\ k \in Int
        BY <1>8
      <4> HIDE DEF S
      <4> QED BY <3>1, <3>2, <4>1, IntervalSet
    <3>4. k \in n .. k
      BY <1>8, <2>2
    <3> QED BY <3>3, <3>4
  <2> QED BY <1>8, <2>1, <2>2
<1> QED BY <1>4, <1>5, <1>9, <1>10 DEF W, N

(* The sequence of the children has the members of the list, each once. *)
LEMMA ChildrenAre ==
  ASSUME NEW m \in Memory, Linked(m), NEW a \in Live(m), Owner(m, a)
  PROVE  /\ Len(Children(m, a)) \in 0 .. Cardinality(Cell)
         /\ DOMAIN Children(m, a) = 1 .. Len(Children(m, a))
         /\ In(Children(m, a)) = Chain(m, a)
         /\ \A j, k \in 1 .. Len(Children(m, a)) : Children(m, a)[j] = Children(m, a)[k] => j = k
<1> DEFINE W == Walk(m, a)
           N == Cardinality(Cell)
           n == Cardinality({k \in 0 .. (N - 1) : W[k] # NULL})
           c == [k \in 1 .. n |-> W[k - 1]]
<1>1. Children(m, a) = c
  BY DEF Children, Walk, NextOf
<1>2. /\ \A j, k \in Nat : j < k /\ W[j] # NULL => W[j] # W[k]
      /\ \A x \in Chain(m, a) : \E k \in Nat : W[k] = x
      /\ \E i \in 0 .. N : \A k \in Nat : W[k] # NULL <=> k < i
      /\ \A k \in Nat : W[k] \in Chain(m, a) \cup {NULL}
  BY WalkFacts, WalkIs
<1>3. N \in Nat /\ NULL \notin Chain(m, a)
  BY CellAssumption, NullAssumption, FS_CardinalityType DEF Chain
<1> HIDE DEF W, N
<1>4. PICK i \in 0 .. N : \A k \in Nat : W[k] # NULL <=> k < i
  BY <1>2
<1>5. n = i
  <2>1. {k \in 0 .. (N - 1) : W[k] # NULL} = 0 .. (i - 1)
    BY <1>3, <1>4
  <2>2. Cardinality(0 .. (i - 1)) = i
    <3>1. 0 \in Int /\ i - 1 \in Int /\ i \in Nat /\ (i - 1) - 0 + 1 = i
      BY <1>3
    <3>2. Cardinality(0 .. (i - 1)) = IF 0 > i - 1 THEN 0 ELSE (i - 1) - 0 + 1
      BY <3>1, FS_Interval
    <3> QED BY <3>1, <3>2
  <2> QED BY <2>1, <2>2
<1> HIDE DEF n
<1>6. n \in Nat /\ Len(c) = n /\ DOMAIN c = 1 .. n
  BY <1>3, <1>5
<1>7. \A k \in 1 .. n : c[k] = W[k - 1] /\ k - 1 \in Nat /\ k - 1 < n /\ W[k - 1] # NULL
  BY <1>4, <1>5, <1>6
<1>8. \A j, k \in 1 .. n : c[j] = c[k] => j = k
  <2>1. SUFFICES ASSUME NEW j \in 1 .. n, NEW k \in 1 .. n, c[j] = c[k], j # k PROVE FALSE
    OBVIOUS
  <2>2. j - 1 < k - 1 \/ k - 1 < j - 1
    BY <1>6, <2>1
  <2> HIDE DEF c
  <2> QED BY <1>2, <1>7, <2>1, <2>2
<1>9. In(c) = Chain(m, a)
  <2>1. ASSUME NEW k \in 1 .. n PROVE c[k] \in Chain(m, a)
    BY <1>2, <1>7
  <2>2. ASSUME NEW x \in Chain(m, a) PROVE \E k \in 1 .. n : c[k] = x
    <3>1. PICK k \in Nat : W[k] = x
      BY <1>2
    <3>2. k < n /\ k + 1 \in 1 .. n /\ (k + 1) - 1 = k
      BY <1>3, <1>4, <1>5, <1>6, <3>1
    <3>3. c[k + 1] = x
      BY <3>1, <3>2
    <3> QED BY <3>2, <3>3
  <2> HIDE DEF c
  <2> QED BY <1>6, <2>1, <2>2 DEF In
<1> HIDE DEF c
<1>10. Len(Children(m, a)) = n /\ n \in 0 .. N
  BY <1>1, <1>5, <1>6
<1> QED BY <1>1, <1>6, <1>8, <1>9, <1>10 DEF N

-----------------------------------------------------------------------------
(* What the properties say of a sound memory *)

(* An item that leads nowhere is deleted alone. *)
LEMMA DoomedAlone ==
  ASSUME NEW m \in Memory, Linked(m), NEW i \in Live(m), m.item[i].next = NULL,
         ~Owner(m, i) \/ m.item[i].child = NULL
  PROVE  Doomed(m, i) = {i}
<1>1. {i} \in SUBSET Live(m) /\ Closed(m, {i})
  BY DEF Closed
<1> QED BY <1>1, DoomedIs

(* What is deleted depends on the pointers and the reference flags. *)
LEMMA SameDoomed ==
  ASSUME NEW m, NEW n, \A c \in Cell : /\ n.item[c].next = m.item[c].next
                                       /\ n.item[c].child = m.item[c].child
                                       /\ n.item[c].ref = m.item[c].ref
  PROVE  \A x : Doomed(n, x) = Doomed(m, x)
<1>1. \A c \in Cell : Follows(n, c) = Follows(m, c)
  BY DEF Follows
<1>2. \A S \in SUBSET Cell : (\A y \in S : Follows(n, y) \subseteq S) <=> (\A y \in S : Follows(m, y) \subseteq S)
  BY <1>1
<1> QED BY <1>2 DEF Doomed

(* Where an item is: in one list and at one place of it, or nowhere. *)
PlacesOf(m, c) ==
  {at \in Live(m) \X (1 .. Cardinality(Cell)) :
     /\ Owner(m, at[1]) /\ at[2] <= Len(Children(m, at[1]))
     /\ Children(m, at[1])[at[2]] = c}

(* A root is at no place, every other item at one. *)
LEMMA SoundPlaces ==
  ASSUME NEW m \in Memory, NEW H, Tied(m, H), NEW c \in Live(m)
  PROVE  Cardinality(PlacesOf(m, c)) = IF c \in H THEN 0 ELSE 1
<1>1. Linked(m) /\ \A h \in H : Loose(m, h)
  BY DEF Tied
<1> DEFINE N == Cardinality(Cell)
<1>2. N \in Nat
  BY CellAssumption, FS_CardinalityType
<1>3. ASSUME NEW at \in PlacesOf(m, c)
      PROVE  /\ at = <<at[1], at[2]>> /\ at[1] \in Live(m) /\ at[2] \in 1 .. N /\ Owner(m, at[1])
             /\ at[2] \in 1 .. Len(Children(m, at[1])) /\ Children(m, at[1])[at[2]] = c
             /\ MemberOf(m, at[1], c)
  <2>1. /\ at = <<at[1], at[2]>> /\ at[1] \in Live(m) /\ at[2] \in 1 .. N /\ Owner(m, at[1])
        /\ at[2] <= Len(Children(m, at[1])) /\ Children(m, at[1])[at[2]] = c
    BY DEF PlacesOf
  <2>2. /\ Len(Children(m, at[1])) \in 0 .. N /\ In(Children(m, at[1])) = Chain(m, at[1])
        /\ DOMAIN Children(m, at[1]) = 1 .. Len(Children(m, at[1]))
    BY <1>1, <2>1, ChildrenAre
  <2>3. at[2] \in 1 .. Len(Children(m, at[1]))
    BY <1>2, <2>1, <2>2
  <2>4. c \in Chain(m, at[1])
    BY <2>1, <2>2, <2>3 DEF In
  <2> QED BY <2>1, <2>3, <2>4 DEF MemberOf
<1>4. CASE c \in H
  <2>1. PlacesOf(m, c) = {}
    BY <1>1, <1>3, <1>4, LooseApart
  <2> QED BY <1>4, <2>1, FS_EmptySet
<1>5. CASE c \notin H
  <2>1. PICK a \in Live(m) : MemberOf(m, a, c)
    BY <1>5, Somewhere
  <2>2. Owner(m, a) /\ c \in Chain(m, a)
    BY <2>1 DEF MemberOf
  <2>3. /\ Len(Children(m, a)) \in 0 .. N /\ In(Children(m, a)) = Chain(m, a)
        /\ DOMAIN Children(m, a) = 1 .. Len(Children(m, a))
        /\ \A j, k \in 1 .. Len(Children(m, a)) : Children(m, a)[j] = Children(m, a)[k] => j = k
    BY <1>1, <2>2, ChildrenAre
  <2>4. PICK k \in 1 .. Len(Children(m, a)) : Children(m, a)[k] = c
    BY <2>2, <2>3 DEF In
  <2>5. k \in 1 .. N
    BY <1>2, <2>3
  <2>6. <<a, k>> \in PlacesOf(m, c)
    BY <2>2, <2>3, <2>4, <2>5 DEF PlacesOf
  <2>7. ASSUME NEW at \in PlacesOf(m, c) PROVE at = <<a, k>>
    <3>1. at[1] = a
      BY <1>1, <1>3, <2>1, ChainsApart
    <3>2. at[2] = k
      BY <1>3, <2>3, <2>4, <3>1
    <3> QED BY <1>3, <3>1, <3>2
  <2>8. PlacesOf(m, c) = {<<a, k>>}
    BY <2>6, <2>7
  <2> QED BY <1>5, <2>8, FS_Singleton
<1> QED BY <1>4, <1>5

(* Everything hangs from the client's own items. *)
LEMMA SoundHangs ==
  ASSUME NEW m \in Memory, NEW H, Tied(m, H)
  PROVE  Live(m) = UNION {Doomed(m, r) : r \in H}
<1> DEFINE T == UNION {Doomed(m, r) : r \in H}
<1>1. Linked(m) /\ H \subseteq Live(m)
  BY DEF Tied
<1>2. \A r \in H : r \in Doomed(m, r) /\ Doomed(m, r) \subseteq Live(m) /\ Closed(m, Doomed(m, r))
  BY <1>1, DoomedIs
<1>3. T \in SUBSET Live(m) /\ H \subseteq T
  BY <1>2
<1>4. Closed(m, T)
  BY <1>2 DEF Closed
<1>5. Live(m) \subseteq T
  <2> HIDE DEF T
  <2> QED BY <1>3, <1>4 DEF Tied, Reached
<1> QED BY <1>3, <1>5

-----------------------------------------------------------------------------
(* The invariant *)

(* Between two calls everything hangs from the client's items and from     *)
(* those a call that failed was given; strcmp met no NULL unless a         *)
(* replacement lost its name.                                              *)
TreeInv ==
  /\ Sound(mem, roots \cup lost, ~unnamed)
  /\ roots \cap lost = {}
  /\ unnamed \in BOOLEAN /\ crashed \in BOOLEAN
  /\ crashed => unnamed

(* A sound memory is a memory. *)
LEMMA InvImpliesTypeOK == TreeInv => TypeOK
<1>1. SUFFICES ASSUME TreeInv PROVE TypeOK
  OBVIOUS
<1>2. mem \in Memory /\ roots \cup lost \subseteq Live(mem)
  BY <1>1 DEF TreeInv, Sound, Tied
<1> QED BY <1>1, <1>2 DEF TypeOK, TreeInv, Live

(* The places are counted in the sequences of the children. *)
LEMMA InvImpliesTreesSound == TreeInv => TreesSound
<1>1. SUFFICES ASSUME TreeInv PROVE TreesSound
  OBVIOUS
<1>2. mem \in Memory /\ Tied(mem, roots \cup lost) /\ Linked(mem) /\ roots \cap lost = {}
  BY <1>1 DEF TreeInv, Sound, Tied
<1>3. \A c \in Live(mem) :
        Cardinality(PlacesOf(mem, c)) + (IF c \in roots \cup lost THEN 1 ELSE 0) = 1
  BY <1>2, SoundPlaces
<1>4. Live(mem) = UNION {Tree(r) : r \in roots \cup lost}
  BY <1>2, SoundHangs DEF Tree
<1> QED BY <1>2, <1>3, <1>4 DEF TreesSound, PlacesOf

(* A sound memory counts its strings. *)
LEMMA InvImpliesStringsOwned == TreeInv => StringsOwned
  BY DEF TreeInv, Sound, Counted, OwnedNames, OwnedTexts, StringsOwned

(* The children of an object are its list's members. *)
LEMMA InvImpliesNamesKept == TreeInv => NamesKept
<1>1. SUFFICES ASSUME TreeInv, ~unnamed PROVE
        /\ ~crashed
        /\ \A o \in Live(mem) : Owner(mem, o) /\ mem.item[o].kind = "object" =>
             \A c \in In(Children(mem, o)) : mem.item[c].name # NULL
  BY DEF NamesKept
<1>2. mem \in Memory /\ Linked(mem) /\ Named(mem) /\ ~crashed
  BY <1>1 DEF TreeInv, Sound, Tied
<1>3. \A o \in Live(mem) : Owner(mem, o) => In(Children(mem, o)) = Chain(mem, o)
  BY <1>2, ChildrenAre
<1> QED BY <1>2, <1>3 DEF Named

(* The empty memory is sound. *)
LEMMA InitInv == Init => TreeInv
<1>1. SUFFICES ASSUME Init PROVE TreeInv
  OBVIOUS
<1>2. /\ mem = NoItems /\ roots = {} /\ lost = {} /\ unnamed = FALSE /\ crashed = FALSE
  BY <1>1 DEF Init
<1>3. FreeItem \in Item /\ FreeItem.kind = "free"
  BY DEF FreeItem, Item, Kind, Pointer
<1>4. NoItems \in Memory /\ NoItems.strings = 0 /\ NoItems.item = [c \in Cell |-> FreeItem]
  BY <1>3 DEF NoItems, Memory
<1>5. Live(NoItems) = {}
  BY <1>3, <1>4 DEF Live
<1>6. Tied(NoItems, {})
  BY <1>5 DEF Tied, Linked, Reached
<1>7. Counted(NoItems)
  <2>1. OwnedNames(NoItems) = {} /\ OwnedTexts(NoItems) = {}
    BY <1>5 DEF OwnedNames, OwnedTexts
  <2> QED BY <1>4, <2>1, FS_EmptySet DEF Counted
<1>8. Named(NoItems)
  BY <1>5 DEF Named
<1>9. roots \cup lost = {} /\ roots \cap lost = {}
  BY <1>2
<1>10. Sound(mem, roots \cup lost, ~unnamed)
  BY <1>2, <1>4, <1>6, <1>7, <1>8, <1>9 DEF Sound
<1> QED BY <1>2, <1>9, <1>10 DEF TreeInv

-----------------------------------------------------------------------------
(* What a client may pass *)

(* What a call has to show. *)
LEMMA StepInv ==
  ASSUME NEW m, NEW r, NEW l, NEW u \in BOOLEAN,
         mem' = m, roots' = r, lost' = l, unnamed' = u, crashed' \in BOOLEAN, crashed' => u,
         Sound(m, r \cup l, ~u), r \cap l = {}
  PROVE  TreeInv'
<1>1. (~unnamed') = (~u)
  OBVIOUS
<1>2. (roots' \cup lost') = (r \cup l) /\ (roots' \cap lost') = (r \cap l)
  OBVIOUS
<1>3. Sound(mem', roots' \cup lost', ~unnamed')
  BY <1>1, <1>2
<1>4. roots' \cap lost' = {} /\ unnamed' \in BOOLEAN /\ (crashed' => unnamed')
  BY <1>2
<1> QED BY <1>3, <1>4 DEF TreeInv

(* The same for the calls that change neither unnamed nor crashed. *)
LEMMA HoldingInv ==
  ASSUME TreeInv, NEW m, NEW r, NEW l, Holding(m, r, l),
         Sound(m, r \cup l, ~unnamed), r \cap l = {}
  PROVE  TreeInv'
<1>1. /\ mem' = m /\ roots' = r /\ lost' = l
      /\ unnamed' \in BOOLEAN /\ unnamed' = unnamed /\ crashed' = crashed
  BY DEF Holding, TreeInv
<1>2. crashed' \in BOOLEAN /\ (crashed' => unnamed) /\ unnamed \in BOOLEAN
  BY <1>1 DEF TreeInv
<1> QED BY <1>1, <1>2, StepInv

(* What the client reaches is live, and what it may add a root. *)
LEMMA HeldLive ==
  ASSUME TreeInv
  PROVE  /\ Held \subseteq Live(mem)
         /\ \A a \in Arrays : a \in Live(mem) /\ Owner(mem, a) /\ mem.item[a].kind = "array"
         /\ \A o \in Objects : o \in Live(mem) /\ Owner(mem, o) /\ mem.item[o].kind = "object"
         /\ \A a : \A i \in Addable(a) : /\ i \in roots /\ i \notin lost /\ a \notin Doomed(mem, i)
                                         /\ (roots \ {i}) \cup lost = (roots \cup lost) \ {i}
                                         /\ (roots \ {i}) \cap lost = {}
<1>1. mem \in Memory /\ Linked(mem) /\ roots \cup lost \subseteq Live(mem) /\ roots \cap lost = {}
  BY DEF TreeInv, Sound, Tied
<1>2. \A r \in roots : Doomed(mem, r) \subseteq Live(mem)
  BY <1>1, DoomedIs
<1>3. Held \subseteq Live(mem)
  BY <1>2 DEF Held, Tree
<1> QED BY <1>1, <1>3 DEF Arrays, Objects, Addable, Tree

(* What an index gives is a member. *)
LEMMA GotFromArray ==
  ASSUME NEW m \in Memory, Linked(m), NEW a \in Live(m), Owner(m, a),
         NEW which \in 0 .. Len(Children(m, a))
  PROVE  /\ get_array_item(m, a, which) # NULL => MemberOf(m, a, get_array_item(m, a, which))
         /\ which < Len(Children(m, a)) => get_array_item(m, a, which) # NULL
<1> DEFINE list == Children(m, a)
<1>1. Len(list) \in 0 .. Cardinality(Cell) /\ In(list) = Chain(m, a) /\ DOMAIN list = 1 .. Len(list)
  BY ChildrenAre
<1>2. Cardinality(Cell) \in Nat
  BY CellAssumption, FS_CardinalityType
<1>3. CASE which < Len(list)
  <2>1. which + 1 \in 1 .. Len(list) /\ get_array_item(m, a, which) = list[which + 1]
    BY <1>1, <1>2, <1>3 DEF get_array_item
  <2>2. list[which + 1] \in Chain(m, a)
    BY <1>1, <2>1 DEF In
  <2>3. list[which + 1] # NULL
    BY <2>2, NullAssumption DEF Chain
  <2> QED BY <2>1, <2>2, <2>3 DEF MemberOf
<1>4. CASE ~(which < Len(list))
  BY <1>4 DEF get_array_item
<1> QED BY <1>3, <1>4

(* What a key gives is a member. *)
LEMMA GotFromObject ==
  ASSUME NEW m \in Memory, Linked(m), NEW o \in Live(m), Owner(m, o), NEW name, NEW sensitive,
         get_object_item(m, o, name, sensitive) # NULL
  PROVE  MemberOf(m, o, get_object_item(m, o, name, sensitive))
<1> DEFINE list == Children(m, o)
           found == {k \in DOMAIN list : Matches(m, list[k], name, sensitive)}
           k == CHOOSE k \in found : \A j \in found : k <= j
<1>1. Len(list) \in 0 .. Cardinality(Cell) /\ In(list) = Chain(m, o) /\ DOMAIN list = 1 .. Len(list)
  BY ChildrenAre
<1>2. get_object_item(m, o, name, sensitive) = list[k] /\ found # {}
  BY DEF get_object_item
<1>3. k \in found
  <2>1. found \in SUBSET Nat
    <3>1. Cardinality(Cell) \in Nat
      BY CellAssumption, FS_CardinalityType
    <3> QED BY <1>1, <3>1
  <2>2. \E x \in found : \A j \in found : x <= j
    BY <1>2, <2>1, LeastNatural
  <2> HIDE DEF found
  <2> QED BY <2>2
<1>4. list[k] \in Chain(m, o)
  BY <1>1, <1>3 DEF In
<1> QED BY <1>2, <1>4 DEF MemberOf

(* A lookup that crashes met a member without a name. *)
LEMMA CrashMeans ==
  ASSUME NEW m \in Memory, Linked(m), NEW o \in Live(m), Owner(m, o), m.item[o].kind = "object",
         NEW name, NEW sensitive, Crashes(m, o, name, sensitive)
  PROVE  ~Named(m)
<1>1. DOMAIN Children(m, o) = 1 .. Len(Children(m, o)) /\ In(Children(m, o)) = Chain(m, o)
  BY ChildrenAre
<1>2. PICK k \in DOMAIN Children(m, o) : m.item[Children(m, o)[k]].name = NULL
  BY DEF Crashes
<1>3. Children(m, o)[k] \in Chain(m, o)
  BY <1>1 DEF In
<1> QED BY <1>2, <1>3 DEF Named

-----------------------------------------------------------------------------
(* What the functions that allocate leave *)

(* Writing one item, as a record. *)
LEMMA CellWritten ==
  ASSUME NEW m \in Memory, NEW c \in Cell, NEW x
  PROVE  [m EXCEPT !.item[c] = x] = [item |-> [m.item EXCEPT ![c] = x], strings |-> m.strings]
<1>1. m = [item |-> m.item, strings |-> m.strings]
  BY DEF Memory
<1> QED BY <1>1

(* The second write is what counts. *)
LEMMA CellWrittenTwice ==
  ASSUME NEW m \in Memory, NEW c \in Cell, NEW x, NEW y
  PROVE  [[m EXCEPT !.item[c] = x] EXCEPT !.item[c] = y] = [m EXCEPT !.item[c] = y]
<1>1. m.item \in [Cell -> Item] /\ m = [item |-> m.item, strings |-> m.strings]
  BY DEF Memory
<1>2. [m EXCEPT !.item[c] = x] = [item |-> [m.item EXCEPT ![c] = x], strings |-> m.strings]
  BY <1>1
<1>3. [[m.item EXCEPT ![c] = x] EXCEPT ![c] = y] = [m.item EXCEPT ![c] = y]
  BY <1>1
<1> QED BY <1>1, <1>2, <1>3

(* What cJSON_New_Item makes, and with a value. *)
Blank(kind) == [FreeItem EXCEPT !.kind = kind]
BlankText(kind, c) == [Blank(kind) EXCEPT !.text = c]

(* A new item has no neighbours, no children and no strings. *)
LEMMA FreeItemIs ==
  ASSUME NEW kind \in Kind \ {"free"}
  PROVE  LET x == Blank(kind)
         IN  /\ x \in Item /\ Fresh(x) /\ x.kind = kind /\ x.next = NULL /\ x.child = NULL
             /\ x.ref = FALSE /\ x.name = NULL /\ x.text = NULL /\ x.const = FALSE
<1> DEFINE x == Blank(kind)
<1>1. /\ FreeItem.next = NULL /\ FreeItem.prev = NULL /\ FreeItem.child = NULL
      /\ FreeItem.name = NULL /\ FreeItem.text = NULL /\ FreeItem.ref = FALSE
      /\ FreeItem.const = FALSE /\ FreeItem \in Item
  BY DEF FreeItem, Item, Pointer, Kind
<1>2. /\ x.kind = kind /\ x.next = NULL /\ x.prev = NULL /\ x.child = NULL
      /\ x.name = NULL /\ x.text = NULL
  BY <1>1 DEF Item, Blank
<1>3. x \in Item
  BY <1>1 DEF Item, Blank
<1>4. x.ref = FALSE
  BY <1>1 DEF Item, Blank
<1>5. x.const = FALSE
  BY <1>1 DEF Item, Blank
<1> QED BY <1>2, <1>3, <1>4, <1>5 DEF Fresh

(* An item of m written whole. *)
Put(m, c, x) == [m EXCEPT !.item[c] = x]

(* The same of Put. *)
LEMMA PutFacts ==
  ASSUME NEW m \in Memory, NEW c \in Cell, NEW x
  PROVE  /\ Put(m, c, x).item[c] = x
         /\ \A y : Put(Put(m, c, x), c, y) = Put(m, c, y)
<1>1. m.item \in [Cell -> Item]
  BY DEF Memory
<1>2. Put(m, c, x) = [item |-> [m.item EXCEPT ![c] = x], strings |-> m.strings]
  BY CellWritten DEF Put
<1>3. Put(m, c, x).item[c] = x
  BY <1>1, <1>2
<1>4. ASSUME NEW y PROVE Put(Put(m, c, x), c, y) = Put(m, c, y)
  BY CellWrittenTwice DEF Put
<1> QED BY <1>3, <1>4

(* With when the item owns no string. *)
LEMMA WithPlain ==
  ASSUME NEW m \in Memory, NEW c \in Cell, NEW made,
         made.name = NULL \/ made.const, made.text = NULL \/ made.ref
  PROVE  Put(m, c, made) = With(m, c, made)
<1>1. m.strings \in Nat
  BY DEF Memory
<1>2. /\ (IF made.name # NULL /\ ~made.const THEN 1 ELSE 0) = 0
      /\ (IF made.text # NULL /\ ~made.ref THEN 1 ELSE 0) = 0
  OBVIOUS
<1>3. With(m, c, made) = [item |-> [m.item EXCEPT ![c] = made], strings |-> m.strings + 0 + 0]
  BY <1>2 DEF With
<1>4. m.strings + 0 + 0 = m.strings
  BY <1>1
<1>5. Put(m, c, made) = [item |-> [m.item EXCEPT ![c] = made], strings |-> m.strings]
  BY CellWritten DEF Put
<1> QED BY <1>3, <1>4, <1>5

(* cJSON_New_Item makes an item that owns no string. *)
LEMMA NewIs ==
  ASSUME NEW m \in Memory, NEW c \in Cell, NEW kind \in Kind \ {"free"}
  PROVE  cJSON_New_Item(m, c, kind) = With(m, c, Blank(kind))
<1> DEFINE x == Blank(kind)
<1>1. x.name = NULL /\ x.text = NULL
  BY FreeItemIs
<1> HIDE DEF x
<1>2. Put(m, c, x) = With(m, c, x)
  BY <1>1, WithPlain
<1> QED BY <1>2 DEF Put, cJSON_New_Item, x, Blank

(* With a value it owns one. *)
LEMMA NewTextIs ==
  ASSUME NEW m \in Memory, NEW c \in Cell, NEW kind \in Kind \ {"free"}
  PROVE  LET x == BlankText(kind, c)
         IN  /\ Strings([cJSON_New_Item(m, c, kind) EXCEPT !.item[c].text = c], 1) = With(m, c, x)
             /\ Fresh(x) /\ x.kind = kind /\ x.next = NULL /\ x.child = NULL /\ x.ref = FALSE
<1> DEFINE b == Blank(kind)
           x == [b EXCEPT !.text = c]
           made == cJSON_New_Item(m, c, kind)
           w == [m EXCEPT !.item[c] = x]
<1>1. /\ b \in Item /\ b.kind = kind /\ b.next = NULL /\ b.prev = NULL /\ b.child = NULL
      /\ b.name = NULL /\ b.ref = FALSE /\ b.const = FALSE
  BY FreeItemIs DEF Fresh
<1> HIDE DEF b
<1>2. /\ x.kind = kind /\ x.next = NULL /\ x.prev = NULL /\ x.child = NULL
      /\ x.name = NULL /\ x.text = c
  BY <1>1 DEF Item
<1>3. x \in Item
  BY <1>1 DEF Item, Pointer
<1>15. x.ref = FALSE
  BY <1>1 DEF Item
<1>16. x.const = FALSE
  BY <1>1 DEF Item
<1>4. /\ x.kind = kind /\ x.next = NULL /\ x.prev = NULL /\ x.child = NULL
      /\ x.name = NULL /\ x.text = c /\ x.ref = FALSE /\ x.const = FALSE
  BY <1>2, <1>15, <1>16
<1>5. made = [m EXCEPT !.item[c] = b]
  BY DEF cJSON_New_Item, b, Blank
<1>6. made.item[c] = b
  BY <1>1, <1>5, ItemWritten
<1>7. [made EXCEPT !.item[c].text = c] = [made EXCEPT !.item[c] = x]
  BY <1>6
<1>8. [made EXCEPT !.item[c] = x] = w
  BY <1>5, CellWrittenTwice
<1>9. w = [item |-> [m.item EXCEPT ![c] = x], strings |-> m.strings]
  BY CellWritten
<1>10. Strings(w, 1) = [item |-> [m.item EXCEPT ![c] = x], strings |-> m.strings + 1]
  <2> DEFINE g == [m.item EXCEPT ![c] = x]
  <2> HIDE DEF g
  <2>1. w = [item |-> g, strings |-> m.strings]
    BY <1>9 DEF g
  <2> HIDE DEF w
  <2>2. Strings(w, 1) = [item |-> g, strings |-> m.strings + 1]
    BY <2>1 DEF Strings
  <2> QED BY <2>2 DEF g
<1>11. With(m, c, x) = [item |-> [m.item EXCEPT ![c] = x], strings |-> m.strings + 0 + 1]
  BY <1>4, NullAssumption DEF With
<1>12. m.strings + 0 + 1 = m.strings + 1
  BY DEF Memory
<1>13. Fresh(x)
  BY <1>3, <1>4 DEF Fresh
<1>14. Strings([made EXCEPT !.item[c].text = c], 1) = With(m, c, x)
  BY <1>7, <1>8, <1>10, <1>11, <1>12
<1> QED BY <1>4, <1>13, <1>14 DEF b, BlankText

(* The cells malloc will return. *)
Supply(m, s) ==
  /\ s \in Seq(Cell) /\ \A j \in DOMAIN s : s[j] \notin Live(m)
  /\ \A j, k \in DOMAIN s : j # k => s[j] # s[k]

(* One cell is taken. *)
LEMMA SupplyHead ==
  ASSUME NEW m, NEW s, Supply(m, s), s # <<>>
  PROVE  /\ Head(s) \in Cell \ Live(m) /\ Len(Tail(s)) = Len(s) - 1 /\ Len(s) > 0
         /\ \A n : Live(n) \subseteq Live(m) \cup {Head(s)} => Supply(n, Tail(s))
<1>1. s \in Seq(Cell) /\ Len(s) \in Nat /\ DOMAIN s = 1 .. Len(s)
  BY DEF Supply
<1>2. Len(s) > 0 /\ Head(s) = s[1]
  BY <1>1
<1>3. Head(s) \in Cell \ Live(m)
  BY <1>1, <1>2 DEF Supply
<1>4. /\ Tail(s) \in Seq(Cell) /\ Len(Tail(s)) = Len(s) - 1
      /\ DOMAIN Tail(s) = 1 .. Len(Tail(s))
      /\ \A j \in 1 .. (Len(s) - 1) : Tail(s)[j] = s[j + 1]
  BY <1>1, <1>2
<1>5. ASSUME NEW n, Live(n) \subseteq Live(m) \cup {Head(s)}
      PROVE  Supply(n, Tail(s))
  <2>1. ASSUME NEW j \in DOMAIN Tail(s)
        PROVE  /\ j + 1 \in DOMAIN s /\ Tail(s)[j] = s[j + 1] /\ Tail(s)[j] \notin Live(n)
    <3>1. j \in 1 .. (Len(s) - 1) /\ j + 1 \in DOMAIN s /\ Tail(s)[j] = s[j + 1] /\ 1 \in DOMAIN s
          /\ j + 1 # 1
      BY <1>1, <1>2, <1>4, <2>1
    <3>2. s[j + 1] # s[1] /\ s[j + 1] \notin Live(m)
      BY <3>1 DEF Supply
    <3> QED BY <1>2, <1>5, <3>1, <3>2
  <2>2. ASSUME NEW j \in DOMAIN Tail(s), NEW k \in DOMAIN Tail(s), j # k
        PROVE  Tail(s)[j] # Tail(s)[k]
    <3>1. j + 1 # k + 1
      BY <1>1, <1>4, <2>2
    <3> QED BY <2>1, <3>1 DEF Supply
  <2> QED BY <1>4, <2>1, <2>2 DEF Supply
<1> QED BY <1>2, <1>3, <1>4, <1>5

(* malloc fails from here on. *)
LEMMA SupplyNone ==
  ASSUME NEW m, NEW n
  PROVE  /\ Supply(n, <<>>)
         /\ \A s : Supply(m, s) /\ Live(n) \subseteq Live(m) => Supply(n, s)
BY DEF Supply

(* What a function that makes an item leaves: an item in no list, with     *)
(* nothing that hangs from it, or nothing.                                 *)
Outcomes == [mem : Memory, item : Pointer, supply : Seq(Cell), ink : Nat]

Created(m, H, named, kind, r) ==
  /\ r \in Outcomes /\ Supply(r.mem, r.supply)
  /\ Kept(m, r.mem, Live(m))
  /\ r.item = NULL => Sound(r.mem, H, named) /\ Live(r.mem) = Live(m)
  /\ r.item # NULL =>
       /\ Sound(r.mem, H \cup {r.item}, named)
       /\ r.item \in Cell \ Live(m) /\ Live(r.mem) = Live(m) \cup {r.item}
       /\ r.mem.item[r.item].kind = kind /\ r.mem.item[r.item].ref = FALSE
       /\ r.mem.item[r.item].child = NULL /\ r.mem.item[r.item].next = NULL

(* The fields of an outcome. *)
LEMMA OutcomeIs ==
  ASSUME NEW m, NEW c, NEW s, NEW ink
  PROVE  /\ Outcome(m, c, s, ink).mem = m /\ Outcome(m, c, s, ink).item = c
         /\ Outcome(m, c, s, ink).supply = s /\ Outcome(m, c, s, ink).ink = ink
         /\ m \in Memory /\ c \in Pointer /\ s \in Seq(Cell) /\ ink \in Nat =>
              Outcome(m, c, s, ink) \in Outcomes
BY DEF Outcome, Outcomes

(* malloc fails. *)
LEMMA CreatedNothing ==
  ASSUME NEW m, NEW H, NEW named, Sound(m, H, named), NEW kind,
         NEW supply, Supply(m, supply), NEW ink \in Nat
  PROVE  Created(m, H, named, kind, Outcome(m, NULL, supply, ink))
<1> DEFINE r == Outcome(m, NULL, supply, ink)
<1>1. m \in Memory /\ NULL \in Pointer /\ supply \in Seq(Cell)
  BY DEF Sound, Pointer, Supply
<1>2. r.mem = m /\ r.item = NULL /\ r.supply = supply /\ r \in Outcomes
  BY <1>1, OutcomeIs
<1> HIDE DEF r
<1>3. Created(m, H, named, kind, r)
  BY <1>2 DEF Created, Kept
<1> QED BY <1>3 DEF r

(* It gives the first cell of the supply. *)
LEMMA CreatedItem ==
  ASSUME NEW m, NEW H, NEW named, Sound(m, H, named), NEW supply, Supply(m, supply),
         supply # <<>>, NEW x, Fresh(x), x.ref = FALSE, NEW ink \in Nat
  PROVE  Created(m, H, named, x.kind, Outcome(With(m, Head(supply), x), Head(supply), Tail(supply), ink))
<1> DEFINE c == Head(supply)
           n == With(m, c, x)
           r == Outcome(n, c, Tail(supply), ink)
<1>1. /\ c \in Cell \ Live(m) /\ c \in Pointer /\ c # NULL
      /\ \A k : Live(k) \subseteq Live(m) \cup {c} => Supply(k, Tail(supply))
  BY SupplyHead, NullAssumption DEF Pointer
<1>2. m \in Memory
  BY DEF Sound
<1> HIDE DEF c
<1>3. Live(n) = Live(m) \cup {c} /\ Kept(m, n, Live(m)) /\ n.item[c] = x
  BY <1>1, <1>2, WithFields
<1>4. Sound(n, H \cup {c}, named)
  BY <1>1, SoundNew
<1>5. x.next = NULL /\ x.child = NULL
  BY DEF Fresh
<1> HIDE DEF n
<1>6. Supply(n, Tail(supply)) /\ Tail(supply) \in Seq(Cell) /\ n \in Memory
  BY <1>1, <1>3, <1>4 DEF Supply, Sound
<1>7. r.mem = n /\ r.item = c /\ r.supply = Tail(supply) /\ r \in Outcomes
  <2> DEFINE rest == Tail(supply)
  <2> HIDE DEF rest
  <2>1. rest \in Seq(Cell)
    BY <1>6 DEF rest
  <2>2. rest = Tail(supply)
    BY DEF rest
  <2>3. LET o == Outcome(n, c, rest, ink)
        IN o.mem = n /\ o.item = c /\ o.supply = rest /\ o \in Outcomes
    BY <1>1, <1>6, <2>1 DEF Outcome, Outcomes
  <2> QED BY <2>2, <2>3
<1> HIDE DEF r
<1>8. Created(m, H, named, x.kind, r)
  BY <1>1, <1>3, <1>4, <1>5, <1>6, <1>7 DEF Created
<1> QED BY <1>8 DEF r, n, c

(* The new item is deleted again. *)
LEMMA CreatedInVain ==
  ASSUME NEW m, NEW H, NEW named, Sound(m, H, named), NEW supply, Supply(m, supply),
         supply # <<>>, NEW x, Fresh(x), x.ref = FALSE, NEW kind, NEW ink \in Nat
  PROVE  Created(m, H, named, kind,
                 Outcome(cJSON_Delete(With(m, Head(supply), x), Head(supply)), NULL, Tail(supply), ink))
<1> DEFINE c == Head(supply)
           n == With(m, c, x)
           d == cJSON_Delete(n, c)
           r == Outcome(d, NULL, Tail(supply), ink)
<1>1. /\ c \in Cell \ Live(m)
      /\ \A k : Live(k) \subseteq Live(m) \cup {c} => Supply(k, Tail(supply))
  BY SupplyHead
<1>2. m \in Memory /\ H \subseteq Live(m)
  BY DEF Sound, Tied
<1> HIDE DEF c
<1>3. Live(n) = Live(m) \cup {c} /\ Kept(m, n, Live(m)) /\ n.item[c] = x
  BY <1>1, <1>2, WithFields
<1>4. Sound(n, H \cup {c}, named)
  BY <1>1, SoundNew
<1> HIDE DEF n
<1>5. n \in Memory /\ Linked(n) /\ c \in Live(n) /\ x.next = NULL /\ x.child = NULL
  BY <1>3, <1>4 DEF Sound, Tied, Fresh
<1>6. Doomed(n, c) = {c}
  BY <1>3, <1>5, DoomedAlone
<1>7. c \in H \cup {c} /\ (H \cup {c}) \ {c} = H /\ (Live(m) \cup {c}) \ {c} = Live(m)
  BY <1>1, <1>2
<1>8. /\ Sound(d, (H \cup {c}) \ {c}, named) /\ Live(d) = Live(n) \ Doomed(n, c)
      /\ Kept(n, d, Live(n) \ Doomed(n, c))
  BY <1>4, <1>7, SoundDelete
<1> HIDE DEF d
<1>9. Sound(d, H, named) /\ Live(d) = Live(m) /\ Kept(m, d, Live(m))
  BY <1>3, <1>6, <1>7, <1>8 DEF Kept
<1>10. Supply(d, Tail(supply)) /\ Tail(supply) \in Seq(Cell) /\ d \in Memory /\ NULL \in Pointer
  BY <1>1, <1>9 DEF Supply, Sound, Pointer
<1>11. r.mem = d /\ r.item = NULL /\ r.supply = Tail(supply) /\ r \in Outcomes
  <2> DEFINE rest == Tail(supply)
  <2> HIDE DEF rest
  <2>1. rest \in Seq(Cell)
    BY <1>10 DEF rest
  <2>2. rest = Tail(supply)
    BY DEF rest
  <2>3. LET o == Outcome(d, NULL, rest, ink)
        IN o.mem = d /\ o.item = NULL /\ o.supply = rest /\ o \in Outcomes
    BY <1>10, <2>1 DEF Outcome, Outcomes
  <2> QED BY <2>2, <2>3
<1> HIDE DEF r
<1>12. Created(m, H, named, kind, r)
  BY <1>9, <1>10, <1>11 DEF Created
<1> QED BY <1>12 DEF r, d, n, c

(* cJSON_CreateNull and its like, whether malloc fails or not. *)
LEMMA CreateItemSound ==
  ASSUME NEW m, NEW H, NEW named, Sound(m, H, named), NEW kind \in Kind \ {"free"},
         NEW supply, Supply(m, supply), NEW ink \in Nat
  PROVE  Created(m, H, named, kind, CreateItem(m, kind, supply, ink))
<1> DEFINE r == CreateItem(m, kind, supply, ink)
           c == Head(supply)
           made == cJSON_New_Item(m, c, kind)
           b == Blank(kind)
           t == BlankText(kind, c)
           full == Strings([made EXCEPT !.item[c].text = c], 1)
<1>1. CASE supply = <<>>
  <2>1. r = Outcome(m, NULL, supply, ink)
    BY <1>1 DEF CreateItem
  <2> HIDE DEF r
  <2>2. Created(m, H, named, kind, r)
    BY <2>1, CreatedNothing
  <2> QED BY <2>2 DEF r
<1>2. CASE supply # <<>>
  <2>1. r = IF kind # "text" THEN Outcome(made, c, Tail(supply), ink)
            ELSE IF ink = 0 THEN Outcome(cJSON_Delete(made, c), NULL, Tail(supply), 0)
            ELSE Outcome(full, c, Tail(supply), ink - 1)
    BY <1>2 DEF CreateItem
  <2>2. c \in Cell /\ m \in Memory
    BY <1>2, SupplyHead DEF Sound
  <2> HIDE DEF c
  <2>3. made = With(m, c, b) /\ Fresh(b) /\ b.kind = kind /\ b.ref = FALSE
    BY <2>2, NewIs, FreeItemIs
  <2>4. full = With(m, c, t) /\ Fresh(t) /\ t.kind = kind /\ t.ref = FALSE
    BY <2>2, NewTextIs
  <2> HIDE DEF r, made, full, b, t
  <2>5. CASE kind # "text"
    <3>1. r = Outcome(With(m, c, b), c, Tail(supply), ink)
      BY <2>1, <2>3, <2>5
    <3>2. Created(m, H, named, b.kind, r)
      BY <1>2, <2>3, <3>1, CreatedItem DEF c
    <3> QED BY <2>3, <3>2 DEF r
  <2>6. CASE kind = "text" /\ ink # 0
    <3>1. r = Outcome(With(m, c, t), c, Tail(supply), ink - 1) /\ ink - 1 \in Nat
      BY <2>1, <2>4, <2>6
    <3>2. Created(m, H, named, t.kind, r)
      BY <1>2, <2>4, <3>1, CreatedItem DEF c
    <3> QED BY <2>4, <3>2 DEF r
  <2>7. CASE kind = "text" /\ ink = 0
    <3>1. r = Outcome(cJSON_Delete(With(m, c, b), c), NULL, Tail(supply), 0) /\ 0 \in Nat
      BY <2>1, <2>3, <2>7
    <3>2. Created(m, H, named, kind, r)
      BY <1>2, <2>3, <3>1, CreatedInVain DEF c
    <3> QED BY <3>2 DEF r
  <2> QED BY <2>5, <2>6, <2>7
<1> QED BY <1>1, <1>2

(* A reference is in no list, and nothing hangs from it. *)
Refers(m, c, n) ==
  \E x : /\ Fresh(x) /\ x.ref = TRUE /\ n = With(m, c, x)

(* A reference is a root that only it hangs from. *)
LEMMA SoundRefers ==
  ASSUME NEW m, NEW H, NEW named, Sound(m, H, named), NEW c \in Cell \ Live(m),
         NEW n, Refers(m, c, n)
  PROVE  /\ Sound(n, H \cup {c}, named) /\ Live(n) = Live(m) \cup {c} /\ Kept(m, n, Live(m))
         /\ Doomed(n, c) = {c}
<1>1. PICK x : Fresh(x) /\ x.ref = TRUE /\ n = With(m, c, x)
  BY DEF Refers
<1>2. /\ Sound(n, H \cup {c}, named) /\ Live(n) = Live(m) \cup {c} /\ Kept(m, n, Live(m))
      /\ n.item[c] = x
  BY <1>1, SoundNew, WithFields DEF Sound
<1>3. n \in Memory /\ Linked(n) /\ c \in Live(n)
  BY <1>2 DEF Sound, Tied
<1>4. n.item[c].next = NULL /\ ~Owner(n, c)
  BY <1>1, <1>2 DEF Fresh, Owner
<1> QED BY <1>2, <1>3, <1>4, DoomedAlone

(* cJSON_CreateArrayReference and its like make one. *)
LEMMA CreateReferenceIs ==
  ASSUME NEW m \in Memory, NEW c \in Cell, NEW kind \in Kind \ {"free"},
         NEW child \in Pointer, NEW text \in Pointer
  PROVE  Refers(m, c, [cJSON_New_Item(m, c, kind) EXCEPT !.item[c].child = child,
                                                         !.item[c].text = text,
                                                         !.item[c].ref = TRUE])
<1> DEFINE b == Blank(kind)
           x1 == [b EXCEPT !.child = child]
           x2 == [x1 EXCEPT !.text = text]
           x3 == [x2 EXCEPT !.ref = TRUE]
           made == cJSON_New_Item(m, c, kind)
           m1 == Put(m, c, x1)
           m2 == Put(m, c, x2)
           n == [made EXCEPT !.item[c].child = child, !.item[c].text = text, !.item[c].ref = TRUE]
<1>1. /\ b \in Item /\ b.kind = kind /\ b.next = NULL /\ b.prev = NULL /\ b.name = NULL
  BY FreeItemIs DEF Fresh
<1> HIDE DEF b
<1>2. /\ x1 \in Item /\ x1.kind = kind /\ x1.next = NULL /\ x1.prev = NULL /\ x1.name = NULL
  BY <1>1 DEF Item
<1> HIDE DEF x1
<1>3. /\ x2 \in Item /\ x2.kind = kind /\ x2.next = NULL /\ x2.prev = NULL /\ x2.name = NULL
  BY <1>2 DEF Item
<1> HIDE DEF x2
<1>4. /\ x3 \in Item /\ x3.kind = kind /\ x3.next = NULL /\ x3.prev = NULL /\ x3.name = NULL
  BY <1>3 DEF Item
<1>5. x3.ref = TRUE
  BY <1>3 DEF Item
<1>6. made = Put(m, c, b)
  BY DEF Put, cJSON_New_Item, b, Blank
<1>7. n = [[[made EXCEPT !.item[c].child = child] EXCEPT !.item[c].text = text]
                 EXCEPT !.item[c].ref = TRUE]
  OBVIOUS
<1>8. [made EXCEPT !.item[c].child = child] = m1
  <2>1. made.item[c] = b
    BY <1>6, PutFacts
  <2>2. [made EXCEPT !.item[c].child = child] = Put(made, c, x1)
    BY <2>1 DEF x1, Put
  <2> QED BY <1>6, <2>2, PutFacts
<1>9. [m1 EXCEPT !.item[c].text = text] = m2
  <2>1. m1.item[c] = x1
    BY PutFacts
  <2>2. [m1 EXCEPT !.item[c].text = text] = Put(m1, c, x2)
    BY <2>1 DEF x2, Put
  <2> QED BY <2>2, PutFacts
<1>10. [m2 EXCEPT !.item[c].ref = TRUE] = Put(m, c, x3)
  <2>1. m2.item[c] = x2
    BY PutFacts
  <2>2. [m2 EXCEPT !.item[c].ref = TRUE] = Put(m2, c, x3)
    BY <2>1 DEF Put
  <2> QED BY <2>2, PutFacts
<1> HIDE DEF n, made, m1, m2, x3
<1>11. n = Put(m, c, x3)
  BY <1>7, <1>8, <1>9, <1>10
<1>12. n = With(m, c, x3)
  BY <1>4, <1>5, <1>11, WithPlain
<1>13. Fresh(x3)
  BY <1>4, <1>5 DEF Fresh
<1> QED BY <1>5, <1>12, <1>13 DEF Refers, n, made

(* create_reference makes one. *)
LEMMA create_referenceIs ==
  ASSUME NEW m \in Memory, NEW c \in Cell, NEW i \in Live(m)
  PROVE  Refers(m, c, create_reference(m, c, i))
<1> DEFINE b == m.item[i]
           x1 == [b EXCEPT !.name = NULL]
           x2 == [x1 EXCEPT !.ref = TRUE]
           x3 == [x2 EXCEPT !.next = NULL]
           x4 == [x3 EXCEPT !.prev = NULL]
           x == [b EXCEPT !.name = NULL, !.ref = TRUE, !.next = NULL, !.prev = NULL]
<1>1. b \in Item /\ b.kind # "free"
  BY DEF Memory, Live
<1> HIDE DEF b
<1>2. x1 \in Item /\ x1.name = NULL /\ x1.kind # "free"
  BY <1>1 DEF Item
<1>3. x = [[[x1 EXCEPT !.ref = TRUE] EXCEPT !.next = NULL] EXCEPT !.prev = NULL]
  BY <1>1 DEF Item
<1> HIDE DEF x1, x
<1>4. x2 \in Item /\ x2.name = NULL /\ x2.kind # "free"
  BY <1>2 DEF Item
<1>5. x2.ref = TRUE
  BY <1>2 DEF Item
<1>6. x = [[x2 EXCEPT !.next = NULL] EXCEPT !.prev = NULL]
  BY <1>3
<1> HIDE DEF x2
<1>7. x3 \in Item /\ x3.name = NULL /\ x3.kind # "free" /\ x3.next = NULL
  BY <1>4 DEF Item, Pointer
<1>8. x3.ref = TRUE
  BY <1>4, <1>5 DEF Item
<1> HIDE DEF x3
<1>9. x4 \in Item /\ x4.name = NULL /\ x4.kind # "free" /\ x4.next = NULL /\ x4.prev = NULL
  BY <1>7 DEF Item, Pointer
<1>10. x4.ref = TRUE
  BY <1>7, <1>8 DEF Item
<1>11. x = x4
  BY <1>6 DEF x3
<1> HIDE DEF x4
<1>12. Fresh(x)
  BY <1>9, <1>10, <1>11 DEF Fresh
<1>13. Put(m, c, x) = With(m, c, x)
  BY <1>9, <1>10, <1>11, WithPlain
<1>14. create_reference(m, c, i) = Put(m, c, x)
  BY DEF Put, create_reference, x, b
<1> QED BY <1>10, <1>11, <1>12, <1>13, <1>14 DEF Refers

(* A root that is renamed can still be added where it could. *)
LEMMA Renamed ==
  ASSUME NEW m, NEW H, NEW named, Sound(m, H, named), NEW i \in H,
         NEW a \in Live(m) \ Doomed(m, i), Owner(m, a),
         NEW name \in Name \cup {NULL}, NEW const \in BOOLEAN
  PROVE  LET n == Rename(m, i, name, const)
         IN  /\ Sound(n, H, named) /\ a \in Live(n) \ Doomed(n, i) /\ Owner(n, a)
             /\ n.item[a].kind = m.item[a].kind /\ n.item[i].name = name
<1> DEFINE n == Rename(m, i, name, const)
<1>1. /\ Sound(n, H, named) /\ Live(n) = Live(m)
      /\ \A c \in Cell : c # i => n.item[c] = m.item[c]
      /\ n.item[i].kind = m.item[i].kind /\ n.item[i].ref = m.item[i].ref
      /\ n.item[i].next = m.item[i].next /\ n.item[i].child = m.item[i].child
      /\ n.item[i].name = name
  <2>1. Sound(n, H, named) BY SoundRename
  <2>2. Live(n) = Live(m) BY SoundRename
  <2>3. \A c \in Cell : c # i => n.item[c] = m.item[c] BY SoundRename
  <2>4. n.item[i].kind = m.item[i].kind BY SoundRename
  <2>5. n.item[i].ref = m.item[i].ref BY SoundRename
  <2>6. n.item[i].name = name BY SoundRename
  <2>7. n.item[i].next = m.item[i].next /\ n.item[i].child = m.item[i].child BY SoundRename
  <2> QED BY <2>1, <2>2, <2>3, <2>4, <2>5, <2>6, <2>7
<1> HIDE DEF n
<1>2. \A c \in Cell : /\ n.item[c].next = m.item[c].next /\ n.item[c].child = m.item[c].child
                      /\ n.item[c].ref = m.item[c].ref /\ n.item[c].kind = m.item[c].kind
  BY <1>1
<1>3. Doomed(n, i) = Doomed(m, i)
  BY <1>2, SameDoomed
<1>4. a \in Cell
  BY DEF Live
<1> QED BY <1>1, <1>2, <1>3, <1>4 DEF Owner, n

(* A memory that is sound with names is sound without. *)
LEMMA SoundWeaker ==
  ASSUME NEW m, NEW H, NEW named, Sound(m, H, named), NEW less, less => named
  PROVE  Sound(m, H, less)
BY DEF Sound

-----------------------------------------------------------------------------
(* The client's calls keep the invariant *)

(* What the invariant says, taken apart. *)
LEMMA InvFacts ==
  ASSUME TreeInv
  PROVE  /\ mem \in Memory /\ Linked(mem) /\ Tied(mem, roots \cup lost)
         /\ Sound(mem, roots \cup lost, ~unnamed)
         /\ roots \subseteq Live(mem) /\ lost \subseteq Live(mem) /\ roots \cap lost = {}
         /\ unnamed \in BOOLEAN /\ crashed \in BOOLEAN /\ (crashed => unnamed)
BY DEF TreeInv, Sound, Tied

(* The cells the client's calls are given are a supply. *)
LEMMA Supplied ==
  /\ \A s \in OneItem : Supply(mem, s) /\ (s # <<>> => s[1] = Head(s) /\ s[1] \in Cell \ Live(mem))
  /\ \A s \in Supplies : Supply(mem, s)
<1>1. ASSUME NEW s \in OneItem
      PROVE  Supply(mem, s) /\ (s # <<>> => s[1] = Head(s) /\ s[1] \in Cell \ Live(mem))
  <2>1. CASE s = <<>>
    BY <2>1, SupplyNone
  <2>2. CASE s # <<>>
    <3>1. PICK c \in Cell \ Live(mem) : s = <<c>>
      BY <1>1, <2>2 DEF OneItem
    <3>2. s \in Seq(Cell) /\ DOMAIN s = {1} /\ s[1] = c /\ Head(s) = c
      BY <3>1
    <3> QED BY <3>1, <3>2 DEF Supply
  <2> QED BY <2>1, <2>2
<1>2. ASSUME NEW s \in Supplies
      PROVE  Supply(mem, s)
  <2>1. PICK n \in 0 .. Cardinality(Cell \ Live(mem)) : s \in [1 .. n -> Cell \ Live(mem)]
    BY <1>2 DEF Supplies
  <2>2. n \in Nat
    <3>1. IsFiniteSet(Cell \ Live(mem))
      BY CellAssumption, FS_Subset
    <3>2. Cardinality(Cell \ Live(mem)) \in Nat
      BY <3>1, FS_CardinalityType
    <3> QED BY <3>2
  <2>3. s \in Seq(Cell) /\ DOMAIN s = 1 .. n
    BY <2>1, <2>2
  <2>4. \A j, k \in DOMAIN s : j # k => s[j] # s[k]
    BY <1>2 DEF Supplies
  <2> QED BY <2>1, <2>3, <2>4 DEF Supply
<1> QED BY <1>1, <1>2

(* The client holds what a function that allocates returned. *)
LEMMA KeepInv ==
  ASSUME TreeInv, NEW r, Keep(r),
         r.item = NULL => Sound(r.mem, roots \cup lost, ~unnamed),
         r.item # NULL => /\ Sound(r.mem, (roots \cup lost) \cup {r.item}, ~unnamed)
                          /\ r.item \notin Live(mem)
  PROVE  TreeInv'
<1>1. Holding(r.mem, IF r.item = NULL THEN roots ELSE roots \cup {r.item}, lost)
  BY DEF Keep
<1>2. roots \cap lost = {} /\ lost \subseteq Live(mem)
  BY InvFacts
<1>3. CASE r.item = NULL
  <2>1. Holding(r.mem, roots, lost)
    BY <1>1, <1>3
  <2> QED BY <1>2, <1>3, <2>1, HoldingInv
<1>4. CASE r.item # NULL
  <2>1. Holding(r.mem, roots \cup {r.item}, lost)
    BY <1>1, <1>4
  <2>2. (roots \cup {r.item}) \cup lost = (roots \cup lost) \cup {r.item}
    OBVIOUS
  <2>3. (roots \cup {r.item}) \cap lost = {}
    BY <1>2, <1>4
  <2>4. Sound(r.mem, (roots \cup {r.item}) \cup lost, ~unnamed)
    BY <1>4, <2>2
  <2> QED BY <2>1, <2>3, <2>4, HoldingInv
<1> QED BY <1>3, <1>4

(* cJSON_CreateNull and its like. *)
LEMMA CreateInv == ASSUME TreeInv, Create PROVE TreeInv'
<1>1. PICK kind \in Kinds, s \in OneItem, ink \in 0 .. 1 : Keep(CreateItem(mem, kind, s, ink))
  BY DEF Create
<1> DEFINE r == CreateItem(mem, kind, s, ink)
<1>2. kind \in Kind \ {"free"} /\ ink \in Nat /\ Supply(mem, s)
  BY TreeAssumption, Supplied
<1>3. Sound(mem, roots \cup lost, ~unnamed)
  BY InvFacts
<1>4. /\ r.item = NULL => Sound(r.mem, roots \cup lost, ~unnamed)
      /\ r.item # NULL => /\ Sound(r.mem, (roots \cup lost) \cup {r.item}, ~unnamed)
                          /\ r.item \notin Live(mem)
  <2>1. Created(mem, roots \cup lost, ~unnamed, kind, r)
    BY <1>2, <1>3, CreateItemSound
  <2> HIDE DEF r
  <2> QED BY <2>1 DEF Created
<1> HIDE DEF r
<1>5. Keep(r)
  BY <1>1 DEF r
<1> QED BY <1>4, <1>5, KeepInv

(* cJSON_CreateArrayReference and its like. *)
LEMMA CreateReferenceInv == ASSUME TreeInv, CreateReference PROVE TreeInv'
<1>1. PICK c \in Held, s \in OneItem :
        /\ s # <<>>
        /\ Holding([cJSON_New_Item(mem, s[1], mem.item[c].kind) EXCEPT
                      !.item[s[1]].child = mem.item[c].child,
                      !.item[s[1]].text = mem.item[c].text,
                      !.item[s[1]].ref = TRUE], roots \cup {s[1]}, lost)
  <2>1. PICK c \in Held, s \in OneItem :
          LET src == mem.item[c]
          IN /\ FewRefs /\ s # <<>> /\ Owner(mem, c) /\ (src.child # NULL \/ src.text # NULL)
             /\ Holding([cJSON_New_Item(mem, s[1], src.kind) EXCEPT !.item[s[1]].child = src.child,
                                                                    !.item[s[1]].text = src.text,
                                                                    !.item[s[1]].ref = TRUE],
                        roots \cup {s[1]}, lost)
    BY DEF CreateReference
  <2> WITNESS c \in Held, s \in OneItem
  <2> QED BY <2>1
<1> DEFINE d == s[1]
           n == [cJSON_New_Item(mem, d, mem.item[c].kind) EXCEPT
                   !.item[d].child = mem.item[c].child,
                   !.item[d].text = mem.item[c].text,
                   !.item[d].ref = TRUE]
<1>2. d \in Cell \ Live(mem) /\ c \in Live(mem)
  BY <1>1, Supplied, HeldLive
<1>3. /\ mem \in Memory /\ Sound(mem, roots \cup lost, ~unnamed)
      /\ lost \subseteq Live(mem) /\ roots \cap lost = {}
  BY InvFacts
<1>4. Holding(n, roots \cup {d}, lost)
  BY <1>1
<1> HIDE DEF d
<1>5. /\ mem.item[c].kind \in Kind \ {"free"} /\ mem.item[c].child \in Pointer
      /\ mem.item[c].text \in Pointer
  BY <1>2, <1>3 DEF Memory, Item, Live
<1>6. Refers(mem, d, n)
  BY <1>2, <1>3, <1>5, CreateReferenceIs
<1> HIDE DEF n
<1>7. Sound(n, (roots \cup lost) \cup {d}, ~unnamed)
  BY <1>2, <1>3, <1>6, SoundRefers
<1>8. (roots \cup {d}) \cup lost = (roots \cup lost) \cup {d}
  OBVIOUS
<1>9. (roots \cup {d}) \cap lost = {}
  BY <1>2, <1>3
<1>10. Sound(n, (roots \cup {d}) \cup lost, ~unnamed)
  BY <1>7, <1>8
<1> QED BY <1>4, <1>9, <1>10, HoldingInv

(* cJSON_AddItemToArray: the item does not hold the array. *)
LEMMA AddItemToArrayInv == ASSUME TreeInv, AddItemToArray PROVE TreeInv'
<1>1. PICK a \in Arrays : \E i \in Addable(a) : Holding(add_item_to_array(mem, a, i), roots \ {i}, lost)
  BY DEF AddItemToArray
<1>2. PICK i \in Addable(a) : Holding(add_item_to_array(mem, a, i), roots \ {i}, lost)
  BY <1>1
<1> DEFINE n == add_item_to_array(mem, a, i)
<1>3. /\ a \in Live(mem) \ Doomed(mem, i) /\ Owner(mem, a) /\ mem.item[a].kind = "array"
      /\ i \in roots \cup lost /\ (roots \ {i}) \cup lost = (roots \cup lost) \ {i}
      /\ (roots \ {i}) \cap lost = {}
  BY HeldLive
<1>4. Sound(mem, roots \cup lost, ~unnamed)
  BY InvFacts
<1>5. Sound(n, (roots \cup lost) \ {i}, ~unnamed)
  BY <1>3, <1>4, SoundAppend
<1> HIDE DEF n
<1>6. Sound(n, (roots \ {i}) \cup lost, ~unnamed)
  BY <1>3, <1>5
<1>7. Holding(n, roots \ {i}, lost)
  BY <1>2 DEF n
<1> QED BY <1>3, <1>6, <1>7, HoldingInv

(* cJSON_AddItemToObject, and when its key cannot be allocated. *)
LEMMA AddItemToObjectInv == ASSUME TreeInv, AddItemToObject PROVE TreeInv'
<1>1. PICK o \in Objects, name \in Name, given \in BOOLEAN, const \in BOOLEAN :
        \E i \in Addable(o) :
          IF given \/ const
          THEN Holding(add_item_to_array(Rename(mem, i, name, const), o, i), roots \ {i}, lost)
          ELSE Fails /\ Holding(mem, roots \ {i}, lost \cup {i})
  BY DEF AddItemToObject
<1>2. PICK i \in Addable(o) :
          IF given \/ const
          THEN Holding(add_item_to_array(Rename(mem, i, name, const), o, i), roots \ {i}, lost)
          ELSE Fails /\ Holding(mem, roots \ {i}, lost \cup {i})
  BY <1>1
<1>3. /\ o \in Live(mem) \ Doomed(mem, i) /\ Owner(mem, o)
      /\ i \in roots \cup lost /\ (roots \ {i}) \cup lost = (roots \cup lost) \ {i}
      /\ (roots \ {i}) \cap lost = {} /\ i \in roots
  BY HeldLive
<1>4. Sound(mem, roots \cup lost, ~unnamed)
  BY InvFacts
<1>5. CASE given \/ const
  <2> DEFINE n == Rename(mem, i, name, const)
             p == add_item_to_array(n, o, i)
  <2>1. Holding(p, roots \ {i}, lost)
    BY <1>2, <1>5
  <2>2. name \in Name \cup {NULL} /\ name # NULL
    BY NullAssumption
  <2>3. /\ Sound(n, roots \cup lost, ~unnamed) /\ o \in Live(n) \ Doomed(n, i) /\ Owner(n, o)
        /\ n.item[i].name = name
    BY <1>3, <1>4, <2>2, Renamed
  <2> HIDE DEF n
  <2>4. Sound(p, (roots \cup lost) \ {i}, ~unnamed)
    BY <1>3, <2>2, <2>3, SoundAppend
  <2> HIDE DEF p
  <2>5. Sound(p, (roots \ {i}) \cup lost, ~unnamed)
    BY <1>3, <2>4
  <2> QED BY <1>3, <2>1, <2>5, HoldingInv
<1>6. CASE ~(given \/ const)
  <2>1. Holding(mem, roots \ {i}, lost \cup {i})
    BY <1>2, <1>6
  <2>2. (roots \ {i}) \cup (lost \cup {i}) = roots \cup lost /\ (roots \ {i}) \cap (lost \cup {i}) = {}
    BY <1>3
  <2>3. Sound(mem, (roots \ {i}) \cup (lost \cup {i}), ~unnamed)
    BY <1>4, <2>2
  <2> QED BY <2>1, <2>2, <2>3, HoldingInv
<1> QED BY <1>5, <1>6

(* A new reference can be added wherever its original is not above. *)
LEMMA RefersTo ==
  ASSUME NEW m, NEW H, NEW named, Sound(m, H, named), NEW a \in Live(m), Owner(m, a),
         NEW c \in Live(m), NEW d \in Cell \ Live(m)
  PROVE  LET n == create_reference(m, d, c)
         IN  /\ Sound(n, H \cup {d}, named) /\ a \in Live(n) \ Doomed(n, d) /\ Owner(n, a)
             /\ n.item[a].kind = m.item[a].kind /\ (H \cup {d}) \ {d} = H
<1> DEFINE n == create_reference(m, d, c)
<1>1. m \in Memory /\ H \subseteq Live(m)
  BY DEF Sound, Tied
<1>2. Refers(m, d, n)
  BY <1>1, create_referenceIs
<1> HIDE DEF n
<1>3. /\ Sound(n, H \cup {d}, named) /\ Live(n) = Live(m) \cup {d} /\ Kept(m, n, Live(m))
      /\ Doomed(n, d) = {d}
  BY <1>2, SoundRefers
<1>4. n.item[a] = m.item[a]
  BY <1>3 DEF Kept
<1> QED BY <1>1, <1>3, <1>4 DEF Owner, n

(* cJSON_AddItemReferenceToArray. *)
LEMMA AddItemReferenceToArrayInv == ASSUME TreeInv, AddItemReferenceToArray PROVE TreeInv'
<1>1. PICK a \in Arrays, c \in Held, s \in OneItem :
        s # <<>> /\ Holding(add_item_to_array(create_reference(mem, s[1], c), a, s[1]), roots, lost)
  BY DEF AddItemReferenceToArray
<1> DEFINE d == s[1]
           n == create_reference(mem, d, c)
           p == add_item_to_array(n, a, d)
<1>2. /\ a \in Live(mem) /\ Owner(mem, a) /\ mem.item[a].kind = "array" /\ c \in Live(mem)
      /\ d \in Cell \ Live(mem)
  BY <1>1, HeldLive, Supplied
<1>3. Sound(mem, roots \cup lost, ~unnamed) /\ roots \cap lost = {}
  BY InvFacts
<1>4. Holding(p, roots, lost)
  BY <1>1
<1> HIDE DEF d
<1>5. /\ Sound(n, (roots \cup lost) \cup {d}, ~unnamed) /\ a \in Live(n) \ Doomed(n, d)
      /\ Owner(n, a) /\ n.item[a].kind = mem.item[a].kind
      /\ ((roots \cup lost) \cup {d}) \ {d} = roots \cup lost
  BY <1>2, <1>3, RefersTo
<1> HIDE DEF n
<1>6. Sound(p, ((roots \cup lost) \cup {d}) \ {d}, ~unnamed)
  <2>1. d \in (roots \cup lost) \cup {d}
    OBVIOUS
  <2> QED BY <1>2, <1>5, <2>1, SoundAppend
<1> HIDE DEF p
<1>7. Sound(p, roots \cup lost, ~unnamed)
  BY <1>5, <1>6
<1> QED BY <1>3, <1>4, <1>7, HoldingInv

(* cJSON_AddItemReferenceToObject, and when it fails. *)
LEMMA AddItemReferenceToObjectInv == ASSUME TreeInv, AddItemReferenceToObject PROVE TreeInv'
<1>1. PICK o \in Objects, c \in Held, name \in Name, s \in OneItem, given \in BOOLEAN :
        /\ s # <<>>
        /\ IF given
           THEN Holding(add_item_to_array(Rename(create_reference(mem, s[1], c), s[1], name, FALSE),
                                          o, s[1]), roots, lost)
           ELSE Holding(create_reference(mem, s[1], c), roots, lost \cup {s[1]})
  BY Zenon DEF AddItemReferenceToObject
<1>10. PICK no \in BOOLEAN : no = FALSE
  OBVIOUS
<1> DEFINE d == s[1]
           n == create_reference(mem, d, c)
           q == Rename(n, d, name, no)
           p == add_item_to_array(q, o, d)
<1>2. /\ o \in Live(mem) /\ Owner(mem, o) /\ c \in Live(mem)
      /\ d \in Cell \ Live(mem)
  BY <1>1, HeldLive, Supplied
<1>3. /\ Sound(mem, roots \cup lost, ~unnamed) /\ roots \cap lost = {}
      /\ roots \subseteq Live(mem) /\ lost \subseteq Live(mem)
  BY InvFacts
<1>4. IF given THEN Holding(p, roots, lost) ELSE Holding(n, roots, lost \cup {d})
  <2>1. q = Rename(n, d, name, FALSE)
    BY <1>10, Zenon
  <2> QED BY <1>1, <2>1
<1> HIDE DEF d
<1>5. /\ Sound(n, (roots \cup lost) \cup {d}, ~unnamed) /\ o \in Live(n) \ Doomed(n, d)
      /\ Owner(n, o) /\ ((roots \cup lost) \cup {d}) \ {d} = roots \cup lost
  BY <1>2, <1>3, RefersTo
<1> HIDE DEF n
<1>6. CASE given
  <2>1. name \in Name \cup {NULL} /\ name # NULL /\ d \in (roots \cup lost) \cup {d}
    BY NullAssumption
  <2>2. /\ Sound(q, (roots \cup lost) \cup {d}, ~unnamed) /\ o \in Live(q) \ Doomed(q, d)
        /\ Owner(q, o) /\ q.item[d].name = name
    BY <1>5, <2>1, Renamed
  <2> HIDE DEF q
  <2>3. Sound(p, ((roots \cup lost) \cup {d}) \ {d}, ~unnamed)
    BY <2>1, <2>2, SoundAppend
  <2> HIDE DEF p
  <2>4. Sound(p, roots \cup lost, ~unnamed)
    BY <1>5, <2>3
  <2> QED BY <1>3, <1>4, <1>6, <2>4, HoldingInv
<1>7. CASE ~given
  <2>1. roots \cup (lost \cup {d}) = (roots \cup lost) \cup {d} /\ roots \cap (lost \cup {d}) = {}
    BY <1>2, <1>3
  <2>2. Sound(n, roots \cup (lost \cup {d}), ~unnamed)
    BY <1>5, <2>1
  <2>3. Holding(n, roots, lost \cup {d})
    BY <1>4, <1>7
  <2> QED BY <2>1, <2>2, <2>3, HoldingInv
<1> QED BY <1>6, <1>7

(* cJSON_AddNullToObject and its like, and when they fail. *)
LEMMA AddNewToObjectInv == ASSUME TreeInv, AddNewToObject PROVE TreeInv'
<1>1. PICK o \in Objects, name \in Name, kind \in Kinds, s \in OneItem, ink \in 0 .. 2 :
        LET r == CreateItem(mem, kind, s, ink)
        IN IF r.item # NULL /\ r.ink > 0
           THEN /\ r.ink = 1
                /\ Holding(add_item_to_array(Rename(r.mem, r.item, name, FALSE), o, r.item), roots, lost)
           ELSE r.ink = 0 /\ Holding(cJSON_Delete(r.mem, r.item), roots, lost)
  BY DEF AddNewToObject
<1>10. PICK no \in BOOLEAN : no = FALSE
  OBVIOUS
<1> DEFINE r == CreateItem(mem, kind, s, ink)
           d == r.item
           q == Rename(r.mem, d, name, no)
           p == add_item_to_array(q, o, d)
           H == roots \cup lost
<1>2. o \in Live(mem) /\ Owner(mem, o)
  BY HeldLive
<1>3. Sound(mem, H, ~unnamed) /\ roots \cap lost = {} /\ H \subseteq Live(mem)
  BY InvFacts
<1>4. kind \in Kind \ {"free"} /\ ink \in Nat /\ Supply(mem, s)
  BY TreeAssumption, Supplied
<1>5. /\ Kept(mem, r.mem, Live(mem))
      /\ d = NULL => Sound(r.mem, H, ~unnamed)
      /\ d # NULL =>
           /\ Sound(r.mem, H \cup {d}, ~unnamed)
           /\ d \in Cell \ Live(mem) /\ Live(r.mem) = Live(mem) \cup {d}
           /\ r.mem.item[d].child = NULL /\ r.mem.item[d].next = NULL
  <2> DEFINE named == ~unnamed
  <2>2. Sound(mem, H, named)
    BY <1>3
  <2> HIDE DEF H, named
  <2>1. Created(mem, H, named, kind, r)
    BY <1>4, <2>2, CreateItemSound
  <2> HIDE DEF r
  <2> QED BY <2>1 DEF named, Created
<1>6. IF d # NULL /\ r.ink > 0 THEN Holding(p, roots, lost)
      ELSE Holding(cJSON_Delete(r.mem, d), roots, lost)
  <2>1. q = Rename(r.mem, d, name, FALSE)
    BY <1>10, Zenon
  <2> HIDE DEF r
  <2> QED BY <1>1, <2>1 DEF r
<1> HIDE DEF r, d, H
<1>7. CASE d = NULL
  <2>1. Holding(r.mem, roots, lost)
    BY <1>6, <1>7 DEF cJSON_Delete
  <2>2. Sound(r.mem, roots \cup lost, ~unnamed)
    BY <1>5, <1>7 DEF H
  <2> QED BY <1>3, <2>1, <2>2, HoldingInv
<1>8. CASE d # NULL
  <2>1. /\ Sound(r.mem, H \cup {d}, ~unnamed) /\ d \in Cell \ Live(mem)
        /\ Live(r.mem) = Live(mem) \cup {d} /\ d \in H \cup {d} /\ (H \cup {d}) \ {d} = H
    BY <1>3, <1>5, <1>8
  <2>2. Doomed(r.mem, d) = {d}
    <3>1. r.mem \in Memory /\ Linked(r.mem) /\ d \in Live(r.mem)
      BY <2>1 DEF Sound, Tied
    <3> QED BY <1>5, <1>8, <3>1, DoomedAlone
  <2>3. o \in Live(r.mem) \ Doomed(r.mem, d) /\ Owner(r.mem, o)
    <3>1. r.mem.item[o] = mem.item[o]
      BY <1>2, <1>5 DEF Kept
    <3> QED BY <1>2, <2>1, <2>2, <3>1 DEF Owner
  <2>4. CASE r.ink > 0
    <3>1. name \in Name \cup {NULL} /\ name # NULL
      BY NullAssumption
    <3>2. /\ Sound(q, H \cup {d}, ~unnamed) /\ o \in Live(q) \ Doomed(q, d)
          /\ Owner(q, o) /\ q.item[d].name = name
      BY <2>1, <2>3, <3>1, Renamed
    <3> HIDE DEF q
    <3>3. Sound(p, (H \cup {d}) \ {d}, ~unnamed)
      BY <2>1, <3>1, <3>2, SoundAppend
    <3>4. Sound(p, roots \cup lost, ~unnamed)
      BY <2>1, <3>3 DEF H
    <3> HIDE DEF p
    <3> QED BY <1>3, <1>6, <1>8, <2>4, <3>4, HoldingInv
  <2>5. CASE ~(r.ink > 0)
    <3> DEFINE z == cJSON_Delete(r.mem, d)
    <3>1. Sound(z, (H \cup {d}) \ {d}, ~unnamed)
      BY <2>1, SoundDelete
    <3>2. Sound(z, roots \cup lost, ~unnamed)
      BY <2>1, <3>1 DEF H
    <3>3. Holding(z, roots, lost)
      BY <1>6, <2>5
    <3> HIDE DEF z
    <3> QED BY <1>3, <3>2, <3>3, HoldingInv
  <2> QED BY <2>4, <2>5
<1> QED BY <1>7, <1>8

(* cJSON_Delete of a root. *)
LEMMA DeleteInv == ASSUME TreeInv, Delete PROVE TreeInv'
<1>1. PICK r \in roots : Holding(cJSON_Delete(mem, r), roots \ {r}, lost)
  BY DEF Delete
<1> DEFINE n == cJSON_Delete(mem, r)
<1>2. Sound(mem, roots \cup lost, ~unnamed) /\ roots \cap lost = {} /\ r \in roots \cup lost
  BY InvFacts
<1>3. Sound(n, (roots \cup lost) \ {r}, ~unnamed)
  BY <1>2, SoundDelete
<1>4. (roots \ {r}) \cup lost = (roots \cup lost) \ {r} /\ (roots \ {r}) \cap lost = {}
  BY <1>2
<1>5. Holding(n, roots \ {r}, lost)
  BY <1>1
<1> HIDE DEF n
<1>6. Sound(n, (roots \ {r}) \cup lost, ~unnamed)
  BY <1>3, <1>4
<1> QED BY <1>4, <1>5, <1>6, HoldingInv

(* What is taken out of a list is the client's, or is deleted. *)
LEMMA DetachedInv ==
  ASSUME TreeInv, NEW a, NEW i, MemberOf(mem, a, i),
         \/ Holding(cJSON_DetachItemViaPointer(mem, a, i), roots \cup {i}, lost)
         \/ Holding(cJSON_Delete(cJSON_DetachItemViaPointer(mem, a, i), i), roots, lost)
  PROVE  TreeInv'
<1> DEFINE n == cJSON_DetachItemViaPointer(mem, a, i)
           p == cJSON_Delete(n, i)
<1>1. /\ Sound(mem, roots \cup lost, ~unnamed) /\ roots \cap lost = {}
      /\ lost \subseteq Live(mem)
  BY InvFacts
<1>2. /\ Sound(n, (roots \cup lost) \cup {i}, ~unnamed) /\ i \notin roots \cup lost
  BY <1>1, SoundDetach
<1>3. Holding(n, roots \cup {i}, lost) \/ Holding(p, roots, lost)
  OBVIOUS
<1> HIDE DEF n
<1>4. /\ (roots \cup {i}) \cup lost = (roots \cup lost) \cup {i}
      /\ (roots \cup {i}) \cap lost = {} /\ ((roots \cup lost) \cup {i}) \ {i} = roots \cup lost
      /\ i \in (roots \cup lost) \cup {i}
  BY <1>1, <1>2
<1>5. CASE Holding(n, roots \cup {i}, lost)
  <2>1. Sound(n, (roots \cup {i}) \cup lost, ~unnamed)
    BY <1>2, <1>4
  <2> QED BY <1>4, <1>5, <2>1, HoldingInv
<1>6. CASE Holding(p, roots, lost)
  <2>1. Sound(p, ((roots \cup lost) \cup {i}) \ {i}, ~unnamed)
    BY <1>2, <1>4, SoundDelete
  <2> HIDE DEF p
  <2>2. Sound(p, roots \cup lost, ~unnamed)
    BY <1>4, <2>1
  <2> QED BY <1>1, <1>6, <2>2, HoldingInv
<1> QED BY <1>3, <1>5, <1>6

(* cJSON_DetachItemFromArray, and cJSON_DeleteItemFromArray. *)
LEMMA DetachItemFromArrayInv == ASSUME TreeInv, DetachItemFromArray PROVE TreeInv'
<1>1. PICK a \in Arrays \cup Objects : \E which \in 0 .. (Len(Children(mem, a)) - 1) :
        LET i == get_array_item(mem, a, which)
            m == cJSON_DetachItemViaPointer(mem, a, i)
        IN \/ Holding(m, roots \cup {i}, lost)
           \/ Holding(cJSON_Delete(m, i), roots, lost)
  BY DEF DetachItemFromArray
<1>2. PICK which \in 0 .. (Len(Children(mem, a)) - 1) :
        LET i == get_array_item(mem, a, which)
            m == cJSON_DetachItemViaPointer(mem, a, i)
        IN \/ Holding(m, roots \cup {i}, lost)
           \/ Holding(cJSON_Delete(m, i), roots, lost)
  BY <1>1
<1> DEFINE i == get_array_item(mem, a, which)
<1>3. a \in Live(mem) /\ Owner(mem, a) /\ mem \in Memory /\ Linked(mem)
  BY HeldLive, InvFacts
<1>4. which \in 0 .. Len(Children(mem, a)) /\ which < Len(Children(mem, a))
  <2>1. Len(Children(mem, a)) \in 0 .. Cardinality(Cell)
    BY <1>3, ChildrenAre
  <2> DEFINE k == Len(Children(mem, a))
  <2>2. k \in Int
    <3>1. Cardinality(Cell) \in Nat
      BY CellAssumption, FS_CardinalityType
    <3> QED BY <2>1, <3>1
  <2> HIDE DEF k
  <2>3. which \in 0 .. (k - 1)
    BY DEF k
  <2>4. which \in 0 .. k /\ which < k
    BY <2>2, <2>3
  <2> QED BY <2>4 DEF k
<1>5. MemberOf(mem, a, i)
  BY <1>3, <1>4, GotFromArray
<1>6. \/ Holding(cJSON_DetachItemViaPointer(mem, a, i), roots \cup {i}, lost)
      \/ Holding(cJSON_Delete(cJSON_DetachItemViaPointer(mem, a, i), i), roots, lost)
  BY <1>2
<1> HIDE DEF i
<1> QED BY <1>5, <1>6, DetachedInv

(* A lookup crashes when a replacement has lost its name. *)
LEMMA CrashInv ==
  ASSUME TreeInv, NEW m, NEW H, Sound(m, H, ~unnamed), NEW o \in Live(m), Owner(m, o),
         m.item[o].kind = "object", NEW name, NEW sensitive,
         Crashes(m, o, name, sensitive), Crash
  PROVE  TreeInv'
<1>1. m \in Memory /\ Linked(m) /\ (~unnamed => Named(m))
  BY DEF Sound, Tied
<1>2. ~Named(m)
  BY <1>1, CrashMeans
<1>3. /\ Sound(mem, roots \cup lost, ~unnamed) /\ roots \cap lost = {} /\ unnamed \in BOOLEAN
  BY InvFacts
<1>4. /\ mem' = mem /\ roots' = roots /\ lost' = lost /\ unnamed' = unnamed
      /\ crashed' \in BOOLEAN /\ (crashed' => unnamed)
  BY <1>1, <1>2 DEF Crash
<1> QED BY <1>3, <1>4, StepInv

(* cJSON_DetachItemFromObject and its like. *)
LEMMA DetachItemFromObjectInv == ASSUME TreeInv, DetachItemFromObject PROVE TreeInv'
<1>1. PICK o \in Objects, name \in Name, sensitive \in BOOLEAN :
        IF Crashes(mem, o, name, sensitive) THEN Crash
        ELSE LET i == get_object_item(mem, o, name, sensitive)
                 m == cJSON_DetachItemViaPointer(mem, o, i)
             IN /\ i # NULL
                /\ \/ Holding(m, roots \cup {i}, lost)
                   \/ Holding(cJSON_Delete(m, i), roots, lost)
  BY DEF DetachItemFromObject
<1>2. /\ o \in Live(mem) /\ Owner(mem, o) /\ mem.item[o].kind = "object"
      /\ mem \in Memory /\ Linked(mem) /\ Sound(mem, roots \cup lost, ~unnamed)
  BY HeldLive, InvFacts
<1>3. CASE Crashes(mem, o, name, sensitive)
  BY <1>1, <1>2, <1>3, CrashInv
<1>4. CASE ~Crashes(mem, o, name, sensitive)
  <2> DEFINE i == get_object_item(mem, o, name, sensitive)
  <2>1. /\ i # NULL
        /\ \/ Holding(cJSON_DetachItemViaPointer(mem, o, i), roots \cup {i}, lost)
           \/ Holding(cJSON_Delete(cJSON_DetachItemViaPointer(mem, o, i), i), roots, lost)
    BY <1>1, <1>4
  <2>2. MemberOf(mem, o, i)
    BY <1>2, <2>1, GotFromObject
  <2> HIDE DEF i
  <2> QED BY <2>1, <2>2, DetachedInv
<1> QED BY <1>3, <1>4

(* cJSON_InsertItemInArray, which appends where nothing is. *)
LEMMA InsertItemInArrayInv == ASSUME TreeInv, InsertItemInArray PROVE TreeInv'
<1>1. PICK a \in Arrays : \E i \in Addable(a), which \in 0 .. Len(Children(mem, a)) :
        LET after == get_array_item(mem, a, which)
        IN Holding(IF after = NULL THEN add_item_to_array(mem, a, i)
                   ELSE InsertBefore(mem, a, after, i), roots \ {i}, lost)
  BY DEF InsertItemInArray
<1>2. PICK i \in Addable(a), which \in 0 .. Len(Children(mem, a)) :
        LET after == get_array_item(mem, a, which)
        IN Holding(IF after = NULL THEN add_item_to_array(mem, a, i)
                   ELSE InsertBefore(mem, a, after, i), roots \ {i}, lost)
  BY <1>1
<1> DEFINE after == get_array_item(mem, a, which)
           n == IF after = NULL THEN add_item_to_array(mem, a, i) ELSE InsertBefore(mem, a, after, i)
<1>3. /\ a \in Live(mem) \ Doomed(mem, i) /\ Owner(mem, a) /\ mem.item[a].kind = "array"
      /\ i \in roots \cup lost /\ (roots \ {i}) \cup lost = (roots \cup lost) \ {i}
      /\ (roots \ {i}) \cap lost = {}
  BY HeldLive
<1>4. Sound(mem, roots \cup lost, ~unnamed) /\ mem \in Memory /\ Linked(mem)
  BY InvFacts
<1>5. after # NULL => MemberOf(mem, a, after)
  BY <1>3, <1>4, GotFromArray
<1>6. Holding(n, roots \ {i}, lost)
  BY <1>2
<1> HIDE DEF after
<1>7. Sound(n, (roots \cup lost) \ {i}, ~unnamed)
  <2>1. CASE after = NULL
    <3>1. Sound(add_item_to_array(mem, a, i), (roots \cup lost) \ {i}, ~unnamed)
      BY <1>3, <1>4, SoundAppend
    <3> QED BY <2>1, <3>1
  <2>2. CASE after # NULL
    <3>1. Sound(InsertBefore(mem, a, after, i), (roots \cup lost) \ {i}, ~unnamed)
      BY <1>3, <1>4, <1>5, <2>2, SoundInsert
    <3> QED BY <2>2, <3>1
  <2> QED BY <2>1, <2>2
<1> HIDE DEF n
<1>8. Sound(n, (roots \ {i}) \cup lost, ~unnamed)
  BY <1>3, <1>7
<1> QED BY <1>3, <1>6, <1>8, HoldingInv

(* cJSON_ReplaceItemInArray, and when there is nothing to replace. *)
LEMMA ReplaceItemInArrayInv == ASSUME TreeInv, ReplaceItemInArray PROVE TreeInv'
<1>1. PICK a \in Arrays : \E i \in Addable(a), which \in 0 .. Len(Children(mem, a)) :
        LET old == get_array_item(mem, a, which)
        IN Holding(cJSON_ReplaceItemViaPointer(mem, a, old, i), roots \ {i},
                   IF old = NULL THEN lost \cup {i} ELSE lost)
  BY DEF ReplaceItemInArray
<1>2. PICK i \in Addable(a), which \in 0 .. Len(Children(mem, a)) :
        LET old == get_array_item(mem, a, which)
        IN Holding(cJSON_ReplaceItemViaPointer(mem, a, old, i), roots \ {i},
                   IF old = NULL THEN lost \cup {i} ELSE lost)
  BY <1>1
<1> DEFINE old == get_array_item(mem, a, which)
           n == cJSON_ReplaceItemViaPointer(mem, a, old, i)
<1>3. /\ a \in Live(mem) \ Doomed(mem, i) /\ Owner(mem, a) /\ mem.item[a].kind = "array"
      /\ i \in roots \cup lost /\ (roots \ {i}) \cup lost = (roots \cup lost) \ {i}
      /\ (roots \ {i}) \cap lost = {} /\ i \in roots
  BY HeldLive
<1>4. Sound(mem, roots \cup lost, ~unnamed) /\ mem \in Memory /\ Linked(mem)
  BY InvFacts
<1>5. old # NULL => MemberOf(mem, a, old)
  BY <1>3, <1>4, GotFromArray
<1>6. Holding(n, roots \ {i}, IF old = NULL THEN lost \cup {i} ELSE lost)
  BY <1>2
<1> HIDE DEF old
<1>7. CASE old = NULL
  <2>1. Holding(mem, roots \ {i}, lost \cup {i})
    BY <1>6, <1>7 DEF cJSON_ReplaceItemViaPointer
  <2>2. (roots \ {i}) \cup (lost \cup {i}) = roots \cup lost /\ (roots \ {i}) \cap (lost \cup {i}) = {}
    BY <1>3
  <2>3. Sound(mem, (roots \ {i}) \cup (lost \cup {i}), ~unnamed)
    BY <1>4, <2>2
  <2> QED BY <2>1, <2>2, <2>3, HoldingInv
<1>8. CASE old # NULL
  <2>1. Sound(n, (roots \cup lost) \ {i}, ~unnamed)
    BY <1>3, <1>4, <1>5, <1>8, SoundReplace
  <2> HIDE DEF n
  <2>2. Sound(n, (roots \ {i}) \cup lost, ~unnamed)
    BY <1>3, <2>1
  <2>3. Holding(n, roots \ {i}, lost)
    BY <1>6, <1>8
  <2> QED BY <1>3, <2>2, <2>3, HoldingInv
<1> QED BY <1>7, <1>8

(* cJSON_ReplaceItemInObject: the replacement is renamed first. *)
LEMMA ReplaceItemInObjectInv == ASSUME TreeInv, ReplaceItemInObject PROVE TreeInv'
<1>1. PICK o \in Objects, name \in Name, given \in BOOLEAN, sensitive \in BOOLEAN :
        \E i \in Addable(o) :
          LET renamed == Rename(mem, i, IF given THEN name ELSE NULL, FALSE)
              old == get_object_item(renamed, o, name, sensitive)
          IN IF Crashes(renamed, o, name, sensitive) THEN Crash
             ELSE /\ old = NULL \/ ~given => Fails
                  /\ mem' = cJSON_ReplaceItemViaPointer(renamed, o, old, i)
                  /\ roots' = roots \ {i}
                  /\ lost' = IF old = NULL THEN lost \cup {i} ELSE lost
                  /\ unnamed' = (unnamed \/ ~given)
                  /\ UNCHANGED crashed
  BY DEF ReplaceItemInObject
<1>2. PICK i \in Addable(o) :
          LET renamed == Rename(mem, i, IF given THEN name ELSE NULL, FALSE)
              old == get_object_item(renamed, o, name, sensitive)
          IN IF Crashes(renamed, o, name, sensitive) THEN Crash
             ELSE /\ old = NULL \/ ~given => Fails
                  /\ mem' = cJSON_ReplaceItemViaPointer(renamed, o, old, i)
                  /\ roots' = roots \ {i}
                  /\ lost' = IF old = NULL THEN lost \cup {i} ELSE lost
                  /\ unnamed' = (unnamed \/ ~given)
                  /\ UNCHANGED crashed
  BY <1>1
<1>3. PICK no \in BOOLEAN : no = FALSE
  OBVIOUS
<1> DEFINE key == IF given THEN name ELSE NULL
           n == Rename(mem, i, key, no)
           old == get_object_item(n, o, name, sensitive)
           u == unnamed \/ ~given
           p == cJSON_ReplaceItemViaPointer(n, o, old, i)
<1>4. /\ o \in Live(mem) \ Doomed(mem, i) /\ Owner(mem, o) /\ mem.item[o].kind = "object"
      /\ i \in roots \cup lost /\ (roots \ {i}) \cup lost = (roots \cup lost) \ {i}
      /\ (roots \ {i}) \cap lost = {} /\ i \in roots
  BY HeldLive
<1>5. /\ Sound(mem, roots \cup lost, ~unnamed) /\ mem \in Memory /\ Linked(mem)
      /\ unnamed \in BOOLEAN /\ crashed \in BOOLEAN /\ (crashed => unnamed)
  BY InvFacts
<1>6. key \in Name \cup {NULL} /\ (given => key # NULL)
  BY NullAssumption
<1>7. n = Rename(mem, i, key, FALSE)
  BY <1>3, Zenon
<1>8. IF Crashes(n, o, name, sensitive) THEN Crash
      ELSE /\ mem' = p /\ roots' = roots \ {i}
           /\ lost' = IF old = NULL THEN lost \cup {i} ELSE lost
           /\ unnamed' = u /\ crashed' = crashed
  <2> HIDE DEF n
  <2> QED BY <1>2, <1>7
<1> HIDE DEF key
<1>9. /\ Sound(n, roots \cup lost, ~unnamed) /\ o \in Live(n) \ Doomed(n, i) /\ Owner(n, o)
      /\ n.item[o].kind = mem.item[o].kind /\ n.item[i].name = key
  <2> DEFINE named == ~unnamed
             H == roots \cup lost
  <2>1. Sound(mem, H, named)
    BY <1>5
  <2>2. i \in H /\ o \in Live(mem) \ Doomed(mem, i) /\ Owner(mem, o)
    BY <1>4
  <2> HIDE DEF named, H
  <2>3. /\ Sound(n, H, named) /\ o \in Live(n) \ Doomed(n, i) /\ Owner(n, o)
        /\ n.item[o].kind = mem.item[o].kind /\ n.item[i].name = key
    BY <1>6, <2>1, <2>2, Renamed
  <2> QED BY <2>3 DEF named, H
<1> HIDE DEF n
<1>10. CASE Crashes(n, o, name, sensitive)
  <2>1. n.item[o].kind = "object" /\ o \in Live(n) /\ Crash
    BY <1>4, <1>8, <1>9, <1>10
  <2> QED BY <1>9, <1>10, <2>1, CrashInv
<1>11. CASE ~Crashes(n, o, name, sensitive)
  <2>1. u \in BOOLEAN /\ crashed' \in BOOLEAN /\ (crashed' => u) /\ unnamed' = u
    BY <1>5, <1>8, <1>11
  <2>2. ~u => key # NULL
    BY <1>6
  <2>3. Sound(n, roots \cup lost, ~u)
    <3>1. ~u => ~unnamed
      OBVIOUS
    <3> HIDE DEF u
    <3> QED BY <1>9, <3>1, SoundWeaker
  <2>4. n \in Memory /\ Linked(n)
    BY <1>9 DEF Sound, Tied
  <2>5. old # NULL => MemberOf(n, o, old)
    BY <1>9, <2>4, GotFromObject
  <2>6. mem' = p /\ roots' = roots \ {i}
    BY <1>8, <1>11
  <2>7. lost' = IF old = NULL THEN lost \cup {i} ELSE lost
    BY <1>8, <1>11
  <2> HIDE DEF old, u
  <2>8. CASE old = NULL
    <3>1. mem' = n /\ lost' = lost \cup {i}
      BY <2>6, <2>7, <2>8 DEF cJSON_ReplaceItemViaPointer
    <3>2. (roots \ {i}) \cup (lost \cup {i}) = roots \cup lost /\ (roots \ {i}) \cap (lost \cup {i}) = {}
      BY <1>4
    <3>3. Sound(n, (roots \ {i}) \cup (lost \cup {i}), ~u)
      BY <2>3, <3>2
    <3> QED BY <2>1, <2>6, <3>1, <3>2, <3>3, StepInv
  <2>9. CASE old # NULL
    <3>1. Sound(p, (roots \cup lost) \ {i}, ~u)
      BY <1>4, <1>9, <2>2, <2>3, <2>5, <2>9, SoundReplace
    <3> HIDE DEF p
    <3>2. Sound(p, (roots \ {i}) \cup lost, ~u)
      BY <1>4, <3>1
    <3>3. lost' = lost
      BY <2>7, <2>9
    <3> QED BY <1>4, <2>1, <2>6, <3>2, <3>3, StepInv
  <2> QED BY <2>8, <2>9
<1> QED BY <1>10, <1>11

-----------------------------------------------------------------------------
(* The loop of cJSON_CreateIntArray *)

(* A list is what it was when its items are. *)
LEMMA KeptLastOf ==
  ASSUME NEW m \in Memory, Linked(m), NEW a \in Live(m), Owner(m, a),
         NEW n, Kept(m, n, Live(m)), Live(m) \subseteq Live(n),
         NEW last \in Pointer, LastOf(m, a, last)
  PROVE  LastOf(n, a, last)
<1>1. CASE last = NULL
  <2>1. n.item[a].child = NULL
    BY <1>1 DEF LastOf, Kept
  <2> QED BY <1>1, <2>1 DEF LastOf
<1>2. CASE last # NULL
  <2>1. MemberOf(m, a, last) /\ m.item[last].next = NULL
    BY <1>2 DEF LastOf
  <2>2. last \in Live(m) /\ last \in Chain(m, a) /\ n.item[a] = m.item[a] /\ n.item[last] = m.item[last]
    <3>1. last \in Live(m)
      BY <2>1, MemberFacts
    <3> QED BY <2>1, <3>1 DEF MemberOf, Kept
  <2>3. ASSUME NEW S \in SUBSET Cell, n.item[a].child # NULL => n.item[a].child \in S,
               \A y \in S : n.item[y].next # NULL => n.item[y].next \in S
        PROVE  last \in S
    <3> DEFINE T == S \cap Live(m)
    <3>1. T \in SUBSET Cell
      OBVIOUS
    <3>2. m.item[a].child # NULL => m.item[a].child \in T
      BY <2>2, <2>3 DEF Linked
    <3>3. \A y \in T : m.item[y].next # NULL => m.item[y].next \in T
      BY <2>3 DEF Linked, Kept
    <3>4. Chain(m, a) \subseteq T
      BY <3>1, <3>2, <3>3, ChainWithin
    <3> QED BY <2>2, <3>4
  <2>4. last \in Chain(n, a)
    <3>1. last \in Cell
      BY <2>2 DEF Live
    <3> QED BY <2>3, <3>1 DEF Chain
  <2>5. a \in Live(n) /\ Owner(n, a)
    BY <2>2 DEF Owner
  <2> QED BY <1>2, <2>1, <2>2, <2>4, <2>5 DEF LastOf, MemberOf
<1> QED BY <1>1, <1>2

(* Another root hangs from neither. *)
LEMMA RootsApart ==
  ASSUME NEW m, NEW H, NEW named, Sound(m, H, named), NEW i \in H, NEW j \in H, i # j
  PROVE  j \in Live(m) \ Doomed(m, i)
<1>1. /\ Sound(cJSON_Delete(m, i), H \ {i}, named)
      /\ Live(cJSON_Delete(m, i)) = Live(m) \ Doomed(m, i)
  BY SoundDelete
<1>2. H \ {i} \subseteq Live(cJSON_Delete(m, i))
  BY <1>1 DEF Sound, Tied
<1> QED BY <1>1, <1>2

(* Linking touches the new member, the one in front of it and the owner. *)
LEMMA LinkingOthers ==
  ASSUME NEW m \in Memory, NEW a \in Cell, NEW last \in Pointer, NEW i \in Cell
  PROVE  \A x \in Cell : x # a /\ x # last /\ x # i => Linking(m, a, last, i).item[x] = m.item[x]
<1>1. m.item \in [Cell -> Item]
  BY DEF Memory
<1>2. CASE last = NULL
  BY <1>1, <1>2 DEF Linking
<1>3. CASE last # NULL
  BY <1>1, <1>3 DEF Linking, suffix_object
<1> QED BY <1>2, <1>3

(* The items there were are as they were; there may be new ones. *)
Grew(m, n) == Live(m) \subseteq Live(n) /\ Kept(m, n, Live(m))

(* Nothing that was there hangs from a new root: whoever led to it does.   *)
LEMMA NewApart ==
  ASSUME NEW m, NEW H, NEW named, Sound(m, H, named), NEW n, NEW G, NEW less, Sound(n, G, less),
         H \subseteq G, Grew(m, n), NEW c \in G, c \notin Live(m)
  PROVE  Doomed(n, c) \cap Live(m) = {}
<1> DEFINE D == Doomed(n, c)
           U == D \ Live(m)
<1>1. /\ m \in Memory /\ Linked(m) /\ Tied(m, H) /\ n \in Memory /\ Linked(n)
      /\ c \in Live(n) /\ \A h \in H : Loose(n, h)
  BY DEF Sound, Tied
<1>2. /\ c \in D /\ D \subseteq Live(n) /\ Closed(n, D)
      /\ \A T \in SUBSET Live(n) : c \in T /\ Closed(n, T) => D \subseteq T
  BY <1>1, DoomedIs
<1> HIDE DEF D
<1>3. \A x \in Live(m) : n.item[x] = m.item[x] /\ x \in Live(n)
  BY DEF Grew, Kept
<1>4. \A y \in Live(n) : y \in Cell /\ y # NULL
  BY NullAssumption DEF Live
<1>5. ASSUME NEW y \in U, n.item[y].next # NULL PROVE n.item[y].next \in U
  <2> DEFINE z == n.item[y].next
  <2>1. y \in Live(n) /\ y \notin Live(m) /\ z \in D
    BY <1>2, <1>5 DEF Closed
  <2>2. n.item[z].prev = y
    BY <1>1, <1>5, <2>1 DEF Linked
  <2> HIDE DEF z
  <2>3. ASSUME z \in Live(m) PROVE FALSE
    <3>1. m.item[z].prev = y /\ y # NULL
      BY <1>3, <1>4, <2>1, <2>2, <2>3
    <3>2. y \in Live(m)
      BY <1>1, <2>3, <3>1 DEF Linked
    <3> QED BY <2>1, <3>2
  <2>4. z \in U
    BY <2>1, <2>3
  <2> QED BY <2>4 DEF z
<1>6. ASSUME NEW y \in U, Owner(n, y), n.item[y].child # NULL PROVE n.item[y].child \in U
  <2> DEFINE z == n.item[y].child
  <2>1. y \in Live(n) /\ y \notin Live(m) /\ z \in D
    BY <1>2, <1>6 DEF Closed
  <2>2. /\ n.item[z].prev = NULL
        /\ \A x \in Live(n) : Owner(n, x) /\ n.item[x].child = z => x = y
    BY <1>1, <1>6, <2>1 DEF Linked
  <2>3. n.item[y].child = z
    OBVIOUS
  <2> HIDE DEF z
  <2>4. ASSUME z \in Live(m) PROVE FALSE
    <3>1. CASE z \in H
      BY <1>1, <1>6, <2>1, <2>3, <3>1 DEF Loose
    <3>2. CASE z \notin H
      <4>1. PICK a \in Live(m) : MemberOf(m, a, z)
        BY <1>1, <2>4, <3>2, Somewhere
      <4>2. m.item[z].prev = NULL
        BY <1>3, <2>2, <2>4
      <4>3. m.item[a].child = z /\ Owner(m, a)
        BY <1>1, <4>1, <4>2, PrevInChain DEF MemberOf
      <4>4. a \in Live(n) /\ Owner(n, a) /\ n.item[a].child = z
        BY <1>3, <4>3 DEF Owner
      <4>5. a = y
        BY <2>2, <4>4
      <4> QED BY <2>1, <4>5
    <3> QED BY <3>1, <3>2
  <2>5. z \in U
    BY <2>1, <2>4
  <2> QED BY <2>5 DEF z
<1>7. Closed(n, U)
  BY <1>5, <1>6 DEF Closed
<1>8. U \in SUBSET Live(n) /\ c \in U
  BY <1>2
<1>9. D \subseteq U
  <2> HIDE DEF U
  <2> QED BY <1>2, <1>7, <1>8
<1> QED BY <1>9 DEF D

(* So that what was there survives its deletion. *)
LEMMA GrewDelete ==
  ASSUME NEW m, NEW H, NEW named, Sound(m, H, named), NEW n, NEW G, NEW less, Sound(n, G, less),
         H \subseteq G, Grew(m, n), NEW c \in G, c \notin Live(m)
  PROVE  Grew(m, cJSON_Delete(n, c))
<1>1. Doomed(n, c) \cap Live(m) = {}
  BY NewApart
<1>2. /\ Live(cJSON_Delete(n, c)) = Live(n) \ Doomed(n, c)
      /\ Kept(n, cJSON_Delete(n, c), Live(n) \ Doomed(n, c))
  BY SoundDelete
<1> QED BY <1>1, <1>2 DEF Grew, Kept

(* Nothing is new when no root is. *)
LEMMA GrewNothing ==
  ASSUME NEW m, NEW H, NEW named, Sound(m, H, named), NEW n, NEW less, Sound(n, H, less), Grew(m, n)
  PROVE  Live(n) = Live(m)
<1>1. /\ m \in Memory /\ Linked(m) /\ H \subseteq Live(m) /\ Reached(n, H)
      /\ Live(m) \subseteq Live(n) /\ \A x \in Live(m) : n.item[x] = m.item[x]
  BY DEF Sound, Tied, Grew, Kept
<1>2. Closed(n, Live(m))
  BY <1>1 DEF Closed, Linked, Owner
<1>3. Live(n) \subseteq Live(m)
  BY <1>1, <1>2 DEF Reached
<1> QED BY <1>1, <1>3

(* The memory of an outcome changes, and perhaps its item. *)
LEMMA OutcomeMem ==
  ASSUME NEW r \in Outcomes, NEW n
  PROVE  LET s == [r EXCEPT !.mem = n]
         IN  /\ s.mem = n /\ s.item = r.item /\ s.supply = r.supply /\ s.ink = r.ink
             /\ n \in Memory => s \in Outcomes
BY DEF Outcomes

(* The same, and its item. *)
LEMMA OutcomeMemItem ==
  ASSUME NEW r \in Outcomes, NEW n, NEW i
  PROVE  LET s == [r EXCEPT !.mem = n, !.item = i]
         IN  /\ s.mem = n /\ s.item = i /\ s.supply = r.supply /\ s.ink = r.ink
             /\ n \in Memory /\ i \in Pointer => s \in Outcomes
BY DEF Outcomes

(* A complete item of its own becomes the last of a's. *)
LEMMA LinkedIn ==
  ASSUME NEW m, NEW H, NEW named, Sound(m, H, named), NEW i \in H, NEW a \in H, a # i,
         Owner(m, a), NEW last \in Pointer, LastOf(m, a, last),
         named /\ m.item[a].kind = "object" => m.item[i].name # NULL
  PROVE  LET n == Linking(m, a, last, i)
         IN  /\ Sound(n, H \ {i}, named) /\ SameItems(m, n) /\ LastOf(n, a, i)
             /\ Live(n) = Live(m) /\ \A c \in Cell : Owner(n, c) <=> Owner(m, c)
             /\ \A b \in Live(m), x \in Pointer :
                  b # a /\ Owner(m, b) /\ LastOf(m, b, x) => LastOf(n, b, x)
<1> DEFINE n == Linking(m, a, last, i)
<1>1. /\ m \in Memory /\ Linked(m) /\ i \in Cell /\ a \in Cell /\ a \in Live(m) /\ Loose(m, i)
      /\ i \in Live(m)
  BY DEF Sound, Tied, Live
<1>2. a \in Live(m) \ Doomed(m, i)
  BY RootsApart
<1>3. Sound(n, H \ {i}, named)
  BY <1>2, SoundLinking
<1>4. SameItems(m, n)
  BY <1>1, LinkingFields
<1>5. Live(n) = Live(m) /\ \A c \in Cell : Owner(n, c) <=> Owner(m, c)
  BY <1>4, SameItemsFacts
<1>6. /\ LastOf(n, a, i)
      /\ \A b \in Live(m), x \in Pointer :
           b # a /\ Owner(m, b) /\ LastOf(m, b, x) => LastOf(n, b, x)
  BY <1>1, LinkingLists
<1> QED BY <1>3, <1>4, <1>5, <1>6

(* What a turn of the loop has: the array, and its last item. *)
Fills == [out : Outcomes, last : Pointer]

(* The array is the client's when it is complete; m is the memory there was. *)
Filling(m, H, named, f) ==
  /\ f \in Fills /\ Supply(f.out.mem, f.out.supply) /\ Grew(m, f.out.mem)
  /\ f.out.item = NULL => Sound(f.out.mem, H, named)
  /\ f.out.item # NULL =>
       /\ f.out.item \notin Live(m) /\ f.last \notin Live(m)
       /\ Sound(f.out.mem, H \cup {f.out.item}, named)
       /\ Owner(f.out.mem, f.out.item) /\ f.out.mem.item[f.out.item].kind = "array"
       /\ LastOf(f.out.mem, f.out.item, f.last)

(* A turn of the loop keeps it. *)
LEMMA FillNextKeeps ==
  ASSUME NEW m, NEW H, NEW named, Sound(m, H, named), NEW f, Filling(m, H, named, f),
         NEW kind \in Kind \ {"free"}
  PROVE  Filling(m, H, named, FillNext(f, kind))
<1> DEFINE array == f.out.item
           made == CreateItem(f.out.mem, kind, f.out.supply, f.out.ink)
           drop == [made EXCEPT !.mem = cJSON_Delete(@, array)]
           more == [made EXCEPT !.mem = Linking(@, array, f.last, made.item), !.item = array]
           g == FillNext(f, kind)
<1>1. g = IF array = NULL THEN f
          ELSE IF made.item = NULL THEN [f EXCEPT !.out = drop]
          ELSE [out |-> more, last |-> made.item]
  BY DEF FillNext
<1>2. /\ f.out \in Outcomes /\ f.last \in Pointer /\ f.out.ink \in Nat /\ f.out.item \in Pointer
      /\ Supply(f.out.mem, f.out.supply) /\ f = [out |-> f.out, last |-> f.last]
  BY DEF Filling, Fills, Outcomes
<1>3. CASE array = NULL
  BY <1>1, <1>3
<1>4. CASE array # NULL
  <2> DEFINE w == f.out.mem
             G == H \cup {array}
  <2>1. /\ Sound(w, G, named) /\ array \notin Live(m) /\ Owner(w, array)
        /\ w.item[array].kind = "array" /\ LastOf(w, array, f.last)
        /\ Grew(m, w) /\ f.last \notin Live(m)
    BY <1>4 DEF Filling
  <2>0. H \subseteq Live(m)
    BY DEF Sound, Tied
  <2>2. Created(w, G, named, kind, made)
    BY <1>2, <2>1, CreateItemSound
  <2>3. array \in G /\ G \ {array} = H /\ array \in Live(w) /\ w \in Memory /\ Linked(w) /\ array \in Cell
        /\ G \subseteq Live(w)
    BY <2>0, <2>1 DEF Sound, Tied, Live
  <2> HIDE DEF made
  <2>4. made \in Outcomes /\ Supply(made.mem, made.supply) /\ Kept(w, made.mem, Live(w))
        /\ made.item \in Pointer
    BY <2>2 DEF Created, Outcomes
  <2>5. CASE made.item = NULL
    <3> DEFINE d == cJSON_Delete(made.mem, array)
    <3>1. Sound(made.mem, G, named)
      BY <2>2, <2>5 DEF Created
    <3>2. Sound(d, G \ {array}, named) /\ Live(d) = Live(made.mem) \ Doomed(made.mem, array)
      BY <2>3, <3>1, SoundDelete
    <3>3. Sound(d, H, named) /\ Supply(d, made.supply) /\ d \in Memory
      BY <2>3, <2>4, <3>2, SupplyNone DEF Sound
    <3>4. drop.mem = d /\ drop.item = NULL /\ drop.supply = made.supply /\ drop \in Outcomes
      <4>1. drop = [made EXCEPT !.mem = d]
        OBVIOUS
      <4> HIDE DEF d, drop
      <4> QED BY <2>4, <2>5, <3>3, <4>1, OutcomeMem
    <3>9. Grew(m, d)
      <4>1. Live(made.mem) = Live(w)
        BY <2>2, <2>5 DEF Created
      <4>2. Grew(m, made.mem)
        BY <2>1, <2>4, <4>1 DEF Grew, Kept
      <4>3. H \subseteq G
        OBVIOUS
      <4> HIDE DEF G, d, array
      <4>4. Grew(m, cJSON_Delete(made.mem, array))
        BY <2>1, <2>3, <3>1, <4>2, <4>3, GrewDelete
      <4> QED BY <4>4 DEF d
    <3> HIDE DEF drop, d, g, array
    <3>5. g = [f EXCEPT !.out = drop]
      BY <1>1, <1>4, <2>5
    <3>6. g = [out |-> drop, last |-> f.last]
      BY <1>2, <3>5
    <3>7. g.out = drop /\ g.last = f.last /\ g \in Fills
      BY <1>2, <3>4, <3>6 DEF Fills
    <3>8. Filling(m, H, named, g)
      BY <3>3, <3>4, <3>7, <3>9 DEF Filling
    <3> QED BY <3>8 DEF g
  <2>6. CASE made.item # NULL
    <3> DEFINE c == made.item
               v == made.mem
               n == Linking(v, array, f.last, c)
    <3>1. /\ Sound(v, G \cup {c}, named) /\ c \in Cell \ Live(w) /\ Live(v) = Live(w) \cup {c}
      BY <2>2, <2>6 DEF Created
    <3>2. v.item[array] = w.item[array] /\ LastOf(v, array, f.last)
      <4>1. Live(w) \subseteq Live(v)
        BY <3>1
      <4> QED BY <1>2, <2>1, <2>3, <2>4, <4>1, KeptLastOf DEF Kept
    <3>3. Owner(v, array) /\ v.item[array].kind = "array"
      BY <2>1, <3>2 DEF Owner
    <3>4. array # c /\ c \in G \cup {c} /\ array \in G \cup {c} /\ (G \cup {c}) \ {c} = G
      BY <2>3, <3>1
    <3> HIDE DEF c, v, G
    <3>5. /\ Sound(n, (G \cup {c}) \ {c}, named) /\ SameItems(v, n) /\ LastOf(n, array, c)
          /\ Live(n) = Live(v) /\ \A x \in Cell : Owner(n, x) <=> Owner(v, x)
      BY SMTT(30), <1>2, <3>1, <3>2, <3>3, <3>4, LinkedIn
    <3>6. /\ n \in Memory /\ Sound(n, G, named) /\ Owner(n, array) /\ n.item[array].kind = "array"
          /\ Supply(n, made.supply)
      BY <2>3, <2>4, <3>3, <3>4, <3>5, SupplyNone DEF Sound, SameItems, v
    <3>7. more.mem = n /\ more.item = array /\ more.supply = made.supply /\ more \in Outcomes
      <4>1. more = [made EXCEPT !.mem = n, !.item = array]
        BY DEF v, c
      <4>2. array \in Pointer
        BY <1>2
      <4> HIDE DEF n, more, array
      <4> QED BY <2>4, <3>6, <4>1, <4>2 DEF Outcomes
    <3>11. Grew(m, n)
      <4>1. c \in Cell /\ array \in Cell /\ f.last \in Pointer /\ c \notin Live(m)
        BY <1>2, <2>1, <2>3, <3>1 DEF Grew
      <4>2. v \in Memory
        BY <3>1 DEF Sound
      <4>3. \A x \in Cell : x # array /\ x # f.last /\ x # c => n.item[x] = v.item[x]
        BY <4>1, <4>2, LinkingOthers
      <4>4. \A x \in Live(m) : x \in Cell /\ v.item[x] = m.item[x] /\ x \in Live(v)
        BY <2>1, <2>4, <3>1 DEF Grew, Kept, Live, v
      <4> HIDE DEF n
      <4> QED BY <2>1, <3>5, <4>1, <4>3, <4>4 DEF Grew, Kept
    <3> HIDE DEF more, n, g
    <3>8. g = [out |-> more, last |-> c]
      BY <1>1, <1>4, <2>6 DEF c
    <3>9. g.out = more /\ g.last = c /\ g \in Fills
      BY <2>4, <3>7, <3>8 DEF Fills, c
    <3>12. c \notin Live(m)
      BY <2>1, <3>1 DEF Grew
    <3>10. Filling(m, H, named, g)
      BY <1>4, <2>1, <3>5, <3>6, <3>7, <3>9, <3>11, <3>12 DEF Filling, G
    <3> QED BY <3>10 DEF g
  <2> QED BY <2>5, <2>6
<1> QED BY <1>3, <1>4

(* The turns of CreateArrayOf. *)
FillTurns(m, kind, supply, ink) ==
  CHOOSE turn : turn = [k \in Nat |->
    IF k = 0 THEN [out |-> CreateItem(m, "array", supply, ink), last |-> NULL]
    ELSE FillNext(turn[k - 1], kind)]

(* It holds before the first turn. *)
LEMMA FillBegins ==
  ASSUME NEW m, NEW H, NEW named, Sound(m, H, named),
         NEW supply, Supply(m, supply), NEW ink \in Nat
  PROVE  Filling(m, H, named, [out |-> CreateItem(m, "array", supply, ink), last |-> NULL])
<1> DEFINE r == CreateItem(m, "array", supply, ink)
           f == [out |-> r, last |-> NULL]
<1>1. Created(m, H, named, "array", r)
  <2>1. "array" \in Kind \ {"free"}
    BY DEF Kind
  <2> QED BY <2>1, CreateItemSound
<1> HIDE DEF r
<1>2. f.out = r /\ f.last = NULL /\ f \in Fills
  BY <1>1 DEF Created, Fills, Pointer
<1>3. ASSUME r.item # NULL
      PROVE  Owner(r.mem, r.item) /\ LastOf(r.mem, r.item, NULL)
  <2>1. /\ r.mem.item[r.item].kind = "array" /\ r.mem.item[r.item].ref = FALSE
        /\ r.mem.item[r.item].child = NULL
    BY <1>1, <1>3 DEF Created
  <2> QED BY <2>1 DEF Owner, LastOf
<1> HIDE DEF f
<1>5. Grew(m, r.mem)
  BY <1>1 DEF Created, Grew
<1>6. NULL \notin Live(m)
  BY NullAssumption DEF Live
<1>4. Filling(m, H, named, f)
  BY <1>1, <1>2, <1>3, <1>5, <1>6 DEF Created, Filling
<1> QED BY <1>4 DEF f, r

(* It holds after every turn. *)
LEMMA FillTurnsKeep ==
  ASSUME NEW m, NEW H, NEW named, Sound(m, H, named), NEW kind \in Kind \ {"free"},
         NEW supply, Supply(m, supply), NEW ink \in Nat
  PROVE  \A k \in Nat : Filling(m, H, named, FillTurns(m, kind, supply, ink)[k])
<1> DEFINE A == {f \in Fills : Filling(m, H, named, f)}
           begin == [out |-> CreateItem(m, "array", supply, ink), last |-> NULL]
           step == [f \in A |-> FillNext(f, kind)]
           Solves(v) == v = [k \in Nat |-> IF k = 0 THEN begin ELSE FillNext(v[k - 1], kind)]
           W == FillTurns(m, kind, supply, ink)
<1>1. begin \in A
  <2>1. Filling(m, H, named, begin)
    BY FillBegins
  <2> HIDE DEF begin
  <2> QED BY <2>1 DEF Filling
<1>2. ASSUME NEW f \in A PROVE FillNext(f, kind) \in A
  <2>1. Filling(m, H, named, FillNext(f, kind))
    BY FillNextKeeps
  <2> QED BY <2>1 DEF Filling
<1>3. \A f \in A : step[f] = FillNext(f, kind) /\ step[f] \in A
  BY <1>2
<1>4. \A f \in A : Filling(m, H, named, f)
  OBVIOUS
<1>5. W = CHOOSE v : Solves(v)
  BY DEF FillTurns
<1> HIDE DEF A, begin, step
<1>6. StaysIn(A, step)
  BY <1>3 DEF StaysIn
<1>7. PICK f \in [Nat -> A] : Runs(f, begin, step)
  BY <1>1, <1>6, NatIteration
<1>8. Solves(f)
  <2>1. ASSUME NEW k \in Nat PROVE f[k] = IF k = 0 THEN begin ELSE FillNext(f[k - 1], kind)
    <3>1. CASE k = 0
      BY <1>7, <3>1 DEF Runs
    <3>2. CASE k # 0
      <4>1. k - 1 \in Nat /\ (k - 1) + 1 = k
        BY <3>2
      <4>2. f[(k - 1) + 1] = step[f[k - 1]] /\ f[k - 1] \in A
        BY <1>7, <4>1 DEF Runs
      <4> QED BY <1>3, <3>2, <4>1, <4>2
    <3> QED BY <3>1, <3>2
  <2>2. f = [k \in Nat |-> f[k]]
    OBVIOUS
  <2> QED BY <2>1, <2>2
<1>9. Solves(W)
  <2> HIDE DEF Solves, W
  <2> QED BY <1>5, <1>8
<1> HIDE DEF W
<1>10. \A k \in Nat : W[k] = IF k = 0 THEN begin ELSE FillNext(W[k - 1], kind)
  BY <1>9
<1>11. W[0] = begin /\ \A k \in Nat : W[k + 1] = FillNext(W[k], kind)
  <2>1. \A k \in Nat : k + 1 \in Nat /\ k + 1 # 0 /\ (k + 1) - 1 = k
    OBVIOUS
  <2>2. 0 \in Nat
    OBVIOUS
  <2> QED BY <1>10, <2>1, <2>2
<1>12. \A k \in Nat : W[k] \in A => W[k + 1] = step[W[k]]
  BY <1>3, <1>11
<1>13. \A k \in Nat : W[k] \in A
  BY <1>1, <1>6, <1>11, <1>12, NatIterates
<1> QED BY <1>4, <1>13 DEF W

(* cJSON_CreateIntArray and its like. *)
LEMMA CreateArrayInv == ASSUME TreeInv, CreateArray PROVE TreeInv'
<1>1. PICK kind \in Kinds \cap {"plain", "text"}, n \in 1 .. MaxArray, s \in Supplies,
           ink \in 0 .. MaxArray :
        Keep(CreateArrayOf(mem, n, kind, s, ink))
  BY DEF CreateArray
<1> DEFINE r == CreateArrayOf(mem, n, kind, s, ink)
           f == FillTurns(mem, kind, s, ink)[n]
           named == ~unnamed
<1>2. /\ kind \in Kind \ {"free"} /\ ink \in Nat /\ n \in Nat /\ Supply(mem, s)
  BY TreeAssumption, Supplied
<1>3. Sound(mem, roots \cup lost, named)
  BY InvFacts
<1>4. r = f.out
  BY DEF CreateArrayOf, FillTurns
<1> HIDE DEF f, named
<1>5. Filling(mem, roots \cup lost, named, f)
  BY <1>2, <1>3, FillTurnsKeep DEF f
<1> HIDE DEF r
<1>6. /\ r.item = NULL => Sound(r.mem, roots \cup lost, ~unnamed)
      /\ r.item # NULL => /\ Sound(r.mem, (roots \cup lost) \cup {r.item}, ~unnamed)
                          /\ r.item \notin Live(mem)
  BY <1>4, <1>5 DEF Filling, named
<1>7. Keep(r)
  BY <1>1 DEF r
<1> QED BY <1>6, <1>7, KeepInv

-----------------------------------------------------------------------------
(* A copy of one item *)

(* A value is given to a new item that has none. *)
LEMMA WithText ==
  ASSUME NEW m \in Memory, NEW c \in Cell, NEW x \in Item, x.text = NULL, ~x.ref, NEW t
  PROVE  Strings([With(m, c, x) EXCEPT !.item[c].text = t], IF t = NULL THEN 0 ELSE 1)
           = With(m, c, [x EXCEPT !.text = t])
<1> DEFINE y == [x EXCEPT !.text = t]
           g == [m.item EXCEPT ![c] = x]
           h == [m.item EXCEPT ![c] = y]
           k == IF x.name # NULL /\ ~x.const THEN 1 ELSE 0
           s == IF t = NULL THEN 0 ELSE 1
<1>1. m.item \in [Cell -> Item] /\ m.strings \in Nat
  BY DEF Memory
<1>2. g[c] = x /\ [g EXCEPT ![c] = y] = h
  BY <1>1
<1>3. With(m, c, x) = [item |-> g, strings |-> m.strings + k]
  <2>1. With(m, c, x) = [item |-> g, strings |-> m.strings + k + 0]
    BY DEF With
  <2>2. k \in Nat
    OBVIOUS
  <2> HIDE DEF k
  <2>3. m.strings + k + 0 = m.strings + k
    BY <1>1, <2>2
  <2> QED BY <2>1, <2>3
<1>4. y.name = x.name /\ y.text = t
  BY DEF Item
<1>5. y.ref = x.ref
  BY DEF Item
<1>6. y.const = x.const
  BY DEF Item
<1>7. With(m, c, y) = [item |-> h, strings |-> m.strings + k + s]
  <2> HIDE DEF y
  <2>1. /\ (IF y.name # NULL /\ ~y.const THEN 1 ELSE 0) = k
        /\ (IF y.text # NULL /\ ~y.ref THEN 1 ELSE 0) = s
    BY <1>4, <1>5, <1>6
  <2> HIDE DEF k, s
  <2> QED BY <2>1 DEF With
<1>8. [[item |-> g, strings |-> m.strings + k] EXCEPT !.item[c].text = t]
        = [item |-> h, strings |-> m.strings + k]
  <2> HIDE DEF g, h, k
  <2> QED BY <1>2
<1> HIDE DEF g, h, k, s, y
<1>9. Strings([item |-> h, strings |-> m.strings + k], s) = [item |-> h, strings |-> m.strings + k + s]
  BY DEF Strings
<1> QED BY <1>3, <1>7, <1>8, <1>9 DEF s, y

(* A name is given to a new item that has none. *)
LEMMA WithName ==
  ASSUME NEW m \in Memory, NEW c \in Cell, NEW x \in Item, x.name = NULL, NEW name
  PROVE  Strings([With(m, c, x) EXCEPT !.item[c].name = name], IF name = NULL \/ x.const THEN 0 ELSE 1)
           = With(m, c, [x EXCEPT !.name = name])
<1> DEFINE y == [x EXCEPT !.name = name]
           g == [m.item EXCEPT ![c] = x]
           h == [m.item EXCEPT ![c] = y]
           k == IF x.text # NULL /\ ~x.ref THEN 1 ELSE 0
           s == IF name = NULL \/ x.const THEN 0 ELSE 1
<1>1. m.item \in [Cell -> Item] /\ m.strings \in Nat
  BY DEF Memory
<1>2. g[c] = x /\ [g EXCEPT ![c] = y] = h
  BY <1>1
<1>3. With(m, c, x) = [item |-> g, strings |-> m.strings + k]
  <2>1. With(m, c, x) = [item |-> g, strings |-> m.strings + 0 + k]
    BY DEF With
  <2>2. k \in Nat
    OBVIOUS
  <2> HIDE DEF k
  <2>3. m.strings + 0 + k = m.strings + k
    BY <1>1, <2>2
  <2> QED BY <2>1, <2>3
<1>4. y.text = x.text /\ y.name = name
  BY DEF Item
<1>5. y.ref = x.ref
  BY DEF Item
<1>6. y.const = x.const
  BY DEF Item
<1>7. With(m, c, y) = [item |-> h, strings |-> m.strings + k + s]
  <2> HIDE DEF y
  <2>1. /\ (IF y.name # NULL /\ ~y.const THEN 1 ELSE 0) = s
        /\ (IF y.text # NULL /\ ~y.ref THEN 1 ELSE 0) = k
    BY <1>4, <1>5, <1>6
  <2>2. k \in Nat /\ s \in Nat
    OBVIOUS
  <2> HIDE DEF k, s
  <2>3. m.strings + s + k = m.strings + k + s
    BY <1>1, <2>2
  <2> QED BY <2>1, <2>3 DEF With
<1>8. [[item |-> g, strings |-> m.strings + k] EXCEPT !.item[c].name = name]
        = [item |-> h, strings |-> m.strings + k]
  <2> HIDE DEF g, h, k
  <2> QED BY <1>2
<1> HIDE DEF g, h, k, s, y
<1>9. Strings([item |-> h, strings |-> m.strings + k], s) = [item |-> h, strings |-> m.strings + k + s]
  BY DEF Strings
<1> QED BY <1>3, <1>7, <1>8, <1>9 DEF s, y

(* A copy of the flags owns nothing and is no reference. *)
LEMMA CopyOfIs ==
  ASSUME NEW i \in Item, i.kind # "free"
  PROVE  /\ CopyOf(i) \in Item /\ Fresh(CopyOf(i)) /\ CopyOf(i).kind = i.kind
         /\ CopyOf(i).ref = FALSE /\ CopyOf(i).const = i.const
         /\ CopyOf(i).name = NULL /\ CopyOf(i).text = NULL
<1> DEFINE b == Blank(i.kind)
           x == [b EXCEPT !.const = i.const]
<1>1. /\ b \in Item /\ b.kind = i.kind /\ b.next = NULL /\ b.prev = NULL /\ b.child = NULL
      /\ b.name = NULL /\ b.text = NULL /\ b.ref = FALSE
  <2>1. i.kind \in Kind \ {"free"}
    BY DEF Item
  <2> QED BY <2>1, FreeItemIs DEF Fresh
<1>2. CopyOf(i) = x
  BY DEF CopyOf, Blank
<1> HIDE DEF b
<1>3. /\ x.kind = i.kind /\ x.next = NULL /\ x.prev = NULL /\ x.child = NULL
      /\ x.name = NULL /\ x.text = NULL
  BY <1>1 DEF Item
<1>4. x \in Item
  BY <1>1 DEF Item
<1>5. x.ref = FALSE
  BY <1>1 DEF Item
<1>6. x.const = i.const
  BY <1>1 DEF Item
<1> HIDE DEF x
<1>7. Fresh(x)
  BY <1>3, <1>4 DEF Fresh
<1> QED BY <1>2, <1>3, <1>4, <1>5, <1>6, <1>7

(* A new item may get a value. *)
LEMMA FreshText ==
  ASSUME NEW x, Fresh(x), x.ref = FALSE, NEW t \in Pointer
  PROVE  LET y == [x EXCEPT !.text = t]
         IN  Fresh(y) /\ y.ref = FALSE /\ y.kind = x.kind /\ y.name = x.name /\ y.const = x.const
<1> DEFINE y == [x EXCEPT !.text = t]
<1>1. x \in Item
  BY DEF Fresh
<1>2. y.kind = x.kind /\ y.next = x.next /\ y.prev = x.prev /\ y.child = x.child /\ y.name = x.name
  BY <1>1 DEF Item
<1>3. y.ref = x.ref
  BY <1>1 DEF Item
<1>4. y.const = x.const
  BY <1>1 DEF Item
<1>5. y \in Item
  BY <1>1 DEF Item
<1> HIDE DEF y
<1> QED BY <1>2, <1>3, <1>4, <1>5 DEF Fresh, y

(* A new item may get a name. *)
LEMMA FreshName ==
  ASSUME NEW x, Fresh(x), x.ref = FALSE, NEW name \in Name \cup {NULL}
  PROVE  LET y == [x EXCEPT !.name = name]
         IN  Fresh(y) /\ y.ref = FALSE /\ y.kind = x.kind /\ y.name = name
<1> DEFINE y == [x EXCEPT !.name = name]
<1>1. x \in Item
  BY DEF Fresh
<1>2. y.kind = x.kind /\ y.next = x.next /\ y.prev = x.prev /\ y.child = x.child /\ y.name = name
  BY <1>1 DEF Item
<1>3. y.ref = x.ref
  BY <1>1 DEF Item
<1>4. y \in Item
  BY <1>1 DEF Item
<1> HIDE DEF y
<1> QED BY <1>2, <1>3, <1>4 DEF Fresh, y

(* cJSON_Duplicate of one item: the copy has the original's name. *)
LEMMA CopyItemSound ==
  ASSUME NEW m, NEW H, NEW named, Sound(m, H, named), NEW c \in Live(m),
         NEW supply, Supply(m, supply), NEW ink \in Nat
  PROVE  LET r == CopyItem(m, c, supply, ink)
         IN  /\ Created(m, H, named, m.item[c].kind, r)
             /\ r.item # NULL => r.mem.item[r.item].name = m.item[c].name
             /\ Len(r.supply) <= Len(supply)
             /\ r.item # NULL => Len(r.supply) < Len(supply)
<1> DEFINE r == CopyItem(m, c, supply, ink)
           n == Head(supply)
           src == m.item[c]
           made == [m EXCEPT !.item[n] = CopyOf(src)]
           text == IF src.text = NULL THEN 0 ELSE 1
           name == IF src.name = NULL \/ src.const THEN 0 ELSE 1
           t == IF text = 1 THEN n ELSE NULL
           valued == Strings([made EXCEPT !.item[n].text = t], text)
           whole == Strings([valued EXCEPT !.item[n].name = src.name], name)
           x == CopyOf(src)
           y == [x EXCEPT !.text = t]
           z == [y EXCEPT !.name = src.name]
<1>1. m \in Memory /\ src \in Item /\ src.kind # "free" /\ src.name \in Name \cup {NULL}
  BY DEF Sound, Memory, Live, Item
<1>2. Len(supply) \in Nat
  BY DEF Supply
<1>3. CASE supply = <<>>
  <2>1. r = Outcome(m, NULL, supply, ink)
    BY <1>3 DEF CopyItem
  <2>2. r.item = NULL /\ r.supply = supply
    BY <2>1 DEF Outcome
  <2>3. Created(m, H, named, src.kind, r)
    <3> HIDE DEF r, src
    <3> QED BY <2>1, CreatedNothing
  <2> HIDE DEF r
  <2>4. Len(r.supply) <= Len(supply)
    BY <1>2, <2>2
  <2> QED BY <2>2, <2>3, <2>4 DEF r
<1>4. CASE supply # <<>>
  <2>1. r = CASE ink < text -> Outcome(cJSON_Delete(made, n), NULL, Tail(supply), 0)
              [] ink >= text /\ ink < text + name ->
                   Outcome(cJSON_Delete(valued, n), NULL, Tail(supply), 0)
              [] ink >= text + name -> Outcome(whole, n, Tail(supply), ink - text - name)
    BY <1>4 DEF CopyItem
  <2>2. n \in Cell /\ n \in Pointer /\ NULL \in Pointer /\ n # NULL /\ n \notin Live(m)
        /\ Len(Tail(supply)) = Len(supply) - 1
    BY <1>4, SupplyHead, NullAssumption DEF Pointer
  <2>3. text \in {0, 1} /\ name \in {0, 1}
    OBVIOUS
  <2>4. t = NULL <=> text = 0
    BY <2>2, <2>3
  <2>5. t \in Pointer
    BY <2>2
  <2> HIDE DEF n
  <2>6. /\ Fresh(x) /\ x \in Item /\ x.kind = src.kind /\ x.ref = FALSE /\ x.const = src.const
        /\ x.name = NULL /\ x.text = NULL
    BY <1>1, CopyOfIs
  <2> HIDE DEF src
  <2>7. made = With(m, n, x)
    <3>1. Put(m, n, x) = With(m, n, x)
      BY <1>1, <2>2, <2>6, WithPlain
    <3> QED BY <3>1 DEF Put
  <2> HIDE DEF x
  <2>8. Fresh(y) /\ y.ref = FALSE /\ y.kind = src.kind /\ y.name = NULL /\ y.const = src.const
    BY <2>5, <2>6, FreshText
  <2>9. valued = With(m, n, y)
    <3>1. text = IF t = NULL THEN 0 ELSE 1
      BY <2>3, <2>4
    <3> HIDE DEF t, made, text
    <3>3. ~x.ref
      BY <2>6
    <3>2. Strings([With(m, n, x) EXCEPT !.item[n].text = t], IF t = NULL THEN 0 ELSE 1) = With(m, n, y)
      <4>1. m \in Memory /\ n \in Cell /\ x \in Item /\ x.text = NULL /\ ~x.ref
        BY <1>1, <2>2, <2>6, <3>3
      <4> HIDE DEF z, r, name
      <4> QED BY ZenonT(60), <4>1, WithText
    <3> QED BY <2>7, <3>1, <3>2
  <2> HIDE DEF y, valued
  <2>10. Fresh(z) /\ z.ref = FALSE /\ z.kind = src.kind /\ z.name = src.name
    BY <1>1, <2>8, FreshName
  <2>11. whole = With(m, n, z)
    <3>1. name = IF src.name = NULL \/ y.const THEN 0 ELSE 1
      BY <2>8
    <3>2. y \in Item
      BY <2>8 DEF Fresh
    <3> HIDE DEF name
    <3>3. Strings([With(m, n, y) EXCEPT !.item[n].name = src.name],
                  IF src.name = NULL \/ y.const THEN 0 ELSE 1) = With(m, n, z)
      BY ZenonT(60), <1>1, <2>2, <2>8, <3>2, WithName
    <3> QED BY <2>9, <3>1, <3>3
  <2> HIDE DEF z, whole, made, r, text, name
  <2>12. Len(Tail(supply)) <= Len(supply) /\ Len(Tail(supply)) < Len(supply)
    BY SMTT(30), <1>2, <2>2
  <2>13. CASE ink < text
    <3>1. r = Outcome(cJSON_Delete(With(m, n, x), n), NULL, Tail(supply), 0) /\ 0 \in Nat
      BY <2>1, <2>3, <2>7, <2>13
    <3>2. Created(m, H, named, src.kind, r)
      BY <1>4, <2>6, <3>1, CreatedInVain DEF n
    <3>3. r.item = NULL /\ r.supply = Tail(supply)
      BY <3>1 DEF Outcome
    <3> QED BY <2>12, <3>2, <3>3 DEF r, src
  <2>14. CASE ink >= text /\ ink < text + name
    <3>1. r = Outcome(cJSON_Delete(With(m, n, y), n), NULL, Tail(supply), 0) /\ 0 \in Nat
      BY <2>1, <2>3, <2>9, <2>14
    <3>2. Created(m, H, named, src.kind, r)
      BY <1>4, <2>8, <3>1, CreatedInVain DEF n
    <3>3. r.item = NULL /\ r.supply = Tail(supply)
      BY <3>1 DEF Outcome
    <3> QED BY <2>12, <3>2, <3>3 DEF r, src
  <2>15. CASE ink >= text + name
    <3> DEFINE left == ink - text - name
    <3>1. left \in Nat
      BY <2>3, <2>15
    <3>2. r = Outcome(With(m, n, z), n, Tail(supply), left)
      BY <2>1, <2>3, <2>11, <2>15
    <3> HIDE DEF left
    <3>3. Created(m, H, named, z.kind, r)
      BY <1>4, <2>10, <3>1, <3>2, CreatedItem DEF n
    <3>4. r.item = n /\ r.supply = Tail(supply) /\ r.mem = With(m, n, z)
      BY <3>2 DEF Outcome
    <3>5. r.mem.item[n] = z
      BY <1>1, <2>2, <2>10, <3>4, WithFields
    <3> QED BY <2>10, <2>12, <3>3, <3>4, <3>5 DEF r, src
  <2>16. ink < text \/ (ink >= text /\ ink < text + name) \/ ink >= text + name
    BY <2>3
  <2> QED BY <2>13, <2>14, <2>15, <2>16
<1> QED BY <1>3, <1>4

-----------------------------------------------------------------------------
(* The recursion of cJSON_Duplicate *)

(* The stack of copies that wait for their children, its top the last.     *)
Frames == [copy : Cell, child : Pointer, last : Pointer]
Dups == [out : Outcomes, frames : Seq(Frames)]
CopiesOf(F) == {F[k].copy : k \in DOMAIN F}
Below(F) == SubSeq(F, 1, Len(F) - 1)

(* The numbers below the last one. *)
LEMMA OneLess ==
  ASSUME NEW n \in Nat, n >= 1
  PROVE  /\ \A k \in 1 .. (n - 1) : k \in 1 .. n /\ k # n
         /\ \A k \in 1 .. n : k # n => k \in 1 .. (n - 1)
         /\ n - 1 = 0 <=> n = 1
         /\ n - 1 \in Nat
BY SMT

(* The stack without its top. *)
LEMMA BelowIs ==
  ASSUME NEW F \in Seq(Frames), F # <<>>
  PROVE  /\ Len(F) \in Nat /\ Len(F) >= 1 /\ DOMAIN F = 1 .. Len(F) /\ Len(F) \in DOMAIN F
         /\ F[Len(F)] \in Frames
         /\ Below(F) \in Seq(Frames) /\ Len(Below(F)) = Len(F) - 1
         /\ DOMAIN Below(F) = 1 .. (Len(F) - 1)
         /\ \A k \in DOMAIN Below(F) : k \in DOMAIN F /\ k # Len(F) /\ Below(F)[k] = F[k]
         /\ \A k \in DOMAIN F : k # Len(F) => k \in DOMAIN Below(F)
         /\ Below(F) = <<>> <=> Len(F) = 1
<1> DEFINE n == Len(F)
<1>1. n \in Nat /\ n >= 1 /\ DOMAIN F = 1 .. n /\ n \in DOMAIN F /\ F[n] \in Frames
  BY SMT
<1>2. Below(F) \in Seq(Frames) /\ Len(Below(F)) = n - 1
  BY <1>1 DEF Below
<1>3. \A k \in 1 .. (n - 1) : Below(F)[k] = F[k]
  BY <1>1 DEF Below
<1>4. DOMAIN Below(F) = 1 .. (n - 1)
  BY <1>2
<1> HIDE DEF n
<1>5. /\ \A k \in 1 .. (n - 1) : k \in 1 .. n /\ k # n
      /\ \A k \in 1 .. n : k # n => k \in 1 .. (n - 1)
      /\ n - 1 = 0 <=> n = 1
  BY <1>1, OneLess
<1>7. Below(F) = <<>> <=> n = 1
  <2>1. ASSUME Below(F) = <<>> PROVE n = 1
    <3>1. Len(Below(F)) = 0
      BY <2>1
    <3>2. n - 1 = 0
      BY <1>2, <3>1
    <3> QED BY <1>5, <3>2
  <2>2. ASSUME n = 1 PROVE Below(F) = <<>>
    <3>1. n - 1 = 0
      BY <1>5, <2>2
    <3>2. Len(Below(F)) = 0
      BY <1>2, <3>1
    <3> QED BY <1>2, <3>2
  <2> QED BY <2>1, <2>2
<1>8. \A k \in DOMAIN Below(F) : k \in DOMAIN F /\ k # n /\ Below(F)[k] = F[k]
  BY <1>1, <1>3, <1>4, <1>5
<1>9. \A k \in DOMAIN F : k # n => k \in DOMAIN Below(F)
  BY <1>1, <1>4, <1>5
<1> QED BY <1>1, <1>2, <1>4, <1>7, <1>8, <1>9 DEF n

(* The copies on it. *)
LEMMA CopiesBelow ==
  ASSUME NEW F \in Seq(Frames), F # <<>>,
         \A j, k \in DOMAIN F : F[j].copy = F[k].copy => j = k
  PROVE  /\ CopiesOf(Below(F)) = CopiesOf(F) \ {F[Len(F)].copy}
         /\ F[Len(F)].copy \in CopiesOf(F) /\ CopiesOf(F) \subseteq Cell
<1>1. /\ Len(F) \in DOMAIN F
      /\ \A k \in DOMAIN Below(F) : k \in DOMAIN F /\ k # Len(F) /\ Below(F)[k] = F[k]
      /\ \A k \in DOMAIN F : k # Len(F) => k \in DOMAIN Below(F)
  BY BelowIs
<1>2. \A k \in DOMAIN F : F[k].copy \in Cell
  <2>1. \A k \in DOMAIN F : F[k] \in Frames
    OBVIOUS
  <2> QED BY <2>1 DEF Frames
<1> QED BY <1>1, <1>2 DEF CopiesOf

(* R are the items the client can read; every list they show is one whose  *)
(* owner there is, and its members are among them.                         *)
Shown(m, R, kind, x) ==
  x # NULL => \E o \in Live(m) : /\ Owner(m, o) /\ m.item[o].kind = kind
                                 /\ x \in Chain(m, o) /\ Chain(m, o) \subseteq R

Readers(m, R) ==
  \A x \in R : x \in Live(m) /\ Shown(m, R, m.item[x].kind, m.item[x].child)

NamedIn(named, m, a, i) == named /\ m.item[a].kind = "object" => m.item[i].name # NULL

FrameOK(m, R, w, f) ==
  /\ Owner(w, f.copy) /\ f.last \notin Live(m) /\ LastOf(w, f.copy, f.last)
  /\ Shown(m, R, w.item[f.copy].kind, f.child)

(* The frames' copies are roots until they are linked, those of the frames *)
(* above deleted when one fails.  What was there is as it was, and the     *)
(* frames' children are members of its lists.                              *)
Duplicating(m, H, named, R, d) ==
  /\ d \in Dups /\ Supply(d.out.mem, d.out.supply) /\ Grew(m, d.out.mem)
  /\ \A j, k \in DOMAIN d.frames : d.frames[j].copy = d.frames[k].copy => j = k
  /\ \A k \in DOMAIN d.frames : d.frames[k].copy \notin Live(m)
  /\ d.frames = <<>> /\ d.out.item = NULL => Sound(d.out.mem, H, named)
  /\ d.frames = <<>> /\ d.out.item # NULL =>
       Sound(d.out.mem, H \cup {d.out.item}, named) /\ d.out.item \notin Live(m)
  /\ d.frames # <<>> => Sound(d.out.mem, H \cup CopiesOf(d.frames), named)
  /\ d.frames # <<>> /\ d.out.item # NULL =>
       /\ d.frames[1].copy = d.out.item
       /\ \A k \in DOMAIN d.frames : FrameOK(m, R, d.out.mem, d.frames[k])
       /\ \A k \in DOMAIN d.frames : k > 1 =>
            NamedIn(named, d.out.mem, d.frames[k - 1].copy, d.frames[k].copy)

Left(d) == 2 * Len(d.out.supply) + Len(d.frames) + (IF d.out.item = NULL THEN 0 ELSE 1)

(* A child's copy failed: the one it was for is deleted. *)
LEMMA UndoesCopy ==
  ASSUME NEW m, NEW H \in SUBSET Live(m), NEW named, Sound(m, H, named),
         NEW R, NEW d, Duplicating(m, H, named, R, d), d.frames # <<>>, d.out.item = NULL
  PROVE  LET g == [out |-> [d.out EXCEPT !.mem = cJSON_Delete(@, d.frames[Len(d.frames)].copy)],
                   frames |-> Below(d.frames)]
         IN  Duplicating(m, H, named, R, g) /\ Left(g) < Left(d)
<1> DEFINE F == d.frames
           w == d.out.mem
           c == F[Len(F)].copy
           v == cJSON_Delete(w, c)
           out == [d.out EXCEPT !.mem = v]
           g == [out |-> out, frames |-> Below(F)]
<1>1. /\ d.out \in Outcomes /\ F \in Seq(Frames) /\ Supply(w, d.out.supply) /\ F # <<>>
      /\ \A j, k \in DOMAIN F : F[j].copy = F[k].copy => j = k
      /\ \A k \in DOMAIN F : F[k].copy \notin Live(m)
      /\ Sound(w, H \cup CopiesOf(F), named) /\ Grew(m, w)
  BY DEF Duplicating, Dups
<1>2. /\ CopiesOf(Below(F)) = CopiesOf(F) \ {c} /\ c \in CopiesOf(F)
  BY <1>1, CopiesBelow
<1>3. /\ Below(F) \in Seq(Frames) /\ Len(Below(F)) = Len(F) - 1 /\ Len(F) \in Nat
      /\ \A k \in DOMAIN Below(F) : k \in DOMAIN F /\ Below(F)[k] = F[k]
  BY <1>1, BelowIs
<1>4. c \notin Live(m)
  BY <1>1, <1>2 DEF CopiesOf
<1>5. c \in H \cup CopiesOf(F) /\ (H \cup CopiesOf(F)) \ {c} = H \cup CopiesOf(Below(F))
  BY <1>2, <1>4
<1> HIDE DEF c, F, w
<1>6. Sound(v, (H \cup CopiesOf(F)) \ {c}, named) /\ Live(v) = Live(w) \ Doomed(w, c)
  BY <1>1, <1>5, SoundDelete
<1>7. /\ Sound(v, H \cup CopiesOf(Below(F)), named) /\ v \in Memory /\ Supply(v, d.out.supply)
      /\ Grew(m, v)
  <2>1. Grew(m, v)
    <3>1. H \subseteq H \cup CopiesOf(F)
      OBVIOUS
    <3> QED BY <1>1, <1>4, <1>5, <3>1, GrewDelete
  <2> QED BY <1>1, <1>5, <1>6, <2>1, SupplyNone DEF Sound
<1> HIDE DEF v
<1>8. out.mem = v /\ out.item = NULL /\ out.supply = d.out.supply /\ out \in Outcomes
  BY <1>1, <1>7, OutcomeMem
<1> HIDE DEF out
<1>9. g.out = out /\ g.frames = Below(F) /\ g \in Dups
  BY <1>3, <1>8 DEF Dups
<1> HIDE DEF g
<1>10. /\ \A j, k \in DOMAIN Below(F) : Below(F)[j].copy = Below(F)[k].copy => j = k
       /\ \A k \in DOMAIN Below(F) : Below(F)[k].copy \notin Live(m)
  BY <1>1, <1>3
<1>11. Below(F) = <<>> => Sound(v, H, named)
  <2>1. ASSUME Below(F) = <<>> PROVE CopiesOf(Below(F)) = {}
    BY <2>1 DEF CopiesOf
  <2>2. ASSUME Below(F) = <<>> PROVE H \cup CopiesOf(Below(F)) = H
    BY <2>1, <2>2
  <2> QED BY <1>7, <2>2
<1>12. Duplicating(m, H, named, R, g)
  BY <1>7, <1>8, <1>9, <1>10, <1>11 DEF Duplicating
<1>13. Left(g) < Left(d)
  <2> DEFINE s == Len(d.out.supply)
  <2>1. s \in Nat
    BY <1>1 DEF Supply
  <2>2. Left(d) = 2 * s + Len(F) + 0
    BY DEF Left, F
  <2>3. Left(g) = 2 * s + (Len(F) - 1) + 0
    BY <1>3, <1>8, <1>9 DEF Left
  <2> HIDE DEF s
  <2> QED BY <1>3, <2>1, <2>2, <2>3
<1> QED BY <1>12, <1>13 DEF g, out, v, c, F, w

(* The last copy is complete. *)
LEMMA EndsCopy ==
  ASSUME NEW m, NEW H, NEW named, NEW R, NEW d, Duplicating(m, H, named, R, d),
         d.frames # <<>>, d.out.item # NULL, Below(d.frames) = <<>>
  PROVE  LET g == [d EXCEPT !.frames = <<>>]
         IN  Duplicating(m, H, named, R, g) /\ g.frames = <<>>
<1> DEFINE F == d.frames
           g == [d EXCEPT !.frames = <<>>]
<1>1. /\ d \in Dups /\ d.out \in Outcomes /\ F \in Seq(Frames) /\ F # <<>>
      /\ Supply(d.out.mem, d.out.supply)
      /\ \A j, k \in DOMAIN F : F[j].copy = F[k].copy => j = k
      /\ \A k \in DOMAIN F : F[k].copy \notin Live(m)
      /\ Sound(d.out.mem, H \cup CopiesOf(F), named) /\ Grew(m, d.out.mem)
      /\ F[1].copy = d.out.item
  BY DEF Duplicating, Dups
<1>2. /\ CopiesOf(Below(F)) = CopiesOf(F) \ {F[Len(F)].copy} /\ F[Len(F)].copy \in CopiesOf(F)
  BY <1>1, CopiesBelow
<1>3. Len(F) = 1 /\ Len(F) \in DOMAIN F
  BY <1>1, BelowIs
<1>4. CopiesOf(Below(F)) = {}
  BY DEF CopiesOf
<1>5. CopiesOf(F) = {d.out.item} /\ d.out.item \notin Live(m)
  BY <1>1, <1>2, <1>3, <1>4
<1>6. g.frames = <<>> /\ g.out = d.out
  BY <1>1 DEF Dups
<1>7. g \in Dups
  <2>1. <<>> \in Seq(Frames)
    OBVIOUS
  <2> QED BY <1>1, <2>1 DEF Dups
<1> HIDE DEF g
<1>8. DOMAIN g.frames = {}
  BY <1>6
<1>9. Duplicating(m, H, named, R, g)
  <2>1. Sound(g.out.mem, H \cup {g.out.item}, named) /\ g.out.item \notin Live(m) /\ g.out.item # NULL
    BY <1>1, <1>5, <1>6
  <2>2. Supply(g.out.mem, g.out.supply) /\ Grew(m, g.out.mem)
    BY <1>1, <1>6
  <2> QED BY <1>6, <1>7, <1>8, <2>1, <2>2 DEF Duplicating
<1> QED BY <1>6, <1>9 DEF g

(* malloc fails in the copy of a child. *)
LEMMA FailsCopy ==
  ASSUME NEW m, NEW H, NEW named, NEW R, NEW d, Duplicating(m, H, named, R, d),
         d.frames # <<>>, d.out.item # NULL,
         NEW kind, NEW made, made.item = NULL, Len(made.supply) <= Len(d.out.supply),
         Created(d.out.mem, H \cup CopiesOf(d.frames), named, kind, made)
  PROVE  LET g == [d EXCEPT !.out = made]
         IN  Duplicating(m, H, named, R, g) /\ Left(g) < Left(d)
<1> DEFINE F == d.frames
           g == [d EXCEPT !.out = made]
<1>1. /\ d \in Dups /\ d.out \in Outcomes /\ F \in Seq(Frames) /\ F # <<>>
      /\ \A j, k \in DOMAIN F : F[j].copy = F[k].copy => j = k
      /\ \A k \in DOMAIN F : F[k].copy \notin Live(m)
  BY DEF Duplicating, Dups
<1>2. /\ made \in Outcomes /\ Supply(made.mem, made.supply) /\ Sound(made.mem, H \cup CopiesOf(F), named)
      /\ Grew(m, made.mem)
  BY DEF Created, Duplicating, Grew, Kept
<1>3. g.frames = F /\ g.out = made /\ g \in Dups
  BY <1>1, <1>2 DEF Dups
<1> HIDE DEF g, F
<1>4. Duplicating(m, H, named, R, g)
  BY <1>1, <1>2, <1>3 DEF Duplicating
<1>5. Left(g) < Left(d)
  <2> DEFINE s == Len(d.out.supply)
             t == Len(made.supply)
             n == Len(F)
  <2>1. s \in Nat /\ t \in Nat /\ n \in Nat /\ t <= s
    BY <1>1, <1>2 DEF Outcomes
  <2>2. Left(d) = 2 * s + n + 1
    BY DEF Left, F
  <2>3. Left(g) = 2 * t + n + 0
    BY <1>3 DEF Left
  <2> HIDE DEF s, t, n
  <2> QED BY <2>1, <2>2, <2>3
<1> QED BY <1>4, <1>5 DEF g

(* The frame, and the top one of a stack, with i as the last child's copy. *)
FrameWith(f, i) == [f EXCEPT !.last = i]
LastFrameWith(B, i) == [B EXCEPT ![Len(B)] = FrameWith(@, i)]

(* The stack with another last copy in its top frame. *)
LEMMA LastFrame ==
  ASSUME NEW B \in Seq(Frames), B # <<>>, NEW i \in Cell
  PROVE  LET G == LastFrameWith(B, i)
         IN  /\ G \in Seq(Frames) /\ DOMAIN G = DOMAIN B /\ G # <<>> /\ Len(G) = Len(B)
             /\ \A k \in DOMAIN B : /\ G[k].copy = B[k].copy /\ G[k].child = B[k].child
                                    /\ G[k].last = IF k = Len(B) THEN i ELSE B[k].last
             /\ CopiesOf(G) = CopiesOf(B)
<1> DEFINE n == Len(B)
           x == FrameWith(B[n], i)
           G == [B EXCEPT ![n] = x]
<1>1. n \in DOMAIN B /\ DOMAIN B = 1 .. n /\ n \in Nat /\ B[n] \in Frames
  BY SMT
<1>2. x \in Frames /\ x.copy = B[n].copy /\ x.child = B[n].child /\ x.last = i
  BY <1>1 DEF Frames, FrameWith, Pointer
<1>3. LastFrameWith(B, i) = G
  BY DEF LastFrameWith
<1> HIDE DEF x
<1>4. G \in Seq(Frames) /\ Len(G) = n
  BY <1>1, <1>2
<1>5. DOMAIN G = DOMAIN B /\ \A k \in DOMAIN B : G[k] = IF k = n THEN x ELSE B[k]
  BY <1>1
<1>6. G # <<>>
  <2>1. Len(G) # Len(<<>>)
    BY <1>4
  <2> QED BY <2>1, Zenon
<1> HIDE DEF G
<1>7. \A k \in DOMAIN B : /\ G[k].copy = B[k].copy /\ G[k].child = B[k].child
                          /\ G[k].last = IF k = n THEN i ELSE B[k].last
  BY <1>2, <1>5
<1>8. CopiesOf(G) = CopiesOf(B)
  BY <1>5, <1>7 DEF CopiesOf
<1> QED BY <1>3, <1>4, <1>5, <1>6, <1>7, <1>8

(* A complete copy of a child goes behind the one before it. *)
LEMMA LinksCopy ==
  ASSUME NEW m, NEW H \in SUBSET Live(m), NEW named, NEW R, NEW d, Duplicating(m, H, named, R, d),
         d.frames # <<>>, d.out.item # NULL, Below(d.frames) # <<>>
  PROVE  LET top == d.frames[Len(d.frames)]
             parent == Below(d.frames)[Len(Below(d.frames))]
             g == [out |-> [d.out EXCEPT !.mem = Linking(@, parent.copy, parent.last, top.copy)],
                   frames |-> LastFrameWith(Below(d.frames), top.copy)]
         IN  Duplicating(m, H, named, R, g) /\ Left(g) < Left(d)
<1> DEFINE F == d.frames
           w == d.out.mem
           B == Below(F)
           n == Len(F)
           p == Len(B)
           i == F[n].copy
           a == B[p].copy
           last == B[p].last
           v == Linking(w, a, last, i)
           out == [d.out EXCEPT !.mem = v]
           G == LastFrameWith(B, i)
           g == [out |-> out, frames |-> G]
<1>1. /\ d.out \in Outcomes /\ F \in Seq(Frames) /\ F # <<>> /\ Supply(w, d.out.supply)
      /\ \A j, k \in DOMAIN F : F[j].copy = F[k].copy => j = k
      /\ \A k \in DOMAIN F : F[k].copy \notin Live(m)
      /\ Sound(w, H \cup CopiesOf(F), named)
  BY DEF Duplicating, Dups
<1>2. /\ F[1].copy = d.out.item
      /\ Kept(m, w, Live(m)) /\ Live(m) \subseteq Live(w)
      /\ \A k \in DOMAIN F : FrameOK(m, R, w, F[k])
      /\ \A k \in DOMAIN F : k > 1 => NamedIn(named, w, F[k - 1].copy, F[k].copy)
  BY DEF Duplicating, Grew
<1>3. /\ n \in Nat /\ n >= 1 /\ DOMAIN F = 1 .. n /\ n \in DOMAIN F
      /\ B \in Seq(Frames) /\ p = n - 1 /\ DOMAIN B = 1 .. (n - 1)
      /\ \A k \in DOMAIN B : k \in DOMAIN F /\ k # n /\ B[k] = F[k]
  BY <1>1, BelowIs
<1>4. n # 1
  BY <1>1, BelowIs
<1>5. /\ CopiesOf(B) = CopiesOf(F) \ {i} /\ i \in CopiesOf(F) /\ CopiesOf(F) \subseteq Cell
  BY <1>1, CopiesBelow
<1> HIDE DEF B, w, i, v, out, G, g, p, n, F, a, last
<1>6. n > 1 /\ p \in DOMAIN F /\ p \in DOMAIN B /\ p # n /\ 1 \in DOMAIN B /\ p = n - 1
  BY <1>3, <1>4
<1>7. B[p] = F[p] /\ a = F[p].copy /\ last = F[p].last /\ F[p] \in Frames /\ F[n] \in Frames
  <2>1. \A k \in DOMAIN F : F[k] \in Frames
    BY <1>1
  <2> QED BY <1>3, <1>6, <2>1 DEF a, last
<1>8. a \in Cell /\ last \in Pointer /\ i \in Cell /\ a # i
  BY <1>1, <1>3, <1>6, <1>7 DEF Frames, i
<1>9. a \in CopiesOf(F)
  BY <1>6, <1>7 DEF CopiesOf
<1>10. FrameOK(m, R, w, F[p])
  BY <1>2, <1>6
<1>11. Owner(w, a) /\ last \notin Live(m) /\ LastOf(w, a, last)
  BY <1>7, <1>10 DEF FrameOK
<1>12. named /\ w.item[a].kind = "object" => w.item[i].name # NULL
  <2>1. NamedIn(named, w, F[n - 1].copy, F[n].copy)
    BY <1>2, <1>3, <1>6
  <2> QED BY <1>6, <1>7, <2>1 DEF NamedIn, i
<1>13. /\ Sound(v, (H \cup CopiesOf(F)) \ {i}, named) /\ SameItems(w, v) /\ LastOf(v, a, i)
       /\ Live(v) = Live(w) /\ \A c \in Cell : Owner(v, c) <=> Owner(w, c)
       /\ \A b \in Live(w), x \in Pointer :
            b # a /\ Owner(w, b) /\ LastOf(w, b, x) => LastOf(v, b, x)
  <2>1. i \in H \cup CopiesOf(F) /\ a \in H \cup CopiesOf(F)
    BY <1>5, <1>9
  <2> QED BY <1>1, <1>8, <1>11, <1>12, <2>1, LinkedIn DEF v
<1>14. i \notin Live(m) /\ a \notin Live(m)
  BY <1>1, <1>3, <1>6, <1>7 DEF i
<1>15. (H \cup CopiesOf(F)) \ {i} = H \cup CopiesOf(B)
  BY <1>5, <1>14
<1>16. v \in Memory /\ w \in Memory
  BY <1>1, <1>13 DEF Sound
<1>17. B # <<>>
  BY DEF B, F
<1>18. /\ G \in Seq(Frames) /\ DOMAIN G = DOMAIN B /\ G # <<>> /\ Len(G) = p
       /\ \A k \in DOMAIN B : /\ G[k].copy = B[k].copy /\ G[k].child = B[k].child
                              /\ G[k].last = IF k = p THEN i ELSE B[k].last
       /\ CopiesOf(G) = CopiesOf(B)
  BY <1>3, <1>8, <1>17, LastFrame DEF G, p
<1>19. out.mem = v /\ out.item = d.out.item /\ out.supply = d.out.supply /\ out \in Outcomes
  BY <1>1, <1>16, OutcomeMem DEF out
<1>20. g.out = out /\ g.frames = G /\ g \in Dups
  BY <1>18, <1>19 DEF Dups, g
<1>21. Kept(m, v, Live(m)) /\ Live(m) \subseteq Live(v)
  <2>1. ASSUME NEW x \in Live(m) PROVE v.item[x] = m.item[x]
    <3>1. x \in Cell /\ x # a /\ x # last /\ x # i
      BY <1>11, <1>14 DEF Live
    <3>2. v.item[x] = w.item[x]
      BY <1>8, <1>16, <3>1, LinkingOthers DEF v
    <3> QED BY <1>2, <3>2 DEF Kept
  <2> QED BY <1>2, <1>13, <2>1 DEF Kept
<1>22. Supply(v, d.out.supply)
  BY <1>1, <1>13, SupplyNone
<1>23. \A k \in DOMAIN G : FrameOK(m, R, v, G[k])
  <2> SUFFICES ASSUME NEW k \in DOMAIN G PROVE FrameOK(m, R, v, G[k])
    OBVIOUS
  <2> DEFINE b == F[k].copy
             x == F[k].last
  <2>1. k \in DOMAIN F /\ k \in DOMAIN B /\ B[k] = F[k] /\ G[k].copy = b /\ G[k].child = F[k].child
        /\ G[k].last = IF k = p THEN i ELSE x
    BY <1>3, <1>18
  <2>2. FrameOK(m, R, w, F[k])
    BY <1>2, <2>1
  <2>3. b \in Cell /\ x \in Pointer
    <3>1. F[k] \in Frames
      BY <1>1, <2>1
    <3> QED BY <3>1 DEF Frames
  <2>4. Owner(w, b) /\ x \notin Live(m) /\ LastOf(w, b, x)
        /\ Shown(m, R, w.item[b].kind, F[k].child)
    BY <2>2 DEF FrameOK
  <2> HIDE DEF b, x
  <2>5. Owner(v, b) /\ v.item[b].kind = w.item[b].kind
    BY <1>13, <2>3, <2>4 DEF SameItems
  <2>6. Shown(m, R, v.item[b].kind, F[k].child)
    BY <2>4, <2>5
  <2>7. CASE k = p
    <3>1. b = a /\ G[k].last = i
      BY <1>7, <2>1, <2>7 DEF b
    <3> QED BY <1>13, <1>14, <2>1, <2>5, <2>6, <3>1 DEF FrameOK
  <2>8. CASE k # p
    <3>1. b # a /\ G[k].last = x
      BY <1>1, <1>6, <1>7, <2>1, <2>8 DEF b
    <3>2. b \in Live(w)
      BY <2>3, <2>4 DEF Live, Owner
    <3>3. LastOf(v, b, x)
      BY <1>13, <2>3, <2>4, <3>1, <3>2
    <3> QED BY <2>1, <2>4, <2>5, <2>6, <3>1, <3>3 DEF FrameOK
  <2> QED BY <2>7, <2>8
<1>24. \A k \in DOMAIN G : k > 1 => NamedIn(named, v, G[k - 1].copy, G[k].copy)
  <2> SUFFICES ASSUME NEW k \in DOMAIN G, k > 1
               PROVE  NamedIn(named, v, G[k - 1].copy, G[k].copy)
    OBVIOUS
  <2> DEFINE j == k - 1
  <2>1. k \in DOMAIN F /\ G[k].copy = F[k].copy
    BY <1>3, <1>18
  <2>2. j \in DOMAIN B
    BY <1>3, <1>18
  <2>3. NamedIn(named, w, F[j].copy, F[k].copy)
    BY <1>2, <2>1
  <2> HIDE DEF j
  <2>4. j \in DOMAIN F /\ G[j].copy = F[j].copy
    BY <1>3, <1>18, <2>2
  <2>5. F[j].copy \in Cell /\ F[k].copy \in Cell
    <3>1. F[j] \in Frames /\ F[k] \in Frames
      BY <1>1, <2>1, <2>4
    <3> QED BY <3>1 DEF Frames
  <2>6. NamedIn(named, v, F[j].copy, F[k].copy)
    BY <1>13, <2>3, <2>5 DEF NamedIn, SameItems
  <2>7. NamedIn(named, v, G[j].copy, G[k].copy)
    BY <2>1, <2>4, <2>6
  <2> QED BY <2>7 DEF j
<1>25. G[1].copy = d.out.item
  BY <1>2, <1>3, <1>6, <1>18
<1>26. /\ \A j, k \in DOMAIN G : G[j].copy = G[k].copy => j = k
       /\ \A k \in DOMAIN G : G[k].copy \notin Live(m)
  BY <1>1, <1>3, <1>18
<1>27. Sound(v, H \cup CopiesOf(G), named)
  BY <1>13, <1>15, <1>18
<1>28. Duplicating(m, H, named, R, g)
  BY <1>18, <1>19, <1>20, <1>21, <1>22, <1>23, <1>24, <1>25, <1>26, <1>27 DEF Duplicating, Grew
<1>29. Left(g) < Left(d)
  <2> DEFINE s == Len(d.out.supply)
  <2>1. s \in Nat
    BY <1>1 DEF Outcomes
  <2>2. Left(d) = 2 * s + n + 1
    BY DEF Left, n, F
  <2>3. Left(g) = 2 * s + (n - 1) + 1
    BY <1>3, <1>18, <1>19, <1>20 DEF Left
  <2> HIDE DEF s
  <2> QED BY <1>3, <2>1, <2>2, <2>3
<1> QED BY <1>28, <1>29 DEF g, out, v, G, a, last, i, p, n, w, B, F

(* The child a copy waits for, and the copy of that child on top of it. *)
Grown(F, next, y) == Append(Append(Below(F), [F[Len(F)] EXCEPT !.child = next]), y)

GrowsTo(F, next, y, G) ==
  /\ G \in Seq(Frames) /\ G # <<>> /\ Len(G) = Len(F) + 1
  /\ DOMAIN G = 1 .. (Len(F) + 1)
  /\ \A k \in DOMAIN F : /\ G[k].copy = F[k].copy /\ G[k].last = F[k].last
                         /\ G[k].child = IF k = Len(F) THEN next ELSE F[k].child
  /\ G[Len(F) + 1] = y
  /\ CopiesOf(G) = CopiesOf(F) \cup {y.copy}

(* The stack with one frame more. *)
LEMMA GrownIs ==
  ASSUME NEW F \in Seq(Frames), F # <<>>, NEW next \in Pointer, NEW y \in Frames
  PROVE  GrowsTo(F, next, y, Grown(F, next, y))
<1> DEFINE n == Len(F)
           B == Below(F)
           x == [F[n] EXCEPT !.child = next]
           G == Append(Append(B, x), y)
<1>1. /\ n \in Nat /\ n >= 1 /\ DOMAIN F = 1 .. n /\ F[n] \in Frames
      /\ B \in Seq(Frames) /\ Len(B) = n - 1
      /\ \A k \in DOMAIN B : B[k] = F[k]
      /\ DOMAIN B = 1 .. (n - 1)
  BY BelowIs
<1>2. x \in Frames /\ x.copy = F[n].copy /\ x.child = next /\ x.last = F[n].last
  BY <1>1 DEF Frames
<1>3. Grown(F, next, y) = G
  BY DEF Grown
<1> HIDE DEF x, B, n
<1>4. Append(B, x) \in Seq(Frames) /\ Len(Append(B, x)) = n
      /\ Append(B, x)[n] = x /\ \A k \in 1 .. (n - 1) : Append(B, x)[k] = B[k]
  BY <1>1, <1>2
<1>5. G \in Seq(Frames) /\ Len(G) = n + 1 /\ G[n + 1] = y
      /\ \A k \in 1 .. n : G[k] = Append(B, x)[k]
  BY <1>1, <1>4
<1> HIDE DEF G
<1>6. DOMAIN G = 1 .. (n + 1)
  BY <1>5
<1>7. G # <<>>
  <2>1. Len(G) # Len(<<>>)
    BY <1>1, <1>5
  <2> QED BY <2>1, Zenon
<1>8. \A k \in 1 .. n : G[k] = IF k = n THEN x ELSE F[k]
  <2> SUFFICES ASSUME NEW k \in 1 .. n PROVE G[k] = IF k = n THEN x ELSE F[k]
    OBVIOUS
  <2>1. CASE k = n
    BY <1>1, <1>4, <1>5, <2>1
  <2>2. CASE k # n
    <3>1. k \in 1 .. (n - 1)
      BY <1>1, <2>2
    <3> QED BY <1>1, <1>4, <1>5, <2>2, <3>1
  <2> QED BY <2>1, <2>2
<1>9. \A k \in DOMAIN F : /\ G[k].copy = F[k].copy /\ G[k].last = F[k].last
                          /\ G[k].child = IF k = n THEN next ELSE F[k].child
  BY <1>1, <1>2, <1>8
<1>10. CopiesOf(G) = CopiesOf(F) \cup {y.copy}
  <2>1. \A k \in 1 .. (n + 1) : k \in 1 .. n \/ k = n + 1
    BY <1>1
  <2>2. \A k \in 1 .. n : k \in 1 .. (n + 1)
    BY <1>1
  <2>3. n + 1 \in 1 .. (n + 1)
    BY <1>1
  <2> DEFINE e == n + 1
  <2>4. G[e] = y /\ DOMAIN G = 1 .. e /\ e \in 1 .. e
        /\ \A k \in 1 .. e : k \in 1 .. n \/ k = e
    BY <1>5, <1>6, <2>1, <2>3
  <2>5. \A k \in 1 .. n : k \in 1 .. e
    BY <2>2
  <2> HIDE DEF e
  <2>6. \A k \in 1 .. n : G[k].copy = F[k].copy
    BY <1>1, <1>9
  <2>7. CopiesOf(G) \subseteq CopiesOf(F) \cup {y.copy}
    BY <1>1, <2>4, <2>6 DEF CopiesOf
  <2>8. CopiesOf(F) \cup {y.copy} \subseteq CopiesOf(G)
    BY <1>1, <2>4, <2>5, <2>6 DEF CopiesOf
  <2> QED BY <2>7, <2>8
<1>11. GrowsTo(F, next, y, G)
  BY <1>5, <1>6, <1>7, <1>9, <1>10 DEF n, GrowsTo
<1> QED BY <1>3, <1>11

(* What is shown is there, and so is what its members show. *)
LEMMA ShownIs ==
  ASSUME NEW m \in Memory, Linked(m), NEW R, Readers(m, R), NEW kind, NEW x,
         x # NULL, Shown(m, R, kind, x)
  PROVE  /\ x \in Live(m) /\ Shown(m, R, kind, m.item[x].next)
         /\ Shown(m, R, m.item[x].kind, m.item[x].child)
         /\ Named(m) /\ kind = "object" => m.item[x].name # NULL
<1>1. PICK o \in Live(m) : /\ Owner(m, o) /\ m.item[o].kind = kind
                           /\ x \in Chain(m, o) /\ Chain(m, o) \subseteq R
  BY DEF Shown
<1>2. x \in R
  BY <1>1
<1>3. x \in Live(m) /\ Shown(m, R, m.item[x].kind, m.item[x].child)
  BY <1>2 DEF Readers
<1>4. m.item[x].next # NULL => MemberOf(m, o, m.item[x].next)
  BY <1>1, LeadsToMember
<1>5. Shown(m, R, kind, m.item[x].next)
  BY <1>1, <1>4 DEF Shown, MemberOf
<1>6. Named(m) /\ kind = "object" => m.item[x].name # NULL
  BY <1>1 DEF Named
<1> QED BY <1>3, <1>5, <1>6

(* The child that is copied next. *)
WaitsFor(d) == d.frames[Len(d.frames)].child

(* A child is copied; its own children come before the one after it. *)
LEMMA GrowsCopy ==
  ASSUME NEW m, NEW H \in SUBSET Live(m), NEW named, NEW R, NEW d, Duplicating(m, H, named, R, d),
         Sound(m, H, named), Readers(m, R),
         d.frames # <<>>, d.out.item # NULL,
         WaitsFor(d) # NULL,
         NEW made, made.item # NULL, Len(made.supply) < Len(d.out.supply),
         Created(d.out.mem, H \cup CopiesOf(d.frames), named, d.out.mem.item[WaitsFor(d)].kind, made),
         made.mem.item[made.item].name = d.out.mem.item[WaitsFor(d)].name
  PROVE  LET src == d.out.mem.item[WaitsFor(d)]
             g == [out |-> [made EXCEPT !.item = d.out.item],
                   frames |-> Grown(d.frames, src.next, Copying(made.item, src.child))]
         IN  Duplicating(m, H, named, R, g) /\ Left(g) < Left(d)
<1> DEFINE F == d.frames
           w == d.out.mem
           n == Len(F)
           x == WaitsFor(d)
           src == w.item[x]
           next == src.next
           c == made.item
           v == made.mem
           y == Copying(c, src.child)
           out == [made EXCEPT !.item = d.out.item]
           G == Grown(F, next, y)
           g == [out |-> out, frames |-> G]
<1>1. /\ d.out \in Outcomes /\ F \in Seq(Frames) /\ F # <<>>
      /\ \A j, k \in DOMAIN F : F[j].copy = F[k].copy => j = k
      /\ \A k \in DOMAIN F : F[k].copy \notin Live(m)
      /\ Sound(w, H \cup CopiesOf(F), named)
  BY DEF Duplicating, Dups
<1>2. /\ F[1].copy = d.out.item
      /\ Kept(m, w, Live(m)) /\ Live(m) \subseteq Live(w)
      /\ \A k \in DOMAIN F : FrameOK(m, R, w, F[k])
      /\ \A k \in DOMAIN F : k > 1 => NamedIn(named, w, F[k - 1].copy, F[k].copy)
  BY DEF Duplicating, Grew
<1>3. n \in Nat /\ n >= 1 /\ DOMAIN F = 1 .. n /\ n \in DOMAIN F
  BY <1>1, BelowIs
<1>4. x = F[n].child /\ x # NULL
  BY DEF WaitsFor
<1>5. /\ made \in Outcomes /\ Supply(v, made.supply) /\ Kept(w, v, Live(w))
      /\ Sound(v, (H \cup CopiesOf(F)) \cup {c}, named)
      /\ c \in Cell \ Live(w) /\ Live(v) = Live(w) \cup {c}
      /\ v.item[c].kind = src.kind /\ v.item[c].ref = FALSE
      /\ v.item[c].child = NULL /\ v.item[c].next = NULL /\ v.item[c].name = src.name
  BY DEF Created
<1>6. d.out.item \in Pointer /\ v \in Memory /\ m \in Memory /\ Linked(m) /\ w \in Memory /\ Linked(w)
  BY <1>1, <1>5 DEF Sound, Tied, Outcomes
<1> HIDE DEF F, n, x, next, src, c, v, y, out, G, g, w
<1>7. FrameOK(m, R, w, F[n])
  BY <1>2, <1>3
<1>8. Shown(m, R, w.item[F[n].copy].kind, x)
  BY <1>4, <1>7 DEF FrameOK
<1>9. /\ x \in Live(m) /\ Shown(m, R, w.item[F[n].copy].kind, m.item[x].next)
      /\ Shown(m, R, m.item[x].kind, m.item[x].child)
      /\ Named(m) /\ w.item[F[n].copy].kind = "object" => m.item[x].name # NULL
  BY <1>4, <1>6, <1>8, ShownIs
<1>10. src = m.item[x] /\ src \in Item /\ src.kind # "free"
  <2>1. src = m.item[x]
    BY <1>2, <1>9 DEF Kept, src
  <2> QED BY <1>6, <1>9, <2>1 DEF Live, Memory
<1>11. next \in Pointer /\ src.child \in Pointer /\ next = m.item[x].next
  BY <1>10 DEF Item, next
<1>12. y \in Frames /\ y.copy = c /\ y.child = src.child /\ y.last = NULL
  BY <1>5, <1>11 DEF Frames, Copying, Pointer, y
<1>13. /\ G \in Seq(Frames) /\ G # <<>> /\ Len(G) = n + 1
       /\ DOMAIN G = 1 .. (n + 1)
       /\ \A k \in DOMAIN F : /\ G[k].copy = F[k].copy /\ G[k].last = F[k].last
                              /\ G[k].child = IF k = n THEN next ELSE F[k].child
       /\ G[n + 1] = y
       /\ CopiesOf(G) = CopiesOf(F) \cup {y.copy}
  <2>1. GrowsTo(F, next, y, G)
    BY <1>1, <1>11, <1>12, GrownIs DEF G
  <2> QED BY <2>1 DEF GrowsTo, n
<1>14. out.mem = v /\ out.item = d.out.item /\ out.supply = made.supply /\ out \in Outcomes
  BY <1>5, <1>6 DEF Outcomes, out, v
<1>15. g.out = out /\ g.frames = G /\ g \in Dups
  BY <1>13, <1>14 DEF Dups, g
<1> DEFINE e == n + 1
<1>16. /\ e > 1 /\ e - 1 = n /\ DOMAIN G = 1 .. e /\ G[e] = y
       /\ \A k \in DOMAIN G : k \in DOMAIN F \/ k = e
       /\ \A k \in DOMAIN F : k # e
       /\ \A k \in DOMAIN F : k > 1 => k - 1 \in DOMAIN F
  BY <1>3, <1>13
<1> HIDE DEF e
<1>17. \A k \in DOMAIN F : F[k] \in Frames /\ F[k].copy \in Cell /\ F[k].last \in Pointer
  <2>1. \A k \in DOMAIN F : F[k] \in Frames
    BY <1>1
  <2> QED BY <2>1 DEF Frames
<1>18. \A k \in DOMAIN F : F[k].copy \in Live(w) /\ Owner(w, F[k].copy)
  <2>1. \A k \in DOMAIN F : Owner(w, F[k].copy)
    BY <1>2 DEF FrameOK
  <2> QED BY <1>17, <2>1 DEF Owner, Live
<1>19. c \notin Live(m)
  BY <1>2, <1>5
<1>20. /\ \A j, k \in DOMAIN G : G[j].copy = G[k].copy => j = k
       /\ \A k \in DOMAIN G : G[k].copy \notin Live(m)
  <2>1. \A k \in DOMAIN F : G[k].copy = F[k].copy /\ F[k].copy # c
    BY <1>5, <1>13, <1>18
  <2>2. G[e].copy = c
    BY <1>12, <1>16
  <2> QED BY <1>1, <1>16, <1>19, <2>1, <2>2
<1>21. Sound(v, H \cup CopiesOf(G), named)
  <2>1. (H \cup CopiesOf(F)) \cup {c} = H \cup CopiesOf(G)
    BY <1>12, <1>13
  <2> QED BY <1>5, <2>1
<1>22. Kept(m, v, Live(m)) /\ Live(m) \subseteq Live(v)
  BY <1>2, <1>5 DEF Kept
<1>23. \A k \in DOMAIN G : FrameOK(m, R, v, G[k])
  <2>1. ASSUME NEW k \in DOMAIN F PROVE FrameOK(m, R, v, G[k])
    <3> DEFINE b == F[k].copy
               z == F[k].last
    <3>1. b \in Live(w) /\ Owner(w, b) /\ z \in Pointer /\ G[k].copy = b /\ G[k].last = z
          /\ G[k].child = IF k = n THEN next ELSE F[k].child
      BY <1>13, <1>17, <1>18
    <3>2. z \notin Live(m) /\ LastOf(w, b, z) /\ Shown(m, R, w.item[b].kind, F[k].child)
      BY <1>2 DEF FrameOK
    <3>3. k = n => Shown(m, R, w.item[b].kind, next)
      BY <1>9, <1>11
    <3> HIDE DEF b, z
    <3>4. v.item[b] = w.item[b]
      BY <1>5, <3>1 DEF Kept
    <3>5. Owner(v, b)
      BY <3>1, <3>4 DEF Owner
    <3>6. Live(w) \subseteq Live(v)
      BY <1>5
    <3>7. LastOf(v, b, z)
      BY <1>5, <1>6, <3>1, <3>2, <3>6, KeptLastOf
    <3>8. Shown(m, R, v.item[b].kind, G[k].child)
      BY <3>1, <3>2, <3>3, <3>4
    <3> QED BY <3>1, <3>2, <3>5, <3>7, <3>8 DEF FrameOK
  <2>2. FrameOK(m, R, v, G[e])
    <3>1. G[e].copy = c /\ G[e].last = NULL /\ G[e].child = src.child
      BY <1>12, <1>16
    <3>2. Owner(v, c)
      BY <1>5, <1>10 DEF Owner
    <3>3. NULL \notin Live(m)
      BY NullAssumption DEF Live
    <3>4. LastOf(v, c, NULL)
      BY <1>5 DEF LastOf
    <3>5. Shown(m, R, v.item[c].kind, src.child)
      BY <1>5, <1>9, <1>10
    <3> QED BY <3>1, <3>2, <3>3, <3>4, <3>5 DEF FrameOK
  <2> QED BY <1>16, <2>1, <2>2
<1>24. \A k \in DOMAIN G : k > 1 => NamedIn(named, v, G[k - 1].copy, G[k].copy)
  <2>1. ASSUME NEW k \in DOMAIN F, k > 1 PROVE NamedIn(named, v, G[k - 1].copy, G[k].copy)
    <3> DEFINE j == k - 1
    <3>1. j \in DOMAIN F
      BY <1>16, <2>1
    <3>2. NamedIn(named, w, F[j].copy, F[k].copy)
      BY <1>2, <2>1
    <3> HIDE DEF j
    <3>3. /\ G[j].copy = F[j].copy /\ G[k].copy = F[k].copy
          /\ F[j].copy \in Live(w) /\ F[k].copy \in Live(w)
      BY <1>13, <1>18, <3>1
    <3>4. NamedIn(named, v, G[j].copy, G[k].copy)
      BY <1>5, <3>2, <3>3 DEF NamedIn, Kept
    <3> QED BY <3>4 DEF j
  <2>2. NamedIn(named, v, G[n].copy, G[e].copy)
    <3>1. G[n].copy = F[n].copy /\ G[e].copy = c /\ F[n].copy \in Live(w)
      BY <1>3, <1>12, <1>13, <1>16, <1>18
    <3>2. v.item[F[n].copy] = w.item[F[n].copy]
      BY <1>5, <3>1 DEF Kept
    <3>3. named => Named(m)
      BY DEF Sound
    <3>4. named /\ v.item[F[n].copy].kind = "object" => v.item[c].name # NULL
      BY <1>5, <1>9, <1>10, <3>2, <3>3
    <3> QED BY <3>1, <3>4 DEF NamedIn
  <2>3. ASSUME NEW k \in DOMAIN G, k > 1 PROVE NamedIn(named, v, G[k - 1].copy, G[k].copy)
    <3>1. CASE k \in DOMAIN F
      BY <2>1, <2>3, <3>1
    <3>2. CASE k = e
      <4>1. k - 1 = n
        BY <1>16, <3>2
      <4> QED BY <2>2, <3>2, <4>1
    <3> QED BY <1>16, <3>1, <3>2
  <2> QED BY <2>3
<1>25. G[1].copy = d.out.item
  BY <1>2, <1>3, <1>13
<1>26. Supply(out.mem, out.supply)
  BY <1>5, <1>14
<1>27. Duplicating(m, H, named, R, g)
  BY <1>13, <1>14, <1>15, <1>20, <1>21, <1>22, <1>23, <1>24, <1>25, <1>26 DEF Duplicating, Grew
<1>28. Left(g) < Left(d)
  <2> DEFINE s == Len(d.out.supply)
             t == Len(made.supply)
  <2>1. s \in Nat /\ t \in Nat /\ t < s
    BY <1>1, <1>5 DEF Outcomes
  <2>2. Left(d) = 2 * s + n + 1
    BY DEF Left, n, F
  <2>3. Left(g) = 2 * t + (n + 1) + 1
    BY <1>13, <1>14, <1>15 DEF Left
  <2> HIDE DEF s, t
  <2> QED BY <1>3, <2>1, <2>2, <2>3
<1> QED BY <1>27, <1>28 DEF g, out, G, y, v, c, next, src, x, n, w, F

(* Every turn keeps what holds of the copies, and is one less to come. *)
LEMMA CopyNextKeeps ==
  ASSUME NEW m, NEW H, NEW named, Sound(m, H, named), NEW R, Readers(m, R),
         NEW d, Duplicating(m, H, named, R, d)
  PROVE  /\ Duplicating(m, H, named, R, CopyNext(d))
         /\ d.frames = <<>> => CopyNext(d).frames = <<>>
         /\ d.frames # <<>> => CopyNext(d).frames = <<>> \/ Left(CopyNext(d)) < Left(d)
<1> DEFINE F == d.frames
           top == F[Len(F)]
           below == Below(F)
           parent == below[Len(below)]
           x == top.child
           made == CopyItem(d.out.mem, x, d.out.supply, d.out.ink)
           src == d.out.mem.item[x]
           undone == [out |-> [d.out EXCEPT !.mem = cJSON_Delete(@, top.copy)], frames |-> below]
           ended == [d EXCEPT !.frames = <<>>]
           linked == [out |-> [d.out EXCEPT !.mem = Linking(@, parent.copy, parent.last, top.copy)],
                      frames |-> LastFrameWith(below, top.copy)]
           failed == [d EXCEPT !.out = made]
           grown == [out |-> [made EXCEPT !.item = d.out.item],
                     frames |-> Grown(F, src.next, Copying(made.item, src.child))]
<1>1. CopyNext(d) = IF F = <<>> THEN d
                    ELSE IF d.out.item = NULL THEN undone
                    ELSE IF x = NULL /\ below = <<>> THEN ended
                    ELSE IF x = NULL THEN linked
                    ELSE IF made.item = NULL THEN failed
                    ELSE grown
  BY DEF CopyNext, Below, LastFrameWith, FrameWith, Grown
<1>2. m \in Memory /\ Linked(m) /\ H \in SUBSET Live(m)
  BY DEF Sound, Tied
<1> HIDE DEF undone, ended, linked, failed, grown
<1>3. CASE F = <<>>
  <2>1. CopyNext(d) = d
    BY <1>1, <1>3
  <2> QED BY <1>3, <2>1
<1>4. CASE F # <<>> /\ d.out.item = NULL
  <2>1. CopyNext(d) = undone
    BY <1>1, <1>4
  <2>2. Duplicating(m, H, named, R, undone) /\ Left(undone) < Left(d)
    BY <1>2, <1>4, UndoesCopy DEF undone
  <2> QED BY <1>4, <2>1, <2>2
<1>5. CASE F # <<>> /\ d.out.item # NULL /\ x = NULL /\ below = <<>>
  <2>1. CopyNext(d) = ended
    BY <1>1, <1>5
  <2>2. Duplicating(m, H, named, R, ended) /\ ended.frames = <<>>
    BY <1>5, EndsCopy DEF ended
  <2> QED BY <1>5, <2>1, <2>2
<1>6. CASE F # <<>> /\ d.out.item # NULL /\ x = NULL /\ below # <<>>
  <2>1. CopyNext(d) = linked
    BY <1>1, <1>6
  <2>2. Duplicating(m, H, named, R, linked) /\ Left(linked) < Left(d)
    BY <1>2, <1>6, LinksCopy DEF linked
  <2> QED BY <1>6, <2>1, <2>2
<1>7. CASE F # <<>> /\ d.out.item # NULL /\ x # NULL
  <2> DEFINE w == d.out.mem
             kind == w.item[x].kind
  <2>1. /\ d.out \in Outcomes /\ Supply(w, d.out.supply)
        /\ Sound(w, H \cup CopiesOf(F), named)
        /\ Live(m) \subseteq Live(w)
        /\ \A k \in DOMAIN F : FrameOK(m, R, w, F[k])
    BY <1>7 DEF Duplicating, Dups, Grew
  <2>2. F \in Seq(Frames)
    BY DEF Duplicating, Dups
  <2>3. Len(F) \in DOMAIN F
    BY <1>7, <2>2, BelowIs
  <2>4. Shown(m, R, w.item[top.copy].kind, x)
    BY <2>1, <2>3 DEF FrameOK
  <2> HIDE DEF F, top, made, x, w
  <2>5. x \in Live(m)
    BY <1>2, <1>7, <2>4, ShownIs
  <2>6. x \in Live(w) /\ d.out.ink \in Nat
    BY <2>1, <2>5 DEF Outcomes
  <2>7. /\ Created(w, H \cup CopiesOf(F), named, kind, made)
        /\ made.item # NULL => made.mem.item[made.item].name = w.item[x].name
        /\ Len(made.supply) <= Len(d.out.supply)
        /\ made.item # NULL => Len(made.supply) < Len(d.out.supply)
    BY <2>1, <2>6, CopyItemSound DEF made, w
  <2> HIDE DEF kind
  <2>8. CASE made.item = NULL
    <3>1. CopyNext(d) = failed
      BY <1>1, <1>7, <2>8
    <3>2. Duplicating(m, H, named, R, failed) /\ Left(failed) < Left(d)
      BY <1>7, <2>7, <2>8, FailsCopy DEF failed, w, F
    <3> QED BY <1>7, <3>1, <3>2 DEF F
  <2>9. CASE made.item # NULL
    <3>1. CopyNext(d) = grown
      BY <1>1, <1>7, <2>9
    <3>2. x = WaitsFor(d)
      BY DEF WaitsFor, x, top, F
    <3>3. Duplicating(m, H, named, R, grown) /\ Left(grown) < Left(d)
      <4>1. Created(d.out.mem, H \cup CopiesOf(d.frames), named, d.out.mem.item[WaitsFor(d)].kind, made)
        BY <2>7, <3>2 DEF w, F, kind
      <4>2. made.mem.item[made.item].name = d.out.mem.item[WaitsFor(d)].name
        BY <2>7, <2>9, <3>2 DEF w
      <4>3. grown = [out |-> [made EXCEPT !.item = d.out.item],
                     frames |-> Grown(d.frames, d.out.mem.item[WaitsFor(d)].next,
                                      Copying(made.item, d.out.mem.item[WaitsFor(d)].child))]
        BY <3>2 DEF grown, F
      <4>4. d.frames # <<>> /\ d.out.item # NULL /\ WaitsFor(d) # NULL
        BY <1>7, <3>2 DEF F
      <4> QED BY <1>2, <2>7, <2>9, <4>1, <4>2, <4>3, <4>4, GrowsCopy
    <3> QED BY <1>7, <3>1, <3>3 DEF F
  <2> QED BY <2>8, <2>9
<1> QED BY <1>3, <1>4, <1>5, <1>6, <1>7

(* The turns of cJSON_Duplicate. *)
CopyTurns(m, c, first) ==
  CHOOSE turn : turn = [k \in Nat |->
    IF k = 0 THEN [out |-> first, frames |-> <<Copying(first.item, m.item[c].child)>>]
    ELSE CopyNext(turn[k - 1])]

(* It holds before the first turn. *)
LEMMA CopyBegins ==
  ASSUME NEW m, NEW H, NEW named, Sound(m, H, named), NEW R, Readers(m, R), NEW c \in R,
         NEW supply, Supply(m, supply),
         NEW first, Created(m, H, named, m.item[c].kind, first),
         first.item # NULL, Len(first.supply) < Len(supply)
  PROVE  LET d == [out |-> first, frames |-> <<Copying(first.item, m.item[c].child)>>]
         IN  Duplicating(m, H, named, R, d) /\ Left(d) <= 2 * Len(supply)
<1> DEFINE i == first.item
           child == m.item[c].child
           f == Copying(i, child)
           F == <<f>>
           d == [out |-> first, frames |-> F]
           v == first.mem
<1>1. /\ first \in Outcomes /\ Supply(v, first.supply) /\ Kept(m, v, Live(m))
      /\ Sound(v, H \cup {i}, named) /\ i \in Cell \ Live(m) /\ Live(v) = Live(m) \cup {i}
      /\ v.item[i].kind = m.item[c].kind /\ v.item[i].ref = FALSE /\ v.item[i].child = NULL
  BY DEF Created
<1>2. c \in Live(m) /\ Shown(m, R, m.item[c].kind, child)
  BY DEF Readers
<1>3. m.item[c].kind # "free" /\ child \in Pointer
  BY <1>2 DEF Live, Sound, Memory, Item
<1> HIDE DEF i, child, v
<1>4. f \in Frames /\ f.copy = i /\ f.child = child /\ f.last = NULL
  BY <1>1, <1>3 DEF Frames, Copying, Pointer
<1> HIDE DEF f
<1>5. F \in Seq(Frames) /\ F # <<>> /\ Len(F) = 1 /\ DOMAIN F = 1 .. 1 /\ F[1] = f
  BY <1>4
<1>6. \A k \in 1 .. 1 : k = 1 /\ ~(k > 1)
  OBVIOUS
<1> HIDE DEF F
<1>7. CopiesOf(F) = {i}
  BY <1>4, <1>5, <1>6 DEF CopiesOf
<1>8. d.out = first /\ d.frames = F /\ d \in Dups
  BY <1>1, <1>5 DEF Dups
<1> HIDE DEF d
<1>9. FrameOK(m, R, v, f)
  <2>1. Owner(v, i) /\ LastOf(v, i, NULL)
    BY <1>1, <1>3 DEF Owner, LastOf
  <2>2. NULL \notin Live(m)
    BY NullAssumption DEF Live
  <2>3. Shown(m, R, v.item[i].kind, child)
    BY <1>1, <1>2
  <2> QED BY <1>4, <2>1, <2>2, <2>3 DEF FrameOK
<1>10. Duplicating(m, H, named, R, d)
  <2>1. /\ \A j, k \in DOMAIN F : F[j].copy = F[k].copy => j = k
        /\ \A k \in DOMAIN F : F[k].copy \notin Live(m)
        /\ \A k \in DOMAIN F : FrameOK(m, R, v, F[k])
        /\ \A k \in DOMAIN F : k > 1 => NamedIn(named, v, F[k - 1].copy, F[k].copy)
    BY <1>1, <1>4, <1>5, <1>6, <1>9
  <2>2. Sound(v, H \cup CopiesOf(F), named) /\ Grew(m, v) /\ F[1].copy = first.item
    BY <1>1, <1>4, <1>5, <1>7 DEF i, Grew
  <2> QED BY <1>1, <1>5, <1>8, <2>1, <2>2 DEF Duplicating, v
<1>11. Left(d) <= 2 * Len(supply)
  <2> DEFINE s == Len(supply)
             t == Len(first.supply)
  <2>1. s \in Nat /\ t \in Nat /\ t < s
    BY <1>1 DEF Outcomes, Supply
  <2>2. Left(d) = 2 * t + 1 + 1
    BY <1>5, <1>8 DEF Left
  <2> HIDE DEF s, t
  <2>3. Left(d) <= 2 * s
    BY <2>1, <2>2
  <2> QED BY <2>3 DEF s
<1> QED BY <1>10, <1>11 DEF d, F, f, i, child

(* Every turn of W keeps what holds of the copies. *)
Turning(m, H, named, R, W) ==
  \A k \in Nat : Duplicating(m, H, named, R, W[k]) /\ W[k + 1] = CopyNext(W[k])

(* It holds after every turn. *)
LEMMA CopyTurnsKeep ==
  ASSUME NEW m, NEW H, NEW named, Sound(m, H, named), NEW R, Readers(m, R), NEW c \in R,
         NEW supply, Supply(m, supply),
         NEW first, Created(m, H, named, m.item[c].kind, first),
         first.item # NULL, Len(first.supply) < Len(supply)
  PROVE  LET W == CopyTurns(m, c, first)
         IN  /\ W[0] = [out |-> first, frames |-> <<Copying(first.item, m.item[c].child)>>]
             /\ Turning(m, H, named, R, W)
<1> DEFINE A == {d \in Dups : Duplicating(m, H, named, R, d)}
           begin == [out |-> first, frames |-> <<Copying(first.item, m.item[c].child)>>]
           step == [d \in A |-> CopyNext(d)]
           Solves(v) == v = [k \in Nat |-> IF k = 0 THEN begin ELSE CopyNext(v[k - 1])]
           W == CopyTurns(m, c, first)
<1>1. begin \in A
  <2>1. Duplicating(m, H, named, R, begin)
    BY CopyBegins
  <2> HIDE DEF begin
  <2> QED BY <2>1 DEF Duplicating
<1>2. ASSUME NEW d \in A PROVE CopyNext(d) \in A
  <2>1. Duplicating(m, H, named, R, CopyNext(d))
    BY CopyNextKeeps
  <2> QED BY <2>1 DEF Duplicating
<1>3. \A d \in A : step[d] = CopyNext(d) /\ step[d] \in A
  BY <1>2
<1>4. \A d \in A : Duplicating(m, H, named, R, d)
  OBVIOUS
<1>5. W = CHOOSE v : Solves(v)
  BY DEF CopyTurns
<1> HIDE DEF A, begin, step
<1>6. StaysIn(A, step)
  BY <1>3 DEF StaysIn
<1>7. PICK f \in [Nat -> A] : Runs(f, begin, step)
  BY <1>1, <1>6, NatIteration
<1>8. Solves(f)
  <2>1. ASSUME NEW k \in Nat PROVE f[k] = IF k = 0 THEN begin ELSE CopyNext(f[k - 1])
    <3>1. CASE k = 0
      BY <1>7, <3>1 DEF Runs
    <3>2. CASE k # 0
      <4>1. k - 1 \in Nat /\ (k - 1) + 1 = k
        BY <3>2
      <4>2. f[(k - 1) + 1] = step[f[k - 1]] /\ f[k - 1] \in A
        BY <1>7, <4>1 DEF Runs
      <4> QED BY <1>3, <3>2, <4>1, <4>2
    <3> QED BY <3>1, <3>2
  <2>2. f = [k \in Nat |-> f[k]]
    OBVIOUS
  <2> QED BY <2>1, <2>2
<1>9. Solves(W)
  <2> HIDE DEF Solves, W
  <2> QED BY <1>5, <1>8
<1> HIDE DEF W
<1>10. \A k \in Nat : W[k] = IF k = 0 THEN begin ELSE CopyNext(W[k - 1])
  BY <1>9
<1>11. W[0] = begin /\ \A k \in Nat : W[k + 1] = CopyNext(W[k])
  <2>1. \A k \in Nat : k + 1 \in Nat /\ k + 1 # 0 /\ (k + 1) - 1 = k
    OBVIOUS
  <2>2. 0 \in Nat
    OBVIOUS
  <2> QED BY <1>10, <2>1, <2>2
<1>12. \A k \in Nat : W[k] \in A => W[k + 1] = step[W[k]]
  BY <1>3, <1>11
<1>13. \A k \in Nat : W[k] \in A
  <2>1. W[0] = begin
    BY <1>11
  <2> QED BY <1>1, <1>6, <1>12, <2>1, NatIterates
<1>14. Turning(m, H, named, R, W)
  BY <1>4, <1>11, <1>13 DEF Turning
<1>15. W[0] = begin
  BY <1>11
<1> QED BY <1>14, <1>15 DEF W, begin

(* The stack is empty when as many turns are over as there were left. *)
LEMMA CopyEnds ==
  ASSUME NEW m, NEW H, NEW named, Sound(m, H, named), NEW R, Readers(m, R), NEW c \in R,
         NEW supply, Supply(m, supply),
         NEW first, Created(m, H, named, m.item[c].kind, first),
         first.item # NULL, Len(first.supply) < Len(supply)
  PROVE  LET d == CopyTurns(m, c, first)[2 * Len(supply)]
         IN  Duplicating(m, H, named, R, d) /\ d.frames = <<>>
<1> DEFINE W == CopyTurns(m, c, first)
           N == 2 * Len(supply)
           S == {k \in Nat : W[k].frames = <<>> \/ Left(W[k]) + k <= N}
<1>1. N \in Nat
  BY DEF Supply
<1>2. \A k \in Nat : Duplicating(m, H, named, R, W[k]) /\ W[k + 1] = CopyNext(W[k])
  <2>1. Turning(m, H, named, R, W)
    BY CopyTurnsKeep
  <2> QED BY <2>1 DEF Turning
<1>3. Left(W[0]) <= N
  <2> DEFINE begin == [out |-> first, frames |-> <<Copying(first.item, m.item[c].child)>>]
  <2>1. W[0] = begin
    BY CopyTurnsKeep
  <2>2. Left(begin) <= N
    BY CopyBegins
  <2> HIDE DEF begin, W, N
  <2> QED BY <2>1, <2>2
<1> HIDE DEF W, N
<1>4. \A k \in Nat : Left(W[k]) \in Nat /\ (W[k].frames # <<>> => Left(W[k]) > 0)
  <2> SUFFICES ASSUME NEW k \in Nat
               PROVE  Left(W[k]) \in Nat /\ (W[k].frames # <<>> => Left(W[k]) > 0)
    OBVIOUS
  <2> DEFINE d == W[k]
             s == Len(d.out.supply)
             n == Len(d.frames)
  <2>1. d \in Dups
    BY <1>2 DEF Duplicating
  <2>2. s \in Nat /\ n \in Nat
    BY <2>1 DEF Dups, Outcomes
  <2>3. d.frames # <<>> => n >= 1
    BY <2>1, BelowIs DEF Dups
  <2>4. Left(d) = 2 * s + n + (IF d.out.item = NULL THEN 0 ELSE 1)
    BY DEF Left
  <2> HIDE DEF d, s, n
  <2>5. Left(d) \in Nat /\ (d.frames # <<>> => Left(d) > 0)
    BY <2>2, <2>3, <2>4
  <2> QED BY <2>5 DEF d
<1>5. 0 \in S
  <2>1. Left(W[0]) + 0 <= N
    BY <1>1, <1>3, <1>4
  <2> QED BY <2>1
<1>6. ASSUME NEW k \in Nat, k \in S PROVE k + 1 \in S
  <2> DEFINE d == W[k]
             e == CopyNext(d)
  <2>1. Duplicating(m, H, named, R, d) /\ W[k + 1] = e
    BY <1>2
  <2>2. /\ d.frames = <<>> => e.frames = <<>>
        /\ d.frames # <<>> => e.frames = <<>> \/ Left(e) < Left(d)
    BY <2>1, CopyNextKeeps
  <2>3. k + 1 \in Nat
    OBVIOUS
  <2>4. Left(d) \in Nat /\ Left(e) \in Nat
    BY <1>4, <2>1, <2>3
  <2>5. d.frames = <<>> \/ Left(d) + k <= N
    BY <1>6
  <2> HIDE DEF d, e
  <2>6. e.frames = <<>> \/ Left(e) + (k + 1) <= N
    BY <1>1, <2>2, <2>4, <2>5
  <2> QED BY <2>1, <2>3, <2>6
<1>7. Nat \subseteq S
  <2> HIDE DEF S
  <2> QED BY <1>5, <1>6, NatSet
<1>8. W[N].frames = <<>> \/ Left(W[N]) + N <= N
  BY <1>1, <1>7
<1>9. W[N].frames = <<>>
  <2> DEFINE l == Left(W[N])
  <2>1. l \in Nat /\ (W[N].frames # <<>> => l > 0)
    BY <1>1, <1>4
  <2>2. W[N].frames = <<>> \/ l + N <= N
    BY <1>8
  <2> HIDE DEF l
  <2> QED BY <1>1, <2>1, <2>2
<1> QED BY <1>1, <1>2, <1>9 DEF W, N

(* A copy with all that hangs from it, or nothing and what there was. *)
LEMMA DuplicateSound ==
  ASSUME NEW m, NEW H, NEW named, Sound(m, H, named), NEW R, Readers(m, R), NEW c \in R,
         NEW recurse \in BOOLEAN, NEW supply, Supply(m, supply), NEW ink \in Nat
  PROVE  LET r == cJSON_Duplicate(m, c, recurse, supply, ink)
         IN  /\ Grew(m, r.mem)
             /\ r.item = NULL => Sound(r.mem, H, named)
             /\ r.item # NULL => Sound(r.mem, H \cup {r.item}, named) /\ r.item \notin Live(m)
<1> DEFINE first == CopyItem(m, c, supply, ink)
           d == CopyTurns(m, c, first)[2 * Len(supply)]
           r == cJSON_Duplicate(m, c, recurse, supply, ink)
<1>1. c \in Live(m)
  BY DEF Readers
<1>2. /\ Created(m, H, named, m.item[c].kind, first)
      /\ first.item # NULL => Len(first.supply) < Len(supply)
  BY <1>1, CopyItemSound
<1>3. r = IF first.item = NULL \/ ~recurse THEN first ELSE d.out
  BY DEF cJSON_Duplicate, CopyTurns
<1> HIDE DEF first, d, r
<1>4. CASE first.item = NULL \/ ~recurse
  <2>1. r = first
    BY <1>3, <1>4
  <2>2. Grew(m, first.mem)
    BY <1>2 DEF Created, Grew
  <2> QED BY <1>2, <2>1, <2>2 DEF Created, r
<1>5. CASE first.item # NULL /\ recurse
  <2>1. r = d.out
    BY <1>3, <1>5
  <2>2. Duplicating(m, H, named, R, d) /\ d.frames = <<>>
    BY <1>2, <1>5, CopyEnds DEF d
  <2>3. /\ Grew(m, d.out.mem)
        /\ d.out.item = NULL => Sound(d.out.mem, H, named)
        /\ d.out.item # NULL => Sound(d.out.mem, H \cup {d.out.item}, named) /\ d.out.item \notin Live(m)
    BY <2>2 DEF Duplicating
  <2> QED BY <2>1, <2>3 DEF r
<1> QED BY <1>4, <1>5

(* Items with the same first child show the same list. *)
ChildrenFrom(m, head) ==
  LET at[k \in Nat] ==
        IF k = 0 THEN head
        ELSE LET before == at[k - 1] IN IF before = NULL THEN NULL ELSE m.item[before].next
      n == Cardinality({k \in 0 .. (Cardinality(Cell) - 1) : at[k] # NULL})
  IN [k \in 1 .. n |-> at[k - 1]]

(* Their children are the same sequence. *)
LEMMA SameChildren ==
  ASSUME NEW m, NEW x, NEW y, m.item[x].child = m.item[y].child
  PROVE  Children(m, x) = Children(m, y)
<1> DEFINE head == m.item[x].child
<1>1. Children(m, x) = ChildrenFrom(m, m.item[x].child)
  BY DEF Children, ChildrenFrom
<1>2. Children(m, y) = ChildrenFrom(m, m.item[y].child)
  BY DEF Children, ChildrenFrom
<1> QED BY <1>1, <1>2

(* What can be read is closed under the lists it shows. *)
LEMMA ReadsClosed ==
  ASSUME NEW c \in Cell
  PROVE  /\ c \in Reads(c)
         /\ \A x \in Reads(c) : In(Children(mem, x)) \cap Cell \subseteq Reads(c)
<1> DEFINE Good(S) == c \in S /\ (\A y \in S : In(Children(mem, y)) \subseteq S)
<1>1. Reads(c) = {x \in Cell : \A S \in SUBSET Cell : Good(S) => x \in S}
  BY DEF Reads
<1>2. \A S : Good(S) => c \in S /\ (\A y \in S : In(Children(mem, y)) \subseteq S)
  OBVIOUS
<1> HIDE DEF Good
<1>3. c \in Reads(c)
  BY <1>1, <1>2
<1>4. ASSUME NEW x \in Reads(c), NEW z \in In(Children(mem, x)) \cap Cell PROVE z \in Reads(c)
  <2>1. ASSUME NEW S \in SUBSET Cell, Good(S) PROVE z \in S
    <3>1. x \in S
      BY <1>1, <2>1
    <3> QED BY <1>2, <2>1, <3>1
  <2> QED BY <1>1, <2>1
<1> QED BY <1>3, <1>4

(* What can be read of an item can be copied. *)
LEMMA ReadableReaders ==
  ASSUME TreeInv, NEW c \in Live(mem), Readable(c)
  PROVE  c \in Reads(c) /\ Readers(mem, Reads(c))
<1>1. mem \in Memory /\ Linked(mem)
  BY InvFacts
<1>2. c \in Cell
  BY DEF Live
<1> DEFINE R == Reads(c)
<1>3. c \in R /\ \A x \in R : In(Children(mem, x)) \cap Cell \subseteq R
  BY <1>2, ReadsClosed
<1>4. \A x \in R : /\ x \in Live(mem)
                   /\ mem.item[x].ref /\ mem.item[x].child # NULL =>
                        \E o \in Live(mem) : /\ Owner(mem, o) /\ mem.item[o].kind = mem.item[x].kind
                                             /\ mem.item[o].child = mem.item[x].child
  BY DEF Readable
<1> HIDE DEF R
<1>5. ASSUME NEW x \in R, mem.item[x].child # NULL
      PROVE  \E o \in Live(mem) : /\ Owner(mem, o) /\ mem.item[o].kind = mem.item[x].kind
                                  /\ mem.item[x].child \in Chain(mem, o) /\ Chain(mem, o) \subseteq R
  <2>1. PICK o \in Live(mem) : /\ Owner(mem, o) /\ mem.item[o].kind = mem.item[x].kind
                               /\ mem.item[o].child = mem.item[x].child
    <3>1. CASE mem.item[x].ref
      BY <1>4, <1>5, <3>1
    <3>2. CASE ~mem.item[x].ref
      <4>1. x \in Live(mem)
        BY <1>4
      <4>2. Owner(mem, x)
        BY <3>2, <4>1 DEF Owner, Live
      <4> QED BY <4>1, <4>2
    <3> QED BY <3>1, <3>2
  <2>2. mem.item[x].child \in Chain(mem, o)
    BY <1>1, <1>5, <2>1, ChainFacts
  <2>3. In(Children(mem, o)) = Chain(mem, o)
    BY <1>1, <2>1, ChildrenAre
  <2>4. Children(mem, x) = Children(mem, o)
    BY <2>1, SameChildren
  <2>5. Chain(mem, o) \subseteq Cell
    BY DEF Chain
  <2>6. Chain(mem, o) \subseteq R
    BY <1>3, <2>3, <2>4, <2>5
  <2> QED BY <2>1, <2>2, <2>6
<1>6. Readers(mem, R)
  BY <1>4, <1>5 DEF Readers, Shown
<1> QED BY <1>3, <1>6 DEF R

(* cJSON_Duplicate, with and without recurse. *)
LEMMA DuplicateInv == ASSUME TreeInv, NEW c, NEW recurse \in BOOLEAN, Duplicate(c, recurse) PROVE TreeInv'
<1>1. c \in Held /\ Readable(c)
  BY DEF Duplicate
<1>2. PICK s \in Supplies, ink \in 0 .. (2 * Cardinality(Reads(c))) :
        Len(s) <= Cardinality(Reads(c)) /\ Keep(cJSON_Duplicate(mem, c, recurse, s, ink))
  BY DEF Duplicate
<1> DEFINE r == cJSON_Duplicate(mem, c, recurse, s, ink)
           named == ~unnamed
           R == Reads(c)
<1>3. c \in Live(mem)
  BY <1>1, HeldLive
<1>4. c \in R /\ Readers(mem, R)
  BY <1>1, <1>3, ReadableReaders
<1>5. Sound(mem, roots \cup lost, named)
  BY InvFacts
<1>6. Supply(mem, s)
  BY Supplied
<1>7. ink \in Nat
  BY <1>2
<1>8. Keep(r)
  BY <1>2
<1> HIDE DEF named, R
<1>9. /\ r.item = NULL => Sound(r.mem, roots \cup lost, named)
      /\ r.item # NULL => Sound(r.mem, (roots \cup lost) \cup {r.item}, named) /\ r.item \notin Live(mem)
  BY <1>4, <1>5, <1>6, <1>7, DuplicateSound
<1> HIDE DEF r
<1>10. /\ r.item = NULL => Sound(r.mem, roots \cup lost, ~unnamed)
       /\ r.item # NULL => /\ Sound(r.mem, (roots \cup lost) \cup {r.item}, ~unnamed)
                           /\ r.item \notin Live(mem)
  BY <1>9 DEF named
<1> QED BY <1>8, <1>10, KeepInv

-----------------------------------------------------------------------------
(* The theorems *)

(* The invariant is inductive. *)
LEMMA NextInv == TreeInv /\ [Next]_vars => TreeInv'
<1> SUFFICES ASSUME TreeInv, [Next]_vars PROVE TreeInv'
  OBVIOUS
<1>1. CASE UNCHANGED vars
  <2>1. mem' = mem /\ roots' = roots /\ lost' = lost /\ unnamed' = unnamed /\ crashed' = crashed
    BY <1>1 DEF vars
  <2>2. Sound(mem, roots \cup lost, ~unnamed) /\ roots \cap lost = {}
        /\ unnamed \in BOOLEAN /\ crashed \in BOOLEAN /\ (crashed => unnamed)
    BY InvFacts
  <2> QED BY <2>1, <2>2, StepInv
<1>2. CASE Next
  <2>1. CASE Create BY <2>1, CreateInv
  <2>2. CASE CreateArray BY <2>2, CreateArrayInv
  <2>3. CASE CreateReference BY <2>3, CreateReferenceInv
  <2>4. CASE AddItemToArray BY <2>4, AddItemToArrayInv
  <2>5. CASE AddItemToObject BY <2>5, AddItemToObjectInv
  <2>6. CASE AddItemReferenceToArray BY <2>6, AddItemReferenceToArrayInv
  <2>7. CASE AddItemReferenceToObject BY <2>7, AddItemReferenceToObjectInv
  <2>8. CASE AddNewToObject BY <2>8, AddNewToObjectInv
  <2>9. CASE DetachItemFromArray BY <2>9, DetachItemFromArrayInv
  <2>10. CASE DetachItemFromObject BY <2>10, DetachItemFromObjectInv
  <2>11. CASE InsertItemInArray BY <2>11, InsertItemInArrayInv
  <2>12. CASE ReplaceItemInArray BY <2>12, ReplaceItemInArrayInv
  <2>13. CASE ReplaceItemInObject BY <2>13, ReplaceItemInObjectInv
  <2>14. CASE \E c \in Cell, recurse \in BOOLEAN : Duplicate(c, recurse) BY <2>14, DuplicateInv
  <2>15. CASE Delete BY <2>15, DeleteInv
  <2> QED BY <1>2, <2>1, <2>2, <2>3, <2>4, <2>5, <2>6, <2>7, <2>8, <2>9, <2>10, <2>11, <2>12,
             <2>13, <2>14, <2>15 DEF Next
<1> QED BY <1>1, <1>2

(* Between any two calls the memory is sound. *)
THEOREM TreeInvariant == Spec => []TreeInv
BY InitInv, NextInv, PTL DEF Spec

(* The memory is a memory: every pointer is a cell or NULL. *)
THEOREM TreeTypeCorrect == Spec => []TypeOK
BY TreeInvariant, InvImpliesTypeOK, PTL

(* Every item is in one place and freed once, every list reads the same    *)
(* both ways, and nothing is leaked but by a call that failed silently.    *)
THEOREM TreesAreSound == Spec => []TreesSound
BY TreeInvariant, InvImpliesTreesSound, PTL

(* Every key and value that was allocated is freed once. *)
THEOREM StringsAreOwned == Spec => []StringsOwned
BY TreeInvariant, InvImpliesStringsOwned, PTL

(* No lookup crashes unless a replacement's key could not be allocated. *)
THEOREM NamesAreKept == Spec => []NamesKept
BY TreeInvariant, InvImpliesNamesKept, PTL
=============================================================================
