--------------------------- MODULE JsonForestProofs ---------------------------
(***************************************************************************)
(* What the trees of JsonTree show of themselves, without next and prev,   *)
(* is JsonForest's forest: every call of a client is a step of the forest  *)
(* or leaves it alone, for any number of items and any depth.  What each   *)
(* function does to the sequences of children comes first, then what that  *)
(* is to the forest, then the calls.                                       *)
(***************************************************************************)
EXTENDS JsonTreeProofs

-----------------------------------------------------------------------------
(* The children, as sequences *)

(* The sequence of the children is the walk until it ends. *)
LEMMA ChildrenWalk ==
  ASSUME NEW m \in Memory, Linked(m), NEW a \in Live(m), Owner(m, a)
  PROVE  \E n \in 0 .. Cardinality(Cell) :
           /\ Children(m, a) = [k \in 1 .. n |-> Walk(m, a)[k - 1]]
           /\ \A k \in Nat : Walk(m, a)[k] # NULL <=> k < n
<1> DEFINE W == Walk(m, a)
           N == Cardinality(Cell)
           n == Cardinality({k \in 0 .. (N - 1) : W[k] # NULL})
           c == [k \in 1 .. n |-> W[k - 1]]
<1>1. Children(m, a) = c
  BY DEF Children, Walk, NextOf
<1>2. \E i \in 0 .. N : \A k \in Nat : W[k] # NULL <=> k < i
  BY WalkFacts
<1>3. N \in Nat
  BY CellAssumption, FS_CardinalityType
<1> HIDE DEF W, N
<1>4. PICK i \in 0 .. N : \A k \in Nat : W[k] # NULL <=> k < i
  BY <1>2
<1>5. n = i
  <2>1. {k \in 0 .. (N - 1) : W[k] # NULL} = 0 .. (i - 1)
    BY <1>3, <1>4
  <2>2. Cardinality(0 .. (i - 1)) = i
    <3>1. 0 \in Int /\ i - 1 \in Int /\ i \in Nat /\ (i - 1) - 0 + 1 = i
      BY <1>3
    <3>2. Cardinality(0 .. (i - 1)) = IF 0 > i - 1 THEN 0 ELSE (i - 1) - 0 + 1
      BY <3>1, FS_Interval
    <3> QED BY <3>1, <3>2
  <2> QED BY <2>1, <2>2
<1> HIDE DEF n
<1> QED BY <1>1, <1>4, <1>5 DEF W, N

(* The member at place k, NULL behind the last one. *)
MemberAt(s, k) == IF k \in 1 .. Len(s) THEN s[k] ELSE NULL

(* s has the members of a's list, in its order. *)
Lists(m, a, s) ==
  /\ s \in Seq(Cell)
  /\ m.item[a].child = MemberAt(s, 1)
  /\ \A k \in 1 .. Len(s) : m.item[s[k]].next = MemberAt(s, k + 1)

(* The sequence of the children is such a sequence. *)
LEMMA ChildrenList ==
  ASSUME NEW m \in Memory, Linked(m), NEW a \in Live(m), Owner(m, a)
  PROVE  Lists(m, a, Children(m, a))
<1> DEFINE W == Walk(m, a)
           s == Children(m, a)
<1>1. PICK n \in 0 .. Cardinality(Cell) :
        /\ s = [k \in 1 .. n |-> W[k - 1]]
        /\ \A k \in Nat : W[k] # NULL <=> k < n
  BY ChildrenWalk
<1>2. /\ W[0] = m.item[a].child
      /\ \A k \in Nat : W[k] \in Chain(m, a) \cup {NULL} /\ W[k + 1] = NextOf(m, W[k])
  BY WalkIs
<1>3. Chain(m, a) \subseteq Cell /\ n \in Nat
  BY CellAssumption, FS_CardinalityType DEF Chain
<1> HIDE DEF W, s
<1>4. Len(s) = n /\ \A k \in 1 .. n : s[k] = W[k - 1] /\ k - 1 \in Nat /\ k \in Nat /\ (k - 1) + 1 = k /\ s[k] # NULL
  BY <1>1, <1>3
<1>5. s \in Seq(Cell)
  <2>1. \A k \in 1 .. n : W[k - 1] \in Cell
    BY <1>2, <1>3, <1>4
  <2> QED BY <1>1, <1>3, <2>1
<1>6. \A k \in Nat : MemberAt(s, k + 1) = W[k]
  <2> SUFFICES ASSUME NEW k \in Nat PROVE MemberAt(s, k + 1) = W[k]
    OBVIOUS
  <2>1. CASE k < n
    <3>1. k + 1 \in 1 .. n /\ (k + 1) - 1 = k
      BY <1>3, <2>1
    <3>2. s[k + 1] = W[k]
      BY <1>4, <3>1
    <3> QED BY <1>4, <3>1, <3>2 DEF MemberAt
  <2>2. CASE ~(k < n)
    <3>1. k + 1 \notin 1 .. n
      BY <1>3, <2>2
    <3> QED BY <1>1, <1>4, <2>2, <3>1 DEF MemberAt
  <2> QED BY <2>1, <2>2
<1>7. m.item[a].child = MemberAt(s, 1)
  <2>1. 0 \in Nat /\ 0 + 1 = 1
    OBVIOUS
  <2>2. MemberAt(s, 0 + 1) = W[0]
    BY <1>6, <2>1
  <2> QED BY <1>2, <2>1, <2>2
<1>8. ASSUME NEW k \in 1 .. n PROVE m.item[s[k]].next = MemberAt(s, k + 1)
  <2>1. W[k] = NextOf(m, s[k]) /\ s[k] # NULL /\ k \in Nat
    BY <1>2, <1>4
  <2> QED BY <1>6, <2>1 DEF NextOf
<1> QED BY <1>4, <1>5, <1>7, <1>8 DEF Lists, s

(* There is no other one. *)
LEMMA ListsOnce ==
  ASSUME NEW m \in Memory, Linked(m), NEW a \in Live(m), Owner(m, a), NEW s, Lists(m, a, s)
  PROVE  Children(m, a) = s
<1> DEFINE W == Walk(m, a)
           S == {k \in Nat : W[k] = MemberAt(s, k + 1)}
<1>1. PICK n \in 0 .. Cardinality(Cell) :
        /\ Children(m, a) = [k \in 1 .. n |-> W[k - 1]]
        /\ \A k \in Nat : W[k] # NULL <=> k < n
  BY ChildrenWalk
<1>2. W[0] = m.item[a].child /\ \A k \in Nat : W[k + 1] = NextOf(m, W[k])
  BY WalkIs
<1>3. s \in Seq(Cell) /\ Len(s) \in Nat /\ n \in Nat /\ \A k \in 1 .. Len(s) : s[k] \in Cell /\ s[k] # NULL
  BY CellAssumption, NullAssumption, FS_CardinalityType DEF Lists
<1> HIDE DEF W
<1>4. 0 \in S
  <2>1. W[0] = MemberAt(s, 1) /\ 0 + 1 = 1 /\ 0 \in Nat
    BY <1>2 DEF Lists
  <2>2. W[0] = MemberAt(s, 0 + 1)
    BY <2>1
  <2> QED BY <2>1, <2>2
<1>5. ASSUME NEW k \in Nat, k \in S PROVE k + 1 \in S
  <2> DEFINE j == k + 1
  <2>1. W[k] = MemberAt(s, j) /\ W[j] = NextOf(m, W[k]) /\ j \in Nat /\ j >= 1
    BY <1>2, <1>5
  <2> HIDE DEF j
  <2>2. CASE j \in 1 .. Len(s)
    <3>1. W[k] = s[j] /\ s[j] # NULL
      BY <1>3, <2>1, <2>2 DEF MemberAt
    <3> QED BY <2>1, <2>2, <3>1 DEF NextOf, Lists, j
  <2>3. CASE j \notin 1 .. Len(s)
    <3>1. W[k] = NULL
      BY <2>1, <2>3 DEF MemberAt
    <3>2. W[j] = NULL
      BY <2>1, <3>1 DEF NextOf
    <3>3. j + 1 \notin 1 .. Len(s)
      BY <1>3, <2>1, <2>3
    <3>4. MemberAt(s, j + 1) = NULL
      BY <3>3 DEF MemberAt
    <3> QED BY <2>1, <3>2, <3>4 DEF j
  <2> QED BY <2>2, <2>3
<1>6. \A k \in Nat : W[k] = MemberAt(s, k + 1)
  <2>1. Nat \subseteq S
    <3> HIDE DEF S
    <3> QED BY <1>4, <1>5, NatSet
  <2> QED BY <2>1
<1>7. \A k \in Nat : W[k] # NULL <=> k < Len(s)
  <2> SUFFICES ASSUME NEW k \in Nat PROVE W[k] # NULL <=> k < Len(s)
    OBVIOUS
  <2>1. k + 1 \in 1 .. Len(s) <=> k < Len(s)
    BY <1>3
  <2> QED BY <1>3, <1>6, <2>1 DEF MemberAt
<1>8. n = Len(s)
  <2>1. ~(n < Len(s)) /\ ~(Len(s) < n)
    BY <1>1, <1>3, <1>7
  <2> QED BY <1>3, <2>1
<1>9. ASSUME NEW k \in 1 .. n PROVE W[k - 1] = s[k]
  <2>1. k - 1 \in Nat /\ (k - 1) + 1 = k
    BY <1>3
  <2> DEFINE j == k - 1
  <2> HIDE DEF j
  <2>2. W[j] = MemberAt(s, j + 1)
    BY <1>6, <2>1 DEF j
  <2>3. W[j] = MemberAt(s, k)
    BY <2>1, <2>2 DEF j
  <2>4. W[j] = s[k]
    BY <1>8, <2>3 DEF MemberAt
  <2> QED BY <2>4 DEF j
<1>10. s = [k \in 1 .. n |-> s[k]]
  BY <1>3, <1>8
<1> QED BY <1>1, <1>9, <1>10

(* What is said of it where a list is changed. *)
LEMMA ChildrenFacts ==
  ASSUME NEW m \in Memory, Linked(m), NEW a \in Live(m), Owner(m, a)
  PROVE  LET s == Children(m, a)
         IN  /\ s \in Seq(Cell) /\ Len(s) \in Nat /\ DOMAIN s = 1 .. Len(s)
             /\ \A k \in 1 .. Len(s) : s[k] \in Cell /\ MemberOf(m, a, s[k])
             /\ \A x \in Chain(m, a) : \E k \in 1 .. Len(s) : s[k] = x
             /\ \A j, k \in 1 .. Len(s) : s[j] = s[k] => j = k
             /\ m.item[a].child = MemberAt(s, 1)
             /\ \A k \in 1 .. Len(s) : m.item[s[k]].next = MemberAt(s, k + 1)
<1> DEFINE s == Children(m, a)
<1>1. Lists(m, a, s)
  BY ChildrenList
<1>2. /\ DOMAIN s = 1 .. Len(s) /\ In(s) = Chain(m, a)
      /\ \A j, k \in 1 .. Len(s) : s[j] = s[k] => j = k
  BY ChildrenAre
<1> HIDE DEF s
<1>3. s \in Seq(Cell) /\ Len(s) \in Nat
  BY <1>1 DEF Lists
<1>4. \A k \in 1 .. Len(s) : s[k] \in Cell /\ MemberOf(m, a, s[k])
  BY <1>2, <1>3 DEF In, MemberOf
<1>5. \A x \in Chain(m, a) : \E k \in 1 .. Len(s) : s[k] = x
  BY <1>2 DEF In
<1> QED BY <1>1, <1>2, <1>3, <1>4, <1>5 DEF Lists, s

(* A list that no function touches. *)
LEMMA ChildrenKept ==
  ASSUME NEW m \in Memory, Linked(m), NEW n \in Memory, Linked(n),
         NEW b \in Live(m), Owner(m, b), b \in Live(n), Owner(n, b),
         n.item[b].child = m.item[b].child,
         \A x \in Chain(m, b) : n.item[x].next = m.item[x].next
  PROVE  Children(n, b) = Children(m, b)
<1> DEFINE s == Children(m, b)
<1>1. Lists(m, b, s) /\ \A k \in 1 .. Len(s) : s[k] \in Chain(m, b)
  BY ChildrenList, ChildrenFacts DEF MemberOf
<1> HIDE DEF s
<1>2. Lists(n, b, s)
  BY <1>1 DEF Lists
<1> QED BY <1>2, ListsOnce DEF s

(* An item behind the last one. *)
LEMMA LinkingChildren ==
  ASSUME NEW m \in Memory, Linked(m), NEW a \in Live(m), Owner(m, a),
         NEW i, Loose(m, i), a # i, NEW last \in Pointer, LastOf(m, a, last),
         Linked(Linking(m, a, last, i))
  PROVE  LET n == Linking(m, a, last, i)
         IN  /\ Children(n, a) = Append(Children(m, a), i)
             /\ \A b \in Live(m) : b # a /\ Owner(m, b) => Children(n, b) = Children(m, b)
<1> DEFINE n == Linking(m, a, last, i)
           s == Children(m, a)
           l == Len(s)
<1>1. a \in Cell /\ i \in Cell /\ i \in Live(m) /\ m.item[i].next = NULL
  BY DEF Live, Loose
<1>2. /\ SameItems(m, n)
      /\ \A c \in Cell :
           /\ n.item[c].next = IF c = last THEN i ELSE m.item[c].next
           /\ n.item[c].child = IF c = a /\ last = NULL THEN i ELSE m.item[c].child
  BY <1>1, LinkingFields
<1>3. n \in Memory /\ Live(n) = Live(m) /\ \A c \in Cell : Owner(n, c) <=> Owner(m, c)
  BY <1>2, SameItemsFacts DEF SameItems
<1>4. /\ s \in Seq(Cell) /\ l \in Nat /\ DOMAIN s = 1 .. l
      /\ \A k \in 1 .. l : s[k] \in Cell /\ MemberOf(m, a, s[k])
      /\ \A x \in Chain(m, a) : \E k \in 1 .. l : s[k] = x
      /\ \A j, k \in 1 .. l : s[j] = s[k] => j = k
      /\ m.item[a].child = MemberAt(s, 1)
      /\ \A k \in 1 .. l : m.item[s[k]].next = MemberAt(s, k + 1)
  BY ChildrenFacts
<1>5. Linked(n)
  OBVIOUS
<1> HIDE DEF n, s, l
<1>6. \A k \in 1 .. l : s[k] # NULL /\ s[k] # i
  BY <1>4, LooseApart, NullAssumption
<1>7. last = NULL => l = 0
  <2>1. ASSUME last = NULL, 1 \in 1 .. l PROVE FALSE
    <3>1. m.item[a].child = NULL /\ m.item[a].child = s[1]
      BY <1>4, <2>1 DEF LastOf, MemberAt, l
    <3> QED BY <1>6, <2>1, <3>1
  <2>2. 1 \notin 1 .. l => l = 0
    BY <1>4
  <2> QED BY <2>1, <2>2
<1>8. last # NULL => l \in 1 .. l /\ last = s[l]
  <2> SUFFICES ASSUME last # NULL PROVE l \in 1 .. l /\ last = s[l]
    OBVIOUS
  <2>1. PICK k \in 1 .. l : s[k] = last
    BY <1>4 DEF LastOf, MemberOf
  <2>2. MemberAt(s, k + 1) = NULL
    BY <1>4, <2>1 DEF LastOf
  <2>3. k + 1 \notin 1 .. l
    BY <1>6, <2>2 DEF MemberAt, l
  <2>4. k = l
    BY <1>4, <2>3
  <2> QED BY <2>1, <2>4
<1> DEFINE t == Append(s, i)
<1>9. /\ t \in Seq(Cell) /\ Len(t) = l + 1 /\ \A k \in 1 .. l : t[k] = s[k]
      /\ t[l + 1] = i
  BY <1>1, <1>4 DEF l
<1> HIDE DEF t
<1>10. \A k \in Nat : MemberAt(t, k) = IF k = l + 1 THEN i ELSE MemberAt(s, k)
  <2> SUFFICES ASSUME NEW k \in Nat PROVE MemberAt(t, k) = IF k = l + 1 THEN i ELSE MemberAt(s, k)
    OBVIOUS
  <2>1. /\ l + 1 \in 1 .. (l + 1) /\ l + 1 \notin 1 .. l
        /\ k # l + 1 => (k \in 1 .. (l + 1) <=> k \in 1 .. l)
    BY <1>4
  <2> QED BY <1>9, <2>1 DEF MemberAt, l
<1>11. Lists(n, a, t)
  <2>1. n.item[a].child = MemberAt(t, 1)
    <3>1. 1 = l + 1 <=> l = 0
      BY <1>4
    <3>2. MemberAt(t, 1) = IF l = 0 THEN i ELSE MemberAt(s, 1)
      BY <1>10, <3>1
    <3>3. l \in 1 .. l => l # 0
      BY <1>4
    <3>4. last = NULL <=> l = 0
      BY <1>7, <1>8, <3>3
    <3> QED BY <1>1, <1>2, <1>4, <3>2, <3>4
  <2>2. ASSUME NEW k \in 1 .. l PROVE n.item[s[k]].next = MemberAt(t, k + 1)
    <3>1. k + 1 \in Nat /\ (k + 1 = l + 1 <=> k = l)
      BY <1>4
    <3>2. MemberAt(t, k + 1) = IF k = l THEN i ELSE MemberAt(s, k + 1)
      BY <1>10, <3>1
    <3>3. last # NULL
      <4>1. last = NULL => FALSE
        BY <1>7, <2>2
      <4> QED BY <4>1
    <3>4. s[k] = last <=> k = l
      BY <1>4, <1>8, <2>2, <3>3
    <3> QED BY <1>2, <1>4, <2>2, <3>2, <3>4
  <2>3. n.item[i].next = MemberAt(t, (l + 1) + 1)
    <3>1. (l + 1) + 1 \in Nat /\ (l + 1) + 1 # l + 1 /\ (l + 1) + 1 \notin 1 .. l
      BY <1>4
    <3>2. MemberAt(t, (l + 1) + 1) = NULL
      BY <1>10, <3>1 DEF MemberAt, l
    <3>3. i # last
      BY <1>6, <1>7, <1>8, <1>1, NullAssumption
    <3> QED BY <1>1, <1>2, <3>2, <3>3
  <2>4. ASSUME NEW k \in 1 .. Len(t) PROVE n.item[t[k]].next = MemberAt(t, k + 1)
    <3>1. k \in 1 .. l \/ k = l + 1
      BY <1>4, <1>9
    <3>2. CASE k \in 1 .. l
      BY <1>9, <2>2, <3>2
    <3>3. CASE k = l + 1
      BY <1>9, <2>3, <3>3
    <3> QED BY <3>1, <3>2, <3>3
  <2> QED BY <1>9, <2>1, <2>4 DEF Lists
<1>12. Children(n, a) = t
  BY <1>1, <1>3, <1>5, <1>11, ListsOnce
<1>13. ASSUME NEW b \in Live(m), b # a, Owner(m, b) PROVE Children(n, b) = Children(m, b)
  <2>1. b \in Cell /\ b \in Live(n) /\ Owner(n, b)
    BY <1>3, <1>13 DEF Live
  <2>2. n.item[b].child = m.item[b].child
    BY <1>2, <1>13, <2>1
  <2>3. ASSUME NEW x \in Chain(m, b) PROVE n.item[x].next = m.item[x].next
    <3>1. x \in Cell /\ MemberOf(m, b, x) /\ x # NULL
      BY <1>13, <2>1, NullAssumption DEF Chain, MemberOf
    <3>2. x # last
      BY <1>13, <3>1, ChainsApart DEF LastOf
    <3> QED BY <1>2, <3>1, <3>2
  <2> QED BY <1>3, <1>5, <1>13, <2>1, <2>2, <2>3, ChildrenKept
<1> QED BY <1>12, <1>13 DEF n, s, t

(* The sequence with an item in front of the one at k. *)
LEMMA InsertAtIs ==
  ASSUME NEW s \in Seq(Cell), NEW k \in 1 .. (Len(s) + 1), NEW i \in Cell
  PROVE  LET t == Forest!InsertAt(s, k, i)
         IN  /\ t \in Seq(Cell) /\ Len(t) = Len(s) + 1
             /\ \A j \in 1 .. (Len(s) + 1) :
                  t[j] = IF j < k THEN s[j] ELSE IF j = k THEN i ELSE s[j - 1]
<1> DEFINE t == Forest!InsertAt(s, k, i)
           p == SubSeq(s, 1, k - 1)
           q == SubSeq(s, k, Len(s))
<1>1. p \in Seq(Cell) /\ Len(p) = k - 1 /\ \A j \in 1 .. (k - 1) : p[j] = s[j]
  OBVIOUS
<1>2. q \in Seq(Cell) /\ Len(q) = Len(s) - k + 1 /\ \A j \in 1 .. (Len(s) - k + 1) : q[j] = s[k + j - 1]
  OBVIOUS
<1>3. t = p \o <<i>> \o q
  BY DEF Forest!InsertAt
<1> HIDE DEF p, q, t
<1> DEFINE l == Len(s)
           u == p \o <<i>>
<1>4. l \in Nat /\ k \in Nat /\ k >= 1 /\ k <= l + 1
  OBVIOUS
<1> HIDE DEF l
<1>5. u \in Seq(Cell) /\ Len(u) = k /\ u[k] = i /\ \A j \in 1 .. (k - 1) : u[j] = s[j]
  BY <1>1, <1>4
<1> HIDE DEF u
<1>6. t \in Seq(Cell) /\ Len(t) = l + 1
  <2>1. t = u \o q
    BY <1>3 DEF u
  <2>2. t \in Seq(Cell) /\ Len(t) = Len(u) + Len(q)
    BY ONLY <1>2, <1>5, <2>1, ConcatProperties
  <2>3. Len(q) = l - k + 1
    BY <1>2 DEF l
  <2> QED BY <1>4, <1>5, <2>2, <2>3
<1>7. ASSUME NEW j \in 1 .. (l + 1)
      PROVE  t[j] = IF j < k THEN s[j] ELSE IF j = k THEN i ELSE s[j - 1]
  <2>1. j <= k => t[j] = u[j]
    BY <1>2, <1>3, <1>4, <1>5 DEF u
  <2>2. ASSUME j > k PROVE t[j] = q[j - k]
    BY <1>2, <1>3, <1>4, <1>5, <2>2 DEF u, l
  <2>3. ASSUME j > k PROVE j - k \in 1 .. (l - k + 1) /\ k + (j - k) - 1 = j - 1
    BY <1>4, <2>3
  <2>4. ASSUME j > k PROVE t[j] = s[j - 1]
    BY <1>2, <2>2, <2>3, <2>4 DEF l
  <2> QED BY <1>4, <1>5, <2>1, <2>4
<1> QED BY <1>6, <1>7 DEF t, l

(* The sequence without the item at k. *)
LEMMA RemoveAtIs ==
  ASSUME NEW s \in Seq(Cell), NEW k \in 1 .. Len(s)
  PROVE  LET t == Forest!RemoveAt(s, k)
         IN  /\ t \in Seq(Cell) /\ Len(t) = Len(s) - 1
             /\ \A j \in 1 .. (Len(s) - 1) : t[j] = IF j < k THEN s[j] ELSE s[j + 1]
<1> DEFINE t == Forest!RemoveAt(s, k)
           p == SubSeq(s, 1, k - 1)
           q == SubSeq(s, k + 1, Len(s))
<1>1. p \in Seq(Cell) /\ Len(p) = k - 1 /\ \A j \in 1 .. (k - 1) : p[j] = s[j]
  OBVIOUS
<1>2. q \in Seq(Cell) /\ Len(q) = Len(s) - k /\ \A j \in 1 .. (Len(s) - k) : q[j] = s[k + j]
  OBVIOUS
<1>3. t = p \o q
  BY DEF Forest!RemoveAt
<1> HIDE DEF p, q, t
<1> DEFINE l == Len(s)
<1>4. l \in Nat /\ k \in Nat /\ k >= 1 /\ k <= l
  OBVIOUS
<1> HIDE DEF l
<1>5. t \in Seq(Cell) /\ Len(t) = l - 1
  <2>1. t \in Seq(Cell) /\ Len(t) = Len(p) + Len(q)
    BY ONLY <1>1, <1>2, <1>3, ConcatProperties
  <2>2. Len(q) = l - k
    BY <1>2 DEF l
  <2> QED BY <1>1, <1>4, <2>1, <2>2
<1>6. ASSUME NEW j \in 1 .. (l - 1) PROVE t[j] = IF j < k THEN s[j] ELSE s[j + 1]
  <2>1. j < k => t[j] = p[j]
    BY <1>1, <1>2, <1>3, <1>4
  <2>2. ASSUME j >= k PROVE t[j] = q[j - (k - 1)]
    BY <1>1, <1>2, <1>3, <1>4, <2>2 DEF l
  <2>3. ASSUME j >= k PROVE j - (k - 1) \in 1 .. (l - k) /\ k + (j - (k - 1)) = j + 1
    BY <1>4, <2>3
  <2>4. ASSUME j >= k PROVE t[j] = s[j + 1]
    BY <1>2, <2>2, <2>3, <2>4 DEF l
  <2> QED BY <1>1, <1>4, <2>1, <2>4
<1> QED BY <1>5, <1>6 DEF t, l

(* prev points to the member in front. *)
LEMMA PrevIs ==
  ASSUME NEW m \in Memory, Linked(m), NEW a \in Live(m), Owner(m, a),
         NEW k \in 1 .. Len(Children(m, a))
  PROVE  m.item[Children(m, a)[k]].prev = MemberAt(Children(m, a), k - 1)
<1> DEFINE s == Children(m, a)
           j == k - 1
<1>1. /\ s \in Seq(Cell) /\ Len(s) \in Nat
      /\ \A x \in 1 .. Len(s) : s[x] \in Cell /\ MemberOf(m, a, s[x])
      /\ m.item[a].child = MemberAt(s, 1)
      /\ \A x \in 1 .. Len(s) : m.item[s[x]].next = MemberAt(s, x + 1)
  BY ChildrenFacts
<1>2. k \in 1 .. Len(s)
  OBVIOUS
<1>3. Chain(m, a) \subseteq Live(m)
  <2>1. m.item[a].child = NULL => Chain(m, a) = {}
    BY NoChain
  <2> QED BY <2>1, ChainFacts
<1>4. j \in Nat /\ j + 1 = k /\ (j # 0 => j \in 1 .. Len(s)) /\ 0 \notin 1 .. Len(s)
  BY <1>1, <1>2
<1> HIDE DEF s, j
<1>5. MemberAt(s, k) = s[k] /\ s[k] # NULL /\ s[k] \in Live(m)
  BY <1>1, <1>2, <1>3, NullAssumption DEF MemberAt, MemberOf
<1>6. CASE j = 0
  <2>1. m.item[a].child = s[k]
    BY <1>1, <1>4, <1>5, <1>6
  <2>2. m.item[s[k]].prev = NULL
    BY <1>5, <2>1 DEF Linked
  <2> QED BY <1>4, <1>6, <2>2 DEF MemberAt, s, j
<1>7. CASE j # 0
  <2>1. j \in 1 .. Len(s) /\ s[j] \in Live(m)
    BY <1>1, <1>3, <1>4, <1>7 DEF MemberOf
  <2>2. m.item[s[j]].next = s[k]
    BY <1>1, <1>4, <1>5, <2>1
  <2>3. m.item[s[k]].prev = s[j]
    BY <1>5, <2>1, <2>2 DEF Linked
  <2>4. MemberAt(s, j) = s[j]
    BY <2>1 DEF MemberAt
  <2> QED BY <2>3, <2>4 DEF s, j
<1> QED BY <1>6, <1>7

(* The members of the sequence with one more. *)
LEMMA MemberInserted ==
  ASSUME NEW s \in Seq(Cell), NEW k \in 1 .. Len(s), NEW i \in Cell, NEW j \in Nat, j >= 1
  PROVE  MemberAt(Forest!InsertAt(s, k, i), j)
           = IF j < k THEN MemberAt(s, j) ELSE IF j = k THEN i ELSE MemberAt(s, j - 1)
<1> DEFINE t == Forest!InsertAt(s, k, i)
           l == Len(s)
<1>1. l \in Nat /\ k \in 1 .. l /\ k \in 1 .. (l + 1)
  OBVIOUS
<1>2. Len(t) = l + 1 /\ \A x \in 1 .. (l + 1) : t[x] = IF x < k THEN s[x] ELSE IF x = k THEN i ELSE s[x - 1]
  BY <1>1, InsertAtIs
<1> HIDE DEF t
<1>3. /\ MemberAt(t, j) = IF j \in 1 .. (l + 1) THEN t[j] ELSE NULL
      /\ MemberAt(s, j) = IF j \in 1 .. l THEN s[j] ELSE NULL
      /\ MemberAt(s, j - 1) = IF j - 1 \in 1 .. l THEN s[j - 1] ELSE NULL
  BY <1>2 DEF MemberAt
<1> HIDE DEF l
<1> QED BY <1>1, <1>2, <1>3 DEF t

(* And with one less. *)
LEMMA MemberRemoved ==
  ASSUME NEW s \in Seq(Cell), NEW k \in 1 .. Len(s), NEW j \in Nat, j >= 1
  PROVE  MemberAt(Forest!RemoveAt(s, k), j)
           = IF j < k THEN MemberAt(s, j) ELSE MemberAt(s, j + 1)
<1> DEFINE t == Forest!RemoveAt(s, k)
           l == Len(s)
<1>1. l \in Nat /\ k \in 1 .. l
  OBVIOUS
<1>2. Len(t) = l - 1 /\ \A x \in 1 .. (l - 1) : t[x] = IF x < k THEN s[x] ELSE s[x + 1]
  BY <1>1, RemoveAtIs
<1> HIDE DEF t
<1>3. /\ MemberAt(t, j) = IF j \in 1 .. (l - 1) THEN t[j] ELSE NULL
      /\ MemberAt(s, j) = IF j \in 1 .. l THEN s[j] ELSE NULL
      /\ MemberAt(s, j + 1) = IF j + 1 \in 1 .. l THEN s[j + 1] ELSE NULL
  BY <1>2 DEF MemberAt
<1> HIDE DEF l
<1> QED BY <1>1, <1>2, <1>3 DEF t

(* An item in front of the one at k. *)
LEMMA InsertChildren ==
  ASSUME NEW m \in Memory, Linked(m), NEW a \in Live(m), Owner(m, a),
         NEW i, Loose(m, i), a # i, NEW k \in 1 .. Len(Children(m, a)),
         NEW after, after = Children(m, a)[k], Linked(InsertBefore(m, a, after, i))
  PROVE  LET n == InsertBefore(m, a, after, i)
         IN  /\ Children(n, a) = Forest!InsertAt(Children(m, a), k, i)
             /\ \A b \in Live(m) : b # a /\ Owner(m, b) => Children(n, b) = Children(m, b)
<1> DEFINE n == InsertBefore(m, a, after, i)
           s == Children(m, a)
           l == Len(s)
           prev == m.item[after].prev
<1>1. a \in Cell /\ i \in Cell /\ i \in Live(m) /\ m.item[i].next = NULL
  BY DEF Live, Loose
<1>2. /\ s \in Seq(Cell) /\ l \in Nat /\ DOMAIN s = 1 .. l
      /\ \A x \in 1 .. l : s[x] \in Cell /\ MemberOf(m, a, s[x])
      /\ \A x, y \in 1 .. l : s[x] = s[y] => x = y
      /\ m.item[a].child = MemberAt(s, 1)
      /\ \A x \in 1 .. l : m.item[s[x]].next = MemberAt(s, x + 1)
  BY ChildrenFacts
<1>3. after = s[k] /\ k \in 1 .. l /\ Linked(n) /\ prev = MemberAt(s, k - 1)
  BY PrevIs
<1>4. after \in Cell /\ MemberOf(m, a, after)
  BY <1>2, <1>3
<1>5. /\ SameItems(m, n)
      /\ \A c \in Cell :
           /\ n.item[c].next = IF c = i THEN after ELSE IF c = prev /\ after # m.item[a].child THEN i ELSE m.item[c].next
           /\ n.item[c].child = IF c = a /\ m.item[c].child = after /\ c # i THEN i ELSE m.item[c].child
  BY <1>1, <1>4, InsertFields
<1>6. n \in Memory /\ Live(n) = Live(m) /\ \A c \in Cell : Owner(n, c) <=> Owner(m, c)
  BY <1>5, SameItemsFacts DEF SameItems
<1> DEFINE t == Forest!InsertAt(s, k, i)
<1>7. /\ t \in Seq(Cell) /\ Len(t) = l + 1
      /\ \A x \in 1 .. (l + 1) : t[x] = IF x < k THEN s[x] ELSE IF x = k THEN i ELSE s[x - 1]
  <2>1. k \in 1 .. (Len(s) + 1) /\ i \in Cell /\ s \in Seq(Cell)
    BY <1>1, <1>2, <1>3
  <2> HIDE DEF s, t
  <2>2. t \in Seq(Cell) /\ Len(t) = Len(s) + 1
    BY ONLY <2>1, InsertAtIs DEF t
  <2>3. \A x \in 1 .. (Len(s) + 1) : t[x] = IF x < k THEN s[x] ELSE IF x = k THEN i ELSE s[x - 1]
    BY ONLY <2>1, InsertAtIs DEF t
  <2> QED BY <2>2, <2>3
<1>8. \A x \in Nat : x >= 1 => MemberAt(t, x) = IF x < k THEN MemberAt(s, x) ELSE IF x = k THEN i ELSE MemberAt(s, x - 1)
  BY <1>1, <1>2, <1>3, MemberInserted
<1>9. k - 1 \in Nat /\ (k = 1 => prev = NULL) /\ (k # 1 => k - 1 \in 1 .. l /\ prev = s[k - 1])
  BY <1>2, <1>3 DEF MemberAt
<1>10. 1 \in 1 .. l /\ (m.item[a].child = after <=> k = 1)
  <2>1. 1 \in 1 .. l
    BY <1>2, <1>3
  <2>2. m.item[a].child = s[1]
    BY <1>2, <2>1 DEF MemberAt
  <2> QED BY <1>2, <1>3, <2>1, <2>2
<1> HIDE DEF n, s, l, t, prev
<1>11. \A x \in 1 .. l : s[x] # NULL /\ s[x] # i
  BY <1>2, LooseApart, NullAssumption
<1>12. \A x \in 1 .. l : s[x] = prev <=> x = k - 1
  <2> SUFFICES ASSUME NEW x \in 1 .. l PROVE s[x] = prev <=> x = k - 1
    OBVIOUS
  <2>1. CASE k = 1
    <3>1. x # k - 1
      BY <1>2, <2>1
    <3> QED BY <1>9, <1>11, <2>1, <3>1
  <2>2. CASE k # 1
    BY <1>2, <1>9, <2>2
  <2> QED BY <2>1, <2>2
<1>13. Lists(n, a, t)
  <2>1. n.item[a].child = MemberAt(t, 1)
    <3>1. MemberAt(t, 1) = IF k = 1 THEN i ELSE MemberAt(s, 1)
      <4>1. 1 \in Nat /\ 1 >= 1 /\ (1 < k <=> k # 1) /\ (1 = k <=> k = 1)
        BY <1>2, <1>3
      <4> QED BY <1>8, <4>1
    <3> QED BY <1>1, <1>2, <1>5, <1>10, <3>1
  <2>2. ASSUME NEW x \in 1 .. l
        PROVE  n.item[s[x]].next = IF x = k - 1 THEN i ELSE MemberAt(s, x + 1)
    <3>1. x = k - 1 => k # 1
      BY <1>2
    <3> QED BY <1>2, <1>5, <1>10, <1>11, <1>12, <2>2, <3>1
  <2>3. n.item[i].next = after /\ after = MemberAt(s, k)
    BY <1>1, <1>3, <1>5 DEF MemberAt, l
  <2>4. ASSUME NEW x \in 1 .. Len(t) PROVE n.item[t[x]].next = MemberAt(t, x + 1)
    <3>1. x \in 1 .. (l + 1) /\ x + 1 \in Nat /\ x + 1 >= 1 /\ k \in Nat
      BY <1>2, <1>3, <1>7
    <3>2. MemberAt(t, x + 1) = IF x + 1 < k THEN MemberAt(s, x + 1) ELSE IF x + 1 = k THEN i ELSE MemberAt(s, (x + 1) - 1)
      BY <1>8, <3>1
    <3>3. CASE x < k
      <4>1. x \in 1 .. l /\ t[x] = s[x] /\ (x = k - 1 <=> x + 1 = k) /\ (x # k - 1 => x + 1 < k)
        BY <1>3, <1>7, <1>2, <3>1, <3>3
      <4>2. MemberAt(t, x + 1) = IF x = k - 1 THEN i ELSE MemberAt(s, x + 1)
        <5>1. x + 1 = k => ~(x + 1 < k)
          BY <3>1
        <5> QED BY <3>2, <4>1, <5>1
      <4> QED BY <2>2, <4>1, <4>2
    <3>4. CASE x = k
      <4>1. ~(x + 1 < k) /\ x + 1 # k /\ (x + 1) - 1 = k /\ ~(k < k)
        BY <1>2, <3>1, <3>4
      <4>2. t[x] = i
        BY <1>7, <3>1, <3>4, <4>1
      <4> QED BY <2>3, <3>2, <4>1, <4>2
    <3>5. CASE x > k
      <4>1. ~(x + 1 < k) /\ x + 1 # k /\ (x + 1) - 1 = x /\ ~(x < k) /\ x # k /\ x - 1 \in 1 .. l /\ x - 1 # k - 1
            /\ (x - 1) + 1 = x
        BY <1>2, <1>3, <3>1, <3>5
      <4>2. t[x] = s[x - 1]
        BY <1>7, <3>1, <4>1
      <4>3. n.item[s[x - 1]].next = MemberAt(s, (x - 1) + 1)
        BY <2>2, <4>1
      <4> QED BY <3>2, <4>1, <4>2, <4>3
    <3> QED BY <3>1, <3>3, <3>4, <3>5
  <2> QED BY <1>7, <2>1, <2>4 DEF Lists
<1>14. Children(n, a) = t
  BY <1>1, <1>3, <1>6, <1>13, ListsOnce
<1>15. ASSUME NEW b \in Live(m), b # a, Owner(m, b) PROVE Children(n, b) = Children(m, b)
  <2>1. b \in Cell /\ b \in Live(n) /\ Owner(n, b)
    BY <1>6, <1>15 DEF Live
  <2>2. n.item[b].child = m.item[b].child
    BY <1>5, <1>15, <2>1
  <2>3. ASSUME NEW x \in Chain(m, b) PROVE n.item[x].next = m.item[x].next
    <3>1. x \in Cell /\ MemberOf(m, b, x) /\ x # NULL
      BY <1>15, <2>1, NullAssumption DEF Chain, MemberOf
    <3>2. x # i
      BY <3>1, LooseApart
    <3>3. prev # NULL => MemberOf(m, a, prev)
      BY <1>2, <1>9
    <3>4. x # prev
      BY <1>15, <3>1, <3>3, ChainsApart
    <3> QED BY <1>5, <3>1, <3>2, <3>4
  <2> QED BY <1>3, <1>6, <1>15, <2>1, <2>2, <2>3, ChildrenKept
<1> QED BY <1>14, <1>15 DEF n, s, t

(* The one at k is taken out. *)
LEMMA DetachChildren ==
  ASSUME NEW m \in Memory, Linked(m), NEW a \in Live(m), Owner(m, a),
         NEW k \in 1 .. Len(Children(m, a)),
         NEW i, i = Children(m, a)[k], a # i, Linked(cJSON_DetachItemViaPointer(m, a, i))
  PROVE  LET n == cJSON_DetachItemViaPointer(m, a, i)
         IN  /\ Children(n, a) = Forest!RemoveAt(Children(m, a), k)
             /\ \A b \in Live(m) : b # a /\ Owner(m, b) => Children(n, b) = Children(m, b)
<1> DEFINE n == cJSON_DetachItemViaPointer(m, a, i)
           s == Children(m, a)
           l == Len(s)
           prev == m.item[i].prev
           next == m.item[i].next
<1>2. /\ s \in Seq(Cell) /\ l \in Nat /\ DOMAIN s = 1 .. l
      /\ \A x \in 1 .. l : s[x] \in Cell /\ MemberOf(m, a, s[x])
      /\ \A x, y \in 1 .. l : s[x] = s[y] => x = y
      /\ m.item[a].child = MemberAt(s, 1)
      /\ \A x \in 1 .. l : m.item[s[x]].next = MemberAt(s, x + 1)
  BY ChildrenFacts
<1>3. i = s[k] /\ k \in 1 .. l /\ Linked(n) /\ prev = MemberAt(s, k - 1)
  BY PrevIs
<1>4. a \in Cell /\ i \in Cell /\ MemberOf(m, a, i) /\ next = MemberAt(s, k + 1)
  BY <1>2, <1>3 DEF Live
<1>5. /\ SameItems(m, n)
      /\ \A c \in Cell :
           /\ n.item[c].next = IF c = i THEN NULL ELSE IF c = prev THEN next ELSE m.item[c].next
           /\ n.item[c].child = IF c = a /\ m.item[c].child = i /\ c # i THEN next ELSE m.item[c].child
  BY <1>4, DetachFields
<1>6. n \in Memory /\ Live(n) = Live(m) /\ \A c \in Cell : Owner(n, c) <=> Owner(m, c)
  BY <1>5, SameItemsFacts DEF SameItems
<1> DEFINE t == Forest!RemoveAt(s, k)
<1>7. /\ t \in Seq(Cell) /\ Len(t) = l - 1
      /\ \A x \in 1 .. (l - 1) : t[x] = IF x < k THEN s[x] ELSE s[x + 1]
  BY <1>2, <1>3, RemoveAtIs
<1>8. \A x \in Nat : x >= 1 => MemberAt(t, x) = IF x < k THEN MemberAt(s, x) ELSE MemberAt(s, x + 1)
  BY <1>2, <1>3, MemberRemoved
<1>9. k - 1 \in Nat /\ (k = 1 => prev = NULL) /\ (k # 1 => k - 1 \in 1 .. l /\ prev = s[k - 1])
  BY <1>2, <1>3 DEF MemberAt
<1>10. 1 \in 1 .. l /\ (m.item[a].child = i <=> k = 1)
  <2>1. 1 \in 1 .. l
    BY <1>2, <1>3
  <2>2. m.item[a].child = s[1]
    BY <1>2, <2>1 DEF MemberAt
  <2> QED BY <1>2, <1>3, <2>1, <2>2
<1> HIDE DEF n, s, l, t, prev, next
<1>11. \A x \in 1 .. l : s[x] # NULL /\ (s[x] = i <=> x = k)
  BY <1>2, <1>3, NullAssumption
<1>12. \A x \in 1 .. l : s[x] = prev <=> x = k - 1
  <2> SUFFICES ASSUME NEW x \in 1 .. l PROVE s[x] = prev <=> x = k - 1
    OBVIOUS
  <2>1. CASE k = 1
    <3>1. x # k - 1
      BY <1>2, <2>1
    <3> QED BY <1>9, <1>11, <2>1, <3>1
  <2>2. CASE k # 1
    BY <1>2, <1>9, <2>2
  <2> QED BY <2>1, <2>2
<1>13. Lists(n, a, t)
  <2>1. n.item[a].child = MemberAt(t, 1)
    <3>1. MemberAt(t, 1) = IF k = 1 THEN MemberAt(s, 1 + 1) ELSE MemberAt(s, 1)
      <4>1. 1 \in Nat /\ 1 >= 1 /\ (1 < k <=> k # 1)
        BY <1>2, <1>3
      <4> QED BY <1>8, <4>1
    <3>2. a # i
      OBVIOUS
    <3> QED BY <1>2, <1>4, <1>5, <1>10, <3>1, <3>2
  <2>2. ASSUME NEW x \in 1 .. l, x # k
        PROVE  n.item[s[x]].next = IF x = k - 1 THEN next ELSE MemberAt(s, x + 1)
    BY <1>2, <1>5, <1>11, <1>12, <2>2
  <2>4. ASSUME NEW x \in 1 .. Len(t) PROVE n.item[t[x]].next = MemberAt(t, x + 1)
    <3>1. x \in 1 .. (l - 1) /\ x \in Nat /\ x + 1 \in Nat /\ x + 1 >= 1 /\ k \in Nat
      BY <1>2, <1>3, <1>7
    <3>2. MemberAt(t, x + 1) = IF x + 1 < k THEN MemberAt(s, x + 1) ELSE MemberAt(s, (x + 1) + 1)
      BY <1>8, <3>1
    <3>3. CASE x < k
      <4>1. x \in 1 .. l /\ x # k /\ t[x] = s[x] /\ (x = k - 1 => x + 1 = k) /\ (x # k - 1 <=> x + 1 < k)
        BY <1>2, <1>3, <1>7, <3>1, <3>3
      <4>2. MemberAt(t, x + 1) = IF x = k - 1 THEN MemberAt(s, k + 1) ELSE MemberAt(s, x + 1)
        BY <3>2, <4>1
      <4> QED BY <1>4, <2>2, <4>1, <4>2
    <3>4. CASE ~(x < k)
      <4>1. ~(x + 1 < k) /\ x + 1 \in 1 .. l /\ x + 1 # k /\ x + 1 # k - 1
        BY <1>2, <3>1, <3>4
      <4>2. t[x] = s[x + 1]
        BY <1>7, <3>1, <3>4
      <4>3. n.item[s[x + 1]].next = MemberAt(s, (x + 1) + 1)
        BY <2>2, <4>1
      <4> QED BY <3>2, <4>1, <4>2, <4>3
    <3> QED BY <3>1, <3>3, <3>4
  <2> QED BY <1>7, <2>1, <2>4 DEF Lists
<1>14. Children(n, a) = t
  BY <1>4, <1>3, <1>6, <1>13, ListsOnce
<1>15. ASSUME NEW b \in Live(m), b # a, Owner(m, b) PROVE Children(n, b) = Children(m, b)
  <2>1. b \in Cell /\ b \in Live(n) /\ Owner(n, b)
    BY <1>6, <1>15 DEF Live
  <2>2. n.item[b].child = m.item[b].child
    BY <1>5, <1>15, <2>1
  <2>3. ASSUME NEW x \in Chain(m, b) PROVE n.item[x].next = m.item[x].next
    <3>1. x \in Cell /\ MemberOf(m, b, x) /\ x # NULL
      BY <1>15, <2>1, NullAssumption DEF Chain, MemberOf
    <3>2. x # i
      BY <1>4, <1>15, <3>1, ChainsApart
    <3>3. prev # NULL => MemberOf(m, a, prev)
      BY <1>2, <1>9
    <3>4. x # prev
      BY <1>15, <3>1, <3>3, ChainsApart
    <3> QED BY <1>5, <3>1, <3>2, <3>4
  <2> QED BY <1>3, <1>6, <1>15, <2>1, <2>2, <2>3, ChildrenKept
<1> QED BY <1>14, <1>15 DEF n, s, t

-----------------------------------------------------------------------------
(* What the abstract forest sees of a memory *)

Kids(m) == [c \in Live(m) |-> IF m.item[c].ref THEN <<>> ELSE Children(m, c)]
Keys(m) == [c \in Live(m) |-> m.item[c].name]
View(K, N, r, l) == [kids |-> K, key |-> N, roots |-> r, lost |-> l]

(* A function with another value at a, on fewer items, and on one more. *)
SetTo(K, a, s) == [K EXCEPT ![a] = s]
Rest(K, S) == [c \in S |-> K[c]]
Plus(K, S, i, x) == [c \in S \cup {i} |-> IF c = i THEN x ELSE K[c]]

(* What a view is made of. *)
LEMMA ViewIs ==
  ASSUME NEW K, NEW N, NEW r, NEW l
  PROVE  /\ View(K, N, r, l).kids = K /\ View(K, N, r, l).key = N
         /\ View(K, N, r, l).roots = r /\ View(K, N, r, l).lost = l
         /\ Forest!Items(View(K, N, r, l)) = DOMAIN K
BY DEF View, Forest!Items

(* An item holds the members of its list, a reference nothing. *)
LEMMA KidsIs ==
  ASSUME NEW m \in Memory, Linked(m)
  PROVE  /\ DOMAIN Kids(m) = Live(m) /\ DOMAIN Keys(m) = Live(m)
         /\ \A c \in Live(m) :
              /\ Keys(m)[c] = m.item[c].name
              /\ Owner(m, c) => /\ Kids(m)[c] = Children(m, c)
                                /\ Forest!In(Kids(m)[c]) = Chain(m, c)
              /\ ~Owner(m, c) => Kids(m)[c] = <<>> /\ Forest!In(Kids(m)[c]) = {}
              /\ Forest!In(Kids(m)[c]) \subseteq Live(m)
<1>1. DOMAIN Kids(m) = Live(m) /\ DOMAIN Keys(m) = Live(m)
  BY DEF Kids, Keys
<1>2. ASSUME NEW c \in Live(m) PROVE Keys(m)[c] = m.item[c].name
  BY DEF Keys
<1>3. ASSUME NEW c \in Live(m), Owner(m, c)
      PROVE  Kids(m)[c] = Children(m, c) /\ Forest!In(Kids(m)[c]) = Chain(m, c)
             /\ Forest!In(Kids(m)[c]) \subseteq Live(m)
  <2>1. Kids(m)[c] = Children(m, c)
    BY <1>3 DEF Kids, Owner
  <2>2. In(Children(m, c)) = Chain(m, c)
    BY <1>3, ChildrenAre
  <2>3. Forest!In(Kids(m)[c]) = Chain(m, c)
    BY <2>1, <2>2 DEF In, Forest!In
  <2>4. m.item[c].child = NULL => Chain(m, c) = {}
    BY NoChain
  <2>5. m.item[c].child # NULL => Chain(m, c) \subseteq Live(m)
    BY <1>3, ChainFacts
  <2> QED BY <2>1, <2>3, <2>4, <2>5
<1>4. ASSUME NEW c \in Live(m), ~Owner(m, c)
      PROVE  Kids(m)[c] = <<>> /\ Forest!In(Kids(m)[c]) = {}
  <2>1. Kids(m)[c] = <<>>
    BY <1>4 DEF Kids, Owner, Live
  <2>2. DOMAIN <<>> = {}
    OBVIOUS
  <2>3. Forest!In(<<>>) = {}
    BY <2>2 DEF Forest!In
  <2> QED BY <2>1, <2>3
<1> QED BY <1>1, <1>2, <1>3, <1>4

(* What the members of S hold is in S. *)
Holds(K, S) == \A y \in S : Forest!In(K[y]) \subseteq S

(* All that hangs from an item is the least set that is closed and has it; *)
(* each of it but the item is held by one of it.                           *)
LEMMA SubtreeFacts ==
  ASSUME NEW K, NEW f, f.kids = K, Holds(K, DOMAIN K), NEW i \in DOMAIN K
  PROVE  /\ i \in Forest!Subtree(f, i) /\ Forest!Subtree(f, i) \subseteq DOMAIN K
         /\ Holds(K, Forest!Subtree(f, i))
         /\ \A S \in SUBSET DOMAIN K : i \in S /\ Holds(K, S) => Forest!Subtree(f, i) \subseteq S
         /\ \A y \in Forest!Subtree(f, i) \ {i} :
              \E z \in Forest!Subtree(f, i) : y \in Forest!In(K[z])
<1> DEFINE T == Forest!Subtree(f, i)
           D == DOMAIN K
<1>1. T = {x \in D : \A S \in SUBSET D : i \in S /\ Holds(K, S) => x \in S}
  BY DEF Forest!Subtree, Forest!Items, Holds
<1> HIDE DEF T
<1>2. i \in T /\ T \subseteq D
  BY <1>1
<1>3. \A S \in SUBSET D : i \in S /\ Holds(K, S) => T \subseteq S
  BY <1>1
<1>4. Holds(K, T)
  <2> SUFFICES ASSUME NEW y \in T, NEW x \in Forest!In(K[y]) PROVE x \in T
    BY DEF Holds
  <2>1. x \in D
    BY <1>2 DEF Holds
  <2>2. ASSUME NEW S \in SUBSET D, i \in S, Holds(K, S) PROVE x \in S
    BY <1>3, <2>2 DEF Holds
  <2> QED BY <1>1, <2>1, <2>2
<1>5. ASSUME NEW y \in T \ {i} PROVE \E z \in T : y \in Forest!In(K[z])
  <2> DEFINE S == T \ {y}
  <2>1. S \in SUBSET D /\ i \in S /\ ~(T \subseteq S)
    BY <1>2, <1>5
  <2>2. ~Holds(K, S)
    BY <1>3, <2>1
  <2>3. PICK z \in S : ~(Forest!In(K[z]) \subseteq S)
    BY <2>2 DEF Holds
  <2>4. Forest!In(K[z]) \subseteq T
    BY <1>4, <2>3 DEF Holds
  <2> QED BY <2>3, <2>4
<1> QED BY <1>2, <1>3, <1>4, <1>5 DEF T

(* It depends on what its members hold. *)
LEMMA SubtreeSame ==
  ASSUME NEW K, NEW f, f.kids = K, Holds(K, DOMAIN K), NEW i \in DOMAIN K,
         NEW L, NEW g, g.kids = L, DOMAIN L = DOMAIN K, Holds(L, DOMAIN L),
         \A y \in Forest!Subtree(f, i) : L[y] = K[y]
  PROVE  Forest!Subtree(g, i) = Forest!Subtree(f, i)
<1> DEFINE T == Forest!Subtree(f, i)
           U == Forest!Subtree(g, i)
<1>1. /\ i \in T /\ T \subseteq DOMAIN K /\ Holds(K, T)
      /\ \A S \in SUBSET DOMAIN K : i \in S /\ Holds(K, S) => T \subseteq S
  BY SubtreeFacts
<1>2. /\ i \in U /\ U \subseteq DOMAIN L /\ Holds(L, U)
      /\ \A S \in SUBSET DOMAIN L : i \in S /\ Holds(L, S) => U \subseteq S
  BY SubtreeFacts
<1>3. \A y \in T : L[y] = K[y]
  OBVIOUS
<1> HIDE DEF T, U
<1>4. Holds(L, T)
  BY <1>1, <1>3 DEF Holds
<1>5. U \subseteq T
  BY <1>1, <1>2, <1>4
<1>6. Holds(K, U)
  BY <1>2, <1>3, <1>5 DEF Holds
<1>7. T \subseteq U
  BY <1>1, <1>2, <1>6
<1> QED BY <1>5, <1>7 DEF T, U

(* What the forest says of a memory's items is in the memory. *)
LEMMA KidsHold ==
  ASSUME NEW m \in Memory, Linked(m)
  PROVE  Holds(Kids(m), DOMAIN Kids(m))
BY KidsIs DEF Holds

(* What cJSON_Delete of an item in no list frees is all that hangs from it. *)
LEMMA SubtreeIs ==
  ASSUME NEW m \in Memory, Linked(m), NEW i, Loose(m, i), NEW f, f.kids = Kids(m)
  PROVE  Forest!Subtree(f, i) = Doomed(m, i)
<1> DEFINE T == Forest!Subtree(f, i)
           D == Doomed(m, i)
           K == Kids(m)
<1>1. i \in Live(m) /\ m.item[i].next = NULL
  BY DEF Loose
<1>2. /\ DOMAIN K = Live(m)
      /\ \A c \in Live(m) : /\ Owner(m, c) => Forest!In(K[c]) = Chain(m, c)
                            /\ ~Owner(m, c) => Forest!In(K[c]) = {}
  BY KidsIs
<1>3. /\ i \in T /\ T \subseteq Live(m) /\ Holds(K, T)
      /\ \A S \in SUBSET Live(m) : i \in S /\ Holds(K, S) => T \subseteq S
      /\ \A y \in T \ {i} : \E z \in T : y \in Forest!In(K[z])
  <2>1. Holds(K, DOMAIN K) /\ i \in DOMAIN K /\ f.kids = K
    BY <1>1, <1>2, KidsHold
  <2> HIDE DEF K
  <2> QED BY <1>2, <2>1, SubtreeFacts
<1>4. /\ i \in D /\ D \subseteq Live(m) /\ Closed(m, D)
      /\ \A S \in SUBSET Live(m) : i \in S /\ Closed(m, S) => D \subseteq S
  BY <1>1, DoomedIs
<1> HIDE DEF T, D, K
<1>5. Holds(K, D)
  <2> SUFFICES ASSUME NEW y \in D PROVE Forest!In(K[y]) \subseteq D
    BY DEF Holds
  <2>1. CASE Owner(m, y)
    <3>1. D \in SUBSET Cell /\ (m.item[y].child # NULL => m.item[y].child \in D)
          /\ \A z \in D : m.item[z].next # NULL => m.item[z].next \in D
      BY <1>4, <2>1 DEF Closed, Live
    <3>2. Chain(m, y) \subseteq D
      BY <3>1, ChainWithin
    <3> QED BY <1>2, <1>4, <2>1, <3>2
  <2>2. CASE ~Owner(m, y)
    BY <1>2, <1>4, <2>2
  <2> QED BY <2>1, <2>2
<1>6. T \subseteq D
  BY <1>3, <1>4, <1>5
<1>7. Closed(m, T)
  <2>1. ASSUME NEW y \in T, m.item[y].next # NULL PROVE m.item[y].next \in T
    <3>1. y \in T \ {i}
      BY <1>1, <2>1
    <3>2. PICK z \in T : y \in Forest!In(K[z])
      BY <1>3, <3>1
    <3>3. z \in Live(m) /\ Owner(m, z) /\ y \in Chain(m, z)
      BY <1>2, <1>3, <3>2
    <3>4. m.item[y].next \in Chain(m, z)
      BY <2>1, <3>3, LeadsToMember DEF MemberOf
    <3> QED BY <1>2, <1>3, <3>3, <3>4 DEF Holds
  <2>2. ASSUME NEW y \in T, Owner(m, y), m.item[y].child # NULL PROVE m.item[y].child \in T
    <3>1. y \in Live(m)
      BY <1>3
    <3>2. m.item[y].child \in Chain(m, y)
      BY <2>2, <3>1, LeadsToMember DEF MemberOf
    <3> QED BY <1>2, <1>3, <2>2, <3>1, <3>2 DEF Holds
  <2> QED BY <2>1, <2>2 DEF Closed
<1>8. D \subseteq T
  BY <1>3, <1>4, <1>7
<1> QED BY <1>6, <1>8 DEF T, D

(* Everything is held, directly or not, by the items in no list. *)
LEMMA HeldFrom ==
  ASSUME NEW m \in Memory, NEW H, Tied(m, H), NEW S \in SUBSET Live(m), H \subseteq S,
         Holds(Kids(m), S)
  PROVE  S = Live(m)
<1> DEFINE K == Kids(m)
           f == [kids |-> K]
<1>1. Linked(m) /\ H \subseteq Live(m) /\ \A h \in H : Loose(m, h)
  BY DEF Tied
<1>2. DOMAIN K = Live(m) /\ Holds(K, DOMAIN K)
  BY <1>1, KidsIs, KidsHold
<1>3. f.kids = K
  OBVIOUS
<1> HIDE DEF f
<1>4. ASSUME NEW h \in H PROVE Doomed(m, h) \subseteq S
  <2>1. Forest!Subtree(f, h) = Doomed(m, h)
    BY <1>1, <1>3, <1>4, SubtreeIs
  <2>2. h \in DOMAIN K /\ S \in SUBSET DOMAIN K /\ h \in S /\ Holds(K, S)
    BY <1>1, <1>2, <1>4
  <2> HIDE DEF K
  <2>3. Forest!Subtree(f, h) \subseteq S
    BY <1>2, <1>3, <2>2, SubtreeFacts
  <2> QED BY <2>1, <2>3
<1>5. Live(m) = UNION {Doomed(m, h) : h \in H}
  BY SoundHangs
<1> QED BY <1>4, <1>5

(* What a function does to one list is all it does to the forest. *)
LEMMA KidsChanged ==
  ASSUME NEW m \in Memory, NEW n, SameItems(m, n), NEW a \in Live(m), Owner(m, a),
         NEW s, Children(n, a) = s,
         \A b \in Live(m) : b # a /\ Owner(m, b) => Children(n, b) = Children(m, b)
  PROVE  Kids(n) = [Kids(m) EXCEPT ![a] = s] /\ Keys(n) = Keys(m)
<1>1. /\ Live(n) = Live(m)
      /\ \A c \in Live(m) : n.item[c].ref = m.item[c].ref /\ n.item[c].name = m.item[c].name
      /\ \A c \in Live(m) : Owner(m, c) <=> ~m.item[c].ref
  BY SameItemsFacts DEF SameItems, Live, Owner
<1>2. ~m.item[a].ref
  BY <1>1
<1>3. ASSUME NEW c \in Live(m)
      PROVE  (IF n.item[c].ref THEN <<>> ELSE Children(n, c)) = [Kids(m) EXCEPT ![a] = s][c]
  <2>1. Kids(m)[c] = IF m.item[c].ref THEN <<>> ELSE Children(m, c)
    BY DEF Kids
  <2>2. DOMAIN Kids(m) = Live(m)
    BY DEF Kids
  <2>3. [Kids(m) EXCEPT ![a] = s][c] = IF c = a THEN s ELSE Kids(m)[c]
    BY <2>2
  <2> QED BY <1>1, <1>2, <2>1, <2>3
<1>4. Kids(n) = [Kids(m) EXCEPT ![a] = s]
  <2>1. Kids(n) = [c \in Live(m) |-> IF n.item[c].ref THEN <<>> ELSE Children(n, c)]
    BY <1>1 DEF Kids
  <2>2. [Kids(m) EXCEPT ![a] = s] = [c \in Live(m) |-> [Kids(m) EXCEPT ![a] = s][c]]
    BY DEF Kids
  <2> QED BY <1>3, <2>1, <2>2
<1>5. Keys(n) = Keys(m)
  BY <1>1 DEF Keys
<1> QED BY <1>4, <1>5

(* Items that are as they were, with their lists, hold what they held. *)
LEMMA KidsKept ==
  ASSUME NEW m \in Memory, Linked(m), NEW n \in Memory, Linked(n),
         NEW S \in SUBSET Live(m), S \subseteq Live(n), Kept(m, n, S),
         \A c \in S : Owner(m, c) => Chain(m, c) \subseteq S
  PROVE  \A c \in S : Kids(n)[c] = Kids(m)[c] /\ Keys(n)[c] = Keys(m)[c]
<1> SUFFICES ASSUME NEW c \in S PROVE Kids(n)[c] = Kids(m)[c] /\ Keys(n)[c] = Keys(m)[c]
  OBVIOUS
<1>1. c \in Live(m) /\ c \in Live(n) /\ n.item[c] = m.item[c] /\ (Owner(n, c) <=> Owner(m, c))
  BY DEF Kept, Owner
<1>2. Keys(n)[c] = Keys(m)[c]
  BY <1>1 DEF Keys
<1>3. CASE Owner(m, c)
  <2>1. \A x \in Chain(m, c) : n.item[x].next = m.item[x].next
    BY <1>3 DEF Kept
  <2>2. Children(n, c) = Children(m, c)
    BY <1>1, <1>3, <2>1, ChildrenKept
  <2> QED BY <1>1, <1>2, <1>3, <2>2, KidsIs
<1>4. CASE ~Owner(m, c)
  BY <1>1, <1>2, <1>4, KidsIs
<1> QED BY <1>3, <1>4

(* An item has another name, and nothing else is changed. *)
Relabelled(m, n, i) ==
  /\ n \in Memory /\ i \in Live(m)
  /\ \A c \in Cell : /\ n.item[c].kind = m.item[c].kind /\ n.item[c].ref = m.item[c].ref
                     /\ n.item[c].next = m.item[c].next /\ n.item[c].child = m.item[c].child
                     /\ c # i => n.item[c].name = m.item[c].name

(* An item that is not touched, or renamed, is relabelled. *)
LEMMA RelabelledIs ==
  ASSUME NEW m, NEW H, NEW named, Sound(m, H, named), NEW i \in H
  PROVE  /\ Relabelled(m, m, i)
         /\ \A name \in Name \cup {NULL}, const \in BOOLEAN : Relabelled(m, Rename(m, i, name, const), i)
<1>1. m \in Memory /\ i \in Live(m)
  BY DEF Sound, Tied
<1>2. Relabelled(m, m, i)
  BY <1>1 DEF Relabelled
<1>3. ASSUME NEW name \in Name \cup {NULL}, NEW const \in BOOLEAN
      PROVE  Relabelled(m, Rename(m, i, name, const), i)
  <2> DEFINE n == Rename(m, i, name, const)
  <2>1. /\ Sound(n, H, named)
        /\ \A c \in Cell : c # i => n.item[c] = m.item[c]
        /\ n.item[i].kind = m.item[i].kind /\ n.item[i].ref = m.item[i].ref
        /\ n.item[i].next = m.item[i].next /\ n.item[i].child = m.item[i].child
    BY <1>3, SoundRename
  <2> HIDE DEF n
  <2>2. n \in Memory
    BY <2>1 DEF Sound
  <2>3. Relabelled(m, n, i)
    BY <1>1, <2>1, <2>2 DEF Relabelled
  <2> QED BY <2>3 DEF n
<1> QED BY <1>2, <1>3

(* No item holds anything else then. *)
LEMMA RelabelledKids ==
  ASSUME NEW m \in Memory, Linked(m), NEW n, Linked(n), NEW i, Relabelled(m, n, i)
  PROVE  /\ Live(n) = Live(m) /\ \A c \in Cell : Owner(n, c) <=> Owner(m, c)
         /\ Kids(n) = Kids(m) /\ Keys(n) = [Keys(m) EXCEPT ![i] = Keys(n)[i]]
         /\ Doomed(n, i) = Doomed(m, i)
<1>1. Live(n) = Live(m) /\ \A c \in Cell : Owner(n, c) <=> Owner(m, c)
  BY DEF Relabelled, Live, Owner
<1>2. Doomed(n, i) = Doomed(m, i)
  BY SameDoomed DEF Relabelled
<1>3. n \in Memory
  BY DEF Relabelled
<1>4. ASSUME NEW c \in Live(m) PROVE Kids(n)[c] = Kids(m)[c]
  <2>0. c \in Cell
    BY DEF Live
  <2>1. CASE Owner(m, c)
    <3>1. n.item[c].child = m.item[c].child /\ \A x \in Chain(m, c) : n.item[x].next = m.item[x].next
      BY <2>0 DEF Relabelled, Chain
    <3>2. Children(n, c) = Children(m, c)
      BY <1>1, <1>3, <2>0, <2>1, <3>1, ChildrenKept
    <3> QED BY <1>1, <1>3, <2>0, <2>1, <3>2, KidsIs
  <2>2. CASE ~Owner(m, c)
    BY <1>1, <1>3, <2>0, <2>2, KidsIs
  <2> QED BY <2>1, <2>2
<1>5. Kids(n) = Kids(m)
  <2>1. Kids(n) = [c \in Live(m) |-> Kids(n)[c]] /\ Kids(m) = [c \in Live(m) |-> Kids(m)[c]]
    BY <1>1 DEF Kids
  <2> QED BY <1>4, <2>1
<1>6. Keys(n) = [Keys(m) EXCEPT ![i] = Keys(n)[i]]
  <2>1. Keys(n) = [c \in Live(m) |-> n.item[c].name] /\ Keys(m) = [c \in Live(m) |-> m.item[c].name]
    BY <1>1 DEF Keys
  <2>2. i \in Live(m) /\ \A c \in Live(m) : c # i => n.item[c].name = m.item[c].name
    BY DEF Relabelled, Live
  <2>3. Keys(n)[i] = n.item[i].name
    BY <2>1, <2>2
  <2>4. [Keys(m) EXCEPT ![i] = Keys(n)[i]] = [c \in Live(m) |-> IF c = i THEN n.item[i].name ELSE m.item[c].name]
    BY <2>1, <2>2, <2>3
  <2> QED BY <2>1, <2>2, <2>4
<1> QED BY <1>1, <1>2, <1>5, <1>6

(* What there was holds what it held when there is more. *)
LEMMA KidsGrew ==
  ASSUME NEW m \in Memory, Linked(m), NEW n \in Memory, Linked(n), Grew(m, n)
  PROVE  \A c \in Live(m) : Kids(n)[c] = Kids(m)[c] /\ Keys(n)[c] = Keys(m)[c]
<1>1. \A c \in Live(m) : Owner(m, c) => Chain(m, c) \subseteq Live(m)
  BY KidsIs
<1> QED BY <1>1, KidsKept DEF Grew

(* So does what is left when there is less. *)
LEMMA KidsDeleted ==
  ASSUME NEW m, NEW H, NEW named, Sound(m, H, named), NEW i \in H
  PROVE  LET n == cJSON_Delete(m, i)
             D == Doomed(m, i)
         IN  Kids(n) = Rest(Kids(m), Live(m) \ D) /\ Keys(n) = Rest(Keys(m), Live(m) \ D)
<1> DEFINE n == cJSON_Delete(m, i)
           S == Live(m) \ Doomed(m, i)
<1>1. /\ m \in Memory /\ Linked(m) /\ Loose(m, i)
      /\ Sound(n, H \ {i}, named) /\ Live(n) = S /\ Kept(m, n, S)
  BY SoundDelete DEF Sound, Tied
<1>2. n \in Memory /\ Linked(n)
  BY <1>1 DEF Sound, Tied
<1>3. ASSUME NEW c \in S, Owner(m, c) PROVE Chain(m, c) \subseteq S
  <2>1. Chain(m, c) \cap Doomed(m, i) = {}
    BY <1>1, <1>3, DoomedWhole
  <2>2. Chain(m, c) \subseteq Live(m)
    BY <1>1, <1>3, KidsIs
  <2> QED BY <2>1, <2>2
<1>4. S \in SUBSET Live(m)
  OBVIOUS
<1> HIDE DEF n, S
<1>5. \A c \in S : Kids(n)[c] = Kids(m)[c] /\ Keys(n)[c] = Keys(m)[c]
  BY <1>1, <1>2, <1>3, <1>4, KidsKept
<1>6. Kids(n) = [c \in S |-> Kids(n)[c]] /\ Keys(n) = [c \in S |-> Keys(n)[c]]
  BY <1>1 DEF Kids, Keys
<1>7. Kids(n) = Rest(Kids(m), S) /\ Keys(n) = Rest(Keys(m), S)
  BY <1>5, <1>6 DEF Rest
<1> QED BY <1>7 DEF n, S

(* An item goes behind the last one of a's list. *)
LEMMA KidsAppended ==
  ASSUME NEW m, NEW H, NEW named, Sound(m, H, named), NEW i \in H,
         NEW a \in Live(m) \ Doomed(m, i), Owner(m, a)
  PROVE  LET n == add_item_to_array(m, a, i)
         IN  /\ Kids(n) = [Kids(m) EXCEPT ![a] = Append(Kids(m)[a], i)]
             /\ Keys(n) = Keys(m) /\ Live(n) = Live(m)
<1> DEFINE last == IF m.item[a].child = NULL THEN NULL ELSE LastItem(m, a)
           n == Linking(m, a, last, i)
<1>1. m \in Memory /\ Linked(m) /\ Loose(m, i) /\ a \in Live(m)
  BY DEF Sound, Tied
<1>2. a # i
  BY <1>1, DoomedIs DEF Loose
<1>3. m.item[a].child # NULL => LastItem(m, a) \in Live(m) /\ LastItem(m, a) \in Chain(m, a) /\ m.item[LastItem(m, a)].next = NULL
  BY <1>1, ListEnds
<1>4. last \in Pointer /\ LastOf(m, a, last)
  BY <1>1, <1>3, NullAssumption DEF LastOf, MemberOf, Live, Pointer
<1>5. add_item_to_array(m, a, i) = n
  <2>1. CASE m.item[a].child = NULL
    BY <2>1 DEF add_item_to_array, Linking
  <2>2. CASE m.item[a].child # NULL
    <3>1. last # NULL
      BY <1>3, <2>2, NullAssumption DEF Live
    <3> QED BY <2>2, <3>1 DEF add_item_to_array, Linking
  <2> QED BY <2>1, <2>2
<1>6. Linked(n)
  <2>1. Linked(add_item_to_array(m, a, i))
    BY <1>1, AppendLinked
  <2> QED BY <1>5, <2>1
<1> HIDE DEF last
<1>7. SameItems(m, n)
  <2>1. a \in Cell /\ i \in Cell
    BY <1>1 DEF Loose, Live
  <2> QED BY <1>1, <1>4, <2>1, LinkingFields
<1>8. /\ Children(n, a) = Append(Children(m, a), i)
      /\ \A b \in Live(m) : b # a /\ Owner(m, b) => Children(n, b) = Children(m, b)
  BY <1>1, <1>2, <1>4, <1>6, LinkingChildren
<1> HIDE DEF n
<1>9. Kids(m)[a] = Children(m, a) /\ Live(n) = Live(m)
  BY <1>1, <1>7, KidsIs, SameItemsFacts
<1> DEFINE s == Append(Children(m, a), i)
<1>10. Kids(n) = [Kids(m) EXCEPT ![a] = s] /\ Keys(n) = Keys(m)
  <2> HIDE DEF s
  <2> QED BY <1>1, <1>7, <1>8, KidsChanged DEF s
<1> QED BY <1>5, <1>9, <1>10

(* In front of any. *)
LEMMA KidsInserted ==
  ASSUME NEW m, NEW H, NEW named, Sound(m, H, named), NEW i \in H,
         NEW a \in Live(m) \ Doomed(m, i), Owner(m, a), NEW k \in 1 .. Len(Children(m, a)),
         NEW after, after = Children(m, a)[k]
  PROVE  LET n == InsertBefore(m, a, after, i)
         IN  /\ Kids(n) = [Kids(m) EXCEPT ![a] = Forest!InsertAt(Kids(m)[a], k, i)]
             /\ Keys(n) = Keys(m) /\ Live(n) = Live(m) /\ \A c \in Cell : Owner(n, c) <=> Owner(m, c)
<1> DEFINE n == InsertBefore(m, a, after, i)
           s == Forest!InsertAt(Children(m, a), k, i)
<1>1. m \in Memory /\ Linked(m) /\ Loose(m, i) /\ a \in Live(m) /\ i \in Cell /\ a \in Cell
  BY DEF Sound, Tied, Loose, Live
<1>2. a # i
  BY <1>1, DoomedIs DEF Loose
<1>3. MemberOf(m, a, after) /\ after \in Cell
  BY <1>1, ChildrenFacts
<1>4. after # i
  BY <1>1, <1>3, LooseApart
<1>5. Linked(n)
  BY <1>1, <1>2, <1>3, <1>4, InsertLinked
<1>6. SameItems(m, n)
  BY <1>1, <1>3, InsertFields
<1>7. /\ Children(n, a) = s
      /\ \A b \in Live(m) : b # a /\ Owner(m, b) => Children(n, b) = Children(m, b)
  BY <1>1, <1>2, <1>5, InsertChildren
<1> HIDE DEF n, s
<1>8. Kids(m)[a] = Children(m, a) /\ Live(n) = Live(m) /\ \A c \in Cell : Owner(n, c) <=> Owner(m, c)
  BY <1>1, <1>6, KidsIs, SameItemsFacts
<1>9. Kids(n) = [Kids(m) EXCEPT ![a] = s] /\ Keys(n) = Keys(m)
  BY <1>1, <1>6, <1>7, KidsChanged
<1> QED BY <1>8, <1>9 DEF n, s

(* i is the k-th item a holds. *)
HeldAt(m, a, k, i) == k \in 1 .. Len(Children(m, a)) /\ i = Children(m, a)[k]

(* A member is taken out. *)
LEMMA KidsDetached ==
  ASSUME NEW m, NEW H, NEW named, Sound(m, H, named), NEW a \in Live(m), Owner(m, a),
         NEW k, NEW i, HeldAt(m, a, k, i)
  PROVE  LET n == cJSON_DetachItemViaPointer(m, a, i)
         IN  /\ Kids(n) = SetTo(Kids(m), a, Forest!RemoveAt(Kids(m)[a], k))
             /\ Keys(n) = Keys(m) /\ Live(n) = Live(m)
<1> DEFINE n == cJSON_DetachItemViaPointer(m, a, i)
           s == Forest!RemoveAt(Children(m, a), k)
<1>1. /\ m \in Memory /\ Linked(m) /\ Tied(m, H) /\ a \in Cell
      /\ k \in 1 .. Len(Children(m, a)) /\ i = Children(m, a)[k]
  BY DEF Sound, Tied, Live, HeldAt
<1>2. MemberOf(m, a, i) /\ i \in Cell
  BY <1>1, ChildrenFacts
<1>3. a # i
  BY <1>1, <1>2, NotItsOwn
<1>4. Linked(n)
  BY <1>1, <1>2, <1>3, DetachLinked
<1>5. SameItems(m, n)
  BY <1>1, <1>2, DetachFields
<1>6. /\ Children(n, a) = s
      /\ \A b \in Live(m) : b # a /\ Owner(m, b) => Children(n, b) = Children(m, b)
  BY <1>1, <1>3, <1>4, DetachChildren
<1> HIDE DEF n, s
<1>7. Kids(m)[a] = Children(m, a) /\ Live(n) = Live(m)
  BY <1>1, <1>5, KidsIs, SameItemsFacts
<1>8. Kids(n) = [Kids(m) EXCEPT ![a] = s] /\ Keys(n) = Keys(m)
  BY <1>1, <1>5, <1>6, KidsChanged
<1> QED BY <1>7, <1>8 DEF n, s, SetTo

-----------------------------------------------------------------------------
(* The steps of the forest, as what they do to what items hold *)

Changes(f, g, a) ==
  a \in Forest!Items(f) \cap Forest!Items(g) /\ f.kids[a] # g.kids[a]

(* New items make a step. *)
LEMMA StepGrows ==
  ASSUME NEW f, NEW g, NEW new, new = Forest!Items(g) \ Forest!Items(f), Forest!Grows(f, g, new)
  PROVE  Forest!Step(f, g)
BY DEF Forest!Step

(* A new item that is put in a list makes a step. *)
LEMMA StepPutsNew ==
  ASSUME NEW f, NEW g, NEW a, Changes(f, g, a),
         NEW i \in Forest!Items(g) \ Forest!Items(f), Forest!PutsNew(f, g, a, i)
  PROVE  Forest!Step(f, g)
BY DEF Forest!Step, Changes

(* A root that is put in a list makes a step. *)
LEMMA StepPuts ==
  ASSUME NEW f, NEW g, NEW a, Changes(f, g, a), NEW i \in f.roots \ g.roots, Forest!Puts(f, g, a, i)
  PROVE  Forest!Step(f, g)
BY DEF Forest!Step, Changes

(* An item that leaves a list makes a step, for the hand or for good. *)
LEMMA StepTakes ==
  ASSUME NEW f, NEW g, NEW a, Changes(f, g, a), NEW k \in DOMAIN f.kids[a],
         Forest!Takes(f, g, a, k) \/ Forest!Removes(f, g, a, k)
  PROVE  Forest!Step(f, g)
BY DEF Forest!Step, Changes

(* A root that takes an item's place makes a step. *)
LEMMA StepReplaces ==
  ASSUME NEW f, NEW g, NEW a, Changes(f, g, a), NEW k \in DOMAIN f.kids[a],
         NEW i \in f.roots \ g.roots, Forest!Replaces(f, g, a, k, i)
  PROVE  Forest!Step(f, g)
BY DEF Forest!Step, Changes

(* A root that is deleted or lost makes a step. *)
LEMMA StepDeletes ==
  ASSUME NEW f, NEW g, NEW i \in f.roots \ g.roots,
         Forest!Deletes(f, g, i) \/ (i \in Forest!Items(g) /\ Forest!Loses(f, g, i))
  PROVE  Forest!Step(f, g)
BY DEF Forest!Step

(* A record with the fields of a view is that view. *)
LEMMA ViewOf ==
  ASSUME NEW K, NEW N, NEW r, NEW l, NEW e \in [kids : {K}, key : {N}, roots : {r}, lost : {l}]
  PROVE  e = View(K, N, r, l)
BY DEF View

PutsAt(f, g, a, k, i) ==
  g = [f EXCEPT !.kids[a] = Forest!InsertAt(@, k, i), !.key[i] = g.key[i], !.roots = @ \ {i}]

(* What a view is with a root put in a sequence. *)
LEMMA ViewPuts ==
  ASSUME NEW K, NEW N, NEW r, NEW l, NEW a, NEW i, NEW k, NEW x, NEW y,
         x = [K EXCEPT ![a] = Forest!InsertAt(K[a], k, i)], y = [N EXCEPT ![i] = y[i]]
  PROVE  PutsAt(View(K, N, r, l), View(x, y, r \ {i}, l), a, k, i)
<1> DEFINE f == View(K, N, r, l)
           g == View(x, y, r \ {i}, l)
           e == [f EXCEPT !.kids[a] = Forest!InsertAt(@, k, i), !.key[i] = g.key[i], !.roots = @ \ {i}]
<1>1. /\ f.kids = K /\ f.key = N /\ f.roots = r /\ f.lost = l
      /\ g.kids = x /\ g.key = y /\ Forest!Items(f) = DOMAIN K
  BY ViewIs
<1>2. f \in [kids : {K}, key : {N}, roots : {r}, lost : {l}]
  BY DEF View
<1> HIDE DEF f, g
<1>3. e \in [kids : {x}, key : {y}, roots : {r \ {i}}, lost : {l}]
  BY <1>1, <1>2
<1>4. e = g
  <2> HIDE DEF e
  <2> QED BY <1>3, ViewOf DEF g
<1> QED BY <1>4 DEF f, g, PutsAt

(* With an item taken out of it. *)
LEMMA ViewTakes ==
  ASSUME NEW K, NEW N, NEW r, NEW l, NEW a, NEW k, NEW x,
         x = [K EXCEPT ![a] = Forest!RemoveAt(K[a], k)]
  PROVE  Forest!Takes(View(K, N, r, l), View(x, N, r \cup {K[a][k]}, l), a, k)
<1> DEFINE f == View(K, N, r, l)
           g == View(x, N, r \cup {K[a][k]}, l)
           e == [f EXCEPT !.kids[a] = Forest!RemoveAt(@, k), !.roots = @ \cup {f.kids[a][k]}]
<1>1. /\ f.kids = K /\ f.key = N /\ f.roots = r /\ f.lost = l
      /\ g.kids = x /\ g.key = N /\ Forest!Items(f) = DOMAIN K
  BY ViewIs
<1>2. f \in [kids : {K}, key : {N}, roots : {r}, lost : {l}]
  BY DEF View
<1> HIDE DEF f, g
<1>3. e \in [kids : {x}, key : {N}, roots : {r \cup {K[a][k]}}, lost : {l}]
  BY <1>1, <1>2
<1>4. e = g
  <2> HIDE DEF e
  <2> QED BY <1>3, ViewOf DEF g
<1> QED BY <1>4 DEF f, g, Forest!Takes

(* With a root lost. *)
LEMMA ViewLoses ==
  ASSUME NEW K, NEW N, NEW r, NEW l, NEW i, NEW y,
         y = [N EXCEPT ![i] = y[i]]
  PROVE  Forest!Loses(View(K, N, r, l), View(K, y, r \ {i}, l \cup {i}), i)
<1> DEFINE f == View(K, N, r, l)
           g == View(K, y, r \ {i}, l \cup {i})
           e == [f EXCEPT !.key[i] = g.key[i], !.roots = @ \ {i}, !.lost = @ \cup {i}]
<1>1. /\ f.kids = K /\ f.key = N /\ f.roots = r /\ f.lost = l
      /\ g.kids = K /\ g.key = y /\ Forest!Items(f) = DOMAIN K
  BY ViewIs
<1>2. f \in [kids : {K}, key : {N}, roots : {r}, lost : {l}]
  BY DEF View
<1> HIDE DEF f, g
<1>3. e \in [kids : {K}, key : {y}, roots : {r \ {i}}, lost : {l \cup {i}}]
  BY <1>1, <1>2
<1>4. e = g
  <2> HIDE DEF e
  <2> QED BY <1>3, ViewOf DEF g
<1> QED BY <1>4 DEF f, g, Forest!Loses

(* Without some items. *)
LEMMA ViewWithout ==
  ASSUME NEW K, NEW N, NEW r, NEW l, NEW D
  PROVE  Forest!Without(View(K, N, r, l), D)
           = View(Rest(K, DOMAIN K \ D), Rest(N, DOMAIN K \ D), r, l)
<1> DEFINE f == View(K, N, r, l)
           x == Rest(K, DOMAIN K \ D)
           y == Rest(N, DOMAIN K \ D)
           e == [f EXCEPT !.kids = [c \in DOMAIN K \ D |-> @[c]], !.key = [c \in DOMAIN K \ D |-> @[c]]]
<1>1. f.kids = K /\ f.key = N /\ f.roots = r /\ f.lost = l /\ Forest!Items(f) = DOMAIN K
  BY ViewIs
<1>2. f \in [kids : {K}, key : {N}, roots : {r}, lost : {l}]
  BY DEF View
<1> HIDE DEF f
<1>3. e \in [kids : {x}, key : {y}, roots : {r}, lost : {l}]
  BY <1>1, <1>2 DEF Rest
<1>4. e = View(x, y, r, l)
  <2> HIDE DEF e, x, y
  <2> QED BY <1>3, ViewOf
<1>5. Forest!Without(f, D) = e
  BY <1>1 DEF Forest!Without
<1> HIDE DEF e
<1> QED BY <1>4, <1>5 DEF f

(* With a new one. *)
LEMMA ViewWithNew ==
  ASSUME NEW K, NEW N, NEW r, NEW l, NEW i, NEW n
  PROVE  Forest!WithNew(View(K, N, r, l), i, n)
           = View(Plus(K, DOMAIN K, i, <<>>), Plus(N, DOMAIN K, i, n), r, l)
<1> DEFINE f == View(K, N, r, l)
           x == Plus(K, DOMAIN K, i, <<>>)
           y == Plus(N, DOMAIN K, i, n)
           e == [f EXCEPT !.kids = [c \in DOMAIN K \cup {i} |-> IF c = i THEN <<>> ELSE @[c]],
                          !.key = [c \in DOMAIN K \cup {i} |-> IF c = i THEN n ELSE @[c]]]
<1>1. f.kids = K /\ f.key = N /\ f.roots = r /\ f.lost = l /\ Forest!Items(f) = DOMAIN K
  BY ViewIs
<1>2. f \in [kids : {K}, key : {N}, roots : {r}, lost : {l}]
  BY DEF View
<1> HIDE DEF f
<1>3. e \in [kids : {x}, key : {y}, roots : {r}, lost : {l}]
  BY <1>1, <1>2 DEF Plus
<1>4. e = View(x, y, r, l)
  <2> HIDE DEF e, x, y
  <2> QED BY <1>3, ViewOf
<1>5. Forest!WithNew(f, i, n) = e
  BY <1>1 DEF Forest!WithNew
<1> HIDE DEF e
<1> QED BY <1>4, <1>5 DEF f

(* A view with some fields written. *)
AppendedAt(f, a, i) == [f EXCEPT !.kids[a] = Append(@, i)]
RemovedAt(f, a, k) == [f EXCEPT !.kids[a] = Forest!RemoveAt(@, k)]
ReplacedAt(f, a, k, i, n) == [f EXCEPT !.kids[a] = [@ EXCEPT ![k] = i], !.key[i] = n, !.roots = @ \ {i}]
WithRoots(f, q) == [f EXCEPT !.roots = q]
WithLost(f, q) == [f EXCEPT !.lost = q]

(* With an item at the end of a sequence. *)
LEMMA ViewAppends ==
  ASSUME NEW K, NEW N, NEW r, NEW l, NEW a, NEW i
  PROVE  AppendedAt(View(K, N, r, l), a, i) = View([K EXCEPT ![a] = Append(K[a], i)], N, r, l)
<1> DEFINE f == View(K, N, r, l)
           g == View([K EXCEPT ![a] = Append(K[a], i)], N, r, l)
           e == [f EXCEPT !.kids[a] = Append(@, i)]
<1>1. /\ f.kids = K /\ f.key = N /\ f.roots = r /\ f.lost = l
      /\ g.kids = [K EXCEPT ![a] = Append(K[a], i)] /\ g.key = N /\ Forest!Items(f) = DOMAIN K
  BY ViewIs
<1>2. f \in [kids : {K}, key : {N}, roots : {r}, lost : {l}]
  BY DEF View
<1> HIDE DEF f, g
<1>3. e \in [kids : {[K EXCEPT ![a] = Append(K[a], i)]}, key : {N}, roots : {r}, lost : {l}]
  BY <1>1, <1>2
<1>4. e = g
  <2> HIDE DEF e
  <2> QED BY <1>3, ViewOf DEF g
<1> QED BY <1>4 DEF f, g, AppendedAt

(* Without the item at a place. *)
LEMMA ViewRemovesAt ==
  ASSUME NEW K, NEW N, NEW r, NEW l, NEW a, NEW k
  PROVE  RemovedAt(View(K, N, r, l), a, k) = View([K EXCEPT ![a] = Forest!RemoveAt(K[a], k)], N, r, l)
<1> DEFINE f == View(K, N, r, l)
           g == View([K EXCEPT ![a] = Forest!RemoveAt(K[a], k)], N, r, l)
           e == [f EXCEPT !.kids[a] = Forest!RemoveAt(@, k)]
<1>1. /\ f.kids = K /\ f.key = N /\ f.roots = r /\ f.lost = l
      /\ g.kids = [K EXCEPT ![a] = Forest!RemoveAt(K[a], k)] /\ g.key = N /\ Forest!Items(f) = DOMAIN K
  BY ViewIs
<1>2. f \in [kids : {K}, key : {N}, roots : {r}, lost : {l}]
  BY DEF View
<1> HIDE DEF f, g
<1>3. e \in [kids : {[K EXCEPT ![a] = Forest!RemoveAt(K[a], k)]}, key : {N}, roots : {r}, lost : {l}]
  BY <1>1, <1>2
<1>4. e = g
  <2> HIDE DEF e
  <2> QED BY <1>3, ViewOf DEF g
<1> QED BY <1>4 DEF f, g, RemovedAt

(* With a root at a place. *)
LEMMA ViewReplacesAt ==
  ASSUME NEW K, NEW N, NEW r, NEW l, NEW a, NEW k, NEW i, NEW n
  PROVE  ReplacedAt(View(K, N, r, l), a, k, i, n)
           = View([K EXCEPT ![a] = [K[a] EXCEPT ![k] = i]], [N EXCEPT ![i] = n], r \ {i}, l)
<1> DEFINE f == View(K, N, r, l)
           g == View([K EXCEPT ![a] = [K[a] EXCEPT ![k] = i]], [N EXCEPT ![i] = n], r \ {i}, l)
           e == [f EXCEPT !.kids[a] = [@ EXCEPT ![k] = i], !.key[i] = n, !.roots = @ \ {i}]
<1>1. /\ f.kids = K /\ f.key = N /\ f.roots = r /\ f.lost = l
      /\ g.kids = [K EXCEPT ![a] = [K[a] EXCEPT ![k] = i]] /\ g.key = [N EXCEPT ![i] = n] /\ Forest!Items(f) = DOMAIN K
  BY ViewIs
<1>2. f \in [kids : {K}, key : {N}, roots : {r}, lost : {l}]
  BY DEF View
<1> HIDE DEF f, g
<1>3. e \in [kids : {[K EXCEPT ![a] = [K[a] EXCEPT ![k] = i]]}, key : {[N EXCEPT ![i] = n]}, roots : {r \ {i}}, lost : {l}]
  BY <1>1, <1>2
<1>4. e = g
  <2> HIDE DEF e
  <2> QED BY <1>3, ViewOf DEF g
<1> QED BY <1>4 DEF f, g, ReplacedAt

(* With other roots. *)
LEMMA ViewRoots ==
  ASSUME NEW K, NEW N, NEW r, NEW l, NEW q
  PROVE  WithRoots(View(K, N, r, l), q) = View(K, N, q, l)
<1> DEFINE f == View(K, N, r, l)
           g == View(K, N, q, l)
           e == [f EXCEPT !.roots = q]
<1>1. /\ f.kids = K /\ f.key = N /\ f.roots = r /\ f.lost = l
      /\ g.kids = K /\ g.key = N /\ Forest!Items(f) = DOMAIN K
  BY ViewIs
<1>2. f \in [kids : {K}, key : {N}, roots : {r}, lost : {l}]
  BY DEF View
<1> HIDE DEF f, g
<1>3. e \in [kids : {K}, key : {N}, roots : {q}, lost : {l}]
  BY <1>1, <1>2
<1>4. e = g
  <2> HIDE DEF e
  <2> QED BY <1>3, ViewOf DEF g
<1> QED BY <1>4 DEF f, g, WithRoots

(* With other items lost. *)
LEMMA ViewLost ==
  ASSUME NEW K, NEW N, NEW r, NEW l, NEW q
  PROVE  WithLost(View(K, N, r, l), q) = View(K, N, r, q)
<1> DEFINE f == View(K, N, r, l)
           g == View(K, N, r, q)
           e == [f EXCEPT !.lost = q]
<1>1. /\ f.kids = K /\ f.key = N /\ f.roots = r /\ f.lost = l
      /\ g.kids = K /\ g.key = N /\ Forest!Items(f) = DOMAIN K
  BY ViewIs
<1>2. f \in [kids : {K}, key : {N}, roots : {r}, lost : {l}]
  BY DEF View
<1> HIDE DEF f, g
<1>3. e \in [kids : {K}, key : {N}, roots : {r}, lost : {q}]
  BY <1>1, <1>2
<1>4. e = g
  <2> HIDE DEF e
  <2> QED BY <1>3, ViewOf DEF g
<1> QED BY <1>4 DEF f, g, WithLost

-----------------------------------------------------------------------------
(* What the functions are to the forest *)

Shows(m, r, l) == View(Kids(m), Keys(m), r, l)

(* A step of the forest, or none. *)
Moves(m, r, l, n, q, p) ==
  \/ Shows(n, q, p) = Shows(m, r, l)
  \/ Forest!Step(Shows(m, r, l), Shows(n, q, p))

(* What it is made of. *)
LEMMA ShowsIs ==
  ASSUME NEW m \in Memory, Linked(m), NEW r, NEW l
  PROVE  /\ Shows(m, r, l).kids = Kids(m) /\ Shows(m, r, l).key = Keys(m)
         /\ Shows(m, r, l).roots = r /\ Shows(m, r, l).lost = l
         /\ Forest!Items(Shows(m, r, l)) = Live(m)
BY ViewIs, KidsIs DEF Shows

(* Behind the last one is a place to insert at. *)
LEMMA AppendIs ==
  ASSUME NEW s \in Seq(Cell), NEW i \in Cell
  PROVE  Append(s, i) = Forest!InsertAt(s, Len(s) + 1, i)
<1> DEFINE k == Len(s) + 1
           u == Append(s, i)
<1>1. k - 1 = Len(s) /\ k \in Int /\ Len(s) \in Int /\ Len(s) < k
  OBVIOUS
<1>2. SubSeq(s, 1, k - 1) = s
  BY <1>1, SubSeqFull
<1>3. SubSeq(s, k, Len(s)) = << >>
  <2> HIDE DEF k
  <2> QED BY <1>1, SubSeqEmpty
<1>4. s \o <<i>> = u /\ u \in Seq(Cell)
  BY AppendIsConcat, AppendProperties
<1>5. Forest!InsertAt(s, k, i) = (s \o <<i>>) \o << >>
  BY <1>2, <1>3 DEF Forest!InsertAt
<1> HIDE DEF u
<1>6. u \o << >> = u
  BY <1>4, ConcatEmptySeq
<1> QED BY <1>4, <1>5, <1>6 DEF u

(* The children, as the forest has them. *)
LEMMA KidsSeq ==
  ASSUME NEW m \in Memory, Linked(m), NEW a \in Live(m), Owner(m, a)
  PROVE  /\ Kids(m)[a] = Children(m, a) /\ Kids(m)[a] \in Seq(Cell) /\ Len(Kids(m)[a]) \in Nat
         /\ DOMAIN Kids(m)[a] = 1 .. Len(Kids(m)[a])
BY KidsIs, ChildrenFacts

(* A root is given away. *)
LEMMA MovesLost ==
  ASSUME NEW m, NEW r, NEW l, NEW named, Sound(m, r \cup l, named), NEW i \in r,
         NEW n, Relabelled(m, n, i), Sound(n, r \cup l, named)
  PROVE  Moves(m, r, l, n, r \ {i}, l \cup {i})
<1>1. m \in Memory /\ Linked(m) /\ n \in Memory /\ Linked(n) /\ i \in Live(m)
  BY DEF Sound, Tied
<1>2. Live(n) = Live(m) /\ Kids(n) = Kids(m) /\ Keys(n) = [Keys(m) EXCEPT ![i] = Keys(n)[i]]
  BY <1>1, RelabelledKids
<1> DEFINE f == Shows(m, r, l)
           g == Shows(n, r \ {i}, l \cup {i})
<1>3. Forest!Loses(f, g, i)
  BY <1>2, ViewLoses DEF Shows
<1>4. f.roots = r /\ g.roots = r \ {i} /\ Forest!Items(g) = Live(n)
  BY <1>1, ShowsIs
<1> HIDE DEF f, g
<1>5. Forest!Step(f, g)
  BY <1>1, <1>2, <1>3, <1>4, StepDeletes
<1> QED BY <1>5 DEF Moves, f, g

(* A root, which may have been renamed, is put at a place. *)
LEMMA MovesIn ==
  ASSUME NEW m, NEW r, NEW l, NEW named, Sound(m, r \cup l, named), NEW i \in r,
         NEW o, Relabelled(m, o, i), Linked(o),
         NEW a \in Live(m) \ Doomed(m, i), Owner(m, a),
         NEW k \in 1 .. (Len(Kids(m)[a]) + 1), NEW n, Live(n) = Live(m),
         Kids(n) = [Kids(o) EXCEPT ![a] = Forest!InsertAt(Kids(o)[a], k, i)], Keys(n) = Keys(o)
  PROVE  Moves(m, r, l, n, r \ {i}, l)
<1> DEFINE f == Shows(m, r, l)
           g == Shows(n, r \ {i}, l)
           K == Kids(m)
           x == Kids(n)
           y == Keys(n)
           s == Forest!InsertAt(K[a], k, i)
<1>1. m \in Memory /\ Linked(m) /\ a \in Live(m) /\ i \in Cell /\ i \in Live(m) /\ Loose(m, i)
  BY DEF Sound, Tied, Live
<1>2. Kids(o) = K /\ Keys(o) = [Keys(m) EXCEPT ![i] = Keys(o)[i]]
  BY <1>1, RelabelledKids
<1>3. x = [K EXCEPT ![a] = s] /\ y = [Keys(m) EXCEPT ![i] = y[i]]
  BY <1>2
<1>4. K[a] \in Seq(Cell) /\ Len(K[a]) \in Nat /\ DOMAIN K = Live(m)
  BY <1>1, KidsSeq, KidsIs
<1>5. s \in Seq(Cell) /\ Len(s) = Len(K[a]) + 1
  <2> DEFINE t == K[a]
  <2>1. t \in Seq(Cell) /\ k \in 1 .. (Len(t) + 1)
    BY <1>4
  <2> HIDE DEF t
  <2> QED BY <1>1, <2>1, InsertAtIs DEF t
<1>6. x[a] = s
  BY <1>1, <1>3, <1>4
<1>7. x[a] # K[a]
  BY <1>4, <1>5, <1>6
<1>8. /\ f.kids = K /\ f.key = Keys(m) /\ f.roots = r /\ Forest!Items(f) = Live(m)
      /\ g.kids = x /\ g.key = y /\ g.roots = r \ {i} /\ Forest!Items(g) = Live(m)
  <2>1. DOMAIN x = Live(m)
    BY <1>3, <1>4
  <2>2. /\ f.kids = K /\ f.key = Keys(m) /\ f.roots = r /\ Forest!Items(f) = Live(m)
    BY <1>4, ViewIs DEF Shows
  <2>3. g.kids = x /\ g.key = y /\ g.roots = r \ {i} /\ Forest!Items(g) = Live(m)
    <3>1. g = View(x, y, r \ {i}, l)
      BY DEF Shows
    <3> HIDE DEF g, x, y
    <3>2. g.kids = x /\ g.key = y /\ g.roots = r \ {i} /\ Forest!Items(g) = DOMAIN x
      BY <3>1, ViewIs
    <3> QED BY <2>1, <3>2
  <2> QED BY <2>2, <2>3
<1>9. PutsAt(f, g, a, k, i)
  <2> DEFINE N == Keys(m)
  <2>1. x = [K EXCEPT ![a] = Forest!InsertAt(K[a], k, i)] /\ y = [N EXCEPT ![i] = y[i]]
    BY <1>3
  <2> HIDE DEF K, x, y, N
  <2>2. PutsAt(View(K, N, r, l), View(x, y, r \ {i}, l), a, k, i)
    BY <2>1, ViewPuts
  <2>3. f = View(K, N, r, l) /\ g = View(x, y, r \ {i}, l)
    BY DEF Shows, K, x, y, N
  <2> HIDE DEF f, g
  <2> QED BY <2>2, <2>3
<1>10. Forest!Subtree(f, i) = Doomed(m, i)
  <2>1. f.kids = Kids(m)
    BY <1>8
  <2> HIDE DEF f
  <2> QED BY <1>1, <2>1, SubtreeIs
<1>11. k \in 1 .. (Len(f.kids[a]) + 1)
  BY <1>8
<1> HIDE DEF f, g, K, x, y, s
<1>12. Forest!Puts(f, g, a, i)
  BY <1>9, <1>10, <1>11 DEF Forest!Puts, PutsAt
<1>13. Changes(f, g, a) /\ i \in f.roots \ g.roots
  BY <1>1, <1>7, <1>8 DEF Changes
<1>14. Forest!Step(f, g)
  BY <1>12, <1>13, StepPuts
<1> QED BY <1>14 DEF Moves, f, g

(* add_item_to_array puts it behind the last one. *)
LEMMA MovesAppend ==
  ASSUME NEW m, NEW r, NEW l, NEW named, Sound(m, r \cup l, named), NEW i \in r,
         NEW o, Relabelled(m, o, i), NEW less, Sound(o, r \cup l, less),
         NEW a \in Live(m) \ Doomed(m, i), Owner(m, a)
  PROVE  Moves(m, r, l, add_item_to_array(o, a, i), r \ {i}, l)
<1> DEFINE n == add_item_to_array(o, a, i)
<1>1. /\ m \in Memory /\ Linked(m) /\ o \in Memory /\ Linked(o) /\ a \in Live(m)
      /\ i \in Cell /\ a \in Cell /\ i \in r \cup l
  BY DEF Sound, Tied, Live
<1>2. Live(o) = Live(m) /\ Kids(o) = Kids(m) /\ Doomed(o, i) = Doomed(m, i) /\ Owner(o, a)
  BY <1>1, RelabelledKids
<1>3. /\ Kids(n) = [Kids(o) EXCEPT ![a] = Append(Kids(o)[a], i)]
      /\ Keys(n) = Keys(o) /\ Live(n) = Live(m)
  BY <1>1, <1>2, KidsAppended
<1> HIDE DEF n
<1> DEFINE s == Kids(o)[a]
           k == Len(s) + 1
<1>4. s \in Seq(Cell) /\ Len(s) \in Nat /\ s = Kids(m)[a]
  BY <1>1, <1>2, KidsSeq
<1>5. k \in 1 .. (Len(Kids(m)[a]) + 1)
  BY <1>4
<1>6. Append(s, i) = Forest!InsertAt(s, k, i)
  <2> HIDE DEF s
  <2> QED BY <1>1, <1>4, AppendIs
<1>7. Kids(n) = [Kids(o) EXCEPT ![a] = Forest!InsertAt(Kids(o)[a], k, i)]
  BY <1>3, <1>6
<1> HIDE DEF k
<1> QED BY <1>1, <1>3, <1>5, <1>7, MovesIn DEF n

(* InsertBefore puts it in front of a member. *)
LEMMA MovesInsert ==
  ASSUME NEW m, NEW r, NEW l, NEW named, Sound(m, r \cup l, named), NEW i \in r,
         NEW a \in Live(m) \ Doomed(m, i), Owner(m, a), NEW k \in 1 .. Len(Children(m, a)),
         NEW after, after = Children(m, a)[k]
  PROVE  Moves(m, r, l, InsertBefore(m, a, after, i), r \ {i}, l)
<1> DEFINE n == InsertBefore(m, a, after, i)
<1>1. m \in Memory /\ Linked(m) /\ a \in Live(m) /\ i \in r \cup l
  BY DEF Sound, Tied
<1>2. Relabelled(m, m, i)
  BY <1>1, RelabelledIs
<1>3. /\ Kids(n) = [Kids(m) EXCEPT ![a] = Forest!InsertAt(Kids(m)[a], k, i)]
      /\ Keys(n) = Keys(m) /\ Live(n) = Live(m)
  BY <1>1, KidsInserted
<1>4. k \in 1 .. (Len(Kids(m)[a]) + 1)
  BY <1>1, KidsSeq
<1> HIDE DEF n
<1> QED BY <1>1, <1>2, <1>3, <1>4, MovesIn DEF n

(* The owner of a member does not hang from it: it would hang from no root *)
(* then.                                                                   *)
LEMMA OwnerApart ==
  ASSUME NEW m, NEW H, NEW named, Sound(m, H, named), NEW a \in Live(m), Owner(m, a),
         NEW k \in 1 .. Len(Children(m, a)),
         NEW i, i = Children(m, a)[k], NEW n, n = cJSON_DetachItemViaPointer(m, a, i)
  PROVE  a \notin Doomed(n, i)
<1> DEFINE D == Doomed(n, i)
           S == Live(m) \ D
<1>1. m \in Memory /\ Linked(m) /\ Tied(m, H) /\ H \subseteq Live(m)
  BY DEF Sound, Tied
<1>2. MemberOf(m, a, i)
  BY <1>1, ChildrenFacts
<1>3. Sound(n, H \cup {i}, named) /\ i \in Live(m) /\ i \notin H
  BY <1>2, SoundDetach
<1>4. n \in Memory /\ Linked(n) /\ Loose(n, i) /\ i \in H \cup {i}
  BY <1>3 DEF Sound, Tied
<1>5. /\ \A c \in Live(m) : c # a => Kids(n)[c] = Kids(m)[c]
      /\ Live(n) = Live(m)
  <2>1. /\ Kids(n) = SetTo(Kids(m), a, Forest!RemoveAt(Kids(m)[a], k))
        /\ Live(n) = Live(m)
    <3>1. HeldAt(m, a, k, i)
      BY DEF HeldAt
    <3> QED BY <3>1, KidsDetached
  <2>2. DOMAIN Kids(m) = Live(m)
    BY <1>1, KidsIs
  <2> HIDE DEF D
  <2> QED BY <2>1, <2>2 DEF SetTo
<1>6. i \in D
  BY <1>4, DoomedIs DEF Loose
<1>7. H \subseteq S
  <2> SUFFICES ASSUME NEW j \in H PROVE j \in S
    OBVIOUS
  <2>1. j \in H \cup {i} /\ i # j
    BY <1>3
  <2>2. j \in Live(n) \ D
    BY <1>3, <1>4, <2>1, RootsApart
  <2> QED BY <1>5, <2>2
<1>8. ASSUME a \in D PROVE FALSE
  <2>1. ASSUME NEW y \in S PROVE Forest!In(Kids(m)[y]) \subseteq S
    <3>1. y # a /\ y \in Live(m) /\ y \in Live(n) \ D
      BY <1>5, <1>8
    <3>2. Kids(m)[y] = Kids(n)[y]
      BY <1>5, <3>1
    <3>3. CASE Owner(n, y)
      <4>1. Chain(n, y) \cap D = {}
        BY <1>4, <3>1, <3>3, DoomedWhole
      <4>2. Forest!In(Kids(n)[y]) = Chain(n, y) /\ Forest!In(Kids(n)[y]) \subseteq Live(n)
        BY <1>4, <3>1, <3>3, KidsIs
      <4> QED BY <1>5, <3>2, <4>1, <4>2
    <3>4. CASE ~Owner(n, y)
      <4>1. Forest!In(Kids(n)[y]) = {}
        BY <1>4, <3>1, <3>4, KidsIs
      <4> QED BY <3>2, <4>1
    <3> QED BY <3>3, <3>4
  <2>2. S \in SUBSET Live(m) /\ Holds(Kids(m), S)
    BY <2>1 DEF Holds
  <2> HIDE DEF S
  <2>3. S = Live(m)
    BY <1>1, <1>7, <2>2, HeldFrom
  <2> QED BY <1>3, <1>6, <2>3 DEF S
<1> QED BY <1>8

(* What hangs from an item is the same before it is taken out. *)
LEMMA SubtreeBefore ==
  ASSUME NEW n \in Memory, Linked(n), NEW i, Loose(n, i), NEW a, a \notin Doomed(n, i),
         NEW m \in Memory, Linked(m), Live(m) = Live(n),
         \A c \in Live(n) : c # a => Kids(m)[c] = Kids(n)[c],
         NEW f, f.kids = Kids(m)
  PROVE  Forest!Subtree(f, i) = Doomed(n, i)
<1> DEFINE K == Kids(n)
           L == Kids(m)
           g == [kids |-> K]
<1>1. Holds(K, DOMAIN K) /\ Holds(L, DOMAIN L) /\ DOMAIN K = Live(n) /\ DOMAIN L = DOMAIN K
  BY KidsHold, KidsIs
<1>2. i \in DOMAIN K
  BY <1>1 DEF Loose
<1>3. g.kids = K
  OBVIOUS
<1> HIDE DEF g
<1>4. Forest!Subtree(g, i) = Doomed(n, i) /\ Doomed(n, i) \subseteq Live(n)
  BY <1>3, SubtreeIs, DoomedIs DEF Loose
<1>5. \A y \in Forest!Subtree(g, i) : L[y] = K[y]
  BY <1>4
<1>6. f.kids = L
  OBVIOUS
<1> HIDE DEF K, L
<1> QED BY <1>1, <1>2, <1>3, <1>4, <1>5, <1>6, SubtreeSame

(* A member becomes a root. *)
LEMMA MovesOut ==
  ASSUME NEW m, NEW r, NEW l, NEW named, Sound(m, r \cup l, named),
         NEW a \in Live(m), Owner(m, a), NEW k \in 1 .. Len(Children(m, a)),
         NEW i, i = Children(m, a)[k]
  PROVE  Moves(m, r, l, cJSON_DetachItemViaPointer(m, a, i), r \cup {i}, l)
<1> DEFINE n == cJSON_DetachItemViaPointer(m, a, i)
           f == Shows(m, r, l)
           g == Shows(n, r \cup {i}, l)
           K == Kids(m)
           N == Keys(m)
           x == Kids(n)
           s == Forest!RemoveAt(K[a], k)
<1>1. m \in Memory /\ Linked(m) /\ Tied(m, r \cup l)
  BY DEF Sound, Tied
<1>2. x = [K EXCEPT ![a] = s] /\ Keys(n) = N /\ Live(n) = Live(m)
  <2>1. HeldAt(m, a, k, i)
    BY DEF HeldAt
  <2> QED BY <2>1, KidsDetached DEF SetTo
<1>3. K[a] = Children(m, a) /\ K[a] \in Seq(Cell) /\ Len(K[a]) \in Nat /\ DOMAIN K[a] = 1 .. Len(K[a])
      /\ DOMAIN K = Live(m)
  BY <1>1, KidsSeq, KidsIs
<1>4. k \in DOMAIN K[a] /\ i = K[a][k] /\ k \in 1 .. Len(K[a])
  BY <1>3
<1>5. Len(s) = Len(K[a]) - 1
  <2> DEFINE t == K[a]
  <2>1. t \in Seq(Cell) /\ k \in 1 .. Len(t)
    BY <1>3, <1>4
  <2> HIDE DEF t
  <2> QED BY <2>1, RemoveAtIs DEF t
<1> HIDE DEF n, x, s
<1>6. x[a] = s /\ x[a] # K[a] /\ DOMAIN x = Live(m)
  BY <1>2, <1>3, <1>5
<1>7. f = View(K, N, r, l) /\ g = View(x, N, r \cup {K[a][k]}, l)
  BY <1>2, <1>4 DEF Shows, x
<1> HIDE DEF f, g, K, N
<1>8. Forest!Takes(f, g, a, k)
  BY <1>2, <1>7, ViewTakes DEF s
<1>9. f.kids = K /\ g.kids = x /\ Forest!Items(f) = DOMAIN K /\ Forest!Items(g) = DOMAIN x
  BY <1>7, ViewIs
<1>10. Changes(f, g, a)
  BY <1>3, <1>6, <1>9 DEF Changes
<1>11. Forest!Step(f, g)
  BY <1>4, <1>8, <1>9, <1>10, StepTakes
<1> QED BY <1>11 DEF Moves, f, g, n

(* A member is deleted. *)
LEMMA MovesOff ==
  ASSUME NEW m, NEW r, NEW l, NEW named, Sound(m, r \cup l, named),
         NEW a \in Live(m), Owner(m, a), NEW k \in 1 .. Len(Children(m, a)),
         NEW i, i = Children(m, a)[k]
  PROVE  Moves(m, r, l, cJSON_Delete(cJSON_DetachItemViaPointer(m, a, i), i), r, l)
<1> DEFINE o == cJSON_DetachItemViaPointer(m, a, i)
           n == cJSON_Delete(o, i)
           D == Doomed(o, i)
           f == Shows(m, r, l)
           g == Shows(n, r, l)
           K == Kids(m)
           N == Keys(m)
           x == Kids(n)
           s == Forest!RemoveAt(K[a], k)
<1>1. m \in Memory /\ Linked(m) /\ Tied(m, r \cup l)
  BY DEF Sound, Tied
<1>2. Kids(o) = [K EXCEPT ![a] = s] /\ Keys(o) = N /\ Live(o) = Live(m)
  <2>1. HeldAt(m, a, k, i)
    BY DEF HeldAt
  <2> QED BY <2>1, KidsDetached DEF SetTo
<1>3. K[a] = Children(m, a) /\ K[a] \in Seq(Cell) /\ Len(K[a]) \in Nat /\ DOMAIN K[a] = 1 .. Len(K[a])
      /\ DOMAIN K = Live(m)
  BY <1>1, KidsSeq, KidsIs
<1>4. k \in DOMAIN K[a] /\ i = K[a][k] /\ k \in 1 .. Len(K[a])
  BY <1>3
<1>5. Len(s) = Len(K[a]) - 1
  <2> DEFINE t == K[a]
  <2>1. t \in Seq(Cell) /\ k \in 1 .. Len(t)
    BY <1>3, <1>4
  <2> HIDE DEF t
  <2> QED BY <2>1, RemoveAtIs DEF t
<1>6. MemberOf(m, a, i)
  BY <1>1, ChildrenFacts
<1>7. a \notin D
  BY OwnerApart
<1>8. Sound(o, (r \cup l) \cup {i}, named) /\ o \in Memory /\ Linked(o) /\ Loose(o, i) /\ i \in (r \cup l) \cup {i}
  BY <1>6, SoundDetach DEF Sound, Tied
<1> HIDE DEF o
<1>9. x = Rest(Kids(o), Live(o) \ D) /\ Keys(n) = Rest(Keys(o), Live(o) \ D)
  BY <1>8, KidsDeleted
<1> HIDE DEF n
<1>10. f.kids = K
  BY ViewIs DEF Shows
<1>11. Forest!Subtree(f, i) = D
  <2>1. \A c \in Live(o) : c # a => K[c] = Kids(o)[c]
    BY <1>2, <1>3
  <2>2. Live(m) = Live(o) /\ f.kids = Kids(m) /\ a \notin Doomed(o, i)
    BY <1>2, <1>7, <1>10
  <2> HIDE DEF f
  <2> QED BY <1>1, <1>8, <2>1, <2>2, SubtreeBefore
<1> DEFINE p == Rest(K, DOMAIN K \ D)
           q == Rest(N, DOMAIN K \ D)
<1>12. Forest!Without(f, D) = View(p, q, r, l)
  BY ViewWithout DEF Shows
<1> HIDE DEF D, s
<1>13. a \in DOMAIN K \ D /\ p[a] = K[a]
  BY <1>3, <1>7 DEF Rest
<1>14. x = [p EXCEPT ![a] = Forest!RemoveAt(p[a], k)] /\ Keys(n) = q
  <2>1. x = [c \in Live(m) \ D |-> [K EXCEPT ![a] = s][c]] /\ Keys(n) = [c \in Live(m) \ D |-> N[c]]
    BY <1>2, <1>9 DEF Rest
  <2>2. Forest!RemoveAt(p[a], k) = s
    BY <1>13 DEF s
  <2>3. [p EXCEPT ![a] = s] = [c \in Live(m) \ D |-> [K EXCEPT ![a] = s][c]]
    BY <1>3, <1>13 DEF Rest
  <2> QED BY <1>3, <2>1, <2>2, <2>3 DEF Rest
<1>15. g = View([p EXCEPT ![a] = Forest!RemoveAt(p[a], k)], q, r, l)
  BY <1>14 DEF Shows
<1>16. g = RemovedAt(View(p, q, r, l), a, k)
  <2> HIDE DEF g, p, q
  <2> QED BY <1>15, ViewRemovesAt
<1>17. x[a] = s /\ x[a] # K[a] /\ DOMAIN x = DOMAIN K \ D
  <2>1. x[a] = Forest!RemoveAt(p[a], k) /\ DOMAIN x = DOMAIN K \ D
    BY <1>13, <1>14 DEF Rest
  <2>2. x[a] = s
    BY <1>13, <2>1 DEF s
  <2> HIDE DEF x
  <2> QED BY <1>3, <1>5, <2>1, <2>2
<1>18. g.kids = x /\ Forest!Items(f) = DOMAIN K /\ Forest!Items(g) = DOMAIN x
  BY ViewIs DEF Shows
<1> HIDE DEF f, g, K, N, p, q, x
<1>19. Forest!Removes(f, g, a, k)
  BY <1>4, <1>10, <1>11, <1>12, <1>16 DEF Forest!Removes, RemovedAt
<1>20. Changes(f, g, a)
  BY <1>10, <1>13, <1>17, <1>18 DEF Changes
<1>21. Forest!Step(f, g)
  BY <1>4, <1>10, <1>19, <1>20, StepTakes
<1> QED BY <1>21 DEF Moves, f, g, n, o

(* A root is deleted. *)
LEMMA MovesDelete ==
  ASSUME NEW m, NEW r, NEW l, NEW named, Sound(m, r \cup l, named), NEW i \in r
  PROVE  Moves(m, r, l, cJSON_Delete(m, i), r \ {i}, l)
<1> DEFINE n == cJSON_Delete(m, i)
           D == Doomed(m, i)
           f == Shows(m, r, l)
           g == Shows(n, r \ {i}, l)
           K == Kids(m)
           N == Keys(m)
           p == Rest(K, DOMAIN K \ D)
           q == Rest(N, DOMAIN K \ D)
<1>1. m \in Memory /\ Linked(m) /\ Loose(m, i) /\ i \in r \cup l
  BY DEF Sound, Tied
<1>2. Kids(n) = p /\ Keys(n) = q
  <2>1. DOMAIN K = Live(m)
    BY <1>1, KidsIs
  <2>2. Kids(n) = Rest(K, Live(m) \ D) /\ Keys(n) = Rest(N, Live(m) \ D)
    BY <1>1, KidsDeleted
  <2> HIDE DEF n, D
  <2> QED BY <2>1, <2>2
<1>3. f.kids = K /\ f.roots = r
  BY ViewIs DEF Shows
<1>4. g.roots = r \ {i}
  BY ViewIs DEF Shows
<1>5. Forest!Subtree(f, i) = D
  <2> HIDE DEF f
  <2> QED BY <1>1, <1>3, SubtreeIs
<1>6. Forest!Without(f, D) = View(p, q, r, l)
  BY ViewWithout DEF Shows
<1>7. g = View(p, q, r \ {i}, l)
  BY <1>2 DEF Shows
<1> HIDE DEF f, g, p, q, D, n
<1>8. g = WithRoots(Forest!Without(f, D), (Forest!Without(f, D)).roots \ {i})
  <2>1. (Forest!Without(f, D)).roots = r
    BY <1>6, ViewIs
  <2>2. g = WithRoots(View(p, q, r, l), r \ {i})
    BY <1>7, ViewRoots
  <2> QED BY <1>6, <2>1, <2>2
<1>9. Forest!Deletes(f, g, i)
  BY <1>5, <1>8 DEF Forest!Deletes, WithRoots
<1>10. i \in f.roots \ g.roots
  BY <1>3, <1>4
<1>11. Forest!Step(f, g)
  BY <1>9, <1>10, StepDeletes
<1> QED BY <1>11 DEF Moves, f, g, n

(* To put an item in front of the one at k and to take that one out is to  *)
(* replace it.                                                             *)
LEMMA ReplaceIs ==
  ASSUME NEW s \in Seq(Cell), NEW k \in 1 .. Len(s), NEW i \in Cell
  PROVE  /\ k + 1 \in 1 .. Len(Forest!InsertAt(s, k, i))
         /\ Forest!InsertAt(s, k, i)[k + 1] = s[k]
         /\ Forest!RemoveAt(Forest!InsertAt(s, k, i), k + 1) = [s EXCEPT ![k] = i]
<1> DEFINE l == Len(s)
           t == Forest!InsertAt(s, k, i)
           j == k + 1
           u == Forest!RemoveAt(t, j)
           v == [s EXCEPT ![k] = i]
<1>1. l \in Nat /\ k \in 1 .. l /\ k \in 1 .. (l + 1) /\ j \in 1 .. (l + 1) /\ k \in Nat
  OBVIOUS
<1>2. t \in Seq(Cell) /\ Len(t) = l + 1 /\ \A x \in 1 .. (l + 1) : t[x] = IF x < k THEN s[x] ELSE IF x = k THEN i ELSE s[x - 1]
  BY <1>1, InsertAtIs
<1>3. v \in Seq(Cell) /\ Len(v) = l /\ \A x \in 1 .. l : v[x] = IF x = k THEN i ELSE s[x]
  OBVIOUS
<1> HIDE DEF t, v, l
<1>4. j \in 1 .. Len(t)
  BY <1>1, <1>2
<1>5. t[j] = s[k]
  <2>1. ~(j < k) /\ j # k /\ j - 1 = k
    BY <1>1
  <2> QED BY <1>1, <1>2, <2>1
<1>6. u \in Seq(Cell) /\ Len(u) = Len(t) - 1 /\ \A x \in 1 .. (Len(t) - 1) : u[x] = IF x < j THEN t[x] ELSE t[x + 1]
  <2> HIDE DEF j
  <2> QED BY <1>2, <1>4, RemoveAtIs
<1> HIDE DEF u
<1>7. Len(u) = l
  BY <1>1, <1>2, <1>6
<1>8. ASSUME NEW x \in 1 .. l PROVE u[x] = v[x]
  <2>1. x \in 1 .. (Len(t) - 1) /\ x \in 1 .. (l + 1) /\ x + 1 \in 1 .. (l + 1)
    BY <1>1, <1>2
  <2>2. u[x] = IF x < j THEN t[x] ELSE t[x + 1]
    BY <1>6, <2>1
  <2>3. CASE x < j
    <3>1. u[x] = t[x] /\ t[x] = IF x < k THEN s[x] ELSE IF x = k THEN i ELSE s[x - 1]
      BY <1>2, <2>1, <2>2, <2>3
    <3>2. v[x] = IF x = k THEN i ELSE s[x]
      BY <1>3
    <3>3. x < k \/ x = k
      BY <1>1, <2>1, <2>3
    <3>4. x < k => x # k
      BY <1>1, <2>1
    <3> QED BY <3>1, <3>2, <3>3, <3>4
  <2>4. CASE ~(x < j)
    <3>1. ~(x + 1 < k) /\ x + 1 # k /\ (x + 1) - 1 = x /\ x # k
      BY <1>1, <2>1, <2>4
    <3>2. t[x + 1] = s[x]
      BY <1>2, <2>1, <3>1
    <3> QED BY <1>3, <2>2, <2>4, <3>1, <3>2
  <2> QED BY <2>3, <2>4
<1>9. u = v
  <2>1. u = [x \in 1 .. Len(u) |-> u[x]] /\ v = [x \in 1 .. Len(v) |-> v[x]]
    BY <1>3, <1>6
  <2> QED BY <1>3, <1>7, <1>8, <2>1
<1> QED BY <1>4, <1>5, <1>9 DEF t, u, v, j

(* What is held from outside once i has taken the place of old. *)
Swapped(H, i, old) == (H \ {i}) \cup {old}

(* A root, which may have been renamed, takes the place of a member. *)
LEMMA KidsReplaced ==
  ASSUME NEW m, NEW H, NEW named, Sound(m, H, named), NEW i \in H,
         NEW a \in Live(m) \ Doomed(m, i), Owner(m, a), NEW k, NEW old, HeldAt(m, a, k, old),
         named /\ m.item[a].kind = "object" => m.item[i].name # NULL
  PROVE  LET o == Replaced(m, a, old, i)
         IN  /\ Kids(o) = SetTo(Kids(m), a, SetTo(Kids(m)[a], k, i))
             /\ Keys(o) = Keys(m) /\ Live(o) = Live(m)
             /\ Sound(o, Swapped(H, i, old), named) /\ a \notin Doomed(o, old) /\ old # i
<1> DEFINE p == InsertBefore(m, a, old, i)
           o == Replaced(m, a, old, i)
           s == Kids(m)[a]
           t == Forest!InsertAt(s, k, i)
           j == k + 1
<1>1. /\ m \in Memory /\ Linked(m) /\ Tied(m, H) /\ Loose(m, i) /\ i \in Live(m) /\ a \in Live(m)
      /\ i \in Cell /\ a \in Cell /\ k \in 1 .. Len(Children(m, a)) /\ old = Children(m, a)[k]
  BY DEF Sound, Tied, Live, HeldAt
<1>2. MemberOf(m, a, old) /\ a # i
  BY <1>1, ChildrenFacts, DoomedIs
<1>3. a # old /\ i # old
  BY <1>1, <1>2, NotItsOwn, LooseApart
<1>4. Sound(p, H \ {i}, named)
  BY <1>2, SoundInsert
<1>5. /\ Kids(p) = [Kids(m) EXCEPT ![a] = t] /\ Keys(p) = Keys(m) /\ Live(p) = Live(m)
      /\ Owner(p, a)
  BY <1>1, KidsInserted
<1>6. o = cJSON_DetachItemViaPointer(p, a, old)
  BY <1>1, <1>2, <1>3, ReplacedIs
<1>7. /\ s = Children(m, a) /\ s \in Seq(Cell) /\ DOMAIN Kids(m) = Live(m) /\ k \in 1 .. Len(s)
  BY <1>1, KidsSeq, KidsIs
<1>8. old = s[k]
  BY <1>1, <1>7
<1> HIDE DEF s, p, o
<1>9. j \in 1 .. Len(t) /\ t[j] = old /\ Forest!RemoveAt(t, j) = [s EXCEPT ![k] = i]
  BY <1>1, <1>7, <1>8, ReplaceIs
<1> HIDE DEF t, j
<1>10. p \in Memory /\ Linked(p) /\ a \in Live(p)
  BY <1>1, <1>4, <1>5 DEF Sound, Tied
<1>11. Kids(p)[a] = t
  BY <1>1, <1>5, <1>7
<1>12. Children(p, a) = t
  BY <1>5, <1>10, <1>11, KidsIs
<1>13. j \in 1 .. Len(Children(p, a)) /\ old = Children(p, a)[j] /\ HeldAt(p, a, j, old)
  BY <1>9, <1>12 DEF HeldAt
<1>14. /\ Kids(o) = SetTo(Kids(p), a, Forest!RemoveAt(Kids(p)[a], j))
       /\ Keys(o) = Keys(p) /\ Live(o) = Live(p)
  <2>1. Kids(cJSON_DetachItemViaPointer(p, a, old)) = SetTo(Kids(p), a, Forest!RemoveAt(Kids(p)[a], j))
    BY ONLY <1>4, <1>5, <1>10, <1>13, KidsDetached
  <2>2. /\ Keys(cJSON_DetachItemViaPointer(p, a, old)) = Keys(p)
        /\ Live(cJSON_DetachItemViaPointer(p, a, old)) = Live(p)
    BY ONLY <1>4, <1>5, <1>10, <1>13, KidsDetached
  <2> QED BY <1>6, <2>1, <2>2
<1>15. Kids(o) = [Kids(m) EXCEPT ![a] = [s EXCEPT ![k] = i]]
  <2> DEFINE v == [s EXCEPT ![k] = i]
  <2>1. Kids(o) = [[Kids(m) EXCEPT ![a] = t] EXCEPT ![a] = v]
    BY <1>5, <1>9, <1>11, <1>14 DEF SetTo
  <2> HIDE DEF v
  <2>2. Kids(o) = [Kids(m) EXCEPT ![a] = v]
    BY <2>1
  <2> QED BY <2>2 DEF v
<1>16. a \notin Doomed(o, old)
  BY <1>4, <1>5, <1>6, <1>10, <1>13, OwnerApart
<1>17. Sound(o, (H \ {i}) \cup {old}, named)
  <2>1. MemberOf(p, a, old)
    BY <1>5, <1>10, <1>13, ChildrenFacts
  <2> QED BY <1>4, <1>6, <2>1, SoundDetach
<1>18. Kids(o) = SetTo(Kids(m), a, SetTo(s, k, i))
  BY <1>15 DEF SetTo
<1> QED BY <1>3, <1>5, <1>14, <1>16, <1>17, <1>18 DEF o, s, Swapped

(* What was there is deleted. *)
LEMMA MovesReplace ==
  ASSUME NEW m, NEW r, NEW l, NEW named, Sound(m, r \cup l, named), NEW i \in r,
         NEW o, Relabelled(m, o, i), NEW less, Sound(o, r \cup l, less),
         NEW a \in Live(m) \ Doomed(m, i), Owner(m, a), NEW k \in 1 .. Len(Children(o, a)),
         NEW old, old = Children(o, a)[k], old # NULL,
         less /\ o.item[a].kind = "object" => o.item[i].name # NULL
  PROVE  Moves(m, r, l, cJSON_ReplaceItemViaPointer(o, a, old, i), r \ {i}, l)
<1> DEFINE p == Replaced(o, a, old, i)
           n == cJSON_Delete(p, old)
           D == Doomed(p, old)
           f == Shows(m, r, l)
           g == Shows(n, r \ {i}, l)
           K == Kids(m)
           N == Keys(m)
           x == Kids(n)
           y == Keys(n)
           s == K[a]
           v == [s EXCEPT ![k] = i]
<1>1. /\ m \in Memory /\ Linked(m) /\ o \in Memory /\ Linked(o) /\ a \in Live(m)
      /\ i \in Cell /\ a \in Cell /\ i \in r \cup l /\ Loose(m, i)
  BY DEF Sound, Tied, Live
<1>2. Live(o) = Live(m) /\ Kids(o) = K /\ Doomed(o, i) = Doomed(m, i) /\ Owner(o, a)
      /\ Keys(o) = [N EXCEPT ![i] = Keys(o)[i]]
  BY <1>1, RelabelledKids
<1>3. /\ s = Children(o, a) /\ s \in Seq(Cell) /\ DOMAIN s = 1 .. Len(s) /\ DOMAIN K = Live(m)
      /\ DOMAIN N = Live(m)
  BY <1>1, <1>2, KidsSeq, KidsIs
<1>4. k \in DOMAIN s /\ old = s[k] /\ k \in 1 .. Len(s)
  BY <1>3
<1> HIDE DEF s
<1>5. /\ Kids(p) = SetTo(Kids(o), a, SetTo(Kids(o)[a], k, i))
      /\ Keys(p) = Keys(o) /\ Live(p) = Live(o)
      /\ Sound(p, ((r \cup l) \ {i}) \cup {old}, less) /\ a \notin D /\ old # i
  <2> DEFINE H == r \cup l
  <2>1. /\ Sound(o, H, less) /\ i \in H /\ a \in Live(o) \ Doomed(o, i) /\ Owner(o, a)
        /\ HeldAt(o, a, k, old) /\ (less /\ o.item[a].kind = "object" => o.item[i].name # NULL)
    BY <1>1, <1>2 DEF HeldAt
  <2> HIDE DEF H
  <2>2. Kids(p) = SetTo(Kids(o), a, SetTo(Kids(o)[a], k, i)) /\ Keys(p) = Keys(o) /\ Live(p) = Live(o)
    BY ONLY <2>1, KidsReplaced DEF p
  <2>3. Sound(p, Swapped(H, i, old), less)
    BY ONLY <2>1, KidsReplaced DEF p
  <2>4. a \notin Doomed(p, old) /\ old # i
    BY ONLY <2>1, KidsReplaced DEF p
  <2> QED BY <2>2, <2>3, <2>4 DEF H, Swapped
<1>6. cJSON_ReplaceItemViaPointer(o, a, old, i) = n
  BY DEF cJSON_ReplaceItemViaPointer
<1>7. p \in Memory /\ Linked(p) /\ Loose(p, old) /\ old \in ((r \cup l) \ {i}) \cup {old}
  BY <1>5 DEF Sound, Tied
<1> HIDE DEF p
<1>8. x = Rest(Kids(p), Live(p) \ D) /\ y = Rest(Keys(p), Live(p) \ D)
  BY <1>5, <1>7, KidsDeleted
<1> HIDE DEF n
<1>9. f.kids = K /\ f.roots = r
  BY ViewIs DEF Shows
<1>10. Forest!Subtree(f, old) = D
  <2>1. \A c \in Live(p) : c # a => K[c] = Kids(p)[c]
    BY <1>2, <1>3, <1>5 DEF SetTo
  <2>2. Live(m) = Live(p) /\ f.kids = Kids(m) /\ a \notin Doomed(p, old)
    BY <1>2, <1>5, <1>9
  <2> HIDE DEF f
  <2> QED BY <1>1, <1>7, <2>1, <2>2, SubtreeBefore
<1>11. Forest!Subtree(f, i) = Doomed(m, i)
  <2> HIDE DEF f
  <2> QED BY <1>1, <1>9, SubtreeIs
<1> DEFINE P == Rest(K, DOMAIN K \ D)
           Q == Rest(N, DOMAIN K \ D)
<1>12. Forest!Without(f, D) = View(P, Q, r, l)
  BY ViewWithout DEF Shows
<1> HIDE DEF D
<1>13. a \in DOMAIN K \ D /\ P[a] = s
  BY <1>1, <1>3, <1>5 DEF Rest, s
<1>14. Kids(p) = [K EXCEPT ![a] = v]
  BY <1>2, <1>5 DEF s, SetTo
<1>15. x = [P EXCEPT ![a] = v]
  <2> HIDE DEF v, x
  <2>1. x = [c \in DOMAIN K \ D |-> [K EXCEPT ![a] = v][c]]
    BY <1>2, <1>3, <1>5, <1>8, <1>14 DEF Rest
  <2>2. [P EXCEPT ![a] = v] = [c \in DOMAIN K \ D |-> [K EXCEPT ![a] = v][c]]
    BY <1>3, <1>13 DEF Rest
  <2> QED BY <2>1, <2>2
<1>16. y = [Q EXCEPT ![i] = y[i]]
  <2> DEFINE z == Keys(o)[i]
  <2>1. y = [c \in DOMAIN K \ D |-> [N EXCEPT ![i] = z][c]]
    BY <1>2, <1>3, <1>5, <1>8 DEF Rest
  <2>2. Q = [c \in DOMAIN K \ D |-> N[c]]
    BY DEF Rest
  <2> HIDE DEF y, Q, z
  <2>3. DOMAIN y = DOMAIN K \ D /\ DOMAIN Q = DOMAIN K \ D
    BY <2>1, <2>2
  <2>4. \A c \in DOMAIN K \ D : c # i => y[c] = Q[c]
    BY <1>3, <2>1, <2>2
  <2>5. y = [c \in DOMAIN K \ D |-> y[c]]
    BY <2>1
  <2>6. [Q EXCEPT ![i] = y[i]] = [c \in DOMAIN K \ D |-> IF c = i THEN y[i] ELSE Q[c]]
    BY <2>2, <2>3
  <2> QED BY <2>4, <2>5, <2>6
<1>17. g = View([P EXCEPT ![a] = [P[a] EXCEPT ![k] = i]], [Q EXCEPT ![i] = y[i]], r \ {i}, l)
  <2>1. g = View(x, y, r \ {i}, l)
    BY DEF Shows
  <2>2. v = [P[a] EXCEPT ![k] = i]
    BY <1>13
  <2> HIDE DEF g, x, y, v, P, Q
  <2> QED BY <1>15, <1>16, <2>1, <2>2
<1>18. g = ReplacedAt(View(P, Q, r, l), a, k, i, y[i])
  <2> DEFINE z == y[i]
  <2> HIDE DEF g, P, Q, z
  <2> QED BY <1>17, ViewReplacesAt DEF z
<1>19. g.kids = x /\ g.key = y /\ g.roots = r \ {i} /\ Forest!Items(f) = DOMAIN K /\ Forest!Items(g) = DOMAIN x
  BY ViewIs DEF Shows
<1>20. x[a] = v /\ v # s /\ DOMAIN x = DOMAIN K \ D
  <2>1. v[k] = i
    BY <1>4
  <2>2. v # s
    BY <1>4, <1>5, <2>1
  <2>3. DOMAIN P = DOMAIN K \ D
    BY DEF Rest
  <2> HIDE DEF P, v
  <2> QED BY <1>13, <1>15, <2>2, <2>3
<1> HIDE DEF f, g, x, y, P, Q, v
<1>21. Forest!Replaces(f, g, a, k, i)
  <2>1. f.kids[a][k] = old
    BY <1>4, <1>9 DEF s
  <2>2. a \notin Forest!Subtree(f, i)
    BY <1>11
  <2> QED BY <1>10, <1>12, <1>18, <1>19, <2>1, <2>2 DEF Forest!Replaces, ReplacedAt
<1>22. Changes(f, g, a) /\ k \in DOMAIN f.kids[a] /\ i \in f.roots \ g.roots
  BY <1>4, <1>9, <1>13, <1>19, <1>20 DEF Changes, s
<1>23. Forest!Step(f, g)
  BY <1>21, <1>22, StepReplaces
<1> QED BY <1>6, <1>23 DEF Moves, f, g

(* The forest counts as this module does. *)
LEMMA CountsAlike ==
  ASSUME NEW S
  PROVE  Forest!Cardinality(S) = Cardinality(S)
BY DEF Forest!Cardinality, Cardinality

(* A sequence without repetition has as many members as places. *)
LEMMA OnceEach ==
  ASSUME NEW s \in Seq(Cell), \A j, k \in 1 .. Len(s) : s[j] = s[k] => j = k
  PROVE  Cardinality(Forest!In(s)) = Len(s)
<1> DEFINE l == Len(s)
           S == 1 .. l
           T == Forest!In(s)
<1>1. l \in Nat /\ DOMAIN s = S
  OBVIOUS
<1>2. s \in [S -> T] /\ \A y \in T : \E k \in S : s[k] = y
  BY DEF Forest!In
<1>3. \A j, k \in S : s[j] = s[k] => j = k
  OBVIOUS
<1>4. IsFiniteSet(S) /\ Cardinality(S) = l
  <2> HIDE DEF l
  <2>1. 1 \in Int /\ l \in Int /\ (1 > l => l = 0) /\ (l - 1) + 1 = l
    BY <1>1
  <2> QED BY <2>1, FS_Interval
<1> HIDE DEF S, T, l
<1>5. s \in Surjection(S, T) /\ s \in Injection(S, T)
  BY <1>2, <1>3 DEF Surjection, Injection, IsInjective
<1>6. Cardinality(T) = Cardinality(S)
  BY <1>4, <1>5, FS_Surjection
<1> QED BY <1>4, <1>6 DEF T, l

(* What is new hangs from the new root, and nothing else does. *)
LEMMA GrewIs ==
  ASSUME NEW m, NEW H, NEW named, Sound(m, H, named), NEW n, NEW i, i \notin Live(m),
         NEW less, Sound(n, H \cup {i}, less), Grew(m, n)
  PROVE  Live(n) \ Live(m) = Doomed(n, i) /\ Loose(n, i)
<1> DEFINE D == Doomed(n, i)
           S == Live(m) \cup D
           K == Kids(n)
<1>1. /\ m \in Memory /\ Linked(m) /\ n \in Memory /\ Linked(n) /\ Tied(n, H \cup {i}) /\ Loose(n, i)
      /\ H \subseteq Live(m) /\ Live(m) \subseteq Live(n) /\ i \in H \cup {i} /\ H \subseteq H \cup {i}
  BY DEF Sound, Tied, Grew
<1>2. D \cap Live(m) = {}
  BY <1>1, NewApart
<1>3. D \subseteq Live(n) /\ i \in D
  BY <1>1, DoomedIs DEF Loose
<1>4. ASSUME NEW y \in Live(m) PROVE Forest!In(K[y]) \subseteq Live(m)
  <2>1. K[y] = Kids(m)[y]
    BY <1>1, <1>4, KidsGrew
  <2>2. Forest!In(Kids(m)[y]) \subseteq Live(m)
    BY <1>1, <1>4, KidsIs
  <2> QED BY <2>1, <2>2
<1>5. Holds(K, D)
  <2> DEFINE f == [kids |-> K]
  <2>1. f.kids = K
    OBVIOUS
  <2> HIDE DEF f
  <2>2. Forest!Subtree(f, i) = D
    BY <1>1, <2>1, SubtreeIs
  <2>3. Holds(K, DOMAIN K) /\ i \in DOMAIN K
    BY <1>1, <1>3, KidsHold, KidsIs
  <2> HIDE DEF K, D
  <2> QED BY <2>1, <2>2, <2>3, SubtreeFacts
<1>6. S \in SUBSET Live(n) /\ H \cup {i} \subseteq S /\ Holds(Kids(n), S)
  BY <1>1, <1>3, <1>4, <1>5 DEF Holds
<1> HIDE DEF S
<1>7. S = Live(n)
  BY <1>1, <1>6, HeldFrom
<1> QED BY <1>1, <1>2, <1>3, <1>7 DEF S

(* The view without what is new is the view there was, but for the root. *)
LEMMA GrewWithout ==
  ASSUME NEW m \in Memory, Linked(m), NEW n \in Memory, Linked(n), Grew(m, n),
         NEW new, new = Live(n) \ Live(m), NEW r, NEW l
  PROVE  Forest!Without(Shows(n, r, l), new) = Shows(m, r, l)
<1>1. DOMAIN Kids(n) = Live(n) /\ Live(n) \ new = Live(m)
  BY KidsIs DEF Grew
<1>2. Rest(Kids(n), Live(m)) = Kids(m) /\ Rest(Keys(n), Live(m)) = Keys(m)
  <2>1. \A c \in Live(m) : Kids(n)[c] = Kids(m)[c] /\ Keys(n)[c] = Keys(m)[c]
    BY KidsGrew
  <2>2. Kids(m) = [c \in Live(m) |-> Kids(m)[c]] /\ Keys(m) = [c \in Live(m) |-> Keys(m)[c]]
    BY DEF Kids, Keys
  <2> QED BY <2>1, <2>2 DEF Rest
<1> DEFINE K == Kids(n)
           N == Keys(n)
<1> HIDE DEF K, N
<1>3. Forest!Without(View(K, N, r, l), new) = View(Rest(K, DOMAIN K \ new), Rest(N, DOMAIN K \ new), r, l)
  BY ViewWithout
<1> QED BY <1>1, <1>2, <1>3 DEF K, N, Shows

(* New items are the client's, or nobody's. *)
LEMMA MovesGrow ==
  ASSUME NEW m, NEW r, NEW l, NEW named, Sound(m, r \cup l, named), NEW n, NEW i, i \notin Live(m),
         NEW less, Sound(n, (r \cup l) \cup {i}, less), Grew(m, n)
  PROVE  Moves(m, r, l, n, r \cup {i}, l) /\ Moves(m, r, l, n, r, l \cup {i})
<1> DEFINE H == r \cup l
           new == Live(n) \ Live(m)
           f == Shows(m, r, l)
           K == Kids(n)
<1>1. m \in Memory /\ Linked(m) /\ n \in Memory /\ Linked(n)
  BY DEF Sound, Tied
<1>2. new = Doomed(n, i) /\ Loose(n, i)
  <2> HIDE DEF new, H
  <2>1. Sound(m, H, named) /\ Sound(n, H \cup {i}, less)
    BY DEF H
  <2> QED BY <2>1, GrewIs DEF new
<1>3. i \in new /\ DOMAIN K = Live(n)
  BY <1>1, <1>2, KidsIs DEF Loose
<1>4. ASSUME NEW q, NEW p, \/ q = r \cup {i} /\ p = l
                           \/ q = r /\ p = l \cup {i}
      PROVE  Moves(m, r, l, n, q, p)
  <2> DEFINE g == Shows(n, q, p)
  <2>1. g.kids = K /\ Forest!Items(f) = Live(m) /\ Forest!Items(g) = Live(n)
    BY <1>1, ShowsIs
  <2>2. Forest!Subtree(g, i) = new
    <3>1. g.kids = Kids(n)
      BY <2>1
    <3> HIDE DEF g
    <3> QED BY <1>1, <1>2, <3>1, SubtreeIs
  <2>3. Forest!Without(g, new) = Shows(m, q, p)
    <3> HIDE DEF new
    <3> QED BY <1>1, GrewWithout DEF new
  <2>4. Forest!Without(g, new) \in {WithRoots(f, f.roots \cup {i}), WithLost(f, f.lost \cup {i})}
    <3>1. f.roots = r /\ f.lost = l
      BY ViewIs DEF Shows
    <3>2. WithRoots(f, r \cup {i}) = Shows(m, r \cup {i}, l)
      BY ViewRoots DEF Shows
    <3>3. WithLost(f, l \cup {i}) = Shows(m, r, l \cup {i})
      BY ViewLost DEF Shows
    <3> HIDE DEF f, g, new
    <3> QED BY <1>4, <2>3, <3>1, <3>2, <3>3
  <2>5. Holds(K, new)
    <3>1. Holds(K, DOMAIN K) /\ i \in DOMAIN K
      BY <1>1, <1>3, KidsHold
    <3> HIDE DEF K, g, new
    <3> QED BY <2>1, <2>2, <3>1, SubtreeFacts
  <2>6. ASSUME NEW c \in new
        PROVE  /\ Forest!In(K[c]) \subseteq new \ {i}
               /\ Cardinality(Forest!In(K[c])) = Len(K[c])
               /\ \A d \in new : Forest!In(K[c]) \cap Forest!In(K[d]) # {} => c = d
    <3>1. c \in Live(n) /\ Forest!In(K[c]) \subseteq new
      BY <2>5, <2>6 DEF Holds
    <3>2. CASE Owner(n, c)
      <4>1. K[c] = Children(n, c) /\ Forest!In(K[c]) = Chain(n, c)
        BY <1>1, <3>1, <3>2, KidsIs
      <4>2. \A x \in Chain(n, c) : MemberOf(n, c, x)
        BY <3>1, <3>2 DEF MemberOf
      <4>3. i \notin Chain(n, c)
        BY <1>1, <1>2, <4>2, LooseApart
      <4>4. Cardinality(Forest!In(K[c])) = Len(K[c])
        <5> DEFINE s == Children(n, c)
        <5>1. s \in Seq(Cell) /\ \A j, k \in 1 .. Len(s) : s[j] = s[k] => j = k
          BY <1>1, <3>1, <3>2, ChildrenFacts
        <5> HIDE DEF s
        <5>2. Cardinality(Forest!In(s)) = Len(s)
          BY <5>1, OnceEach
        <5> QED BY <4>1, <5>2 DEF s
      <4>5. ASSUME NEW d \in new, Forest!In(K[c]) \cap Forest!In(K[d]) # {} PROVE c = d
        <5>1. PICK x \in Forest!In(K[c]) : x \in Forest!In(K[d])
          BY <4>5
        <5>2. d \in Live(n) /\ Owner(n, d) /\ x \in Chain(n, d)
          BY <1>1, <4>5, <5>1, KidsIs
        <5>3. MemberOf(n, c, x) /\ MemberOf(n, d, x)
          BY <4>1, <4>2, <5>1, <5>2 DEF MemberOf
        <5> QED BY <1>1, <5>3, ChainsApart
      <4> QED BY <3>1, <4>1, <4>3, <4>4, <4>5
    <3>3. CASE ~Owner(n, c)
      <4>1. K[c] = <<>> /\ Forest!In(K[c]) = {}
        BY <1>1, <3>1, <3>3, KidsIs
      <4>2. Cardinality(Forest!In(K[c])) = Len(K[c])
        BY <4>1, FS_EmptySet
      <4> QED BY <4>1, <4>2
    <3> QED BY <3>2, <3>3
  <2> HIDE DEF f, g, K, new
  <2>7. Forest!Grows(f, g, new)
    <3>1. ASSUME NEW c \in new
          PROVE  Forest!Cardinality(Forest!In(g.kids[c])) = Len(g.kids[c])
      BY <2>1, <2>6, <3>1, CountsAlike
    <3>2. Forest!Without(g, new) \in {[f EXCEPT !.roots = f.roots \cup {i}], [f EXCEPT !.lost = f.lost \cup {i}]}
      BY <2>4 DEF WithRoots, WithLost
    <3> QED BY <1>3, <2>1, <2>2, <2>6, <3>1, <3>2 DEF Forest!Grows
  <2>8. Forest!Step(f, g)
    BY <2>1, <2>7, StepGrows DEF new
  <2> QED BY <2>8 DEF Moves, f, g
<1>5. Moves(m, r, l, n, r \cup {i}, l)
  BY <1>4
<1>6. Moves(m, r, l, n, r, l \cup {i})
  BY <1>4
<1> QED BY <1>5, <1>6

(* Nothing is new. *)
LEMMA MovesNowhere ==
  ASSUME NEW m, NEW r, NEW l, NEW named, Sound(m, r \cup l, named),
         NEW n, NEW less, Sound(n, r \cup l, less), Grew(m, n)
  PROVE  Moves(m, r, l, n, r, l)
<1>1. m \in Memory /\ Linked(m) /\ n \in Memory /\ Linked(n)
  BY DEF Sound, Tied
<1>2. Live(n) = Live(m)
  BY GrewNothing
<1>3. \A c \in Live(m) : Kids(n)[c] = Kids(m)[c] /\ Keys(n)[c] = Keys(m)[c]
  BY <1>1, KidsGrew
<1>4. /\ Kids(m) = [c \in Live(m) |-> Kids(m)[c]] /\ Keys(m) = [c \in Live(m) |-> Keys(m)[c]]
      /\ Kids(n) = [c \in Live(m) |-> Kids(n)[c]] /\ Keys(n) = [c \in Live(m) |-> Keys(n)[c]]
  BY <1>2 DEF Kids, Keys
<1>5. Kids(n) = Kids(m) /\ Keys(n) = Keys(m)
  BY <1>3, <1>4
<1> QED BY <1>5 DEF Moves, Shows

(* A new item without children goes behind the last of a list. *)
LEMMA MovesNew ==
  ASSUME NEW m, NEW r, NEW l, NEW named, Sound(m, r \cup l, named),
         NEW o, NEW i, i \notin Live(m), NEW less, Sound(o, (r \cup l) \cup {i}, less), Grew(m, o),
         Live(o) = Live(m) \cup {i}, Owner(o, i) => o.item[i].child = NULL,
         NEW a \in Live(m), a \in Live(o) \ Doomed(o, i), Owner(o, a)
  PROVE  Moves(m, r, l, add_item_to_array(o, a, i), r, l)
<1> DEFINE n == add_item_to_array(o, a, i)
           f == Shows(m, r, l)
           g == Shows(n, r, l)
           K == Kids(m)
           N == Keys(m)
           x == Kids(n)
           y == Keys(n)
           s == Append(Kids(m)[a], i)
           P == Plus(K, DOMAIN K, i, <<>>)
           Q == Plus(N, DOMAIN K, i, y[i])
<1>1. /\ m \in Memory /\ Linked(m) /\ o \in Memory /\ Linked(o) /\ i \in (r \cup l) \cup {i}
      /\ i \in Live(o) /\ i \in Cell
  BY DEF Sound, Tied, Live
<1>2. /\ Kids(n) = [Kids(o) EXCEPT ![a] = Append(Kids(o)[a], i)]
      /\ Keys(n) = Keys(o) /\ Live(n) = Live(o)
  BY <1>1, KidsAppended
<1>3. \A c \in Live(m) : Kids(o)[c] = K[c] /\ Keys(o)[c] = N[c]
  BY <1>1, KidsGrew
<1>4. Kids(o)[i] = <<>>
  <2>1. CASE Owner(o, i)
    <3>1. Chain(o, i) = {}
      BY <2>1, NoChain
    <3>2. Kids(o)[i] = Children(o, i) /\ Forest!In(Kids(o)[i]) = {}
      BY <1>1, <2>1, <3>1, KidsIs
    <3> DEFINE t == Kids(o)[i]
    <3>3. t \in Seq(Cell)
      BY <1>1, <2>1, KidsSeq
    <3> HIDE DEF t
    <3>4. DOMAIN t = {}
      BY <3>2 DEF Forest!In, t
    <3>5. Len(t) = 0
      <4>1. Len(t) \in Nat /\ DOMAIN t = 1 .. Len(t)
        BY <3>3
      <4>2. 1 \notin 1 .. Len(t)
        BY <3>4, <4>1
      <4> QED BY <4>1, <4>2
    <3>6. t = <<>>
      BY <3>3, <3>5
    <3> QED BY <3>6 DEF t
  <2>2. CASE ~Owner(o, i)
    BY <1>1, <2>2, KidsIs
  <2> QED BY <2>1, <2>2
<1>5. DOMAIN K = Live(m) /\ DOMAIN N = Live(m) /\ DOMAIN Kids(o) = Live(o) /\ DOMAIN Keys(o) = Live(o)
  BY <1>1, KidsIs
<1>6. Kids(o) = P
  <2>1. Kids(o) = [c \in Live(m) \cup {i} |-> Kids(o)[c]]
    BY DEF Kids
  <2>2. P = [c \in Live(m) \cup {i} |-> IF c = i THEN <<>> ELSE K[c]]
    BY <1>5 DEF Plus
  <2> HIDE DEF P, K
  <2> QED BY <1>3, <1>4, <2>1, <2>2
<1>7. y = Q
  <2>1. Keys(o) = [c \in Live(m) \cup {i} |-> Keys(o)[c]]
    BY DEF Keys
  <2>2. Q = [c \in Live(m) \cup {i} |-> IF c = i THEN y[i] ELSE N[c]]
    BY <1>5 DEF Plus
  <2>3. y = Keys(o)
    BY <1>2
  <2> HIDE DEF Q, N, y
  <2> QED BY <1>3, <2>1, <2>2, <2>3
<1>8. a # i /\ Kids(o)[a] = K[a] /\ a \in DOMAIN P
  BY <1>3, <1>5, <1>6
<1>9. g = AppendedAt(Forest!WithNew(f, i, y[i]), a, i)
  <2> DEFINE z == y[i]
  <2>1. g = View(x, y, r, l) /\ f = View(K, N, r, l)
    BY DEF Shows
  <2>2. x = [P EXCEPT ![a] = Append(P[a], i)]
    BY <1>2, <1>6
  <2> HIDE DEF K, N, x, f, g, z
  <2>3. Forest!WithNew(f, i, z) = View(P, Plus(N, DOMAIN K, i, z), r, l)
    BY <2>1, ViewWithNew
  <2>4. Forest!WithNew(f, i, z) = View(P, y, r, l)
    BY <1>7, <2>3 DEF z
  <2> HIDE DEF P, Q, y
  <2>5. AppendedAt(View(P, y, r, l), a, i) = View([P EXCEPT ![a] = Append(P[a], i)], y, r, l)
    BY ViewAppends
  <2> QED BY <2>1, <2>2, <2>4, <2>5 DEF z
<1>10. f.kids = K /\ g.kids = x /\ g.key = y /\ Forest!Items(f) = DOMAIN K /\ Forest!Items(g) = DOMAIN x
  BY ViewIs DEF Shows
<1>11. x[a] = Append(K[a], i) /\ DOMAIN x = Live(m) \cup {i}
  <2> HIDE DEF K, N, n
  <2> QED BY <1>2, <1>5, <1>8
<1>12. x[a] # K[a]
  <2> DEFINE t == K[a]
  <2>1. Owner(m, a)
    BY DEF Grew, Kept, Owner
  <2>2. t \in Seq(Cell)
    BY <1>1, <2>1, KidsSeq
  <2> HIDE DEF t
  <2>3. Len(Append(t, i)) # Len(t)
    BY <2>2
  <2> QED BY <1>11, <2>3 DEF t
<1> HIDE DEF f, g, K, N, x, y, P, Q
<1>13. Forest!PutsNew(f, g, a, i)
  BY <1>9, <1>10 DEF Forest!PutsNew, AppendedAt
<1>14. Changes(f, g, a) /\ i \in Forest!Items(g) \ Forest!Items(f)
  BY <1>5, <1>10, <1>11, <1>12 DEF Changes
<1>15. Forest!Step(f, g)
  BY <1>13, <1>14, StepPutsNew
<1> QED BY <1>15 DEF Moves, f, g

-----------------------------------------------------------------------------
(* The client's calls are steps of the forest *)
Refined == Moves(mem, roots, lost, mem', roots', lost')

(* A call that leaves n, and what the client holds and has lost. *)
LEMMA HoldingMoves ==
  ASSUME NEW n, NEW q, NEW p, Holding(n, q, p), Moves(mem, roots, lost, n, q, p)
  PROVE  Refined
<1>1. mem' = n /\ roots' = q /\ lost' = p
  BY DEF Holding
<1> QED BY <1>1 DEF Refined

(* What is left as it was. *)
LEMMA StaysMoves ==
  ASSUME mem' = mem, roots' = roots, lost' = lost
  PROVE  Refined
BY DEF Refined, Moves

(* A member has a place. *)
LEMMA PlaceOf ==
  ASSUME NEW m \in Memory, Linked(m), NEW a, NEW i, MemberOf(m, a, i)
  PROVE  a \in Live(m) /\ Owner(m, a) /\ \E k \in 1 .. Len(Children(m, a)) : i = Children(m, a)[k]
<1>1. a \in Live(m) /\ Owner(m, a) /\ i \in Chain(m, a)
  BY DEF MemberOf
<1>2. \A x \in Chain(m, a) : \E k \in 1 .. Len(Children(m, a)) : Children(m, a)[k] = x
  BY <1>1, ChildrenFacts
<1> QED BY <1>1, <1>2

(* A function that allocates as it goes. *)
LEMMA KeepMoves ==
  ASSUME TreeInv, NEW r, Keep(r), Grew(mem, r.mem),
         r.item = NULL => Sound(r.mem, roots \cup lost, ~unnamed),
         r.item # NULL => /\ Sound(r.mem, (roots \cup lost) \cup {r.item}, ~unnamed)
                          /\ r.item \notin Live(mem)
  PROVE  Refined
<1> DEFINE named == ~unnamed
           n == r.mem
           i == r.item
<1>1. Holding(n, IF i = NULL THEN roots ELSE roots \cup {i}, lost)
  BY DEF Keep
<1>2. Sound(mem, roots \cup lost, named) /\ Grew(mem, n)
  BY InvFacts
<1>3. /\ i = NULL => Sound(n, roots \cup lost, named)
      /\ i # NULL => Sound(n, (roots \cup lost) \cup {i}, named) /\ i \notin Live(mem)
  OBVIOUS
<1> HIDE DEF named, n, i
<1>4. CASE i = NULL
  <2>1. Moves(mem, roots, lost, n, roots, lost)
    BY <1>2, <1>3, <1>4, MovesNowhere
  <2>2. Holding(n, roots, lost)
    BY <1>1, <1>4
  <2> QED BY <2>1, <2>2, HoldingMoves
<1>5. CASE i # NULL
  <2>1. Moves(mem, roots, lost, n, roots \cup {i}, lost)
    BY <1>2, <1>3, <1>5, MovesGrow
  <2>2. Holding(n, roots \cup {i}, lost)
    BY <1>1, <1>5
  <2> QED BY <2>1, <2>2, HoldingMoves
<1> QED BY <1>4, <1>5

(* cJSON_CreateNull and its like. *)
LEMMA CreateMoves == ASSUME TreeInv, Create PROVE Refined
<1>1. PICK kind \in Kinds, s \in OneItem, ink \in 0 .. 1 : Keep(CreateItem(mem, kind, s, ink))
  BY DEF Create
<1> DEFINE r == CreateItem(mem, kind, s, ink)
<1>2. kind \in Kind \ {"free"} /\ ink \in Nat /\ Supply(mem, s)
  BY TreeAssumption, Supplied
<1>3. Sound(mem, roots \cup lost, ~unnamed)
  BY InvFacts
<1>4. /\ r.item = NULL => Sound(r.mem, roots \cup lost, ~unnamed)
      /\ r.item # NULL => /\ Sound(r.mem, (roots \cup lost) \cup {r.item}, ~unnamed)
                          /\ r.item \notin Live(mem)
      /\ Grew(mem, r.mem)
  <2>1. Created(mem, roots \cup lost, ~unnamed, kind, r)
    BY <1>2, <1>3, CreateItemSound
  <2> HIDE DEF r
  <2> QED BY <2>1 DEF Created, Grew
<1> HIDE DEF r
<1>5. Keep(r)
  BY <1>1 DEF r
<1> QED BY <1>4, <1>5, KeepMoves

(* cJSON_CreateIntArray and its like. *)
LEMMA CreateArrayMoves == ASSUME TreeInv, CreateArray PROVE Refined
<1>1. PICK kind \in Kinds \cap {"plain", "text"}, n \in 1 .. MaxArray, s \in Supplies,
           ink \in 0 .. MaxArray :
        Keep(CreateArrayOf(mem, n, kind, s, ink))
  BY DEF CreateArray
<1> DEFINE r == CreateArrayOf(mem, n, kind, s, ink)
           f == FillTurns(mem, kind, s, ink)[n]
           named == ~unnamed
<1>2. /\ kind \in Kind \ {"free"} /\ ink \in Nat /\ n \in Nat /\ Supply(mem, s)
  BY TreeAssumption, Supplied
<1>3. Sound(mem, roots \cup lost, named)
  BY InvFacts
<1>4. r = f.out
  BY DEF CreateArrayOf, FillTurns
<1> HIDE DEF f, named
<1>5. Filling(mem, roots \cup lost, named, f)
  BY <1>2, <1>3, FillTurnsKeep DEF f
<1> HIDE DEF r
<1>6. /\ r.item = NULL => Sound(r.mem, roots \cup lost, ~unnamed)
      /\ r.item # NULL => /\ Sound(r.mem, (roots \cup lost) \cup {r.item}, ~unnamed)
                          /\ r.item \notin Live(mem)
      /\ Grew(mem, r.mem)
  BY <1>4, <1>5 DEF Filling, named
<1>7. Keep(r)
  BY <1>1 DEF r
<1> QED BY <1>6, <1>7, KeepMoves

(* cJSON_Duplicate, with and without recurse. *)
LEMMA DuplicateMoves ==
  ASSUME TreeInv, NEW c, NEW recurse \in BOOLEAN, Duplicate(c, recurse) PROVE Refined
<1>1. c \in Held /\ Readable(c)
  BY DEF Duplicate
<1>2. PICK s \in Supplies, ink \in 0 .. (2 * Cardinality(Reads(c))) :
        Len(s) <= Cardinality(Reads(c)) /\ Keep(cJSON_Duplicate(mem, c, recurse, s, ink))
  BY DEF Duplicate
<1> DEFINE r == cJSON_Duplicate(mem, c, recurse, s, ink)
           named == ~unnamed
           R == Reads(c)
<1>3. c \in Live(mem)
  BY <1>1, HeldLive
<1>4. c \in R /\ Readers(mem, R)
  BY <1>1, <1>3, ReadableReaders
<1>5. Sound(mem, roots \cup lost, named)
  BY InvFacts
<1>6. Supply(mem, s)
  BY Supplied
<1>7. ink \in Nat
  BY <1>2
<1>8. Keep(r)
  BY <1>2
<1> HIDE DEF named, R
<1>9. /\ r.item = NULL => Sound(r.mem, roots \cup lost, named)
      /\ r.item # NULL => Sound(r.mem, (roots \cup lost) \cup {r.item}, named) /\ r.item \notin Live(mem)
      /\ Grew(mem, r.mem)
  BY <1>4, <1>5, <1>6, <1>7, DuplicateSound
<1> HIDE DEF r
<1>10. /\ r.item = NULL => Sound(r.mem, roots \cup lost, ~unnamed)
       /\ r.item # NULL => /\ Sound(r.mem, (roots \cup lost) \cup {r.item}, ~unnamed)
                           /\ r.item \notin Live(mem)
  BY <1>9 DEF named
<1> QED BY <1>8, <1>9, <1>10, KeepMoves

(* cJSON_CreateArrayReference and its like. *)
LEMMA CreateReferenceMoves == ASSUME TreeInv, CreateReference PROVE Refined
<1>1. PICK c \in Held, s \in OneItem :
        /\ s # <<>>
        /\ Holding([cJSON_New_Item(mem, s[1], mem.item[c].kind) EXCEPT
                      !.item[s[1]].child = mem.item[c].child,
                      !.item[s[1]].text = mem.item[c].text,
                      !.item[s[1]].ref = TRUE], roots \cup {s[1]}, lost)
  <2>1. PICK c \in Held, s \in OneItem :
          LET src == mem.item[c]
          IN /\ FewRefs /\ s # <<>> /\ Owner(mem, c) /\ (src.child # NULL \/ src.text # NULL)
             /\ Holding([cJSON_New_Item(mem, s[1], src.kind) EXCEPT !.item[s[1]].child = src.child,
                                                                    !.item[s[1]].text = src.text,
                                                                    !.item[s[1]].ref = TRUE],
                        roots \cup {s[1]}, lost)
    BY DEF CreateReference
  <2> WITNESS c \in Held, s \in OneItem
  <2> QED BY <2>1
<1> DEFINE d == s[1]
           n == [cJSON_New_Item(mem, d, mem.item[c].kind) EXCEPT
                   !.item[d].child = mem.item[c].child,
                   !.item[d].text = mem.item[c].text,
                   !.item[d].ref = TRUE]
           named == ~unnamed
<1>2. d \in Cell \ Live(mem) /\ c \in Live(mem)
  BY <1>1, Supplied, HeldLive
<1>3. mem \in Memory /\ Sound(mem, roots \cup lost, named)
  BY InvFacts
<1>4. Holding(n, roots \cup {d}, lost)
  BY <1>1
<1> HIDE DEF d, named
<1>5. /\ mem.item[c].kind \in Kind \ {"free"} /\ mem.item[c].child \in Pointer
      /\ mem.item[c].text \in Pointer
  BY <1>2, <1>3 DEF Memory, Item, Live
<1>6. Refers(mem, d, n)
  BY <1>2, <1>3, <1>5, CreateReferenceIs
<1> HIDE DEF n
<1>7. Sound(n, (roots \cup lost) \cup {d}, named) /\ Grew(mem, n)
  BY <1>2, <1>3, <1>6, SoundRefers DEF Grew
<1>8. Moves(mem, roots, lost, n, roots \cup {d}, lost)
  BY <1>2, <1>3, <1>7, MovesGrow
<1> QED BY <1>4, <1>8, HoldingMoves

(* cJSON_AddItemToArray: the item does not hold the array. *)
LEMMA AddItemToArrayMoves == ASSUME TreeInv, AddItemToArray PROVE Refined
<1>1. PICK a \in Arrays : \E i \in Addable(a) : Holding(add_item_to_array(mem, a, i), roots \ {i}, lost)
  BY DEF AddItemToArray
<1>2. PICK i \in Addable(a) : Holding(add_item_to_array(mem, a, i), roots \ {i}, lost)
  BY <1>1
<1> DEFINE named == ~unnamed
<1>3. a \in Live(mem) \ Doomed(mem, i) /\ Owner(mem, a) /\ i \in roots /\ i \in roots \cup lost
  BY HeldLive
<1>4. Sound(mem, roots \cup lost, named)
  BY InvFacts
<1> HIDE DEF named
<1>5. Relabelled(mem, mem, i)
  BY <1>3, <1>4, RelabelledIs
<1>6. Moves(mem, roots, lost, add_item_to_array(mem, a, i), roots \ {i}, lost)
  BY <1>3, <1>4, <1>5, MovesAppend
<1> QED BY <1>2, <1>6, HoldingMoves

(* cJSON_AddItemToObject, and when its key cannot be allocated. *)
LEMMA AddItemToObjectMoves == ASSUME TreeInv, AddItemToObject PROVE Refined
<1>1. PICK o \in Objects, name \in Name, given \in BOOLEAN, const \in BOOLEAN :
        \E i \in Addable(o) :
          IF given \/ const
          THEN Holding(add_item_to_array(Rename(mem, i, name, const), o, i), roots \ {i}, lost)
          ELSE Fails /\ Holding(mem, roots \ {i}, lost \cup {i})
  BY DEF AddItemToObject
<1>2. PICK i \in Addable(o) :
          IF given \/ const
          THEN Holding(add_item_to_array(Rename(mem, i, name, const), o, i), roots \ {i}, lost)
          ELSE Fails /\ Holding(mem, roots \ {i}, lost \cup {i})
  BY <1>1
<1> DEFINE named == ~unnamed
           n == Rename(mem, i, name, const)
           p == add_item_to_array(n, o, i)
<1>3. o \in Live(mem) \ Doomed(mem, i) /\ Owner(mem, o) /\ i \in roots /\ i \in roots \cup lost
  BY HeldLive
<1>4. Sound(mem, roots \cup lost, named)
  BY InvFacts
<1>5. IF given \/ const THEN Holding(p, roots \ {i}, lost)
      ELSE Holding(mem, roots \ {i}, lost \cup {i})
  BY <1>2
<1> HIDE DEF named
<1>6. Relabelled(mem, mem, i) /\ Relabelled(mem, n, i) /\ Sound(n, roots \cup lost, named)
  <2>1. name \in Name \cup {NULL}
    OBVIOUS
  <2>2. Relabelled(mem, mem, i) /\ Relabelled(mem, n, i)
    BY <1>3, <1>4, <2>1, RelabelledIs
  <2>3. Sound(n, roots \cup lost, named)
    BY <1>3, <1>4, <2>1, SoundRename
  <2> QED BY <2>2, <2>3
<1> HIDE DEF n
<1>7. Moves(mem, roots, lost, p, roots \ {i}, lost)
  BY <1>3, <1>4, <1>6, MovesAppend
<1>8. Moves(mem, roots, lost, mem, roots \ {i}, lost \cup {i})
  BY <1>3, <1>4, <1>6, MovesLost
<1> HIDE DEF p
<1> QED BY <1>5, <1>7, <1>8, HoldingMoves

(* A reference is new, and nothing hangs from it. *)
LEMMA RefersNew ==
  ASSUME NEW m, NEW H, NEW named, Sound(m, H, named), NEW c \in Live(m), NEW d \in Cell \ Live(m)
  PROVE  LET n == create_reference(m, d, c)
         IN  /\ Sound(n, H \cup {d}, named) /\ Grew(m, n) /\ Live(n) = Live(m) \cup {d} /\ ~Owner(n, d)
             /\ \A a \in Live(m) : Owner(m, a) => a \in Live(n) \ Doomed(n, d) /\ Owner(n, a)
<1> DEFINE n == create_reference(m, d, c)
<1>1. m \in Memory
  BY DEF Sound
<1>2. Refers(m, d, n)
  BY <1>1, create_referenceIs
<1>3. n.item[d].ref = TRUE
  BY <1>1 DEF Memory, Item, create_reference, Live
<1> HIDE DEF n
<1>4. /\ Sound(n, H \cup {d}, named) /\ Live(n) = Live(m) \cup {d} /\ Kept(m, n, Live(m))
      /\ Doomed(n, d) = {d}
  BY <1>2, SoundRefers
<1>5. ~Owner(n, d)
  BY <1>3 DEF Owner
<1>6. \A a \in Live(m) : Owner(m, a) => a \in Live(n) \ Doomed(n, d) /\ Owner(n, a)
  BY <1>4 DEF Kept, Owner
<1> QED BY <1>4, <1>5, <1>6 DEF Grew, n

(* A new item that is renamed is new, and what was there is as it was. *)
LEMMA RenamedNew ==
  ASSUME NEW m, NEW n, NEW H, NEW named, Sound(n, H, named), NEW i \in H, i \notin Live(m), Grew(m, n),
         NEW name \in Name \cup {NULL}, NEW const \in BOOLEAN
  PROVE  LET o == Rename(n, i, name, const)
         IN  /\ Sound(o, H, named) /\ Grew(m, o) /\ Live(o) = Live(n)
             /\ (Owner(o, i) <=> Owner(n, i)) /\ o.item[i].child = n.item[i].child
<1> DEFINE o == Rename(n, i, name, const)
<1>1. Sound(o, H, named) /\ Live(o) = Live(n)
  BY SoundRename
<1>2. \A c \in Cell : c # i => o.item[c] = n.item[c]
  BY SoundRename
<1>3. o.item[i].kind = n.item[i].kind /\ o.item[i].ref = n.item[i].ref
  BY SoundRename
<1>4. o.item[i].child = n.item[i].child
  BY SoundRename
<1> HIDE DEF o
<1>5. Grew(m, o)
  BY <1>1, <1>2 DEF Grew, Kept, Live
<1>6. Owner(o, i) <=> Owner(n, i)
  BY <1>3 DEF Owner
<1> QED BY <1>1, <1>4, <1>5, <1>6 DEF o

(* cJSON_AddItemReferenceToArray. *)
LEMMA AddItemReferenceToArrayMoves == ASSUME TreeInv, AddItemReferenceToArray PROVE Refined
<1>1. PICK a \in Arrays, c \in Held, s \in OneItem :
        s # <<>> /\ Holding(add_item_to_array(create_reference(mem, s[1], c), a, s[1]), roots, lost)
  BY DEF AddItemReferenceToArray
<1> DEFINE d == s[1]
           n == create_reference(mem, d, c)
           p == add_item_to_array(n, a, d)
           named == ~unnamed
<1>2. a \in Live(mem) /\ Owner(mem, a) /\ c \in Live(mem) /\ d \in Cell \ Live(mem)
  BY <1>1, HeldLive, Supplied
<1>3. Sound(mem, roots \cup lost, named)
  BY InvFacts
<1>4. Holding(p, roots, lost)
  BY <1>1
<1> HIDE DEF d, named
<1>5. /\ Sound(n, (roots \cup lost) \cup {d}, named) /\ Grew(mem, n) /\ Live(n) = Live(mem) \cup {d}
      /\ ~Owner(n, d) /\ a \in Live(n) \ Doomed(n, d) /\ Owner(n, a)
  BY <1>2, <1>3, RefersNew
<1> HIDE DEF n
<1>6. Moves(mem, roots, lost, p, roots, lost)
  BY <1>2, <1>3, <1>5, MovesNew
<1> QED BY <1>4, <1>6, HoldingMoves

(* cJSON_AddItemReferenceToObject, and when it fails. *)
LEMMA AddItemReferenceToObjectMoves == ASSUME TreeInv, AddItemReferenceToObject PROVE Refined
<1>1. PICK o \in Objects, c \in Held, name \in Name, s \in OneItem, given \in BOOLEAN :
        /\ s # <<>>
        /\ IF given
           THEN Holding(add_item_to_array(Rename(create_reference(mem, s[1], c), s[1], name, FALSE),
                                          o, s[1]), roots, lost)
           ELSE Holding(create_reference(mem, s[1], c), roots, lost \cup {s[1]})
  BY Zenon DEF AddItemReferenceToObject
<1>10. PICK no \in BOOLEAN : no = FALSE
  OBVIOUS
<1> DEFINE d == s[1]
           n == create_reference(mem, d, c)
           q == Rename(n, d, name, no)
           p == add_item_to_array(q, o, d)
           named == ~unnamed
<1>2. o \in Live(mem) /\ Owner(mem, o) /\ c \in Live(mem) /\ d \in Cell \ Live(mem)
  BY <1>1, HeldLive, Supplied
<1>3. Sound(mem, roots \cup lost, named)
  BY InvFacts
<1>4. IF given THEN Holding(p, roots, lost) ELSE Holding(n, roots, lost \cup {d})
  <2>1. q = Rename(n, d, name, FALSE)
    BY <1>10, Zenon
  <2> QED BY <1>1, <2>1
<1> HIDE DEF d, named
<1>5. /\ Sound(n, (roots \cup lost) \cup {d}, named) /\ Grew(mem, n) /\ Live(n) = Live(mem) \cup {d}
      /\ ~Owner(n, d) /\ o \in Live(n) \ Doomed(n, d) /\ Owner(n, o)
  BY <1>2, <1>3, RefersNew
<1> HIDE DEF n
<1>6. CASE given
  <2>1. name \in Name \cup {NULL} /\ d \in (roots \cup lost) \cup {d}
    OBVIOUS
  <2>2. /\ Sound(q, (roots \cup lost) \cup {d}, named) /\ Grew(mem, q) /\ Live(q) = Live(n)
        /\ (Owner(q, d) <=> Owner(n, d))
    BY <1>2, <1>5, <2>1, RenamedNew
  <2>3. o \in Live(q) \ Doomed(q, d) /\ Owner(q, o)
    BY <1>5, <2>1, Renamed
  <2> HIDE DEF q
  <2>4. Live(q) = Live(mem) \cup {d} /\ ~Owner(q, d)
    BY <1>5, <2>2
  <2>5. Moves(mem, roots, lost, p, roots, lost)
    BY <1>2, <1>3, <2>2, <2>3, <2>4, MovesNew
  <2>6. Holding(p, roots, lost)
    BY <1>4, <1>6
  <2> QED BY <2>5, <2>6, HoldingMoves
<1>7. CASE ~given
  <2>1. Moves(mem, roots, lost, n, roots, lost \cup {d})
    BY <1>2, <1>3, <1>5, MovesGrow
  <2>2. Holding(n, roots, lost \cup {d})
    BY <1>4, <1>7
  <2> QED BY <2>1, <2>2, HoldingMoves
<1> QED BY <1>6, <1>7

(* cJSON_AddNullToObject and its like, and when they fail. *)
LEMMA AddNewToObjectMoves == ASSUME TreeInv, AddNewToObject PROVE Refined
<1>1. PICK o \in Objects, name \in Name, kind \in Kinds, s \in OneItem, ink \in 0 .. 2 :
        LET r == CreateItem(mem, kind, s, ink)
        IN IF r.item # NULL /\ r.ink > 0
           THEN /\ r.ink = 1
                /\ Holding(add_item_to_array(Rename(r.mem, r.item, name, FALSE), o, r.item), roots, lost)
           ELSE r.ink = 0 /\ Holding(cJSON_Delete(r.mem, r.item), roots, lost)
  BY DEF AddNewToObject
<1>10. PICK no \in BOOLEAN : no = FALSE
  OBVIOUS
<1> DEFINE r == CreateItem(mem, kind, s, ink)
           n == r.mem
           d == r.item
           q == Rename(n, d, name, no)
           p == add_item_to_array(q, o, d)
           H == roots \cup lost
           named == ~unnamed
<1>2. o \in Live(mem) /\ Owner(mem, o)
  BY HeldLive
<1>3. Sound(mem, H, named) /\ H \subseteq Live(mem)
  BY InvFacts
<1>4. kind \in Kind \ {"free"} /\ ink \in Nat /\ Supply(mem, s)
  BY TreeAssumption, Supplied
<1>6. IF d # NULL /\ r.ink > 0 THEN Holding(p, roots, lost)
      ELSE Holding(cJSON_Delete(n, d), roots, lost)
  <2>1. q = Rename(r.mem, d, name, FALSE)
    BY <1>10, Zenon
  <2> HIDE DEF r
  <2> QED BY <1>1, <2>1 DEF r
<1> HIDE DEF H, named
<1>5. /\ Grew(mem, n)
      /\ d = NULL => Sound(n, H, named)
      /\ d # NULL =>
           /\ Sound(n, H \cup {d}, named)
           /\ d \in Cell \ Live(mem) /\ Live(n) = Live(mem) \cup {d}
           /\ n.item[d].child = NULL /\ n.item[d].next = NULL
  <2>1. Created(mem, H, named, kind, r)
    BY <1>3, <1>4, CreateItemSound
  <2> HIDE DEF r
  <2> QED BY <2>1 DEF Created, Grew
<1> DEFINE paid == r.ink > 0
<1>9. IF d # NULL /\ paid THEN Holding(p, roots, lost) ELSE Holding(cJSON_Delete(n, d), roots, lost)
  BY <1>6
<1> HIDE DEF r, n, d, paid
<1>7. CASE d = NULL
  <2>1. Holding(n, roots, lost)
    BY <1>7, <1>9 DEF cJSON_Delete
  <2>2. Moves(mem, roots, lost, n, roots, lost)
    BY <1>3, <1>5, <1>7, MovesNowhere DEF H
  <2> QED BY <2>1, <2>2, HoldingMoves
<1>8. CASE d # NULL
  <2>1. /\ Sound(n, H \cup {d}, named) /\ d \in Cell \ Live(mem) /\ n \in Memory /\ Linked(n)
        /\ Live(n) = Live(mem) \cup {d} /\ d \in H \cup {d} /\ (H \cup {d}) \ {d} = H
        /\ n.item[d].child = NULL /\ n.item[d].next = NULL
    BY <1>3, <1>5, <1>8 DEF Sound, Tied
  <2>2. Doomed(n, d) = {d}
    BY <2>1, DoomedAlone
  <2>3. o \in Live(n) \ Doomed(n, d) /\ Owner(n, o)
    <3>1. n.item[o] = mem.item[o]
      BY <1>2, <1>5 DEF Grew, Kept
    <3> QED BY <1>2, <2>1, <2>2, <3>1 DEF Owner
  <2>4. CASE paid
    <3>1. name \in Name \cup {NULL}
      OBVIOUS
    <3>2. /\ Sound(q, H \cup {d}, named) /\ Grew(mem, q) /\ Live(q) = Live(n)
          /\ q.item[d].child = n.item[d].child
      BY <1>5, <2>1, <3>1, RenamedNew
    <3>3. o \in Live(q) \ Doomed(q, d) /\ Owner(q, o)
      BY <2>1, <2>3, <3>1, Renamed
    <3> HIDE DEF q
    <3>4. Live(q) = Live(mem) \cup {d} /\ q.item[d].child = NULL
      BY <2>1, <3>2
    <3>5. Moves(mem, roots, lost, p, roots, lost)
      BY <1>2, <1>3, <2>1, <3>2, <3>3, <3>4, MovesNew DEF H
    <3>6. Holding(p, roots, lost)
      BY <1>8, <1>9, <2>4
    <3> QED BY <3>5, <3>6, HoldingMoves
  <2>5. CASE ~paid
    <3> DEFINE z == cJSON_Delete(n, d)
    <3>1. Sound(z, (H \cup {d}) \ {d}, named)
      BY <2>1, SoundDelete
    <3>2. Grew(mem, z)
      BY <1>3, <1>5, <2>1, GrewDelete
    <3>3. Holding(z, roots, lost)
      BY <1>9, <2>5
    <3> HIDE DEF z
    <3>4. Sound(z, H, named)
      BY <2>1, <3>1
    <3>5. Moves(mem, roots, lost, z, roots, lost)
      BY <1>3, <3>2, <3>4, MovesNowhere DEF H
    <3> QED BY <3>3, <3>5, HoldingMoves
  <2> QED BY <2>4, <2>5
<1> QED BY <1>7, <1>8

(* What is taken out of a list is the client's, or is deleted. *)
LEMMA DetachedMoves ==
  ASSUME TreeInv, NEW a, NEW i, MemberOf(mem, a, i),
         \/ Holding(cJSON_DetachItemViaPointer(mem, a, i), roots \cup {i}, lost)
         \/ Holding(cJSON_Delete(cJSON_DetachItemViaPointer(mem, a, i), i), roots, lost)
  PROVE  Refined
<1> DEFINE named == ~unnamed
           n == cJSON_DetachItemViaPointer(mem, a, i)
           p == cJSON_Delete(n, i)
<1>1. Sound(mem, roots \cup lost, named) /\ mem \in Memory /\ Linked(mem)
  BY InvFacts
<1>2. a \in Live(mem) /\ Owner(mem, a) /\ \E k \in 1 .. Len(Children(mem, a)) : i = Children(mem, a)[k]
  BY <1>1, PlaceOf
<1>3. PICK k \in 1 .. Len(Children(mem, a)) : i = Children(mem, a)[k]
  BY <1>2
<1>4. Holding(n, roots \cup {i}, lost) \/ Holding(p, roots, lost)
  OBVIOUS
<1> HIDE DEF named
<1>5. Moves(mem, roots, lost, n, roots \cup {i}, lost)
  BY <1>1, <1>2, <1>3, MovesOut
<1>6. Moves(mem, roots, lost, p, roots, lost)
  BY <1>1, <1>2, <1>3, MovesOff
<1> HIDE DEF n, p
<1> QED BY <1>4, <1>5, <1>6, HoldingMoves

(* cJSON_DetachItemFromArray, and cJSON_DeleteItemFromArray. *)
LEMMA DetachItemFromArrayMoves == ASSUME TreeInv, DetachItemFromArray PROVE Refined
<1>1. PICK a \in Arrays \cup Objects : \E which \in 0 .. (Len(Children(mem, a)) - 1) :
        LET i == get_array_item(mem, a, which)
            m == cJSON_DetachItemViaPointer(mem, a, i)
        IN \/ Holding(m, roots \cup {i}, lost)
           \/ Holding(cJSON_Delete(m, i), roots, lost)
  BY DEF DetachItemFromArray
<1>2. PICK which \in 0 .. (Len(Children(mem, a)) - 1) :
        LET i == get_array_item(mem, a, which)
            m == cJSON_DetachItemViaPointer(mem, a, i)
        IN \/ Holding(m, roots \cup {i}, lost)
           \/ Holding(cJSON_Delete(m, i), roots, lost)
  BY <1>1
<1> DEFINE i == get_array_item(mem, a, which)
<1>3. a \in Live(mem) /\ Owner(mem, a) /\ mem \in Memory /\ Linked(mem)
  BY HeldLive, InvFacts
<1>4. which \in 0 .. Len(Children(mem, a)) /\ which < Len(Children(mem, a))
  <2> DEFINE k == Len(Children(mem, a))
  <2>1. k \in Nat
    BY <1>3, ChildrenFacts
  <2> HIDE DEF k
  <2>2. which \in 0 .. (k - 1)
    BY DEF k
  <2>3. which \in 0 .. k /\ which < k
    BY <2>1, <2>2
  <2> QED BY <2>3 DEF k
<1>5. MemberOf(mem, a, i)
  BY <1>3, <1>4, GotFromArray
<1>6. \/ Holding(cJSON_DetachItemViaPointer(mem, a, i), roots \cup {i}, lost)
      \/ Holding(cJSON_Delete(cJSON_DetachItemViaPointer(mem, a, i), i), roots, lost)
  BY <1>2
<1> HIDE DEF i
<1> QED BY <1>5, <1>6, DetachedMoves

(* cJSON_DetachItemFromObject and its like. *)
LEMMA DetachItemFromObjectMoves == ASSUME TreeInv, DetachItemFromObject PROVE Refined
<1>1. PICK o \in Objects, name \in Name, sensitive \in BOOLEAN :
        IF Crashes(mem, o, name, sensitive) THEN Crash
        ELSE LET i == get_object_item(mem, o, name, sensitive)
                 m == cJSON_DetachItemViaPointer(mem, o, i)
             IN /\ i # NULL
                /\ \/ Holding(m, roots \cup {i}, lost)
                   \/ Holding(cJSON_Delete(m, i), roots, lost)
  BY DEF DetachItemFromObject
<1>2. o \in Live(mem) /\ Owner(mem, o) /\ mem \in Memory /\ Linked(mem)
  BY HeldLive, InvFacts
<1>3. CASE Crashes(mem, o, name, sensitive)
  BY <1>1, <1>3, StaysMoves DEF Crash
<1>4. CASE ~Crashes(mem, o, name, sensitive)
  <2> DEFINE i == get_object_item(mem, o, name, sensitive)
  <2>1. /\ i # NULL
        /\ \/ Holding(cJSON_DetachItemViaPointer(mem, o, i), roots \cup {i}, lost)
           \/ Holding(cJSON_Delete(cJSON_DetachItemViaPointer(mem, o, i), i), roots, lost)
    BY <1>1, <1>4
  <2>2. MemberOf(mem, o, i)
    BY <1>2, <2>1, GotFromObject
  <2> HIDE DEF i
  <2> QED BY <2>1, <2>2, DetachedMoves
<1> QED BY <1>3, <1>4

(* cJSON_InsertItemInArray, which appends where nothing is. *)
LEMMA InsertItemInArrayMoves == ASSUME TreeInv, InsertItemInArray PROVE Refined
<1>1. PICK a \in Arrays : \E i \in Addable(a), which \in 0 .. Len(Children(mem, a)) :
        LET after == get_array_item(mem, a, which)
        IN Holding(IF after = NULL THEN add_item_to_array(mem, a, i)
                   ELSE InsertBefore(mem, a, after, i), roots \ {i}, lost)
  BY DEF InsertItemInArray
<1>2. PICK i \in Addable(a), which \in 0 .. Len(Children(mem, a)) :
        LET after == get_array_item(mem, a, which)
        IN Holding(IF after = NULL THEN add_item_to_array(mem, a, i)
                   ELSE InsertBefore(mem, a, after, i), roots \ {i}, lost)
  BY <1>1
<1> DEFINE after == get_array_item(mem, a, which)
           named == ~unnamed
<1>3. a \in Live(mem) \ Doomed(mem, i) /\ Owner(mem, a) /\ i \in roots /\ i \in roots \cup lost
  BY HeldLive
<1>4. Sound(mem, roots \cup lost, named) /\ mem \in Memory /\ Linked(mem)
  BY InvFacts
<1>5. after # NULL => MemberOf(mem, a, after)
  BY <1>3, <1>4, GotFromArray
<1>6. Holding(IF after = NULL THEN add_item_to_array(mem, a, i)
              ELSE InsertBefore(mem, a, after, i), roots \ {i}, lost)
  BY <1>2
<1> HIDE DEF after, named
<1>7. CASE after = NULL
  <2>1. Relabelled(mem, mem, i)
    BY <1>3, <1>4, RelabelledIs
  <2>2. Moves(mem, roots, lost, add_item_to_array(mem, a, i), roots \ {i}, lost)
    BY <1>3, <1>4, <2>1, MovesAppend
  <2>3. Holding(add_item_to_array(mem, a, i), roots \ {i}, lost)
    BY <1>6, <1>7
  <2> QED BY <2>2, <2>3, HoldingMoves
<1>8. CASE after # NULL
  <2>1. PICK k \in 1 .. Len(Children(mem, a)) : after = Children(mem, a)[k]
    BY <1>4, <1>5, <1>8, PlaceOf
  <2>2. Moves(mem, roots, lost, InsertBefore(mem, a, after, i), roots \ {i}, lost)
    BY <1>3, <1>4, <2>1, MovesInsert
  <2>3. Holding(InsertBefore(mem, a, after, i), roots \ {i}, lost)
    BY <1>6, <1>8
  <2>4. Moves(mem, roots, lost, InsertBefore(mem, a, after, i), roots \ {i}, lost)
    BY <2>1, <2>2
  <2> QED BY <2>3, <2>4, HoldingMoves
<1> QED BY <1>7, <1>8

(* cJSON_ReplaceItemInArray, and when there is nothing to replace. *)
LEMMA ReplaceItemInArrayMoves == ASSUME TreeInv, ReplaceItemInArray PROVE Refined
<1>1. PICK a \in Arrays : \E i \in Addable(a), which \in 0 .. Len(Children(mem, a)) :
        LET old == get_array_item(mem, a, which)
        IN Holding(cJSON_ReplaceItemViaPointer(mem, a, old, i), roots \ {i},
                   IF old = NULL THEN lost \cup {i} ELSE lost)
  BY DEF ReplaceItemInArray
<1>2. PICK i \in Addable(a), which \in 0 .. Len(Children(mem, a)) :
        LET old == get_array_item(mem, a, which)
        IN Holding(cJSON_ReplaceItemViaPointer(mem, a, old, i), roots \ {i},
                   IF old = NULL THEN lost \cup {i} ELSE lost)
  BY <1>1
<1> DEFINE old == get_array_item(mem, a, which)
           n == cJSON_ReplaceItemViaPointer(mem, a, old, i)
           named == ~unnamed
<1>3. /\ a \in Live(mem) \ Doomed(mem, i) /\ Owner(mem, a) /\ mem.item[a].kind = "array"
      /\ i \in roots /\ i \in roots \cup lost
  BY HeldLive
<1>4. Sound(mem, roots \cup lost, named) /\ mem \in Memory /\ Linked(mem)
  BY InvFacts
<1>5. old # NULL => MemberOf(mem, a, old)
  BY <1>3, <1>4, GotFromArray
<1>6. Holding(n, roots \ {i}, IF old = NULL THEN lost \cup {i} ELSE lost)
  BY <1>2
<1> HIDE DEF old, named
<1>7. Relabelled(mem, mem, i)
  BY <1>3, <1>4, RelabelledIs
<1>8. CASE old = NULL
  <2>1. Holding(mem, roots \ {i}, lost \cup {i})
    BY <1>6, <1>8 DEF cJSON_ReplaceItemViaPointer
  <2>2. Moves(mem, roots, lost, mem, roots \ {i}, lost \cup {i})
    BY <1>3, <1>4, <1>7, MovesLost
  <2> QED BY <2>1, <2>2, HoldingMoves
<1>9. CASE old # NULL
  <2>1. PICK k \in 1 .. Len(Children(mem, a)) : old = Children(mem, a)[k]
    BY <1>4, <1>5, <1>9, PlaceOf
  <2>2. Moves(mem, roots, lost, n, roots \ {i}, lost)
    BY <1>3, <1>4, <1>7, <1>9, <2>1, MovesReplace
  <2>3. Holding(n, roots \ {i}, lost)
    BY <1>6, <1>9
  <2> QED BY <2>2, <2>3, HoldingMoves
<1> QED BY <1>8, <1>9

(* cJSON_ReplaceItemInObject: the replacement is renamed first. *)
LEMMA ReplaceItemInObjectMoves == ASSUME TreeInv, ReplaceItemInObject PROVE Refined
<1>1. PICK o \in Objects, name \in Name, given \in BOOLEAN, sensitive \in BOOLEAN :
        \E i \in Addable(o) :
          LET renamed == Rename(mem, i, IF given THEN name ELSE NULL, FALSE)
              old == get_object_item(renamed, o, name, sensitive)
          IN IF Crashes(renamed, o, name, sensitive) THEN Crash
             ELSE /\ old = NULL \/ ~given => Fails
                  /\ mem' = cJSON_ReplaceItemViaPointer(renamed, o, old, i)
                  /\ roots' = roots \ {i}
                  /\ lost' = IF old = NULL THEN lost \cup {i} ELSE lost
                  /\ unnamed' = (unnamed \/ ~given)
                  /\ UNCHANGED crashed
  BY DEF ReplaceItemInObject
<1>2. PICK i \in Addable(o) :
          LET renamed == Rename(mem, i, IF given THEN name ELSE NULL, FALSE)
              old == get_object_item(renamed, o, name, sensitive)
          IN IF Crashes(renamed, o, name, sensitive) THEN Crash
             ELSE /\ old = NULL \/ ~given => Fails
                  /\ mem' = cJSON_ReplaceItemViaPointer(renamed, o, old, i)
                  /\ roots' = roots \ {i}
                  /\ lost' = IF old = NULL THEN lost \cup {i} ELSE lost
                  /\ unnamed' = (unnamed \/ ~given)
                  /\ UNCHANGED crashed
  BY <1>1
<1>3. PICK no \in BOOLEAN : no = FALSE
  OBVIOUS
<1> DEFINE key == IF given THEN name ELSE NULL
           n == Rename(mem, i, key, no)
           old == get_object_item(n, o, name, sensitive)
           p == cJSON_ReplaceItemViaPointer(n, o, old, i)
           named == ~unnamed
           less == named /\ given
<1>4. o \in Live(mem) \ Doomed(mem, i) /\ Owner(mem, o) /\ i \in roots /\ i \in roots \cup lost
  BY HeldLive
<1>5. Sound(mem, roots \cup lost, named)
  BY InvFacts
<1>6. key \in Name \cup {NULL} /\ (given => key # NULL)
  BY NullAssumption
<1>7. n = Rename(mem, i, key, FALSE)
  BY <1>3, Zenon
<1>8. IF Crashes(n, o, name, sensitive) THEN Crash
      ELSE /\ mem' = p /\ roots' = roots \ {i}
           /\ lost' = IF old = NULL THEN lost \cup {i} ELSE lost
  <2> HIDE DEF n
  <2> QED BY <1>2, <1>7
<1> HIDE DEF key, named
<1>9. /\ Sound(n, roots \cup lost, named) /\ o \in Live(n) \ Doomed(n, i) /\ Owner(n, o)
      /\ n.item[i].name = key
  <2> DEFINE H == roots \cup lost
  <2>1. Sound(mem, H, named) /\ i \in H
    BY <1>4, <1>5
  <2> HIDE DEF H, old, p, less
  <2>2. /\ Sound(n, H, named) /\ o \in Live(n) \ Doomed(n, i) /\ Owner(n, o)
        /\ n.item[o].kind = mem.item[o].kind /\ n.item[i].name = key
    BY <1>4, <1>6, <2>1, Renamed
  <2> QED BY <2>2 DEF H
<1>10. Relabelled(mem, n, i)
  BY <1>4, <1>5, <1>6, RelabelledIs
<1>11. Sound(n, roots \cup lost, less)
  <2>1. less => named
    OBVIOUS
  <2> HIDE DEF less, n
  <2> QED BY <1>9, <2>1, SoundWeaker
<1>12. less => n.item[i].name # NULL
  BY <1>6, <1>9
<1> HIDE DEF n, less
<1>13. CASE Crashes(n, o, name, sensitive)
  BY <1>8, <1>13, StaysMoves DEF Crash
<1>14. CASE ~Crashes(n, o, name, sensitive)
  <2>1. n \in Memory /\ Linked(n)
    BY <1>9 DEF Sound, Tied
  <2>2. old # NULL => MemberOf(n, o, old)
    BY <1>9, <2>1, GotFromObject
  <2>3. mem' = p /\ roots' = roots \ {i} /\ lost' = IF old = NULL THEN lost \cup {i} ELSE lost
    BY <1>8, <1>14
  <2> HIDE DEF old
  <2>4. CASE old = NULL
    <3>1. mem' = n /\ roots' = roots \ {i} /\ lost' = lost \cup {i}
      BY <2>3, <2>4 DEF cJSON_ReplaceItemViaPointer
    <3>2. Moves(mem, roots, lost, n, roots \ {i}, lost \cup {i})
      BY <1>4, <1>5, <1>9, <1>10, MovesLost
    <3> QED BY <3>1, <3>2 DEF Refined
  <2>5. CASE old # NULL
    <3>1. PICK k \in 1 .. Len(Children(n, o)) : old = Children(n, o)[k]
      BY <2>1, <2>2, <2>5, PlaceOf
    <3>2. less /\ n.item[o].kind = "object" => n.item[i].name # NULL
      BY <1>12
    <3>4. Moves(mem, roots, lost, p, roots \ {i}, lost)
      BY <1>4, <1>5, <1>10, <1>11, <2>5, <3>1, <3>2, MovesReplace
    <3>3. mem' = p /\ roots' = roots \ {i} /\ lost' = lost
      BY <2>3, <2>5
    <3> HIDE DEF p
    <3> QED BY <3>3, <3>4 DEF Refined
  <2> QED BY <2>4, <2>5
<1> QED BY <1>13, <1>14

(* cJSON_Delete of a root. *)
LEMMA DeleteMoves == ASSUME TreeInv, Delete PROVE Refined
<1>1. PICK r \in roots : Holding(cJSON_Delete(mem, r), roots \ {r}, lost)
  BY DEF Delete
<1> DEFINE named == ~unnamed
<1>2. Sound(mem, roots \cup lost, named)
  BY InvFacts
<1> HIDE DEF named
<1>3. Moves(mem, roots, lost, cJSON_Delete(mem, r), roots \ {r}, lost)
  BY <1>2, MovesDelete
<1> QED BY <1>1, <1>3, HoldingMoves

(* Every step is a step of the forest, or none of it. *)
LEMMA NextMoves == TreeInv /\ [Next]_vars => Refined
<1> SUFFICES ASSUME TreeInv, [Next]_vars PROVE Refined
  OBVIOUS
<1>1. CASE UNCHANGED vars
  BY <1>1, StaysMoves DEF vars
<1>2. CASE Next
  <2>1. CASE Create BY <2>1, CreateMoves
  <2>2. CASE CreateArray BY <2>2, CreateArrayMoves
  <2>3. CASE CreateReference BY <2>3, CreateReferenceMoves
  <2>4. CASE AddItemToArray BY <2>4, AddItemToArrayMoves
  <2>5. CASE AddItemToObject BY <2>5, AddItemToObjectMoves
  <2>6. CASE AddItemReferenceToArray BY <2>6, AddItemReferenceToArrayMoves
  <2>7. CASE AddItemReferenceToObject BY <2>7, AddItemReferenceToObjectMoves
  <2>8. CASE AddNewToObject BY <2>8, AddNewToObjectMoves
  <2>9. CASE DetachItemFromArray BY <2>9, DetachItemFromArrayMoves
  <2>10. CASE DetachItemFromObject BY <2>10, DetachItemFromObjectMoves
  <2>11. CASE InsertItemInArray BY <2>11, InsertItemInArrayMoves
  <2>12. CASE ReplaceItemInArray BY <2>12, ReplaceItemInArrayMoves
  <2>13. CASE ReplaceItemInObject BY <2>13, ReplaceItemInObjectMoves
  <2>14. CASE \E c \in Cell, recurse \in BOOLEAN : Duplicate(c, recurse) BY <2>14, DuplicateMoves
  <2>15. CASE Delete BY <2>15, DeleteMoves
  <2> QED BY <1>2, <2>1, <2>2, <2>3, <2>4, <2>5, <2>6, <2>7, <2>8, <2>9, <2>10, <2>11, <2>12,
             <2>13, <2>14, <2>15 DEF Next
<1> QED BY <1>1, <1>2

-----------------------------------------------------------------------------
(* The theorem *)

(* What the trees show is a forest, and every call changes it as the       *)
(* forest's step says: one sequence, at one place, with what hangs from    *)
(* the item that comes or goes.                                            *)
THEOREM TreesImplementForest == Spec => ImplementsForest
<1> DEFINE seen == [kids |-> [c \in Live(mem) |-> IF mem.item[c].ref THEN <<>> ELSE Children(mem, c)],
                    key |-> [c \in Live(mem) |-> mem.item[c].name],
                    roots |-> roots, lost |-> lost]
<1>1. Init => Forest!Init
  <2> SUFFICES ASSUME Init PROVE Forest!Init
    OBVIOUS
  <2>1. Live(mem) = {} /\ roots = {} /\ lost = {}
    BY DEF Init, NoItems, Live, FreeItem
  <2>2. seen.kids = [c \in {} |-> <<>>] /\ seen.key = [c \in {} |-> <<>>]
    BY <2>1
  <2> QED BY <2>1, <2>2 DEF Forest!Init
<1>2. TreeInv /\ [Next]_vars => [Forest!Next]_seen
  <2> SUFFICES ASSUME TreeInv, [Next]_vars PROVE [Forest!Next]_seen
    OBVIOUS
  <2>1. seen = Shows(mem, roots, lost) /\ seen' = Shows(mem', roots', lost')
    BY DEF Shows, View, Kids, Keys
  <2>2. seen' = seen \/ Forest!Step(seen, seen')
    <3>1. Moves(mem, roots, lost, mem', roots', lost')
      BY NextMoves DEF Refined
    <3> HIDE DEF seen
    <3> QED BY <2>1, <3>1 DEF Moves
  <2> QED BY <2>2 DEF Forest!Next
<1> QED BY <1>1, <1>2, TreeInvariant, PTL DEF Spec, ImplementsForest, Forest!Spec
=============================================================================
