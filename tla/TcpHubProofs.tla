---------------------------- MODULE TcpHubProofs ----------------------------
(***************************************************************************)
(* Proofs about the hub, for any number of clients, whatever they send and *)
(* however they fail, and any size of the sockets' buffers; and, last, who *)
(* can hold up the hub when its clients are serids (Gateway), for any      *)
(* number of them.                                                         *)
(***************************************************************************)
EXTENDS Gateway, SequenceTheorems, FiniteSetTheorems, TLAPS

(* Clients that are not on the list. *)
Unlisted == {"away", "queued", "done"}

(* The accept queue holds clients that wait for it, each once. *)
QueueSound ==
  /\ \A i \in DOMAIN queue : pc[queue[i]] = "queued"
  /\ \A i, j \in DOMAIN queue : i # j => queue[i] # queue[j]

(* The next id is not in use when a client is accepted. *)
IdsBelow ==
  \A c \in Listed : id[c] < total_connections + (IF accpc = "accept" THEN 0 ELSE 1)

(* A thread sends to another client. *)
TargetSound == \A c \in Client : pc[c] = "send" => target[c] \in Client \ {c}

HubInv == TypeOK /\ ListSound /\ QueueSound /\ IdsBelow /\ TargetSound

-----------------------------------------------------------------------------
(* What is left of a sequence from which one element is removed. *)
LEMMA RemoveAtFacts ==
  ASSUME NEW S, NEW s \in Seq(S), NEW i \in 1 .. Len(s)
  PROVE  /\ RemoveAt(s, i) \in Seq(S)
         /\ Len(RemoveAt(s, i)) = Len(s) - 1
         /\ \A k \in 1 .. Len(s) - 1 : RemoveAt(s, i)[k] = IF k < i THEN s[k] ELSE s[k + 1]
<1>1. Len(s) \in Nat /\ i \in Nat /\ 1 <= i /\ i <= Len(s) /\ i - 1 \in Nat
  OBVIOUS
<1>2. \A k \in 1 .. Len(s) : s[k] \in S
  BY ElementOfSeq
<1> DEFINE a == SubSeq(s, 1, i - 1)
           b == SubSeq(s, i + 1, Len(s))
<1>3. /\ a \in Seq(S) /\ Len(a) = i - 1
      /\ \A k \in 1 .. i - 1 : a[k] = s[k]
  <2>1. 1 \in Int /\ i - 1 \in Int /\ \A k \in 1 .. i - 1 : s[k] \in S
    BY <1>1, <1>2
  <2>2. /\ a \in Seq(S)
        /\ Len(a) = IF 1 <= i - 1 THEN i - 1 - 1 + 1 ELSE 0
        /\ \A k \in 1 .. i - 1 - 1 + 1 : a[k] = s[1 + k - 1]
    BY <2>1, SubSeqProperties
  <2> QED BY <1>1, <2>2
<1>4. /\ b \in Seq(S) /\ Len(b) = Len(s) - i
      /\ \A k \in 1 .. Len(s) - i : b[k] = s[i + k]
  <2>1. i + 1 \in Int /\ Len(s) \in Int /\ \A k \in i + 1 .. Len(s) : s[k] \in S
    BY <1>1, <1>2
  <2>2. /\ b \in Seq(S)
        /\ Len(b) = IF i + 1 <= Len(s) THEN Len(s) - (i + 1) + 1 ELSE 0
        /\ \A k \in 1 .. Len(s) - (i + 1) + 1 : b[k] = s[i + 1 + k - 1]
    BY <2>1, SubSeqProperties
  <2> QED BY <1>1, <2>2
<1> HIDE DEF a, b
<1>5. /\ a \o b \in Seq(S) /\ Len(a \o b) = Len(a) + Len(b)
      /\ \A k \in 1 .. Len(a) + Len(b) :
           (a \o b)[k] = IF k <= Len(a) THEN a[k] ELSE b[k - Len(a)]
  BY <1>3, <1>4, ConcatProperties
<1>6. ASSUME NEW k \in 1 .. Len(s) - 1
      PROVE  (a \o b)[k] = IF k < i THEN s[k] ELSE s[k + 1]
  <2>1. CASE k < i
    <3>1. k \in 1 .. i - 1 /\ k <= Len(a) /\ k \in 1 .. Len(a) + Len(b)
      BY <1>1, <1>3, <1>4, <2>1
    <3> QED BY <2>1, <3>1, <1>3, <1>5
  <2>2. CASE ~(k < i)
    <3>1. /\ ~(k <= Len(a)) /\ k \in 1 .. Len(a) + Len(b)
          /\ k - Len(a) \in 1 .. Len(s) - i /\ i + (k - Len(a)) = k + 1
      BY <1>1, <1>3, <1>4, <2>2
    <3> QED BY <2>2, <3>1, <1>4, <1>5
  <2> QED BY <2>1, <2>2
<1>7. RemoveAt(s, i) = a \o b
  BY DEF RemoveAt, a, b
<1>8. Len(a) + Len(b) = Len(s) - 1
  BY <1>1, <1>3, <1>4
<1> QED BY <1>5, <1>6, <1>7, <1>8

(* A sequence without repetitions is not longer than its set is large. *)
LEMMA NoLongerThanSet ==
  ASSUME NEW S, IsFiniteSet(S), NEW s \in Seq(S),
         \A i, j \in DOMAIN s : i # j => s[i] # s[j]
  PROVE  Len(s) <= Cardinality(S)
<1>1. Len(s) \in Nat /\ DOMAIN s = 1 .. Len(s) /\ s \in [1 .. Len(s) -> S]
  BY ElementOfSeq, LenProperties
<1>2. s \in Injection(1 .. Len(s), S)
  BY <1>1 DEF Injection, IsInjective
<1>3. Cardinality(1 .. Len(s)) <= Cardinality(S)
  BY <1>2, FS_Injection
<1>4. Cardinality(1 .. Len(s)) = Len(s)
  BY <1>1, FS_Interval
<1> QED BY <1>3, <1>4

-----------------------------------------------------------------------------
(* The initial states. *)
LEMMA HubInit == Init => HubInv
BY ClientAssumption, BoundAssumption, FS_CardinalityType, SMT
DEF Init, HubInv, TypeOK, ListSound, QueueSound, IdsBelow, TargetSound, Listed,
    ToSet

(* What the list is to a state in which it is sound: where a client stands, *)
(* that it stands there once, and that it has a subscript of its own.       *)
LEMMA ListFacts ==
  ASSUME HubInv
  PROVE  /\ Len(connections) \in Nat /\ Len(connections) <= Cardinality(Client)
         /\ Cardinality(Client) \in Nat
         /\ DOMAIN connections = 1 .. Len(connections)
         /\ \A i \in 1 .. Len(connections) :
              /\ connections[i] \in Client
              /\ pc[connections[i]] \notin Unlisted
         /\ \A c \in Client : pc[c] \notin Unlisted =>
              \E i \in 1 .. Len(connections) : connections[i] = c
<1>1. /\ connections \in Seq(Client) /\ Len(connections) \in Nat
      /\ DOMAIN connections = 1 .. Len(connections)
      /\ \A i \in 1 .. Len(connections) : connections[i] \in Client
  BY LenProperties, ElementOfSeq DEF HubInv, TypeOK
<1>2. \A i, j \in DOMAIN connections : i # j => connections[i] # connections[j]
  BY DEF HubInv, ListSound
<1>3. IsFiniteSet(Client) /\ Cardinality(Client) \in Nat
  BY ClientAssumption, FS_CardinalityType
<1>4. Len(connections) <= Cardinality(Client)
  BY <1>1, <1>2, <1>3, NoLongerThanSet
<1>5. Listed = {connections[i] : i \in 1 .. Len(connections)}
  BY <1>1 DEF Listed, ToSet
<1>6. Listed = {c \in Client : pc[c] \notin Unlisted}
  BY DEF HubInv, ListSound, Unlisted
<1> QED BY <1>1, <1>3, <1>4, <1>5, <1>6

(* A step that leaves list, queue and ids alone and moves threads only      *)
(* between places that are on the list.                                     *)
LEMMA ListKept ==
  ASSUME ListSound, QueueSound, IdsBelow,
         UNCHANGED <<connections, id, queue, total_connections>>,
         accpc' = "accept" => accpc = "accept",
         \A c \in Client : pc'[c] = pc[c] \/ (pc[c] \notin Unlisted /\ pc'[c] \notin Unlisted),
         queue \in Seq(Client), connections \in Seq(Client),
         total_connections \in Nat, id \in [Client -> Nat \cup {-1}]
  PROVE  ListSound' /\ QueueSound' /\ IdsBelow'
<1>1. Listed' = Listed
  BY DEF Listed
<1>2. ListSound'
  BY <1>1 DEF ListSound, Unlisted
<1>3. QueueSound'
  <2>1. \A i \in DOMAIN queue : queue[i] \in Client
    BY LenProperties, ElementOfSeq
  <2> QED BY <2>1 DEF QueueSound, Unlisted
<1>4. Listed \subseteq Client
  BY LenProperties, ElementOfSeq DEF Listed, ToSet
<1>5. IdsBelow'
  BY <1>1, <1>4 DEF IdsBelow
<1> QED BY <1>2, <1>3, <1>5

(* A client that is accepted leaves the queue for the list, with an id that *)
(* nobody there has.                                                        *)
LEMMA HubAccept == HubInv /\ Accept => HubInv'
<1> SUFFICES ASSUME HubInv, Accept PROVE HubInv'
  OBVIOUS
<1> DEFINE n == Len(connections)
           c == Head(queue)
<1>1. /\ queue \in Seq(Client) /\ queue # <<>> /\ connections \in Seq(Client)
      /\ n \in Nat /\ DOMAIN connections = 1 .. n
      /\ pc \in [Client -> {"away", "queued", "built", "recv", "walk", "send",
                            "remove", "done", "dead"}]
      /\ total_connections \in Nat /\ id \in [Client -> Nat \cup {-1}]
  BY LenProperties DEF HubInv, TypeOK, Accept
<1>2. /\ c = queue[1] /\ 1 \in DOMAIN queue /\ c \in Client
      /\ Tail(queue) \in Seq(Client) /\ Len(Tail(queue)) = Len(queue) - 1
      /\ \A k \in DOMAIN Tail(queue) : Tail(queue)[k] = queue[k + 1] /\ k + 1 \in DOMAIN queue
      /\ Len(queue) \in Nat /\ DOMAIN queue = 1 .. Len(queue)
      /\ DOMAIN Tail(queue) = 1 .. Len(queue) - 1
  BY <1>1, HeadTailProperties, LenProperties, ElementOfSeq, EmptySeq
<1>3. /\ connections' \in Seq(Client) /\ Len(connections') = n + 1
      /\ DOMAIN connections' = 1 .. n + 1
      /\ \A k \in 1 .. n : connections'[k] = connections[k]
      /\ connections'[n + 1] = c
  BY <1>1, <1>2, AppendProperties, LenProperties DEF Accept
<1>4. pc[c] = "queued" /\ pc'[c] = "built" /\ id'[c] = total_connections
      /\ \A d \in Client \ {c} : pc'[d] = pc[d] /\ id'[d] = id[d]
  BY <1>1, <1>2 DEF HubInv, QueueSound, Accept
<1>5. \A k \in 1 .. n : connections[k] \in Listed /\ connections[k] \in Client \ {c}
  BY <1>1, <1>4, ListFacts DEF Unlisted, Listed, ToSet
<1> HIDE DEF n, c
<1>6. Listed' = Listed \cup {c}
  <2>1. Listed' = {connections'[k] : k \in 1 .. n + 1} /\ Listed = {connections[k] : k \in 1 .. n}
    BY <1>1, <1>3 DEF Listed, ToSet
  <2>2. \A k \in 1 .. n + 1 : k = n + 1 \/ k \in 1 .. n
    BY <1>1, <1>3
  <2> QED BY <2>1, <2>2, <1>1, <1>3
<1>7. TypeOK'
  <2>1. id' \in [Client -> Nat \cup {-1}] /\ pc' \in [Client -> {"away", "queued", "built",
           "recv", "walk", "send", "remove", "done", "dead"}]
    BY <1>1, <1>2 DEF Accept, c
  <2> QED BY <1>1, <1>2, <1>3, <2>1 DEF HubInv, TypeOK, Accept, sockets, history
<1>8. ListSound'
  <2>1. Listed' = {d \in Client : pc'[d] \notin {"away", "queued", "done"}}
    BY <1>2, <1>4, <1>6 DEF HubInv, ListSound
  <2>2. \A d \in Listed : id[d] < total_connections
    BY <1>1 DEF HubInv, IdsBelow, Accept
  <2>3. ASSUME NEW i \in 1 .. n + 1, NEW j \in 1 .. n + 1, i # j
        PROVE  id'[connections'[i]] # id'[connections'[j]]
    <3>1. \A k \in 1 .. n : id'[connections'[k]] = id[connections[k]]
                            /\ id[connections[k]] < total_connections
                            /\ id[connections[k]] \in Int
      BY <1>1, <1>3, <1>4, <1>5, <2>2
    <3>2. CASE i \in 1 .. n /\ j \in 1 .. n
      BY <2>3, <3>1, <3>2, <1>1 DEF HubInv, ListSound
    <3>3. CASE i = n + 1 /\ j \in 1 .. n
      BY <3>1, <3>3, <1>1, <1>3, <1>4
    <3>4. CASE i \in 1 .. n /\ j = n + 1
      BY <3>1, <3>4, <1>1, <1>3, <1>4
    <3> QED BY <2>3, <3>2, <3>3, <3>4, <1>1, <1>3
  <2> QED BY <1>3, <2>1, <2>3 DEF ListSound
<1>9. QueueSound'
  <2>1. queue' = Tail(queue)
    BY DEF Accept
  <2>2. \A k \in DOMAIN Tail(queue) : k + 1 # 1 /\ queue[k + 1] \in Client \ {c}
    <3>1. \A k \in DOMAIN Tail(queue) : k + 1 # 1 /\ queue[k + 1] \in Client
      BY <1>1, <1>2, ElementOfSeq
    <3> QED BY <3>1, <1>2 DEF HubInv, QueueSound
  <2> QED BY <1>2, <1>4, <2>1, <2>2 DEF HubInv, QueueSound
<1>10. IdsBelow'
  <2>1. accpc' = "len" /\ total_connections' = total_connections
    BY DEF Accept
  <2>2. \A d \in Listed : d \in Client /\ d # c /\ id[d] < total_connections /\ id[d] \in Int
    BY <1>1, <1>5 DEF HubInv, IdsBelow, Accept, Listed, ToSet
  <2> QED BY <1>1, <1>4, <1>6, <2>1, <2>2 DEF IdsBelow
<1>11. TargetSound'
  BY <1>2, <1>4 DEF HubInv, TargetSound, Accept
<1> QED BY <1>7, <1>8, <1>9, <1>10, <1>11 DEF HubInv

(* The thread's other steps leave the list alone; the subscript it computes *)
(* is less than the number of clients.                                      *)
LEMMA HubAcceptor ==
  HubInv /\ (ComputeIndex \/ Start \/ Announce \/ IndexError) => HubInv'
<1> SUFFICES ASSUME HubInv, ComputeIndex \/ Start \/ Announce \/ IndexError
             PROVE  HubInv'
  OBVIOUS
<1>1. /\ queue \in Seq(Client) /\ connections \in Seq(Client)
      /\ pc \in [Client -> {"away", "queued", "built", "recv", "walk", "send",
                            "remove", "done", "dead"}]
      /\ total_connections \in Nat /\ id \in [Client -> Nat \cup {-1}]
  BY DEF HubInv, TypeOK
<1> DEFINE Clients == Cardinality(Client)
<1>0. /\ Len(connections) \in Nat /\ Clients \in Nat /\ Len(connections) <= Clients
      /\ \A i \in 1 .. Len(connections) : connections[i] \in Client
  BY ListFacts
<1>2. CASE ComputeIndex
  <2>1. TypeOK'
    BY <1>0, <1>2
    DEF HubInv, TypeOK, ComputeIndex, LastIndex, threads, sockets, history
  <2>2. ListSound' /\ QueueSound' /\ IdsBelow'
    BY <1>1, <1>2, ListKept DEF HubInv, ComputeIndex, threads
  <2> QED BY <1>2, <2>1, <2>2 DEF HubInv, TargetSound, ComputeIndex, threads
<1>3. CASE Start
  <2>1. Subscripted \in Client
    BY <1>0, <1>3 DEF Start, InRange, Subscripted, HubInv, TypeOK
  <2>2. TypeOK'
    <3>1. pc' \in [Client -> {"away", "queued", "built", "recv", "walk", "send",
                              "remove", "done", "dead"}]
      BY <1>1, <1>3, <2>1 DEF Start
    <3>2. /\ accpc' \in {"accept", "len", "index", "dead"} /\ line' \in 65 .. 67
          /\ idx' \in -1 .. Clients
      BY <1>0, <1>3 DEF Start, HubInv, TypeOK
    <3> QED BY <1>3, <3>1, <3>2 DEF HubInv, TypeOK, Start, sockets, history
  <2>3. /\ \A c \in Client : \/ pc'[c] = pc[c]
                             \/ pc[c] = "built" /\ pc'[c] = "recv"
        /\ accpc' # "accept"
    BY <1>1, <1>3, <2>1 DEF Start
  <2>4. ListSound' /\ QueueSound' /\ IdsBelow'
    BY <1>1, <1>3, <2>3, ListKept DEF HubInv, Start, Unlisted
  <2>5. TargetSound'
    BY <1>3, <2>3 DEF HubInv, TargetSound, Start
  <2> QED BY <2>2, <2>4, <2>5 DEF HubInv
<1>4. CASE Announce
  <2>1. TypeOK'
    BY <1>0, <1>4 DEF HubInv, TypeOK, Announce, NextRound, threads, sockets, history
  <2>2. CASE accpc' = "accept"
    <3>1. /\ total_connections' = total_connections + 1 /\ accpc = "index"
          /\ UNCHANGED <<connections, id, queue, pc>>
      BY <1>4, <2>2 DEF Announce, threads
    <3>2. Listed' = Listed /\ \A c \in Listed : c \in Client
      BY <1>1, <3>1, LenProperties, ElementOfSeq DEF Listed, ToSet
    <3>3. IdsBelow'
      BY <1>1, <2>2, <3>1, <3>2 DEF HubInv, IdsBelow
    <3>4. ListSound' /\ QueueSound'
      BY <3>1, <3>2 DEF HubInv, ListSound, QueueSound
    <3> QED BY <1>4, <2>1, <3>3, <3>4 DEF HubInv, TargetSound, Announce, threads
  <2>3. CASE accpc' # "accept"
    <3>1. ListSound' /\ QueueSound' /\ IdsBelow'
      BY <1>1, <1>4, <2>3, ListKept DEF HubInv, Announce, NextRound, threads
    <3> QED BY <1>4, <2>1, <3>1 DEF HubInv, TargetSound, Announce, threads
  <2> QED BY <2>2, <2>3
<1>5. CASE IndexError
  <2>1. TypeOK'
    BY <1>5 DEF HubInv, TypeOK, IndexError, threads, sockets, history
  <2>2. ListSound' /\ QueueSound' /\ IdsBelow'
    BY <1>1, <1>5, ListKept DEF HubInv, IndexError, threads
  <2> QED BY <1>5, <2>1, <2>2 DEF HubInv, TargetSound, IndexError, threads
<1> QED BY <1>2, <1>3, <1>4, <1>5

(* A client that removes itself is on the list, and what lies behind it     *)
(* moves up by one.                                                         *)
LEMMA RemovedAt ==
  ASSUME HubInv, NEW c \in Client, RemoveSelf(c)
  PROVE  \E i \in 1 .. Len(connections) :
           /\ connections[i] = c
           /\ connections' \in Seq(Client) /\ Len(connections') = Len(connections) - 1
           /\ \A k \in 1 .. Len(connections) - 1 :
                connections'[k] = IF k < i THEN connections[k] ELSE connections[k + 1]
           /\ shifts' = [w \in Client |->
                IF Walking(w) /\ i <= pos[w] THEN shifts[w] + 1 ELSE shifts[w]]
<1>1. connections \in Seq(Client) /\ DOMAIN connections = 1 .. Len(connections)
  BY ListFacts DEF HubInv, TypeOK
<1>2. PICK i \in 1 .. Len(connections) :
        /\ connections[i] = c
        /\ connections' = RemoveAt(connections, i)
        /\ shifts' = [w \in Client |->
             IF Walking(w) /\ i <= pos[w] THEN shifts[w] + 1 ELSE shifts[w]]
  BY <1>1 DEF RemoveSelf, RemoveIndexes
<1>3. /\ RemoveAt(connections, i) \in Seq(Client)
      /\ Len(RemoveAt(connections, i)) = Len(connections) - 1
      /\ \A k \in 1 .. Len(connections) - 1 : RemoveAt(connections, i)[k] =
           IF k < i THEN connections[k] ELSE connections[k + 1]
  BY <1>1, <1>2, RemoveAtFacts
<1> QED BY <1>2, <1>3

(* A client that removes itself is taken off the list, and nobody else is. *)
LEMMA HubRemove == ASSUME HubInv, NEW c \in Client, RemoveSelf(c) PROVE HubInv'
<1> DEFINE n == Len(connections)
<1>1. /\ connections \in Seq(Client) /\ n \in Nat /\ DOMAIN connections = 1 .. n
      /\ \A k \in 1 .. n : connections[k] \in Client
      /\ \A j, k \in 1 .. n : j # k => /\ connections[j] # connections[k]
                                     /\ id[connections[j]] # id[connections[k]]
  BY ListFacts DEF HubInv, TypeOK, ListSound
<1>2. PICK i \in 1 .. n :
        /\ connections[i] = c
        /\ connections' \in Seq(Client) /\ Len(connections') = n - 1
        /\ \A k \in 1 .. n - 1 :
             connections'[k] = IF k < i THEN connections[k] ELSE connections[k + 1]
        /\ shifts' = [w \in Client |->
             IF Walking(w) /\ i <= pos[w] THEN shifts[w] + 1 ELSE shifts[w]]
  BY RemovedAt
<1>3. /\ connections' \in Seq(Client) /\ Len(connections') = n - 1
      /\ DOMAIN connections' = 1 .. n - 1
      /\ \A k \in 1 .. n - 1 :
           connections'[k] = IF k < i THEN connections[k] ELSE connections[k + 1]
  BY <1>2, LenProperties
<1>4. /\ pc \in [Client -> {"away", "queued", "built", "recv", "walk", "send",
                            "remove", "done", "dead"}]
      /\ pc[c] = "remove" /\ pc' = [pc EXCEPT ![c] = "done"] /\ id' = id
      /\ id \in [Client -> Nat \cup {-1}] /\ total_connections \in Nat
  BY DEF HubInv, TypeOK, RemoveSelf
<1> HIDE DEF n
<1> DEFINE was(k) == IF k < i THEN k ELSE k + 1
<1>5. /\ \A k \in 1 .. n - 1 : was(k) \in 1 .. n /\ was(k) # i
                           /\ connections'[k] = connections[was(k)]
      /\ \A j, k \in 1 .. n - 1 : j # k => was(j) # was(k)
      /\ \A k \in 1 .. n : k # i => \E j \in 1 .. n - 1 : was(j) = k
  <2>1. \A k \in 1 .. n - 1 : was(k) \in 1 .. n /\ was(k) # i
                           /\ connections'[k] = connections[was(k)]
    BY <1>1, <1>2, <1>3
  <2>2. \A j, k \in 1 .. n - 1 : j # k => was(j) # was(k)
    BY <1>1, <1>2
  <2>3. ASSUME NEW k \in 1 .. n, k # i PROVE \E j \in 1 .. n - 1 : was(j) = k
    <3>1. CASE k < i
      BY <1>1, <1>2, <3>1
    <3>2. CASE k > i
      <4>1. k - 1 \in 1 .. n - 1 /\ was(k - 1) = k
        BY <1>1, <1>2, <3>2
      <4> QED BY <4>1
    <3> QED BY <1>1, <1>2, <2>3, <3>1, <3>2
  <2> QED BY <2>1, <2>2, <2>3
<1> HIDE DEF was
<1>6. Listed' = Listed \ {c}
  <2>1. Listed' = {connections'[k] : k \in 1 .. n - 1} /\ Listed = {connections[k] : k \in 1 .. n}
    BY <1>1, <1>3 DEF Listed, ToSet
  <2>2. \A k \in 1 .. n - 1 : connections'[k] \in Listed \ {c}
    BY <1>1, <1>2, <1>5, <2>1
  <2>3. ASSUME NEW d \in Listed \ {c} PROVE d \in Listed'
    <3>1. PICK k \in 1 .. n : connections[k] = d /\ k # i
      BY <1>2, <2>1
    <3>2. PICK j \in 1 .. n - 1 : was(j) = k
      BY <1>5, <3>1
    <3> QED BY <1>5, <2>1, <3>1, <3>2
  <2> QED BY <2>1, <2>2, <2>3
<1>7. TypeOK'
  <2>1. shifts' \in [Client -> Nat]
    <3>1. shifts \in [Client -> Nat]
      BY DEF HubInv, TypeOK
    <3>2. \A w \in Client : shifts[w] \in Nat /\ shifts[w] + 1 \in Nat
      BY <3>1
    <3> QED BY <1>2, <3>2
  <2>2. due' \in [Client -> SUBSET Client]
    BY DEF HubInv, TypeOK, RemoveSelf
  <2>3. pc' \in [Client -> {"away", "queued", "built", "recv", "walk", "send",
                            "remove", "done", "dead"}]
    BY <1>4
  <2> QED BY <1>3, <2>1, <2>2, <2>3 DEF HubInv, TypeOK, RemoveSelf, acceptor, sockets
<1>8. ListSound'
  <2>1. Listed' = {d \in Client : pc'[d] \notin {"away", "queued", "done"}}
    BY <1>4, <1>6 DEF HubInv, ListSound
  <2>2. \A j, k \in 1 .. n - 1 : j # k => id'[connections'[j]] # id'[connections'[k]]
    BY <1>1, <1>4, <1>5
  <2> QED BY <1>3, <2>1, <2>2 DEF ListSound
<1>9. QueueSound'
  <2>1. queue' = queue /\ \A k \in DOMAIN queue : queue[k] \in Client
    BY LenProperties, ElementOfSeq DEF HubInv, TypeOK, RemoveSelf, acceptor
  <2> QED BY <1>4, <2>1 DEF HubInv, QueueSound
<1>10. IdsBelow'
  <2>1. accpc' = accpc /\ total_connections' = total_connections
    BY DEF RemoveSelf, acceptor
  <2> QED BY <1>4, <1>6, <2>1 DEF HubInv, IdsBelow
<1>11. TargetSound'
  BY <1>4 DEF HubInv, TargetSound, RemoveSelf
<1> QED BY <1>7, <1>8, <1>9, <1>10, <1>11 DEF HubInv

(* sendall takes at least one piece and never more than there is room for. *)
LEMMA TakenFacts ==
  ASSUME HubInv, NEW c \in Client, pc[c] = "send", Taken(c) > 0
  PROVE  /\ target[c] \in Client \ {c}
         /\ Taken(c) \in 1 .. Len(rest[c]) /\ Len(rest[c]) \in Nat
         /\ unread[target[c]] + Taken(c) \in 0 .. OutMax
         /\ SubSeq(rest[c], 1, Taken(c)) \in Seq(Piece)
         /\ SubSeq(rest[c], Taken(c) + 1, Len(rest[c])) \in Seq(Piece)
<1>1. target[c] \in Client \ {c} /\ rest[c] \in Seq(Piece)
      /\ OutMax \in Nat /\ unread[target[c]] \in 0 .. OutMax
  BY BoundAssumption DEF HubInv, TargetSound, TypeOK
<1>2. Len(rest[c]) \in Nat /\ \A k \in 1 .. Len(rest[c]) : rest[c][k] \in Piece
  BY <1>1, LenProperties, ElementOfSeq
<1>3. Taken(c) \in 1 .. Len(rest[c]) /\ unread[target[c]] + Taken(c) \in 0 .. OutMax
  BY <1>1, <1>2 DEF Taken, Least
<1> HIDE DEF Taken
<1>4. SubSeq(rest[c], 1, Taken(c)) \in Seq(Piece)
  <2>1. 1 \in Int /\ Taken(c) \in Int /\ \A k \in 1 .. Taken(c) : rest[c][k] \in Piece
    BY <1>2, <1>3
  <2> QED BY <2>1, SubSeqProperties
<1>5. SubSeq(rest[c], Taken(c) + 1, Len(rest[c])) \in Seq(Piece)
  <2>1. /\ Taken(c) + 1 \in Int /\ Len(rest[c]) \in Int
        /\ \A k \in Taken(c) + 1 .. Len(rest[c]) : rest[c][k] \in Piece
    BY <1>2, <1>3
  <2> QED BY <2>1, SubSeqProperties
<1> QED BY <1>1, <1>2, <1>3, <1>4, <1>5

(* The other steps of a client's thread. *)
LEMMA HubThread ==
  ASSUME HubInv, NEW c \in Client,
         \/ Recv(c) \/ RecvNothing(c) \/ RecvFails(c) \/ NextClient(c)
         \/ EndOfList(c) \/ Sendall(c) \/ SendallFails(c)
  PROVE  HubInv'
<1> DEFINE Places == {"away", "queued", "built", "recv", "walk", "send",
                      "remove", "done", "dead"}
<1>1. /\ queue \in Seq(Client) /\ connections \in Seq(Client)
      /\ total_connections \in Nat /\ id \in [Client -> Nat \cup {-1}]
      /\ pc \in [Client -> Places] /\ target \in [Client -> Client \cup {NoClient}]
      /\ data \in [Client -> Seq(Piece)] /\ rest \in [Client -> Seq(Piece)]
      /\ pos \in [Client -> Nat] /\ due \in [Client -> SUBSET Client]
      /\ rx \in [Client -> Seq(Piece)] /\ out \in [Client -> Seq(Piece)]
      /\ unread \in [Client -> 0 .. OutMax] /\ shifts \in [Client -> Nat]
      /\ peer \in [Client -> {"up", "eof", "reset", "broken"}]
      /\ <<>> \in Seq(Piece)
  BY EmptySeq DEF HubInv, TypeOK
<1>2. Len(connections) \in Nat /\ \A i \in 1 .. Len(connections) : connections[i] \in Client
  BY ListFacts
<1>3. Listed \subseteq Client
  BY <1>1, LenProperties, ElementOfSeq DEF Listed, ToSet
<1>4. ASSUME UNCHANGED <<connections, acceptor, id>>, NEW p \in Places \ Unlisted,
             pc[c] \notin Unlisted, pc' = [pc EXCEPT ![c] = p]
      PROVE  ListSound' /\ QueueSound' /\ IdsBelow'
  BY <1>1, <1>4, ListKept DEF HubInv, acceptor
<1>5. CASE Recv(c)
  <2>1. PICK p \in {"walk", "dead"} : pc' = [pc EXCEPT ![c] = p]
    BY <1>5 DEF Recv
  <2>2. TypeOK'
    <3>1. /\ rx' \in [Client -> Seq(Piece)] /\ data' \in [Client -> Seq(Piece)]
          /\ pc' \in [Client -> Places] /\ pos' \in [Client -> Nat]
          /\ shifts' \in [Client -> Nat]
      <4>1. /\ rx' = [rx EXCEPT ![c] = <<>>] /\ data' = [data EXCEPT ![c] = rx[c]]
            /\ pos' = pos \/ pos' = [pos EXCEPT ![c] = 0]
            /\ shifts' = shifts \/ shifts' = [shifts EXCEPT ![c] = 0]
        BY <1>5 DEF Recv, FromFirst
      <4>2. rx' \in [Client -> Seq(Piece)] /\ data' \in [Client -> Seq(Piece)]
        BY <1>1, <4>1
      <4>3. pos' \in [Client -> Nat] /\ shifts' \in [Client -> Nat]
        <5>1. pos \in [Client -> Nat] /\ shifts \in [Client -> Nat] /\ 0 \in Nat
          BY <1>1
        <5>2. pos' \in [Client -> Nat]
          BY <4>1, <5>1
        <5>3. shifts' \in [Client -> Nat]
          BY <4>1, <5>1
        <5> QED BY <5>2, <5>3
      <4>4. pc' \in [Client -> Places]
        BY <1>1, <2>1
      <4> QED BY <4>2, <4>3, <4>4
    <3>2. due' \in [Client -> SUBSET Client]
      BY <1>1, <1>3, <1>5 DEF Recv
    <3> QED BY <1>5, <3>1, <3>2 DEF HubInv, TypeOK, Recv, acceptor
  <2>3. ListSound' /\ QueueSound' /\ IdsBelow'
    BY <1>4, <1>5, <2>1 DEF Recv, Unlisted
  <2>4. TargetSound'
    BY <1>1, <1>5, <2>1 DEF HubInv, TargetSound, Recv
  <2> QED BY <2>2, <2>3, <2>4 DEF HubInv
<1>6. CASE RecvNothing(c)
  <2>1. TypeOK'
    BY <1>6 DEF RecvNothing, vars, acceptor, threads, sockets, history, HubInv, TypeOK
  <2>2. ListSound' /\ QueueSound' /\ IdsBelow'
    BY <1>1, <1>6, ListKept DEF RecvNothing, vars, acceptor, threads, HubInv
  <2> QED BY <1>6, <2>1, <2>2 DEF RecvNothing, vars, threads, HubInv, TargetSound
<1>7. CASE RecvFails(c)
  <2>1. TypeOK'
    BY <1>1, <1>7 DEF HubInv, TypeOK, RecvFails, acceptor, history
  <2>2. ListSound' /\ QueueSound' /\ IdsBelow'
    BY <1>4, <1>7 DEF RecvFails, Unlisted
  <2>3. TargetSound'
    BY <1>1, <1>7 DEF HubInv, TargetSound, RecvFails
  <2> QED BY <2>1, <2>2, <2>3 DEF HubInv
<1>8. CASE NextClient(c)
  <2> DEFINE client == connections[pos[c] + 1]
  <2>1. client \in Client /\ pos[c] \in Nat
    <3>1. pos[c] < Len(connections)
      BY <1>8 DEF NextClient
    <3>2. pos[c] \in Nat
      BY <1>1
    <3> QED BY <1>2, <3>1, <3>2
  <2>2. \/ pc' = [pc EXCEPT ![c] = "send"] /\ target' = [target EXCEPT ![c] = client]
           /\ client # c
        \/ UNCHANGED <<pc, target>>
    BY <1>8 DEF NextClient, Other
  <2>3. TypeOK'
    <3>1. pos' \in [Client -> Nat]
      <4>1. pos' = [pos EXCEPT ![c] = pos[c] + 1] /\ pos \in [Client -> Nat]
        BY <1>1, <1>8 DEF NextClient, Advanced
      <4> QED BY <2>1, <4>1
    <3>2. rest' \in [Client -> Seq(Piece)]
      <4>1. /\ rest' = rest \/ rest' = [rest EXCEPT ![c] = data[c]]
            /\ rest \in [Client -> Seq(Piece)] /\ data[c] \in Seq(Piece)
        BY <1>1, <1>8 DEF NextClient
      <4> QED BY <4>1
    <3>3. pc' \in [Client -> Places] /\ target' \in [Client -> Client \cup {NoClient}]
      BY <1>1, <2>1, <2>2
    <3> QED BY <1>8, <3>1, <3>2, <3>3
      DEF HubInv, TypeOK, NextClient, acceptor, sockets, history
  <2>4. ListSound' /\ QueueSound' /\ IdsBelow'
    BY <1>1, <1>4, <1>8, <2>2, ListKept DEF NextClient, Unlisted, HubInv, acceptor
  <2>5. TargetSound'
    BY <1>1, <2>1, <2>2 DEF HubInv, TargetSound
  <2> QED BY <2>3, <2>4, <2>5 DEF HubInv
<1>9. CASE EndOfList(c)
  <2>1. TypeOK'
    BY <1>1, <1>9 DEF HubInv, TypeOK, EndOfList, LoopLeft, ReadAgain, acceptor, sockets
  <2>2. ListSound' /\ QueueSound' /\ IdsBelow'
    BY <1>4, <1>9 DEF EndOfList, ReadAgain, Unlisted
  <2>3. TargetSound'
    BY <1>1, <1>9 DEF HubInv, TargetSound, EndOfList, LoopLeft, ReadAgain
  <2> QED BY <2>1, <2>2, <2>3 DEF HubInv
<1>10. CASE Sendall(c)
  <2>1. /\ target[c] \in Client
        /\ unread[target[c]] + Taken(c) \in 0 .. OutMax
        /\ SubSeq(rest[c], 1, Taken(c)) \in Seq(Piece)
        /\ SubSeq(rest[c], Taken(c) + 1, Len(rest[c])) \in Seq(Piece)
    BY <1>10, TakenFacts DEF Sendall
  <2>2. PICK p \in {"walk", "send"} :
          pc' = [pc EXCEPT ![c] = p] /\ (p = "send" => target' = target)
    BY <1>1, <1>10 DEF Sendall
  <2>3. \A d \in Client \ {c} : target'[d] = target[d]
    BY <1>1, <1>10 DEF Sendall
  <2>4. TypeOK'
    <3>1. out' \in [Client -> Seq(Piece)]
      <4>1. out \in [Client -> Seq(Piece)]
        BY DEF HubInv, TypeOK
      <4>2. out[target[c]] \o SubSeq(rest[c], 1, Taken(c)) \in Seq(Piece)
        BY <2>1, <4>1, ConcatProperties
      <4> QED BY <1>10, <4>1, <4>2 DEF Sendall
    <3>2. unread' \in [Client -> 0 .. OutMax] /\ rest' \in [Client -> Seq(Piece)]
      BY <1>1, <1>10, <2>1 DEF Sendall
    <3>3. /\ target' \in [Client -> Client \cup {NoClient}]
          /\ due' \in [Client -> SUBSET Client] /\ pc' \in [Client -> Places]
      <4>1. /\ target' = target \/ target' = [target EXCEPT ![c] = NoClient]
            /\ due' = due \/ due' = [due EXCEPT ![c] = @ \ {target[c]}]
        BY <1>10 DEF Sendall
      <4>2. target' \in [Client -> Client \cup {NoClient}]
        BY <1>1, <4>1
      <4>3. due' \in [Client -> SUBSET Client]
        <5>1. due \in [Client -> SUBSET Client] /\ due[c] \ {target[c]} \in SUBSET Client
          BY <1>1
        <5> QED BY <4>1, <5>1
      <4>4. pc' \in [Client -> Places]
        BY <1>1, <2>2
      <4> QED BY <4>2, <4>3, <4>4
    <3> QED BY <1>10, <3>1, <3>2, <3>3 DEF HubInv, TypeOK, Sendall, acceptor
  <2>5. ListSound' /\ QueueSound' /\ IdsBelow'
    BY <1>4, <1>10, <2>2 DEF Sendall, Unlisted
  <2>6. TargetSound'
    BY <1>1, <1>10, <2>2, <2>3 DEF HubInv, TargetSound, Sendall
  <2> QED BY <2>4, <2>5, <2>6 DEF HubInv
<1>11. CASE SendallFails(c)
  <2>1. TypeOK'
    <3>1. peer' \in [Client -> {"up", "eof", "reset", "broken"}]
      BY <1>11 DEF HubInv, TypeOK, SendallFails
    <3> QED BY <1>1, <1>11, <3>1 DEF HubInv, TypeOK, SendallFails, LoopLeft, acceptor
  <2>2. ListSound' /\ QueueSound' /\ IdsBelow'
    BY <1>4, <1>11 DEF SendallFails, Unlisted
  <2>3. TargetSound'
    BY <1>1, <1>11 DEF HubInv, TargetSound, SendallFails, LoopLeft
  <2> QED BY <2>1, <2>2, <2>3 DEF HubInv
<1> QED BY <1>5, <1>6, <1>7, <1>8, <1>9, <1>10, <1>11

(* What clients do to the hub from outside. *)
LEMMA HubClient == ASSUME HubInv, NEW c \in Client, ClientStep(c) PROVE HubInv'
<1>1. /\ queue \in Seq(Client) /\ connections \in Seq(Client)
      /\ total_connections \in Nat /\ id \in [Client -> Nat \cup {-1}]
      /\ pc \in [Client -> {"away", "queued", "built", "recv", "walk", "send",
                            "remove", "done", "dead"}]
      /\ peer \in [Client -> {"up", "eof", "reset", "broken"}]
      /\ rx \in [Client -> Seq(Piece)] /\ sent \in [Client -> 0 .. MaxSend]
      /\ unread \in [Client -> 0 .. OutMax]
      /\ MaxSend \in Nat /\ OutMax \in Nat
  BY BoundAssumption DEF HubInv, TypeOK
<1>2. CASE Connect(c)
  <2>1. /\ queue' = Append(queue, c) /\ pc' = [pc EXCEPT ![c] = "queued"]
        /\ pc[c] = "away" /\ connections' = connections
    BY <1>2 DEF Connect
  <2>2. /\ queue' \in Seq(Client) /\ Len(queue') = Len(queue) + 1 /\ Len(queue) \in Nat
        /\ DOMAIN queue = 1 .. Len(queue) /\ DOMAIN queue' = 1 .. Len(queue) + 1
        /\ \A k \in 1 .. Len(queue) : queue'[k] = queue[k] /\ queue[k] \in Client
        /\ queue'[Len(queue) + 1] = c
    BY <1>1, <2>1, AppendProperties, LenProperties, ElementOfSeq
  <2>3. TypeOK'
    <3>1. pc' \in [Client -> {"away", "queued", "built", "recv", "walk", "send",
                              "remove", "done", "dead"}]
      BY <1>1, <2>1
    <3> QED BY <1>2, <2>2, <3>1 DEF HubInv, TypeOK, Connect, sockets, history
  <2>4. Listed' = Listed
    BY <2>1 DEF Listed
  <2>5. ListSound'
    BY <1>1, <1>2, <2>1, <2>4 DEF HubInv, ListSound, Connect
  <2>6. QueueSound'
    <3>1. \A k \in 1 .. Len(queue) : pc[queue[k]] = "queued" /\ queue[k] # c
      BY <2>1, <2>2 DEF HubInv, QueueSound
    <3>2. \A k \in 1 .. Len(queue) + 1 : k \in 1 .. Len(queue) \/ k = Len(queue) + 1
      BY <2>2
    <3>3. \A k \in 1 .. Len(queue) + 1 : pc'[queue'[k]] = "queued"
      BY <1>1, <2>1, <2>2, <3>1, <3>2
    <3>4. \A j, k \in 1 .. Len(queue) + 1 : j # k => queue'[j] # queue'[k]
      BY <2>2, <3>1, <3>2 DEF HubInv, QueueSound
    <3> QED BY <2>2, <3>3, <3>4 DEF QueueSound
  <2>7. IdsBelow' /\ TargetSound'
    BY <1>1, <1>2, <2>1, <2>4 DEF HubInv, IdsBelow, TargetSound, Connect
  <2> QED BY <2>3, <2>5, <2>6, <2>7 DEF HubInv
<1>3. ASSUME TypeOK', UNCHANGED <<connections, acceptor, threads>> PROVE HubInv'
  <2>1. ListSound' /\ QueueSound' /\ IdsBelow'
    BY <1>1, <1>3, ListKept DEF HubInv, acceptor, threads
  <2>2. TargetSound'
    BY <1>3 DEF HubInv, TargetSound, threads
  <2> QED BY <1>3, <2>1, <2>2 DEF HubInv
<1>4. ASSUME NEW utf8 \in BOOLEAN, ClientSends(c, utf8) PROVE HubInv'
  <2> DEFINE piece == [from |-> c, n |-> sent[c] + 1, utf8 |-> utf8]
  <2>1. /\ sent[c] \in 0 .. MaxSend /\ sent[c] < MaxSend
        /\ sent' = [sent EXCEPT ![c] = sent[c] + 1]
        /\ rx' = [rx EXCEPT ![c] = Append(rx[c], piece)]
    BY <1>1, <1>4 DEF ClientSends
  <2>2. sent[c] + 1 \in 1 .. MaxSend /\ piece \in Piece
    BY <1>1, <2>1 DEF Piece
  <2> HIDE DEF piece
  <2>3. Append(rx[c], piece) \in Seq(Piece)
    BY <1>1, <2>2, AppendProperties
  <2>4. sent' \in [Client -> 0 .. MaxSend] /\ rx' \in [Client -> Seq(Piece)]
    BY <1>1, <2>1, <2>2, <2>3
  <2>5. TypeOK'
    BY <1>4, <2>4 DEF HubInv, TypeOK, ClientSends, acceptor, threads
  <2> QED BY <1>3, <1>4, <2>5 DEF ClientSends
<1>5. CASE ClientReads(c)
  <2>1. unread' \in [Client -> 0 .. OutMax]
    BY <1>1, <1>5 DEF ClientReads
  <2>2. TypeOK'
    BY <1>5, <2>1 DEF HubInv, TypeOK, ClientReads, acceptor, threads, history
  <2> QED BY <1>3, <1>5, <2>2 DEF ClientReads
<1>6. CASE ClientCloses(c)
  <2>1. peer' \in [Client -> {"up", "eof", "reset", "broken"}]
    BY <1>1, <1>6 DEF ClientCloses
  <2>2. TypeOK'
    BY <1>6, <2>1 DEF HubInv, TypeOK, ClientCloses, acceptor, threads, history
  <2> QED BY <1>3, <1>6, <2>2 DEF ClientCloses
<1>7. CASE ClientResets(c)
  <2>1. peer' \in [Client -> {"up", "eof", "reset", "broken"}]
    BY <1>1, <1>7 DEF ClientResets
  <2>2. TypeOK'
    BY <1>7, <2>1 DEF HubInv, TypeOK, ClientResets, acceptor, threads, history
  <2> QED BY <1>3, <1>7, <2>2 DEF ClientResets
<1> QED BY <1>2, <1>4, <1>5, <1>6, <1>7 DEF ClientStep

-----------------------------------------------------------------------------
(* HubInv is inductive: every step of the threads and of the clients keeps  *)
(* the list a list of the live clients, and the types.                      *)
THEOREM HubInvariant == Spec => []HubInv
<1>1. HubInv /\ [Next]_vars => HubInv'
  <2> SUFFICES ASSUME HubInv, [Next]_vars PROVE HubInv'
    OBVIOUS
  <2>1. CASE AcceptorStep
    BY <2>1, HubAccept, HubAcceptor DEF AcceptorStep
  <2>2. ASSUME NEW c \in Client, ThreadStep(c) PROVE HubInv'
    BY <2>2, HubRemove, HubThread DEF ThreadStep
  <2>3. ASSUME NEW c \in Client, ClientStep(c) PROVE HubInv'
    BY <2>3, HubClient
  <2>4. CASE UNCHANGED vars
    BY <2>4 DEF vars, acceptor, threads, sockets, history, HubInv, TypeOK, ListSound,
      QueueSound, IdsBelow, TargetSound, Listed
  <2> QED BY <2>1, <2>2, <2>3, <2>4 DEF Next
<1> QED BY <1>1, HubInit, PTL DEF Spec

(* TypeOK holds for any number of clients: no socket is ever handed more    *)
(* than its buffers take (tcp.py:47), and the subscript of the accepting    *)
(* thread is never larger than the number of clients.                       *)
THEOREM HubTypeCorrect == Spec => []TypeOK
<1>1. HubInv => TypeOK
  BY DEF HubInv
<1> QED BY <1>1, HubInvariant, PTL

(* ListSound: the list of clients is exact under every interleaving, so a   *)
(* client that removes itself finds itself, and the test of the ids leaves  *)
(* out the sender and nobody else (tcp.py:40, 46, 64, 68).                  *)
THEOREM ListIsSound == Spec => []ListSound
<1>1. HubInv => ListSound
  BY DEF HubInv
<1> QED BY <1>1, HubInvariant, PTL

-----------------------------------------------------------------------------
(* As long as no client has removed itself, the subscripts of the accepting *)
(* thread find the client it has just appended, which is not started before *)
(* line 65.                                                                 *)
AcceptorSound ==
  \/ \E c \in Client : pc[c] = "done"
  \/ /\ accpc # "dead"
     /\ accpc = "accept" => line = 65
     /\ accpc # "accept" => Len(connections) > 0
     /\ accpc = "index" => idx = Len(connections) - 1
     /\ accpc # "accept" /\ line = 65 => pc[connections[Len(connections)]] = "built"

(* Steps of the others that do not touch the list. *)
LEMMA AcceptorUndisturbed ==
  ASSUME HubInv, AcceptorSound, UNCHANGED <<connections, acceptor>>,
         \A c \in Client : pc[c] \in {"built", "done"} => pc'[c] = pc[c]
  PROVE  AcceptorSound'
<1>1. CASE \E c \in Client : pc[c] = "done"
  BY <1>1 DEF AcceptorSound
<1>2. CASE ~ \E c \in Client : pc[c] = "done"
  <2>1. Len(connections) \in Nat /\ \A i \in 1 .. Len(connections) : connections[i] \in Client
    BY ListFacts
  <2>2. Len(connections) > 0 => connections[Len(connections)] \in Client
    BY <2>1
  <2> QED BY <1>2, <2>2 DEF AcceptorSound, acceptor
<1> QED BY <1>1, <1>2

LEMMA AcceptorSteps ==
  ASSUME HubInv, AcceptorSound, AcceptorStep PROVE AcceptorSound'
<1> DEFINE n == Len(connections)
<1>1. /\ n \in Nat /\ connections \in Seq(Client)
      /\ \A i \in 1 .. n : connections[i] \in Client /\ pc[connections[i]] # "done"
  BY ListFacts DEF HubInv, TypeOK, Unlisted
<1>2. /\ pc \in [Client -> {"away", "queued", "built", "recv", "walk", "send",
                            "remove", "done", "dead"}]
      /\ queue \in Seq(Client) /\ line \in 65 .. 67 /\ idx \in Int
  <2>1. Cardinality(Client) \in Nat
    BY ListFacts
  <2> QED BY <2>1 DEF HubInv, TypeOK
<1>3. CASE Accept
  <2>1. Head(queue) \in Client /\ pc[Head(queue)] = "queued"
    <3>1. Head(queue) = queue[1] /\ 1 \in DOMAIN queue /\ queue[1] \in Client
      BY <1>2, <1>3, HeadTailProperties, LenProperties, ElementOfSeq, EmptySeq DEF Accept
    <3> QED BY <3>1 DEF HubInv, QueueSound
  <2>2. /\ Len(connections') = n + 1 /\ connections'[n + 1] = Head(queue)
        /\ pc'[Head(queue)] = "built"
    BY <1>1, <1>2, <1>3, <2>1, AppendProperties DEF Accept
  <2>3. \A c \in Client : pc[c] = "done" => pc'[c] = "done"
    BY <1>2, <1>3, <2>1 DEF Accept
  <2> HIDE DEF n
  <2> QED BY <1>1, <1>3, <2>2, <2>3 DEF AcceptorSound, Accept
<1>4. CASE ComputeIndex
  BY <1>4 DEF AcceptorSound, ComputeIndex, LastIndex, threads
<1>5. ASSUME accpc = "index", ~ \E c \in Client : pc[c] = "done"
      PROVE  InRange /\ Subscripted = connections[n] /\ n > 0
  <2>1. n > 0 /\ idx = n - 1
    BY <1>5 DEF AcceptorSound
  <2> QED BY <1>1, <2>1 DEF InRange, Subscripted
<1>6. CASE Start
  <2>1. CASE \E c \in Client : pc[c] = "done"
    BY <1>2, <1>6, <2>1 DEF AcceptorSound, Start
  <2>2. CASE ~ \E c \in Client : pc[c] = "done"
    <3>1. pc[Subscripted] = "built"
      BY <1>5, <1>6, <2>2 DEF AcceptorSound, Start
    <3> QED BY <1>5, <1>6, <2>2, <3>1 DEF AcceptorSound, Start
  <2> QED BY <2>1, <2>2
<1>7. CASE Announce
  BY <1>2, <1>7 DEF AcceptorSound, Announce, NextRound, threads
<1>8. CASE IndexError
  BY <1>5, <1>8 DEF AcceptorSound, IndexError, threads
<1> QED BY <1>3, <1>4, <1>6, <1>7, <1>8 DEF AcceptorStep

(* AcceptorDiesOnlyByRemoval: whatever clients send and however many there  *)
(* are, the thread that accepts ends only if one has removed itself from    *)
(* the list (tcp.py:39, 65-67).                                             *)
THEOREM AcceptorNeedsRemoval == Spec => []AcceptorDiesOnlyByRemoval
<1>1. Init => AcceptorSound
  BY DEF Init, AcceptorSound
<1>2. HubInv /\ AcceptorSound /\ [Next]_vars => AcceptorSound'
  <2> SUFFICES ASSUME HubInv, AcceptorSound, [Next]_vars PROVE AcceptorSound'
    OBVIOUS
  <2>1. pc \in [Client -> {"away", "queued", "built", "recv", "walk", "send",
                          "remove", "done", "dead"}]
    BY DEF HubInv, TypeOK
  <2>2. CASE AcceptorStep
    BY <2>2, AcceptorSteps
  <2>3. ASSUME NEW c \in Client, ThreadStep(c) PROVE AcceptorSound'
    <3>1. CASE RemoveSelf(c)
      BY <2>1, <3>1 DEF RemoveSelf, AcceptorSound
    <3>2. CASE RecvNothing(c)
      BY <3>2, AcceptorUndisturbed DEF RecvNothing, vars, threads
    <3>3. CASE Recv(c) \/ RecvFails(c) \/ NextClient(c) \/ EndOfList(c)
      <4>1. \A d \in Client : pc[d] \in {"built", "done"} => pc'[d] = pc[d]
        BY <2>1, <3>3 DEF Recv, RecvFails, NextClient, EndOfList
      <4> QED BY <3>3, <4>1, AcceptorUndisturbed
        DEF Recv, RecvFails, NextClient, EndOfList
    <3>4. CASE Sendall(c) \/ SendallFails(c)
      <4>1. \A d \in Client : pc[d] \in {"built", "done"} => pc'[d] = pc[d]
        BY <2>1, <3>4 DEF Sendall, SendallFails
      <4> QED BY <3>4, <4>1, AcceptorUndisturbed DEF Sendall, SendallFails
    <3> QED BY <2>3, <3>1, <3>2, <3>3, <3>4 DEF ThreadStep
  <2>4. ASSUME NEW c \in Client, ClientStep(c) PROVE AcceptorSound'
    <3>1. CASE Connect(c)
      <4>1. /\ UNCHANGED <<connections, accpc, line, idx>> /\ pc[c] = "away"
            /\ pc' = [pc EXCEPT ![c] = "queued"]
        BY <3>1 DEF Connect
      <4>2. Len(connections) > 0 => connections[Len(connections)] \in Client
        BY ListFacts
      <4> QED BY <2>1, <4>1, <4>2 DEF AcceptorSound
    <3>2. CASE UNCHANGED <<connections, acceptor, pc>>
      BY <3>2, AcceptorUndisturbed
    <3> QED BY <2>4, <3>1, <3>2
      DEF ClientStep, ClientReads, ClientCloses, ClientResets, ClientSends, threads
  <2>5. CASE UNCHANGED vars
    BY <2>5, AcceptorUndisturbed DEF vars, threads
  <2> QED BY <2>2, <2>3, <2>4, <2>5 DEF Next
<1>3. AcceptorSound => AcceptorDiesOnlyByRemoval
  BY DEF AcceptorSound, AcceptorDiesOnlyByRemoval
<1> QED BY <1>1, <1>2, <1>3, HubInvariant, PTL DEF Spec

-----------------------------------------------------------------------------
(* DeathHasCause: a thread ends by an exception only for data that is not   *)
(* UTF-8 or for another client, whose connection has been reset, never for  *)
(* its own connection or for what the list holds (tcp.py:42, 45-47).        *)
THEOREM DeathsHaveCause == Spec => []DeathHasCause
<1>1. Init => DeathHasCause
  BY DEF Init, DeathHasCause
<1>2. HubInv /\ DeathHasCause /\ [Next]_vars => DeathHasCause'
  <2> SUFFICES ASSUME HubInv, DeathHasCause, [Next]_vars PROVE DeathHasCause'
    OBVIOUS
  <2>1. /\ pc \in [Client -> {"away", "queued", "built", "recv", "walk", "send",
                             "remove", "done", "dead"}]
        /\ peer \in [Client -> {"up", "eof", "reset", "broken"}]
        /\ data \in [Client -> Seq(Piece)] /\ rx \in [Client -> Seq(Piece)]
    BY DEF HubInv, TypeOK
  <2>2. ASSUME \A d \in Client : peer[d] = "broken" => peer'[d] = "broken",
               \A d \in Client : pc'[d] = "dead" => pc[d] = "dead" /\ data'[d] = data[d]
        PROVE  DeathHasCause'
    BY <2>2 DEF DeathHasCause, Decodable
  <2>3. CASE AcceptorStep
    <3>1. peer' = peer /\ data' = data
      BY <2>3 DEF AcceptorStep, Accept, ComputeIndex, Start, Announce, IndexError,
        threads, sockets
    <3>2. \A d \in Client : pc'[d] = "dead" => pc[d] = "dead"
      BY <2>1, <2>3 DEF AcceptorStep, Accept, ComputeIndex, Start, Announce, IndexError,
        threads
    <3> QED BY <2>2, <3>1, <3>2
  <2>4. ASSUME NEW c \in Client, Recv(c) PROVE DeathHasCause'
    <3>1. /\ peer' = peer /\ data' = [data EXCEPT ![c] = rx[c]]
          /\ pc[c] = "recv" /\ \A d \in Client \ {c} : pc'[d] = pc[d]
          /\ pc'[c] = "dead" => ~Decodable(rx[c])
      BY <2>1, <2>4 DEF Recv
    <3>2. pc'[c] = "dead" => ~Decodable(data'[c])
      BY <2>1, <3>1
    <3>3. \A d \in Client \ {c} : data'[d] = data[d]
      BY <2>1, <3>1
    <3> QED BY <3>1, <3>2, <3>3 DEF DeathHasCause, Decodable
  <2>5. ASSUME NEW c \in Client, SendallFails(c) PROVE DeathHasCause'
    <3>1. target[c] \in Client \ {c}
      BY <2>5 DEF HubInv, TargetSound, SendallFails
    <3>2. peer'[target[c]] = "broken" /\ \A d \in Client : peer[d] = "broken" => peer'[d] = "broken"
      BY <2>1, <2>5, <3>1 DEF SendallFails
    <3>3. \A d \in Client \ {c} : pc'[d] = pc[d] /\ data'[d] = data[d]
      BY <2>1, <2>5 DEF SendallFails, LoopLeft
    <3> QED BY <3>1, <3>2, <3>3 DEF DeathHasCause, Decodable
  <2>6. ASSUME NEW c \in Client,
               RecvNothing(c) \/ RecvFails(c) \/ RemoveSelf(c) \/ NextClient(c)
               \/ EndOfList(c) \/ Sendall(c)
        PROVE  DeathHasCause'
    <3>1. \A d \in Client : peer[d] = "broken" => peer'[d] = "broken"
      BY <2>1, <2>6 DEF RecvNothing, RecvFails, RemoveSelf, NextClient, EndOfList, Sendall,
        vars, sockets
    <3>2. \A d \in Client : pc'[d] = "dead" => pc[d] = "dead" /\ data'[d] = data[d]
      <4>1. CASE RecvNothing(c) \/ RecvFails(c)
        BY <2>1, <4>1 DEF RecvNothing, RecvFails, vars, threads
      <4>2. CASE RemoveSelf(c)
        BY <2>1, <4>2 DEF RemoveSelf
      <4>3. CASE NextClient(c) \/ Sendall(c)
        BY <2>1, <4>3 DEF NextClient, Sendall
      <4>4. CASE EndOfList(c)
        BY <2>1, <4>4 DEF EndOfList, LoopLeft, ReadAgain
      <4> QED BY <2>6, <4>1, <4>2, <4>3, <4>4
    <3> QED BY <2>2, <3>1, <3>2
  <2>7. ASSUME NEW c \in Client, ClientStep(c) PROVE DeathHasCause'
    <3>1. \A d \in Client : peer[d] = "broken" => peer'[d] = "broken"
      BY <2>1, <2>7 DEF ClientStep, Connect, ClientSends, ClientReads, ClientCloses,
        ClientResets, sockets
    <3>2. \A d \in Client : pc'[d] = "dead" => pc[d] = "dead" /\ data'[d] = data[d]
      BY <2>1, <2>7 DEF ClientStep, Connect, ClientSends, ClientReads, ClientCloses,
        ClientResets, threads
    <3> QED BY <2>2, <3>1, <3>2
  <2>8. CASE UNCHANGED vars
    BY <2>2, <2>8 DEF vars, threads, sockets
  <2> QED BY <2>3, <2>4, <2>5, <2>6, <2>7, <2>8 DEF Next, ThreadStep
<1> QED BY <1>1, <1>2, HubInvariant, PTL DEF Spec

-----------------------------------------------------------------------------
(* What the hub delivers while its list changes under the loops that walk *)
(* it.                                                                     *)

(* The clients that the loop of c has still to come to. *)
Ahead(c) == {connections[k] : k \in {i \in DOMAIN connections : i > pos[c]}}

(* Whom c has neither handed its data to nor is going to. *)
Passed(c) == (due[c] \ Ahead(c)) \ (IF pc[c] = "send" THEN {target[c]} ELSE {})

(* There is a removal for each of them. *)
Missed(c) ==
  Walking(c) => c \notin due[c] /\ Cardinality(Passed(c)) <= shifts[c]

MissedSound == \A c \in Client : Missed(c)

-----------------------------------------------------------------------------
(* Sets of clients that grow by at most one, or not at all. *)
LEMMA OneMore ==
  ASSUME NEW A \in SUBSET Client, NEW B \in SUBSET Client, NEW x
  PROVE  /\ Cardinality(A) \in Nat /\ Cardinality(B) \in Nat
         /\ B \subseteq A => Cardinality(B) <= Cardinality(A)
         /\ B \subseteq A \cup {x} => Cardinality(B) <= Cardinality(A) + 1
<1>1. IsFiniteSet(A) /\ IsFiniteSet(B)
  BY ClientAssumption, FS_Subset
<1>2. IsFiniteSet(A \cup {x})
  BY <1>1, FS_AddElement
<1>3. /\ Cardinality(A) \in Nat /\ Cardinality(B) \in Nat
      /\ Cardinality(A \cup {x}) \in Nat
  BY <1>1, <1>2, FS_CardinalityType
<1>4. Cardinality(A \cup {x}) = IF x \in A THEN Cardinality(A) ELSE Cardinality(A) + 1
  BY <1>1, FS_AddElement
<1>5. B \subseteq A => Cardinality(B) <= Cardinality(A)
  BY <1>1, FS_Subset
<1>6. B \subseteq A \cup {x} => Cardinality(B) <= Cardinality(A \cup {x})
  BY <1>2, FS_Subset
<1> QED BY <1>3, <1>4, <1>5, <1>6

(* What does not touch a loop leaves it its account. *)
LEMMA MissedKept ==
  ASSUME NEW w \in Client, Missed(w), UNCHANGED connections,
         pos'[w] = pos[w], due'[w] = due[w], target'[w] = target[w], shifts'[w] = shifts[w],
         pc'[w] = pc[w]
  PROVE  Missed(w)'
BY DEF Missed, Passed, Ahead, Walking

(* A client that is accepted is behind everything: no loop loses sight of   *)
(* one that was ahead of it.                                                *)
LEMMA MissedAccept ==
  ASSUME HubInv, NEW w \in Client, Missed(w), Accept PROVE Missed(w)'
<1>1. CASE ~Walking(w)'
  BY <1>1 DEF Missed
<1>2. CASE Walking(w)'
  <2>1. Head(queue) \in Client
    BY HeadTailProperties, EmptySeq DEF HubInv, TypeOK, Accept
  <2>2. pc \in [Client -> {"away", "queued", "built", "recv", "walk", "send",
                          "remove", "done", "dead"}]
    BY DEF HubInv, TypeOK
  <2>3. pc'[w] = pc[w]
    BY <1>2, <2>1, <2>2 DEF Walking, Accept
  <2>4. UNCHANGED <<pos, due, target, shifts>>
    BY DEF Accept, history
  <2>5. /\ Len(connections) \in Nat /\ DOMAIN connections = 1 .. Len(connections)
        /\ DOMAIN connections' = 1 .. Len(connections) + 1
        /\ \A k \in 1 .. Len(connections) : connections'[k] = connections[k]
    BY <2>1, ListFacts, AppendProperties, LenProperties DEF Accept, HubInv, TypeOK
  <2>6. Ahead(w) \subseteq Ahead(w)'
    BY <2>4, <2>5 DEF Ahead
  <2>7. due[w] \in SUBSET Client /\ shifts[w] \in Nat
    BY DEF HubInv, TypeOK
  <2>8. /\ Passed(w)' \subseteq Passed(w)
        /\ Passed(w) \in SUBSET Client /\ Passed(w)' \in SUBSET Client
    BY <2>3, <2>4, <2>6, <2>7 DEF Passed
  <2>9. Cardinality(Passed(w)') <= Cardinality(Passed(w))
        /\ Cardinality(Passed(w)) \in Nat /\ Cardinality(Passed(w)') \in Nat
    BY <2>8, OneMore
  <2> QED BY <2>3, <2>4, <2>7, <2>9 DEF Missed, Walking
<1> QED BY <1>1, <1>2

(* The client that takes the place of one removed from behind the iterator  *)
(* is passed over, and that is what the removal is counted for.             *)
LEMMA MissedRemove ==
  ASSUME HubInv, NEW w \in Client, Missed(w), NEW c \in Client, RemoveSelf(c)
  PROVE  Missed(w)'
<1>1. CASE ~Walking(w)'
  BY <1>1 DEF Missed
<1>2. CASE Walking(w)'
  <2> DEFINE n == Len(connections)
  <2>1. /\ pc \in [Client -> {"away", "queued", "built", "recv", "walk", "send",
                             "remove", "done", "dead"}]
        /\ due \in [Client -> SUBSET Client] /\ pos[w] \in Nat /\ shifts[w] \in Nat
    BY DEF HubInv, TypeOK
  <2>2. pc'[w] = pc[w] /\ w # c /\ Walking(w)
    BY <1>2, <2>1 DEF Walking, RemoveSelf
  <2>3. UNCHANGED <<pos, target>> /\ due'[w] = due[w] \ {c}
    BY DEF RemoveSelf
  <2>4. PICK i \in 1 .. n :
          /\ connections[i] = c /\ connections' \in Seq(Client) /\ Len(connections') = n - 1
          /\ \A k \in 1 .. n - 1 :
               connections'[k] = IF k < i THEN connections[k] ELSE connections[k + 1]
          /\ shifts'[w] = IF i <= pos[w] THEN shifts[w] + 1 ELSE shifts[w]
    BY <2>2, RemovedAt
  <2>5. n \in Nat /\ DOMAIN connections = 1 .. n /\ DOMAIN connections' = 1 .. n - 1
    BY <2>4, ListFacts, LenProperties
  <2> HIDE DEF n
  <2>6. ASSUME NEW k \in 1 .. n, k > pos[w], k # i, ~(i <= pos[w] /\ k = pos[w] + 1)
        PROVE  connections[k] \in Ahead(w)'
    <3>1. CASE k < i
      <4>1. k \in 1 .. n - 1 /\ connections'[k] = connections[k]
        BY <2>4, <2>5, <3>1
      <4> QED BY <2>3, <2>5, <2>6, <4>1 DEF Ahead
    <3>2. CASE k > i
      <4>1. /\ k - 1 \in 1 .. n - 1 /\ k - 1 > pos[w]
            /\ connections'[k - 1] = connections[k]
        BY <2>1, <2>4, <2>5, <2>6, <3>2
      <4> QED BY <2>3, <2>5, <4>1 DEF Ahead
    <3> QED BY <2>4, <2>5, <2>6, <3>1, <3>2
  <2>7. Passed(w) \in SUBSET Client /\ Passed(w)' \in SUBSET Client
    BY <2>1, <2>3 DEF Passed
  <2>8. CASE i <= pos[w]
    <3>1. Passed(w)' \subseteq Passed(w) \cup {connections[pos[w] + 1]}
      BY <2>2, <2>3, <2>4, <2>5, <2>6, <2>8 DEF Passed, Ahead
    <3>2. /\ Cardinality(Passed(w)') <= Cardinality(Passed(w)) + 1
          /\ Cardinality(Passed(w)) \in Nat /\ Cardinality(Passed(w)') \in Nat
      BY <2>7, <3>1, OneMore
    <3>3. shifts'[w] = shifts[w] + 1
      BY <2>4, <2>8
    <3> QED BY <2>1, <2>2, <2>3, <3>2, <3>3 DEF Missed
  <2>9. CASE ~(i <= pos[w])
    <3>1. Passed(w)' \subseteq Passed(w)
      BY <2>2, <2>3, <2>4, <2>5, <2>6, <2>9 DEF Passed, Ahead
    <3>2. Cardinality(Passed(w)') <= Cardinality(Passed(w))
          /\ Cardinality(Passed(w)) \in Nat /\ Cardinality(Passed(w)') \in Nat
      BY <2>7, <3>1, OneMore
    <3>3. shifts'[w] = shifts[w]
      BY <2>4, <2>9
    <3> QED BY <2>1, <2>2, <2>3, <3>2, <3>3 DEF Missed
  <2> QED BY <2>8, <2>9
<1> QED BY <1>1, <1>2

(* The test of the ids is a test of identity: a loop sends to everyone it   *)
(* comes to but its own client.                                             *)
LEMMA NextFacts ==
  ASSUME HubInv, NEW c \in Client, NextClient(c)
  PROVE  LET client == connections[pos[c] + 1] IN
           /\ pos[c] \in Nat /\ pos[c] + 1 \in DOMAIN connections /\ client \in Client
           /\ pos'[c] = pos[c] + 1 /\ \A w \in Client \ {c} : pos'[w] = pos[w]
           /\ pc[client] \notin Unlisted
           /\ \/ client # c /\ pc'[c] = "send" /\ target'[c] = client /\ rest'[c] = data[c]
              \/ client = c /\ pc'[c] = "walk"
           /\ \A w \in Client \ {c} :
                pc'[w] = pc[w] /\ target'[w] = target[w] /\ rest'[w] = rest[w]
<1> DEFINE client == connections[pos[c] + 1]
<1>1. /\ Len(connections) \in Nat /\ DOMAIN connections = 1 .. Len(connections)
      /\ \A i \in 1 .. Len(connections) : connections[i] \in Client /\ pc[connections[i]] \notin Unlisted
      /\ \A d \in Client : pc[d] \notin Unlisted => \E i \in 1 .. Len(connections) : connections[i] = d
  BY ListFacts
<1>2. /\ pos \in [Client -> Nat] /\ target \in [Client -> Client \cup {NoClient}]
      /\ rest \in [Client -> Seq(Piece)] /\ data[c] \in Seq(Piece)
      /\ pc \in [Client -> {"away", "queued", "built", "recv", "walk", "send",
                            "remove", "done", "dead"}]
  BY DEF HubInv, TypeOK
<1>3. pc[c] = "walk" /\ pos[c] < Len(connections)
  BY DEF NextClient
<1>4. pos[c] + 1 \in 1 .. Len(connections) /\ client \in Client /\ pc[client] \notin Unlisted
  BY <1>1, <1>2, <1>3
<1>5. pos' = [pos EXCEPT ![c] = pos[c] + 1]
  BY DEF NextClient, Advanced
<1>6. IF id[client] # id[c]
      THEN /\ pc' = [pc EXCEPT ![c] = "send"] /\ target' = [target EXCEPT ![c] = client]
           /\ rest' = [rest EXCEPT ![c] = data[c]]
      ELSE UNCHANGED <<pc, target, rest>>
  BY DEF NextClient, Other
<1>7. id[client] = id[c] => client = c
  <2>1. PICK m \in 1 .. Len(connections) : connections[m] = c
    BY <1>1, <1>3 DEF Unlisted
  <2>2. m # pos[c] + 1 => id[connections[m]] # id[client]
    BY <1>1, <1>4 DEF HubInv, ListSound
  <2> QED BY <2>1, <2>2
<1> HIDE DEF client
<1>8. /\ pos'[c] = pos[c] + 1 /\ \A w \in Client \ {c} : pos'[w] = pos[w]
  BY <1>2, <1>5
<1>9. \/ client # c /\ pc'[c] = "send" /\ target'[c] = client /\ rest'[c] = data[c]
      \/ client = c /\ pc'[c] = "walk"
  BY <1>2, <1>3, <1>6, <1>7
<1>10. \A w \in Client \ {c} :
         pc'[w] = pc[w] /\ target'[w] = target[w] /\ rest'[w] = rest[w]
  BY <1>2, <1>6
<1> QED BY <1>1, <1>2, <1>4, <1>8, <1>9, <1>10 DEF client

(* The client a loop comes to is the only one that is no longer ahead.      *)
LEMMA AheadAdvances ==
  ASSUME HubInv, NEW c \in Client, NextClient(c)
  PROVE  /\ Ahead(c) \subseteq Ahead(c)' \cup {connections[pos[c] + 1]}
         /\ Ahead(c)' \subseteq Ahead(c)
         /\ connections[pos[c] + 1] \in Ahead(c) /\ connections[pos[c] + 1] \notin Ahead(c)'
<1>1. /\ pos[c] \in Nat /\ pos[c] + 1 \in DOMAIN connections /\ pos'[c] = pos[c] + 1
      /\ DOMAIN connections = 1 .. Len(connections) /\ Len(connections) \in Nat
  BY NextFacts, ListFacts
<1>2. connections' = connections
  BY DEF NextClient
<1>3. \A i, j \in DOMAIN connections : i # j => connections[i] # connections[j]
  BY DEF HubInv, ListSound
<1>4. \A k \in DOMAIN connections : k > pos[c] <=> k > pos[c] + 1 \/ k = pos[c] + 1
  BY <1>1
<1>5. \A k \in DOMAIN connections : k > pos[c] + 1 => k # pos[c] + 1
  BY <1>1
<1> QED BY <1>1, <1>2, <1>3, <1>4, <1>5 DEF Ahead

LEMMA MissedNext ==
  ASSUME HubInv, NEW c \in Client, Missed(c), NextClient(c) PROVE Missed(c)'
<1> DEFINE client == connections[pos[c] + 1]
<1>1. /\ Ahead(c) \subseteq Ahead(c)' \cup {client}
      /\ \/ client # c /\ pc'[c] = "send" /\ target'[c] = client
         \/ client = c /\ pc'[c] = "walk"
  BY AheadAdvances, NextFacts
<1>2. /\ UNCHANGED <<due, shifts>> /\ pc[c] = "walk"
      /\ due[c] \in SUBSET Client /\ shifts[c] \in Nat
  BY DEF NextClient, history, HubInv, TypeOK
<1>3. c \notin due[c] /\ Cardinality(Passed(c)) <= shifts[c]
  BY <1>2 DEF Missed, Walking
<1> HIDE DEF client
<1>4. Passed(c)' \subseteq Passed(c)
  BY <1>1, <1>2, <1>3 DEF Passed
<1>5. Passed(c) \in SUBSET Client /\ Passed(c)' \in SUBSET Client
  BY <1>2 DEF Passed
<1>6. /\ Cardinality(Passed(c)') <= Cardinality(Passed(c))
      /\ Cardinality(Passed(c)) \in Nat /\ Cardinality(Passed(c)') \in Nat
  BY <1>4, <1>5, OneMore
<1> QED BY <1>2, <1>3, <1>6 DEF Missed

(* At the start of a loop everyone is ahead. *)
LEMMA MissedRecv ==
  ASSUME HubInv, NEW c \in Client, Recv(c) PROVE Missed(c)'
<1>1. /\ pc \in [Client -> {"away", "queued", "built", "recv", "walk", "send",
                           "remove", "done", "dead"}]
      /\ pos \in [Client -> Nat] /\ due \in [Client -> SUBSET Client]
      /\ shifts \in [Client -> Nat]
  BY DEF HubInv, TypeOK
<1>2. CASE ~Walking(c)'
  BY <1>2 DEF Missed
<1>3. CASE Walking(c)'
  <2>1. /\ pos' = [pos EXCEPT ![c] = 0] /\ due' = [due EXCEPT ![c] = Listed \ {c}]
        /\ shifts' = [shifts EXCEPT ![c] = 0] /\ connections' = connections
        /\ pc' = [pc EXCEPT ![c] = "walk"]
    BY <1>1, <1>3 DEF Recv, FromFirst, Walking
  <2>2. /\ pos'[c] = 0 /\ due'[c] = Listed \ {c} /\ shifts'[c] = 0 /\ pc'[c] = "walk"
    BY <1>1, <2>1
  <2>3. Ahead(c)' = Listed
    <3>1. Len(connections) \in Nat /\ DOMAIN connections = 1 .. Len(connections)
      BY ListFacts
    <3>2. \A i \in DOMAIN connections : i > 0
      BY <3>1
    <3> QED BY <2>1, <2>2, <3>2 DEF Ahead, Listed, ToSet
  <2>4. Passed(c)' = {}
    BY <2>2, <2>3 DEF Passed
  <2>5. Cardinality(Passed(c)') = 0
    BY <2>4, FS_EmptySet
  <2> QED BY <2>2, <2>5 DEF Missed
<1> QED BY <1>2, <1>3

(* A client that has been handed everything is no longer due. *)
LEMMA MissedSendall ==
  ASSUME HubInv, NEW c \in Client, Missed(c), Sendall(c) PROVE Missed(c)'
<1>1. /\ pc \in [Client -> {"away", "queued", "built", "recv", "walk", "send",
                           "remove", "done", "dead"}]
      /\ due \in [Client -> SUBSET Client] /\ pc[c] = "send"
  BY DEF HubInv, TypeOK, Sendall
<1>2. UNCHANGED <<connections, pos, shifts>>
  BY DEF Sendall
<1>3. \/ pc'[c] = "walk" /\ due'[c] = due[c] \ {target[c]}
      \/ UNCHANGED <<pc, target, due>>
  BY <1>1 DEF Sendall
<1>4. Passed(c)' = Passed(c) /\ (c \notin due[c] => c \notin due'[c])
  BY <1>1, <1>2, <1>3 DEF Passed, Ahead
<1> QED BY <1>1, <1>2, <1>3, <1>4 DEF Missed, Walking

(* MissedOnlyByRemoval: of the clients that are on the list from the start  *)
(* to the end of a broadcast, at most as many are left out as there were    *)
(* removals in the part of the list already walked (tcp.py:40, 45).         *)
THEOREM LeftOutOnlyByRemoval == Spec => []MissedOnlyByRemoval
<1>1. Init => MissedSound
  BY DEF Init, MissedSound, Missed, Walking
<1>2. HubInv /\ MissedSound /\ [Next]_vars => MissedSound'
  <2> SUFFICES ASSUME HubInv, MissedSound, [Next]_vars, NEW w \in Client PROVE Missed(w)'
    BY DEF MissedSound
  <2>1. Missed(w)
    BY DEF MissedSound
  <2>2. /\ pc \in [Client -> {"away", "queued", "built", "recv", "walk", "send",
                             "remove", "done", "dead"}]
        /\ pos \in [Client -> Nat] /\ due \in [Client -> SUBSET Client]
        /\ target \in [Client -> Client \cup {NoClient}] /\ shifts \in [Client -> Nat]
    BY DEF HubInv, TypeOK
  <2>3. ASSUME pc'[w] = pc[w] \/ pc'[w] \notin {"walk", "send"}, UNCHANGED connections,
               pos'[w] = pos[w], due'[w] = due[w], target'[w] = target[w],
               shifts'[w] = shifts[w]
        PROVE  Missed(w)'
    BY <2>1, <2>3, MissedKept DEF Missed, Walking
  <2>4. ASSUME pc'[w] \notin {"walk", "send"} PROVE Missed(w)'
    BY <2>4 DEF Missed, Walking
  <2>5. CASE Accept
    BY <2>1, <2>5, MissedAccept
  <2>6. CASE ComputeIndex \/ Start \/ Announce \/ IndexError
    <3>1. UNCHANGED <<connections, pos, due, target, shifts>>
      BY <2>6 DEF ComputeIndex, Start, Announce, IndexError, threads, history
    <3>2. pc'[w] = pc[w] \/ pc'[w] \notin {"walk", "send"}
      BY <2>2, <2>6 DEF ComputeIndex, Start, Announce, IndexError, threads
    <3> QED BY <2>3, <3>1, <3>2
  <2>7. ASSUME NEW c \in Client, RemoveSelf(c) PROVE Missed(w)'
    BY <2>1, <2>7, MissedRemove
  <2>8. ASSUME NEW c \in Client, ThreadStep(c), ~RemoveSelf(c), c # w PROVE Missed(w)'
    <3>1. connections' = connections
      BY <2>8 DEF ThreadStep, Recv, RecvNothing, RecvFails, NextClient, EndOfList, Sendall,
        SendallFails, vars
    <3>2. pc'[w] = pc[w] /\ pos'[w] = pos[w]
      <4>1. CASE Recv(c) \/ RecvNothing(c) \/ RecvFails(c)
        BY <2>2, <2>8, <4>1 DEF Recv, RecvNothing, RecvFails, vars, threads
      <4>2. CASE NextClient(c) \/ EndOfList(c)
        BY <2>2, <2>8, <4>2 DEF NextClient, EndOfList, LoopLeft
      <4>3. CASE Sendall(c) \/ SendallFails(c)
        BY <2>2, <2>8, <4>3 DEF Sendall, SendallFails, LoopLeft
      <4> QED BY <2>8, <4>1, <4>2, <4>3 DEF ThreadStep
    <3>3. due'[w] = due[w] /\ target'[w] = target[w] /\ shifts'[w] = shifts[w]
      <4>1. CASE Recv(c) \/ RecvNothing(c) \/ RecvFails(c)
        BY <2>2, <2>8, <4>1 DEF Recv, RecvNothing, RecvFails, vars, threads, history
      <4>2. CASE NextClient(c) \/ EndOfList(c)
        BY <2>2, <2>8, <4>2 DEF NextClient, EndOfList, LoopLeft, history
      <4>3. CASE Sendall(c) \/ SendallFails(c)
        BY <2>2, <2>8, <4>3 DEF Sendall, SendallFails, LoopLeft
      <4> QED BY <2>8, <4>1, <4>2, <4>3 DEF ThreadStep
    <3> QED BY <2>3, <3>1, <3>2, <3>3
  <2>9. CASE ThreadStep(w) /\ ~RemoveSelf(w)
    <3>1. CASE Recv(w)
      BY <3>1, MissedRecv
    <3>2. CASE NextClient(w)
      BY <2>1, <3>2, MissedNext
    <3>3. CASE Sendall(w)
      BY <2>1, <3>3, MissedSendall
    <3>4. CASE RecvNothing(w)
      BY <2>3, <3>4 DEF RecvNothing, vars, threads, history
    <3>5. CASE RecvFails(w) \/ EndOfList(w) \/ SendallFails(w)
      BY <2>2, <2>4, <3>5 DEF RecvFails, EndOfList, SendallFails, ReadAgain
    <3> QED BY <2>9, <3>1, <3>2, <3>3, <3>4, <3>5 DEF ThreadStep
  <2>10. ASSUME NEW c \in Client, ClientStep(c) PROVE Missed(w)'
    <3>1. UNCHANGED <<connections, pos, due, target, shifts>>
      BY <2>10 DEF ClientStep, Connect, ClientSends, ClientReads, ClientCloses,
        ClientResets, threads, history
    <3>2. pc'[w] = pc[w] \/ pc'[w] \notin {"walk", "send"}
      BY <2>2, <2>10 DEF ClientStep, Connect, ClientSends, ClientReads, ClientCloses,
        ClientResets, threads
    <3> QED BY <2>3, <3>1, <3>2
  <2>11. CASE UNCHANGED vars
    BY <2>3, <2>11 DEF vars, threads, history
  <2> QED BY <2>5, <2>6, <2>7, <2>8, <2>9, <2>10, <2>11 DEF Next, AcceptorStep
<1>3. HubInv /\ MissedSound => MissedOnlyByRemoval
  <2> SUFFICES ASSUME HubInv, MissedSound, NEW c \in Client, pc[c] = "walk",
                      pos[c] >= Len(connections)
               PROVE  Cardinality(due[c]) <= shifts[c]
    BY DEF MissedOnlyByRemoval
  <2>1. pos[c] \in Nat /\ Len(connections) \in Nat /\ DOMAIN connections = 1 .. Len(connections)
    BY ListFacts DEF HubInv, TypeOK
  <2>2. Ahead(c) = {}
    BY <2>1 DEF Ahead
  <2>3. Passed(c) = due[c]
    BY <2>2 DEF Passed
  <2> QED BY <2>3 DEF MissedSound, Missed, Walking
<1> QED BY <1>1, <1>2, <1>3, HubInvariant, PTL DEF Spec

-----------------------------------------------------------------------------
(* The hub keeps the order of what each client sends, for every receiver. *)

(* Pieces of c in the order in which c sent them. *)
Own(s, c) ==
  /\ \A i \in DOMAIN s : s[i].from = c /\ s[i].n <= sent[c]
  /\ \A i, j \in DOMAIN s : i < j => s[i].n < s[j].n

(* The pieces of s follow on what d has been handed from c. *)
Follows(s, d, c) ==
  \A i \in DOMAIN out[d], j \in DOMAIN s : out[d][i].from = c => out[d][i].n < s[j].n

Precedes(s, t) == \A i \in DOMAIN s, j \in DOMAIN t : s[i].n < t[j].n

(* What is received, being sent and handed on comes in this order. *)
Pipeline ==
  \A c \in Client :
    /\ Own(rx[c], c) /\ Own(data[c], c) /\ Own(rest[c], c)
    /\ Precedes(data[c], rx[c]) /\ Precedes(rest[c], rx[c])

Handed ==
  \A d \in Client :
    /\ \A i \in DOMAIN out[d] : out[d][i].from # d /\ out[d][i].n <= sent[out[d][i].from]
    /\ \A c \in Client : Follows(rx[c], d, c)
    /\ pc[d] \in {"away", "queued"} => out[d] = <<>>

(* A client that is still to come to has nothing of the current data, and  *)
(* the one that is being sent to nothing of the rest.                      *)
NothingTwice ==
  \A c \in Client :
    /\ Walking(c) => \A d \in Ahead(c) : Follows(data[c], d, c)
    /\ pc[c] = "send" =>
         /\ Follows(rest[c], target[c], c)
         /\ target[c] \notin Ahead(c)
         /\ pc[target[c]] \notin {"away", "queued"}

StreamSound == Pipeline /\ Handed /\ NothingTwice /\ StreamsInOrder
-----------------------------------------------------------------------------
(* Typed pieces, for the arithmetic of their numbers. *)
LEMMA PieceFacts ==
  ASSUME HubInv, NEW c \in Client
  PROVE  /\ sent[c] \in Nat /\ \A d \in Client : sent[d] \in Nat
         /\ \A s \in {rx[c], data[c], rest[c], out[c]} :
              /\ s \in Seq(Piece) /\ Len(s) \in Nat /\ DOMAIN s = 1 .. Len(s)
              /\ \A i \in DOMAIN s : s[i] \in Piece /\ s[i].n \in Nat /\ s[i].from \in Client
<1>1. \A d \in Client : sent[d] \in Nat
  <2>1. sent \in [Client -> 0 .. MaxSend] /\ MaxSend \in Nat
    BY BoundAssumption DEF HubInv, TypeOK
  <2> QED BY <2>1
<1>2. \A p \in Piece : p.n \in Nat /\ p.from \in Client
  BY BoundAssumption DEF Piece
<1>3. /\ rx[c] \in Seq(Piece) /\ data[c] \in Seq(Piece)
      /\ rest[c] \in Seq(Piece) /\ out[c] \in Seq(Piece)
  BY DEF HubInv, TypeOK
<1>4. ASSUME NEW s \in Seq(Piece)
      PROVE  /\ Len(s) \in Nat /\ DOMAIN s = 1 .. Len(s)
             /\ \A i \in DOMAIN s : s[i] \in Piece /\ s[i].n \in Nat /\ s[i].from \in Client
  BY <1>2, LenProperties, ElementOfSeq
<1> QED BY <1>1, <1>3, <1>4

(* A step that moves no data, and lets a loop come to nobody new but a      *)
(* client that has been handed nothing yet.                                 *)
LEMMA StreamKept ==
  ASSUME StreamSound, UNCHANGED <<rx, data, rest, out, sent>>,
         \A w \in Client : Walking(w)' =>
           /\ Walking(w)
           /\ Ahead(w)' \subseteq Ahead(w) \cup {d \in Client : pc[d] = "queued"},
         \A w \in Client : pc'[w] = "send" => pc[w] = "send" /\ target'[w] = target[w],
         \A d \in Client : pc'[d] \in {"away", "queued"} => pc[d] \in {"away", "queued"},
         \A w \in Client : pc[w] = "send" => target[w] \in Client
  PROVE  StreamSound'
<1>1. Pipeline'
  BY DEF StreamSound, Pipeline, Own, Precedes
<1>2. Handed'
  BY DEF StreamSound, Handed, Follows
<1>3. StreamsInOrder'
  BY DEF StreamSound, StreamsInOrder
<1>4. ASSUME NEW w \in Client, Walking(w)', NEW d \in Ahead(w)' PROVE Follows(data[w], d, w)'
  <2>1. CASE d \in Ahead(w)
    BY <1>4, <2>1 DEF StreamSound, NothingTwice, Follows
  <2>2. CASE d \in Client /\ pc[d] = "queued"
    <3>1. out[d] = <<>>
      BY <2>2 DEF StreamSound, Handed
    <3> QED BY <3>1 DEF Follows
  <2> QED BY <1>4, <2>1, <2>2
<1>5. ASSUME NEW w \in Client, pc'[w] = "send"
      PROVE  /\ Follows(rest[w], target[w], w)'
             /\ target'[w] \notin Ahead(w)'
             /\ pc'[target'[w]] \notin {"away", "queued"}
  <2>1. /\ pc[w] = "send" /\ target'[w] = target[w] /\ target[w] \in Client
        /\ Follows(rest[w], target[w], w) /\ target[w] \notin Ahead(w)
        /\ pc[target[w]] \notin {"away", "queued"}
    BY <1>5 DEF StreamSound, NothingTwice
  <2>2. Ahead(w)' \subseteq Ahead(w) \cup {d \in Client : pc[d] = "queued"}
    BY <1>5 DEF Walking
  <2> QED BY <2>1, <2>2 DEF Follows
<1>6. NothingTwice'
  BY <1>4, <1>5 DEF NothingTwice
<1> QED BY <1>1, <1>2, <1>3, <1>6 DEF StreamSound

(* What a loop is about to come to, when the list grows and shrinks. *)
LEMMA AheadAccept ==
  ASSUME HubInv, Accept, NEW w \in Client
  PROVE  Ahead(w)' \subseteq Ahead(w) \cup {d \in Client : pc[d] = "queued"}
<1>1. Head(queue) \in Client /\ pc[Head(queue)] = "queued"
  <2>1. Head(queue) = queue[1] /\ 1 \in DOMAIN queue /\ queue[1] \in Client
    BY HeadTailProperties, LenProperties, ElementOfSeq, EmptySeq DEF Accept, HubInv, TypeOK
  <2> QED BY <2>1 DEF HubInv, QueueSound
<1>2. /\ Len(connections) \in Nat /\ DOMAIN connections = 1 .. Len(connections)
      /\ DOMAIN connections' = 1 .. Len(connections) + 1
      /\ \A k \in 1 .. Len(connections) : connections'[k] = connections[k]
      /\ connections'[Len(connections) + 1] = Head(queue) /\ pos' = pos
  BY <1>1, ListFacts, AppendProperties, LenProperties DEF Accept, HubInv, TypeOK
<1>3. \A k \in 1 .. Len(connections) + 1 : k \in 1 .. Len(connections) \/ k = Len(connections) + 1
  BY <1>2
<1> QED BY <1>1, <1>2, <1>3 DEF Ahead

LEMMA AheadRemove ==
  ASSUME HubInv, NEW c \in Client, RemoveSelf(c), NEW w \in Client
  PROVE  Ahead(w)' \subseteq Ahead(w)
<1> DEFINE n == Len(connections)
<1>1. PICK i \in 1 .. n :
        /\ connections' \in Seq(Client) /\ Len(connections') = n - 1
        /\ \A k \in 1 .. n - 1 :
             connections'[k] = IF k < i THEN connections[k] ELSE connections[k + 1]
  BY RemovedAt
<1>2. n \in Nat /\ DOMAIN connections = 1 .. n /\ DOMAIN connections' = 1 .. n - 1
  BY <1>1, ListFacts, LenProperties
<1>3. pos' = pos /\ pos[w] \in Nat
  BY DEF RemoveSelf, HubInv, TypeOK
<1> HIDE DEF n
<1>4. ASSUME NEW k \in 1 .. n - 1, k > pos[w] PROVE connections'[k] \in Ahead(w)
  <2>1. k \in 1 .. n /\ k + 1 \in 1 .. n /\ k + 1 > pos[w]
    BY <1>2, <1>3, <1>4
  <2>2. connections[k] \in Ahead(w) /\ connections[k + 1] \in Ahead(w)
    BY <1>2, <1>4, <2>1 DEF Ahead
  <2> QED BY <1>1, <2>2
<1> QED BY <1>2, <1>3, <1>4 DEF Ahead

(* recv hands what has been received to the loop; everyone is ahead of it,  *)
(* and what was received follows on everything handed on before.            *)
LEMMA StreamRecv ==
  ASSUME HubInv, StreamSound, NEW c \in Client, Recv(c) PROVE StreamSound'
<1>1. /\ pc \in [Client -> {"away", "queued", "built", "recv", "walk", "send",
                           "remove", "done", "dead"}]
      /\ rx \in [Client -> Seq(Piece)] /\ data \in [Client -> Seq(Piece)]
      /\ pos \in [Client -> Nat]
  BY DEF HubInv, TypeOK
<1>2. /\ UNCHANGED <<connections, rest, out, sent, target>>
      /\ rx'[c] = <<>> /\ data'[c] = rx[c]
      /\ pc'[c] \in {"walk", "dead"} /\ pc[c] = "recv"
  BY <1>1 DEF Recv
<1>3. \A w \in Client \ {c} :
        rx'[w] = rx[w] /\ data'[w] = data[w] /\ pc'[w] = pc[w] /\ pos'[w] = pos[w]
  BY <1>1 DEF Recv
<1>4. Pipeline'
  BY <1>2, <1>3 DEF StreamSound, Pipeline, Own, Precedes
<1>5. Handed'
  BY <1>2, <1>3 DEF StreamSound, Handed, Follows
<1>6. ASSUME NEW w \in Client, Walking(w)', NEW d \in Ahead(w)' PROVE Follows(data[w], d, w)'
  <2>1. CASE w = c
    <3>1. d \in Client
      BY <1>2, ListFacts DEF Ahead
    <3> QED BY <1>2, <2>1, <3>1 DEF StreamSound, Handed, Follows
  <2>2. CASE w # c
    <3>1. d \in Ahead(w) /\ Walking(w)
      BY <1>2, <1>3, <1>6, <2>2 DEF Ahead, Walking
    <3> QED BY <1>2, <1>3, <2>2, <3>1 DEF StreamSound, NothingTwice, Follows
  <2> QED BY <2>1, <2>2
<1>7. ASSUME NEW w \in Client, pc'[w] = "send"
      PROVE  /\ Follows(rest[w], target[w], w)'
             /\ target'[w] \notin Ahead(w)'
             /\ pc'[target'[w]] \notin {"away", "queued"}
  <2>1. w # c /\ pc[w] = "send"
    BY <1>2, <1>3, <1>7
  <2>2. Ahead(w)' = Ahead(w)
    BY <1>2, <1>3, <2>1 DEF Ahead
  <2>3. target[w] \in Client
    BY <2>1 DEF HubInv, TargetSound
  <2> QED BY <1>2, <1>3, <2>1, <2>2, <2>3 DEF StreamSound, NothingTwice, Follows
<1>8. NothingTwice'
  BY <1>6, <1>7 DEF NothingTwice
<1>9. StreamsInOrder'
  BY <1>2 DEF StreamSound, StreamsInOrder
<1> QED BY <1>4, <1>5, <1>8, <1>9 DEF StreamSound

(* The client a loop comes to was ahead and has nothing of the data. *)
LEMMA StreamNext ==
  ASSUME HubInv, StreamSound, NEW c \in Client, NextClient(c) PROVE StreamSound'
<1> DEFINE client == connections[pos[c] + 1]
<1>1. /\ client \in Client /\ pc[client] \notin {"away", "queued"}
      /\ \A w \in Client \ {c} : pos'[w] = pos[w]
      /\ \/ client # c /\ pc'[c] = "send" /\ target'[c] = client /\ rest'[c] = data[c]
         \/ client = c /\ pc'[c] = "walk"
      /\ \A w \in Client \ {c} :
           pc'[w] = pc[w] /\ target'[w] = target[w] /\ rest'[w] = rest[w]
  BY NextFacts DEF Unlisted
<1>2. /\ Ahead(c)' \subseteq Ahead(c) /\ client \in Ahead(c) /\ client \notin Ahead(c)'
  BY AheadAdvances
<1>3. UNCHANGED <<connections, rx, data, out, sent>> /\ pc[c] = "walk"
  BY DEF NextClient, sockets, history
<1>4. rest'[c] = rest[c] \/ rest'[c] = data[c]
  <2>1. rest \in [Client -> Seq(Piece)]
    BY DEF HubInv, TypeOK
  <2> QED BY <2>1 DEF NextClient
<1> HIDE DEF client
<1>5. Pipeline'
  BY <1>1, <1>3, <1>4 DEF StreamSound, Pipeline, Own, Precedes
<1>6. Handed'
  BY <1>1, <1>3 DEF StreamSound, Handed, Follows
<1>7. \A w \in Client \ {c} : Ahead(w)' = Ahead(w)
  BY <1>1, <1>3 DEF Ahead
<1>8. ASSUME NEW w \in Client, Walking(w)', NEW d \in Ahead(w)' PROVE Follows(data[w], d, w)'
  <2>1. d \in Ahead(w) /\ Walking(w)
    BY <1>1, <1>2, <1>3, <1>7, <1>8 DEF Walking
  <2> QED BY <1>3, <2>1 DEF StreamSound, NothingTwice, Follows
<1>9. ASSUME NEW w \in Client, pc'[w] = "send"
      PROVE  /\ Follows(rest[w], target[w], w)'
             /\ target'[w] \notin Ahead(w)'
             /\ pc'[target'[w]] \notin {"away", "queued"}
  <2>1. CASE w = c
    <3>1. target'[c] = client /\ client # c /\ rest'[c] = data[c]
      BY <1>1, <1>9, <2>1
    <3>2. Follows(data[c], client, c)
      BY <1>2, <1>3 DEF StreamSound, NothingTwice, Walking
    <3> QED BY <1>1, <1>2, <1>3, <2>1, <3>1, <3>2 DEF Follows
  <2>2. CASE w # c
    <3>1. pc[w] = "send" /\ target[w] \in Client
      BY <1>1, <1>9, <2>2 DEF HubInv, TargetSound
    <3>2. /\ Follows(rest[w], target[w], w) /\ target[w] \notin Ahead(w)
          /\ pc[target[w]] \notin {"away", "queued"}
      BY <3>1 DEF StreamSound, NothingTwice
    <3>3. pc'[target[w]] \notin {"away", "queued"}
      BY <1>1, <3>1, <3>2
    <3> QED BY <1>1, <1>3, <1>7, <2>2, <3>2, <3>3 DEF Follows
  <2> QED BY <2>1, <2>2
<1>10. NothingTwice'
  BY <1>8, <1>9 DEF NothingTwice
<1>11. StreamsInOrder'
  BY <1>3 DEF StreamSound, StreamsInOrder
<1> QED BY <1>5, <1>6, <1>10, <1>11 DEF StreamSound

(* The end of a loop, by the end of the list or by an exception. *)
LEMMA StreamLeft ==
  ASSUME HubInv, StreamSound, NEW c \in Client, EndOfList(c) \/ SendallFails(c)
  PROVE  StreamSound'
<1>1. /\ pc \in [Client -> {"away", "queued", "built", "recv", "walk", "send",
                           "remove", "done", "dead"}]
      /\ data \in [Client -> Seq(Piece)] /\ rest \in [Client -> Seq(Piece)]
      /\ pos \in [Client -> Nat] /\ target \in [Client -> Client \cup {NoClient}]
  BY DEF HubInv, TypeOK
<1>2. /\ UNCHANGED <<connections, rx, out, sent>>
      /\ pc'[c] \in {"recv", "dead"} /\ data'[c] = <<>> /\ rest'[c] = <<>>
  BY <1>1 DEF EndOfList, SendallFails, LoopLeft, ReadAgain, sockets
<1>3. \A w \in Client \ {c} :
        /\ pc'[w] = pc[w] /\ data'[w] = data[w] /\ rest'[w] = rest[w]
        /\ pos'[w] = pos[w] /\ target'[w] = target[w]
  BY <1>1 DEF EndOfList, SendallFails, LoopLeft
<1>4. Pipeline'
  BY <1>2, <1>3 DEF StreamSound, Pipeline, Own, Precedes
<1>5. Handed'
  BY <1>2, <1>3 DEF StreamSound, Handed, Follows
<1>6. \A w \in Client \ {c} : Ahead(w)' = Ahead(w)
  BY <1>2, <1>3 DEF Ahead
<1>7. ASSUME NEW w \in Client, Walking(w)'
      PROVE  w # c /\ Walking(w) /\ data'[w] = data[w] /\ rest'[w] = rest[w]
             /\ target'[w] = target[w] /\ Ahead(w)' = Ahead(w) /\ pc'[w] = pc[w]
  BY <1>2, <1>3, <1>6, <1>7 DEF Walking
<1>8. ASSUME NEW w \in Client, pc'[w] = "send"
      PROVE  /\ Follows(rest[w], target[w], w)'
             /\ target'[w] \notin Ahead(w)'
             /\ pc'[target'[w]] \notin {"away", "queued"}
  <2>1. pc[w] = "send" /\ target[w] \in Client
    BY <1>7, <1>8 DEF Walking, HubInv, TargetSound
  <2>2. pc'[target[w]] \notin {"away", "queued"}
    BY <1>2, <1>3, <2>1 DEF StreamSound, NothingTwice
  <2> QED BY <1>2, <1>7, <1>8, <2>1, <2>2 DEF StreamSound, NothingTwice, Follows, Walking
<1>9. NothingTwice'
  BY <1>2, <1>7, <1>8 DEF StreamSound, NothingTwice, Follows
<1>10. StreamsInOrder'
  BY <1>2 DEF StreamSound, StreamsInOrder
<1> QED BY <1>4, <1>5, <1>9, <1>10 DEF StreamSound

(* What a client sends has a higher number than everything before. *)
LEMMA StreamClient ==
  ASSUME HubInv, StreamSound, NEW c \in Client, NEW utf8 \in BOOLEAN, ClientSends(c, utf8)
  PROVE  StreamSound'
<1> DEFINE piece == [from |-> c, n |-> sent[c] + 1, utf8 |-> utf8]
           n == Len(rx[c])
<1>1. rx \in [Client -> Seq(Piece)] /\ sent \in [Client -> 0 .. MaxSend] /\ MaxSend \in Nat
  BY BoundAssumption DEF HubInv, TypeOK
<1>2. /\ UNCHANGED <<connections, pc, data, rest, pos, target, out>> /\ sent[c] < MaxSend
      /\ sent' = [sent EXCEPT ![c] = sent[c] + 1]
      /\ rx' = [rx EXCEPT ![c] = Append(rx[c], piece)]
  BY DEF ClientSends, threads
<1>3. /\ sent'[c] = sent[c] + 1 /\ rx'[c] = Append(rx[c], piece)
      /\ \A w \in Client \ {c} : sent'[w] = sent[w] /\ rx'[w] = rx[w]
      /\ piece.from = c /\ piece.n = sent[c] + 1 /\ piece \in Piece
  BY <1>1, <1>2 DEF Piece
<1> HIDE DEF piece
<1>4. /\ n \in Nat /\ DOMAIN rx[c] = 1 .. n /\ DOMAIN rx'[c] = 1 .. n + 1
      /\ \A i \in 1 .. n : rx'[c][i] = rx[c][i]
      /\ rx'[c][n + 1] = piece
  BY <1>1, <1>3, AppendProperties, LenProperties
<1> HIDE DEF n
<1>5. \A w \in Client : sent[w] \in Nat /\ sent'[w] \in Nat /\ sent[w] <= sent'[w]
  <2>1. \A w \in Client : sent[w] \in Nat
    BY PieceFacts
  <2> QED BY <1>3, <2>1
<1>6. ASSUME NEW w \in Client, NEW s \in {rx[w], data[w], rest[w], out[w]}, NEW i \in DOMAIN s
      PROVE  s[i].n \in Nat /\ s[i].from \in Client
  BY <1>6, PieceFacts
<1>7. \A i \in 1 .. n + 1 : i \in 1 .. n \/ i = n + 1
  BY <1>4
<1>8. Own(rx[c], c)'
  <2>1. Own(rx[c], c)
    BY DEF StreamSound, Pipeline
  <2>2. ASSUME NEW i \in 1 .. n
        PROVE  rx'[c][i].n \in Nat /\ rx'[c][i].n < piece.n /\ rx'[c][i].from = c
    <3>1. rx[c][i].n \in Nat
      BY <1>4, <1>6
    <3>2. rx[c][i].n <= sent[c] /\ rx[c][i].from = c /\ rx'[c][i] = rx[c][i]
      BY <1>4, <2>1 DEF Own
    <3> QED BY <1>3, <1>5, <3>1, <3>2
  <2>3. \A i \in 1 .. n + 1 : rx'[c][i].from = c /\ rx'[c][i].n <= sent'[c]
    BY <1>3, <1>4, <1>5, <1>7, <2>2
  <2>4. ASSUME NEW i \in 1 .. n + 1, NEW j \in 1 .. n + 1, i < j
        PROVE  rx'[c][i].n < rx'[c][j].n
    <3>1. i \in 1 .. n
      BY <1>4, <2>4
    <3>2. CASE j \in 1 .. n
      BY <1>4, <2>1, <2>4, <3>1, <3>2 DEF Own
    <3>3. CASE j = n + 1
      BY <1>4, <2>2, <3>1, <3>3
    <3> QED BY <1>7, <3>2, <3>3
  <2> QED BY <1>4, <2>3, <2>4 DEF Own
<1>9. ASSUME NEW w \in Client, NEW s \in {rx[w], data[w], rest[w]}, Own(s, w)
      PROVE  \A i \in DOMAIN s : s[i].from = w /\ s[i].n <= sent'[w]
  BY <1>5, <1>6, <1>9 DEF Own
<1>10. ASSUME NEW s \in {data[c], rest[c]}, Own(s, c), Precedes(s, rx[c])
       PROVE  Precedes(s, rx'[c])
  <2>1. \A i \in DOMAIN s : s[i].n < piece.n
    BY <1>3, <1>5, <1>6, <1>10 DEF Own
  <2> QED BY <1>4, <1>7, <1>10, <2>1 DEF Precedes
<1>11. Pipeline'
  <2>1. ASSUME NEW w \in Client PROVE Own(data[w], w)' /\ Own(rest[w], w)'
    BY <1>2, <1>9 DEF StreamSound, Pipeline, Own
  <2>2. ASSUME NEW w \in Client PROVE Own(rx[w], w)'
    <3>1. CASE w = c
      BY <1>8, <3>1 DEF Own
    <3>2. CASE w # c
      BY <1>3, <3>2 DEF StreamSound, Pipeline, Own
    <3> QED BY <3>1, <3>2
  <2>3. ASSUME NEW w \in Client PROVE Precedes(data[w], rx[w])' /\ Precedes(rest[w], rx[w])'
    BY <1>2, <1>3, <1>10 DEF StreamSound, Pipeline, Precedes
  <2> QED BY <2>1, <2>2, <2>3 DEF Pipeline
<1>12. Handed'
  <2>1. ASSUME NEW d \in Client, NEW i \in DOMAIN out[d]
        PROVE  /\ out[d][i].from # d /\ out[d][i].n <= sent[out[d][i].from]
               /\ out[d][i].n <= sent'[out[d][i].from]
    BY <1>5, <1>6 DEF StreamSound, Handed
  <2>2. ASSUME NEW d \in Client PROVE Follows(rx'[c], d, c)
    <3>1. \A i \in DOMAIN out[d] : out[d][i].from = c => out[d][i].n < piece.n
      BY <1>3, <1>5, <1>6, <2>1
    <3>2. Follows(rx[c], d, c)
      BY DEF StreamSound, Handed
    <3> QED BY <1>4, <1>7, <3>1, <3>2 DEF Follows
  <2>3. ASSUME NEW d \in Client, NEW w \in Client PROVE Follows(rx[w], d, w)'
    BY <1>2, <1>3, <2>2 DEF StreamSound, Handed, Follows
  <2> QED BY <1>2, <2>1, <2>3 DEF StreamSound, Handed
<1>13. NothingTwice' /\ StreamsInOrder'
  BY <1>2 DEF StreamSound, NothingTwice, StreamsInOrder, Walking, Ahead, Follows
<1> QED BY <1>11, <1>12, <1>13 DEF StreamSound

(* The two parts of a sequence. *)
LEMMA PartsFacts ==
  ASSUME NEW s \in Seq(Piece), NEW n \in 1 .. Len(s)
  PROVE  /\ SubSeq(s, 1, n) \in Seq(Piece) /\ Len(SubSeq(s, 1, n)) = n
         /\ \A k \in 1 .. n : SubSeq(s, 1, n)[k] = s[k]
         /\ SubSeq(s, n + 1, Len(s)) \in Seq(Piece)
         /\ Len(SubSeq(s, n + 1, Len(s))) = Len(s) - n
         /\ \A k \in 1 .. Len(s) - n : SubSeq(s, n + 1, Len(s))[k] = s[n + k]
<1>1. Len(s) \in Nat /\ n \in Nat /\ 1 <= n /\ n <= Len(s)
      /\ \A k \in 1 .. Len(s) : s[k] \in Piece
  BY LenProperties, ElementOfSeq
<1>2. /\ SubSeq(s, 1, n) \in Seq(Piece) /\ Len(SubSeq(s, 1, n)) = n
      /\ \A k \in 1 .. n : SubSeq(s, 1, n)[k] = s[k]
  <2>1. 1 \in Int /\ n \in Int /\ \A k \in 1 .. n : s[k] \in Piece
    BY <1>1
  <2>2. /\ SubSeq(s, 1, n) \in Seq(Piece)
        /\ Len(SubSeq(s, 1, n)) = IF 1 <= n THEN n - 1 + 1 ELSE 0
        /\ \A k \in 1 .. n - 1 + 1 : SubSeq(s, 1, n)[k] = s[1 + k - 1]
    BY <2>1, SubSeqProperties
  <2> QED BY <1>1, <2>2
<1>3. /\ SubSeq(s, n + 1, Len(s)) \in Seq(Piece)
      /\ Len(SubSeq(s, n + 1, Len(s))) = Len(s) - n
      /\ \A k \in 1 .. Len(s) - n : SubSeq(s, n + 1, Len(s))[k] = s[n + k]
  <2>1. n + 1 \in Int /\ Len(s) \in Int /\ \A k \in n + 1 .. Len(s) : s[k] \in Piece
    BY <1>1
  <2>2. /\ SubSeq(s, n + 1, Len(s)) \in Seq(Piece)
        /\ Len(SubSeq(s, n + 1, Len(s))) = IF n + 1 <= Len(s) THEN Len(s) - (n + 1) + 1 ELSE 0
        /\ \A k \in 1 .. Len(s) - (n + 1) + 1 : SubSeq(s, n + 1, Len(s))[k] = s[n + 1 + k - 1]
    BY <2>1, SubSeqProperties
  <2> QED BY <1>1, <2>2
<1> QED BY <1>2, <1>3

(* sendall hands over pieces that follow on what the receiver has, and      *)
(* keeps those that follow on these.                                        *)
LEMMA StreamSendall ==
  ASSUME HubInv, StreamSound, NEW c \in Client, Sendall(c) PROVE StreamSound'
<1> DEFINE t == target[c]
           r == rest[c]
           m == Taken(c)
           n == Len(out[t])
<1>1. /\ t \in Client \ {c} /\ m \in 1 .. Len(r) /\ Len(r) \in Nat /\ r \in Seq(Piece)
      /\ pc[c] = "send"
  BY TakenFacts DEF Sendall, HubInv, TypeOK
<1>2. /\ pc \in [Client -> {"away", "queued", "built", "recv", "walk", "send",
                           "remove", "done", "dead"}]
      /\ rest \in [Client -> Seq(Piece)] /\ out \in [Client -> Seq(Piece)]
      /\ target \in [Client -> Client \cup {NoClient}]
  BY DEF HubInv, TypeOK
<1>3. /\ UNCHANGED <<connections, data, pos, rx, sent>>
      /\ rest' = [rest EXCEPT ![c] = SubSeq(r, m + 1, Len(r))]
      /\ out' = [out EXCEPT ![t] = out[t] \o SubSeq(r, 1, m)]
  BY DEF Sendall
<1>4. /\ pc'[c] \in {"walk", "send"} /\ (pc'[c] = "send" => target'[c] = t)
      /\ \A w \in Client \ {c} : pc'[w] = pc[w] /\ target'[w] = target[w]
  BY <1>2 DEF Sendall
<1> HIDE DEF m
<1>5. /\ rest'[c] \in Seq(Piece) /\ Len(rest'[c]) = Len(r) - m
      /\ DOMAIN rest'[c] = 1 .. Len(r) - m
      /\ \A k \in 1 .. Len(r) - m : rest'[c][k] = r[m + k]
      /\ \A w \in Client \ {c} : rest'[w] = rest[w]
  BY <1>1, <1>2, <1>3, PartsFacts, LenProperties
<1>6. /\ n \in Nat /\ DOMAIN out[t] = 1 .. n /\ DOMAIN out'[t] = 1 .. n + m
      /\ \A k \in 1 .. n : out'[t][k] = out[t][k]
      /\ \A k \in 1 .. m : out'[t][n + k] = r[k]
      /\ \A d \in Client \ {t} : out'[d] = out[d]
  <2>1. /\ SubSeq(r, 1, m) \in Seq(Piece) /\ Len(SubSeq(r, 1, m)) = m
        /\ \A k \in 1 .. m : SubSeq(r, 1, m)[k] = r[k]
    BY <1>1, PartsFacts
  <2>2. out[t] \in Seq(Piece) /\ n \in Nat /\ DOMAIN out[t] = 1 .. n
    BY <1>1, <1>2, LenProperties
  <2>3. /\ out[t] \o SubSeq(r, 1, m) \in Seq(Piece)
        /\ Len(out[t] \o SubSeq(r, 1, m)) = n + m
        /\ \A k \in 1 .. n + m : (out[t] \o SubSeq(r, 1, m))[k] =
             IF k <= n THEN out[t][k] ELSE SubSeq(r, 1, m)[k - n]
    BY <2>1, <2>2, ConcatProperties
  <2>4. DOMAIN (out[t] \o SubSeq(r, 1, m)) = 1 .. n + m
    BY <2>3, LenProperties
  <2>5. out'[t] = out[t] \o SubSeq(r, 1, m) /\ \A d \in Client \ {t} : out'[d] = out[d]
    BY <1>1, <1>2, <1>3
  <2>6. ASSUME NEW k \in 1 .. n PROVE out'[t][k] = out[t][k]
    <3>1. k \in 1 .. n + m /\ k <= n
      BY <1>1, <2>2
    <3> QED BY <2>3, <2>5, <3>1
  <2>7. ASSUME NEW k \in 1 .. m PROVE out'[t][n + k] = r[k]
    <3>1. n + k \in 1 .. n + m /\ ~(n + k <= n) /\ n + k - n = k
      BY <1>1, <2>2
    <3> QED BY <2>1, <2>3, <2>5, <3>1
  <2> QED BY <2>2, <2>4, <2>5, <2>6, <2>7
<1>7. /\ DOMAIN r = 1 .. Len(r) /\ \A k \in 1 .. Len(r) : r[k].n \in Nat
      /\ Own(r, c) /\ Precedes(r, rx[c]) /\ Follows(r, t, c)
      /\ t \notin Ahead(c) /\ pc[t] \notin {"away", "queued"}
  BY <1>1, PieceFacts DEF StreamSound, Pipeline, NothingTwice
<1> HIDE DEF t, r, n
<1>8. \A k \in 1 .. Len(r) - m : m + k \in 1 .. Len(r)
  BY <1>1
<1>9. \A k \in 1 .. n + m : k \in 1 .. n \/ \E j \in 1 .. m : k = n + j
  <2>1. \A k \in 1 .. n + m : k \in 1 .. n \/ (k - n \in 1 .. m /\ k = n + (k - n))
    BY <1>1, <1>6
  <2> QED BY <2>1
<1>10. \A k \in 1 .. m : k \in 1 .. Len(r) /\ r[k].from = c /\ r[k].n <= sent[c]
  BY <1>1, <1>7 DEF Own
<1>11. Pipeline'
  <2>1. Own(rest[c], c)'
    <3>1. \A k \in 1 .. Len(r) - m : rest'[c][k].from = c /\ rest'[c][k].n <= sent[c]
      BY <1>5, <1>7, <1>8 DEF Own
    <3>2. ASSUME NEW j \in 1 .. Len(r) - m, NEW k \in 1 .. Len(r) - m, j < k
          PROVE  rest'[c][j].n < rest'[c][k].n
      <4>1. m + j \in DOMAIN r /\ m + k \in DOMAIN r /\ m + j < m + k
        BY <1>1, <1>7, <1>8, <3>2
      <4>2. r[m + j].n < r[m + k].n
        BY <1>7, <4>1 DEF Own
      <4> QED BY <1>5, <4>2
    <3> QED BY <1>3, <1>5, <3>1, <3>2 DEF Own
  <2>2. Precedes(rest[c], rx[c])'
    BY <1>3, <1>5, <1>7, <1>8 DEF Precedes
  <2>3. ASSUME NEW w \in Client
        PROVE  /\ Own(rx[w], w)' /\ Own(data[w], w)' /\ Own(rest[w], w)'
               /\ Precedes(data[w], rx[w])' /\ Precedes(rest[w], rx[w])'
    <3>1. /\ Own(rx[w], w) /\ Own(data[w], w) /\ Own(rest[w], w)
          /\ Precedes(data[w], rx[w]) /\ Precedes(rest[w], rx[w])
      BY DEF StreamSound, Pipeline
    <3>2. Own(rx[w], w)' /\ Own(data[w], w)' /\ Precedes(data[w], rx[w])'
      BY <1>3, <3>1 DEF Own, Precedes
    <3>3. CASE w = c
      BY <2>1, <2>2, <3>2, <3>3 DEF Own, Precedes
    <3>4. CASE w # c
      BY <1>3, <1>5, <3>1, <3>2, <3>4 DEF Own, Precedes
    <3> QED BY <3>3, <3>4
  <2> QED BY <2>3 DEF Pipeline
<1>12. ASSUME NEW w \in Client, w # c, NEW d \in Client, NEW s, Follows(s, d, w)
       PROVE  Follows(s, d, w)'
  <2>1. CASE d # t
    BY <1>6, <1>12, <2>1 DEF Follows
  <2>2. CASE d = t
    <3>1. \A k \in 1 .. n + m : out'[t][k].from = w => k \in 1 .. n
      BY <1>6, <1>9, <1>10, <1>12
    <3> QED BY <1>6, <1>12, <2>2, <3>1 DEF Follows
  <2> QED BY <2>1, <2>2
<1>13. ASSUME NEW s, Follows(s, t, c), \A k \in 1 .. m, j \in DOMAIN s : r[k].n < s[j].n
       PROVE  \A k \in DOMAIN out'[t], j \in DOMAIN s :
                out'[t][k].from = c => out'[t][k].n < s[j].n
  BY <1>6, <1>9, <1>13 DEF Follows
<1>14. ASSUME NEW d \in Client, NEW k \in DOMAIN out'[d]
       PROVE  out'[d][k].from # d /\ out'[d][k].n <= sent[out'[d][k].from]
  <2>1. CASE d # t
    BY <1>6, <1>14, <2>1 DEF StreamSound, Handed
  <2>2. CASE d = t
    <3>1. CASE k \in 1 .. n
      BY <1>6, <2>2, <3>1 DEF StreamSound, Handed
    <3>2. CASE \E j \in 1 .. m : k = n + j
      <4>1. PICK j \in 1 .. m : k = n + j
        BY <3>2
      <4>2. out'[d][k] = r[j] /\ r[j].from = c /\ r[j].n <= sent[c]
        BY <1>6, <1>10, <2>2, <4>1
      <4> QED BY <1>1, <2>2, <4>2 DEF t
    <3> QED BY <1>6, <1>9, <1>14, <2>2, <3>1, <3>2
  <2> QED BY <2>1, <2>2
<1>15. Handed'
  <2>1. ASSUME NEW d \in Client, NEW w \in Client PROVE Follows(rx[w], d, w)'
    <3>1. Follows(rx[w], d, w) /\ rx'[w] = rx[w]
      BY <1>3 DEF StreamSound, Handed
    <3>2. CASE w # c
      BY <1>3, <1>12, <3>1, <3>2 DEF Follows
    <3>3. CASE w = c /\ d # t
      BY <1>3, <1>6, <3>1, <3>3 DEF Follows
    <3>4. CASE w = c /\ d = t
      <4>1. \A k \in 1 .. m, j \in DOMAIN rx[c] : r[k].n < rx[c][j].n
        BY <1>7, <1>10 DEF Precedes
      <4>2. \A k \in DOMAIN out'[t], j \in DOMAIN rx[c] :
              out'[t][k].from = c => out'[t][k].n < rx[c][j].n
        BY <1>13, <3>1, <3>4, <4>1
      <4> QED BY <1>3, <3>4, <4>2 DEF Follows
    <3> QED BY <3>2, <3>3, <3>4
  <2>2. ASSUME NEW d \in Client, pc'[d] \in {"away", "queued"} PROVE out'[d] = <<>>
    <3>1. d # c /\ pc[d] \in {"away", "queued"}
      BY <1>4, <2>2
    <3>2. d # t /\ out[d] = <<>>
      BY <1>7, <3>1 DEF StreamSound, Handed
    <3> QED BY <1>6, <3>2
  <2> QED BY <1>3, <1>14, <2>1, <2>2 DEF Handed
<1>16. \A w \in Client : Ahead(w)' = Ahead(w) /\ Ahead(w) \subseteq Client
  BY <1>3, ListFacts DEF Ahead
<1>17. ASSUME NEW w \in Client, Walking(w)', NEW d \in Ahead(w)' PROVE Follows(data[w], d, w)'
  <2>1. Walking(w) /\ d \in Ahead(w) /\ d \in Client
    BY <1>1, <1>4, <1>16, <1>17 DEF Walking
  <2>2. Follows(data[w], d, w) /\ data' = data
    BY <1>3, <2>1 DEF StreamSound, NothingTwice
  <2>3. CASE w = c
    <3>1. d # t
      BY <1>7, <2>1, <2>3
    <3> QED BY <1>6, <2>1, <2>2, <3>1 DEF Follows
  <2>4. CASE w # c
    BY <1>12, <2>1, <2>2, <2>4 DEF Follows
  <2> QED BY <2>3, <2>4
<1>18. ASSUME NEW w \in Client, pc'[w] = "send"
       PROVE  /\ Follows(rest[w], target[w], w)'
              /\ target'[w] \notin Ahead(w)'
              /\ pc'[target'[w]] \notin {"away", "queued"}
  <2>1. CASE w = c
    <3>1. target'[c] = t
      BY <1>4, <1>18, <2>1
    <3>2. \A k \in 1 .. m, j \in 1 .. Len(r) - m : k < m + j /\ k \in 1 .. Len(r)
      BY <1>1
    <3>3. \A k \in 1 .. m, j \in DOMAIN rest'[c] : r[k].n < rest'[c][j].n
      BY <1>5, <1>7, <1>8, <3>2 DEF Own
    <3>4. Follows(rest'[c], t, c)
      BY <1>5, <1>7, <1>8 DEF Follows
    <3>5. \A k \in DOMAIN out'[t], j \in DOMAIN rest'[c] :
            out'[t][k].from = c => out'[t][k].n < rest'[c][j].n
      BY <1>13, <3>3, <3>4
    <3>6. pc'[t] \notin {"away", "queued"}
      BY <1>1, <1>4, <1>7
    <3> QED BY <1>7, <1>16, <2>1, <3>1, <3>5, <3>6 DEF Follows
  <2>2. CASE w # c
    <3>1. pc[w] = "send" /\ target'[w] = target[w] /\ rest'[w] = rest[w]
      BY <1>4, <1>5, <1>18, <2>2
    <3>2. target[w] \in Client
      BY <3>1 DEF HubInv, TargetSound
    <3>3. /\ Follows(rest[w], target[w], w) /\ target[w] \notin Ahead(w)
          /\ pc[target[w]] \notin {"away", "queued"}
      BY <3>1 DEF StreamSound, NothingTwice
    <3>4. pc'[target[w]] \notin {"away", "queued"}
      BY <1>4, <3>2, <3>3
    <3>5. \A k \in DOMAIN out'[target[w]], j \in DOMAIN rest[w] :
            out'[target[w]][k].from = w => out'[target[w]][k].n < rest[w][j].n
      BY <1>12, <2>2, <3>2, <3>3 DEF Follows
    <3> QED BY <1>16, <3>1, <3>3, <3>4, <3>5 DEF Follows
  <2> QED BY <2>1, <2>2
<1>19. NothingTwice'
  BY <1>17, <1>18 DEF NothingTwice
<1>20. ASSUME NEW i \in DOMAIN out'[t], NEW j \in DOMAIN out'[t], i < j,
              out'[t][i].from = out'[t][j].from
       PROVE  out'[t][i].n < out'[t][j].n
  <2>1. CASE j \in 1 .. n
    <3>1. i \in 1 .. n
      BY <1>1, <1>6, <1>20, <2>1
    <3> QED BY <1>1, <1>6, <1>20, <2>1, <3>1 DEF StreamSound, StreamsInOrder
  <2>2. CASE \E k \in 1 .. m : j = n + k
    <3>1. PICK k \in 1 .. m : j = n + k
      BY <2>2
    <3>2. out'[t][j] = r[k] /\ k \in 1 .. Len(r) /\ r[k].from = c
      BY <1>6, <1>10, <3>1
    <3>3. CASE i \in 1 .. n
      BY <1>6, <1>7, <1>20, <3>2, <3>3 DEF Follows
    <3>4. CASE \E l \in 1 .. m : i = n + l
      <4>1. PICK l \in 1 .. m : i = n + l
        BY <3>4
      <4>2. l < k /\ out'[t][i] = r[l] /\ l \in 1 .. Len(r)
        BY <1>1, <1>6, <1>10, <1>20, <3>1, <4>1
      <4> QED BY <1>7, <3>2, <4>2 DEF Own
    <3> QED BY <1>6, <1>9, <1>20, <3>3, <3>4
  <2> QED BY <1>6, <1>9, <1>20, <2>1, <2>2
<1>21. StreamsInOrder'
  <2>1. ASSUME NEW d \in Client, NEW i \in DOMAIN out'[d], NEW j \in DOMAIN out'[d], i < j,
               out'[d][i].from = out'[d][j].from
        PROVE  out'[d][i].n < out'[d][j].n
    <3>1. CASE d = t
      BY <1>20, <2>1, <3>1
    <3>2. CASE d # t
      BY <1>6, <2>1, <3>2 DEF StreamSound, StreamsInOrder
    <3> QED BY <3>1, <3>2
  <2> QED BY <1>14, <2>1 DEF StreamsInOrder
<1> QED BY <1>11, <1>15, <1>19, <1>21 DEF StreamSound
-----------------------------------------------------------------------------
(* Nobody is handed a client's data twice, out of order, or its own data   *)
(* back, whatever the threads' interleaving and the list's changes          *)
(* (tcp.py:45-47).                                                          *)
THEOREM OrderKept == Spec => []StreamsInOrder
<1>1. Init => StreamSound
  BY DEF Init, StreamSound, Pipeline, Own, Precedes, Handed, Follows, NothingTwice,
         Walking, StreamsInOrder
<1>2. HubInv /\ StreamSound /\ [Next]_vars => StreamSound'
  <2> SUFFICES ASSUME HubInv, StreamSound, [Next]_vars PROVE StreamSound'
    OBVIOUS
  <2>1. \A w \in Client : pc[w] = "send" => target[w] \in Client
    BY DEF HubInv, TargetSound
  <2>2. pc \in [Client -> {"away", "queued", "built", "recv", "walk", "send",
                           "remove", "done", "dead"}]
    BY DEF HubInv, TypeOK
  <2>3. CASE UNCHANGED vars
    <3>1. UNCHANGED <<connections, pc, pos, target, rx, data, rest, out, sent>>
      BY <2>3 DEF vars, threads, sockets, history
    <3> QED BY <2>1, <3>1, StreamKept DEF Walking, Ahead
  <2>4. CASE Accept
    <3>1. /\ UNCHANGED <<rx, data, rest, out, sent, target>>
          /\ \A w \in Client : pc'[w] = pc[w] \/ pc'[w] = "built"
      BY <2>2, <2>4 DEF Accept, sockets, history
    <3>2. \A w \in Client : Ahead(w)' \subseteq Ahead(w) \cup {d \in Client : pc[d] = "queued"}
      BY <2>4, AheadAccept
    <3> QED BY <2>1, <3>1, <3>2, StreamKept DEF Walking
  <2>5. CASE ComputeIndex \/ Announce \/ IndexError
    <3>1. UNCHANGED <<connections, pc, pos, target, rx, data, rest, out, sent>>
      BY <2>5 DEF ComputeIndex, Announce, IndexError, threads, sockets, history
    <3> QED BY <2>1, <3>1, StreamKept DEF Walking, Ahead
  <2>6. CASE Start
    <3>1. /\ UNCHANGED <<connections, pos, target, rx, data, rest, out, sent>>
          /\ \A w \in Client : pc'[w] = pc[w] \/ pc'[w] = "recv"
      BY <2>2, <2>6 DEF Start, sockets, history
    <3> QED BY <2>1, <3>1, StreamKept DEF Walking, Ahead
  <2>7. ASSUME NEW c \in Client, RecvNothing(c) \/ RecvFails(c) PROVE StreamSound'
    <3>1. /\ UNCHANGED <<connections, pos, target, rx, data, rest, out, sent>>
          /\ \A w \in Client : pc'[w] = pc[w] \/ pc'[w] = "remove"
      BY <2>2, <2>7 DEF RecvNothing, RecvFails, vars, threads, sockets, history
    <3> QED BY <2>1, <3>1, StreamKept DEF Walking, Ahead
  <2>8. ASSUME NEW c \in Client, RemoveSelf(c) PROVE StreamSound'
    <3>1. /\ UNCHANGED <<target, rx, data, rest, out, sent>>
          /\ \A w \in Client : pc'[w] = pc[w] \/ pc'[w] = "done"
      BY <2>2, <2>8 DEF RemoveSelf, sockets
    <3>2. \A w \in Client : Ahead(w)' \subseteq Ahead(w)
      BY <2>8, AheadRemove
    <3> QED BY <2>1, <3>1, <3>2, StreamKept DEF Walking
  <2>9. ASSUME NEW c \in Client, Connect(c) PROVE StreamSound'
    <3>1. /\ UNCHANGED <<connections, pos, target, rx, data, rest, out, sent>>
          /\ \A w \in Client : pc'[w] = pc[w] \/ (pc[w] = "away" /\ pc'[w] = "queued")
      BY <2>2, <2>9 DEF Connect, sockets, history
    <3> QED BY <2>1, <3>1, StreamKept DEF Walking, Ahead
  <2>10. ASSUME NEW c \in Client, ClientReads(c) \/ ClientCloses(c) \/ ClientResets(c)
         PROVE  StreamSound'
    <3>1. UNCHANGED <<connections, pc, pos, target, rx, data, rest, out, sent>>
      BY <2>10 DEF ClientReads, ClientCloses, ClientResets, threads, history
    <3> QED BY <2>1, <3>1, StreamKept DEF Walking, Ahead
  <2>11. ASSUME NEW c \in Client, ThreadStep(c) PROVE StreamSound'
    BY <2>7, <2>8, <2>11, StreamRecv, StreamNext, StreamLeft, StreamSendall DEF ThreadStep
  <2>12. ASSUME NEW c \in Client, ClientStep(c) PROVE StreamSound'
    BY <2>9, <2>10, <2>12, StreamClient DEF ClientStep
  <2> QED BY <2>3, <2>4, <2>5, <2>6, <2>11, <2>12 DEF Next, AcceptorStep
<1>3. StreamSound => StreamsInOrder
  BY DEF StreamSound
<1> QED BY <1>1, <1>2, <1>3, HubInvariant, PTL DEF Spec

-----------------------------------------------------------------------------
(* The hub with serids as its clients *)

(* Inductive: a thread in its loop over the clients has data of its own    *)
(* client and is not sending to it, and what is on the way from a serid,   *)
(* its thread's data included, is not more than the serid has sent.        *)
Typed ==
  /\ rx \in [Client -> Seq(Piece)] /\ data \in [Client -> Seq(Piece)]
  /\ sent \in [Client -> Nat] /\ target = [c \in Client |-> target[c]]
  /\ pc \in [Client -> {"recv", "walk", "send", "remove", "done", "dead"}]

OnTheWay(c) ==
  /\ Walking(c) => Len(data[c]) >= 1 /\ Len(rx[c]) + Len(data[c]) <= sent[c]
  /\ Len(rx[c]) <= sent[c]
  /\ sent[c] > 0 => c \in Talkers
  /\ pc[c] = "send" => id[target[c]] # id[c]

TalkInv == Typed /\ \A c \in Client : OnTheWay(c)

LEMMA TalkInit == GatewayInit => TalkInv
<1> SUFFICES ASSUME GatewayInit PROVE TalkInv
  OBVIOUS
<1>1. Typed
  BY DEF GatewayInit, Typed
<1>2. ASSUME NEW c \in Client PROVE OnTheWay(c)
  <2>1. pc[c] = "recv" /\ rx[c] = <<>> /\ sent[c] = 0
    BY DEF GatewayInit
  <2> QED BY <2>1 DEF OnTheWay, Walking
<1> QED BY <1>1, <1>2 DEF TalkInv

(* A step that leaves alone what OnTheWay is about. *)
LEMMA TalkKept ==
  ASSUME TalkInv, rx' = rx, data' = data, sent' = sent, id' = id, target' = target,
         Typed', \A c \in Client : pc'[c] # pc[c] => pc'[c] \notin {"walk", "send"}
  PROVE  TalkInv'
<1>1. ASSUME NEW c \in Client PROVE OnTheWay(c)'
  BY DEF TalkInv, OnTheWay, Walking
<1> QED BY <1>1 DEF TalkInv

(* A step of the hub's thread of c only changes what it has of its own. *)
LEMMA ThreadTalk ==
  ASSUME TalkInv, NEW c \in Client, ThreadStep(c)
  PROVE  TalkInv'
<1>0. Typed /\ \A d \in Client : OnTheWay(d)
  BY DEF TalkInv
<1>1. CASE RecvNothing(c)
  BY <1>0, <1>1 DEF RecvNothing, vars, TalkInv, Typed, OnTheWay, Walking, acceptor, threads,
     sockets, history
<1>2. CASE Recv(c)
  <2>1. /\ rx' = [rx EXCEPT ![c] = <<>>] /\ data' = [data EXCEPT ![c] = rx[c]]
        /\ sent' = sent /\ id' = id /\ target' = target /\ rx[c] # <<>>
        /\ \E to \in {"walk", "dead"} : pc' = [pc EXCEPT ![c] = to]
    BY <1>2 DEF Recv
  <2>2. Typed'
    BY <1>0, <2>1 DEF Typed
  <2>3. ASSUME NEW d \in Client, d # c PROVE OnTheWay(d)'
    BY <1>0, <2>1, <2>3 DEF Typed, OnTheWay, Walking
  <2>4. OnTheWay(c)'
    <3>1. rx[c] \in Seq(Piece) /\ Len(rx[c]) \in Nat /\ Len(rx[c]) >= 1
      BY <1>0, <2>1 DEF Typed
    <3>2. Len(rx'[c]) = 0 /\ data'[c] = rx[c] /\ sent'[c] = sent[c] /\ pc'[c] # "send"
      BY <1>0, <2>1 DEF Typed
    <3>3. Len(rx[c]) <= sent[c] /\ sent[c] \in Nat /\ (sent[c] > 0 => c \in Talkers)
      BY <1>0 DEF Typed, OnTheWay
    <3> QED BY <3>1, <3>2, <3>3 DEF OnTheWay
  <2> QED BY <2>2, <2>3, <2>4 DEF TalkInv
<1>3. CASE RecvFails(c)
  <2>1. Typed'
    BY <1>0, <1>3 DEF RecvFails, Typed, history
  <2> QED BY <1>0, <1>3, <2>1, TalkKept DEF RecvFails, Typed, history
<1>4. CASE RemoveSelf(c)
  <2>1. Typed'
    BY <1>0, <1>4 DEF RemoveSelf, Typed, sockets
  <2> QED BY <1>0, <1>4, <2>1, TalkKept DEF RemoveSelf, Typed, sockets
<1>5. CASE NextClient(c)
  <2> DEFINE client == connections[pos[c] + 1]
  <2>1. rx' = rx /\ data' = data /\ sent' = sent /\ id' = id /\ pc[c] = "walk"
    BY <1>5 DEF NextClient, sockets, history
  <2>2. \/ pc' = pc /\ target' = target
        \/ /\ Other(c, client) /\ pc' = [pc EXCEPT ![c] = "send"]
           /\ target' = [target EXCEPT ![c] = client]
    BY <1>5 DEF NextClient
  <2>3. Typed'
    BY <1>0, <2>1, <2>2 DEF Typed
  <2>4. ASSUME NEW d \in Client PROVE OnTheWay(d)'
    <3>1. Walking(d)' => Walking(d)
      BY <1>0, <2>1, <2>2 DEF Walking, Typed
    <3>2. ASSUME pc'[d] = "send" PROVE id'[target'[d]] # id'[d]
      <4>1. CASE pc' = pc /\ target' = target
        BY <1>0, <2>1, <3>2, <4>1 DEF OnTheWay
      <4>2. CASE /\ Other(c, client) /\ pc' = [pc EXCEPT ![c] = "send"]
                 /\ target' = [target EXCEPT ![c] = client]
        <5>1. CASE d = c
          BY <1>0, <2>1, <4>2, <5>1 DEF Typed, Other
        <5>2. CASE d # c
          BY <1>0, <2>1, <3>2, <4>2, <5>2 DEF Typed, OnTheWay
        <5> QED BY <5>1, <5>2
      <4> QED BY <2>2, <4>1, <4>2
    <3> QED BY <1>0, <2>1, <3>1, <3>2 DEF OnTheWay
  <2> QED BY <2>3, <2>4 DEF TalkInv
<1>6. CASE EndOfList(c) \/ SendallFails(c)
  <2>1. /\ data' = [data EXCEPT ![c] = <<>>] /\ target' = [target EXCEPT ![c] = NoClient]
        /\ rx' = rx /\ sent' = sent /\ id' = id
        /\ \E to \in {"recv", "dead"} : pc' = [pc EXCEPT ![c] = to]
    BY <1>6 DEF EndOfList, SendallFails, LoopLeft, ReadAgain, sockets
  <2>2. Typed'
    <3>1. <<>> \in Seq(Piece)
      OBVIOUS
    <3>2. data' \in [Client -> Seq(Piece)] /\ target' = [d \in Client |-> target'[d]]
      BY <1>0, <2>1, <3>1 DEF Typed
    <3>3. pc' \in [Client -> {"recv", "walk", "send", "remove", "done", "dead"}]
      BY <1>0, <2>1 DEF Typed
    <3> QED BY <1>0, <2>1, <3>2, <3>3 DEF Typed
  <2>3. ASSUME NEW d \in Client PROVE OnTheWay(d)'
    BY <1>0, <2>1 DEF Typed, OnTheWay, Walking
  <2> QED BY <2>2, <2>3 DEF TalkInv
<1>7. CASE Sendall(c)
  <2>1. /\ data' = data /\ rx' = rx /\ sent' = sent /\ id' = id /\ pc[c] = "send"
        /\ \/ pc' = pc /\ target' = target
           \/ /\ pc' = [pc EXCEPT ![c] = "walk"]
              /\ target' = [target EXCEPT ![c] = NoClient]
    BY <1>7 DEF Sendall
  <2>2. Typed'
    BY <1>0, <2>1 DEF Typed
  <2>3. ASSUME NEW d \in Client PROVE OnTheWay(d)'
    BY <1>0, <2>1 DEF Typed, OnTheWay, Walking
  <2> QED BY <2>2, <2>3 DEF TalkInv
<1> QED BY <1>1, <1>2, <1>3, <1>4, <1>5, <1>6, <1>7 DEF ThreadStep

LEMMA TalkStep == TalkInv /\ [GatewayNext]_gatewayVars => TalkInv'
<1> SUFFICES ASSUME TalkInv, [GatewayNext]_gatewayVars PROVE TalkInv'
  OBVIOUS
<1>0. Typed /\ \A d \in Client : OnTheWay(d)
  BY DEF TalkInv
<1>1. ASSUME NEW c \in Client, HubStep(c) PROVE TalkInv'
  BY <1>1, ThreadTalk DEF HubStep
<1>2. ASSUME NEW c \in Client, SendUp(c) PROVE TalkInv'
  <2> DEFINE piece == [from |-> c, n |-> sent[c] + 1, utf8 |-> TRUE]
  <2>1. /\ c \in Talkers /\ sent[c] < MaxSend
        /\ sent' = [sent EXCEPT ![c] = sent[c] + 1]
        /\ rx' = [rx EXCEPT ![c] = Append(rx[c], piece)]
        /\ data' = data /\ pc' = pc /\ id' = id /\ target' = target
    BY <1>2 DEF SendUp, ClientSends, threads
  <2>2. sent[c] \in Nat /\ rx[c] \in Seq(Piece) /\ data[c] \in Seq(Piece)
    BY <1>0 DEF Typed
  <2>3. piece \in Piece
    <3>1. sent[c] + 1 \in 1 .. MaxSend
      BY <2>1, <2>2, BoundAssumption
    <3> QED BY <3>1 DEF Piece
  <2> HIDE DEF piece
  <2>4. Append(rx[c], piece) \in Seq(Piece) /\ Len(Append(rx[c], piece)) = Len(rx[c]) + 1
    BY <2>2, <2>3
  <2>5. Typed'
    BY <1>0, <2>1, <2>2, <2>4 DEF Typed
  <2>6. OnTheWay(c)'
    <3>1. Len(rx[c]) \in Nat /\ Len(data[c]) \in Nat
      BY <2>2
    <3>2. /\ sent'[c] = sent[c] + 1 /\ Len(rx'[c]) = Len(rx[c]) + 1 /\ data'[c] = data[c]
          /\ pc'[c] = pc[c] /\ id'[target'[c]] = id[target[c]] /\ id'[c] = id[c]
      BY <1>0, <2>1, <2>4 DEF Typed
    <3>3. /\ pc[c] \in {"walk", "send"} =>
                Len(data[c]) >= 1 /\ Len(rx[c]) + Len(data[c]) <= sent[c]
          /\ Len(rx[c]) <= sent[c]
          /\ pc[c] = "send" => id[target[c]] # id[c]
      BY <1>0 DEF OnTheWay, Walking
    <3>4. /\ pc'[c] \in {"walk", "send"} =>
                Len(data'[c]) >= 1 /\ Len(rx'[c]) + Len(data'[c]) <= sent'[c]
          /\ Len(rx'[c]) <= sent'[c]
      <4> DEFINE lrx == Len(rx[c])
                 ld == Len(data[c])
                 n == sent[c]
      <4>1. lrx \in Nat /\ ld \in Nat /\ n \in Nat /\ lrx <= n /\ (pc[c] \in {"walk", "send"} => ld >= 1 /\ lrx + ld <= n)
        BY <2>2, <3>1, <3>3
      <4>2. Len(data'[c]) = ld /\ Len(rx'[c]) = lrx + 1 /\ sent'[c] = n + 1 /\ pc'[c] = pc[c]
        BY <3>2
      <4> HIDE DEF lrx, ld, n
      <4> QED BY <4>1, <4>2
    <3>5. pc'[c] = "send" => id'[target'[c]] # id'[c]
      BY <3>2, <3>3
    <3> QED BY <2>1, <3>4, <3>5 DEF OnTheWay, Walking
  <2>7. ASSUME NEW d \in Client, d # c PROVE OnTheWay(d)'
    BY <1>0, <2>1, <2>7 DEF Typed, OnTheWay, Walking
  <2> QED BY <2>5, <2>6, <2>7 DEF TalkInv
<1>3. CASE UNCHANGED <<rx, data, sent, id, target, pc>>
  BY <1>0, <1>3, TalkKept DEF Typed
<1>4. ASSUME NEW c \in Client,
             ZigbeeRecv(c) \/ ClientRecv(c) \/ SendDown(c) \/ CoorReads(c) \/ Crash(c)
      PROVE  TalkInv'
  BY <1>3, <1>4 DEF ZigbeeRecv, ClientRecv, SendDown, CoorReads, Crash, ClientReads,
     ClientResets, vars, threads, sockets, history
<1>5. CASE UNCHANGED gatewayVars
  BY <1>3, <1>5 DEF gatewayVars, vars, threads, sockets, history
<1> QED BY <1>1, <1>2, <1>4, <1>5 DEF GatewayNext, SeridStep

LEMMA TalkEnough == TalkInv => CircleNeedsTalkers
<1> SUFFICES ASSUME TalkInv, NEW S \in SUBSET Client, Circle(S), NEW c \in S
             PROVE  target[c] # c /\ target[c] \in Talkers /\ sent[target[c]] > UpMax
  BY DEF CircleNeedsTalkers
<1> DEFINE d == target[c]
<1>1. c \in Client /\ d \in Client /\ d \in S
  BY DEF Circle
<1>2. pc[c] = "send" /\ pc[d] = "send" /\ Len(rx[d]) >= UpMax
  BY <1>1 DEF Circle, HubWaits, SeridWaits
<1>3. d # c
  BY <1>1, <1>2 DEF TalkInv, OnTheWay
<1>4. /\ Len(rx[d]) \in Nat /\ Len(data[d]) \in Nat /\ sent[d] \in Nat
      /\ Len(data[d]) >= 1 /\ Len(rx[d]) + Len(data[d]) <= sent[d]
      /\ sent[d] > 0 => d \in Talkers
  BY <1>1, <1>2 DEF TalkInv, Typed, OnTheWay, Walking
<1> HIDE DEF d
<1>5. sent[d] > UpMax /\ d \in Talkers
  <2> DEFINE lrx == Len(rx[d])
             ld == Len(data[d])
             n == sent[d]
  <2>1. /\ lrx \in Nat /\ ld \in Nat /\ n \in Nat /\ ld >= 1 /\ lrx + ld <= n
        /\ lrx >= UpMax /\ UpMax \in Nat
    BY <1>2, <1>4, GatewayAssumption
  <2> HIDE DEF lrx, ld, n
  <2>2. n > UpMax /\ n > 0
    BY <2>1
  <2> QED BY <1>4, <2>2 DEF n
<1> QED BY <1>3, <1>5 DEF d

(* main.c:304, tcp.py:47: serids and hub come to wait for each other only  *)
(* when two serids talk, and only with more on the way from each than the  *)
(* buffers hold, whatever the number of serids and the size of buffers.    *)
THEOREM HaltNeedsTalkers == GatewaySpec => []CircleNeedsTalkers
BY TalkInit, TalkStep, TalkEnough, PTL DEF GatewaySpec
=============================================================================
