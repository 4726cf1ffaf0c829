---------------------------- MODULE SeriCodecProofs ----------------------------
(***************************************************************************)
(* Proofs about the codec, for any frames in any order, cut into chunks    *)
(* anywhere: what a chunk's document and the command made of it say of the *)
(* frames in the stream.                                                   *)
(***************************************************************************)
EXTENDS SeriCodec, Recursion

-----------------------------------------------------------------------------
(* Numerals *)

LEMMA UshortIs == \A x : x \in Ushort <=> x \in Nat /\ x <= 65535
<1>1. USHRT_MAX \in Nat /\ USHRT_MAX <= 65535 /\ USHRT_MAX >= 65535
  BY DEF USHRT_MAX
<1> QED BY <1>1 DEF Ushort

LEMMA ByteIs == \A x : x \in Byte <=> x \in Nat /\ x <= 255
<1>1. UCHAR_MAX \in Nat /\ UCHAR_MAX <= 255 /\ UCHAR_MAX >= 255
  BY DEF UCHAR_MAX
<1> QED BY <1>1 DEF Byte

LEMMA NumberIs ==
  ASSUME NEW base \in Nat, NEW digits \in Seq(Nat)
  PROVE  \E n \in [0 .. Len(digits) -> Nat] :
           /\ Number(base, digits) = n[Len(digits)]
           /\ n[0] = 0
           /\ \A k \in 1 .. Len(digits) : n[k] = base * n[k - 1] + digits[k]
<1> DEFINE N == Len(digits)
           e(v, i) == base * v + digits[i]
           step == [x \in Nat \X (1 .. N) |-> e(x[1], x[2])]
           Solves(n) == n = [k \in 0 .. N |-> IF k = 0 THEN 0 ELSE base * n[k - 1] + digits[k]]
<1>1. N \in Nat /\ \A k \in 1 .. N : digits[k] \in Nat
  OBVIOUS
<1>2. ASSUME NEW v \in Nat, NEW i \in (0 + 1) .. N
      PROVE  step[<<v, i>>] = base * v + digits[i] /\ base * v + digits[i] \in Nat
  <2>1. i \in 1 .. N /\ <<v, i>> \in Nat \X (1 .. N)
    OBVIOUS
  <2>2. base * v \in Nat /\ digits[i] \in Nat
    BY <1>1, <2>1
  <2>3. e(v, i) = base * v + digits[i]
    BY Zenon
  <2>4. e(v, i) \in Nat
    BY <2>2, SMT
  <2> HIDE DEF e, N
  <2>5. step[<<v, i>>] = e(v, i)
    BY <2>1
  <2> QED BY <2>3, <2>4, <2>5
<1> HIDE DEF N
<1>3. PICK f \in [0 .. N -> Nat] : Iterates(f, 0, N, 0, step)
  <2> HIDE DEF step
  <2>1. Steps(Nat, 0, N, step)
    BY <1>2 DEF Steps
  <2>2. 0 \in Int /\ N \in Int /\ 0 \in Nat
    BY <1>1
  <2> QED BY <2>1, <2>2, Iteration
<1>4. ASSUME NEW k \in 0 .. N PROVE f[k] = IF k = 0 THEN 0 ELSE base * f[k - 1] + digits[k]
  <2>1. f[k] = IF k = 0 THEN 0 ELSE step[<<f[k - 1], k>>]
    BY <1>3 DEF Iterates
  <2>2. k # 0 => k - 1 \in 0 .. N /\ k \in (0 + 1) .. N
    BY <1>1
  <2>3. k # 0 => f[k - 1] \in Nat
    BY <2>2
  <2> HIDE DEF step
  <2> QED BY <1>2, <2>1, <2>2, <2>3
<1>5. Solves(f)
  BY <1>4
<1> DEFINE G == CHOOSE n : Solves(n)
<1>6. Solves(G)
  <2> HIDE DEF Solves
  <2> QED BY <1>5
<1>7. Number(base, digits) = G[N]
  BY Zenon DEF Number, N
<1> HIDE DEF G
<1>8. G \in [0 .. N -> Nat]
  <2> DEFINE T == {k \in 0 .. N : G[k] = f[k]}
  <2>1. \A k \in 0 .. N : G[k] = IF k = 0 THEN 0 ELSE base * G[k - 1] + digits[k]
    BY <1>6
  <2>2. 0 \in T
    BY <1>1, <1>4, <2>1
  <2>3. ASSUME NEW k \in 0 .. (N - 1), k \in T PROVE k + 1 \in T
    <3>1. k + 1 \in 0 .. N /\ k + 1 # 0 /\ (k + 1) - 1 = k /\ G[k] = f[k]
      BY <1>1, <2>3
    <3>2. G[k + 1] = base * G[k] + digits[k + 1] /\ f[k + 1] = base * f[k] + digits[k + 1]
      BY <1>4, <2>1, <3>1
    <3> QED BY <3>1, <3>2
  <2>4. 0 .. N \subseteq T
    <3>1. 0 \in Int /\ N \in Int
      BY <1>1
    <3> HIDE DEF T
    <3> QED BY <2>2, <2>3, <3>1, IntervalSet
  <2>5. \A k \in 0 .. N : G[k] \in Nat
    BY <2>4
  <2>6. G = [k \in 0 .. N |-> IF k = 0 THEN 0 ELSE base * G[k - 1] + digits[k]]
    BY <1>6
  <2> DEFINE next(k) == IF k = 0 THEN 0 ELSE base * G[k - 1] + digits[k]
  <2>7. G = [k \in 0 .. N |-> next(k)]
    BY <2>6
  <2> HIDE DEF next
  <2> QED BY <2>5, <2>7
<1>9. \A k \in 0 .. N : G[k] = IF k = 0 THEN 0 ELSE base * G[k - 1] + digits[k]
  BY <1>6
<1>10. G[0] = 0 /\ \A k \in 1 .. N : G[k] = base * G[k - 1] + digits[k]
  BY <1>1, <1>9
<1> QED BY <1>7, <1>8, <1>10 DEF N

(* What atoi reads is what "%05d" printed. *)
LEMMA DecimalRead ==
  ASSUME NEW n \in Ushort
  PROVE  atoi(Decimal(n)) = n
<1> DEFINE d == Decimal(n)
           a == n \div 10000
           b == (n \div 1000) % 10
           c == (n \div 100) % 10
           e == (n \div 10) % 10
           f == n % 10
<1>1. n \in Nat
  BY UshortIs
<1>2. a \in Nat /\ b \in Nat /\ c \in Nat /\ e \in Nat /\ f \in Nat
  BY <1>1
<1>3. d \in Seq(Nat) /\ Len(d) = 5 /\ d[1] = a /\ d[2] = b /\ d[3] = c /\ d[4] = e /\ d[5] = f
  <2> HIDE DEF a, b, c, e, f
  <2>1. d = <<a, b, c, e, f>>
    BY DEF Decimal, a, b, c, e, f
  <2> QED BY <1>2, <2>1
<1>4. n = 10 * (n \div 10) + f /\ n \div 10 \in Nat
  BY <1>1
<1>5. n \div 10 = 10 * (n \div 100) + e /\ n \div 100 \in Nat
  BY <1>1
<1>6. n \div 100 = 10 * (n \div 1000) + c /\ n \div 1000 \in Nat
  BY <1>1
<1>7. n \div 1000 = 10 * a + b
  BY <1>1
<1> HIDE DEF a, b, c, e, f, d
<1>8. PICK m \in [0 .. 5 -> Nat] :
        /\ Number(10, d) = m[5] /\ m[0] = 0
        /\ \A k \in 1 .. 5 : m[k] = 10 * m[k - 1] + d[k]
  <2>1. 10 \in Nat /\ d \in Seq(Nat) /\ Len(d) = 5
    BY <1>3
  <2>2. \E m \in [0 .. Len(d) -> Nat] :
          /\ Number(10, d) = m[Len(d)] /\ m[0] = 0
          /\ \A k \in 1 .. Len(d) : m[k] = 10 * m[k - 1] + d[k]
    BY <2>1, NumberIs
  <2> QED BY <2>1, <2>2
<1>9. m[1] = a
  BY <1>2, <1>3, <1>8
<1>10. m[2] = 10 * a + b
  BY <1>2, <1>3, <1>8, <1>9
<1>11. m[3] = 10 * (n \div 1000) + c
  BY <1>2, <1>3, <1>7, <1>8, <1>10
<1>12. m[4] = 10 * (n \div 100) + e
  BY <1>2, <1>3, <1>6, <1>8, <1>11
<1>13. m[5] = n
  BY <1>2, <1>3, <1>4, <1>5, <1>8, <1>12
<1> QED BY <1>8, <1>13 DEF atoi, d

(* Two characters of "%02x" are one byte again. *)
LEMMA HexRead ==
  ASSUME NEW b \in Byte, NEW s, s = <<HexChar(b \div 16), HexChar(b % 16)>>
  PROVE  hextodec(s) = b
<1> DEFINE h == b \div 16
           l == b % 16
           d == [i \in DOMAIN s |-> Digit(s[i])]
<1>1. h \in Nat /\ h <= 15 /\ l \in Nat /\ l <= 15 /\ b = 16 * h + l
  BY ByteIs
<1>2. s = <<HexChar(h), HexChar(l)>>
  OBVIOUS
<1> HIDE DEF h, l
<1>3. Digit(HexChar(h)) = h /\ Digit(HexChar(l)) = l
  BY <1>1 DEF HexChar, Digit
<1>4. DOMAIN s = 1 .. 2 /\ s[1] = HexChar(h) /\ s[2] = HexChar(l)
  BY <1>2
<1>5. d = <<h, l>>
  <2>1. d = [i \in 1 .. 2 |-> Digit(s[i])]
    BY <1>4
  <2>2. d[1] = h /\ d[2] = l
    BY <1>3, <1>4, <2>1
  <2> QED BY <2>1, <2>2
<1> HIDE DEF d
<1>6. 16 \in Nat /\ d \in Seq(Nat) /\ Len(d) = 2
  BY <1>1, <1>5
<1>7. \E m \in [0 .. Len(d) -> Nat] :
        /\ Number(16, d) = m[Len(d)] /\ m[0] = 0
        /\ \A k \in 1 .. Len(d) : m[k] = 16 * m[k - 1] + d[k]
  BY <1>6, NumberIs
<1>8. PICK m \in [0 .. 2 -> Nat] :
        /\ Number(16, d) = m[2] /\ m[0] = 0
        /\ \A k \in 1 .. 2 : m[k] = 16 * m[k - 1] + d[k]
  BY <1>6, <1>7
<1>9. m[1] = h
  <2>1. m[1] = 16 * m[0] + d[1]
    BY <1>8
  <2> QED BY <1>1, <1>5, <1>8, <2>1
<1>10. m[2] = b
  <2>1. m[2] = 16 * m[1] + d[2]
    BY <1>8
  <2> QED BY <1>1, <1>5, <1>9, <2>1
<1> QED BY <1>8, <1>10 DEF hextodec, d

(* Bytes of an address in either order. *)
LEMMA Orders ==
  ASSUME NEW a \in Byte, NEW b \in Byte
  PROVE  /\ 256 * a + b \in Ushort /\ Swapped(256 * a + b) = a + 256 * b
         /\ a + 256 * b \in Ushort /\ Low(a + 256 * b) = a /\ High(a + 256 * b) = b
<1>1. a \in Nat /\ a <= 255 /\ b \in Nat /\ b <= 255
  BY ByteIs
<1>2. (256 * a + b) \div 256 = a /\ (256 * a + b) % 256 = b
  BY <1>1
<1>3. (a + 256 * b) \div 256 = b /\ (a + 256 * b) % 256 = a
  BY <1>1
<1> DEFINE m == 256 * a + b
           n == a + 256 * b
<1>4. m \in Ushort /\ n \in Ushort
  BY <1>1, UshortIs
<1>5. m \div 256 = a /\ m % 256 = b /\ n \div 256 = b /\ n % 256 = a
  BY <1>2, <1>3
<1> HIDE DEF m, n
<1>6. Low(n) = a /\ High(n) = b /\ Swapped(m) = a + 256 * b
  BY <1>5 DEF Swapped, High, Low
<1> QED BY <1>4, <1>6 DEF m, n

LEMMA Halves ==
  ASSUME NEW n \in Ushort
  PROVE  /\ High(n) \in Byte /\ Low(n) \in Byte /\ 256 * High(n) + Low(n) = n
         /\ Swapped(n) \in Ushort /\ Low(Swapped(n)) = High(n) /\ High(Swapped(n)) = Low(n)
<1>1. n \in Nat /\ n <= 65535
  BY UshortIs
<1>2. n \div 256 \in Nat /\ n \div 256 <= 255 /\ n % 256 \in Nat /\ n % 256 <= 255
  BY <1>1
<1>3. 256 * (n \div 256) + (n % 256) = n
  BY <1>1
<1>4. High(n) \in Byte /\ Low(n) \in Byte /\ 256 * High(n) + Low(n) = n
  BY <1>2, <1>3, ByteIs DEF High, Low
<1>5. Swapped(n) = High(n) + 256 * Low(n)
  BY DEF Swapped
<1> QED BY <1>4, <1>5, Orders

-----------------------------------------------------------------------------
(* Frames on the wire *)

LEMMA FrameIs ==
  ASSUME NEW f \in Frame
  PROVE  /\ f.to \in Ushort /\ f.coor \in Ushort /\ f.rssi \in Byte /\ f.devtype \in Byte
         /\ f.dev = <<f.dev[1], f.dev[2]>> /\ f.dev[1] \in Byte /\ f.dev[2] \in Byte
         /\ f.tlvs \in Seq([type : Byte, value : Seq(Byte)])
         /\ HeadLen + Len(TlvBytes(f.tlvs)) <= ZIGBEE_MAX_DATALEN
         /\ \A i \in 1 .. Len(f.tlvs) : /\ f.tlvs[i].type \in Byte
                                        /\ f.tlvs[i].value \in Seq(Byte)
                                        /\ Len(f.tlvs[i].value) \in Byte
<1>1. f \in FrameType /\ HeadLen + Len(TlvBytes(f.tlvs)) <= ZIGBEE_MAX_DATALEN
  BY FrameAssumption
<1>2. f.tlvs \in Seq([type : Byte, value : Seq(Byte)])
  BY <1>1 DEF FrameType
<1>3. ASSUME NEW i \in 1 .. Len(f.tlvs)
      PROVE  /\ f.tlvs[i].type \in Byte /\ f.tlvs[i].value \in Seq(Byte)
             /\ Len(f.tlvs[i].value) \in Byte
  <2>1. i \in DOMAIN f.tlvs /\ f.tlvs[i] \in [type : Byte, value : Seq(Byte)]
    BY <1>2, ElementOfSeq, LenProperties
  <2>2. 2 * Len(f.tlvs[i].value) + 2 < ZIGBEE_MAX_DATALEN
    BY <2>1, FrameAssumption
  <2>3. f.tlvs[i].type \in Byte /\ f.tlvs[i].value \in Seq(Byte)
    BY <2>1
  <2>4. Len(f.tlvs[i].value) \in Nat
    BY <2>3
  <2>5. Len(f.tlvs[i].value) \in Byte
    BY <2>2, <2>4, ByteIs DEF ZIGBEE_MAX_DATALEN
  <2> QED BY <2>3, <2>5
<1>4. f.dev \in Byte \X Byte
  BY <1>1 DEF FrameType
<1> QED BY <1>1, <1>2, <1>3, <1>4 DEF FrameType

(* The bytes of one TLV. *)
Parts(tlvs) == [i \in DOMAIN tlvs |-> <<tlvs[i].type, Len(tlvs[i].value)>> \o tlvs[i].value]

LEMMA PartsIs ==
  ASSUME NEW f \in Frame
  PROVE  /\ Parts(f.tlvs) \in Seq(Seq(Byte)) /\ Len(Parts(f.tlvs)) = Len(f.tlvs)
         /\ TlvBytes(f.tlvs) = FlattenSeq(Parts(f.tlvs))
         /\ TlvBytes(f.tlvs) \in Seq(Byte)
         /\ \A i \in 1 .. Len(f.tlvs) :
              LET b == Parts(f.tlvs)[i]
                  v == f.tlvs[i].value
              IN  /\ Len(b) = 2 + Len(v) /\ b[1] = f.tlvs[i].type /\ b[2] = Len(v)
                  /\ \A j \in 1 .. Len(v) : b[2 + j] = v[j]
<1> DEFINE t == f.tlvs
           P == Parts(t)
<1>1. t \in Seq([type : Byte, value : Seq(Byte)])
  BY FrameIs
<1>2. ASSUME NEW i \in 1 .. Len(t)
      PROVE  LET b == P[i]
                 v == t[i].value
             IN  /\ b \in Seq(Byte)
                 /\ Len(b) = 2 + Len(v) /\ b[1] = t[i].type /\ b[2] = Len(v)
                 /\ \A j \in 1 .. Len(v) : b[2 + j] = v[j]
  <2> DEFINE v == t[i].value
             h == <<t[i].type, Len(v)>>
  <2>1. t[i].type \in Byte /\ v \in Seq(Byte) /\ Len(v) \in Byte
    BY FrameIs
  <2>2. i \in DOMAIN t /\ P[i] = h \o v
    BY <1>1 DEF Parts
  <2> HIDE DEF v
  <2>3. h \in Seq(Byte) /\ Len(h) = 2 /\ h[1] = t[i].type /\ h[2] = Len(v)
    BY <2>1 DEF v
  <2> HIDE DEF h, P
  <2>4. Len(v) \in Nat
    BY <2>1
  <2>5. v \in Seq(Byte) /\ h \in Seq(Byte)
    BY <2>1, <2>3
  <2>6. /\ h \o v \in Seq(Byte) /\ Len(h \o v) = Len(h) + Len(v)
        /\ \A j \in 1 .. Len(h) : (h \o v)[j] = h[j]
        /\ \A j \in 1 .. Len(v) : (h \o v)[Len(h) + j] = v[j]
    BY <2>5, ConcatAt
  <2>7. /\ Len(h \o v) = 2 + Len(v) /\ (h \o v)[1] = h[1] /\ (h \o v)[2] = h[2]
        /\ \A j \in 1 .. Len(v) : (h \o v)[2 + j] = v[j]
    BY <2>3, <2>6
  <2> QED BY <2>2, <2>3, <2>6, <2>7 DEF v
<1>3. DOMAIN P = 1 .. Len(t) /\ Len(t) \in Nat
  BY <1>1 DEF Parts
<1>4. P \in Seq(Seq(Byte)) /\ Len(P) = Len(t)
  <2>1. P = [i \in 1 .. Len(t) |-> P[i]]
    BY <1>1 DEF Parts
  <2>2. \A i \in 1 .. Len(t) : P[i] \in Seq(Byte)
    BY <1>2
  <2> HIDE DEF P
  <2> QED BY <1>3, <2>1, <2>2
<1>5. TlvBytes(t) = FlattenSeq(P)
  BY DEF TlvBytes, Parts
<1>6. TlvBytes(t) \in Seq(Byte)
  BY <1>4, <1>5, FlattenType
<1> HIDE DEF P
<1> QED BY <1>2, <1>4, <1>5, <1>6 DEF P

LEMMA WireIs ==
  ASSUME NEW f \in Frame
  PROVE  /\ Wire(f) \in Seq(Byte) /\ Len(Wire(f)) = HeadLen + Len(TlvBytes(f.tlvs))
         /\ Len(TlvBytes(f.tlvs)) \in Ushort
         /\ 256 * Wire(f)[3] + Wire(f)[4] = Len(TlvBytes(f.tlvs))
         /\ 256 * Wire(f)[5] + Wire(f)[6] = f.to
         /\ Wire(f)[7] = f.dev[1] /\ Wire(f)[8] = f.dev[2]
         /\ 256 * Wire(f)[9] + Wire(f)[10] = f.coor
         /\ Wire(f)[11] = f.rssi /\ Wire(f)[12] = f.devtype
         /\ \A j \in 1 .. Len(TlvBytes(f.tlvs)) : Wire(f)[HeadLen + j] = TlvBytes(f.tlvs)[j]
<1> DEFINE T == TlvBytes(f.tlvs)
           n == Len(T)
           head == <<254, 1, High(n), Low(n), High(f.to), Low(f.to), f.dev[1], f.dev[2],
                     High(f.coor), Low(f.coor), f.rssi, f.devtype, 0, 0, 0, 0>>
           W == Wire(f)
<1>1. /\ f.to \in Ushort /\ f.coor \in Ushort /\ f.rssi \in Byte /\ f.devtype \in Byte
      /\ f.dev[1] \in Byte /\ f.dev[2] \in Byte
  BY FrameIs
<1>2. T \in Seq(Byte) /\ n \in Nat
  BY PartsIs
<1>3. n \in Ushort
  <2>1. HeadLen + n <= ZIGBEE_MAX_DATALEN
    BY FrameIs
  <2> QED BY <1>2, <2>1, UshortIs DEF HeadLen, ZIGBEE_MAX_DATALEN
<1>4. W = head \o T
  BY DEF Wire
<1> HIDE DEF T, n, W
<1>5. /\ High(n) \in Byte /\ Low(n) \in Byte /\ High(f.to) \in Byte /\ Low(f.to) \in Byte
      /\ High(f.coor) \in Byte /\ Low(f.coor) \in Byte
      /\ 256 * High(n) + Low(n) = n /\ 256 * High(f.to) + Low(f.to) = f.to
      /\ 256 * High(f.coor) + Low(f.coor) = f.coor
  BY <1>1, <1>3, Halves
<1>6. 254 \in Byte /\ 0 \in Byte /\ 1 \in Byte
  BY ByteIs
<1>7. head \in Seq(Byte)
  BY <1>1, <1>5, <1>6
<1>8. /\ Len(head) = 16 /\ head[3] = High(n) /\ head[4] = Low(n) /\ head[5] = High(f.to)
      /\ head[6] = Low(f.to) /\ head[7] = f.dev[1] /\ head[8] = f.dev[2]
      /\ head[9] = High(f.coor) /\ head[10] = Low(f.coor) /\ head[11] = f.rssi
      /\ head[12] = f.devtype
  OBVIOUS
<1> HIDE DEF head
<1>9. /\ W \in Seq(Byte) /\ Len(W) = Len(head) + Len(T)
      /\ \A i \in 1 .. Len(head) : W[i] = head[i]
      /\ \A i \in 1 .. Len(T) : W[Len(head) + i] = T[i]
  BY <1>2, <1>4, <1>7, ConcatAt
<1>10. /\ Len(W) = HeadLen + Len(T)
       /\ \A j \in 1 .. Len(T) : W[HeadLen + j] = T[j]
  BY <1>8, <1>9 DEF HeadLen
<1>11. \A i \in 3 .. 12 : W[i] = head[i]
  BY <1>8, <1>9
<1>12. /\ W[3] = head[3] /\ W[4] = head[4] /\ W[5] = head[5] /\ W[6] = head[6]
       /\ W[7] = head[7] /\ W[8] = head[8] /\ W[9] = head[9] /\ W[10] = head[10]
       /\ W[11] = head[11] /\ W[12] = head[12]
  BY <1>11
<1>13. /\ 256 * W[3] + W[4] = n /\ 256 * W[5] + W[6] = f.to /\ 256 * W[9] + W[10] = f.coor
       /\ W[7] = f.dev[1] /\ W[8] = f.dev[2] /\ W[11] = f.rssi
       /\ W[12] = f.devtype
  BY <1>5, <1>8, <1>12
<1> QED BY <1>3, <1>9, <1>10, <1>13 DEF T, n, W

-----------------------------------------------------------------------------
(* The stream *)

(* Sent, of any sequence of frames. *)
SentOf(s, i) == FlattenSeq([k \in 1 .. i |-> WireOf[s[k]]])

LEMMA SentSent ==
  /\ \A i : Sent(i) = SentOf(stream, i) /\ FrameEnd(i) = Len(SentOf(stream, i))
  /\ \A i : Sent(i)' = SentOf(stream', i) /\ FrameEnd(i)' = Len(SentOf(stream', i))
  BY DEF Sent, FrameEnd, SentOf

LEMMA SentIs ==
  ASSUME NEW s \in Seq(Frame)
  PROVE  /\ SentOf(s, 0) = <<>>
         /\ \A i \in 0 .. Len(s) : /\ SentOf(s, i) \in Seq(Byte)
                                   /\ Len(SentOf(s, i)) <= Len(SentOf(s, Len(s)))
         /\ \A i \in 0 .. (Len(s) - 1) :
              /\ s[i + 1] \in Frame
              /\ Len(SentOf(s, i + 1)) = Len(SentOf(s, i)) + Len(Wire(s[i + 1]))
              /\ \A m \in 1 .. Len(Wire(s[i + 1])) :
                   SentOf(s, Len(s))[Len(SentOf(s, i)) + m] = Wire(s[i + 1])[m]
<1> DEFINE n == Len(s)
           W == [k \in 1 .. n |-> WireOf[s[k]]]
<1>1. n \in Nat /\ \A k \in 1 .. n : s[k] \in Frame
  OBVIOUS
<1>2. \A k \in 1 .. n : W[k] = Wire(s[k]) /\ W[k] \in Seq(Byte)
  BY <1>1, WireIs DEF WireOf
<1>3. W \in Seq(Seq(Byte)) /\ Len(W) = n
  <2> DEFINE w(k) == WireOf[s[k]]
  <2>1. \A k \in 1 .. n : w(k) \in Seq(Byte)
    BY <1>2
  <2>2. W = [k \in 1 .. n |-> w(k)]
    OBVIOUS
  <2> HIDE DEF w, W, n
  <2>3. W \in [1 .. n -> Seq(Byte)]
    BY <2>1, <2>2
  <2> QED BY <1>1, <2>3
<1>4. ASSUME NEW i \in 0 .. n PROVE SentOf(s, i) = FirstOf(W, i)
  <2>1. [j \in 1 .. i |-> W[j]] = [k \in 1 .. i |-> WireOf[s[k]]]
    <3>1. \A j \in 1 .. i : j \in 1 .. n
      BY <1>1
    <3>2. \A j \in 1 .. i : W[j] = WireOf[s[j]]
      BY <3>1
    <3> HIDE DEF W
    <3> QED BY <3>2
  <2> QED BY <2>1 DEF SentOf, FirstOf
<1> HIDE DEF W, n
<1>5. SentOf(s, 0) = <<>>
  BY <1>1, <1>3, <1>4, FirstOfIs
<1>6. FlattenSeq(W) = SentOf(s, n)
  BY <1>1, <1>3, <1>4, FirstOfIs
<1>7. ASSUME NEW i \in 0 .. n
      PROVE  SentOf(s, i) \in Seq(Byte) /\ Len(SentOf(s, i)) <= Len(SentOf(s, n))
  <2>1. FirstOf(W, i) \in Seq(Byte)
    BY <1>3, FirstOfIs
  <2>2. n \in i .. n /\ n \in 0 .. n
    BY <1>1
  <2>3. Len(FirstOf(W, i)) <= Len(FirstOf(W, n))
    BY <1>3, <2>2, FirstOfPrefix
  <2> QED BY <1>4, <2>1, <2>2, <2>3
<1>8. ASSUME NEW i \in 0 .. (n - 1)
      PROVE  /\ s[i + 1] \in Frame
             /\ Len(SentOf(s, i + 1)) = Len(SentOf(s, i)) + Len(Wire(s[i + 1]))
             /\ \A m \in 1 .. Len(Wire(s[i + 1])) :
                  SentOf(s, n)[Len(SentOf(s, i)) + m] = Wire(s[i + 1])[m]
  <2>1. i \in 0 .. n /\ i + 1 \in 0 .. n /\ i + 1 \in 1 .. n
    BY <1>1
  <2>2. SentOf(s, i) = FirstOf(W, i) /\ SentOf(s, i + 1) = FirstOf(W, i + 1)
    BY <1>4, <2>1
  <2>3. /\ Len(FirstOf(W, i + 1)) = Len(FirstOf(W, i)) + Len(W[i + 1])
        /\ \A m \in 1 .. Len(W[i + 1]) : FlattenSeq(W)[Len(FirstOf(W, i)) + m] = W[i + 1][m]
    BY <1>3, FlattenAt
  <2>4. W[i + 1] = Wire(s[i + 1]) /\ s[i + 1] \in Frame
    BY <1>1, <1>2, <2>1
  <2> QED BY <1>6, <2>2, <2>3, <2>4
<1> QED BY <1>5, <1>7, <1>8 DEF n

(* No two frames end at the same offset. *)
LEMMA EndsGrow ==
  ASSUME NEW s \in Seq(Frame), NEW i \in 0 .. Len(s), NEW j \in (i + 1) .. Len(s)
  PROVE  Len(SentOf(s, i)) < Len(SentOf(s, j))
<1> DEFINE E(k) == Len(SentOf(s, k))
           S == {k \in (i + 1) .. Len(s) : E(i) < E(k)}
<1>1. \A k \in 0 .. Len(s) : E(k) \in Nat
  BY SentIs
<1>2. ASSUME NEW k \in 0 .. (Len(s) - 1) PROVE E(k) < E(k + 1)
  <2>1. s[k + 1] \in Frame /\ E(k + 1) = E(k) + Len(Wire(s[k + 1]))
    BY SentIs
  <2>2. /\ Len(Wire(s[k + 1])) = HeadLen + Len(TlvBytes(s[k + 1].tlvs))
        /\ Len(TlvBytes(s[k + 1].tlvs)) \in Ushort
    BY <2>1, WireIs
  <2>3. Len(Wire(s[k + 1])) >= HeadLen /\ Len(Wire(s[k + 1])) \in Nat
    BY <2>2, UshortIs DEF HeadLen
  <2>4. k \in 0 .. Len(s)
    OBVIOUS
  <2> HIDE DEF E
  <2> QED BY <1>1, <2>1, <2>3, <2>4 DEF HeadLen
<1> HIDE DEF E
<1>3. CASE i < Len(s)
  <2>1. i + 1 \in S
    <3>1. i \in 0 .. (Len(s) - 1)
      BY <1>3
    <3>2. E(i) < E(i + 1)
      BY <1>2, <3>1
    <3> QED BY <1>3, <3>2
  <2>2. ASSUME NEW k \in (i + 1) .. (Len(s) - 1), k \in S PROVE k + 1 \in S
    <3>1. k \in 0 .. (Len(s) - 1) /\ k \in 0 .. Len(s) /\ k + 1 \in 0 .. Len(s)
      OBVIOUS
    <3>2. E(i) < E(k) /\ E(k) < E(k + 1) /\ E(i) \in Nat /\ E(k) \in Nat /\ E(k + 1) \in Nat
      BY <1>1, <1>2, <2>2, <3>1
    <3> QED BY <3>1, <3>2
  <2>3. (i + 1) .. Len(s) \subseteq S
    <3>1. i + 1 \in Int /\ Len(s) \in Int
      OBVIOUS
    <3> HIDE DEF S
    <3> QED BY <2>1, <2>2, <3>1, IntervalSet
  <2> QED BY <2>3 DEF E
<1>4. CASE ~(i < Len(s))
  BY <1>4
<1> QED BY <1>3, <1>4
-----------------------------------------------------------------------------
(* Reading the buffer *)

(* The buffer and how far it has been read. *)
Buffer == chunk \in Seq(Byte) /\ remain \in 0 .. Len(chunk)

LEMMA AtIs ==
  ASSUME Buffer
  PROVE  \A i \in Nat : At(i) \in Byte /\ At(i) \in Nat
<1>1. 0 \in Byte
  BY ByteIs
<1>2. ASSUME NEW i \in Nat PROVE At(i) \in Byte
  BY <1>1 DEF Buffer, At
<1> QED BY <1>2, ByteIs

LEMMA FieldsAre ==
  ASSUME Buffer
  PROVE  /\ Offset \in Nat
         /\ DataLen \in Ushort /\ Addr1 \in Ushort /\ Addr2 \in Ushort /\ Addr3 \in Ushort
<1>1. Offset \in Nat
  BY DEF Buffer, Offset
<1>2. ASSUME NEW i \in Nat PROVE ntohs(i) \in Ushort
  BY <1>2, AtIs, Orders DEF ntohs
<1> HIDE DEF Offset
<1> QED BY <1>1, <1>2 DEF DataLen, Addr1, Addr2, Addr3

LEMMA TlvsFromIs ==
  ASSUME Buffer
  PROVE  \A p \in Nat : TlvsFrom[p] = IF p >= Offset + HeadLen + DataLen THEN <<>>
                                      ELSE <<Tlv(p)>> \o TlvsFrom[p + 2 + At(p + 1)]
<1> DEFINE limit == Offset + HeadLen + DataLen
           next == [p \in Nat |-> p + 2 + At(p + 1)]
           A == Seq({Tlv(p) : p \in Nat})
           step == [x \in A \X Nat |-> <<Tlv(x[2])>> \o x[1]]
           e(h, p) == IF p >= Offset + HeadLen + DataLen THEN <<>>
                      ELSE <<Tlv(p)>> \o h[p + 2 + At(p + 1)]
           Solves(h) == h = [p \in Nat |-> e(h, p)]
<1>1. limit \in Nat
  <2>1. Offset \in Nat /\ DataLen \in Nat
    BY FieldsAre, UshortIs
  <2> HIDE DEF Offset, DataLen
  <2> QED BY <2>1 DEF HeadLen
<1>2. next \in [Nat -> Nat] /\ \A p \in Nat : next[p] > p
  <2>1. \A p \in Nat : At(p + 1) \in Nat
    BY AtIs
  <2> QED BY <2>1
<1>3. \A v \in A, p \in Nat : step[<<v, p>>] = <<Tlv(p)>> \o v /\ step[<<v, p>>] \in A
  <2> DEFINE T == {Tlv(p) : p \in Nat}
  <2> SUFFICES ASSUME NEW v \in A, NEW p \in Nat
               PROVE  step[<<v, p>>] = <<Tlv(p)>> \o v /\ <<Tlv(p)>> \o v \in A
    BY Zenon
  <2>1. Tlv(p) \in T
    OBVIOUS
  <2> HIDE DEF T, Tlv
  <2>2. <<Tlv(p)>> \in Seq(T)
    BY <2>1
  <2>3. v \in Seq(T)
    BY DEF T
  <2>4. <<Tlv(p)>> \o v \in Seq(T)
    BY <2>2, <2>3
  <2> QED BY <2>4 DEF T
<1>4. <<>> \in A
  OBVIOUS
<1>5. PICK h \in [Nat -> A] : Climbs(h, limit, <<>>, next, step)
  <2> HIDE DEF limit, next, A, step
  <2>1. \A v \in A, p \in Nat : step[<<v, p>>] \in A
    BY <1>3
  <2> QED BY <1>1, <1>2, <1>4, <2>1, Climbing
<1>6. \A p \in Nat : h[p] = e(h, p)
  <2> TAKE p \in Nat
  <2>1. h[p] = IF p >= limit THEN <<>> ELSE step[<<h[next[p]], p>>]
    BY <1>5 DEF Climbs
  <2>2. next[p] \in Nat /\ next[p] = p + 2 + At(p + 1)
    BY <1>2
  <2>3. h[next[p]] \in A
    BY <1>5, <2>2
  <2>4. step[<<h[next[p]], p>>] = <<Tlv(p)>> \o h[next[p]]
    BY <1>3, <2>3
  <2> HIDE DEF step, next, A, Tlv, Offset, DataLen, HeadLen
  <2> QED BY <2>1, <2>2, <2>4
<1>7. Solves(h)
  <2> HIDE DEF e, A
  <2> QED BY <1>5, <1>6
<1> DEFINE G == CHOOSE f : Solves(f)
<1>8. Solves(G)
  <2> HIDE DEF Solves
  <2> QED BY <1>7
<1>9. TlvsFrom = G
  BY Zenon DEF TlvsFrom
<1>10. \A p \in Nat : G[p] = e(G, p)
  <2> HIDE DEF G, e
  <2> QED BY <1>8
<1>11. \A p \in Nat : TlvsFrom[p] = e(TlvsFrom, p)
  <2> HIDE DEF G, e
  <2> QED BY <1>9, <1>10
<1> QED BY <1>11
-----------------------------------------------------------------------------
(* The text of a value *)

LEMMA HexPair ==
  ASSUME NEW b \in Byte
  PROVE  <<HexChar(b \div 16), HexChar(b % 16)>> \in Seq(Nat)
<1>1. b \in Nat
  BY ByteIs
<1>2. b \div 16 \in Nat /\ b % 16 \in Nat
  BY <1>1
<1>3. HexChar(b \div 16) \in Nat /\ HexChar(b % 16) \in Nat
  BY <1>2 DEF HexChar
<1> QED BY <1>3

(* Two characters at a time, behind the "0x", are the bytes. *)
LEMMA PrintedIs ==
  ASSUME NEW v \in Seq(Byte), NEW i \in 1 .. Len(v)
  PROVE  hextodec(SubSeq(Printed(v), 2 * i + 1, 2 * i + 2)) = v[i]
<1> DEFINE pair(b) == <<HexChar(b \div 16), HexChar(b % 16)>>
           P == [j \in DOMAIN v |-> pair(v[j])]
           n == Len(v)
           F(j) == FirstOf(P, j)
           S == {j \in 0 .. n : Len(F(j)) = 2 * j}
<1>1. n \in Nat /\ \A j \in 1 .. n : v[j] \in Byte
  OBVIOUS
<1>2. DOMAIN v = 1 .. n /\ i \in 1 .. n
  OBVIOUS
<1>3. \A b \in Byte : pair(b) \in Seq(Nat) /\ Len(pair(b)) = 2
  BY HexPair
<1> HIDE DEF n
<1>4. P \in Seq(Seq(Nat)) /\ Len(P) = n /\ \A j \in 1 .. n : P[j] = pair(v[j])
  <2> HIDE DEF pair
  <2>1. P = [j \in 1 .. n |-> pair(v[j])]
    BY <1>2
  <2>2. \A j \in 1 .. n : pair(v[j]) \in Seq(Nat)
    BY <1>1, <1>3
  <2> HIDE DEF P
  <2>3. P \in [1 .. n -> Seq(Nat)]
    BY <2>1, <2>2
  <2> QED BY <1>1, <2>1, <2>3
<1> HIDE DEF P, pair
<1>5. 0 \in S
  <2>1. F(0) = <<>>
    BY <1>4, FirstOfIs
  <2> QED BY <1>1, <2>1
<1>6. ASSUME NEW j \in 0 .. (n - 1), j \in S PROVE j + 1 \in S
  <2>1. Len(F(j + 1)) = Len(F(j)) + Len(P[j + 1])
    BY <1>4, FlattenAt
  <2>2. j + 1 \in 1 .. n /\ j + 1 \in 0 .. n
    BY <1>1
  <2>3. Len(P[j + 1]) = 2
    BY <1>1, <1>3, <1>4, <2>2
  <2> QED BY <1>1, <1>6, <2>1, <2>2, <2>3
<1>7. 0 .. n \subseteq S
  <2>1. 0 \in Int /\ n \in Int
    BY <1>1
  <2> HIDE DEF S
  <2> QED BY <1>5, <1>6, <2>1, IntervalSet
<1>8. i - 1 \in 0 .. (n - 1) /\ i - 1 \in 0 .. n /\ (i - 1) + 1 = i /\ i \in 0 .. n
  BY <1>1, <1>2
<1> DEFINE T == FlattenSeq(P)
<1>9. /\ Len(F(i)) <= Len(T)
      /\ \A m \in 1 .. Len(P[i]) : T[Len(F(i - 1)) + m] = P[i][m]
  <2>1. i - 1 \in 0 .. (Len(P) - 1)
    BY <1>4, <1>8
  <2>2. /\ Len(FirstOf(P, (i - 1) + 1)) <= Len(FlattenSeq(P))
        /\ \A m \in 1 .. Len(P[(i - 1) + 1]) :
             FlattenSeq(P)[Len(FirstOf(P, i - 1)) + m] = P[(i - 1) + 1][m]
    BY <1>4, <2>1, FlattenAt
  <2> QED BY <1>8, <2>2
<1>10. Len(F(i)) = 2 * i /\ Len(F(i - 1)) = 2 * (i - 1)
  BY <1>7, <1>8
<1>11. T \in Seq(Nat) /\ Len(T) \in Nat
  BY <1>4, FlattenType
<1>12. Len(P[i]) = 2 /\ P[i] = pair(v[i])
  BY <1>1, <1>2, <1>3, <1>4
<1> HIDE DEF F, T
<1>13. 2 * i <= Len(T) /\ T[2 * i - 1] = P[i][1] /\ T[2 * i] = P[i][2]
  <2>1. T[2 * (i - 1) + 1] = P[i][1] /\ T[2 * (i - 1) + 2] = P[i][2]
    BY <1>9, <1>10, <1>12
  <2>2. 2 * (i - 1) + 1 = 2 * i - 1 /\ 2 * (i - 1) + 2 = 2 * i
    BY <1>1, <1>2
  <2> QED BY <1>9, <1>10, <2>1, <2>2
<1> DEFINE h == <<48, 120>>
           W == Printed(v)
<1>14. W = h \o T
  BY DEF Printed, P, T, pair
<1>15. h \in Seq(Nat) /\ Len(h) = 2
  OBVIOUS
<1> HIDE DEF h, W
<1>16. /\ W \in Seq(Nat) /\ Len(W) = Len(h) + Len(T)
       /\ \A j \in 1 .. Len(T) : W[Len(h) + j] = T[j]
  <2>1. T \in Seq(Nat) /\ h \in Seq(Nat)
    BY <1>11, <1>15
  <2> QED BY <1>14, <2>1, ConcatAt
<1>17. 2 * i + 2 <= Len(W) /\ W[2 * i + 1] = T[2 * i - 1] /\ W[2 * i + 2] = T[2 * i]
  <2>1. 2 * i - 1 \in 1 .. Len(T) /\ 2 * i \in 1 .. Len(T)
    BY <1>1, <1>2, <1>11, <1>13
  <2>2. W[2 + (2 * i - 1)] = T[2 * i - 1] /\ W[2 + (2 * i)] = T[2 * i]
    BY <1>15, <1>16, <2>1
  <2>3. 2 + (2 * i - 1) = 2 * i + 1 /\ 2 + (2 * i) = 2 * i + 2
    BY <1>1, <1>2
  <2> QED BY <1>11, <1>13, <1>15, <1>16, <2>2, <2>3
<1>18. SubSeq(W, 2 * i + 1, 2 * i + 2) = <<W[2 * i + 1], W[2 * i + 2]>>
  <2>1. i \in Nat /\ 2 * i + 2 \in 0 .. Len(W)
    BY <1>1, <1>2, <1>11, <1>15, <1>16, <1>17
  <2> DEFINE U == SubSeq(W, 2 * i + 1, 2 * i + 2)
  <2>2. U \in Seq(Nat) /\ Len(U) = 2 /\ U[1] = W[2 * i + 1] /\ U[2] = W[2 * i + 2]
    BY <1>16, <2>1, SubSeqProperties
  <2> HIDE DEF U
  <2>3. U = <<U[1], U[2]>>
    BY <2>2
  <2> QED BY <2>2, <2>3 DEF U
<1>19. pair(v[i]) = <<HexChar(v[i] \div 16), HexChar(v[i] % 16)>>
  BY DEF pair
<1>20. <<W[2 * i + 1], W[2 * i + 2]>> = pair(v[i])
  <2>1. pair(v[i])[1] = W[2 * i + 1] /\ pair(v[i])[2] = W[2 * i + 2]
    BY <1>12, <1>13, <1>17
  <2> QED BY <1>19, <2>1
<1>21. v[i] \in Byte
  BY <1>1, <1>2
<1> QED BY <1>18, <1>19, <1>20, <1>21, HexRead DEF W
-----------------------------------------------------------------------------
(* One turn of the loop, when the next bytes of the buffer are those of f, *)
(* as many of them as there are.                                           *)
Next1(f) == \A m \in 1 .. Len(Wire(f)) : m <= remain => chunk[Offset + m] = Wire(f)[m]

(* What the loop makes of the frame. *)
TlvOf(t) == [tag |-> t.type, len |-> Len(t.value), value |-> Printed(t.value)]
TlvsOf(tlvs, i) == [j \in 1 .. (Len(tlvs) - i) |-> TlvOf(tlvs[i + j])]
DeviceOf(f) == [devid |-> Decimal(f.dev[1] + 256 * f.dev[2]), coorid |-> Decimal(f.coor),
                devrssi |-> f.rssi, devrtype |-> seri_dev_modestr[f.devtype + 1],
                devtlv |-> TlvsOf(f.tlvs, 0)]

LEMMA BytesRead ==
  ASSUME Buffer, NEW f \in Frame, Next1(f)
  PROVE  \A m \in 1 .. Len(Wire(f)) : m <= remain => At(Offset + (m - 1)) = Wire(f)[m]
<1> SUFFICES ASSUME NEW m \in 1 .. Len(Wire(f)), m <= remain
             PROVE  At(Offset + (m - 1)) = Wire(f)[m]
  OBVIOUS
<1>1. Len(Wire(f)) \in Nat
  BY WireIs
<1>2. Len(chunk) \in Nat /\ remain \in Nat /\ remain <= Len(chunk) /\ Offset = Len(chunk) - remain
  BY DEF Buffer, Offset
<1>3. Offset + (m - 1) < Len(chunk) /\ (Offset + (m - 1)) + 1 = Offset + m
  BY <1>1, <1>2
<1>4. At(Offset + (m - 1)) = chunk[Offset + m]
  BY <1>3 DEF At
<1> QED BY <1>4 DEF Next1

LEMMA HeadRead ==
  ASSUME Buffer, NEW f \in Frame, Next1(f), remain >= HeadLen
  PROVE  /\ DataLen = Len(TlvBytes(f.tlvs)) /\ Addr1 = f.to
         /\ Addr2 = 256 * f.dev[1] + f.dev[2] /\ Addr3 = f.coor
         /\ At(Offset + 10) = f.rssi /\ At(Offset + 11) = f.devtype
<1>1. Len(Wire(f)) \in Nat /\ Len(Wire(f)) >= 16 /\ remain \in Nat /\ remain >= 16
  <2>1. Len(Wire(f)) = HeadLen + Len(TlvBytes(f.tlvs)) /\ Len(TlvBytes(f.tlvs)) \in Nat
    BY WireIs, UshortIs
  <2> QED BY <2>1 DEF HeadLen, Buffer
<1>2. \A m \in 1 .. 16 : At(Offset + (m - 1)) = Wire(f)[m]
  BY <1>1, BytesRead
<1>3. Offset \in Nat
  BY FieldsAre
<1> HIDE DEF Offset
<1>4. /\ At(Offset + 2) = Wire(f)[3] /\ At((Offset + 2) + 1) = Wire(f)[4]
      /\ At(Offset + 4) = Wire(f)[5] /\ At((Offset + 4) + 1) = Wire(f)[6]
      /\ At(Offset + 6) = Wire(f)[7] /\ At((Offset + 6) + 1) = Wire(f)[8]
      /\ At(Offset + 8) = Wire(f)[9] /\ At((Offset + 8) + 1) = Wire(f)[10]
      /\ At(Offset + 10) = Wire(f)[11] /\ At(Offset + 11) = Wire(f)[12]
  <2>1. /\ (Offset + 2) + 1 = Offset + 3 /\ (Offset + 4) + 1 = Offset + 5
        /\ (Offset + 6) + 1 = Offset + 7 /\ (Offset + 8) + 1 = Offset + 9
    BY <1>3
  <2>2. \A i \in 0 .. 15 : At(Offset + i) = Wire(f)[i + 1]
    <3> TAKE i \in 0 .. 15
    <3>1. i + 1 \in 1 .. 16 /\ (i + 1) - 1 = i
      OBVIOUS
    <3> QED BY <1>2, <3>1
  <2>3. /\ At(Offset + 2) = Wire(f)[2 + 1] /\ At(Offset + 3) = Wire(f)[3 + 1]
        /\ At(Offset + 4) = Wire(f)[4 + 1] /\ At(Offset + 5) = Wire(f)[5 + 1]
        /\ At(Offset + 6) = Wire(f)[6 + 1] /\ At(Offset + 7) = Wire(f)[7 + 1]
        /\ At(Offset + 8) = Wire(f)[8 + 1] /\ At(Offset + 9) = Wire(f)[9 + 1]
        /\ At(Offset + 10) = Wire(f)[10 + 1] /\ At(Offset + 11) = Wire(f)[11 + 1]
    BY <2>2
  <2> QED BY <2>1, <2>3
<1>5. /\ DataLen = 256 * Wire(f)[3] + Wire(f)[4] /\ Addr1 = 256 * Wire(f)[5] + Wire(f)[6]
      /\ Addr2 = 256 * Wire(f)[7] + Wire(f)[8] /\ Addr3 = 256 * Wire(f)[9] + Wire(f)[10]
  BY <1>4 DEF DataLen, Addr1, Addr2, Addr3, ntohs
<1> HIDE DEF DataLen, Addr1, Addr2, Addr3
<1> QED BY <1>4, <1>5, WireIs

(* The loop over the TLVs. *)
LEMMA TlvsRead ==
  ASSUME Buffer, NEW f \in Frame, Next1(f), remain >= Len(Wire(f))
  PROVE  TlvsFrom[Offset + HeadLen] = TlvsOf(f.tlvs, 0)
<1> DEFINE t == f.tlvs
           n == Len(t)
           P == Parts(t)
           T == TlvBytes(t)
           E(i) == Len(FirstOf(P, i))
           pos(i) == Offset + HeadLen + E(i)
           R(i) == TlvsOf(t, i)
           S == {k \in 0 .. n : TlvsFrom[pos(n - k)] = R(n - k)}
<1>1. Offset \in Nat /\ DataLen = Len(T) /\ n \in Nat /\ HeadLen \in Nat
  <2>1. Len(Wire(f)) = HeadLen + Len(TlvBytes(f.tlvs)) /\ Len(TlvBytes(f.tlvs)) \in Nat
    BY WireIs, UshortIs
  <2>2. remain >= HeadLen
    BY <2>1 DEF Buffer, HeadLen
  <2>3. t \in Seq([type : Byte, value : Seq(Byte)])
    BY FrameIs
  <2> QED BY <2>2, <2>3, HeadRead, FieldsAre DEF HeadLen
<1>2. /\ P \in Seq(Seq(Byte)) /\ Len(P) = n /\ T = FlattenSeq(P) /\ T \in Seq(Byte)
  BY PartsIs
<1>3. \A m \in 1 .. Len(T) : At(Offset + HeadLen + (m - 1)) = T[m]
  <2> TAKE m \in 1 .. Len(T)
  <2>1. Len(Wire(f)) = HeadLen + Len(T) /\ Len(T) \in Nat
    BY WireIs, UshortIs
  <2>2. HeadLen + m \in 1 .. Len(Wire(f)) /\ HeadLen + m <= remain
    BY <2>1 DEF HeadLen, Buffer
  <2>3. At(Offset + ((HeadLen + m) - 1)) = Wire(f)[HeadLen + m]
    BY <2>2, BytesRead
  <2>4. Wire(f)[HeadLen + m] = T[m]
    BY WireIs
  <2>5. Offset + ((HeadLen + m) - 1) = Offset + HeadLen + (m - 1)
    BY <1>1
  <2> QED BY <2>3, <2>4, <2>5
<1>4. \A i \in 0 .. n : E(i) \in Nat /\ E(i) <= Len(T)
  <2> TAKE i \in 0 .. n
  <2>1. FirstOf(P, i) \in Seq(Byte) /\ FirstOf(P, Len(P)) = T
    BY <1>2, FirstOfIs
  <2>2. i \in 0 .. Len(P) /\ Len(P) \in i .. Len(P)
    BY <1>1, <1>2
  <2>3. Len(FirstOf(P, i)) <= Len(FirstOf(P, Len(P)))
    BY <1>2, <2>2, FirstOfPrefix
  <2> QED BY <2>1, <2>3
<1>5. E(0) = 0 /\ E(n) = Len(T)
  <2>1. FirstOf(P, 0) = <<>> /\ FirstOf(P, Len(P)) = T
    BY <1>2, FirstOfIs
  <2> QED BY <1>2, <2>1
<1> HIDE DEF t, n, P, T, E, R
<1>6. ASSUME NEW i \in 0 .. (n - 1)
      PROVE  /\ E(i + 1) = E(i) + 2 + Len(t[i + 1].value) /\ E(i) < Len(T)
             /\ t[i + 1].value \in Seq(Byte)
             /\ At(pos(i)) = t[i + 1].type /\ At(pos(i) + 1) = Len(t[i + 1].value)
             /\ \A j \in 1 .. Len(t[i + 1].value) :
                  At(pos(i) + 1 + j) = t[i + 1].value[j]
  <2> DEFINE v == t[i + 1].value
  <2>1. i + 1 \in 1 .. n /\ i \in 0 .. n /\ i + 1 \in 0 .. n
    BY <1>1
  <2>2. /\ Len(P[i + 1]) = 2 + Len(v) /\ P[i + 1][1] = t[i + 1].type /\ P[i + 1][2] = Len(v)
        /\ \A j \in 1 .. Len(v) : P[i + 1][2 + j] = v[j]
    BY <2>1, PartsIs DEF t, n, P
  <2>3. v \in Seq(Byte) /\ Len(v) \in Nat
    BY <2>1, FrameIs, ByteIs DEF t, n
  <2> HIDE DEF v
  <2>4. /\ E(i + 1) = E(i) + Len(P[i + 1])
        /\ \A m \in 1 .. Len(P[i + 1]) : T[E(i) + m] = P[i + 1][m]
    <3>1. i \in 0 .. (Len(P) - 1)
      BY <1>2
    <3> QED BY <1>2, <3>1, FlattenAt DEF E
  <2>5. E(i) \in Nat /\ E(i + 1) \in Nat /\ E(i + 1) <= Len(T) /\ Len(T) \in Nat
    BY <1>2, <1>4, <2>1
  <2>6. E(i + 1) = E(i) + 2 + Len(v) /\ E(i) < Len(T)
    BY <2>2, <2>3, <2>4, <2>5
  <2>7. ASSUME NEW m \in 1 .. (2 + Len(v))
        PROVE  At(pos(i) + (m - 1)) = P[i + 1][m]
    <3>1. E(i) + m \in 1 .. Len(T)
      BY <2>3, <2>5, <2>6
    <3>2. At(Offset + HeadLen + ((E(i) + m) - 1)) = T[E(i) + m]
      BY <1>3, <3>1
    <3>3. Offset + HeadLen + ((E(i) + m) - 1) = pos(i) + (m - 1)
      BY <1>1, <2>5
    <3>4. T[E(i) + m] = P[i + 1][m]
      BY <2>2, <2>4
    <3> QED BY <3>2, <3>3, <3>4
  <2>8. pos(i) \in Nat
    BY <1>1, <2>5
  <2> HIDE DEF pos
  <2>9. At(pos(i)) = P[i + 1][1] /\ At(pos(i) + 1) = P[i + 1][2]
    <3>1. 1 \in 1 .. (2 + Len(v)) /\ 2 \in 1 .. (2 + Len(v))
      BY <2>3
    <3>2. At(pos(i) + (1 - 1)) = P[i + 1][1] /\ At(pos(i) + (2 - 1)) = P[i + 1][2]
      BY <2>7, <3>1
    <3>3. pos(i) + (1 - 1) = pos(i) /\ pos(i) + (2 - 1) = pos(i) + 1
      BY <2>8
    <3> QED BY <3>2, <3>3
  <2>10. \A j \in 1 .. Len(v) : At(pos(i) + 1 + j) = v[j]
    <3> TAKE j \in 1 .. Len(v)
    <3>1. 2 + j \in 1 .. (2 + Len(v))
      BY <2>3
    <3>2. At(pos(i) + ((2 + j) - 1)) = P[i + 1][2 + j]
      BY <2>7, <3>1
    <3>3. pos(i) + ((2 + j) - 1) = pos(i) + 1 + j
      BY <2>8
    <3> QED BY <2>2, <3>2, <3>3
  <2> QED BY <2>2, <2>3, <2>6, <2>9, <2>10 DEF v
<1>7. \A i \in 0 .. n : pos(i) \in Nat /\ (pos(i) >= Offset + HeadLen + DataLen <=> E(i) >= Len(T))
  BY <1>1, <1>2, <1>4
<1> HIDE DEF pos
<1>8. 0 \in S
  <2>1. n \in 0 .. n /\ n - 0 = n
    BY <1>1
  <2>2. pos(n) \in Nat /\ pos(n) >= Offset + HeadLen + DataLen
    BY <1>2, <1>5, <1>7, <2>1
  <2>3. TlvsFrom[pos(n)] = <<>>
    BY <2>2, TlvsFromIs
  <2>4. R(n) = <<>>
    <3>1. 1 .. (n - n) = {}
      BY <1>1
    <3> QED BY <3>1 DEF R, TlvsOf, n
  <2> QED BY <1>1, <2>1, <2>3, <2>4
<1>9. ASSUME NEW k \in 0 .. (n - 1), k \in S PROVE k + 1 \in S
  <2> DEFINE i == n - (k + 1)
             v == t[i + 1].value
  <2>1. i \in 0 .. (n - 1) /\ i \in 0 .. n /\ i + 1 = n - k /\ i + 1 \in 1 .. n /\ k + 1 \in 0 .. n
    BY <1>1
  <2> HIDE DEF i
  <2>2. pos(i) \in Nat /\ ~(pos(i) >= Offset + HeadLen + DataLen)
    BY <1>2, <1>4, <1>6, <1>7, <2>1
  <2>3. TlvsFrom[pos(i)] = <<Tlv(pos(i))>> \o TlvsFrom[pos(i) + 2 + At(pos(i) + 1)]
    BY <2>2, TlvsFromIs
  <2>4. /\ At(pos(i)) = t[i + 1].type /\ At(pos(i) + 1) = Len(v) /\ v \in Seq(Byte)
        /\ \A j \in 1 .. Len(v) : At(pos(i) + 1 + j) = v[j]
    BY <1>6, <2>1
  <2>5. pos(i) + 2 + At(pos(i) + 1) = pos(i + 1)
    <3>1. E(i + 1) = E(i) + 2 + Len(v) /\ E(i) \in Nat /\ Len(v) \in Nat
      BY <1>4, <1>6, <2>1, <2>4
    <3>2. pos(i) = Offset + HeadLen + E(i) /\ pos(i + 1) = Offset + HeadLen + E(i + 1)
      BY DEF pos
    <3>3. Offset \in Nat /\ HeadLen \in Nat
      BY <1>1
    <3> HIDE DEF Offset, v
    <3>4. pos(i + 1) = pos(i) + 2 + Len(v)
      BY <3>1, <3>2, <3>3
    <3> QED BY <2>4, <3>4
  <2> HIDE DEF v
  <2>6. Tlv(pos(i)) = TlvOf(t[i + 1])
    <3>1. [j \in 1 .. At(pos(i) + 1) |-> At(pos(i) + 1 + j)] = v
      <4>1. [j \in 1 .. Len(v) |-> v[j]] = v
        BY <2>4
      <4>2. [j \in 1 .. Len(v) |-> At(pos(i) + 1 + j)] = [j \in 1 .. Len(v) |-> v[j]]
        BY <2>4
      <4> QED BY <2>4, <4>1, <4>2
    <3>2. Tlv(pos(i)) = [tag |-> t[i + 1].type, len |-> Len(v), value |-> Printed(v)]
      BY <2>4, <3>1 DEF Tlv
    <3> QED BY <3>2 DEF TlvOf, v
  <2>7. R(i) = <<TlvOf(t[i + 1])>> \o R(i + 1)
    <3> DEFINE D(j) == TlvOf(t[j])
               A == {D(j) : j \in Nat}
    <3>1. /\ R(i) = [j \in 1 .. (n - i) |-> D(i + j)]
          /\ R(i + 1) = [j \in 1 .. (n - (i + 1)) |-> D((i + 1) + j)]
      BY DEF R, TlvsOf, n
    <3> HIDE DEF D
    <3>2. /\ D(i + 1) \in A
          /\ \A j \in 1 .. (n - (i + 1)) : D((i + 1) + j) \in A
          /\ \A j \in 1 .. (n - i) : D(i + j) \in A
      <4>1. \A j \in Nat : D(j) \in A
        OBVIOUS
      <4>2. /\ i + 1 \in Nat /\ \A j \in 1 .. (n - (i + 1)) : (i + 1) + j \in Nat
            /\ \A j \in 1 .. (n - i) : i + j \in Nat
        BY <1>1, <2>1
      <4> HIDE DEF A
      <4> QED BY <4>1, <4>2
    <3> HIDE DEF A
    <3>3. /\ R(i) \in Seq(A) /\ Len(R(i)) = n - i
          /\ R(i + 1) \in Seq(A) /\ Len(R(i + 1)) = n - (i + 1)
          /\ <<D(i + 1)>> \in Seq(A) /\ Len(<<D(i + 1)>>) = 1
      <4>1. n - i \in Nat /\ n - (i + 1) \in Nat
        BY <1>1, <2>1
      <4>2. R(i) \in [1 .. (n - i) -> A] /\ R(i + 1) \in [1 .. (n - (i + 1)) -> A]
        BY <3>1, <3>2
      <4>3. R(i) \in Seq(A) /\ Len(R(i)) = n - i
        BY <4>1, <4>2
      <4>4. R(i + 1) \in Seq(A) /\ Len(R(i + 1)) = n - (i + 1)
        BY <4>1, <4>2
      <4> QED BY <3>2, <4>3, <4>4
    <3> DEFINE U == <<D(i + 1)>> \o R(i + 1)
    <3>4. U \in Seq(A) /\ Len(U) = n - i
      BY <1>1, <2>1, <3>3
    <3>5. ASSUME NEW j \in 1 .. (n - i) PROVE U[j] = R(i)[j]
      <4>1. R(i)[j] = D(i + j)
        BY <3>1
      <4>2. CASE j = 1
        BY <1>1, <2>1, <3>3, <4>1, <4>2
      <4>3. CASE j # 1
        <5>1. j - 1 \in 1 .. (n - (i + 1)) /\ (i + 1) + (j - 1) = i + j
          BY <1>1, <2>1, <4>3
        <5>2. U[j] = R(i + 1)[j - 1]
          BY <3>3, <5>1
        <5>3. R(i + 1)[j - 1] = D((i + 1) + (j - 1))
          BY <3>1, <5>1
        <5> QED BY <4>1, <5>1, <5>2, <5>3
      <4> QED BY <4>2, <4>3
    <3>6. U = R(i)
      <4> HIDE DEF U
      <4> QED BY <3>3, <3>4, <3>5, SeqEqual
    <3> QED BY <3>6 DEF D
  <2>8. TlvsFrom[pos(i + 1)] = R(i + 1)
    BY <1>9, <2>1
  <2>9. TlvsFrom[pos(i)] = R(i)
    BY <2>3, <2>5, <2>6, <2>7, <2>8
  <2> QED BY <2>1, <2>9 DEF i
<1>10. 0 .. n \subseteq S
  <2>1. 0 \in Int /\ n \in Int
    BY <1>1
  <2> HIDE DEF S
  <2> QED BY <1>8, <1>9, <2>1, IntervalSet
<1>11. TlvsFrom[pos(0)] = R(0)
  <2>1. n \in 0 .. n /\ n - n = 0
    BY <1>1
  <2>2. n \in S
    BY <1>10, <2>1
  <2> QED BY <2>1, <2>2
<1>12. pos(0) = Offset + HeadLen
  BY <1>1, <1>5 DEF pos
<1> QED BY <1>11, <1>12 DEF R, t
LEMMA FrameRead ==
  ASSUME Buffer, NEW f \in Frame, Next1(f)
  PROVE  /\ CutShort <=> remain < Len(Wire(f))
         /\ ~CutShort => /\ NotForUs <=> ~ForUs(f)
                         /\ Rest = remain - Len(Wire(f))
                         /\ Addr3 = f.coor
                         /\ Device = DeviceOf(f)
<1>1. /\ Len(Wire(f)) = HeadLen + Len(TlvBytes(f.tlvs)) /\ Len(TlvBytes(f.tlvs)) \in Nat
      /\ HeadLen \in Nat /\ remain \in Nat
  BY WireIs, UshortIs DEF HeadLen, Buffer
<1>2. CASE remain < HeadLen
  BY <1>1, <1>2 DEF CutShort
<1>3. CASE remain >= HeadLen
  <2>1. /\ DataLen = Len(TlvBytes(f.tlvs)) /\ Addr1 = f.to
        /\ Addr2 = 256 * f.dev[1] + f.dev[2] /\ Addr3 = f.coor
        /\ At(Offset + 10) = f.rssi /\ At(Offset + 11) = f.devtype
    BY <1>3, HeadRead
  <2>2. CutShort <=> remain < Len(Wire(f))
    <3>1. DataLen \in Nat /\ Len(Wire(f)) = HeadLen + DataLen
      BY <1>1, <2>1
    <3> HIDE DEF DataLen
    <3> QED BY <1>1, <1>3, <3>1 DEF CutShort
  <2>3. Rest = remain - Len(Wire(f))
    BY <1>1, <2>1 DEF Rest
  <2>4. f.dev[1] \in Byte /\ f.dev[2] \in Byte /\ f.dev = <<f.dev[1], f.dev[2]>>
    BY FrameIs
  <2>5. NotForUs <=> ~ForUs(f)
    <3>1. Addr2 = LOCAL_COOR <=> f.dev[1] = 0 /\ f.dev[2] = 1
      <4>1. f.dev[1] \in Nat /\ f.dev[2] \in Nat /\ f.dev[2] <= 255
        BY <2>4, ByteIs
      <4>2. \A x, y \in Nat : y <= 255 => (256 * x + y = 1 <=> x = 0 /\ y = 1)
        OBVIOUS
      <4>3. Addr2 = 256 * f.dev[1] + f.dev[2] /\ LOCAL_COOR = 1
        BY <2>1 DEF LOCAL_COOR
      <4>4. 256 * f.dev[1] + f.dev[2] = 1 <=> f.dev[1] = 0 /\ f.dev[2] = 1
        BY <4>1, <4>2
      <4> HIDE DEF Addr2
      <4> QED BY Zenon, <4>3, <4>4
    <3>2. f.dev = <<0, 1>> <=> f.dev[1] = 0 /\ f.dev[2] = 1
      BY <2>4
    <3> QED BY <2>1, <3>1, <3>2 DEF NotForUs, ForUs
  <2>6. ~CutShort => Device = DeviceOf(f)
    <3> SUFFICES ASSUME ~CutShort PROVE Device = DeviceOf(f)
      OBVIOUS
    <3>1. remain >= Len(Wire(f))
      BY <1>1, <2>2
    <3>2. TlvsFrom[Offset + HeadLen] = TlvsOf(f.tlvs, 0)
      BY <3>1, TlvsRead
    <3>3. Swapped(Addr2) = f.dev[1] + 256 * f.dev[2]
      BY <2>1, <2>4, Orders
    <3> QED BY <2>1, <3>2, <3>3 DEF Device, DeviceOf
  <2> QED BY <2>1, <2>2, <2>3, <2>5, <2>6
<1> QED BY <1>1, <1>2, <1>3

-----------------------------------------------------------------------------
(* What a chunk has come to: it begins where frame a ends, and the frames   *)
(* up to b have been read.                                                  *)
End == start + Len(chunk)

Slice(a) ==
  /\ a \in 0 .. Len(stream) /\ start = FrameEnd(a)
  /\ Len(chunk) > 0 /\ End <= FrameEnd(Len(stream))
  /\ chunk = SubSeq(Sent(Len(stream)), start + 1, End)

ReadTo(a, b) ==
  /\ b \in a .. Len(stream) /\ FrameEnd(b) <= End
  /\ \/ FrameEnd(b) = End - remain
     \/ remain = 0 /\ b < Len(stream) /\ FrameEnd(b + 1) > End

(* Those of the frames that are for us; that a list of devices is of them, *)
(* and coor the coordinator of the last.                                   *)
Mine(s, a, i) == IF ForUs(s[a + i]) THEN <<s[a + i]>> ELSE <<>>
Picked(s, a, b) == FlattenSeq([i \in 1 .. (b - a) |-> Mine(s, a, i)])

Listed(frames, d, coor) ==
  /\ Len(d) = Len(frames) /\ \A i \in 1 .. Len(frames) : d[i] = DeviceOf(frames[i])
  /\ d \in Seq({DeviceOf(f) : f \in Frame})
  /\ IF frames = <<>> THEN coor \in Garbage ELSE coor = frames[Len(frames)].coor

Answer ==
  IF dev = <<>> \/ Len(SeriBuf(dev[Encoded])) >= ZIGBEE_MAX_DATALEN THEN Failed
  ELSE [sent |-> TRUE, coorid |-> atoi(dev[Encoded].coorid), bytes |-> SeriBuf(dev[Encoded])]

(* The inductive invariant *)
ChunkRead ==
  \E a, b \in 0 .. Len(stream) :
    /\ Slice(a) /\ ReadTo(a, b)
    /\ Listed(Picked(stream, a, b), dev, id)
    /\ remain < Len(chunk) => old_id = id

CodecInv ==
  /\ TypeOK
  /\ pc # "recv" => ChunkRead
  /\ pc \in {"done", "sent"} => remain = 0
  /\ pc = "sent" => command = Answer

LEMMA PickedIs ==
  ASSUME NEW s \in Seq(Frame), NEW a \in 0 .. Len(s), NEW b \in a .. Len(s)
  PROVE  /\ Picked(s, a, a) = <<>> /\ Picked(s, a, b) \in Seq(Frame)
         /\ b < Len(s) =>
              Picked(s, a, b + 1) =
                IF ForUs(s[b + 1]) THEN Append(Picked(s, a, b), s[b + 1]) ELSE Picked(s, a, b)
<1>1. ASSUME NEW c \in a .. Len(s)
      PROVE  /\ [i \in 1 .. (c - a) |-> Mine(s, a, i)] \in Seq(Seq(Frame))
             /\ Picked(s, a, c) \in Seq(Frame)
  <2>1. \A i \in 1 .. (c - a) : s[a + i] \in Frame
    OBVIOUS
  <2>2. \A i \in 1 .. (c - a) : Mine(s, a, i) \in Seq(Frame)
    BY <2>1 DEF Mine
  <2>3. c - a \in Nat
    OBVIOUS
  <2>4. [i \in 1 .. (c - a) |-> Mine(s, a, i)] \in [1 .. (c - a) -> Seq(Frame)]
    BY <2>2
  <2>5. [i \in 1 .. (c - a) |-> Mine(s, a, i)] \in Seq(Seq(Frame))
    BY <2>3, <2>4
  <2> QED BY <2>5, FlattenType DEF Picked
<1>2. Picked(s, a, a) = <<>>
  <2>1. [i \in 1 .. (a - a) |-> Mine(s, a, i)] = <<>>
    OBVIOUS
  <2> QED BY <2>1, FlattenEmpty DEF Picked
<1>3. ASSUME b < Len(s)
      PROVE  Picked(s, a, b + 1) =
               IF ForUs(s[b + 1]) THEN Append(Picked(s, a, b), s[b + 1]) ELSE Picked(s, a, b)
  <2> DEFINE n == b - a
             P == [i \in 1 .. n |-> Mine(s, a, i)]
             Q == [i \in 1 .. ((b + 1) - a) |-> Mine(s, a, i)]
             e == Mine(s, a, n + 1)
  <2>1. n \in Nat /\ (b + 1) - a = n + 1 /\ b \in a .. Len(s) /\ b + 1 \in a .. Len(s)
        /\ a + (n + 1) = b + 1
    BY <1>3
  <2>2. P \in Seq(Seq(Frame)) /\ Q \in Seq(Seq(Frame))
    BY <1>1, <2>1
  <2>3. s[b + 1] \in Frame
    BY <1>3
  <2>4. e = IF ForUs(s[b + 1]) THEN <<s[b + 1]>> ELSE <<>>
    BY <2>1 DEF Mine
  <2> HIDE DEF n
  <2>5. e \in Seq(Frame)
    <3> HIDE DEF e
    <3> QED BY <2>3, <2>4
  <2>6. Q = Append(P, e)
    <3>1. Q = [i \in 1 .. (n + 1) |-> Mine(s, a, i)] /\ Len(P) = n
      BY <2>1
    <3>2. \A i \in 1 .. (n + 1) : Q[i] = IF i = n + 1 THEN e ELSE P[i]
      BY <2>1
    <3> DEFINE t == Append(P, e)
    <3> HIDE DEF P, Q, e
    <3>3. /\ t \in Seq(Seq(Frame)) /\ Len(t) = Len(P) + 1
          /\ \A i \in 1 .. Len(P) : t[i] = P[i]
          /\ t[Len(P) + 1] = e
      BY <2>2, <2>5, AppendProperties
    <3>4. Len(Q) = n + 1
      BY <2>1, <2>2, <3>1
    <3> HIDE DEF t
    <3>5. \A i \in 1 .. Len(Q) : Q[i] = t[i]
      BY <2>1, <3>1, <3>2, <3>3, <3>4
    <3>6. Q = t
      BY <2>1, <2>2, <3>1, <3>3, <3>4, <3>5, SeqEqual
    <3> QED BY <3>6 DEF t
  <2>7. FlattenSeq(Q) = FlattenSeq(P) \o e
    <3> HIDE DEF P, Q, e
    <3> QED BY <2>2, <2>5, <2>6, FlattenAppend
  <2>8. FlattenSeq(P) \in Seq(Frame)
    BY <2>2, FlattenType
  <2>9. FlattenSeq(P) = Picked(s, a, b) /\ FlattenSeq(Q) = Picked(s, a, b + 1)
    BY DEF Picked, n
  <2> DEFINE U == Picked(s, a, b)
  <2> HIDE DEF P, Q, e
  <2>10. Picked(s, a, b + 1) = U \o e /\ U \in Seq(Frame)
    BY <2>7, <2>8, <2>9
  <2> HIDE DEF U
  <2>11. CASE ForUs(s[b + 1])
    <3>1. e = <<s[b + 1]>>
      BY <2>4, <2>11
    <3>2. U \o <<s[b + 1]>> = Append(U, s[b + 1])
      BY <2>3, <2>10, AppendIsConcat
    <3> QED BY <2>10, <2>11, <3>1, <3>2 DEF U
  <2>12. CASE ~ForUs(s[b + 1])
    <3>1. e = <<>>
      BY <2>4, <2>12
    <3>2. U \o <<>> = U
      BY <2>10
    <3> QED BY <2>10, <2>12, <3>1, <3>2 DEF U
  <2> QED BY <2>11, <2>12
<1> QED BY <1>1, <1>2, <1>3

(* The next frame is where the loop has got to. *)
LEMMA NextFrame ==
  ASSUME TypeOK, NEW a, NEW b, Slice(a), ReadTo(a, b), remain > 0
  PROVE  /\ b \in 0 .. (Len(stream) - 1) /\ FrameEnd(b) = End - remain
         /\ stream[b + 1] \in Frame /\ Next1(stream[b + 1])
         /\ FrameEnd(b + 1) = FrameEnd(b) + Len(Wire(stream[b + 1]))
<1> DEFINE f == stream[b + 1]
           total == Sent(Len(stream))
<1>1. /\ stream \in Seq(Frame) /\ Len(stream) \in Nat /\ start \in Nat
      /\ chunk \in Seq(Byte) /\ Len(chunk) \in Nat /\ remain \in Nat /\ remain <= Len(chunk)
  BY DEF TypeOK
<1>2. b \in 0 .. Len(stream) /\ FrameEnd(b) = End - remain
  BY <1>1 DEF ReadTo, Slice
<1>3. b \in 0 .. (Len(stream) - 1)
  <2>1. b # Len(stream)
    BY <1>1, <1>2 DEF Slice, End
  <2> QED BY <1>1, <1>2, <2>1
<1>4. /\ f \in Frame
      /\ FrameEnd(b + 1) = FrameEnd(b) + Len(Wire(f))
      /\ \A m \in 1 .. Len(Wire(f)) : total[FrameEnd(b) + m] = Wire(f)[m]
      /\ total \in Seq(Byte) /\ Len(total) \in Nat /\ FrameEnd(Len(stream)) = Len(total)
  <2> DEFINE E(i) == SentOf(stream, i)
  <2>1. /\ FrameEnd(b) = Len(E(b)) /\ FrameEnd(b + 1) = Len(E(b + 1))
        /\ FrameEnd(Len(stream)) = Len(E(Len(stream))) /\ total = E(Len(stream))
    BY SentSent
  <2>2. /\ f \in Frame
        /\ Len(E(b + 1)) = Len(E(b)) + Len(Wire(f))
        /\ \A m \in 1 .. Len(Wire(f)) : E(Len(stream))[Len(E(b)) + m] = Wire(f)[m]
    BY <1>1, <1>3, SentIs
  <2>3. Len(stream) \in 0 .. Len(stream)
    BY <1>1
  <2>4. E(Len(stream)) \in Seq(Byte)
    BY <1>1, <2>3, SentIs
  <2>5. Len(E(Len(stream))) \in Nat
    BY <2>4
  <2> HIDE DEF E, f, total
  <2> QED BY <2>1, <2>2, <2>4, <2>5
<1>5. Next1(f)
  <2> SUFFICES ASSUME NEW m \in 1 .. Len(Wire(f)), m <= remain
               PROVE  chunk[Offset + m] = Wire(f)[m]
    BY DEF Next1
  <2>1. Offset + m \in 1 .. Len(chunk) /\ start + (Offset + m) = FrameEnd(b) + m
        /\ m \in Nat /\ Offset \in Nat
    <3>1. Len(Wire(f)) \in Nat
      BY <1>4, WireIs
    <3> QED BY <1>1, <1>2, <3>1 DEF Offset, End
  <2> HIDE DEF total
  <2>2. chunk[Offset + m] = total[start + (Offset + m)]
    <3>1. chunk = SubSeq(total, start + 1, End) /\ End <= Len(total)
      BY <1>4 DEF Slice, total
    <3>2. /\ start + 1 \in Int /\ End \in Int
          /\ \A i \in (start + 1) .. End : total[i] \in Byte
          /\ End - (start + 1) + 1 = Len(chunk)
      BY <1>1, <1>4, <3>1 DEF End
    <3>3. \A i \in 1 .. Len(chunk) : chunk[i] = total[(start + 1) + i - 1]
      <4> HIDE DEF End
      <4>1. \A i \in 1 .. (End - (start + 1) + 1) :
              SubSeq(total, start + 1, End)[i] = total[(start + 1) + i - 1]
        BY <3>2, SubSeqProperties
      <4> QED BY <3>1, <3>2, <4>1
    <3>4. (start + 1) + (Offset + m) - 1 = start + (Offset + m)
      BY <1>1, <2>1
    <3> QED BY <2>1, <3>3, <3>4
  <2> QED BY <1>4, <2>1, <2>2
<1> QED BY <1>2, <1>3, <1>4, <1>5
(* It grows. *)
LEMMA EndsApart ==
  ASSUME TypeOK, NEW i \in 0 .. Len(stream), NEW j \in 0 .. Len(stream)
  PROVE  /\ FrameEnd(i) \in Nat /\ FrameEnd(i) <= FrameEnd(Len(stream))
         /\ i < j => FrameEnd(i) < FrameEnd(j)
<1> DEFINE E(k) == SentOf(stream, k)
<1>1. stream \in Seq(Frame) /\ Len(stream) \in Nat
  BY DEF TypeOK
<1>2. FrameEnd(i) = Len(E(i)) /\ FrameEnd(j) = Len(E(j)) /\ FrameEnd(Len(stream)) = Len(E(Len(stream)))
  BY SentSent
<1>3. Len(E(i)) \in Nat /\ Len(E(i)) <= Len(E(Len(stream)))
  BY <1>1, SentIs
<1>4. i < j => Len(E(i)) < Len(E(j))
  <2> SUFFICES ASSUME i < j PROVE Len(E(i)) < Len(E(j))
    OBVIOUS
  <2>1. j \in (i + 1) .. Len(stream)
    OBVIOUS
  <2> QED BY <1>1, <2>1, EndsGrow
<1> HIDE DEF E
<1> QED BY <1>2, <1>3, <1>4

LEMMA SameStream ==
  ASSUME stream' = stream
  PROVE  /\ \A i : FrameEnd(i)' = FrameEnd(i)
         /\ FrameEnd(Len(stream))' = FrameEnd(Len(stream))
         /\ Sent(Len(stream))' = Sent(Len(stream))
  BY DEF FrameEnd, Sent

-----------------------------------------------------------------------------
(* Every variable keeps its type. *)
LEMMA CodecTypeStep == TypeOK /\ [Next]_vars => TypeOK'
<1> SUFFICES ASSUME TypeOK, [Next]_vars PROVE TypeOK'
  OBVIOUS
<1>0. Buffer /\ Len(chunk) \in Nat /\ remain \in Nat /\ remain <= Len(chunk)
  BY DEF TypeOK, Buffer
<1>1. CASE Recv
  <2>1. PICK n \in 1 .. Len(Sent(Len(stream))) - start :
          /\ chunk' = SubSeq(Sent(Len(stream)), start + 1, start + n)
          /\ remain' = n
    BY <1>1 DEF Recv
  <2>2. Sent(Len(stream)) \in Seq(Byte)
    <3>1. Len(stream) \in 0 .. Len(stream) /\ stream \in Seq(Frame)
      BY DEF TypeOK
    <3>2. SentOf(stream, Len(stream)) \in Seq(Byte)
      BY <3>1, SentIs
    <3> QED BY <3>2, SentSent
  <2> DEFINE total == Sent(Len(stream))
  <2> HIDE DEF total
  <2>3. chunk' \in Seq(Byte) /\ Len(chunk') = n
    <3>1. total \in Seq(Byte) /\ n \in 1 .. (Len(total) - start) /\ start \in Nat
          /\ chunk' = SubSeq(total, start + 1, start + n)
      BY <2>1, <2>2 DEF total, TypeOK
    <3>2. /\ start + 1 \in Int /\ start + n \in Int /\ n \in Nat
          /\ \A i \in (start + 1) .. (start + n) : total[i] \in Byte
          /\ start + 1 <= start + n /\ (start + n) - (start + 1) + 1 = n
      BY <3>1
    <3> QED BY <3>1, <3>2, SubSeqProperties
  <2>4. remain' \in 0 .. Len(chunk')
    BY <2>1, <2>3
  <2>5. id' \in Ushort /\ old_id' \in Ushort
    BY <1>1, UshortIs, GarbageAssumption DEF Recv
  <2> QED BY <1>1, <2>3, <2>4, <2>5 DEF Recv, TypeOK
<1>2. CASE Seri2json
  <2>1. Addr3 \in Ushort /\ DataLen \in Nat
    BY <1>0, FieldsAre, UshortIs
  <2>2. remain' \in 0 .. Len(chunk)
    <3>1. ~CutShort => Rest \in 0 .. Len(chunk)
      <4> HIDE DEF DataLen
      <4> QED BY <1>0, <2>1 DEF CutShort, Rest, HeadLen
    <3> HIDE DEF Rest, CutShort, NotForUs
    <3> QED BY <1>0, <1>2, <3>1 DEF Seri2json
  <2>3. id' \in Ushort
    <3> HIDE DEF Addr3
    <3> QED BY <1>2, <2>1 DEF Seri2json, TypeOK
  <2>4. old_id' = id'
    BY <1>2 DEF Seri2json, LastId
  <2>5. UNCHANGED <<stream, start, chunk, pc>>
    BY <1>2 DEF Seri2json
  <2> QED BY <2>2, <2>3, <2>4, <2>5 DEF TypeOK
<1>3. CASE Finish
  BY <1>3 DEF Finish, TypeOK
<1>4. CASE JsonMsgproc
  BY <1>4 DEF JsonMsgproc, TypeOK
<1>5. CASE NextRecv
  <2>1. 0 \in Ushort /\ <<>> \in Seq(Byte) /\ Len(<<>>) = 0 /\ 0 \in 0 .. Len(<<>>)
    BY UshortIs
  <2>2. start + Len(chunk) \in Nat
    BY <1>0 DEF TypeOK
  <2> QED BY <1>5, <2>1, <2>2 DEF NextRecv, TypeOK
<1>6. CASE \E f \in Frame : CoordinatorSends(f)
  BY <1>6 DEF CoordinatorSends, TypeOK
<1>7. CASE UNCHANGED vars
  BY <1>7 DEF vars, TypeOK
<1> QED BY <1>1, <1>2, <1>3, <1>4, <1>5, <1>6, <1>7 DEF Next, Decode
(* The devices read so far. *)
LEMMA ListedGrows ==
  ASSUME NEW old \in Seq(Frame), NEW f \in Frame, NEW d, NEW coor, Listed(old, d, coor)
  PROVE  Listed(Append(old, f), Append(d, DeviceOf(f)), f.coor)
<1> DEFINE A == {DeviceOf(g) : g \in Frame}
           new == Append(old, f)
           e == DeviceOf(f)
           n == Append(d, e)
<1>1. d \in Seq(A) /\ e \in A /\ Len(d) = Len(old) /\ Len(old) \in Nat
  BY DEF Listed
<1>2. \A i \in 1 .. Len(old) : d[i] = DeviceOf(old[i])
  BY DEF Listed
<1>3. /\ new \in Seq(Frame) /\ Len(new) = Len(old) + 1 /\ new[Len(old) + 1] = f
      /\ \A i \in 1 .. Len(old) : new[i] = old[i]
  BY AppendProperties
<1> HIDE DEF A, new, e
<1>4. /\ n \in Seq(A) /\ Len(n) = Len(d) + 1 /\ n[Len(d) + 1] = e
      /\ \A i \in 1 .. Len(d) : n[i] = d[i]
  <2>1. d \in Seq(A) /\ e \in A
    BY <1>1
  <2> QED BY <2>1, AppendProperties
<1> HIDE DEF n
<1>5. Len(n) = Len(new)
  BY <1>1, <1>3, <1>4
<1>6. ASSUME NEW i \in 1 .. Len(new) PROVE n[i] = DeviceOf(new[i])
  <2>1. CASE i \in 1 .. Len(old)
    BY <1>1, <1>2, <1>3, <1>4, <2>1
  <2>2. CASE i = Len(old) + 1
    BY <1>1, <1>3, <1>4, <2>2 DEF e
  <2> QED BY <1>1, <1>3, <2>1, <2>2
<1>7. new # <<>> /\ new[Len(new)] = f
  <2>1. Len(new) # 0 /\ new[Len(new)] = f
    BY <1>1, <1>3
  <2> QED BY <2>1
<1>8. n \in Seq({DeviceOf(g) : g \in Frame})
  BY <1>4 DEF A
<1> QED BY <1>5, <1>6, <1>7, <1>8 DEF Listed, new, n, e

LEMMA ReadStep ==
  ASSUME TypeOK, TypeOK', ChunkRead, Seri2json
  PROVE  ChunkRead'
<1>1. PICK a \in 0 .. Len(stream), b \in 0 .. Len(stream) :
        Slice(a) /\ ReadTo(a, b) /\ Listed(Picked(stream, a, b), dev, id)
  BY DEF ChunkRead
<1> DEFINE f == stream[b + 1]
           old == Picked(stream, a, b)
           new == Picked(stream, a, b + 1)
<1>2. remain > 0 /\ UNCHANGED <<stream, start, chunk>> /\ old_id' = id'
  BY DEF Seri2json, LastId
<1>3. /\ stream \in Seq(Frame) /\ Len(stream) \in Nat /\ start \in Nat /\ Len(chunk) \in Nat
      /\ remain \in Nat /\ remain <= Len(chunk) /\ Buffer
  BY DEF TypeOK, Buffer
<1>4. /\ b \in 0 .. (Len(stream) - 1) /\ FrameEnd(b) = End - remain
      /\ f \in Frame /\ Next1(f) /\ FrameEnd(b + 1) = FrameEnd(b) + Len(Wire(f))
  BY <1>1, <1>2, NextFrame
<1>5. Slice(a)'
  BY <1>1, <1>2, SameStream DEF Slice, End
<1>6. End' = End /\ End \in Nat
  BY <1>2, <1>3 DEF End
<1>7. /\ FrameEnd(b)' = FrameEnd(b) /\ FrameEnd(b + 1)' = FrameEnd(b + 1)
      /\ FrameEnd(b) \in Nat /\ FrameEnd(b + 1) \in Nat /\ b \in a .. Len(stream)
      /\ b + 1 \in a .. Len(stream) /\ b + 1 \in 0 .. Len(stream) /\ Len(stream)' = Len(stream)
      /\ Len(Wire(f)) \in Nat
  <2>1. b \in a .. Len(stream) /\ FrameEnd(b)' = FrameEnd(b) /\ FrameEnd(b + 1)' = FrameEnd(b + 1)
    BY <1>1, <1>2, SameStream DEF ReadTo
  <2>2. b + 1 \in a .. Len(stream) /\ b + 1 \in 0 .. Len(stream)
    BY <1>1, <1>3, <1>4, <2>1
  <2>3. FrameEnd(b) \in Nat /\ FrameEnd(b + 1) \in Nat
    BY <1>1, <2>2, EndsApart
  <2>4. Len(Wire(f)) \in Nat
    BY <1>4, WireIs
  <2> QED BY <1>2, <2>1, <2>2, <2>3, <2>4
<1>8. /\ CutShort <=> remain < Len(Wire(f))
      /\ ~CutShort => /\ NotForUs <=> ~ForUs(f)
                      /\ Rest = remain - Len(Wire(f))
                      /\ Addr3 = f.coor
                      /\ Device = DeviceOf(f)
  BY <1>3, <1>4, FrameRead
<1>9. old \in Seq(Frame) /\ new = IF ForUs(f) THEN Append(old, f) ELSE old
  <2>1. a \in 0 .. Len(stream) /\ b \in a .. Len(stream) /\ b < Len(stream) /\ stream \in Seq(Frame)
    BY <1>1, <1>3, <1>4, <1>7
  <2> QED BY <2>1, PickedIs
<1>10. /\ \A c : Picked(stream', a, c) = Picked(stream, a, c)
       /\ a \in 0 .. Len(stream') /\ b \in 0 .. Len(stream') /\ b + 1 \in 0 .. Len(stream')
  BY <1>1, <1>2, <1>7
<1>11. Listed(old, dev, id)
  BY <1>1
<1>12. CASE CutShort
  <2> HIDE DEF f, CutShort, NotForUs, Rest, Addr3, Device, End
  <2>1. remain' = 0 /\ UNCHANGED <<id, dev>>
    BY <1>12 DEF Seri2json
  <2>2. ReadTo(a, b)'
    <3>1. FrameEnd(b + 1) > End /\ FrameEnd(b) <= End /\ b < Len(stream)
      BY <1>3, <1>4, <1>6, <1>7, <1>8, <1>12
    <3> QED BY <1>2, <1>6, <1>7, <2>1, <3>1 DEF ReadTo
  <2>3. Listed(Picked(stream', a, b), dev', id')
    BY <1>10, <1>11, <2>1
  <2> QED BY <1>2, <1>5, <1>10, <2>2, <2>3 DEF ChunkRead
<1>13. CASE ~CutShort
  <2> HIDE DEF f, old, new, CutShort, NotForUs, Rest, Addr3, Device, End
  <2>1. remain' = remain - Len(Wire(f))
    BY <1>8, <1>13 DEF Seri2json
  <2>2. ReadTo(a, b + 1)'
    <3>1. FrameEnd(b + 1) = End - remain' /\ FrameEnd(b + 1) <= End
      BY <1>3, <1>4, <1>6, <1>7, <1>8, <1>13, <2>1
    <3> QED BY <1>2, <1>6, <1>7, <3>1 DEF ReadTo
  <2>3. Listed(new, dev', id')
    <3>1. CASE ForUs(f)
      <4>1. id' = f.coor /\ dev' = Append(dev, DeviceOf(f))
        BY <1>8, <1>13, <3>1 DEF Seri2json
      <4>2. Listed(Append(old, f), Append(dev, DeviceOf(f)), f.coor)
        BY <1>4, <1>9, <1>11, ListedGrows
      <4> QED BY <1>9, <3>1, <4>1, <4>2
    <3>2. CASE ~ForUs(f)
      <4>1. UNCHANGED <<id, dev>>
        BY <1>8, <1>13, <3>2 DEF Seri2json
      <4> QED BY <1>9, <1>11, <3>2, <4>1
    <3> QED BY <3>1, <3>2
  <2>4. Listed(Picked(stream', a, b + 1), dev', id')
    BY <1>10, <2>3 DEF new
  <2> QED BY <1>2, <1>5, <1>10, <2>2, <2>4 DEF ChunkRead
<1> QED BY <1>12, <1>13
LEMMA RecvStep ==
  ASSUME TypeOK, TypeOK', Recv
  PROVE  ChunkRead'
<1> DEFINE total == Sent(Len(stream))
<1>1. PICK a \in 0 .. Len(stream) : start = FrameEnd(a)
  BY DEF Recv, Boundaries
<1>2. PICK n \in 1 .. (Len(total) - start) :
        chunk' = SubSeq(total, start + 1, start + n) /\ remain' = n
  BY DEF Recv
<1>3. /\ stream' = stream /\ start' = start /\ old_id' = 0 /\ dev' = <<>> /\ id' \in Garbage
      /\ stream \in Seq(Frame) /\ Len(stream) \in Nat /\ start \in Nat
  BY DEF Recv, TypeOK
<1>4. total \in Seq(Byte) /\ Len(total) \in Nat /\ FrameEnd(Len(stream)) = Len(total)
  <2>1. Len(stream) \in 0 .. Len(stream)
    BY <1>3
  <2>2. SentOf(stream, Len(stream)) \in Seq(Byte)
    BY <1>3, <2>1, SentIs
  <2>3. total = SentOf(stream, Len(stream)) /\ FrameEnd(Len(stream)) = Len(SentOf(stream, Len(stream)))
    BY SentSent
  <2> QED BY <2>2, <2>3
<1> HIDE DEF total
<1>5. n \in Nat /\ n > 0 /\ start + n <= Len(total) /\ n \in Int
  BY <1>3, <1>4
<1>6. Len(chunk') = n
  <2>1. /\ start + 1 \in Int /\ start + n \in Int
        /\ \A i \in (start + 1) .. (start + n) : total[i] \in Byte
        /\ start + 1 <= start + n /\ (start + n) - (start + 1) + 1 = n
    BY <1>3, <1>4, <1>5
  <2> QED BY <1>2, <2>1, SubSeqProperties
<1>7. End' = start + n
  BY <1>3, <1>6 DEF End
<1>8. /\ FrameEnd(a)' = start /\ FrameEnd(Len(stream))' = Len(total)
      /\ Sent(Len(stream))' = total
  BY <1>1, <1>3, <1>4, SameStream DEF total
<1> HIDE DEF End
<1>9. Slice(a)'
  <2>1. a \in 0 .. Len(stream') /\ Len(chunk') > 0 /\ start + n <= Len(total)
    BY <1>3, <1>5, <1>6
  <2>2. chunk' = SubSeq(total, start' + 1, End')
    BY <1>2, <1>3, <1>7
  <2> QED BY <1>3, <1>7, <1>8, <2>1, <2>2 DEF Slice
<1>10. ReadTo(a, a)'
  <2>1. a \in a .. Len(stream')
    BY <1>3
  <2>2. start <= End' /\ start = End' - remain'
    BY <1>2, <1>3, <1>5, <1>7
  <2> QED BY <1>8, <2>1, <2>2 DEF ReadTo
<1>11. Listed(Picked(stream', a, a), dev', id')
  <2>1. Picked(stream', a, a) = <<>>
    <3>1. stream' \in Seq(Frame) /\ a \in 0 .. Len(stream') /\ a \in a .. Len(stream')
      BY <1>3
    <3> QED BY <3>1, PickedIs
  <2>2. <<>> \in Seq({DeviceOf(f) : f \in Frame}) /\ Len(<<>>) = 0
    OBVIOUS
  <2> QED BY <1>3, <2>1, <2>2 DEF Listed
<1>12. ~(remain' < Len(chunk'))
  <2>1. remain' = n /\ ~(n < n)
    BY <1>2, <1>5
  <2> QED BY <1>6, <2>1
<1> QED BY <1>3, <1>9, <1>10, <1>11, <1>12 DEF ChunkRead

LEMMA CodecInvInit == Init => CodecInv
<1> SUFFICES ASSUME Init PROVE CodecInv
  OBVIOUS
<1>1. 0 \in Ushort /\ <<>> \in Seq(Byte) /\ <<>> \in Seq(Frame) /\ 0 \in 0 .. Len(<<>>)
  BY UshortIs
<1> QED BY <1>1 DEF Init, CodecInv, TypeOK

LEMMA CodecInvStep == CodecInv /\ [Next]_vars => CodecInv'
<1> SUFFICES ASSUME CodecInv, [Next]_vars PROVE CodecInv'
  OBVIOUS
<1>1. TypeOK /\ TypeOK'
  BY CodecTypeStep DEF CodecInv
<1>2. ASSUME UNCHANGED <<stream, start, chunk, remain, id, old_id, dev>>, ChunkRead
      PROVE  ChunkRead'
  <2>1. PICK a \in 0 .. Len(stream), b \in 0 .. Len(stream) :
          /\ Slice(a) /\ ReadTo(a, b) /\ Listed(Picked(stream, a, b), dev, id)
          /\ remain < Len(chunk) => old_id = id
    BY <1>2 DEF ChunkRead
  <2>2. Slice(a)' /\ ReadTo(a, b)'
    BY <1>2, <2>1, SameStream DEF Slice, ReadTo, End
  <2>3. Listed(Picked(stream', a, b), dev', id') /\ (remain' < Len(chunk') => old_id' = id')
    BY <1>2, <2>1
  <2>4. a \in 0 .. Len(stream') /\ b \in 0 .. Len(stream')
    BY <1>2
  <2> QED BY <2>2, <2>3, <2>4 DEF ChunkRead
<1>3. CASE Recv
  BY <1>1, <1>3, RecvStep DEF Recv, CodecInv
<1>4. CASE Seri2json
  <2>1. pc = "decode" /\ pc' = "decode"
    BY <1>4 DEF Seri2json
  <2>2. ChunkRead'
    BY <1>1, <1>4, <2>1, ReadStep DEF CodecInv
  <2> QED BY <1>1, <2>1, <2>2 DEF CodecInv
<1>5. CASE Finish
  <2>1. /\ pc = "decode" /\ pc' = "done" /\ remain <= 0 /\ remain' = remain
        /\ UNCHANGED <<stream, start, chunk, remain, id, old_id, dev>>
    BY <1>5 DEF Finish
  <2>2. ChunkRead'
    BY <1>2, <2>1 DEF CodecInv
  <2>3. remain' = 0
    BY <1>1, <2>1 DEF TypeOK
  <2> QED BY <1>1, <2>1, <2>2, <2>3 DEF CodecInv
<1>6. CASE JsonMsgproc
  <2>1. /\ pc = "done" /\ pc' = "sent" /\ command' = Answer
        /\ UNCHANGED <<stream, start, chunk, remain, id, old_id, dev>>
    BY <1>6 DEF JsonMsgproc, Answer
  <2>2. ChunkRead' /\ remain' = 0
    BY <1>2, <2>1 DEF CodecInv
  <2>3. Answer' = Answer
    BY <2>1 DEF Answer
  <2> QED BY <1>1, <2>1, <2>2, <2>3 DEF CodecInv
<1>7. CASE NextRecv
  BY <1>1, <1>7 DEF NextRecv, CodecInv
<1>8. CASE \E f \in Frame : CoordinatorSends(f)
  BY <1>1, <1>8 DEF CoordinatorSends, CodecInv
<1>9. CASE UNCHANGED vars
  <2>1. /\ UNCHANGED <<stream, start, chunk, remain, id, old_id, dev>>
        /\ pc' = pc /\ command' = command /\ remain' = remain /\ dev' = dev
    BY <1>9 DEF vars
  <2>2. Answer' = Answer
    BY <2>1 DEF Answer
  <2> QED BY <1>1, <1>2, <2>1, <2>2 DEF CodecInv
<1> QED BY <1>3, <1>4, <1>5, <1>6, <1>7, <1>8, <1>9 DEF Next, Decode

THEOREM CodecInvariant == Spec => []CodecInv
  BY CodecInvInit, CodecInvStep, PTL DEF Spec

(* Every variable has its type, and no frame is taken for longer than what *)
(* is left of the chunk: the length that remains never falls below zero,    *)
(* where the loop of seri_msgproc stops (serijson.c:90-97, 394).            *)
THEOREM CodecTypeCorrect == Spec => []TypeOK
<1>1. CodecInv => TypeOK
  BY DEF CodecInv
<1> QED BY <1>1, CodecInvariant, PTL

-----------------------------------------------------------------------------
(* What the properties ask about a chunk that has been decoded. *)
LEMMA WithinIs ==
  ASSUME TypeOK, NEW a, NEW b, Slice(a), ReadTo(a, b), remain = 0
  PROVE  /\ Within = SubSeq(stream, a + 1, b)
         /\ Within \in Seq(Frame) /\ DOMAIN Within = 1 .. (b - a)
         /\ \A i \in 1 .. (b - a) : Within[i] = stream[a + i]
         /\ Wanted = Picked(stream, a, b)
         /\ End \in Boundaries <=> FrameEnd(b) = End
<1>1. /\ stream \in Seq(Frame) /\ Len(stream) \in Nat /\ a \in 0 .. Len(stream)
      /\ b \in a .. Len(stream) /\ b \in 0 .. Len(stream) /\ start = FrameEnd(a) /\ End \in Nat
  <2>1. stream \in Seq(Frame) /\ Len(stream) \in Nat /\ start \in Nat /\ Len(chunk) \in Nat
    BY DEF TypeOK
  <2>2. a \in 0 .. Len(stream) /\ start = FrameEnd(a) /\ b \in a .. Len(stream)
    BY DEF Slice, ReadTo
  <2>3. End \in Nat /\ b \in 0 .. Len(stream)
    BY <2>1, <2>2 DEF End
  <2> QED BY <2>1, <2>2, <2>3
<1> DEFINE IsLast(i) == /\ FrameEnd(i) <= End
                        /\ i < Len(stream) => FrameEnd(i + 1) > End
<1>2. \A i \in 0 .. Len(stream) : FrameEnd(i) \in Nat
  BY <1>1, EndsApart
<1>3. \A i, j \in 0 .. Len(stream) : i < j => FrameEnd(i) < FrameEnd(j)
  BY <1>1, EndsApart
<1>4. IsLast(b)
  <2>1. b < Len(stream) => b + 1 \in 0 .. Len(stream) /\ FrameEnd(b) < FrameEnd(b + 1)
    BY <1>1, <1>3
  <2>2. FrameEnd(b) = End \/ (b < Len(stream) /\ FrameEnd(b + 1) > End)
    <3>1. End - remain = End
      BY <1>1
    <3> HIDE DEF End
    <3> QED BY <3>1 DEF ReadTo
  <2> HIDE DEF End
  <2> QED BY <2>1, <2>2 DEF ReadTo
<1>5. ASSUME NEW i \in 0 .. Len(stream), IsLast(i) PROVE i = b
  <2>1. CASE i < b
    <3>1. i + 1 \in 0 .. Len(stream) /\ (i + 1 = b \/ i + 1 < b) /\ i < Len(stream)
      BY <1>1, <2>1
    <3>2. FrameEnd(i + 1) <= FrameEnd(b) /\ FrameEnd(i + 1) > End
      BY <1>1, <1>2, <1>3, <1>5, <3>1
    <3> HIDE DEF End
    <3> QED BY <1>1, <1>2, <1>4, <3>1, <3>2
  <2>2. CASE b < i
    <3>1. b + 1 \in 0 .. Len(stream) /\ (b + 1 = i \/ b + 1 < i) /\ b < Len(stream)
      BY <1>1, <2>2
    <3>2. FrameEnd(b + 1) <= FrameEnd(i) /\ FrameEnd(b + 1) > End
      BY <1>1, <1>2, <1>3, <1>4, <3>1
    <3> HIDE DEF End
    <3> QED BY <1>1, <1>2, <1>5, <3>1, <3>2
  <2> QED BY <1>1, <2>1, <2>2
<1>6. (CHOOSE i \in 0 .. Len(stream) : FrameEnd(i) = start) = a
  <2>1. \A i \in 0 .. Len(stream) : FrameEnd(i) = start => i = a
    BY <1>1, <1>2, <1>3
  <2> QED BY <1>1, <2>1
<1>7. (CHOOSE i \in 0 .. Len(stream) : IsLast(i)) = b
  <2> HIDE DEF IsLast
  <2> QED BY <1>1, <1>4, <1>5
<1>8. Within = SubSeq(stream, a + 1, b)
  BY <1>6, <1>7 DEF Within, End
<1>9. /\ Within \in Seq(Frame) /\ Len(Within) = b - a
      /\ \A i \in 1 .. (b - a) : Within[i] = stream[a + i]
  <2>1. /\ a + 1 \in Int /\ b \in Int
        /\ \A i \in (a + 1) .. b : stream[i] \in Frame
        /\ b - (a + 1) + 1 = b - a /\ (a + 1 <= b \/ b - a = 0)
    BY <1>1
  <2> DEFINE W == SubSeq(stream, a + 1, b)
  <2>2. /\ W \in Seq(Frame) /\ Len(W) = IF a + 1 <= b THEN b - (a + 1) + 1 ELSE 0
        /\ \A i \in 1 .. (b - (a + 1) + 1) : W[i] = stream[(a + 1) + i - 1]
    BY <2>1, SubSeqProperties
  <2> HIDE DEF W
  <2>3. Len(W) = b - a
    BY <1>1, <2>1, <2>2
  <2>4. ASSUME NEW i \in 1 .. (b - a) PROVE W[i] = stream[a + i]
    <3>1. (a + 1) + i - 1 = a + i
      BY <1>1
    <3> QED BY <2>1, <2>2, <3>1
  <2> QED BY <1>8, <2>2, <2>3, <2>4 DEF W
<1>10. Wanted = Picked(stream, a, b)
  <2>1. DOMAIN Within = 1 .. (b - a)
    BY <1>9
  <2>2. \A i \in 1 .. (b - a) :
          (IF ForUs(Within[i]) THEN <<Within[i]>> ELSE <<>>) = Mine(stream, a, i)
    BY <1>9 DEF Mine
  <2>3. [i \in DOMAIN Within |-> IF ForUs(Within[i]) THEN <<Within[i]>> ELSE <<>>]
        = [i \in 1 .. (b - a) |-> Mine(stream, a, i)]
    BY <2>1, <2>2
  <2> QED BY <2>3 DEF Wanted, Picked
<1>11. End \in Boundaries <=> FrameEnd(b) = End
  <2>1. ASSUME End \in Boundaries PROVE FrameEnd(b) = End
    <3>1. PICK i \in 0 .. Len(stream) : FrameEnd(i) = End
      BY <2>1 DEF Boundaries
    <3>2. IsLast(i)
      <4>1. i < Len(stream) => i + 1 \in 0 .. Len(stream) /\ FrameEnd(i) < FrameEnd(i + 1)
        BY <1>1, <1>3
      <4> HIDE DEF End
      <4> QED BY <1>1, <3>1, <4>1
    <3> HIDE DEF IsLast
    <3> QED BY <1>5, <3>1, <3>2
  <2>2. ASSUME FrameEnd(b) = End PROVE End \in Boundaries
    BY <1>1, <2>2 DEF Boundaries
  <2> QED BY <2>1, <2>2
<1> QED BY <1>8, <1>9, <1>10, <1>11
-----------------------------------------------------------------------------
(* The document *)

LEMMA DeviceDescribes ==
  ASSUME NEW f \in Frame
  PROVE  Describes(DeviceOf(f), f)
<1> DEFINE d == DeviceOf(f)
           n == f.dev[1] + 256 * f.dev[2]
<1>1. n \in Ushort /\ f.coor \in Ushort
  BY FrameIs, Orders
<1>2. d.devid = Decimal(n) /\ d.coorid = Decimal(f.coor) /\ d.devrssi = f.rssi
      /\ d.devrtype = seri_dev_modestr[f.devtype + 1] /\ d.devtlv = TlvsOf(f.tlvs, 0)
  BY DEF DeviceOf
<1> HIDE DEF n, d
<1>3. atoi(d.devid) = n /\ atoi(d.coorid) = f.coor
  BY <1>1, <1>2, DecimalRead
<1>4. f.tlvs \in Seq([type : Byte, value : Seq(Byte)])
  BY FrameIs
<1>5. DOMAIN f.tlvs = 1 .. Len(f.tlvs) /\ Len(f.tlvs) - 0 = Len(f.tlvs)
  BY <1>4
<1>6. DOMAIN d.devtlv = 1 .. Len(f.tlvs)
  BY <1>2, <1>5 DEF TlvsOf
<1>7. \A i \in 1 .. Len(f.tlvs) : d.devtlv[i].tag = f.tlvs[i].type
  <2> TAKE i \in 1 .. Len(f.tlvs)
  <2>1. 0 + i = i
    OBVIOUS
  <2>2. d.devtlv[i] = TlvOf(f.tlvs[i])
    BY <1>2, <1>5, <2>1 DEF TlvsOf
  <2> QED BY <2>2 DEF TlvOf
<1>8. [i \in DOMAIN d.devtlv |-> d.devtlv[i].tag] = [i \in DOMAIN f.tlvs |-> f.tlvs[i].type]
  BY <1>5, <1>6, <1>7
<1> QED BY <1>2, <1>3, <1>8 DEF Describes, d, n

(* What an inductive state says of a chunk that has been decoded. *)
LEMMA Decoded ==
  ASSUME CodecInv, pc \in {"done", "sent"}
  PROVE  \E a, b \in 0 .. Len(stream) :
           /\ Slice(a) /\ ReadTo(a, b) /\ b \in a .. Len(stream)
           /\ Listed(Wanted, dev, old_id) /\ Wanted = Picked(stream, a, b)
           /\ Wanted \in Seq(Frame)
<1>1. TypeOK /\ ChunkRead /\ remain = 0
  BY DEF CodecInv
<1>2. PICK a \in 0 .. Len(stream), b \in 0 .. Len(stream) :
        /\ Slice(a) /\ ReadTo(a, b) /\ Listed(Picked(stream, a, b), dev, id)
        /\ remain < Len(chunk) => old_id = id
  BY <1>1 DEF ChunkRead
<1>3. Wanted = Picked(stream, a, b)
  BY <1>1, <1>2, WithinIs
<1>4. old_id = id
  BY <1>1, <1>2 DEF Slice
<1>5. b \in a .. Len(stream) /\ stream \in Seq(Frame)
  BY <1>1, <1>2 DEF ReadTo, TypeOK
<1>6. Picked(stream, a, b) \in Seq(Frame)
  BY <1>2, <1>5, PickedIs
<1> QED BY <1>2, <1>3, <1>4, <1>5, <1>6

(* However frames are joined in a chunk and wherever the chunk ends, its    *)
(* document lists the devices of exactly the frames that are for us and     *)
(* lie whole within it, in order (serijson.c:75-116, 394-412).              *)
THEOREM WholeFramesAreDecoded == Spec => []WholeFramesDecoded
<1>1. CodecInv => WholeFramesDecoded
  <2> SUFFICES ASSUME CodecInv, pc = "done"
               PROVE  /\ Len(dev) = Len(Wanted)
                      /\ \A i \in DOMAIN Wanted : Describes(dev[i], Wanted[i])
    BY DEF WholeFramesDecoded
  <2>1. Listed(Wanted, dev, old_id) /\ Wanted \in Seq(Frame)
    BY Decoded
  <2>2. ASSUME NEW i \in DOMAIN Wanted PROVE Describes(dev[i], Wanted[i])
    <3>1. i \in 1 .. Len(Wanted) /\ Wanted[i] \in Frame
      BY <2>1
    <3>2. dev[i] = DeviceOf(Wanted[i])
      BY <2>1, <3>1 DEF Listed
    <3> QED BY <3>1, <3>2, DeviceDescribes
  <2> QED BY <2>1, <2>2 DEF Listed
<1> QED BY <1>1, CodecInvariant, PTL

-----------------------------------------------------------------------------
(* The id *)

(* The last of the frames that are for us, if there is one. *)
NoneMine(s, a, b) ==
  Picked(s, a, b) = <<>> /\ \A k \in 1 .. (b - a) : ~ForUs(s[a + k])
LastMine(s, a, b) ==
  \E k \in 1 .. (b - a) :
    /\ Picked(s, a, b) # <<>> /\ Picked(s, a, b)[Len(Picked(s, a, b))] = s[a + k]
    /\ ForUs(s[a + k]) /\ \A j \in 1 .. (b - a) : ForUs(s[a + j]) => j <= k

LEMMA LastPicked ==
  ASSUME NEW s \in Seq(Frame), NEW a \in 0 .. Len(s), NEW b \in a .. Len(s)
  PROVE  NoneMine(s, a, b) \/ LastMine(s, a, b)
<1> DEFINE S == {c \in a .. Len(s) : NoneMine(s, a, c) \/ LastMine(s, a, c)}
<1>1. a \in S
  <2>1. a \in a .. Len(s) /\ 1 .. (a - a) = {}
    OBVIOUS
  <2>2. Picked(s, a, a) = <<>>
    BY <2>1, PickedIs
  <2> QED BY <2>1, <2>2 DEF NoneMine
<1>2. ASSUME NEW c \in a .. (Len(s) - 1), c \in S PROVE c + 1 \in S
  <2> DEFINE n == c - a
             f == s[c + 1]
             P == Picked(s, a, c)
             Q == Picked(s, a, c + 1)
  <2>1. /\ c \in a .. Len(s) /\ c + 1 \in a .. Len(s) /\ c < Len(s) /\ n \in Nat
        /\ (c + 1) - a = n + 1 /\ a + (n + 1) = c + 1 /\ n + 1 \in 1 .. (n + 1)
        /\ \A k \in 1 .. (n + 1) : k = n + 1 \/ k \in 1 .. n
        /\ \A k \in 1 .. n : k <= n + 1 /\ k \in 1 .. (n + 1)
    OBVIOUS
  <2>2. P \in Seq(Frame) /\ Q = IF ForUs(f) THEN Append(P, f) ELSE P
    BY <2>1, PickedIs
  <2>3. f \in Frame
    OBVIOUS
  <2>4. NoneMine(s, a, c) \/ LastMine(s, a, c)
    BY <1>2
  <2>5. CASE ForUs(f)
    <3> HIDE DEF P, f
    <3>1. Q = Append(P, f)
      BY <2>2, <2>5
    <3>2. Q # <<>> /\ Q[Len(Q)] = f
      <4>1. Append(P, f) \in Seq(Frame) /\ Len(Append(P, f)) = Len(P) + 1 /\ Append(P, f)[Len(P) + 1] = f
        BY <2>2, <2>3, AppendProperties
      <4>2. Len(P) \in Nat
        BY <2>2
      <4> HIDE DEF Q
      <4> QED BY <3>1, <4>1, <4>2
    <3>3. LastMine(s, a, c + 1)
      <4> HIDE DEF n, Q
      <4>1. f = s[a + (n + 1)]
        BY <2>1 DEF f
      <4>2. \A j \in 1 .. (n + 1) : j <= n + 1
        BY <2>1
      <4>3. /\ n + 1 \in 1 .. ((c + 1) - a) /\ (c + 1) - a = n + 1
        BY <2>1
      <4> QED BY <2>5, <3>2, <4>1, <4>2, <4>3 DEF LastMine, Q
    <3> QED BY <2>1, <3>3
  <2>6. CASE ~ForUs(f)
    <3>1. Q = P
      BY <2>2, <2>6
    <3>2. ~ForUs(s[a + (n + 1)])
      BY <2>1, <2>6
    <3> HIDE DEF n, P, Q, f
    <3>3. CASE NoneMine(s, a, c)
      <4>1. P = <<>> /\ \A k \in 1 .. n : ~ForUs(s[a + k])
        BY <3>3 DEF NoneMine, n, P
      <4>2. \A k \in 1 .. (n + 1) : ~ForUs(s[a + k])
        BY <2>1, <3>2, <4>1
      <4>3. NoneMine(s, a, c + 1)
        BY <2>1, <3>1, <4>1, <4>2 DEF NoneMine, Q
      <4> QED BY <2>1, <4>3
    <3>4. CASE LastMine(s, a, c)
      <4>1. PICK k \in 1 .. n :
              /\ P # <<>> /\ P[Len(P)] = s[a + k]
              /\ ForUs(s[a + k]) /\ \A j \in 1 .. n : ForUs(s[a + j]) => j <= k
        BY <3>4 DEF LastMine, n, P
      <4>2. \A j \in 1 .. (n + 1) : ForUs(s[a + j]) => j <= k
        BY <2>1, <3>2, <4>1
      <4>3. LastMine(s, a, c + 1)
        BY <2>1, <3>1, <4>1, <4>2 DEF LastMine, Q
      <4> QED BY <2>1, <4>3
    <3> QED BY <2>4, <3>3, <3>4
  <2> QED BY <2>5, <2>6
<1>3. a .. Len(s) \subseteq S
  <2>1. a \in Int /\ Len(s) \in Int
    OBVIOUS
  <2> HIDE DEF S
  <2> QED BY <1>1, <1>2, <2>1, IntervalSet
<1> QED BY <1>3

LEMMA AbstractIs ==
  ASSUME TypeOK, NEW a, NEW b, Slice(a), ReadTo(a, b), remain = 0
  PROVE  LET ids == Loop!Ours(Abstract)
         IN  /\ ids = {k \in 1 .. (b - a) : ForUs(stream[a + k])}
             /\ \A k \in ids : Abstract[k] = stream[a + k].coor
<1> DEFINE n == b - a
           kind(f) == IF ForUs(f) THEN f.coor ELSE Skip
           K == [k \in 1 .. n |-> kind(stream[a + k])]
           T == IF End \in Boundaries THEN <<>> ELSE <<Short>>
           C == {f.coor : f \in Frame} \cup Garbage
           A == Ushort \cup {Skip, Short}
<1>1. /\ stream \in Seq(Frame) /\ Len(stream) \in Nat /\ a \in 0 .. Len(stream)
      /\ b \in a .. Len(stream) /\ n \in Nat
      /\ \A k \in 1 .. n : stream[a + k] \in Frame
  BY DEF TypeOK, Slice, ReadTo
<1>2. /\ DOMAIN Within = 1 .. n /\ \A k \in 1 .. n : Within[k] = stream[a + k]
  BY WithinIs
<1>3. Abstract = K \o T
  <2>1. \A k \in 1 .. n :
          [f \in Frame |-> IF ForUs(f) THEN f.coor ELSE Skip][Within[k]] = kind(stream[a + k])
    BY <1>1, <1>2
  <2>2. [k \in DOMAIN Within |-> [f \in Frame |-> IF ForUs(f) THEN f.coor ELSE Skip][Within[k]]] = K
    <3> HIDE DEF n, kind
    <3> QED BY <1>2, <2>1
  <2> QED BY <2>2 DEF Abstract, End
<1>4. \A f \in Frame : f.coor \in Ushort /\ f.coor \in C
  BY FrameIs
<1>5. Skip \notin C /\ Short \notin C /\ Skip # Short
  BY <1>4, MarkAssumption, GarbageAssumption
<1>6. K \in Seq(A) /\ Len(K) = n /\ \A k \in 1 .. n : K[k] = kind(stream[a + k])
  <2>1. \A k \in 1 .. n : kind(stream[a + k]) \in A
    BY <1>1, <1>4
  <2> HIDE DEF n, kind, A
  <2>2. K \in [1 .. n -> A] /\ \A k \in 1 .. n : K[k] = kind(stream[a + k])
    BY <2>1
  <2> HIDE DEF K
  <2>3. K \in Seq(A) /\ Len(K) = n
    BY <1>1, <2>2
  <2> QED BY <2>2, <2>3
<1>7. T \in Seq(A) /\ (T = <<>> \/ T = <<Short>>)
  <2>1. Short \in A
    OBVIOUS
  <2> HIDE DEF A
  <2> QED BY <2>1
<1> HIDE DEF n, kind, K, T, C, A
<1>8. /\ K \o T \in Seq(A) /\ Len(K \o T) = Len(K) + Len(T)
      /\ \A k \in 1 .. Len(K) : (K \o T)[k] = K[k]
      /\ \A k \in 1 .. Len(T) : (K \o T)[Len(K) + k] = T[k]
  <2>1. K \in Seq(A) /\ T \in Seq(A)
    BY <1>6, <1>7
  <2> QED BY <2>1, ConcatAt
<1>9. \A k \in 1 .. Len(Abstract) : \/ k \in 1 .. n /\ Abstract[k] = kind(stream[a + k])
                                    \/ k \notin 1 .. n /\ Abstract[k] = Short
  <2>1. CASE T = <<>>
    BY <1>1, <1>3, <1>6, <1>8, <2>1
  <2>2. CASE T = <<Short>>
    <3>1. Len(T) = 1 /\ T[1] = Short
      BY <2>2
    <3>2. Len(Abstract) = n + 1 /\ Abstract[n + 1] = Short
      BY <1>1, <1>3, <1>6, <1>8, <3>1
    <3>3. \A k \in 1 .. n : Abstract[k] = kind(stream[a + k])
      BY <1>3, <1>6, <1>8
    <3> QED BY <1>1, <3>2, <3>3
  <2> QED BY <1>7, <2>1, <2>2
<1>10. \A k \in 1 .. n : k \in 1 .. Len(Abstract)
  <2>1. Len(Abstract) >= n /\ Len(Abstract) \in Nat
    <3>1. Len(T) \in Nat
      BY <1>7
    <3> QED BY <1>1, <1>3, <1>6, <1>8, <3>1
  <2> QED BY <1>1, <2>1
<1>11. \A k \in 1 .. n : /\ Abstract[k] = kind(stream[a + k]) /\ Abstract[k] # Short
                         /\ Abstract[k] \in C <=> ForUs(stream[a + k])
  <2> TAKE k \in 1 .. n
  <2>1. Abstract[k] = kind(stream[a + k])
    BY <1>9, <1>10
  <2>2. stream[a + k].coor \in C
    BY <1>1, <1>4
  <2> QED BY <1>5, <2>1, <2>2 DEF kind
<1>12. Loop!Ours(Abstract) = {k \in 1 .. n : ForUs(stream[a + k])}
  <2>1. Loop!Ours(Abstract) =
          {i \in 1 .. Len(Abstract) : Abstract[i] \in C /\ \A j \in 1 .. i : Abstract[j] # Short}
    BY DEF Loop!Ours, C
  <2>2. ASSUME NEW k \in 1 .. n PROVE \A j \in 1 .. k : Abstract[j] # Short
    <3>1. \A j \in 1 .. k : j \in 1 .. n
      BY <1>1
    <3> QED BY <1>11, <3>1
  <2>3. \A k \in 1 .. Len(Abstract) : Abstract[k] \in C => k \in 1 .. n
    BY <1>5, <1>9
  <2> QED BY <1>10, <1>11, <2>1, <2>2, <2>3
<1>13. \A k \in 1 .. n : ForUs(stream[a + k]) => Abstract[k] = stream[a + k].coor
  BY <1>11 DEF kind
<1> QED BY <1>12, <1>13 DEF n

(* The id the bytes of a chunk yield is the last of our coordinators in it, *)
(* or whatever was in the variable: one of those the model of the event     *)
(* loop allows for its frames (serijson.c:385, 406-413; main.c:291-302).    *)
THEOREM IdIsAsLoopExpects == Spec => []IdAsLoopExpects
<1>1. CodecInv => IdAsLoopExpects
  <2> SUFFICES ASSUME CodecInv, pc = "done"
               PROVE  old_id \in Loop!CoorIds(Abstract)
    BY DEF IdAsLoopExpects
  <2>1. PICK a \in 0 .. Len(stream), b \in 0 .. Len(stream) :
          /\ Slice(a) /\ ReadTo(a, b) /\ b \in a .. Len(stream)
          /\ Listed(Picked(stream, a, b), dev, old_id)
    BY Decoded
  <2>2. TypeOK /\ remain = 0 /\ stream \in Seq(Frame)
    BY DEF CodecInv, TypeOK
  <2> DEFINE ids == Loop!Ours(Abstract)
             n == b - a
  <2>3. /\ ids = {k \in 1 .. n : ForUs(stream[a + k])}
        /\ \A k \in ids : Abstract[k] = stream[a + k].coor
    BY <2>1, <2>2, AbstractIs
  <2>4. Loop!CoorIds(Abstract) =
          IF ids = {} THEN {f.coor : f \in Frame} \cup Garbage
          ELSE {Abstract[i] : i \in {k \in ids : \A j \in ids : j <= k}}
    BY DEF Loop!CoorIds
  <2>5. NoneMine(stream, a, b) \/ LastMine(stream, a, b)
    BY <2>1, <2>2, LastPicked
  <2> HIDE DEF ids
  <2>6. CASE NoneMine(stream, a, b)
    <3>1. ids = {}
      BY <2>3, <2>6 DEF NoneMine
    <3>2. old_id \in Garbage
      BY <2>1, <2>6 DEF NoneMine, Listed
    <3> QED BY <2>4, <3>1, <3>2
  <2>7. CASE LastMine(stream, a, b)
    <3>1. PICK k \in 1 .. n :
            /\ Picked(stream, a, b) # <<>>
            /\ Picked(stream, a, b)[Len(Picked(stream, a, b))] = stream[a + k]
            /\ ForUs(stream[a + k]) /\ \A j \in 1 .. n : ForUs(stream[a + j]) => j <= k
      BY <2>7 DEF LastMine
    <3>2. old_id = stream[a + k].coor
      BY <2>1, <3>1 DEF Listed
    <3>3. k \in ids /\ \A j \in ids : j <= k
      BY <2>3, <3>1
    <3>4. Abstract[k] = old_id
      BY <2>3, <3>2, <3>3
    <3> QED BY <2>4, <3>3, <3>4
  <2> QED BY <2>5, <2>6, <2>7
<1> QED BY <1>1, CodecInvariant, PTL
-----------------------------------------------------------------------------
(* The command *)

LEMMA TlvsReturn ==
  ASSUME NEW f \in Frame
  PROVE  SeriTlvs(DeviceOf(f)) = TlvBytes(f.tlvs)
<1> DEFINE t == f.tlvs
           d == DeviceOf(f).devtlv
           n == Len(t)
<1>1. t \in Seq([type : Byte, value : Seq(Byte)]) /\ DOMAIN t = 1 .. n /\ n \in Nat
  <2>1. t \in Seq([type : Byte, value : Seq(Byte)])
    BY FrameIs
  <2> QED BY <2>1
<1>2. d = TlvsOf(t, 0)
  BY DEF DeviceOf
<1> HIDE DEF d
<1>3. DOMAIN d = 1 .. n /\ \A i \in 1 .. n : d[i] = TlvOf(t[i])
  <2>1. n - 0 = n /\ \A i \in 1 .. n : 0 + i = i
    BY <1>1
  <2> QED BY <1>2, <2>1 DEF TlvsOf
<1>4. ASSUME NEW i \in 1 .. n PROVE SeriTlv(d[i]) = <<t[i].type, Len(t[i].value)>> \o t[i].value
  <2> DEFINE v == t[i].value
             b == [j \in 1 .. Len(v) |-> hextodec(SubSeq(Printed(v), 2 * j + 1, 2 * j + 2)) % 256]
  <2>1. v \in Seq(Byte)
    BY FrameIs
  <2>2. d[i].tag = t[i].type /\ d[i].len = Len(v) /\ d[i].value = Printed(v)
    <3>1. d[i] = TlvOf(t[i])
      BY <1>3
    <3>2. d[i] = [tag |-> t[i].type, len |-> Len(v), value |-> Printed(v)]
      BY <3>1 DEF TlvOf
    <3> HIDE DEF v
    <3> QED BY <3>2
  <2>3. SeriTlv(d[i]) = <<t[i].type, Len(v)>> \o b
    BY <2>2 DEF SeriTlv
  <2> HIDE DEF v
  <2>4. ASSUME NEW j \in 1 .. Len(v)
        PROVE  hextodec(SubSeq(Printed(v), 2 * j + 1, 2 * j + 2)) % 256 = v[j]
    <3>1. v[j] \in Nat /\ v[j] <= 255
      BY <2>1, ByteIs
    <3>2. hextodec(SubSeq(Printed(v), 2 * j + 1, 2 * j + 2)) = v[j]
      BY <2>1, PrintedIs
    <3>3. v[j] % 256 = v[j]
      BY <3>1
    <3> QED BY <3>2, <3>3
  <2>5. b = v
    <3>1. b = [j \in 1 .. Len(v) |-> v[j]]
      BY <2>4
    <3>2. v = [j \in 1 .. Len(v) |-> v[j]]
      BY <2>1
    <3> QED BY <3>1, <3>2
  <2> QED BY <2>3, <2>5 DEF v
<1>5. [i \in DOMAIN d |-> SeriTlv(d[i])] = Parts(t)
  <2>1. [i \in 1 .. n |-> SeriTlv(d[i])] = [i \in 1 .. n |-> <<t[i].type, Len(t[i].value)>> \o t[i].value]
    BY <1>4
  <2> QED BY <1>1, <1>3, <2>1 DEF Parts
<1>6. SeriTlvs(DeviceOf(f)) = FlattenSeq(Parts(t))
  BY <1>5 DEF SeriTlvs, d
<1> QED BY <1>6, PartsIs

LEMMA BufferReturns ==
  ASSUME NEW f \in Frame
  PROVE  LET tlvs == TlvBytes(f.tlvs)
         IN  /\ SeriBuf(DeviceOf(f)) = <<254, 1, High(Len(tlvs)), Low(Len(tlvs)), f.dev[1], f.dev[2],
                                         0, 0, 0, 0, 0, 0, 0, 0, 0, 0>> \o tlvs
             /\ Len(SeriBuf(DeviceOf(f))) = HeadLen + Len(tlvs)
<1> DEFINE T == TlvBytes(f.tlvs)
           d == DeviceOf(f)
           n == Len(T)
           head == <<254, 1, High(n), Low(n), f.dev[1], f.dev[2], 0, 0, 0, 0, 0, 0, 0, 0, 0, 0>>
<1>1. SeriTlvs(d) = T
  BY TlvsReturn
<1>2. n \in Ushort /\ T \in Seq(Byte)
  BY WireIs, PartsIs
<1>3. Low(Swapped(n)) = High(n) /\ High(Swapped(n)) = Low(n) /\ High(n) \in Byte /\ Low(n) \in Byte
  BY <1>2, Halves
<1>4. f.dev[1] \in Byte /\ f.dev[2] \in Byte
  BY FrameIs
<1>5. atoi(d.devid) = f.dev[1] + 256 * f.dev[2]
  BY DeviceDescribes DEF Describes
<1>6. Low(atoi(d.devid)) = f.dev[1] /\ High(atoi(d.devid)) = f.dev[2]
  BY <1>4, <1>5, Orders
<1> HIDE DEF d, T, n
<1>7. SeriBuf(d) = head \o T
  BY <1>1, <1>3, <1>6 DEF SeriBuf, n
<1>8. head \in Seq(Byte) /\ Len(head) = 16
  <2>1. 254 \in Byte /\ 0 \in Byte /\ 1 \in Byte
    BY ByteIs
  <2> QED BY <1>3, <1>4, <2>1
<1> HIDE DEF head
<1>9. Len(head \o T) = Len(head) + Len(T)
  BY <1>2, <1>8, ConcatAt
<1>10. Len(SeriBuf(d)) = HeadLen + Len(T)
  BY <1>7, <1>8, <1>9 DEF HeadLen
<1> QED BY <1>7, <1>10 DEF head, d, T, n

(* A document that comes back as a command names the coordinator it came    *)
(* from, and its bytes carry the address and the TLVs of its first device   *)
(* as they were received (serijson.c:112-194, 268-370).                     *)
THEOREM CommandsReturn == Spec => []CommandReturns
<1>1. CodecInv => CommandReturns
  <2> SUFFICES ASSUME CodecInv, pc = "sent" PROVE CommandReturns
    BY DEF CommandReturns
  <2> DEFINE f == Wanted[1]
             T == TlvBytes(f.tlvs)
             bytes == <<254, 1, High(Len(T)), Low(Len(T)), f.dev[1], f.dev[2],
                        0, 0, 0, 0, 0, 0, 0, 0, 0, 0>> \o T
  <2>1. Listed(Wanted, dev, old_id) /\ Wanted \in Seq(Frame) /\ command = Answer
    BY Decoded DEF CodecInv
  <2>2. dev = <<>> <=> Wanted = <<>>
    <3>1. Len(dev) = Len(Wanted) /\ dev \in Seq({DeviceOf(g) : g \in Frame})
      BY <2>1 DEF Listed
    <3> QED BY <2>1, <3>1
  <2>3. CASE Wanted = <<>>
    <3>1. command.sent = FALSE
      BY <2>1, <2>2, <2>3 DEF Answer, Failed
    <3> QED BY <2>3, <3>1, Zenon DEF CommandReturns
  <2>4. CASE Wanted # <<>>
    <3>1. f \in Frame /\ 1 \in 1 .. Len(Wanted)
      BY <2>1, <2>4
    <3>2. dev[Encoded] = DeviceOf(f)
      BY <2>1, <3>1 DEF Listed, Encoded
    <3>3. SeriBuf(DeviceOf(f)) = bytes /\ Len(SeriBuf(DeviceOf(f))) = HeadLen + Len(T)
      <4> HIDE DEF f
      <4> QED BY Zenon, <3>1, BufferReturns
    <3>4. HeadLen + Len(T) <= ZIGBEE_MAX_DATALEN /\ Len(T) \in Nat
      <4>1. \A g \in Frame : HeadLen + Len(TlvBytes(g.tlvs)) <= ZIGBEE_MAX_DATALEN
        BY FrameIs
      <4>2. \A g \in Frame : Len(TlvBytes(g.tlvs)) \in Nat
        BY WireIs, UshortIs
      <4> HIDE DEF f
      <4> QED BY Zenon, <3>1, <4>1, <4>2 DEF T
    <3>5. Len(SeriBuf(DeviceOf(f))) >= ZIGBEE_MAX_DATALEN <=> HeadLen + Len(T) = ZIGBEE_MAX_DATALEN
      <4> DEFINE m == Len(SeriBuf(DeviceOf(f)))
                 k == Len(T)
      <4>1. m = HeadLen + k /\ HeadLen + k <= ZIGBEE_MAX_DATALEN /\ k \in Nat
        BY <3>3, <3>4
      <4> HIDE DEF m, k
      <4>2. m >= ZIGBEE_MAX_DATALEN <=> HeadLen + k = ZIGBEE_MAX_DATALEN
        BY <4>1 DEF HeadLen, ZIGBEE_MAX_DATALEN
      <4> QED BY <4>2 DEF m, k
    <3>6. atoi(DeviceOf(f).coorid) = f.coor
      BY <3>1, DeviceDescribes DEF Describes
    <3> HIDE DEF f, T, bytes
    <3>7. CASE HeadLen + Len(T) = ZIGBEE_MAX_DATALEN
      <4>1. command = Failed
        BY <2>1, <3>2, <3>5, <3>7 DEF Answer
      <4>2. ~command.sent
        BY <4>1 DEF Failed
      <4> QED BY <3>7, <4>2, Zenon DEF CommandReturns, f, T
    <3>8. CASE HeadLen + Len(T) # ZIGBEE_MAX_DATALEN
      <4>1. command = [sent |-> TRUE, coorid |-> f.coor, bytes |-> bytes]
        BY <2>1, <2>2, <2>4, <3>2, <3>3, <3>5, <3>6, <3>8 DEF Answer
      <4>2. command.sent /\ command.coorid = f.coor /\ command.bytes = bytes
        BY <4>1
      <4> QED BY <2>4, <3>8, <4>2, Zenon DEF CommandReturns, f, T, bytes
    <3> QED BY <3>7, <3>8
  <2> QED BY <2>3, <2>4
<1> QED BY <1>1, CodecInvariant, PTL
=============================================================================
