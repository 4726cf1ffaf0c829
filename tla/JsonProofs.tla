------------------------------ MODULE JsonProofs ------------------------------
(***************************************************************************)
(* The parser of cJSON stays inside the text it is given and inside the    *)
(* strings it allocates, the printer inside the buffer it writes, and both *)
(* free what they allocate: for every text, value, buffer and limit, and   *)
(* whichever allocation fails.                                             *)
(***************************************************************************)
EXTENDS JsonParse, JsonPrint, Recursion, FiniteSetTheorems, TLAPS

(* The content: bytes of which the last one, and no other, is zero. *)
Ended(c) ==
  /\ c \in Seq(0 .. 255) /\ Len(c) >= 1 /\ c[Len(c)] = 0
  /\ \A i \in 1 .. (Len(c) - 1) : c[i] # 0

StringRecord(s) ==
  /\ s = [role |-> s.role, start |-> s.start, end |-> s.end, skipped |-> s.skipped,
          ptr |-> s.ptr, out |-> s.out, cap |-> s.cap]
  /\ s.start \in Nat /\ s.end \in Nat /\ s.skipped \in Nat /\ s.ptr \in Nat

(* Inductive: what ReadsInside says, and that the list a "[" or "{" opens  *)
(* starts behind it.                                                       *)
InsideInv ==
  /\ pc # "idle" => Ended(content) /\ offset \in Nat
  /\ StringRecord(str)
  /\ ReadsInside
  /\ pc = "first" => offset >= 1

-----------------------------------------------------------------------------
(* Bytes *)

LEMMA ByteInside ==
  ASSUME Ended(content), NEW i \in Nat, At(i) # Nul
  PROVE  i + 1 <= Length - 1
BY DEF Ended, At, Length, Nul

LEMMA ByteAt ==
  ASSUME NEW S, NEW c \in Seq(S), NEW i \in Nat, i < Len(c)
  PROVE  c[i + 1] \in S
OBVIOUS

LEMMA ByteOfText ==
  ASSUME NEW S, NEW text \in Seq(S), NEW i \in 1 .. Len(text), NEW b
  PROVE  Append(text, b)[i] \in S
OBVIOUS

LEMMA TextEnded ==
  ASSUME NEW text \in Seq(1 .. 255)
  PROVE  Ended(Append(text, Nul))
<1> DEFINE c == Append(text, Nul)
<1>1. c \in Seq(0 .. 255) /\ Len(c) = Len(text) + 1 /\ c[Len(text) + 1] = 0
  BY DEF Nul
<1>2. ASSUME NEW i \in 1 .. Len(text) PROVE c[i] # 0
  <2>1. c[i] \in 1 .. 255
    BY ByteOfText
  <2>2. \A x \in 1 .. 255 : x # 0
    OBVIOUS
  <2> QED BY <2>1, <2>2, Zenon
<1>3. Len(text) \in Nat
  OBVIOUS
<1> HIDE DEF c
<1>4. Ended(c)
  <2>1. 1 .. (Len(c) - 1) = 1 .. Len(text)
    BY <1>1, <1>3
  <2> QED BY <1>1, <1>2, <1>3, <2>1 DEF Ended
<1> QED BY <1>4 DEF c

LEMMA SkipInside ==
  ASSUME NEW c, Ended(c), NEW from \in Nat, buffer_skip_whitespace(c, from)
  PROVE  /\ offset' \in Nat /\ offset' <= Len(c) - 1
         /\ from <= Len(c) - 1 => offset' >= from
BY DEF Ended, buffer_skip_whitespace

LEMMA ParsedInside ==
  ASSUME Ended(content), NEW frames, NEW v, NEW o \in Nat, o <= Length - 1, NEW n,
         Parsed(frames, v, o, n)
  PROVE  pc' \in {"end", "next"} /\ offset' \in Nat /\ offset' <= Length - 1
<1>1. CASE frames[Len(frames)].kind = "root"
  BY <1>1 DEF Parsed
<1>2. CASE frames[Len(frames)].kind # "root"
  <2>1. pc' = "next" /\ buffer_skip_whitespace(content, o)
    BY <1>2 DEF Parsed
  <2> QED BY <2>1, SkipInside DEF Length
<1> QED BY <1>1, <1>2

LEMMA LiteralText ==
  ASSUME NEW l \in Literals
  PROVE  /\ Len(l[1]) \in {4, 5} /\ l[1][Len(l[1])] # Nul
<1>1. \A t \in {NullText, FalseText, TrueText} : Len(t) \in {4, 5} /\ t[Len(t)] # Nul
  <2>1. Len(NullText) \in {4, 5} /\ NullText[Len(NullText)] # Nul
    BY DEF NullText, Nul
  <2>2. Len(FalseText) \in {4, 5} /\ FalseText[Len(FalseText)] # Nul
    BY DEF FalseText, Nul
  <2>3. Len(TrueText) \in {4, 5} /\ TrueText[Len(TrueText)] # Nul
    BY DEF TrueText, Nul
  <2> QED BY <2>1, <2>2, <2>3
<1>2. l[1] \in {NullText, FalseText, TrueText}
  BY DEF Literals
<1> QED BY <1>1, <1>2

LEMMA Utf16Length ==
  ASSUME NEW i \in Nat, NEW end \in Nat
  PROVE  \/ utf16_literal_to_utf8(i, end).length = 0
         \/ utf16_literal_to_utf8(i, end).length = 6 /\ end - i >= 6
         \/ utf16_literal_to_utf8(i, end).length = 12 /\ end - i >= 12
<1> DEFINE first == parse_hex4(i + 2)
           second == parse_hex4(i + 8)
           pair == utf8(65536 + (first % 1024) * 1024 + (second % 1024))
           single == utf8(first)
           paired == /\ end - i >= 12 /\ At(i + 6) = Backslash /\ At(i + 7) = 117
                     /\ second \in 56320 .. 57343
           none == [length |-> 0, bytes |-> <<>>]
<1>1. utf16_literal_to_utf8(i, end) =
        IF end - i < 6 \/ first \in 56320 .. 57343 THEN none
        ELSE IF first \notin 55296 .. 56319 THEN [length |-> 6, bytes |-> single]
        ELSE IF paired THEN [length |-> 12, bytes |-> pair] ELSE none
  BY DEF utf16_literal_to_utf8
<1>2. paired => end - i >= 12
  OBVIOUS
<1> HIDE DEF first, pair, single, paired, none
<1>3. utf16_literal_to_utf8(i, end) \in {none} \cup
        (IF end - i >= 6 THEN {[length |-> 6, bytes |-> single]} ELSE {}) \cup
        (IF end - i >= 12 THEN {[length |-> 12, bytes |-> pair]} ELSE {})
  BY <1>1, <1>2
<1>4. none.length = 0
  BY DEF none
<1> QED BY <1>3, <1>4

-----------------------------------------------------------------------------
(* The invariant holds initially and every step keeps it. *)

LEMMA InsideInit == Idle => InsideInv
  <1> SUFFICES ASSUME Idle PROVE InsideInv
    OBVIOUS
  <1>1. StringRecord(str)
    BY DEF Idle, NoString, StringRecord
  <1> QED BY <1>1 DEF Idle, InsideInv, ReadsInside, Working

(* A step that leaves the content alone and ends in a state without a      *)
(* string.                                                                 *)
LEMMA InsideNext ==
  ASSUME InsideInv, pc # "idle", UNCHANGED content, StringRecord(str'),
         offset' \in Nat, pc' \notin {"idle", "scan", "copy"},
         offset' <= Length, pc' # "unwind" => offset' <= Length - 1,
         pc' = "first" => offset' >= 1
  PROVE  InsideInv'
<1>1. Length \in Nat /\ Length' = Length /\ Ended(content')
  BY DEF InsideInv, Ended, Length
<1> QED BY <1>1 DEF InsideInv, ReadsInside, StringRecord, Working

-----------------------------------------------------------------------------
(* parse_string *)

LEMMA StringLengthens ==
  ASSUME NEW s, StringRecord(s), NEW a \in Nat, NEW t, t = [s EXCEPT !.end = a]
  PROVE  /\ StringRecord(t) /\ t.start = s.start /\ t.end = a
         /\ t.skipped = s.skipped /\ t.out = s.out
BY DEF StringRecord

LEMMA StringStarts ==
  ASSUME InsideInv, Ended(content), offset \in Nat, offset <= Length - 1,
         NEW role, str' = StringAt(offset, role), pc' = "scan", UNCHANGED <<content, offset>>
  PROVE  InsideInv'
<1>1. Length \in Nat /\ Length' = Length
  BY DEF Ended, Length
<1>2. /\ str' = [role |-> role, start |-> offset, end |-> offset + 1, skipped |-> 0,
                ptr |-> 0, out |-> <<>>, cap |-> 0]
  BY DEF StringAt, NoString
<1>3. StringRecord(str') /\ str'.start = offset /\ str'.end = offset + 1
  BY <1>2 DEF StringRecord
<1> QED BY <1>1, <1>3 DEF InsideInv, ReadsInside, StringRecord, Working

(* While the string is scanned, only its end and what it counts move. *)
LEMMA ScanInside ==
  ASSUME InsideInv, pc # "idle", Ended(content), Length \in Nat, ScanString
  PROVE  InsideInv'
<1>1. /\ pc = "scan" /\ StringRecord(str) /\ str.start < str.end /\ str.end < Length
      /\ offset \in Nat /\ offset <= Length - 1
  BY DEF InsideInv, ReadsInside, ScanString, InString, Working
<1>2. UNCHANGED content /\ Length' = Length
  BY DEF ScanString, Length
<1>3. CASE At(str.end) = Backslash /\ str.end + 1 >= Length
  <2>1. pc' = "unwind" /\ offset' = str.start + 1 /\ UNCHANGED str
    BY <1>3 DEF ScanString, Fail
  <2> QED BY <1>1, <1>2, <2>1, InsideNext DEF StringRecord
<1>4. CASE ~(At(str.end) = Backslash /\ str.end + 1 >= Length)
  <2>1. /\ UNCHANGED <<pc, offset>>
        /\ str' = [str EXCEPT !.end = str.end + 1]
           \/ /\ str.end + 1 < Length
              /\ str' = [str EXCEPT !.end = str.end + 2, !.skipped = str.skipped + 1]
    BY <1>1, <1>4 DEF ScanString, StringRecord
  <2>2. StringRecord(str') /\ str'.start < str'.end /\ str'.end <= Length
    <3>1. CASE str' = [str EXCEPT !.end = str.end + 1]
      <4>1. str.end + 1 \in Nat /\ str.end + 1 <= Length
        BY <1>1 DEF StringRecord
      <4>2. StringRecord(str') /\ str'.start = str.start /\ str'.end = str.end + 1
        BY <1>1, <3>1, <4>1, StringLengthens
      <4> QED BY <1>1, <4>1, <4>2 DEF StringRecord
    <3>2. CASE /\ str.end + 1 < Length
               /\ str' = [str EXCEPT !.end = str.end + 2, !.skipped = str.skipped + 1]
      <4>1. str.end + 2 \in Nat /\ str.end + 2 <= Length /\ str.skipped + 1 \in Nat
        BY <1>1, <3>2 DEF StringRecord
      <4>2. StringRecord(str') /\ str'.start = str.start /\ str'.end = str.end + 2
        BY <1>1, <3>2, <4>1 DEF StringRecord
      <4> QED BY <1>1, <4>1, <4>2 DEF StringRecord
    <3> QED BY <2>1, <3>1, <3>2
  <2> QED BY <1>1, <1>2, <2>1, <2>2 DEF InsideInv, ReadsInside, StringRecord, Working
<1> QED BY <1>3, <1>4

LEMMA AllocateInside ==
  ASSUME InsideInv, pc # "idle", Ended(content), Length \in Nat, AllocateOutput
  PROVE  InsideInv'
<1>1. /\ pc = "scan" /\ StringRecord(str) /\ str.start < str.end /\ str.end <= Length
      /\ offset \in Nat /\ offset <= Length - 1
  BY DEF InsideInv, ReadsInside, AllocateOutput, Working
<1>2. UNCHANGED content /\ Length' = Length /\ \A i : At(i)' = At(i)
  BY DEF AllocateOutput, Length, At
<1>3. \/ pc' = "unwind" /\ offset' = str.start + 1 /\ UNCHANGED str
      \/ /\ pc' = "copy" /\ UNCHANGED offset /\ str.end < Length
         /\ str' = [str EXCEPT !.ptr = str.start + 1,
                               !.cap = str.end - str.start - str.skipped]
  BY <1>1 DEF AllocateOutput, Fail, StringRecord
<1>4. CASE pc' = "unwind"
  BY <1>1, <1>2, <1>3, <1>4, InsideNext DEF StringRecord
<1>5. CASE pc' = "copy"
  <2>1. /\ StringRecord(str') /\ str'.start = str.start /\ str'.end = str.end
        /\ str'.ptr = str.start + 1
    <3>1. str' = [str EXCEPT !.ptr = str.start + 1, !.cap = str.end - str.start - str.skipped]
      BY <1>3, <1>5
    <3>2. str.start + 1 \in Nat
      BY <1>1 DEF StringRecord
    <3> QED BY <1>1, <3>1, <3>2 DEF StringRecord
  <2>2. str.end < Length /\ At(str.end) = Quote /\ UNCHANGED offset
    BY <1>1, <1>3, <1>5 DEF AllocateOutput, InString
  <2> QED BY <1>1, <1>2, <1>5, <2>1, <2>2 DEF InsideInv, ReadsInside, StringRecord, Working
<1> QED BY <1>3, <1>4, <1>5

(* A step of the copy: n bytes are read and others written. *)
LEMMA CopyMoves ==
  ASSUME InsideInv, CopyPlain \/ CopyEscape
  PROVE  \E n \in {1, 2, 6, 12} : \E bytes :
           Emit(bytes, n) /\ str.ptr + n <= str.end + 1
<1>1. pc = "copy" /\ StringRecord(str) /\ str.ptr < str.end /\ str.ptr \in Nat /\ str.end \in Nat
  BY DEF InsideInv, CopyPlain, CopyEscape, StringRecord
<1>2. CASE CopyPlain
  <2>1. Emit(<<At(str.ptr)>>, 1)
    BY <1>2 DEF CopyPlain
  <2> QED BY <1>1, <2>1
<1>3. CASE CopyEscape
  <2>1. CASE \E e \in Escapes : Emit(<<e[2]>>, 2)
    BY <1>1, <2>1
  <2>2. CASE Emit(<<At(str.ptr + 1)>>, 2)
    BY <1>1, <2>2
  <2>3. CASE LET u == utf16_literal_to_utf8(str.ptr, str.end)
             IN u.length > 0 /\ Emit(u.bytes, u.length)
    <3> DEFINE u == utf16_literal_to_utf8(str.ptr, str.end)
    <3>1. Emit(u.bytes, u.length) /\ u.length # 0
      BY <2>3
    <3>2. u.length \in {6, 12} /\ str.end - str.ptr >= u.length
      BY <1>1, <3>1, Utf16Length
    <3> HIDE DEF u
    <3> QED BY <1>1, <3>1, <3>2
  <2> QED BY <1>3, <2>1, <2>2, <2>3 DEF CopyEscape
<1> QED BY <1>2, <1>3

LEMMA CopyInside ==
  ASSUME InsideInv, pc # "idle", Ended(content), Length \in Nat, CopyPlain \/ CopyEscape
  PROVE  InsideInv'
<1>1. /\ pc = "copy" /\ StringRecord(str) /\ str.start < str.end /\ str.end < Length
      /\ At(str.end) = Quote /\ str.ptr \in (str.start + 1) .. (str.end + 1)
      /\ offset \in Nat /\ offset <= Length - 1
  BY DEF InsideInv, ReadsInside, CopyPlain, CopyEscape, Working
<1>2. UNCHANGED <<pc, content, offset>> /\ Length' = Length /\ \A i : At(i)' = At(i)
  BY DEF CopyPlain, CopyEscape, Length, At
<1>3. PICK n \in {1, 2, 6, 12} : \E bytes : Emit(bytes, n) /\ str.ptr + n <= str.end + 1
  BY CopyMoves
<1> PICK bytes : Emit(bytes, n)
  BY <1>3
<1>4. /\ StringRecord(str') /\ str'.start = str.start /\ str'.end = str.end
      /\ str'.ptr = str.ptr + n
  <2>1. str' = [str EXCEPT !.out = str.out \o bytes, !.ptr = str.ptr + n]
    BY DEF Emit
  <2>2. str.ptr + n \in Nat
    BY <1>1 DEF StringRecord
  <2> QED BY <1>1, <2>1, <2>2 DEF StringRecord
<1> QED BY <1>1, <1>2, <1>3, <1>4 DEF InsideInv, ReadsInside, StringRecord, Working

-----------------------------------------------------------------------------
(* Every step of the parser *)

LEMMA InsideStep ==
  ASSUME InsideInv, [Step \/ \E text \in Seq(1 .. 255), terminated \in BOOLEAN :
                      cJSON_ParseWithOpts(text, terminated)]_vars
  PROVE  InsideInv'
<1> USE DEF InsideInv
<1>1. ASSUME NEW text \in Seq(1 .. 255), NEW terminated \in BOOLEAN,
             cJSON_ParseWithOpts(text, terminated)
      PROVE  InsideInv'
  <2> DEFINE c == Append(text, Nul)
  <2>1. Ended(c) /\ content' = c
    <3>1. content' = c
      BY <1>1 DEF cJSON_ParseWithOpts
    <3> QED BY <3>1, TextEnded
  <2>2. UNCHANGED str
    BY <1>1 DEF cJSON_ParseWithOpts
  <2>3. PICK given \in Given :
          IF given THEN buffer_skip_whitespace(c, skip_utf8_bom(c)) /\ pc' = "value"
          ELSE pc' = "failed" /\ offset' = 0
    BY <1>1 DEF cJSON_ParseWithOpts
  <2>4. skip_utf8_bom(c) \in Nat
    BY DEF skip_utf8_bom
  <2> HIDE DEF c
  <2>5. offset' \in Nat /\ offset' <= Len(c) - 1 /\ pc' \in {"value", "failed"}
    BY <2>1, <2>3, <2>4, SkipInside DEF Ended
  <2> QED BY <2>1, <2>2, <2>5 DEF ReadsInside, Length, Working, StringRecord, Ended
<1>2. ASSUME Step PROVE InsideInv'
  <2>1. pc # "idle"
    BY <1>2 DEF Step, ParseLiteral, parse_number, ParseText, OpenList, NoValue, CloseList,
               NextItem, Unclosed, ParseName, ParseColon, ScanString, AllocateOutput,
               CopyPlain, CopyEscape, CopyFails, CopyEnds, Finish, Unwind
  <2>2. Ended(content) /\ Length \in Nat /\ Length >= 1 /\ offset \in Nat
    BY <2>1 DEF Ended, Length
  <2>3. pc \in Working => offset <= Length - 1
    BY <2>2 DEF ReadsInside
  <2>4. StringRecord(str) /\ (UNCHANGED str => StringRecord(str'))
    BY DEF StringRecord
  <2>5. CASE ParseLiteral
    <3>1. PICK l \in Literals :
            /\ offset + Len(l[1]) <= Length
            /\ \A i \in 1 .. Len(l[1]) : At(offset + i - 1) = l[1][i]
            /\ Parsed(stack, l[2], offset + Len(l[1]), 0)
      BY <2>5 DEF ParseLiteral
    <3>2. At(offset + Len(l[1]) - 1) # Nul /\ Len(l[1]) \in {4, 5}
      BY <3>1, LiteralText
    <3>3. offset + Len(l[1]) \in Nat /\ offset + Len(l[1]) <= Length - 1
      BY <2>2, <3>2, ByteInside
    <3>4. pc' \in {"end", "next"} /\ offset' \in Nat /\ offset' <= Length - 1
      BY <2>2, <3>1, <3>3, ParsedInside
    <3> QED BY <2>1, <2>2, <2>4, <2>5, <3>4, InsideNext DEF ParseLiteral
  <2>6. CASE parse_number
    <3>1. PICK n \in 1 .. Length, k \in 0 .. Length :
            /\ offset + n <= Length /\ k <= n
            /\ \A i \in 0 .. (n - 1) : NumberByte(At(offset + i))
            /\ IF k = 0 THEN Fail(offset)
               ELSE Parsed(stack, <<"number", SubSeq(content, offset + 1, offset + k)>>,
                           offset + k, 0)
      BY <2>6 DEF parse_number
    <3>2. CASE k = 0
      BY <2>1, <2>2, <2>3, <2>4, <2>6, <3>1, <3>2, InsideNext DEF parse_number, Fail, Working
    <3>3. CASE k # 0
      <4>1. NumberByte(At(offset + k - 1))
        <5>1. k - 1 \in 0 .. (n - 1) /\ offset + (k - 1) = offset + k - 1
          BY <2>2, <3>1, <3>3
        <5>2. NumberByte(At(offset + (k - 1)))
          BY <3>1, <5>1
        <5> QED BY <5>1, <5>2
      <4>2. At(offset + k - 1) # Nul
        BY <4>1 DEF NumberByte, Digit, Zero, Nine, Plus, Minus, Dot, Nul
      <4>3. offset + k \in Nat /\ offset + k <= Length - 1
        BY <2>2, <3>3, <4>2, ByteInside
      <4>4. pc' \in {"end", "next"} /\ offset' \in Nat /\ offset' <= Length - 1
        BY <2>2, <3>1, <3>3, <4>3, ParsedInside
      <4> QED BY <2>1, <2>2, <2>4, <2>6, <4>4, InsideNext DEF parse_number
    <3> QED BY <3>2, <3>3
  <2>7. CASE ParseText
    <3>1. pc = "value" /\ pc' = "scan" /\ str' = StringAt(offset, "text") /\ UNCHANGED <<content, offset>>
      BY <2>7 DEF ParseText
    <3>2. offset <= Length - 1
      BY <2>3, <3>1 DEF Working
    <3> QED BY <2>2, <3>1, <3>2, StringStarts
  <2>8. CASE OpenList
    <3>1. pc = "value" /\ At(offset) # Nul
      BY <2>8 DEF OpenList, OpenBracket, OpenBrace, Nul
    <3>2. offset + 1 <= Length - 1
      BY <2>2, <3>1, ByteInside
    <3>3. CASE depth >= NestingLimit
      BY <2>1, <2>2, <2>3, <2>4, <2>8, <3>1, <3>3, InsideNext DEF OpenList, Fail, Working
    <3>4. CASE ~(depth >= NestingLimit)
      <4>1. buffer_skip_whitespace(content, offset + 1) /\ pc' = "first"
        BY <2>8, <3>4 DEF OpenList
      <4>2. offset' \in Nat /\ offset' <= Length - 1 /\ offset' >= 1
        BY <2>2, <3>2, <4>1, SkipInside DEF Length
      <4> QED BY <2>1, <2>2, <2>4, <2>8, <4>1, <4>2, InsideNext DEF OpenList
    <3> QED BY <3>3, <3>4
  <2>9. CASE NoValue
    BY <2>1, <2>2, <2>3, <2>4, <2>9, InsideNext DEF NoValue, Fail, Working
  <2>10. CASE CloseList
    <3>1. pc \in {"first", "next"} /\ At(offset) # Nul
      BY <2>10 DEF CloseList, Closes, CloseBracket, CloseBrace, Nul
    <3>2. offset + 1 \in Nat /\ offset + 1 <= Length - 1
      BY <2>2, <3>1, ByteInside
    <3>3. pc' \in {"end", "next"} /\ offset' \in Nat /\ offset' <= Length - 1
      BY <2>2, <2>10, <3>2, ParsedInside DEF CloseList
    <3> QED BY <2>1, <2>2, <2>4, <2>10, <3>3, InsideNext DEF CloseList
  <2>11. CASE NextItem
    <3> DEFINE from == IF pc = "first" THEN offset - 1 ELSE offset
    <3>1. pc \in {"first", "next"} /\ from \in Nat /\ from <= Length - 1
      BY <2>2, <2>3, <2>11 DEF NextItem, Working
    <3>2. PICK given \in Given :
            IF given THEN pc' \in {"value", "name"} /\ buffer_skip_whitespace(content, from + 1)
            ELSE Fail(from)
      BY <2>11 DEF NextItem
    <3> HIDE DEF from
    <3>3. CASE given
      BY <2>1, <2>2, <2>4, <2>11, <3>1, <3>2, <3>3, SkipInside, InsideNext DEF NextItem, Length
    <3>4. CASE ~given
      BY <2>1, <2>2, <2>4, <2>11, <3>1, <3>2, <3>4, InsideNext DEF NextItem, Fail
    <3> QED BY <3>3, <3>4
  <2>12. CASE Unclosed
    BY <2>1, <2>2, <2>3, <2>4, <2>12, InsideNext DEF Unclosed, Fail, Working
  <2>13. CASE ParseName
    <3>1. CASE At(offset) = Quote
      <4>1. pc = "name" /\ pc' = "scan" /\ str' = StringAt(offset, "name") /\ UNCHANGED <<content, offset>>
        BY <2>13, <3>1 DEF ParseName
      <4>2. offset <= Length - 1
        BY <2>3, <4>1 DEF Working
      <4> QED BY <2>2, <4>1, <4>2, StringStarts
    <3>2. CASE At(offset) # Quote
      BY <2>1, <2>2, <2>3, <2>4, <2>13, <3>2, InsideNext DEF ParseName, Fail, Working
    <3> QED BY <3>1, <3>2
  <2>14. CASE ParseColon
    <3>1. CASE At(offset) = Colon
      BY <2>1, <2>2, <2>3, <2>4, <2>14, <3>1, SkipInside, InsideNext DEF ParseColon, Length
    <3>2. CASE At(offset) # Colon
      BY <2>1, <2>2, <2>3, <2>4, <2>14, <3>2, InsideNext DEF ParseColon, Fail, Working
    <3> QED BY <3>1, <3>2
  <2>15. CASE ScanString
    BY <2>1, <2>2, <2>4, <2>15, ScanInside
  <2>16. CASE AllocateOutput
    BY <2>1, <2>2, <2>4, <2>16, AllocateInside
  <2>17. CASE CopyPlain \/ CopyEscape
    BY <2>1, <2>2, <2>4, <2>17, CopyInside
  <2>18. CASE CopyFails
    <3>1. pc = "copy" /\ str.ptr < str.end /\ str.ptr \in Nat /\ str.end <= Length
      BY <2>4, <2>18 DEF CopyFails, BadEscape, ReadsInside, StringRecord
    <3> QED BY <2>1, <2>2, <2>4, <2>18, <3>1, InsideNext DEF CopyFails, Fail, StringRecord
  <2>19. CASE CopyEnds
    <3>1. pc = "copy" /\ str.end \in Nat /\ At(str.end) # Nul
      BY <2>4, <2>19 DEF CopyEnds, ReadsInside, StringRecord, Quote, Nul
    <3>2. str.end + 1 \in Nat /\ str.end + 1 <= Length - 1
      BY <2>2, <3>1, ByteInside
    <3>3. CASE str.role = "text"
      <4>1. pc' \in {"end", "next"} /\ offset' \in Nat /\ offset' <= Length - 1
        BY <2>2, <2>19, <3>2, <3>3, ParsedInside DEF CopyEnds
      <4> QED BY <2>1, <2>2, <2>4, <2>19, <4>1, InsideNext DEF CopyEnds
    <3>4. CASE str.role # "text"
      BY <2>1, <2>2, <2>4, <2>19, <3>2, <3>4, SkipInside, InsideNext DEF CopyEnds, Length
    <3> QED BY <3>3, <3>4
  <2>20. CASE Finish
    <3>1. CASE ~strict
      BY <2>1, <2>2, <2>3, <2>4, <2>20, <3>1, InsideNext DEF Finish, Working
    <3>2. CASE strict
      <4>1. PICK e \in 0 .. Length :
              IF e = Length THEN pc' = "done" /\ offset' = e - 1 ELSE Fail(e)
        BY <2>20, <3>2 DEF Finish
      <4> QED BY <2>1, <2>2, <2>4, <2>20, <4>1, InsideNext DEF Finish, Fail
    <3> QED BY <3>1, <3>2
  <2>21. CASE Unwind
    BY <2>1, <2>2, <2>4, <2>21, InsideNext DEF Unwind, ReadsInside
  <2> QED BY <1>2, <2>5, <2>6, <2>7, <2>8, <2>9, <2>10, <2>11, <2>12, <2>13, <2>14, <2>15,
             <2>16, <2>17, <2>18, <2>19, <2>20, <2>21 DEF Step
<1>3. CASE UNCHANGED vars
  BY <1>3 DEF vars, ReadsInside, Length, At, StringRecord, Ended
<1> QED BY <1>1, <1>2, <1>3

(* cJSON.c:560-1596: whatever the text, no parse function looks at a byte  *)
(* behind the zero that ends it, and the position of an error lies in it.  *)
THEOREM Reading == ParseSpec => []ReadsInside
<1>1. InsideInv => ReadsInside
  BY DEF InsideInv
<1> QED BY <1>1, InsideInit, InsideStep, PTL DEF ParseSpec

-----------------------------------------------------------------------------
(* What parse_string writes fits into what it allocated.  It counts the    *)
(* backslashes its scan passes by twos; P is the set of their places.  The *)
(* copy may take other steps, for an invalid \u takes six bytes of which   *)
(* the scan has taken some by twos, but whatever n bytes it takes hold no  *)
(* more than n / 2 of the places.                                          *)

Places(P) ==
  /\ P \in SUBSET Nat /\ IsFiniteSet(P) /\ Cardinality(P) = str.skipped
  /\ \A x \in P : str.start < x /\ x + 2 <= str.end /\ At(x) = Backslash
  /\ \A x, y \in P : x < y => x + 2 <= y

Before(P, q) == {x \in P : x < q}

FitInv ==
  /\ InsideInv
  /\ pc = "scan" => str.out = <<>> /\ \E P : Places(P)
  /\ pc = "copy" =>
       /\ str.out \in Seq(Int) /\ str.cap = str.end - str.start - str.skipped
       /\ \E P : /\ Places(P)
                 /\ Len(str.out) + Cardinality(Before(P, str.ptr)) <= str.ptr - str.start - 1

LEMMA BeforeCount ==
  ASSUME NEW P \in SUBSET Nat, IsFiniteSet(P), NEW q \in Nat,
         \A x, y \in P : x < y => x + 2 <= y
  PROVE  /\ IsFiniteSet(Before(P, q)) /\ Cardinality(Before(P, q)) \in Nat
         /\ Cardinality(Before(P, q + 2)) <= Cardinality(Before(P, q)) + 1
         /\ q \notin P => Before(P, q + 1) = Before(P, q)
<1>1. IsFiniteSet(Before(P, q)) /\ Cardinality(Before(P, q)) \in Nat
  BY FS_Subset, FS_CardinalityType DEF Before
<1> \A x \in P : x \in Int
  OBVIOUS
<1>2. q \notin P => Before(P, q + 1) = Before(P, q)
  <2>1. ASSUME q \notin P, NEW x \in P PROVE x < q + 1 <=> x < q
    BY <2>1
  <2> QED BY <2>1 DEF Before
<1>3. PICK x : Before(P, q + 2) \subseteq Before(P, q) \cup {x}
  <2>1. CASE q \in P
    <3>1. q + 1 \notin P
      BY <2>1
    <3>2. \A x \in P : x < q + 2 => x < q \/ x = q
      BY <3>1
    <3>3. Before(P, q + 2) \subseteq Before(P, q) \cup {q}
      BY <3>2 DEF Before
    <3> QED BY <3>3
  <2>2. CASE q \notin P
    <3>1. \A x \in P : x < q + 2 => x < q \/ x = q + 1
      BY <2>2
    <3>2. Before(P, q + 2) \subseteq Before(P, q) \cup {q + 1}
      BY <3>1 DEF Before
    <3> QED BY <3>2
  <2> QED BY <2>1, <2>2
<1> DEFINE B == Before(P, q)
<1>4. IsFiniteSet(B \cup {x}) /\ Cardinality(B \cup {x}) <= Cardinality(B) + 1
  <2>1. /\ IsFiniteSet(B \cup {x})
        /\ Cardinality(B \cup {x}) = IF x \in B THEN Cardinality(B) ELSE Cardinality(B) + 1
    BY <1>1, FS_AddElement
  <2> QED BY <1>1, <2>1
<1>5. Cardinality(Before(P, q + 2)) <= Cardinality(B \cup {x})
  BY <1>3, <1>4, FS_Subset
<1>6. Cardinality(Before(P, q + 2)) \in Nat /\ Cardinality(B \cup {x}) \in Nat
  BY <1>3, <1>4, FS_Subset, FS_CardinalityType
<1> HIDE DEF B
<1>7. Cardinality(Before(P, q + 2)) <= Cardinality(Before(P, q)) + 1
  BY <1>1, <1>4, <1>5, <1>6 DEF B
<1> QED BY <1>1, <1>2, <1>7

LEMMA AfterCount ==
  ASSUME NEW P \in SUBSET Nat, IsFiniteSet(P), NEW q \in Nat, NEW end \in Nat,
         \A x \in P : x <= end, q <= end + 1
  PROVE  Cardinality(P) - Cardinality(Before(P, q)) <= end + 1 - q
<1> DEFINE B == Before(P, q)
<1>1. IsFiniteSet(B) /\ Cardinality(B) \in Nat /\ B \subseteq P
  BY FS_Subset, FS_CardinalityType DEF Before
<1>2. P \ B \subseteq q .. end
  <2>1. \A x \in P : x \in Int /\ (x < q \/ x \in q .. end)
    OBVIOUS
  <2> QED BY <2>1 DEF Before
<1>3. IsFiniteSet(q .. end) /\ Cardinality(q .. end) <= end + 1 - q
  BY FS_Interval
<1>4. IsFiniteSet(P \ B) /\ Cardinality(P \ B) <= Cardinality(q .. end)
  BY <1>2, <1>3, FS_Subset
<1>5. Cardinality(P \ B) = Cardinality(P) - Cardinality(B)
  <2>1. P \cap B = B
    BY <1>1
  <2>2. Cardinality(P \ B) = Cardinality(P) - Cardinality(P \cap B)
    BY FS_Difference
  <2> QED BY <2>1, <2>2
<1>6. Cardinality(P \ B) \in Nat /\ Cardinality(q .. end) \in Nat /\ Cardinality(P) \in Nat
  BY <1>3, <1>4, FS_CardinalityType
<1> HIDE DEF B
<1>7. Cardinality(P) - Cardinality(B) <= end + 1 - q
  BY <1>1, <1>3, <1>4, <1>5, <1>6
<1> QED BY <1>7 DEF B

(* The code point of four hexadecimal digits and the bytes it becomes. *)
LEMMA HexRange ==
  ASSUME NEW i \in Nat
  PROVE  parse_hex4(i) \in Nat /\ parse_hex4(i) <= 65535
<1>1. ASSUME NEW j, HexDigit(At(j)) PROVE HexValue(At(j)) \in Nat /\ HexValue(At(j)) <= 15
  BY <1>1 DEF HexDigit, HexValue, Digit, Zero, Nine
<1> DEFINE valid == \A j \in i .. (i + 3) : HexDigit(At(j))
<1>2. CASE valid
  <2>1. i \in i .. (i + 3) /\ i + 1 \in i .. (i + 3) /\ i + 2 \in i .. (i + 3) /\ i + 3 \in i .. (i + 3)
    OBVIOUS
  <2>2. /\ HexValue(At(i)) \in Nat /\ HexValue(At(i)) <= 15
        /\ HexValue(At(i + 1)) \in Nat /\ HexValue(At(i + 1)) <= 15
        /\ HexValue(At(i + 2)) \in Nat /\ HexValue(At(i + 2)) <= 15
        /\ HexValue(At(i + 3)) \in Nat /\ HexValue(At(i + 3)) <= 15
    BY <1>1, <1>2, <2>1
  <2>3. \A a, b, c, d \in Nat :
          a <= 15 /\ b <= 15 /\ c <= 15 /\ d <= 15 =>
            4096 * a + 256 * b + 16 * c + d \in Nat /\ 4096 * a + 256 * b + 16 * c + d <= 65535
    OBVIOUS
  <2>4. parse_hex4(i) = 4096 * HexValue(At(i)) + 256 * HexValue(At(i + 1))
                        + 16 * HexValue(At(i + 2)) + HexValue(At(i + 3))
    BY <1>2 DEF parse_hex4
  <2> QED BY <2>2, <2>3, <2>4
<1>3. CASE ~valid
  BY <1>3 DEF parse_hex4
<1> QED BY <1>2, <1>3

LEMMA Utf8Length ==
  ASSUME NEW n \in Nat
  PROVE  /\ utf8(n) \in Seq(Int) /\ Len(utf8(n)) \in Nat /\ Len(utf8(n)) <= 4
         /\ n <= 65535 => Len(utf8(n)) <= 3
<1>1. \A k \in Nat : Tail6(k) \in Int
  BY DEF Tail6
<1>2. n \div 64 \in Nat /\ n \div 4096 \in Nat /\ n \div 262144 \in Nat
  OBVIOUS
<1> DEFINE a == Tail6(n)
           b == Tail6(n \div 64)
           c == Tail6(n \div 4096)
<1>3. a \in Int /\ b \in Int /\ c \in Int
  BY <1>1, <1>2
<1>4. utf8(n) = IF n < 128 THEN <<n>>
                ELSE IF n < 2048 THEN <<192 + n \div 64, a>>
                ELSE IF n < 65536 THEN <<224 + n \div 4096, b, a>>
                ELSE <<240 + n \div 262144, c, b, a>>
  BY DEF utf8
<1> HIDE DEF a, b, c
<1>5. CASE n < 128
  BY <1>4, <1>5
<1>6. CASE n >= 128 /\ n < 2048
  BY <1>2, <1>3, <1>4, <1>6
<1>7. CASE n >= 2048 /\ n < 65536
  BY <1>2, <1>3, <1>4, <1>7
<1>8. CASE n >= 65536
  BY <1>2, <1>3, <1>4, <1>8
<1> QED BY <1>5, <1>6, <1>7, <1>8

LEMMA Utf16Bytes ==
  ASSUME NEW i \in Nat, NEW end \in Nat, utf16_literal_to_utf8(i, end).length > 0
  PROVE  LET u == utf16_literal_to_utf8(i, end)
         IN /\ u.bytes \in Seq(Int) /\ Len(u.bytes) \in Nat
            /\ \/ u.length = 6 /\ end - i >= 6 /\ Len(u.bytes) <= 3
               \/ u.length = 12 /\ end - i >= 12 /\ Len(u.bytes) <= 4
<1> DEFINE u == utf16_literal_to_utf8(i, end)
           first == parse_hex4(i + 2)
           second == parse_hex4(i + 8)
           pair == utf8(65536 + (first % 1024) * 1024 + (second % 1024))
           single == utf8(first)
           paired == /\ end - i >= 12 /\ At(i + 6) = Backslash /\ At(i + 7) = 117
                     /\ second \in 56320 .. 57343
           none == [length |-> 0, bytes |-> <<>>]
<1>1. utf16_literal_to_utf8(i, end) =
        IF end - i < 6 \/ first \in 56320 .. 57343 THEN none
        ELSE IF first \notin 55296 .. 56319 THEN [length |-> 6, bytes |-> single]
        ELSE IF paired THEN [length |-> 12, bytes |-> pair] ELSE none
  BY DEF utf16_literal_to_utf8
<1>2. paired => end - i >= 12
  OBVIOUS
<1>3. first \in Nat /\ first <= 65535 /\ second \in Nat
  <2>1. i + 2 \in Nat /\ i + 8 \in Nat
    OBVIOUS
  <2> QED BY <2>1, HexRange
<1>4. single \in Seq(Int) /\ Len(single) \in Nat /\ Len(single) <= 3
  BY <1>3, Utf8Length
<1>5. pair \in Seq(Int) /\ Len(pair) \in Nat /\ Len(pair) <= 4
  <2> DEFINE code == 65536 + (first % 1024) * 1024 + (second % 1024)
  <2>1. code \in Nat
    <3> HIDE DEF first, second
    <3>1. first % 1024 \in Nat /\ second % 1024 \in Nat
      BY <1>3
    <3> DEFINE a == first % 1024
               b == second % 1024
    <3> HIDE DEF a, b
    <3>2. 65536 + a * 1024 + b \in Nat
      BY <3>1 DEF a, b
    <3> QED BY <3>2 DEF a, b
  <2>2. pair = utf8(code)
    OBVIOUS
  <2> HIDE DEF code, pair
  <2> QED BY <2>1, <2>2, Utf8Length
<1>6. none.length = 0
  BY DEF none
<1> HIDE DEF first, pair, single, paired, none
<1>7. u \in {none} \cup
        (IF end - i >= 6 THEN {[length |-> 6, bytes |-> single]} ELSE {}) \cup
        (IF end - i >= 12 THEN {[length |-> 12, bytes |-> pair]} ELSE {})
  BY <1>1, <1>2
<1> HIDE DEF u
<1>8. u.length > 0
  BY DEF u
<1>9. \/ end - i >= 6 /\ u = [length |-> 6, bytes |-> single]
      \/ end - i >= 12 /\ u = [length |-> 12, bytes |-> pair]
  BY <1>6, <1>7, <1>8
<1>10. /\ u.bytes \in Seq(Int) /\ Len(u.bytes) \in Nat
       /\ \/ u.length = 6 /\ end - i >= 6 /\ Len(u.bytes) <= 3
          \/ u.length = 12 /\ end - i >= 12 /\ Len(u.bytes) <= 4
  BY <1>4, <1>5, <1>9
<1> QED BY <1>10 DEF u

-----------------------------------------------------------------------------
(* The steps of parse_string *)

LEMMA ScanStarts ==
  ASSUME NEW o \in Nat, NEW role, str' = StringAt(o, role)
  PROVE  str'.out = <<>> /\ Places({})'
<1>1. str' = [role |-> role, start |-> o, end |-> o + 1, skipped |-> 0,
              ptr |-> 0, out |-> <<>>, cap |-> 0]
  BY DEF StringAt, NoString
<1>2. str'.out = <<>> /\ str'.skipped = 0
  BY <1>1
<1> QED BY <1>2, FS_EmptySet DEF Places

LEMMA ScanCounts ==
  ASSUME InsideInv, ScanString, pc' = "scan", str.out = <<>>, NEW P, Places(P)
  PROVE  str'.out = <<>> /\ \E Q : Places(Q)'
<1>1. StringRecord(str) /\ str.start < str.end
  BY DEF InsideInv, ReadsInside, ScanString
<1>2. \A i : At(i)' = At(i)
  BY DEF ScanString, At, Length
<1>3. CASE At(str.end) # Backslash
  <2>1. str' = [str EXCEPT !.end = str.end + 1]
    BY <1>3 DEF ScanString
  <2>2. /\ str'.start = str.start /\ str'.end = str.end + 1
        /\ str'.skipped = str.skipped /\ str'.out = str.out
    BY <1>1, <2>1 DEF StringRecord
  <2>3. str.end \in Int /\ \A x \in P : x \in Int /\ x + 2 <= str.end => x + 2 <= str.end + 1
    BY <1>1 DEF StringRecord, Places
  <2>4. Places(P)'
    BY <1>2, <2>2, <2>3 DEF Places
  <2> QED BY <2>2, <2>4
<1>4. CASE At(str.end) = Backslash
  <2> PICK e : e = str.end
    OBVIOUS
  <2> DEFINE Q == P \cup {e}
  <2>1. str' = [str EXCEPT !.end = str.end + 2, !.skipped = str.skipped + 1]
    BY <1>4 DEF ScanString, Fail
  <2>2. /\ str'.start = str.start /\ str'.end = str.end + 2
        /\ str'.skipped = str.skipped + 1 /\ str'.out = str.out
    BY <1>1, <2>1 DEF StringRecord
  <2>3. /\ e \in Nat /\ str.start \in Nat /\ str.start < e
        /\ P \in SUBSET Nat /\ IsFiniteSet(P) /\ Cardinality(P) = str.skipped
        /\ \A x \in P : str.start < x /\ x + 2 <= e /\ At(x) = Backslash
        /\ \A x, y \in P : x < y => x + 2 <= y
    BY <1>1 DEF StringRecord, Places
  <2>4. e \notin P
    BY <2>3
  <2>5. IsFiniteSet(Q) /\ Cardinality(Q) = str.skipped + 1
    BY <2>3, <2>4, FS_AddElement
  <2>6. \A x \in Q : str.start < x /\ x + 2 <= e + 2
    BY <2>3
  <2>7. \A x \in Q : At(x) = Backslash
    BY <1>4, <2>3
  <2>8. \A x, y \in Q : x < y => x + 2 <= y
    BY <2>3
  <2>9. Q \in SUBSET Nat
    BY <2>3
  <2> HIDE DEF Q
  <2>10. \A x \in Q : str'.start < x /\ x + 2 <= str'.end
    BY <2>2, <2>6
  <2>11. \A x \in Q : At(x)' = Backslash
    BY <1>2, <2>7
  <2>12. Cardinality(Q) = str'.skipped
    BY <2>2, <2>5
  <2>13. Places(Q)'
    BY <2>5, <2>8, <2>9, <2>10, <2>11, <2>12 DEF Places
  <2> QED BY <2>2, <2>13
<1> QED BY <1>3, <1>4

LEMMA CopyStarts ==
  ASSUME InsideInv, AllocateOutput, pc' = "copy", str.out = <<>>, NEW P, Places(P)
  PROVE  /\ str'.out \in Seq(Int) /\ str'.cap = str'.end - str'.start - str'.skipped
         /\ Places(P)'
         /\ Len(str'.out) + Cardinality(Before(P, str'.ptr)) <= str'.ptr - str'.start - 1
<1>1. StringRecord(str) /\ \A i : At(i)' = At(i)
  BY DEF InsideInv, AllocateOutput, At, Length
<1>2. str' = [str EXCEPT !.ptr = str.start + 1, !.cap = str.end - str.start - str.skipped]
  BY DEF AllocateOutput, Fail
<1>3. /\ str'.start = str.start /\ str'.end = str.end /\ str'.skipped = str.skipped
      /\ str'.out = <<>> /\ str'.ptr = str.start + 1
      /\ str'.cap = str.end - str.start - str.skipped
  BY <1>1, <1>2 DEF StringRecord
<1>4. Places(P)'
  BY <1>1, <1>3 DEF Places
<1>5. Before(P, str.start + 1) = {}
  <2>1. \A x \in P : x \in Int /\ str.start \in Int /\ str.start < x => ~(x < str.start + 1)
    OBVIOUS
  <2>2. \A x \in P : x \in Int /\ str.start \in Int /\ str.start < x
    BY <1>1 DEF Places, StringRecord
  <2> QED BY <2>1, <2>2 DEF Before
<1>6. Len(str'.out) = 0 /\ str'.out \in Seq(Int)
  <2>1. << >> \in Seq(Int) /\ Len(<< >>) = 0
    OBVIOUS
  <2> QED BY <1>3, <2>1
<1>8. Cardinality(Before(P, str'.ptr)) = 0
  BY <1>3, <1>5, FS_EmptySet
<1>7. str.start \in Nat
  BY <1>1 DEF StringRecord
<1> QED BY <1>3, <1>4, <1>6, <1>7, <1>8

(* n bytes hold at most n / 2 of the places, and no more than n less half  *)
(* of it is written for them.                                              *)
LEMMA CopyBalance ==
  ASSUME InsideInv, Ended(content), CopyPlain \/ CopyEscape, NEW P, Places(P)
  PROVE  \E n \in {1, 2, 6, 12} : \E bytes \in Seq(Int) :
           /\ Emit(bytes, n)
           /\ Len(bytes) + Cardinality(Before(P, str.ptr + n))
                <= Cardinality(Before(P, str.ptr)) + n
<1> DEFINE at == str.ptr
           C(q) == Cardinality(Before(P, q))
<1>1. /\ at \in Nat /\ str.end \in Nat /\ P \in SUBSET Nat /\ IsFiniteSet(P)
      /\ \A x, y \in P : x < y => x + 2 <= y
  BY DEF InsideInv, StringRecord, Places
<1>2. \A q \in Nat : C(q) \in Nat /\ C(q + 2) <= C(q) + 1
  BY <1>1, BeforeCount
<1>3. ASSUME NEW i \in Nat PROVE At(i) \in Int
  <2>1. CASE i < Length
    <3>1. content \in Seq(0 .. 255)
      BY DEF Ended
    <3>2. content[i + 1] \in 0 .. 255
      BY <2>1, <3>1, ByteAt DEF Length
    <3>3. \A x \in 0 .. 255 : x \in Int
      OBVIOUS
    <3> QED BY <2>1, <3>2, <3>3, Zenon DEF At
  <2>2. CASE ~(i < Length)
    BY <2>2 DEF At, Nul
  <2> QED BY <2>1, <2>2
<1>4. CASE CopyPlain
  <2>1. Emit(<<At(at)>>, 1) /\ At(at) # Backslash
    BY <1>4 DEF CopyPlain
  <2>2. at \notin P
    BY <2>1 DEF Places
  <2>3. C(at + 1) = C(at)
    BY <1>1, <2>2, BeforeCount
  <2>4. C(at) \in Nat
    BY <1>1, <1>2
  <2> HIDE DEF C
  <2>5. <<At(at)>> \in Seq(Int) /\ Len(<<At(at)>>) + C(at + 1) <= C(at) + 1
    BY <1>1, <1>3, <2>3, <2>4
  <2> QED BY <2>1, <2>5 DEF C
<1>5. ASSUME NEW b \in Int, Emit(<<b>>, 2)
      PROVE  \E n \in {1, 2, 6, 12} : \E bytes \in Seq(Int) :
               Emit(bytes, n) /\ Len(bytes) + C(at + n) <= C(at) + n
  <2>1. C(at) \in Nat /\ C(at + 2) \in Nat /\ C(at + 2) <= C(at) + 1
    <3>1. at + 2 \in Nat
      BY <1>1
    <3> QED BY <1>1, <1>2, <3>1
  <2> HIDE DEF C
  <2>2. <<b>> \in Seq(Int) /\ Len(<<b>>) + C(at + 2) <= C(at) + 2
    BY <2>1
  <2> QED BY <1>5, <2>2
<1>6. CASE CopyEscape
  <2>1. CASE \E e \in Escapes : Emit(<<e[2]>>, 2)
    <3>1. \A e \in Escapes : e[2] \in Int
      BY DEF Escapes
    <3> QED BY <1>5, <2>1, <3>1
  <2>2. CASE Emit(<<At(at + 1)>>, 2)
    <3>1. At(at + 1) \in Int
      BY <1>1, <1>3
    <3> QED BY <1>5, <2>2, <3>1
  <2>3. CASE LET u == utf16_literal_to_utf8(at, str.end)
             IN u.length > 0 /\ Emit(u.bytes, u.length)
    <3> DEFINE u == utf16_literal_to_utf8(at, str.end)
    <3>1. Emit(u.bytes, u.length) /\ u.length > 0
      BY <2>3
    <3>2. /\ u.bytes \in Seq(Int) /\ Len(u.bytes) \in Nat
          /\ \/ u.length = 6 /\ Len(u.bytes) <= 3
             \/ u.length = 12 /\ Len(u.bytes) <= 4
      BY <1>1, <3>1, Utf16Bytes
    <3>3. /\ C(at) \in Nat /\ C(at + 6) \in Nat /\ C(at + 12) \in Nat
          /\ C(at + 6) <= C(at) + 3 /\ C(at + 12) <= C(at) + 6
      <4>1. /\ at + 2 \in Nat /\ at + 4 \in Nat /\ at + 6 \in Nat /\ at + 8 \in Nat
            /\ at + 10 \in Nat /\ at + 12 \in Nat
            /\ (at + 2) + 2 = at + 4 /\ (at + 4) + 2 = at + 6 /\ (at + 6) + 2 = at + 8
            /\ (at + 8) + 2 = at + 10 /\ (at + 10) + 2 = at + 12
        BY <1>1
      <4>2. /\ C(at) \in Nat /\ C(at + 2) \in Nat /\ C(at + 4) \in Nat /\ C(at + 6) \in Nat
            /\ C(at + 8) \in Nat /\ C(at + 10) \in Nat /\ C(at + 12) \in Nat
        BY <1>1, <1>2, <4>1
      <4>3. C(at + 2) <= C(at) + 1 /\ C(at + 4) <= C(at + 2) + 1 /\ C(at + 6) <= C(at + 4) + 1
        BY <1>1, <1>2, <4>1
      <4>4. C(at + 8) <= C(at + 6) + 1 /\ C(at + 10) <= C(at + 8) + 1 /\ C(at + 12) <= C(at + 10) + 1
        BY <1>2, <4>1
      <4> HIDE DEF C
      <4> QED BY <4>2, <4>3, <4>4
    <3> HIDE DEF u, C
    <3>4. CASE u.length = 6
      <4>1. Emit(u.bytes, 6) /\ Len(u.bytes) + C(at + 6) <= C(at) + 6
        BY <3>1, <3>2, <3>3, <3>4
      <4> QED BY <3>2, <4>1 DEF C
    <3>5. CASE u.length = 12
      <4>1. Emit(u.bytes, 12) /\ Len(u.bytes) + C(at + 12) <= C(at) + 12
        BY <3>1, <3>2, <3>3, <3>5
      <4> QED BY <3>2, <4>1 DEF C
    <3> QED BY <3>2, <3>4, <3>5
  <2> QED BY <1>6, <2>1, <2>2, <2>3 DEF CopyEscape
<1> QED BY <1>4, <1>6

LEMMA CopyFits ==
  ASSUME InsideInv, Ended(content), CopyPlain \/ CopyEscape, NEW P, Places(P),
         str.out \in Seq(Int), str.cap = str.end - str.start - str.skipped,
         Len(str.out) + Cardinality(Before(P, str.ptr)) <= str.ptr - str.start - 1
  PROVE  /\ str'.out \in Seq(Int) /\ str'.cap = str'.end - str'.start - str'.skipped
         /\ Places(P)'
         /\ Len(str'.out) + Cardinality(Before(P, str'.ptr)) <= str'.ptr - str'.start - 1
<1>1. StringRecord(str) /\ \A i : At(i)' = At(i)
  BY DEF InsideInv, CopyPlain, CopyEscape, At, Length
<1>2. PICK n \in {1, 2, 6, 12} : \E bytes \in Seq(Int) :
        /\ Emit(bytes, n)
        /\ Len(bytes) + Cardinality(Before(P, str.ptr + n)) <= Cardinality(Before(P, str.ptr)) + n
  BY CopyBalance
<1>3. PICK bytes \in Seq(Int) :
        /\ Emit(bytes, n)
        /\ Len(bytes) + Cardinality(Before(P, str.ptr + n)) <= Cardinality(Before(P, str.ptr)) + n
  BY <1>2
<1>4. str' = [str EXCEPT !.out = str.out \o bytes, !.ptr = str.ptr + n]
  BY <1>3 DEF Emit
<1>5. /\ str'.start = str.start /\ str'.end = str.end /\ str'.skipped = str.skipped
      /\ str'.cap = str.cap /\ str'.out = str.out \o bytes /\ str'.ptr = str.ptr + n
  BY <1>1, <1>4 DEF StringRecord
<1>6. Places(P)'
  BY <1>1, <1>5 DEF Places
<1>7. /\ str.ptr \in Nat /\ str.start \in Nat /\ n \in Nat /\ str.ptr + n \in Nat
      /\ P \in SUBSET Nat /\ IsFiniteSet(P) /\ \A x, y \in P : x < y => x + 2 <= y
  <2>1. str.ptr \in Nat /\ str.start \in Nat
    BY <1>1 DEF StringRecord
  <2>2. n \in Nat
    OBVIOUS
  <2>3. str.ptr + n \in Nat
    BY <2>1, <2>2
  <2>4. P \in SUBSET Nat /\ IsFiniteSet(P) /\ \A x, y \in P : x < y => x + 2 <= y
    BY DEF Places
  <2> QED BY <2>1, <2>2, <2>3, <2>4
<1>8. /\ Cardinality(Before(P, str.ptr)) \in Nat
      /\ Cardinality(Before(P, str.ptr + n)) \in Nat
  BY <1>7, BeforeCount
<1>9. /\ str'.out \in Seq(Int) /\ Len(str'.out) = Len(str.out) + Len(bytes)
      /\ Len(str.out) \in Nat /\ Len(bytes) \in Nat
  BY <1>5
<1> DEFINE after == Cardinality(Before(P, str.ptr + n))
           before == Cardinality(Before(P, str.ptr))
           copied == Len(str.out)
           more == Len(bytes)
           q == str.ptr
           t == str.start
<1>10. /\ copied + before <= q - t - 1 /\ more + after <= before + n
       /\ after \in Nat /\ before \in Nat /\ copied \in Nat /\ more \in Nat
       /\ q \in Nat /\ t \in Nat /\ n \in Nat
  BY <1>3, <1>7, <1>8, <1>9
<1> HIDE DEF after, before, copied, more, q, t
<1>11. (copied + more) + after <= (q + n) - t - 1
  BY <1>10
<1> QED BY <1>5, <1>6, <1>9, <1>11 DEF after, copied, more, q, t

-----------------------------------------------------------------------------
(* The invariant of the copy *)

LEMMA FitInit == Idle => FitInv
<1> SUFFICES ASSUME Idle PROVE FitInv
  OBVIOUS
<1>1. pc = "idle"
  BY DEF Idle
<1> QED BY <1>1, InsideInit DEF FitInv

LEMMA FitStep ==
  ASSUME FitInv, Step
  PROVE  FitInv'
<1>1. InsideInv /\ InsideInv'
  BY InsideStep DEF FitInv
<1>2. pc # "idle" => Ended(content)
  BY <1>1 DEF InsideInv
<1>3. CASE pc' \notin {"scan", "copy"}
  BY <1>1, <1>3 DEF FitInv
<1>4. CASE ParseText
  <2>1. pc = "value" /\ pc' = "scan" /\ str' = StringAt(offset, "text")
    BY <1>4 DEF ParseText
  <2>2. offset \in Nat
    BY <1>1, <2>1 DEF InsideInv
  <2> QED BY <1>1, <2>1, <2>2, ScanStarts DEF FitInv
<1>5. CASE ParseName /\ pc' \in {"scan", "copy"}
  <2>1. pc = "name" /\ pc' = "scan" /\ str' = StringAt(offset, "name")
    BY <1>5 DEF ParseName, Fail
  <2>2. offset \in Nat
    BY <1>1, <2>1 DEF InsideInv
  <2> QED BY <1>1, <2>1, <2>2, ScanStarts DEF FitInv
<1>6. CASE ScanString /\ pc' \in {"scan", "copy"}
  <2>1. pc = "scan" /\ pc' = "scan"
    BY <1>6 DEF ScanString, Fail
  <2>2. PICK P : Places(P)
    BY <2>1 DEF FitInv
  <2>3. str.out = <<>>
    BY <2>1 DEF FitInv
  <2> QED BY <1>1, <1>6, <2>1, <2>2, <2>3, ScanCounts DEF FitInv
<1>7. CASE AllocateOutput /\ pc' \in {"scan", "copy"}
  <2>1. pc = "scan" /\ pc' = "copy"
    BY <1>7 DEF AllocateOutput, Fail
  <2>2. PICK P : Places(P)
    BY <2>1 DEF FitInv
  <2>3. str.out = <<>>
    BY <2>1 DEF FitInv
  <2> QED BY <1>1, <1>7, <2>1, <2>2, <2>3, CopyStarts DEF FitInv
<1>8. CASE CopyPlain \/ CopyEscape
  <2>1. pc = "copy" /\ pc' = "copy"
    BY <1>8 DEF CopyPlain, CopyEscape
  <2>2. PICK P : /\ Places(P)
                 /\ Len(str.out) + Cardinality(Before(P, str.ptr)) <= str.ptr - str.start - 1
    BY <2>1 DEF FitInv
  <2>3. str.out \in Seq(Int) /\ str.cap = str.end - str.start - str.skipped
    BY <2>1 DEF FitInv
  <2> QED BY <1>1, <1>2, <1>8, <2>1, <2>2, <2>3, CopyFits DEF FitInv
<1>9. CASE pc' \in {"scan", "copy"} /\ ~(\/ ParseText \/ ParseName \/ ScanString
                                        \/ AllocateOutput \/ CopyPlain \/ CopyEscape)
  <2>1. ASSUME NEW o, Fail(o) PROVE pc' = "unwind"
    BY <2>1 DEF Fail
  <2>2. ASSUME NEW frames, NEW v, NEW o, NEW n, Parsed(frames, v, o, n)
        PROVE  pc' \in {"end", "next"}
    BY <2>2 DEF Parsed
  <2>3. ~ParseLiteral /\ ~parse_number /\ ~OpenList /\ ~NoValue /\ ~CloseList
    BY <1>9, <2>1, <2>2 DEF ParseLiteral, parse_number, OpenList, NoValue, CloseList
  <2>4. ~NextItem /\ ~Unclosed /\ ~ParseColon /\ ~CopyFails /\ ~CopyEnds
    BY <1>9, <2>1, <2>2 DEF NextItem, Unclosed, ParseColon, CopyFails, CopyEnds
  <2>5. ~Finish
    BY <1>9, <2>1 DEF Finish
  <2>6. ~Unwind
    BY <1>9 DEF Unwind
  <2> QED BY <1>9, <2>3, <2>4, <2>5, <2>6 DEF Step
<1> QED BY <1>3, <1>4, <1>5, <1>6, <1>7, <1>8, <1>9

LEMMA FitNext ==
  ASSUME FitInv,
         [Step \/ \E text \in Seq(1 .. 255), terminated \in BOOLEAN :
                     cJSON_ParseWithOpts(text, terminated)]_vars
  PROVE  FitInv'
<1>1. InsideInv'
  BY InsideStep DEF FitInv
<1>2. CASE Step
  BY <1>2, FitStep
<1>3. CASE \E text \in Seq(1 .. 255), terminated \in BOOLEAN :
             cJSON_ParseWithOpts(text, terminated)
  <2>1. pc' \in {"value", "failed"}
    BY <1>3 DEF cJSON_ParseWithOpts
  <2> QED BY <1>1, <2>1 DEF FitInv
<1>4. CASE UNCHANGED vars
  <2>1. pc' = pc /\ str' = str /\ content' = content
    BY <1>4 DEF vars
  <2>2. \A P : Places(P)' = Places(P)
    BY <2>1 DEF Places, At, Length
  <2> QED BY <1>1, <2>1, <2>2 DEF FitInv
<1> QED BY <1>2, <1>3, <1>4

LEMMA FitEnough ==
  ASSUME FitInv
  PROVE  StringFits
<1> SUFFICES ASSUME pc = "copy" PROVE Len(str.out) <= str.cap
  BY DEF StringFits
<1>1. PICK P : /\ Places(P)
               /\ Len(str.out) + Cardinality(Before(P, str.ptr)) <= str.ptr - str.start - 1
  BY DEF FitInv
<1> DEFINE before == Cardinality(Before(P, str.ptr))
           copied == Len(str.out)
           q == str.ptr
           e == str.end
           t == str.start
<1>2. str.out \in Seq(Int) /\ str.cap = e - t - str.skipped
  BY DEF FitInv
<1>3. q \in Nat /\ e \in Nat /\ t \in Nat /\ q <= e + 1
  BY DEF FitInv, InsideInv, ReadsInside, StringRecord
<1>4. /\ P \in SUBSET Nat /\ IsFiniteSet(P) /\ Cardinality(P) = str.skipped
      /\ \A x \in P : x + 2 <= e
      /\ \A x, y \in P : x < y => x + 2 <= y
  BY <1>1 DEF Places
<1>5. before \in Nat
  BY <1>3, <1>4, BeforeCount
<1>6. Cardinality(P) - before <= e + 1 - q
  <2>1. \A x \in P : x <= e
    BY <1>3, <1>4
  <2> QED BY <1>3, <1>4, <2>1, AfterCount
<1>7. Cardinality(P) \in Nat /\ copied \in Nat
  BY <1>2, <1>4, FS_CardinalityType
<1>8. copied + before <= q - t - 1
  BY <1>1
<1> HIDE DEF before, copied, q, e, t
<1>9. copied <= e - t - Cardinality(P)
  BY <1>3, <1>5, <1>6, <1>7, <1>8
<1> QED BY <1>2, <1>4, <1>9 DEF copied

(* cJSON.c:668-810: whatever the text and whatever its escape sequences,   *)
(* parse_string writes no more than the scan before it made room for.      *)
THEOREM Copying == ParseSpec => []StringFits
<1>1. FitInv /\ [Step \/ \E text \in Seq(1 .. 255), terminated \in BOOLEAN :
                            cJSON_ParseWithOpts(text, terminated)]_vars => FitInv'
  BY FitNext
<1> QED BY <1>1, FitInit, FitEnough, PTL DEF ParseSpec

-----------------------------------------------------------------------------
(* What the parser owns.  Each list on the stack accounts for what it      *)
(* holds, and the output of a string that is being copied for itself.      *)

FrameRecord(f) ==
  /\ f = [kind |-> f.kind, items |-> f.items, name |-> f.name, count |-> f.count]
  /\ f.count \in Int

(* st is a root frame with lists on it that account for t allocations. *)
Accounts(st, t) ==
  /\ \E A : st \in Seq(A)
  /\ \A i \in 1 .. Len(st) : FrameRecord(st[i]) /\ (st[i].kind = "root" <=> i = 1)
  /\ \E f \in [0 .. Len(st) -> Int] :
       f[0] = 0 /\ f[Len(st)] = t /\ \A i \in 1 .. Len(st) : f[i] = f[i - 1] + st[i].count

(* Inductive *)
FreeInv ==
  /\ owned \in Int
  /\ Accounts(stack, IF pc = "copy" THEN owned - 1 ELSE owned)
  /\ pc \in Working => stack # <<>>
  /\ pc \in {"first", "next"} => Len(stack) # 1
  /\ pc \in {"end", "done"} => Len(stack) = 1
  /\ pc = "failed" => stack = <<>>
  /\ pc \in Working \cup {"idle", "unwind", "failed", "done"}
  /\ pc = "idle" => stack = <<>>

LEMMA NoFrames == Accounts(<<>>, 0)
<1> DEFINE f == [i \in 0 .. 0 |-> 0]
           st == <<>>
<1>1. st \in Seq({}) /\ Len(st) = 0
  OBVIOUS
<1>2. f \in [0 .. 0 -> Int] /\ f[0] = 0
  OBVIOUS
<1> HIDE DEF f, st
<1>3. Accounts(st, 0)
  BY <1>1, <1>2 DEF Accounts
<1> QED BY <1>3 DEF st

LEMMA PushAccounts ==
  ASSUME NEW st, NEW t, Accounts(st, t), NEW x, FrameRecord(x), x.kind = "root" <=> st = <<>>
  PROVE  /\ Accounts(Append(st, x), t + x.count) /\ Append(st, x) # <<>>
         /\ Len(Append(st, x)) = Len(st) + 1 /\ Len(st) \in Nat
         /\ Append(st, x)[Len(st) + 1] = x
<1>1. PICK A : st \in Seq(A)
  BY DEF Accounts
<1>2. PICK f \in [0 .. Len(st) -> Int] :
        f[0] = 0 /\ f[Len(st)] = t /\ \A i \in 1 .. Len(st) : f[i] = f[i - 1] + st[i].count
  BY DEF Accounts
<1> DEFINE n == Len(st)
           u == Append(st, x)
           B == A \cup {x}
           g == [i \in 0 .. (n + 1) |-> IF i <= n THEN f[i] ELSE t + x.count]
<1>3. st \in Seq(B)
  BY <1>1
<1>4. u \in Seq(B) /\ Len(u) = n + 1 /\ n \in Nat /\ u[n + 1] = x /\ \A i \in 1 .. n : u[i] = st[i]
  BY <1>3
<1>5. st = <<>> <=> n = 0
  BY <1>1, EmptySeq
<1>6. \A i \in 1 .. n : FrameRecord(st[i]) /\ (st[i].kind = "root" <=> i = 1)
  BY DEF Accounts
<1>7. t \in Int /\ x.count \in Int /\ \A i \in 0 .. n : f[i] \in Int
  BY <1>2, <1>4 DEF FrameRecord
<1>8. f[0] = 0 /\ f[n] = t /\ \A i \in 1 .. n : f[i] = f[i - 1] + st[i].count
  BY <1>2
<1>9. u # <<>>
  <2>1. Len(u) # 0 /\ Len(<<>>) = 0
    BY <1>4
  <2> QED BY <2>1
<1> HIDE DEF n, u
<1>10. g \in [0 .. (n + 1) -> Int]
  BY <1>4, <1>7
<1>11. g[0] = 0 /\ g[n + 1] = t + x.count
  BY <1>4, <1>8
<1>12. ASSUME NEW i \in 1 .. (n + 1) PROVE g[i] = g[i - 1] + u[i].count
  <2>1. i \in 0 .. (n + 1) /\ i - 1 \in 0 .. (n + 1) /\ i - 1 <= n
    BY <1>4
  <2>2. CASE i <= n
    <3>1. i \in 1 .. n
      BY <1>4, <2>2
    <3>2. g[i] = f[i] /\ g[i - 1] = f[i - 1]
      BY <2>1, <2>2
    <3> QED BY <1>4, <1>8, <3>1, <3>2
  <2>3. CASE i = n + 1
    <3>1. g[i] = t + x.count /\ g[i - 1] = f[n] /\ u[i] = x
      BY <1>4, <2>1, <2>3
    <3> QED BY <1>8, <3>1
  <2> QED BY <1>4, <2>2, <2>3
<1>13. ASSUME NEW i \in 1 .. (n + 1)
       PROVE  FrameRecord(u[i]) /\ (u[i].kind = "root" <=> i = 1)
  <2>1. CASE i \in 1 .. n
    BY <1>4, <1>6, <2>1
  <2>2. CASE i = n + 1
    <3>1. i = 1 <=> st = <<>>
      BY <1>4, <1>5, <2>2
    <3> QED BY <1>4, <2>2, <3>1
  <2> QED BY <1>4, <2>1, <2>2
<1> HIDE DEF g
<1>14. Accounts(u, t + x.count)
  BY <1>4, <1>10, <1>11, <1>12, <1>13 DEF Accounts
<1> QED BY <1>4, <1>9, <1>14 DEF n, u

LEMMA PopAccounts ==
  ASSUME NEW st, NEW t, Accounts(st, t), st # <<>>
  PROVE  LET top  == st[Len(st)]
             rest == SubSeq(st, 1, Len(st) - 1)
         IN  /\ FrameRecord(top) /\ (top.kind = "root" <=> Len(st) = 1)
             /\ Accounts(rest, t - top.count) /\ (rest = <<>> <=> Len(st) = 1)
             /\ Len(st) \in Nat /\ Len(st) >= 1 /\ Len(rest) = Len(st) - 1
             /\ Len(st) = 1 => top.count = t
<1>1. PICK A : st \in Seq(A)
  BY DEF Accounts
<1>2. PICK f \in [0 .. Len(st) -> Int] :
        f[0] = 0 /\ f[Len(st)] = t /\ \A i \in 1 .. Len(st) : f[i] = f[i - 1] + st[i].count
  BY DEF Accounts
<1> DEFINE n == Len(st)
           top == st[n]
           u == SubSeq(st, 1, n - 1)
           g == [i \in 0 .. (n - 1) |-> f[i]]
<1>3. n \in Nat /\ n >= 1
  BY <1>1, EmptySeq
<1>4. u \in Seq(A) /\ Len(u) = n - 1 /\ \A i \in 1 .. (n - 1) : u[i] = st[i]
  BY <1>1, <1>3
<1>5. \A i \in 1 .. n : FrameRecord(st[i]) /\ (st[i].kind = "root" <=> i = 1)
  BY DEF Accounts
<1>6. f[0] = 0 /\ f[n] = t /\ \A i \in 1 .. n : f[i] = f[i - 1] + st[i].count
  BY <1>2
<1>7. \A i \in 0 .. n : f[i] \in Int
  OBVIOUS
<1>8. u = <<>> <=> Len(u) = 0
  BY <1>4, EmptySeq
<1> HIDE DEF n, u
<1>9. n \in 1 .. n /\ n - 1 \in 0 .. n /\ n \in 0 .. n
  BY <1>3
<1>10. /\ FrameRecord(top) /\ (top.kind = "root" <=> n = 1)
       /\ f[n - 1] = t - top.count /\ top.count \in Int /\ t \in Int
  <2>1. FrameRecord(st[n]) /\ (st[n].kind = "root" <=> n = 1) /\ f[n] = f[n - 1] + st[n].count
    BY <1>5, <1>6, <1>9
  <2>2. f[n - 1] \in Int /\ f[n] \in Int /\ f[n] = t
    BY <1>6, <1>7, <1>9
  <2>3. st[n].count \in Int
    BY <2>1 DEF FrameRecord
  <2> QED BY <2>1, <2>2, <2>3
<1>11. n = 1 => top.count = t
  BY <1>6, <1>10
<1>12. g \in [0 .. (n - 1) -> Int] /\ g[0] = 0 /\ g[n - 1] = t - top.count
  BY <1>3, <1>6, <1>7, <1>10
<1>13. ASSUME NEW i \in 1 .. (n - 1)
       PROVE  /\ g[i] = g[i - 1] + u[i].count
              /\ FrameRecord(u[i]) /\ (u[i].kind = "root" <=> i = 1)
  <2>1. i \in 1 .. n /\ i \in 0 .. (n - 1) /\ i - 1 \in 0 .. (n - 1)
    BY <1>3
  <2> QED BY <1>4, <1>5, <1>6, <2>1
<1> HIDE DEF g, top
<1>14. Accounts(u, t - top.count)
  BY <1>4, <1>12, <1>13 DEF Accounts
<1> QED BY <1>3, <1>4, <1>8, <1>10, <1>11, <1>14 DEF n, u, top

(* The top is replaced by a frame of the same kind that accounts for n more. *)
LEMMA TopAccounts ==
  ASSUME NEW st, NEW t, Accounts(st, t), st # <<>>, NEW n \in Int, NEW x, FrameRecord(x),
         x.kind = st[Len(st)].kind, x.count = st[Len(st)].count + n
  PROVE  LET u == Append(SubSeq(st, 1, Len(st) - 1), x)
         IN  /\ Accounts(u, t + n) /\ u # <<>> /\ Len(u) = Len(st)
             /\ (x.kind = "root" <=> Len(st) = 1)
<1> DEFINE top == st[Len(st)]
           rest == SubSeq(st, 1, Len(st) - 1)
<1>1. /\ FrameRecord(top) /\ (top.kind = "root" <=> Len(st) = 1)
      /\ Accounts(rest, t - top.count) /\ (rest = <<>> <=> Len(st) = 1)
      /\ Len(st) \in Nat /\ Len(rest) = Len(st) - 1
  BY PopAccounts
<1>2. t \in Int
  <2>1. PICK f \in [0 .. Len(st) -> Int] : f[Len(st)] = t
    BY DEF Accounts
  <2> QED BY <1>1, <2>1
<1>3. top.count \in Int
  BY <1>1 DEF FrameRecord
<1> HIDE DEF rest, top
<1>4. x.kind = "root" <=> rest = <<>>
  BY <1>1 DEF top
<1>5. /\ Accounts(Append(rest, x), (t - top.count) + x.count) /\ Append(rest, x) # <<>>
      /\ Len(Append(rest, x)) = Len(rest) + 1
  BY <1>1, <1>4, PushAccounts
<1>6. x.count = top.count + n
  BY DEF top
<1>7. (t - top.count) + x.count = t + n /\ Len(rest) + 1 = Len(st)
  BY <1>1, <1>2, <1>3, <1>6
<1> QED BY <1>1, <1>4, <1>5, <1>7 DEF rest, top

LEMMA ParsedAccounts ==
  ASSUME NEW frames, NEW t, Accounts(frames, t), frames # <<>>, NEW v, NEW o, NEW n \in Int,
         Parsed(frames, v, o, n)
  PROVE  /\ Accounts(stack', t + n) /\ stack' # <<>>
         /\ (pc' = "next" /\ Len(stack') # 1) \/ (pc' = "end" /\ Len(stack') = 1)
<1> DEFINE top == frames[Len(frames)]
           rest == SubSeq(frames, 1, Len(frames) - 1)
           x == Attach(top, v, n)
<1>1. FrameRecord(top) /\ (top.kind = "root" <=> Len(frames) = 1)
  BY PopAccounts
<1>2. FrameRecord(x) /\ x.kind = top.kind /\ x.count = top.count + n
  <2> DEFINE items == Append(top.items, IF top.kind = "object" THEN <<top.name, v>> ELSE v)
  <2>1. x = [top EXCEPT !.items = items, !.count = @ + n]
    BY DEF Attach
  <2>2. top = [kind |-> top.kind, items |-> top.items, name |-> top.name, count |-> top.count]
        /\ top.count \in Int
    BY <1>1 DEF FrameRecord
  <2> HIDE DEF items, top, x
  <2>3. x = [kind |-> top.kind, items |-> items, name |-> top.name, count |-> top.count + n]
    BY <2>1, <2>2
  <2> QED BY <2>2, <2>3 DEF FrameRecord
<1>3. /\ stack' = Append(rest, x)
      /\ IF top.kind = "root" THEN pc' = "end" ELSE pc' = "next"
  BY DEF Parsed
<1> HIDE DEF x
<1>4. /\ Accounts(Append(rest, x), t + n) /\ Append(rest, x) # <<>>
      /\ Len(Append(rest, x)) = Len(frames)
  BY <1>2, TopAccounts
<1> QED BY <1>1, <1>3, <1>4
LEMMA TopFrame ==
  ASSUME NEW st, NEW t, Accounts(st, t), st # <<>>, NEW name
  PROVE  LET top  == st[Len(st)]
             rest == SubSeq(st, 1, Len(st) - 1)
         IN  /\ Accounts(Append(rest, [top EXCEPT !.count = @ + 1]), t + 1)
             /\ Len(Append(rest, [top EXCEPT !.count = @ + 1])) = Len(st)
             /\ Append(rest, [top EXCEPT !.count = @ + 1]) # <<>>
             /\ Accounts(Append(rest, [top EXCEPT !.name = name, !.count = @ + 1]), t + 1)
             /\ Len(Append(rest, [top EXCEPT !.name = name, !.count = @ + 1])) = Len(st)
             /\ Append(rest, [top EXCEPT !.name = name, !.count = @ + 1]) # <<>>
<1> DEFINE top == st[Len(st)]
           x == [top EXCEPT !.count = @ + 1]
           y == [top EXCEPT !.name = name, !.count = @ + 1]
<1>1. FrameRecord(top)
  BY PopAccounts
<1>2. top = [kind |-> top.kind, items |-> top.items, name |-> top.name, count |-> top.count]
      /\ top.count \in Int
  BY <1>1 DEF FrameRecord
<1> HIDE DEF top
<1> DEFINE n == top.count + 1
<1>3. x = [kind |-> top.kind, items |-> top.items, name |-> top.name, count |-> n]
  BY <1>2
<1>8. n \in Int /\ n = top.count + 1
  BY <1>2
<1>7. y = [kind |-> top.kind, items |-> top.items, name |-> name, count |-> n]
  <2> DEFINE z == [top EXCEPT !.name = name]
  <2>1. y = [z EXCEPT !.count = n]
    BY <1>2
  <2>2. z = [kind |-> top.kind, items |-> top.items, name |-> name, count |-> top.count]
    BY <1>2
  <2> HIDE DEF y, z, n
  <2> QED BY <2>1, <2>2
<1> HIDE DEF x, y, n
<1>4. /\ FrameRecord(x) /\ x.kind = top.kind /\ x.count = top.count + 1
      /\ FrameRecord(y) /\ y.kind = top.kind /\ y.count = top.count + 1
  BY <1>3, <1>7, <1>8 DEF FrameRecord
<1> DEFINE rest == SubSeq(st, 1, Len(st) - 1)
<1>5. /\ Accounts(Append(rest, x), t + 1) /\ Append(rest, x) # <<>>
      /\ Len(Append(rest, x)) = Len(st)
  <2>1. x.kind = st[Len(st)].kind /\ x.count = st[Len(st)].count + 1
    BY <1>4 DEF top
  <2> QED BY <1>4, <2>1, TopAccounts
<1>6. /\ Accounts(Append(rest, y), t + 1) /\ Append(rest, y) # <<>>
      /\ Len(Append(rest, y)) = Len(st)
  <2>1. y.kind = st[Len(st)].kind /\ y.count = st[Len(st)].count + 1
    BY <1>4 DEF top
  <2> QED BY <1>4, <2>1, TopAccounts
<1> QED BY <1>5, <1>6 DEF top, x, y

LEMMA FreeStep ==
  ASSUME FreeInv, Step
  PROVE  FreeInv'
<1> DEFINE Owed == IF pc = "copy" THEN owned - 1 ELSE owned
<1>1. owned \in Int /\ Accounts(stack, Owed) /\ (pc \in Working => stack # <<>>)
  BY DEF FreeInv
<1>2. /\ pc \in {"first", "next"} => Len(stack) # 1
      /\ pc \in {"end", "done"} => Len(stack) = 1
  BY DEF FreeInv
<1>3. ASSUME stack' = stack, owned' = owned, pc # "copy", pc' # "copy",
             pc' \in Working \cup {"unwind", "done"}, pc \in Working,
             pc' \notin {"first", "next"}, pc' \in {"end", "done"} => pc = "end"
      PROVE  FreeInv'
  <2>1. Accounts(stack', owned')
    BY <1>1, <1>3, Zenon
  <2> QED BY <1>1, <1>2, <1>3, <2>1 DEF FreeInv, Working
<1>4. ASSUME NEW frames, NEW t, Accounts(frames, t), frames # <<>>, NEW v, NEW o, NEW n \in Int,
             Parsed(frames, v, o, n), owned' = t + n, owned' \in Int
      PROVE  FreeInv'
  <2>1. /\ Accounts(stack', owned') /\ stack' # <<>>
        /\ (pc' = "next" /\ Len(stack') # 1) \/ (pc' = "end" /\ Len(stack') = 1)
    BY <1>4, ParsedAccounts
  <2> QED BY <1>4, <2>1 DEF FreeInv, Working
<1>5. CASE ParseLiteral
  <2>1. PICK l \in Literals : Parsed(stack, l[2], offset + Len(l[1]), 0)
    BY <1>5 DEF ParseLiteral
  <2>2. pc = "value" /\ owned' = owned
    BY <1>5 DEF ParseLiteral
  <2>3. Accounts(stack, owned) /\ stack # <<>> /\ owned + 0 = owned
    BY <1>1, <2>2 DEF Working
  <2> HIDE DEF Owed
  <2> QED BY <1>1, <1>4, <2>1, <2>2, <2>3
<1>6. CASE parse_number
  <2>1. pc = "value" /\ owned' = owned
    BY <1>6 DEF parse_number
  <2>2. Accounts(stack, owned) /\ stack # <<>> /\ owned + 0 = owned
    BY <1>1, <2>1 DEF Working
  <2>3. PICK k \in 0 .. Length :
          IF k = 0 THEN Fail(offset) /\ UNCHANGED stack
          ELSE Parsed(stack, <<"number", SubSeq(content, offset + 1, offset + k)>>,
                      offset + k, 0)
    BY <1>6 DEF parse_number
  <2>4. CASE k = 0
    <3>1. pc' = "unwind" /\ stack' = stack
      BY <2>3, <2>4 DEF Fail
    <3> QED BY <1>3, <2>1, <3>1 DEF Working
  <2>5. CASE k # 0
    <3>1. Parsed(stack, <<"number", SubSeq(content, offset + 1, offset + k)>>, offset + k, 0)
      BY <2>3, <2>5
    <3> HIDE DEF Owed
    <3> QED BY <1>1, <1>4, <2>1, <2>2, <3>1
  <2> QED BY <2>4, <2>5
<1>7. CASE ParseText
  BY <1>3, <1>7 DEF ParseText, Working
<1>8. CASE OpenList
  <2>1. pc = "value" /\ owned' = owned
    BY <1>8 DEF OpenList
  <2>2. Accounts(stack, owned) /\ stack # <<>>
    BY <1>1, <2>1 DEF Working
  <2>3. CASE depth >= NestingLimit
    <3>1. pc' = "unwind" /\ stack' = stack
      BY <1>8, <2>3 DEF OpenList, Fail
    <3> QED BY <1>3, <2>1, <3>1 DEF Working
  <2>4. CASE ~(depth >= NestingLimit)
    <3> DEFINE x == Frame(Opened(At(offset)), 0)
    <3>1. pc' = "first" /\ stack' = Append(stack, x)
      BY <1>8, <2>4 DEF OpenList
    <3>2. FrameRecord(x) /\ x.kind # "root" /\ x.count = 0
      BY DEF Frame, Opened, FrameRecord
    <3> HIDE DEF x
    <3>3. /\ Accounts(stack', owned + x.count) /\ stack' # <<>>
          /\ Len(stack') = Len(stack) + 1
      BY <2>2, <3>1, <3>2, PushAccounts
    <3>4. Len(stack) \in Nat /\ Len(stack) >= 1
      BY <2>2, PopAccounts
    <3>5. Accounts(stack', owned') /\ Len(stack') # 1
      <4>1. owned + x.count = owned' /\ Len(stack) + 1 # 1
        BY <1>1, <2>1, <3>2, <3>4
      <4> QED BY <3>3, <4>1
    <3> QED BY <1>1, <2>1, <3>1, <3>3, <3>5 DEF FreeInv, Working
  <2> QED BY <2>3, <2>4
<1>9. CASE NoValue
  BY <1>3, <1>9 DEF NoValue, Fail, Working
<1>10. CASE CloseList
  <2>1. pc \in {"first", "next"} /\ owned' = owned
        /\ Parsed(Below, <<Top.kind, Top.items>>, offset + 1, Top.count)
    BY <1>10 DEF CloseList
  <2>2. Accounts(stack, owned) /\ stack # <<>> /\ Len(stack) # 1
    BY <1>1, <1>2, <2>1 DEF Working
  <2>3. FrameRecord(Top) /\ Accounts(Below, owned - Top.count) /\ Below # <<>>
    BY <2>2, PopAccounts DEF Top, Below
  <2>4. Top.count \in Int
    BY <2>3 DEF FrameRecord
  <2>5. owned' = (owned - Top.count) + Top.count /\ owned' \in Int
    BY <1>1, <2>1, <2>4
  <2> HIDE DEF Owed
  <2> QED BY <1>4, <2>1, <2>3, <2>4, <2>5
<1>11. CASE NextItem
  <2>1. pc \in {"first", "next"}
    BY <1>11 DEF NextItem
  <2>2. Accounts(stack, owned) /\ stack # <<>> /\ Len(stack) # 1
    BY <1>1, <1>2, <2>1 DEF Working
  <2>3. \/ /\ owned' = owned + 1 /\ stack' = Append(Below, [Top EXCEPT !.count = @ + 1])
           /\ pc' \in {"value", "name"}
        \/ pc' = "unwind" /\ owned' = owned /\ stack' = stack
    BY <1>11 DEF NextItem, Fail
  <2>4. CASE /\ owned' = owned + 1 /\ stack' = Append(Below, [Top EXCEPT !.count = @ + 1])
             /\ pc' \in {"value", "name"}
    <3> DEFINE u == Append(SubSeq(stack, 1, Len(stack) - 1),
                           [stack[Len(stack)] EXCEPT !.count = @ + 1])
    <3>2. Accounts(u, owned + 1) /\ u # <<>>
      BY <2>2, TopFrame
    <3>3. stack' = u
      BY <2>4 DEF Top, Below
    <3> HIDE DEF u
    <3>1. Accounts(stack', owned + 1) /\ stack' # <<>>
      BY <3>2, <3>3
    <3> QED BY <1>1, <2>4, <3>1 DEF FreeInv, Working
  <2>5. CASE pc' = "unwind" /\ owned' = owned /\ stack' = stack
    BY <1>3, <2>1, <2>5 DEF Working
  <2> QED BY <2>3, <2>4, <2>5
<1>12. CASE Unclosed
  BY <1>3, <1>12 DEF Unclosed, Fail, Working
<1>13. CASE ParseName
  BY <1>3, <1>13 DEF ParseName, Fail, Working
<1>14. CASE ParseColon
  BY <1>3, <1>14 DEF ParseColon, Fail, Working
<1>15. CASE ScanString
  BY <1>3, <1>15 DEF ScanString, Fail, Working
<1>16. CASE AllocateOutput
  <2>1. pc = "scan" /\ stack' = stack
    BY <1>16 DEF AllocateOutput
  <2>2. \/ pc' = "unwind" /\ owned' = owned
        \/ pc' = "copy" /\ owned' = owned + 1
    BY <1>16 DEF AllocateOutput, Fail
  <2>3. CASE pc' = "unwind" /\ owned' = owned
    BY <1>3, <2>1, <2>3 DEF Working
  <2>4. CASE pc' = "copy" /\ owned' = owned + 1
    <3>1. Accounts(stack, owned) /\ stack # <<>> /\ owned' - 1 = owned
      BY <1>1, <2>1, <2>4 DEF Working
    <3>2. Accounts(stack', owned' - 1)
      BY <2>1, <3>1, Zenon
    <3> QED BY <1>1, <2>1, <2>4, <3>1, <3>2 DEF FreeInv, Working
  <2> QED BY <2>2, <2>3, <2>4
<1>17. CASE CopyPlain \/ CopyEscape
  <2>1. UNCHANGED <<pc, stack, owned>> /\ pc = "copy"
    BY <1>17 DEF CopyPlain, CopyEscape
  <2> QED BY <1>1, <2>1 DEF FreeInv, Working
<1>18. CASE CopyFails
  <2>1. pc = "copy" /\ pc' = "unwind" /\ stack' = stack /\ owned' = owned - 1
    BY <1>18 DEF CopyFails, Fail
  <2>2. Accounts(stack', owned')
    BY <1>1, <2>1
  <2> QED BY <1>1, <2>1, <2>2 DEF FreeInv, Working
<1>19. CASE CopyEnds
  <2>1. pc = "copy" /\ owned' = owned
    BY <1>19 DEF CopyEnds
  <2>2. Accounts(stack, owned - 1) /\ stack # <<>> /\ owned' = (owned - 1) + 1
    BY <1>1, <2>1 DEF Working
  <2>3. CASE str.role = "text"
    <3>1. Parsed(stack, <<"string", CString(str.out)>>, str.end + 1, 1)
      BY <1>19, <2>3 DEF CopyEnds
    <3> HIDE DEF Owed
    <3> QED BY <1>1, <1>4, <2>1, <2>2, <3>1
  <2>4. CASE str.role # "text"
    <3>1. /\ stack' = Append(Below, [Top EXCEPT !.name = CString(str.out), !.count = @ + 1])
          /\ pc' = "colon"
      BY <1>19, <2>4 DEF CopyEnds
    <3> DEFINE name == CString(str.out)
    <3> HIDE DEF name
    <3> DEFINE u == Append(SubSeq(stack, 1, Len(stack) - 1),
                           [stack[Len(stack)] EXCEPT !.name = name, !.count = @ + 1])
    <3>2. Accounts(u, (owned - 1) + 1) /\ u # <<>>
      BY <2>2, TopFrame
    <3>4. stack' = u
      BY <3>1 DEF name, Top, Below
    <3> HIDE DEF u
    <3>3. Accounts(stack', (owned - 1) + 1) /\ stack' # <<>>
      BY <3>2, <3>4
    <3> QED BY <1>1, <2>1, <2>2, <3>1, <3>3 DEF FreeInv, Working
  <2> QED BY <2>3, <2>4
<1>20. CASE Finish
  BY <1>3, <1>20 DEF Finish, Fail, Working
<1>21. CASE Unwind
  <2>1. pc = "unwind" /\ Accounts(stack, owned)
    BY <1>1, <1>21 DEF Unwind
  <2>2. CASE stack = <<>>
    <3>1. pc' = "failed" /\ stack' = stack /\ owned' = owned
      BY <1>21, <2>2 DEF Unwind
    <3> QED BY <1>1, <2>1, <2>2, <3>1 DEF FreeInv, Working
  <2>3. CASE stack # <<>>
    <3>1. pc' = "unwind" /\ stack' = Below /\ owned' = owned - Top.count
      BY <1>21, <2>1, <2>3 DEF Unwind
    <3>2. FrameRecord(Top) /\ Accounts(Below, owned - Top.count)
      BY <2>1, <2>3, PopAccounts DEF Top, Below
    <3>3. Top.count \in Int
      BY <3>2 DEF FrameRecord
    <3> QED BY <1>1, <3>1, <3>2, <3>3 DEF FreeInv, Working
  <2> QED BY <2>2, <2>3
<1> QED
  BY <1>5, <1>6, <1>7, <1>8, <1>9, <1>10, <1>11, <1>12, <1>13, <1>14, <1>15, <1>16, <1>17,
     <1>18, <1>19, <1>20, <1>21 DEF Step

LEMMA FreeNext ==
  ASSUME FreeInv,
         [Step \/ \E text \in Seq(1 .. 255), terminated \in BOOLEAN :
                    cJSON_ParseWithOpts(text, terminated)]_vars
  PROVE  FreeInv'
<1>1. CASE Step
  BY <1>1, FreeStep
<1>2. ASSUME NEW text, NEW terminated, cJSON_ParseWithOpts(text, terminated)
      PROVE  FreeInv'
  <2>1. \/ pc' = "value" /\ owned' = 1 /\ stack' = <<Frame("root", 1)>>
        \/ pc' = "failed" /\ owned' = 0 /\ stack' = <<>>
    BY <1>2 DEF cJSON_ParseWithOpts
  <2>2. CASE pc' = "value" /\ owned' = 1 /\ stack' = <<Frame("root", 1)>>
    <3> DEFINE x == Frame("root", 1)
    <3>1. FrameRecord(x) /\ x.kind = "root" /\ x.count = 1
      BY DEF Frame, FrameRecord
    <3>2. <<x>> = Append(<<>>, x)
      OBVIOUS
    <3> HIDE DEF x
    <3>3. Accounts(Append(<<>>, x), 0 + x.count) /\ Append(<<>>, x) # <<>>
      BY <3>1, NoFrames, PushAccounts
    <3>4. 0 + x.count = owned'
      BY <2>2, <3>1
    <3>5. stack' = Append(<<>>, x)
      BY <2>2, <3>2 DEF x
    <3>6. Accounts(stack', owned') /\ stack' # <<>>
      BY <3>3, <3>4, <3>5
    <3> QED BY <2>2, <3>6 DEF FreeInv, Working
  <2>3. CASE pc' = "failed" /\ owned' = 0 /\ stack' = <<>>
    <3>1. Accounts(stack', owned')
      BY <2>3, NoFrames
    <3> QED BY <2>3, <3>1 DEF FreeInv, Working
  <2> QED BY <2>1, <2>2, <2>3
<1>3. CASE UNCHANGED vars
  BY <1>3 DEF FreeInv, Working, vars
<1> QED BY <1>1, <1>2, <1>3

(* cJSON.c:693-810, 1000-1077, 1341-1433, 1497-1603: whatever goes wrong   *)
(* at whichever place, what the parser allocated until then is freed,      *)
(* once, and when nothing does, it is what cJSON_Delete of the root item   *)
(* frees.                                                                  *)
THEOREM ParsingFrees == ParseSpec => []ParserFrees
<1>1. Idle => FreeInv
  BY NoFrames DEF Idle, FreeInv, Working
<1>2. FreeInv => ParserFrees
  <2> SUFFICES ASSUME FreeInv PROVE ParserFrees
    OBVIOUS
  <2>1. CASE pc = "done"
    <3>1. Accounts(stack, owned) /\ Len(stack) = 1
      BY <2>1 DEF FreeInv
    <3>2. stack # <<>>
      <4>1. Len(stack) # Len(<<>>)
        BY <3>1
      <4> QED BY <4>1, Zenon
    <3>3. Top.count = owned
      BY <3>1, <3>2, PopAccounts DEF Top
    <3> QED BY <2>1, <3>1, <3>3 DEF ParserFrees
  <2>2. CASE pc = "failed"
    <3>1. Accounts(stack, owned) /\ stack = <<>>
      BY <2>2 DEF FreeInv
    <3>2. owned = 0
      <4>1. PICK f \in [0 .. Len(stack) -> Int] : f[0] = 0 /\ f[Len(stack)] = owned
        BY <3>1 DEF Accounts
      <4>2. Len(stack) = 0
        BY <3>1
      <4> QED BY <4>1, <4>2
    <3> QED BY <2>2, <3>2 DEF ParserFrees
  <2> QED BY <2>1, <2>2 DEF ParserFrees
<1> QED BY <1>1, <1>2, FreeNext, PTL DEF ParseSpec

-----------------------------------------------------------------------------
(* What the printer has to do, and what it knows of each task: how much it *)
(* changes the depth, and whether a zero byte lies ahead once it is done.  *)

Writes ==
  {w \in [op : {"write"}, reserve : Nat, bytes : Text, advance : Nat, deeper : {-1, 0, 1}] :
     Len(w.bytes) <= w.reserve + 1 /\ w.advance <= Len(w.bytes)}

Tasks ==
  Writes \cup {Update} \cup [op : {"value"}, v : Values]
  \cup [op : {"elements"}, rest : Seq(Values)] \cup [op : {"members"}, rest : Seq(Text \X Values)]

Net(t) ==
  IF t.op = "write" THEN t.deeper ELSE IF t.op \in {"elements", "members"} THEN -1 ELSE 0

Ends(t) ==
  \/ t.op \in {"value", "elements", "members"}
  \/ t.op = "write" /\ t.advance < Len(t.bytes) /\ t.bytes[Len(t.bytes)] = Nul

(* From depth d to depth e, never below 0; only behind what ends with a    *)
(* zero byte does the printer look for one.                                *)
Passage(ts, d, e) ==
  /\ ts \in Seq(Tasks)
  /\ \E h \in [0 .. Len(ts) -> Nat] :
       h[0] = d /\ h[Len(ts)] = e /\ \A i \in 1 .. Len(ts) : h[i] = h[i - 1] + Net(ts[i])
  /\ \A i \in 2 .. Len(ts) : ts[i].op = "update" => Ends(ts[i - 1])

EndAhead == \E i \in (p.offset + 1) .. Len(mem) : mem[i] = Nul

(* Inductive *)
PrintInv ==
  /\ ppc \in {"idle", "print", "printed", "refused"}
  /\ p \in [length : Nat, offset : Nat, depth : Nat, alive : BOOLEAN]
  /\ mem \in Text /\ p.offset <= Len(mem)
  /\ p.alive => Len(mem) <= p.length
  /\ ppc = "print" =>
       /\ p.alive
       /\ Passage(todo, p.depth, 0)
       /\ todo # <<>> => Ends(todo[Len(todo)])
       /\ todo = <<>> \/ Now.op = "update" => EndAhead

-----------------------------------------------------------------------------
(* Passages *)

LEMMA NetIs ==
  ASSUME NEW t \in Tasks
  PROVE  /\ Net(t) \in {-1, 0, 1} /\ (t.op = "update" <=> t = Update)
         /\ t.op \in {"write", "update", "value", "elements", "members"}
         /\ t.op = "write" => t \in Writes
         /\ t.op = "value" => t.v \in Values
         /\ t.op = "elements" => t.rest \in Seq(Values)
         /\ t.op = "members" => t.rest \in Seq(Text \X Values)
  BY DEF Tasks, Writes, Net, Update

LEMMA OnePassage ==
  ASSUME NEW t \in Tasks, NEW d \in Nat, d + Net(t) \in Nat
  PROVE  Passage(<<t>>, d, d + Net(t))
<1> DEFINE h == [i \in 0 .. 1 |-> IF i = 0 THEN d ELSE d + Net(t)]
           ts == <<t>>
<1>1. ts \in Seq(Tasks) /\ Len(ts) = 1 /\ ts[1] = t
  OBVIOUS
<1>2. h \in [0 .. 1 -> Nat] /\ h[0] = d /\ h[1] = d + Net(t)
  OBVIOUS
<1> HIDE DEF h, ts
<1>3. \A i \in 1 .. Len(ts) : h[i] = h[i - 1] + Net(ts[i])
  <2> SUFFICES ASSUME NEW i \in 1 .. Len(ts) PROVE h[i] = h[i - 1] + Net(ts[i])
    OBVIOUS
  <2>1. i = 1 /\ i - 1 = 0
    BY <1>1
  <2> QED BY <1>1, <1>2, <2>1
<1>4. Passage(ts, d, d + Net(t))
  BY <1>1, <1>2, <1>3 DEF Passage
<1> QED BY <1>4 DEF ts

LEMMA TwoPassage ==
  ASSUME NEW s \in Tasks, NEW t \in Tasks, NEW d \in Nat,
         d + Net(s) \in Nat, (d + Net(s)) + Net(t) \in Nat, t.op = "update" => Ends(s)
  PROVE  Passage(<<s, t>>, d, (d + Net(s)) + Net(t))
<1> DEFINE h == [i \in 0 .. 2 |-> IF i = 0 THEN d ELSE IF i = 1 THEN d + Net(s)
                                  ELSE (d + Net(s)) + Net(t)]
           ts == <<s, t>>
<1>1. ts \in Seq(Tasks) /\ Len(ts) = 2 /\ ts[1] = s /\ ts[2] = t
  OBVIOUS
<1>2. h \in [0 .. 2 -> Nat] /\ h[0] = d /\ h[1] = d + Net(s) /\ h[2] = (d + Net(s)) + Net(t)
  OBVIOUS
<1> HIDE DEF h, ts
<1>3. \A i \in 1 .. Len(ts) : h[i] = h[i - 1] + Net(ts[i])
  <2> SUFFICES ASSUME NEW i \in 1 .. Len(ts) PROVE h[i] = h[i - 1] + Net(ts[i])
    OBVIOUS
  <2>1. (i = 1 /\ i - 1 = 0) \/ (i = 2 /\ i - 1 = 1)
    BY <1>1
  <2> QED BY <1>1, <1>2, <2>1
<1>4. \A i \in 2 .. Len(ts) : ts[i].op = "update" => Ends(ts[i - 1])
  <2> SUFFICES ASSUME NEW i \in 2 .. Len(ts), ts[i].op = "update" PROVE Ends(ts[i - 1])
    OBVIOUS
  <2>1. i = 2 /\ i - 1 = 1
    BY <1>1
  <2> QED BY <1>1, <2>1
<1>5. Passage(ts, d, (d + Net(s)) + Net(t))
  BY <1>1, <1>2, <1>3, <1>4 DEF Passage
<1> QED BY <1>5 DEF ts

LEMMA EmptyPassage ==
  ASSUME NEW d \in Nat
  PROVE  Passage(<<>>, d, d)
<1> DEFINE h == [i \in 0 .. 0 |-> d]
           ts == <<>>
<1>1. ts \in Seq(Tasks) /\ Len(ts) = 0
  OBVIOUS
<1>2. h \in [0 .. 0 -> Nat] /\ h[0] = d
  OBVIOUS
<1> HIDE DEF h, ts
<1>3. Passage(ts, d, d)
  BY <1>1, <1>2 DEF Passage
<1> QED BY <1>3 DEF ts

LEMMA JoinPassage ==
  ASSUME NEW s, NEW t, NEW d, NEW e, NEW f, Passage(s, d, e), Passage(t, e, f),
         s # <<>> /\ t # <<>> /\ t[1].op = "update" => Ends(s[Len(s)])
  PROVE  Passage(s \o t, d, f)
<1>1. PICK g \in [0 .. Len(s) -> Nat] :
        g[0] = d /\ g[Len(s)] = e /\ \A i \in 1 .. Len(s) : g[i] = g[i - 1] + Net(s[i])
  BY DEF Passage
<1>2. PICK h \in [0 .. Len(t) -> Nat] :
        h[0] = e /\ h[Len(t)] = f /\ \A i \in 1 .. Len(t) : h[i] = h[i - 1] + Net(t[i])
  BY DEF Passage
<1> DEFINE m == Len(s)
           n == Len(t)
           u == s \o t
           k == [i \in 0 .. (m + n) |-> IF i <= m THEN g[i] ELSE h[i - m]]
<1>3. s \in Seq(Tasks) /\ t \in Seq(Tasks) /\ m \in Nat /\ n \in Nat
  BY DEF Passage
<1>4. u \in Seq(Tasks) /\ Len(u) = m + n
  BY <1>3, ConcatAt
<1>5. \A i \in 1 .. m : u[i] = s[i]
  BY <1>3, ConcatAt
<1>6. \A i \in 1 .. n : u[m + i] = t[i]
  BY <1>3, ConcatAt
<1>7. /\ \A i \in 2 .. m : s[i].op = "update" => Ends(s[i - 1])
      /\ \A i \in 2 .. n : t[i].op = "update" => Ends(t[i - 1])
  BY DEF Passage
<1>8. m = 0 \/ n = 0 \/ (t[1].op = "update" => Ends(s[m]))
  <2>1. m > 0 /\ n > 0 => s # <<>> /\ t # <<>>
    BY <1>3
  <2> QED BY <1>3, <2>1
<1>9. \A i \in 0 .. n : h[i] \in Nat
  OBVIOUS
<1>a. \A i \in 0 .. m : g[i] \in Nat
  OBVIOUS
<1>b. g[0] = d /\ g[m] = e /\ h[0] = e /\ h[n] = f
  BY <1>1, <1>2
<1>c. /\ \A i \in 1 .. m : g[i] = g[i - 1] + Net(s[i])
      /\ \A i \in 1 .. n : h[i] = h[i - 1] + Net(t[i])
  BY <1>1, <1>2
<1> HIDE DEF m, n, u
<1>d. k \in [0 .. (m + n) -> Nat]
  <2>1. ASSUME NEW i \in 0 .. (m + n) PROVE (IF i <= m THEN g[i] ELSE h[i - m]) \in Nat
    <3>1. i <= m => i \in 0 .. m
      BY <1>3
    <3>2. ~(i <= m) => i - m \in 0 .. n
      BY <1>3
    <3> QED BY <1>9, <1>a, <3>1, <3>2
  <2> QED BY <2>1
<1>e. k[0] = d /\ k[m + n] = f
  <2>1. 0 \in 0 .. (m + n) /\ m + n \in 0 .. (m + n) /\ 0 <= m
    BY <1>3
  <2>2. m + n <= m => n = 0 /\ m + n = m
    BY <1>3
  <2>3. (m + n) - m = n
    BY <1>3
  <2> QED BY <1>b, <2>1, <2>2, <2>3
<1>f. ASSUME NEW i \in 1 .. (m + n) PROVE k[i] = k[i - 1] + Net(u[i])
  <2>1. i \in 0 .. (m + n) /\ i - 1 \in 0 .. (m + n)
    BY <1>3
  <2>2. CASE i <= m
    <3>1. i \in 1 .. m /\ i - 1 <= m
      BY <1>3, <2>2
    <3>2. k[i] = g[i] /\ k[i - 1] = g[i - 1]
      BY <2>1, <2>2, <3>1
    <3> QED BY <1>5, <1>c, <3>1, <3>2
  <2>3. CASE i > m
    <3>1. i - m \in 1 .. n /\ m + (i - m) = i /\ ~(i <= m) /\ (i - 1) - m = (i - m) - 1
      BY <1>3, <2>3
    <3>2. k[i] = h[i - m]
      BY <2>1, <3>1
    <3>3. k[i - 1] = h[(i - m) - 1]
      <4>1. CASE i = m + 1
        <5>1. i - 1 = m /\ i - 1 <= m /\ (i - m) - 1 = 0
          BY <1>3, <4>1
        <5> QED BY <1>b, <2>1, <5>1
      <4>2. CASE i # m + 1
        <5>1. ~(i - 1 <= m)
          BY <1>3, <2>3, <4>2
        <5> QED BY <2>1, <3>1, <5>1
      <4> QED BY <4>1, <4>2
    <3>4. u[i] = t[i - m]
      <4>1. u[m + (i - m)] = t[i - m]
        BY <1>6, <3>1
      <4> QED BY <3>1, <4>1
    <3> QED BY <1>c, <3>1, <3>2, <3>3, <3>4
  <2> QED BY <1>3, <2>2, <2>3
<1>g. ASSUME NEW i \in 2 .. (m + n), u[i].op = "update" PROVE Ends(u[i - 1])
  <2>1. CASE i <= m
    <3>1. i \in 2 .. m /\ i \in 1 .. m /\ i - 1 \in 1 .. m
      BY <1>3, <2>1
    <3> QED BY <1>5, <1>7, <1>g, <3>1
  <2>2. CASE i = m + 1
    <3>1. i - 1 = m /\ m \in 1 .. m /\ 1 \in 1 .. n /\ m # 0 /\ n # 0
      BY <1>3, <2>2
    <3>2. u[i] = t[1] /\ u[i - 1] = s[m]
      BY <1>5, <1>6, <2>2, <3>1
    <3> QED BY <1>8, <1>g, <3>1, <3>2
  <2>3. CASE i > m + 1
    <3>1. i - m \in 2 .. n /\ i - m \in 1 .. n /\ (i - m) - 1 \in 1 .. n
      BY <1>3, <2>3
    <3>2. m + (i - m) = i /\ m + ((i - m) - 1) = i - 1
      BY <1>3, <2>3
    <3>3. u[m + (i - m)] = t[i - m] /\ u[m + ((i - m) - 1)] = t[(i - m) - 1]
      BY <1>6, <3>1
    <3> QED BY <1>7, <1>g, <3>1, <3>2, <3>3
  <2> QED BY <1>3, <2>1, <2>2, <2>3
<1> HIDE DEF k
<1>h. Passage(u, d, f)
  BY <1>4, <1>d, <1>e, <1>f, <1>g DEF Passage
<1> QED BY <1>h DEF u

LEMMA EndsOfConcat ==
  ASSUME NEW A, NEW s \in Seq(A), NEW t \in Seq(A), t # <<>>
  PROVE  /\ s \o t # <<>> /\ (s \o t)[Len(s \o t)] = t[Len(t)]
         /\ (s \o t)[1] = IF s = <<>> THEN t[1] ELSE s[1]
<1> DEFINE m == Len(s)
           n == Len(t)
           u == s \o t
<1>1. m \in Nat /\ n \in Nat /\ n # 0 /\ (s = <<>> <=> m = 0)
  BY EmptySeq
<1>2. /\ u \in Seq(A) /\ Len(u) = m + n /\ (u = <<>> <=> Len(u) = 0)
      /\ \A i \in 1 .. m : u[i] = s[i]
      /\ \A i \in 1 .. n : u[m + i] = t[i]
  BY ConcatAt, EmptySeq
<1> HIDE DEF m, n, u
<1>3. u # <<>> /\ u[m + n] = t[n]
  <2>1. n \in 1 .. n /\ m + n # 0
    BY <1>1
  <2> QED BY <1>2, <2>1
<1>4. u[1] = IF s = <<>> THEN t[1] ELSE s[1]
  <2>1. 1 \in 1 .. n /\ (m = 0 => m + 1 = 1) /\ (m # 0 => 1 \in 1 .. m)
    BY <1>1
  <2> QED BY <1>1, <1>2, <2>1
<1> QED BY <1>2, <1>3, <1>4 DEF m, n, u

(* What is left behind the first task. *)
LEMMA RestPassage ==
  ASSUME NEW ts, NEW d, NEW f, Passage(ts, d, f), ts # <<>>
  PROVE  /\ ts[1] \in Tasks /\ d \in Nat /\ d + Net(ts[1]) \in Nat
         /\ Passage(Tail(ts), d + Net(ts[1]), f)
         /\ Tail(ts) # <<>> => /\ Tail(ts)[Len(Tail(ts))] = ts[Len(ts)]
                               /\ Tail(ts)[1].op = "update" => Ends(ts[1])
         /\ Tail(ts) = <<>> => ts[Len(ts)] = ts[1]
<1>1. PICK h \in [0 .. Len(ts) -> Nat] :
        h[0] = d /\ h[Len(ts)] = f /\ \A i \in 1 .. Len(ts) : h[i] = h[i - 1] + Net(ts[i])
  BY DEF Passage
<1> DEFINE n == Len(ts)
           u == Tail(ts)
           k == [i \in 0 .. (n - 1) |-> h[i + 1]]
<1>2. ts \in Seq(Tasks) /\ n \in Nat /\ n >= 1
  BY DEF Passage
<1>3. u \in Seq(Tasks) /\ Len(u) = n - 1 /\ \A i \in 1 .. (n - 1) : u[i] = ts[i + 1]
  BY <1>2
<1>5. \A i \in 2 .. n : ts[i].op = "update" => Ends(ts[i - 1])
  BY DEF Passage
<1>6. \A i \in 0 .. n : h[i] \in Nat
  OBVIOUS
<1>7. h[0] = d /\ h[n] = f /\ \A i \in 1 .. n : h[i] = h[i - 1] + Net(ts[i])
  BY <1>1
<1>8. ts[1] \in Tasks
  BY <1>2
<1> HIDE DEF n, u
<1>4. u = <<>> <=> n = 1
  <2>1. u = <<>> <=> Len(u) = 0
    BY <1>3, EmptySeq
  <2> QED BY <1>2, <1>3, <2>1
<1>9. h[1] = d + Net(ts[1]) /\ h[1] \in Nat /\ d \in Nat
  BY <1>2, <1>6, <1>7
<1>a. k \in [0 .. (n - 1) -> Nat]
  <2>1. \A i \in 0 .. (n - 1) : i + 1 \in 0 .. n
    BY <1>2
  <2> QED BY <1>6, <2>1
<1>b. k[0] = h[1] /\ k[n - 1] = f
  <2>1. 0 \in 0 .. (n - 1) /\ n - 1 \in 0 .. (n - 1) /\ (n - 1) + 1 = n /\ 0 + 1 = 1
    BY <1>2
  <2> QED BY <1>7, <2>1
<1>c. ASSUME NEW i \in 1 .. (n - 1) PROVE k[i] = k[i - 1] + Net(u[i])
  <2>1. i \in 0 .. (n - 1) /\ i - 1 \in 0 .. (n - 1) /\ (i - 1) + 1 = i
        /\ i + 1 \in 1 .. n /\ (i + 1) - 1 = i
    BY <1>2
  <2>2. k[i] = h[i + 1] /\ k[i - 1] = h[i]
    BY <2>1
  <2>3. h[i + 1] = h[i] + Net(ts[i + 1])
    BY <1>7, <2>1
  <2> QED BY <1>3, <2>2, <2>3
<1>d. ASSUME NEW i \in 2 .. (n - 1), u[i].op = "update" PROVE Ends(u[i - 1])
  <2>1. i \in 1 .. (n - 1) /\ i - 1 \in 1 .. (n - 1) /\ (i - 1) + 1 = i
        /\ i + 1 \in 2 .. n /\ (i + 1) - 1 = i
    BY <1>2
  <2>2. u[i] = ts[i + 1] /\ u[i - 1] = ts[i]
    BY <1>3, <2>1
  <2> QED BY <1>5, <1>d, <2>1, <2>2
<1> HIDE DEF k
<1>e. Passage(u, d + Net(ts[1]), f)
  BY <1>3, <1>9, <1>a, <1>b, <1>c, <1>d DEF Passage
<1>f. ASSUME n # 1
      PROVE  u[Len(u)] = ts[n] /\ (u[1].op = "update" => Ends(ts[1]))
  <2>1. n - 1 \in 1 .. (n - 1) /\ 1 \in 1 .. (n - 1) /\ (n - 1) + 1 = n /\ 2 \in 2 .. n
        /\ 1 + 1 = 2 /\ 2 - 1 = 1
    BY <1>2, <1>f
  <2>2. u[Len(u)] = ts[n]
    BY <1>3, <2>1
  <2>3. u[1] = ts[2]
    BY <1>3, <2>1
  <2> QED BY <1>5, <2>1, <2>2, <2>3
<1>g. n = 1 => ts[n] = ts[1]
  OBVIOUS
<1> QED BY <1>4, <1>8, <1>9, <1>e, <1>f, <1>g DEF n, u
-----------------------------------------------------------------------------
(* Strings *)

LEMMA EscapedIs ==
  ASSUME NEW b \in Bytes
  PROVE  /\ Escaped(b) \in Text /\ EscapeCharacters(b) \in Nat
         /\ Len(Escaped(b)) = 1 + EscapeCharacters(b)
<1>1. b \in Nat /\ b <= 255
  BY DEF Bytes
<1> DEFINE E == {<<98, 8>>, <<102, 12>>, <<110, 10>>, <<114, 13>>, <<116, 9>>}
<1>2. Escapes = E /\ \A e \in E : e[1] \in Nat /\ e[1] <= 255
  BY DEF Escapes
<1>3. CASE b \in {Quote, Backslash}
  <2>1. <<Backslash, b>> \in Seq(Bytes) /\ Len(<<Backslash, b>>) = 2
    BY <1>1 DEF Backslash, Bytes
  <2> QED BY <1>3, <2>1 DEF Escaped, EscapeCharacters, Text
<1>4. CASE b \notin {Quote, Backslash} /\ \E e \in Escapes : e[2] = b
  <2> DEFINE c == (CHOOSE e \in Escapes : e[2] = b)[1]
  <2>1. c \in Nat /\ c <= 255
    BY <1>2, <1>4
  <2> HIDE DEF c
  <2>2. <<Backslash, c>> \in Seq(Bytes) /\ Len(<<Backslash, c>>) = 2
    BY <2>1 DEF Backslash, Bytes
  <2>3. Escaped(b) = <<Backslash, c>> /\ EscapeCharacters(b) = 1
    BY <1>4 DEF Escaped, EscapeCharacters, c
  <2> QED BY <2>2, <2>3 DEF Text
<1>5. CASE b \notin {Quote, Backslash} /\ ~(\E e \in Escapes : e[2] = b) /\ b < 32
  <2> DEFINE h == Hex(b \div 16)
             l == Hex(b % 16)
  <2>1. h \in Bytes /\ l \in Bytes
    BY <1>1, <1>5 DEF Hex, Bytes, Zero
  <2> HIDE DEF h, l
  <2>2. /\ <<Backslash, 117, Zero, Zero, h, l>> \in Seq(Bytes)
        /\ Len(<<Backslash, 117, Zero, Zero, h, l>>) = 6
    BY <2>1 DEF Backslash, Zero, Bytes
  <2>3. Escaped(b) = <<Backslash, 117, Zero, Zero, h, l>> /\ EscapeCharacters(b) = 5
    BY <1>5 DEF Escaped, EscapeCharacters, h, l
  <2> QED BY <2>2, <2>3 DEF Text
<1>6. CASE b \notin {Quote, Backslash} /\ ~(\E e \in Escapes : e[2] = b) /\ ~(b < 32)
  <2>1. Escaped(b) = <<b>> /\ EscapeCharacters(b) = 0
    BY <1>6 DEF Escaped, EscapeCharacters
  <2>2. <<b>> \in Seq(Bytes) /\ Len(<<b>>) = 1
    OBVIOUS
  <2> QED BY <2>1, <2>2 DEF Text
<1> QED BY <1>3, <1>4, <1>5, <1>6

(* What the first loop of print_string_ptr counts, byte by byte. *)
LEMMA TotalIs ==
  ASSUME NEW counts \in Seq(Nat)
  PROVE  \E n \in [0 .. Len(counts) -> Nat] :
           /\ Total(counts) = n[Len(counts)] /\ n[0] = 0
           /\ \A k \in 1 .. Len(counts) : n[k] = n[k - 1] + counts[k]
<1> DEFINE N == Len(counts)
           e(v, i) == v + counts[i]
           step == [x \in Nat \X (1 .. N) |-> e(x[1], x[2])]
           Solves(n) == n = [k \in 0 .. N |-> IF k = 0 THEN 0 ELSE n[k - 1] + counts[k]]
<1>1. N \in Nat /\ \A k \in 1 .. N : counts[k] \in Nat
  OBVIOUS
<1>2. ASSUME NEW v \in Nat, NEW i \in (0 + 1) .. N
      PROVE  step[<<v, i>>] = v + counts[i] /\ v + counts[i] \in Nat
  <2>1. i \in 1 .. N /\ <<v, i>> \in Nat \X (1 .. N)
    OBVIOUS
  <2>2. counts[i] \in Nat
    BY <1>1, <2>1
  <2>3. e(v, i) = v + counts[i]
    BY Zenon
  <2>4. e(v, i) \in Nat
    BY <2>2, SMT
  <2> HIDE DEF e, N
  <2>5. step[<<v, i>>] = e(v, i)
    BY <2>1
  <2> QED BY <2>3, <2>4, <2>5
<1> HIDE DEF N
<1>3. PICK f \in [0 .. N -> Nat] : Iterates(f, 0, N, 0, step)
  <2> HIDE DEF step
  <2>1. Steps(Nat, 0, N, step)
    BY <1>2 DEF Steps
  <2>2. 0 \in Int /\ N \in Int /\ 0 \in Nat
    BY <1>1
  <2> QED BY <2>1, <2>2, Iteration
<1>4. ASSUME NEW k \in 0 .. N PROVE f[k] = IF k = 0 THEN 0 ELSE f[k - 1] + counts[k]
  <2>1. f[k] = IF k = 0 THEN 0 ELSE step[<<f[k - 1], k>>]
    BY <1>3 DEF Iterates
  <2>2. k # 0 => k - 1 \in 0 .. N /\ k \in (0 + 1) .. N
    BY <1>1
  <2>3. k # 0 => f[k - 1] \in Nat
    BY <2>2
  <2> HIDE DEF step
  <2> QED BY <1>2, <2>1, <2>2, <2>3
<1>5. Solves(f)
  BY <1>4
<1> DEFINE G == CHOOSE n : Solves(n)
<1>6. Solves(G)
  <2> HIDE DEF Solves
  <2> QED BY <1>5
<1>7. Total(counts) = G[N]
  BY Zenon DEF Total, N
<1> HIDE DEF G
<1>8. G \in [0 .. N -> Nat]
  <2> DEFINE T == {k \in 0 .. N : G[k] = f[k]}
  <2>1. \A k \in 0 .. N : G[k] = IF k = 0 THEN 0 ELSE G[k - 1] + counts[k]
    BY <1>6
  <2>2. 0 \in T
    BY <1>1, <1>4, <2>1
  <2>3. ASSUME NEW k \in 0 .. (N - 1), k \in T PROVE k + 1 \in T
    <3>1. k + 1 \in 0 .. N /\ k + 1 # 0 /\ (k + 1) - 1 = k /\ G[k] = f[k]
      BY <1>1, <2>3
    <3>2. G[k + 1] = G[k] + counts[k + 1] /\ f[k + 1] = f[k] + counts[k + 1]
      BY <1>4, <2>1, <3>1
    <3> QED BY <3>1, <3>2
  <2>4. 0 .. N \subseteq T
    <3>1. 0 \in Int /\ N \in Int
      BY <1>1
    <3> HIDE DEF T
    <3> QED BY <2>2, <2>3, <3>1, IntervalSet
  <2>5. \A k \in 0 .. N : G[k] \in Nat
    BY <2>4
  <2>6. G = [k \in 0 .. N |-> IF k = 0 THEN 0 ELSE G[k - 1] + counts[k]]
    BY <1>6
  <2> DEFINE c(k) == IF k = 0 THEN 0 ELSE G[k - 1] + counts[k]
  <2>7. G = [k \in 0 .. N |-> c(k)]
    BY <2>6
  <2> HIDE DEF c
  <2> QED BY <2>5, <2>7
<1>9. \A k \in 0 .. N : G[k] = IF k = 0 THEN 0 ELSE G[k - 1] + counts[k]
  BY <1>6
<1>10. G[0] = 0 /\ \A k \in 1 .. N : G[k] = G[k - 1] + counts[k]
  BY <1>1, <1>9
<1> QED BY <1>7, <1>8, <1>10 DEF N

(* What the second one writes is as long as the first one has counted. *)
LEMMA EscapedTextIs ==
  ASSUME NEW s \in Text
  PROVE  /\ EscapedText(s) \in Text
         /\ Total([i \in DOMAIN s |-> EscapeCharacters(s[i])]) \in Nat
         /\ Len(EscapedText(s)) = Len(s) + Total([i \in DOMAIN s |-> EscapeCharacters(s[i])])
<1> DEFINE N == Len(s)
           counts == [i \in 1 .. N |-> EscapeCharacters(s[i])]
           es == [i \in 1 .. N |-> Escaped(s[i])]
<1>1. N \in Nat /\ DOMAIN s = 1 .. N /\ \A i \in 1 .. N : s[i] \in Bytes
  BY DEF Text
<1>2. \A i \in 1 .. N : /\ Escaped(s[i]) \in Text /\ EscapeCharacters(s[i]) \in Nat
                        /\ Len(Escaped(s[i])) = 1 + EscapeCharacters(s[i])
  BY <1>1, EscapedIs
<1> HIDE DEF N
<1>3. counts \in [1 .. N -> Nat] /\ es \in [1 .. N -> Text]
  BY <1>2
<1>4. /\ counts \in Seq(Nat) /\ Len(counts) = N /\ es \in Seq(Seq(Bytes)) /\ Len(es) = N
  <2>1. \A S, f : f \in [1 .. N -> S] => f \in Seq(S) /\ Len(f) = N
    BY <1>1
  <2> HIDE DEF counts, es
  <2> QED BY <1>3, <2>1 DEF Text
<1>5. \A i \in 1 .. N : Len(es[i]) = 1 + counts[i] /\ counts[i] \in Nat
  BY <1>2
<1>6. EscapedText(s) = FlattenSeq(es) /\ Total([i \in DOMAIN s |-> EscapeCharacters(s[i])]) = Total(counts)
  BY <1>1 DEF EscapedText
<1> HIDE DEF counts, es
<1>7. PICK n \in [0 .. N -> Nat] :
        /\ Total(counts) = n[N] /\ n[0] = 0
        /\ \A k \in 1 .. N : n[k] = n[k - 1] + counts[k]
  BY <1>4, TotalIs
<1> DEFINE T == {k \in 0 .. N : Len(FirstOf(es, k)) = k + n[k]}
<1>8. 0 \in T
  <2>1. FirstOf(es, 0) = <<>> /\ Len(<<>>) = 0
    BY <1>4, FirstOfIs
  <2> QED BY <1>1, <1>7, <2>1
<1>9. ASSUME NEW k \in 0 .. (N - 1), k \in T PROVE k + 1 \in T
  <2>1. k + 1 \in 1 .. N /\ (k + 1) - 1 = k /\ k + 1 \in 0 .. N /\ k \in 0 .. N
    BY <1>1
  <2>2. Len(FirstOf(es, k + 1)) = Len(FirstOf(es, k)) + Len(es[k + 1])
    BY <1>4, FlattenAt
  <2>3. n[k + 1] = n[k] + counts[k + 1] /\ n[k] \in Nat
    BY <1>7, <2>1
  <2>4. Len(es[k + 1]) = 1 + counts[k + 1] /\ counts[k + 1] \in Nat
    BY <1>5, <2>1
  <2>5. Len(FirstOf(es, k)) = k + n[k]
    BY <1>9
  <2>6. Len(FirstOf(es, k + 1)) = (k + 1) + n[k + 1]
    <3> DEFINE a == Len(FirstOf(es, k))
               b == n[k]
               c == counts[k + 1]
    <3>1. /\ Len(FirstOf(es, k + 1)) = a + (1 + c) /\ a = k + b /\ n[k + 1] = b + c
          /\ b \in Nat /\ c \in Nat /\ k \in Nat
      BY <2>2, <2>3, <2>4, <2>5
    <3> HIDE DEF a, b, c
    <3> QED BY <3>1
  <2> QED BY <2>1, <2>6
<1>10. 0 .. N \subseteq T
  <2>1. 0 \in Int /\ N \in Int
    BY <1>1
  <2> HIDE DEF T
  <2> QED BY <1>8, <1>9, <2>1, IntervalSet
<1>11. N \in 0 .. N
  BY <1>1
<1>12. Len(FirstOf(es, N)) = N + n[N] /\ n[N] \in Nat
  BY <1>10, <1>11
<1>13. FirstOf(es, N) = FlattenSeq(es) /\ FlattenSeq(es) \in Seq(Bytes)
  BY <1>4, FirstOfIs, FlattenType
<1> QED BY <1>6, <1>7, <1>12, <1>13 DEF Text, N

LEMMA StringWrite ==
  ASSUME NEW s \in Text
  PROVE  /\ print_string_ptr(s) \in Writes /\ print_string_ptr(s).op = "write"
         /\ Net(print_string_ptr(s)) = 0 /\ Ends(print_string_ptr(s))
<1> DEFINE extra == Total([i \in DOMAIN s |-> EscapeCharacters(s[i])])
           t == EscapedText(s)
           bytes == <<Quote>> \o t \o <<Quote, Nul>>
<1>1. t \in Text /\ extra \in Nat /\ Len(t) = Len(s) + extra /\ Len(s) \in Nat
  BY EscapedTextIs DEF Text
<1>2. print_string_ptr(s) = Write(Len(s) + extra + 3, bytes, 0, 0)
  BY DEF print_string_ptr
<1>3. <<Quote>> \in Seq(Bytes) /\ <<Quote, Nul>> \in Seq(Bytes)
      /\ Len(<<Quote>>) = 1 /\ Len(<<Quote, Nul>>) = 2 /\ <<Quote, Nul>>[2] = Nul
  BY DEF Bytes, Quote, Nul
<1> HIDE DEF extra, t
<1>4. <<Quote>> \o t \in Seq(Bytes) /\ Len(<<Quote>> \o t) = 1 + Len(t)
  BY <1>1, <1>3, ConcatAt DEF Text
<1>5. /\ bytes \in Seq(Bytes) /\ Len(bytes) = Len(t) + 3
      /\ bytes[Len(t) + 3] = Nul
  <2> DEFINE a == <<Quote>> \o t
             z == <<Quote, Nul>>
  <2>1. a \in Seq(Bytes) /\ z \in Seq(Bytes) /\ Len(a) = 1 + Len(t) /\ Len(z) = 2 /\ z[2] = Nul
    BY <1>3, <1>4
  <2>2. bytes = a \o z
    OBVIOUS
  <2>3. Len(t) \in Nat
    BY <1>1
  <2> HIDE DEF a, z, bytes
  <2>4. a \o z \in Seq(Bytes) /\ Len(a \o z) = Len(a) + 2 /\ (a \o z)[Len(a) + 2] = z[2]
    <3>1. a \in Seq(Bytes) /\ z \in Seq(Bytes)
      BY <2>1
    <3>2. /\ a \o z \in Seq(Bytes) /\ Len(a \o z) = Len(a) + Len(z)
          /\ \A i \in 1 .. Len(z) : (a \o z)[Len(a) + i] = z[i]
      BY <3>1, ConcatAt
    <3>3. 2 \in 1 .. Len(z)
      BY <2>1
    <3> QED BY <2>1, <3>2, <3>3
  <2>5. Len(a) + 2 = Len(t) + 3
    BY <2>1, <2>3
  <2> QED BY <2>1, <2>2, <2>4, <2>5
<1> HIDE DEF bytes
<1>6. Write(Len(s) + extra + 3, bytes, 0, 0) \in Writes
  BY <1>1, <1>5 DEF Writes, Write, Text
<1> QED BY <1>1, <1>2, <1>5, <1>6 DEF Write, Net, Ends
-----------------------------------------------------------------------------
(* What a task expands to *)

Expansion(ts, d, e) ==
  Passage(ts, d, e) /\ ts # <<>> /\ ts[1].op # "update" /\ Ends(ts[Len(ts)])

LEMMA WriteIs ==
  ASSUME NEW reserve \in Nat, NEW bytes \in Text, NEW advance \in Nat, NEW deeper \in {-1, 0, 1},
         Len(bytes) <= reserve + 1, advance <= Len(bytes)
  PROVE  LET w == Write(reserve, bytes, advance, deeper)
         IN  /\ w \in Tasks /\ w.op = "write" /\ Net(w) = deeper
             /\ advance < Len(bytes) /\ bytes[Len(bytes)] = Nul => Ends(w)
<1> DEFINE w == Write(reserve, bytes, advance, deeper)
<1>1. /\ w.op = "write" /\ w.reserve = reserve /\ w.bytes = bytes
      /\ w.advance = advance /\ w.deeper = deeper
      /\ w \in [op : {"write"}, reserve : Nat, bytes : Text, advance : Nat, deeper : {-1, 0, 1}]
  BY DEF Write
<1> HIDE DEF w
<1>2. w \in Tasks
  BY <1>1 DEF Tasks, Writes
<1>3. Net(w) = deeper
  BY <1>1 DEF Net
<1>4. advance < Len(bytes) /\ bytes[Len(bytes)] = Nul => Ends(w)
  BY <1>1 DEF Ends
<1> QED BY <1>1, <1>2, <1>3, <1>4 DEF w

LEMMA ByteTexts ==
  /\ \A b \in Bytes : <<b>> \in Text /\ Len(<<b>>) = 1
  /\ \A b, c \in Bytes : <<b, c>> \in Text /\ Len(<<b, c>>) = 2 /\ <<b, c>>[2] = c
  BY DEF Text

LEMMA Characters ==
  /\ Nul \in Bytes /\ Tab \in Bytes /\ Newline \in Bytes /\ Space \in Bytes /\ Quote \in Bytes
  /\ Comma \in Bytes /\ Colon \in Bytes
  /\ OpenBracket \in Bytes /\ CloseBracket \in Bytes /\ OpenBrace \in Bytes /\ CloseBrace \in Bytes
  BY DEF Bytes, Nul, Tab, Newline, Space, Quote, Comma, Colon,
         OpenBracket, CloseBracket, OpenBrace, CloseBrace

(* A byte, and one more if it is to be formatted. *)
LEMMA WithIf ==
  ASSUME NEW t \in Text, NEW c, NEW b \in Bytes
  PROVE  t \o If(c, b) \in Text /\ Len(t \o If(c, b)) = Len(t) + IF c THEN 1 ELSE 0
<1>1. If(c, b) \in Text /\ Len(If(c, b)) = IF c THEN 1 ELSE 0
  BY ByteTexts DEF If, Text
<1> HIDE DEF If
<1>2. t \o If(c, b) \in Text /\ Len(t \o If(c, b)) = Len(t) + Len(If(c, b))
  BY <1>1, ConcatAt DEF Text
<1> QED BY <1>1, <1>2

LEMMA Terminated ==
  ASSUME NEW t \in Text
  PROVE  /\ Append(t, Nul) \in Text /\ Len(Append(t, Nul)) = Len(t) + 1 /\ Len(t) \in Nat
         /\ Append(t, Nul)[Len(t) + 1] = Nul
  BY DEF Text, Bytes, Nul

(* A text printed with its zero byte, and the offset in front of it. *)
LEMMA TextWrite ==
  ASSUME NEW t \in Text, NEW advance \in 0 .. Len(t)
  PROVE  LET w == Write(Len(t) + 1, Append(t, Nul), advance, 0)
         IN  w \in Tasks /\ w.op = "write" /\ Net(w) = 0 /\ Ends(w)
<1> DEFINE bytes == Append(t, Nul)
<1>1. bytes \in Text /\ Len(bytes) = Len(t) + 1 /\ Len(t) \in Nat /\ bytes[Len(t) + 1] = Nul
  BY Terminated
<1> HIDE DEF bytes
<1>2. /\ Len(t) + 1 \in Nat /\ advance \in Nat /\ Len(bytes) <= (Len(t) + 1) + 1
      /\ advance < Len(bytes) /\ advance <= Len(bytes) /\ bytes[Len(bytes)] = Nul
  BY <1>1
<1>3. LET w == Write(Len(t) + 1, bytes, advance, 0)
      IN  w \in Tasks /\ w.op = "write" /\ Net(w) = 0 /\ Ends(w)
  BY <1>1, <1>2, WriteIs
<1> QED BY <1>3 DEF bytes

LEMMA OneExpansion ==
  ASSUME NEW t \in Tasks, NEW d \in Nat, d + Net(t) \in Nat, t.op # "update", Ends(t)
  PROVE  Expansion(<<t>>, d, d + Net(t))
<1>1. <<t>> # <<>> /\ <<t>>[1] = t /\ Len(<<t>>) = 1
  OBVIOUS
<1> QED BY <1>1, OnePassage DEF Expansion

LEMMA OpenPair ==
  ASSUME NEW s \in Tasks, NEW t \in Tasks, NEW d \in Nat,
         s.op = "write", Net(s) = 1, t.op \in {"elements", "members"}
  PROVE  Expansion(<<s, t>>, d, d)
<1>1. Net(t) = -1 /\ Ends(t) /\ t.op # "update" /\ s.op # "update"
  BY DEF Net, Ends
<1>2. d + Net(s) \in Nat /\ (d + Net(s)) + Net(t) = d
  BY <1>1
<1>3. Passage(<<s, t>>, d, d)
  BY <1>1, <1>2, TwoPassage
<1>4. <<s, t>> # <<>> /\ <<s, t>>[1] = s /\ Len(<<s, t>>) = 2 /\ <<s, t>>[2] = t
  OBVIOUS
<1> QED BY <1>1, <1>3, <1>4 DEF Expansion

LEMMA LiteralIs ==
  ASSUME NEW v \in {<<"null">>, <<"false">>, <<"true">>}
  PROVE  (CHOOSE l \in Literals : l[2] = v)[1] \in Text
<1>1. \A t \in {NullText, FalseText, TrueText} : t \in Text
  <2>1. NullText \in Text
    BY DEF NullText, Text, Bytes
  <2>2. FalseText \in Text
    BY DEF FalseText, Text, Bytes
  <2>3. TrueText \in Text
    BY DEF TrueText, Text, Bytes
  <2> QED BY <2>1, <2>2, <2>3
<1>2. \E l \in Literals : l[2] = v
  BY DEF Literals
<1>3. \A l \in Literals : l[1] \in {NullText, FalseText, TrueText}
  BY DEF Literals
<1> QED BY <1>1, <1>2, <1>3

LEMMA ValueExpands ==
  ASSUME NEW v \in Values, v # Invalid, NEW d \in Nat
  PROVE  Expansion(print_value(v), d, d)
<1>1. \/ v \in {<<"null">>, <<"false">>, <<"true">>}
      \/ v[1] \in {"number", "raw", "string"} /\ v[2] \in Text
      \/ v[1] = "array" /\ v[2] \in Seq(Values)
      \/ v[1] = "object" /\ v[2] \in Seq(Text \X Values)
  BY ValueAssumption
<1>2. ASSUME NEW t \in Tasks, t.op = "write", Net(t) = 0, Ends(t), print_value(v) = <<t>>
      PROVE  Expansion(print_value(v), d, d)
  <2>1. d + Net(t) = d /\ t.op # "update"
    BY <1>2
  <2> QED BY <1>2, <2>1, OneExpansion
<1>3. CASE v \in {<<"null">>, <<"false">>, <<"true">>}
  <2> DEFINE text == (CHOOSE l \in Literals : l[2] = v)[1]
  <2>1. text \in Text
    BY <1>3, LiteralIs
  <2>2. print_value(v) = <<Write(Len(text) + 1, Append(text, Nul), 0, 0)>>
    BY <1>3 DEF print_value
  <2> HIDE DEF text
  <2>3. 0 \in 0 .. Len(text)
    BY <2>1 DEF Text
  <2> QED BY <1>2, <2>1, <2>2, <2>3, TextWrite
<1>4. CASE v[1] = "number" /\ v[2] \in Text
  <2>1. print_value(v) = <<Write(Len(v[2]) + 1, Append(v[2], Nul), Len(v[2]), 0)>>
    BY <1>4 DEF print_value, print_number
  <2>2. Len(v[2]) \in 0 .. Len(v[2])
    BY <1>4 DEF Text
  <2> QED BY <1>2, <1>4, <2>1, <2>2, TextWrite
<1>5. CASE v[1] = "raw" /\ v[2] \in Text
  <2>1. print_value(v) = <<Write(Len(v[2]) + 1, Append(v[2], Nul), 0, 0)>>
    BY <1>5 DEF print_value
  <2>2. 0 \in 0 .. Len(v[2])
    BY <1>5 DEF Text
  <2> QED BY <1>2, <1>5, <2>1, <2>2, TextWrite
<1>6. CASE v[1] = "string" /\ v[2] \in Text
  <2>1. print_value(v) = <<print_string_ptr(v[2])>>
    BY <1>6 DEF print_value
  <2>2. print_string_ptr(v[2]) \in Tasks
    BY <1>6, StringWrite DEF Tasks
  <2> QED BY <1>2, <1>6, <2>1, <2>2, StringWrite
<1>7. CASE v[1] = "array" /\ v[2] \in Seq(Values)
  <2>1. print_value(v) = <<OpenArray, Elements(v[2])>>
    BY <1>7 DEF print_value
  <2>2. OpenArray \in Tasks /\ OpenArray.op = "write" /\ Net(OpenArray) = 1
    <3> DEFINE bytes == <<OpenBracket>>
    <3>1. bytes \in Text /\ Len(bytes) = 1
      BY ByteTexts, Characters
    <3> HIDE DEF bytes
    <3>2. Len(bytes) <= 1 + 1 /\ 1 <= Len(bytes) /\ 1 \in Nat /\ 1 \in {-1, 0, 1}
      BY <3>1
    <3>3. LET w == Write(1, bytes, 1, 1) IN w \in Tasks /\ w.op = "write" /\ Net(w) = 1
      BY <3>1, <3>2, WriteIs
    <3> QED BY <3>3 DEF OpenArray, bytes
  <2>3. Elements(v[2]) \in Tasks /\ Elements(v[2]).op = "elements"
    BY <1>7 DEF Elements, Tasks
  <2> HIDE DEF OpenArray, Elements
  <2> QED BY <2>1, <2>2, <2>3, OpenPair
<1>8. CASE v[1] = "object" /\ v[2] \in Seq(Text \X Values)
  <2>1. print_value(v) = <<OpenObject, Members(v[2])>>
    BY <1>8 DEF print_value
  <2>2. OpenObject \in Tasks /\ OpenObject.op = "write" /\ Net(OpenObject) = 1
    <3> DEFINE bytes == <<OpenBrace>> \o If(Fmt, Newline)
               n == IF Fmt THEN 2 ELSE 1
    <3>1. bytes \in Text /\ Len(bytes) = n /\ n \in Nat
      <4>1. <<OpenBrace>> \in Text /\ Len(<<OpenBrace>>) = 1
        BY ByteTexts, Characters
      <4>2. bytes \in Text /\ Len(bytes) = Len(<<OpenBrace>>) + IF Fmt THEN 1 ELSE 0
        BY <4>1, WithIf, Characters
      <4> HIDE DEF bytes
      <4> QED BY <4>1, <4>2
    <3> HIDE DEF bytes, n
    <3>2. Len(bytes) <= (n + 1) + 1 /\ n <= Len(bytes) /\ n + 1 \in Nat /\ 1 \in {-1, 0, 1}
      BY <3>1
    <3>3. LET w == Write(n + 1, bytes, n, 1) IN w \in Tasks /\ w.op = "write" /\ Net(w) = 1
      BY <3>1, <3>2, WriteIs
    <3> QED BY <3>3 DEF OpenObject, bytes, n
  <2>3. Members(v[2]) \in Tasks /\ Members(v[2]).op = "members"
    BY <1>8 DEF Members, Tasks
  <2> QED BY <2>1, <2>2, <2>3, OpenPair
<1> QED BY <1>1, <1>3, <1>4, <1>5, <1>6, <1>7, <1>8
LEMMA ElementsExpand ==
  ASSUME NEW rest \in Seq(Values), NEW d \in Nat, d - 1 \in Nat
  PROVE  Expansion(print_array(rest), d, d - 1)
<1>1. CASE rest = <<>>
  <2> DEFINE bytes == <<CloseBracket, Nul>>
             w == Write(2, bytes, 0, -1)
  <2>1. bytes \in Text /\ Len(bytes) = 2 /\ bytes[2] = Nul
    BY ByteTexts, Characters
  <2>2. print_array(rest) = <<w>>
    BY <1>1 DEF print_array
  <2> HIDE DEF bytes
  <2>3. /\ Len(bytes) <= 2 + 1 /\ 0 <= Len(bytes) /\ 0 < Len(bytes) /\ bytes[Len(bytes)] = Nul
        /\ 0 \in Nat /\ 2 \in Nat /\ -1 \in {-1, 0, 1}
    BY <2>1
  <2>4. w \in Tasks /\ w.op = "write" /\ Net(w) = -1 /\ Ends(w)
    BY <2>1, <2>3, WriteIs
  <2> HIDE DEF w
  <2>5. d + Net(w) = d - 1 /\ w.op # "update"
    BY <2>4
  <2> QED BY <2>2, <2>4, <2>5, OneExpansion
<1>2. CASE rest # <<>>
  <2> DEFINE n == IF Fmt THEN 2 ELSE 1
             bytes == <<Comma>> \o If(Fmt, Space) \o <<Nul>>
             w == Write(n + 1, bytes, n, 0)
             a == <<Value(Head(rest)), Update>>
             b == IF Len(rest) > 1 THEN <<w>> ELSE <<>>
             c == <<Elements(Tail(rest))>>
  <2>1. print_array(rest) = (a \o b) \o c
    BY <1>2 DEF print_array
  <2>2. Head(rest) \in Values /\ Tail(rest) \in Seq(Values)
    BY <1>2
  <2>3. w \in Tasks /\ w.op = "write" /\ Net(w) = 0
    <3>1. bytes \in Text /\ Len(bytes) = n + 1 /\ n \in Nat
      <4> DEFINE s == <<Comma>> \o If(Fmt, Space)
      <4>1. <<Comma>> \in Text /\ Len(<<Comma>>) = 1 /\ <<Nul>> \in Text /\ Len(<<Nul>>) = 1
        BY ByteTexts, Characters
      <4>2. s \in Text /\ Len(s) = 1 + IF Fmt THEN 1 ELSE 0
        <5> DEFINE x == <<Comma>>
        <5>1. x \in Text /\ Len(x) = 1
          BY <4>1
        <5> HIDE DEF x
        <5>2. x \o If(Fmt, Space) \in Text /\ Len(x \o If(Fmt, Space)) = Len(x) + IF Fmt THEN 1 ELSE 0
          BY <5>1, WithIf, Characters
        <5> QED BY <5>1, <5>2 DEF x
      <4>3. bytes = s \o <<Nul>>
        OBVIOUS
      <4> HIDE DEF s, bytes
      <4>4. s \o <<Nul>> \in Text /\ Len(s \o <<Nul>>) = Len(s) + Len(<<Nul>>)
        BY <4>1, <4>2, ConcatAt DEF Text
      <4> QED BY <4>1, <4>2, <4>3, <4>4
    <3> HIDE DEF bytes, n
    <3>2. Len(bytes) <= (n + 1) + 1 /\ n <= Len(bytes) /\ n + 1 \in Nat /\ 0 \in {-1, 0, 1}
      BY <3>1
    <3> QED BY <3>1, <3>2, WriteIs
  <2> HIDE DEF bytes, n, w
  <2>4. /\ Value(Head(rest)) \in Tasks /\ Value(Head(rest)).op = "value"
        /\ Net(Value(Head(rest))) = 0 /\ Ends(Value(Head(rest)))
    BY <2>2 DEF Value, Tasks, Net, Ends
  <2>5. Update \in Tasks /\ Net(Update) = 0 /\ Update.op = "update"
    BY DEF Update, Tasks, Net
  <2>6. /\ Elements(Tail(rest)) \in Tasks /\ Elements(Tail(rest)).op = "elements"
        /\ Net(Elements(Tail(rest))) = -1 /\ Ends(Elements(Tail(rest)))
    BY <2>2 DEF Elements, Tasks, Net, Ends
  <2> DEFINE v == Value(Head(rest))
             e == Elements(Tail(rest))
  <2>7. a = <<v, Update>> /\ c = <<e>>
    OBVIOUS
  <2> HIDE DEF v, e
  <2>8. Passage(a, d, d) /\ a # <<>> /\ a[1] = v
    <3>1. d + Net(v) \in Nat /\ (d + Net(v)) + Net(Update) = d
      BY <2>4, <2>5 DEF v
    <3>2. Passage(<<v, Update>>, d, d)
      BY <2>4, <2>5, <3>1, TwoPassage DEF v
    <3>3. <<v, Update>> # <<>> /\ <<v, Update>>[1] = v
      OBVIOUS
    <3> QED BY <2>7, <3>2, <3>3
  <2>9. Passage(b, d, d) /\ (b # <<>> => b[1] = w)
    <3>1. d + Net(w) = d
      BY <2>3
    <3>2. Passage(<<w>>, d, d) /\ <<w>>[1] = w
      BY <2>3, <3>1, OnePassage
    <3> QED BY <3>2, EmptyPassage
  <2>10. Passage(c, d, d - 1) /\ c # <<>> /\ c[1] = e /\ Len(c) = 1
    <3>1. d + Net(e) = d - 1
      BY <2>6 DEF e
    <3>2. Passage(<<e>>, d, d - 1)
      BY <2>6, <3>1, OnePassage DEF e
    <3>3. <<e>> # <<>> /\ <<e>>[1] = e /\ Len(<<e>>) = 1
      OBVIOUS
    <3> QED BY <2>7, <3>2, <3>3
  <2> HIDE DEF a, b, c
  <2>11. Passage(a \o b, d, d)
    BY <2>3, <2>8, <2>9, JoinPassage
  <2>12. Passage((a \o b) \o c, d, d - 1)
    BY <2>6, <2>10, <2>11, JoinPassage DEF e
  <2>13. /\ (a \o b) \o c # <<>> /\ ((a \o b) \o c)[1] = v
         /\ ((a \o b) \o c)[Len((a \o b) \o c)] = e
    <3>1. a \in Seq(Tasks) /\ b \in Seq(Tasks) /\ c \in Seq(Tasks)
      BY <2>8, <2>9, <2>10 DEF Passage
    <3>2. a \o b \in Seq(Tasks)
      BY <3>1, ConcatAt
    <3>3. (a \o b)[1] = v /\ a \o b # <<>>
      <4>1. CASE b = <<>>
        <5>1. a \o b = a
          BY <3>1, <4>1, ConcatEmptySeq
        <5> QED BY <2>8, <5>1
      <4>2. CASE b # <<>>
        BY <2>8, <3>1, <4>2, EndsOfConcat
      <4> QED BY <4>1, <4>2
    <3>4. /\ (a \o b) \o c # <<>> /\ ((a \o b) \o c)[Len((a \o b) \o c)] = c[Len(c)]
          /\ ((a \o b) \o c)[1] = IF a \o b = <<>> THEN c[1] ELSE (a \o b)[1]
      BY <2>10, <3>1, <3>2, EndsOfConcat
    <3> QED BY <2>10, <3>3, <3>4
  <2> QED BY <2>1, <2>4, <2>6, <2>12, <2>13 DEF Expansion, v, e
<1> QED BY <1>1, <1>2

LEMMA MemberPassage ==
  ASSUME NEW a \in Tasks, NEW b \in Tasks, NEW c \in Tasks, NEW m \in Tasks, NEW d \in Nat,
         d - 1 \in Nat,
         NEW v \in Tasks, a.op = "write", Net(a) = 0, Ends(a), b.op = "write", Net(b) = 0,
         v.op = "value", c.op = "write", Net(c) = 0, m.op = "members"
  PROVE  Expansion(<<a, Update, b, v, Update, c, m>>, d, d - 1)
<1> DEFINE ts == <<a, Update, b, v, Update, c, m>>
           h == [i \in 0 .. 7 |-> IF i = 7 THEN d - 1 ELSE d]
<1>1. Update \in Tasks /\ Net(Update) = 0 /\ Update.op = "update"
  BY DEF Update, Tasks, Net
<1>2. Net(v) = 0 /\ Ends(v) /\ Net(m) = -1 /\ Ends(m)
  BY DEF Net, Ends
<1>3. /\ ts \in Seq(Tasks) /\ Len(ts) = 7
      /\ ts[1] = a /\ ts[2] = Update /\ ts[3] = b /\ ts[4] = v
      /\ ts[5] = Update /\ ts[6] = c /\ ts[7] = m
  BY <1>1
<1>4. h \in [0 .. 7 -> Nat] /\ \A i \in 0 .. 7 : h[i] = IF i = 7 THEN d - 1 ELSE d
  OBVIOUS
<1> HIDE DEF ts, h
<1>5. \A i \in 1 .. 7 : Net(ts[i]) = IF i = 7 THEN -1 ELSE 0
  BY <1>1, <1>2, <1>3
<1>6. \A i \in 2 .. 7 : ts[i].op = "update" => i = 2 \/ i = 5
  BY <1>3
<1>7. Ends(ts[1]) /\ Ends(ts[4])
  BY <1>2, <1>3
<1>8. ASSUME NEW i \in 1 .. Len(ts) PROVE h[i] = h[i - 1] + Net(ts[i])
  <2>1. i \in 1 .. 7 /\ i \in 0 .. 7 /\ i - 1 \in 0 .. 7 /\ i - 1 # 7
    BY <1>3
  <2>2. h[i - 1] = d /\ h[i] = IF i = 7 THEN d - 1 ELSE d
    BY <1>4, <2>1
  <2>3. Net(ts[i]) = IF i = 7 THEN -1 ELSE 0
    BY <1>5, <2>1
  <2> QED BY <2>2, <2>3
<1>9. ASSUME NEW i \in 2 .. Len(ts), ts[i].op = "update" PROVE Ends(ts[i - 1])
  <2>1. i \in 2 .. 7
    BY <1>3
  <2>2. i = 2 \/ i = 5
    BY <1>6, <1>9, <2>1
  <2>3. i - 1 = 1 \/ i - 1 = 4
    BY <2>2
  <2> QED BY <1>7, <2>3
<1>10. Passage(ts, d, d - 1)
  BY <1>3, <1>4, <1>8, <1>9 DEF Passage
<1>11. ts # <<>> /\ ts[1].op # "update" /\ Ends(ts[Len(ts)])
  <2>1. ts # <<>>
    <3>1. Len(ts) # Len(<<>>)
      BY <1>3
    <3> QED BY <3>1, Zenon
  <2> QED BY <1>2, <1>3, <2>1
<1> QED BY <1>10, <1>11 DEF Expansion, ts

LEMMA TabsAre ==
  ASSUME NEW n \in Int
  PROVE  Tabs(n) \in Text /\ Len(Tabs(n)) = IF n < 0 THEN 0 ELSE n
<1>1. Tab \in Bytes
  BY Characters
<1>2. CASE n < 0
  <2>1. 1 .. n = 1 .. 0
    BY <1>2
  <2>2. Tabs(n) \in [1 .. 0 -> Bytes]
    BY <1>1, <2>1 DEF Tabs
  <2> QED BY <1>2, <2>2 DEF Text
<1>3. CASE n >= 0
  <2>1. Tabs(n) \in [1 .. n -> Bytes] /\ n \in Nat
    BY <1>1, <1>3 DEF Tabs
  <2> QED BY <1>3, <2>1 DEF Text
<1> QED BY <1>2, <1>3

LEMMA MembersExpand ==
  ASSUME NEW rest \in Seq(Text \X Values), p.depth \in Nat, p.depth - 1 \in Nat
  PROVE  Expansion(print_object(rest), p.depth, p.depth - 1)
<1> DEFINE d == p.depth
<1>0. d \in Nat /\ d - 1 \in Nat
  OBVIOUS
<1>1. CASE rest = <<>>
  <2> DEFINE tabs == IF Fmt THEN Tabs(d - 1) ELSE <<>>
             z == <<CloseBrace, Nul>>
             bytes == tabs \o z
             n == IF Fmt THEN d + 1 ELSE 2
             w == Write(n, bytes, 0, -1)
  <2>1. print_object(rest) = <<w>>
    BY <1>1 DEF print_object, CloseObject
  <2>2. z \in Text /\ Len(z) = 2 /\ z[2] = Nul
    BY ByteTexts, Characters
  <2>3. tabs \in Text /\ Len(tabs) = IF Fmt THEN d - 1 ELSE 0
    <3>1. Tabs(d - 1) \in Text /\ Len(Tabs(d - 1)) = d - 1
      BY <1>0, TabsAre
    <3>2. <<>> \in Text /\ Len(<<>>) = 0
      BY DEF Text
    <3> QED BY <3>1, <3>2
  <2> HIDE DEF tabs, z
  <2>4. bytes \in Text /\ Len(bytes) = Len(tabs) + 2 /\ bytes[Len(tabs) + 2] = Nul
    <3>1. /\ bytes \in Text /\ Len(bytes) = Len(tabs) + Len(z)
          /\ \A i \in 1 .. Len(z) : bytes[Len(tabs) + i] = z[i]
      <4>1. tabs \in Seq(Bytes) /\ z \in Seq(Bytes)
        BY <2>2, <2>3 DEF Text
      <4> QED BY <4>1, ConcatAt DEF Text
    <3>2. 2 \in 1 .. Len(z)
      BY <2>2
    <3> HIDE DEF bytes
    <3> QED BY <2>2, <3>1, <3>2
  <2> HIDE DEF bytes, d
  <2>5. /\ Len(bytes) <= n + 1 /\ 0 < Len(bytes) /\ 0 <= Len(bytes) /\ n \in Nat
        /\ bytes[Len(bytes)] = Nul /\ -1 \in {-1, 0, 1} /\ 0 \in Nat
    BY <1>0, <2>3, <2>4
  <2> HIDE DEF n
  <2>6. w \in Tasks /\ w.op = "write" /\ Net(w) = -1 /\ Ends(w)
    BY <2>4, <2>5, WriteIs
  <2> HIDE DEF w
  <2>7. d + Net(w) = d - 1 /\ w.op # "update"
    BY <1>0, <2>6
  <2>8. Expansion(print_object(rest), d, d - 1)
    BY <1>0, <2>1, <2>6, <2>7, OneExpansion
  <2> QED BY <2>8 DEF d
<1>2. CASE rest # <<>>
  <2> DEFINE n == IF Fmt THEN 2 ELSE 1
             more == Len(rest) > 1
             tail == If(more, Comma) \o If(Fmt, Newline)
             bytes == <<Colon>> \o If(Fmt, Tab)
             name == print_string_ptr(Head(rest)[1])
             colon == Write(n, bytes, n, 0)
             v == Value(Head(rest)[2])
             line == Write(Len(tail) + 1, Append(tail, Nul), Len(tail), 0)
             m == Members(Tail(rest))
             tabs == Write(d, Tabs(d), d, 0)
             a == IF Fmt THEN <<tabs>> ELSE <<>>
             b == <<name, Update, colon, v, Update, line, m>>
  <2>1. print_object(rest) = a \o b
    BY <1>2 DEF print_object
  <2>2. Head(rest)[1] \in Text /\ Head(rest)[2] \in Values /\ Tail(rest) \in Seq(Text \X Values)
    <3>1. Head(rest) \in Text \X Values
      BY <1>2
    <3> QED BY <1>2, <3>1
  <2>3. name \in Tasks /\ name.op = "write" /\ Net(name) = 0 /\ Ends(name)
    BY <2>2, StringWrite DEF Tasks
  <2>4. colon \in Tasks /\ colon.op = "write" /\ Net(colon) = 0
    <3>1. bytes \in Text /\ Len(bytes) = n /\ n \in Nat
      <4>1. <<Colon>> \in Text /\ Len(<<Colon>>) = 1
        BY ByteTexts, Characters
      <4>2. bytes \in Text /\ Len(bytes) = Len(<<Colon>>) + IF Fmt THEN 1 ELSE 0
        BY <4>1, WithIf, Characters
      <4> HIDE DEF bytes
      <4> QED BY <4>1, <4>2
    <3> HIDE DEF bytes, n
    <3>2. Len(bytes) <= n + 1 /\ n <= Len(bytes) /\ 0 \in {-1, 0, 1}
      BY <3>1
    <3> QED BY <3>1, <3>2, WriteIs
  <2>5. v \in Tasks /\ v.op = "value" /\ m \in Tasks /\ m.op = "members" /\ Ends(m)
    BY <2>2 DEF Value, Members, Tasks, Ends
  <2>6. line \in Tasks /\ line.op = "write" /\ Net(line) = 0
    <3>1. If(more, Comma) \in Text
      BY ByteTexts, Characters DEF If, Text
    <3>2. tail \in Text
      BY <3>1, WithIf, Characters
    <3> HIDE DEF tail
    <3>3. Len(tail) \in 0 .. Len(tail)
      BY <3>2 DEF Text
    <3> QED BY <3>2, <3>3, TextWrite
  <2>7. tabs \in Tasks /\ tabs.op = "write" /\ Net(tabs) = 0
    <3> DEFINE t == Tabs(d)
    <3>1. t \in Text /\ Len(t) = d
      BY <1>0, TabsAre
    <3> HIDE DEF t, d
    <3>2. Len(t) <= d + 1 /\ d <= Len(t) /\ 0 \in {-1, 0, 1}
      BY <1>0, <3>1
    <3>3. LET w == Write(d, t, d, 0) IN w \in Tasks /\ w.op = "write" /\ Net(w) = 0
      BY <1>0, <3>1, <3>2, WriteIs
    <3> QED BY <3>3 DEF t
  <2> HIDE DEF d, name, colon, v, line, m, tabs
  <2>8. Expansion(b, d, d - 1) /\ b[1] = name /\ Len(b) = 7 /\ b[7] = m
    <3>1. Expansion(b, d, d - 1)
      BY <1>0, <2>3, <2>4, <2>5, <2>6, MemberPassage
    <3>2. b[1] = name /\ Len(b) = 7 /\ b[7] = m
      OBVIOUS
    <3> QED BY <3>1, <3>2
  <2>9. Passage(a, d, d) /\ (a # <<>> => a[1] = tabs)
    <3>1. d + Net(tabs) = d
      BY <1>0, <2>7
    <3>2. Passage(<<tabs>>, d, d) /\ <<tabs>>[1] = tabs
      BY <1>0, <2>7, <3>1, OnePassage
    <3> QED BY <1>0, <3>2, EmptyPassage
  <2> HIDE DEF a, b
  <2>10. Passage(a \o b, d, d - 1)
    BY <2>3, <2>8, <2>9, JoinPassage DEF Expansion
  <2>11. /\ a \o b # <<>> /\ (a \o b)[Len(a \o b)] = b[Len(b)]
         /\ (a \o b)[1] = IF a = <<>> THEN b[1] ELSE a[1]
    <3>1. a \in Seq(Tasks) /\ b \in Seq(Tasks) /\ b # <<>>
      BY <2>8, <2>9 DEF Passage, Expansion
    <3> QED BY <3>1, EndsOfConcat
  <2>12. Expansion(a \o b, d, d - 1)
    BY <2>3, <2>5, <2>7, <2>8, <2>9, <2>10, <2>11 DEF Expansion
  <2> QED BY <2>1, <2>12 DEF d
<1> QED BY <1>1, <1>2
-----------------------------------------------------------------------------
(* The machine *)

LEMMA PrintInit == PIdle => PrintInv
  BY DEF PIdle, PrintInv, Text

LEMMA ExpandStep ==
  ASSUME PrintInv, Expand
  PROVE  PrintInv'
<1> DEFINE d == p.depth
           e == d + Net(Now)
           rest == Tail(todo)
<1>1. /\ ppc = "print" /\ todo # <<>> /\ Now.op \in {"value", "elements", "members"}
      /\ ppc' = ppc /\ p' = p /\ mem' = mem
      /\ Passage(todo, d, 0) /\ Ends(todo[Len(todo)])
  BY DEF Expand, PrintInv
<1>2. /\ Now \in Tasks /\ d \in Nat /\ e \in Nat /\ Passage(rest, e, 0)
      /\ rest # <<>> => rest[Len(rest)] = todo[Len(todo)]
  BY <1>1, RestPassage DEF Now
<1>3. PICK ts : Expansion(ts, d, e) /\ todo' = ts \o rest
  <2>1. CASE Now.op = "value"
    <3>1. Now.v \in Values /\ e = d
      BY <1>2, <2>1, NetIs DEF Net
    <3>2. todo' = print_value(Now.v) \o rest
      BY <2>1 DEF Expand, Then
    <3>3. Expansion(print_value(Now.v), d, d)
      BY <1>2, <2>1, <3>1, ValueExpands DEF Expand, AtInvalid
    <3> HIDE DEF d, e, rest
    <3> QED BY <3>1, <3>2, <3>3
  <2>2. CASE Now.op = "elements"
    <3>1. Now.rest \in Seq(Values) /\ e = d - 1 /\ d - 1 \in Nat
      BY <1>2, <2>2, NetIs DEF Net
    <3>2. todo' = print_array(Now.rest) \o rest
      BY <2>2 DEF Expand, Then
    <3>3. Expansion(print_array(Now.rest), d, d - 1)
      BY <1>2, <3>1, ElementsExpand
    <3> HIDE DEF d, e, rest
    <3> QED BY <3>1, <3>2, <3>3
  <2>3. CASE Now.op = "members"
    <3>1. Now.rest \in Seq(Text \X Values) /\ e = d - 1 /\ d - 1 \in Nat
      BY <1>2, <2>3, NetIs DEF Net
    <3>2. todo' = print_object(Now.rest) \o rest
      BY <2>3 DEF Expand, Then
    <3>3. Expansion(print_object(Now.rest), d, d - 1)
      BY <1>2, <3>1, MembersExpand
    <3> HIDE DEF d, e, rest
    <3> QED BY <3>1, <3>2, <3>3
  <2> QED BY <1>1, <2>1, <2>2, <2>3
<1> HIDE DEF e, rest
<1>4. Passage(ts, d, e) /\ ts # <<>> /\ ts[1].op # "update" /\ Ends(ts[Len(ts)])
  BY <1>3 DEF Expansion
<1>5. Passage(todo', d, 0)
  BY <1>2, <1>3, <1>4, JoinPassage
<1>6. /\ todo' # <<>> /\ todo'[1].op # "update" /\ Ends(todo'[Len(todo')])
  <2>1. ts \in Seq(Tasks) /\ rest \in Seq(Tasks)
    BY <1>2, <1>4 DEF Passage
  <2>2. CASE rest = <<>>
    <3>1. todo' = ts
      BY <1>3, <2>1, <2>2, ConcatEmptySeq
    <3> QED BY <1>4, <3>1
  <2>3. CASE rest # <<>>
    <3>1. /\ ts \o rest # <<>> /\ (ts \o rest)[Len(ts \o rest)] = rest[Len(rest)]
          /\ (ts \o rest)[1] = ts[1]
      BY <1>4, <2>1, <2>3, EndsOfConcat
    <3> QED BY <1>1, <1>2, <1>3, <1>4, <2>3, <3>1
  <2> QED BY <2>2, <2>3
<1> QED BY <1>1, <1>5, <1>6 DEF PrintInv, Now, Ends, Net

(* What Put does to a buffer of size bytes that has room for what is       *)
(* needed: old are the bytes in it.                                        *)
LEMMA PutStep ==
  ASSUME PrintInv, Writing, NEW old \in Text, NEW size \in Nat,
         p.offset <= Len(old), Len(old) <= size, Needed <= size, Put(old, size), ppc' = ppc
  PROVE  PrintInv'
<1> DEFINE w == Now
           n == Len(w.bytes)
           o == p.offset
           top == IF Len(old) > o + n THEN Len(old) ELSE o + n
           rest == Tail(todo)
<1>1. /\ ppc = "print" /\ todo # <<>> /\ Passage(todo, p.depth, 0) /\ Ends(todo[Len(todo)])
      /\ p \in [length : Nat, offset : Nat, depth : Nat, alive : BOOLEAN] /\ p.alive
  BY DEF PrintInv, Writing
<1>2. /\ w \in Tasks /\ p.depth + Net(w) \in Nat /\ Passage(rest, p.depth + Net(w), 0)
      /\ rest # <<>> => /\ rest[Len(rest)] = todo[Len(todo)]
                        /\ rest[1].op = "update" => Ends(w)
      /\ rest = <<>> => todo[Len(todo)] = w
  BY <1>1, RestPassage DEF Now
<1>3. /\ w.op = "write" /\ w.reserve \in Nat /\ w.bytes \in Text /\ w.advance \in Nat
      /\ n <= w.reserve + 1 /\ w.advance <= n /\ Net(w) = w.deeper /\ w.deeper \in {-1, 0, 1}
  <2>1. w.op = "write" /\ w \in Writes
    BY <1>2, NetIs DEF Writing
  <2> QED BY <2>1 DEF Writes, Net
<1>4. o \in Nat /\ n \in Nat /\ Len(old) \in Nat /\ o <= Len(old) /\ \A i \in 1 .. n : w.bytes[i] \in Bytes
  BY <1>1, <1>3 DEF Text
<1>5. /\ mem' = [i \in 1 .. top |-> IF i \in (o + 1) .. (o + n) THEN w.bytes[i - o] ELSE old[i]]
      /\ p' = [p EXCEPT !.length = size, !.offset = @ + w.advance, !.depth = @ + w.deeper]
      /\ todo' = <<>> \o rest
  BY DEF Put, Then
<1>6. o + n <= size
  BY <1>3, <1>4 DEF Needed
<1>7. \A i \in 1 .. Len(old) : old[i] \in Bytes
  BY DEF Text
<1> HIDE DEF w, n, o, rest
<1>8. top \in Nat /\ top <= size /\ o + n <= top
  BY <1>4, <1>6
<1>9. ASSUME NEW i \in 1 .. top
      PROVE  (IF i \in (o + 1) .. (o + n) THEN w.bytes[i - o] ELSE old[i]) \in Bytes
  <2>1. i \in (o + 1) .. (o + n) => i - o \in 1 .. n
    BY <1>4
  <2>2. i \notin (o + 1) .. (o + n) => i \in 1 .. Len(old)
    BY <1>4
  <2> QED BY <1>4, <1>7, <2>1, <2>2
<1>10. mem' \in [1 .. top -> Bytes]
  BY <1>5, <1>9
<1>11. mem' \in Text /\ Len(mem') = top
  <2> HIDE DEF top
  <2> QED BY <1>8, <1>10 DEF Text
<1>12. Ends(w) => \E i \in (o + w.advance + 1) .. top : mem'[i] = Nul
  <2> SUFFICES ASSUME Ends(w) PROVE \E i \in (o + w.advance + 1) .. top : mem'[i] = Nul
    OBVIOUS
  <2>1. w.advance < n /\ w.bytes[n] = Nul
    BY <1>3 DEF Ends, n
  <2>2. o + n \in (o + w.advance + 1) .. top /\ o + n \in 1 .. top /\ o + n \in (o + 1) .. (o + n)
        /\ (o + n) - o = n
    BY <1>3, <1>4, <1>8, <2>1
  <2>3. mem'[o + n] = w.bytes[n]
    BY <1>5, <2>2
  <2> QED BY <2>1, <2>2, <2>3
<1>13. /\ p' \in [length : Nat, offset : Nat, depth : Nat, alive : BOOLEAN]
       /\ p'.length = size /\ p'.offset = o + w.advance /\ p'.depth = p.depth + Net(w) /\ p'.alive
  <2>1. p.depth + w.deeper \in Nat /\ o + w.advance \in Nat
    BY <1>2, <1>3, <1>4
  <2>2. /\ p \in [length : Nat, offset : Nat, depth : Nat, alive : BOOLEAN] /\ p.alive
        /\ p' = [p EXCEPT !.length = size, !.offset = @ + w.advance, !.depth = @ + w.deeper]
    BY <1>1, <1>5
  <2>3. p' = [length |-> size, offset |-> o + w.advance, depth |-> p.depth + w.deeper, alive |-> p.alive]
    BY <2>2 DEF o
  <2>4. p.alive \in BOOLEAN /\ p.alive
    BY <2>2
  <2>5. p' \in [length : Nat, offset : Nat, depth : Nat, alive : BOOLEAN]
    BY <2>1, <2>3, <2>4
  <2>6. /\ p'.length = size /\ p'.offset = o + w.advance /\ p'.depth = p.depth + w.deeper
        /\ p'.alive = p.alive
    BY <2>3
  <2> QED BY <1>3, <2>4, <2>5, <2>6
<1>14. todo' = rest
  <2>1. rest \in Seq(Tasks)
    BY <1>2 DEF Passage
  <2> QED BY <1>5, <2>1, ConcatEmptySeq
<1>15. p'.offset <= Len(mem') /\ Len(mem') <= p'.length
  BY <1>3, <1>4, <1>8, <1>11, <1>13
<1>16. todo' # <<>> => Ends(todo'[Len(todo')])
  BY <1>1, <1>2, <1>14
<1>17. todo' = <<>> \/ todo'[1].op = "update" => Ends(w)
  BY <1>1, <1>2, <1>14
<1>18. Ends(w) => EndAhead'
  BY <1>11, <1>12, <1>13 DEF EndAhead
<1>19. Passage(todo', p'.depth, 0)
  BY <1>2, <1>13, <1>14
<1> QED BY <1>1, <1>11, <1>13, <1>15, <1>16, <1>17, <1>18, <1>19 DEF PrintInv, Now, Ends

LEMMA GrownEnough ==
  ASSUME PrintInv, MayGrow
  PROVE  /\ NewSize \in Nat /\ Needed <= NewSize /\ Len(mem) <= NewSize
<1>1. Needed > p.length /\ Needed <= IntMax /\ Writing /\ p.alive
  BY DEF MayGrow, PrintInv, Writing
<1>2. Now \in Writes
  <2>1. Passage(todo, p.depth, 0) /\ todo # <<>> /\ Now.op = "write"
    BY <1>1 DEF PrintInv, Writing
  <2>2. Now \in Tasks
    BY <2>1, RestPassage DEF Now
  <2> QED BY <2>1, <2>2, NetIs
<1>3. Needed \in Nat /\ IntMax \in Nat /\ p.length \in Nat /\ Len(mem) <= p.length /\ Len(mem) \in Nat
  BY <1>1, <1>2, PrintAssumption DEF PrintInv, Needed, Writes, Text
<1> DEFINE need == Needed
<1>4. NewSize = IF 2 * need > IntMax THEN IntMax ELSE 2 * need
  BY DEF NewSize
<1>5. need \in Nat /\ need <= IntMax /\ need > p.length
  BY <1>1, <1>3
<1> HIDE DEF need
<1>6. NewSize \in Nat /\ need <= NewSize /\ Len(mem) <= NewSize
  BY <1>3, <1>4, <1>5
<1> QED BY <1>6 DEF need

LEMMA WriteStep ==
  ASSUME PrintInv, Fits \/ Grow
  PROVE  PrintInv'
<1>1. CASE Fits
  <2>1. /\ Writing /\ Needed <= p.length /\ Put(mem, p.length) /\ ppc' = ppc
        /\ mem \in Text /\ p.length \in Nat /\ p.offset <= Len(mem) /\ Len(mem) <= p.length
    BY <1>1 DEF Fits, PrintInv, Writing
  <2> QED BY <2>1, PutStep
<1>2. CASE Grow
  <2> DEFINE old == IF call.realloc \/ Len(mem) <= p.offset + 1 THEN mem
                    ELSE SubSeq(mem, 1, p.offset + 1)
  <2>1. MayGrow /\ Writing /\ Put(old, NewSize) /\ ppc' = ppc
    BY <1>2 DEF Grow, MayGrow
  <2>2. NewSize \in Nat /\ Needed <= NewSize /\ Len(mem) <= NewSize
    BY <2>1, GrownEnough
  <2>3. mem \in Seq(Bytes) /\ Len(mem) \in Nat /\ p.offset \in Nat /\ p.offset <= Len(mem)
    BY DEF PrintInv, Text
  <2>4. old \in Text /\ p.offset <= Len(old) /\ Len(old) <= Len(mem)
    <3>1. CASE old = mem
      BY <2>3, <3>1 DEF Text
    <3>2. CASE ~(call.realloc \/ Len(mem) <= p.offset + 1)
      <4>1. old = SubSeq(mem, 1, p.offset + 1) /\ p.offset + 1 < Len(mem)
        BY <2>3, <3>2
      <4>2. SubSeq(mem, 1, p.offset + 1) \in Seq(Bytes) /\ Len(SubSeq(mem, 1, p.offset + 1)) = p.offset + 1
        <5>1. 1 \in 1 .. (Len(mem) + 1) /\ p.offset + 1 \in (1 - 1) .. Len(mem)
          BY <2>3, <4>1
        <5> QED BY <2>3, <4>1, <5>1, SubSeqProperties
      <4> QED BY <2>3, <4>1, <4>2 DEF Text
    <3> QED BY <3>1, <3>2
  <2> HIDE DEF old
  <2>5. Len(old) <= NewSize
    BY <2>2, <2>3, <2>4 DEF Text
  <2> QED BY <2>1, <2>2, <2>4, <2>5, PutStep
<1> QED BY <1>1, <1>2

LEMMA RefuseStep ==
  ASSUME PrintInv, CannotGrow \/ NoRoom \/ Unprintable
  PROVE  PrintInv'
<1>1. ppc' = "refused" /\ p' = [p EXCEPT !.alive = FALSE] /\ mem' = mem
  BY DEF CannotGrow, NoRoom, Unprintable, Refused
<1> QED BY <1>1 DEF PrintInv

LEMMA UpdateStep ==
  ASSUME PrintInv, UpdateOffset
  PROVE  PrintInv'
<1> DEFINE rest == Tail(todo)
<1>1. /\ ppc = "print" /\ todo # <<>> /\ Now = Update /\ ppc' = ppc /\ mem' = mem
      /\ Passage(todo, p.depth, 0) /\ Ends(todo[Len(todo)])
      /\ todo' = <<>> \o rest /\ p.alive
      /\ p \in [length : Nat, offset : Nat, depth : Nat, alive : BOOLEAN]
  BY DEF UpdateOffset, PrintInv, Then
<1>2. PICK o \in p.offset .. Len(mem) : p' = [p EXCEPT !.offset = o]
  BY DEF UpdateOffset
<1>3. Net(Now) = 0 /\ ~Ends(Now)
  BY <1>1 DEF Update, Net, Ends
<1>4. /\ Passage(rest, p.depth + Net(Now), 0) /\ rest # <<>>
      /\ rest[Len(rest)] = todo[Len(todo)] /\ rest[1].op # "update"
  BY <1>1, <1>3, RestPassage DEF Now
<1>5. todo' = rest
  <2>1. rest \in Seq(Tasks)
    BY <1>4 DEF Passage
  <2> QED BY <1>1, <2>1, ConcatEmptySeq
<1>6. /\ p' \in [length : Nat, offset : Nat, depth : Nat, alive : BOOLEAN]
      /\ p'.length = p.length /\ p'.depth = p.depth /\ p'.alive /\ p'.offset <= Len(mem)
  <2>1. o \in Nat /\ o <= Len(mem)
    BY <1>1
  <2> QED BY <1>1, <1>2, <2>1
<1> HIDE DEF rest
<1>7. Passage(todo', p'.depth, 0)
  <2>1. p.depth + Net(Now) = p.depth
    BY <1>1, <1>3
  <2> QED BY <1>4, <1>5, <1>6, <2>1
<1>8. mem \in Text /\ Len(mem) <= p.length
  BY <1>1 DEF PrintInv
<1> QED BY <1>1, <1>4, <1>5, <1>6, <1>7, <1>8 DEF PrintInv, Now

LEMMA EndStep ==
  ASSUME PrintInv, PrintEnds
  PROVE  PrintInv'
<1>1. PICK o \in p.offset .. Len(mem), given \in MemoryGiven :
        /\ update_offset(o)
        /\ CASE call.fn # "print" ->
                  given /\ ppc' = "printed" /\ buffers' = 0 /\ UNCHANGED <<mem, p>>
             [] call.fn = "print" /\ given ->
                  /\ ppc' = "printed" /\ buffers' = 0 /\ mem' = SubSeq(mem, 1, o + 1)
                  /\ p' = [p EXCEPT !.offset = o, !.length = o + 1]
             [] OTHER -> ppc' = "refused" /\ buffers' = buffers - 1 /\ UNCHANGED <<mem, p>>
  BY DEF PrintEnds
<1>2. ppc = "print" /\ todo = <<>>
  BY DEF PrintEnds
<1>3. /\ p \in [length : Nat, offset : Nat, depth : Nat, alive : BOOLEAN]
      /\ mem \in Seq(Bytes) /\ Len(mem) \in Nat /\ p.alive /\ EndAhead
  BY <1>2 DEF PrintInv, Text
<1>4. CASE ppc' \in {"printed", "refused"} /\ UNCHANGED <<mem, p>>
  BY <1>4 DEF PrintInv
<1>5. CASE /\ ppc' = "printed" /\ mem' = SubSeq(mem, 1, o + 1)
           /\ p' = [p EXCEPT !.offset = o, !.length = o + 1]
  <2>1. PICK i \in (p.offset + 1) .. Len(mem) : mem[i] = Nul
    BY <1>3 DEF EndAhead
  <2>2. o < i
    <3>1. i \notin (p.offset + 1) .. o
      BY <1>1, <2>1 DEF update_offset
    <3> QED BY <1>3, <3>1
  <2>3. o \in Nat /\ o + 1 <= Len(mem)
    BY <1>3, <2>2
  <2>4. SubSeq(mem, 1, o + 1) \in Seq(Bytes) /\ Len(SubSeq(mem, 1, o + 1)) = o + 1
    <3>1. 1 \in 1 .. (Len(mem) + 1) /\ o + 1 \in (1 - 1) .. Len(mem)
      BY <1>3, <2>3
    <3> QED BY <1>3, <2>3, <3>1, SubSeqProperties
  <2>5. /\ p' \in [length : Nat, offset : Nat, depth : Nat, alive : BOOLEAN]
        /\ p'.offset = o /\ p'.length = o + 1
    <3>1. p' = [length |-> o + 1, offset |-> o, depth |-> p.depth, alive |-> p.alive]
      <4>1. /\ p \in [length : Nat, offset : Nat, depth : Nat, alive : BOOLEAN]
            /\ p' = [p EXCEPT !.offset = o, !.length = o + 1]
        BY <1>3, <1>5
      <4> QED BY <4>1
    <3>2. p.depth \in Nat /\ p.alive \in BOOLEAN /\ o + 1 \in Nat
      BY <1>3, <2>3
    <3> QED BY <2>3, <3>1, <3>2
  <2> QED BY <1>5, <2>3, <2>4, <2>5 DEF PrintInv, Text
<1> QED BY <1>1, <1>4, <1>5

LEMMA StartStep ==
  ASSUME PrintInv, CallPrint
  PROVE  PrintInv'
<1>1. PICK v \in Documents, fn \in Functions, f \in BOOLEAN, n \in Sizes : StartPrint(v, fn, f, n)
  BY DEF CallPrint
<1>2. PICK given \in BOOLEAN :
        /\ ppc' = IF given THEN "print" ELSE "refused"
        /\ p' = [length |-> IF fn = "print" THEN DefaultBufferSize ELSE n,
                 offset |-> 0, depth |-> 0, alive |-> given]
        /\ mem' = <<>> /\ todo' = <<[op |-> "value", v |-> v]>>
  BY <1>1 DEF StartPrint, MemoryGiven
<1>3. n \in Nat /\ DefaultBufferSize \in Nat /\ v \in Values
  BY PrintAssumption, ValueAssumption
<1>4. /\ p' \in [length : Nat, offset : Nat, depth : Nat, alive : BOOLEAN]
      /\ p'.depth = 0 /\ p'.offset = 0 /\ p'.alive = given
  BY <1>2, <1>3
<1> DEFINE t == [op |-> "value", v |-> v]
<1>5. t \in Tasks /\ t.op = "value" /\ Net(t) = 0 /\ Ends(t)
  BY <1>3 DEF Tasks, Net, Ends
<1>6. todo' = <<t>>
  BY <1>2
<1> HIDE DEF t
<1>7. Passage(<<t>>, 0, 0) /\ <<t>> # <<>> /\ <<t>>[1] = t /\ Len(<<t>>) = 1
  <2>1. 0 + Net(t) = 0
    BY <1>5
  <2>2. Passage(<<t>>, 0, 0)
    BY <1>5, <2>1, OnePassage
  <2> QED BY <2>2
<1>8. <<>> \in Text /\ Len(<<>>) = 0
  BY DEF Text
<1> QED BY <1>2, <1>4, <1>5, <1>6, <1>7, <1>8 DEF PrintInv, Now

LEMMA PrintStep == PrintInv /\ [PStep \/ CallPrint]_pvars => PrintInv'
<1> SUFFICES ASSUME PrintInv, [PStep \/ CallPrint]_pvars PROVE PrintInv'
  OBVIOUS
<1>1. CASE UNCHANGED pvars
  BY <1>1 DEF pvars, PrintInv, EndAhead, Now
<1> QED BY <1>1, ExpandStep, WriteStep, RefuseStep, UpdateStep, EndStep, StartStep DEF PStep

(* cJSON.c:373-471, 827-946, 1087-1199, 1267-1338, 1435-1494, 1606-1716:  *)
(* whatever value is printed, in whichever format, into a buffer of any   *)
(* size that grows or does not, every write lies inside the buffer and    *)
(* every search for its end finds a zero byte in it.                      *)
THEOREM Printing == PrintSpec => []StaysInside
<1>1. PrintInv => StaysInside
  <2> SUFFICES ASSUME PrintInv PROVE StaysInside
    OBVIOUS
  <2>1. p.alive => Len(mem) <= p.length
    BY DEF PrintInv
  <2>2. ppc = "print" /\ (todo = <<>> \/ Now = Update) => EndAhead
    BY DEF PrintInv, Update
  <2> QED BY <2>1, <2>2 DEF StaysInside, EndAhead
<1> QED BY <1>1, PrintInit, PrintStep, PTL DEF PrintSpec
(* Inductive *)
BufferInv ==
  /\ ppc \in {"idle", "print", "printed", "refused"}
  /\ buffers = IF ppc = "print" /\ call.fn # "preallocated" THEN 1 ELSE 0

LEMMA BufferStep == BufferInv /\ [PStep \/ CallPrint]_pvars => BufferInv'
<1> SUFFICES ASSUME BufferInv, [PStep \/ CallPrint]_pvars PROVE BufferInv'
  OBVIOUS
<1>1. CASE Expand \/ Fits \/ Grow \/ UpdateOffset
  <2>1. UNCHANGED <<ppc, call, buffers>>
    BY <1>1 DEF Expand, Fits, Grow, UpdateOffset
  <2> QED BY <2>1 DEF BufferInv
<1>2. CASE CannotGrow \/ NoRoom \/ Unprintable
  <2>1. ppc = "print" /\ ppc' = "refused"
        /\ buffers' = IF call.fn = "preallocated" THEN buffers ELSE buffers - 1
    BY <1>2 DEF CannotGrow, NoRoom, Unprintable, MayGrow, Writing, Refused
  <2> QED BY <2>1 DEF BufferInv
<1>3. CASE PrintEnds
  <2>1. ppc = "print"
    BY <1>3 DEF PrintEnds
  <2>2. \/ ppc' = "printed" /\ buffers' = 0
        \/ ppc' = "refused" /\ buffers' = buffers - 1 /\ call.fn = "print"
    BY <1>3 DEF PrintEnds
  <2> QED BY <2>1, <2>2 DEF BufferInv
<1>4. CASE CallPrint
  <2>1. PICK v \in Documents, fn \in Functions, f \in BOOLEAN, n \in Sizes : StartPrint(v, fn, f, n)
    BY <1>4 DEF CallPrint
  <2>2. call'.fn = fn /\ ppc' \in {"print", "refused"}
        /\ buffers' = IF ppc' = "print" /\ fn # "preallocated" THEN 1 ELSE 0
    BY <2>1 DEF StartPrint
  <2> QED BY <2>2 DEF BufferInv
<1>5. CASE UNCHANGED pvars
  BY <1>5 DEF BufferInv, pvars
<1> QED BY <1>1, <1>2, <1>3, <1>4, <1>5 DEF PStep

(* cJSON.c:373-471, 1087-1199: the buffer is freed when the printer fails, *)
(* once, by ensure or by the function that allocated it, and the caller's  *)
(* own never; otherwise it is handed over.                                 *)
THEOREM PrintingFrees == PrintSpec => []PrinterFrees
<1>1. PIdle => BufferInv
  BY DEF PIdle, BufferInv
<1>2. BufferInv => PrinterFrees
  BY DEF BufferInv, PrinterFrees
<1> QED BY <1>1, <1>2, BufferStep, PTL DEF PrintSpec
=============================================================================
