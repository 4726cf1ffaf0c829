------------------------------ MODULE JsonParse ------------------------------
(***************************************************************************)
(* The parser of cJSON (cJSON_ParseWithOpts and below), one action per     *)
(* piece of a parse function between two calls of another one.  The C      *)
(* stack is the variable stack, one frame per list that is being built;    *)
(* offsets count from 0 as in the code, and the content includes the zero  *)
(* byte that ends it, which the buffer's length counts.                    *)
(***************************************************************************)
EXTENDS JsonBytes

CONSTANTS
  NestingLimit,  (* CJSON_NESTING_LIMIT                              *)
  NumberBuffer,  (* sizeof(number_c_string)                          *)
  AllocFails     (* whether hooks.allocate may return NULL           *)

ASSUME ParseAssumption ==
  NestingLimit \in Nat /\ NumberBuffer \in Nat \ {0} /\ AllocFails \in BOOLEAN

VARIABLES
  pc,       (* what the parser does next                                     *)
  content,  (* buffer.content, the zero byte included                        *)
  offset,   (* buffer.offset                                                 *)
  depth,    (* buffer.depth                                                  *)
  stack,    (* the lists being built, the root item's at the bottom          *)
  str,      (* the locals of parse_string                                    *)
  owned,    (* allocations made and not freed                                *)
  strict,   (* require_null_terminated                                       *)
  starved   (* history: an allocation failed                                 *)

vars == <<pc, content, offset, depth, stack, str, owned, strict, starved>>

Length == Len(content)
At(i) == IF i < Length THEN content[i + 1] ELSE Nul
Top == stack[Len(stack)]
Below == SubSeq(stack, 1, Len(stack) - 1)

(* A list under construction; count is what cJSON_Delete(head) would free. *)
Frame(kind, count) == [kind |-> kind, items |-> <<>>, name |-> <<>>, count |-> count]
Attach(frame, v, n) ==
  [frame EXCEPT !.items = Append(@, IF frame.kind = "object" THEN <<frame.name, v>> ELSE v),
                !.count = @ + n]

NoString == [role |-> "text", start |-> 0, end |-> 0, skipped |-> 0,
             ptr |-> 0, out |-> <<>>, cap |-> 0]

Idle ==
  /\ pc = "idle" /\ content = <<>> /\ offset = 0 /\ depth = 0
  /\ stack = <<>> /\ str = NoString /\ owned = 0
  /\ strict = FALSE /\ starved = FALSE

-----------------------------------------------------------------------------
Given == IF AllocFails THEN BOOLEAN ELSE {TRUE}

(* Mutant: the step back from the end is forgotten. *)
SkipToEnd(c, from) ==
  \E e \in from .. Len(c) :
    /\ \A i \in from .. (e - 1) : c[i + 1] <= Space
    /\ e < Len(c) => c[e + 1] > Space
    /\ offset' = e

(* The zero byte is skipped as white space, hence the step back. *)
buffer_skip_whitespace(c, from) ==
  \E e \in from .. Len(c) :
    /\ \A i \in from .. (e - 1) : c[i + 1] <= Space
    /\ e < Len(c) => c[e + 1] > Space
    /\ offset' = IF e = Len(c) THEN e - 1 ELSE e

skip_utf8_bom(c) == IF Len(c) > 4 /\ SubSeq(c, 1, 3) = <<239, 187, 191>> THEN 3 ELSE 0

Fail(o) == pc' = "unwind" /\ offset' = o

cJSON_ParseWithOpts(value, require_null_terminated) ==
  /\ pc = "idle"
  /\ LET c == Append(value, Nul)
     IN /\ content' = c
        /\ \E given \in Given :
             /\ starved' = ~given
             /\ IF given
                THEN /\ buffer_skip_whitespace(c, skip_utf8_bom(c))
                     /\ pc' = "value" /\ owned' = 1 /\ stack' = <<Frame("root", 1)>>
                ELSE pc' = "failed" /\ offset' = 0 /\ owned' = 0 /\ stack' = <<>>
  /\ strict' = require_null_terminated
  /\ UNCHANGED <<depth, str>>

(* An item of the list in Top has its value v, which ends at o and owns n  *)
(* allocations besides the item.                                           *)
Parsed(frames, v, o, n) ==
  LET top == frames[Len(frames)]
      rest == SubSeq(frames, 1, Len(frames) - 1)
  IN /\ stack' = Append(rest, Attach(top, v, n))
     /\ IF top.kind = "root"
        THEN pc' = "end" /\ offset' = o
        ELSE pc' = "next" /\ buffer_skip_whitespace(content, o)

-----------------------------------------------------------------------------
(* parse_value *)

ParseLiteral ==
  /\ pc = "value"
  /\ \E l \in Literals :
       /\ offset + Len(l[1]) <= Length
       /\ \A i \in 1 .. Len(l[1]) : At(offset + i - 1) = l[1][i]
       /\ Parsed(stack, l[2], offset + Len(l[1]), 0)
  /\ UNCHANGED <<content, depth, str, owned, strict, starved>>

NumberByte(b) == Digit(b) \/ b \in {Plus, Minus, Dot, 69, 101}

(* strtod accepts b[i .. j]: a sign, digits with at most one point, and an *)
(* exponent if it has digits.                                              *)
Digits(s) == \A i \in 1 .. Len(s) : Digit(s[i])
Unsigned(s) == IF s # <<>> /\ s[1] \in {Plus, Minus} THEN SubSeq(s, 2, Len(s)) ELSE s
Mantissa(s) ==
  /\ \E i \in 1 .. Len(s) : Digit(s[i])
  /\ \E p \in 0 .. Len(s) :
       /\ Digits(SubSeq(s, 1, p))
       /\ p < Len(s) => s[p + 1] = Dot /\ Digits(SubSeq(s, p + 2, Len(s)))
Numeral(s) ==
  LET u == Unsigned(s)
  IN \/ Mantissa(u)
     \/ \E e \in 1 .. Len(u) :
          /\ u[e] \in {69, 101} /\ Mantissa(SubSeq(u, 1, e - 1))
          /\ LET x == Unsigned(SubSeq(u, e + 1, Len(u))) IN x # <<>> /\ Digits(x)

(* strtod of the token of n bytes at offset reads k of them, 0 when none *)
(* of its prefixes is a number.                                          *)
strtod(n, k) ==
  /\ k = 0 \/ Numeral(SubSeq(content, offset + 1, offset + k))
  /\ \A j \in (k + 1) .. n : ~Numeral(SubSeq(content, offset + 1, offset + j))

parse_number ==
  /\ pc = "value"
  /\ At(offset) = Minus \/ Digit(At(offset))
  /\ \E n \in 1 .. Length, k \in 0 .. Length :
       /\ n < NumberBuffer /\ offset + n <= Length
       /\ \A i \in 0 .. (n - 1) : NumberByte(At(offset + i))
       /\ n < NumberBuffer - 1 /\ offset + n < Length => ~NumberByte(At(offset + n))
       /\ k <= n /\ strtod(n, k)
       /\ IF k = 0 THEN Fail(offset) /\ UNCHANGED stack
          ELSE Parsed(stack, <<"number", SubSeq(content, offset + 1, offset + k)>>,
                      offset + k, 0)
  /\ UNCHANGED <<content, depth, str, owned, strict, starved>>

StringAt(o, role) == [NoString EXCEPT !.role = role, !.start = o, !.end = o + 1]

ParseText ==
  /\ pc = "value" /\ At(offset) = Quote
  /\ pc' = "scan" /\ str' = StringAt(offset, "text")
  /\ UNCHANGED <<content, offset, depth, stack, owned, strict, starved>>

(* The head of parse_array and of parse_object. *)
Opened(b) == IF b = OpenBracket THEN "array" ELSE "object"

OpenList ==
  /\ pc = "value" /\ At(offset) \in {OpenBracket, OpenBrace}
  /\ IF depth >= NestingLimit
     THEN Fail(offset) /\ UNCHANGED <<depth, stack>>
     ELSE /\ depth' = depth + 1
          /\ stack' = Append(stack, Frame(Opened(At(offset)), 0))
          /\ buffer_skip_whitespace(content, offset + 1)
          /\ pc' = "first"
  /\ UNCHANGED <<content, str, owned, strict, starved>>

NoValue ==
  /\ pc = "value"
  /\ ~ \E l \in Literals : /\ offset + Len(l[1]) <= Length
                           /\ \A i \in 1 .. Len(l[1]) : At(offset + i - 1) = l[1][i]
  /\ At(offset) \notin {Quote, OpenBracket, OpenBrace, Minus} /\ ~Digit(At(offset))
  /\ Fail(offset)
  /\ UNCHANGED <<content, depth, stack, str, owned, strict, starved>>

-----------------------------------------------------------------------------
(* The loop of parse_array and parse_object *)

Closes(b) == b = IF Top.kind = "array" THEN CloseBracket ELSE CloseBrace

(* Mutant: depth-- is missing, so that siblings count as nested. *)
CloseStaysDeep ==
  /\ pc \in {"first", "next"} /\ Closes(At(offset))
  /\ Parsed(Below, <<Top.kind, Top.items>>, offset + 1, Top.count)
  /\ UNCHANGED <<content, depth, str, owned, strict, starved>>

CloseList ==
  /\ pc \in {"first", "next"} /\ Closes(At(offset))
  /\ depth' = depth - 1
  /\ Parsed(Below, <<Top.kind, Top.items>>, offset + 1, Top.count)
  /\ UNCHANGED <<content, str, owned, strict, starved>>

(* Another item is allocated and linked; the item or its name starts at    *)
(* the next byte that is not white space.                                  *)
NextItem ==
  /\ \/ pc = "first" /\ ~Closes(At(offset))
     \/ pc = "next" /\ At(offset) = Comma
  /\ LET from == IF pc = "first" THEN offset - 1 ELSE offset
     IN \E given \in Given :
          /\ starved' = ~given
          /\ IF given
             THEN /\ owned' = owned + 1
                  /\ stack' = Append(Below, [Top EXCEPT !.count = @ + 1])
                  /\ pc' = IF Top.kind = "array" THEN "value" ELSE "name"
                  /\ buffer_skip_whitespace(content, from + 1)
             ELSE Fail(from) /\ UNCHANGED <<owned, stack>>
  /\ UNCHANGED <<content, depth, str, strict>>

Unclosed ==
  /\ pc = "next" /\ ~Closes(At(offset)) /\ At(offset) # Comma
  /\ Fail(offset)
  /\ UNCHANGED <<content, depth, stack, str, owned, strict, starved>>

(* parse_object calls parse_string without a look at the byte. *)
ParseName ==
  /\ pc = "name"
  /\ IF At(offset) = Quote
     THEN pc' = "scan" /\ str' = StringAt(offset, "name") /\ UNCHANGED offset
     ELSE Fail(offset + 1) /\ UNCHANGED str
  /\ UNCHANGED <<content, depth, stack, owned, strict, starved>>

ParseColon ==
  /\ pc = "colon"
  /\ IF At(offset) = Colon
     THEN pc' = "value" /\ buffer_skip_whitespace(content, offset + 1)
     ELSE Fail(offset)
  /\ UNCHANGED <<content, depth, stack, str, owned, strict, starved>>

-----------------------------------------------------------------------------
(* parse_string *)

InString == str.end < Length /\ At(str.end) # Quote

ScanString ==
  /\ pc = "scan" /\ InString
  /\ IF At(str.end) # Backslash
     THEN str' = [str EXCEPT !.end = @ + 1] /\ UNCHANGED <<pc, offset>>
     ELSE IF str.end + 1 >= Length
          THEN Fail(str.start + 1) /\ UNCHANGED str
          ELSE /\ str' = [str EXCEPT !.end = @ + 2, !.skipped = @ + 1]
               /\ UNCHANGED <<pc, offset>>
  /\ UNCHANGED <<content, depth, stack, owned, strict, starved>>

(* Mutant: room for one byte per escape sequence more is given back. *)
AllocateTooLittle ==
  /\ pc = "scan" /\ ~InString
  /\ IF str.end >= Length
     THEN Fail(str.start + 1) /\ UNCHANGED <<str, owned>>
     ELSE /\ pc' = "copy" /\ owned' = owned + 1
          /\ str' = [str EXCEPT !.ptr = str.start + 1,
                                !.cap = str.end - str.start - 2 * str.skipped]
          /\ UNCHANGED offset
  /\ UNCHANGED <<content, depth, stack, strict, starved>>

(* cap does not count the byte for the zero that ends the output. *)
AllocateOutput ==
  /\ pc = "scan" /\ ~InString
  /\ \E given \in IF str.end < Length THEN Given ELSE {TRUE} :
       /\ starved' = ~given
       /\ IF str.end >= Length \/ ~given
          THEN Fail(str.start + 1) /\ UNCHANGED <<str, owned>>
          ELSE /\ pc' = "copy" /\ owned' = owned + 1
               /\ str' = [str EXCEPT !.ptr = str.start + 1,
                                     !.cap = str.end - str.start - str.skipped]
               /\ UNCHANGED offset
  /\ UNCHANGED <<content, depth, stack, strict>>

HexDigit(b) == Digit(b) \/ b \in 65 .. 70 \/ b \in 97 .. 102
HexValue(b) == IF Digit(b) THEN b - Zero ELSE IF b <= 70 THEN b - 55 ELSE b - 87

(* An invalid digit makes the code point 0. *)
parse_hex4(i) ==
  IF \A j \in i .. (i + 3) : HexDigit(At(j))
  THEN 4096 * HexValue(At(i)) + 256 * HexValue(At(i + 1))
       + 16 * HexValue(At(i + 2)) + HexValue(At(i + 3))
  ELSE 0

Tail6(n) == 128 + (n % 64)
utf8(n) ==
  IF n < 128 THEN <<n>>
  ELSE IF n < 2048 THEN <<192 + n \div 64, Tail6(n)>>
  ELSE IF n < 65536 THEN <<224 + n \div 4096, Tail6(n \div 64), Tail6(n)>>
  ELSE <<240 + n \div 262144, Tail6(n \div 4096), Tail6(n \div 64), Tail6(n)>>

(* The sequence length, 0 for a failure, and the bytes it stands for. *)
utf16_literal_to_utf8(i, end) ==
  LET none == [length |-> 0, bytes |-> <<>>]
      first == parse_hex4(i + 2)
      second == parse_hex4(i + 8)
      paired == /\ end - i >= 12 /\ At(i + 6) = Backslash /\ At(i + 7) = 117
                /\ second \in 56320 .. 57343
  IN IF end - i < 6 \/ first \in 56320 .. 57343 THEN none
     ELSE IF first \notin 55296 .. 56319 THEN [length |-> 6, bytes |-> utf8(first)]
     ELSE IF paired
     THEN [length |-> 12, bytes |-> utf8(65536 + (first % 1024) * 1024 + (second % 1024))]
     ELSE none

Emit(bytes, n) == str' = [str EXCEPT !.out = @ \o bytes, !.ptr = @ + n]

CopyPlain ==
  /\ pc = "copy" /\ str.ptr < str.end /\ At(str.ptr) # Backslash
  /\ Emit(<<At(str.ptr)>>, 1)
  /\ UNCHANGED <<pc, content, offset, depth, stack, owned, strict, starved>>

CopyEscape ==
  /\ pc = "copy" /\ str.ptr < str.end /\ At(str.ptr) = Backslash
  /\ \/ \E e \in Escapes : At(str.ptr + 1) = e[1] /\ Emit(<<e[2]>>, 2)
     \/ At(str.ptr + 1) \in {Quote, Backslash, Slash} /\ Emit(<<At(str.ptr + 1)>>, 2)
     \/ /\ At(str.ptr + 1) = 117
        /\ LET u == utf16_literal_to_utf8(str.ptr, str.end)
           IN u.length > 0 /\ Emit(u.bytes, u.length)
  /\ UNCHANGED <<pc, content, offset, depth, stack, owned, strict, starved>>

BadEscape ==
  /\ str.ptr < str.end /\ At(str.ptr) = Backslash
  /\ \A e \in Escapes : At(str.ptr + 1) # e[1]
  /\ At(str.ptr + 1) \notin {Quote, Backslash, Slash}
  /\ At(str.ptr + 1) = 117 => utf16_literal_to_utf8(str.ptr, str.end).length = 0

(* Mutant: the output is not freed at fail. *)
CopyFailsKeepingOutput ==
  /\ pc = "copy" /\ BadEscape
  /\ Fail(str.ptr)
  /\ UNCHANGED <<content, depth, stack, str, owned, strict, starved>>

CopyFails ==
  /\ pc = "copy" /\ BadEscape
  /\ owned' = owned - 1
  /\ Fail(str.ptr)
  /\ UNCHANGED <<content, depth, stack, str, strict, starved>>

CopyEnds ==
  /\ pc = "copy" /\ str.ptr >= str.end
  /\ IF str.role = "text"
     THEN Parsed(stack, <<"string", CString(str.out)>>, str.end + 1, 1)
     ELSE /\ stack' = Append(Below, [Top EXCEPT !.name = CString(str.out), !.count = @ + 1])
          /\ pc' = "colon" /\ buffer_skip_whitespace(content, str.end + 1)
  /\ UNCHANGED <<content, depth, str, owned, strict, starved>>

-----------------------------------------------------------------------------
(* The end of cJSON_ParseWithOpts *)

Finish ==
  /\ pc = "end"
  /\ IF ~strict
     THEN pc' = "done" /\ UNCHANGED offset
     ELSE \E e \in 0 .. Length :
            /\ e >= offset /\ \A i \in offset .. (e - 1) : At(i) <= Space
            /\ e < Length => At(e) > Space
            /\ IF e = Length THEN pc' = "done" /\ offset' = e - 1 ELSE Fail(e)
  /\ UNCHANGED <<content, depth, stack, str, owned, strict, starved>>

(* A parse function that fails deletes the list it was building and its    *)
(* caller fails in turn; the last one deletes the root item.               *)
Unwind ==
  /\ pc = "unwind"
  /\ IF stack = <<>>
     THEN /\ pc' = "failed"
          /\ offset' = IF offset < Length THEN offset ELSE Length - 1
          /\ UNCHANGED <<stack, owned>>
     ELSE /\ stack' = Below /\ owned' = owned - Top.count
          /\ UNCHANGED <<pc, offset>>
  /\ UNCHANGED <<content, depth, str, strict, starved>>

Step ==
  \/ ParseLiteral \/ parse_number \/ ParseText \/ OpenList \/ NoValue
  \/ CloseList \/ NextItem \/ Unclosed \/ ParseName \/ ParseColon
  \/ ScanString \/ AllocateOutput \/ CopyPlain \/ CopyEscape \/ CopyFails \/ CopyEnds
  \/ Finish \/ Unwind

(* The parser by itself, given any text once. *)
ParseSpec ==
  Idle /\ [][Step \/ \E text \in Seq(1 .. 255), terminated \in BOOLEAN :
                      cJSON_ParseWithOpts(text, terminated)]_vars

-----------------------------------------------------------------------------
(* Properties *)

Working == {"value", "first", "next", "name", "colon", "scan", "copy", "end"}

(* Every byte the parser looks at lies inside the content it was given,    *)
(* though it looks without asking at the byte a name, a colon or a number  *)
(* should start at, and at the byte behind a backslash; the position it    *)
(* reports for an error does too.                                          *)
ReadsInside ==
  /\ pc \in Working \cup {"done", "failed"} => offset \in 0 .. (Length - 1)
  /\ pc = "unwind" => offset \in 0 .. Length
  /\ pc \in {"scan", "copy"} => str.start < str.end /\ str.end <= Length
  /\ pc = "copy" => /\ str.end < Length /\ At(str.end) = Quote
                    /\ str.ptr \in (str.start + 1) .. (str.end + 1)

(* parse_string counts its output before it writes it: what it writes      *)
(* never exceeds what it allocated, also when the escape sequences it      *)
(* copies are not those it counted.                                        *)
StringFits == pc = "copy" => Len(str.out) <= str.cap

(* Whatever goes wrong at whichever place, what was allocated until then   *)
(* is freed, once; when nothing does, it is what cJSON_Delete of the root  *)
(* item would free.                                                        *)
ParserFrees ==
  /\ pc = "failed" => owned = 0
  /\ pc = "done" => Len(stack) = 1 /\ owned = Top.count
=============================================================================
