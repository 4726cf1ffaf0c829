------------------------------ MODULE JsonPrint ------------------------------
(***************************************************************************)
(* The printer of cJSON: print_value and below write into a printbuffer    *)
(* through ensure, which lets it grow, for the three callers print,        *)
(* cJSON_PrintBuffered and cJSON_PrintPreallocated.  The C stack is the    *)
(* sequence todo of what is left to do: values to print, writes that       *)
(* reserve their bytes first, and calls of update_offset.                  *)
(***************************************************************************)
EXTENDS JsonBytes, FiniteSets, SequencesExt

CONSTANTS
  Documents,          (* the values to print                           *)
  Values,             (* these and all they contain                    *)
  Sizes,              (* the lengths of buffers callers provide        *)
  DefaultBufferSize,  (* default_buffer_size of print                  *)
  IntMax,             (* INT_MAX                                       *)
  Hooks,              (* whether the hooks may have a reallocate       *)
  MemoryFails         (* whether the hooks may return NULL             *)

ASSUME PrintAssumption ==
  /\ DefaultBufferSize \in Nat \ {0} /\ IntMax \in Nat
  /\ Hooks \subseteq BOOLEAN /\ MemoryFails \in BOOLEAN
  /\ Sizes \subseteq Nat

Bytes == 0 .. 255
Text == Seq(Bytes)

(* An item that cannot be printed: raw without a text, or of no type. *)
Invalid == <<"invalid">>

ASSUME ValueAssumption ==
  /\ Documents \subseteq Values
  /\ \A v \in Values :
       \/ v \in {<<"null">>, <<"false">>, <<"true">>, Invalid}
       \/ v[1] \in {"number", "raw", "string"} /\ v[2] \in Text
       \/ v[1] = "array" /\ v[2] \in Seq(Values)
       \/ v[1] = "object" /\ v[2] \in Seq(Text \X Values)

VARIABLES
  ppc,     (* what the printer does next                             *)
  item,    (* the value it was asked to print                        *)
  call,    (* the function called, its arguments and its hooks       *)
  p,       (* the printbuffer: length, offset, depth, buffer # NULL  *)
  mem,     (* the bytes of p.buffer written so far                   *)
  todo,
  buffers  (* buffers allocated and neither freed nor handed over    *)

pvars == <<ppc, item, call, p, mem, todo, buffers>>

PIdle ==
  /\ ppc = "idle" /\ item = <<"null">>
  /\ call = [fn |-> "none", format |-> FALSE, size |-> 0, realloc |-> TRUE]
  /\ p = [length |-> 0, offset |-> 0, depth |-> 0, alive |-> FALSE]
  /\ mem = <<>> /\ todo = <<>> /\ buffers = 0

MemoryGiven == IF MemoryFails THEN BOOLEAN ELSE {TRUE}

(* Callers: print allocates DefaultBufferSize, cJSON_PrintBuffered what it *)
(* is told, cJSON_PrintPreallocated uses the caller's buffer.              *)
Functions == {"print", "buffered", "preallocated"}

StartPrint(v, fn, format, size) ==
  /\ ppc = "idle"
  /\ item' = v
  /\ \E r \in Hooks :
       call' = [fn |-> fn, format |-> format, size |-> size, realloc |-> r]
  /\ \E given \in (IF fn = "preallocated" THEN {TRUE} ELSE MemoryGiven) :
       /\ ppc' = IF given THEN "print" ELSE "refused"
       /\ p' = [length |-> IF fn = "print" THEN DefaultBufferSize ELSE size,
                offset |-> 0, depth |-> 0, alive |-> given]
       /\ buffers' = IF given /\ fn # "preallocated" THEN 1 ELSE 0
  /\ mem' = <<>> /\ todo' = <<[op |-> "value", v |-> v]>>

-----------------------------------------------------------------------------
(* What is left to do *)

Value(v) == [op |-> "value", v |-> v]
Update == [op |-> "update"]
Elements(s) == [op |-> "elements", rest |-> s]
Members(s) == [op |-> "members", rest |-> s]

(* ensure(reserve), then the bytes at the pointer it returned, then what   *)
(* is added to the offset and to the depth.                                *)
Write(reserve, bytes, advance, deeper) ==
  [op |-> "write", reserve |-> reserve, bytes |-> bytes,
   advance |-> advance, deeper |-> deeper]

Tabs(n) == [i \in 1 .. n |-> Tab]
If(condition, b) == IF condition THEN <<b>> ELSE <<>>
Fmt == call.format

Hex(d) == IF d < 10 THEN Zero + d ELSE 87 + d

(* Mutant: a backslash is printed as it is. *)
BackslashKept(b) ==
  IF b = Quote THEN <<Backslash, b>>
  ELSE IF \E e \in Escapes : e[2] = b
       THEN <<Backslash, (CHOOSE e \in Escapes : e[2] = b)[1]>>
       ELSE <<b>>

Escaped(b) ==
  IF b \in {Quote, Backslash} THEN <<Backslash, b>>
  ELSE IF \E e \in Escapes : e[2] = b
       THEN <<Backslash, (CHOOSE e \in Escapes : e[2] = b)[1]>>
       ELSE IF b < 32
            THEN <<Backslash, 117, Zero, Zero, Hex(b \div 16), Hex(b % 16)>>
            ELSE <<b>>

EscapeCharacters(b) ==
  IF b \in {Quote, Backslash} \/ \E e \in Escapes : e[2] = b THEN 1
  ELSE IF b < 32 THEN 5 ELSE 0

Total(counts) ==
  LET n[k \in 0 .. Len(counts)] == IF k = 0 THEN 0 ELSE n[k - 1] + counts[k]
  IN  n[Len(counts)]

EscapedText(s) == FlattenSeq([i \in DOMAIN s |-> Escaped(s[i])])

(* Mutant: a control character is counted as a one character escape. *)
ShortString(s) ==
  LET extra == Cardinality({i \in DOMAIN s : s[i] < 32 \/ s[i] \in {Quote, Backslash}})
  IN Write(Len(s) + extra + 3, <<Quote>> \o EscapedText(s) \o <<Quote, Nul>>, 0, 0)

(* The first loop counts, the second one writes. *)
print_string_ptr(s) ==
  LET extra == Total([i \in DOMAIN s |-> EscapeCharacters(s[i])])
  IN Write(Len(s) + extra + 3, <<Quote>> \o EscapedText(s) \o <<Quote, Nul>>, 0, 0)

print_number(digits) == Write(Len(digits) + 1, Append(digits, Nul), Len(digits), 0)

OpenArray == Write(1, <<OpenBracket>>, 1, 1)
OpenObject == LET n == IF Fmt THEN 2 ELSE 1
              IN Write(n + 1, <<OpenBrace>> \o If(Fmt, Newline), n, 1)

print_value(v) ==
  LET kind == v[1]
  IN CASE kind \in {"null", "false", "true"} ->
            LET text == (CHOOSE l \in Literals : l[2] = v)[1]
            IN <<Write(Len(text) + 1, Append(text, Nul), 0, 0)>>
       [] kind = "number" -> <<print_number(v[2])>>
       [] kind = "raw" -> <<Write(Len(v[2]) + 1, Append(v[2], Nul), 0, 0)>>
       [] kind = "string" -> <<print_string_ptr(v[2])>>
       [] kind = "array" -> <<OpenArray, Elements(v[2])>>
       [] kind = "object" -> <<OpenObject, Members(v[2])>>

print_array(rest) ==
  IF rest = <<>> THEN <<Write(2, <<CloseBracket, Nul>>, 0, -1)>>
  ELSE LET n == IF Fmt THEN 2 ELSE 1
       IN <<Value(Head(rest)), Update>>
          \o (IF Len(rest) > 1
              THEN <<Write(n + 1, <<Comma>> \o If(Fmt, Space) \o <<Nul>>, n, 0)>>
              ELSE <<>>)
          \o <<Elements(Tail(rest))>>

CloseObject ==
  Write(IF Fmt THEN p.depth + 1 ELSE 2,
        (IF Fmt THEN Tabs(p.depth - 1) ELSE <<>>) \o <<CloseBrace, Nul>>, 0, -1)

print_object(rest) ==
  IF rest = <<>> THEN <<CloseObject>>
  ELSE LET n == IF Fmt THEN 2 ELSE 1
           more == Len(rest) > 1
           tail == If(more, Comma) \o If(Fmt, Newline)
       IN (IF Fmt THEN <<Write(p.depth, Tabs(p.depth), p.depth, 0)>> ELSE <<>>)
          \o <<print_string_ptr(Head(rest)[1]), Update,
               Write(n, <<Colon>> \o If(Fmt, Tab), n, 0),
               Value(Head(rest)[2]), Update,
               Write(Len(tail) + 1, Append(tail, Nul), Len(tail), 0),
               Members(Tail(rest))>>

-----------------------------------------------------------------------------
(* The machine *)

Now == todo[1]
Then(tasks) == todo' = tasks \o Tail(todo)

AtInvalid == Now.op = "value" /\ Now.v = Invalid

Expand ==
  /\ ppc = "print" /\ todo # <<>> /\ Now.op \in {"value", "elements", "members"}
  /\ ~AtInvalid
  /\ Then(CASE Now.op = "value" -> print_value(Now.v)
            [] Now.op = "elements" -> print_array(Now.rest)
            [] Now.op = "members" -> print_object(Now.rest))
  /\ UNCHANGED <<ppc, item, call, p, mem, buffers>>

(* What ensure asks for, and whether it gives up before it looks. *)
Needed == Now.reserve + p.offset + 1
Usable == /\ p.alive /\ ~(p.length > 0 /\ p.offset >= p.length)
          /\ Now.reserve <= IntMax

NewSize == IF 2 * Needed > IntMax THEN IntMax ELSE 2 * Needed

Put(old, size) ==
  /\ mem' = [i \in 1 .. (IF Len(old) > p.offset + Len(Now.bytes) THEN Len(old)
                         ELSE p.offset + Len(Now.bytes)) |->
               IF i \in (p.offset + 1) .. (p.offset + Len(Now.bytes))
               THEN Now.bytes[i - p.offset] ELSE old[i]]
  /\ p' = [p EXCEPT !.length = size, !.offset = @ + Now.advance, !.depth = @ + Now.deeper]
  /\ Then(<<>>)

Writing == ppc = "print" /\ todo # <<>> /\ Now.op = "write"

(* Mutant: needed does not count the byte for the zero. *)
FitsExactly ==
  /\ Writing /\ Usable /\ Needed - 1 <= p.length
  /\ Put(mem, p.length)
  /\ UNCHANGED <<ppc, item, call, buffers>>

Fits ==
  /\ Writing /\ Usable /\ Needed <= p.length
  /\ Put(mem, p.length)
  /\ UNCHANGED <<ppc, item, call, buffers>>

MayGrow == /\ Writing /\ Usable /\ Needed > p.length
           /\ call.fn # "preallocated" /\ Needed <= IntMax

(* Without reallocate only the bytes up to the offset are copied. *)
Grow ==
  /\ MayGrow
  /\ Put(IF call.realloc \/ Len(mem) <= p.offset + 1 THEN mem ELSE SubSeq(mem, 1, p.offset + 1),
         NewSize)
  /\ UNCHANGED <<ppc, item, call, buffers>>

Refused(b) ==
  /\ ppc' = "refused" /\ buffers' = b /\ p' = [p EXCEPT !.alive = FALSE]
  /\ UNCHANGED <<item, call, mem, todo>>

(* ensure frees the buffer it cannot enlarge; its callers find none. *)
CannotGrow == MayGrow /\ MemoryFails /\ Refused(buffers - 1)

(* ensure returns NULL and leaves the buffer, which the caller frees. *)
NoRoom ==
  /\ Writing
  /\ ~Usable \/ (Needed > p.length /\ (call.fn = "preallocated" \/ Needed > IntMax))
  /\ Refused(IF call.fn = "preallocated" THEN buffers ELSE buffers - 1)

(* print_value gives up, and with it every call above. *)
Unprintable ==
  /\ ppc = "print" /\ todo # <<>> /\ AtInvalid
  /\ Refused(IF call.fn = "preallocated" THEN buffers ELSE buffers - 1)

(* strlen from the offset: the next zero byte, or past what was written. *)
update_offset(o) ==
  /\ o \in p.offset .. Len(mem)
  /\ \A i \in (p.offset + 1) .. o : mem[i] # Nul
  /\ o < Len(mem) => mem[o + 1] = Nul

UpdateOffset ==
  /\ ppc = "print" /\ todo # <<>> /\ Now = Update
  /\ \E o \in p.offset .. Len(mem) : update_offset(o) /\ p' = [p EXCEPT !.offset = o]
  /\ Then(<<>>)
  /\ UNCHANGED <<ppc, item, call, mem, buffers>>

(* print cuts the buffer to size, the other two hand over what they have. *)
PrintEnds ==
  /\ ppc = "print" /\ todo = <<>>
  /\ \E o \in p.offset .. Len(mem), given \in MemoryGiven :
       /\ update_offset(o)
       /\ CASE call.fn # "print" ->
                 given /\ ppc' = "printed" /\ buffers' = 0 /\ UNCHANGED <<mem, p>>
            [] call.fn = "print" /\ given ->
                 /\ ppc' = "printed" /\ buffers' = 0 /\ mem' = SubSeq(mem, 1, o + 1)
                 /\ p' = [p EXCEPT !.offset = o, !.length = o + 1]
            [] OTHER -> ppc' = "refused" /\ buffers' = buffers - 1 /\ UNCHANGED <<mem, p>>
  /\ UNCHANGED <<item, call, todo>>

PStep == \/ Expand \/ Unprintable \/ UpdateOffset \/ PrintEnds
         \/ Fits \/ Grow \/ CannotGrow \/ NoRoom

CallPrint ==
  \E v \in Documents, fn \in Functions, f \in BOOLEAN, n \in Sizes :
    (fn = "print" => n = 0) /\ StartPrint(v, fn, f, n)

(* The printer by itself, given any document once. *)
PrintSpec == PIdle /\ [][PStep \/ CallPrint]_pvars

-----------------------------------------------------------------------------
(* Properties *)

(* Whatever a caller of ensure writes at the pointer it got lies inside    *)
(* the buffer: each of them asks for at least what it goes on to write.    *)
(* And whoever looks for the end of what was written finds a zero byte     *)
(* there, since whatever was printed last has written one.                 *)
StaysInside ==
  /\ p.alive => Len(mem) <= p.length
  /\ ppc = "print" /\ (todo = <<>> \/ Now = Update) =>
       \E i \in (p.offset + 1) .. Len(mem) : mem[i] = Nul

(* The buffer is freed when the printer fails, once, by ensure or by its   *)
(* caller, and otherwise handed over.                                      *)
PrinterFrees == ppc \in {"printed", "refused"} => buffers = 0
=============================================================================
