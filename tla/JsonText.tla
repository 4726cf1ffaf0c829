------------------------------- MODULE JsonText -------------------------------
(***************************************************************************)
(* The printer and the parser of cJSON together: a text is parsed, or a    *)
(* value is printed and what was printed is parsed again, minified or not. *)
(* What they ought to do is said by a rendering of values that is written  *)
(* down directly, without buffers, offsets or white space to skip.         *)
(***************************************************************************)
EXTENDS JsonParse, JsonPrint, FiniteSets

CONSTANT
  Texts  (* the texts to parse, without their zero byte *)

allvars == <<vars, pvars>>

(* cJSON_Minify, which rewrites in place; the part behind a comment or a   *)
(* string that does not end is left out.                                   *)
RECURSIVE Minify(_)
RECURSIVE BehindLine(_)
RECURSIVE BehindComment(_)
RECURSIVE InLiteral(_)

BehindLine(t) == IF t = <<>> \/ Head(t) = Newline THEN t ELSE BehindLine(Tail(t))

BehindComment(t) ==
  IF Len(t) < 2 THEN <<>>
  ELSE IF t[1] = 42 /\ t[2] = Slash THEN Tail(Tail(t)) ELSE BehindComment(Tail(t))

InLiteral(t) ==
  IF t = <<>> THEN <<>>
  ELSE IF Head(t) = Quote THEN <<Quote>> \o Minify(Tail(t))
       ELSE IF Head(t) = Backslash /\ Len(t) > 1
            THEN SubSeq(t, 1, 2) \o InLiteral(SubSeq(t, 3, Len(t)))
            ELSE <<Head(t)>> \o InLiteral(Tail(t))

Minify(t) ==
  IF t = <<>> THEN <<>>
  ELSE LET b == Head(t)
           second == IF Len(t) > 1 THEN t[2] ELSE Nul
       IN IF b \in {Space, Tab, 13, Newline} THEN Minify(Tail(t))
          ELSE IF b = Slash /\ second = Slash THEN Minify(BehindLine(t))
          ELSE IF b = Slash /\ second = 42 THEN Minify(BehindComment(t))
          ELSE IF b = Quote THEN <<Quote>> \o InLiteral(Tail(t))
          ELSE <<b>> \o Minify(Tail(t))

-----------------------------------------------------------------------------
Init == Idle /\ PIdle

ReadText ==
  /\ pc = "idle" /\ ppc = "idle"
  /\ \E t \in Texts, s \in BOOLEAN : cJSON_ParseWithOpts(t, s)
  /\ UNCHANGED pvars

PrintDocument ==
  /\ pc = "idle" /\ ppc = "idle"
  /\ CallPrint
  /\ UNCHANGED vars

ReadBack ==
  /\ ppc = "printed" /\ pc = "idle"
  /\ \E t \in {CString(mem), Minify(CString(mem))} : cJSON_ParseWithOpts(t, TRUE)
  /\ UNCHANGED pvars

Next ==
  \/ ReadText \/ PrintDocument \/ ReadBack
  \/ Step /\ UNCHANGED pvars
  \/ PStep /\ UNCHANGED vars

Spec == Init /\ [][Next]_allvars

(* The functions are called and run to their end. *)
FairSpec == Spec /\ WF_allvars(Step /\ UNCHANGED pvars) /\ WF_allvars(PStep /\ UNCHANGED vars)

-----------------------------------------------------------------------------
(* The rendering *)

RECURSIVE Joined(_, _)
Joined(parts, between) ==
  IF Len(parts) < 2 THEN FlattenSeq(parts)
  ELSE Head(parts) \o between \o Joined(Tail(parts), between)

Quoted(s) == <<Quote>> \o FlattenSeq([i \in 1 .. Len(s) |-> Escaped(s[i])]) \o <<Quote>>

RECURSIVE Render(_, _, _)
Render(v, format, level) ==
  CASE v[1] \in {"number", "raw"} -> v[2]
    [] v[1] = "string" -> Quoted(v[2])
    [] v[1] = "array" ->
         <<OpenBracket>>
         \o Joined([i \in 1 .. Len(v[2]) |-> Render(v[2][i], format, level + 1)],
                   IF format THEN <<Comma, Space>> ELSE <<Comma>>)
         \o <<CloseBracket>>
    [] v[1] = "object" ->
         LET member(i) == (IF format THEN Tabs(level + 1) ELSE <<>>)
                          \o Quoted(v[2][i][1]) \o (IF format THEN <<Colon, Tab>> ELSE <<Colon>>)
                          \o Render(v[2][i][2], format, level + 1)
             lines == Joined([i \in 1 .. Len(v[2]) |-> member(i)],
                             IF format THEN <<Comma, Newline>> ELSE <<Comma>>)
         IN IF ~format THEN <<OpenBrace>> \o lines \o <<CloseBrace>>
            ELSE <<OpenBrace, Newline>> \o lines \o If(lines # <<>>, Newline)
                 \o Tabs(level) \o <<CloseBrace>>
    [] OTHER -> (CHOOSE l \in Literals : l[2] = v)[1]

(* A value and all it contains. *)
RECURSIVE Inside(_)
Inside(v) ==
  {v} \cup CASE v[1] = "array" -> UNION {Inside(v[2][i]) : i \in DOMAIN v[2]}
             [] v[1] = "object" -> UNION {Inside(v[2][i][2]) : i \in DOMAIN v[2]}
             [] OTHER -> {}

Printable(v) == Invalid \notin Inside(v)
HasRaw(v) == \E w \in Inside(v) : w[1] = "raw"

RECURSIVE Nesting(_)
Nesting(v) ==
  IF v[1] \notin {"array", "object"} THEN 0
  ELSE LET inner == {Nesting(IF v[1] = "array" THEN v[2][i] ELSE v[2][i][2]) :
                       i \in 1 .. Len(v[2])}
       IN 1 + CHOOSE n \in inner \cup {0} : \A m \in inner : m <= n

(* An item, its text and its name are allocations. *)
RECURSIVE Allocations(_)
Allocations(v) ==
  1 + CASE v[1] = "string" -> 1
        [] v[1] = "array" ->
             FoldLeft(LAMBDA n, e : n + Allocations(e), 0, v[2])
        [] v[1] = "object" ->
             FoldLeft(LAMBDA n, m : n + 1 + Allocations(m[2]), 0, v[2])
        [] OTHER -> 0

-----------------------------------------------------------------------------
(* Properties *)

GivenText == SubSeq(content, 1, Length - 1)
Result == stack[1].items[1]
Renderings ==
  {<<v, Render(v, f, 0)>> :
     v \in {d \in Documents : Printable(d) /\ ~HasRaw(d)}, f \in BOOLEAN}

(* What a failed call allocated is freed, once, whatever it was doing when *)
(* the text turned out wrong or memory ran out; what a successful one      *)
(* allocated is the value it returns and nothing else.                     *)
NothingLeaked ==
  /\ ParserFrees
  /\ pc = "done" => owned = Allocations(Result)
  /\ PrinterFrees

(* What is printed, in either format, into a buffer of any first size that *)
(* grows on the way, is the rendering of the value, and nothing is printed *)
(* of a value with an invalid item in it.  Reading it back, minified or    *)
(* not, gives the value, if there is no raw item in it: a raw item prints  *)
(* the text it was given, which is read as whatever that text says         *)
(* (cJSON.c:1267-1338).                                                    *)
RoundTrip ==
  ppc = "printed" =>
    /\ Printable(item)
    /\ pc = "idle" => CString(mem) = Render(item, call.format, 0)
    /\ ~HasRaw(item) =>
         /\ pc = "done" => Result = item
         /\ pc = "failed" => starved \/ Nesting(item) > NestingLimit

(* cJSON_PrintPreallocated prints what can be printed with two bytes more  *)
(* than the text and never with less: cJSON.h:152 advises five more than   *)
(* needed.                                                                 *)
PreallocatedRoom ==
  call.fn = "preallocated" /\ Printable(item) =>
    LET enough == call.size >= Len(Render(item, call.format, 0)) + 2
    IN (ppc = "printed" => enough) /\ (ppc = "refused" => ~enough)

(* A text that begins with a document, without raw items, is read as that  *)
(* document, whatever follows it, unless it is nested too deep, and a text *)
(* that ends inside a document is rejected: this is what serid's one recv  *)
(* per event turns into messages taken and messages lost.                  *)
FirstDocument ==
  pc \in {"done", "failed"} =>
    \A r \in Renderings :
      LET v == r[1]
          n == Len(r[2])
      IN /\ /\ IsPrefix(r[2], GivenText) /\ Nesting(v) <= NestingLimit
            /\ v[1] = "number" => ~NumberByte(At(n))
            /\ ~starved /\ ~strict
            => pc = "done" /\ Result = v /\ offset = n
         /\ v[1] \in {"array", "object", "string"} /\ IsStrictPrefix(GivenText, r[2])
            => pc = "failed"
         /\ Nesting(v) > NestingLimit /\ IsPrefix(r[2], GivenText) => pc = "failed"
=============================================================================
