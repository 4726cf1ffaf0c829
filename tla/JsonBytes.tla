------------------------------ MODULE JsonBytes ------------------------------
(***************************************************************************)
(* Text as cJSON sees it: bytes, a C string ending at its first zero byte, *)
(* and the values a text stands for.  A value is a tuple whose first       *)
(* component names the kind of item; an array carries a sequence of        *)
(* values, an object a sequence of pairs of a name and a value.  A number  *)
(* is carried as the bytes it is written with: what strtod and printf make *)
(* of a double is theirs.                                                  *)
(***************************************************************************)
EXTENDS Integers, Sequences

Nul == 0
Tab == 9
Newline == 10
Space == 32
Quote == 34
Plus == 43
Comma == 44
Minus == 45
Dot == 46
Slash == 47
Zero == 48
Nine == 57
Colon == 58
OpenBracket == 91
Backslash == 92
CloseBracket == 93
OpenBrace == 123
CloseBrace == 125

NullText == <<110, 117, 108, 108>>
FalseText == <<102, 97, 108, 115, 101>>
TrueText == <<116, 114, 117, 101>>

Literals == {<<NullText, <<"null">>>>, <<FalseText, <<"false">>>>, <<TrueText, <<"true">>>>}

Digit(b) == b \in Zero .. Nine

(* \b \f \n \r \t: the byte behind the backslash and the byte it stands for. *)
Escapes == {<<98, 8>>, <<102, 12>>, <<110, 10>>, <<114, 13>>, <<116, 9>>}

(* What every reader of a char* sees of the bytes it points at. *)
CString(s) ==
  LET zeros == {i \in 1 .. Len(s) : s[i] = Nul}
  IN IF zeros = {} THEN s
     ELSE SubSeq(s, 1, (CHOOSE i \in zeros : \A j \in zeros : i <= j) - 1)
=============================================================================
