------------------------------ MODULE MCJsonText ------------------------------
(* Values with every kind of item and names and strings that need escapes, *)
(* and texts: documents cut anywhere, documents joined, structure put      *)
(* together from its tokens, and strings from pieces of escape sequences.  *)
EXTENDS JsonText

Num(b) == <<"number", b>>
Txt(b) == <<"string", b>>
Arr(s) == <<"array", s>>
Obj(s) == <<"object", s>>

Awkward == <<97, 34, 92, 10, 1, 195, 169>>

MCDocuments ==
  {<<"null">>, <<"true">>, <<"raw", <<49, 50>>>>, Num(<<45, 49>>), Txt(<<>>), Txt(Awkward), Arr(<<>>), Obj(<<>>),
   Arr(<<Num(<<49>>), Arr(<<<<"false">>>>), Arr(<<>>)>>),
   Arr(<<Arr(<<Arr(<<>>)>>)>>),
   Obj(<< <<<<97>>, Arr(<<Num(<<50>>), <<"null">>>>)>>, <<<<10>>, Txt(<<98>>)>> >>),
   Obj(<< <<<<>>, Obj(<< <<<<97>>, <<"true">>>> >>)>> >>),
   Arr(<<<<"raw", <<91>>>>, <<"null">>>>), Obj(<< <<<<97>>, Arr(<<Txt(<<98>>), Invalid>>)>> >>)}

MCValues == UNION {Inside(v) : v \in MCDocuments}

Cut(s) == {SubSeq(s, 1, n) : n \in 0 .. Len(s)}
Small == {<<"null">>, Num(<<49>>), Txt(<<97>>), Arr(<<>>), Obj(<< <<<<97>>, Num(<<50>>)>> >>)}
Whole == {Render(v, f, 0) : v \in {d \in MCDocuments : Printable(d)} \cup Small, f \in BOOLEAN}

Tokens == {<<OpenBrace>>, <<CloseBrace>>, <<OpenBracket>>, <<CloseBracket>>, <<Comma>>,
           <<Colon>>, <<Quote, 97, Quote>>, <<49>>, <<Space>>, NullText, <<Minus>>}
Pieces == {<<97>>, <<Quote>>, <<Backslash>>, <<Backslash, Quote>>, <<Backslash, 110>>,
           <<Backslash, 117, 48, 48, 52, 49>>, <<Backslash, 117, 48, 48>>,
           <<Backslash, 117, 100, 56, 51, 100>>, <<Backslash, 117, 68, 69, 48, 48>>,
           <<Backslash, 117, 50, 48, 97, 67>>}
Strung(parts, n) == {FlattenSeq(s) : s \in [1 .. n -> parts]}

Bom == <<239, 187, 191>>
Numbers == {<<49, Dot, 53, 69, 43, 50>>, <<Dot, 53>>, <<49, 69>>, <<49, 50, 51, 52, 53, 54, 55, 56, 57>>,
            <<Minus, Dot, 50, 69, 49>>, <<49, Dot, Dot>>}

MCTexts ==
  UNION {Cut(s) : s \in Whole}
  \cup {s \o t : s \in Whole, t \in {Render(v, FALSE, 0) : v \in Small}}
  \cup UNION {Strung(Tokens, n) : n \in 1 .. 4}
  \cup {<<Quote>> \o s \o <<Quote>> : s \in UNION {Strung(Pieces, n) : n \in 1 .. 3}}
  \cup {Bom \o s : s \in Whole} \cup Numbers
=============================================================================
