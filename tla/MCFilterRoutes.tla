--------------------------- MODULE MCFilterRoutes ---------------------------
(* Filters of one and two variables over eleven terms of every sort the     *)
(* rules tell apart, and three query constants the dictionary lacks.        *)
EXTENDS FilterRoutes

(* The numbers the terms hold and their sums.                               *)
Numerals == [i \in 1..60 |-> <<ToString(IF i > 40 THEN i + 255 ELSE IF i > 20 THEN i + 175 ELSE i - 6)>>]
TextOrder == <<<<>>, <<"(">>, <<"*">>, <<"0", "5">>>> \o Numerals \o
  <<<<"A">>, <<"A", "b">>, <<"NaN">>, <<"a">>, <<"b">>, <<"en">>, <<"i">>, <<"integer">>, <<"j">>,
    <<"n">>, <<"other">>, <<"x">>, <<"a", "b">>>>
AllTexts == Range(TextOrder)
RankOfText == [x \in AllTexts |-> CHOOSE i \in DOMAIN TextOrder : TextOrder[i] = x]

DtOrder == <<"HTML", "XMLLiteral", "boolean", "byte", "dateTime", "decimal", "double", "integer",
             "nonNegativeInteger", "other", "string">>
AllDatatypes == Range(DtOrder)
RankOfDt == [d \in AllDatatypes |-> CHOOSE i \in DOMAIN DtOrder : DtOrder[i] = d]

Number(dt, x, n) == [Text(x) EXCEPT !.dt = dt, !.val = n]
Plainly(x, n) == [Text(x) EXCEPT !.val = n]
Queried(t) == [t EXCEPT !.query = TRUE, !.lex = t.norm]

Five == Number("integer", <<"5">>, 5)
Spelled05 == [Number("integer", <<"0", "5">>, 5) EXCEPT !.norm = <<"5">>]
Byte300 == Number("byte", <<"300">>, 300)
IllTypedX == [Number("integer", <<"x">>, 0) EXCEPT !.conv = "none"]
NotANumber == [Number("double", <<"NaN">>, 0) EXCEPT !.conv = "nan"]
PlainAb == Plainly(<<"A", "b">>, 1)
TaggedA == [Plainly(<<"a">>, 2) EXCEPT !.lang = <<"en">>]
OtherA == [Number("other", <<"A">>, 0) EXCEPT !.conv = "none"]

AllTerms ==
  <<Five, Spelled05, Byte300, IllTypedX, NotANumber, PlainAb, TaggedA, OtherA,
    Iri(<<"i">>), Iri(<<"j">>), [Iri(<<"n">>) EXCEPT !.kind = "blank"]>>
QueryTerms ==
  <<Queried(Number("decimal", <<"4">>, 4)), Queried(Number("byte", <<"200">>, 200)),
    Queried(Plainly(<<"b">>, 3))>>

TheContext == "c" :> Queried(Five)

V == [op |-> "var", v |-> "v"]
W == [op |-> "var", v |-> "w"]
C == [op |-> "var", v |-> "c"]
U == [op |-> "var", v |-> "u"]
Const(t) == [op |-> "const", t |-> t]
Un(op, e) == [op |-> op, e |-> e]
Bin(op, a, b) == [op |-> op, l |-> a, r |-> b]
Rel(op, a, b) == [op |-> "rel", rel |-> op, l |-> a, r |-> b]
IsKind(kind, e) == [op |-> "isKind", kind |-> kind, e |-> e]
TextFn(fn, a, b) == [op |-> "text", fn |-> fn, l |-> a, r |-> b]
Match(e, x) == [op |-> "regex", e |-> e, t |-> Text(x)]
Plus(sign, a, b) == [op |-> "sum", sign |-> sign, l |-> a, r |-> b]
In(neg, e, ts) == [op |-> "in", neg |-> neg, e |-> e, items |-> ts]
BoundTo(v) == [op |-> "bound", v |-> v]

QFive == Const(Queried(Five))
Q200 == Const(QueryTerms[2])
QA == Const(Queried(Text(<<"A">>)))
QaEn == Const([Queried(TaggedA) EXCEPT !.query = TRUE])
QI == Const(Iri(<<"i">>))

OfOne ==
  {Rel(op, V, QFive) : op \in NumKinds}
    \cup {Rel("<", QFive, V), Rel(">=", C, V), Rel("<", V, Q200), Rel("=", V, QI), Rel("=", QA, V),
          Rel("<", V, Plus(1, C, QFive)),
          Rel("=", Un("datatype", V), Const(DatatypeIri("integer"))),
          Rel("=", Const(Text(<<"en">>)), Un("lang", V)),
          IsKind("iri", V), IsKind("literal", V), Un("not", IsKind("blank", V)), Un("isNumeric", V),
          Bin("langMatches", Un("lang", V), Const(Text(<<"*">>))),
          TextFn("strstarts", V, QA), TextFn("strstarts", Un("str", V), QA),
          TextFn("contains", Un("lcase", V), Const(Text(<<"b">>))), TextFn("strends", V, QaEn),
          TextFn("contains", Un("str", V), Const(Text(<<"5">>))),
          Rel("!=", Un("str", V), Const(Text(<<"5">>))), Rel("=", V, Const(Text(<<"a">>))), Rel("!=", V, QaEn),
          Match(V, <<"b">>), Match(V, BadPattern), Match(Un("lcase", Un("str", V)), <<"a">>),
          Bin("sameTerm", V, QI), Bin("sameTerm", V, QFive),
          In(FALSE, V, {Iri(<<"i">>), Iri(<<"n">>)}), In(TRUE, V, {Queried(Five), Iri(<<"j">>)}),
          V, Un("not", V), Rel(">", Plus(1, V, QFive), QFive),
          Bin("or", Rel("=", V, QFive), IsKind("iri", V)),
          Bin("or", Rel("<", V, Q200), Rel("=", V, V)),
          Bin("or", Un("not", V), Rel("<", V, U))}

OfTwo ==
  {Rel("<", V, W), Rel("=", V, W), Rel("!=", W, V), Rel("<=", V, Plus(1, W, QFive)),
   Rel(">", V, Plus(-1, W, C)), Bin("sameTerm", V, W), TextFn("strstarts", V, W),
   Bin("or", Un("not", BoundTo("w")), Rel("<", V, W)),
   Bin("or", Rel(">", W, V), TextFn("contains", V, W))}

AllFilters ==
  OfOne \cup OfTwo
    \cup {Bin("and", Rel(">", C, Const(Queried(Number("decimal", <<"4">>, 4)))), Rel("<", V, QFive)),
          Bin("and", Rel("<", C, U), Rel("<", V, QFive)),
          Bin("and", Rel("<", Plus(1, C, Const(Queried(IllTypedX))), QFive), Rel("<", V, QFive)),
          Bin("and", IsKind("literal", V), Rel(">=", V, QFive)),
          Bin("and", Bin("and", Un("isNumeric", V), IsKind("literal", V)), Rel(">", V, W)),
          Bin("and", BoundTo("w"), Rel(">", V, QFive)),
          Bin("and", Rel("=", W, QFive), Rel("<=", V, W)),
          Bin("and", Rel("<=", V, W), Un("not", Rel("=", W, V)))}

AllVars == {"v", "w"}
Rows(vs, ws) == {[x \in AllVars |-> IF x = "v" THEN i ELSE j] : i \in vs, j \in ws}

(* A column of every term next to a single one, or next to three; a column  *)
(* of VALUES terms; and one an OPTIONAL leaves unbound.                     *)
AllTables ==
  {[rows |-> Rows(1..11, {2}), inline |-> {}, nullable |-> {}],
   [rows |-> Rows({1, 3, 7, 8}, {1, 4, 6}), inline |-> {}, nullable |-> {}],
   [rows |-> Rows({2, 3, 5, 6, 10}, {1, -1, -2, -3}), inline |-> {"w"}, nullable |-> {}],
   [rows |-> Rows({-1, -2, -3, 3, 9}, {2}), inline |-> {"v"}, nullable |-> {}],
   [rows |-> Rows({1, 5, 6}, {0, 2, 9}), inline |-> {}, nullable |-> {"w"}]}

(* VALUES ?w { "200"^^xsd:byte } ?s :p ?v FILTER(?v < ?w)                   *)
ForeignFilters == {Rel("<", V, W), Rel("<", W, V)}
ForeignTables == {[rows |-> Rows({1, 6}, {-2}), inline |-> {"w"}, nullable |-> {}]}
=============================================================================
