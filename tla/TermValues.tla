----------------------------- MODULE TermValues -----------------------------
(***************************************************************************)
(* The value semantics the fast FILTER route gives two terms               *)
(* (filters/values.py and _relational of filters/compiler.py), next to     *)
(* rdflib's own: Literal.__gt__, Literal.eq, ==, EBV and the relational    *)
(* operators of operators.py, which is outside this repository.            *)
(*                                                                         *)
(* A term carries what the two read of it:                                 *)
(*   kind, dt, lang  its kind, datatype (NoDt for none) and language tag   *)
(*   lex             its lexical form as spelled, a sequence of tokens     *)
(*   norm            the lexical form rdflib gives the term it builds      *)
(*   conv, val       the value its lexical form converts to: none, a       *)
(*                   number (a string's or a date's place in its own       *)
(*                   order, a boolean's 0 or 1) or NaN                     *)
(*   query           whether it is a constant rdflib's SPARQL parser built,*)
(*                   which leaves ill_typed unset                          *)
(* Answers are "yes", "no", "error" (rdflib raises an SPARQLError, which a *)
(* filter takes as false), "unknown" (outside what the fast route          *)
(* reproduces) and, of rdflib, "raise" (an exception no filter catches).   *)
(***************************************************************************)
EXTENDS Integers, Sequences

CONSTANTS
  Texts,     \* the lexical forms
  Datatypes, \* the datatype IRIs
  TextRank,  \* TextRank[x]: the place of text x in string order
  DtRank     \* DtRank[d]: the place of datatype d in IRI order

NoDt == "none"

(* The datatypes the rules tell apart; every other one is "other" here.    *)
IntLike == {"integer", "byte", "nonNegativeInteger"}
NumericTypes == IntLike \cup {"decimal", "double"}
XsdTypes == NumericTypes \cup {"string", "boolean", "dateTime"}
XmlTypes == {"XMLLiteral", "HTML"}

ASSUME RankAssumption ==
  /\ XsdTypes \cup XmlTypes \subseteq Datatypes
  /\ NoDt \notin Datatypes
  /\ DtRank \in [Datatypes -> Int]
  /\ \A d, e \in Datatypes : DtRank[d] = DtRank[e] => d = e
  /\ TextRank \in [Texts -> Int]

Term == [kind : {"literal", "iri", "blank"}, dt : Datatypes \cup {NoDt},
         lang : Texts, lex : Texts, norm : Texts,
         conv : {"none", "num", "nan"}, val : Int, query : BOOLEAN]

Literal(t) == t.kind = "literal"

(* What parse_spelling and rdflib's Literal constructor give: only a       *)
(* literal has a datatype or a tag, and not both; a form that does not     *)
(* convert, and any text, is kept as spelled.                              *)
WellSpelled(t) ==
  /\ ~Literal(t) => t.dt = NoDt /\ t.lang = <<>>
  /\ t.lang # <<>> => t.dt = NoDt
  /\ (~Literal(t) \/ t.dt \in {NoDt, "string"} \/ t.conv = "none") => t.norm = t.lex
  /\ t.dt = "boolean" => t.conv = "num"
  /\ t.conv = "nan" => t.dt = "double"

(* What a spelling means does not depend on who spells it, and rdflib's    *)
(* normal form of it means the same.                                       *)
SpelledAlike(a, b) ==
  a.kind = b.kind /\ a.dt = b.dt /\ a.lang = b.lang =>
    /\ a.lex = b.lex => a.norm = b.norm
    /\ a.norm = b.norm => a.conv = b.conv /\ a.val = b.val

Numeric(t) == Literal(t) /\ t.dt \in NumericTypes
Dt(t) == IF t.dt = NoDt THEN "string" ELSE t.dt

Answer(p) == IF p THEN "yes" ELSE "no"
Not(r) == IF r = "yes" THEN "no" ELSE IF r = "no" THEN "yes" ELSE r

-----------------------------------------------------------------------------
(* values.py.                                                              *)

(* The bounds and the sign a numeric datatype imposes on its values.       *)
InBounds(t) ==
  /\ t.dt = "byte" => t.val \in -128 .. 127
  /\ t.dt = "nonNegativeInteger" => t.val >= 0

(* numeric_value is not None: a value within its type's bounds.            *)
NumericValue(t) == Numeric(t) /\ t.conv # "none" /\ InBounds(t)

StringLike(t) == Literal(t) /\ t.dt \in {NoDt, "string"}

NanMeetsDecimal(a, b) == "nan" \in {a.conv, b.conv} /\ "decimal" \in {a.dt, b.dt}
ValueGt(a, b) == a.conv = "num" /\ b.conv = "num" /\ a.val > b.val
ValueEq(a, b) == a.conv = "num" /\ b.conv = "num" /\ a.val = b.val

NumGt(a, b) == IF NanMeetsDecimal(a, b) THEN "unknown" ELSE Answer(ValueGt(a, b))
NumEq(a, b) == IF NanMeetsDecimal(a, b) THEN "unknown" ELSE Answer(ValueEq(a, b))

(* Literal.__gt__ as far as it is reproduced.                              *)
Gt(a, b) ==
  IF NumericValue(a) /\ NumericValue(b) THEN NumGt(a, b)
  ELSE IF Dt(a) # Dt(b) THEN Answer(DtRank[Dt(a)] > DtRank[Dt(b)])
  ELSE "unknown"

(* The value equality of two literals of one datatype and one language.    *)
SameTypeEq(a, b) ==
  IF Dt(a) = "string" THEN Answer(a.lex = b.lex)
  ELSE IF Dt(a) = "boolean" THEN Answer(ValueEq(a, b))
  ELSE IF Dt(a) \in NumericTypes /\ a.conv # "none" /\ b.conv # "none" THEN NumEq(a, b)
  ELSE IF a.lex = b.lex THEN "yes"
  ELSE IF Dt(a) \in NumericTypes THEN "error"
  ELSE "unknown"

(* Literal.eq as far as it is reproduced.                                  *)
Eq(a, b) ==
  IF NumericValue(a) /\ NumericValue(b) THEN NumEq(a, b)
  ELSE IF a.lang # b.lang THEN "no"
  ELSE IF {Dt(a), Dt(b)} \subseteq XmlTypes THEN "unknown"
  ELSE IF Dt(a) = Dt(b) THEN SameTypeEq(a, b)
  ELSE "no"

(* x.eq(y) for two terms of any kind.                                      *)
AnyEq(a, b) ==
  IF Literal(a) /\ Literal(b) THEN Eq(a, b)
  ELSE Answer(a.kind = b.kind /\ a.lex = b.lex)

(* x == y.                                                                 *)
TermEq(a, b) ==
  IF ~Literal(a) THEN Answer(a.kind = b.kind /\ a.lex = b.lex)
  ELSE IF ~Literal(b) \/ a.dt # b.dt \/ a.lang # b.lang THEN "no"
  ELSE IF a.lex = b.lex THEN "yes"
  ELSE IF StringLike(a) THEN "no"
  ELSE "unknown"

(* The effective boolean value of a term.                                  *)
TermTruth(t) ==
  IF ~Literal(t) THEN "error"
  ELSE IF t.dt = "boolean" THEN Answer(t.val = 1)
  ELSE IF StringLike(t) THEN Answer(t.lex # <<>>)
  ELSE IF ~Numeric(t) THEN "unknown"
  ELSE IF t.conv = "none" THEN "error"
  ELSE Answer(t.conv = "nan" \/ t.val # 0)

(* compiler._relational: the four orders from Gt, and Eq only where Gt is  *)
(* definitely false.                                                       *)
Ordered(op, gt, eq) ==
  IF op = ">" \/ gt \in {"error", "unknown"} THEN gt
  ELSE IF gt = "yes" THEN Answer(op = ">=")
  ELSE IF op = "<" THEN Not(eq)
  ELSE IF op = ">=" THEN eq
  ELSE IF eq \in {"yes", "no"} THEN "yes"
  ELSE eq

NonXsd(t) == t.dt # NoDt /\ t.dt \notin XsdTypes

Relational(op, a, b) ==
  IF op = "=" THEN AnyEq(a, b)
  ELSE IF op = "!=" THEN Not(AnyEq(a, b))
  ELSE IF ~(Literal(a) /\ Literal(b)) \/ (NonXsd(a) /\ NonXsd(b)) THEN "error"
  ELSE Ordered(op, Gt(a, b), Eq(a, b))

-----------------------------------------------------------------------------
(* rdflib.                                                                 *)

(* What rdflib computes is ill-typed when the term is built from data.     *)
IllTyped(t) == ~t.query /\ (t.conv = "none" \/ ~InBounds(t))

RdfNumeric(a, b) ==
  /\ Numeric(a) /\ ~IllTyped(a) /\ a.conv # "none"
  /\ Numeric(b) /\ ~IllTyped(b) /\ b.conv # "none"

(* Comparing Python values: a NaN and a Decimal have no order.             *)
PyGt(a, b) == IF NanMeetsDecimal(a, b) THEN "raise" ELSE Answer(ValueGt(a, b))

RdfGt(a, b) ==
  IF RdfNumeric(a, b) THEN PyGt(a, b)
  ELSE IF Dt(a) # Dt(b) THEN Answer(DtRank[Dt(a)] > DtRank[Dt(b)])
  ELSE IF a.lang # b.lang THEN Answer(TextRank[a.lang] > TextRank[b.lang])
  ELSE IF a.conv # "none" /\ b.conv # "none" THEN PyGt(a, b)
  ELSE Answer(TextRank[a.norm] > TextRank[b.norm])

RdfEq(a, b) ==
  IF RdfNumeric(a, b) THEN Answer(ValueEq(a, b))
  ELSE IF a.lang # b.lang THEN "no"
  ELSE IF Dt(a) = "string" /\ Dt(b) = "string" THEN Answer(a.norm = b.norm)
  ELSE IF {Dt(a), Dt(b)} \subseteq XmlTypes THEN Answer(a.val = b.val)
  ELSE IF Dt(a) # Dt(b) THEN "no"
  ELSE IF a.conv # "none" /\ b.conv # "none" THEN Answer(ValueEq(a, b))
  ELSE IF a.norm = b.norm THEN "yes"
  ELSE "error"

RdfTermEq(a, b) ==
  /\ a.kind = b.kind
  /\ a.dt = b.dt
  /\ a.lang = b.lang
  /\ a.norm = b.norm

RdfAnyEq(a, b) ==
  IF Literal(a) /\ Literal(b) THEN RdfEq(a, b) ELSE Answer(RdfTermEq(a, b))

(* __lt__ is neither greater nor equal, __le__ and __ge__ add the equality;*)
(* an equality rdflib cannot tell makes the comparison an error.           *)
RdfOrdered(op, gt, eq) ==
  IF gt = "raise" \/ op = ">" THEN gt
  ELSE IF gt = "yes" THEN Answer(op = ">=")
  ELSE IF eq = "error" THEN "error"
  ELSE IF op = "<" THEN Not(eq)
  ELSE IF op = ">=" THEN eq
  ELSE "yes"

RdfRelational(op, a, b) ==
  IF op = "=" THEN RdfAnyEq(a, b)
  ELSE IF op = "!=" THEN Not(RdfAnyEq(a, b))
  ELSE IF ~(Literal(a) /\ Literal(b)) \/ (NonXsd(a) /\ NonXsd(b)) THEN "error"
  ELSE RdfOrdered(op, RdfGt(a, b), RdfEq(a, b))

(* EBV.                                                                    *)
RdfTruth(t) ==
  IF ~Literal(t) THEN "error"
  ELSE IF t.dt = "boolean" THEN Answer(t.val = 1)
  ELSE IF StringLike(t) THEN Answer(t.norm # <<>>)
  ELSE IF t.conv = "none" THEN "error"
  ELSE Answer(Numeric(t) => t.conv = "nan" \/ t.val # 0)
=============================================================================
