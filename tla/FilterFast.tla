----------------------------- MODULE FilterFast -----------------------------
(***************************************************************************)
(* FILTER expressions evaluated twice: by the compiled fast route          *)
(* (filters/compiler.py), whose answers are yes, no, error or unknown, and *)
(* by rdflib, whose are yes, no, error or an exception no filter catches.  *)
(*                                                                         *)
(* An expression is a record: op names the operator of the parse tree.     *)
(*   var (v)  const (t)  not (e)  and, or (l, r)  rel (rel, l, r)          *)
(*   in (neg, e, items)  isKind (kind, e)  isNumeric, datatype, lang, str  *)
(*   (e)  bound (v)  text (fn, l, r)  langMatches, sameTerm (l, r)         *)
(*   sum (sign, l, r)  regex (e, t)  lcase (e), which stands for every     *)
(*   operator outside the whitelist                                        *)
(* A value has a tag: term, unbound, or an answer; an answer "yes" or "no" *)
(* is a Python bool.  An environment gives every variable a value.         *)
(***************************************************************************)
EXTENDS TermValues, SequencesExt, TLC

NoTerm == [kind |-> "literal", dt |-> NoDt, lang |-> <<>>, lex |-> <<>>,
           norm |-> <<>>, conv |-> "none", val |-> 0, query |-> FALSE]

Tagged(tag) == [tag |-> tag, term |-> NoTerm]
Of(t) == [tag |-> "term", term |-> t]
Yes == Tagged("yes")
No == Tagged("no")
Bool(p) == Tagged(Answer(p))
Error == Tagged("error")
Unknown == Tagged("unknown")
Unbound == Tagged("unbound")
Raise == Tagged("raise")
IsBool(x) == x.tag \in {"yes", "no"}

Text(x) == [NoTerm EXCEPT !.lex = x, !.norm = x, !.conv = "num"]
Iri(x) == [Text(x) EXCEPT !.kind = "iri", !.conv = "none"]
Integer(n) == [Text(<<ToString(n)>>) EXCEPT !.dt = "integer", !.val = n]
BoolTerm(p) == [Text(<<IF p THEN "true" ELSE "false">>)
                  EXCEPT !.dt = "boolean", !.val = IF p THEN 1 ELSE 0]

(* The datatype IRI as a term: its name stands for the IRI's text.         *)
DatatypeIri(d) == Iri(<<d>>)

Operands(e) ==
  CASE e.op \in {"and", "or", "rel", "text", "langMatches", "sameTerm", "sum"} -> <<e.l, e.r>>
    [] e.op \in {"not", "in", "isKind", "isNumeric", "datatype", "lang", "str", "regex", "lcase"} -> <<e.e>>
    [] OTHER -> <<>>

RECURSIVE VarsOf(_)
VarsOf(e) ==
  IF e.op \in {"var", "bound"} THEN {e.v}
  ELSE UNION {VarsOf(Operands(e)[i]) : i \in DOMAIN Operands(e)}

(* The pattern of a REGEX is a text it finds; BadPattern does not compile. *)
BadPattern == <<"(">>

Begins(a, b) == IsPrefix(b, a)
Holds(a, b) == \E i \in 0 .. Len(a) : IsPrefix(b, SubSeq(a, i + 1, Len(a)))
TextAnswer(fn, a, b) ==
  CASE fn = "strstarts" -> Begins(a, b)
    [] fn = "strends" -> IsSuffix(b, a)
    [] fn \in {"contains", "regex"} -> Holds(a, b)

(* RFC 4647 basic filtering: subtags are tokens.                           *)
TagInRange(tag, range) == range = <<"*">> \/ Begins(tag, range)

Lower(x) == [i \in DOMAIN x |-> IF x[i] = "A" THEN "a" ELSE x[i]]

-----------------------------------------------------------------------------
(* rdflib: reading a bare unbound operand is an error before anything is   *)
(* compared, and operands are evaluated in order, all of them.             *)

(* The operands read, in order: fine, or what the first bad one makes.     *)
Reading(xs) ==
  LET bad == {i \in DOMAIN xs : xs[i].tag \in {"unbound", "raise"}}
  IN  IF bad = {} THEN "fine"
      ELSE LET i == CHOOSE j \in bad : \A k \in bad : j <= k
           IN  IF xs[i].tag = "unbound" THEN "error" ELSE "raise"

RdfTruthOf(x) == IF x.tag = "term" THEN RdfTruth(x.term) ELSE x.tag

IsText(x) == x.tag = "term" /\ StringLike(x.term)
IsLiteral(x) == x.tag = "term" /\ Literal(x.term)

RdfTextOp(fn, a, b) ==
  IF ~IsText(a) \/ ~IsText(b) THEN Error
  ELSE IF b.term.lang # <<>> /\ a.term.lang # b.term.lang THEN Error
  ELSE Of(BoolTerm(TextAnswer(fn, a.term.norm, b.term.norm)))

RdfRegex(x, pattern) ==
  IF ~IsText(x) THEN Error
  ELSE IF pattern.norm = BadPattern THEN Raise
  ELSE Of(BoolTerm(TextAnswer("regex", x.term.norm, pattern.norm)))

Promoted(d, e) ==
  IF "double" \in {d, e} THEN "double" ELSE IF "decimal" \in {d, e} THEN "decimal" ELSE "integer"

RdfSum(sign, a, b) ==
  IF \E x \in {a, b} : x.tag # "term" \/ ~Numeric(x.term) THEN Error
  ELSE IF "none" \in {a.term.conv, b.term.conv} THEN Raise
  ELSE LET n == a.term.val + sign * b.term.val
       IN  Of([Integer(n) EXCEPT !.dt = Promoted(a.term.dt, b.term.dt),
                 !.conv = IF "nan" \in {a.term.conv, b.term.conv} THEN "nan" ELSE "num"])

Lifted(r) == IF r \in {"yes", "no"} THEN Of(BoolTerm(r = "yes")) ELSE Tagged(r)

(* One operator over operands that could be read.                          *)
RdfApply(e, xs) ==
  CASE e.op = "not" -> Lifted(Not(RdfTruthOf(xs[1])))
    [] e.op = "and" ->
         LET stop == SelectSeq(xs, LAMBDA x : RdfTruthOf(x) # "yes")
         IN  Lifted(IF stop = <<>> THEN "yes" ELSE RdfTruthOf(stop[1]))
    [] e.op = "or" ->
         LET truths == {RdfTruthOf(xs[i]) : i \in DOMAIN xs}
         IN  Lifted(IF "yes" \in truths THEN "yes"
                    ELSE IF "error" \in truths THEN "error" ELSE "no")
    [] e.op = "rel" ->
         IF \E x \in {xs[1], xs[2]} : x.tag # "term" THEN Error
         ELSE Lifted(RdfRelational(e.rel, xs[1].term, xs[2].term))
    [] e.op = "in" ->
         LET equal == \E t \in e.items : xs[1].tag = "term" /\ RdfTermEq(t, xs[1].term)
         IN  Of(BoolTerm(equal # e.neg))
    [] e.op = "isKind" -> Of(BoolTerm(xs[1].tag = "term" /\ xs[1].term.kind = e.kind))
    [] e.op = "datatype" ->
         IF ~IsLiteral(xs[1]) THEN Error
         ELSE IF xs[1].term.lang # <<>> THEN Of(DatatypeIri("langString"))
         ELSE Of(DatatypeIri(Dt(xs[1].term)))
    [] e.op = "lang" -> IF IsLiteral(xs[1]) THEN Of(Text(xs[1].term.lang)) ELSE Error
    [] e.op = "str" -> IF xs[1].tag = "term" THEN Of(Text(xs[1].term.norm)) ELSE Error
    [] e.op = "lcase" ->
         IF IsText(xs[1])
         THEN Of([xs[1].term EXCEPT !.lex = Lower(xs[1].term.norm), !.norm = Lower(xs[1].term.norm)])
         ELSE Error
    [] e.op = "text" -> RdfTextOp(e.fn, xs[1], xs[2])
    [] e.op = "langMatches" ->
         IF ~IsText(xs[1]) \/ ~IsText(xs[2]) THEN Error
         ELSE Of(BoolTerm(/\ xs[1].term.norm # <<>>
                          /\ TagInRange(xs[1].term.norm, xs[2].term.norm)))
    [] e.op = "sameTerm" ->
         Of(BoolTerm(/\ xs[1].tag = "term" /\ xs[2].tag = "term"
                     /\ RdfTermEq(xs[1].term, xs[2].term)))
    [] e.op = "sum" -> RdfSum(e.sign, xs[1], xs[2])
    [] e.op = "regex" -> RdfRegex(xs[1], e.t)

RECURSIVE Rdf(_, _)
Rdf(e, env) ==
  LET xs == [i \in DOMAIN Operands(e) |-> Rdf(Operands(e)[i], env)]
  IN  CASE e.op = "var" -> env[e.v]
        [] e.op = "const" -> Of(e.t)
        [] e.op = "bound" -> Of(BoolTerm(env[e.v] # Unbound))
        [] e.op = "isNumeric" ->
             Of(BoolTerm(xs[1].tag = "term" /\ Numeric(xs[1].term)))
        [] OTHER -> IF Reading(xs) = "fine" THEN RdfApply(e, xs) ELSE Tagged(Reading(xs))

(* _ebv: whether rdflib's FILTER keeps a row, or raises.                   *)
Kept(x) == IF x.tag = "raise" THEN "raise" ELSE Answer(RdfTruthOf(x) = "yes")
RdfEbv(e, env) == Kept(Rdf(e, env))

-----------------------------------------------------------------------------
(* compiler.py.                                                            *)

NoBindings == <<>>
Folded(e) == e.op \notin {"var", "const"} /\ VarsOf(e) = {}

(* The whitelist; compile_fast gives None outside it.                      *)
RECURSIVE Compiles(_)
Compiles(e) ==
  IF Folded(e) THEN Rdf(e, NoBindings).tag \in {"term", "error"}
  ELSE /\ e.op # "lcase"
       /\ e.op = "regex" => StringLike(e.t) /\ e.t.lex # BadPattern
       /\ \A i \in DOMAIN Operands(e) : Compiles(Operands(e)[i])

(* _constant_view.                                                         *)
ConstantView(t) ==
  IF t.query /\ Numeric(t) /\ t.conv # "none" /\ ~NumericValue(t) THEN Unknown ELSE Of(t)

(* _truth of an evaluated value.                                           *)
Truth(x) ==
  CASE x.tag = "term" -> TermTruth(x.term)
    [] x.tag = "unbound" -> "error"
    [] OTHER -> x.tag

Either(tags, x, y) == \E z \in {x, y} : z.tag \in tags

(* What unary functions answer of anything but a term: kind tests, ...     *)
KindOf(kind, x) ==
  CASE x.tag = "unbound" -> Error
    [] x.tag = "unknown" -> Unknown
    [] x.tag = "error" -> No
    [] IsBool(x) -> Bool(kind = "literal")
    [] OTHER -> Bool(x.term.kind = kind)

IsNumericOf(x) ==
  IF x.tag = "unknown" THEN Unknown ELSE Bool(x.tag = "term" /\ Numeric(x.term))

DatatypeOf(x) ==
  CASE x.tag = "unknown" -> Unknown
    [] IsBool(x) -> Of(DatatypeIri("boolean"))
    [] IsLiteral(x) -> Of(DatatypeIri(IF x.term.lang # <<>> THEN "langString" ELSE Dt(x.term)))
    [] OTHER -> Error

LangOf(x) ==
  CASE x.tag = "unknown" -> Unknown
    [] IsBool(x) -> Of(Text(<<>>))
    [] IsLiteral(x) -> Of(Text(x.term.lang))
    [] OTHER -> Error

(* Mutant: a typed literal reads as it is spelled.                        *)
StrOfSpelling(x) ==
  CASE x.tag = "unknown" -> Unknown
    [] IsBool(x) -> Of(BoolTerm(x = Yes))
    [] x.tag = "term" -> Of(Text(x.term.lex))
    [] OTHER -> Error

StrOf(x) ==
  CASE x.tag = "unknown" -> Unknown
    [] IsBool(x) -> Of(Text(<<IF x = Yes THEN "true" ELSE "false">>))
    [] x.tag = "term" -> IF ~Literal(x.term) \/ StringLike(x.term) THEN Of(Text(x.term.lex)) ELSE Unknown
    [] OTHER -> Error

(* Two arguments read as strings: unknown, then error, else decided.       *)
TextOp(fn, a, b) ==
  IF Either({"unknown"}, a, b) THEN Unknown
  ELSE IF ~IsText(a) \/ ~IsText(b) THEN Error
  ELSE IF b.term.lang # <<>> /\ a.term.lang # b.term.lang THEN Error
  ELSE Bool(TextAnswer(fn, a.term.lex, b.term.lex))

LangMatchesOf(tag, range) ==
  IF Either({"unknown"}, tag, range) THEN Unknown
  ELSE IF ~IsText(tag) \/ ~IsText(range) THEN Error
  ELSE Bool(tag.term.lex # <<>> /\ TagInRange(tag.term.lex, range.term.lex))

RegexOf(x, pattern) ==
  IF x.tag = "unknown" THEN Unknown
  ELSE IF ~IsText(x) THEN Error
  ELSE Bool(TextAnswer("regex", x.term.lex, pattern.lex))

SameTermOf(a, b) ==
  IF Either({"unknown"}, a, b) THEN Unknown
  ELSE IF Either({"unbound"}, a, b) THEN Error
  ELSE IF a.tag # "term" \/ b.tag # "term" THEN No
  ELSE Tagged(TermEq(a.term, b.term))

Compare(op, a, b) ==
  IF Either({"unknown", "yes", "no"}, a, b) THEN Unknown
  ELSE IF Either({"unbound", "error"}, a, b) THEN Error
  ELSE Tagged(Relational(op, a.term, b.term))

Among(e, x) ==
  LET answers == {TermEq(t, x.term) : t \in e.items}
  IN  CASE x.tag = "unbound" -> Error
        [] x.tag = "unknown" -> Unknown
        [] x.tag # "term" -> Bool(e.neg)
        [] OTHER -> IF "yes" \in answers THEN Bool(~e.neg)
                    ELSE IF "unknown" \in answers THEN Unknown
                    ELSE Bool(e.neg)

Sum(sign, a, b) ==
  IF \A x \in {a, b} : x.tag = "term" /\ x.term.dt \in IntLike /\ NumericValue(x.term)
  THEN Of(Integer(a.term.val + sign * b.term.val))
  ELSE Unknown

(* The first operand that is not true settles a conjunction.               *)
AllTrue(truths) ==
  LET stop == SelectSeq(truths, LAMBDA r : r # "yes")
  IN  Tagged(IF stop = <<>> THEN "yes" ELSE stop[1])

(* Mutant: an error settles a disjunction before an unknown is counted.   *)
AnyTrueErrorFirst(truths) ==
  LET all == {truths[i] : i \in DOMAIN truths}
  IN  Tagged(IF "yes" \in all THEN "yes" ELSE IF "error" \in all THEN "error"
             ELSE IF "unknown" \in all THEN "unknown" ELSE "no")

AnyTrue(truths) ==
  LET all == {truths[i] : i \in DOMAIN truths}
  IN  Tagged(IF "yes" \in all THEN "yes" ELSE IF "unknown" \in all THEN "unknown"
             ELSE IF "error" \in all THEN "error" ELSE "no")

Apply(e, xs) ==
  LET truths == [i \in DOMAIN xs |-> Truth(xs[i])]
  IN  CASE e.op = "not" -> Tagged(Not(truths[1]))
        [] e.op = "and" -> AllTrue(truths)
        [] e.op = "or" -> AnyTrue(truths)
        [] e.op = "rel" -> Compare(e.rel, xs[1], xs[2])
        [] e.op = "in" -> Among(e, xs[1])
        [] e.op = "isKind" -> KindOf(e.kind, xs[1])
        [] e.op = "isNumeric" -> IsNumericOf(xs[1])
        [] e.op = "datatype" -> DatatypeOf(xs[1])
        [] e.op = "lang" -> LangOf(xs[1])
        [] e.op = "str" -> StrOf(xs[1])
        [] e.op = "text" -> TextOp(e.fn, xs[1], xs[2])
        [] e.op = "langMatches" -> LangMatchesOf(xs[1], xs[2])
        [] e.op = "sameTerm" -> SameTermOf(xs[1], xs[2])
        [] e.op = "sum" -> Sum(e.sign, xs[1], xs[2])
        [] e.op = "regex" -> RegexOf(xs[1], e.t)

RECURSIVE Fast(_, _)
Fast(e, env) ==
  IF Folded(e) THEN Rdf(e, NoBindings)
  ELSE CASE e.op = "var" -> env[e.v]
         [] e.op = "const" -> ConstantView(e.t)
         [] e.op = "bound" -> IF env[e.v].tag = "unknown" THEN Unknown ELSE Bool(env[e.v] # Unbound)
         [] OTHER -> Apply(e, [i \in DOMAIN Operands(e) |-> Fast(Operands(e)[i], env)])

(* The predicate compile_fast gives: an error fails.                       *)
ErrorFails(r) == IF r = "error" THEN "no" ELSE r
FastAnswer(e, env) == ErrorFails(Truth(Fast(e, env)))

(* is_kind_only: nothing is read of a term but its kind.                   *)
RECURSIVE KindOnly(_)
KindOnly(e) ==
  CASE e.op = "bound" -> TRUE
    [] e.op = "isKind" -> e.e.op = "var"
    [] e.op \in {"and", "or", "not"} ->
         \A i \in DOMAIN Operands(e) : KindOnly(Operands(e)[i])
    [] OTHER -> e.op = "const"

(* An && or || with a bare unbound variable for an operand: rdflib reads   *)
(* its operands before any decides, so it is an error whatever they are;   *)
(* the fast route takes the variable for one more error among them.        *)
RECURSIVE BareUnbound(_, _)
BareUnbound(e, env) ==
  \/ /\ e.op \in {"and", "or"}
     /\ \E i \in 1..2 : Operands(e)[i].op = "var" /\ env[Operands(e)[i].v] = Unbound
  \/ \E i \in DOMAIN Operands(e) : BareUnbound(Operands(e)[i], env)
=============================================================================
