---------------------------- MODULE FilterRoutes ----------------------------
(***************************************************************************)
(* A FILTER over the rows of a block, conjunct by conjunct, by every route *)
(* filters/__init__.py and filters/native.py give one: constant conjuncts  *)
(* once, keeps on the native match, vortex-rdf's filter_codes over the     *)
(* distinct codes of a column, the compiled fast route over decoded views, *)
(* rdflib's evaluator where that is unknown, VALUES terms tested before    *)
(* they are joined, early rejection of joined rows, and a conjunct of      *)
(* several variables taken as one of a single variable.                    *)
(*                                                                         *)
(* vortex-rdf answers a code as rdflib would or leaves it undecided: which *)
(* it leaves is its choice.  A constant it refuses (ValueError) leaves all.*)
(***************************************************************************)
EXTENDS FilterFast, FiniteSets

CONSTANTS
  Dictionary, \* the terms of the codes 1.., by kind: literals, IRIs, blanks
  Foreign,    \* the query constants outside it, codes -1, -2, ..
  Context,    \* the visible context-bound variables: variable -> term
  Filters,    \* the expressions asked
  Tables,     \* the blocks' rows: [rows, inline, nullable]
  Vars,       \* the block's variables
  OutOfRange  \* whether a VALUES constant out of its type's bounds meets
              \* a conjunct of several variables

NoCode == 0
Codes == (1 .. Len(Dictionary)) \cup {-k : k \in 1 .. Len(Foreign)}

ASSUME FilterAssumption ==
  /\ \A i, j \in DOMAIN Dictionary : i < j =>
       \/ Dictionary[i].kind = Dictionary[j].kind
       \/ Dictionary[i].kind = "literal"
       \/ Dictionary[j].kind = "blank"
  /\ \A t \in Range(Dictionary) : WellSpelled(t) /\ ~t.query
  /\ \A t \in Range(Foreign) : WellSpelled(t) /\ t.query
  /\ \A a, b \in Range(Dictionary \o Foreign) : SpelledAlike(a, b)
  /\ \A T \in Tables : T.rows \subseteq [Vars -> Codes \cup {NoCode}]
  /\ OutOfRange \in BOOLEAN

VARIABLES
  filter,   \* the expression
  table,    \* the block it filters
  switches, \* fast_filters, native_filters and CODE_PREDICATES
  plan,     \* its conjuncts, routed
  todo,     \* those not settled, by position
  early,    \* those that rejected rows early
  rows,     \* the rows left
  phase     \* "constants", "keeps", "columns", "rows", "raised"

vars == <<filter, table, switches, plan, todo, early, rows, phase>>

TermOf(c) == IF c > 0 THEN Dictionary[c] ELSE Foreign[-c]
Kind(c) == TermOf(c).kind

(* What rdflib binds for a row: a VALUES term is the query's own, spelled  *)
(* as rdflib built it.                                                     *)
AsQueried(t) == [t EXCEPT !.query = TRUE, !.lex = t.norm]
RdfTerm(v, c) == IF v \in table.inline THEN AsQueried(TermOf(c)) ELSE TermOf(c)
RdfEnv(row) ==
  [v \in Vars |-> IF row[v] = NoCode THEN Unbound ELSE Of(RdfTerm(v, row[v]))]
    @@ [v \in DOMAIN Context |-> Of(Context[v])]
    @@ [v \in VarsOf(filter) |-> Unbound]

-----------------------------------------------------------------------------
(* native.py: the native predicate a conjunct is of one variable.          *)

NoShape == [kind |-> "none", term |-> NoTerm, iris |-> {}, lower |-> FALSE, asStr |-> FALSE]
Shape(kind, t) == [NoShape EXCEPT !.kind = kind, !.term = t]
IriIn(iris) == [NoShape EXCEPT !.kind = "iri_in", !.iris = iris]

(* _constant_term: what an operand without block variables evaluates to.   *)
IriOrLiteral(x) == IF x.tag = "term" /\ x.term.kind # "blank" THEN x ELSE Unbound
ConstantTerm(e, consts) ==
  IF e.op = "const" THEN Of(e.t)
  ELSE IF VarsOf(e) \subseteq DOMAIN consts
       THEN IriOrLiteral(Rdf(e, [v \in DOMAIN consts |-> Of(consts[v])]))
  ELSE Unbound

IsVar(e, v) == e.op = "var" /\ e.v = v
CallOn(e, op, v) == e.op = op /\ IsVar(e.e, v)
Plain(x) == IsText(x) /\ x.term.lang = <<>>

(* The operands of a test of v alone: whether v is one, and the other.     *)
OfVar(e, v) == IsVar(e.l, v) \/ IsVar(e.r, v)
Other(e, v) == IF IsVar(e.l, v) THEN e.r ELSE e.l

(* _text_shape: ?v, STR(?v), and LCASE of either.                          *)
TextOperand(e) == IF e.op = "lcase" THEN e.e ELSE e
TextShape(kind, e, v, t) ==
  LET of == TextOperand(e)
  IN  IF IsVar(of, v) \/ CallOn(of, "str", v)
      THEN [Shape(kind, t) EXCEPT !.lower = (e.op = "lcase"), !.asStr = (of.op = "str")]
      ELSE NoShape

StringFunctionOf(e, v, x, shape) ==
  IF ~IsText(x) \/ (x.term.lang # <<>> /\ shape.asStr) THEN NoShape
  ELSE IF e.fn = "strstarts" /\ CallOn(e.l, "str", v) /\ Plain(x)
       THEN Shape("str_prefix", x.term)
  ELSE [shape EXCEPT !.term = x.term]
StringFunctionShape(e, v, consts) ==
  StringFunctionOf(e, v, ConstantTerm(e.r, consts), TextShape(e.fn, e.l, v, NoTerm))

RegexShape(e, v) ==
  IF StringLike(e.t) /\ e.t.lex # BadPattern THEN TextShape("regex", e.e, v, e.t) ELSE NoShape

LangRange(x) == IF IsText(x) /\ x.term.lex # <<>> THEN Shape("lang_matches", x.term) ELSE NoShape

IriOf(x) == IF x.tag = "term" /\ x.term.kind = "iri" THEN IriIn({x.term}) ELSE NoShape
IriEquality(e, v, consts) ==
  IF OfVar(e, v) THEN IriOf(ConstantTerm(Other(e, v), consts)) ELSE NoShape

Swapped(op) ==
  CASE op = "<" -> ">" [] op = ">" -> "<" [] op = "<=" -> ">=" [] op = ">=" -> "<=" [] OTHER -> op

NumberOf(op, x) == IF x.tag = "term" /\ NumericValue(x.term) THEN Shape(op, x.term) ELSE NoShape

(* Mutant: a number on the left is compared as if it were on the right.   *)
NumericShapeUnswapped(e, v, consts) ==
  IF OfVar(e, v) THEN NumberOf(e.rel, ConstantTerm(Other(e, v), consts)) ELSE NoShape

NumericShape(e, v, consts) ==
  IF OfVar(e, v)
  THEN NumberOf(IF IsVar(e.l, v) THEN e.rel ELSE Swapped(e.rel), ConstantTerm(Other(e, v), consts))
  ELSE NoShape

(* = of DATATYPE(?v) and an IRI, or of LANG(?v) and a plain string.        *)
Accessors(e, v) ==
  {s \in {<<e.l, e.r>>, <<e.r, e.l>>} : CallOn(s[1], "datatype", v) \/ CallOn(s[1], "lang", v)}
AccessorOf(op, x) ==
  IF (op = "lang" /\ Plain(x)) \/ (op = "datatype" /\ x.tag = "term" /\ x.term.kind = "iri")
  THEN Shape(op, x.term) ELSE NoShape
AccessorShape(e, v, consts) ==
  LET s == CHOOSE s \in Accessors(e, v) : TRUE
  IN  AccessorOf(s[1].op, ConstantTerm(s[2], consts))

FirstShape(shape, next) == IF shape # NoShape THEN shape ELSE next
RelationalShape(e, v, consts) ==
  IF e.rel = "=" /\ Accessors(e, v) # {} THEN AccessorShape(e, v, consts)
  ELSE FirstShape(IF e.rel = "=" THEN IriEquality(e, v, consts) ELSE NoShape,
                  NumericShape(e, v, consts))

(* native_shape.                                                           *)
NativeShape(e, v, consts) ==
  CASE e.op = "isKind" -> IF IsVar(e.e, v) THEN [NoShape EXCEPT !.kind = e.kind] ELSE NoShape
    [] e.op = "langMatches" ->
         IF CallOn(e.l, "lang", v) THEN LangRange(ConstantTerm(e.r, consts)) ELSE NoShape
    [] e.op = "text" -> StringFunctionShape(e, v, consts)
    [] e.op = "regex" -> RegexShape(e, v)
    [] e.op = "sameTerm" -> IriEquality(e, v, consts)
    [] e.op = "in" ->
         IF ~e.neg /\ IsVar(e.e, v) /\ \A t \in e.items : t.kind = "iri"
         THEN IriIn(e.items) ELSE NoShape
    [] e.op = "rel" -> RelationalShape(e, v, consts)
    [] OTHER -> NoShape

KindTests == {"literal", "iri", "blank"}
TextKinds == {"regex", "contains", "strstarts", "strends"}
NumKinds == {"<", "<=", ">", ">=", "=", "!="}

(* keep_of: a kind's code range or an IRI list's codes.                    *)
IsKeep(shape) == shape.kind \in KindTests \cup {"iri_in"}
InKeep(shape, c) ==
  IF shape.kind = "iri_in"
  THEN \E t \in shape.iris : Kind(c) = "iri" /\ TermOf(c).lex = t.lex
  ELSE Kind(c) = shape.kind

(* What filter_codes answers of a code it decides: rdflib's own rules over *)
(* the text, or the number, the predicate reads.                           *)
ReadText(shape, t) ==
  LET x == IF shape.asStr \/ shape.kind = "str_prefix" THEN Text(t.norm) ELSE t
  IN  IF shape.lower THEN [x EXCEPT !.norm = Lower(x.norm)] ELSE x
FilterCodes(shape, c) ==
  LET t == TermOf(c)
      kind == IF shape.kind = "str_prefix" THEN "strstarts" ELSE shape.kind
  IN  IF kind \in TextKinds
      THEN RdfTruthOf(IF kind = "regex" THEN RdfRegex(Of(ReadText(shape, t)), shape.term)
                      ELSE RdfTextOp(kind, Of(ReadText(shape, t)), Of(shape.term))) = "yes"
      ELSE IF kind \in NumKinds THEN RdfRelational(kind, t, shape.term) = "yes"
      ELSE IF kind = "datatype"
           THEN (IF t.lang # <<>> THEN <<"langString">> ELSE <<Dt(t)>>) = shape.term.lex
      ELSE IF kind = "lang" THEN t.lang = shape.term.lex
      ELSE t.lang # <<>> /\ TagInRange(t.lang, shape.term.norm)

(* The codes it is asked of, those that pass without asking it, and those  *)
(* left to the Python routes without asking it.                            *)
AsStr(shape) == shape.kind = "str_prefix" \/ shape.asStr

Unasked(shape, c) ==
  IF IsKeep(shape) THEN InKeep(shape, c) ELSE shape.kind = "!=" /\ Kind(c) # "literal"
Asked(shape, c) ==
  ~IsKeep(shape) /\ Kind(c) \in (IF AsStr(shape) THEN {"literal", "iri"} ELSE {"literal"})
LeftOut(shape, c) == AsStr(shape) /\ Kind(c) = "blank"

(* evaluate, vortex-rdf deciding every code asked but those of maybe.      *)
Evaluated(shape, codes, maybe) ==
  [passed |-> {c \in codes : Unasked(shape, c) \/ (Asked(shape, c) /\ c \notin maybe /\ FilterCodes(shape, c))},
   undecided |-> {c \in codes : LeftOut(shape, c)} \cup maybe]

(* One predicate stands for a comparison and for the swapped one: it has   *)
(* no answer where rdflib tells the two apart (a NaN) or raises.           *)
Undecidable(shape, t) ==
  LET left == RdfRelational(shape.kind, t, shape.term)
      right == RdfRelational(Swapped(shape.kind), shape.term, t)
  IN  shape.kind \in NumKinds /\ ("raise" \in {left, right} \/ (left = "yes") # (right = "yes"))

Maybes(shape, codes) ==
  LET asked == {c \in codes : Asked(shape, c)}
      must == {c \in asked : Undecidable(shape, TermOf(c))}
  IN  {must \cup m : m \in SUBSET (asked \ must)}

-----------------------------------------------------------------------------
(* filters/__init__.py: the conjuncts and their routes.                    *)

RECURSIVE Flattened(_)
Flattened(e) == IF e.op = "and" THEN Flattened(e.l) \o Flattened(e.r) ELSE <<e>>

(* native_shape without the code predicates: no keeps.                     *)
Allowed(s, shape) == IF s.codes \/ ~IsKeep(shape) THEN shape ELSE NoShape
NativeOf(s, e, v, consts) ==
  IF s.fast /\ s.native THEN Allowed(s, NativeShape(e, v, consts)) ELSE NoShape

(* _compile_conjunct.                                                      *)
Conjunct(s, e, of, consts, shape) ==
  LET fast == s.fast /\ Compiles(e)
  IN  [e |-> e, of |-> of, consts |-> consts, shape |-> shape, fast |-> fast,
       kindOnly |-> fast /\ s.codes /\ KindOnly(e)]

(* analyze_expr.                                                           *)
Routed(s, e) ==
  LET of == VarsOf(e) \cap Vars
      consts == [v \in (VarsOf(e) \cap DOMAIN Context) \ Vars |-> Context[v]]
      shape == IF Cardinality(of) = 1
               THEN NativeOf(s, e, CHOOSE v \in of : TRUE, consts) ELSE NoShape
  IN  Conjunct(s, e, of, consts, shape)
Plan(s, f) == [i \in DOMAIN Flattened(f) |-> Routed(s, Flattened(f)[i])]

Constant(k) == plan[k].of = {}
Tuple(k) == Cardinality(plan[k].of) > 1
(* Pushed below the FILTER: of one variable, bound in every row.           *)
Pushed(k) == Cardinality(plan[k].of) = 1 /\ plan[k].of \cap table.nullable = {}
VarOf(k) == CHOOSE v \in plan[k].of : TRUE

(* What a conjunct's variables, and those it has fixed, are to its routes. *)
Seen(c, bound) ==
  bound @@ [v \in DOMAIN c.consts |-> Of(c.consts[v])] @@ [v \in VarsOf(c.e) |-> Unbound]
RowEnv(c, row) ==
  Seen(c, [v \in c.of |-> IF row[v] = NoCode THEN Unbound ELSE Of(TermOf(row[v]))])

(* The generic route where the fast one does not know.                     *)
Settled(c, fast, env) == IF fast = "unknown" THEN RdfEbv(c.e, env) ELSE fast

ByFast(c, env) == IF c.fast THEN FastAnswer(c.e, env) ELSE "unknown"
ByRoutes(c, env) == Settled(c, ByFast(c, env), env)

(* evaluate_column, of a code no native predicate decided: a kind-only     *)
(* conjunct sees the kind alone.                                           *)
KindView(c) == [NoTerm EXCEPT !.kind = Kind(c)]
ColumnAnswer(c, v, code) ==
  LET env == Seen(c, v :> Of(TermOf(code)))
      kind == Seen(c, v :> Of(KindView(code)))
  IN  IF c.kindOnly THEN Settled(c, ByFast(c, kind), env) ELSE ByRoutes(c, env)

(* constant_predicate, of the term a VALUES table holds.                   *)
ConstantAnswer(c, v, t) ==
  LET env == Seen(c, v :> Of(t))
  IN  Settled(c, IF ConstantView(t) = Unknown THEN "unknown" ELSE ByFast(c, env), env)

OutOfBounds(v, row) == v \in table.inline /\ ConstantView(AsQueried(TermOf(row[v]))) = Unknown

Init ==
  /\ filter \in Filters
  /\ table \in Tables
  /\ switches \in [fast : BOOLEAN, native : BOOLEAN, codes : BOOLEAN]
  /\ switches.native => switches.fast
  /\ plan = Plan(switches, filter)
  /\ todo = DOMAIN plan
  /\ early = {}
  /\ rows = table.rows
  /\ phase = "constants"
  /\ \/ OutOfRange
     \/ \A k \in todo, row \in rows : \A v \in plan[k].of :
          ~Pushed(k) /\ row[v] # NoCode => ~OutOfBounds(v, row)

Unchanging == UNCHANGED <<filter, table, switches, plan>>

(* The rows whose answer is yes; a raise ends the query.                   *)
Keeping(answer) ==
  IF \E row \in rows : answer[row] = "raise"
  THEN phase' = "raised" /\ UNCHANGED rows
  ELSE rows' = {row \in rows : answer[row] = "yes"} /\ UNCHANGED phase

(* evaluate_constant, one conjunct after the other: a false one is the end *)
(* of the rows.                                                            *)
Concluded(answer) ==
  \/ answer = "yes" /\ UNCHANGED <<rows, phase>>
  \/ answer = "no" /\ rows' = {} /\ phase' = "done"
  \/ answer = "raise" /\ phase' = "raised" /\ UNCHANGED rows

EvaluateConstant ==
  \E k \in todo :
    /\ phase = "constants"
    /\ Constant(k)
    /\ \A j \in todo : Constant(j) => k <= j
    /\ todo' = todo \ {k}
    /\ Concluded(ByRoutes(plan[k], Seen(plan[k], NoBindings)))
    /\ UNCHANGED early
    /\ Unchanging

SolveBlock ==
  /\ phase = "constants"
  /\ \A k \in todo : ~Constant(k)
  /\ phase' = "join"
  /\ UNCHANGED <<todo, early, rows>>
  /\ Unchanging

(* native_restriction: the keeps of a pattern's variable, all at once.     *)
Keeps(v) == {k \in todo : Pushed(k) /\ VarOf(k) = v /\ IsKeep(plan[k].shape)}
MatchWithKeep ==
  \E v \in Vars \ table.inline :
    /\ phase = "join"
    /\ Keeps(v) # {}
    /\ rows' = {row \in rows : \A k \in Keeps(v) : InKeep(plan[k].shape, row[v])}
    /\ todo' = todo \ Keeps(v)
    /\ UNCHANGED <<early, phase>>
    /\ Unchanging

(* evaluate_column of one conjunct over the codes still in play.           *)
Columned(c, v) ==
  LET codes == {row[v] : row \in rows}
      native == c.shape # NoShape /\ ~c.kindOnly
  IN  \E maybe \in IF native THEN Maybes(c.shape, codes) ELSE {{}} :
        LET decided == IF native THEN Evaluated(c.shape, codes, maybe)
                       ELSE [passed |-> {}, undecided |-> codes]
        IN  Keeping([row \in rows |->
              IF row[v] \in decided.undecided THEN ColumnAnswer(c, v, row[v])
              ELSE Answer(row[v] \in decided.passed)])

EvaluateColumn ==
  \E k \in todo :
    /\ phase = "join"
    /\ Pushed(k)
    /\ VarOf(k) \notin table.inline
    /\ Keeps(VarOf(k)) = {}
    /\ \A j \in todo : Pushed(j) /\ VarOf(j) = VarOf(k) => k <= j
    /\ Columned(plan[k], VarOf(k))
    /\ todo' = todo \ {k}
    /\ UNCHANGED early
    /\ Unchanging

(* _solve_values: a row of the table is tested as it is read.              *)
TestValues ==
  \E k \in todo :
    /\ phase = "join"
    /\ Pushed(k)
    /\ VarOf(k) \in table.inline
    /\ Keeping([row \in rows |->
         ConstantAnswer(plan[k], VarOf(k), AsQueried(TermOf(row[VarOf(k)])))])
    /\ todo' = todo \ {k}
    /\ UNCHANGED early
    /\ Unchanging

(* A conjunct of several variables, all bound by patterns: what a BGP may  *)
(* test as it joins.                                                       *)
Testable(k) ==
  /\ Tuple(k)
  /\ plan[k].fast
  /\ plan[k].of \cap (table.inline \cup table.nullable) = {}

(* _prune_early: only what the fast route proves false goes.               *)
PruneEarly ==
  \E k \in todo \ early :
    /\ phase = "join"
    /\ Testable(k)
    /\ rows' = {row \in rows : ByFast(plan[k], RowEnv(plan[k], row)) # "no"}
    /\ early' = early \cup {k}
    /\ UNCHANGED <<todo, phase>>
    /\ Unchanging

(* _specialize_tuple_conjuncts: the other variables hold one code in every *)
(* row joined so far, and v is the joining pattern's.                      *)
Single(w) == \A r, q \in rows : r[w] = q[w]
Specialized(k, v) ==
  LET row == CHOOSE r \in rows : TRUE
      c == plan[k]
      consts == c.consts @@ [w \in c.of \ {v} |-> TermOf(row[w])]
  IN  Conjunct(switches, c.e, {v}, consts, NativeOf(switches, c.e, v, consts))

SpecializeTuple ==
  \E k \in todo \ early : \E v \in plan[k].of :
    /\ phase = "join"
    /\ Testable(k)
    /\ switches.native
    /\ rows # {}
    /\ \A w \in plan[k].of \ {v} : Single(w)
    /\ Specialized(k, v).shape # NoShape
    /\ Columned(Specialized(k, v), v)
    /\ todo' = todo \ {k}
    /\ UNCHANGED early
    /\ Unchanging

(* The conjuncts left, above the block: those of several variables, then   *)
(* those of a variable a row may leave unbound, on every row in turn.      *)
LeftInOrder ==
  LET left == SetToSortSeq(todo, <)
  IN  SelectSeq(left, Tuple) \o SelectSeq(left, LAMBDA k : ~Tuple(k))
FirstNotYes(answers) ==
  LET stop == SelectSeq(answers, LAMBDA r : r # "yes") IN IF stop = <<>> THEN "yes" ELSE stop[1]
RowAnswer(row) ==
  FirstNotYes([i \in DOMAIN LeftInOrder |->
    ByRoutes(plan[LeftInOrder[i]], RowEnv(plan[LeftInOrder[i]], row))])

Delivered(answer) ==
  IF \E row \in rows : answer[row] = "raise"
  THEN phase' = "raised" /\ UNCHANGED rows
  ELSE phase' = "done" /\ rows' = {row \in rows : answer[row] = "yes"}

FilterRows ==
  /\ phase = "join"
  /\ \A k \in todo : ~Pushed(k)
  /\ Delivered([row \in rows |-> RowAnswer(row)])
  /\ todo' = {}
  /\ UNCHANGED early
  /\ Unchanging

Next ==
  \/ EvaluateConstant
  \/ SolveBlock
  \/ MatchWithKeep
  \/ EvaluateColumn
  \/ TestValues
  \/ PruneEarly
  \/ SpecializeTuple
  \/ FilterRows

Spec == Init /\ [][Next]_vars

-----------------------------------------------------------------------------
(* Where rdflib raises an exception no filter catches, or reads a bare     *)
(* unbound operand of && or ||, nothing is promised.                       *)
Promised(e, row) == RdfEbv(e, RdfEnv(row)) # "raise" /\ ~BareUnbound(e, RdfEnv(row))
PromisedRow(row) == \A k \in DOMAIN plan : Promised(plan[k].e, row)

(* A row that any route drops, early or late, is one rdflib's own          *)
(* evaluation of the whole expression drops.                               *)
DroppedFail ==
  phase # "raised" =>
    \A row \in table.rows \ rows : PromisedRow(row) => RdfEbv(filter, RdfEnv(row)) = "no"

(* A row left passes, in rdflib, every conjunct some route has settled: at *)
(* the end the whole expression.                                           *)
SettledHold ==
  phase # "raised" =>
    \A row \in rows : PromisedRow(row) =>
      /\ \A k \in DOMAIN plan \ todo : RdfEbv(plan[k].e, RdfEnv(row)) = "yes"
      /\ phase = "done" => RdfEbv(filter, RdfEnv(row)) = "yes"

(* A definite answer of the compiled route is rdflib's, whatever the row   *)
(* and whether or not this run would ask it.                               *)
FastAnswersAreRdflibs ==
  phase = "constants" =>
    \A k \in DOMAIN plan, row \in table.rows :
      LET c == plan[k]
          env == RowEnv(c, row)
          known == RdfEbv(c.e, env) # "raise" /\ ~BareUnbound(c.e, env)
      IN  c.fast /\ known /\ (\A v \in c.of : row[v] = NoCode \/ ~OutOfBounds(v, row))
          => FastAnswer(c.e, env) \in {"unknown", RdfEbv(c.e, env)}
=============================================================================
