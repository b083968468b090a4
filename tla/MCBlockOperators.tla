-------------------------- MODULE MCBlockOperators --------------------------
(* Blocks of up to five nodes over two variables and two codes, those with  *)
(* GRAPH of up to six.                                                      *)
EXTENDS BlockOperators

Plain == [op |-> "", pattern |-> "", rows |-> <<>>, vars |-> {}, p1 |-> 0, p2 |-> 0,
          conjuncts |-> {}, graph |-> 0, exists |-> 0, negate |-> FALSE, inExists |-> FALSE]

Bgp(b) == <<[Plain EXCEPT !.op = "BGP", !.pattern = b]>>
Table(vs, rows) == <<[Plain EXCEPT !.op = "Values", !.vars = vs, !.rows = rows]>>

Shifted(t, k) ==
  [i \in DOMAIN t |->
     [t[i] EXCEPT !.p1 = IF @ = 0 THEN 0 ELSE @ + k,
                  !.p2 = IF @ = 0 THEN 0 ELSE @ + k,
                  !.exists = IF @ = 0 THEN 0 ELSE @ + k]]

Binary(op, s, t, cs) ==
  s \o Shifted(t, Len(s)) \o
  <<[Plain EXCEPT !.op = op, !.p1 = Len(s), !.p2 = Len(s) + Len(t), !.conjuncts = cs]>>

Where(s, cs) == s \o <<[Plain EXCEPT !.op = "Filter", !.p1 = Len(s), !.conjuncts = cs]>>

(* GRAPH ?v and GRAPH <1>.                                                  *)
GraphVar(v, s) == s \o <<[Plain EXCEPT !.op = "Graph", !.vars = {v}, !.p1 = Len(s)]>>
GraphOne(s) == s \o <<[Plain EXCEPT !.op = "Graph", !.graph = 1, !.p1 = Len(s)]>>

InBody(t) == [i \in DOMAIN t |-> [t[i] EXCEPT !.inExists = TRUE]]
WhereExists(s, t, negate, cs) ==
  s \o Shifted(InBody(t), Len(s)) \o
  <<[Plain EXCEPT !.op = "Filter", !.p1 = Len(s), !.exists = Len(s) + Len(t), !.negate = negate,
                  !.conjuncts = cs]>>

AllPatterns == {"ax", "bxy", "cy"}
OneTriple == {"ax", "cy"}
VarsOfPattern == [b \in AllPatterns |->
  CASE b = "ax" -> {"x"} [] b = "bxy" -> {"x", "y"} [] b = "cy" -> {"y"}]

X(i) == [v \in {"x"} |-> i]
Y(i) == [v \in {"y"} |-> i]
XY(i, j) == [v \in {"x", "y"} |-> IF v = "x" THEN i ELSE j]

InUnion(a, xy, c) ==
  [b \in AllPatterns |-> [g \in Places |->
     IF g # Union THEN {} ELSE CASE b = "ax" -> a [] b = "bxy" -> xy [] b = "cy" -> c]]

SomeEdges == {{}, {XY(1, 1)}, {XY(1, 2), XY(2, 2)}, {XY(1, 1), XY(2, 1), XY(1, 2)}}
SomeData ==
  {InUnion(a, xy, c) :
     a \in {{X(1)}, {X(1), X(2)}},
     xy \in SomeEdges,
     c \in {{Y(1)}, {Y(1), Y(2)}}}

FewData == {InUnion({X(1), X(2)}, xy, {Y(1)}) : xy \in SomeEdges}
OneData == {InUnion({X(1)}, {XY(1, 1), XY(2, 1), XY(1, 2)}, {Y(1)})}

(* Two graphs and the default one, their rows apart or shared; a BGP of     *)
(* several patterns also has rows of the union that no graph has.           *)
In(one, two, default) == [g \in Places |->
  CASE g = 1 -> one [] g = 2 -> two [] g = Union -> one \cup two \cup default [] OTHER -> {}]

GraphData ==
  {[b \in AllPatterns |->
      CASE b = "ax" -> a [] b = "bxy" -> In({XY(1, 1)}, {XY(1, 2)}, {XY(2, 1)}) [] b = "cy" -> c] :
     a \in {In({X(1)}, {X(1), X(2)}, {X(2)}), In({X(2)}, {X(1)}, {})},
     c \in {In({Y(1)}, {Y(1)}, {Y(2)}), In({}, {Y(1), Y(2)}, {})}}

(* ?x = 1, COALESCE(?y, 1) = 1, ?x != ?y                                    *)
AllConjuncts == {"x1", "y1", "xy"}
ReadBy == [c \in AllConjuncts |->
  CASE c = "x1" -> {"x"} [] c = "y1" -> {"y"} [] c = "xy" -> {"x", "y"}]
PassedBy == [c \in AllConjuncts |->
  CASE c = "x1" -> {X(1)} [] c = "y1" -> {Nothing, Y(1)} [] c = "xy" -> {XY(1, 2), XY(2, 1)}]

NoContext == {Nothing}
SomeContexts == {Nothing, X(1), Y(2)}
GraphContexts == {Nothing, X(1), Y(2), X(3)}

Tables == {Table({"x"}, <<X(1), Nothing>>), Table({"x"}, <<X(1), X(2)>>)}
Leaves == {Bgp(b) : b \in AllPatterns} \cup Tables

(* Left to the runs and cases below: the condition of an OPTIONAL whose     *)
(* left side holds a VALUES table, and an OPTIONAL of an EXISTS filter.     *)
HasTable(t) == \E i \in DOMAIN t : t[i].op = "Values"
HoldsExists(t) == \E i \in DOMAIN t : t[i].exists # 0
Pairs(S, T) ==
  LET right == {t \in T : ~HoldsExists(t)}
  IN  {Binary(op, s, t, {}) : op \in {"Join", "Minus"}, s \in S, t \in T}
        \cup {Binary("LeftJoin", s, t, {}) : s \in S, t \in right}
        \cup {Binary("LeftJoin", s, t, {"xy"}) : s \in {s \in S : ~HasTable(s)}, t \in right}
Tests(S) == {Where(s, {c}) : s \in S, c \in AllConjuncts}
ExistencesWith(css, S, T) ==
  {WhereExists(s, t, n, cs) : s \in S, t \in T, n \in BOOLEAN, cs \in css}
Existences(S, T) == ExistencesWith({{}}, S, T)
AllExistences(S, T) == ExistencesWith({{}} \cup {{c} : c \in AllConjuncts}, S, T)

(* Every block, by its nodes; those of five that are two operators of two  *)
(* operands are given all the data.                                         *)
Two == Tests(Leaves)
TwoSided == Pairs(Leaves, Leaves) \cup Existences(Leaves, Leaves)
Three == Pairs(Leaves, Leaves) \cup AllExistences(Leaves, Leaves) \cup Tests(Two)
Four == Tests(Three) \cup Pairs(Leaves, Two) \cup Pairs(Two, Leaves)
  \cup AllExistences(Leaves, Two) \cup AllExistences(Two, Leaves)
FiveTwoSided == Pairs(Leaves, TwoSided) \cup Pairs(TwoSided, Leaves)
  \cup Existences(Leaves, TwoSided) \cup Existences(TwoSided, Leaves)
UpToFour == Leaves \cup Two \cup Three \cup Four
Fives ==
  {Tests(Four), Pairs(Leaves, Three), Pairs(Three, Leaves), Pairs(Two, Two),
   AllExistences(Leaves, Three), AllExistences(Three, Leaves), AllExistences(Two, Two)}

(* The OPTIONALs of an EXISTS filter, where rdflib's second test forgets    *)
(* nothing that the EXISTS reads.                                           *)
Bgps == {Bgp(b) : b \in AllPatterns}
OptionalExistences ==
  {Binary("LeftJoin", s, t, cs) : s \in Bgps, t \in AllExistences(Leaves, Leaves), cs \in {{}, {"xy"}}}

(* GRAPH over a block, inside one, and both.  A VALUES table of the GRAPH   *)
(* variable that flows into an OPTIONAL is left out: rdflib's second test   *)
(* of the OPTIONAL has lost it and the solver's guard does not ask.         *)
TableBeforeOptional(t) ==
  \E i, j \in DOMAIN t : t[i].op = "Values" /\ t[j].op = "LeftJoin" /\ i <= t[j].p1
Graphed(S) ==
  {GraphVar("x", s) : s \in {s \in S : ~TableBeforeOptional(s)}}
    \cup {GraphVar("y", s) : s \in S} \cup {GraphOne(s) : s \in S}
SmallGraphs == Graphed(Bgps \cup {Table({"x"}, <<X(1), X(2)>>)})
Small == Leaves \cup Pairs(Leaves, Leaves) \cup Tests(Leaves)
GraphBlocks ==
  Graphed(Small \cup Pairs(Small, Bgps) \cup Pairs(Bgps, Small) \cup Existences(Bgps, Bgps)
            \cup Pairs(Bgps, SmallGraphs) \cup Pairs(SmallGraphs, Bgps))
    \cup Pairs(SmallGraphs, Bgps) \cup Pairs(Leaves, SmallGraphs)
    \cup Tests(SmallGraphs) \cup Existences(Bgps, SmallGraphs) \cup Existences(SmallGraphs, Bgps)

AllCases ==
  {[blocks |-> five, contexts |-> SomeContexts, actives |-> {Union}, data |-> OneData] : five \in Fives}
  \cup
  {[blocks |-> UpToFour, contexts |-> SomeContexts, actives |-> {Union}, data |-> SomeData],
   [blocks |-> FiveTwoSided, contexts |-> SomeContexts, actives |-> {Union}, data |-> FewData],
   [blocks |-> OptionalExistences, contexts |-> NoContext, actives |-> {Union}, data |-> SomeData],
   [blocks |-> GraphBlocks, contexts |-> GraphContexts, actives |-> {1, Union}, data |-> GraphData]}

(* { VALUES ?x { ... } OPTIONAL { ?a :c ?y FILTER(?x != ?y) } }, in a group *)
(* join.                                                                    *)
OptionalsOverTables ==
  {Binary("Join", Bgp("ax"), Binary("LeftJoin", t, Bgp("cy"), {"xy"}), {}) : t \in Tables}
OptionalCases ==
  {[blocks |-> OptionalsOverTables, contexts |-> NoContext, actives |-> {Union}, data |-> SomeData]}

(* { ?x a :T OPTIONAL { { ?x a :T FILTER EXISTS { ?x :b ?y } } } }, where   *)
(* ?y is bound already.                                                     *)
ForgottenExistences ==
  {Binary("LeftJoin", Bgp("ax"), WhereExists(Bgp("ax"), Bgp("bxy"), FALSE, {}), {})}
ForgottenCases ==
  {[blocks |-> ForgottenExistences, contexts |-> SomeContexts, actives |-> {Union}, data |-> SomeData]}

(* GRAPH ?x { { VALUES ?x { ... } ?b :c ?y } OPTIONAL { ?x :a :T } }        *)
GraphOptionals ==
  {GraphVar("x", Binary("LeftJoin", Binary("Join", Table({"x"}, <<X(1), X(2)>>), Bgp("cy"), {}),
                        Bgp("ax"), {}))}
GraphOptionalCases ==
  {[blocks |-> GraphOptionals, contexts |-> NoContext, actives |-> {Union}, data |-> GraphData]}
=============================================================================
