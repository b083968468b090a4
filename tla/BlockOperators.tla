--------------------------- MODULE BlockOperators ---------------------------
(***************************************************************************)
(* A block solved into one relation: _solve_block and the operators of     *)
(* pushdown/blocks.py, over the static walks of pushdown/algebra.py and    *)
(* the joins of pushdown/relation.py, against the rows rdflib's evaluator  *)
(* gives for the same algebra.                                             *)
(*                                                                         *)
(* rdflib evaluates a lazy join, an OPTIONAL and an EXISTS once per row of *)
(* the left side, which binds variables below it; the solver solves both   *)
(* sides on their own and joins them, and hands the block back where that  *)
(* could differ.  A block is a tree, a sequence of nodes in which children *)
(* come before their parents; the solver's recursion is the stack of its   *)
(* calls.  A row or a solution is a function from the variables it binds   *)
(* to codes: a variable of the schema outside its domain is None.          *)
(*                                                                         *)
(* rdflib evaluates GRAPH ?g once per named graph and joins ?g in after    *)
(* the group; the solver matches every graph at once with ?g a column.     *)
(***************************************************************************)
EXTENDS Naturals, FiniteSets, SequencesExt

CONSTANTS
  Vars, Codes,
  Graphs,     \* the codes of the named graphs
  Unnamable,  \* the codes of terms that cannot name a graph
  Union,      \* the union of the graphs, the default one included
  Cases,      \* what a query may be: [blocks, contexts, actives, data], the
              \* trees, the bindings (ctx.bindings) and the graph (ctx.graph)
              \* they are solved under, and what the patterns may match:
              \* functions of Patterns and of the graph
  Patterns,   \* the basic graph patterns of the trees
  Single,     \* those of one triple pattern
  PatternVars,\* PatternVars[b]: the variables of b
  Conjuncts,  \* the conjuncts of their FILTERs and OPTIONALs, comparisons
  Reads,      \* Reads[c]: the variables c's expression reads
  Passes      \* Passes[c]: the bindings of Reads[c] that satisfy it

Bindings == UNION {[S -> Codes] : S \in SUBSET Vars}
Nothing == [v \in {} |-> 0]

Places == Codes \cup {Union}

Compatible(f, g) == \A v \in DOMAIN f \cap DOMAIN g : f[v] = g[v]
On(f, S) == Restrict(f, DOMAIN f \cap S)
Merged(f, g) == [v \in DOMAIN f \cup DOMAIN g |-> IF v \in DOMAIN f THEN f[v] ELSE g[v]]

(* The elements of s in T, in order, as often as they come.                *)
Keep(s, T) ==
  LET kept[n \in 0..Len(s)] ==
        IF n = 0 THEN <<>>
        ELSE IF s[n] \in T THEN Append(kept[n - 1], s[n]) ELSE kept[n - 1]
  IN  kept[Len(s)]

(* A node's sides, and the body of its EXISTS.                             *)
Children(b) ==
  CASE b.op \in {"BGP", "Values"} -> {}
    [] b.op = "Graph" -> {b.p1}
    [] b.op = "Filter" -> IF b.exists = 0 THEN {b.p1} ELSE {b.p1, b.exists}
    [] OTHER -> {b.p1, b.p2}

Tree(t) ==
  /\ Len(t) \in Nat \ {0} /\ DOMAIN t = 1..Len(t)
  /\ \A n \in DOMAIN t :
       /\ t[n].op \in {"BGP", "Values", "Filter", "Graph", "Join", "LeftJoin", "Minus"}
       /\ t[n].op = "BGP" => t[n].pattern \in Patterns
       /\ t[n].op = "Values" => t[n].vars \subseteq Vars /\ t[n].rows \in Seq(Bindings)
       /\ t[n].op = "Graph" => t[n].vars \subseteq Vars /\ (t[n].vars = {} => t[n].graph \in Codes)
       /\ Children(t[n]) \subseteq 1..(n - 1)
       /\ \A k \in DOMAIN t : Children(t[k]) \cap Children(t[n]) # {} => k = n

(* A file holds finitely many codes, a block finitely many variables.      *)
ASSUME BlocksAssumption ==
  /\ IsFiniteSet(Bindings)
  /\ Single \subseteq Patterns
  /\ Graphs \subseteq Codes \ Unnamable
  /\ Union \notin Codes
  /\ \A b \in Patterns : PatternVars[b] \subseteq Vars
  /\ \A c \in Cases :
       /\ \A t \in c.blocks : Tree(t)
       /\ c.contexts \subseteq Bindings
       /\ c.actives \subseteq Graphs \cup {Union}
       /\ \A d \in c.data : \A b \in Patterns : \A g \in Places :
            /\ d[b][g] \subseteq [PatternVars[b] -> Codes]
            /\ d[b][g] \subseteq d[b][Union]
            /\ g \notin Graphs \cup {Union} => d[b][g] = {}
  /\ \A c \in Conjuncts : Reads[c] \subseteq Vars
  /\ \A c \in Conjuncts : \A f \in Passes[c] : f \in Bindings /\ DOMAIN f \subseteq Reads[c]

VARIABLES
  block,    \* the tree
  ctx,      \* the bindings it is solved under
  active,   \* and the graph rdflib has made active
  matches,  \* matches[b][g]: the solutions of pattern b in graph g
  calls,    \* the calls of _solve_block, innermost last
  rel,      \* rel[n]: the relation node n was solved into
  applied,  \* the tuple conjuncts a BGP applied (_Pushed.applied)
  outcome   \* "solving", "solved" or "handed back"

vars == <<block, ctx, active, matches, calls, rel, applied, outcome>>

query == <<block, ctx, active, matches>>

Nodes == DOMAIN block
Root == Len(block)

-----------------------------------------------------------------------------
(* What a block is, read without matching anything (algebra.py).           *)

(* _node_vars: every variable a block mentions, and, with bound, those its *)
(* solutions can bind.                                                     *)
NodeVars[n \in Nodes] ==
  LET b == block[n]
  IN  CASE b.op = "BGP" -> PatternVars[b.pattern]
        [] b.op = "Values" -> b.vars
        [] b.op = "Filter" -> NodeVars[b.p1]
        [] b.op = "Graph" -> NodeVars[b.p1] \cup b.vars
        [] OTHER -> NodeVars[b.p1] \cup NodeVars[b.p2]

BoundVars[n \in Nodes] ==
  LET b == block[n]
  IN  CASE b.op = "BGP" -> PatternVars[b.pattern]
        [] b.op = "Values" -> b.vars
        [] b.op \in {"Filter", "Minus"} -> BoundVars[b.p1]
        [] b.op = "Graph" -> BoundVars[b.p1] \cup b.vars
        [] OTHER -> BoundVars[b.p1] \cup BoundVars[b.p2]

(* The variable of a GRAPH ?g above binds in every row.                    *)
ScopedVars(n, scope) == NodeVars[n] \cup scope.vars
GroupVars(n) == BoundVars[n] \ DOMAIN ctx

(* Mutant: a MINUS on the left is taken to bind its right side.           *)
PaddedVarsMentioned(n) == NodeVars[block[n].p2] \ NodeVars[block[n].p1]

(* The variables an OPTIONAL's right side introduces.                      *)
PaddedVars(n) == NodeVars[block[n].p2] \ BoundVars[block[n].p1]

(* The variables some row of a VALUES table leaves UNDEF.                  *)
UndefVars(n) == {v \in NodeVars[n] : \E r \in Range(block[n].rows) : v \notin DOMAIN r}

(* _block_nullable: the variables a block may leave unbound.               *)
Nullable[n \in Nodes] ==
  LET b == block[n]
  IN  CASE b.op = "BGP" -> {}
        [] b.op = "Values" -> UndefVars(n)
        [] b.op \in {"Filter", "Minus", "Graph"} -> Nullable[b.p1]
        [] b.op = "Join" -> Nullable[b.p1] \cup Nullable[b.p2]
        [] OTHER -> Nullable[b.p1] \cup Nullable[b.p2] \cup PaddedVars(n)

(* The variables node n and the expressions in it name (expr_vars).        *)
BodyReads[n \in Nodes] ==
  LET b == block[n]
  IN  CASE b.op \in {"BGP", "Values"} -> NodeVars[n]
        [] b.op = "Filter" -> BodyReads[b.p1] \cup UNION {Reads[c] : c \in b.conjuncts}
                                \cup (IF b.exists = 0 THEN {} ELSE BodyReads[b.exists])
        [] b.op = "Graph" -> BodyReads[b.p1] \cup b.vars
        [] OTHER -> BodyReads[b.p1] \cup BodyReads[b.p2]
                      \cup UNION {Reads[c] : c \in b.conjuncts}

HasMinus[n \in Nodes] ==
  LET b == block[n]
  IN  CASE b.op \in {"BGP", "Values"} -> FALSE
        [] b.op = "Graph" -> HasMinus[b.p1]
        [] b.op = "Filter" -> HasMinus[b.p1] \/ (b.exists # 0 /\ HasMinus[b.exists])
        [] OTHER -> b.op = "Minus" \/ HasMinus[b.p1] \/ HasMinus[b.p2]

(* rdflib's _vars: no VALUES table's, no comparison's, and none inside an  *)
(* EXISTS body.                                                            *)
Mentions[n \in Nodes] ==
  LET b == block[n]
  IN  CASE b.op = "BGP" -> PatternVars[b.pattern]
        [] b.op = "Values" -> {}
        [] b.op = "Graph" -> Mentions[b.p1] \cup b.vars
        [] b.op = "Filter" -> Mentions[b.p1] \cup (IF b.exists = 0 THEN {} ELSE Mentions[b.exists])
        [] OTHER -> Mentions[b.p1] \cup Mentions[b.p2]

AlgebraVars(n) == IF block[n].inExists THEN {} ELSE Mentions[n]

(* _carries_graph: the variables v such that the rows of a block under     *)
(* GRAPH ?v have its column, and those an OPTIONAL or a MINUS has on the    *)
(* right alone.                                                            *)
CarriesGraph[n \in Nodes] ==
  LET b == block[n]
  IN  CASE b.op = "BGP" -> Vars
        [] b.op = "Values" -> {}
        [] b.op = "Join" -> CarriesGraph[b.p1] \cup CarriesGraph[b.p2]
        [] b.op = "Graph" -> b.vars \cap CarriesGraph[b.p1]
        [] OTHER -> CarriesGraph[b.p1]

CarriesRightOnly[n \in Nodes] ==
  LET b == block[n]
  IN  CASE b.op \in {"BGP", "Values"} -> {}
        [] b.op = "Filter" -> CarriesRightOnly[b.p1]
        [] b.op = "Graph" -> b.vars \cap CarriesRightOnly[b.p1]
        [] b.op = "Join" -> CarriesRightOnly[b.p1] \cup CarriesRightOnly[b.p2]
        [] OTHER -> CarriesRightOnly[b.p1] \cup CarriesRightOnly[b.p2]
                      \cup (CarriesGraph[b.p2] \ CarriesGraph[b.p1])

(* A FILTER at the top of an EXISTS body (no_isolated_scope).              *)
AtBodyTop(n) == \E k \in Nodes : block[k].op = "Filter" /\ block[k].exists = n

-----------------------------------------------------------------------------
(* rdflib's evaluator: the solutions of node n with m bound and g the      *)
(* active graph, in its order.  Each extends m.                            *)

Each(s, F(_)) == FlattenSeq([i \in DOMAIN s |-> F(s[i])])
Extending(m, S) == SetToSeq({Merged(m, f) : f \in {g \in S : Compatible(g, m)}})
Satisfied(c, f) == On(f, Reads[c]) \in Passes[c]

(* An expression no longer sees what was bound before the node, but for    *)
(* the variables kept; a body evaluated under no binding sees the context. *)
Seen(f, m, kept) == On(f, {v \in Vars : v \notin DOMAIN m \/ v \in kept})
Thawed(m, f) == IF DOMAIN f = {} THEN m ELSE f

(* evalGraph: the graph a bound term names, or the solutions in a named     *)
(* graph with its name joined in.                                          *)
NamedBy(b, m) == IF b.vars = {} THEN b.graph ELSE m[CHOOSE v \in b.vars : TRUE]
Labelled(s, label) ==
  LET own == Keep(s, {f \in Range(s) : Compatible(f, label)})
  IN  [i \in DOMAIN own |-> Merged(own[i], label)]

Rdflib[n \in Nodes, m \in Bindings, g \in Places] ==
  LET b == block[n]
      expr(f) == \A c \in b.conjuncts : Satisfied(c, f)
      seen(f) == IF AtBodyTop(n) THEN f ELSE Seen(f, m, AlgebraVars(n))
      exists(f) == b.exists # 0 =>
                     (Rdflib[b.exists, Thawed(m, f), g] # <<>>) # b.negate
      passing(s) == Keep(s, {f \in Range(s) : expr(Seen(f, m, {}))})
      cheated(f) == /\ ~b.inExists
                    /\ \E h \in Range(Rdflib[b.p2, Thawed(m, On(f, AlgebraVars(b.p1))), g]) :
                         expr(h)
  IN  CASE b.op = "BGP" -> Extending(m, matches[b.pattern][g])
        [] b.op = "Values" ->
             LET rows == Keep(b.rows, {r \in Range(b.rows) : Compatible(r, m)})
             IN  [i \in DOMAIN rows |-> Merged(m, rows[i])]
        [] b.op = "Graph" /\ b.vars \subseteq DOMAIN m -> Rdflib[b.p1, m, NamedBy(b, m)]
        [] b.op = "Graph" ->
             Each(SetToSeq(Graphs), LAMBDA h : Labelled(Rdflib[b.p1, m, h], [v \in b.vars |-> h]))
        [] b.op = "Filter" ->
             LET left == Rdflib[b.p1, m, g]
             IN  Keep(left, {f \in Range(left) : expr(seen(f)) /\ exists(seen(f))})
        [] b.op = "Join" /\ ~b.inExists ->
             Each(Rdflib[b.p1, m, g], LAMBDA f : Rdflib[b.p2, f, g])
        [] b.op = "Join" ->
             LET right == Range(Rdflib[b.p2, m, g])
             IN  Each(Rdflib[b.p1, m, g], LAMBDA f : Extending(f, right))
        [] b.op = "Minus" ->
             LET left == Rdflib[b.p1, m, g]
                 right == Range(Rdflib[b.p2, m, g])
                 removed(f) == \E h \in right : Compatible(f, h) /\ DOMAIN f \cap DOMAIN h # {}
             IN  Keep(left, {f \in Range(left) : ~removed(f)})
        [] b.op = "LeftJoin" ->
             Each(Rdflib[b.p1, m, g], LAMBDA f :
               LET extended == passing(Rdflib[b.p2, f, g])
               IN  IF extended # <<>> THEN extended
                   ELSE IF cheated(f) THEN <<>> ELSE <<f>>)

-----------------------------------------------------------------------------
(* The calls.  at: "start", then what the call waits for: its left or its  *)
(* right side, an EXISTS body, or nothing ("generic").                     *)

None == [schema |-> {}, rows |-> <<>>, nullable |-> {}]
Relation(schema, rows, nullable) == [schema |-> schema, rows |-> rows, nullable |-> nullable]

(* _GraphScope: the graph matched, or, of all of them, the variable their  *)
(* column binds.                                                           *)
Scope(graph, vs) == [graph |-> graph, vars |-> vs]
ActiveScope == Scope(active, {})

Top == calls[Len(calls)]
Node == block[Top.node]
At(op, at) == outcome = "solving" /\ Node.op = op /\ Top.at = at
Moved(at) == SubSeq(calls, 1, Len(calls) - 1) \o <<[Top EXCEPT !.at = at]>>

SolveIn(scope, n, at, env, pushed) ==
  /\ calls' = Append(Moved(at), [node |-> n, at |-> "start", env |-> env, pushed |-> pushed,
                                 scope |-> scope])
  /\ UNCHANGED <<query, applied, outcome>>

Solve(n, at, env, pushed) == SolveIn(Top.scope, n, at, env, pushed)
BlockVars(n) == ScopedVars(n, Top.scope) \ DOMAIN ctx

Return(r) ==
  /\ rel' = [rel EXCEPT ![Top.node] = r]
  /\ calls' = SubSeq(calls, 1, Len(calls) - 1)
  /\ outcome' = IF Len(calls) = 1 THEN "solved" ELSE outcome
  /\ UNCHANGED query

(* NotImplementedError: an EXISTS whose body raises takes the generic      *)
(* route; otherwise the whole block goes back to rdflib.                   *)
Bodies == {i \in DOMAIN calls : calls[i].at = "body"}

Raise ==
  /\ IF Bodies = {}
     THEN calls' = <<>> /\ outcome' = "handed back"
     ELSE LET i == CHOOSE j \in Bodies : \A k \in Bodies : k <= j
          IN  /\ calls' = SubSeq(calls, 1, i - 1) \o <<[calls[i] EXCEPT !.at = "generic"]>>
              /\ UNCHANGED outcome
  /\ UNCHANGED <<query, rel, applied>>

Left == rel[Node.p1]
Right == rel[Node.p2]
Shared(l, r) == l.schema \cap r.schema
SharedKeyOK(l, r) == Shared(l, r) \cap (l.nullable \cup r.nullable) = {}

-----------------------------------------------------------------------------
(* Conjuncts (analyze_expr): one reads the variables the group binds and,  *)
(* of the others, the context's it may see, as constants.                  *)

Routed(c, group, visible) ==
  [name |-> c, node |-> Top.node, vars |-> Reads[c] \cap group,
   consts |-> On(ctx, (Reads[c] \cap visible) \ group)]

Decides(k, row) == Merged(On(row, k.vars), k.consts) \in Passes[k.name]
Filtered(rows, ks) == Keep(rows, {r \in Range(rows) : \A k \in ks : Decides(k, r)})

(* The conjuncts of several variables a BGP over S may prune with.         *)
Coverable(ks, S) == {k \in ks : Cardinality(k.vars) > 1 /\ k.vars \subseteq S}
OfOne(ks, S) == {k \in ks : Cardinality(k.vars) = 1 /\ k.vars \subseteq S}

(* What a pattern matches in the scope of the call: one graph, or every    *)
(* named graph with its code in the column.                                *)
Free(pattern) == (PatternVars[pattern] \cup Top.scope.vars) \ DOMAIN ctx

InScope(pattern) ==
  IF Top.scope.vars = {} THEN matches[pattern][Top.scope.graph]
  ELSE UNION {LET label == [v \in Top.scope.vars |-> g]
              IN  {Merged(f, label) : f \in {f \in matches[pattern][g] : Compatible(f, label)}} :
              g \in Graphs}

Matched(pattern) ==
  SetToSeq({On(f, Free(pattern)) : f \in {f \in InScope(pattern) : Compatible(f, ctx)}})

(* A BGP: the conjuncts of one variable restrict its matches; of the       *)
(* others it binds whole it applies some, and prunes with some.            *)
SolveBGP ==
  /\ At("BGP", "start")
  /\ LET free == Free(Node.pattern)
     IN  \E specialized \in SUBSET Coverable(Top.pushed, free) :
         \E pruning \in SUBSET Coverable(Top.pushed, free) :
           /\ applied' = applied \cup specialized
           /\ Return(Relation(free,
                Filtered(Matched(Node.pattern),
                         OfOne(Top.pushed, free) \cup specialized \cup pruning), {}))

(* VALUES: the rows the context does not contradict, UNDEF unbound.        *)
SolveValues ==
  /\ At("Values", "start")
  /\ LET schema == Node.vars \ DOMAIN ctx
         kept == Filtered(Keep(Node.rows, {r \in Range(Node.rows) : Compatible(r, ctx)}),
                          OfOne(Top.pushed, schema))
         rows == [i \in DOMAIN kept |-> On(kept[i], schema)]
     IN  Return(Relation(schema, rows,
                         {v \in schema : \E i \in DOMAIN rows : v \notin DOMAIN rows[i]}))
  /\ UNCHANGED applied

-----------------------------------------------------------------------------
(* FILTER                                                                  *)

Group == GroupVars(Node.p1)
Visible == IF AtBodyTop(Top.node) THEN Vars ELSE AlgebraVars(Top.node)
FilterConjuncts == {Routed(c, Group, Visible) : c \in Node.conjuncts}
Constants == {k \in FilterConjuncts : k.vars = {}}
PushedDown ==
  {k \in FilterConjuncts :
     \/ Cardinality(k.vars) > 1
     \/ Cardinality(k.vars) = 1 /\ k.vars \cap Nullable[Node.p1] = {}}
Residual == {k \in FilterConjuncts \ Constants :
               Cardinality(k.vars) = 1 => k.vars \cap Nullable[Node.p1] # {}}

HasExists == Node.exists # 0
BodyVars == BodyReads[Node.exists] \cap Group
BodyConsts == On(ctx, (BodyReads[Node.exists] \cap Visible) \ Group)

(* What the expressions of the node read.                                  *)
Expressions == {Reads[c] : c \in Node.conjuncts}
                 \cup (IF HasExists THEN {BodyReads[Node.exists]} ELSE {})

(* Mutant: only a variable the expression loses is looked for.            *)
EnvReferencesHidden ==
  \E R \in Expressions : \E v \in R \cap Top.env :
    v \notin DOMAIN ctx /\ v \notin Group /\ v \in Visible

(* A conjunct that sees an enclosing row's variable in rdflib and not here,*)
(* or here and not in rdflib.                                              *)
EnvReferences ==
  \E R \in Expressions : \E v \in R \cap Top.env :
    /\ ~(v \in DOMAIN ctx /\ v \in Visible \ Group)
    /\ (v \in Group) # (v \in Visible)

ForgottenExists ==
  /\ HasExists /\ ~AtBodyTop(Top.node)
  /\ (BodyReads[Node.exists] \cap DOMAIN ctx) \ AlgebraVars(Top.node) # {}

(* Under a graph variable no one graph is active for the body.             *)
ExistsOverGraphs == HasExists /\ Top.scope.vars # {}

EnterFilter ==
  /\ At("Filter", "start")
  /\ IF ForgottenExists \/ EnvReferences \/ ExistsOverGraphs THEN Raise
     ELSE IF \E k \in Constants : ~Decides(k, Nothing)
     THEN Return(Relation(BlockVars(Node.p1), <<>>, {})) /\ UNCHANGED applied
     ELSE Solve(Node.p1, "left", Top.env, Top.pushed \cup PushedDown) /\ UNCHANGED rel

FilterRows ==
  /\ At("Filter", "left")
  /\ LET r == [Left EXCEPT !.rows = Filtered(@, Residual \ applied)]
     IN  IF HasExists
         THEN /\ rel' = [rel EXCEPT ![Top.node] = r]
              /\ calls' = Moved("exists")
              /\ UNCHANGED <<query, applied, outcome>>
         ELSE Return(r) /\ UNCHANGED applied

(* (NOT) EXISTS: the body is solved once and the rows semi-joined with it, *)
(* or rdflib evaluates it on each row's bindings of the variables it names.*)
Own == rel[Top.node]
Body == rel[Node.exists]
Keys == BlockVars(Node.exists) \cap Own.schema
Generic == calls' = Moved("generic") /\ UNCHANGED <<query, rel, applied, outcome>>

EnterExists ==
  /\ At("Filter", "exists")
  /\ IF Own.rows = <<>> THEN Return(Own) /\ UNCHANGED applied
     ELSE IF Keys \cap Own.nullable # {} THEN Generic
     ELSE Solve(Node.exists, "body", Own.schema, {}) /\ UNCHANGED rel

SemiJoinable == Keys \subseteq Body.schema /\ Keys \cap Body.nullable = {}

SemiJoin ==
  /\ At("Filter", "body")
  /\ IF ~SemiJoinable THEN Generic
     ELSE /\ LET found(r) == \E s \in Range(Body.rows) : On(s, Keys) = On(r, Keys)
             IN  Return([Own EXCEPT !.rows = Keep(@, {r \in Range(@) : found(r) # Node.negate})])
          /\ UNCHANGED applied

RdflibFinds(r) ==
  Rdflib[Node.exists, Thawed(ctx, Merged(On(r, BodyVars), BodyConsts)), active] # <<>>

GenericExists ==
  /\ At("Filter", "generic")
  /\ IF \/ Top.scope # ActiveScope
        \/ HasMinus[Node.exists] /\ (BodyVars = {} \/ BodyVars \cap Own.nullable # {})
     THEN Raise
     ELSE /\ Return([Own EXCEPT !.rows = Keep(@, {r \in Range(@) : RdflibFinds(r) # Node.negate})])
          /\ UNCHANGED applied

-----------------------------------------------------------------------------
(* Joins                                                                   *)

Joining(f, rows) ==
  LET own == Keep(rows, {g \in Range(rows) : Compatible(f, g)})
  IN  [i \in DOMAIN own |-> Merged(f, own[i])]
Joined(left, right) == Each(left, LAMBDA f : Joining(f, right))

(* A right side of one triple pattern is counted, then probed per left row *)
(* or matched; only the conjuncts on the variables it brings restrict it.  *)
IsPattern(n) == block[n].op = "BGP" /\ block[n].pattern \in Single
PatternSide(pushed) ==
  LET pattern == block[Node.p2].pattern
  IN  Relation(Free(pattern),
               Filtered(Matched(pattern), OfOne(pushed, Free(pattern) \ Left.schema)), {})

EnterJoin ==
  /\ At("Join", "start")
  /\ Solve(Node.p1, "left", Top.env, Top.pushed)
  /\ UNCHANGED rel

Lazy == ~Node.inExists

JoinWith(right) ==
  IF ~SharedKeyOK(Left, right) THEN Raise
  ELSE /\ Return(Relation(Left.schema \cup right.schema,
                          Joined(Left.rows, IF Lazy THEN right.rows
                                            ELSE SetToSeq(Range(right.rows))),
                          Left.nullable \cup right.nullable))
       /\ UNCHANGED applied

JoinLeft ==
  /\ At("Join", "left")
  /\ IF Left.rows = <<>>
     THEN /\ Return(Relation(Left.schema \cup BlockVars(Node.p2), <<>>,
                             Left.nullable \cup Nullable[Node.p2]))
          /\ UNCHANGED applied
     ELSE IF Lazy /\ IsPattern(Node.p2) THEN JoinWith(PatternSide(Top.pushed))
     ELSE /\ Solve(Node.p2, "right",
                   IF Lazy THEN Top.env \cup ScopedVars(Node.p1, Top.scope) ELSE Top.env, Top.pushed)
          /\ UNCHANGED rel

JoinRight == At("Join", "right") /\ JoinWith(Right)

-----------------------------------------------------------------------------
(* OPTIONAL                                                                *)

ConditionReads == UNION {Reads[c] : c \in Node.conjuncts}

(* rdflib tests an unmatched OPTIONAL again with only the left side's _vars*)
(* bound; where that could differ the block is left to it.                 *)
CheatedScope ==
  LET known == AlgebraVars(Node.p1)
  IN  /\ ~Node.inExists
      /\ \/ ((Top.env \cup DOMAIN ctx \cup NodeVars[Node.p1]) \ (known \cup Top.scope.vars))
               \cap NodeVars[Node.p2] # {}
         \/ ConditionReads \cap known \cap (Top.env \cup DOMAIN ctx) # {}

(* The variable of the GRAPH ?g above, bound by the right side alone.       *)
RightNamesGraph == Top.scope.vars \cap (GroupVars(Node.p2) \ GroupVars(Node.p1)) # {}

EnterLeftJoin ==
  /\ At("LeftJoin", "start")
  /\ IF RightNamesGraph \/ CheatedScope THEN Raise
     ELSE Solve(Node.p1, "left", Top.env, Top.pushed) /\ UNCHANGED rel

Extra == BlockVars(Node.p2) \ Left.schema

(* Mutant: an OPTIONAL's new variables are not declared nullable.         *)
PadsUndeclared == Left.nullable \cup Nullable[Node.p2]

Pads == Left.nullable \cup Nullable[Node.p2] \cup Extra

(* The condition sees the variables of the two sides; one that reads none  *)
(* of them is decided first.                                               *)
Conditions(schema) ==
  {Routed(c, schema \cap GroupVars(Top.node), {}) : c \in Node.conjuncts}

LeftJoined(right) ==
  LET ks == Conditions(Left.schema \cup right.schema)
      extended(f) == IF \E k \in ks : k.vars = {} /\ ~Decides(k, Nothing) THEN <<>>
                     ELSE Filtered(Joining(f, right.rows), ks)
  IN  Each(Left.rows, LAMBDA f : IF extended(f) = <<>> THEN <<f>> ELSE extended(f))

LeftJoinWith(right) ==
  IF ~SharedKeyOK(Left, right) THEN Raise
  ELSE Return(Relation(Left.schema \cup right.schema, LeftJoined(right), Pads)) /\ UNCHANGED applied

LeftJoinLeft ==
  /\ At("LeftJoin", "left")
  /\ IF Left.rows = <<>>
     THEN Return(Relation(Left.schema \cup Extra, <<>>, Pads)) /\ UNCHANGED applied
     ELSE IF IsPattern(Node.p2) THEN LeftJoinWith(PatternSide({}))
     ELSE Solve(Node.p2, "right", Top.env \cup ScopedVars(Node.p1, Top.scope), {}) /\ UNCHANGED rel

LeftJoinRight == At("LeftJoin", "right") /\ LeftJoinWith(Right)

-----------------------------------------------------------------------------
(* MINUS                                                                   *)

MayRemove == GroupVars(Node.p1) \cap GroupVars(Node.p2) # {} \/ DOMAIN ctx # {}

ReadsEnclosing ==
  \/ Top.env # {} /\ ~MayRemove
  \/ (GroupVars(Node.p2) \cap Top.env) \ GroupVars(Node.p1) # {}

EnterMinus ==
  /\ At("Minus", "start")
  /\ IF ReadsEnclosing THEN Raise
     ELSE Solve(Node.p1, "left", Top.env, Top.pushed) /\ UNCHANGED rel

MinusLeft ==
  /\ At("Minus", "left")
  /\ IF ~MayRemove \/ Left.rows = <<>> THEN Return(Left) /\ UNCHANGED applied
     ELSE IF RightNamesGraph THEN Raise
     ELSE Solve(Node.p2, "right", Top.env, {}) /\ UNCHANGED rel

MinusRight ==
  /\ At("Minus", "right")
  /\ IF ~SharedKeyOK(Left, Right) THEN Raise
     ELSE /\ LET removed(f) == \E g \in Range(Right.rows) : Compatible(f, g)
             IN  Return([Left EXCEPT !.rows = Keep(@, {f \in Range(@) : ~removed(f)})])
          /\ UNCHANGED applied

-----------------------------------------------------------------------------
(* GRAPH: a bound term names the graph of the patterns below, an unbound   *)
(* variable is the column of all of them.                                  *)

GraphScope ==
  IF Node.vars \subseteq DOMAIN ctx THEN Scope(NamedBy(Node, ctx), {})
  ELSE Scope(Union, Node.vars)

(* What evalGraph's answer cannot be read from: a block without the column, *)
(* or with it on the right of an OPTIONAL or a MINUS alone.                *)
ColumnMissing(v) == v \notin CarriesGraph[Node.p1] \/ v \in CarriesRightOnly[Node.p1]

EnterGraph ==
  /\ At("Graph", "start")
  /\ IF GraphScope.graph \in Unnamable \/ \E v \in GraphScope.vars : ColumnMissing(v)
     THEN Raise
     ELSE SolveIn(GraphScope, Node.p1, "left", Top.env, Top.pushed) /\ UNCHANGED rel

LeaveGraph == At("Graph", "left") /\ Return(Left) /\ UNCHANGED applied

-----------------------------------------------------------------------------

Init ==
  /\ \E c \in Cases :
       block \in c.blocks /\ ctx \in c.contexts /\ active \in c.actives /\ matches \in c.data
  /\ calls = <<[node |-> Root, at |-> "start", env |-> {}, pushed |-> {}, scope |-> ActiveScope]>>
  /\ rel = [n \in Nodes |-> None]
  /\ applied = {}
  /\ outcome = "solving"

(* The relation goes to the emitter, or rdflib evaluates the block itself. *)
Answered == outcome # "solving" /\ UNCHANGED vars

Next ==
  \/ SolveBGP \/ SolveValues
  \/ EnterFilter \/ FilterRows \/ EnterExists \/ SemiJoin \/ GenericExists
  \/ EnterJoin \/ JoinLeft \/ JoinRight
  \/ EnterLeftJoin \/ LeftJoinLeft \/ LeftJoinRight
  \/ EnterMinus \/ MinusLeft \/ MinusRight
  \/ EnterGraph \/ LeaveGraph
  \/ Answered

Spec == Init /\ [][Next]_vars

-----------------------------------------------------------------------------

(* A block the solver answers, it answers as rdflib would: the rows, with  *)
(* the context's bindings and as often as they come, are those of rdflib's *)
(* evaluation row by row.                                                  *)
AnswerIsRdflib ==
  outcome = "solved" =>
    ToBag([i \in DOMAIN rel[Root].rows |-> Merged(ctx, rel[Root].rows[i])]) = ToBag(Rdflib[Root, ctx, active])

(* What _shared_key_ok and the semi-join rest on: a column some row leaves *)
(* unbound is among the relation's nullable ones, and no row binds a       *)
(* variable outside its schema.                                            *)
UnboundIsDeclared ==
  \A n \in Nodes : \A r \in Range(rel[n].rows) :
    /\ DOMAIN r \subseteq rel[n].schema
    /\ rel[n].schema \ DOMAIN r \subseteq rel[n].nullable

(* What a FILTER's push-down rests on: _block_nullable, which reads the    *)
(* block before anything is matched, names every variable of the block     *)
(* that a row of its relation turns out to leave unbound.                  *)
UnboundIsForeseen ==
  \A n \in Nodes : \A r \in Range(rel[n].rows) :
    BoundVars[n] \ (DOMAIN ctx \cup DOMAIN r) \subseteq Nullable[n]
=============================================================================
