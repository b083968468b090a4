----------------------------- MODULE CodeCounts -----------------------------
(***************************************************************************)
(* COUNT and GROUP BY over the code rows of a block: _aggregate_rows and   *)
(* _columnar_groups of pushdown/aggregate.py, and rdflib's answer over the *)
(* decoded rows.                                                           *)
(*                                                                         *)
(* A row is a tuple of codes, None where unbound; a grouping variable the  *)
(* block does not bind is column 0.  A query's counts are _CountSpecs:     *)
(* [kind |-> "rows", "col", "const" or "none", col, distinct].             *)
(***************************************************************************)
EXTENDS TermAliases, SequencesExt

KeyCols(q) == SelectSeq(q.keys, LAMBDA col : col # 0)

(* A count's query: the columns its keys and counts read are the rows', a  *)
(* columnar body and one native match hold no unbound value.               *)
CountShape(q) ==
  /\ q.counts \in Seq([kind : {"rows", "col", "const", "none"}, col : Nat, distinct : BOOLEAN])
  /\ \A row \in ToSet(q.rows) :
       /\ ToSet(KeyCols(q)) \subseteq DOMAIN row
       /\ \A spec \in ToSet(q.counts) : spec.kind = "col" => spec.col \in DOMAIN row
       /\ q.columnar \/ q.single => None \notin ToSet(row)
  /\ q.implicit => KeyCols(q) = <<>>

Decoded(row) == [k \in DOMAIN row |-> IF row[k] = None THEN None ELSE TermOf(row[k])]
CodesIn(row) == ToSet(row) \ {None}

-----------------------------------------------------------------------------
(* The groups, by their keys' codes.                                       *)

KeyOf(q, row) == [k \in DOMAIN KeyCols(q) |-> row[KeyCols(q)[k]]]
GroupKeys(q) == {KeyOf(q, q.rows[i]) : i \in DOMAIN q.rows}
Members(q, key) == {i \in DOMAIN q.rows : KeyOf(q, q.rows[i]) = key}

(* What a spec has seen of the rows I: bound values, and codes or rows.    *)
SpecCount(q, spec, I) ==
  IF spec.kind = "col" /\ ~spec.distinct
  THEN Cardinality({i \in I : q.rows[i][spec.col] # None})
  ELSE 0

SpecSet(q, spec, I) ==
  IF ~spec.distinct THEN {}
  ELSE CASE spec.kind = "col"   -> {q.rows[i][spec.col] : i \in I} \ {None}
         [] spec.kind = "rows"  -> {q.rows[i] : i \in I}
         [] spec.kind = "const" -> {<<>>}
         [] OTHER -> {}

RowGroup(q, I) ==
  [rows   |-> Cardinality(I),
   counts |-> [j \in DOMAIN q.counts |-> SpecCount(q, q.counts[j], I)],
   sets   |-> [j \in DOMAIN q.counts |-> SpecSet(q, q.counts[j], I)]]

(* A columnar body holds no unbound value: a column's count is the rows'.  *)
ColumnarGroup(q, I) ==
  [RowGroup(q, I) EXCEPT !.counts =
     [j \in DOMAIN q.counts |->
        IF q.counts[j].kind = "col" /\ ~q.counts[j].distinct THEN Cardinality(I) ELSE 0]]

Group(q, key) ==
  IF q.columnar /\ Len(KeyCols(q)) <= 1
  THEN ColumnarGroup(q, Members(q, key))
  ELSE RowGroup(q, Members(q, key))

(* The codes whose terms the answer depends on.                            *)
DistinctCols(q) ==
  {q.counts[j].col : j \in {n \in DOMAIN q.counts : q.counts[n].kind = "col" /\ q.counts[n].distinct}}

CountedCodes(q) ==
  (UNION {CodesIn(key) : key \in GroupKeys(q)})
    \cup ((UNION {{row[col] : row \in ToSet(q.rows)} : col \in DistinctCols(q)}) \ {None})
    \cup (IF \E j \in DOMAIN q.counts : q.counts[j].kind = "rows" /\ q.counts[j].distinct
          THEN UNION {CodesIn(row) : row \in ToSet(q.rows)}
          ELSE {})

-----------------------------------------------------------------------------
(* Groups whose keys are equal terms are merged.                           *)

AliasedRow(aliases, row) == [k \in DOMAIN row |-> Alias(aliases, row[k])]
SameKey(q, aliases, tkey) == {key \in GroupKeys(q) : AliasedRow(aliases, key) = tkey}

(* The sum of n[x] for the x of S, as the size of a disjoint union.        *)
Total(n, S) == Cardinality(UNION {{x} \X (1 .. n[x]) : x \in S})

Merged(q, groups, keys) ==
  [rows   |-> Total([key \in keys |-> groups[key].rows], keys),
   counts |-> [j \in DOMAIN q.counts |->
                 Total([key \in keys |-> groups[key].counts[j]], keys)],
   sets   |-> [j \in DOMAIN q.counts |-> UNION {groups[key].sets[j] : key \in keys}]]

(* Mutant: a distinct count counts codes.                                 *)
DistinctOfCodes(aliases, S) == Cardinality(S)

DistinctTerms(aliases, S) == Cardinality({Alias(aliases, c) : c \in S})

CountOf(spec, j, aliases, group) ==
  CASE spec.kind = "rows" ->
         IF spec.distinct
         THEN Cardinality({AliasedRow(aliases, row) : row \in group.sets[j]})
         ELSE group.rows
    [] spec.kind = "col" ->
         IF spec.distinct THEN DistinctTerms(aliases, group.sets[j]) ELSE group.counts[j]
    [] spec.kind = "const" -> IF spec.distinct THEN 1 ELSE group.rows
    [] OTHER -> 0

(* A merged group, with the key the dict met first.                        *)
Solution(q, aliases, groups, keys, first) ==
  [key |-> first,
   n   |-> [j \in DOMAIN q.counts |->
              CountOf(q.counts[j], j, aliases, Merged(q, groups, keys))]]

Solutions(q, aliases, groups) ==
  {Solution(q, aliases, groups, keys, CHOOSE key \in keys : TRUE) :
     keys \in {SameKey(q, aliases, AliasedRow(aliases, key)) : key \in GroupKeys(q)}}

Groups(q) == [key \in GroupKeys(q) |-> Group(q, key)]

(* No row at all: one zero without GROUP BY, one empty solution with it.   *)
NoGroups(q) ==
  {[key |-> <<>>, n |-> IF q.implicit THEN [j \in DOMAIN q.counts |-> 0] ELSE <<>>]}

(* One native pattern, no grouping and plain counts: the size of the match. *)
Countable(q) ==
  /\ q.single
  /\ q.implicit
  /\ \A j \in DOMAIN q.counts : ~q.counts[j].distinct /\ q.counts[j].kind # "none"

PatternCount(q) == {[key |-> <<>>, n |-> [j \in DOMAIN q.counts |-> Len(q.rows)]]}

-----------------------------------------------------------------------------
(* rdflib's answer, over the decoded rows: one aggregator without GROUP BY, *)
(* updated with every row there is, one per key met with it.               *)

RdflibCount(q, spec, I) ==
  LET value(i) == Decoded(q.rows[i])[spec.col]
      bound == {i \in I : value(i) # None}
  IN  CASE spec.kind = "rows" ->
             IF spec.distinct THEN Cardinality({Decoded(q.rows[i]) : i \in I}) ELSE Cardinality(I)
        [] spec.kind = "col" ->
             IF spec.distinct THEN Cardinality({value(i) : i \in bound}) ELSE Cardinality(bound)
        [] spec.kind = "const" ->
             IF spec.distinct THEN (IF I = {} THEN 0 ELSE 1) ELSE Cardinality(I)
        [] OTHER -> 0

RdflibKey(q, i) == Decoded(KeyOf(q, q.rows[i]))

RdflibKeys(q) ==
  IF q.implicit THEN {<<>>} ELSE {RdflibKey(q, i) : i \in DOMAIN q.rows}

RdflibSolution(q, key) ==
  [key |-> key,
   n   |-> [j \in DOMAIN q.counts |->
              RdflibCount(q, q.counts[j], {i \in DOMAIN q.rows : RdflibKey(q, i) = key})]]

RdflibSolutions(q) ==
  IF RdflibKeys(q) = {} THEN {[key |-> <<>>, n |-> <<>>]}
  ELSE {RdflibSolution(q, key) : key \in RdflibKeys(q)}
=============================================================================
