------------------------------ MODULE CodeHeads ------------------------------
(***************************************************************************)
(* The head of a query over its block's code rows: ORDER BY, DISTINCT and  *)
(* LIMIT/OFFSET (pushdown/head.py), COUNT and GROUP BY (CodeCounts), all   *)
(* over the query's term aliases, which its other heads extend meanwhile.  *)
(*                                                                         *)
(* A head's query is the node _plan_head reads: [op |-> "head", rows,      *)
(* single, pv, start, stop, distinct, order], pv the projected columns or  *)
(* None, stop None without LIMIT, order a sequence of                      *)
(* [col, expr, desc]: column 0 is a variable the block does not bind, expr *)
(* a condition that is no variable.  A count's is [op |-> "count", rows,   *)
(* single, columnar, implicit, keys, counts].                              *)
(***************************************************************************)
EXTENDS CodeCounts

CONSTANTS
  BlankLo,    \* _term_kind_bounds: the first code of a blank node
  Places,     \* rdflib's comparisons of the terms: the place of each
  Queries,
  ChunkStart, \* SETTINGS.chunk_start
  ChunkMax    \* SETTINGS.chunk_max

(* rdflib orders blank nodes, IRIs and literals in turn; names are ordered *)
(* by their strings, blank nodes as their codes are.                       *)
ASSUME HeadsAssumption ==
  /\ BlankLo \in Nat /\ BlankLo >= IriLo
  /\ Places # {} /\ Places \subseteq [Names \cup Terms -> Nat]
  /\ \A place \in Places : \A c, d \in Names :
       /\ c # d => place[c] # place[d]
       /\ c >= BlankLo /\ d >= BlankLo /\ c < d => place[c] < place[d]
       /\ c >= BlankLo /\ d >= IriLo /\ d < BlankLo => place[c] < place[d]
  /\ \A place \in Places, c \in Names, t \in Terms : place[c] < place[t]
  /\ ChunkStart \in Nat \ {0}
  /\ ChunkMax \in Nat \ {0}
  /\ None \notin Int

IsHead(q) == q.op = "head"
BoundOrder(order) == SelectSeq(order, LAMBDA by : by.col # 0)

(* The columns a head projects and orders by are the rows'.                *)
HeadShape(q) ==
  /\ q.start \in Nat
  /\ q.stop \in Nat \cup {None}
  /\ BoundOrder(q.order) \in Seq([col : Nat, expr : BOOLEAN, desc : BOOLEAN])
  /\ q.order = <<>> => BoundOrder(q.order) = <<>>
  /\ \A row \in ToSet(q.rows) :
       /\ \A by \in ToSet(BoundOrder(q.order)) : by.col \in DOMAIN row
       /\ q.pv # None => q.pv \in Seq(DOMAIN row)

ASSUME QueriesAssumption ==
  \A q \in Queries :
    /\ q.rows \in Seq(Seq(Codes \cup {None}))
    /\ IF IsHead(q) THEN HeadShape(q) ELSE CountShape(q)

VARIABLES
  place,      \* rdflib's comparison of the file's terms
  query,
  stage,      \* "asked", "reading", "done", or "rdflib" when declined
  input,      \* the projected rows, one per tuple of codes under DISTINCT
  pulled,     \* the rows pulled
  pos,        \* the rows of the chunk handled
  size,       \* of the next chunk
  aliases,    \* the head's own: code -> code
  seen,       \* the keys it yielded
  out,        \* the rows it yielded
  answer      \* a count's solutions

reader == <<input, pulled, pos, size, aliases, seen, out>>
vars == <<file, scope, place, query, stage, reader, answer>>

MinOf(m, n) == IF m <= n THEN m ELSE n

(* Only ORDER BY compares.                                                 *)
PlacesFor(q) ==
  IF IsHead(q) /\ q.order # <<>> THEN Places ELSE {CHOOSE p \in Places : TRUE}

Init ==
  /\ AliasInit
  /\ query \in Queries
  /\ place \in PlacesFor(query)
  /\ stage = "asked"
  /\ input = <<>>
  /\ pulled = 0
  /\ pos = 0
  /\ size = ChunkStart
  /\ aliases = NoAliases
  /\ seen = {}
  /\ out = <<>>
  /\ answer = {}

(* Another DISTINCT, GROUP BY or COUNT of the query, before or while this  *)
(* one reads the aliases.  A call over several codes leaves the caches as one  *)
(* call for each of them, in some order, does.                             *)
OtherCall ==
  \E c \in Literals \ classified :
    /\ stage = IF IsHead(query) THEN "reading" ELSE "asked"
    /\ Classify({c})
    /\ UNCHANGED <<file, place, query, stage, reader, answer>>

-----------------------------------------------------------------------------
(* ORDER BY: _order_rows and _rank_codes.                                  *)

(* Mutant: names rank as their kinds do beside a constant of the query.   *)
ByKindAlways(S) == TRUE

ByKind(S) == \A c \in S : ~Foreign(c)

Blanks(S) == {c \in S : ByKind(S) /\ c >= BlankLo}
Iris(S) == {c \in S : ByKind(S) /\ c >= IriLo /\ c < BlankLo}
Others(S) == S \ (Blanks(S) \cup Iris(S))

(* The keys below c's among those of S: _rank_keyed.                       *)
KeyedRank(S, c) ==
  Cardinality({place[TermOf(d)] : d \in {e \in S : place[TermOf(e)] < place[TermOf(c)]}})

(* Unbound first.                                                          *)
Rank(S, c) ==
  IF c = None THEN -1
  ELSE IF c \in Blanks(S) THEN Cardinality({d \in Blanks(S) : d < c})
  ELSE IF c \in Iris(S) THEN Cardinality(Blanks(S)) + KeyedRank(Iris(S), c)
  ELSE Cardinality(Blanks(S)) + Cardinality(Iris(S)) + KeyedRank(Others(S), c)

LexLess(a, b) ==
  \E n \in DOMAIN a : a[n] < b[n] /\ \A m \in 1 .. n - 1 : a[m] = b[m]

(* Python's stable sort: rows i of s by tuples key[i].                     *)
StableSort(s, key) ==
  [k \in DOMAIN s |->
     s[CHOOSE i \in DOMAIN s :
         Cardinality({j \in DOMAIN s : LexLess(key[j], key[i]) \/ (key[j] = key[i] /\ j < i)}) = k - 1]]

Column(rows, col) == {rows[i][col] : i \in DOMAIN rows} \ {None}

RankKey(rows, order, row) ==
  [n \in DOMAIN order |->
     (IF order[n].desc THEN -1 ELSE 1) * Rank(Column(rows, order[n].col), row[order[n].col])]

(* Under a LIMIT only the top rows, by a heap that keeps ties in order.    *)
TopOf(rows, stop) ==
  IF stop # None /\ stop < Len(rows) THEN SubSeq(rows, 1, stop) ELSE rows

OrderRows(rows, order, stop) ==
  IF order = <<>> THEN rows
  ELSE TopOf(StableSort(rows, [i \in DOMAIN rows |-> RankKey(rows, order, rows[i])]), stop)

-----------------------------------------------------------------------------
(* _eval_head.                                                             *)

(* _plan_head: anything else is rdflib's.                                  *)
Plannable(q) ==
  /\ q.pv = None => ~q.distinct /\ q.start = 0 /\ q.stop = None /\ q.order # <<>>
  /\ \A n \in DOMAIN q.order : ~q.order[n].expr

Decline ==
  /\ stage = "asked" /\ IsHead(query)
  /\ ~Plannable(query)
  /\ stage' = "rdflib"
  /\ UNCHANGED <<file, scope, place, query, reader, answer>>

(* The block's rows: one native match takes the LIMIT nothing stands under. *)
Solved(q) ==
  IF q.single /\ q.order = <<>> /\ ~q.distinct
  THEN TopOf(q.rows, q.stop)
  ELSE q.rows

(* DISTINCT narrows the rows after the sort.                               *)
SortStop(q) == IF q.distinct THEN None ELSE q.stop

RowsInOrder(q) ==
  IF BoundOrder(q.order) = <<>>
  THEN Solved(q)
  ELSE OrderRows(Solved(q), BoundOrder(q.order), SortStop(q))

Projected(q, rows) ==
  IF q.pv = None THEN rows
  ELSE [i \in DOMAIN rows |-> [k \in DOMAIN q.pv |-> rows[i][q.pv[k]]]]

(* KeptUpTo(s)[n]: each of the first n elements of s once, as first seen.  *)
KeptUpTo(s) ==
  LET kept[n \in 0 .. Len(s)] ==
        IF n = 0 THEN <<>>
        ELSE LET before == kept[n - 1]
             IN  IF s[n] \in ToSet(before) THEN before ELSE Append(before, s[n])
  IN  kept

FirstSeen(s) == KeptUpTo(s)[Len(s)]

EvalHead ==
  /\ stage = "asked" /\ IsHead(query)
  /\ Plannable(query)
  /\ IF query.distinct
     THEN /\ input' = FirstSeen(Projected(query, RowsInOrder(query)))
          /\ stage' = "reading"
          /\ out' = out
     ELSE /\ out' = Projected(query, RowsInOrder(query))
          /\ stage' = "done"
          /\ input' = input
  /\ UNCHANGED <<file, scope, place, query, pulled, pos, size, aliases, seen, answer>>

-----------------------------------------------------------------------------
(* _term_distinct, a generator read up to the end of the window.           *)

Wanted == query.stop # None => Len(out) < query.stop

PullChunk ==
  /\ stage = "reading" /\ Wanted
  /\ pos = pulled
  /\ pulled < Len(input)
  /\ LET stop == MinOf(pulled + size, Len(input))
         S == UNION {CodesIn(input[i]) : i \in pulled + 1 .. stop}
     IN  /\ pulled' = stop
         /\ size' = MinOf(size * 4, ChunkMax)
         /\ Classify(S)
         /\ aliases' = AliasesOf(S, aliases)
  /\ UNCHANGED <<file, place, query, stage, input, pos, seen, out, answer>>

Key(row) == AliasedRow(aliases, row)

HandleRow ==
  /\ stage = "reading" /\ Wanted
  /\ pos < pulled
  /\ pos' = pos + 1
  /\ LET row == input[pos + 1]
     IN  /\ seen' = seen \cup {Key(row)}
         /\ out' = IF Key(row) \in seen THEN out ELSE Append(out, row)
  /\ UNCHANGED <<file, scope, place, query, stage, input, pulled, size, aliases, answer>>

EndRead ==
  /\ stage = "reading"
  /\ ~Wanted \/ pos = Len(input)
  /\ stage' = "done"
  /\ UNCHANGED <<file, scope, place, query, reader, answer>>

-----------------------------------------------------------------------------
(* _eval_aggregate.                                                        *)

CountPattern ==
  /\ stage = "asked" /\ ~IsHead(query)
  /\ Countable(query)
  /\ answer' = PatternCount(query)
  /\ stage' = "done"
  /\ UNCHANGED <<file, scope, place, query, reader>>

CountNothing ==
  /\ stage = "asked" /\ ~IsHead(query)
  /\ ~Countable(query)
  /\ query.rows = <<>>
  /\ answer' = NoGroups(query)
  /\ stage' = "done"
  /\ UNCHANGED <<file, scope, place, query, reader>>

CountGroups ==
  /\ stage = "asked" /\ ~IsHead(query)
  /\ ~Countable(query)
  /\ query.rows # <<>>
  /\ Classify(CountedCodes(query))
  /\ aliases' = AliasesOf(CountedCodes(query), NoAliases)
  /\ answer' = Solutions(query, aliases', Groups(query))
  /\ stage' = "done"
  /\ UNCHANGED <<file, place, query, input, pulled, pos, size, seen, out>>

Next ==
  \/ OtherCall
  \/ Decline \/ EvalHead \/ PullChunk \/ HandleRow \/ EndRead
  \/ CountPattern \/ CountNothing \/ CountGroups

Spec == Init /\ [][Next]_vars

-----------------------------------------------------------------------------
(* rdflib's answer: a chain of stable sorts, the last condition first, the *)
(* distinct solutions, the window.                                         *)

Value(row, col) == IF row[col] = None THEN -1 ELSE place[TermOf(row[col])]

RdflibSort(by, rows) ==
  StableSort(rows,
    [i \in DOMAIN rows |-> <<(IF by.desc THEN -1 ELSE 1) * Value(rows[i], by.col)>>])

(* SortedUpTo(rows, order)[n]: sorted by the last n conditions.            *)
SortedUpTo(rows, order) ==
  LET sorted[n \in 0 .. Len(order)] ==
        IF n = 0 THEN rows ELSE RdflibSort(order[Len(order) - n + 1], sorted[n - 1])
  IN  sorted

RdflibRows(q) == SortedUpTo(q.rows, BoundOrder(q.order))[Len(BoundOrder(q.order))]

DecodedRows(rows) == [i \in DOMAIN rows |-> Decoded(rows[i])]

Window(q, s) ==
  SubSeq(s, q.start + 1, IF q.stop = None THEN Len(s) ELSE MinOf(q.stop, Len(s)))

RdflibAnswer(q) ==
  LET rows == DecodedRows(Projected(q, RdflibRows(q)))
  IN  Window(q, IF q.distinct THEN FirstSeen(rows) ELSE rows)

(* The head delivers what rdflib would over the decoded rows, in order and *)
(* within the window, though it ranks each code once, may stop the sort at *)
(* the top rows, and compares codes, a chunk at a time, by what represents *)
(* them when their chunk is read.                                          *)
HeadIsRdflibs ==
  IsHead(query) /\ stage = "done" => Window(query, DecodedRows(out)) = RdflibAnswer(query)

(* COUNT and GROUP BY answer as rdflib's do over the decoded rows, one     *)
(* group per tuple of terms, though groups are keyed and counted by codes. *)
GroupsAreTerms ==
  ~IsHead(query) /\ stage = "done" =>
    /\ {[key |-> Decoded(a.key), n |-> a.n] : a \in answer} = RdflibSolutions(query)
    /\ Cardinality(answer) = Cardinality(RdflibSolutions(query))
=============================================================================
