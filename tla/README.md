# vortex-rdflib in TLA+

vortex-rdflib serves an rdflib `Store` from a vortex-rdf file and intercepts rdflib's SPARQL
evaluator: a query block is planned, matched and joined over term *codes* in native code, and only
the rows a consumer reads are decoded into rdflib terms. This directory models that program as TLA+
modules, checks them with TLC on small instances, and proves with TLAPS, for every size, what most
of its parts promise. Paths below are relative to `src/src/vortex_rdflib/`.

- [Inventory](#inventory): the system's parts, their state, what is hard about each
- [Modules](#modules): which module models which part, and how
- [Runs](#runs): what each TLC run checks, its bounds, and what it shows
- [Fairness and deadlock](#fairness-and-deadlock)
- [Proofs](#proofs)
- [Divergences found](#divergences-found)
- [Not modelled](#not-modelled)
- [Plan](#plan)

Run a check with `tlc -workers 2 -config MCX.cfg MCX.tla`, a proof with `tlapm XProofs.tla`
(`TermProofs.tla` for the aliases, counts, heads and values of terms, `ChunkProofs.tla` for `GatherPieces`
and `UnionRows`).

## Inventory

| Component | Source | State | Operations |
|---|---|---|---|
| Store | `store.py` | the open native store, its path, the dictionary, graph contexts by code, the string and decode caches, the union's graphs, size and whether a triple repeats in it | `open`, `close`, `triples`, `contexts`, `__len__`; row generators that stay suspended between them |
| Union of graphs | `union.py` | the last triple kept, the contexts gathered for it | `distinct_rows`, `distinct_chunks`, `one_per_triple` |
| Query scope | `query_scope.py` | per thread, the current scope; per scope, the term state of each store (decode cache, aliases) and its cancel token | `current`, `terms_for`, set and reset around each step, `clear` |
| Cancellation | `cancel.py` | per thread, the current token | `cancel_scope`, `check_cancelled`, `cancel_kw_for` |
| Hook | `pushdown/hook.py` | none of its own: a generator per lazy result holds its scope, token and trace | `_eval_part`, `_eval_scoped`, `_scoped_iterator` |
| Head | `pushdown/head.py` | the rows or codes seen by DISTINCT, the ranks of ORDER BY | projection, DISTINCT, ORDER BY, LIMIT, ASK |
| Block operators | `pushdown/blocks.py`, `algebra.py`, `relation.py` | one call of `_solve_block` per algebra node; the conjuncts handed down and those applied | BGP, VALUES, FILTER, EXISTS, join, OPTIONAL, MINUS, GRAPH |
| BGP planner | `pushdown/bgp.py`, `matching.py` | estimates, memoized matches, the relation so far, the patterns left and put back | count, seed, step by one of four strategies, put back, finish |
| Probe joins | `pushdown/probes.py` | the batch in flight, its answers, the rows joined | one-shot probes, native batches, counts |
| Streamed steps | `pushdown/streaming.py` | a stack of row ranges, the pieces gathered | `_gather_pieces` and its feeds |
| Solutions | `pushdown/solutions.py`, `relation.py` | slice and decode chunk sizes, the window | decode in growing chunks, rdflib finishing rows |
| Aliases | `pushdown/aliasing.py` | codes classified, the representative of each term | `_alias_codes`, `_canonical_twins` |
| Aggregates | `pushdown/aggregate.py` | groups keyed by codes | row and columnar aggregation |
| Filters | `filters/` | compiled conjuncts, parsed term views | routing, native shapes, fast compilation, generic evaluation |
| Terms | `terms.py` | none | spelling conversions |
| Diagnostics | `pushdown/tracing.py`, `counters.py` | the active trace, counters | events |
| Configuration | `settings.py`, `ablation.py` | budgets and chunk sizes read from the environment | |

**How they interact.** rdflib calls the hook for each algebra node; the hook opens a scope and a
token when none is current and dispatches to a head, which has `blocks._solve_block` solve the
pattern into a `Relation` (rows, native columns, or an iterator of pieces), and `_yield_solutions`
returns a generator. Every capability check must happen before that generator is handed back:
rdflib catches `NotImplementedError` only at the call. The consumer then pulls rows, from any
thread, in between other queries. Below the planner every read is a native call that may check the
token, may stop at a count or row cap, and gives codes; a `NotImplementedError` anywhere in planning
hands the whole node back to rdflib.

**What is hard here.**

- *Laziness.* Scope, token and trace are context variables that must be right in each step of a
  generator that anyone may pull, nest in another query's step, drop half-read or collect anywhere.
- *Reopening.* A suspended generator outlives `close()` and `open()` of another file.
- *Plans.* A step may discover mid-way that it is over the budget; its pattern is put back and others
  are tried. Counts are capped (lower bounds), matches are memoized, keeps narrow them, conjuncts are
  pushed down, specialized, or left; each combination must give the same rows.
- *Memory.* A streamed step must bound each piece, and a decode each chunk, without reordering or
  losing a row at a boundary.
- *Cancellation.* A token may be cancelled by another thread at any point, while native calls that
  cannot be interrupted are under way and a batch of probes is in flight.
- *Bottom-up against row by row.* rdflib evaluates a join's right side, an OPTIONAL and an EXISTS
  body once per enclosing row, with that row's bindings; the solver solves both sides once. Where an
  expression, a MINUS or an unbound column could tell the two apart the block must go back.
- *Identity of terms.* Several codes may decode to one rdflib term, and which do is discovered chunk
  by chunk by calls that share the discovery. Codes are not in rdflib's order either.
- *Two evaluators.* A FILTER may be decided by a native keep, over a column's codes, by compiled
  Python, by rdflib, or in part by each, and a row once dropped is not seen again.

What makes each part correct: the *store*, that a row comes from the file its call started on; the
*scope*, that a query's code runs in its scope under its token and nothing leaks; the *planner*, the
*probe join*, the *streamed step* and the *solutions*, that each delivers exactly the join or window,
within its bound, and stops promptly; the *block operators*, rdflib's multiset of rows; the *union*, the
first of each triple, once; the *heads* and *aggregates*, what rdflib gives over the decoded rows
though they sort, compare and count codes; the *filters*, that no row is dropped or settled against
rdflib's evaluation of the whole expression.

## Modules

Each module's header names the functions it models; `PROJECT.json` maps every definition to its
lines. A definition introduced by a `Mutant:` comment is a plausible bug in the definition after it,
used to confirm that a property can fail; no specification refers to it. `TypeOK` states the types of
the variables. `gather_pieces` checks it, and it is proved for the streamed step, the union, the
planner, the scopes, the solutions, the probe joins and the store's reads, where it is part of the
argument (the union's is `UnionTypeOK`; TLC passes it there too, see [Proofs](#proofs)). In the other modules a state out of type shows first in the
properties the run checks.

| Module | Models | Actions and the code they stand for |
|---|---|---|
| `GatherPieces` | `streaming._gather_pieces` and its feeds | `PullFeed` takes the next slice or chunk; `BeginGather`, `Split`, `Skip` pop a range off the stack, halve it while over the budget, or drop it without pairs; `YieldPiece`; `Resume` and `Close` are the consumer's; `Cancel` another thread's |
| `JoinStream` | what a streamed step promises | `Deliver` some pairs more, `Complete` only with all, `Stop` |
| `BgpPlanner` | `_count_patterns`, `_join_incremental_bgp` with `_fits`, `_specialize_tuple_conjuncts`, `_prune_early`, `_keep_scan` | `CountPatterns`, `Seed`, `ProbeStep`, `KeepScanStep`, `HashStep`, `StreamStep`, `PutBack`, `NoneFits`, `Finish` |
| `ProbeJoin` | `_probe_join`, `_run_probes`, `_batch_answers`, `_probe_matches` | a batch begins, its probes are called one at a time, counted, or opened as one native batch that answers in any order, short or long; rows are joined in order |
| `SolutionRows` | `_yield_solutions`, `_yield_rows`, `_finish_with_rdflib`, `_body_rows` | chunk check, decode, yield, slices of a columnar body, rdflib's extension of a row |
| `QueryScope` | `hook.py`, `query_scope.py`, `cancel_scope`, the trace's context variable | start, plan, pull, step, close or collect of a query, in a stack of calls per thread |
| `StoreReads` | `open`, `close`, `_store`, `_quad_rows` over the union merged by `one_per_triple`, ground lookups, `contexts`, `__len__`, the caches of each | `Open`, `Close`; `Start`, `Resume`, `Stop` of a `triples()` call; `Contexts`, `Length`, `ReadRaises`; a query's steps around them |
| `UnionRows` | `union.py` | one chunk read, one row merged, the end |
| `TermAliases` | `_alias_codes`, `_canonical_twins`, the aliases of a query's scope | one batch of codes classified |
| `CodeCounts` | `aggregate.py`: groups by rows and by columns, their merge by term, counts plain and distinct | operators, used by `CodeHeads` |
| `CodeHeads` | `head.py` and the two above together: `_plan_head`, ORDER BY ranks and top-k, `_term_distinct`, `_code_distinct`, the window, the heads of counts | plan, order, pull a chunk, handle a row, aggregate; `OtherCall` is another head of the query classifying codes in between |
| `TermValues` | `filters/values.py` and `_relational`; rdflib's `Literal` comparisons and effective boolean value | operators: both sides of each comparison |
| `FilterFast` | `filters/compiler.py`; rdflib's evaluation of the same expressions | operators: both evaluators |
| `FilterRoutes` | `filters/__init__.py`, `exprs.py`, `native.py` | constant conjuncts, native keep, `filter_codes` over a column, values, tuples, early rejection, one conjunct after another, what is left to rdflib |
| `BlockOperators` | `_solve_block`, the operators of `blocks.py` and the static walks and graph scopes of `algebra.py` | one or more actions per operator: entering it, after its left side, after its right; the recursion is the stack `calls` |

How they compose: `GatherPieces` refines `JoinStream`; `BgpPlanner`'s `StreamStep` delivers the join
that `GatherPieces` is proved to deliver in pieces, and its `ProbeStep` the join that `ProbeJoin` is
proved to deliver or to abandon over its cap; `BlockOperators`' BGP and pattern sides are what `BgpPlanner`
and `ProbeJoin` deliver, and `SolutionRows` reads the relation it makes. `QueryScope` gives
`StoreReads` its live queries and `CodeHeads` its shared scope. `CodeHeads` extends `CodeCounts`,
which extends `TermAliases`: one state, as the heads share one scope. `FilterRoutes` extends
`FilterFast`, which extends `TermValues`; a conjunct of `BgpPlanner` and `BlockOperators` is a set of
bindings that `FilterRoutes` shows the routes respect. Each other seam is the property on one
side and the action on the other; there is no single composed state space.

**Abstractions**, by module, beyond the bounds below:

- `GatherPieces`: a range of fed rows is known by its pair counts (`upto`), any monotone function.
- `BgpPlanner`: quads are tuples of codes at the open positions. Left out: trace events, ablation
  switches, the single-pattern path that gives LIMIT to the match, patterns over a union read
  distinct, batching inside a count.
- `ProbeJoin`: a row's probe makes a number of joined rows, tests and predicates already applied;
  every probe of a join is a scan or every one a point lookup, which holds because all bind the
  same positions. Deferred restrictions and columns that are None are left out.
- `SolutionRows`: rdflib's `evalBGP` of the remaining patterns gives each row any number of solutions.
- `QueryScope`: a query's work is what it does to the context variables; its scope's term state is
  one flag. Two threads never run one generator at once (Python refuses it).
- `StoreReads`: a dictionary is a function of the file and the code. What happens inside one `next()`
  is one step, as a caller of one thread sees it: a second thread that opens another file between a
  ground lookup's native call and its reading of `_dict` (`store.py:465`) is left out, since nothing
  in the repository promises a store to threads that open files under each other. Another file is not
  opened in the middle of a query (`OpensInQuery = FALSE`, see divergence 4).
- `TermAliases`: the spelling tests that tell the rewritable literals are a set; rdflib's literal
  converters do not change while a query runs.
- `CodeHeads`: rdflib's order of terms is a place for each, equal for literals it does not order.
  `OtherCall` classifies one code at a time: TLC reaches the same states when it takes any set, because
  a batch leaves what its codes one after another leave.
- `TermValues`: a text is a sequence of tokens with a place in string order; a number is an integer, a
  date or string its place among its own kind. `FilterFast` takes one function of each sort the
  compiler distinguishes (`lcase` stands for every call it leaves to rdflib). The native layer may leave
  any code undecided, and refuses a constant out of its bounds. Terms a rdflib parser cannot spell, codes
  that stand for no term, and the case of language tags are left out. Nothing is asked of an
  expression for which rdflib raises an exception no filter catches.
- `BlockOperators`: conjuncts are comparisons, each a set of bindings it passes; a BGP may prune with
  and apply any subset of the tuple conjuncts it covers; probing and hashing give the same rows, so
  they are one action; at most one EXISTS in a FILTER. A pattern has a set of solutions per graph and
  those over the union, of which a BGP of several patterns may have more. Left out: `initBindings`,
  LIMIT and streaming, VALUES constants that have no code or another spelling, an EXISTS inside a larger expression
  (`EXISTS {..} || ..`; one with a conjunct beside it in its FILTER is modelled).
  `Rdflib` is rdflib's evaluator as these nodes use it (`evalFilter`, `evalJoin`, `evalLeftJoin`, `evalGraph`,
  `evalMinus`, `evalValues`, `forget` and `remember`), modelled from how `blocks.py` and `algebra.py`
  describe and answer it; in rdflib an EXISTS body's joins are not lazy and its nodes have no `_vars`.

## Runs

| Run | Bounds | What it shows |
|---|---|---|
| `gather_pieces` | up to 5 fed rows, 2 pairs each; budgets 0, 1, 3; `piece_rows` 4 | No pair is lost, reordered or gathered twice; only a single row may pass the budget; at most one piece after a cancel; each `next()` returns; `JoinStream` is implemented |
| `bgp_planner` | 5 patterns, 4 variables, 2 codes, every set of quads; budgets 1 and 4, fanouts 1 and 2, batch minimums 2 and 4; two keeps or none, a residual conjunct or none, `?x != ?z`, `?x = ?z` or none | The rows delivered are the block's, in every tier; the relation is always that of the patterns joined; no step builds past the budget; at most one pattern waits put back and only for good reason; the loop always moves on |
| `query_scope` | 2 threads, 2 queries, 2 tokens, 3 nested calls; tracing on and off | A query's planning, steps and close run in its scope under its token, never under another's trace if it opened one; nothing leaks; no scope is current in two threads |
| `store_reads` | 2 files of 5 and 2 rows with colliding codes, triples repeated in the first's union only; 2 interchangeable calls of everything or of one triple, 1 query, 2 opens or closes; chunks of 3 rows, slices of 1 to 2 | A call reads the union of the file it started on, each triple once with its contexts; what the store keeps about the union is the open file's; nothing past the slices read is decoded |
| `union_rows` | up to 6 rows of 3 triples, cut into chunks anywhere | The first row of each triple is kept; each triple is yielded once, with all its contexts |
| `code_heads` | 3 literals and a constant over 2 terms, 2 IRIs, a blank node, a constant IRI; every dictionary consistent with the canonical spelling; 2 orders of the terms; 73 queries over up to 6 rows, counts over no row with and without GROUP BY among them; chunks of 1 to 2 | The rows, order, groups and counts are rdflib's over the decoded rows, however the aliases are learned; one code represents each term |
| `solution_rows` | 4 body rows, 2 solutions of each, four windows, chunks of 1 to 3 | The window is delivered exactly, nothing past it is decoded or pulled, at most a chunk is delivered after a cancel |
| `probe_join` | 4 rows, 2 matches each, batches of 3, caps 0 and 2, 2 probes ahead | The join is right or it raises; no probe stays in flight; a step holds no more rows than its cap; one probe at most is sent after a cancel |
| `block_operators` | blocks of up to five nodes over two variables and two codes, three patterns, two VALUES tables (one with UNDEF), three conjuncts, three contexts; GRAPH by variable and by name above, below and around blocks of up to three nodes, over two named graphs and the default one; see below for the data and for what is left out | A block the solver answers has rdflib's rows with their multiplicities; what is declared and foreseen nullable covers every unbound column |
| `optional_over_table` | two blocks | *Violation*, see below |
| `filter_routes` | about fifty filters of one and two variables, eleven dictionary terms of every sort the rules tell apart, three query constants, one context variable, tables with VALUES and unbound rows, every choice of the native layer | A dropped row fails the filter in rdflib, a settled one passes it, and the compiled evaluator's definite answers are rdflib's |
| `filter_foreign` | a VALUES constant out of its type's bounds in a conjunct of two variables | *Violation*, see below |

**Why these bounds are enough.** Each is chosen so that the boundary occurs and something lies on
both sides of it. Five fed rows and a piece of four make two pulls, and halvings of odd and even
parts three deep. Five patterns with budgets of 1 and 4 give put-backs that are later taken, put-backs left to
rdflib, a count at its cap, a memo shared by two patterns over one quad pattern, and every
strategy; a sixth pattern repeats one of these. Three nested calls let a step pull another query
inside a `cancel_scope`. Six rows and free cuts give a triple that spans a whole chunk. Four rows
in batches of three give a full batch and a short one, with the cap passed inside and at the end
of each. Three literal codes and a
constant over two terms give two that alias each other, a third that does not, and a constant
outside the dictionary that aliases either; the names are ordered against their codes. Two epochs let a call outlive a close and an open of
the other file, or of its own. Calls of `StoreReads` are symmetric; the literals of `CodeHeads`'
dictionary are interchangeable, so DISTINCT's rows are taken up to renaming them. Five nodes put any operator above or beside any other, and below a row that binds
its variables. All initial data is enumerated, never sampled.

**The blocks of `block_operators`.** A block is a tree of BGPs, the two tables, JOIN, OPTIONAL without or with the condition
`?x != ?y`, MINUS, and FILTER with one of three conjuncts, with (NOT) EXISTS, or with both; an EXISTS body counts its own nodes.
All of up to four nodes (8,393) are run on sixteen chosen data sets (empty, one, several solutions; matching and not); all of five
(about 34,000) on one, in which every operator has something to match and to miss, and those that are two operators
of two operands each (7,290) on four. A wrong multiplicity that needs five nodes in a chain and other data would be missed.
Left out of every size are:

- an OPTIONAL with a condition and a VALUES table on its left, the shape of `optional_over_table`;
- an OPTIONAL with an EXISTS in its right side (divergence 8), but for a BGP with an OPTIONAL of
  `{ leaf FILTER EXISTS { leaf } }` (with or without a conjunct and a condition) as the whole block, under no
  context binding;
- FILTERs of two conjuncts, and other conditions of an OPTIONAL.

The blocks with GRAPH are a chosen family, not every one: GRAPH over a block, inside one, and both, on four data sets. They leave
out an OPTIONAL under `GRAPH ?g` with a VALUES table of `?g` on its left (divergence 7). In their data a graph has rows the other lacks, the default
graph has rows no named one has, and a code may be a row's value and a graph's name, which is what tells a graph's
rows from the union's.

## Fairness and deadlock

Nothing in this library runs by itself: a generator advances when its consumer calls `next()`.

- `GatherPieces`: `WF_vars(Step)`, where `Step` holds the generator's own
  steps and not `Resume`, `Close` or `Cancel`. It says a `next()` in progress goes on running, which
  is Python executing a function. A consumer may stop pulling for ever, so the liveness property
  is `NextReturns`: a call under way ends. That the rows are exhausted is not claimed.
- `ProbeJoin`: `WF_vars(Step)`, as above, and `WF_vars(NativeAnswers)`: the native layer completes a
  probe it has started. A pull waits for its answer, so `JoinEnds` rests on both.
- `BgpPlanner` and `BlockOperators`: no fairness. That planning ends is `PlanAdvances`, an
  action property (each step ends, moves to the next phase, joins a pattern or puts one more back),
  with deadlock checked: the only state without another step is an ended plan, which has
  an explicit stuttering step (`Terminated`, `Answered`).
- `SolutionRows`, `QueryScope`, `StoreReads`, `UnionRows`, `CodeHeads`, `FilterRoutes`: safety only.

Where a cfg says `CHECK_DEADLOCK FALSE` the system may really stop: a generator is exhausted or
closed, every query has ended, or a bound on calls, opens or nesting has been reached.

## Proofs

The theorems hold for every value of the constants that the named assumptions of each module allow:
`SizesAssumption`, `UnionAssumption`, `PatternsAssumption`, `NamesAssumption`, `WindowsAssumption`,
`ProbesAssumption`, `ReadsAssumption`, `AliasAssumption` with `HeadsAssumption` and `QueriesAssumption`,
`RankAssumption`, and `BlocksAssumption`. Some of these carry a fact of the code beyond types: a store has finitely many codes
(`IsFiniteSet(Codes)`), and so a block finitely many bindings of its variables; a block is a tree, its nodes
numbered upwards (`Tree`); the first decode chunk is no larger than the largest (`ChunkStart <= ChunkMax`, in
`WindowsAssumption` and `ReadsAssumption`: 64 and 4096, or both the ablation's one size, `settings.py:134` and
`:188`); rdflib's comparison is a place for each term, with blank nodes before IRIs before literals
(`HeadsAssumption`); a query reads columns its rows have, and a columnar body or a single match holds no
unbound value (`QueriesAssumption`).

| Theorem | States |
|---|---|
| `ChunkProofs!TypeCorrect` | `Spec => []TypeOK`, of `GatherPieces` |
| `NothingLost` | the pieces gathered hold exactly the pairs of the rows handled, all at the end |
| `MemoryBound` | no piece is over the budget but one of a single row |
| `RowOrder` | pieces come in row order, none overlapping |
| `PromptCancel` | at most one piece after a cancel |
| `Refinement` | the generator implements `JoinStream` |
| `BgpPlannerProofs!TypesHold` | the planner's types; the relation's rows bind exactly its schema |
| `StepsKeepThePrefix` | `RelationIsPrefix`: the relation is the solutions of the patterns joined, short only of rows a tuple conjunct rejects |
| `PlansDeliverTheAnswer` | `AnswerDelivered`: in every tier the rows delivered are the block's |
| `StepsStayWithinBudget` | `BuiltWithinBudget`: no step but the seed builds more than the budget |
| `OnlyOverIsPutBack`, `OneWaits` | `PutBackIsOver`, `OnePutBack`: a pattern is put back only for good reason, and only one waits |
| `PlansMoveOn` | `PlanAdvances`, the action property that makes every plan end |
| `QueryScopeProofs!TypesHold` | the scopes' types |
| `QueriesRunUnderTheirOwn` | a query's code runs in its scope under its token |
| `NothingIsLeftCurrent` | nothing is left current between calls |
| `ScopesAreNotShared` | no scope is current in two threads |
| `EndedQueriesAreCleared` | a query that ended left nothing learned, and its scope current nowhere |
| `SolutionRowsProofs!TypesHold` | the emitter's types |
| `TheWindowIsDelivered` | `DeliversWindow`: the window's solutions, in order, each once, all at the end |
| `CancelIsPrompt` | one decode chunk at most after a cancel, or the solutions of the row in hand |
| `DecodingIsLazy` | what is decoded is in proportion to what was read, and never past the window |
| `ProbeJoinProofs!TypesHold` | the probe join's types |
| `ReturnedJoinIsTheJoin` | `DoneIsJoin`: a join that returns has each row's own matches, in order |
| `StepsStayWithinTheCap` | a step holds no more rows than its cap, none once it gave up |
| `BatchesAreClosed` | `NothingInFlight`: no probe outlives its batch |
| `CancelMissesOneProbe` | one probe at most is sent after a cancel |
| `ChunkProofs!UnionTypeCorrect` | `UnionSpec => []UnionTypeOK`, of `UnionRows` |
| `FirstRowsKept` | exactly the first row of each run is kept, however chunks cut it |
| `EachTripleOnce` | each triple is yielded once with all its rows |
| `StoreReadsProofs!StoreAgrees` | the store's types; each cache and list of contexts is of one file, each suspended call in its place in its match |
| `KeptIsTheOpenFilesAlways` | `KeptIsTheOpenFiles`: what the store keeps of the union is the open file's |
| `DecodesOnlyReachedAlways` | `DecodesOnlyReached`: a call decodes less than a slice past the rows it gave |
| `RowsFromItsFileAlways` | `RowsFromItsFile`, if no other file is opened before a query ends (`~OpensInQuery`): a call reads the union of its own file |
| `TermProofs!AliasesRight` | `OneRepresentative`: any two classified codes have one representative just when they are one term |
| `GroupsAreTermsAlways` | `GroupsAreTerms`: COUNT and GROUP BY over codes answer as rdflib's do over terms |
| `HeadIsRdflibsAlways` | `HeadIsRdflibs`: ORDER BY, DISTINCT and LIMIT over codes deliver rdflib's rows, in its order |
| `BlockOperatorsProofs!RelationsFitTheirNodes` | `BlocksInv`: every relation solved fits its node, in its columns, its unbound variables and its graph column |
| `UnboundIsDeclaredAlways` | `UnboundIsDeclared`: a row leaves unbound only what its relation declares nullable |
| `UnboundIsForeseenAlways` | `UnboundIsForeseen`: `_block_nullable` foresees, from the tree alone, all a row may leave unbound |
| `TermProofs!RelationalIsRdflib` | the fast route's `=`, `<` and the rest of any two terms are rdflib's, or unknown |
| `TruthIsRdflib`, `TermEqIsRdflib` | so are its effective boolean value and its term equality |

Each argument but that of the values is an inductive invariant, `IInv` (`DistinctInv` and `MergeInv` for
`UnionRows`, `StoreInv` and `RowsInv` in `StoreReadsProofs`, `AliasInv`, `CountInv` and `HeadInv` in
`TermProofs`, `BlocksInv` in `BlockOperatorsProofs`): the properties with the facts that carry them from step to step. Before the argument was
proved TLC passed the properties at the bounds of the module's run.

**The argument for `GatherPieces`.** None of the safety properties is inductive alone. `IInv` is
their conjunction with three facts: the counts are monotone (`CountsOK`, of the data), the parts on
the stack adjoin (`PartsAdjoin`: each part begins where the one above it ends, the lowest at the rows
pulled), and the output counted is `upto[Handled]`, the pairs of all rows below the stack's top.
Adjoining is what a halving preserves (`HalvedAdjoin`) and a pop consumes (`PoppedAdjoin`); from it
a piece gathered is exactly the next rows, which gives order and completeness, and a part that is not
halved is within the budget or one row, which gives the bound. `Inductive` proves
`Spec => []IInv` from one lemma per conjunct (`TypeStep`, `StackStep`, `PiecesStep`, `CancelStep`), and the
refinement from `IInv` in both states. TLC checks the properties as invariants of `gather_pieces`, and passes each conjunct of
`IInv` at the same bounds.

**The argument for `UnionRows`.** `DistinctInv` says the rows kept are the first rows of those read
and `last` is the triple of the last one kept (`LastOK`): this is what carries over a chunk
boundary, and `FreshAreFirst` shows a chunk's fresh rows are then its first rows. `MergeInv` says the rows
gathered so far are those of the current triple and the triples before are yielded whole. Both use
that a triple's rows are adjacent, which the store's sort orders give (`Adjacent`, of the initial
match).

**The argument for the aliases.** `OneRepresentative` speaks of classified codes only, and does not say
why a code classified later will agree. `AliasInv` adds that what represents a term decodes to it
(`FirstsDecode`), that a spelling rdflib keeps is its term's representative as soon as there is one
(`FirstsCanonical`: such a code is never in a map, so it represents itself), and that every code that
was built is represented as its term is (`RepsKnown`). A batch keeps it whichever codes it holds
(`ClassifyKeeps`); the one case that needs the dictionary is a canonical code met after another
spelling of its term, whose lookup has found it already and been confirmed. `AliasStep` has one step
per action of `CodeHeads`, the actions of the heads being batches of `TermAliases`.

**The argument for the counts.** `CountInv` adds to `AliasInv` only that a count's query stands as it was asked until
its answer is made; the work is in one step. Aliases taken from the scope agree with `RepOf` on the codes counted
(`AliasesAgree`), so two groups merge just when their keys are one tuple of terms, and the groups merged are a
partition of the rows rdflib puts in one group. A sum over them is the size of a disjoint union (`Total`), which
makes plain counts and numbers of rows add up, and a distinct count of merged sets counts each term once.

**The argument for the heads.** Both answers are sorts of the same rows. rdflib sorts once per condition, the last
first; a stable sort after another is one stable sort by both (`SortTwice`, `RdflibSortsAtOnce`), because there is
one way only to arrange rows along a linear order. The ranks of a column's codes compare as the
places of their terms do (`RanksSort`, from `RankInPlace`): each rank counts the keys below it, and where codes
themselves are compared the kinds come in rdflib's order (`KindsInPlace`). Rows that compare alike by two keys are
sorted alike (`SortsAlike`), so the top rows lead rdflib's whole sort and the window sees no difference (`TopLeads`,
`WindowLed`). DISTINCT is the invariant `Reading`: the input holds each tuple of codes once, the aliases agree with
`RepOf` on the codes read so far, which no later call changes (`ClassifyStable`), the keys seen are those of the
rows handled, and the rows yielded, decoded, are the first of each tuple of terms among the decoded rows handled.
At the end or past the window that is rdflib's DISTINCT, whose input, with repeats of a code tuple, keeps the same
rows (`FirstSeenMapped`).

**The argument for the store reads.** `StoreInv` ties every cache to a file: the lists of contexts to the epoch they
were filled in (`ContextsOK`; an epoch no `open` reached holds none), what the store keeps to the open file
(`KnownOK`), a call to the file, match, slice and chunk it is in (`Placed`), and its own cache to the codes of its
slices (`OwnOK`). It holds however files and queries interleave, and gives `KeptIsTheOpenFiles` and
`DecodesOnlyReached`. `RowsFromItsFile` needs `RowsInv` too: a query's cache is of one file for all the calls that use
it (`QueriesOK`), which is true only while no other file is opened under a live query (divergence 4); and what a call has
yielded, with the run it holds back, is the union of the rows up to its place (`GatheredOK`). A row is added at
the union's last triple because a match has a triple's rows adjacent.

**The argument for the planner.** `RelationIsPrefix` says what the relation is and not why a step keeps
it. The strategies read different quads: probes read all of a pattern's and test keeps at free
variables only, a keep-scan those that agree with the relation variable by variable, a hash join
the whole match, chunks the match without deferred conjuncts. `ProbesBuild`, `JoinsBuild` and
`ChunksBuild` show that all of them build one set (`StepRelation`). The first two need that rows
already pass the keeps of what they bind, the last that no variable repeats in the pattern.
`StepKeepsPrefix` then needs nothing of the strategy: what matters is that a specialized conjunct, tested at its one
free variable with one row's codes for the rest, is the conjunct itself (`SpecialIsTheConjunct`, from
`SingleCode`). `PlanOK` adds that the schema is the variables of the patterns joined and covers the conjuncts
applied; that the plan starts with all the patterns is the invariant of the counting
(`CountedUpto`, over the recursion `Counting`). For the budget, a join is injected into its pairs and these into the pairs of codes
`_fits` counts (`JoinSize`, `KeyPairs`), and `EstOK` says a count that did not stop at its cap is exact;
so a pattern that fits cannot go over (`FitsStays`), which is `OnePutBack`, and without which a put-back
would not advance the plan.

**The argument for the scopes.** Each property speaks of the innermost call; what makes it true is what
every frame below will restore. `Nested` gives, for each thread, the scope and token current at every
depth of its stack, none at the bottom, and says that a current scope's query has a call at
that depth or below. A query has one call at most in all threads (`CallsOK`, `OneCallEach`), which is
why a scope is in one thread, and a generator's token is its own until it ends (`TokensOK`, `EndedOK`).

**The argument for the solutions.** The solutions are numbered by `SolutionsUpTo`, so a row stands for a
range of numbers. What was delivered, what the chunk holds and what was read adjoin (`WindowOfRows`;
`WindowOfSolutions` when rdflib finishes the rows), and where each generator stopped says which part is still to
come (`PlaceOK`). `GrowthOK` ties the next chunk to what is decoded, which makes decoding lazy.

**The argument for the probe joins.** While a batch is joined, as many answers are pulled as rows of it were
probed (`BatchOK`), so a row's answer is the next one, if the native layer gave those it owes. If it
did not, `OutOK` claims nothing until the batch ends: the last pull notices a missing or a further
answer, so a batch that ends was in order all along.

**The argument for the block operators.** What a relation may leave unbound is declared by its operators as they
run and foreseen by `_block_nullable` from the tree. `RelationFits` states both at once, of every row of every relation
(`RowsAt`), with the schema within the variables of the node. GRAPH ?g needs one fact more: it counts ?g among the
variables it binds, which is true only if the rows below have the column, and `_carries_graph` says which do; so a
row binds the graph variable of its scope wherever the walk says so (`Columned`). An OPTIONAL or a
MINUS that has the column on its right alone is what `CarriesRightOnly` takes out. The scope of a node does not depend on
the run: it is that of the GRAPH next above it (`ScopeOf`), and each call is made in it (`CallOK`). Each operator then
has one lemma on rows (`JoinFits`, `LeftJoinFits`, `UnextendedFits`, `PatternFits`, `GraphFits`), and the static walks,
recursive functions over the tree, are unfolded at the node at hand (`NullableUnfolds` and the rest). Handing a block
back, or an EXISTS to rdflib, changes no other relation.

**The argument for the values.** The two sides are compared by the cases the code makes: both numbers
in range, different tags or datatypes, the same datatype by its sort (`NumericAlike`, `GtAlike`,
`EqAlike`). `Comparable` is the fact that matters: a query constant out of its datatype's bounds is ill-typed for
the fast route and a number for rdflib. `_constant_view` refuses it, and `filter_foreign` shows a path
that does not.

**Recursion and induction.** A recursive function (`Counting`, `SolutionsUpTo`, `Joined`) is unfolded by
exhibiting one that satisfies its equations, built step by step (`StepByStep`), and facts about all its values by
a set of naturals closed under successor (`SetInduction`, from the least element of a set of naturals).

**Model-checked only.** The liveness properties `NextReturns` and `JoinEnds`, and the liveness half of what
`PlanAdvances` gives: liveness under fairness needs ENABLED, which the prover does not support.
`FilterRoutes` and `FilterFast` (`DroppedFail`, `SettledHold`, `FastAnswersAreRdflibs`), and `AnswerIsRdflib` of
`BlockOperators`, are not proved, nor is `TracedAsItself` of `QueryScope`. The filters compare two evaluators with RECURSIVE operators over expressions, so no
theorem can be stated in their modules. `AnswerIsRdflib` compares two evaluations of a block as multisets of rows, each
by recursion over the tree with the bindings of the rows above, an induction over data for which `RelationFits` is
one ingredient only.

## Divergences found

The first two have a run that finds them, and a passing run without them.

1. **An OPTIONAL's condition over a VALUES table** (`optional_over_table`, `blocks.py:524`). In
   `{ ?x a :T { VALUES ?x {..} OPTIONAL { ?a :c ?y FILTER(?x != ?y) } } }` the enclosing join binds `?x`,
   so rdflib's first test of the condition, after `forget(ctx)`, does not see it and fails for every right
   row. Its second test, which decides whether to pad, binds what `p1._vars` names: nothing, so it is run
   under the whole context, sees the enclosing row's `?x` and passes for any `?y` other than it. The row is
   then neither extended nor padded, but dropped. The solver evaluates the condition with the table's `?x` and
   extends the row. (Where the second test fails, rdflib pads the row and so does the solver.) The guard
   (`_solve_left_join`, lines 521-526) looks only at the condition's variables in `p1._vars`, which
   leave a VALUES table's variables out. `pushdown/__init__.py:129`: "behaviour is identical to
   rdflib's default evaluation, only faster".
2. **A VALUES constant out of its datatype's bounds** (`filter_foreign`, `filters/__init__.py:261`).
   `VALUES ?w { "200"^^xsd:byte } ?s :p ?v FILTER(?v < ?w)`: rdflib's parser leaves such a constant's
   `ill_typed` unset and compares it as a number. The compiler sends a constant of the expression to
   rdflib (`compiler.py:70`: "Such a constant sends every value to rdflib's own evaluator"), and a conjunct of one variable does
   the same; a conjunct of several variables reads it with `view_of_node`, orders it by datatype IRI and
   drops a row rdflib keeps. `OutOfRange = FALSE` in `filter_routes` leaves that out.
3. **A bare unbound variable as an operand of `&&` or `||`** is an error for the compiled evaluator and
   raises in rdflib an exception no filter catches; the block is then rdflib's either way or the query
   fails there, and the properties ask nothing where rdflib raises.
4. **Another file opened inside a query** (`query_scope.py:69`). A scope
   keys its term cache by the store object, so a code of one file may be answered with the other's
   term. `store.py:478` promises rows of the file the call started on. `OpensInQuery = TRUE` in
   `MCStoreReads.cfg` shows it as a violation of `RowsFromItsFile`.
5. **A query started inside another's step** (`hook.py:58`). It opens no scope,
   so its lazy rows run under whatever token is current where they are pulled. `cancel.py:40`: "A query
   keeps the token it started with until its rows end". `QueryScope`'s properties speak of queries that
   opened a scope.
6. **A query started before the first row of another** (`tracing.py:302`). With tracing on,
   a lazy query's trace stays active in its thread until its first row is pulled, so a query planned in
   between, inside no other, is traced and labelled as part of it. `hook.py:77`: a step runs "under the query's
   trace ``active`` or, when there is none, a trace of its own, kept current around each step of a lazy result";
   `docs/pushdown.md:1050`: "`VORTEX_RDF_TRACE_QUERY_ID` labels the lines of one query". It concerns
   diagnostics only; `query_scope` shows that it disturbs neither scope nor token, and that a query which did open
   a trace is never traced as another (`TracedAsItself`). Asking that of every query that opened a scope
   (`scoped[Top(t).query]` for `OwnTrace(Top(t).query)`) is violated in four states.
7. **A VALUES table of the GRAPH variable before an OPTIONAL** (`blocks.py:518`). In
   `GRAPH ?g { { VALUES ?g {..} ?b :c ?y } OPTIONAL { ?g a :T } }` rdflib's second test of an unmatched
   OPTIONAL has lost the table's `?g`, which is not in `p1._vars`, so a match of any other subject drops
   the row. `dropped -= {scope.var}` lets the block through, on the ground that "A graph variable is not
   a binding that flows from p1 into p2", and the solver pads the row. `Cases <- GraphOptionalCases` in
   `MCBlockOptionals.cfg` shows it as a violation of `AnswerIsRdflib`.
8. **An OPTIONAL of an EXISTS filter under a binding** (`blocks.py:518`). In
   `{ ?x a :T OPTIONAL { { ?x a :T FILTER EXISTS { ?x :b ?y } } } }` with `?y` bound outside, rdflib's second test
   keeps only `p1._vars`, so the EXISTS body finds `?y` free and may succeed where the first test failed: the row is
   dropped. The guard takes `p2`'s variables from `_scoped_vars` (`algebra.py:89`), which leave an EXISTS body's
   out, and the solver pads the row. `Cases <- ForgottenCases` in `MCBlockOptionals.cfg` shows it as a
   violation of `AnswerIsRdflib`.

## Not modelled

| Part | Why |
|---|---|
| Terms (`terms.py`) | Spelling conversions; the facts the models rest on are `TermAliases`' `DictionaryOK` and `TermValues`' `WellSpelled` |
| Filter functions beyond those of `FilterFast` | They repeat a modelled pattern: strict in their operands, or left to rdflib |
| Aggregates other than COUNT, expressions as keys | Handed back to rdflib |
| ASK and the single-pattern LIMIT inside a block | Planned |
| The store's string fallback, reads of one named graph | Planned |
| Benchmarks and scripts (`bench/`, `scripts/`) | Programs that drive and time the store |
| What the trace records, counters, settings, ablation switches | Diagnostics and configuration; the settings that matter are constants |
| vortex-rdf, rdflib | External: modelled by how this code uses them |
| Registration and the package surface | No state |

## Plan

In order of what matters most:

1. *Done*: the streamed step and its promise, the planner, scopes, store reads with ground lookups and
   the caches of the union, union, aliases, heads, counts, solutions, probe joins, block operators
   with their graph scopes,
   filters; proofs of the streamed step, the planner, the scopes, the solutions, the probe joins, the
   union, the store reads, the aliases, the counts, the heads, the value comparisons and what the block
   operators leave unbound.
2. *Extend*: the LIMIT given to a
   single match and ASK's existence test in the planner; reads of a named graph and the string fallback; `_probe_exists`;
   initBindings.
3. *Prove*: done but for the filters' routes and the block operators' `AnswerIsRdflib`, which compare two
   evaluators that recurse over expressions or blocks.
4. *Abstract specifications* still to state: a block's answer as one set of solutions that
   `BgpPlanner` refines step by step, and one solution stream that `SolutionRows` refines.
