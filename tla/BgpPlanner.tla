----------------------------- MODULE BgpPlanner -----------------------------
(***************************************************************************)
(* The incremental planner of a basic graph pattern: _count_patterns and   *)
(* _join_incremental_bgp of pushdown/bgp.py, over the matches, probes and  *)
(* joins of pushdown/matching.py, probes.py and relation.py.               *)
(*                                                                         *)
(* A pattern is the sequence of the variables at its open positions        *)
(* (VarAt) and the quad pattern it resolves to (Quad), whose quads are     *)
(* tuples of codes (raw).  Two patterns may resolve to one quad pattern.   *)
(* Patterns are numbered by _pattern_static_rank.  A solution is a         *)
(* function from variables to codes; rows, the relation so far, is the set *)
(* of solutions over schema: quads are unique, so a join repeats no row.   *)
(*                                                                         *)
(* A conjunct of one variable is a native keep or is deferred to the codes *)
(* a pattern brings (allowed); a conjunct of several is a tuple conjunct.  *)
(***************************************************************************)
EXTENDS Integers, FiniteSets, Sequences, Functions

CONSTANTS
  NPatterns,   \* the patterns are 1..NPatterns, in static rank order
  Codes,       \* term codes
  VarAt,       \* VarAt[p]: the variable at each open position of p
  Quad,        \* Quad[p]: the quad pattern p resolves to
  PointWhen,   \* PointWhen[p]: sets of variables that make p a point lookup
  TupleVars,   \* TupleVars[c]: the variables of tuple conjunct c
  Keeps,       \* the native keeps a block may push, functions of Vars
  Alloweds,    \* the deferred conjuncts it may push, likewise
  Meanings,    \* tuple conjuncts it may push, with their meanings
  PairBudgets, \* the values SETTINGS.pair_budget may have
  Fanouts,     \* the values SETTINGS.probe_fanout may have
  BatchMins    \* the values scan_batch_min may have

Patterns == 1..NPatterns
VarsOf(p) == Range(VarAt[p])
Vars == UNION {VarsOf(p) : p \in Patterns}
Quads == {Quad[p] : p \in Patterns}

(* The quads quad pattern k could select.                                  *)
QuadsOf(k) == LET p == CHOOSE q \in Patterns : Quad[q] = k
              IN  [DOMAIN VarAt[p] -> Codes]

(* The assignments of variables S to codes, and one read at a pattern.     *)
Solutions(S) == [S -> Codes]
At(f, p) == [i \in DOMAIN VarAt[p] |-> f[VarAt[p][i]]]

ASSUME PatternsAssumption ==
  /\ NPatterns \in Nat \ {0}
  /\ IsFiniteSet(Codes)
  /\ DOMAIN VarAt = Patterns
  /\ \A p \in Patterns : VarAt[p] \in Seq(Vars)
  /\ \A p, q \in Patterns : Quad[p] = Quad[q] => Len(VarAt[p]) = Len(VarAt[q])
  /\ \A p \in Patterns : PointWhen[p] \subseteq SUBSET VarsOf(p)
  /\ \A c \in DOMAIN TupleVars : TupleVars[c] \subseteq Vars
  /\ Keeps \subseteq [Vars -> SUBSET Codes]
  /\ Alloweds \subseteq [Vars -> SUBSET Codes]
  /\ \A m \in Meanings : \A c \in DOMAIN m :
       c \in DOMAIN TupleVars /\ m[c] \subseteq Solutions(TupleVars[c])
  /\ PairBudgets \subseteq Nat
  /\ Fanouts \subseteq Nat \ {0}
  /\ BatchMins \subseteq Nat

VARIABLES
  raw,       \* raw[k]: the quads of quad pattern k
  keep,      \* keep[v]: the codes the native keep of v lets through
  allowed,   \* allowed[v]: the codes v's deferred conjuncts let through
  holds,     \* holds[c]: the assignments that satisfy tuple conjunct c
  budget, fanout, batchMin,  \* SETTINGS
  stream,    \* the rows go straight to the emitter, in the active graph
  outcome,   \* "planning", "seeding", "joining", or how the planner ended
  est,       \* est[p]: p's count, or Uncounted
  capped,    \* the patterns whose count stopped at its cap
  counted,   \* the quad patterns counted whole (counts)
  planned,   \* planned[p]: the count p was ordered by
  memo,      \* the matches held (memo)
  remaining, \* the patterns not joined
  putBack,   \* those put back against the relation as it stands
  schema,    \* the variables the relation binds
  rows,      \* the relation so far; at the end, the rows it delivers
  steps,     \* the join steps completed
  pending,   \* the tuple conjuncts neither evaluated nor left to the FILTER
  applied    \* the tuple conjuncts the FILTER above need not evaluate

block == <<raw, keep, allowed, holds, budget, fanout, batchMin, stream>>
vars == <<block, outcome, est, capped, counted, planned, memo, remaining,
          putBack, schema, rows, steps, pending, applied>>

(* The block's tuple conjuncts.                                            *)
Tuples == DOMAIN holds

Uncounted == -1
Ended == {"empty", "rows", "pieces", "rest", "handed back"}

Size(p) == Cardinality(raw[Quad[p]])

(* What a pattern's conjuncts let through; deferred: its residual ones.    *)
Kept(p, t) == \A i \in DOMAIN t : t[i] \in keep[VarAt[p][i]]
Deferred(p) == {v \in VarsOf(p) : allowed[v] # Codes}
Repeats(p) == Cardinality(VarsOf(p)) < Len(VarAt[p])

(* Mutant: conjuncts of one variable do not keep the rest from rdflib.    *)
PushedTuples == Tuples # {}

Pushed == Tuples # {} \/ \E v \in Vars : keep[v] # Codes \/ allowed[v] # Codes

(* A memoized match is shared by two patterns over one quad pattern unless *)
(* a keep narrows them: a code column is compared by identity.             *)
Key(p) == IF \A v \in VarsOf(p) : keep[v] = Codes
          THEN <<Quad[p], 0>> ELSE <<Quad[p], p>>

Satisfies(f, c) == Restrict(f, TupleVars[c]) \in holds[c]

-----------------------------------------------------------------------------
(* Counting: _count_patterns, one native count after another.              *)

Unsatisfiable == \E v \in Vars : keep[v] = {}

(* The scans are left for the last, in one batch, when there are enough.   *)
Scans ==
  LET scans == {p \in Patterns : {} \notin PointWhen[p]}
  IN  IF Cardinality({Quad[p] : p \in scans}) >= batchMin THEN scans ELSE {}

(* Counting patterns 1..i that are not scans, in rank order up to the      *)
(* first zero: the estimates, the variables of the small patterns, and the *)
(* patterns left to be probed for sharing one.                             *)
Counting[i \in 0..NPatterns] ==
  IF i = 0
  THEN [est |-> [p \in Patterns |-> Uncounted], small |-> {}, probe |-> {}, empty |-> FALSE]
  ELSE LET c == Counting[i - 1]
       IN  IF c.empty \/ i \in Scans THEN c
           ELSE IF VarsOf(i) \cap c.small # {} THEN [c EXCEPT !.probe = @ \cup {i}]
           ELSE [c EXCEPT !.est[i] = Size(i),
                          !.small = IF Size(i) <= fanout THEN @ \cup VarsOf(i) ELSE @,
                          !.empty = Size(i) = 0]

(* The scans that share no small variable: counted together when enough    *)
(* are left, else one at a time up to the first zero.                      *)
ScansCounted(c) ==
  LET rest == {p \in Scans : VarsOf(p) \cap c.small = {}}
      zero == {p \in rest : Size(p) = 0}
      upToZero == {p \in rest : \A q \in zero : p <= q}
  IN  IF c.empty THEN {}
      ELSE IF Cardinality({Quad[p] : p \in rest}) >= batchMin THEN rest
      ELSE upToZero

CountPatterns ==
  /\ outcome = "planning"
  /\ LET c == Counting[NPatterns]
         scanned == ScansCounted(c)
         probe == IF c.empty THEN c.probe
                  ELSE c.probe \cup {p \in Scans : VarsOf(p) \cap c.small # {}}
         final == IF Unsatisfiable THEN [p \in Patterns |-> 0]
                  ELSE [p \in Patterns |-> IF p \in scanned THEN Size(p) ELSE c.est[p]]
         taken == {p \in Patterns : final[p] # Uncounted \/ p \in probe}
     IN  /\ est' = final
         /\ planned' = final
         /\ counted' = IF Unsatisfiable THEN {}
                       ELSE {Quad[p] : p \in {q \in Patterns : final[q] # Uncounted}}
         /\ remaining' = IF \E p \in taken : final[p] = 0 THEN {} ELSE taken
         /\ outcome' = IF \E p \in taken : final[p] = 0 THEN "empty" ELSE "seeding"
  /\ UNCHANGED <<block, capped, memo, putBack, schema, rows, steps, pending, applied>>

-----------------------------------------------------------------------------
(* Choosing: by the planned count, an uncounted pattern last, then by rank.*)

Before(p, q) ==
  \/ planned[p] # Uncounted /\ planned[q] = Uncounted
  \/ (planned[p] = Uncounted <=> planned[q] = Uncounted) /\ planned[p] < planned[q]
  \/ planned[p] = planned[q] /\ p <= q

First(S) == CHOOSE p \in S : \A q \in S : Before(p, q)

Running == Cardinality(rows)
Shared(p) == VarsOf(p) \cap schema
Connected(p) == Shared(p) # {}

(* The first shared variable, in the order p names its variables, and the  *)
(* first position it takes.                                                *)
KeyPosition(p) == CHOOSE i \in DOMAIN VarAt[p] :
                    /\ VarAt[p][i] \in schema
                    /\ \A j \in 1..i-1 : VarAt[p][j] \notin schema

(* The pairs of the relation and the quads T of p on that variable.        *)
PairsOn(p, T) ==
  LET i == KeyPosition(p)
  IN  Cardinality({ft \in rows \X T : ft[1][VarAt[p][i]] = ft[2][i]})

(* Mutant: a matched pattern is taken without counting its pairs.         *)
FitsOnceMatched(p) ==
  /\ est[p] # Uncounted
  /\ \/ p \notin capped /\ Running * est[p] <= budget
     \/ Running * fanout >= est[p] /\ Key(p) \in memo

(* Whether joining p provably stays within the budget (_fits).             *)
Fits(p) ==
  /\ est[p] # Uncounted
  /\ \/ p \notin capped /\ Running * est[p] <= budget
     \/ /\ Running * fanout >= est[p]
        /\ Key(p) \in memo
        /\ PairsOn(p, {t \in raw[Quad[p]] : Kept(p, t)}) <= budget

Candidates ==
  IF putBack # {}
  THEN {p \in remaining \ putBack : Connected(p) /\ Fits(p)}
  ELSE IF \E p \in remaining : Connected(p)
       THEN {p \in remaining : Connected(p)}
       ELSE remaining

-----------------------------------------------------------------------------
(* What a step reads: the count it plans with, and its pattern's rows.     *)

(* An uncounted pattern is counted at its step, up to the cap; a quad      *)
(* pattern counted before answers whole.                                   *)
CountCap == Running * fanout + 1

StepCount(p) ==
  IF est[p] # Uncounted THEN est[p]
  ELSE IF Quad[p] \in counted \/ Size(p) <= CountCap THEN Size(p)
  ELSE CountCap

StepCapped(p) ==
  IF est[p] # Uncounted THEN p \in capped ELSE StepCount(p) >= CountCap

CountAtStep(p) ==
  /\ est' = [est EXCEPT ![p] = StepCount(p)]
  /\ capped' = IF StepCapped(p) THEN capped \cup {p} ELSE capped
  /\ counted' = IF StepCount(p) < CountCap THEN counted \cup {Quad[p]} ELSE counted

(* A tuple conjunct the relation binds all but one variable of, each with  *)
(* one code, may be specialized onto the pattern that binds the other one. *)
SingleCode(v) == \A f, g \in rows : f[v] = g[v]

Specializable(p) ==
  {c \in pending : \E v \in VarsOf(p) \ schema :
     /\ TupleVars[c] \ schema = {v}
     /\ \A w \in TupleVars[c] \ {v} : SingleCode(w)}

SpecialCode(c, code) ==
  \A f \in rows :
    [v \in TupleVars[c] |-> IF v \in schema THEN f[v] ELSE code] \in holds[c]

(* The deferred restrictions of the variables the relation does not bind.  *)
Passes(f, p, special) ==
  \A v \in VarsOf(p) \ schema :
    /\ f[v] \in allowed[v]
    /\ \A c \in special : v \in TupleVars[c] => SpecialCode(c, f[v])

(* The quads of p's native match, and those left by a keep-scan's keep.    *)
Match(p) == {t \in raw[Quad[p]] : Kept(p, t)}

KeepScan(p) ==
  {t \in Match(p) : \A i \in DOMAIN t :
     VarAt[p][i] \in schema => \E f \in rows : f[VarAt[p][i]] = t[i]}

(* The solutions of quads T of p, restricted, and their hash join.         *)
Right(p, T, special) ==
  {g \in Solutions(VarsOf(p)) : At(g, p) \in T /\ Passes(g, p, special)}

Joined(p, T, special) ==
  {f \in Solutions(schema \cup VarsOf(p)) :
     /\ Restrict(f, schema) \in rows
     /\ Restrict(f, VarsOf(p)) \in Right(p, T, special)}

(* The pairs counted before the join is built: on the first shared         *)
(* variable, and only past the product.                                    *)
Pairs(p, R) ==
  IF ~Connected(p) THEN Running * Cardinality(R)
  ELSE LET v == VarAt[p][KeyPosition(p)]
       IN  Cardinality({fg \in rows \X R : fg[1][v] = fg[2][v]})

(* Mutant: the pair count is compared one past the budget.                *)
JoinOverPast(p, T, special) ==
  LET R == Right(p, T, special)
  IN  Running * Cardinality(R) > budget /\ Pairs(p, R) > budget + 1
(* Mutant: a step that reaches the budget is put back.                    *)
JoinOverAt(p, T, special) ==
  LET R == Right(p, T, special)
  IN  Running * Cardinality(R) >= budget /\ Pairs(p, R) >= budget

JoinOver(p, T, special) ==
  LET R == Right(p, T, special)
  IN  Running * Cardinality(R) > budget /\ Pairs(p, R) > budget

(* Mutant: the probes forget the native keep of the free variables.       *)
ProbedUnkept(p) ==
  {f \in Solutions(schema \cup VarsOf(p)) :
     Restrict(f, schema) \in rows /\ At(f, p) \in raw[Quad[p]]}

(* The rows p's probes reach; a keep is tested at p's free variables only. *)
Probed(p) ==
  {f \in Solutions(schema \cup VarsOf(p)) :
     /\ Restrict(f, schema) \in rows
     /\ At(f, p) \in raw[Quad[p]]
     /\ \A v \in VarsOf(p) \ schema : f[v] \in keep[v]}

TallyPassed(p) == Cardinality(Probed(p)) > budget \div 4

-----------------------------------------------------------------------------
(* The strategies of a step.                                               *)

PerRow(p) == Connected(p) /\ Running * fanout < StepCount(p)
PointProbes(p) == \E S \in PointWhen[p] : S \subseteq Shared(p)
Probes(p) == PerRow(p) /\ PointProbes(p) /\ ~TallyPassed(p)
KeepScans(p) == PerRow(p) /\ (PointProbes(p) => TallyPassed(p))

LastOfOne(p) == remaining = {p} /\ Cardinality(Shared(p)) = 1
Chunkable(p, special) == Deferred(p) = {} /\ special = {} /\ ~Repeats(p)

StreamsUnread(p, special) ==
  /\ ~PerRow(p)
  /\ LastOfOne(p)
  /\ StepCount(p) > budget
  /\ StepCount(p) > Running
  /\ Chunkable(p, special)

Hashes(p, special) == ~PerRow(p) /\ ~StreamsUnread(p, special)

(* A keep-scan that may be large stops one row past the budget.            *)
KeepScanOver(p) ==
  /\ StepCapped(p) \/ StepCount(p) > budget
  /\ Cardinality(KeepScan(p)) > budget

Chosen(p) ==
  /\ outcome = "joining"
  /\ remaining # {} /\ rows # {}
  /\ Candidates # {}
  /\ p = First(Candidates)

(* The conjuncts vortex-rdf can decide of those that can be specialized.   *)
Specialized(p) == SUBSET Specializable(p)

-----------------------------------------------------------------------------
(* The tuple conjuncts S covers prune the relation R when that lets a      *)
(* pattern still to join be probed; past that they are the FILTER's.       *)
Ready(waiting, S) == {c \in waiting : TupleVars[c] \subseteq S}

Survivors(R, S, waiting) ==
  {f \in R : \A c \in Ready(waiting, S) : Satisfies(f, c)}

Probeable(S, left) == {p \in left : est'[p] # Uncounted /\ VarsOf(p) \cap S # {}}

(* Some pattern left counts more than n rows.                              *)
ProbedAbove(n, S, left) == \E p \in Probeable(S, left) : n < est'[p]

PruneEarly(R, S, waiting, left) ==
  LET ready == Ready(waiting, S)
      kept == Survivors(R, S, waiting)
  IN  IF ready = {} \/ ~ProbedAbove(fanout, S, left)
      THEN rows' = R /\ pending' = waiting
      ELSE /\ pending' = waiting \ ready
           /\ rows' = IF ProbedAbove(Cardinality(kept) * fanout, S, left) THEN kept ELSE R

SeedRows(p) ==
  {f \in Solutions(VarsOf(p)) :
     At(f, p) \in Match(p) /\ \A v \in VarsOf(p) : f[v] \in allowed[v]}

(* The smallest pattern is matched whole and seeds the relation.           *)
Seed ==
  /\ outcome = "seeding"
  /\ outcome' = "joining"
  /\ UNCHANGED <<est, capped, counted, planned, putBack, applied>>
  /\ LET p == First(remaining)
     IN  /\ memo' = memo \cup {Key(p)}
         /\ schema' = VarsOf(p)
         /\ remaining' = remaining \ {p}
         /\ steps' = 1
         /\ PruneEarly(SeedRows(p), VarsOf(p), pending, remaining \ {p})
  /\ UNCHANGED block

(* Mutant: the joined pattern stays among the remaining ones.             *)
CompletesKeeping(p, R, special) ==
  /\ CountAtStep(p)
  /\ schema' = schema \cup VarsOf(p)
  /\ remaining' = remaining
  /\ putBack' = {}
  /\ steps' = steps + 1
  /\ applied' = applied \cup special
  /\ PruneEarly(R, schema \cup VarsOf(p), pending \ special, remaining \ {p})
  /\ UNCHANGED <<block, outcome, planned>>

(* The step joined p: the relation is R, and the conjuncts it specialized  *)
(* are applied.                                                            *)
Completes(p, R, special) ==
  /\ CountAtStep(p)
  /\ schema' = schema \cup VarsOf(p)
  /\ remaining' = remaining \ {p}
  /\ putBack' = {}
  /\ steps' = steps + 1
  /\ applied' = applied \cup special
  /\ PruneEarly(R, schema \cup VarsOf(p), pending \ special, remaining \ {p})
  /\ UNCHANGED <<block, outcome, planned>>

ProbeStep ==
  \E p \in remaining : \E special \in Specialized(p) :
    /\ Chosen(p)
    /\ Probes(p)
    /\ Completes(p, {f \in Probed(p) : Passes(f, p, special)}, special)
    /\ UNCHANGED memo

KeepScanStep ==
  \E p \in remaining : \E special \in Specialized(p) :
    /\ Chosen(p)
    /\ KeepScans(p)
    /\ ~KeepScanOver(p)
    /\ ~JoinOver(p, KeepScan(p), special)
    /\ Completes(p, Joined(p, KeepScan(p), special), special)
    /\ UNCHANGED memo

HashStep ==
  \E p \in remaining : \E special \in Specialized(p) :
    /\ Chosen(p)
    /\ Hashes(p, special)
    /\ ~JoinOver(p, Match(p), special)
    /\ Completes(p, Joined(p, Match(p), special), special)
    /\ memo' = memo \cup {Key(p)}

(* Tier 1: the last step, sharing one variable, over the budget or too     *)
(* large to read, streams from chunks or from its match.                   *)
StreamsChunks(p, special) ==
  /\ LastOfOne(p)
  /\ \/ StreamsUnread(p, special)
     \/ KeepScans(p) /\ KeepScanOver(p) /\ Chunkable(p, special)

StreamsMatch(p, special) ==
  /\ LastOfOne(p)
  /\ \/ Hashes(p, special) /\ JoinOver(p, Match(p), special)
     \/ KeepScans(p) /\ ~KeepScanOver(p) /\ JoinOver(p, KeepScan(p), special)

Streams(p, special) == StreamsChunks(p, special) \/ StreamsMatch(p, special)

(* Chunks are joined as the native layer gives them: a variable at the     *)
(* first position it takes, and no deferred restriction.                   *)
FirstAt(p, v) == CHOOSE i \in DOMAIN VarAt[p] :
                   VarAt[p][i] = v /\ \A j \in 1..i-1 : VarAt[p][j] # v

Chunked(p) ==
  {f \in Solutions(schema \cup VarsOf(p)) :
     /\ Restrict(f, schema) \in rows
     /\ \E t \in Match(p) : \A v \in VarsOf(p) : f[v] = t[FirstAt(p, v)]}

Streamed(p, special) ==
  IF StreamsChunks(p, special) THEN Chunked(p) ELSE Joined(p, Match(p), special)

StreamStep ==
  \E p \in remaining : \E special \in Specialized(p) :
    /\ Chosen(p)
    /\ Streams(p, special)
    /\ CountAtStep(p)
    /\ rows' = Streamed(p, special)
    /\ schema' = schema \cup VarsOf(p)
    /\ remaining' = {}
    /\ putBack' = {}
    /\ steps' = steps + 1
    /\ applied' = applied \cup special
    /\ pending' = pending \ special
    /\ outcome' = "pieces"
    /\ memo' = memo \cup {Key(p)}
    /\ UNCHANGED <<block, planned>>

(* Any other step over the budget puts its pattern back as it was planned: *)
(* its count and its match, read under the planned keep, stay.             *)
GoesOver(p, special) ==
  \/ Hashes(p, special) /\ JoinOver(p, Match(p), special)
  \/ KeepScans(p) /\ (KeepScanOver(p) \/ JoinOver(p, KeepScan(p), special))

PutBack ==
  \E p \in remaining : \E special \in Specialized(p) :
    /\ Chosen(p)
    /\ GoesOver(p, special)
    /\ ~Streams(p, special)
    /\ CountAtStep(p)
    /\ putBack' = putBack \cup {p}
    /\ memo' = IF PerRow(p) THEN memo ELSE memo \cup {Key(p)}
    /\ UNCHANGED <<block, outcome, planned, remaining, schema, rows, steps, pending, applied>>

(* Tier 3: no pattern left fits.  rdflib finishes them per row where it    *)
(* evaluates them as the block would, or gets the whole block back.        *)
NoneFits ==
  /\ outcome = "joining"
  /\ remaining # {} /\ rows # {}
  /\ Candidates = {}
  /\ outcome' = IF stream /\ ~Pushed THEN "rest" ELSE "handed back"
  /\ UNCHANGED <<block, est, capped, counted, planned, memo, remaining, putBack,
                 schema, rows, steps, pending, applied>>

(* Every pattern is joined, or the relation ran empty before.              *)
Finish ==
  /\ outcome = "joining"
  /\ remaining = {} \/ rows = {}
  /\ outcome' = "rows"
  /\ schema' = Vars
  /\ UNCHANGED <<block, est, capped, counted, planned, memo, remaining, putBack,
                 rows, steps, pending, applied>>

(* The planner has returned.                                               *)
Terminated == outcome \in Ended /\ UNCHANGED vars

Init ==
  /\ raw \in [Quads -> UNION {SUBSET QuadsOf(k) : k \in Quads}]
  /\ \A k \in Quads : raw[k] \subseteq QuadsOf(k)
  /\ keep \in Keeps
  /\ allowed \in Alloweds
  /\ holds \in Meanings
  /\ budget \in PairBudgets
  /\ fanout \in Fanouts
  /\ batchMin \in BatchMins
  /\ stream \in BOOLEAN
  /\ outcome = "planning"
  /\ est = [p \in Patterns |-> Uncounted]
  /\ planned = est
  /\ capped = {}
  /\ counted = {}
  /\ memo = {}
  /\ remaining = {}
  /\ putBack = {}
  /\ schema = {}
  /\ rows = {<<>>}
  /\ steps = 0
  /\ pending = Tuples
  /\ applied = {}

Next ==
  \/ CountPatterns \/ Seed
  \/ ProbeStep \/ KeepScanStep \/ HashStep \/ StreamStep \/ PutBack
  \/ NoneFits \/ Finish
  \/ Terminated

Spec == Init /\ [][Next]_vars

-----------------------------------------------------------------------------

(* What the relation must hold while patterns S are joined: their common   *)
(* solutions, under the one-variable conjuncts.                            *)
SolutionsOf(S) ==
  {f \in Solutions(UNION {VarsOf(p) : p \in S}) :
     /\ \A p \in S : At(f, p) \in raw[Quad[p]]
     /\ \A v \in DOMAIN f : f[v] \in keep[v] \cap allowed[v]}

FilterPasses(f, conjuncts) == \A c \in conjuncts : Satisfies(f, c)

(* Whatever order, strategy and tier the plan takes, the rows it delivers, *)
(* filtered by the conjuncts it did not apply itself, are the answer of    *)
(* the block: a block ended early has none, and the patterns left to       *)
(* rdflib complete the rows to it.                                         *)
AnswerDelivered ==
  LET answer == SolutionsOf(Patterns)
      filtered == {f \in answer : FilterPasses(f, Tuples)}
  IN  /\ outcome \in {"rows", "pieces"} =>
           {f \in rows : FilterPasses(f, Tuples \ applied)} = filtered
      /\ outcome = "empty" => answer = {}
      /\ outcome = "rest" =>
           {f \in Solutions(Vars) :
              /\ Restrict(f, schema) \in rows
              /\ \A p \in remaining : At(f, p) \in raw[Quad[p]]} = answer

(* At every step the relation is the solutions of the patterns joined so   *)
(* far, short only of rows a tuple conjunct rejects.                       *)
RelationIsPrefix ==
  outcome = "joining" =>
    LET joined == SolutionsOf(Patterns \ remaining)
    IN  /\ rows \subseteq joined
        /\ \A f \in joined \ rows :
             \E c \in Tuples : TupleVars[c] \subseteq schema /\ ~Satisfies(f, c)
        /\ \A f \in rows : FilterPasses(f, applied)

(* No step builds more than pair_budget rows; only the seed, matched whole,*)
(* and the pieces of a streamed step are not bounded by it (README, "Join  *)
(* memory").                                                               *)
BuiltWithinBudget ==
  outcome # "pieces" /\ steps > 1 => Cardinality(rows) <= budget

(* _fits is right: a pattern taken because it fits is never put back, so   *)
(* at most one is waiting and the loop never goes round.                   *)
OnePutBack == Cardinality(putBack) <= 1

(* A pattern is put back, and perhaps left to rdflib, only when building   *)
(* its step whole could really pass the budget.                            *)
PutBackIsOver ==
  \A p \in putBack : Running * Size(p) > budget

(* A plan always moves on and so ends: each step ends it, starts the next  *)
(* phase, joins one more pattern, or puts one more back, and none it       *)
(* joined comes back (the while loop of _join_incremental_bgp).            *)
PlanAdvances ==
  [][\/ outcome' # outcome /\ outcome \notin Ended
     \/ remaining' \subseteq remaining /\ Cardinality(remaining') + 1 = Cardinality(remaining)
     \/ remaining' = remaining /\ putBack \subseteq putBack' /\ putBack # putBack']_vars
=============================================================================
