-------------------------- MODULE BgpPlannerProofs --------------------------
(***************************************************************************)
(* Proofs about BgpPlanner, for every block: any patterns over any quads,  *)
(* any conjuncts, budgets and fanouts.  Whatever order, strategy and tier  *)
(* a plan takes, the relation is the solutions of the patterns joined, the *)
(* answer delivered is the block's, no step builds more than the budget,   *)
(* a pattern is put back only when it is over and at most one waits, and   *)
(* every step of the plan moves it on.                                     *)
(*                                                                         *)
(* The argument: each strategy of a step reads other quads, but all of     *)
(* them build the same relation (StepRelation), the rows that extend the   *)
(* relation by a quad of the pattern and pass what is restricted at its    *)
(* free variables: a keep or a deferred conjunct at a bound variable was   *)
(* applied when the variable was bound.  A specialized conjunct is decided *)
(* there too, by the one code its other variables have.                    *)
(***************************************************************************)
EXTENDS BgpPlanner, WellFoundedInduction, SequenceTheorems, FiniteSetTheorems, TLAPS

(* The variables of patterns S.                                            *)
VarsIn(S) == UNION {VarsOf(p) : p \in S}

BlockOK ==
  /\ \A p \in Patterns : raw[Quad[p]] \subseteq [DOMAIN VarAt[p] -> Codes]
  /\ keep \in [Vars -> SUBSET Codes]
  /\ allowed \in [Vars -> SUBSET Codes]
  /\ Tuples \subseteq DOMAIN TupleVars
  /\ budget \in Nat /\ fanout \in Nat \ {0} /\ batchMin \in Nat
  /\ stream \in BOOLEAN

TypeOK ==
  /\ BlockOK
  /\ outcome \in {"planning", "seeding", "joining"} \cup Ended
  /\ est \in [Patterns -> Nat \cup {Uncounted}] /\ planned \in [Patterns -> Nat \cup {Uncounted}]
  /\ capped \subseteq Patterns /\ remaining \subseteq Patterns /\ putBack \subseteq Patterns
  /\ counted \subseteq Quads /\ memo \subseteq Quads \X (0..NPatterns)
  /\ schema \subseteq Vars /\ rows \subseteq Solutions(schema)
  /\ steps \in Nat
  /\ pending \subseteq Tuples /\ applied \subseteq Tuples

(* A count that did not stop at its cap is the pattern's.                  *)
EstOK ==
  outcome \in {"seeding", "joining"} =>
    \A p \in Patterns : est[p] # Uncounted /\ p \notin capped => est[p] = Size(p)

(* Every pattern is joined or remains, and the relation binds the          *)
(* variables of those joined and of the conjuncts applied.                 *)
PlanOK ==
  /\ outcome \in {"planning", "seeding"} => putBack = {} /\ applied = {}
  /\ outcome = "seeding" => remaining = Patterns
  /\ outcome = "joining" =>
       schema = VarsIn(Patterns \ remaining) /\ \A c \in applied : TupleVars[c] \subseteq schema

IInv ==
  /\ TypeOK
  /\ EstOK
  /\ PlanOK
  /\ RelationIsPrefix
  /\ AnswerDelivered
  /\ BuiltWithinBudget
  /\ PutBackIsOver
  /\ OnePutBack

-----------------------------------------------------------------------------
(* Functions over finite sets, and the least of some naturals.             *)

(* The functions between finite sets are finitely many.                    *)
LEMMA FiniteFunctions ==
  ASSUME NEW S, NEW T, IsFiniteSet(S), IsFiniteSet(T)
  PROVE  IsFiniteSet([S -> T])
  <1> DEFINE graph == [f \in [S -> T] |-> {<<x, f[x]>> : x \in S}]
  <1>1. IsFiniteSet(SUBSET (S \X T))
    BY FS_Product, FS_SUBSET
  <1>2. graph \in Injection([S -> T], SUBSET (S \X T))
    <2>1. graph \in [[S -> T] -> SUBSET (S \X T)]
      OBVIOUS
    <2>2. ASSUME NEW f \in [S -> T], NEW g \in [S -> T], graph[f] = graph[g]
          PROVE  f = g
      <3>1. ASSUME NEW x \in S
            PROVE  f[x] = g[x]
        <4>1. <<x, f[x]>> \in graph[g]
          BY <2>2
        <4> QED
          BY <4>1
      <3> QED
        BY <3>1
    <2> HIDE DEF graph
    <2> QED
      BY <2>1, <2>2 DEF Injection, IsInjective
  <1> QED
    BY <1>1, <1>2, FS_Injection

(* A set of naturals has a least one.                                      *)
LEMMA Least ==
  ASSUME NEW S, S # {}, S \subseteq Nat
  PROVE  \E i \in S : \A j \in S : i <= j
  <1>1. PICK i \in S : \A j \in S : ~(<<j, i>> \in OpToRel(<, Nat))
    BY NatLessThanWellFounded, WFMin
  <1>2. ASSUME NEW j \in S
        PROVE  i <= j
    <2>1. i \in Nat /\ j \in Nat
      OBVIOUS
    <2>2. ~(j < i)
      BY <1>1, <2>1 DEF OpToRel
    <2> QED
      BY <2>1, <2>2
  <1> QED
    BY <1>2

(* Sets injected into finite ones are no larger.                           *)
LEMMA NoLarger ==
  ASSUME NEW S, NEW T, IsFiniteSet(T), NEW f \in [S -> T], \A x, y \in S : f[x] = f[y] => x = y
  PROVE  IsFiniteSet(S) /\ Cardinality(S) \in Nat /\ Cardinality(T) \in Nat /\ Cardinality(S) <= Cardinality(T)
  <1>1. f \in Injection(S, T)
    BY DEF Injection, IsInjective
  <1> QED
    BY <1>1, FS_Injection, FS_CardinalityType

(* A part of a finite set is no larger.                                    *)
LEMMA Smaller ==
  ASSUME NEW T, IsFiniteSet(T), NEW S \in SUBSET T
  PROVE  IsFiniteSet(S) /\ Cardinality(S) \in Nat /\ Cardinality(T) \in Nat /\ Cardinality(S) <= Cardinality(T)
  BY FS_Subset, FS_CardinalityType

-----------------------------------------------------------------------------
(* Patterns, their variables, and solutions read at them.                  *)

(* The patterns and their variables are finitely many, and each variable of*)
(* a pattern is at a position of it.                                       *)
LEMMA Variables ==
  /\ NPatterns \in Nat \ {0} /\ IsFiniteSet(Patterns) /\ IsFiniteSet(Vars)
  /\ \A p \in Patterns :
       /\ Len(VarAt[p]) \in Nat /\ DOMAIN VarAt[p] = 1..Len(VarAt[p])
       /\ \A i \in DOMAIN VarAt[p] : VarAt[p][i] \in VarsOf(p)
       /\ \A v \in VarsOf(p) : \E i \in DOMAIN VarAt[p] : VarAt[p][i] = v
       /\ VarsOf(p) \subseteq Vars
       /\ IsFiniteSet(VarsOf(p))
  <1>1. NPatterns \in Nat \ {0} /\ IsFiniteSet(Patterns)
    BY PatternsAssumption, FS_Interval DEF Patterns
  <1>2. ASSUME NEW p \in Patterns
        PROVE  /\ Len(VarAt[p]) \in Nat /\ DOMAIN VarAt[p] = 1..Len(VarAt[p])
               /\ \A i \in DOMAIN VarAt[p] : VarAt[p][i] \in VarsOf(p)
               /\ \A v \in VarsOf(p) : \E i \in DOMAIN VarAt[p] : VarAt[p][i] = v
               /\ VarsOf(p) \subseteq Vars
               /\ IsFiniteSet(VarsOf(p))
    <2>1. Len(VarAt[p]) \in Nat /\ DOMAIN VarAt[p] = 1..Len(VarAt[p])
      BY PatternsAssumption, LenProperties
    <2>2. VarsOf(p) = {VarAt[p][i] : i \in DOMAIN VarAt[p]}
      BY DEF VarsOf, Range
    <2>3. IsFiniteSet(DOMAIN VarAt[p])
      BY <2>1, FS_Interval
    <2>4. IsFiniteSet(VarsOf(p))
      <3> DEFINE f == [i \in DOMAIN VarAt[p] |-> VarAt[p][i]]
      <3>1. f \in [DOMAIN VarAt[p] -> VarsOf(p)] /\ \A v \in VarsOf(p) : \E i \in DOMAIN VarAt[p] : f[i] = v
        BY <2>2
      <3>2. f \in Surjection(DOMAIN VarAt[p], VarsOf(p))
        BY <3>1 DEF Surjection
      <3> QED
        BY <2>3, <3>2, FS_Surjection
    <2> QED
      BY <2>1, <2>2, <2>4 DEF Vars
  <1>3. IsFiniteSet(Vars)
    <2> DEFINE sets == {VarsOf(p) : p \in Patterns}
               g == [p \in Patterns |-> VarsOf(p)]
    <2>1. g \in Surjection(Patterns, sets)
      BY DEF Surjection
    <2>2. IsFiniteSet(sets)
      BY <1>1, <2>1, FS_Surjection
    <2>3. \A s \in sets : IsFiniteSet(s)
      BY <1>2
    <2>4. Vars = UNION sets
      BY DEF Vars
    <2> HIDE DEF sets
    <2> QED
      BY <2>2, <2>3, <2>4, FS_UNION
  <1> QED
    BY <1>1, <1>2, <1>3

(* The assignments of some variables are finitely many.                    *)
LEMMA FiniteSolutions ==
  ASSUME NEW S \in SUBSET Vars
  PROVE  IsFiniteSet(Solutions(S))
  <1>1. IsFiniteSet(S) /\ IsFiniteSet(Codes)
    BY Variables, FS_Subset, PatternsAssumption
  <1> QED
    BY <1>1, FiniteFunctions DEF Solutions

(* A pattern's quads are finitely many, and have its positions.            *)
LEMMA QuadsFinite ==
  ASSUME BlockOK, NEW p \in Patterns
  PROVE  /\ raw[Quad[p]] \subseteq [DOMAIN VarAt[p] -> Codes]
         /\ IsFiniteSet(raw[Quad[p]]) /\ Size(p) \in Nat
  <1>1. raw[Quad[p]] \subseteq [DOMAIN VarAt[p] -> Codes]
    BY DEF BlockOK
  <1>2. IsFiniteSet(DOMAIN VarAt[p]) /\ IsFiniteSet(Codes)
    BY Variables, FS_Interval, PatternsAssumption
  <1>3. IsFiniteSet([DOMAIN VarAt[p] -> Codes])
    BY <1>2, FiniteFunctions
  <1> QED
    BY <1>1, <1>3, FS_Subset, FS_CardinalityType DEF Size

(* A solution restricted is one, with the same codes.                      *)
LEMMA Restricted ==
  ASSUME NEW T, NEW S \in SUBSET T, NEW f \in Solutions(T)
  PROVE  /\ Restrict(f, S) \in Solutions(S)
         /\ \A v \in S : Restrict(f, S)[v] = f[v] /\ f[v] \in Codes
  BY DEF Restrict, Solutions

(* What a solution reads at a pattern depends on its variables only.       *)
LEMMA ReadAt ==
  ASSUME NEW p \in Patterns, NEW S, VarsOf(p) \subseteq S, NEW f \in Solutions(S)
  PROVE  /\ At(f, p) \in [DOMAIN VarAt[p] -> Codes]
         /\ \A i \in DOMAIN VarAt[p] : At(f, p)[i] = f[VarAt[p][i]]
         /\ At(Restrict(f, VarsOf(p)), p) = At(f, p)
  <1>1. \A i \in DOMAIN VarAt[p] : VarAt[p][i] \in VarsOf(p) /\ f[VarAt[p][i]] \in Codes
    BY Variables DEF Solutions
  <1>2. \A i \in DOMAIN VarAt[p] : Restrict(f, VarsOf(p))[VarAt[p][i]] = f[VarAt[p][i]]
    BY <1>1 DEF Restrict
  <1> QED
    BY <1>1, <1>2 DEF At

(* Two solutions over a pattern's variables read it differently.           *)
LEMMA ReadApart ==
  ASSUME NEW p \in Patterns, NEW f \in Solutions(VarsOf(p)), NEW g \in Solutions(VarsOf(p)), At(f, p) = At(g, p)
  PROVE  f = g
  <1>1. ASSUME NEW v \in VarsOf(p)
        PROVE  f[v] = g[v]
    <2>1. PICK i \in DOMAIN VarAt[p] : VarAt[p][i] = v
      BY Variables
    <2>2. At(f, p)[i] = f[v] /\ At(g, p)[i] = g[v]
      BY <2>1 DEF At
    <2> QED
      BY <2>2
  <1> QED
    BY <1>1 DEF Solutions

(* Restricting to variables that hold a pattern's changes nothing there.   *)
LEMMA ReadRestricted ==
  ASSUME NEW p \in Patterns, NEW T, NEW S \in SUBSET T, VarsOf(p) \subseteq S, NEW f \in Solutions(T)
  PROVE  At(Restrict(f, S), p) = At(f, p)
  <1>1. \A i \in DOMAIN VarAt[p] : VarAt[p][i] \in S
    BY Variables
  <1>2. \A i \in DOMAIN VarAt[p] : Restrict(f, S)[VarAt[p][i]] = f[VarAt[p][i]]
    BY <1>1 DEF Restrict
  <1> QED
    BY <1>2 DEF At

(* Nor to a conjunct whose variables are kept.                             *)
LEMMA SatisfiesRestricted ==
  ASSUME NEW T, NEW S \in SUBSET T, NEW f \in Solutions(T), NEW c, TupleVars[c] \subseteq S
  PROVE  Satisfies(Restrict(f, S), c) <=> Satisfies(f, c)
  <1>1. Restrict(Restrict(f, S), TupleVars[c]) = Restrict(f, TupleVars[c])
    BY DEF Restrict
  <1> QED
    BY <1>1 DEF Satisfies

-----------------------------------------------------------------------------
(* The solutions of some patterns, and one pattern more.                   *)

(* A pattern more brings its variables.                                    *)
LEMMA OneMoreVars ==
  ASSUME NEW S, NEW p
  PROVE  VarsIn(S \cup {p}) = VarsIn(S) \cup VarsOf(p)
  BY DEF VarsIn

(* A solution of one pattern more is one of the others that reads a quad   *)
(* there and passes what its new variables must.                           *)
LEMMA OneMorePattern ==
  ASSUME NEW S \in SUBSET Patterns, NEW p \in Patterns, NEW f \in Solutions(VarsIn(S \cup {p}))
  PROVE  f \in SolutionsOf(S \cup {p}) <=>
           /\ Restrict(f, VarsIn(S)) \in SolutionsOf(S)
           /\ At(f, p) \in raw[Quad[p]]
           /\ \A v \in VarsOf(p) \ VarsIn(S) : f[v] \in keep[v] \cap allowed[v]
  <1> DEFINE g == Restrict(f, VarsIn(S))
  <1>1. VarsIn(S \cup {p}) = VarsIn(S) \cup VarsOf(p)
    BY OneMoreVars
  <1>2. g \in Solutions(VarsIn(S)) /\ \A v \in VarsIn(S) : g[v] = f[v]
    <2>1. f \in Solutions(VarsIn(S) \cup VarsOf(p)) /\ VarsIn(S) \in SUBSET (VarsIn(S) \cup VarsOf(p))
      BY <1>1
    <2> QED
      BY <2>1, Restricted
  <1>3. ASSUME NEW q \in S
        PROVE  At(g, q) = At(f, q)
    <2>1. VarsOf(q) \subseteq VarsIn(S)
      BY DEF VarsIn
    <2> QED
      BY <1>1, <2>1, ReadRestricted
  <1>4. f \in SolutionsOf(S \cup {p}) <=>
          /\ \A q \in S \cup {p} : At(f, q) \in raw[Quad[q]]
          /\ \A v \in VarsIn(S) \cup VarsOf(p) : f[v] \in keep[v] \cap allowed[v]
    <2>1. f \in Solutions(UNION {VarsOf(q) : q \in S \cup {p}}) /\ DOMAIN f = VarsIn(S) \cup VarsOf(p)
      BY <1>1 DEF VarsIn, Solutions
    <2> QED
      BY <2>1 DEF SolutionsOf
  <1>5. g \in SolutionsOf(S) <=>
          /\ \A q \in S : At(g, q) \in raw[Quad[q]]
          /\ \A v \in VarsIn(S) : g[v] \in keep[v] \cap allowed[v]
    <2>1. g \in Solutions(UNION {VarsOf(q) : q \in S}) /\ DOMAIN g = VarsIn(S)
      BY <1>2 DEF VarsIn, Solutions
    <2> HIDE DEF g
    <2> QED
      BY <2>1 DEF SolutionsOf
  <1> HIDE DEF g
  <1>6. g \in SolutionsOf(S) <=>
          /\ \A q \in S : At(f, q) \in raw[Quad[q]]
          /\ \A v \in VarsIn(S) : f[v] \in keep[v] \cap allowed[v]
    BY <1>2, <1>3, <1>5
  <1>7. f \in SolutionsOf(S \cup {p}) <=>
          /\ g \in SolutionsOf(S)
          /\ At(f, p) \in raw[Quad[p]]
          /\ \A v \in VarsOf(p) \ VarsIn(S) : f[v] \in keep[v] \cap allowed[v]
    BY <1>4, <1>6
  <1> QED
    BY <1>7 DEF g

(* A relation that holds the solutions of patterns S, short only of rows a *)
(* tuple conjunct rejects, all of which conjuncts done pass.               *)
Prefix(R, S, done) ==
  /\ R \subseteq SolutionsOf(S)
  /\ \A f \in SolutionsOf(S) \ R : \E c \in Tuples : TupleVars[c] \subseteq VarsIn(S) /\ ~Satisfies(f, c)
  /\ \A f \in R : FilterPasses(f, done)

(* What a step of p builds, by any strategy.                               *)
StepRelation(p, special) ==
  {f \in Solutions(schema \cup VarsOf(p)) :
     /\ Restrict(f, schema) \in rows
     /\ At(f, p) \in raw[Quad[p]]
     /\ \A v \in VarsOf(p) \ schema : f[v] \in keep[v]
     /\ Passes(f, p, special)}

(* The relation's rows pass the keeps of what they bind.                   *)
RowsKept == \A f \in rows : \A v \in schema : f[v] \in keep[v]

(* A prefix's rows bind the schema and pass its keeps.                     *)
LEMMA PrefixIsKept ==
  ASSUME NEW S, schema = VarsIn(S), rows \subseteq SolutionsOf(S)
  PROVE  RowsKept /\ rows \subseteq Solutions(schema)
  BY DEF SolutionsOf, RowsKept, VarsIn, Solutions

(* Probing and testing what is deferred builds the step.                   *)
LEMMA ProbesBuild ==
  ASSUME NEW p \in Patterns, NEW special
  PROVE  {f \in Probed(p) : Passes(f, p, special)} = StepRelation(p, special)
  BY DEF Probed, StepRelation

(* What a row passes of p depends on p's variables.                        *)
LEMMA PassesRestricted ==
  ASSUME NEW p \in Patterns, NEW special, NEW T, VarsOf(p) \subseteq T, NEW f \in Solutions(T)
  PROVE  Passes(Restrict(f, VarsOf(p)), p, special) <=> Passes(f, p, special)
  <1>1. \A v \in VarsOf(p) : Restrict(f, VarsOf(p))[v] = f[v]
    BY DEF Restrict
  <1> QED
    BY <1>1 DEF Passes

(* A hash join reads the whole match, a keep-scan the quads of it that     *)
(* agree with the relation variable by variable: either builds the step.   *)
LEMMA JoinsBuild ==
  ASSUME NEW p \in Patterns, NEW special, NEW T, KeepScan(p) \subseteq T, T \subseteq Match(p),
         RowsKept, rows \subseteq Solutions(schema)
  PROVE  Joined(p, T, special) = StepRelation(p, special)
  <1>1. ASSUME NEW f \in Solutions(schema \cup VarsOf(p))
        PROVE  f \in Joined(p, T, special) <=> f \in StepRelation(p, special)
    <2> DEFINE g == Restrict(f, VarsOf(p))
               h == Restrict(f, schema)
    <2>1. g \in Solutions(VarsOf(p)) /\ At(g, p) = At(f, p)
          /\ (Passes(g, p, special) <=> Passes(f, p, special))
      BY Restricted, ReadAt, PassesRestricted
    <2>2. h \in Solutions(schema) /\ \A v \in schema : h[v] = f[v]
      BY Restricted
    <2>3. \A i \in DOMAIN VarAt[p] : At(f, p)[i] = f[VarAt[p][i]] /\ VarAt[p][i] \in VarsOf(p)
      BY ReadAt, Variables
    <2> HIDE DEF g, h
    <2>4. ASSUME h \in rows
          PROVE  At(f, p) \in T <=> At(f, p) \in raw[Quad[p]] /\ \A v \in VarsOf(p) \ schema : f[v] \in keep[v]
      <3>1. \A v \in schema : f[v] \in keep[v]
        BY <2>2, <2>4 DEF RowsKept
      <3>2. At(f, p) \in Match(p) <=> At(f, p) \in raw[Quad[p]] /\ \A v \in VarsOf(p) : f[v] \in keep[v]
        <4>1. Kept(p, At(f, p)) <=> \A v \in VarsOf(p) : f[v] \in keep[v]
          <5>1. DOMAIN At(f, p) = DOMAIN VarAt[p]
            BY DEF At
          <5> QED
            BY <2>3, <5>1, Variables DEF Kept
        <4> QED
          BY <4>1 DEF Match
      <3>3. At(f, p) \in Match(p) => At(f, p) \in KeepScan(p)
        <4>1. DOMAIN At(f, p) = DOMAIN VarAt[p]
          BY DEF At
        <4>2. \A i \in DOMAIN VarAt[p] : VarAt[p][i] \in schema => h[VarAt[p][i]] = At(f, p)[i]
          BY <2>2, <2>3
        <4> QED
          BY <2>4, <4>1, <4>2 DEF KeepScan
      <3> QED
        BY <3>1, <3>2, <3>3
    <2>5. f \in Joined(p, T, special) <=> h \in rows /\ At(f, p) \in T /\ Passes(f, p, special)
      <3>1. g \in Right(p, T, special) <=> At(f, p) \in T /\ Passes(f, p, special)
        BY <2>1 DEF Right
      <3> QED
        BY <3>1 DEF Joined, g, h
    <2>6. f \in StepRelation(p, special) <=>
            /\ h \in rows /\ At(f, p) \in raw[Quad[p]]
            /\ \A v \in VarsOf(p) \ schema : f[v] \in keep[v]
            /\ Passes(f, p, special)
      BY DEF StepRelation, h
    <2> QED
      BY <2>4, <2>5, <2>6
  <1> QED
    BY <1>1 DEF Joined, StepRelation

(* Without a repeated variable, a quad's codes are read where they first   *)
(* come: everywhere.                                                       *)
LEMMA Apart ==
  ASSUME NEW p \in Patterns, ~Repeats(p)
  PROVE  \A i \in DOMAIN VarAt[p] : FirstAt(p, VarAt[p][i]) = i
  <1> DEFINE D == DOMAIN VarAt[p]
             s == [i \in D |-> VarAt[p][i]]
  <1>1. Len(VarAt[p]) \in Nat /\ D = 1..Len(VarAt[p])
    BY Variables
  <1>2. IsFiniteSet(D) /\ Cardinality(D) = Len(VarAt[p])
    BY <1>1, FS_Interval
  <1>3. s \in Surjection(D, VarsOf(p))
    <2>1. s \in [D -> VarsOf(p)] /\ \A v \in VarsOf(p) : \E i \in D : s[i] = v
      BY Variables
    <2> QED
      BY <2>1 DEF Surjection
  <1>4. IsFiniteSet(VarsOf(p)) /\ Cardinality(VarsOf(p)) <= Cardinality(D)
    BY <1>2, <1>3, FS_Surjection
  <1>5. Cardinality(VarsOf(p)) = Cardinality(D)
    <2>1. Cardinality(VarsOf(p)) \in Nat
      BY <1>4, FS_CardinalityType
    <2> QED
      BY <1>1, <1>2, <1>4, <2>1 DEF Repeats
  <1>6. s \in Injection(D, VarsOf(p))
    BY <1>2, <1>3, <1>5, FS_SurjSameCardinalityImpliesInj
  <1>7. ASSUME NEW i \in D, NEW j \in D, VarAt[p][i] = VarAt[p][j]
        PROVE  i = j
    <2>1. s[i] = s[j]
      BY <1>7
    <2> HIDE DEF s
    <2> QED
      BY <1>6, <2>1 DEF Injection, IsInjective
  <1>8. ASSUME NEW i \in D
        PROVE  FirstAt(p, VarAt[p][i]) = i
    <2>1. \A j \in 1..i-1 : VarAt[p][j] # VarAt[p][i]
      <3>1. ASSUME NEW j \in 1..i-1
            PROVE  j \in D /\ j # i
        BY <1>1
      <3> QED
        BY <1>7, <3>1
    <2>2. \A j \in D : VarAt[p][j] = VarAt[p][i] => j = i
      BY <1>7
    <2> QED
      BY <2>1, <2>2 DEF FirstAt
  <1> QED
    BY <1>8

(* Chunks joined as they come build the step where nothing is deferred and *)
(* no variable repeats.                                                    *)
LEMMA ChunksBuild ==
  ASSUME NEW p \in Patterns, NEW special, Chunkable(p, special), BlockOK,
         RowsKept, rows \subseteq Solutions(schema)
  PROVE  Chunked(p) = StepRelation(p, special)
  <1>1. Joined(p, Match(p), special) = StepRelation(p, special)
    <2>1. KeepScan(p) \subseteq Match(p)
      BY DEF KeepScan
    <2> QED
      BY <2>1, JoinsBuild
  <1>2. ASSUME NEW f \in Solutions(schema \cup VarsOf(p))
        PROVE  (\E t \in Match(p) : \A v \in VarsOf(p) : f[v] = t[FirstAt(p, v)])
                 <=> Restrict(f, VarsOf(p)) \in Right(p, Match(p), special)
    <2> DEFINE g == Restrict(f, VarsOf(p))
    <2>1. g \in Solutions(VarsOf(p)) /\ At(g, p) = At(f, p) /\ \A v \in VarsOf(p) : g[v] = f[v] /\ f[v] \in Codes
      BY Restricted, ReadAt
    <2>2. At(f, p) \in [DOMAIN VarAt[p] -> Codes] /\ \A i \in DOMAIN VarAt[p] : At(f, p)[i] = f[VarAt[p][i]]
      BY ReadAt
    <2> HIDE DEF g
    <2>3. Passes(g, p, special)
      <3>1. special = {} /\ \A v \in VarsOf(p) : allowed[v] = Codes
        BY DEF Chunkable, Deferred
      <3> QED
        BY <2>1, <3>1 DEF Passes
    <2>4. \A i \in DOMAIN VarAt[p] : FirstAt(p, VarAt[p][i]) = i
      BY Apart DEF Chunkable
    <2>5. ASSUME NEW t \in Match(p), \A v \in VarsOf(p) : f[v] = t[FirstAt(p, v)]
          PROVE  At(f, p) \in Match(p)
      <3>1. t \in [DOMAIN VarAt[p] -> Codes]
        BY DEF Match, BlockOK
      <3>2. \A i \in DOMAIN VarAt[p] : At(f, p)[i] = t[i]
        BY <2>2, <2>4, <2>5, Variables
      <3>3. At(f, p) = t
        BY <2>2, <3>1, <3>2
      <3> QED
        BY <3>3
    <2>6. ASSUME At(f, p) \in Match(p)
          PROVE  \E t \in Match(p) : \A v \in VarsOf(p) : f[v] = t[FirstAt(p, v)]
      <3>1. ASSUME NEW v \in VarsOf(p)
            PROVE  f[v] = At(f, p)[FirstAt(p, v)]
        <4>1. PICK i \in DOMAIN VarAt[p] : VarAt[p][i] = v
          BY Variables
        <4> QED
          BY <2>2, <2>4, <4>1
      <3> QED
        BY <2>6, <3>1
    <2>7. g \in Right(p, Match(p), special) <=> At(f, p) \in Match(p)
      BY <2>1, <2>3 DEF Right
    <2> QED
      BY <2>5, <2>6, <2>7 DEF g
  <1>3. Chunked(p) = Joined(p, Match(p), special)
    BY <1>2 DEF Chunked, Joined
  <1> QED
    BY <1>1, <1>3

-----------------------------------------------------------------------------
(* A step extends the prefix by its pattern.                               *)

(* A specialized conjunct is tested by one code per row's place: the test  *)
(* at its free variable is the conjunct.                                   *)
LEMMA SpecialIsTheConjunct ==
  ASSUME NEW p \in Patterns, NEW c \in Specializable(p), NEW v \in VarsOf(p) \ schema, v \in TupleVars[c],
         NEW f \in Solutions(schema \cup VarsOf(p)), Restrict(f, schema) \in rows
  PROVE  SpecialCode(c, f[v]) <=> Satisfies(f, c)
  <1> DEFINE h == Restrict(f, schema)
             Row(g) == [w \in TupleVars[c] |-> IF w \in schema THEN g[w] ELSE f[v]]
  <1>1. TupleVars[c] \ schema = {v} /\ \A w \in TupleVars[c] \ {v} : SingleCode(w)
    BY DEF Specializable
  <1>2. h \in rows /\ \A w \in schema : h[w] = f[w]
    BY DEF Restrict
  <1> HIDE DEF h
  <1>3. ASSUME NEW g \in rows
        PROVE  Row(g) = Restrict(f, TupleVars[c])
    <2>1. ASSUME NEW w \in TupleVars[c]
          PROVE  (IF w \in schema THEN g[w] ELSE f[v]) = f[w]
      <3>1. CASE w \in schema
        <4>1. SingleCode(w)
          BY <1>1, <3>1
        <4>2. g[w] = h[w]
          BY <1>2, <4>1 DEF SingleCode
        <4> QED
          BY <1>2, <3>1, <4>2
      <3>2. CASE w \notin schema
        <4>1. w = v
          BY <1>1, <3>2
        <4> QED
          BY <3>2, <4>1
      <3> QED
        BY <3>1, <3>2
    <2> QED
      BY <2>1 DEF Restrict
  <1>4. SpecialCode(c, f[v]) <=> \A g \in rows : Row(g) \in holds[c]
    BY DEF SpecialCode
  <1> HIDE DEF Row
  <1>5. SpecialCode(c, f[v]) <=> Restrict(f, TupleVars[c]) \in holds[c]
    BY <1>2, <1>3, <1>4
  <1> QED
    BY <1>5 DEF Satisfies

(* The relation a step builds is the prefix with its pattern, the conjuncts*)
(* it specialized done.                                                    *)
LEMMA StepKeepsPrefix ==
  ASSUME NEW p \in Patterns, NEW S \in SUBSET Patterns, schema = VarsIn(S), Prefix(rows, S, applied),
         NEW special \in Specialized(p), pending \subseteq Tuples, \A c \in applied : TupleVars[c] \subseteq schema
  PROVE  Prefix(StepRelation(p, special), S \cup {p}, applied \cup special)
  <1>1. VarsIn(S \cup {p}) = schema \cup VarsOf(p)
    BY OneMoreVars
  <1>2. special \subseteq Specializable(p) /\ Specializable(p) \subseteq Tuples
    BY DEF Specialized, Specializable
  <1>3. ASSUME NEW c \in special
        PROVE  c \in Tuples /\ \E v \in VarsOf(p) \ schema :
                 v \in TupleVars[c] /\ TupleVars[c] \subseteq schema \cup {v}
    <2>1. c \in Tuples /\ \E v \in VarsOf(p) \ schema : TupleVars[c] \ schema = {v}
      BY <1>2 DEF Specializable
    <2> QED
      BY <2>1
  <1>4. ASSUME NEW f \in Solutions(schema \cup VarsOf(p)), NEW c, TupleVars[c] \subseteq schema
        PROVE  Satisfies(Restrict(f, schema), c) <=> Satisfies(f, c)
    BY <1>4, SatisfiesRestricted
  <1>5. ASSUME NEW f \in Solutions(schema \cup VarsOf(p))
        PROVE  f \in SolutionsOf(S \cup {p}) <=>
                 /\ Restrict(f, schema) \in SolutionsOf(S)
                 /\ At(f, p) \in raw[Quad[p]]
                 /\ \A v \in VarsOf(p) \ schema : f[v] \in keep[v] \cap allowed[v]
    BY <1>1, OneMorePattern
  <1>6. ASSUME NEW f \in StepRelation(p, special)
        PROVE  f \in SolutionsOf(S \cup {p}) /\ FilterPasses(f, applied \cup special)
    <2>1. /\ f \in Solutions(schema \cup VarsOf(p)) /\ Restrict(f, schema) \in rows
          /\ At(f, p) \in raw[Quad[p]]
          /\ \A v \in VarsOf(p) \ schema : f[v] \in keep[v]
          /\ Passes(f, p, special)
      BY DEF StepRelation
    <2>2. \A v \in VarsOf(p) \ schema : f[v] \in allowed[v]
      BY <2>1 DEF Passes
    <2>3. f \in SolutionsOf(S \cup {p})
      BY <1>5, <2>1, <2>2 DEF Prefix
    <2>4. ASSUME NEW c \in applied
          PROVE  Satisfies(f, c)
      <3>1. Satisfies(Restrict(f, schema), c)
        BY <2>1 DEF Prefix, FilterPasses
      <3> QED
        BY <1>4, <2>1, <3>1
    <2>5. ASSUME NEW c \in special
          PROVE  Satisfies(f, c)
      <3>1. PICK v \in VarsOf(p) \ schema : v \in TupleVars[c]
        BY <1>3
      <3>2. SpecialCode(c, f[v])
        BY <2>1, <3>1 DEF Passes
      <3>3. c \in Specializable(p)
        BY <1>2
      <3> QED
        BY <2>1, <3>1, <3>2, <3>3, SpecialIsTheConjunct
    <2> QED
      BY <2>3, <2>4, <2>5 DEF FilterPasses
  <1>7. ASSUME NEW f \in SolutionsOf(S \cup {p}), f \notin StepRelation(p, special)
        PROVE  \E c \in Tuples : TupleVars[c] \subseteq VarsIn(S \cup {p}) /\ ~Satisfies(f, c)
    <2>1. f \in Solutions(schema \cup VarsOf(p))
      BY <1>1 DEF SolutionsOf, VarsIn
    <2>2. /\ Restrict(f, schema) \in SolutionsOf(S)
          /\ At(f, p) \in raw[Quad[p]]
          /\ \A v \in VarsOf(p) \ schema : f[v] \in keep[v] \cap allowed[v]
      BY <1>5, <2>1
    <2>3. CASE Restrict(f, schema) \notin rows
      <3>1. PICK c \in Tuples : TupleVars[c] \subseteq schema /\ ~Satisfies(Restrict(f, schema), c)
        BY <2>2, <2>3 DEF Prefix
      <3>2. ~Satisfies(f, c)
        BY <1>4, <2>1, <3>1
      <3> QED
        BY <1>1, <3>1, <3>2
    <2>4. CASE Restrict(f, schema) \in rows
      <3>1. ~Passes(f, p, special)
        BY <1>7, <2>1, <2>2, <2>4 DEF StepRelation
      <3>2. PICK v \in VarsOf(p) \ schema, c \in special : v \in TupleVars[c] /\ ~SpecialCode(c, f[v])
        BY <2>2, <3>1 DEF Passes
      <3>3. ~Satisfies(f, c)
        <4>1. c \in Specializable(p)
          BY <1>2
        <4> QED
          BY <2>1, <2>4, <3>2, <4>1, SpecialIsTheConjunct
      <3>4. c \in Tuples /\ TupleVars[c] \subseteq schema \cup VarsOf(p)
        BY <1>3
      <3> QED
        BY <1>1, <3>3, <3>4
    <2> QED
      BY <2>3, <2>4
  <1> QED
    BY <1>6, <1>7 DEF Prefix

(* Pruning drops rows a conjunct rejects, and rejects no other.            *)
LEMMA PruningKeepsPrefix ==
  ASSUME NEW R, NEW S \in SUBSET Patterns, NEW done, Prefix(R, S, done), NEW waiting \in SUBSET Tuples
  PROVE  Prefix(Survivors(R, VarsIn(S), waiting), S, done)
  <1> DEFINE K == Survivors(R, VarsIn(S), waiting)
  <1>1. K \subseteq R
    BY DEF Survivors
  <1>2. ASSUME NEW f \in SolutionsOf(S), f \notin K
        PROVE  \E c \in Tuples : TupleVars[c] \subseteq VarsIn(S) /\ ~Satisfies(f, c)
    <2>1. CASE f \notin R
      BY <2>1 DEF Prefix
    <2>2. CASE f \in R
      <3>1. PICK c \in Ready(waiting, VarsIn(S)) : ~Satisfies(f, c)
        BY <1>2, <2>2 DEF Survivors
      <3> QED
        BY <3>1 DEF Ready
    <2> QED
      BY <2>1, <2>2
  <1> HIDE DEF K
  <1>3. Prefix(K, S, done)
    BY <1>1, <1>2 DEF Prefix
  <1> QED
    BY <1>3 DEF K

(* The seed is the solutions of its pattern.                               *)
LEMMA SeedIsPrefix ==
  ASSUME NEW p \in Patterns
  PROVE  Prefix(SeedRows(p), {p}, {}) /\ VarsIn({p}) = VarsOf(p)
  <1>1. VarsIn({p}) = VarsOf(p)
    BY DEF VarsIn
  <1>2. ASSUME NEW f \in Solutions(VarsOf(p))
        PROVE  f \in SeedRows(p) <=> f \in SolutionsOf({p})
    <2>1. DOMAIN f = VarsOf(p)
      BY DEF Solutions
    <2>2. Kept(p, At(f, p)) <=> \A v \in VarsOf(p) : f[v] \in keep[v]
      <3>1. DOMAIN At(f, p) = DOMAIN VarAt[p] /\ \A i \in DOMAIN VarAt[p] : At(f, p)[i] = f[VarAt[p][i]]
        BY DEF At
      <3> QED
        BY <3>1, Variables DEF Kept
    <2>3. f \in SeedRows(p) <=>
            At(f, p) \in raw[Quad[p]] /\ \A v \in VarsOf(p) : f[v] \in keep[v] /\ f[v] \in allowed[v]
      BY <2>2 DEF SeedRows, Match
    <2>4. f \in SolutionsOf({p}) <=>
            At(f, p) \in raw[Quad[p]] /\ \A v \in VarsOf(p) : f[v] \in keep[v] /\ f[v] \in allowed[v]
      <3>1. UNION {VarsOf(q) : q \in {p}} = VarsOf(p)
        BY <1>1 DEF VarsIn
      <3> QED
        BY <2>1, <3>1 DEF SolutionsOf
    <2> QED
      BY <2>3, <2>4
  <1>3. SeedRows(p) \subseteq Solutions(VarsOf(p)) /\ SolutionsOf({p}) \subseteq Solutions(VarsOf(p))
    BY <1>1 DEF SeedRows, SolutionsOf, VarsIn
  <1>4. SeedRows(p) = SolutionsOf({p})
    BY <1>2, <1>3
  <1> QED
    BY <1>1, <1>4 DEF Prefix, FilterPasses

-----------------------------------------------------------------------------
(* Counting the patterns one after another.                                *)

(* A set with 0 and the successor of each of its naturals holds them all.  *)
LEMMA SetInduction ==
  ASSUME NEW S, 0 \in S, \A n \in Nat : n \in S => n + 1 \in S
  PROVE  Nat \subseteq S
  <1> DEFINE R == OpToRel(<, Nat)
             T == Nat \ S
  <1> SUFFICES ASSUME T # {} PROVE FALSE
    OBVIOUS
  <1>1. PICK x \in T : \A y \in T : ~(<<y, x>> \in R)
    <2>1. IsWellFoundedOn(R, Nat)
      BY NatLessThanWellFounded
    <2>2. T \subseteq Nat
      OBVIOUS
    <2> HIDE DEF R, T
    <2> QED
      BY <2>1, <2>2, WFMin
  <1>2. x \in Nat /\ x # 0 /\ x - 1 \in Nat /\ x - 1 + 1 = x
    OBVIOUS
  <1>3. x - 1 \in S
    <2>1. x - 1 \in T => <<x - 1, x>> \in R
      BY <1>2 DEF OpToRel
    <2> QED
      BY <1>1, <1>2, <2>1
  <1> QED
    BY <1>2, <1>3

(* A value made step by step, one function after another, exists.          *)
LEMMA StepByStep ==
  ASSUME NEW V, NEW start \in V, NEW N \in Nat, NEW step \in [1..N -> [V -> V]]
  PROVE  \E g \in [0..N -> V] : g[0] = start /\ \A i \in 1..N : g[i] = step[i][g[i - 1]]
  <1> DEFINE Made(g, n) == g[0] = start /\ \A i \in 1..n : g[i] = step[i][g[i - 1]]
             Exist(n) == \E g \in [0..n -> V] : Made(g, n)
             S == {n \in Nat : n <= N => Exist(n)}
  <1>1. Exist(0)
    <2>1. [i \in 0..0 |-> start] \in [0..0 -> V] /\ Made([i \in 0..0 |-> start], 0)
      OBVIOUS
    <2> QED
      BY <2>1
  <1>2. ASSUME NEW n \in Nat, n + 1 <= N, Exist(n)
        PROVE  Exist(n + 1)
    <2>1. PICK g \in [0..n -> V] : Made(g, n)
      BY <1>2
    <2>2. step[n + 1][g[n]] \in V
      <3>1. g[n] \in V /\ step[n + 1] \in [V -> V]
        BY <1>2
      <3> QED
        BY <3>1
    <2> DEFINE h == [i \in 0..n + 1 |-> IF i = n + 1 THEN step[n + 1][g[n]] ELSE g[i]]
    <2>3. h \in [0..n + 1 -> V]
      BY <2>2
    <2>4. \A i \in 0..n : h[i] = g[i]
      OBVIOUS
    <2>5. h[n + 1] = step[n + 1][g[n]]
      OBVIOUS
    <2> HIDE DEF h
    <2>6. h[0] = start
      BY <2>1, <2>4
    <2>7. ASSUME NEW i \in 1..n + 1
          PROVE  h[i] = step[i][h[i - 1]]
      <3>1. CASE i = n + 1
        <4>1. i - 1 = n /\ n \in 0..n
          BY <3>1
        <4> QED
          BY <2>4, <2>5, <3>1, <4>1
      <3>2. CASE i # n + 1
        <4>1. i \in 1..n /\ i \in 0..n /\ i - 1 \in 0..n
          BY <3>2
        <4> QED
          BY <2>1, <2>4, <4>1
      <3> QED
        BY <3>1, <3>2
    <2> QED
      BY <2>3, <2>6, <2>7
  <1> HIDE DEF Exist
  <1>3. 0 \in S /\ \A n \in Nat : n \in S => n + 1 \in S
    BY <1>1, <1>2
  <1>4. N \in S
    BY <1>3, SetInduction
  <1>5. Exist(N)
    BY <1>4
  <1> QED
    BY <1>5, Zenon DEF Exist

Counts == [est : [Patterns -> Nat \cup {Uncounted}], small : SUBSET Vars, probe : SUBSET Patterns, empty : BOOLEAN]

NoneCounted == [est |-> [p \in Patterns |-> Uncounted], small |-> {}, probe |-> {}, empty |-> FALSE]

(* The counts c with pattern i's.                                          *)
CountOne(c, i) ==
  IF c.empty \/ i \in Scans THEN c
  ELSE IF VarsOf(i) \cap c.small # {} THEN [c EXCEPT !.probe = @ \cup {i}]
  ELSE [c EXCEPT !.est[i] = Size(i),
                 !.small = IF Size(i) <= fanout THEN @ \cup VarsOf(i) ELSE @,
                 !.empty = Size(i) = 0]

(* After patterns 1..i: a count is its pattern's, a zero ends the counting,*)
(* and short of it each pattern is counted, left to be probed, or a scan.  *)
CountedUpto(c, i) ==
  /\ \A p \in Patterns : c.est[p] \in {Uncounted, Size(p)}
  /\ c.empty => \E p \in Patterns : c.est[p] = 0
  /\ ~c.empty => \A j \in 1..i : j \in Scans \/ j \in c.probe \/ c.est[j] # Uncounted

(* Counting one pattern more keeps what is counted.                        *)
LEMMA OneCounted ==
  ASSUME BlockOK, NEW c \in Counts, NEW i \in Patterns
  PROVE  /\ CountOne(c, i) \in Counts
         /\ CountedUpto(c, i - 1) => CountedUpto(CountOne(c, i), i)
  <1>1. Size(i) \in Nat /\ VarsOf(i) \subseteq Vars /\ i \in Nat /\ i - 1 \in Int
    BY QuadsFinite, Variables DEF Patterns
  <1>2. /\ c.est \in [Patterns -> Nat \cup {Uncounted}] /\ c.small \in SUBSET Vars
        /\ c.probe \in SUBSET Patterns /\ c.empty \in BOOLEAN
        /\ c = [est |-> c.est, small |-> c.small, probe |-> c.probe, empty |-> c.empty]
    BY DEF Counts
  <1>3. \A j \in 1..i : j \in 1..i - 1 \/ j = i
    BY <1>1
  <1>4. CASE c.empty \/ i \in Scans
    <2>1. CountOne(c, i) = c
      BY <1>4 DEF CountOne
    <2> QED
      BY <1>3, <1>4, <2>1 DEF CountedUpto
  <1>5. CASE ~c.empty /\ i \notin Scans /\ VarsOf(i) \cap c.small # {}
    <2> DEFINE d == CountOne(c, i)
    <2>1. d = [c EXCEPT !.probe = @ \cup {i}]
      BY <1>5 DEF CountOne
    <2>2. d = [est |-> c.est, small |-> c.small, probe |-> c.probe \cup {i}, empty |-> c.empty]
      BY <1>2, <2>1
    <2> HIDE DEF d
    <2>3. d.est = c.est /\ d.small = c.small /\ d.probe = c.probe \cup {i} /\ d.empty = c.empty
      BY <2>2
    <2>4. d \in Counts
      BY <1>2, <2>2 DEF Counts
    <2>5. CountedUpto(c, i - 1) => CountedUpto(d, i)
      BY <1>3, <2>3, Zenon DEF CountedUpto
    <2> QED
      BY <2>4, <2>5 DEF d
  <1>6. CASE ~c.empty /\ i \notin Scans /\ ~(VarsOf(i) \cap c.small # {})
    <2> DEFINE d == CountOne(c, i)
    <2>1. d = [c EXCEPT !.est[i] = Size(i),
                        !.small = IF Size(i) <= fanout THEN @ \cup VarsOf(i) ELSE @,
                        !.empty = Size(i) = 0]
      BY <1>6 DEF CountOne
    <2> HIDE DEF d
    <2>2. PICK s \in SUBSET Vars :
            d = [est |-> [c.est EXCEPT ![i] = Size(i)], small |-> s, probe |-> c.probe, empty |-> (Size(i) = 0)]
      <3>1. PICK s : s = IF Size(i) <= fanout THEN c.small \cup VarsOf(i) ELSE c.small
        OBVIOUS
      <3>2. s \in SUBSET Vars
        BY <1>1, <1>2, <3>1
      <3>3. d = [c EXCEPT !.est[i] = Size(i), !.small = s, !.empty = Size(i) = 0]
        BY <2>1, <3>1, Zenon
      <3>4. PICK b : b = (Size(i) = 0)
        OBVIOUS
      <3>5. d = [c EXCEPT !.est[i] = Size(i), !.small = s, !.empty = b]
        BY <3>3, <3>4, Zenon
      <3>6. d = [est |-> [c.est EXCEPT ![i] = Size(i)], small |-> s, probe |-> c.probe, empty |-> b]
        BY <1>2, <3>5
      <3> QED
        BY <3>2, <3>4, <3>6, Zenon
    <2>3. d.est = [c.est EXCEPT ![i] = Size(i)] /\ d.small = s /\ d.probe = c.probe /\ d.empty = (Size(i) = 0)
      BY <2>2
    <2>4. d \in Counts
      <3>1. [c.est EXCEPT ![i] = Size(i)] \in [Patterns -> Nat \cup {Uncounted}]
        BY <1>1, <1>2
      <3> QED
        BY <1>2, <2>2, <3>1 DEF Counts
    <2>5. d.est[i] = Size(i) /\ \A p \in Patterns : p # i => d.est[p] = c.est[p]
      BY <1>2, <2>3
    <2>6. ASSUME CountedUpto(c, i - 1)
          PROVE  CountedUpto(d, i)
      <3>1. \A p \in Patterns : d.est[p] \in {Uncounted, Size(p)}
        BY <2>5, <2>6 DEF CountedUpto
      <3>2. d.empty => \E p \in Patterns : d.est[p] = 0
        BY <2>3, <2>5
      <3>3. \A j \in 1..i : j \in Scans \/ j \in d.probe \/ d.est[j] # Uncounted
        <4>1. ASSUME NEW j \in 1..i, j # i
              PROVE  j \in Scans \/ j \in d.probe \/ d.est[j] # Uncounted
          <5>1. j \in 1..i - 1 /\ j \in Patterns
            BY <1>1, <4>1, Variables DEF Patterns
          <5>2. j \in Scans \/ j \in c.probe \/ c.est[j] # Uncounted
            BY <1>6, <2>6, <5>1 DEF CountedUpto
          <5> QED
            BY <2>3, <2>5, <4>1, <5>1, <5>2, Zenon
        <4>2. d.est[i] # Uncounted
          BY <1>1, <2>5 DEF Uncounted
        <4> QED
          BY <4>1, <4>2
      <3> QED
        BY <3>1, <3>2, <3>3, Zenon DEF CountedUpto
    <2> QED
      BY <2>4, <2>6 DEF d
  <1> QED
    BY <1>4, <1>5, <1>6

(* Counting, unfolded to its last pattern.                                 *)
LEMMA AllCounted ==
  ASSUME BlockOK
  PROVE  Counting[NPatterns] \in Counts /\ CountedUpto(Counting[NPatterns], NPatterns)
  <1> DEFINE step == [i \in 1..NPatterns |-> [c \in Counts |-> CountOne(c, i)]]
             P(f) == f = [i \in 0..NPatterns |-> IF i = 0 THEN NoneCounted ELSE CountOne(f[i - 1], i)]
             C == Counting
  <1>1. /\ NPatterns \in Nat \ {0} /\ NoneCounted \in Counts
        /\ step \in [1..NPatterns -> [Counts -> Counts]]
    <2>1. NPatterns \in Nat \ {0} /\ NoneCounted \in Counts
      BY Variables DEF NoneCounted, Counts
    <2>2. ASSUME NEW i \in 1..NPatterns, NEW c \in Counts
          PROVE  CountOne(c, i) \in Counts
      BY OneCounted DEF Patterns
    <2> QED
      BY <2>1, <2>2
  <1>2. \A i \in 1..NPatterns, c \in Counts : step[i][c] = CountOne(c, i)
    OBVIOUS
  <1> HIDE DEF step
  <1>3. PICK g \in [0..NPatterns -> Counts] :
          g[0] = NoneCounted /\ \A i \in 1..NPatterns : g[i] = step[i][g[i - 1]]
    <2>1. PICK V, start, N, a : V = Counts /\ start = NoneCounted /\ N = NPatterns /\ a = step
      OBVIOUS
    <2>2. start \in V /\ N \in Nat /\ a \in [1..N -> [V -> V]]
      BY <1>1, <2>1, Zenon
    <2>3. \E g \in [0..N -> V] : g[0] = start /\ \A i \in 1..N : g[i] = a[i][g[i - 1]]
      BY <2>2, StepByStep
    <2> QED
      BY <2>1, <2>3, Zenon
  <1>4. P(g)
    <2>1. ASSUME NEW i \in 0..NPatterns
          PROVE  g[i] = IF i = 0 THEN NoneCounted ELSE CountOne(g[i - 1], i)
      <3>1. CASE i = 0
        BY <1>3, <3>1, Zenon
      <3>2. CASE i # 0
        <4>1. i \in 1..NPatterns /\ i - 1 \in 0..NPatterns
          BY <1>1, <3>2
        <4>2. g[i - 1] \in Counts
          BY <4>1
        <4> QED
          BY <1>2, <1>3, <3>2, <4>1, <4>2, Zenon
      <3> QED
        BY <3>1, <3>2
    <2> QED
      BY <1>3, <2>1, Zenon
  <1>5. P(CHOOSE f : P(f))
    BY <1>4, Zenon
  <1>6. C = CHOOSE f : P(f)
    BY DEF Counting, CountOne, NoneCounted
  <1>7. P(C)
    BY <1>5, <1>6, Zenon
  <1> HIDE DEF C
  <1>8. C[0] = NoneCounted /\ \A i \in 1..NPatterns : C[i] = CountOne(C[i - 1], i)
    <2>1. \A i \in 0..NPatterns : C[i] = IF i = 0 THEN NoneCounted ELSE CountOne(C[i - 1], i)
      BY <1>7, Zenon
    <2>2. 0 \in 0..NPatterns /\ \A i \in 1..NPatterns : i \in 0..NPatterns /\ i # 0
      BY <1>1
    <2> QED
      BY <2>1, <2>2, Zenon
  <1>9. C[NPatterns] \in Counts /\ CountedUpto(C[NPatterns], NPatterns)
    <2> DEFINE Good(n) == C[n] \in Counts /\ CountedUpto(C[n], n)
               S == {n \in Nat : n <= NPatterns => Good(n)}
    <2>1. Good(0)
      BY <1>1, <1>8 DEF NoneCounted, CountedUpto
    <2>2. ASSUME NEW n \in Nat, n + 1 <= NPatterns, Good(n)
          PROVE  Good(n + 1)
      <3>1. PICK m \in 1..NPatterns : m = n + 1 /\ m - 1 = n
        BY <1>1, <2>2
      <3>2. C[m] = CountOne(C[n], m)
        BY <1>8, <3>1
      <3>3. C[n] \in Counts /\ CountedUpto(C[n], m - 1) /\ m \in Patterns
        BY <2>2, <3>1, Zenon DEF Patterns
      <3>4. CountOne(C[n], m) \in Counts /\ CountedUpto(CountOne(C[n], m), m)
        BY <3>3, OneCounted
      <3> QED
        BY <3>1, <3>2, <3>4, Zenon
    <2> HIDE DEF Good
    <2>3. 0 \in S /\ \A n \in Nat : n \in S => n + 1 \in S
      <3>1. ASSUME NEW n \in Nat, n \in S, n + 1 <= NPatterns
            PROVE  Good(n + 1)
        <4>1. n <= NPatterns
          BY <1>1, <3>1
        <4>2. Good(n)
          BY <3>1, <4>1
        <4> QED
          BY <2>2, <3>1, <4>2
      <3> QED
        BY <2>1, <3>1
    <2>4. NPatterns \in S
      BY <1>1, <2>3, SetInduction
    <2> QED
      BY <1>1, <2>4 DEF Good
  <1> QED
    BY <1>9 DEF C

(* A pattern without quads, or a keep without codes, leaves no answer.     *)
LEMMA NoAnswer ==
  ASSUME BlockOK, Unsatisfiable \/ \E p \in Patterns : Size(p) = 0
  PROVE  SolutionsOf(Patterns) = {}
  <1> SUFFICES ASSUME NEW f \in SolutionsOf(Patterns) PROVE FALSE
    OBVIOUS
  <1>1. DOMAIN f = Vars /\ (\A p \in Patterns : At(f, p) \in raw[Quad[p]]) /\ \A v \in Vars : f[v] \in keep[v]
    BY DEF SolutionsOf, Solutions, Vars
  <1>2. ASSUME NEW p \in Patterns, Size(p) = 0
        PROVE  FALSE
    <2>1. IsFiniteSet(raw[Quad[p]])
      BY QuadsFinite
    <2>2. PICK s : s = raw[Quad[p]]
      OBVIOUS
    <2>3. s = {}
      <3>1. IsFiniteSet(s) /\ Cardinality(s) = 0
        BY <1>2, <2>1, <2>2 DEF Size
      <3> QED
        BY <3>1, FS_EmptySet
    <2> QED
      BY <1>1, <2>2, <2>3
  <1> QED
    BY <1>1, <1>2 DEF Unsatisfiable

(* A scan is counted or shares a small variable, unless a zero is counted. *)
LEMMA ScansAreCounted ==
  ASSUME BlockOK, NEW c, ~c.empty, \A p \in ScansCounted(c) : Size(p) # 0,
         NEW p \in Scans, VarsOf(p) \cap c.small = {}
  PROVE  p \in ScansCounted(c)
  <1> DEFINE rest == {q \in Scans : VarsOf(q) \cap c.small = {}}
             zero == {q \in rest : Size(q) = 0}
             upToZero == {q \in rest : \A z \in zero : q <= z}
  <1>1. CASE Cardinality({Quad[q] : q \in rest}) >= batchMin
    BY <1>1 DEF ScansCounted
  <1>2. CASE ~(Cardinality({Quad[q] : q \in rest}) >= batchMin)
    <2>1. ScansCounted(c) = upToZero
      BY <1>2 DEF ScansCounted
    <2>2. Scans \subseteq Nat
      <3>1. Scans \subseteq Patterns
        BY DEF Scans
      <3> QED
        BY <3>1, Variables DEF Patterns
    <2>3. zero = {}
      <3> SUFFICES ASSUME zero # {} PROVE FALSE
        OBVIOUS
      <3>1. zero \subseteq Nat
        BY <2>2
      <3> HIDE DEF zero
      <3>2. PICK z \in zero : \A q \in zero : z <= q
        BY <3>1, Least
      <3>3. z \in upToZero /\ Size(z) = 0
        BY <3>2 DEF zero
      <3> QED
        BY <2>1, <3>3
    <2> QED
      BY <2>1, <2>3
  <1> QED
    BY <1>1, <1>2

(* What counting decides: the patterns the plan starts with, or that the   *)
(* block has no answer.                                                    *)
LEMMA CountingDecides ==
  ASSUME BlockOK, CountPatterns
  PROVE  /\ est' \in [Patterns -> Nat \cup {Uncounted}] /\ planned' = est'
         /\ counted' \subseteq Quads /\ remaining' \subseteq Patterns
         /\ outcome' \in {"empty", "seeding"}
         /\ outcome' = "empty" => SolutionsOf(Patterns) = {}
         /\ outcome' = "seeding" =>
              remaining' = Patterns /\ \A p \in Patterns : est'[p] # Uncounted => est'[p] = Size(p)
  <1> DEFINE c == Counting[NPatterns]
             scanned == ScansCounted(c)
             probe == IF c.empty THEN c.probe
                      ELSE c.probe \cup {p \in Scans : VarsOf(p) \cap c.small # {}}
             final == IF Unsatisfiable THEN [p \in Patterns |-> 0]
                      ELSE [p \in Patterns |-> IF p \in scanned THEN Size(p) ELSE c.est[p]]
             taken == {p \in Patterns : final[p] # Uncounted \/ p \in probe}
  <1>1. c \in Counts /\ CountedUpto(c, NPatterns)
    BY AllCounted
  <1>2. /\ est' = final /\ planned' = final
        /\ counted' = IF Unsatisfiable THEN {}
                      ELSE {Quad[p] : p \in {q \in Patterns : final[q] # Uncounted}}
        /\ remaining' = IF \E p \in taken : final[p] = 0 THEN {} ELSE taken
        /\ outcome' = IF \E p \in taken : final[p] = 0 THEN "empty" ELSE "seeding"
    BY DEF CountPatterns
  <1> HIDE DEF c
  <1>3. \A p \in Patterns : Size(p) \in Nat /\ c.est[p] \in Nat \cup {Uncounted}
    BY <1>1, QuadsFinite DEF Counts
  <1>4. ASSUME ~Unsatisfiable, NEW p \in Patterns
        PROVE  /\ final[p] = IF p \in scanned THEN Size(p) ELSE c.est[p]
               /\ final[p] # Uncounted => final[p] = Size(p)
    <2>1. final[p] = IF p \in scanned THEN Size(p) ELSE c.est[p]
      BY <1>4
    <2> HIDE DEF scanned
    <2>2. c.est[p] \in {Uncounted, Size(p)}
      BY <1>1 DEF CountedUpto
    <2> QED
      BY <2>1, <2>2, Zenon
  <1>5. final \in [Patterns -> Nat \cup {Uncounted}] /\ DOMAIN final = Patterns
    <2> HIDE DEF scanned
    <2> QED
      BY <1>3
  <1>6. counted' \subseteq Quads
    <2> HIDE DEF final
    <2> QED
      BY <1>2 DEF Quads
  <1>7. remaining' \subseteq Patterns /\ outcome' \in {"empty", "seeding"}
    <2> HIDE DEF final, probe
    <2> QED
      BY <1>2
  <1>8. CASE Unsatisfiable
    <2>1. 1 \in Patterns
      BY Variables DEF Patterns
    <2>2. final[1] = 0 /\ 1 \in taken
      BY <1>8, <2>1 DEF Uncounted
    <2>3. outcome' = "empty"
      <3> HIDE DEF final, taken
      <3> QED
        BY <1>2, <2>2
    <2>4. SolutionsOf(Patterns) = {}
      BY <1>8, NoAnswer
    <2> HIDE DEF final, taken
    <2> QED
      BY <1>2, <1>5, <1>6, <1>7, <2>3, <2>4
  <1>9. CASE ~Unsatisfiable /\ \E p \in taken : final[p] = 0
    <2>1. PICK p \in Patterns : final[p] = 0
      <3> HIDE DEF final, probe
      <3> QED
        BY <1>9
    <2>2. Size(p) = 0
      <3> HIDE DEF final
      <3> QED
        BY <1>4, <1>9, <2>1 DEF Uncounted
    <2>3. SolutionsOf(Patterns) = {}
      BY <2>2, NoAnswer
    <2> HIDE DEF final, taken
    <2>4. outcome' = "empty"
      BY <1>2, <1>9
    <2> QED
      BY <1>2, <1>5, <1>6, <1>7, <2>3, <2>4
  <1>10. CASE ~Unsatisfiable /\ ~\E p \in taken : final[p] = 0
    <2> HIDE DEF final, scanned, probe
    <2>1. \A p \in Patterns : final[p] # 0
      <3>1. ASSUME NEW p \in Patterns, final[p] = 0
            PROVE  p \in taken
        BY <3>1 DEF Uncounted
      <3> QED
        BY <1>10, <3>1
    <2>2. ~c.empty
      <3> SUFFICES ASSUME c.empty PROVE FALSE
        OBVIOUS
      <3>1. PICK p \in Patterns : c.est[p] = 0
        BY <1>1 DEF CountedUpto
      <3>2. p \notin scanned
        BY DEF scanned, ScansCounted
      <3>3. final[p] = 0
        BY <1>4, <1>10, <3>1, <3>2
      <3> QED
        BY <2>1, <3>3
    <2>3. \A p \in scanned : Size(p) # 0
      <3>1. scanned \subseteq Patterns
        BY DEF scanned, ScansCounted, Scans
      <3> QED
        BY <1>4, <1>10, <2>1, <3>1
    <2>4. ASSUME NEW p \in Patterns
          PROVE  p \in taken
      <3>1. CASE p \in Scans
        <4>1. CASE VarsOf(p) \cap c.small = {}
          <5>1. p \in scanned
            BY <2>2, <2>3, <3>1, <4>1, ScansAreCounted DEF scanned
          <5>2. final[p] = Size(p) /\ Size(p) \in Nat
            BY <1>3, <1>4, <1>10, <5>1
          <5> QED
            BY <5>2 DEF Uncounted
        <4>2. CASE VarsOf(p) \cap c.small # {}
          BY <2>2, <3>1, <4>2 DEF probe
        <4> QED
          BY <4>1, <4>2
      <3>2. CASE p \notin Scans
        <4>1. p \in c.probe \/ c.est[p] # Uncounted
          BY <1>1, <2>2, <3>2 DEF CountedUpto, Patterns
        <4>2. p \in c.probe => p \in probe
          BY <2>2 DEF probe
        <4>3. p \notin scanned
          BY <3>2 DEF scanned, ScansCounted
        <4>4. c.est[p] # Uncounted => final[p] # Uncounted
          BY <1>4, <1>10, <4>3
        <4> QED
          BY <4>1, <4>2, <4>4
      <3> QED
        BY <3>1, <3>2
    <2>5. outcome' = "seeding" /\ remaining' = Patterns
      <3>1. taken = Patterns
        BY <2>4
      <3> HIDE DEF taken
      <3> QED
        BY <1>2, <1>10, <3>1
    <2>6. \A p \in Patterns : est'[p] # Uncounted => est'[p] = Size(p)
      BY <1>2, <1>4, <1>10
    <2> QED
      BY <1>2, <1>5, <1>6, <2>5, <2>6
  <1> QED
    BY <1>8, <1>9, <1>10

-----------------------------------------------------------------------------
(* Choosing a pattern, and the sizes of what its step builds.              *)

(* A nonempty set of patterns has a first one.                             *)
LEMMA FirstOfSome ==
  ASSUME planned \in [Patterns -> Nat \cup {Uncounted}], NEW S \in SUBSET Patterns, S # {}
  PROVE  First(S) \in S
  <1>1. S \subseteq Nat
    BY Variables DEF Patterns
  <1>2. \E p \in S : \A q \in S : Before(p, q)
    <2>1. CASE \E p \in S : planned[p] # Uncounted
      <3> DEFINE T == {n \in Nat : \E p \in S : planned[p] = n}
      <3>1. T # {} /\ T \subseteq Nat
        BY <2>1
      <3> HIDE DEF T
      <3>2. PICK m \in T : \A n \in T : m <= n
        BY <3>1, Least
      <3> DEFINE U == {p \in S : planned[p] = m}
      <3>3. U # {} /\ U \subseteq Nat
        BY <1>1, <3>2 DEF T
      <3> HIDE DEF U
      <3>4. PICK p \in U : \A q \in U : p <= q
        BY <3>3, Least
      <3>5. p \in S /\ planned[p] = m /\ m \in Nat
        BY <3>1, <3>2, <3>4 DEF U
      <3>6. ASSUME NEW q \in S
            PROVE  Before(p, q)
        <4>1. CASE planned[q] = Uncounted
          BY <3>5, <4>1 DEF Before, Uncounted
        <4>2. CASE planned[q] # Uncounted
          <5>1. PICK n \in Nat : planned[q] = n
            BY <4>2
          <5>2. m <= n
            BY <3>2, <5>1 DEF T
          <5>3. CASE m = n
            <6>1. p <= q
              BY <3>4, <5>1, <5>3 DEF U
            <6> QED
              BY <3>5, <5>1, <5>3, <6>1 DEF Before
          <5>4. CASE m < n
            BY <3>5, <5>1, <5>4 DEF Before, Uncounted
          <5> QED
            BY <3>5, <5>2, <5>3, <5>4
        <4> QED
          BY <4>1, <4>2
      <3> QED
        BY <3>5, <3>6
    <2>2. CASE \A p \in S : planned[p] = Uncounted
      <3>1. PICK p \in S : \A q \in S : p <= q
        BY <1>1, Least
      <3>2. \A q \in S : Before(p, q)
        BY <2>2, <3>1 DEF Before
      <3> QED
        BY <3>2
    <2> QED
      BY <2>1, <2>2
  <1> QED
    BY <1>2 DEF First

(* Multiplying by more gives no less.                                      *)
LEMMA Monotone ==
  ASSUME NEW a \in Nat, NEW b \in Nat, NEW c \in Nat, a <= b
  PROVE  c * a \in Nat /\ c * b \in Nat /\ c * a <= c * b /\ (c >= 1 => a <= c * a)
  <1>1. PICK d \in Nat : b = a + d
    <2>1. b - a \in Nat /\ b = a + (b - a)
      OBVIOUS
    <2> QED
      BY <2>1
  <1>2. c * b = c * a + c * d
    BY <1>1
  <1>3. c * a \in Nat /\ c * d \in Nat /\ c * b \in Nat
    OBVIOUS
  <1>4. c >= 1 => a <= c * a
    <2> SUFFICES ASSUME c >= 1 PROVE a <= c * a
      OBVIOUS
    <2>1. PICK e \in Nat : c = 1 + e
      <3>1. c - 1 \in Nat /\ c = 1 + (c - 1)
        OBVIOUS
      <3> QED
        BY <3>1
    <2>2. c * a = a + e * a /\ e * a \in Nat
      BY <2>1
    <2> QED
      BY <2>2
  <1> QED
    BY <1>2, <1>3, <1>4

(* The relation is finite.                                                 *)
LEMMA RelationFinite ==
  ASSUME TypeOK
  PROVE  IsFiniteSet(rows) /\ Running \in Nat /\ (rows # {} => Running >= 1)
  <1>1. schema \subseteq Vars /\ rows \subseteq Solutions(schema)
    BY DEF TypeOK
  <1>2. IsFiniteSet(rows)
    BY <1>1, FiniteSolutions, FS_Subset
  <1>3. PICK r : r = rows
    OBVIOUS
  <1>4. Cardinality(r) \in Nat /\ (Cardinality(r) = 0 => r = {})
    <2>1. IsFiniteSet(r)
      BY <1>2, <1>3
    <2> QED
      BY <2>1, FS_CardinalityType, FS_EmptySet
  <1>5. PICK n : n = Cardinality(r)
    OBVIOUS
  <1>6. n \in Nat /\ (r # {} => n >= 1) /\ Running = n
    BY <1>3, <1>4, <1>5 DEF Running
  <1> QED
    BY <1>2, <1>3, <1>6

(* The solutions of quads T are no more than the quads.                    *)
LEMMA RightSize ==
  ASSUME BlockOK, NEW p \in Patterns, NEW T \in SUBSET raw[Quad[p]], NEW special
  PROVE  /\ IsFiniteSet(Right(p, T, special)) /\ Cardinality(Right(p, T, special)) \in Nat
         /\ IsFiniteSet(T) /\ Cardinality(T) \in Nat /\ Size(p) \in Nat
         /\ Cardinality(Right(p, T, special)) <= Cardinality(T)
         /\ Cardinality(T) <= Size(p)
  <1> DEFINE R == Right(p, T, special)
             at == [g \in R |-> At(g, p)]
  <1>1. IsFiniteSet(raw[Quad[p]])
    BY QuadsFinite
  <1>2. PICK Q : Q = raw[Quad[p]]
    OBVIOUS
  <1>3. IsFiniteSet(T) /\ Cardinality(T) \in Nat /\ Cardinality(Q) \in Nat /\ Cardinality(T) <= Cardinality(Q)
    <2>1. IsFiniteSet(Q) /\ T \in SUBSET Q
      BY <1>1, <1>2
    <2> QED
      BY <2>1, Smaller
  <1>4. at \in [R -> T] /\ \A g, h \in R : at[g] = at[h] => g = h
    <2>1. ASSUME NEW g \in R
          PROVE  g \in Solutions(VarsOf(p)) /\ At(g, p) \in T
      BY DEF Right
    <2> HIDE DEF R
    <2>2. ASSUME NEW g \in R, NEW h \in R, at[g] = at[h]
          PROVE  g = h
      BY <2>1, <2>2, ReadApart
    <2> QED
      BY <2>1, <2>2
  <1> HIDE DEF at
  <1>5. IsFiniteSet(R) /\ Cardinality(R) \in Nat /\ Cardinality(R) <= Cardinality(T)
    <2>1. PICK K, a : K = R /\ a = at
      OBVIOUS
    <2>2. a \in [K -> T] /\ \A g, h \in K : a[g] = a[h] => g = h
      BY <1>4, <2>1
    <2>3. IsFiniteSet(K) /\ Cardinality(K) \in Nat /\ Cardinality(K) <= Cardinality(T)
      BY <1>3, <2>2, NoLarger
    <2> QED
      BY <2>1, <2>3
  <1>6. Size(p) = Cardinality(Q)
    BY <1>2 DEF Size
  <1> QED
    BY <1>3, <1>5, <1>6

(* The first variable p shares with the relation has a position.           *)
LEMMA KeyIsShared ==
  ASSUME NEW p \in Patterns, Connected(p)
  PROVE  /\ KeyPosition(p) \in DOMAIN VarAt[p]
         /\ VarAt[p][KeyPosition(p)] \in schema /\ VarAt[p][KeyPosition(p)] \in VarsOf(p)
  <1> DEFINE K == {i \in DOMAIN VarAt[p] : VarAt[p][i] \in schema}
  <1>1. Len(VarAt[p]) \in Nat /\ DOMAIN VarAt[p] = 1..Len(VarAt[p])
    BY Variables
  <1>2. K # {} /\ K \subseteq Nat
    <2>1. PICK v \in VarsOf(p) : v \in schema
      BY DEF Connected, Shared
    <2>2. PICK i \in DOMAIN VarAt[p] : VarAt[p][i] = v
      BY Variables
    <2> QED
      BY <1>1, <2>1, <2>2
  <1> HIDE DEF K
  <1>3. PICK i \in K : \A j \in K : i <= j
    BY <1>2, Least
  <1>4. i \in DOMAIN VarAt[p] /\ VarAt[p][i] \in schema
    BY <1>3 DEF K
  <1>5. \A j \in 1..i-1 : VarAt[p][j] \notin schema
    <2>1. ASSUME NEW j \in 1..i-1
          PROVE  j \in DOMAIN VarAt[p] /\ ~(i <= j)
      BY <1>1, <1>4
    <2> QED
      BY <1>3, <2>1 DEF K
  <1>6. KeyPosition(p) \in DOMAIN VarAt[p] /\ VarAt[p][KeyPosition(p)] \in schema
    BY <1>4, <1>5 DEF KeyPosition
  <1> QED
    BY <1>6, Variables

(* A join is no larger than its pairs, on the first shared variable or     *)
(* all, nor than the relation times the pattern.                           *)
LEMMA JoinSize ==
  ASSUME TypeOK, NEW p \in Patterns, NEW T \in SUBSET raw[Quad[p]], NEW special
  PROVE  LET R == Right(p, T, special)
         IN  /\ Cardinality(Joined(p, T, special)) \in Nat
             /\ Cardinality(Joined(p, T, special)) <= Running * Cardinality(R)
             /\ Pairs(p, R) \in Nat /\ Cardinality(Joined(p, T, special)) <= Pairs(p, R)
             /\ Running * Cardinality(R) \in Nat /\ Running * Size(p) \in Nat
             /\ Running * Cardinality(R) <= Running * Size(p)
  <1> DEFINE R == Right(p, T, special)
             J == Joined(p, T, special)
             A == rows \X R
             v == VarAt[p][KeyPosition(p)]
             B == {fg \in A : fg[1][v] = fg[2][v]}
             both == [f \in J |-> <<Restrict(f, schema), Restrict(f, VarsOf(p))>>]
  <1>1. BlockOK /\ IsFiniteSet(rows) /\ Running \in Nat
    BY RelationFinite DEF TypeOK
  <1>2. IsFiniteSet(R) /\ Cardinality(R) \in Nat /\ Size(p) \in Nat /\ Cardinality(R) <= Size(p)
    <2>1. PICK r, t, s : r = Cardinality(R) /\ t = Cardinality(T) /\ s = Size(p)
      OBVIOUS
    <2>2. IsFiniteSet(R) /\ r \in Nat /\ t \in Nat /\ s \in Nat /\ r <= t /\ t <= s
      BY <1>1, <2>1, RightSize
    <2>3. r <= s
      BY <2>2
    <2> QED
      BY <2>1, <2>2, <2>3
  <1>3. /\ Running * Cardinality(R) \in Nat /\ Running * Size(p) \in Nat
        /\ Running * Cardinality(R) <= Running * Size(p)
    <2>1. PICK r, s, n : r = Cardinality(R) /\ s = Size(p) /\ n = Running
      OBVIOUS
    <2>2. r \in Nat /\ s \in Nat /\ n \in Nat /\ r <= s
      BY <1>1, <1>2, <2>1
    <2>3. n * r \in Nat /\ n * s \in Nat /\ n * r <= n * s
      BY <2>2, Monotone
    <2> QED
      BY <2>1, <2>3
  <1>4. IsFiniteSet(A) /\ Cardinality(A) = Running * Cardinality(R)
    <2>1. PICK X, Y : X = rows /\ Y = R
      OBVIOUS
    <2>2. IsFiniteSet(X \X Y) /\ Cardinality(X \X Y) = Cardinality(X) * Cardinality(Y)
      BY <1>1, <1>2, <2>1, FS_Product
    <2> QED
      BY <2>1, <2>2 DEF Running
  <1>5. ASSUME NEW f \in J
        PROVE  /\ f \in Solutions(schema \cup VarsOf(p))
               /\ Restrict(f, schema) \in rows /\ Restrict(f, VarsOf(p)) \in R
    BY DEF Joined
  <1> HIDE DEF J, R
  <1>6. both \in [J -> A]
    BY <1>5
  <1>7. ASSUME NEW f \in J, NEW g \in J, both[f] = both[g]
        PROVE  f = g
    <2>1. Restrict(f, schema) = Restrict(g, schema) /\ Restrict(f, VarsOf(p)) = Restrict(g, VarsOf(p))
      BY <1>7
    <2>2. ASSUME NEW w \in schema \cup VarsOf(p)
          PROVE  f[w] = g[w]
      <3>1. CASE w \in schema
        <4>1. Restrict(f, schema)[w] = f[w] /\ Restrict(g, schema)[w] = g[w]
          BY <3>1 DEF Restrict
        <4> QED
          BY <2>1, <4>1
      <3>2. CASE w \in VarsOf(p)
        <4>1. Restrict(f, VarsOf(p))[w] = f[w] /\ Restrict(g, VarsOf(p))[w] = g[w]
          BY <3>2 DEF Restrict
        <4> QED
          BY <2>1, <4>1
      <3> QED
        BY <3>1, <3>2
    <2>3. f \in Solutions(schema \cup VarsOf(p)) /\ g \in Solutions(schema \cup VarsOf(p))
      BY <1>5
    <2> QED
      BY <2>2, <2>3 DEF Solutions
  <1>8. Connected(p) => both \in [J -> B]
    <2> SUFFICES ASSUME Connected(p), NEW f \in J PROVE both[f] \in B
      BY <1>6
    <2>1. v \in schema /\ v \in VarsOf(p)
      BY KeyIsShared
    <2> HIDE DEF v
    <2>2. both[f] = <<Restrict(f, schema), Restrict(f, VarsOf(p))>> /\ both[f] \in A
      BY <1>6
    <2>3. both[f][1][v] = f[v] /\ both[f][2][v] = f[v]
      BY <2>1, <2>2 DEF Restrict
    <2> QED
      BY <2>2, <2>3
  <1> HIDE DEF both, v
  <1>9. Cardinality(J) \in Nat /\ Cardinality(J) <= Cardinality(A)
    <2>1. PICK X, Y, h : X = J /\ Y = A /\ h = both
      OBVIOUS
    <2>2. IsFiniteSet(Y) /\ h \in [X -> Y] /\ \A f, g \in X : h[f] = h[g] => f = g
      BY <1>4, <1>6, <1>7, <2>1
    <2>3. Cardinality(X) \in Nat /\ Cardinality(X) <= Cardinality(Y)
      BY <2>2, NoLarger
    <2> QED
      BY <2>1, <2>3
  <1>10. Connected(p) => Cardinality(B) \in Nat /\ Cardinality(J) <= Cardinality(B)
    <2> SUFFICES ASSUME Connected(p) PROVE Cardinality(B) \in Nat /\ Cardinality(J) <= Cardinality(B)
      OBVIOUS
    <2>1. IsFiniteSet(B)
      <3>1. B \subseteq A
        OBVIOUS
      <3> QED
        BY <1>4, <3>1, FS_Subset
    <2>2. both \in [J -> B]
      BY <1>8
    <2>3. PICK X, Y, h : X = J /\ Y = B /\ h = both
      OBVIOUS
    <2>4. IsFiniteSet(Y) /\ h \in [X -> Y] /\ \A f, g \in X : h[f] = h[g] => f = g
      BY <1>7, <2>1, <2>2, <2>3
    <2>5. Cardinality(Y) \in Nat /\ Cardinality(X) <= Cardinality(Y)
      BY <2>4, NoLarger
    <2> QED
      BY <2>3, <2>5
  <1>11. Pairs(p, R) = IF ~Connected(p) THEN Running * Cardinality(R) ELSE Cardinality(B)
    BY DEF Pairs, v
  <1> HIDE DEF A, B
  <1>12. Pairs(p, R) \in Nat /\ Cardinality(J) <= Pairs(p, R) /\ Cardinality(J) <= Running * Cardinality(R)
    <2>1. CASE Connected(p)
      BY <1>4, <1>9, <1>10, <1>11, <2>1, Zenon
    <2>2. CASE ~Connected(p)
      BY <1>3, <1>4, <1>9, <1>11, <2>2, Zenon
    <2> QED
      BY <2>1, <2>2
  <1> QED
    BY <1>3, <1>9, <1>12, Zenon DEF R, J

(* The pairs counted with the quads themselves are no fewer.               *)
LEMMA KeyPairs ==
  ASSUME TypeOK, NEW p \in Patterns, NEW T \in SUBSET raw[Quad[p]], NEW special, Connected(p)
  PROVE  PairsOn(p, T) \in Nat /\ Pairs(p, Right(p, T, special)) \in Nat
         /\ Pairs(p, Right(p, T, special)) <= PairsOn(p, T)
  <1> DEFINE R == Right(p, T, special)
             i == KeyPosition(p)
             v == VarAt[p][i]
             A == {fg \in rows \X R : fg[1][v] = fg[2][v]}
             B == {ft \in rows \X T : ft[1][v] = ft[2][i]}
             at == [fg \in A |-> <<fg[1], At(fg[2], p)>>]
  <1>1. BlockOK /\ IsFiniteSet(rows)
    BY RelationFinite DEF TypeOK
  <1>2. IsFiniteSet(T)
    BY <1>1, RightSize
  <1>3. IsFiniteSet(B)
    <2>1. IsFiniteSet(rows \X T)
      BY <1>1, <1>2, FS_Product
    <2>2. B \subseteq rows \X T
      OBVIOUS
    <2> HIDE DEF B
    <2> QED
      BY <2>1, <2>2, FS_Subset
  <1>4. Pairs(p, R) = Cardinality(A) /\ PairsOn(p, T) = Cardinality(B)
    BY DEF Pairs, PairsOn
  <1>5. i \in DOMAIN VarAt[p]
    BY KeyIsShared
  <1>6. \A g \in R : g \in Solutions(VarsOf(p)) /\ At(g, p) \in T
    BY DEF Right
  <1> HIDE DEF R, i
  <1>7. at \in [A -> B]
    <2>1. ASSUME NEW fg \in A
          PROVE  <<fg[1], At(fg[2], p)>> \in B
      <3>1. PICK f \in rows, g \in R : fg = <<f, g>> /\ f[v] = g[v]
        BY <2>1
      <3>2. At(g, p) \in T /\ At(g, p)[i] = g[v]
        BY <1>5, <1>6 DEF At
      <3> QED
        BY <3>1, <3>2
    <2> HIDE DEF A, B
    <2> QED
      BY <2>1
  <1>8. ASSUME NEW x \in A, NEW y \in A, at[x] = at[y]
        PROVE  x = y
    <2>1. at[x] = <<x[1], At(x[2], p)>> /\ at[y] = <<y[1], At(y[2], p)>>
      <3> HIDE DEF A
      <3> QED
        OBVIOUS
    <2>2. x[1] = y[1] /\ At(x[2], p) = At(y[2], p)
      BY <1>8, <2>1
    <2>3. x \in rows \X R /\ y \in rows \X R
      OBVIOUS
    <2>4. x[2] = y[2]
      BY <1>6, <2>2, <2>3, ReadApart
    <2> QED
      BY <2>2, <2>3, <2>4
  <1> HIDE DEF A, B, at
  <1>9. Cardinality(A) \in Nat /\ Cardinality(B) \in Nat /\ Cardinality(A) <= Cardinality(B)
    <2>1. PICK X, Y, h : X = A /\ Y = B /\ h = at
      OBVIOUS
    <2>2. IsFiniteSet(Y) /\ h \in [X -> Y] /\ \A x, y \in X : h[x] = h[y] => x = y
      BY <1>3, <1>7, <1>8, <2>1
    <2>3. Cardinality(X) \in Nat /\ Cardinality(Y) \in Nat /\ Cardinality(X) <= Cardinality(Y)
      BY <2>2, NoLarger
    <2> QED
      BY <2>1, <2>3
  <1> QED
    BY <1>4, <1>9 DEF R

(* The quads a step reads are of the pattern.                              *)
LEMMA ReadsItsQuads ==
  ASSUME NEW p
  PROVE  Match(p) \subseteq raw[Quad[p]] /\ KeepScan(p) \subseteq Match(p) /\ KeepScan(p) \subseteq raw[Quad[p]]
  BY DEF Match, KeepScan

(* A keep-scan past the budget read more quads than the budget.            *)
LEMMA ScanOver ==
  ASSUME TypeOK, NEW p \in Patterns, KeepScanOver(p), rows # {}
  PROVE  Running * Size(p) > budget
  <1>1. BlockOK /\ Running \in Nat /\ Running >= 1 /\ budget \in Nat
    BY RelationFinite DEF TypeOK, BlockOK
  <1>2. Cardinality(KeepScan(p)) \in Nat /\ Size(p) \in Nat /\ Cardinality(KeepScan(p)) <= Size(p)
    BY <1>1, ReadsItsQuads, RightSize
  <1>3. Cardinality(KeepScan(p)) > budget
    BY DEF KeepScanOver
  <1>4. PICK k, s, n, b : k = Cardinality(KeepScan(p)) /\ s = Size(p) /\ n = Running /\ b = budget
    OBVIOUS
  <1>5. k \in Nat /\ s \in Nat /\ n \in Nat /\ n >= 1 /\ b \in Nat /\ k <= s /\ k > b
    BY <1>1, <1>2, <1>3, <1>4
  <1>6. n * s \in Nat /\ s <= n * s
    BY <1>5, Monotone
  <1>7. n * s > b
    BY <1>5, <1>6
  <1> QED
    BY <1>4, <1>7

(* A step goes over only if the relation times the pattern does, and its   *)
(* join only if the pairs counted do.                                      *)
LEMMA OverIsOver ==
  ASSUME TypeOK, NEW p \in Patterns, NEW special, GoesOver(p, special), rows # {}
  PROVE  Running * Size(p) > budget
  <1>1. ASSUME NEW T \in SUBSET raw[Quad[p]], JoinOver(p, T, special)
        PROVE  Running * Size(p) > budget
    <2>1. PICK n, s, b : n = Running * Cardinality(Right(p, T, special)) /\ s = Running * Size(p) /\ b = budget
      OBVIOUS
    <2>2. n \in Nat /\ s \in Nat /\ n <= s
      BY <2>1, JoinSize
    <2>3. n > b /\ b \in Nat
      BY <1>1, <2>1 DEF JoinOver, TypeOK, BlockOK
    <2>4. s > b
      BY <2>2, <2>3
    <2> QED
      BY <2>1, <2>4
  <1> QED
    BY <1>1, ReadsItsQuads, ScanOver DEF GoesOver

(* _fits is right: a pattern that fits does not go over.                   *)
LEMMA FitsStays ==
  ASSUME TypeOK, EstOK, outcome = "joining", rows # {}, NEW p \in Patterns, NEW special,
         Connected(p), Fits(p)
  PROVE  ~GoesOver(p, special)
  <1> SUFFICES ASSUME GoesOver(p, special) PROVE FALSE
    OBVIOUS
  <1>1. Running * Size(p) > budget
    BY OverIsOver
  <1>2. BlockOK /\ Running \in Nat /\ budget \in Nat /\ fanout \in Nat /\ Size(p) \in Nat
    BY RelationFinite, QuadsFinite DEF TypeOK, BlockOK
  <1>3. est[p] # Uncounted /\ StepCount(p) = est[p] /\ est[p] \in Nat
    BY DEF Fits, StepCount, TypeOK
  <1>4. CASE p \notin capped /\ Running * est[p] <= budget
    <2>1. est[p] = Size(p)
      BY <1>3, <1>4 DEF EstOK
    <2>2. PICK n, b : n = Running * Size(p) /\ b = budget
      OBVIOUS
    <2>3. n <= b /\ n > b
      BY <1>1, <1>4, <2>1, <2>2
    <2>4. n \in Nat /\ b \in Nat
      BY <1>2, <2>2, JoinSize, ReadsItsQuads
    <2> QED
      BY <2>3, <2>4
  <1>5. CASE /\ Running * fanout >= est[p]
             /\ PairsOn(p, {t \in raw[Quad[p]] : Kept(p, t)}) <= budget
    <2>1. ~PerRow(p)
      <3>1. PICK n, e : n = Running * fanout /\ e = est[p]
        OBVIOUS
      <3>2. n >= e
        BY <1>5, <3>1
      <3>3. n \in Nat /\ e \in Nat
        <4>1. PICK r, s : r = Running /\ s = fanout
          OBVIOUS
        <4>2. r \in Nat /\ s \in Nat
          BY <1>2, <4>1
        <4>3. r * s \in Nat
          BY <4>2
        <4> QED
          BY <1>3, <3>1, <4>1, <4>3
      <3>4. ~(n < e)
        BY <3>2, <3>3
      <3> QED
        BY <1>3, <3>1, <3>4 DEF PerRow
    <2>2. JoinOver(p, Match(p), special)
      BY <2>1 DEF GoesOver, KeepScans
    <2>3. PICK n, k, b : n = Pairs(p, Right(p, Match(p), special)) /\ k = PairsOn(p, Match(p)) /\ b = budget
      OBVIOUS
    <2>4. n > b /\ k <= b
      BY <1>5, <2>2, <2>3 DEF JoinOver, Match
    <2>5. n \in Nat /\ k \in Nat /\ n <= k /\ b \in Nat
      BY <1>2, <2>3, ReadsItsQuads, KeyPairs
    <2> QED
      BY <2>4, <2>5
  <1> QED
    BY <1>4, <1>5 DEF Fits

(* No relation a step builds is larger than the budget.                    *)
LEMMA ProbesWithin ==
  ASSUME TypeOK, NEW p \in Patterns, NEW special, ~TallyPassed(p)
  PROVE  Cardinality(StepRelation(p, special)) \in Nat /\ Cardinality(StepRelation(p, special)) <= budget
  <1>1. schema \cup VarsOf(p) \in SUBSET Vars /\ budget \in Nat
    BY Variables DEF TypeOK, BlockOK
  <1>2. IsFiniteSet(Probed(p))
    <2>1. IsFiniteSet(Solutions(schema \cup VarsOf(p)))
      BY <1>1, FiniteSolutions
    <2>2. Probed(p) \subseteq Solutions(schema \cup VarsOf(p))
      BY DEF Probed
    <2> QED
      BY <2>1, <2>2, FS_Subset
  <1>3. StepRelation(p, special) \subseteq Probed(p)
    BY DEF StepRelation, Probed
  <1>4. PICK X, Y : X = StepRelation(p, special) /\ Y = Probed(p)
    OBVIOUS
  <1>5. Cardinality(X) \in Nat /\ Cardinality(Y) \in Nat /\ Cardinality(X) <= Cardinality(Y)
    <2>1. IsFiniteSet(Y) /\ X \in SUBSET Y
      BY <1>2, <1>3, <1>4
    <2> QED
      BY <2>1, Smaller
  <1>6. ~(Cardinality(Y) > budget \div 4)
    BY <1>4 DEF TallyPassed
  <1>7. PICK b : b = budget
    OBVIOUS
  <1>8. b \in Nat /\ b \div 4 \in Nat /\ b \div 4 <= b
    <2>1. b \in Nat
      BY <1>1, <1>7
    <2> QED
      BY <2>1
  <1>9. Cardinality(X) <= b
    <2>1. ~(Cardinality(Y) > b \div 4)
      BY <1>6, <1>7
    <2>2. PICK x, y, d : x = Cardinality(X) /\ y = Cardinality(Y) /\ d = b \div 4
      OBVIOUS
    <2>3. x \in Nat /\ y \in Nat /\ d \in Nat /\ x <= y /\ ~(y > d) /\ d <= b
      BY <1>5, <1>8, <2>1, <2>2
    <2>4. x <= b
      BY <1>8, <2>3
    <2> QED
      BY <2>2, <2>4
  <1> QED
    BY <1>4, <1>5, <1>7, <1>9

(* A join that is not over is within the budget.                           *)
LEMMA JoinsWithin ==
  ASSUME TypeOK, NEW p \in Patterns, NEW T \in SUBSET raw[Quad[p]], NEW special, ~JoinOver(p, T, special)
  PROVE  Cardinality(Joined(p, T, special)) \in Nat /\ Cardinality(Joined(p, T, special)) <= budget
  <1>1. PICK j, n, m, b : /\ j = Cardinality(Joined(p, T, special)) /\ b = budget
                          /\ n = Running * Cardinality(Right(p, T, special))
                          /\ m = Pairs(p, Right(p, T, special))
    OBVIOUS
  <1>2. j \in Nat /\ n \in Nat /\ m \in Nat /\ j <= n /\ j <= m
    BY <1>1, JoinSize
  <1>3. b \in Nat /\ (~(n > b) \/ ~(m > b))
    BY <1>1 DEF JoinOver, TypeOK, BlockOK
  <1>4. j <= b
    BY <1>2, <1>3
  <1> QED
    BY <1>1, <1>2, <1>4

-----------------------------------------------------------------------------
(* The block does not change while it is planned.                          *)

(* The solutions of some patterns stay.                                    *)
LEMMA SolutionsStay ==
  ASSUME UNCHANGED block, NEW S
  PROVE  SolutionsOf(S)' = SolutionsOf(S)
  BY DEF SolutionsOf, block

(* The conjuncts a row passes stay.                                        *)
LEMMA ConjunctsStay ==
  ASSUME UNCHANGED block, NEW f, NEW C
  PROVE  Tuples' = Tuples /\ (FilterPasses(f, C)' <=> FilterPasses(f, C))
  BY DEF FilterPasses, Satisfies, Tuples, block

(* A conjunct's verdict stays.                                             *)
LEMMA ConjunctStays ==
  ASSUME UNCHANGED block, NEW f, NEW c
  PROVE  Satisfies(f, c)' <=> Satisfies(f, c)
  BY DEF Satisfies, block

(* The block's types and sizes stay.                                       *)
LEMMA BlockStays ==
  ASSUME UNCHANGED block, BlockOK
  PROVE  /\ BlockOK' /\ Tuples' = Tuples /\ budget' = budget /\ fanout' = fanout
         /\ \A p \in Patterns : Size(p)' = Size(p)
  <1>1. raw' = raw /\ keep' = keep /\ allowed' = allowed /\ holds' = holds /\ stream' = stream
    BY DEF block
  <1>2. budget' = budget /\ fanout' = fanout /\ batchMin' = batchMin
    BY DEF block
  <1>3. Tuples' = Tuples
    BY <1>1 DEF Tuples
  <1>4. \A p \in Patterns : Size(p)' = Size(p)
    BY <1>1 DEF Size
  <1> QED
    BY <1>1, <1>2, <1>3, <1>4 DEF BlockOK

(* RelationIsPrefix is about Prefix, before a step and after it.           *)
LEMMA PrefixNow ==
  ASSUME RelationIsPrefix, PlanOK, outcome = "joining"
  PROVE  /\ Patterns \ remaining \in SUBSET Patterns /\ schema = VarsIn(Patterns \ remaining)
         /\ Prefix(rows, Patterns \ remaining, applied)
  <1>1. schema = VarsIn(Patterns \ remaining)
    BY DEF PlanOK
  <1> QED
    BY <1>1, Zenon DEF RelationIsPrefix, Prefix

(* A prefix built is what RelationIsPrefix asks after the step.            *)
LEMMA PrefixNext ==
  ASSUME UNCHANGED block, NEW S, S = Patterns \ remaining', schema' = VarsIn(S), Prefix(rows', S, applied')
  PROVE  RelationIsPrefix'
  <1>1. SolutionsOf(Patterns \ remaining)' = SolutionsOf(S)
    <2>1. SolutionsOf(S)' = SolutionsOf(S)
      BY SolutionsStay
    <2> QED
      BY <2>1
  <1>2. rows' \subseteq SolutionsOf(S)
    BY DEF Prefix
  <1>3. ASSUME NEW f \in SolutionsOf(S), f \notin rows'
        PROVE  \E c \in Tuples' : TupleVars[c] \subseteq schema' /\ ~Satisfies(f, c)'
    <2>1. PICK c \in Tuples : TupleVars[c] \subseteq schema' /\ ~Satisfies(f, c)
      BY <1>3 DEF Prefix
    <2>2. c \in Tuples' /\ ~Satisfies(f, c)'
      BY <2>1, ConjunctStays, ConjunctsStay
    <2> QED
      BY <2>1, <2>2
  <1>4. ASSUME NEW f \in rows'
        PROVE  FilterPasses(f, applied)'
    <2>1. PICK C : C = applied'
      OBVIOUS
    <2>2. FilterPasses(f, C)
      BY <1>4, <2>1 DEF Prefix
    <2>3. FilterPasses(f, C)'
      BY <2>2, ConjunctsStay
    <2> QED
      BY <2>1, <2>3
  <1> QED
    BY <1>1, <1>2, <1>3, <1>4 DEF RelationIsPrefix

(* Pruning keeps all the rows or those no ready conjunct rejects.          *)
LEMMA Pruned ==
  ASSUME NEW R, NEW S, NEW waiting, NEW left, PruneEarly(R, S, waiting, left)
  PROVE  (rows' = R \/ rows' = Survivors(R, S, waiting)) /\ pending' \subseteq waiting /\ rows' \subseteq R
  BY DEF PruneEarly, Survivors

(* A pattern's count at its step is its own unless it stopped at the cap.  *)
LEMMA CountedAtStep ==
  ASSUME TypeOK, EstOK, outcome = "joining", NEW p \in Patterns, CountAtStep(p)
  PROVE  /\ est' \in [Patterns -> Nat \cup {Uncounted}]
         /\ capped' \subseteq Patterns /\ counted' \subseteq Quads
         /\ \A q \in Patterns : est'[q] # Uncounted /\ q \notin capped' => est'[q] = Size(q)
  <1>1. BlockOK /\ Size(p) \in Nat /\ est \in [Patterns -> Nat \cup {Uncounted}]
    BY QuadsFinite DEF TypeOK
  <1>2. CountCap \in Nat
    <2>1. PICK r, s : r = Running /\ s = fanout
      OBVIOUS
    <2>2. r \in Nat /\ s \in Nat
      BY <2>1, RelationFinite DEF TypeOK, BlockOK
    <2>3. r * s + 1 \in Nat
      BY <2>2
    <2> QED
      BY <2>1, <2>3 DEF CountCap
  <1>3. StepCount(p) \in Nat
    <2>1. est[p] \in Nat \cup {Uncounted}
      BY <1>1
    <2> QED
      BY <1>1, <1>2, <2>1 DEF StepCount
  <1>4. est' = [est EXCEPT ![p] = StepCount(p)] /\ est' \in [Patterns -> Nat \cup {Uncounted}]
    BY <1>1, <1>3 DEF CountAtStep
  <1>5. est'[p] = StepCount(p) /\ \A q \in Patterns : q # p => est'[q] = est[q]
    BY <1>1, <1>4
  <1>6. capped' \subseteq Patterns /\ capped \subseteq capped' /\ (p \notin capped' => ~StepCapped(p))
    BY DEF TypeOK, CountAtStep
  <1>7. counted' \subseteq Quads
    <2>1. Quad[p] \in Quads /\ counted \subseteq Quads
      BY DEF Quads, TypeOK
    <2> QED
      BY <2>1 DEF CountAtStep
  <1>8. ASSUME p \notin capped'
        PROVE  StepCount(p) = Size(p)
    <2>1. ~StepCapped(p)
      BY <1>6, <1>8
    <2>2. CASE est[p] # Uncounted
      BY <1>6, <1>8, <2>2 DEF EstOK, StepCount
    <2>3. CASE est[p] = Uncounted
      <3>1. ~(StepCount(p) >= CountCap)
        BY <2>1, <2>3 DEF StepCapped
      <3>2. StepCount(p) # CountCap
        BY <1>2, <3>1
      <3> QED
        BY <2>3, <3>2 DEF StepCount
    <2> QED
      BY <2>2, <2>3
  <1>9. ASSUME NEW q \in Patterns, est'[q] # Uncounted, q \notin capped'
        PROVE  est'[q] = Size(q)
    <2>1. CASE q = p
      BY <1>5, <1>8, <1>9, <2>1
    <2>2. CASE q # p
      BY <1>5, <1>6, <1>9, <2>2 DEF EstOK
    <2> QED
      BY <2>1, <2>2
  <1> QED
    BY <1>4, <1>6, <1>7, <1>9

-----------------------------------------------------------------------------
(* Each action keeps the invariant.                                        *)

(* The sizes of the sets of patterns that may wait.                        *)
LEMMA NoneTwice ==
  Cardinality({}) = 0 /\ \A p : Cardinality({p}) = 1
  BY FS_EmptySet, FS_Singleton

(* A step that joins p with what it may build.                             *)
LEMMA CompletesKeeps ==
  ASSUME IInv, outcome = "joining", NEW p \in remaining, NEW special \in Specialized(p),
         NEW R, R = StepRelation(p, special), Cardinality(R) \in Nat, Cardinality(R) <= budget,
         Completes(p, R, special), memo' \subseteq Quads \X (0..NPatterns)
  PROVE  IInv'
  <1> DEFINE S == Patterns \ remaining
             V == schema \cup VarsOf(p)
  <1>1. TypeOK /\ EstOK /\ PlanOK /\ RelationIsPrefix /\ BlockOK /\ p \in Patterns /\ remaining \subseteq Patterns
    BY DEF IInv, TypeOK
  <1>2. /\ CountAtStep(p) /\ schema' = V /\ remaining' = remaining \ {p} /\ putBack' = {}
        /\ steps' = steps + 1 /\ applied' = applied \cup special
        /\ PruneEarly(R, V, pending \ special, remaining \ {p})
        /\ UNCHANGED block /\ outcome' = outcome /\ planned' = planned
    BY DEF Completes
  <1>3. BlockOK' /\ Tuples' = Tuples /\ budget' = budget /\ \A q \in Patterns : Size(q)' = Size(q)
    BY <1>1, <1>2, BlockStays
  <1>4. (rows' = R \/ rows' = Survivors(R, V, pending \ special)) /\ pending' \subseteq pending \ special /\ rows' \subseteq R
    BY <1>2, Pruned
  <1>5. schema = VarsIn(S) /\ S \in SUBSET Patterns /\ Prefix(rows, S, applied) /\ \A c \in applied : TupleVars[c] \subseteq schema
    BY <1>1, PrefixNow DEF PlanOK
  <1>6. pending \subseteq Tuples /\ applied \subseteq Tuples /\ special \subseteq pending
    BY <1>1 DEF TypeOK, Specialized, Specializable
  <1>7. Prefix(R, S \cup {p}, applied \cup special)
    BY <1>1, <1>5, <1>6, StepKeepsPrefix
  <1>8. S \cup {p} = Patterns \ remaining' /\ V = VarsIn(S \cup {p}) /\ S \cup {p} \in SUBSET Patterns
    <2>1. S \cup {p} = Patterns \ remaining'
      BY <1>1, <1>2
    <2> QED
      BY <1>5, <2>1, OneMoreVars
  <1> HIDE DEF S
  <1>9. Prefix(rows', S \cup {p}, applied')
    <2>1. Prefix(Survivors(R, V, pending \ special), S \cup {p}, applied \cup special)
      <3>1. PICK T, U : T = S \cup {p} /\ U = V
        OBVIOUS
      <3>2. Prefix(R, T, applied \cup special) /\ T \in SUBSET Patterns /\ U = VarsIn(T) /\ pending \ special \in SUBSET Tuples
        BY <1>6, <1>7, <1>8, <3>1
      <3>3. Prefix(Survivors(R, VarsIn(T), pending \ special), T, applied \cup special)
        BY <3>2, PruningKeepsPrefix
      <3> QED
        BY <3>1, <3>2, <3>3
    <2>2. CASE rows' = R
      BY <1>2, <1>7, <2>2
    <2>3. CASE rows' = Survivors(R, V, pending \ special)
      BY <1>2, <2>1, <2>3
    <2> QED
      BY <1>4, <2>2, <2>3
  <1>10. RelationIsPrefix'
    <2>1. PICK T : T = S \cup {p}
      OBVIOUS
    <2>2. T = Patterns \ remaining' /\ schema' = VarsIn(T) /\ Prefix(rows', T, applied')
      BY <1>2, <1>8, <1>9, <2>1
    <2> QED
      BY <1>2, <2>2, PrefixNext
  <1>11. \A c \in special : TupleVars[c] \subseteq V
    BY DEF Specialized, Specializable
  <1>12. PlanOK'
    <2>1. schema' = VarsIn(Patterns \ remaining')
      BY <1>2, <1>8
    <2>2. \A c \in applied' : TupleVars[c] \subseteq schema'
      BY <1>2, <1>5, <1>11
    <2>3. outcome' = "joining"
      BY <1>2
    <2> QED
      BY <2>1, <2>2, <2>3 DEF PlanOK
  <1>13. /\ est' \in [Patterns -> Nat \cup {Uncounted}]
         /\ capped' \subseteq Patterns /\ counted' \subseteq Quads
         /\ \A q \in Patterns : est'[q] # Uncounted /\ q \notin capped' => est'[q] = Size(q)
    BY <1>1, <1>2, CountedAtStep
  <1>14. EstOK'
    BY <1>3, <1>13 DEF EstOK
  <1>15. R \subseteq Solutions(V) /\ V \in SUBSET Vars
    BY <1>1, Variables DEF StepRelation, TypeOK
  <1>16. TypeOK'
    <2>1. rows' \subseteq Solutions(schema') /\ schema' \subseteq Vars
      BY <1>2, <1>4, <1>15
    <2>2. remaining' \subseteq Patterns /\ putBack' \subseteq Patterns /\ steps' \in Nat
      BY <1>1, <1>2 DEF TypeOK
    <2>3. pending' \subseteq Tuples' /\ applied' \subseteq Tuples'
      BY <1>2, <1>3, <1>4, <1>6
    <2>4. planned' \in [Patterns -> Nat \cup {Uncounted}] /\ outcome' \in {"planning", "seeding", "joining"} \cup Ended
      BY <1>1, <1>2 DEF TypeOK
    <2> QED
      BY <1>3, <1>13, <2>1, <2>2, <2>3, <2>4 DEF TypeOK
  <1>17. BuiltWithinBudget'
    <2>1. IsFiniteSet(R)
      BY <1>15, FiniteSolutions, FS_Subset
    <2>2. PICK K : K = rows'
      OBVIOUS
    <2>3. Cardinality(K) \in Nat /\ Cardinality(K) <= Cardinality(R)
      BY <1>4, <2>1, <2>2, Smaller
    <2>4. Cardinality(K) <= budget
      <3>1. PICK k, r, b : k = Cardinality(K) /\ r = Cardinality(R) /\ b = budget
        OBVIOUS
      <3>2. k \in Nat /\ r \in Nat /\ b \in Nat /\ k <= r /\ r <= b
        BY <1>1, <2>3, <3>1 DEF BlockOK
      <3>3. k <= b
        BY <3>2
      <3> QED
        BY <3>1, <3>3
    <2>5. Cardinality(rows') <= budget'
      BY <1>3, <2>2, <2>4
    <2> QED
      BY <2>5 DEF BuiltWithinBudget
  <1>18. PutBackIsOver' /\ OnePutBack'
    BY <1>2, NoneTwice DEF PutBackIsOver, OnePutBack
  <1>19. AnswerDelivered'
    BY <1>2 DEF AnswerDelivered
  <1> QED
    BY <1>10, <1>12, <1>14, <1>16, <1>17, <1>18, <1>19 DEF IInv

(* A chosen pattern is a candidate, and fits when another waits.           *)
LEMMA ChosenIs ==
  ASSUME TypeOK, NEW p, Chosen(p)
  PROVE  /\ outcome = "joining" /\ rows # {} /\ p \in remaining /\ p \in Patterns
         /\ putBack # {} => p \notin putBack /\ Connected(p) /\ Fits(p)
  <1>1. remaining \subseteq Patterns /\ planned \in [Patterns -> Nat \cup {Uncounted}]
    BY DEF TypeOK
  <1>2. Candidates \subseteq remaining /\ (putBack # {} => \A q \in Candidates : q \notin putBack /\ Connected(q) /\ Fits(q))
    BY DEF Candidates
  <1>3. Candidates # {} /\ p = First(Candidates) /\ outcome = "joining" /\ rows # {}
    BY DEF Chosen
  <1>4. PICK C : C = Candidates
    OBVIOUS
  <1>5. C \in SUBSET Patterns /\ C # {}
    BY <1>1, <1>2, <1>3, <1>4
  <1>6. First(C) \in C
    BY <1>1, <1>5, FirstOfSome
  <1> QED
    BY <1>1, <1>2, <1>3, <1>4, <1>6

(* The relation before a step, as its strategies' lemmas take it.          *)
LEMMA RelationNow ==
  ASSUME IInv, outcome = "joining"
  PROVE  RowsKept /\ rows \subseteq Solutions(schema) /\ BlockOK /\ TypeOK
  <1>1. RelationIsPrefix /\ PlanOK /\ TypeOK /\ BlockOK
    BY DEF IInv, TypeOK
  <1>2. PICK S : S = Patterns \ remaining
    OBVIOUS
  <1>3. schema = VarsIn(S) /\ rows \subseteq SolutionsOf(S)
    BY <1>1, <1>2, PrefixNow DEF Prefix
  <1> QED
    BY <1>1, <1>3, PrefixIsKept

(* The strategies build the step's relation, within the budget.            *)
LEMMA JoinStepKeeps ==
  ASSUME IInv, ProbeStep \/ KeepScanStep \/ HashStep
  PROVE  IInv'
  <1>1. TypeOK
    BY DEF IInv
  <1>2. ASSUME NEW p \in remaining
        PROVE  Key(p) \in Quads \X (0..NPatterns)
    <2>1. p \in Patterns
      BY <1>1 DEF TypeOK
    <2>2. Quad[p] \in Quads /\ 0 \in 0..NPatterns /\ p \in 0..NPatterns
      BY <2>1, Variables DEF Quads, Patterns
    <2> QED
      BY <2>2 DEF Key
  <1>3. memo \subseteq Quads \X (0..NPatterns)
    BY <1>1 DEF TypeOK
  <1>4. CASE ProbeStep
    <2>1. PICK p, special :
            /\ p \in remaining /\ special \in Specialized(p)
            /\ Chosen(p) /\ Probes(p)
            /\ Completes(p, {f \in Probed(p) : Passes(f, p, special)}, special)
            /\ UNCHANGED memo
      BY <1>4, Zenon DEF ProbeStep
    <2>2. p \in Patterns /\ outcome = "joining"
      BY <1>1, <2>1, ChosenIs
    <2>3. PICK R : R = StepRelation(p, special)
      OBVIOUS
    <2>4. Completes(p, R, special)
      BY <2>1, <2>2, <2>3, ProbesBuild
    <2>5. Cardinality(R) \in Nat /\ Cardinality(R) <= budget
      BY <1>1, <2>1, <2>2, <2>3, ProbesWithin DEF Probes
    <2> QED
      BY <1>3, <2>1, <2>2, <2>3, <2>4, <2>5, CompletesKeeps
  <1>5. ASSUME NEW p \in remaining, NEW special \in Specialized(p), NEW T, T = Match(p) \/ T = KeepScan(p),
               Chosen(p), ~JoinOver(p, T, special), Completes(p, Joined(p, T, special), special),
               memo' \subseteq Quads \X (0..NPatterns)
        PROVE  IInv'
    <2>1. p \in Patterns /\ outcome = "joining"
      BY <1>1, <1>5, ChosenIs
    <2>2. KeepScan(p) \subseteq T /\ T \subseteq Match(p) /\ T \in SUBSET raw[Quad[p]]
      BY <1>5, ReadsItsQuads
    <2>3. PICK R : R = Joined(p, T, special)
      OBVIOUS
    <2>4. R = StepRelation(p, special)
      BY <2>1, <2>2, <2>3, RelationNow, JoinsBuild
    <2>5. Cardinality(R) \in Nat /\ Cardinality(R) <= budget
      BY <1>1, <1>5, <2>1, <2>2, <2>3, JoinsWithin
    <2> QED
      BY <1>5, <2>1, <2>3, <2>4, <2>5, CompletesKeeps
  <1>6. CASE KeepScanStep
    <2>1. PICK p, special :
            /\ p \in remaining /\ special \in Specialized(p)
            /\ Chosen(p) /\ ~JoinOver(p, KeepScan(p), special) /\ memo' = memo
            /\ Completes(p, Joined(p, KeepScan(p), special), special)
      BY <1>6 DEF KeepScanStep
    <2> QED
      BY <1>3, <1>5, <2>1
  <1>7. CASE HashStep
    <2>1. PICK p, special :
            /\ p \in remaining /\ special \in Specialized(p)
            /\ Chosen(p) /\ ~JoinOver(p, Match(p), special) /\ memo' = memo \cup {Key(p)}
            /\ Completes(p, Joined(p, Match(p), special), special)
      BY <1>7 DEF HashStep
    <2>2. memo' \subseteq Quads \X (0..NPatterns)
      BY <1>2, <1>3, <2>1
    <2> QED
      BY <1>5, <2>1, <2>2
  <1> QED
    BY <1>4, <1>6, <1>7

(* A relation of all the patterns holds the answer, once the conjuncts not *)
(* done are.                                                               *)
LEMMA PrefixAnswers ==
  ASSUME NEW R, NEW done \in SUBSET Tuples, Prefix(R, Patterns, done)
  PROVE  {f \in R : FilterPasses(f, Tuples \ done)} = {f \in SolutionsOf(Patterns) : FilterPasses(f, Tuples)}
  <1>1. ASSUME NEW f \in R
        PROVE  f \in SolutionsOf(Patterns) /\ (FilterPasses(f, Tuples \ done) <=> FilterPasses(f, Tuples))
    BY DEF Prefix, FilterPasses
  <1>2. ASSUME NEW f \in SolutionsOf(Patterns), FilterPasses(f, Tuples)
        PROVE  f \in R
    BY <1>2 DEF Prefix, FilterPasses
  <1> QED
    BY <1>1, <1>2

(* Rows that hold the answer are what AnswerDelivered asks after the step. *)
LEMMA AnswerNext ==
  ASSUME UNCHANGED block, outcome' \in {"rows", "pieces"},
         {f \in rows' : FilterPasses(f, Tuples \ applied')} = {f \in SolutionsOf(Patterns) : FilterPasses(f, Tuples)}
  PROVE  AnswerDelivered'
  <1>1. PICK A, C : A = applied' /\ C = Tuples \ A
    OBVIOUS
  <1>2. Tuples' = Tuples /\ SolutionsOf(Patterns)' = SolutionsOf(Patterns)
    BY ConjunctsStay, SolutionsStay
  <1>3. \A f : (FilterPasses(f, Tuples \ applied)' <=> FilterPasses(f, C)) /\ (FilterPasses(f, Tuples)' <=> FilterPasses(f, Tuples))
    <2>1. PICK T : T = Tuples
      OBVIOUS
    <2>2. ASSUME NEW f
          PROVE  (FilterPasses(f, C)' <=> FilterPasses(f, C)) /\ (FilterPasses(f, T)' <=> FilterPasses(f, T))
      BY ConjunctsStay
    <2>3. Tuples' \ applied' = C /\ Tuples' = T
      BY <1>1, <1>2, <2>1
    <2> QED
      BY <2>1, <2>2, <2>3
  <1>4. {f \in rows' : FilterPasses(f, C)} = {f \in SolutionsOf(Patterns) : FilterPasses(f, Tuples)}
    BY <1>1
  <1>5. {f \in rows : FilterPasses(f, Tuples \ applied)}' = {f \in SolutionsOf(Patterns) : FilterPasses(f, Tuples)}'
    BY <1>2, <1>3, <1>4
  <1> QED
    BY <1>5 DEF AnswerDelivered

(* A streamed step builds the same relation, all the patterns joined.      *)
LEMMA StreamKeeps ==
  ASSUME IInv, StreamStep
  PROVE  IInv'
  <1>1. TypeOK /\ EstOK /\ PlanOK /\ RelationIsPrefix /\ BlockOK
    BY DEF IInv, TypeOK
  <1>2. PICK p, special :
          /\ p \in remaining /\ special \in Specialized(p)
          /\ Chosen(p) /\ Streams(p, special) /\ CountAtStep(p)
          /\ rows' = Streamed(p, special) /\ schema' = schema \cup VarsOf(p) /\ remaining' = {} /\ putBack' = {}
          /\ steps' = steps + 1 /\ applied' = applied \cup special /\ pending' = pending \ special
          /\ outcome' = "pieces" /\ memo' = memo \cup {Key(p)} /\ UNCHANGED block /\ planned' = planned
    BY DEF StreamStep
  <1>3. p \in Patterns /\ outcome = "joining"
    BY <1>1, <1>2, ChosenIs
  <1>4. RowsKept /\ rows \subseteq Solutions(schema)
    BY <1>3, RelationNow
  <1>5. Streamed(p, special) = StepRelation(p, special)
    <2>1. CASE StreamsChunks(p, special)
      <3>1. Chunkable(p, special)
        BY <2>1 DEF StreamsChunks, StreamsUnread
      <3> QED
        BY <1>1, <1>3, <1>4, <2>1, <3>1, ChunksBuild DEF Streamed
    <2>2. CASE ~StreamsChunks(p, special)
      <3>1. Joined(p, Match(p), special) = StepRelation(p, special)
        BY <1>3, <1>4, ReadsItsQuads, JoinsBuild
      <3> QED
        BY <2>2, <3>1 DEF Streamed
    <2> QED
      BY <2>1, <2>2
  <1>6. remaining = {p}
    BY <1>2 DEF Streams, StreamsChunks, StreamsMatch, LastOfOne
  <1>7. PICK S : S = Patterns \ remaining
    OBVIOUS
  <1>8. schema = VarsIn(S) /\ S \in SUBSET Patterns /\ Prefix(rows, S, applied) /\ \A c \in applied : TupleVars[c] \subseteq schema
    BY <1>1, <1>3, <1>7, PrefixNow DEF PlanOK
  <1>9. pending \subseteq Tuples /\ applied \subseteq Tuples /\ special \subseteq pending
    BY <1>1, <1>2 DEF TypeOK, Specialized, Specializable
  <1>10. S \cup {p} = Patterns
    BY <1>3, <1>6, <1>7
  <1>11. Prefix(rows', Patterns, applied')
    <2>1. Prefix(StepRelation(p, special), S \cup {p}, applied \cup special)
      BY <1>2, <1>3, <1>8, <1>9, StepKeepsPrefix
    <2> QED
      BY <1>2, <1>5, <1>10, <2>1
  <1>12. BlockOK' /\ Tuples' = Tuples /\ budget' = budget /\ \A q \in Patterns : Size(q)' = Size(q)
    BY <1>1, <1>2, BlockStays
  <1>13. TypeOK'
    <2>1. schema' \subseteq Vars /\ rows' \subseteq Solutions(schema')
      BY <1>1, <1>2, <1>3, <1>5, Variables DEF StepRelation, TypeOK
    <2>2. pending' \subseteq Tuples' /\ applied' \subseteq Tuples'
      BY <1>2, <1>9, <1>12
    <2>3. est' \in [Patterns -> Nat \cup {Uncounted}] /\ capped' \subseteq Patterns /\ counted' \subseteq Quads
      BY <1>1, <1>2, <1>3, CountedAtStep
    <2>4. Key(p) \in Quads \X (0..NPatterns)
      <3>1. Quad[p] \in Quads /\ 0 \in 0..NPatterns /\ p \in 0..NPatterns
        BY <1>3, Variables DEF Quads, Patterns
      <3> QED
        BY <3>1 DEF Key
    <2>5. /\ remaining' \subseteq Patterns /\ putBack' \subseteq Patterns /\ steps' \in Nat
          /\ memo' \subseteq Quads \X (0..NPatterns)
      BY <1>1, <1>2, <2>4 DEF TypeOK
    <2>6. planned' \in [Patterns -> Nat \cup {Uncounted}] /\ outcome' \in {"planning", "seeding", "joining"} \cup Ended
      BY <1>1, <1>2 DEF TypeOK, Ended
    <2> QED
      BY <1>12, <2>1, <2>2, <2>3, <2>5, <2>6 DEF TypeOK
  <1>14. AnswerDelivered'
    <2>1. PICK R, done : R = rows' /\ done = applied'
      OBVIOUS
    <2>2. done \in SUBSET Tuples /\ Prefix(R, Patterns, done)
      BY <1>2, <1>9, <1>11, <2>1
    <2>3. {f \in R : FilterPasses(f, Tuples \ done)} = {f \in SolutionsOf(Patterns) : FilterPasses(f, Tuples)}
      BY <2>2, PrefixAnswers
    <2> QED
      BY <1>2, <2>1, <2>3, AnswerNext
  <1>15. EstOK' /\ PlanOK' /\ RelationIsPrefix' /\ BuiltWithinBudget'
    BY <1>2 DEF EstOK, PlanOK, RelationIsPrefix, BuiltWithinBudget
  <1>16. PutBackIsOver' /\ OnePutBack'
    BY <1>2, NoneTwice DEF PutBackIsOver, OnePutBack
  <1> QED
    BY <1>13, <1>14, <1>15, <1>16 DEF IInv

(* A step over the budget puts its pattern back, the first to wait.        *)
LEMMA PutBackIsFirst ==
  ASSUME IInv, NEW p \in remaining, NEW special, Chosen(p), GoesOver(p, special)
  PROVE  putBack = {} /\ p \in Patterns /\ outcome = "joining" /\ rows # {}
  <1>1. TypeOK /\ EstOK
    BY DEF IInv
  <1>2. p \in Patterns /\ outcome = "joining" /\ rows # {}
    BY <1>1, ChosenIs
  <1>3. putBack # {} => Connected(p) /\ Fits(p)
    BY <1>1, ChosenIs
  <1> QED
    BY <1>1, <1>2, <1>3, FitsStays

(* Putting a pattern back changes its count and no row.                    *)
LEMMA PutBackKeeps ==
  ASSUME IInv, PutBack
  PROVE  IInv'
  <1>1. TypeOK /\ EstOK /\ PlanOK /\ RelationIsPrefix /\ BlockOK /\ BuiltWithinBudget
    BY DEF IInv, TypeOK
  <1>2. PICK p, special :
          /\ p \in remaining /\ special \in Specialized(p)
          /\ Chosen(p) /\ GoesOver(p, special) /\ CountAtStep(p) /\ putBack' = putBack \cup {p}
          /\ memo' = IF PerRow(p) THEN memo ELSE memo \cup {Key(p)}
          /\ UNCHANGED block /\ outcome' = outcome /\ planned' = planned /\ remaining' = remaining
          /\ schema' = schema /\ rows' = rows /\ steps' = steps /\ pending' = pending /\ applied' = applied
    BY DEF PutBack
  <1>3. putBack = {} /\ p \in Patterns /\ outcome = "joining" /\ rows # {}
    BY <1>2, PutBackIsFirst
  <1>4. putBack' = {p}
    BY <1>2, <1>3
  <1>5. BlockOK' /\ Tuples' = Tuples /\ budget' = budget /\ \A q \in Patterns : Size(q)' = Size(q)
    BY <1>1, <1>2, BlockStays
  <1>6. /\ est' \in [Patterns -> Nat \cup {Uncounted}] /\ capped' \subseteq Patterns /\ counted' \subseteq Quads
        /\ \A q \in Patterns : est'[q] # Uncounted /\ q \notin capped' => est'[q] = Size(q)
    BY <1>1, <1>2, <1>3, CountedAtStep
  <1>7. memo' \subseteq Quads \X (0..NPatterns)
    <2>1. Quad[p] \in Quads /\ 0 \in 0..NPatterns /\ p \in 0..NPatterns
      BY <1>3, Variables DEF Quads, Patterns
    <2>2. Key(p) \in Quads \X (0..NPatterns) /\ memo \subseteq Quads \X (0..NPatterns)
      BY <1>1, <2>1 DEF Key, TypeOK
    <2> QED
      BY <1>2, <2>2
  <1>8. TypeOK'
    <2>1. /\ outcome' \in {"planning", "seeding", "joining"} \cup Ended
          /\ planned' \in [Patterns -> Nat \cup {Uncounted}]
          /\ remaining' \subseteq Patterns /\ putBack' \subseteq Patterns
          /\ schema' \subseteq Vars /\ rows' \subseteq Solutions(schema') /\ steps' \in Nat
      BY <1>1, <1>2, <1>3, <1>4 DEF TypeOK
    <2>2. pending' \subseteq Tuples' /\ applied' \subseteq Tuples'
      BY <1>1, <1>2, <1>5 DEF TypeOK
    <2> QED
      BY <1>5, <1>6, <1>7, <2>1, <2>2 DEF TypeOK
  <1>9. EstOK'
    BY <1>5, <1>6 DEF EstOK
  <1>10. PlanOK'
    BY <1>1, <1>2, <1>3 DEF PlanOK
  <1>11. RelationIsPrefix'
    <2>1. PICK S : S = Patterns \ remaining
      OBVIOUS
    <2>2. schema = VarsIn(S) /\ Prefix(rows, S, applied)
      BY <1>1, <1>3, <2>1, PrefixNow
    <2> QED
      BY <1>2, <2>1, <2>2, PrefixNext
  <1>12. PutBackIsOver' /\ OnePutBack'
    <2>1. Running * Size(p) > budget
      BY <1>1, <1>2, <1>3, OverIsOver
    <2>2. Running' = Running /\ Size(p)' = Size(p) /\ budget' = budget
      BY <1>2, <1>3, <1>5 DEF Running
    <2>3. (Running * Size(p) > budget)'
      BY <2>1, <2>2
    <2>4. PutBackIsOver'
      BY <1>4, <2>3 DEF PutBackIsOver
    <2>5. OnePutBack'
      <3>1. Cardinality(putBack') = 1
        BY <1>4, NoneTwice, Zenon
      <3>2. Cardinality(putBack') <= 1
        BY <3>1
      <3> QED
        BY <3>2 DEF OnePutBack
    <2> QED
      BY <2>4, <2>5
  <1>13. BuiltWithinBudget'
    BY <1>1, <1>2, <1>5 DEF BuiltWithinBudget
  <1>14. AnswerDelivered'
    BY <1>2, <1>3 DEF AnswerDelivered
  <1> QED
    BY <1>8, <1>9, <1>10, <1>11, <1>12, <1>13, <1>14 DEF IInv

(* Counting leaves a plan over all the patterns, or no answer.             *)
LEMMA CountingKeeps ==
  ASSUME IInv, CountPatterns
  PROVE  IInv'
  <1>1. TypeOK /\ PlanOK /\ BlockOK /\ BuiltWithinBudget
    BY DEF IInv, TypeOK
  <1>2. /\ outcome = "planning" /\ UNCHANGED block
        /\ capped' = capped /\ memo' = memo /\ putBack' = putBack /\ schema' = schema /\ rows' = rows
        /\ steps' = steps /\ pending' = pending /\ applied' = applied
    BY DEF CountPatterns
  <1>3. /\ est' \in [Patterns -> Nat \cup {Uncounted}] /\ planned' = est'
        /\ counted' \subseteq Quads /\ remaining' \subseteq Patterns
        /\ outcome' \in {"empty", "seeding"}
        /\ outcome' = "empty" => SolutionsOf(Patterns) = {}
        /\ outcome' = "seeding" =>
             remaining' = Patterns /\ \A p \in Patterns : est'[p] # Uncounted => est'[p] = Size(p)
    BY <1>1, CountingDecides
  <1>4. BlockOK' /\ Tuples' = Tuples /\ budget' = budget /\ \A q \in Patterns : Size(q)' = Size(q)
    BY <1>1, <1>2, BlockStays
  <1>5. putBack' = {} /\ applied' = {}
    BY <1>1, <1>2 DEF PlanOK
  <1>6. TypeOK'
    <2>1. /\ capped' \subseteq Patterns /\ putBack' \subseteq Patterns /\ memo' \subseteq Quads \X (0..NPatterns)
          /\ schema' \subseteq Vars /\ rows' \subseteq Solutions(schema') /\ steps' \in Nat
      BY <1>1, <1>2 DEF TypeOK
    <2>2. pending' \subseteq Tuples' /\ applied' \subseteq Tuples'
      BY <1>1, <1>2, <1>4 DEF TypeOK
    <2>3. outcome' \in {"planning", "seeding", "joining"} \cup Ended
      BY <1>3 DEF Ended
    <2> QED
      BY <1>3, <1>4, <2>1, <2>2, <2>3 DEF TypeOK
  <1>7. EstOK'
    BY <1>3, <1>4 DEF EstOK
  <1>8. PlanOK' /\ RelationIsPrefix'
    BY <1>3, <1>5 DEF PlanOK, RelationIsPrefix
  <1>9. AnswerDelivered'
    <2>1. SolutionsOf(Patterns)' = SolutionsOf(Patterns)
      BY <1>2, SolutionsStay
    <2> QED
      BY <1>3, <2>1 DEF AnswerDelivered
  <1>10. BuiltWithinBudget'
    BY <1>1, <1>2, <1>4 DEF BuiltWithinBudget
  <1>11. PutBackIsOver' /\ OnePutBack'
    BY <1>5, NoneTwice DEF PutBackIsOver, OnePutBack
  <1> QED
    BY <1>6, <1>7, <1>8, <1>9, <1>10, <1>11 DEF IInv

(* The seed is one pattern's solutions, less those a conjunct rejects.     *)
LEMMA SeedKeeps ==
  ASSUME IInv, Seed
  PROVE  IInv'
  <1>1. TypeOK /\ EstOK /\ PlanOK /\ BlockOK
    BY DEF IInv, TypeOK
  <1>2. PICK p : p = First(remaining)
    OBVIOUS
  <1>3. /\ outcome = "seeding" /\ outcome' = "joining" /\ UNCHANGED block
        /\ est' = est /\ capped' = capped /\ counted' = counted /\ planned' = planned
        /\ putBack' = putBack /\ applied' = applied
        /\ memo' = memo \cup {Key(p)} /\ schema' = VarsOf(p) /\ remaining' = remaining \ {p} /\ steps' = 1
        /\ PruneEarly(SeedRows(p), VarsOf(p), pending, remaining \ {p})
    BY <1>2 DEF Seed
  <1>4. remaining = Patterns /\ putBack = {} /\ applied = {}
    BY <1>1, <1>3 DEF PlanOK
  <1>5. p \in Patterns
    <2>1. 1 \in Patterns
      BY Variables DEF Patterns
    <2>2. planned \in [Patterns -> Nat \cup {Uncounted}]
      BY <1>1 DEF TypeOK
    <2>3. First(Patterns) \in Patterns
      BY <2>1, <2>2, FirstOfSome
    <2> QED
      BY <1>2, <1>4, <2>3
  <1>6. /\ rows' = SeedRows(p) \/ rows' = Survivors(SeedRows(p), VarsOf(p), pending)
        /\ pending' \subseteq pending /\ rows' \subseteq SeedRows(p)
    BY <1>3, Pruned
  <1>7. Prefix(SeedRows(p), {p}, {}) /\ VarsIn({p}) = VarsOf(p)
    BY <1>5, SeedIsPrefix
  <1>8. pending \subseteq Tuples
    BY <1>1 DEF TypeOK
  <1>9. Prefix(rows', {p}, {})
    <2>1. Prefix(Survivors(SeedRows(p), VarsOf(p), pending), {p}, {})
      <3>1. PICK S, V, R : S = {p} /\ V = VarsOf(p) /\ R = SeedRows(p)
        OBVIOUS
      <3>2. S \in SUBSET Patterns /\ V = VarsIn(S) /\ Prefix(R, S, {}) /\ pending \in SUBSET Tuples
        BY <1>5, <1>7, <1>8, <3>1
      <3>3. Prefix(Survivors(R, VarsIn(S), pending), S, {})
        BY <3>2, PruningKeepsPrefix
      <3> QED
        BY <3>1, <3>2, <3>3
    <2>2. CASE rows' = SeedRows(p)
      BY <1>7, <2>2
    <2>3. CASE rows' = Survivors(SeedRows(p), VarsOf(p), pending)
      BY <2>1, <2>3
    <2> QED
      BY <1>6, <2>2, <2>3
  <1>10. {p} = Patterns \ remaining'
    BY <1>3, <1>4, <1>5
  <1>11. RelationIsPrefix'
    <2>1. PICK S : S = {p}
      OBVIOUS
    <2>2. S = Patterns \ remaining' /\ schema' = VarsIn(S) /\ Prefix(rows', S, applied')
      BY <1>3, <1>4, <1>7, <1>9, <1>10, <2>1
    <2> QED
      BY <1>3, <2>2, PrefixNext
  <1>12. BlockOK' /\ Tuples' = Tuples /\ \A q \in Patterns : Size(q)' = Size(q)
    BY <1>1, <1>3, BlockStays
  <1>13. TypeOK'
    <2>1. SeedRows(p) \subseteq Solutions(VarsOf(p))
      BY DEF SeedRows
    <2>2. schema' \subseteq Vars /\ rows' \subseteq Solutions(schema')
      BY <1>3, <1>5, <1>6, <2>1, Variables
    <2>3. memo' \subseteq Quads \X (0..NPatterns)
      <3>1. Quad[p] \in Quads /\ 0 \in 0..NPatterns /\ p \in 0..NPatterns
        BY <1>5, Variables DEF Quads, Patterns
      <3>2. Key(p) \in Quads \X (0..NPatterns) /\ memo \subseteq Quads \X (0..NPatterns)
        BY <1>1, <3>1 DEF Key, TypeOK
      <3> QED
        BY <1>3, <3>2
    <2>4. /\ est' \in [Patterns -> Nat \cup {Uncounted}] /\ planned' \in [Patterns -> Nat \cup {Uncounted}]
          /\ capped' \subseteq Patterns /\ remaining' \subseteq Patterns /\ putBack' \subseteq Patterns
          /\ counted' \subseteq Quads /\ steps' \in Nat /\ outcome' \in {"planning", "seeding", "joining"} \cup Ended
      BY <1>1, <1>3 DEF TypeOK
    <2>5. pending' \subseteq Tuples' /\ applied' \subseteq Tuples'
      BY <1>3, <1>4, <1>6, <1>8, <1>12
    <2> QED
      BY <1>12, <2>2, <2>3, <2>4, <2>5 DEF TypeOK
  <1>14. EstOK'
    BY <1>1, <1>3, <1>12 DEF EstOK
  <1>15. PlanOK'
    BY <1>3, <1>4, <1>7, <1>10 DEF PlanOK
  <1>16. AnswerDelivered' /\ BuiltWithinBudget'
    BY <1>3 DEF AnswerDelivered, BuiltWithinBudget
  <1>17. PutBackIsOver' /\ OnePutBack'
    BY <1>3, <1>4, NoneTwice DEF PutBackIsOver, OnePutBack
  <1> QED
    BY <1>11, <1>13, <1>14, <1>15, <1>16, <1>17 DEF IInv

(* A solution of all the patterns restricts to one of some.                *)
LEMMA SolutionsRestrict ==
  ASSUME NEW S \in SUBSET Patterns, NEW f \in SolutionsOf(Patterns)
  PROVE  /\ f \in Solutions(Vars) /\ VarsIn(S) \subseteq Vars
         /\ Restrict(f, VarsIn(S)) \in SolutionsOf(S)
  <1>1. f \in Solutions(Vars) /\ VarsIn(S) \subseteq Vars
    BY DEF SolutionsOf, Vars, VarsIn
  <1>2. (\A p \in Patterns : At(f, p) \in raw[Quad[p]]) /\ \A v \in Vars : f[v] \in keep[v] \cap allowed[v]
    BY <1>1 DEF SolutionsOf, Solutions
  <1> DEFINE g == Restrict(f, VarsIn(S))
  <1>3. g \in Solutions(VarsIn(S)) /\ \A v \in VarsIn(S) : g[v] = f[v]
    <2>1. VarsIn(S) \in SUBSET Vars
      BY <1>1
    <2> QED
      BY <1>1, <2>1, Restricted
  <1>4. ASSUME NEW q \in S
        PROVE  At(g, q) = At(f, q)
    <2>1. VarsOf(q) \subseteq VarsIn(S)
      BY DEF VarsIn
    <2> QED
      BY <1>1, <2>1, ReadRestricted
  <1> HIDE DEF g
  <1>5. g \in SolutionsOf(S)
    <2>1. g \in Solutions(UNION {VarsOf(q) : q \in S}) /\ DOMAIN g = VarsIn(S)
      BY <1>3 DEF VarsIn, Solutions
    <2>2. (\A q \in S : At(g, q) \in raw[Quad[q]]) /\ \A v \in DOMAIN g : g[v] \in keep[v] \cap allowed[v]
      BY <1>1, <1>2, <1>3, <1>4, <2>1
    <2> QED
      BY <2>1, <2>2 DEF SolutionsOf
  <1> QED
    BY <1>1, <1>5 DEF g

(* A plan that ends with its rows has joined all the patterns, or found no *)
(* row to join.                                                            *)
LEMMA FinishKeeps ==
  ASSUME IInv, Finish
  PROVE  IInv'
  <1>1. TypeOK /\ PlanOK /\ RelationIsPrefix /\ BlockOK /\ BuiltWithinBudget /\ PutBackIsOver /\ OnePutBack
    BY DEF IInv, TypeOK
  <1>2. /\ outcome = "joining" /\ (remaining = {} \/ rows = {}) /\ outcome' = "rows" /\ schema' = Vars
        /\ UNCHANGED block /\ est' = est /\ capped' = capped /\ counted' = counted /\ planned' = planned
        /\ memo' = memo /\ remaining' = remaining /\ putBack' = putBack
        /\ rows' = rows /\ steps' = steps /\ pending' = pending /\ applied' = applied
    BY DEF Finish
  <1>3. BlockOK' /\ Tuples' = Tuples /\ budget' = budget /\ \A q \in Patterns : Size(q)' = Size(q)
    BY <1>1, <1>2, BlockStays
  <1>4. PICK S : S = Patterns \ remaining
    OBVIOUS
  <1>5. S \in SUBSET Patterns /\ schema = VarsIn(S) /\ Prefix(rows, S, applied)
    BY <1>1, <1>2, <1>4, PrefixNow
  <1>6. applied \in SUBSET Tuples /\ pending \subseteq Tuples
    BY <1>1 DEF TypeOK
  <1>7. remaining = {} => schema = Vars
    BY <1>4, <1>5 DEF VarsIn, Vars
  <1>8. TypeOK'
    <2>1. /\ est' \in [Patterns -> Nat \cup {Uncounted}] /\ planned' \in [Patterns -> Nat \cup {Uncounted}]
          /\ capped' \subseteq Patterns /\ remaining' \subseteq Patterns /\ putBack' \subseteq Patterns
          /\ counted' \subseteq Quads /\ memo' \subseteq Quads \X (0..NPatterns) /\ steps' \in Nat
      BY <1>1, <1>2 DEF TypeOK
    <2>2. rows' \subseteq Solutions(schema') /\ schema' \subseteq Vars
      BY <1>1, <1>2, <1>7 DEF TypeOK
    <2>3. pending' \subseteq Tuples' /\ applied' \subseteq Tuples'
      BY <1>2, <1>3, <1>6
    <2>4. outcome' \in {"planning", "seeding", "joining"} \cup Ended
      BY <1>2 DEF Ended
    <2> QED
      BY <1>3, <2>1, <2>2, <2>3, <2>4 DEF TypeOK
  <1>9. {f \in rows : FilterPasses(f, Tuples \ applied)} = {f \in SolutionsOf(Patterns) : FilterPasses(f, Tuples)}
    <2>1. CASE remaining = {}
      <3>1. Prefix(rows, Patterns, applied)
        BY <1>4, <1>5, <2>1
      <3> QED
        BY <1>6, <3>1, PrefixAnswers
    <2>2. CASE rows = {}
      <3>1. ASSUME NEW f \in SolutionsOf(Patterns)
            PROVE  ~FilterPasses(f, Tuples)
        <4>1. f \in Solutions(Vars) /\ schema \in SUBSET Vars /\ Restrict(f, schema) \in SolutionsOf(S)
          BY <1>5, SolutionsRestrict
        <4>2. PICK c \in Tuples : TupleVars[c] \subseteq schema /\ ~Satisfies(Restrict(f, schema), c)
          BY <1>5, <2>2, <4>1 DEF Prefix
        <4>3. ~Satisfies(f, c)
          BY <4>1, <4>2, SatisfiesRestricted
        <4> QED
          BY <4>2, <4>3 DEF FilterPasses
      <3> QED
        BY <2>2, <3>1
    <2> QED
      BY <1>2, <2>1, <2>2
  <1>10. AnswerDelivered'
    BY <1>2, <1>9, AnswerNext
  <1>11. EstOK' /\ PlanOK' /\ RelationIsPrefix'
    BY <1>2 DEF EstOK, PlanOK, RelationIsPrefix
  <1>12. BuiltWithinBudget'
    BY <1>1, <1>2, <1>3 DEF BuiltWithinBudget
  <1>13. PutBackIsOver'
    <2>1. ASSUME NEW p \in putBack
          PROVE  (Running * Size(p) > budget)'
      <3>1. Running' = Running /\ Size(p)' = Size(p)
        BY <1>1, <1>2, <1>3 DEF Running, TypeOK
      <3> QED
        BY <1>1, <1>3, <3>1 DEF PutBackIsOver
    <2> QED
      BY <1>2, <2>1 DEF PutBackIsOver
  <1>14. OnePutBack'
    BY <1>1, <1>2 DEF OnePutBack
  <1> QED
    BY <1>8, <1>10, <1>11, <1>12, <1>13, <1>14 DEF IInv

(* What is left to rdflib completes the relation to the answer, when       *)
(* nothing is pushed.                                                      *)
LEMMA RestCompletes ==
  ASSUME TypeOK, ~Pushed, NEW S, S = Patterns \ remaining, schema = VarsIn(S), Prefix(rows, S, applied)
  PROVE  {f \in Solutions(Vars) :
            /\ Restrict(f, schema) \in rows
            /\ \A p \in remaining : At(f, p) \in raw[Quad[p]]} = SolutionsOf(Patterns)
  <1>1. Tuples = {} /\ \A v \in Vars : keep[v] = Codes /\ allowed[v] = Codes
    BY DEF Pushed
  <1>2. rows = SolutionsOf(S)
    BY <1>1 DEF Prefix
  <1>3. S \in SUBSET Patterns /\ S \cup remaining = Patterns
    BY DEF TypeOK
  <1>4. ASSUME NEW f \in SolutionsOf(Patterns)
        PROVE  /\ f \in Solutions(Vars) /\ Restrict(f, schema) \in rows
               /\ \A p \in remaining : At(f, p) \in raw[Quad[p]]
    <2>1. f \in Solutions(Vars) /\ Restrict(f, VarsIn(S)) \in SolutionsOf(S)
      BY <1>3, SolutionsRestrict
    <2>2. \A p \in Patterns : At(f, p) \in raw[Quad[p]]
      BY DEF SolutionsOf
    <2> QED
      BY <1>2, <1>3, <2>1, <2>2
  <1>5. ASSUME NEW f \in Solutions(Vars), Restrict(f, schema) \in rows,
               \A p \in remaining : At(f, p) \in raw[Quad[p]]
        PROVE  f \in SolutionsOf(Patterns)
    <2>1. VarsIn(S) \in SUBSET Vars
      BY <1>3 DEF VarsIn, Vars
    <2>2. ASSUME NEW q \in S
          PROVE  At(f, q) \in raw[Quad[q]]
      <3>1. VarsOf(q) \subseteq VarsIn(S) /\ q \in Patterns
        BY <1>3, <2>2 DEF VarsIn
      <3>2. At(Restrict(f, VarsIn(S)), q) = At(f, q)
        BY <2>1, <3>1, ReadRestricted
      <3>3. At(Restrict(f, VarsIn(S)), q) \in raw[Quad[q]]
        BY <1>2, <1>5 DEF SolutionsOf
      <3> QED
        BY <3>2, <3>3
    <2>3. \A q \in Patterns : At(f, q) \in raw[Quad[q]]
      BY <1>3, <1>5, <2>2
    <2>4. DOMAIN f = Vars /\ \A v \in Vars : f[v] \in Codes
      BY DEF Solutions
    <2>5. \A v \in DOMAIN f : f[v] \in keep[v] \cap allowed[v]
      BY <1>1, <2>4
    <2>6. f \in Solutions(UNION {VarsOf(p) : p \in Patterns})
      BY DEF Vars
    <2> QED
      BY <2>3, <2>5, <2>6 DEF SolutionsOf
  <1> QED
    BY <1>4, <1>5

(* A plan with no pattern left that fits hands over what it has.           *)
LEMMA NoneFitsKeeps ==
  ASSUME IInv, NoneFits
  PROVE  IInv'
  <1>1. TypeOK /\ PlanOK /\ RelationIsPrefix /\ BlockOK /\ BuiltWithinBudget /\ PutBackIsOver /\ OnePutBack
    BY DEF IInv, TypeOK
  <1>2. /\ outcome = "joining" /\ outcome' = IF stream /\ ~Pushed THEN "rest" ELSE "handed back"
        /\ UNCHANGED block /\ est' = est /\ capped' = capped /\ counted' = counted /\ planned' = planned
        /\ memo' = memo /\ remaining' = remaining /\ putBack' = putBack /\ schema' = schema
        /\ rows' = rows /\ steps' = steps /\ pending' = pending /\ applied' = applied
    BY DEF NoneFits
  <1>3. BlockOK' /\ Tuples' = Tuples /\ budget' = budget /\ \A q \in Patterns : Size(q)' = Size(q)
    BY <1>1, <1>2, BlockStays
  <1>4. outcome' \in {"rest", "handed back"} /\ (outcome' = "rest" => ~Pushed)
    BY <1>2
  <1>5. TypeOK'
    <2>1. outcome' \in {"planning", "seeding", "joining"} \cup Ended
      BY <1>4 DEF Ended
    <2> QED
      BY <1>1, <1>2, <1>3, <2>1 DEF TypeOK
  <1>6. AnswerDelivered'
    <2>1. ASSUME outcome' = "rest"
          PROVE  {f \in Solutions(Vars) :
                    /\ Restrict(f, schema') \in rows'
                    /\ \A p \in remaining' : At(f, p) \in raw'[Quad[p]]} = SolutionsOf(Patterns)'
      <3>1. PICK S : S = Patterns \ remaining
        OBVIOUS
      <3>2. schema = VarsIn(S) /\ Prefix(rows, S, applied)
        BY <1>1, <1>2, <3>1, PrefixNow
      <3>3. {f \in Solutions(Vars) :
               /\ Restrict(f, schema) \in rows
               /\ \A p \in remaining : At(f, p) \in raw[Quad[p]]} = SolutionsOf(Patterns)
        BY <1>1, <1>4, <2>1, <3>1, <3>2, RestCompletes
      <3>4. SolutionsOf(Patterns)' = SolutionsOf(Patterns) /\ raw' = raw
        BY <1>2, SolutionsStay DEF block
      <3> QED
        BY <1>2, <3>3, <3>4
    <2> QED
      BY <1>4, <2>1 DEF AnswerDelivered
  <1>7. EstOK' /\ PlanOK' /\ RelationIsPrefix'
    BY <1>4 DEF EstOK, PlanOK, RelationIsPrefix
  <1>8. BuiltWithinBudget'
    BY <1>1, <1>2, <1>3 DEF BuiltWithinBudget
  <1>9. PutBackIsOver'
    <2>1. ASSUME NEW p \in putBack
          PROVE  (Running * Size(p) > budget)'
      <3>1. Running' = Running /\ Size(p)' = Size(p)
        BY <1>1, <1>2, <1>3 DEF Running, TypeOK
      <3> QED
        BY <1>1, <1>3, <3>1 DEF PutBackIsOver
    <2> QED
      BY <1>2, <2>1 DEF PutBackIsOver
  <1>10. OnePutBack'
    BY <1>1, <1>2 DEF OnePutBack
  <1> QED
    BY <1>5, <1>6, <1>7, <1>8, <1>9, <1>10 DEF IInv

-----------------------------------------------------------------------------
(* The invariant, and what it says.                                        *)

(* A block starts with the invariant.                                      *)
LEMMA InitOK == Init => IInv
  <1> SUFFICES ASSUME Init PROVE IInv
    OBVIOUS
  <1>1. \A p \in Patterns : raw[Quad[p]] \subseteq [DOMAIN VarAt[p] -> Codes]
    <2>1. ASSUME NEW p \in Patterns
          PROVE  raw[Quad[p]] \subseteq [DOMAIN VarAt[p] -> Codes]
      <3>1. Quad[p] \in Quads
        BY DEF Quads
      <3>2. raw[Quad[p]] \subseteq QuadsOf(Quad[p])
        BY <3>1 DEF Init
      <3>3. PICK q \in Patterns : Quad[q] = Quad[p] /\ QuadsOf(Quad[p]) = [DOMAIN VarAt[q] -> Codes]
        BY DEF QuadsOf
      <3>4. DOMAIN VarAt[q] = DOMAIN VarAt[p]
        <4>1. Len(VarAt[q]) = Len(VarAt[p])
          BY <3>3, PatternsAssumption
        <4> QED
          BY <4>1, Variables
      <3> QED
        BY <3>2, <3>3, <3>4
    <2> QED
      BY <2>1
  <1>2. BlockOK
    <2>1. keep \in [Vars -> SUBSET Codes] /\ allowed \in [Vars -> SUBSET Codes]
          /\ budget \in Nat /\ fanout \in Nat \ {0} /\ batchMin \in Nat /\ stream \in BOOLEAN
      BY PatternsAssumption DEF Init
    <2>2. Tuples \subseteq DOMAIN TupleVars
      BY PatternsAssumption DEF Init, Tuples
    <2> QED
      BY <1>1, <2>1, <2>2 DEF BlockOK
  <1>3. rows \subseteq Solutions(schema)
    <2>1. <<>> \in [{} -> Codes]
      OBVIOUS
    <2> QED
      BY <2>1 DEF Init, Solutions
  <1>4. TypeOK
    <2>1. est \in [Patterns -> Nat \cup {Uncounted}] /\ planned \in [Patterns -> Nat \cup {Uncounted}]
      BY DEF Init
    <2> QED
      BY <1>2, <1>3, <2>1 DEF TypeOK, Init
  <1>5. EstOK /\ PlanOK /\ RelationIsPrefix /\ AnswerDelivered /\ BuiltWithinBudget
    BY DEF EstOK, PlanOK, RelationIsPrefix, AnswerDelivered, BuiltWithinBudget, Init
  <1>6. PutBackIsOver /\ OnePutBack
    BY NoneTwice DEF PutBackIsOver, OnePutBack, Init
  <1> QED
    BY <1>4, <1>5, <1>6 DEF IInv

(* Every step keeps it.                                                    *)
LEMMA NextOK == IInv /\ [Next]_vars => IInv'
  <1> SUFFICES ASSUME IInv, [Next]_vars PROVE IInv'
    OBVIOUS
  <1>1. CASE CountPatterns
    BY <1>1, CountingKeeps
  <1>2. CASE Seed
    BY <1>2, SeedKeeps
  <1>3. CASE ProbeStep \/ KeepScanStep \/ HashStep
    BY <1>3, JoinStepKeeps
  <1>4. CASE StreamStep
    BY <1>4, StreamKeeps
  <1>5. CASE PutBack
    BY <1>5, PutBackKeeps
  <1>6. CASE NoneFits
    BY <1>6, NoneFitsKeeps
  <1>7. CASE Finish
    BY <1>7, FinishKeeps
  <1>8. CASE UNCHANGED vars
    <2>1. /\ raw' = raw /\ keep' = keep /\ allowed' = allowed /\ holds' = holds /\ stream' = stream
          /\ budget' = budget /\ fanout' = fanout /\ batchMin' = batchMin
          /\ outcome' = outcome /\ est' = est /\ capped' = capped /\ counted' = counted /\ planned' = planned
          /\ memo' = memo /\ remaining' = remaining /\ putBack' = putBack /\ schema' = schema
          /\ rows' = rows /\ steps' = steps /\ pending' = pending /\ applied' = applied
      BY <1>8 DEF vars, block
    <2>2. Tuples' = Tuples /\ BlockOK' /\ TypeOK' /\ EstOK' /\ PlanOK'
      BY <2>1 DEF IInv, TypeOK, BlockOK, EstOK, PlanOK, Size, Tuples
    <2>3. UNCHANGED block /\ SolutionsOf(Patterns)' = SolutionsOf(Patterns)
      BY <1>8, SolutionsStay DEF vars
    <2>4. RelationIsPrefix'
      <3>1. CASE outcome = "joining"
        <4>1. PICK S : S = Patterns \ remaining
          OBVIOUS
        <4>2. schema = VarsIn(S) /\ Prefix(rows, S, applied)
          BY <3>1, <4>1, PrefixNow DEF IInv
        <4> QED
          BY <2>1, <2>3, <4>1, <4>2, PrefixNext
      <3>2. CASE outcome # "joining"
        BY <2>1, <3>2 DEF RelationIsPrefix
      <3> QED
        BY <3>1, <3>2
    <2>5. AnswerDelivered'
      <3>1. AnswerDelivered
        BY DEF IInv
      <3> QED
        BY <2>1, <3>1 DEF AnswerDelivered, SolutionsOf, FilterPasses, Satisfies, Tuples
    <2>6. BuiltWithinBudget' /\ PutBackIsOver' /\ OnePutBack'
      BY <2>1 DEF IInv, BuiltWithinBudget, PutBackIsOver, OnePutBack, Running, Size
    <2> QED
      BY <2>2, <2>4, <2>5, <2>6 DEF IInv
  <1> QED
    BY <1>1, <1>2, <1>3, <1>4, <1>5, <1>6, <1>7, <1>8 DEF Next, Terminated

(* So it holds throughout.                                                 *)
LEMMA AlwaysIInv == Spec => []IInv
  BY InitOK, NextOK, PTL DEF Spec

(* Every variable keeps its type: the relation binds exactly the schema,   *)
(* whatever the plan.                                                      *)
THEOREM TypesHold == Spec => []TypeOK
  BY AlwaysIInv, PTL DEF IInv

(* At every step the relation is the solutions of the patterns joined so   *)
(* far, short only of rows a tuple conjunct rejects                        *)
(* (_join_incremental_bgp).                                                *)
THEOREM StepsKeepThePrefix == Spec => []RelationIsPrefix
  BY AlwaysIInv, PTL DEF IInv

(* Whatever order, strategy and tier a plan takes, the rows it delivers    *)
(* are the block's answer, once filtered by the conjuncts it did not apply.*)
THEOREM PlansDeliverTheAnswer == Spec => []AnswerDelivered
  BY AlwaysIInv, PTL DEF IInv

(* No step builds more rows than the budget.                               *)
THEOREM StepsStayWithinBudget == Spec => []BuiltWithinBudget
  BY AlwaysIInv, PTL DEF IInv

(* A pattern is put back only when the relation times its quads passes the *)
(* budget.                                                                 *)
THEOREM OnlyOverIsPutBack == Spec => []PutBackIsOver
  BY AlwaysIInv, PTL DEF IInv

(* _fits is right: at most one pattern waits put back.                     *)
THEOREM OneWaits == Spec => []OnePutBack
  BY AlwaysIInv, PTL DEF IInv

(* What a step that joins one of some patterns leaves.                     *)
LEMMA OneFewer ==
  ASSUME TypeOK, NEW p \in remaining, remaining' = remaining \ {p}
  PROVE  remaining' \subseteq remaining /\ Cardinality(remaining') + 1 = Cardinality(remaining)
  <1>1. PICK S : S = remaining
    OBVIOUS
  <1>2. IsFiniteSet(S)
    BY <1>1, Variables, FS_Subset DEF TypeOK
  <1>3. IsFiniteSet(S \ {p}) /\ Cardinality(S \ {p}) = Cardinality(S) - 1
    BY <1>1, <1>2, FS_RemoveElement
  <1>4. Cardinality(S) \in Nat
    BY <1>2, FS_CardinalityType
  <1>5. Cardinality(S \ {p}) + 1 = Cardinality(S)
    <2>1. PICK m, n : m = Cardinality(S) /\ n = Cardinality(S \ {p})
      OBVIOUS
    <2>2. m \in Nat /\ n = m - 1
      BY <1>3, <1>4, <2>1
    <2>3. n + 1 = m
      BY <2>2
    <2> QED
      BY <2>1, <2>3
  <1> QED
    BY <1>1, <1>5

(* Every step of a plan ends it, starts the next phase, joins one pattern  *)
(* or puts one more back, and a pattern joined never returns.              *)
THEOREM PlansMoveOn == Spec => PlanAdvances
  <1> DEFINE Advance ==
        \/ outcome' # outcome /\ outcome \notin Ended
        \/ remaining' \subseteq remaining /\ Cardinality(remaining') + 1 = Cardinality(remaining)
        \/ remaining' = remaining /\ putBack \subseteq putBack' /\ putBack # putBack'
  <1>1. IInv /\ [Next]_vars => [Advance]_vars
    <2> SUFFICES ASSUME IInv, Next, ~UNCHANGED vars PROVE Advance
      OBVIOUS
    <2>1. TypeOK
      BY DEF IInv
    <2>2. CASE CountPatterns
      <3>1. outcome = "planning" /\ outcome' \in {"empty", "seeding"}
        BY <2>1, <2>2, CountingDecides DEF CountPatterns, TypeOK
      <3> QED
        BY <3>1 DEF Ended
    <2>3. CASE Seed \/ StreamStep \/ NoneFits \/ Finish
      <3>1. Seed => outcome = "seeding" /\ outcome' = "joining"
        BY DEF Seed
      <3>2. StreamStep => outcome = "joining" /\ outcome' = "pieces"
        BY DEF StreamStep, Chosen
      <3>3. NoneFits => outcome = "joining" /\ outcome' \in {"rest", "handed back"}
        BY DEF NoneFits
      <3>4. Finish => outcome = "joining" /\ outcome' = "rows"
        BY DEF Finish
      <3> QED
        BY <2>3, <3>1, <3>2, <3>3, <3>4 DEF Ended
    <2>4. CASE ProbeStep \/ KeepScanStep \/ HashStep
      <3>1. PICK p \in remaining : remaining' = remaining \ {p}
        BY <2>4 DEF ProbeStep, KeepScanStep, HashStep, Completes
      <3> QED
        BY <2>1, <3>1, OneFewer
    <2>5. CASE PutBack
      <3>1. PICK p, special : /\ p \in remaining /\ Chosen(p) /\ GoesOver(p, special)
                              /\ remaining' = remaining /\ putBack' = putBack \cup {p}
        BY <2>5 DEF PutBack
      <3>2. putBack = {}
        BY <3>1, PutBackIsFirst
      <3> QED
        BY <3>1, <3>2
    <2> QED
      BY <2>2, <2>3, <2>4, <2>5 DEF Next, Terminated
  <1>2. Spec => [][Advance]_vars
    BY <1>1, AlwaysIInv, PTL DEF Spec
  <1> QED
    BY <1>2 DEF PlanAdvances
=============================================================================
