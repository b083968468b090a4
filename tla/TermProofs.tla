----------------------------- MODULE TermProofs -----------------------------
(***************************************************************************)
(* What the engine says of terms it does not build or compare as rdflib    *)
(* does: which codes are one term, what COUNT, GROUP BY, DISTINCT and      *)
(* ORDER BY answer over codes, and how a filter compares two values.       *)
(***************************************************************************)
EXTENDS CodeHeads, TermValues, WellFoundedInduction, SequenceTheorems, FiniteSetTheorems, TLAPS

-----------------------------------------------------------------------------
(* Numbers and steps.                                                      *)

(* A set with 0 and the successor of each of its naturals holds them all.  *)
LEMMA SetInduction ==
  ASSUME NEW S, 0 \in S, \A n \in Nat : n \in S => n + 1 \in S
  PROVE  Nat \subseteq S
  <1> DEFINE R == OpToRel(<, Nat)
             T == Nat \ S
  <1> SUFFICES ASSUME T # {} PROVE FALSE
    OBVIOUS
  <1>1. PICK x \in T : \A y \in T : ~(<<y, x>> \in R)
    <2>1. IsWellFoundedOn(R, Nat)
      BY NatLessThanWellFounded
    <2>2. T \subseteq Nat
      OBVIOUS
    <2> HIDE DEF R, T
    <2> QED
      BY <2>1, <2>2, WFMin
  <1>2. x \in Nat /\ x # 0 /\ x - 1 \in Nat /\ x - 1 + 1 = x
    OBVIOUS
  <1>3. x - 1 \in S
    <2>1. x - 1 \in T => <<x - 1, x>> \in R
      BY <1>2 DEF OpToRel
    <2> QED
      BY <1>1, <1>2, <2>1
  <1> QED
    BY <1>2, <1>3

(* A value made step by step, one function after another, exists.          *)
MadeBy(g, V, start, N, step) ==
  g \in [0..N -> V] /\ g[0] = start /\ \A i \in 1..N : g[i] = step[i][g[i - 1]]

LEMMA StepByStep ==
  ASSUME NEW V, NEW start \in V, NEW N \in Nat, NEW step \in [1..N -> [V -> V]]
  PROVE  \E g : MadeBy(g, V, start, N, step)
  <1> DEFINE Made(g, n) == g[0] = start /\ \A i \in 1..n : g[i] = step[i][g[i - 1]]
             Exist(n) == \E g \in [0..n -> V] : Made(g, n)
             S == {n \in Nat : n <= N => Exist(n)}
  <1>1. Exist(0)
    <2>1. [i \in 0..0 |-> start] \in [0..0 -> V] /\ Made([i \in 0..0 |-> start], 0)
      OBVIOUS
    <2> QED
      BY <2>1
  <1>2. ASSUME NEW n \in Nat, n + 1 <= N, Exist(n)
        PROVE  Exist(n + 1)
    <2>1. PICK g \in [0..n -> V] : Made(g, n)
      BY <1>2
    <2>2. step[n + 1][g[n]] \in V
      <3>1. g[n] \in V /\ step[n + 1] \in [V -> V]
        BY <1>2
      <3> QED
        BY <3>1
    <2> DEFINE h == [i \in 0..n + 1 |-> IF i = n + 1 THEN step[n + 1][g[n]] ELSE g[i]]
    <2>3. h \in [0..n + 1 -> V]
      BY <2>2
    <2>4. \A i \in 0..n : h[i] = g[i]
      OBVIOUS
    <2>5. h[n + 1] = step[n + 1][g[n]]
      OBVIOUS
    <2> HIDE DEF h
    <2>6. h[0] = start
      BY <2>1, <2>4
    <2>7. ASSUME NEW i \in 1..n + 1
          PROVE  h[i] = step[i][h[i - 1]]
      <3>1. CASE i = n + 1
        <4>1. i - 1 = n /\ n \in 0..n
          BY <3>1
        <4> QED
          BY <2>4, <2>5, <3>1, <4>1
      <3>2. CASE i # n + 1
        <4>1. i \in 1..n /\ i \in 0..n /\ i - 1 \in 0..n
          BY <3>2
        <4> QED
          BY <2>1, <2>4, <4>1
      <3> QED
        BY <3>1, <3>2
    <2> QED
      BY <2>3, <2>6, <2>7
  <1> HIDE DEF Exist
  <1>3. 0 \in S /\ \A n \in Nat : n \in S => n + 1 \in S
    BY <1>1, <1>2
  <1>4. N \in S
    BY <1>3, SetInduction
  <1>5. Exist(N)
    BY <1>4
  <1> QED
    BY <1>5, Zenon DEF Exist, MadeBy

(* Two functions that tell the same elements apart have as many values.    *)
LEMMA SameSize ==
  ASSUME NEW I, IsFiniteSet(I), NEW f, NEW g,
         \A i, j \in I : f[i] = f[j] <=> g[i] = g[j]
  PROVE  /\ Cardinality({f[i] : i \in I}) = Cardinality({g[i] : i \in I})
         /\ IsFiniteSet({f[i] : i \in I})
  <1> DEFINE S == {f[i] : i \in I}
             T == {g[i] : i \in I}
             h == [x \in S |-> g[CHOOSE i \in I : f[i] = x]]
             e == [i \in I |-> f[i]]
  <1>1. \A i \in I : h[f[i]] = g[i]
    OBVIOUS
  <1>2. h \in [S -> T]
    OBVIOUS
  <1>3. \A x, y \in S : h[x] = h[y] => x = y
    BY <1>1
  <1>4. \A t \in T : \E x \in S : h[x] = t
    <2> HIDE DEF h
    <2> SUFFICES ASSUME NEW i \in I
                 PROVE  \E x \in S : h[x] = g[i]
      OBVIOUS
    <2>1. f[i] \in S
      OBVIOUS
    <2> QED
      BY <1>1, <2>1
  <1>5. e \in Surjection(I, S)
    BY DEF Surjection
  <1> HIDE DEF h, e, S, T
  <1>6. IsFiniteSet(S)
    BY <1>5, FS_Surjection
  <1>7. h \in Bijection(S, T)
    BY <1>2, <1>3, <1>4 DEF Bijection, Injection, Surjection, IsInjective
  <1>8. Cardinality(T) = Cardinality(S)
    BY <1>6, <1>7, FS_Bijection DEF ExistsBijection
  <1> QED
    BY <1>6, <1>8 DEF S, T

(* A disjoint union is as large as its parts together.                     *)
LEMMA TotalCounts ==
  ASSUME NEW I, IsFiniteSet(I), NEW K, NEW part \in [K -> SUBSET I], NEW n,
         \A k \in K : n[k] = Cardinality(part[k]),
         \A k, l \in K : k # l => part[k] \cap part[l] = {}
  PROVE  Total(n, K) = Cardinality(UNION {part[k] : k \in K})
  <1> DEFINE U == UNION {part[k] : k \in K}
             P == UNION {{k} \X (1 .. n[k]) : k \in K}
             b == [k \in K |-> CHOOSE m : m \in Bijection(1 .. n[k], part[k])]
             h == [p \in P |-> b[p[1]][p[2]]]
  <1>1. IsFiniteSet(U)
    <2>1. U \in SUBSET I
      OBVIOUS
    <2> QED
      BY <2>1, FS_Subset
  <1>2. ASSUME NEW k \in K
        PROVE  b[k] \in Bijection(1 .. n[k], part[k])
    <2>1. IsFiniteSet(part[k])
      BY FS_Subset
    <2>2. \E m : m \in Bijection(1 .. n[k], part[k])
      BY <2>1, FS_CardinalityType DEF ExistsBijection
    <2> QED
      BY <2>2
  <1> HIDE DEF b
  <1>3. ASSUME NEW k \in K
        PROVE  /\ b[k] \in [1 .. n[k] -> part[k]]
               /\ \A x, y \in 1 .. n[k] : b[k][x] = b[k][y] => x = y
               /\ \A t \in part[k] : \E x \in 1 .. n[k] : b[k][x] = t
    <2> DEFINE m == b[k]
               N == 1 .. n[k]
               V == part[k]
    <2>1. m \in Bijection(N, V)
      BY <1>2
    <2> HIDE DEF m, N, V
    <2>2. /\ m \in [N -> V]
          /\ \A x, y \in N : m[x] = m[y] => x = y
          /\ \A t \in V : \E x \in N : m[x] = t
      BY <2>1 DEF Bijection, Injection, Surjection, IsInjective
    <2> QED
      BY <2>2 DEF m, N, V
  <1>4. \A p \in P : \E k \in K : \E x \in 1 .. n[k] : p = <<k, x>>
    OBVIOUS
  <1>5. \A k \in K : \A x \in 1 .. n[k] : <<k, x>> \in P /\ h[<<k, x>>] = b[k][x]
    OBVIOUS
  <1>6. \A k \in K : \A x \in 1 .. n[k] : b[k][x] \in part[k] /\ h[<<k, x>>] \in U
    <2> SUFFICES ASSUME NEW k \in K, NEW x \in 1 .. n[k]
                 PROVE  b[k][x] \in part[k] /\ h[<<k, x>>] \in U
      OBVIOUS
    <2>1. b[k] \in [1 .. n[k] -> part[k]]
      BY <1>3
    <2>2. b[k][x] \in part[k]
      BY <2>1
    <2> QED
      BY <1>5, <2>2
  <1>7. h \in [P -> U]
    <2>1. \A p \in P : h[p] \in U
      BY <1>4, <1>6
    <2>2. h = [p \in P |-> h[p]]
      OBVIOUS
    <2> HIDE DEF h, P, U
    <2> QED
      BY <2>1, <2>2
  <1> HIDE DEF h, P
  <1>8. ASSUME NEW p \in P, NEW q \in P, h[p] = h[q]
        PROVE  p = q
    <2>1. PICK k \in K : \E x \in 1 .. n[k] : p = <<k, x>>
      BY <1>4
    <2>2. PICK x \in 1 .. n[k] : p = <<k, x>>
      BY <2>1
    <2>3. PICK l \in K : \E y \in 1 .. n[l] : q = <<l, y>>
      BY <1>4
    <2>4. PICK y \in 1 .. n[l] : q = <<l, y>>
      BY <2>3
    <2>5. h[p] = b[k][x] /\ h[p] \in part[k] /\ h[q] = b[l][y] /\ h[q] \in part[l]
      BY <1>5, <1>6, <2>2, <2>4
    <2>6. k = l
      BY <1>8, <2>5
    <2> QED
      BY <1>3, <1>8, <2>2, <2>4, <2>5, <2>6
  <1>9. \A t \in U : \E p \in P : h[p] = t
    <2> SUFFICES ASSUME NEW k \in K, NEW t \in part[k]
                 PROVE  \E p \in P : h[p] = t
      OBVIOUS
    <2>1. PICK x \in 1 .. n[k] : b[k][x] = t
      BY <1>3
    <2> QED
      BY <1>5, <2>1
  <1> HIDE DEF U
  <1>10. h \in Injection(P, U) /\ h \in Surjection(P, U)
    BY <1>7, <1>8, <1>9 DEF Injection, Surjection, IsInjective
  <1>11. Cardinality(P) = Cardinality(U)
    BY <1>1, <1>10, FS_Injection
  <1> QED
    BY <1>11, Zenon DEF Total, P, U

-----------------------------------------------------------------------------
(* The aliases a query's calls build, for any codes, any dictionary and    *)
(* any sequence of calls.                                                  *)

(* The dictionary, and what the caches say of it.                          *)
FileOK ==
  /\ term \in [Literals -> Terms]
  /\ rewritable \in SUBSET Literals
  /\ lookup \in [Terms -> Literals \cup {None}]
  /\ DictionaryOK

CachesOK ==
  /\ classified \in SUBSET Codes
  /\ DOMAIN firsts \subseteq Terms
  /\ DOMAIN reps \subseteq classified \cap rewritable

(* What represents a term decodes to it.                                   *)
FirstsDecode == \A t \in DOMAIN firsts : firsts[t] \in Literals /\ term[firsts[t]] = t

(* A spelling rdflib keeps represents its term.                            *)
FirstsCanonical ==
  \A c \in Literals \ rewritable : term[c] \in DOMAIN firsts => firsts[term[c]] = c

(* Every code built is represented as its term is.                         *)
RepsKnown ==
  \A c \in classified \cap rewritable : term[c] \in DOMAIN firsts /\ RepOf(c) = firsts[term[c]]

AliasInv == FileOK /\ CachesOK /\ FirstsDecode /\ FirstsCanonical /\ RepsKnown

(* Over gives f's values and then g's.                                     *)
LEMMA OverValues ==
  ASSUME NEW f, NEW g
  PROVE  /\ DOMAIN Over(f, g) = DOMAIN f \cup DOMAIN g
         /\ \A x \in DOMAIN f : Over(f, g)[x] = f[x]
         /\ \A x \in DOMAIN g \ DOMAIN f : Over(f, g)[x] = g[x]
BY DEF Over

(* Names and literals are told apart by their codes.                       *)
LEMMA CodesApart ==
  ASSUME NEW c \in Codes
  PROVE  /\ c \in Int
         /\ c \notin Terms
         /\ c \in Literals <=> c \notin Names
BY AliasAssumption DEF Codes

(* A representative of a term new in S decodes to it.                      *)
LEMMA RepresentativeDecodes ==
  ASSUME FileOK, NEW S, NEW t, NEW c \in Representatives(S, t), t \in NewTerms(S)
  PROVE  c \in Literals /\ term[c] = t /\ t \in Terms
<1>1. t \in Terms
  BY DEF NewTerms, Typed, FileOK
<1>2. ASSUME c \in CodesOf(S, t)
      PROVE  c \in Literals /\ term[c] = t
  BY <1>2 DEF CodesOf, Typed, FileOK
<1>3. CASE Twin(t) # None /\ c = Twin(t)
  <2>1. lookup[t] # None /\ term[lookup[t]] = t /\ c = lookup[t]
    BY <1>3 DEF Twin
  <2> QED BY <2>1, <1>1 DEF FileOK
<1> QED BY <1>1, <1>2, <1>3 DEF Representatives

(* A term with a spelling rdflib keeps is represented by that spelling.    *)
LEMMA RepresentativeCanonical ==
  ASSUME FileOK, NEW S, NEW c \in Literals \ rewritable, term[c] \in NewTerms(S),
         NEW d \in Representatives(S, term[c])
  PROVE  d = c
<1> DEFINE t == term[c]
<1>1. ~Foreign(c) /\ lookup[t] = c /\ t \in Terms
  BY DEF FileOK, DictionaryOK
<1>2. c # None
  BY AliasAssumption DEF Codes
<1>3. Twin(t) = c
  BY <1>1, <1>2 DEF Twin
<1>4. PICK e \in Typed(S) : term[e] = t
  BY DEF NewTerms
<1>5. e \in Literals
  BY <1>4 DEF Typed, FileOK
<1>6. ~Foreign(e)
  BY <1>1, <1>2, <1>4, <1>5 DEF FileOK, DictionaryOK
<1>7. e \in {f \in CodesOf(S, t) : ~Foreign(f)}
  BY <1>4, <1>6 DEF CodesOf
<1> QED BY <1>2, <1>3, <1>7 DEF Representatives

(* The caches start empty.                                                 *)
LEMMA AliasInitOK == Init => AliasInv
<1> SUFFICES ASSUME Init PROVE AliasInv
  OBVIOUS
<1> USE DEF Init, AliasInit
<1>1. FileOK
  BY DEF FileOK
<1>2. DOMAIN firsts = {} /\ DOMAIN reps = {} /\ classified = {}
  OBVIOUS
<1> QED BY <1>1, <1>2 DEF AliasInv, CachesOK, FirstsDecode, FirstsCanonical, RepsKnown

(* A call that classifies any codes keeps the invariant.                   *)
LEMMA ClassifyKeeps ==
  ASSUME AliasInv, NEW S, Classify(S), UNCHANGED file
  PROVE  AliasInv'
<1> USE DEF file
<1> PICK chosen \in [NewTerms(S) -> UNION {Representatives(S, t) : t \in NewTerms(S)}] :
      /\ \A t \in NewTerms(S) : chosen[t] \in Representatives(S, t)
      /\ firsts' = Over(firsts, chosen)
      /\ reps' = Over([c \in {d \in Typed(S) : firsts'[term[d]] # d} |-> firsts'[term[c]]], reps)
      /\ classified' = classified \cup Pending(S)
  BY DEF Classify
<1> DEFINE fresh == [c \in {d \in Typed(S) : firsts'[term[d]] # d} |-> firsts'[term[c]]]
<1>1. FileOK /\ FileOK'
  BY DEF AliasInv, FileOK, DictionaryOK
<1>2. /\ DOMAIN firsts' = DOMAIN firsts \cup NewTerms(S)
      /\ \A t \in DOMAIN firsts : firsts'[t] = firsts[t]
      /\ \A t \in NewTerms(S) \ DOMAIN firsts : firsts'[t] = chosen[t]
  <2>1. DOMAIN chosen = NewTerms(S) /\ firsts' = Over(firsts, chosen)
    OBVIOUS
  <2>2. /\ DOMAIN Over(firsts, chosen) = DOMAIN firsts \cup DOMAIN chosen
        /\ \A x \in DOMAIN firsts : Over(firsts, chosen)[x] = firsts[x]
        /\ \A x \in DOMAIN chosen \ DOMAIN firsts : Over(firsts, chosen)[x] = chosen[x]
    BY OverValues
  <2> QED BY <2>1, <2>2
<1>3. NewTerms(S) \cap DOMAIN firsts = {} /\ NewTerms(S) \subseteq Terms
  BY <1>1 DEF NewTerms, Typed, FileOK
<1>4. /\ DOMAIN reps' = DOMAIN fresh \cup DOMAIN reps
      /\ \A c \in DOMAIN fresh : reps'[c] = fresh[c]
      /\ \A c \in DOMAIN reps \ DOMAIN fresh : reps'[c] = reps[c]
  <2>1. reps' = Over(fresh, reps)
    OBVIOUS
  <2> HIDE DEF fresh
  <2>2. /\ DOMAIN Over(fresh, reps) = DOMAIN fresh \cup DOMAIN reps
        /\ \A x \in DOMAIN fresh : Over(fresh, reps)[x] = fresh[x]
        /\ \A x \in DOMAIN reps \ DOMAIN fresh : Over(fresh, reps)[x] = reps[x]
    BY OverValues
  <2> QED BY <2>1, <2>2
<1>5. DOMAIN fresh = {d \in Typed(S) : firsts'[term[d]] # d}
  OBVIOUS
<1>6. Typed(S) \subseteq Pending(S) \cap rewritable /\ Pending(S) \subseteq Codes
      /\ Pending(S) \cap classified = {}
  BY DEF Typed, Pending
<1>7. CachesOK'
  <2>1. CachesOK
    BY DEF AliasInv
  <2>2. classified' \in SUBSET Codes
    BY <2>1, <1>6 DEF CachesOK
  <2>3. DOMAIN firsts' \subseteq Terms
    BY <2>1, <1>2, <1>3 DEF CachesOK
  <2>4. DOMAIN reps' \subseteq classified' \cap rewritable'
    <3> HIDE DEF fresh
    <3> QED BY <2>1, <1>4, <1>5, <1>6 DEF CachesOK
  <2> QED BY <2>2, <2>3, <2>4 DEF CachesOK
<1>8. FirstsDecode'
  <2> SUFFICES ASSUME NEW t \in DOMAIN firsts'
               PROVE  firsts'[t] \in Literals /\ term[firsts'[t]] = t
    BY DEF FirstsDecode
  <2>1. CASE t \in DOMAIN firsts
    BY <2>1, <1>2 DEF AliasInv, FirstsDecode
  <2>2. CASE t \in NewTerms(S)
    <3>1. firsts'[t] \in Representatives(S, t)
      BY <2>2, <1>2, <1>3
    <3> QED BY <3>1, <2>2, <1>1, RepresentativeDecodes
  <2> QED BY <2>1, <2>2, <1>2
<1>9. FirstsCanonical'
  <2> SUFFICES ASSUME NEW c \in Literals \ rewritable, term[c] \in DOMAIN firsts'
               PROVE  firsts'[term[c]] = c
    BY DEF FirstsCanonical
  <2>1. CASE term[c] \in DOMAIN firsts
    BY <2>1, <1>2 DEF AliasInv, FirstsCanonical
  <2>2. CASE term[c] \in NewTerms(S)
    <3>1. firsts'[term[c]] \in Representatives(S, term[c])
      BY <2>2, <1>2, <1>3
    <3> QED BY <3>1, <2>2, <1>1, RepresentativeCanonical
  <2> QED BY <2>1, <2>2, <1>2
<1>10. RepsKnown'
  <2> SUFFICES ASSUME NEW c \in classified' \cap rewritable
               PROVE  /\ term[c] \in DOMAIN firsts'
                      /\ RepOf(c)' = firsts'[term[c]]
    BY DEF RepsKnown
  <2>1. CASE c \in classified
    <3>1. term[c] \in DOMAIN firsts /\ RepOf(c) = firsts[term[c]]
      BY <2>1 DEF AliasInv, RepsKnown
    <3>2. c \notin DOMAIN fresh
      <4> HIDE DEF fresh
      <4> QED BY <2>1, <1>5, <1>6
    <3>3. RepOf(c)' = RepOf(c)
      <4> HIDE DEF fresh
      <4> QED BY <3>2, <1>4 DEF RepOf
    <3> QED BY <3>1, <3>3, <1>2
  <2>2. CASE c \in Pending(S)
    <3>1. c \in Typed(S) /\ c \notin classified
      BY <2>2, <1>6 DEF Typed
    <3>2. term[c] \in DOMAIN firsts'
      BY <3>1, <1>2 DEF NewTerms
    <3>3. c \notin DOMAIN reps
      BY <3>1 DEF AliasInv, CachesOK
    <3>4. CASE firsts'[term[c]] # c
      <4>1. c \in DOMAIN fresh /\ fresh[c] = firsts'[term[c]]
        BY <3>1, <3>4
      <4> HIDE DEF fresh
      <4> QED BY <4>1, <3>2, <1>4 DEF RepOf
    <3>5. CASE firsts'[term[c]] = c
      <4>1. c \notin DOMAIN fresh
        BY <3>5, <1>5
      <4> HIDE DEF fresh
      <4> QED BY <4>1, <3>2, <3>3, <3>5, <1>4 DEF RepOf
    <3> QED BY <3>4, <3>5
  <2> QED BY <2>1, <2>2
<1> QED BY <1>1, <1>7, <1>8, <1>9, <1>10 DEF AliasInv

(* Every step of a query keeps the invariant.                              *)
LEMMA AliasStep == AliasInv /\ [Next]_vars => AliasInv'
<1> SUFFICES ASSUME AliasInv, [Next]_vars PROVE AliasInv'
  OBVIOUS
<1>1. ASSUME UNCHANGED <<file, scope>> PROVE AliasInv'
  BY <1>1 DEF file, scope, AliasInv, FileOK, DictionaryOK, CachesOK, FirstsDecode,
              FirstsCanonical, RepsKnown, RepOf
<1>2. CASE OtherCall
  BY <1>2, ClassifyKeeps DEF OtherCall
<1>3. CASE PullChunk
  BY <1>3, ClassifyKeeps DEF PullChunk
<1>4. CASE CountGroups
  BY <1>4, ClassifyKeeps DEF CountGroups
<1>5. CASE Decline \/ EvalHead \/ HandleRow \/ EndRead \/ CountPattern \/ CountNothing
  BY <1>5, <1>1 DEF Decline, EvalHead, HandleRow, EndRead, CountPattern, CountNothing
<1>6. CASE UNCHANGED vars
  BY <1>6, <1>1 DEF vars
<1> QED BY <1>2, <1>3, <1>4, <1>5, <1>6 DEF Next

(* Under the invariant equal terms are one representative, and conversely; *)
(* a name, classified or not, represents itself.                           *)
LEMMA AliasInvRepresents ==
  ASSUME AliasInv, NEW c \in classified \cup Names, NEW d \in classified \cup Names
  PROVE  /\ RepOf(c) = RepOf(d) <=> TermOf(c) = TermOf(d)
         /\ RepOf(c) \in Codes
<1> USE DEF AliasInv
<1>1. c \in Codes /\ d \in Codes
  BY DEF CachesOK, Codes
<1> DEFINE known == classified \cup Names
<1>2. \A e \in known \ rewritable : RepOf(e) = e
  BY DEF CachesOK, RepOf
<1>3. \A e \in known \cap rewritable :
        /\ e \in Literals /\ TermOf(e) = term[e] /\ term[e] \in Terms
        /\ RepOf(e) = firsts[term[e]]
        /\ RepOf(e) \in Literals /\ term[RepOf(e)] = term[e]
  BY CodesApart DEF FileOK, RepsKnown, FirstsDecode, TermOf, Codes
<1>4. \A e \in Literals \ rewritable : TermOf(e) = term[e] /\ term[e] \in Terms /\ lookup[term[e]] = e
  BY DEF FileOK, DictionaryOK, TermOf
<1>5. \A e \in Names : e \notin rewritable /\ TermOf(e) = e /\ e \notin Terms
  BY CodesApart DEF FileOK, TermOf, Codes
<1>6. CASE c \in rewritable /\ d \in rewritable
  BY <1>3, <1>6 DEF Codes
<1>7. \A e \in known \cap rewritable, g \in known \ rewritable :
        RepOf(e) = RepOf(g) <=> TermOf(e) = TermOf(g)
  <2> SUFFICES ASSUME NEW e \in known \cap rewritable, NEW g \in known \ rewritable
               PROVE  RepOf(e) = RepOf(g) <=> TermOf(e) = TermOf(g)
    OBVIOUS
  <2>1. CASE g \in Literals
    <3>1. e \in classified
      BY CodesApart DEF FileOK, Codes
    <3> QED BY <2>1, <3>1, <1>2, <1>3, <1>4 DEF FirstsCanonical, RepsKnown
  <2>2. CASE g \in Names
    BY <2>2, <1>2, <1>3, <1>5, CodesApart DEF Codes
  <2> QED BY <2>1, <2>2 DEF CachesOK, Codes
<1>8. CASE c \notin rewritable /\ d \notin rewritable
  BY <1>8, <1>1, <1>2, <1>4, <1>5, CodesApart DEF Codes
<1>9. RepOf(c) \in Codes
  BY <1>1, <1>2, <1>3 DEF Codes
<1> QED BY <1>6, <1>7, <1>8, <1>9

RepresentsTerms ==
  \A c, d \in classified \cup Names :
    (RepOf(c) = RepOf(d) <=> TermOf(c) = TermOf(d)) /\ RepOf(c) \in Codes

LEMMA AliasInvRepresentsAll == AliasInv => RepresentsTerms
BY AliasInvRepresents DEF RepresentsTerms

(* Whatever calls of a query classified them, two codes have one           *)
(* representative just when they decode to one term: _alias_codes.         *)
THEOREM AliasesRight == Spec => []OneRepresentative
<1>1. Init => AliasInv
  BY AliasInitOK
<1>2. AliasInv /\ [Next]_vars => AliasInv'
  BY AliasStep
<1>3. AliasInv => OneRepresentative
  BY AliasInvRepresents DEF OneRepresentative
<1> QED BY <1>1, <1>2, <1>3, PTL DEF Spec

-----------------------------------------------------------------------------
(* Rows of codes, and the aliases a caller holds of them.                  *)

Row(r) ==
  /\ r = [k \in DOMAIN r |-> r[k]]
  /\ \A k \in DOMAIN r : r[k] \in Codes \cup {None}

(* The aliases tell the codes S apart as their terms are.                  *)
Agrees(al, S) ==
  /\ None \notin DOMAIN al
  /\ \A c \in S : Alias(al, c) \in Codes
  /\ \A c, d \in S : Alias(al, c) = Alias(al, d) <=> TermOf(c) = TermOf(d)

LEMMA TermIsSome ==
  ASSUME FileOK, NEW c \in Codes
  PROVE  TermOf(c) # None /\ c # None
BY AliasAssumption DEF FileOK, TermOf, Codes

(* So they tell the rows of these codes apart as decoding does.            *)
LEMMA RowsAgree ==
  ASSUME FileOK, NEW al, NEW S \in SUBSET Codes, Agrees(al, S),
         NEW r, NEW s, Row(r), Row(s), CodesIn(r) \subseteq S, CodesIn(s) \subseteq S
  PROVE  AliasedRow(al, r) = AliasedRow(al, s) <=> Decoded(r) = Decoded(s)
<1> DEFINE A(x) == Alias(al, x)
           D(x) == IF x = None THEN None ELSE TermOf(x)
<1>1. ASSUME NEW x \in S \cup {None}, NEW y \in S \cup {None}
      PROVE  A(x) = A(y) <=> D(x) = D(y)
  <2>1. A(None) = None /\ D(None) = None
    BY DEF Agrees, Alias
  <2>2. \A c \in S : A(c) # None /\ D(c) # None /\ D(c) = TermOf(c) /\ c # None
    BY TermIsSome DEF Agrees
  <2>3. CASE x \in S /\ y \in S
    BY <2>2, <2>3 DEF Agrees
  <2> QED BY <1>1, <2>1, <2>2, <2>3
<1>2. /\ \A k \in DOMAIN r : r[k] \in S \cup {None}
      /\ \A k \in DOMAIN s : s[k] \in S \cup {None}
  BY DEF CodesIn, ToSet
<1>3. /\ AliasedRow(al, r) = [k \in DOMAIN r |-> A(r[k])]
      /\ AliasedRow(al, s) = [k \in DOMAIN s |-> A(s[k])]
      /\ Decoded(r) = [k \in DOMAIN r |-> D(r[k])]
      /\ Decoded(s) = [k \in DOMAIN s |-> D(s[k])]
  BY DEF AliasedRow, Decoded
<1> HIDE DEF A, D
<1>4. CASE DOMAIN r = DOMAIN s
  <2>1. AliasedRow(al, r) = AliasedRow(al, s) <=> \A k \in DOMAIN r : A(r[k]) = A(s[k])
    BY <1>3, <1>4
  <2>2. Decoded(r) = Decoded(s) <=> \A k \in DOMAIN r : D(r[k]) = D(s[k])
    BY <1>3, <1>4
  <2> QED BY <1>1, <1>2, <1>4, <2>1, <2>2
<1>5. CASE DOMAIN r # DOMAIN s
  BY <1>3, <1>5
<1> QED BY <1>4, <1>5

-----------------------------------------------------------------------------
(* COUNT and GROUP BY.                                                     *)

CountQuery(q) ==
  /\ q.rows \in Seq(Seq(Codes \cup {None}))
  /\ CountShape(q)

LEMMA CountRows ==
  ASSUME NEW q, CountQuery(q)
  PROVE  /\ IsFiniteSet(DOMAIN q.rows)
         /\ DOMAIN q.rows = 1 .. Len(q.rows) /\ Len(q.rows) \in Nat
         /\ \A i \in DOMAIN q.rows :
              /\ Row(q.rows[i]) /\ Row(KeyOf(q, q.rows[i]))
              /\ \A j \in DOMAIN q.counts :
                   q.counts[j].kind = "col" => q.rows[i][q.counts[j].col] \in Codes \cup {None}
<1>1. DOMAIN q.rows = 1 .. Len(q.rows) /\ Len(q.rows) \in Nat
  BY LenProperties DEF CountQuery
<1>2. IsFiniteSet(DOMAIN q.rows)
  BY <1>1, FS_Interval
<1>3. ASSUME NEW i \in DOMAIN q.rows
      PROVE  /\ Row(q.rows[i]) /\ Row(KeyOf(q, q.rows[i]))
             /\ \A j \in DOMAIN q.counts :
                  q.counts[j].kind = "col" => q.rows[i][q.counts[j].col] \in Codes \cup {None}
  <2> DEFINE row == q.rows[i]
  <2>1. row \in Seq(Codes \cup {None})
    BY <1>1, ElementOfSeq DEF CountQuery
  <2>2. DOMAIN row = 1 .. Len(row) /\ row \in [1 .. Len(row) -> Codes \cup {None}]
    BY <2>1, LenProperties
  <2>3. Row(row)
    BY <2>2 DEF Row
  <2>4. row \in ToSet(q.rows)
    BY DEF ToSet
  <2> HIDE DEF row
  <2>5. ToSet(KeyCols(q)) \subseteq DOMAIN row
    BY <2>4 DEF CountQuery, CountShape
  <2>6. \A k \in DOMAIN KeyCols(q) : row[KeyCols(q)[k]] \in Codes \cup {None}
    BY <2>3, <2>5 DEF ToSet, Row
  <2>7. Row(KeyOf(q, row))
    <3>1. KeyOf(q, row) = [k \in DOMAIN KeyCols(q) |-> row[KeyCols(q)[k]]]
      BY DEF KeyOf
    <3> QED BY <2>6, <3>1 DEF Row
  <2>8. ASSUME NEW j \in DOMAIN q.counts, q.counts[j].kind = "col"
        PROVE  row[q.counts[j].col] \in Codes \cup {None}
    <3>1. q.counts[j] \in ToSet(q.counts)
      BY DEF ToSet
    <3>2. q.counts[j].col \in DOMAIN row
      BY <2>4, <2>8, <3>1 DEF CountQuery, CountShape
    <3> QED BY <2>3, <3>2 DEF Row
  <2> QED BY <2>3, <2>7, <2>8 DEF row
<1> QED BY <1>1, <1>2, <1>3

LEMMA CountKinds ==
  ASSUME NEW q, CountQuery(q), NEW j \in DOMAIN q.counts
  PROVE  q.counts[j].kind \in {"rows", "col", "const", "none"}
<1> DEFINE Specs == [kind : {"rows", "col", "const", "none"}, col : Nat, distinct : BOOLEAN]
<1>1. q.counts \in Seq(Specs)
  BY DEF CountQuery, CountShape
<1>2. DOMAIN q.counts = 1 .. Len(q.counts)
  BY <1>1, LenProperties
<1>3. q.counts[j] \in Specs
  <2> HIDE DEF Specs
  <2> QED BY <1>1, <1>2, ElementOfSeq
<1> QED BY <1>3

(* A columnar body's groups are counted as the rows are.                   *)
LEMMA ColumnarCounts ==
  ASSUME NEW q, CountQuery(q), NEW I \in SUBSET DOMAIN q.rows, q.columnar
  PROVE  ColumnarGroup(q, I) = RowGroup(q, I)
<1> DEFINE C == [j \in DOMAIN q.counts |->
                   IF q.counts[j].kind = "col" /\ ~q.counts[j].distinct THEN Cardinality(I) ELSE 0]
<1>1. ASSUME NEW j \in DOMAIN q.counts
      PROVE  C[j] = SpecCount(q, q.counts[j], I)
  <2>1. CASE q.counts[j].kind = "col" /\ ~q.counts[j].distinct
    <3>1. ASSUME NEW i \in I
          PROVE  q.rows[i][q.counts[j].col] # None
      <4>1. q.rows[i] \in ToSet(q.rows) /\ q.counts[j] \in ToSet(q.counts)
        BY DEF ToSet
      <4>2. q.counts[j].col \in DOMAIN q.rows[i] /\ None \notin ToSet(q.rows[i])
        BY <2>1, <4>1 DEF CountQuery, CountShape
      <4> QED BY <4>2 DEF ToSet
    <3>2. {i \in I : q.rows[i][q.counts[j].col] # None} = I
      BY <3>1
    <3> QED BY <2>1, <3>2 DEF SpecCount
  <2>2. CASE ~(q.counts[j].kind = "col" /\ ~q.counts[j].distinct)
    BY <2>2 DEF SpecCount
  <2> QED BY <2>1, <2>2
<1>2. C = [j \in DOMAIN q.counts |-> SpecCount(q, q.counts[j], I)]
  BY <1>1
<1>3. ColumnarGroup(q, I) = [RowGroup(q, I) EXCEPT !.counts = C]
  BY DEF ColumnarGroup
<1> HIDE DEF C
<1> QED BY <1>2, <1>3 DEF RowGroup

LEMMA GroupFields ==
  ASSUME NEW q, CountQuery(q), NEW key \in GroupKeys(q)
  PROVE  /\ Members(q, key) \subseteq DOMAIN q.rows
         /\ Groups(q)[key].rows = Cardinality(Members(q, key))
         /\ \A j \in DOMAIN q.counts :
              /\ Groups(q)[key].counts[j] = SpecCount(q, q.counts[j], Members(q, key))
              /\ Groups(q)[key].sets[j] = SpecSet(q, q.counts[j], Members(q, key))
<1>1. Members(q, key) \subseteq DOMAIN q.rows
  BY DEF Members
<1>2. Groups(q)[key] = RowGroup(q, Members(q, key))
  BY <1>1, ColumnarCounts DEF Groups, Group
<1> QED BY <1>1, <1>2 DEF RowGroup

(* What is counted of the groups merged is counted of their rows.          *)
MergeOf(q, ks) == Merged(q, Groups(q), ks)
RowsOf(q, ks) == UNION {Members(q, key) : key \in ks}

LEMMA MembersApart ==
  ASSUME NEW q, NEW k, NEW l, k # l
  PROVE  Members(q, k) \cap Members(q, l) = {}
BY DEF Members

LEMMA MergedFields ==
  ASSUME NEW q, CountQuery(q), NEW ks \in SUBSET GroupKeys(q)
  PROVE  /\ MergeOf(q, ks).rows = Cardinality(RowsOf(q, ks))
         /\ \A j \in DOMAIN q.counts :
              /\ q.counts[j].kind = "col" /\ ~q.counts[j].distinct =>
                   MergeOf(q, ks).counts[j]
                     = Cardinality({i \in RowsOf(q, ks) : q.rows[i][q.counts[j].col] # None})
              /\ q.counts[j].kind = "col" /\ q.counts[j].distinct =>
                   MergeOf(q, ks).sets[j]
                     = {q.rows[i][q.counts[j].col] : i \in RowsOf(q, ks)} \ {None}
              /\ q.counts[j].kind = "rows" /\ q.counts[j].distinct =>
                   MergeOf(q, ks).sets[j] = {q.rows[i] : i \in RowsOf(q, ks)}
<1> DEFINE I == DOMAIN q.rows
           G == Groups(q)
<1>1. IsFiniteSet(I)
  BY CountRows
<1>2. \A key \in ks :
        /\ Members(q, key) \in SUBSET I
        /\ G[key].rows = Cardinality(Members(q, key))
        /\ \A j \in DOMAIN q.counts :
             /\ G[key].counts[j] = SpecCount(q, q.counts[j], Members(q, key))
             /\ G[key].sets[j] = SpecSet(q, q.counts[j], Members(q, key))
  BY GroupFields
<1>3. /\ MergeOf(q, ks).rows = Total([key \in ks |-> G[key].rows], ks)
      /\ \A j \in DOMAIN q.counts :
           /\ MergeOf(q, ks).counts[j] = Total([key \in ks |-> G[key].counts[j]], ks)
           /\ MergeOf(q, ks).sets[j] = UNION {G[key].sets[j] : key \in ks}
  BY DEF MergeOf, Merged
<1> HIDE DEF I, G
<1>4. MergeOf(q, ks).rows = Cardinality(RowsOf(q, ks))
  <2> DEFINE part == [key \in ks |-> Members(q, key)]
             n == [key \in ks |-> G[key].rows]
  <2>1. part \in [ks -> SUBSET I] /\ \A key \in ks : n[key] = Cardinality(part[key])
    BY <1>2
  <2>2. \A k, l \in ks : k # l => part[k] \cap part[l] = {}
    BY MembersApart
  <2>3. UNION {part[key] : key \in ks} = RowsOf(q, ks)
    BY DEF RowsOf
  <2> HIDE DEF part, n
  <2>4. Total(n, ks) = Cardinality(UNION {part[key] : key \in ks})
    BY <1>1, <2>1, <2>2, TotalCounts
  <2> QED BY <1>3, <2>3, <2>4 DEF n
<1>5. ASSUME NEW j \in DOMAIN q.counts, q.counts[j].kind = "col", ~q.counts[j].distinct
      PROVE  MergeOf(q, ks).counts[j]
               = Cardinality({i \in RowsOf(q, ks) : q.rows[i][q.counts[j].col] # None})
  <2> DEFINE bound(S) == {i \in S : q.rows[i][q.counts[j].col] # None}
             part == [key \in ks |-> bound(Members(q, key))]
             n == [key \in ks |-> G[key].counts[j]]
  <2>1. part \in [ks -> SUBSET I] /\ \A key \in ks : n[key] = Cardinality(part[key])
    BY <1>2, <1>5 DEF SpecCount
  <2>2. \A k, l \in ks : k # l => part[k] \cap part[l] = {}
    BY MembersApart
  <2>3. UNION {part[key] : key \in ks} = bound(RowsOf(q, ks))
    BY DEF RowsOf
  <2> HIDE DEF part, n
  <2>4. Total(n, ks) = Cardinality(UNION {part[key] : key \in ks})
    BY <1>1, <2>1, <2>2, TotalCounts
  <2> QED BY <1>3, <2>3, <2>4 DEF n
<1>6. ASSUME NEW j \in DOMAIN q.counts, q.counts[j].kind = "col", q.counts[j].distinct
      PROVE  MergeOf(q, ks).sets[j] = {q.rows[i][q.counts[j].col] : i \in RowsOf(q, ks)} \ {None}
  <2>1. \A key \in ks : G[key].sets[j] = {q.rows[i][q.counts[j].col] : i \in Members(q, key)} \ {None}
    BY <1>2, <1>6 DEF SpecSet
  <2>2. UNION {G[key].sets[j] : key \in ks} = UNION {{q.rows[i][q.counts[j].col] : i \in Members(q, key)} \ {None} : key \in ks}
    BY <2>1
  <2>3. UNION {{q.rows[i][q.counts[j].col] : i \in Members(q, key)} \ {None} : key \in ks} = {q.rows[i][q.counts[j].col] : i \in RowsOf(q, ks)} \ {None}
    BY DEF RowsOf
  <2> QED BY <1>3, <2>2, <2>3
<1>7. ASSUME NEW j \in DOMAIN q.counts, q.counts[j].kind = "rows", q.counts[j].distinct
      PROVE  MergeOf(q, ks).sets[j] = {q.rows[i] : i \in RowsOf(q, ks)}
  <2>1. \A key \in ks : G[key].sets[j] = {q.rows[i] : i \in Members(q, key)}
    BY <1>2, <1>7 DEF SpecSet
  <2>2. UNION {G[key].sets[j] : key \in ks} = UNION {{q.rows[i] : i \in Members(q, key)} : key \in ks}
    BY <2>1
  <2>3. UNION {{q.rows[i] : i \in Members(q, key)} : key \in ks} = {q.rows[i] : i \in RowsOf(q, ks)}
    BY DEF RowsOf
  <2> QED BY <1>3, <2>2, <2>3
<1> QED BY <1>4, <1>5, <1>6, <1>7

(* The codes whose aliases a count reads are those it classifies.          *)
LEMMA CodesCounted ==
  ASSUME NEW q, CountQuery(q)
  PROVE  /\ CountedCodes(q) \subseteq Codes
         /\ \A key \in GroupKeys(q) : CodesIn(key) \subseteq CountedCodes(q)
         /\ \A i \in DOMAIN q.rows, j \in DOMAIN q.counts :
              /\ q.counts[j].kind = "rows" /\ q.counts[j].distinct =>
                   CodesIn(q.rows[i]) \subseteq CountedCodes(q)
              /\ /\ q.counts[j].kind = "col" /\ q.counts[j].distinct
                 /\ q.rows[i][q.counts[j].col] # None
                 => q.rows[i][q.counts[j].col] \in CountedCodes(q)
<1> DEFINE keyed == UNION {CodesIn(key) : key \in GroupKeys(q)}
           valued == (UNION {{row[col] : row \in ToSet(q.rows)} : col \in DistinctCols(q)}) \ {None}
           whole == \E j \in DOMAIN q.counts : q.counts[j].kind = "rows" /\ q.counts[j].distinct
           rowed == IF whole THEN UNION {CodesIn(row) : row \in ToSet(q.rows)} ELSE {}
<1>1. CountedCodes(q) = keyed \cup valued \cup rowed
  BY DEF CountedCodes
<1>2. \A r : Row(r) => CodesIn(r) \subseteq Codes
  BY DEF CodesIn, ToSet, Row
<1>3. keyed \subseteq Codes /\ rowed \subseteq Codes
  <2>1. \A key \in GroupKeys(q) : Row(key)
    BY CountRows DEF GroupKeys
  <2>2. \A row \in ToSet(q.rows) : Row(row)
    BY CountRows DEF ToSet
  <2> QED BY <1>2, <2>1, <2>2
<1>4. valued \subseteq Codes
  <2> SUFFICES ASSUME NEW col \in DistinctCols(q), NEW row \in ToSet(q.rows)
               PROVE  row[col] \in Codes \cup {None}
    OBVIOUS
  <2>1. PICK j \in DOMAIN q.counts : q.counts[j].kind = "col" /\ col = q.counts[j].col
    BY DEF DistinctCols
  <2>2. PICK i \in DOMAIN q.rows : row = q.rows[i]
    BY DEF ToSet
  <2> QED BY <2>1, <2>2, CountRows
<1>5. \A i \in DOMAIN q.rows, j \in DOMAIN q.counts :
        q.counts[j].kind = "rows" /\ q.counts[j].distinct => CodesIn(q.rows[i]) \subseteq rowed
  BY DEF ToSet
<1>6. ASSUME NEW i \in DOMAIN q.rows, NEW j \in DOMAIN q.counts,
             q.counts[j].kind = "col", q.counts[j].distinct, q.rows[i][q.counts[j].col] # None
      PROVE  q.rows[i][q.counts[j].col] \in valued
  <2>1. q.counts[j].col \in DistinctCols(q) /\ q.rows[i] \in ToSet(q.rows)
    BY <1>6 DEF DistinctCols, ToSet
  <2> QED BY <1>6, <2>1
<1>7. \A key \in GroupKeys(q) : CodesIn(key) \subseteq keyed
  OBVIOUS
<1> HIDE DEF keyed, valued, rowed
<1> QED BY <1>1, <1>3, <1>4, <1>5, <1>6, <1>7

(* Rows' decoded values, counted as terms.                                 *)
LEMMA CountsAsRdflib ==
  ASSUME NEW q, CountQuery(q), FileOK, NEW al, Agrees(al, CountedCodes(q)),
         NEW ks \in SUBSET GroupKeys(q), ks # {}, NEW j \in DOMAIN q.counts
  PROVE  CountOf(q.counts[j], j, al, MergeOf(q, ks)) = RdflibCount(q, q.counts[j], RowsOf(q, ks))
<1> DEFINE spec == q.counts[j]
           J == RowsOf(q, ks)
           value(i) == Decoded(q.rows[i])[spec.col]
           bound == {i \in J : value(i) # None}
<1>1. J \subseteq DOMAIN q.rows /\ IsFiniteSet(J)
  <2>1. J \in SUBSET DOMAIN q.rows
    BY DEF RowsOf, Members
  <2> QED BY <2>1, CountRows, FS_Subset
<1>2. spec.kind \in {"rows", "col", "const", "none"}
  BY CountKinds
<1> DEFINE m == MergeOf(q, ks)
<1>9. /\ m.rows = Cardinality(J)
      /\ spec.kind = "col" /\ ~spec.distinct =>
           m.counts[j] = Cardinality({i \in J : q.rows[i][spec.col] # None})
      /\ spec.kind = "col" /\ spec.distinct => m.sets[j] = {q.rows[i][spec.col] : i \in J} \ {None}
      /\ spec.kind = "rows" /\ spec.distinct => m.sets[j] = {q.rows[i] : i \in J}
  BY MergedFields
<1>3. CASE spec.kind = "rows" /\ ~spec.distinct
  BY <1>3, <1>9 DEF CountOf, RdflibCount
<1>4. CASE spec.kind = "rows" /\ spec.distinct
  <2> DEFINE f == [i \in J |-> AliasedRow(al, q.rows[i])]
             g == [i \in J |-> Decoded(q.rows[i])]
  <2>1. \A i \in J : CodesIn(q.rows[i]) \subseteq CountedCodes(q)
    BY <1>1, <1>4, CodesCounted
  <2>2. CountedCodes(q) \subseteq Codes
    BY CodesCounted
  <2>3. \A i, k \in J : f[i] = f[k] <=> g[i] = g[k]
    BY <1>1, <2>1, <2>2, CountRows, RowsAgree
  <2>4. Cardinality({f[i] : i \in J}) = Cardinality({g[i] : i \in J})
    <3>1. IsFiniteSet(J)
      BY <1>1
    <3> HIDE DEF f, g, J
    <3> QED BY <2>3, <3>1, SameSize
  <2>5. MergeOf(q, ks).sets[j] = {q.rows[i] : i \in J}
    BY <1>4, <1>9
  <2>6. {AliasedRow(al, row) : row \in MergeOf(q, ks).sets[j]} = {f[i] : i \in J}
    BY <2>5
  <2>7. {Decoded(q.rows[i]) : i \in J} = {g[i] : i \in J}
    OBVIOUS
  <2> HIDE DEF f, g
  <2>8. CountOf(spec, j, al, MergeOf(q, ks)) = Cardinality({f[i] : i \in J})
    BY <1>4, <2>6 DEF CountOf
  <2>9. RdflibCount(q, spec, J) = Cardinality({g[i] : i \in J})
    BY <1>4, <2>7 DEF RdflibCount
  <2> QED BY <2>4, <2>8, <2>9
<1>5. ASSUME spec.kind = "col", NEW i \in J
      PROVE  /\ q.rows[i][spec.col] \in Codes \cup {None}
             /\ q.rows[i][spec.col] = None => value(i) = None
             /\ q.rows[i][spec.col] # None => value(i) = TermOf(q.rows[i][spec.col]) /\ value(i) # None
  <2>1. q.rows[i] \in ToSet(q.rows) /\ spec \in ToSet(q.counts)
    BY <1>1 DEF ToSet
  <2>2. spec.col \in DOMAIN q.rows[i]
    BY <1>5, <2>1 DEF CountQuery, CountShape
  <2>3. q.rows[i][spec.col] \in Codes \cup {None}
    BY <1>1, <1>5, CountRows
  <2> QED BY <2>2, <2>3, TermIsSome DEF Decoded
<1>6. CASE spec.kind = "col"
  <2>1. bound = {i \in J : q.rows[i][spec.col] # None}
    BY <1>5, <1>6
  <2>2. CASE ~spec.distinct
    <3>1. CountOf(spec, j, al, MergeOf(q, ks)) = Cardinality(bound)
      BY <1>6, <2>1, <2>2, <1>9 DEF CountOf
    <3>2. RdflibCount(q, spec, J) = Cardinality(bound)
      BY <1>6, <2>2 DEF RdflibCount
    <3> QED BY <3>1, <3>2
  <2>3. CASE spec.distinct
    <3> DEFINE f == [i \in bound |-> Alias(al, q.rows[i][spec.col])]
               g == [i \in bound |-> value(i)]
    <3>1. \A i \in bound : q.rows[i][spec.col] \in CountedCodes(q)
      BY <1>1, <1>6, <2>1, <2>3, CodesCounted
    <3>2. \A i, k \in bound : f[i] = f[k] <=> g[i] = g[k]
      <4>1. \A i \in bound : value(i) = TermOf(q.rows[i][spec.col])
        BY <1>5, <1>6, <2>1
      <4>2. \A i, k \in bound :
              Alias(al, q.rows[i][spec.col]) = Alias(al, q.rows[k][spec.col])
                <=> TermOf(q.rows[i][spec.col]) = TermOf(q.rows[k][spec.col])
        BY <3>1 DEF Agrees
      <4> QED BY <4>1, <4>2
    <3>3. IsFiniteSet(bound)
      BY <1>1, FS_Subset
    <3>4. Cardinality({f[i] : i \in bound}) = Cardinality({g[i] : i \in bound})
      <4> HIDE DEF f, g, bound
      <4> QED BY <3>2, <3>3, SameSize
    <3>5. MergeOf(q, ks).sets[j] = {q.rows[i][spec.col] : i \in bound}
      <4>1. MergeOf(q, ks).sets[j] = {q.rows[i][spec.col] : i \in J} \ {None}
        BY <1>6, <2>3, <1>9
      <4> QED BY <2>1, <4>1
    <3>6. {Alias(al, c) : c \in MergeOf(q, ks).sets[j]} = {f[i] : i \in bound}
      BY <3>5, ZenonT(40)
    <3>7. {value(i) : i \in bound} = {g[i] : i \in bound}
      OBVIOUS
    <3> HIDE DEF f, g
    <3>8. CountOf(spec, j, al, MergeOf(q, ks)) = Cardinality({f[i] : i \in bound})
      BY <1>6, <2>3, <3>6 DEF CountOf, DistinctTerms
    <3>9. RdflibCount(q, spec, J) = Cardinality({g[i] : i \in bound})
      BY <1>6, <2>3, <3>7 DEF RdflibCount
    <3> QED BY <3>4, <3>8, <3>9
  <2> QED BY <2>2, <2>3
<1>10. J # {}
  BY DEF RowsOf, Members, GroupKeys
<1>7. CASE spec.kind = "const"
  BY <1>7, <1>9, <1>10 DEF CountOf, RdflibCount
<1>8. CASE spec.kind = "none"
  BY <1>8 DEF CountOf, RdflibCount
<1> QED BY <1>2, <1>3, <1>4, <1>6, <1>7, <1>8

(* The groups of the keys that decode alike, and their solution.           *)
AlikeOf(q, al, key) == SameKey(q, al, AliasedRow(al, key))
SolutionOf(q, al, key) ==
  Solution(q, al, Groups(q), AlikeOf(q, al, key), CHOOSE k \in AlikeOf(q, al, key) : TRUE)

(* With rows, every key of rdflib's is a row's: without GROUP BY, the empty *)
(* one.                                                                    *)
LEMMA KeysOfRows ==
  ASSUME NEW q, CountQuery(q), q.rows # <<>>
  PROVE  RdflibKeys(q) = {RdflibKey(q, i) : i \in DOMAIN q.rows} /\ RdflibKeys(q) # {}
<1>1. DOMAIN q.rows # {}
  BY CountRows, EmptySeq DEF CountQuery
<1>2. CASE q.implicit
  <2>1. \A i \in DOMAIN q.rows : RdflibKey(q, i) = <<>>
    BY <1>2 DEF RdflibKey, KeyOf, Decoded, CountQuery, CountShape
  <2> QED BY <1>1, <1>2, <2>1 DEF RdflibKeys
<1>3. CASE ~q.implicit
  BY <1>1, <1>3 DEF RdflibKeys
<1> QED BY <1>2, <1>3

LEMMA SolutionAsRdflib ==
  ASSUME NEW q, CountQuery(q), FileOK, NEW al, Agrees(al, CountedCodes(q)),
         NEW key \in GroupKeys(q)
  PROVE  LET s == SolutionOf(q, al, key)
         IN  [key |-> Decoded(s.key), n |-> s.n] = RdflibSolution(q, Decoded(key))
<1> DEFINE ks == AlikeOf(q, al, key)
           first == CHOOSE k \in ks : TRUE
           s == SolutionOf(q, al, key)
           I == {i \in DOMAIN q.rows : RdflibKey(q, i) = Decoded(key)}
<1>1. \A k, l \in GroupKeys(q) : AliasedRow(al, k) = AliasedRow(al, l) <=> Decoded(k) = Decoded(l)
  <2>1. \A k \in GroupKeys(q) : Row(k) /\ CodesIn(k) \subseteq CountedCodes(q)
    BY CountRows, CodesCounted DEF GroupKeys
  <2>2. CountedCodes(q) \in SUBSET Codes
    BY CodesCounted
  <2> QED BY <2>1, <2>2, RowsAgree
<1>2. ks = {k \in GroupKeys(q) : Decoded(k) = Decoded(key)}
  BY <1>1 DEF AlikeOf, SameKey
<1>3. first \in ks
  BY <1>2
<1>4. RowsOf(q, ks) = I
  BY <1>2 DEF RowsOf, Members, RdflibKey, GroupKeys
<1>5. s = [key |-> first,
           n |-> [j \in DOMAIN q.counts |-> CountOf(q.counts[j], j, al, MergeOf(q, ks))]]
  BY DEF SolutionOf, Solution, MergeOf
<1>6. Decoded(s.key) = Decoded(key)
  BY <1>2, <1>3, <1>5
<1> HIDE DEF ks, s, I
<1>7. ks \in SUBSET GroupKeys(q)
  BY <1>2
<1>8. s.n = [j \in DOMAIN q.counts |-> RdflibCount(q, q.counts[j], I)]
  <2>1. \A j \in DOMAIN q.counts :
          CountOf(q.counts[j], j, al, MergeOf(q, ks)) = RdflibCount(q, q.counts[j], I)
    BY <1>3, <1>4, <1>7, CountsAsRdflib
  <2> QED BY <1>5, <2>1
<1> QED BY <1>6, <1>8 DEF RdflibSolution, s, I

LEMMA SolutionsAsRdflib ==
  ASSUME NEW q, CountQuery(q), FileOK, NEW al, Agrees(al, CountedCodes(q)), q.rows # <<>>
  PROVE  LET S == Solutions(q, al, Groups(q))
         IN  /\ {[key |-> Decoded(a.key), n |-> a.n] : a \in S} = RdflibSolutions(q)
             /\ Cardinality(S) = Cardinality(RdflibSolutions(q))
<1> DEFINE K == GroupKeys(q)
           f == [key \in K |-> SolutionOf(q, al, key)]
           g == [key \in K |-> RdflibSolution(q, Decoded(key))]
<1>1. Solutions(q, al, Groups(q)) = {f[key] : key \in K}
  BY DEF Solutions, SolutionOf, AlikeOf
<1>2. RdflibSolutions(q) = {g[key] : key \in K}
  <2>1. RdflibSolutions(q) = {RdflibSolution(q, tkey) : tkey \in {RdflibKey(q, i) : i \in DOMAIN q.rows}}
    BY KeysOfRows DEF RdflibSolutions
  <2>2. {RdflibKey(q, i) : i \in DOMAIN q.rows} = {Decoded(key) : key \in K}
    BY DEF RdflibKey, GroupKeys
  <2> QED BY <2>1, <2>2
<1>3. \A key \in K : [key |-> Decoded(f[key].key), n |-> f[key].n] = g[key]
  BY SolutionAsRdflib
<1>4. IsFiniteSet(K)
  <2> DEFINE keyed == [i \in DOMAIN q.rows |-> KeyOf(q, q.rows[i])]
  <2>1. keyed \in Surjection(DOMAIN q.rows, K)
    BY DEF Surjection, GroupKeys
  <2> HIDE DEF keyed, K
  <2> QED BY <2>1, CountRows, FS_Surjection
<1>5. \A k, l \in K : f[k] = f[l] <=> g[k] = g[l]
  <2> SUFFICES ASSUME NEW k \in K, NEW l \in K, g[k] = g[l]
               PROVE  f[k] = f[l]
    BY <1>3
  <2>1. Decoded(k) = Decoded(l)
    BY DEF RdflibSolution
  <2>2. Row(k) /\ CodesIn(k) \subseteq CountedCodes(q) /\ Row(l) /\ CodesIn(l) \subseteq CountedCodes(q)
    BY CountRows, CodesCounted DEF GroupKeys
  <2>3. CountedCodes(q) \in SUBSET Codes
    BY CodesCounted
  <2>4. AliasedRow(al, k) = AliasedRow(al, l)
    BY <2>1, <2>2, <2>3, RowsAgree
  <2> QED BY <2>4 DEF SolutionOf, AlikeOf
<1> HIDE DEF f, g
<1>6. Cardinality({f[key] : key \in K}) = Cardinality({g[key] : key \in K})
  BY <1>4, <1>5, SameSize
<1>7. {[key |-> Decoded(a.key), n |-> a.n] : a \in {f[key] : key \in K}} = {g[key] : key \in K}
  BY <1>3
<1> QED BY <1>1, <1>2, <1>6, <1>7

(* One native match, counted without reading it.                           *)
LEMMA PatternAsRdflib ==
  ASSUME NEW q, CountQuery(q), FileOK, Countable(q)
  PROVE  /\ {[key |-> Decoded(a.key), n |-> a.n] : a \in PatternCount(q)} = RdflibSolutions(q)
         /\ Cardinality(PatternCount(q)) = Cardinality(RdflibSolutions(q))
<1> DEFINE n == [j \in DOMAIN q.counts |-> Len(q.rows)]
           I == DOMAIN q.rows
<1>1. Decoded(<<>>) = <<>>
  BY DEF Decoded
<1>2. {[key |-> Decoded(a.key), n |-> a.n] : a \in PatternCount(q)} = {[key |-> <<>>, n |-> n]}
  BY <1>1 DEF PatternCount
<1>3. IsFiniteSet(I) /\ I = 1 .. Len(q.rows) /\ Len(q.rows) \in Nat
  BY CountRows DEF CountQuery
<1>4. Cardinality(I) = Len(q.rows)
  BY <1>3, FS_Interval
<1>5. {i \in I : RdflibKey(q, i) = <<>>} = I
  BY <1>1 DEF RdflibKey, KeyOf, CountQuery, CountShape, Countable
<1>6. ASSUME NEW j \in DOMAIN q.counts
      PROVE  RdflibCount(q, q.counts[j], I) = Len(q.rows)
  <2> DEFINE spec == q.counts[j]
             value(i) == Decoded(q.rows[i])[spec.col]
  <2>1. spec.kind \in {"rows", "col", "const"} /\ ~spec.distinct
    BY CountKinds DEF Countable
  <2>2. ASSUME spec.kind = "col", NEW i \in I
        PROVE  value(i) # None
    <3>1. q.rows[i] \in ToSet(q.rows) /\ spec \in ToSet(q.counts)
      BY DEF ToSet
    <3>2. spec.col \in DOMAIN q.rows[i] /\ None \notin ToSet(q.rows[i])
      BY <2>2, <3>1 DEF CountQuery, CountShape, Countable
    <3>3. q.rows[i][spec.col] # None /\ q.rows[i][spec.col] \in Codes \cup {None}
      BY <2>2, <3>2, CountRows DEF ToSet
    <3> QED BY <3>2, <3>3, TermIsSome DEF Decoded
  <2>3. spec.kind = "col" => {i \in I : value(i) # None} = I
    BY <2>2
  <2> QED BY <1>4, <2>1, <2>3 DEF RdflibCount
<1>7. RdflibSolutions(q) = {RdflibSolution(q, <<>>)}
  BY DEF RdflibSolutions, RdflibKeys, Countable
<1>8. RdflibSolution(q, <<>>) = [key |-> <<>>, n |-> n]
  <2>1. RdflibSolution(q, <<>>) = [key |-> <<>>, n |-> [j \in DOMAIN q.counts |-> RdflibCount(q, q.counts[j], I)]]
    BY <1>5 DEF RdflibSolution
  <2> QED BY <1>6, <2>1
<1> QED BY <1>2, <1>7, <1>8 DEF PatternCount

(* No row: one aggregator's zeros, or rdflib's empty solution.             *)
LEMMA NothingAsRdflib ==
  ASSUME NEW q, CountQuery(q), FileOK, q.rows = <<>>
  PROVE  NoGroups(q) = RdflibSolutions(q)
<1>1. DOMAIN q.rows = {}
  BY CountRows, EmptySeq
<1>2. ASSUME NEW j \in DOMAIN q.counts PROVE RdflibCount(q, q.counts[j], {}) = 0
  <2>1. Cardinality({}) = 0
    BY FS_EmptySet
  <2> QED BY <2>1, CountKinds DEF RdflibCount
<1>3. CASE q.implicit
  <2>1. RdflibSolution(q, <<>>) = [key |-> <<>>, n |-> [j \in DOMAIN q.counts |-> 0]]
    BY <1>1, <1>2 DEF RdflibSolution
  <2> QED BY <1>3, <2>1 DEF RdflibSolutions, RdflibKeys, NoGroups
<1>4. CASE ~q.implicit
  BY <1>1, <1>4 DEF RdflibSolutions, RdflibKeys, NoGroups
<1> QED BY <1>3, <1>4

(* A count, done or not.                                                   *)
CountInv ==
  /\ AliasInv
  /\ query \in Queries
  /\ ~IsHead(query) => stage \in {"asked", "done"}
  /\ GroupsAreTerms

(* What a call's aliases say of the codes it classified.                   *)
LEMMA AliasesAgree ==
  ASSUME AliasInv, NEW S \in SUBSET Codes, Classify(S), UNCHANGED file,
         NEW before, before = NoAliases
  PROVE  Agrees(AliasesOf(S, before), S)
<1> DEFINE al == AliasesOf(S, before)
<1>1. AliasInv'
  BY ClassifyKeeps
<1>2. S \subseteq (classified \cup Names)'
  <2>1. classified' = classified \cup Pending(S)
    BY DEF Classify
  <2> QED BY <2>1, AliasAssumption DEF Pending, Foreign, Codes
<1>3. None \notin DOMAIN al /\ \A c \in S : Alias(al, c) = RepOf(c)'
  <2>1. al = [c \in S \cap DOMAIN reps' |-> reps'[c]]
    BY DEF AliasesOf, Over, NoAliases
  <2>2. None \notin S
    BY AliasAssumption
  <2> QED BY <2>1, <2>2 DEF Alias, RepOf
<1>4. \A c, d \in S : /\ (RepOf(c) = RepOf(d) <=> TermOf(c) = TermOf(d))'
                    /\ RepOf(c)' \in Codes
  <2>1. RepresentsTerms'
    BY <1>1, AliasInvRepresentsAll, PTL
  <2> QED BY <1>2, <2>1 DEF RepresentsTerms
<1>5. \A c \in S : TermOf(c)' = TermOf(c)
  BY DEF TermOf, file
<1> QED BY <1>3, <1>4, <1>5 DEF Agrees

LEMMA CountInitOK == Init => CountInv
<1> SUFFICES ASSUME Init PROVE CountInv
  OBVIOUS
<1>1. AliasInv
  BY AliasInitOK
<1> QED BY <1>1 DEF Init, CountInv, GroupsAreTerms

LEMMA CountStep == CountInv /\ [Next]_vars => CountInv'
<1> SUFFICES ASSUME CountInv, [Next]_vars PROVE CountInv'
  OBVIOUS
<1> USE DEF CountInv
<1>1. AliasInv'
  BY AliasStep
<1>2. query' = query /\ term' = term /\ (\A q : IsHead(q) <=> IsHead(q)')
  BY DEF Next, vars, OtherCall, Decline, EvalHead, PullChunk, HandleRow, EndRead, CountPattern,
         CountNothing, CountGroups, file
<1>3. FileOK
  BY DEF AliasInv
<1>4. ~IsHead(query) => CountQuery(query)
  BY QueriesAssumption DEF CountQuery
<1>5. RdflibSolutions(query)' = RdflibSolutions(query) /\ \A key : Decoded(key)' = Decoded(key)
  <2>1. \A c : TermOf(c)' = TermOf(c)
    BY <1>2 DEF TermOf
  <2>2. \A row : Decoded(row)' = Decoded(row)
    BY <2>1 DEF Decoded
  <2>3. \A q, i : RdflibKey(q, i)' = RdflibKey(q, i)
    BY <2>2 DEF RdflibKey
  <2>4. \A q, spec, I : RdflibCount(q, spec, I)' = RdflibCount(q, spec, I)
    <3> SUFFICES ASSUME NEW q, NEW spec, NEW I
                 PROVE  RdflibCount(q, spec, I)' = RdflibCount(q, spec, I)
      OBVIOUS
    <3> DEFINE was(i) == Decoded(q.rows[i])
               is(i) == Decoded(q.rows[i])'
               bound(v(_)) == {i \in I : v(i)[spec.col] # None}
               count(v(_)) ==
                 CASE spec.kind = "rows" ->
                        IF spec.distinct THEN Cardinality({v(i) : i \in I}) ELSE Cardinality(I)
                   [] spec.kind = "col" ->
                        IF spec.distinct THEN Cardinality({v(i)[spec.col] : i \in bound(v)})
                        ELSE Cardinality(bound(v))
                   [] spec.kind = "const" ->
                        IF spec.distinct THEN (IF I = {} THEN 0 ELSE 1) ELSE Cardinality(I)
                   [] OTHER -> 0
    <3>1. RdflibCount(q, spec, I) = count(was) /\ RdflibCount(q, spec, I)' = count(is)
      BY DEF RdflibCount
    <3>2. \A i : is(i) = was(i)
      BY <2>2
    <3>3. bound(is) = bound(was)
      BY <3>2
    <3>4. {is(i) : i \in I} = {was(i) : i \in I}
      BY <3>2
    <3>5. {is(i)[spec.col] : i \in bound(is)} = {was(i)[spec.col] : i \in bound(was)}
      BY <3>2, <3>3
    <3> QED BY <3>1, <3>3, <3>4, <3>5
  <2>5. \A q : RdflibSolutions(q)' = RdflibSolutions(q)
    <3> SUFFICES ASSUME NEW q
                 PROVE  RdflibSolutions(q)' = RdflibSolutions(q)
      OBVIOUS
    <3>1. RdflibKeys(q)' = RdflibKeys(q)
      BY <2>3 DEF RdflibKeys
    <3>2. ASSUME NEW key PROVE RdflibSolution(q, key)' = RdflibSolution(q, key)
      <4>1. {i \in DOMAIN q.rows : RdflibKey(q, i) = key}'
              = {i \in DOMAIN q.rows : RdflibKey(q, i) = key}
        BY <2>3
      <4> QED BY <2>4, <4>1 DEF RdflibSolution
    <3>3. {RdflibSolution(q, key) : key \in RdflibKeys(q)}'
            = {RdflibSolution(q, key) : key \in RdflibKeys(q)}
      BY <3>1, <3>2
    <3> QED BY <3>1, <3>3 DEF RdflibSolutions
  <2> QED BY <1>2, <2>2, <2>5
<1> DEFINE Right(S) ==
      /\ {[key |-> Decoded(a.key), n |-> a.n] : a \in S} = RdflibSolutions(query)
      /\ Cardinality(S) = Cardinality(RdflibSolutions(query))
<1>6. GroupsAreTerms <=> (~IsHead(query) /\ stage = "done" => Right(answer))
  BY DEF GroupsAreTerms
<1>7. GroupsAreTerms' <=> (~IsHead(query) /\ stage' = "done" => Right(answer'))
  BY <1>2, <1>5 DEF GroupsAreTerms
<1> HIDE DEF Right
<1>8. ASSUME ~IsHead(query), stage' = "done", stage = "asked" => Right(answer'),
             stage = "done" => answer' = answer
      PROVE  CountInv'
  BY <1>1, <1>2, <1>6, <1>7, <1>8
<1>9. ASSUME stage' = stage, answer' = answer
      PROVE  CountInv'
  BY <1>1, <1>2, <1>6, <1>7, <1>9
<1>10. CASE OtherCall
  BY <1>9, <1>10 DEF OtherCall, reader
<1>11. CASE Decline \/ EvalHead
  BY <1>1, <1>2, <1>7, <1>11 DEF Decline, EvalHead
<1>12. CASE PullChunk \/ HandleRow
  BY <1>9, <1>12 DEF PullChunk, HandleRow
<1>13. CASE EndRead
  BY <1>1, <1>2, <1>7, <1>13 DEF EndRead
<1>14. CASE CountPattern
  <2>1. Right(PatternCount(query))
    BY <1>3, <1>4, <1>14, PatternAsRdflib DEF CountPattern, Right
  <2> QED BY <1>8, <1>14, <2>1 DEF CountPattern
<1>15. CASE CountNothing
  <2>1. RdflibSolutions(query) = NoGroups(query) /\ answer' = NoGroups(query)
    BY <1>3, <1>4, <1>15, NothingAsRdflib DEF CountNothing
  <2>2. Decoded(<<>>) = <<>>
    BY DEF Decoded
  <2>3. {[key |-> Decoded(a.key), n |-> a.n] : a \in NoGroups(query)} = NoGroups(query)
    BY <2>2 DEF NoGroups
  <2>4. Right(answer')
    BY <2>1, <2>3 DEF Right
  <2> QED BY <1>8, <1>15, <2>4 DEF CountNothing
<1>16. CASE CountGroups
  <2> DEFINE S == CountedCodes(query)
  <2>1. S \in SUBSET Codes
    BY <1>4, <1>16, CodesCounted DEF CountGroups
  <2>2. Agrees(aliases', S)
    BY <1>16, <2>1, AliasesAgree DEF CountGroups
  <2>3. Right(Solutions(query, aliases', Groups(query)))
    BY <1>3, <1>4, <1>16, <2>2, SolutionsAsRdflib DEF CountGroups, Right
  <2> QED BY <1>8, <1>16, <2>3 DEF CountGroups
<1>17. CASE UNCHANGED vars
  BY <1>9, <1>17 DEF vars
<1> QED BY <1>10, <1>11, <1>12, <1>13, <1>14, <1>15, <1>16, <1>17 DEF Next

(* COUNT and GROUP BY answer as rdflib's, whatever calls classified the    *)
(* codes before: the groups of _aggregate_rows, merged and counted by      *)
(* aliases, and _count_pattern's size of one match.                        *)
THEOREM GroupsAreTermsAlways == Spec => []GroupsAreTerms
<1>1. CountInv => GroupsAreTerms
  BY DEF CountInv
<1> QED BY <1>1, CountInitOK, CountStep, PTL DEF Spec

-----------------------------------------------------------------------------
(* Arrangements: the one way to place 1..n along a linear order.           *)

Linear(R, n) ==
  /\ \A i \in 1 .. n : <<i, i>> \notin R
  /\ \A i, j \in 1 .. n : i # j => <<i, j>> \in R \/ <<j, i>> \in R
  /\ \A i, j, k \in 1 .. n : <<i, j>> \in R /\ <<j, k>> \in R => <<i, k>> \in R

Below(R, n, i) == {j \in 1 .. n : <<j, i>> \in R}
Arrangement(R, n) == [k \in 1 .. n |-> CHOOSE i \in 1 .. n : Cardinality(Below(R, n, i)) = k - 1]

Arranges(p, R, n) ==
  /\ p \in [1 .. n -> 1 .. n]
  /\ \A k, l \in 1 .. n : k < l => <<p[k], p[l]>> \in R

LEMMA OneArrangement ==
  ASSUME NEW n \in Nat, NEW R, Linear(R, n)
  PROVE  /\ Arranges(Arrangement(R, n), R, n)
         /\ \A p : Arranges(p, R, n) => p = Arrangement(R, n)
<1> DEFINE N == 1 .. n
           rank == [i \in N |-> Cardinality(Below(R, n, i))]
           p0 == Arrangement(R, n)
<1> USE DEF Linear
<1>1. IsFiniteSet(N) /\ Cardinality(N) = n /\ IsFiniteSet(0 .. n - 1) /\ Cardinality(0 .. n - 1) = n
  <2>1. /\ IsFiniteSet(1 .. n) /\ Cardinality(1 .. n) = IF 1 > n THEN 0 ELSE n - 1 + 1
        /\ IsFiniteSet(0 .. n - 1) /\ Cardinality(0 .. n - 1) = IF 0 > n - 1 THEN 0 ELSE n - 1 - 0 + 1
    BY FS_Interval
  <2> QED BY <2>1
<1>2. ASSUME NEW i \in N
      PROVE  /\ IsFiniteSet(Below(R, n, i)) /\ rank[i] = Cardinality(Below(R, n, i))
             /\ rank[i] \in 0 .. n - 1
  <2>1. Below(R, n, i) \in SUBSET (N \ {i})
    BY DEF Below
  <2>2. IsFiniteSet(N \ {i}) /\ Cardinality(N \ {i}) = n - 1
    BY <1>1, FS_RemoveElement
  <2>3. IsFiniteSet(Below(R, n, i)) /\ Cardinality(Below(R, n, i)) <= n - 1
    BY <2>1, <2>2, FS_Subset
  <2>4. Cardinality(Below(R, n, i)) \in Nat
    BY <2>3, FS_CardinalityType
  <2> QED BY <2>3, <2>4
<1> HIDE DEF rank
<1>3. ASSUME NEW i \in N, NEW j \in N, <<i, j>> \in R
      PROVE  rank[i] < rank[j]
  <2>1. Below(R, n, i) \in SUBSET Below(R, n, j)
    BY <1>3 DEF Below
  <2>2. i \in Below(R, n, j) /\ i \notin Below(R, n, i)
    BY <1>3 DEF Below
  <2>3. rank[i] <= rank[j] /\ rank[i] # rank[j]
    BY <1>2, <2>1, <2>2, FS_Subset
  <2> QED BY <1>2, <2>3
<1>4. \A i, j \in N : rank[i] = rank[j] => i = j
  <2> SUFFICES ASSUME NEW i \in N, NEW j \in N, i # j
               PROVE  rank[i] # rank[j]
    OBVIOUS
  <2>1. rank[i] \in Int /\ rank[j] \in Int
    BY <1>2
  <2>2. <<i, j>> \in R => rank[i] < rank[j]
    BY <1>3
  <2>3. <<j, i>> \in R => rank[j] < rank[i]
    BY <1>3
  <2>4. <<i, j>> \in R \/ <<j, i>> \in R
    OBVIOUS
  <2> HIDE DEF N, Linear
  <2> QED BY <2>1, <2>2, <2>3, <2>4
<1>5. \A k \in N : \E i \in N : rank[i] = k - 1
  <2>1. rank = [i \in N |-> rank[i]]
    BY DEF rank
  <2>2. rank \in Injection(N, 0 .. n - 1)
    BY <1>2, <1>4, <2>1 DEF Injection, IsInjective
  <2>3. rank \in Surjection(N, 0 .. n - 1)
    BY <1>1, <2>2, FS_Injection
  <2> QED BY <2>3 DEF Surjection
<1>6. \A k \in N : p0[k] \in N /\ rank[p0[k]] = k - 1
  <2>1. ASSUME NEW k \in N
        PROVE  p0[k] \in N /\ rank[p0[k]] = k - 1
    <3>1. \E i \in N : Cardinality(Below(R, n, i)) = k - 1
      BY <1>2, <1>5
    <3>2. p0[k] = CHOOSE i \in N : Cardinality(Below(R, n, i)) = k - 1
      BY DEF Arrangement
    <3>3. p0[k] \in N /\ Cardinality(Below(R, n, p0[k])) = k - 1
      BY <3>1, <3>2
    <3> QED BY <1>2, <3>3
  <2> QED BY <2>1
<1>7. p0 = [k \in N |-> p0[k]]
  BY DEF Arrangement
<1>8. Arranges(p0, R, n)
  <2>1. p0 \in [N -> N]
    BY <1>6, <1>7
  <2>2. ASSUME NEW k \in N, NEW l \in N, k < l
        PROVE  <<p0[k], p0[l]>> \in R
    <3>1. p0[k] \in N /\ p0[l] \in N /\ rank[p0[k]] = k - 1 /\ rank[p0[l]] = l - 1
      BY <1>6
    <3>2. p0[k] # p0[l]
      BY <2>2, <3>1
    <3>3. <<p0[l], p0[k]>> \in R => l - 1 < k - 1
      BY <1>3, <3>1
    <3> QED BY <2>2, <3>1, <3>2, <3>3
  <2> QED BY <2>1, <2>2 DEF Arranges
<1>9. ASSUME NEW p, Arranges(p, R, n)
      PROVE  p = p0
  <2>1. p \in [N -> N] /\ \A k, l \in N : k < l => <<p[k], p[l]>> \in R
    BY <1>9 DEF Arranges
  <2>2. \A k, l \in N : p[k] = p[l] => k = l
    <3> SUFFICES ASSUME NEW k \in N, NEW l \in N, k # l, p[k] = p[l]
                 PROVE  FALSE
      OBVIOUS
    <3>1. p[k] \in N
      BY <2>1
    <3>2. <<p[k], p[k]>> \in R
      <4>1. CASE k < l
        BY <2>1, <4>1
      <4>2. CASE l < k
        BY <2>1, <4>2
      <4> QED BY <4>1, <4>2
    <3> QED BY <3>1, <3>2
  <2>3. \A i \in N : \E k \in N : p[k] = i
    <3>1. p \in Injection(N, N)
      BY <2>1, <2>2 DEF Injection, IsInjective
    <3>2. p \in Surjection(N, N)
      BY <1>1, <3>1, FS_Injection
    <3> QED BY <3>2 DEF Surjection
  <2>4. ASSUME NEW k \in N
        PROVE  rank[p[k]] = k - 1
    <3> DEFINE low == 1 .. k - 1
               h == [l \in low |-> p[l]]
               B == Below(R, n, p[k])
    <3>1. \A l \in low : l \in N /\ p[l] \in B
      BY <2>1 DEF Below
    <3>2. ASSUME NEW i \in B
          PROVE  \E l \in low : h[l] = i
      <4>1. i \in N /\ <<i, p[k]>> \in R
        BY DEF Below
      <4>2. PICK l \in N : p[l] = i
        BY <2>3, <4>1
      <4>3. p[k] \in N
        BY <2>1
      <4>4. ~(k < l) /\ k # l
        BY <2>1, <4>1, <4>2, <4>3
      <4>5. l \in low
        BY <4>4
      <4> QED BY <4>2, <4>5
    <3>3. h \in [low -> B] /\ \A l, m \in low : h[l] = h[m] => l = m
      BY <2>2, <3>1
    <3> HIDE DEF h, low, B
    <3>4. h \in Bijection(low, B)
      BY <3>2, <3>3 DEF Bijection, Injection, Surjection, IsInjective
    <3>5. IsFiniteSet(low) /\ Cardinality(low) = k - 1
      BY FS_Interval DEF low
    <3>6. Cardinality(B) = k - 1
      BY <3>4, <3>5, FS_Bijection DEF ExistsBijection
    <3> QED BY <1>2, <2>1, <3>6 DEF B
  <2>5. \A k \in N : p[k] = p0[k]
    BY <1>4, <1>6, <2>1, <2>4
  <2> QED BY <1>7, <2>1, <2>5
<1> QED BY <1>8, <1>9

-----------------------------------------------------------------------------
(* Stable sorts by tuples of numbers.                                      *)

Tuple(a, m) == a = [x \in 1 .. m |-> a[x]]

Tuples(key, n, m) ==
  \A i \in 1 .. n : Tuple(key[i], m) /\ \A x \in 1 .. m : key[i][x] \in Int

Before(key, j, i) == LexLess(key[j], key[i]) \/ (key[j] = key[i] /\ j < i)
OrderBy(key, n) == {p \in (1 .. n) \X (1 .. n) : Before(key, p[1], p[2])}
Placing(key, n) == Arrangement(OrderBy(key, n), n)

(* Different tuples differ first somewhere.                                *)
Differ(a, b, m) == \E x \in 1 .. m : a[x] # b[x] /\ \A y \in 1 .. x - 1 : a[y] = b[y]

LEMMA FirstDifference ==
  ASSUME NEW m \in Nat, NEW a, NEW b, Tuple(a, m), Tuple(b, m), a # b
  PROVE  Differ(a, b, m)
<1> DEFINE D == {x \in 1 .. m : a[x] # b[x]}
           R == OpToRel(<, Nat)
<1>1. D # {} /\ D \subseteq Nat
  BY DEF Tuple
<1>2. PICK x \in D : \A y \in D : ~(<<y, x>> \in R)
  <2>1. IsWellFoundedOn(R, Nat)
    BY NatLessThanWellFounded
  <2> HIDE DEF R, D
  <2> QED BY <1>1, <2>1, WFMin
<1>3. \A y \in D : ~(y < x)
  BY <1>1, <1>2 DEF OpToRel
<1>4. \A y \in 1 .. x - 1 : y \in 1 .. m /\ y < x
  OBVIOUS
<1> QED BY <1>2, <1>3, <1>4 DEF Differ

LEMMA LexTransitive ==
  ASSUME NEW m \in Nat, NEW a, NEW b, NEW c,
         DOMAIN a = 1 .. m, DOMAIN b = 1 .. m, DOMAIN c = 1 .. m,
         \A x \in 1 .. m : a[x] \in Int /\ b[x] \in Int /\ c[x] \in Int,
         LexLess(a, b), LexLess(b, c)
  PROVE  LexLess(a, c)
<1>1. PICK x \in 1 .. m : a[x] < b[x] /\ \A z \in 1 .. x - 1 : a[z] = b[z]
  BY DEF LexLess
<1>2. PICK y \in 1 .. m : b[y] < c[y] /\ \A z \in 1 .. y - 1 : b[z] = c[z]
  BY DEF LexLess
<1> DEFINE w == IF x < y THEN x ELSE y
<1>3. w \in 1 .. m /\ \A z \in 1 .. w - 1 : z \in 1 .. x - 1 /\ z \in 1 .. y - 1
  OBVIOUS
<1>4. \A z \in 1 .. w - 1 : a[z] = c[z]
  BY <1>1, <1>2, <1>3
<1>5. a[w] < c[w]
  <2>1. CASE x < y
    <3>1. x \in 1 .. y - 1
      BY <2>1
    <3>2. a[x] < b[x] /\ b[x] = c[x] /\ a[x] \in Int /\ b[x] \in Int
      BY <1>1, <1>2, <3>1
    <3> QED BY <2>1, <3>2
  <2>2. CASE y < x
    <3>1. y \in 1 .. x - 1
      BY <2>2
    <3>2. a[y] = b[y] /\ b[y] < c[y] /\ ~(x < y)
      BY <1>1, <1>2, <2>2, <3>1
    <3> QED BY <3>2
  <2>3. CASE x = y
    <3>1. a[x] < b[x] /\ b[x] < c[x] /\ a[x] \in Int /\ b[x] \in Int /\ c[x] \in Int /\ w = x
      BY <1>1, <1>2, <2>3
    <3>2. a[x] < c[x]
      BY <3>1
    <3> QED BY <3>1, <3>2
  <2> QED BY <2>1, <2>2, <2>3
<1> HIDE DEF w
<1> QED BY <1>3, <1>4, <1>5 DEF LexLess

LEMMA LexIrreflexive ==
  ASSUME NEW m \in Nat, NEW a, DOMAIN a = 1 .. m, \A x \in 1 .. m : a[x] \in Int
  PROVE  ~LexLess(a, a)
BY DEF LexLess

(* Ties in order of position: a linear order.                              *)
LEMMA OrderLinear ==
  ASSUME NEW n \in Nat, NEW m \in Nat, NEW key, Tuples(key, n, m)
  PROVE  Linear(OrderBy(key, n), n)
<1> DEFINE N == 1 .. n
<1>1. \A i \in N : /\ Tuple(key[i], m) /\ DOMAIN key[i] = 1 .. m
                   /\ \A x \in 1 .. m : key[i][x] \in Int
  BY DEF Tuples, Tuple
<1>2. \A i, j \in N : <<i, j>> \in OrderBy(key, n) <=> Before(key, i, j)
  BY DEF OrderBy
<1>3. \A i \in N : ~Before(key, i, i)
  <2>1. \A i \in N : ~LexLess(key[i], key[i])
    BY <1>1, LexIrreflexive
  <2> QED BY <2>1 DEF Before
<1>4. ASSUME NEW i \in N, NEW j \in N, i # j
      PROVE  Before(key, i, j) \/ Before(key, j, i)
  <2>1. CASE key[i] = key[j]
    BY <1>4, <2>1 DEF Before
  <2>2. CASE key[i] # key[j]
    <3> DEFINE a == key[i]
               b == key[j]
    <3>1. /\ Tuple(a, m) /\ Tuple(b, m) /\ a # b
          /\ DOMAIN a = 1 .. m /\ DOMAIN b = 1 .. m
          /\ \A x \in 1 .. m : a[x] \in Int /\ b[x] \in Int
      BY <1>1, <2>2 DEF Tuple
    <3> HIDE DEF a, b
    <3>2. Differ(a, b, m)
      BY <3>1, FirstDifference
    <3>3. PICK x \in 1 .. m : a[x] # b[x] /\ \A y \in 1 .. x - 1 : a[y] = b[y]
      BY <3>2 DEF Differ
    <3>4. a[x] < b[x] \/ b[x] < a[x]
      BY <3>1, <3>3
    <3>5. LexLess(a, b) \/ LexLess(b, a)
      BY <3>1, <3>3, <3>4 DEF LexLess
    <3> QED BY <3>5 DEF Before, a, b
  <2> QED BY <2>1, <2>2
<1>5. ASSUME NEW i \in N, NEW j \in N, NEW k \in N, Before(key, i, j), Before(key, j, k)
      PROVE  Before(key, i, k)
  <2>1. LexLess(key[i], key[j]) /\ LexLess(key[j], key[k]) => LexLess(key[i], key[k])
    BY <1>1, LexTransitive
  <2>2. key[i] = key[j] /\ key[j] = key[k] /\ i < j /\ j < k => key[i] = key[k] /\ i < k
    OBVIOUS
  <2> QED BY <1>5, <2>1, <2>2 DEF Before
<1> HIDE DEF N
<1> QED BY <1>2, <1>3, <1>4, <1>5 DEF Linear, N

(* So a sort places each row once, in one order.                           *)
LEMMA SortPlaces ==
  ASSUME NEW n \in Nat, NEW m \in Nat, NEW key, Tuples(key, n, m),
         NEW s, DOMAIN s = 1 .. n
  PROVE  /\ StableSort(s, key) = [k \in 1 .. n |-> s[Placing(key, n)[k]]]
         /\ Arranges(Placing(key, n), OrderBy(key, n), n)
         /\ \A p : Arranges(p, OrderBy(key, n), n) => p = Placing(key, n)
<1>1. Linear(OrderBy(key, n), n)
  BY OrderLinear
<1>2. \A i \in 1 .. n :
        {j \in 1 .. n : LexLess(key[j], key[i]) \/ (key[j] = key[i] /\ j < i)} = Below(OrderBy(key, n), n, i)
  BY DEF Below, OrderBy, Before
<1>3. ASSUME NEW k \in 1 .. n
      PROVE  StableSort(s, key)[k] = s[Placing(key, n)[k]]
  <2> DEFINE low(i) == {j \in 1 .. n : LexLess(key[j], key[i]) \/ (key[j] = key[i] /\ j < i)}
  <2>1. (CHOOSE i \in 1 .. n : Cardinality(low(i)) = k - 1)
           = CHOOSE i \in 1 .. n : Cardinality(Below(OrderBy(key, n), n, i)) = k - 1
    BY <1>2
  <2>2. StableSort(s, key)[k] = s[CHOOSE i \in 1 .. n : Cardinality(low(i)) = k - 1]
    BY DEF StableSort
  <2> HIDE DEF low
  <2> QED BY <2>1, <2>2 DEF Placing, Arrangement
<1>4. StableSort(s, key) = [k \in 1 .. n |-> StableSort(s, key)[k]]
  BY DEF StableSort
<1> QED BY <1>1, <1>3, <1>4, OneArrangement DEF Placing

(* A sort by one value of rows already sorted by tuples is one sort by the *)
(* value and the tuple.                                                    *)
LEMMA SortTwice ==
  ASSUME NEW n \in Nat, NEW m \in Nat, NEW key, Tuples(key, n, m), NEW s, DOMAIN s = 1 .. n,
         NEW w, \A i \in 1 .. n : w[i] \in Int,
         NEW one, \A i \in 1 .. n : one[i] = <<w[Placing(key, n)[i]]>>,
         NEW both, Tuples(both, n, m + 1),
         \A i \in 1 .. n : both[i][1] = w[i] /\ \A x \in 1 .. m : both[i][x + 1] = key[i][x]
  PROVE  StableSort(StableSort(s, key), one) = StableSort(s, both)
<1> DEFINE N == 1 .. n
           p == Placing(key, n)
           q == Placing(one, n)
           r == [k \in N |-> p[q[k]]]
           t == StableSort(s, key)
<1>1. t = [k \in N |-> s[p[k]]] /\ Arranges(p, OrderBy(key, n), n)
  BY SortPlaces
<1>2. p \in [N -> N] /\ \A k, l \in N : k < l => Before(key, p[k], p[l])
  BY <1>1 DEF Arranges, OrderBy
<1>3. Tuples(one, n, 1)
  <2>1. \A i \in N : p[i] \in N /\ one[i] = <<w[p[i]]>>
    BY <1>2
  <2> HIDE DEF p
  <2>2. ASSUME NEW i \in N
        PROVE  Tuple(one[i], 1) /\ \A x \in 1 .. 1 : one[i][x] \in Int
    <3>1. PICK v \in Int : one[i] = <<v>>
      BY <2>1
    <3> QED BY <3>1 DEF Tuple
  <2> QED BY <2>2 DEF Tuples
<1>4. StableSort(t, one) = [k \in N |-> t[q[k]]] /\ Arranges(q, OrderBy(one, n), n)
  <2>1. DOMAIN t = 1 .. n
    BY <1>1
  <2> HIDE DEF t
  <2> QED BY <1>3, <2>1, SortPlaces
<1>5. q \in [N -> N] /\ \A k, l \in N : k < l => Before(one, q[k], q[l])
  BY <1>4 DEF Arranges, OrderBy
<1> HIDE DEF p, q
<1>6. ASSUME NEW i \in N, NEW j \in N, Before(one, i, j)
      PROVE  w[p[i]] < w[p[j]] \/ (w[p[i]] = w[p[j]] /\ i < j)
  <2>1. one[i] = <<w[p[i]]>> /\ one[j] = <<w[p[j]]>>
    BY DEF p
  <2>2. LexLess(one[i], one[j]) => w[p[i]] < w[p[j]]
    BY <2>1 DEF LexLess
  <2> QED BY <1>6, <2>1, <2>2 DEF Before
<1>7. ASSUME NEW i \in N, NEW j \in N, w[i] < w[j]
      PROVE  Before(both, i, j)
  <2>1. both[i][1] < both[j][1]
    BY <1>7
  <2>2. DOMAIN both[i] = 1 .. m + 1
    BY DEF Tuples, Tuple
  <2>3. 1 \in DOMAIN both[i] /\ \A y \in 1 .. 1 - 1 : both[i][y] = both[j][y]
    BY <2>2
  <2>4. LexLess(both[i], both[j])
    BY <2>1, <2>3 DEF LexLess
  <2> QED BY <2>4 DEF Before
<1>8. ASSUME NEW i \in N, NEW j \in N, w[i] = w[j], Before(key, i, j)
      PROVE  Before(both, i, j)
  <2> DEFINE a == both[i]
             b == both[j]
  <2>1. Tuple(a, m + 1) /\ Tuple(b, m + 1) /\ DOMAIN a = 1 .. m + 1
    BY DEF Tuples, Tuple
  <2>2. a[1] = b[1] /\ \A x \in 1 .. m : a[x + 1] = key[i][x] /\ b[x + 1] = key[j][x]
    BY <1>8
  <2> HIDE DEF a, b
  <2>3. \A x \in 1 .. m + 1 : x # 1 => x - 1 \in 1 .. m /\ x - 1 + 1 = x
    OBVIOUS
  <2>4. ASSUME NEW x \in 1 .. m, key[i][x] < key[j][x], \A y \in 1 .. x - 1 : key[i][y] = key[j][y]
        PROVE  LexLess(a, b)
    <3>1. x + 1 \in DOMAIN a /\ a[x + 1] < b[x + 1]
      BY <2>1, <2>2, <2>4
    <3>2. ASSUME NEW y \in 1 .. x + 1 - 1 PROVE a[y] = b[y]
      <4>1. CASE y = 1
        BY <2>2, <4>1
      <4>2. CASE y # 1
        <5>1. y - 1 \in 1 .. x - 1 /\ y - 1 \in 1 .. m /\ y - 1 + 1 = y
          BY <4>2
        <5> QED BY <2>2, <2>4, <5>1
      <4> QED BY <4>1, <4>2
    <3> QED BY <3>1, <3>2 DEF LexLess
  <2>5. LexLess(key[i], key[j]) => LexLess(a, b)
    <3>1. DOMAIN key[i] = 1 .. m
      BY DEF Tuples, Tuple
    <3> QED BY <2>4, <3>1 DEF LexLess
  <2>6. key[i] = key[j] => a = b
    <3> SUFFICES ASSUME key[i] = key[j] PROVE a = b
      OBVIOUS
    <3>1. ASSUME NEW x \in 1 .. m + 1 PROVE a[x] = b[x]
      <4>1. CASE x = 1
        BY <2>2, <4>1
      <4>2. CASE x # 1
        <5>1. PICK y \in 1 .. m : y + 1 = x
          BY <2>3, <4>2
        <5>2. a[y + 1] = b[y + 1]
          <6>1. a[y + 1] = key[i][y] /\ b[y + 1] = key[j][y]
            BY <2>2, Zenon
          <6> QED BY <6>1
        <5> QED BY <5>1, <5>2
      <4> QED BY <4>1, <4>2
    <3> QED BY <2>1, <3>1 DEF Tuple
  <2> QED BY <1>8, <2>5, <2>6 DEF Before, a, b
<1>9. Arranges(r, OrderBy(both, n), n)
  <2>1. r \in [N -> N]
    BY <1>2, <1>5
  <2>2. ASSUME NEW k \in N, NEW l \in N, k < l
        PROVE  <<r[k], r[l]>> \in OrderBy(both, n)
    <3>1. q[k] \in N /\ q[l] \in N /\ Before(one, q[k], q[l])
      BY <1>5, <2>2
    <3>2. p[q[k]] \in N /\ p[q[l]] \in N /\ r[k] = p[q[k]] /\ r[l] = p[q[l]]
      BY <1>2, <3>1
    <3>3. CASE w[p[q[k]]] < w[p[q[l]]]
      BY <1>7, <3>2, <3>3 DEF OrderBy
    <3>4. CASE w[p[q[k]]] = w[p[q[l]]] /\ q[k] < q[l]
      BY <1>2, <1>8, <3>1, <3>2, <3>4 DEF OrderBy
    <3> QED BY <1>6, <3>1, <3>3, <3>4
  <2> QED BY <2>1, <2>2 DEF Arranges
<1>10. StableSort(s, both) = [k \in N |-> s[r[k]]]
  <2> DEFINE M == m + 1
  <2>1. M \in Nat /\ Tuples(both, n, M)
    OBVIOUS
  <2> HIDE DEF M
  <2>2. StableSort(s, both) = [k \in 1 .. n |-> s[Placing(both, n)[k]]]
    BY <2>1, SortPlaces
  <2> HIDE DEF r
  <2>3. r = Placing(both, n)
    BY <1>9, <2>1, SortPlaces
  <2> QED BY <2>2, <2>3
<1>11. \A k \in N : t[q[k]] = s[r[k]]
  BY <1>1, <1>5
<1> HIDE DEF r
<1> QED BY <1>4, <1>10, <1>11

(* Rows alike in every value stay in place.                                *)
LEMMA SortNothing ==
  ASSUME NEW n \in Nat, NEW s, s = [i \in 1 .. n |-> s[i]], NEW key, Tuples(key, n, 0)
  PROVE  StableSort(s, key) = s
<1> DEFINE N == 1 .. n
           p == [k \in N |-> k]
<1>1. \A i, j \in N : key[i] = key[j]
  <2>1. \A i \in N : key[i] = [x \in {} |-> key[i][x]]
    BY DEF Tuples, Tuple
  <2>2. \A i, j \in N : [x \in {} |-> key[i][x]] = [x \in {} |-> key[j][x]]
    OBVIOUS
  <2> QED BY <2>1, <2>2
<1>2. Arranges(p, OrderBy(key, n), n)
  <2>1. ASSUME NEW k \in N, NEW l \in N, k < l PROVE <<k, l>> \in OrderBy(key, n)
    BY <1>1, <2>1 DEF OrderBy, Before
  <2> QED BY <2>1 DEF Arranges
<1> HIDE DEF p
<1>3. 0 \in Nat /\ DOMAIN s = 1 .. n
  OBVIOUS
<1>4. p = Placing(key, n)
  BY <1>2, <1>3, SortPlaces
<1>5. StableSort(s, key) = [k \in 1 .. n |-> s[Placing(key, n)[k]]]
  BY <1>3, SortPlaces
<1> QED BY <1>4, <1>5 DEF p

-----------------------------------------------------------------------------
(* ORDER BY.                                                               *)

Signed(by, v) == (IF by.desc THEN -1 ELSE 1) * v

LEMMA SignedOrder ==
  ASSUME NEW by, NEW a \in Int, NEW b \in Int
  PROVE  /\ Signed(by, a) \in Int
         /\ Signed(by, a) < Signed(by, b) <=> IF by.desc THEN b < a ELSE a < b
<1>1. CASE by.desc
  <2>1. Signed(by, a) = -a /\ Signed(by, b) = -b
    BY <1>1 DEF Signed
  <2> QED BY <1>1, <2>1
<1>2. CASE ~by.desc
  <2>1. Signed(by, a) = a /\ Signed(by, b) = b
    BY <1>2 DEF Signed
  <2> QED BY <1>2, <2>1
<1> QED BY <1>1, <1>2

(* The rows a head sorts, and the conditions.                              *)
Sortable(rows, order) ==
  /\ rows \in Seq(Seq(Codes \cup {None}))
  /\ order \in Seq([col : Nat, expr : BOOLEAN, desc : BOOLEAN])
  /\ \A i \in DOMAIN rows, n \in DOMAIN order : order[n].col \in DOMAIN rows[i]

(* The values of the last n conditions.                                    *)
LastValues(order, n, row) ==
  [x \in 1 .. n |-> Signed(order[Len(order) - n + x], Value(row, order[Len(order) - n + x].col))]
ValueKeys(rows, order, n) == [i \in DOMAIN rows |-> LastValues(order, n, rows[i])]

PlaceOK == FileOK /\ place \in Places

LEMMA ValueIsPlace ==
  ASSUME PlaceOK, NEW rows, NEW order, Sortable(rows, order),
         NEW i \in DOMAIN rows, NEW n \in DOMAIN order
  PROVE  /\ rows[i][order[n].col] \in Codes \cup {None}
         /\ Value(rows[i], order[n].col) \in Int
<1> DEFINE c == rows[i][order[n].col]
<1>1. c \in Codes \cup {None}
  <2>1. rows[i] \in Seq(Codes \cup {None}) /\ order[n].col \in DOMAIN rows[i]
    BY DEF Sortable
  <2> QED BY <2>1
<1>2. c \in Codes => TermOf(c) \in Names \cup Terms
  BY DEF TermOf, Codes, PlaceOK, FileOK
<1>3. place \in [Names \cup Terms -> Nat]
  BY HeadsAssumption DEF PlaceOK
<1>4. c \in Codes => place[TermOf(c)] \in Nat
  BY <1>2, <1>3
<1> HIDE DEF c
<1>5. Value(rows[i], order[n].col) = IF c = None THEN -1 ELSE place[TermOf(c)]
  BY DEF Value, c
<1>6. c # None => Value(rows[i], order[n].col) \in Int
  BY <1>1, <1>4, <1>5
<1>7. c = None => Value(rows[i], order[n].col) \in Int
  BY <1>5
<1> QED BY <1>1, <1>6, <1>7 DEF c

LEMMA ValueTuples ==
  ASSUME PlaceOK, NEW rows, NEW order, Sortable(rows, order), NEW n \in 0 .. Len(order)
  PROVE  /\ Tuples(ValueKeys(rows, order, n), Len(rows), n)
         /\ \A i \in 1 .. Len(rows), x \in 1 .. n :
              ValueKeys(rows, order, n)[i][x]
                = Signed(order[Len(order) - n + x], Value(rows[i], order[Len(order) - n + x].col))
<1>1. /\ Len(rows) \in Nat /\ DOMAIN rows = 1 .. Len(rows)
      /\ Len(order) \in Nat /\ DOMAIN order = 1 .. Len(order)
  BY DEF Sortable
<1>2. ASSUME NEW i \in 1 .. Len(rows)
      PROVE  ValueKeys(rows, order, n)[i]
               = [x \in 1 .. n |-> Signed(order[Len(order) - n + x], Value(rows[i], order[Len(order) - n + x].col))]
  BY <1>1 DEF ValueKeys, LastValues
<1>3. ASSUME NEW i \in 1 .. Len(rows), NEW x \in 1 .. n
      PROVE  Signed(order[Len(order) - n + x], Value(rows[i], order[Len(order) - n + x].col)) \in Int
  <2> DEFINE y == Len(order) - n + x
  <2>1. y \in DOMAIN order
    BY <1>1
  <2> HIDE DEF y
  <2>2. Value(rows[i], order[y].col) \in Int
    BY <1>1, <2>1, ValueIsPlace
  <2>3. Signed(order[y], Value(rows[i], order[y].col)) \in Int
    BY <2>2, SignedOrder
  <2> QED BY <2>3 DEF y
<1>4. \A i \in 1 .. Len(rows), x \in 1 .. n :
        ValueKeys(rows, order, n)[i][x]
          = Signed(order[Len(order) - n + x], Value(rows[i], order[Len(order) - n + x].col))
  BY <1>2
<1>5. \A i \in 1 .. Len(rows) : Tuple(ValueKeys(rows, order, n)[i], n)
  BY <1>2 DEF Tuple
<1> QED BY <1>3, <1>4, <1>5 DEF Tuples

(* One more stable sort is one more value before the tuples.               *)
LEMMA SortsOneMore ==
  ASSUME PlaceOK, NEW rows, NEW order, Sortable(rows, order),
         NEW n \in 0 .. Len(order), n < Len(order)
  PROVE  RdflibSort(order[Len(order) - n], StableSort(rows, ValueKeys(rows, order, n)))
           = StableSort(rows, ValueKeys(rows, order, n + 1))
<1> DEFINE L == Len(rows)
           by == order[Len(order) - n]
           key == ValueKeys(rows, order, n)
           p == Placing(key, L)
           t == StableSort(rows, key)
           both == ValueKeys(rows, order, n + 1)
           w == [i \in 1 .. L |-> Signed(by, Value(rows[i], by.col))]
           one == [i \in DOMAIN t |-> <<(IF by.desc THEN -1 ELSE 1) * Value(t[i], by.col)>>]
<1>1. /\ L \in Nat /\ DOMAIN rows = 1 .. L /\ Len(order) \in Nat /\ DOMAIN order = 1 .. Len(order)
      /\ n \in Nat /\ n + 1 \in 0 .. Len(order) /\ Len(order) - n \in DOMAIN order
  BY DEF Sortable
<1>2. Tuples(key, L, n) /\ Tuples(both, L, n + 1)
  BY <1>1, ValueTuples
<1>3. \A i \in 1 .. L : w[i] \in Int
  <2> SUFFICES ASSUME NEW i \in 1 .. L PROVE w[i] \in Int
    OBVIOUS
  <2>1. Value(rows[i], by.col) \in Int
    BY <1>1, ValueIsPlace
  <2>2. Signed(by, Value(rows[i], by.col)) \in Int
    BY <2>1, SignedOrder
  <2> QED BY <2>2
<1>4. \A i \in 1 .. L : both[i][1] = w[i] /\ \A x \in 1 .. n : both[i][x + 1] = key[i][x]
  <2> SUFFICES ASSUME NEW i \in 1 .. L
               PROVE  both[i][1] = w[i] /\ \A x \in 1 .. n : both[i][x + 1] = key[i][x]
    OBVIOUS
  <2> DEFINE v(y) == Signed(order[y], Value(rows[i], order[y].col))
  <2>0. ASSUME NEW k \in 0 .. Len(order)
        PROVE  \A x \in 1 .. k : ValueKeys(rows, order, k)[i][x] = v(Len(order) - k + x)
    BY ValueTuples
  <2> HIDE DEF v
  <2>1. /\ \A x \in 1 .. n + 1 : both[i][x] = v(Len(order) - (n + 1) + x)
        /\ \A x \in 1 .. n : key[i][x] = v(Len(order) - n + x)
    BY <1>1, <2>0, Zenon
  <2> USE DEF v
  <2>2. w[i] = v(Len(order) - n)
    OBVIOUS
  <2> HIDE DEF v, both, key, w
  <2>3. both[i][1] = w[i]
    <3>1. 1 \in 1 .. n + 1 /\ Len(order) - (n + 1) + 1 = Len(order) - n
      BY <1>1
    <3>2. both[i][1] = v(Len(order) - (n + 1) + 1)
      BY <2>1, <3>1
    <3> QED BY <2>2, <3>1, <3>2
  <2>4. ASSUME NEW x \in 1 .. n PROVE both[i][x + 1] = key[i][x]
    <3>1. x + 1 \in 1 .. n + 1 /\ Len(order) - (n + 1) + (x + 1) = Len(order) - n + x
      BY <1>1
    <3>2. both[i][x + 1] = v(Len(order) - (n + 1) + (x + 1)) /\ key[i][x] = v(Len(order) - n + x)
      BY <2>1, <3>1
    <3> QED BY <3>1, <3>2
  <2> QED BY <2>3, <2>4
<1> HIDE DEF w
<1>5. t = [k \in 1 .. L |-> rows[p[k]]] /\ Arranges(p, OrderBy(key, L), L)
  BY <1>1, <1>2, SortPlaces
<1>6. \A i \in 1 .. L : one[i] = <<w[p[i]]>>
  <2> SUFFICES ASSUME NEW i \in 1 .. L PROVE one[i] = <<w[p[i]]>>
    OBVIOUS
  <2>1. p[i] \in 1 .. L
    BY <1>5 DEF Arranges
  <2>2. t[i] = rows[p[i]] /\ i \in DOMAIN t
    BY <1>5
  <2>3. w[p[i]] = Signed(by, Value(rows[p[i]], by.col))
    BY <2>1 DEF w
  <2> HIDE DEF t, p, by
  <2> QED BY <2>2, <2>3 DEF Signed
<1>7. RdflibSort(by, t) = StableSort(t, one)
  BY DEF RdflibSort
<1> HIDE DEF one, both, by
<1>8. StableSort(t, one) = StableSort(rows, both)
  <2>1. \A i \in 1 .. L : one[i] = <<w[Placing(key, L)[i]]>>
    BY <1>6
  <2> HIDE DEF L, key, p, t
  <2>2. StableSort(StableSort(rows, key), one) = StableSort(rows, both)
    BY <1>1, <1>2, <1>3, <1>4, <2>1, SortTwice, SMTT(40)
  <2> QED BY <2>2 DEF t
<1> QED BY <1>7, <1>8 DEF both, by

(* rdflib's chain of sorts is one sort by all the conditions' values.      *)
LEMMA RdflibSortsAtOnce ==
  ASSUME PlaceOK, NEW rows, NEW order, Sortable(rows, order)
  PROVE  SortedUpTo(rows, order)[Len(order)] = StableSort(rows, ValueKeys(rows, order, Len(order)))
<1> DEFINE N == Len(order)
           P(h) == h = [n \in 0 .. N |->
                          IF n = 0 THEN rows ELSE RdflibSort(order[N - n + 1], h[n - 1])]
           g == [n \in 0 .. N |-> StableSort(rows, ValueKeys(rows, order, n))]
           sorted == SortedUpTo(rows, order)
<1>1. N \in Nat /\ Len(rows) \in Nat /\ rows = [i \in 1 .. Len(rows) |-> rows[i]]
  BY DEF Sortable
<1>2. g[0] = rows
  <2>1. 0 \in 0 .. N
    BY <1>1
  <2>2. Tuples(ValueKeys(rows, order, 0), Len(rows), 0)
    BY <2>1, ValueTuples
  <2>3. StableSort(rows, ValueKeys(rows, order, 0)) = rows
    BY <1>1, <2>2, SortNothing
  <2> QED BY <2>1, <2>3
<1>3. ASSUME NEW n \in 0 .. N, n < N
      PROVE  g[n + 1] = RdflibSort(order[N - n], g[n])
  <2>1. n + 1 \in 0 .. N
    BY <1>1, <1>3
  <2>2. g[n] = StableSort(rows, ValueKeys(rows, order, n))
        /\ g[n + 1] = StableSort(rows, ValueKeys(rows, order, n + 1))
    BY <2>1
  <2> HIDE DEF g
  <2> QED BY <1>3, <2>2, SortsOneMore
<1>4. \A n \in 0 .. N : n # 0 =>
        n - 1 \in 0 .. N /\ n - 1 < N /\ n - 1 + 1 = n /\ N - (n - 1) = N - n + 1
  BY <1>1
<1>5. P(g)
  <2>1. ASSUME NEW n \in 0 .. N
        PROVE  g[n] = IF n = 0 THEN rows ELSE RdflibSort(order[N - n + 1], g[n - 1])
    <3> HIDE DEF g, N
    <3>1. CASE n = 0
      BY <1>2, <3>1
    <3>2. CASE n # 0
      <4>1. g[n - 1 + 1] = RdflibSort(order[N - (n - 1)], g[n - 1])
        BY <1>3, <1>4, <3>2
      <4> QED BY <1>4, <3>2, <4>1
    <3> QED BY <3>1, <3>2
  <2>2. g = [n \in 0 .. N |-> g[n]]
    OBVIOUS
  <2> HIDE DEF g, N
  <2> QED BY <2>1, <2>2
<1> HIDE DEF g
<1>6. P(CHOOSE h : P(h))
  BY <1>5, Zenon
<1>7. sorted = CHOOSE h : P(h)
  BY DEF SortedUpTo
<1>8. P(sorted)
  BY <1>6, <1>7, Zenon
<1> HIDE DEF sorted, N
<1>9. Nat \subseteq {n \in Nat : n <= N => sorted[n] = g[n]}
  <2> DEFINE S == {n \in Nat : n <= N => sorted[n] = g[n]}
  <2>1. 0 \in S
    BY <1>1, <1>2, <1>8
  <2>2. ASSUME NEW n \in Nat, n \in S PROVE n + 1 \in S
    <3> SUFFICES ASSUME n + 1 <= N PROVE sorted[n + 1] = g[n + 1]
      OBVIOUS
    <3>1. sorted[n] = g[n] /\ n \in 0 .. N /\ n < N
      BY <1>1, <2>2
    <3>2. PICK k \in 0 .. N : k = n + 1 /\ k # 0
      BY <1>1
    <3>3. sorted[k] = RdflibSort(order[N - k + 1], sorted[k - 1])
      BY <1>8, <3>2, Zenon
    <3>4. k - 1 = n /\ N - k + 1 = N - n
      BY <1>1, <3>2
    <3> QED BY <1>3, <3>1, <3>2, <3>3, <3>4
  <2> HIDE DEF S
  <2>3. Nat \subseteq S
    BY <2>1, <2>2, SetInduction
  <2> QED BY <2>3 DEF S
<1>10. sorted[N] = g[N] /\ N \in 0 .. N
  BY <1>1, <1>9
<1> QED BY <1>10 DEF g, sorted, N

(* How many values of f are below c's: the order of f's values.            *)
LEMMA CountedBelow ==
  ASSUME NEW T, IsFiniteSet(T), NEW f \in [T -> Int],
         NEW low, \A c \in T : low[c] = Cardinality({f[d] : d \in {e \in T : f[e] < f[c]}})
  PROVE  /\ Cardinality(T) \in Nat
         /\ \A c \in T : low[c] \in Nat /\ low[c] < Cardinality(T)
         /\ \A c, d \in T : low[c] < low[d] <=> f[c] < f[d]
<1> DEFINE under(c) == {e \in T : f[e] < f[c]}
           lows(c) == {f[d] : d \in under(c)}
<1>1. Cardinality(T) \in Nat
  BY FS_CardinalityType
<1>2. ASSUME NEW c \in T
      PROVE  IsFiniteSet(lows(c)) /\ low[c] = Cardinality(lows(c)) /\ low[c] \in Nat
             /\ low[c] < Cardinality(T)
  <2>1. under(c) \in SUBSET (T \ {c})
    OBVIOUS
  <2>2. IsFiniteSet(T \ {c}) /\ Cardinality(T \ {c}) = Cardinality(T) - 1
    BY FS_RemoveElement
  <2> HIDE DEF under
  <2>3. IsFiniteSet(under(c)) /\ Cardinality(under(c)) <= Cardinality(T) - 1
    BY <2>1, <2>2, FS_Subset
  <2> DEFINE U == under(c)
             h == [d \in U |-> f[d]]
             V == {f[d] : d \in U}
  <2>4. h \in Surjection(U, V)
    BY DEF Surjection
  <2> HIDE DEF U, h, V
  <2>5. IsFiniteSet(V) /\ Cardinality(V) <= Cardinality(U)
    BY <2>3, <2>4, FS_Surjection DEF U
  <2>6. Cardinality(V) \in Nat /\ Cardinality(U) \in Nat
    BY <2>3, <2>5, FS_CardinalityType DEF U
  <2>7. low[c] = Cardinality(V)
    BY DEF V, U, under
  <2> QED BY <1>1, <2>3, <2>5, <2>6, <2>7 DEF V, U
<1>3. ASSUME NEW c \in T, NEW d \in T, f[c] < f[d]
      PROVE  low[c] < low[d]
  <2>1. lows(c) \in SUBSET lows(d) /\ f[c] \in lows(d) /\ f[c] \notin lows(c)
    <3>1. \A e \in T : f[e] \in Int
      OBVIOUS
    <3>2. under(c) \subseteq under(d) /\ c \in under(d)
      BY <1>3, <3>1
    <3>3. \A e \in under(c) : f[e] # f[c]
      BY <3>1
    <3> HIDE DEF under
    <3> QED BY <3>2, <3>3
  <2> HIDE DEF lows
  <2>2. Cardinality(lows(c)) <= Cardinality(lows(d)) /\ Cardinality(lows(c)) # Cardinality(lows(d))
    BY <1>2, <2>1, FS_Subset
  <2>3. low[c] \in Nat /\ low[d] \in Nat
    BY <1>2
  <2> QED BY <1>2, <2>2, <2>3
<1>4. ASSUME NEW c \in T, NEW d \in T, f[c] = f[d]
      PROVE  low[c] = low[d]
  BY <1>4
<1>5. ASSUME NEW c \in T, NEW d \in T
      PROVE  low[c] < low[d] <=> f[c] < f[d]
  <2>1. low[c] \in Nat /\ low[d] \in Nat /\ f[c] \in Int /\ f[d] \in Int
    BY <1>2
  <2>2. f[d] < f[c] => low[d] < low[c]
    BY <1>3
  <2>3. f[c] = f[d] => low[c] = low[d]
    BY <1>4
  <2>4. f[c] < f[d] => low[c] < low[d]
    BY <1>3
  <2> QED BY <2>1, <2>2, <2>3, <2>4
<1> QED BY <1>1, <1>2, <1>5

(* The place of a code's term; the kinds of the codes ranked.              *)
At(c) == IF c = None THEN -1 ELSE place[TermOf(c)]

LEMMA PlaceOfCode ==
  ASSUME PlaceOK, NEW c \in Codes
  PROVE  At(c) \in Nat /\ At(c) = place[TermOf(c)] /\ c # None
<1>1. TermOf(c) \in Names \cup Terms
  BY DEF TermOf, Codes, PlaceOK, FileOK
<1>2. place \in [Names \cup Terms -> Nat]
  BY HeadsAssumption DEF PlaceOK
<1>3. c # None
  BY AliasAssumption DEF Codes
<1> QED BY <1>1, <1>2, <1>3 DEF At

(* Blank nodes before IRIs before the rest, blank nodes as their codes.    *)
LEMMA KindsInPlace ==
  ASSUME PlaceOK, NEW S \in SUBSET Codes
  PROVE  /\ S = Blanks(S) \cup Iris(S) \cup Others(S)
         /\ Blanks(S) \cap Iris(S) = {}
         /\ Others(S) \cap (Blanks(S) \cup Iris(S)) = {}
         /\ \A b \in Blanks(S), c \in Blanks(S) : b < c => At(b) < At(c)
         /\ \A b \in Blanks(S), i \in Iris(S) : At(b) < At(i)
         /\ \A b \in Blanks(S) \cup Iris(S), o \in Others(S) : At(b) < At(o)
<1>1. /\ BlankLo \in Nat /\ IriLo \in Nat /\ BlankLo >= IriLo
      /\ \A c, d \in Names : /\ c >= BlankLo /\ d >= BlankLo /\ c < d => place[c] < place[d]
                             /\ c >= BlankLo /\ d >= IriLo /\ d < BlankLo => place[c] < place[d]
      /\ \A c \in Names, t \in Terms : place[c] < place[t]
  BY HeadsAssumption, AliasAssumption DEF PlaceOK
<1>2. \A c \in S : c \in Int /\ (c >= 0 => (c \in Names <=> c >= IriLo)) /\ At(c) = place[TermOf(c)]
  BY AliasAssumption, PlaceOfCode
<1>3. \A c \in Blanks(S) : c \in Names /\ c >= BlankLo /\ At(c) = place[c] /\ c \in S /\ ByKind(S)
  BY <1>1, <1>2, AliasAssumption DEF Blanks, TermOf
<1>4. \A c \in Iris(S) : c \in Names /\ c >= IriLo /\ c < BlankLo /\ At(c) = place[c] /\ c \in S
                         /\ ByKind(S)
  BY <1>1, <1>2, AliasAssumption DEF Iris, TermOf
<1>5. ASSUME ByKind(S), NEW c \in Others(S)
      PROVE  c \in S /\ TermOf(c) \in Terms
  <2>1. c \in S /\ c >= 0 /\ c < IriLo
    BY <1>1, <1>2, <1>5 DEF Others, Blanks, Iris, ByKind, Foreign
  <2>2. c \in Literals
    BY <1>1, <1>2, <2>1 DEF Codes
  <2> QED BY <2>1, <2>2 DEF TermOf, PlaceOK, FileOK
<1>6. S = Blanks(S) \cup Iris(S) \cup Others(S)
  BY DEF Others, Blanks, Iris
<1>7. Blanks(S) \cap Iris(S) = {}
  BY <1>1, <1>2, <1>3, <1>4
<1>8. Others(S) \cap (Blanks(S) \cup Iris(S)) = {}
  BY DEF Others
<1>9. \A b \in Blanks(S), c \in Blanks(S) : b < c => At(b) < At(c)
  BY <1>1, <1>3
<1>10. \A b \in Blanks(S), i \in Iris(S) : At(b) < At(i)
  BY <1>1, <1>3, <1>4
<1>11. ASSUME NEW b \in Blanks(S) \cup Iris(S), NEW o \in Others(S)
       PROVE  At(b) < At(o)
  <2>1. b \in Names /\ At(b) = place[b] /\ ByKind(S)
    BY <1>3, <1>4
  <2>2. TermOf(o) \in Terms /\ At(o) = place[TermOf(o)]
    BY <1>2, <1>5, <2>1
  <2> QED BY <1>1, <2>1, <2>2
<1> QED BY <1>6, <1>7, <1>8, <1>9, <1>10, <1>11

(* Ranks are in the order of places, unbound first: _rank_codes.           *)
LEMMA RankInPlace ==
  ASSUME PlaceOK, NEW S \in SUBSET Codes, IsFiniteSet(S)
  PROVE  /\ \A c \in S \cup {None} : Rank(S, c) \in Int
         /\ \A c, d \in S \cup {None} : Rank(S, c) < Rank(S, d) <=> At(c) < At(d)
<1> DEFINE B == Blanks(S)
           I == Iris(S)
           O == Others(S)
           nb == Cardinality(B)
           ni == Cardinality(I)
           r(c) == Rank(S, c)
<1>1. B \in SUBSET S /\ I \in SUBSET S /\ O \in SUBSET S
  BY DEF Blanks, Iris, Others
<1>2. /\ S = B \cup I \cup O /\ B \cap I = {} /\ O \cap (B \cup I) = {}
      /\ \A b \in B, c \in B : b < c => At(b) < At(c)
      /\ \A b \in B, i \in I : At(b) < At(i)
      /\ \A b \in B \cup I, o \in O : At(b) < At(o)
  BY KindsInPlace
<1>3. IsFiniteSet(B) /\ IsFiniteSet(I) /\ IsFiniteSet(O) /\ nb \in Nat /\ ni \in Nat
  <2>1. IsFiniteSet(B) /\ IsFiniteSet(I) /\ IsFiniteSet(O)
    BY <1>1, FS_Subset
  <2> QED BY <2>1, FS_CardinalityType
<1>4. \A c \in S : c \in Int /\ c # None /\ At(c) \in Nat /\ At(c) = place[TermOf(c)]
  BY AliasAssumption, PlaceOfCode
<1>5. /\ r(None) = -1
      /\ \A c \in B : r(c) = Cardinality({d \in B : d < c})
      /\ \A c \in I : r(c) = nb + KeyedRank(I, c)
      /\ \A c \in O : r(c) = nb + ni + KeyedRank(O, c)
  <2>1. \A c \in S : c # None
    BY <1>4
  <2> QED BY <1>1, <1>2, <2>1 DEF Rank
<1> HIDE DEF B, I, O, nb, ni, r
<1>6. ASSUME NEW T, T \in SUBSET S, IsFiniteSet(T)
      PROVE  /\ Cardinality(T) \in Nat
             /\ \A c \in T : KeyedRank(T, c) \in Nat /\ KeyedRank(T, c) < Cardinality(T)
             /\ \A c, d \in T : KeyedRank(T, c) < KeyedRank(T, d) <=> At(c) < At(d)
  <2> DEFINE f == [c \in T |-> At(c)]
             low == [c \in T |-> KeyedRank(T, c)]
  <2>1. f \in [T -> Int]
    BY <1>4, <1>6
  <2>2. ASSUME NEW c \in T
        PROVE  low[c] = Cardinality({f[d] : d \in {e \in T : f[e] < f[c]}})
    <3>1. {e \in T : place[TermOf(e)] < place[TermOf(c)]} = {e \in T : f[e] < f[c]}
      BY <1>4, <1>6
    <3>2. {place[TermOf(d)] : d \in {e \in T : place[TermOf(e)] < place[TermOf(c)]}}
            = {f[d] : d \in {e \in T : f[e] < f[c]}}
      BY <1>4, <1>6, <3>1
    <3> QED BY <3>2 DEF KeyedRank
  <2>3. (\A c \in T : low[c] = KeyedRank(T, c)) /\ (\A c \in T : f[c] = At(c))
    OBVIOUS
  <2> HIDE DEF f, low
  <2>4. /\ Cardinality(T) \in Nat
        /\ \A c \in T : low[c] \in Nat /\ low[c] < Cardinality(T)
        /\ \A c, d \in T : low[c] < low[d] <=> f[c] < f[d]
    BY <1>6, <2>1, <2>2, CountedBelow
  <2> QED BY <2>3, <2>4
<1>7. /\ \A c \in B : r(c) \in Nat /\ r(c) < nb
      /\ \A c, d \in B : r(c) < r(d) <=> At(c) < At(d)
  <2> DEFINE f == [c \in B |-> c]
             low == [c \in B |-> r(c)]
  <2>1. f \in [B -> Int]
    BY <1>1, <1>4
  <2>2. ASSUME NEW c \in B
        PROVE  low[c] = Cardinality({f[d] : d \in {e \in B : f[e] < f[c]}})
    <3>1. {f[d] : d \in {e \in B : f[e] < f[c]}} = {d \in B : d < c}
      OBVIOUS
    <3> QED BY <1>5, <3>1
  <2>3. (\A c \in B : low[c] = r(c)) /\ (\A c \in B : f[c] = c)
    OBVIOUS
  <2> HIDE DEF f, low
  <2>4. /\ \A c \in B : low[c] \in Nat /\ low[c] < nb
        /\ \A c, d \in B : low[c] < low[d] <=> f[c] < f[d]
    BY <1>3, <2>1, <2>2, CountedBelow DEF nb
  <2>5. \A c, d \in B : c < d <=> At(c) < At(d)
    <3>1. \A c \in B : c \in Int /\ At(c) \in Nat
      BY <1>1, <1>4
    <3>2. \A c, d \in B : c < d => At(c) < At(d)
      BY <1>2
    <3>3. \A c, d \in B : c = d => At(c) = At(d)
      OBVIOUS
    <3> QED BY <3>1, <3>2, <3>3
  <2> QED BY <2>3, <2>4, <2>5
<1>8. /\ \A c \in I : r(c) \in Nat /\ r(c) >= nb /\ r(c) < nb + ni
      /\ \A c, d \in I : r(c) < r(d) <=> At(c) < At(d)
  <2>1. /\ ni \in Nat
        /\ \A c \in I : KeyedRank(I, c) \in Nat /\ KeyedRank(I, c) < ni
        /\ \A c, d \in I : KeyedRank(I, c) < KeyedRank(I, d) <=> At(c) < At(d)
    BY <1>1, <1>3, <1>6 DEF ni
  <2> QED BY <1>3, <1>5, <2>1
<1>9. /\ \A c \in O : r(c) \in Nat /\ r(c) >= nb + ni
      /\ \A c, d \in O : r(c) < r(d) <=> At(c) < At(d)
  <2>1. /\ \A c \in O : KeyedRank(O, c) \in Nat
        /\ \A c, d \in O : KeyedRank(O, c) < KeyedRank(O, d) <=> At(c) < At(d)
    BY <1>1, <1>3, <1>6
  <2> QED BY <1>3, <1>5, <2>1
<1>10. At(None) = -1
  BY DEF At
<1>11. \A c \in S \cup {None} : r(c) \in Int
  BY <1>2, <1>5, <1>7, <1>8, <1>9
<1>12. ASSUME NEW c \in S \cup {None}, NEW d \in S \cup {None}
       PROVE  r(c) < r(d) <=> At(c) < At(d)
  <2>1. CASE c = None
    <3>1. d # None => r(d) \in Nat /\ At(d) \in Nat
      BY <1>2, <1>4, <1>7, <1>8, <1>9
    <3> QED BY <1>5, <1>10, <2>1, <3>1
  <2>2. CASE d = None
    <3>1. c # None => r(c) \in Nat /\ At(c) \in Nat
      BY <1>2, <1>4, <1>7, <1>8, <1>9
    <3> QED BY <1>5, <1>10, <2>2, <3>1
  <2>3. CASE c \in B
    <3>1. At(c) \in Nat /\ r(c) \in Nat /\ r(c) < nb
      BY <1>1, <1>4, <1>7, <2>3
    <3>2. d \in I \cup O => At(c) < At(d) /\ r(d) >= nb /\ r(d) \in Nat
      BY <1>2, <1>3, <1>8, <1>9, <2>3
    <3> QED BY <1>2, <1>3, <1>7, <2>2, <2>3, <3>1, <3>2
  <2>4. CASE c \in I
    <3>1. At(c) \in Nat /\ r(c) \in Nat /\ r(c) >= nb /\ r(c) < nb + ni
      BY <1>1, <1>4, <1>8, <2>4
    <3>2. d \in B => At(d) < At(c) /\ r(d) < nb /\ r(d) \in Nat /\ At(d) \in Nat
      BY <1>1, <1>2, <1>4, <1>7, <2>4
    <3>3. d \in O => At(c) < At(d) /\ r(d) >= nb + ni /\ r(d) \in Nat
      BY <1>2, <1>9, <2>4
    <3> QED BY <1>2, <1>3, <1>8, <2>2, <2>4, <3>1, <3>2, <3>3
  <2>5. CASE c \in O
    <3>1. At(c) \in Nat /\ r(c) \in Nat /\ r(c) >= nb + ni
      BY <1>1, <1>4, <1>9, <2>5
    <3>2. d \in B \cup I => At(d) < At(c) /\ r(d) < nb + ni /\ r(d) \in Nat /\ At(d) \in Nat
      BY <1>1, <1>2, <1>3, <1>4, <1>7, <1>8, <2>5
    <3> QED BY <1>2, <1>3, <1>9, <2>2, <2>5, <3>1, <3>2
  <2> QED BY <1>2, <2>1, <2>3, <2>4, <2>5
<1> QED BY <1>11, <1>12 DEF r

(* Keys that compare alike sort alike.                                     *)
ComparedAlike(one, two, n, m) ==
  \A i, j \in 1 .. n, x \in 1 .. m : one[i][x] < one[j][x] <=> two[i][x] < two[j][x]

LEMMA SortsAlike ==
  ASSUME NEW n \in Nat, NEW m \in Nat, NEW one, NEW two, Tuples(one, n, m), Tuples(two, n, m),
         ComparedAlike(one, two, n, m), NEW s, DOMAIN s = 1 .. n
  PROVE  StableSort(s, one) = StableSort(s, two)
<1> DEFINE N == 1 .. n
<1>1. \A i \in N : /\ DOMAIN one[i] = 1 .. m /\ DOMAIN two[i] = 1 .. m
                   /\ Tuple(one[i], m) /\ Tuple(two[i], m)
                   /\ \A x \in 1 .. m : one[i][x] \in Int /\ two[i][x] \in Int
  BY DEF Tuples, Tuple
<1>2. ASSUME NEW i \in N, NEW j \in N, NEW x \in 1 .. m
      PROVE  one[i][x] = one[j][x] <=> two[i][x] = two[j][x]
  <2>1. one[i][x] \in Int /\ one[j][x] \in Int /\ two[i][x] \in Int /\ two[j][x] \in Int
    BY <1>1
  <2>2. /\ one[i][x] < one[j][x] <=> two[i][x] < two[j][x]
        /\ one[j][x] < one[i][x] <=> two[j][x] < two[i][x]
    BY DEF ComparedAlike
  <2> QED BY <2>1, <2>2
<1>3. ASSUME NEW i \in N, NEW j \in N
      PROVE  Before(one, i, j) <=> Before(two, i, j)
  <2>1. one[i] = one[j] <=> two[i] = two[j]
    <3>1. one[i] = one[j] <=> \A x \in 1 .. m : one[i][x] = one[j][x]
      BY <1>1 DEF Tuple
    <3>2. two[i] = two[j] <=> \A x \in 1 .. m : two[i][x] = two[j][x]
      BY <1>1 DEF Tuple
    <3> QED BY <1>2, <3>1, <3>2
  <2>2. LexLess(one[i], one[j]) <=> LexLess(two[i], two[j])
    <3>1. \A x \in 1 .. m : \A y \in 1 .. x - 1 : y \in 1 .. m
      OBVIOUS
    <3>2. \A x \in 1 .. m :
            /\ one[i][x] < one[j][x] <=> two[i][x] < two[j][x]
            /\ (\A y \in 1 .. x - 1 : one[i][y] = one[j][y])
                 <=> \A y \in 1 .. x - 1 : two[i][y] = two[j][y]
      BY <1>2, <3>1 DEF ComparedAlike
    <3>3. DOMAIN one[i] = 1 .. m /\ DOMAIN two[i] = 1 .. m
      BY <1>1
    <3> HIDE DEF N
    <3> QED BY <3>2, <3>3, Zenon DEF LexLess
  <2> QED BY <2>1, <2>2 DEF Before
<1>4. OrderBy(one, n) = OrderBy(two, n)
  BY <1>3 DEF OrderBy
<1>5. /\ StableSort(s, one) = [k \in 1 .. n |-> s[Placing(one, n)[k]]]
      /\ StableSort(s, two) = [k \in 1 .. n |-> s[Placing(two, n)[k]]]
  BY SortPlaces
<1> QED BY <1>4, <1>5 DEF Placing

RankKeys(rows, order) == [i \in DOMAIN rows |-> RankKey(rows, order, rows[i])]

(* A sort by each column's ranks is one by the terms' places.              *)
LEMMA RanksSort ==
  ASSUME PlaceOK, NEW rows, NEW order, Sortable(rows, order)
  PROVE  StableSort(rows, RankKeys(rows, order))
           = StableSort(rows, ValueKeys(rows, order, Len(order)))
<1> DEFINE L == Len(rows)
           N == Len(order)
           ranks == RankKeys(rows, order)
           values == ValueKeys(rows, order, N)
<1>1. L \in Nat /\ DOMAIN rows = 1 .. L /\ N \in Nat /\ DOMAIN order = 1 .. N
  BY DEF Sortable
<1>2. ASSUME NEW x \in 1 .. N
      PROVE  LET S == Column(rows, order[x].col)
             IN  S \in SUBSET Codes /\ IsFiniteSet(S)
                   /\ \A i \in 1 .. L : rows[i][order[x].col] \in S \cup {None}
  <2> DEFINE col == order[x].col
             h == [i \in 1 .. L |-> rows[i][col]]
             T == {rows[i][col] : i \in 1 .. L}
  <2>1. Column(rows, col) = T \ {None}
    BY <1>1 DEF Column
  <2>2. \A i \in 1 .. L : rows[i][col] \in Codes \cup {None}
    BY <1>1, ValueIsPlace
  <2>3. IsFiniteSet(T)
    <3>1. h \in Surjection(1 .. L, T)
      BY DEF Surjection
    <3>2. IsFiniteSet(1 .. L)
      BY <1>1, FS_Interval
    <3> HIDE DEF h, T
    <3> QED BY <3>1, <3>2, FS_Surjection
  <2>4. IsFiniteSet(T \ {None})
    <3> HIDE DEF T
    <3> QED BY <2>3, FS_Subset
  <2>5. T \ {None} \in SUBSET Codes /\ \A i \in 1 .. L : rows[i][col] \in (T \ {None}) \cup {None}
    BY <2>2
  <2> HIDE DEF T, col
  <2> QED BY <2>1, <2>4, <2>5 DEF col
<1>3. ASSUME NEW i \in 1 .. L, NEW x \in 1 .. N
      PROVE  /\ ranks[i][x] = Signed(order[x], Rank(Column(rows, order[x].col), rows[i][order[x].col]))
             /\ values[i][x] = Signed(order[x], At(rows[i][order[x].col]))
  <2>1. ranks[i][x] = Signed(order[x], Rank(Column(rows, order[x].col), rows[i][order[x].col]))
    BY <1>1 DEF RankKeys, RankKey, Signed
  <2>2. values[i][x] = Signed(order[N - N + x], Value(rows[i], order[N - N + x].col))
    <3>1. ASSUME NEW k \in 0 .. Len(order)
          PROVE  \A z \in 1 .. k :
                   ValueKeys(rows, order, k)[i][z]
                     = Signed(order[Len(order) - k + z], Value(rows[i], order[Len(order) - k + z].col))
      BY ValueTuples
    <3>2. N \in 0 .. N
      BY <1>1
    <3> QED BY <3>1, <3>2, Zenon
  <2>3. N - N + x = x
    BY <1>1
  <2>4. Value(rows[i], order[x].col) = At(rows[i][order[x].col])
    BY DEF Value, At
  <2> HIDE DEF values, ranks, N
  <2> QED BY <2>1, <2>2, <2>3, <2>4
<1>4. Tuples(values, L, N)
  BY <1>1, ValueTuples
<1>5. ASSUME NEW x \in 1 .. N, NEW i \in 1 .. L, NEW j \in 1 .. L
      PROVE  /\ ranks[i][x] \in Int
             /\ ranks[i][x] < ranks[j][x] <=> values[i][x] < values[j][x]
  <2> DEFINE S == Column(rows, order[x].col)
             c == rows[i][order[x].col]
             d == rows[j][order[x].col]
  <2>1. S \in SUBSET Codes /\ IsFiniteSet(S) /\ c \in S \cup {None} /\ d \in S \cup {None}
    BY <1>2
  <2>2. /\ ranks[i][x] = Signed(order[x], Rank(S, c)) /\ ranks[j][x] = Signed(order[x], Rank(S, d))
        /\ values[i][x] = Signed(order[x], At(c)) /\ values[j][x] = Signed(order[x], At(d))
    BY <1>3
  <2> HIDE DEF S, c, d, ranks, values
  <2>3. /\ Rank(S, c) \in Int /\ Rank(S, d) \in Int
        /\ Rank(S, c) < Rank(S, d) <=> At(c) < At(d)
        /\ Rank(S, d) < Rank(S, c) <=> At(d) < At(c)
    BY <2>1, RankInPlace
  <2>4. At(c) \in Int /\ At(d) \in Int
    <3>1. At(None) = -1
      BY DEF At
    <3> QED BY <2>1, <3>1, PlaceOfCode
  <2>5. /\ Signed(order[x], Rank(S, c)) \in Int
        /\ Signed(order[x], Rank(S, c)) < Signed(order[x], Rank(S, d))
             <=> IF order[x].desc THEN Rank(S, d) < Rank(S, c) ELSE Rank(S, c) < Rank(S, d)
    BY <2>3, SignedOrder
  <2>6. Signed(order[x], At(c)) < Signed(order[x], At(d))
             <=> IF order[x].desc THEN At(d) < At(c) ELSE At(c) < At(d)
    BY <2>4, SignedOrder
  <2> QED BY <2>2, <2>3, <2>5, <2>6
<1>6. Tuples(ranks, L, N)
  <2>1. \A i \in 1 .. L : ranks[i] = [x \in 1 .. N |-> ranks[i][x]]
    BY <1>1 DEF RankKeys, RankKey
  <2> HIDE DEF ranks
  <2> QED BY <1>5, <2>1 DEF Tuples, Tuple
<1> HIDE DEF ranks, values, L, N
<1>7. ComparedAlike(ranks, values, L, N)
  BY <1>5 DEF ComparedAlike
<1>8. StableSort(rows, ranks) = StableSort(rows, values)
  BY <1>1, <1>4, <1>6, <1>7, SortsAlike
<1> QED BY <1>8 DEF ranks, values, N

-----------------------------------------------------------------------------
(* Sequences read up to a place, and each element once, as first seen.     *)

Leads(s, t) == Len(s) <= Len(t) /\ \A i \in 1 .. Len(s) : s[i] = t[i]

LEMMA AppendedSet ==
  ASSUME NEW T, NEW s \in Seq(T), NEW x
  PROVE  ToSet(Append(s, x)) = ToSet(s) \cup {x}
<1> DEFINE t == Append(s, x)
<1>1. /\ Len(s) \in Nat /\ DOMAIN s = 1 .. Len(s) /\ DOMAIN t = 1 .. Len(s) + 1
      /\ t[Len(s) + 1] = x /\ \A i \in 1 .. Len(s) : t[i] = s[i]
  OBVIOUS
<1> HIDE DEF t
<1>2. \A i \in 1 .. Len(s) + 1 : i \in 1 .. Len(s) \/ i = Len(s) + 1
  BY <1>1
<1>3. Len(s) + 1 \in 1 .. Len(s) + 1 /\ \A i \in 1 .. Len(s) : i \in 1 .. Len(s) + 1
  BY <1>1
<1> QED BY <1>1, <1>2, <1>3 DEF ToSet, t

LEMMA KeptUnfolds ==
  ASSUME NEW T, NEW s \in Seq(T)
  PROVE  /\ KeptUpTo(s)[0] = <<>>
         /\ \A n \in 1 .. Len(s) :
              KeptUpTo(s)[n] = IF s[n] \in ToSet(KeptUpTo(s)[n - 1]) THEN KeptUpTo(s)[n - 1]
                               ELSE Append(KeptUpTo(s)[n - 1], s[n])
         /\ \A n \in 0 .. Len(s) : KeptUpTo(s)[n] \in Seq(T)
<1> DEFINE N == Len(s)
           Next1(u, x) == IF x \in ToSet(u) THEN u ELSE Append(u, x)
           step == [i \in 1 .. N |-> [u \in Seq(T) |-> Next1(u, s[i])]]
           P(h) == h = [n \in 0 .. N |-> IF n = 0 THEN <<>>
                                         ELSE LET before == h[n - 1]
                                              IN  IF s[n] \in ToSet(before) THEN before
                                                  ELSE Append(before, s[n])]
           K == KeptUpTo(s)
<1>1. N \in Nat /\ <<>> \in Seq(T) /\ \A i \in 1 .. N : s[i] \in T
  OBVIOUS
<1>2. \A u \in Seq(T), x \in T : Next1(u, x) \in Seq(T)
  OBVIOUS
<1> HIDE DEF Next1
<1>3. step \in [1 .. N -> [Seq(T) -> Seq(T)]] /\ \A i \in 1 .. N, u \in Seq(T) : step[i][u] = Next1(u, s[i])
  BY <1>1, <1>2
<1> HIDE DEF step, N
<1>4. PICK g \in [0 .. N -> Seq(T)] : g[0] = <<>> /\ \A i \in 1 .. N : g[i] = step[i][g[i - 1]]
  <2>1. \E g : MadeBy(g, Seq(T), <<>>, N, step)
    BY <1>1, <1>3, StepByStep
  <2> QED BY <2>1, Zenon DEF MadeBy
<1>5. P(g)
  <2>1. ASSUME NEW n \in 0 .. N
        PROVE  g[n] = IF n = 0 THEN <<>> ELSE Next1(g[n - 1], s[n])
    <3>1. CASE n = 0
      BY <1>4, <3>1
    <3>2. CASE n # 0
      <4>1. n \in 1 .. N /\ n - 1 \in 0 .. N
        BY <1>1, <3>2
      <4>2. g[n - 1] \in Seq(T)
        BY <4>1
      <4> QED BY <1>3, <1>4, <3>2, <4>1, <4>2, Zenon
    <3> QED BY <3>1, <3>2
  <2> QED BY <1>4, <2>1, Zenon DEF Next1
<1>6. P(CHOOSE h : P(h))
  BY <1>5, Zenon
<1>7. K = CHOOSE h : P(h)
  BY DEF KeptUpTo, N
<1>8. P(K)
  BY <1>6, <1>7, Zenon
<1> HIDE DEF K
<1>9. K[0] = <<>> /\ \A n \in 1 .. N : K[n] = Next1(K[n - 1], s[n])
  <2>1. 0 \in 0 .. N /\ \A n \in 1 .. N : n \in 0 .. N /\ n # 0
    BY <1>1
  <2> QED BY <1>8, <2>1, Zenon DEF Next1
<1>10. \A n \in 0 .. N : K[n] \in Seq(T)
  <2> DEFINE S == {n \in Nat : n <= N => K[n] \in Seq(T)}
  <2>1. 0 \in S
    BY <1>1, <1>9
  <2>2. ASSUME NEW n \in Nat, n \in S PROVE n + 1 \in S
    <3> SUFFICES ASSUME n + 1 <= N PROVE K[n + 1] \in Seq(T)
      OBVIOUS
    <3>1. PICK k \in 1 .. N : k = n + 1
      BY <1>1
    <3>2. K[k - 1] \in Seq(T)
      BY <1>1, <2>2, <3>1
    <3>3. K[k] = Next1(K[k - 1], s[k])
      BY <1>9, Zenon
    <3> QED BY <1>1, <1>2, <3>1, <3>2, <3>3
  <2> HIDE DEF S
  <2>3. Nat \subseteq S
    BY <2>1, <2>2, SetInduction
  <2> QED BY <1>1, <2>3 DEF S
<1> QED BY <1>9, <1>10 DEF K, N, Next1

(* They are the elements met.                                              *)
LEMMA KeptHolds ==
  ASSUME NEW T, NEW s \in Seq(T)
  PROVE  \A n \in 0 .. Len(s) : ToSet(KeptUpTo(s)[n]) = {s[i] : i \in 1 .. n}
<1> DEFINE N == Len(s)
           K == KeptUpTo(s)
           S == {n \in Nat : n <= N => ToSet(K[n]) = {s[i] : i \in 1 .. n}}
<1>1. /\ K[0] = <<>>
      /\ \A n \in 1 .. N : K[n] = IF s[n] \in ToSet(K[n - 1]) THEN K[n - 1] ELSE Append(K[n - 1], s[n])
      /\ \A n \in 0 .. N : K[n] \in Seq(T)
  BY KeptUnfolds
<1>2. N \in Nat
  OBVIOUS
<1> HIDE DEF K, N
<1>3. 0 \in S
  BY <1>1 DEF ToSet
<1>4. ASSUME NEW n \in Nat, n \in S PROVE n + 1 \in S
  <2> SUFFICES ASSUME n + 1 <= N PROVE ToSet(K[n + 1]) = {s[i] : i \in 1 .. n + 1}
    OBVIOUS
  <2>1. PICK k \in 1 .. N : k = n + 1
    BY <1>2
  <2>2. K[k] = IF s[k] \in ToSet(K[k - 1]) THEN K[k - 1] ELSE Append(K[k - 1], s[k])
    BY <1>1, Zenon
  <2>3. k - 1 = n /\ n \in 0 .. N
    BY <1>2, <2>1
  <2>4. ToSet(K[n]) = {s[i] : i \in 1 .. n} /\ K[n] \in Seq(T)
    BY <1>1, <1>4, <2>3
  <2>5. {s[i] : i \in 1 .. n + 1} = {s[i] : i \in 1 .. n} \cup {s[k]}
    <3>1. \A i \in 1 .. n + 1 : i \in 1 .. n \/ i = k
      BY <2>1
    <3>2. \A i \in 1 .. n : i \in 1 .. n + 1
      OBVIOUS
    <3> QED BY <2>1, <3>1, <3>2
  <2>6. ToSet(Append(K[n], s[k])) = ToSet(K[n]) \cup {s[k]}
    BY <2>4, AppendedSet
  <2> QED BY <2>1, <2>2, <2>3, <2>4, <2>5, <2>6
<1> HIDE DEF S
<1>5. Nat \subseteq S
  BY <1>3, <1>4, SetInduction
<1> QED BY <1>2, <1>5 DEF S, K, N

(* What is kept of a sequence leads what is kept of it later.              *)
LEMMA KeptLeads ==
  ASSUME NEW T, NEW s \in Seq(T), NEW m \in 0 .. Len(s)
  PROVE  Leads(KeptUpTo(s)[m], FirstSeen(s))
<1> DEFINE N == Len(s)
           K == KeptUpTo(s)
           S == {n \in Nat : m + n <= N => Leads(K[m], K[m + n])}
<1>1. /\ \A n \in 1 .. N : K[n] = IF s[n] \in ToSet(K[n - 1]) THEN K[n - 1] ELSE Append(K[n - 1], s[n])
      /\ \A n \in 0 .. N : K[n] \in Seq(T)
  BY KeptUnfolds
<1>2. N \in Nat /\ m \in 0 .. N
  OBVIOUS
<1> HIDE DEF K, N
<1>3. 0 \in S
  BY <1>1, <1>2 DEF Leads
<1>4. ASSUME NEW n \in Nat, n \in S PROVE n + 1 \in S
  <2> SUFFICES ASSUME m + (n + 1) <= N PROVE Leads(K[m], K[m + (n + 1)])
    OBVIOUS
  <2>1. PICK k \in 1 .. N : k = m + (n + 1)
    BY <1>2
  <2>2. K[k] = IF s[k] \in ToSet(K[k - 1]) THEN K[k - 1] ELSE Append(K[k - 1], s[k])
    BY <1>1, Zenon
  <2>3. k - 1 = m + n /\ k - 1 \in 0 .. N
    BY <1>2, <2>1
  <2>4. Leads(K[m], K[k - 1]) /\ K[k - 1] \in Seq(T) /\ K[m] \in Seq(T)
    BY <1>1, <1>2, <1>4, <2>3
  <2>5. Leads(K[m], Append(K[k - 1], s[k]))
    BY <2>4 DEF Leads
  <2> QED BY <2>1, <2>2, <2>4, <2>5
<1> HIDE DEF S
<1>5. N - m \in S
  <2>1. Nat \subseteq S
    BY <1>3, <1>4, SetInduction
  <2> QED BY <1>2, <2>1
<1>6. m + (N - m) = N
  BY <1>2
<1> QED BY <1>2, <1>5, <1>6 DEF S, K, N, FirstSeen

(* What is kept depends on no later element.                               *)
LEMMA KeptOfLeading ==
  ASSUME NEW T, NEW s \in Seq(T), NEW t \in Seq(T), Leads(s, t)
  PROVE  \A n \in 0 .. Len(s) : KeptUpTo(s)[n] = KeptUpTo(t)[n]
<1> DEFINE K == KeptUpTo(s)
           M == KeptUpTo(t)
           N == Len(s)
           S == {n \in Nat : n <= N => K[n] = M[n]}
<1>1. /\ K[0] = <<>> /\ M[0] = <<>>
      /\ \A n \in 1 .. N : K[n] = IF s[n] \in ToSet(K[n - 1]) THEN K[n - 1] ELSE Append(K[n - 1], s[n])
      /\ \A n \in 1 .. Len(t) :
           M[n] = IF t[n] \in ToSet(M[n - 1]) THEN M[n - 1] ELSE Append(M[n - 1], t[n])
  BY KeptUnfolds
<1>2. N \in Nat /\ Len(t) \in Nat /\ N <= Len(t) /\ \A i \in 1 .. N : s[i] = t[i]
  BY DEF Leads
<1> HIDE DEF K, M, N
<1>3. 0 \in S
  BY <1>1
<1>4. ASSUME NEW n \in Nat, n \in S PROVE n + 1 \in S
  <2> SUFFICES ASSUME n + 1 <= N PROVE K[n + 1] = M[n + 1]
    OBVIOUS
  <2>1. PICK k \in 1 .. N : k = n + 1
    BY <1>2
  <2>2. k \in 1 .. Len(t) /\ s[k] = t[k] /\ k - 1 = n /\ n <= N
    BY <1>2, <2>1
  <2>3. K[k] = IF s[k] \in ToSet(K[k - 1]) THEN K[k - 1] ELSE Append(K[k - 1], s[k])
    BY <1>1, Zenon
  <2>4. M[k] = IF t[k] \in ToSet(M[k - 1]) THEN M[k - 1] ELSE Append(M[k - 1], t[k])
    BY <1>1, <2>2, Zenon
  <2>5. K[k - 1] = M[k - 1]
    BY <1>4, <2>2
  <2> QED BY <2>1, <2>2, <2>3, <2>4, <2>5
<1> HIDE DEF S
<1>5. Nat \subseteq S
  BY <1>3, <1>4, SetInduction
<1> QED BY <1>2, <1>5 DEF S, K, M, N

LEMMA FirstSeenOfAppend ==
  ASSUME NEW T, NEW s \in Seq(T), NEW x \in T
  PROVE  FirstSeen(Append(s, x))
           = IF x \in ToSet(s) THEN FirstSeen(s) ELSE Append(FirstSeen(s), x)
<1> DEFINE t == Append(s, x)
           N == Len(s)
           M == Len(s) + 1
<1>1. /\ t \in Seq(T) /\ Len(t) = M /\ t[M] = x /\ N \in Nat /\ M \in 1 .. M /\ M - 1 = N
      /\ N \in 0 .. N /\ Leads(s, t)
  BY DEF Leads
<1> HIDE DEF t, M
<1>2. KeptUpTo(t)[M] = IF t[M] \in ToSet(KeptUpTo(t)[M - 1]) THEN KeptUpTo(t)[M - 1]
                       ELSE Append(KeptUpTo(t)[M - 1], t[M])
  BY <1>1, KeptUnfolds
<1>3. KeptUpTo(t)[N] = FirstSeen(s)
  BY <1>1, KeptOfLeading DEF FirstSeen
<1>4. ToSet(FirstSeen(s)) = ToSet(s)
  <2>1. ToSet(KeptUpTo(s)[N]) = {s[i] : i \in 1 .. N}
    BY <1>1, KeptHolds
  <2>2. ToSet(s) = {s[i] : i \in 1 .. N}
    BY DEF ToSet
  <2> QED BY <2>1, <2>2 DEF FirstSeen
<1> QED BY <1>1, <1>2, <1>3, <1>4 DEF FirstSeen, t

Mapped(f, s) == [i \in DOMAIN s |-> f[s[i]]]

(* First seen twice, once before and once after a map, is once after it.   *)
LEMMA FirstSeenMapped ==
  ASSUME NEW T, NEW U, NEW f \in [T -> U], NEW s \in Seq(T)
  PROVE  FirstSeen(Mapped(f, FirstSeen(s))) = FirstSeen(Mapped(f, s))
<1> DEFINE N == Len(s)
           K == KeptUpTo(s)
           t == Mapped(f, s)
           M == KeptUpTo(t)
           S == {n \in Nat : n <= N => FirstSeen(Mapped(f, K[n])) = M[n]}
<1>1. ASSUME NEW u \in Seq(T), NEW x \in T
      PROVE  /\ Mapped(f, u) \in Seq(U) /\ Len(Mapped(f, u)) = Len(u)
             /\ ToSet(Mapped(f, u)) = {f[y] : y \in ToSet(u)}
             /\ Mapped(f, Append(u, x)) = Append(Mapped(f, u), f[x])
  <2>1. Mapped(f, u) \in Seq(U) /\ Len(Mapped(f, u)) = Len(u)
    BY DEF Mapped
  <2>2. ToSet(Mapped(f, u)) = {f[y] : y \in ToSet(u)}
    BY DEF Mapped, ToSet
  <2>3. Mapped(f, Append(u, x)) = Append(Mapped(f, u), f[x])
    BY DEF Mapped
  <2> QED BY <2>1, <2>2, <2>3
<1>2. N \in Nat /\ t \in Seq(U) /\ Len(t) = N /\ \A i \in 1 .. N : s[i] \in T /\ t[i] = f[s[i]] /\ f[s[i]] \in U
  BY <1>1 DEF Mapped
<1>3. /\ K[0] = <<>> /\ M[0] = <<>>
      /\ \A n \in 1 .. N : K[n] = IF s[n] \in ToSet(K[n - 1]) THEN K[n - 1] ELSE Append(K[n - 1], s[n])
      /\ \A n \in 1 .. N : M[n] = IF t[n] \in ToSet(M[n - 1]) THEN M[n - 1] ELSE Append(M[n - 1], t[n])
      /\ \A n \in 0 .. N : K[n] \in Seq(T) /\ M[n] \in Seq(U)
  BY <1>2, KeptUnfolds
<1>4. \A n \in 0 .. N : ToSet(K[n]) = {s[i] : i \in 1 .. n} /\ ToSet(M[n]) = {t[i] : i \in 1 .. n}
  <2>1. \A n \in 0 .. N : ToSet(K[n]) = {s[i] : i \in 1 .. n}
    BY KeptHolds
  <2> HIDE DEF t
  <2>2. \A n \in 0 .. Len(t) : ToSet(M[n]) = {t[i] : i \in 1 .. n}
    BY <1>2, KeptHolds
  <2> QED BY <1>2, <2>1, <2>2
<1> HIDE DEF K, M, N, t
<1>5. 0 \in S
  <2>1. Mapped(f, <<>>) = <<>>
    BY DEF Mapped
  <2>2. FirstSeen(<<>>) = <<>>
    <3>1. <<>> \in Seq(T) /\ Len(<<>>) = 0
      OBVIOUS
    <3> QED BY <3>1, KeptUnfolds DEF FirstSeen
  <2> QED BY <1>3, <2>1, <2>2
<1>6. ASSUME NEW n \in Nat, n \in S PROVE n + 1 \in S
  <2> SUFFICES ASSUME n + 1 <= N PROVE FirstSeen(Mapped(f, K[n + 1])) = M[n + 1]
    OBVIOUS
  <2>1. PICK k \in 1 .. N : k = n + 1
    BY <1>2
  <2>2. k - 1 = n /\ n \in 0 .. N
    BY <1>2, <2>1
  <2>3. K[k] = IF s[k] \in ToSet(K[k - 1]) THEN K[k - 1] ELSE Append(K[k - 1], s[k])
    BY <1>3, Zenon
  <2>4. M[k] = IF t[k] \in ToSet(M[k - 1]) THEN M[k - 1] ELSE Append(M[k - 1], t[k])
    BY <1>3, Zenon
  <2>5. /\ K[n] \in Seq(T) /\ s[k] \in T /\ t[k] = f[s[k]]
        /\ FirstSeen(Mapped(f, K[n])) = M[n]
    BY <1>2, <1>3, <1>6, <2>2
  <2>6. ToSet(K[n]) = {s[i] : i \in 1 .. n} /\ ToSet(M[n]) = {t[i] : i \in 1 .. n}
    BY <1>4, <2>2
  <2>7. ToSet(Mapped(f, K[n])) = ToSet(M[n])
    <3>1. ToSet(Mapped(f, K[n])) = {f[y] : y \in {s[i] : i \in 1 .. n}}
      BY <1>1, <2>5, <2>6
    <3>2. \A i \in 1 .. n : t[i] = f[s[i]]
      BY <1>2, <2>2
    <3> QED BY <2>6, <3>1, <3>2
  <2>8. CASE s[k] \in ToSet(K[n])
    <3>1. t[k] \in ToSet(M[n])
      <4>1. t[k] \in ToSet(Mapped(f, K[n]))
        BY <1>1, <2>5, <2>8
      <4> QED BY <2>7, <4>1
    <3> QED BY <2>1, <2>2, <2>3, <2>4, <2>5, <2>8, <3>1
  <2>9. CASE s[k] \notin ToSet(K[n])
    <3>1. K[k] = Append(K[n], s[k])
      BY <2>2, <2>3, <2>9
    <3>2. Mapped(f, K[k]) = Append(Mapped(f, K[n]), t[k])
      BY <1>1, <2>5, <3>1
    <3>3. FirstSeen(Append(Mapped(f, K[n]), t[k]))
            = IF t[k] \in ToSet(Mapped(f, K[n])) THEN FirstSeen(Mapped(f, K[n]))
              ELSE Append(FirstSeen(Mapped(f, K[n])), t[k])
      <4>1. Mapped(f, K[n]) \in Seq(U) /\ t[k] \in U
        BY <1>1, <1>2, <2>5
      <4> QED BY <4>1, FirstSeenOfAppend
    <3> QED BY <2>1, <2>2, <2>4, <2>5, <2>7, <3>2, <3>3
  <2> QED BY <2>8, <2>9
<1> HIDE DEF S
<1>7. Nat \subseteq S
  BY <1>5, <1>6, SetInduction
<1>8. FirstSeen(Mapped(f, K[N])) = M[N]
  BY <1>2, <1>7 DEF S
<1> QED BY <1>2, <1>8 DEF FirstSeen, K, M, N, t

-----------------------------------------------------------------------------
(* The head of a query.                                                    *)

(* The window holds no more than the rows that lead to its end.            *)
LEMMA WindowLed ==
  ASSUME NEW q, q.start \in Nat, q.stop \in Nat \cup {None}, NEW T, NEW s \in Seq(T), NEW t \in Seq(T),
         Leads(s, t), Len(s) = Len(t) \/ (q.stop # None /\ q.stop <= Len(s))
  PROVE  Window(q, s) = Window(q, t)
<1> DEFINE last(u) == IF q.stop = None THEN Len(u) ELSE MinOf(q.stop, Len(u))
           a == q.start + 1
<1>1. Len(s) \in Nat /\ Len(t) \in Nat /\ Len(s) <= Len(t) /\ \A i \in 1 .. Len(s) : s[i] = t[i]
  BY DEF Leads
<1>2. last(s) = last(t) /\ last(s) \in 0 .. Len(s) /\ last(t) \in 0 .. Len(t)
  BY <1>1, HeadsAssumption DEF MinOf
<1>3. a \in Nat /\ a >= 1
  OBVIOUS
<1>4. Window(q, s) = SubSeq(s, a, last(s)) /\ Window(q, t) = SubSeq(t, a, last(t))
  BY DEF Window
<1> HIDE DEF last, a
<1>5. PICK e \in 0 .. Len(s) : e = last(s) /\ e = last(t)
  BY <1>2
<1>6. SubSeq(s, a, e) = SubSeq(t, a, e)
  <2>1. \A i \in a .. e : i \in 1 .. Len(s) /\ s[i] \in T /\ t[i] \in T /\ s[i] = t[i]
    BY <1>1, <1>3
  <2> DEFINE b == SubSeq(s, a, e)
             c == SubSeq(t, a, e)
  <2>2. /\ b \in Seq(T) /\ c \in Seq(T) /\ Len(b) = Len(c)
        /\ Len(b) = IF a <= e THEN e - a + 1 ELSE 0
        /\ \A i \in 1 .. e - a + 1 : b[i] = s[a + i - 1] /\ c[i] = t[a + i - 1]
    BY <1>3, <2>1, SubSeqProperties
  <2> HIDE DEF b, c
  <2>3. \A i \in 1 .. e - a + 1 : a + i - 1 \in a .. e
    BY <1>3
  <2>4. \A i \in 1 .. Len(b) : b[i] = c[i]
    BY <1>3, <2>1, <2>2, <2>3
  <2>5. b = [i \in 1 .. Len(b) |-> b[i]] /\ c = [i \in 1 .. Len(c) |-> c[i]]
    <3>1. \A u \in Seq(T) : u = [i \in 1 .. Len(u) |-> u[i]]
      OBVIOUS
    <3> QED BY <2>2, <3>1, Zenon
  <2>6. b = c
    BY <2>2, <2>4, <2>5
  <2> QED BY <2>6 DEF b, c
<1> QED BY <1>4, <1>5, <1>6

LEMMA TopLeads ==
  ASSUME NEW T, NEW s \in Seq(T), NEW stop \in Nat \cup {None}
  PROVE  /\ TopOf(s, stop) \in Seq(T)
         /\ Leads(TopOf(s, stop), s)
         /\ Len(TopOf(s, stop)) = Len(s) \/ (stop # None /\ stop <= Len(TopOf(s, stop)))
<1>1. CASE stop # None /\ stop < Len(s)
  <2>1. stop \in 0 .. Len(s) /\ TopOf(s, stop) = SubSeq(s, 1, stop)
    BY <1>1 DEF TopOf
  <2>2. /\ SubSeq(s, 1, stop) \in Seq(T) /\ Len(SubSeq(s, 1, stop)) = stop
        /\ \A i \in 1 .. stop : SubSeq(s, 1, stop)[i] = s[i]
    BY <2>1
  <2> QED BY <1>1, <2>1, <2>2 DEF Leads
<1>2. CASE ~(stop # None /\ stop < Len(s))
  BY <1>2 DEF TopOf, Leads
<1> QED BY <1>1, <1>2

HeadQuery(q) == q \in Queries /\ IsHead(q)

LEMMA HeadIsSortable ==
  ASSUME NEW q, HeadQuery(q)
  PROVE  /\ q.rows \in Seq(Seq(Codes \cup {None}))
         /\ HeadShape(q)
         /\ Sortable(q.rows, BoundOrder(q.order))
<1>1. q.rows \in Seq(Seq(Codes \cup {None})) /\ HeadShape(q)
  BY QueriesAssumption DEF HeadQuery
<1>2. BoundOrder(q.order) \in Seq([col : Nat, expr : BOOLEAN, desc : BOOLEAN])
  BY <1>1 DEF HeadShape
<1>3. ASSUME NEW i \in DOMAIN q.rows, NEW n \in DOMAIN BoundOrder(q.order)
      PROVE  BoundOrder(q.order)[n].col \in DOMAIN q.rows[i]
  <2>1. q.rows[i] \in ToSet(q.rows) /\ BoundOrder(q.order)[n] \in ToSet(BoundOrder(q.order))
    BY DEF ToSet
  <2> QED BY <1>1, <2>1 DEF HeadShape
<1> QED BY <1>1, <1>2, <1>3 DEF Sortable

(* What rdflib sorts, and what _order_rows does, all of it or its top.     *)
ValuesOf(q) == ValueKeys(q.rows, BoundOrder(q.order), Len(BoundOrder(q.order)))

LEMMA RdflibRowsAtOnce ==
  ASSUME PlaceOK, NEW q, HeadQuery(q)
  PROVE  /\ RdflibRows(q) = StableSort(q.rows, ValuesOf(q))
         /\ RdflibRows(q) \in Seq(ToSet(q.rows))
<1> DEFINE order == BoundOrder(q.order)
           L == Len(q.rows)
           p == Placing(ValuesOf(q), L)
<1>1. Sortable(q.rows, order)
  BY HeadIsSortable
<1>2. RdflibRows(q) = StableSort(q.rows, ValuesOf(q))
  BY <1>1, RdflibSortsAtOnce DEF RdflibRows, ValuesOf
<1>3. L \in Nat /\ DOMAIN q.rows = 1 .. L /\ Len(order) \in Nat
  BY <1>1 DEF Sortable
<1>4. Tuples(ValuesOf(q), L, Len(order))
  <2>1. Len(order) \in 0 .. Len(order)
    BY <1>3
  <2> QED BY <1>1, <2>1, ValueTuples DEF ValuesOf
<1>5. /\ StableSort(q.rows, ValuesOf(q)) = [k \in 1 .. L |-> q.rows[p[k]]]
      /\ Arranges(p, OrderBy(ValuesOf(q), L), L)
  <2> DEFINE m == Len(order)
             key == ValuesOf(q)
             rows == q.rows
  <2>1. m \in Nat /\ L \in Nat /\ DOMAIN rows = 1 .. L /\ Tuples(key, L, m)
    BY <1>3, <1>4
  <2> HIDE DEF m, key, rows, L
  <2>2. StableSort(rows, key) = [k \in 1 .. L |-> rows[Placing(key, L)[k]]]
        /\ Arranges(Placing(key, L), OrderBy(key, L), L)
    BY <2>1, SortPlaces
  <2> QED BY <2>2 DEF key, rows
<1>6. \A k \in 1 .. L : q.rows[p[k]] \in ToSet(q.rows)
  BY <1>3, <1>5 DEF Arranges, ToSet
<1> HIDE DEF p
<1>7. [k \in 1 .. L |-> q.rows[p[k]]] \in Seq(ToSet(q.rows))
  BY <1>3, <1>6
<1> QED BY <1>2, <1>5, <1>7

LEMMA OrderedAsRdflib ==
  ASSUME PlaceOK, NEW q, HeadQuery(q)
  PROVE  RowsInOrder(q) = IF q.distinct THEN RdflibRows(q)
                          ELSE IF BoundOrder(q.order) = <<>> /\ ~(q.single /\ q.order = <<>>)
                          THEN RdflibRows(q) ELSE TopOf(RdflibRows(q), q.stop)
<1> DEFINE order == BoundOrder(q.order)
<1>1. HeadShape(q) /\ Sortable(q.rows, order) /\ q.rows \in Seq(Seq(Codes \cup {None}))
  BY HeadIsSortable
<1>2. CASE order = <<>>
  <2>1. RdflibRows(q) = q.rows
    <3>1. Len(q.rows) \in Nat /\ q.rows = [i \in 1 .. Len(q.rows) |-> q.rows[i]]
      <4>1. PICK rows \in Seq(Seq(Codes \cup {None})) : rows = q.rows
        BY <1>1
      <4>2. Len(rows) \in Nat /\ rows = [i \in 1 .. Len(rows) |-> rows[i]]
        OBVIOUS
      <4> QED BY <4>1, <4>2
    <3>2. Tuples(ValueKeys(q.rows, order, 0), Len(q.rows), 0)
      <4>1. 0 \in 0 .. Len(order)
        BY <1>2
      <4> QED BY <1>1, <4>1, ValueTuples
    <3>3. ValuesOf(q) = ValueKeys(q.rows, order, 0)
      <4>1. Len(order) = 0
        BY <1>2
      <4> QED BY <4>1 DEF ValuesOf
    <3>4. StableSort(q.rows, ValuesOf(q)) = q.rows
      BY <3>1, <3>2, <3>3, SortNothing
    <3> QED BY <3>4, RdflibRowsAtOnce
  <2>2. RowsInOrder(q) = Solved(q)
    BY <1>2 DEF RowsInOrder
  <2> QED BY <1>2, <2>1, <2>2 DEF Solved
<1>3. CASE order # <<>>
  <2>1. q.order # <<>>
    BY <1>1, <1>3 DEF HeadShape
  <2>2. Solved(q) = q.rows
    BY <2>1 DEF Solved
  <2>3. RowsInOrder(q) = TopOf(StableSort(q.rows, RankKeys(q.rows, order)), SortStop(q))
    BY <1>3, <2>2 DEF RowsInOrder, OrderRows, RankKeys
  <2>4. StableSort(q.rows, RankKeys(q.rows, order)) = RdflibRows(q)
    BY <1>1, RanksSort, RdflibRowsAtOnce DEF ValuesOf
  <2>5. TopOf(RdflibRows(q), None) = RdflibRows(q)
    BY DEF TopOf
  <2> QED BY <1>3, <2>3, <2>4, <2>5 DEF SortStop
<1> QED BY <1>2, <1>3

CodeRows == Seq(Codes \cup {None})
TermRows == {Decoded(row) : row \in CodeRows}
DecodeRow == [row \in CodeRows |-> Decoded(row)]

LEMMA CodeRowsAreRows ==
  ASSUME NEW row \in CodeRows
  PROVE  Row(row) /\ CodesIn(row) \in SUBSET Codes
<1>1. row = [k \in DOMAIN row |-> row[k]] /\ \A k \in DOMAIN row : row[k] \in Codes \cup {None}
  BY DEF CodeRows
<1> QED BY <1>1 DEF Row, CodesIn, ToSet

LEMMA DecodedByRow ==
  ASSUME NEW s \in Seq(CodeRows)
  PROVE  /\ DecodedRows(s) = Mapped(DecodeRow, s)
         /\ DecodedRows(s) \in Seq(TermRows)
         /\ Len(DecodedRows(s)) = Len(s)
         /\ \A i \in 1 .. Len(s) : DecodedRows(s)[i] = Decoded(s[i])
         /\ DecodeRow \in [CodeRows -> TermRows]
<1>1. Len(s) \in Nat /\ DOMAIN s = 1 .. Len(s) /\ \A i \in 1 .. Len(s) : s[i] \in CodeRows
  OBVIOUS
<1>2. \A row \in CodeRows : Decoded(row) \in TermRows
  BY DEF TermRows
<1> HIDE DEF CodeRows, TermRows
<1>3. DecodedRows(s) = [i \in 1 .. Len(s) |-> Decoded(s[i])]
  BY <1>1 DEF DecodedRows
<1>4. [i \in 1 .. Len(s) |-> Decoded(s[i])] \in Seq(TermRows)
  BY <1>1, <1>2
<1>5. DecodedRows(s) = Mapped(DecodeRow, s)
  BY <1>1, <1>3 DEF Mapped, DecodeRow
<1>6. DecodeRow \in [CodeRows -> TermRows]
  BY <1>2 DEF DecodeRow
<1> QED BY <1>1, <1>3, <1>4, <1>5, <1>6

LEMMA ProjectedRows ==
  ASSUME NEW q, HeadQuery(q), NEW s \in Seq(ToSet(q.rows))
  PROVE  /\ Projected(q, s) \in Seq(CodeRows)
         /\ Len(Projected(q, s)) = Len(s)
<1>1. Len(s) \in Nat /\ DOMAIN s = 1 .. Len(s) /\ \A i \in 1 .. Len(s) : s[i] \in ToSet(q.rows)
  OBVIOUS
<1>2. \A row \in ToSet(q.rows) : row \in CodeRows /\ (q.pv # None => q.pv \in Seq(DOMAIN row))
  BY HeadIsSortable DEF HeadShape, ToSet, CodeRows
<1>3. CASE q.pv = None
  <2>1. \A i \in 1 .. Len(s) : s[i] \in CodeRows
    BY <1>1, <1>2
  <2>2. s \in Seq(CodeRows)
    <3>1. s = [i \in 1 .. Len(s) |-> s[i]]
      BY <1>1
    <3> HIDE DEF CodeRows
    <3>2. [i \in 1 .. Len(s) |-> s[i]] \in Seq(CodeRows)
      BY <1>1, <2>1
    <3> QED BY <3>1, <3>2
  <2> QED BY <1>3, <2>2 DEF Projected
<1>4. CASE q.pv # None
  <2> DEFINE shown(i) == [k \in DOMAIN q.pv |-> s[i][q.pv[k]]]
  <2>1. ASSUME NEW i \in 1 .. Len(s) PROVE shown(i) \in CodeRows
    <3>1. s[i] \in CodeRows /\ q.pv \in Seq(DOMAIN s[i])
      BY <1>1, <1>2, <1>4
    <3>2. Len(q.pv) \in Nat /\ DOMAIN q.pv = 1 .. Len(q.pv) /\ \A k \in 1 .. Len(q.pv) : q.pv[k] \in DOMAIN s[i]
      BY <3>1
    <3>3. \A k \in 1 .. Len(q.pv) : s[i][q.pv[k]] \in Codes \cup {None}
      BY <3>1, <3>2 DEF CodeRows
    <3>4. shown(i) = [k \in 1 .. Len(q.pv) |-> s[i][q.pv[k]]]
      BY <3>2
    <3> HIDE DEF shown
    <3> QED BY <3>2, <3>3, <3>4 DEF CodeRows
  <2>2. Projected(q, s) = [i \in 1 .. Len(s) |-> shown(i)]
    BY <1>1, <1>4 DEF Projected
  <2> HIDE DEF shown, CodeRows
  <2>3. [i \in 1 .. Len(s) |-> shown(i)] \in Seq(CodeRows) /\ Len([i \in 1 .. Len(s) |-> shown(i)]) = Len(s)
    BY <1>1, <2>1
  <2> QED BY <2>2, <2>3
<1> QED BY <1>3, <1>4

(* Rows that lead others show and decode to rows that do.                  *)
LEMMA ShownLead ==
  ASSUME NEW q, HeadQuery(q), NEW s \in Seq(ToSet(q.rows)), NEW t \in Seq(ToSet(q.rows)), Leads(s, t)
  PROVE  Leads(DecodedRows(Projected(q, s)), DecodedRows(Projected(q, t)))
<1> DEFINE a == Projected(q, s)
           b == Projected(q, t)
<1>1. a \in Seq(CodeRows) /\ b \in Seq(CodeRows) /\ Len(a) = Len(s) /\ Len(b) = Len(t)
  BY ProjectedRows
<1>2. /\ Len(s) \in Nat /\ Len(t) \in Nat /\ Len(s) <= Len(t) /\ \A i \in 1 .. Len(s) : s[i] = t[i]
      /\ DOMAIN s = 1 .. Len(s) /\ DOMAIN t = 1 .. Len(t)
  BY DEF Leads
<1>3. \A i \in 1 .. Len(s) : a[i] = b[i]
  <2>1. \A i \in 1 .. Len(s) : i \in DOMAIN s /\ i \in DOMAIN t /\ s[i] = t[i]
    BY <1>2
  <2> QED BY <2>1 DEF Projected
<1> HIDE DEF a, b, CodeRows
<1>4. /\ Len(DecodedRows(a)) = Len(a) /\ Len(DecodedRows(b)) = Len(b)
      /\ \A i \in 1 .. Len(a) : DecodedRows(a)[i] = Decoded(a[i])
      /\ \A i \in 1 .. Len(b) : DecodedRows(b)[i] = Decoded(b[i])
  BY <1>1, DecodedByRow
<1>5. \A i \in 1 .. Len(s) : i \in 1 .. Len(t)
  BY <1>2
<1>6. \A i \in 1 .. Len(s) : DecodedRows(a)[i] = DecodedRows(b)[i]
  BY <1>1, <1>3, <1>4, <1>5
<1> QED BY <1>1, <1>2, <1>4, <1>6 DEF Leads, a, b

(* Without DISTINCT the head's rows are rdflib's up to the window's end.   *)
LEMMA PlainHead ==
  ASSUME PlaceOK, NEW q, HeadQuery(q), ~q.distinct
  PROVE  Window(q, DecodedRows(Projected(q, RowsInOrder(q)))) = RdflibAnswer(q)
<1> DEFINE X == RdflibRows(q)
           Y == RowsInOrder(q)
           a == DecodedRows(Projected(q, X))
           b == DecodedRows(Projected(q, Y))
<1>1. X \in Seq(ToSet(q.rows))
  BY RdflibRowsAtOnce
<1>2. q.start \in Nat /\ q.stop \in Nat \cup {None}
  BY HeadIsSortable DEF HeadShape
<1>3. Y = X \/ Y = TopOf(X, q.stop)
  BY OrderedAsRdflib
<1> HIDE DEF X, Y
<1>4. /\ Y \in Seq(ToSet(q.rows)) /\ Leads(Y, X)
      /\ Len(Y) = Len(X) \/ (q.stop # None /\ q.stop <= Len(Y))
  <2>1. CASE Y = X
    BY <1>1, <2>1 DEF Leads
  <2>2. CASE Y = TopOf(X, q.stop)
    BY <1>1, <1>2, <2>2, TopLeads
  <2> QED BY <1>3, <2>1, <2>2
<1>5. Leads(b, a)
  BY <1>1, <1>4, ShownLead
<1>6. a \in Seq(TermRows) /\ b \in Seq(TermRows) /\ Len(a) = Len(X) /\ Len(b) = Len(Y)
  BY <1>1, <1>4, ProjectedRows, DecodedByRow
<1>7. RdflibAnswer(q) = Window(q, a)
  BY DEF RdflibAnswer, X
<1> HIDE DEF a, b, TermRows
<1>8. Window(q, b) = Window(q, a)
  BY <1>2, <1>4, <1>5, <1>6, WindowLed
<1> QED BY <1>7, <1>8 DEF b, Y

LEMMA ShownRows ==
  ASSUME PlaceOK, NEW q, HeadQuery(q)
  PROVE  /\ Projected(q, RdflibRows(q)) \in Seq(CodeRows)
         /\ FirstSeen(Projected(q, RdflibRows(q))) \in Seq(CodeRows)
<1> DEFINE shown == Projected(q, RdflibRows(q))
<1>1. shown \in Seq(CodeRows)
  BY RdflibRowsAtOnce, ProjectedRows
<1> HIDE DEF shown, CodeRows
<1>2. Len(shown) \in 0 .. Len(shown) /\ \A n \in 0 .. Len(shown) : KeptUpTo(shown)[n] \in Seq(CodeRows)
  BY <1>1, KeptUnfolds
<1> QED BY <1>1, <1>2 DEF FirstSeen, shown

(* With it, they are once the rows are read, or to the window's end.       *)
LEMMA DistinctHead ==
  ASSUME PlaceOK, NEW q, HeadQuery(q), q.distinct,
         NEW rows, rows = FirstSeen(Projected(q, RdflibRows(q))),
         NEW n \in 0 .. Len(rows), NEW s \in Seq(CodeRows),
         DecodedRows(s) = KeptUpTo(DecodedRows(rows))[n],
         n = Len(rows) \/ (q.stop # None /\ q.stop <= Len(s))
  PROVE  Window(q, DecodedRows(s)) = RdflibAnswer(q)
<1> DEFINE shown == Projected(q, RdflibRows(q))
           t == DecodedRows(rows)
           kept == FirstSeen(t)
<1>1. shown \in Seq(CodeRows) /\ rows \in Seq(CodeRows) /\ rows = FirstSeen(shown)
  BY ShownRows
<1>2. q.start \in Nat /\ q.stop \in Nat \cup {None}
  BY HeadIsSortable DEF HeadShape
<1>3. RdflibAnswer(q) = Window(q, FirstSeen(DecodedRows(shown)))
  BY DEF RdflibAnswer
<1> HIDE DEF shown, CodeRows, TermRows
<1>4. /\ t \in Seq(TermRows) /\ Len(t) = Len(rows) /\ t = Mapped(DecodeRow, rows)
      /\ DecodedRows(shown) = Mapped(DecodeRow, shown)
      /\ DecodedRows(s) \in Seq(TermRows) /\ Len(DecodedRows(s)) = Len(s)
      /\ DecodeRow \in [CodeRows -> TermRows]
  BY <1>1, DecodedByRow
<1>5. kept = FirstSeen(DecodedRows(shown))
  <2>1. FirstSeen(Mapped(DecodeRow, FirstSeen(shown))) = FirstSeen(Mapped(DecodeRow, shown))
    BY <1>1, <1>4, FirstSeenMapped
  <2> QED BY <1>1, <1>4, <2>1
<1> HIDE DEF t
<1>6. Leads(DecodedRows(s), kept) /\ kept \in Seq(TermRows)
  <2>1. n \in 0 .. Len(t) /\ Len(t) \in 0 .. Len(t)
    BY <1>4
  <2>2. Leads(KeptUpTo(t)[n], FirstSeen(t))
    BY <1>4, <2>1, KeptLeads
  <2>3. KeptUpTo(t)[Len(t)] \in Seq(TermRows)
    BY <1>4, <2>1, KeptUnfolds
  <2> QED BY <2>2, <2>3 DEF FirstSeen, t
<1>7. Len(DecodedRows(s)) = Len(kept) \/ (q.stop # None /\ q.stop <= Len(DecodedRows(s)))
  <2>1. n = Len(rows) => DecodedRows(s) = kept
    BY <1>4 DEF FirstSeen, t
  <2> QED BY <1>4, <2>1
<1> HIDE DEF kept
<1>8. Window(q, DecodedRows(s)) = Window(q, kept)
  BY <1>2, <1>4, <1>6, <1>7, WindowLed
<1> QED BY <1>3, <1>5, <1>8

-----------------------------------------------------------------------------
(* A head, read or not.                                                    *)

ReadCodes(n) == UNION {CodesIn(input[i]) : i \in 1 .. n}

Reading ==
  /\ query.distinct
  /\ input = FirstSeen(Projected(query, RdflibRows(query)))
  /\ pulled \in 0 .. Len(input) /\ pos \in 0 .. pulled /\ size \in Nat
  /\ DOMAIN aliases \subseteq ReadCodes(pulled)
  /\ ReadCodes(pulled) \subseteq classified \cup Names
  /\ \A c \in ReadCodes(pulled) : Alias(aliases, c) = RepOf(c)
  /\ seen = {AliasedRow(aliases, input[i]) : i \in 1 .. pos}
  /\ out \in Seq(CodeRows)
  /\ DecodedRows(out) = KeptUpTo(DecodedRows(input))[pos]

Untouched ==
  /\ pulled = 0 /\ pos = 0 /\ size = ChunkStart
  /\ aliases = NoAliases /\ seen = {} /\ out = <<>>

HeadInv ==
  /\ AliasInv
  /\ place \in Places
  /\ query \in Queries
  /\ IsHead(query) /\ stage = "asked" => Untouched
  /\ IsHead(query) /\ stage = "reading" => Reading
  /\ HeadIsRdflibs

LEMMA HeadInitOK == Init => HeadInv
<1> SUFFICES ASSUME Init PROVE HeadInv
  OBVIOUS
<1>1. AliasInv
  BY AliasInitOK
<1>2. place \in Places /\ query \in Queries
  BY HeadsAssumption DEF Init, PlacesFor
<1> QED BY <1>1, <1>2 DEF Init, HeadInv, Untouched, HeadIsRdflibs

(* A later call changes nothing of the codes classified before it.         *)
LEMMA ClassifyStable ==
  ASSUME AliasInv, NEW S, Classify(S)
  PROVE  /\ classified \subseteq classified'
         /\ \A c \in classified \cup Names : RepOf(c)' = RepOf(c)
         /\ S \subseteq Codes => S \subseteq (classified \cup Names)'
<1> PICK chosen \in [NewTerms(S) -> UNION {Representatives(S, t) : t \in NewTerms(S)}] :
      /\ \A t \in NewTerms(S) : chosen[t] \in Representatives(S, t)
      /\ firsts' = Over(firsts, chosen)
      /\ reps' = Over([c \in {d \in Typed(S) : firsts'[term[d]] # d} |-> firsts'[term[c]]], reps)
      /\ classified' = classified \cup Pending(S)
  BY DEF Classify
<1> DEFINE fresh == [c \in {d \in Typed(S) : firsts'[term[d]] # d} |-> firsts'[term[c]]]
<1>1. DOMAIN fresh \subseteq Typed(S)
  OBVIOUS
<1>2. \A c \in classified \cup Names : c \notin Typed(S)
  BY AliasAssumption DEF Typed, Pending, AliasInv, FileOK
<1>3. reps' = Over(fresh, reps)
  OBVIOUS
<1> HIDE DEF fresh
<1>4. /\ DOMAIN reps' = DOMAIN fresh \cup DOMAIN reps
      /\ \A c \in DOMAIN reps \ DOMAIN fresh : reps'[c] = reps[c]
  <2>1. /\ DOMAIN Over(fresh, reps) = DOMAIN fresh \cup DOMAIN reps
        /\ \A x \in DOMAIN fresh : Over(fresh, reps)[x] = fresh[x]
        /\ \A x \in DOMAIN reps \ DOMAIN fresh : Over(fresh, reps)[x] = reps[x]
    BY OverValues
  <2> QED BY <1>3, <2>1
<1>5. \A c \in classified \cup Names : RepOf(c)' = RepOf(c)
  BY <1>1, <1>2, <1>4 DEF RepOf
<1>6. S \subseteq Codes => S \subseteq classified' \cup Names
  BY AliasAssumption DEF Pending, Foreign, Codes
<1> QED BY <1>5, <1>6

(* While the file, the comparison and the query stay, so does the answer.  *)
RowsAtOnce == \A q : HeadQuery(q) => RdflibRows(q) = StableSort(q.rows, ValuesOf(q))

LEMMA RowsAtOnceOK == PlaceOK => RowsAtOnce
BY RdflibRowsAtOnce DEF RowsAtOnce

LEMMA AnswerStays ==
  ASSUME PlaceOK, HeadQuery(query), UNCHANGED <<file, place, query>>
  PROVE  /\ \A s : DecodedRows(s)' = DecodedRows(s)
         /\ RdflibRows(query)' = RdflibRows(query)
         /\ RdflibAnswer(query)' = RdflibAnswer(query)
<1>1. term' = term /\ place' = place /\ query' = query /\ PlaceOK'
  BY DEF file, PlaceOK, FileOK, DictionaryOK
<1>2. \A c : TermOf(c)' = TermOf(c)
  BY <1>1 DEF TermOf
<1>3. \A row : Decoded(row)' = Decoded(row)
  BY <1>2 DEF Decoded
<1>4. \A s : DecodedRows(s)' = DecodedRows(s)
  BY <1>3 DEF DecodedRows
<1>5. \A row, col : Value(row, col)' = Value(row, col)
  BY <1>1, <1>2 DEF Value
<1>6. \A q : ValuesOf(q)' = ValuesOf(q)
  <2>1. \A order, n, row : LastValues(order, n, row)' = LastValues(order, n, row)
    BY <1>5 DEF LastValues
  <2>2. \A rows, order, n : ValueKeys(rows, order, n)' = ValueKeys(rows, order, n)
    BY <2>1 DEF ValueKeys
  <2> QED BY <2>2 DEF ValuesOf
<1>7. RowsAtOnce /\ RowsAtOnce'
  <2>1. PlaceOK => RowsAtOnce
    BY RowsAtOnceOK
  <2>2. PlaceOK' => RowsAtOnce'
    BY RowsAtOnceOK, PTL
  <2> QED BY <1>1, <2>1, <2>2
<1>8. ASSUME NEW q, HeadQuery(q)
      PROVE  RdflibRows(q)' = RdflibRows(q)
  <2>1. RdflibRows(q) = StableSort(q.rows, ValuesOf(q))
    BY <1>7, <1>8 DEF RowsAtOnce
  <2>2. RdflibRows(q)' = StableSort(q.rows, ValuesOf(q)')
    BY <1>7, <1>8 DEF RowsAtOnce, HeadQuery
  <2> QED BY <1>6, <2>1, <2>2
<1>9. ASSUME NEW q, HeadQuery(q)
      PROVE  RdflibAnswer(q)' = RdflibAnswer(q)
  <2>1. RdflibRows(q)' = RdflibRows(q)
    BY <1>8, <1>9
  <2>2. DecodedRows(Projected(q, RdflibRows(q)))' = DecodedRows(Projected(q, RdflibRows(q)))
    BY <1>4, <2>1
  <2> QED BY <2>2 DEF RdflibAnswer
<1> QED BY <1>1, <1>4, <1>8, <1>9

LEMMA HeadAssumes ==
  ASSUME HeadInv, IsHead(query)
  PROVE  PlaceOK /\ HeadQuery(query)
BY DEF HeadInv, AliasInv, PlaceOK, HeadQuery

LEMMA InputRows ==
  ASSUME PlaceOK, HeadQuery(query), Reading
  PROVE  /\ input \in Seq(CodeRows) /\ Len(input) \in Nat
         /\ \A i \in 1 .. Len(input) : Row(input[i]) /\ CodesIn(input[i]) \in SUBSET Codes
<1>1. input \in Seq(CodeRows)
  BY ShownRows DEF Reading
<1> HIDE DEF CodeRows
<1>2. Len(input) \in Nat /\ \A i \in 1 .. Len(input) : input[i] \in CodeRows
  BY <1>1
<1> QED BY <1>1, <1>2, CodeRowsAreRows

(* Another call leaves the head its aliases.                               *)
LEMMA OtherCallReads ==
  ASSUME HeadInv, IsHead(query), OtherCall
  PROVE  Reading'
<1>1. PlaceOK /\ HeadQuery(query) /\ Reading /\ AliasInv
  BY HeadAssumes DEF HeadInv, OtherCall
<1>2. PICK S : Classify(S)
  BY DEF OtherCall
<1>3. /\ UNCHANGED <<file, place, query>>
      /\ input' = input /\ pulled' = pulled /\ pos' = pos /\ size' = size
      /\ aliases' = aliases /\ seen' = seen /\ out' = out /\ query' = query
  BY DEF OtherCall, reader
<1>4. /\ classified \subseteq classified'
      /\ \A c \in classified \cup Names : RepOf(c)' = RepOf(c)
  BY <1>1, <1>2, ClassifyStable
<1>5. /\ \A s : DecodedRows(s)' = DecodedRows(s)
      /\ RdflibRows(query)' = RdflibRows(query)
  BY <1>1, <1>3, AnswerStays
<1>6. ReadCodes(pulled)' = ReadCodes(pulled)
  BY <1>3 DEF ReadCodes
<1>7. DecodedRows(out)' = DecodedRows(out) /\ DecodedRows(input)' = DecodedRows(input)
  BY <1>3, <1>5
<1>8. (input = FirstSeen(Projected(query, RdflibRows(query))))'
  BY <1>1, <1>3, <1>5 DEF Reading
<1>9. /\ ReadCodes(pulled)' \subseteq (classified \cup Names)'
      /\ \A c \in ReadCodes(pulled)' : (Alias(aliases, c) = RepOf(c))'
  BY <1>1, <1>3, <1>4, <1>6 DEF Reading, Alias
<1>10. (seen = {AliasedRow(aliases, input[i]) : i \in 1 .. pos})'
  BY <1>1, <1>3 DEF Reading, AliasedRow, Alias
<1>11. (DecodedRows(out) = KeptUpTo(DecodedRows(input))[pos])'
  BY <1>1, <1>3, <1>7 DEF Reading
<1> QED BY <1>1, <1>3, <1>6, <1>8, <1>9, <1>10, <1>11 DEF Reading

(* A chunk's aliases say of its codes and the earlier chunks' what the     *)
(* caches do.                                                              *)
LEMMA PullChunkReads ==
  ASSUME HeadInv, IsHead(query), PullChunk
  PROVE  Reading'
<1>1. PlaceOK /\ HeadQuery(query) /\ Reading /\ AliasInv
  BY HeadAssumes DEF HeadInv, PullChunk
<1> DEFINE stop == MinOf(pulled + size, Len(input))
           S == UNION {CodesIn(input[i]) : i \in pulled + 1 .. stop}
           T == ReadCodes(pulled)
<1>2. /\ UNCHANGED <<file, place, query>>
      /\ input' = input /\ pulled' = stop /\ pos' = pos /\ pos = pulled
      /\ size' = MinOf(size * 4, ChunkMax)
      /\ seen' = seen /\ out' = out /\ query' = query
      /\ Classify(S) /\ aliases' = AliasesOf(S, aliases)
  BY DEF PullChunk
<1>3. input \in Seq(CodeRows) /\ Len(input) \in Nat
      /\ \A i \in 1 .. Len(input) : Row(input[i]) /\ CodesIn(input[i]) \in SUBSET Codes
  BY <1>1, InputRows
<1>4. pulled \in 0 .. Len(input) /\ size \in Nat /\ stop \in pulled .. Len(input) /\ size' \in Nat
  BY <1>1, <1>2, <1>3, HeadsAssumption DEF Reading, MinOf
<1> HIDE DEF stop
<1>5. /\ classified \subseteq classified'
      /\ \A c \in classified \cup Names : RepOf(c)' = RepOf(c)
      /\ S \subseteq Codes => S \subseteq (classified \cup Names)'
  <2> HIDE DEF S
  <2> QED BY <1>1, <1>2, ClassifyStable
<1>6. /\ \A s : DecodedRows(s)' = DecodedRows(s)
      /\ RdflibRows(query)' = RdflibRows(query)
  BY <1>1, <1>2, AnswerStays
<1>7. S \subseteq Codes /\ T \subseteq Codes
  BY <1>3, <1>4 DEF ReadCodes
<1>8. ReadCodes(pulled)' = T \cup S
  <2>1. ReadCodes(pulled)' = UNION {CodesIn(input[i]) : i \in 1 .. stop}
    BY <1>2 DEF ReadCodes
  <2>2. \A i : i \in 1 .. stop <=> i \in 1 .. pulled \/ i \in pulled + 1 .. stop
    BY <1>4
  <2> QED BY <2>1, <2>2 DEF ReadCodes
<1> HIDE DEF S, T
<1>9. aliases' = Over([c \in S \cap DOMAIN reps' |-> reps'[c]], aliases)
  BY <1>2 DEF AliasesOf
<1> DEFINE al == [c \in S \cap DOMAIN reps' |-> reps'[c]]
<1>10. DOMAIN al = S \cap DOMAIN reps' /\ \A c \in DOMAIN al : al[c] = reps'[c]
  OBVIOUS
<1>11. aliases' = Over(al, aliases)
  BY <1>9
<1> HIDE DEF al
<1>12. /\ DOMAIN aliases' = DOMAIN al \cup DOMAIN aliases
       /\ \A c \in DOMAIN al : aliases'[c] = al[c]
       /\ \A c \in DOMAIN aliases \ DOMAIN al : aliases'[c] = aliases[c]
  <2>1. /\ DOMAIN Over(al, aliases) = DOMAIN al \cup DOMAIN aliases
        /\ \A c \in DOMAIN al : Over(al, aliases)[c] = al[c]
        /\ \A c \in DOMAIN aliases \ DOMAIN al : Over(al, aliases)[c] = aliases[c]
    BY OverValues
  <2> QED BY <1>11, <2>1
<1>13. /\ DOMAIN aliases \subseteq T /\ T \subseteq classified \cup Names
       /\ \A c \in T : Alias(aliases, c) = RepOf(c)
  BY <1>1 DEF Reading, T
<1>14. \A c \in DOMAIN al : c \in S /\ al[c] = RepOf(c)'
  BY <1>10 DEF RepOf
<1>15. ASSUME NEW c \in T \cup S PROVE Alias(aliases', c) = RepOf(c)'
  <2>1. CASE c \in DOMAIN al
    BY <1>12, <1>14, <2>1 DEF Alias
  <2>2. CASE c \notin DOMAIN al /\ c \in T
    <3>1. Alias(aliases', c) = Alias(aliases, c)
      BY <1>12, <2>2 DEF Alias
    <3> QED BY <1>5, <1>13, <2>2, <3>1
  <2>3. CASE c \notin DOMAIN al /\ c \notin T
    <3>1. c \in S /\ c \notin DOMAIN reps' /\ c \notin DOMAIN aliases
      BY <1>10, <1>13, <1>15, <2>3
    <3> QED BY <1>12, <2>3, <3>1 DEF Alias, RepOf
  <2> QED BY <2>1, <2>2, <2>3
<1>16. ReadCodes(pulled)' \subseteq (classified \cup Names)'
  BY <1>5, <1>7, <1>8, <1>13
<1>17. DOMAIN aliases' \subseteq ReadCodes(pulled)'
  BY <1>8, <1>12, <1>13, <1>14
<1>18. \A c \in ReadCodes(pulled)' : (Alias(aliases, c) = RepOf(c))'
  BY <1>8, <1>15
<1>19. \A i \in 1 .. pos : AliasedRow(aliases', input[i]) = AliasedRow(aliases, input[i])
  <2> SUFFICES ASSUME NEW i \in 1 .. pos
               PROVE  AliasedRow(aliases', input[i]) = AliasedRow(aliases, input[i])
    OBVIOUS
  <2>1. i \in 1 .. Len(input) /\ i \in 1 .. pulled
    BY <1>2, <1>3, <1>4
  <2>2. Row(input[i]) /\ CodesIn(input[i]) \subseteq T
    BY <1>3, <2>1 DEF ReadCodes, T
  <2>3. \A k \in DOMAIN input[i] : input[i][k] \in T \cup {None}
    BY <2>2 DEF CodesIn, ToSet
  <2>4. \A c \in T : Alias(aliases', c) = Alias(aliases, c)
    BY <1>5, <1>13, <1>15
  <2>5. Alias(aliases', None) = Alias(aliases, None)
    <3>1. None \notin S /\ None \notin T
      BY <1>7, AliasAssumption
    <3> QED BY <1>12, <1>13, <1>14, <3>1 DEF Alias
  <2> QED BY <2>3, <2>4, <2>5 DEF AliasedRow
<1>20. (seen = {AliasedRow(aliases, input[i]) : i \in 1 .. pos})'
  <2>1. seen' = {AliasedRow(aliases, input[i]) : i \in 1 .. pos}
    BY <1>1, <1>2 DEF Reading
  <2> QED BY <1>2, <1>19, <2>1
<1>21. (input = FirstSeen(Projected(query, RdflibRows(query))))'
  BY <1>1, <1>2, <1>6 DEF Reading
<1>22. (DecodedRows(out) = KeptUpTo(DecodedRows(input))[pos])'
  <2>1. DecodedRows(out)' = DecodedRows(out) /\ DecodedRows(input)' = DecodedRows(input)
    BY <1>2, <1>6
  <2> QED BY <1>1, <1>2, <2>1 DEF Reading
<1>23. pulled' \in 0 .. Len(input') /\ pos' \in 0 .. pulled' /\ query'.distinct /\ out' \in Seq(CodeRows)
  BY <1>1, <1>2, <1>3, <1>4 DEF Reading
<1> QED BY <1>4, <1>16, <1>17, <1>18, <1>20, <1>21, <1>22, <1>23 DEF Reading

(* A row's key was seen just when its terms were.                          *)
LEMMA KeySeen ==
  ASSUME HeadInv, IsHead(query), Reading, pos < pulled
  PROVE  LET row == input[pos + 1]
         IN  Key(row) \in seen <=> Decoded(row) \in ToSet(KeptUpTo(DecodedRows(input))[pos])
<1> DEFINE T == ReadCodes(pulled)
           row == input[pos + 1]
           t == DecodedRows(input)
<1>1. PlaceOK /\ HeadQuery(query) /\ AliasInv
  BY HeadAssumes DEF HeadInv
<1>2. input \in Seq(CodeRows) /\ Len(input) \in Nat
      /\ \A i \in 1 .. Len(input) : Row(input[i]) /\ CodesIn(input[i]) \in SUBSET Codes
  BY <1>1, InputRows
<1>3. pulled \in 0 .. Len(input) /\ pos \in 0 .. pulled /\ pos + 1 \in 1 .. pulled
  BY <1>2 DEF Reading
<1>4. \A i \in 1 .. pulled : i \in 1 .. Len(input) /\ Row(input[i]) /\ CodesIn(input[i]) \subseteq T
  BY <1>2, <1>3 DEF ReadCodes
<1>5. T \in SUBSET Codes
  BY <1>2, <1>3 DEF ReadCodes
<1>6. Agrees(aliases, T)
  <2>1. RepresentsTerms
    BY <1>1, AliasInvRepresentsAll
  <2>2. None \notin DOMAIN aliases
    BY <1>5, AliasAssumption DEF Reading
  <2>3. T \subseteq classified \cup Names /\ \A c \in T : Alias(aliases, c) = RepOf(c)
    BY DEF Reading
  <2> HIDE DEF T
  <2> QED BY <2>1, <2>2, <2>3 DEF RepresentsTerms, Agrees
<1>7. FileOK
  BY <1>1 DEF AliasInv
<1> HIDE DEF T, CodeRows, row, t
<1>8. ASSUME NEW i \in 1 .. pulled
      PROVE  AliasedRow(aliases, input[i]) = AliasedRow(aliases, row) <=> Decoded(input[i]) = Decoded(row)
  <2>1. Row(input[i]) /\ CodesIn(input[i]) \subseteq T /\ Row(row) /\ CodesIn(row) \subseteq T
    BY <1>3, <1>4 DEF row
  <2> QED BY <1>5, <1>6, <1>7, <2>1, RowsAgree
<1>9. seen = {AliasedRow(aliases, input[i]) : i \in 1 .. pos}
  BY DEF Reading
<1>10. ToSet(KeptUpTo(t)[pos]) = {t[i] : i \in 1 .. pos}
  <2>1. t \in Seq(TermRows) /\ Len(t) = Len(input)
    BY <1>2, DecodedByRow DEF t
  <2>2. pos \in 0 .. Len(t)
    BY <1>2, <1>3, <2>1
  <2> HIDE DEF TermRows
  <2> QED BY <2>1, <2>2, KeptHolds
<1>11. \A i \in 1 .. pos : i \in 1 .. pulled /\ t[i] = Decoded(input[i])
  <2>1. \A i \in 1 .. Len(input) : t[i] = Decoded(input[i])
    BY <1>2, DecodedByRow DEF t
  <2> QED BY <1>2, <1>3, <2>1
<1>12. AliasedRow(aliases, row) \in seen <=> Decoded(row) \in ToSet(KeptUpTo(t)[pos])
  BY <1>8, <1>9, <1>10, <1>11
<1> QED BY <1>12 DEF Key, row, t

LEMMA HandleRowReads ==
  ASSUME HeadInv, IsHead(query), HandleRow
  PROVE  Reading'
<1> DEFINE row == input[pos + 1]
           t == DecodedRows(input)
           new == Key(row) \notin seen
<1>1. PlaceOK /\ HeadQuery(query) /\ Reading /\ AliasInv /\ pos < pulled
  BY HeadAssumes DEF HeadInv, HandleRow
<1>2. /\ UNCHANGED <<file, place, query>>
      /\ input' = input /\ pulled' = pulled /\ pos' = pos + 1 /\ size' = size
      /\ aliases' = aliases /\ query' = query /\ classified' = classified /\ reps' = reps
      /\ seen' = seen \cup {Key(row)}
      /\ out' = IF new THEN Append(out, row) ELSE out
  BY DEF HandleRow, scope
<1>3. input \in Seq(CodeRows) /\ Len(input) \in Nat
  BY <1>1, InputRows
<1>4. pulled \in 0 .. Len(input) /\ pos \in 0 .. pulled /\ pos + 1 \in 1 .. pulled
      /\ pos + 1 \in 1 .. Len(input) /\ row \in CodeRows
  <2>1. pos + 1 \in 1 .. Len(input) /\ pulled \in 0 .. Len(input) /\ pos \in 0 .. pulled
        /\ pos + 1 \in 1 .. pulled
    BY <1>1, <1>3 DEF Reading
  <2> HIDE DEF CodeRows
  <2> QED BY <1>3, <2>1
<1>5. /\ \A s : DecodedRows(s)' = DecodedRows(s)
      /\ RdflibRows(query)' = RdflibRows(query)
  BY <1>1, <1>2, AnswerStays
<1>6. ReadCodes(pulled)' = ReadCodes(pulled)
  BY <1>2 DEF ReadCodes
<1>7. /\ ReadCodes(pulled)' \subseteq (classified \cup Names)'
      /\ \A c \in ReadCodes(pulled)' : (Alias(aliases, c) = RepOf(c))'
      /\ DOMAIN aliases' \subseteq ReadCodes(pulled)'
  BY <1>1, <1>2, <1>6 DEF Reading, Alias, RepOf
<1>8. (input = FirstSeen(Projected(query, RdflibRows(query))))'
  BY <1>1, <1>2, <1>5 DEF Reading
<1>9. (seen = {AliasedRow(aliases, input[i]) : i \in 1 .. pos})'
  <2>1. seen = {AliasedRow(aliases, input[i]) : i \in 1 .. pos}
    BY <1>1 DEF Reading
  <2>2. \A i : i \in 1 .. pos + 1 <=> i \in 1 .. pos \/ i = pos + 1
    BY <1>3, <1>4
  <2>3. {AliasedRow(aliases, input[i]) : i \in 1 .. pos + 1}
          = {AliasedRow(aliases, input[i]) : i \in 1 .. pos} \cup {AliasedRow(aliases, row)}
    BY <2>2
  <2>4. seen' = {AliasedRow(aliases, input[i]) : i \in 1 .. pos + 1}
    BY <1>2, <2>1, <2>3 DEF Key
  <2> HIDE DEF row, new
  <2> QED BY <1>2, <2>4
<1>10. new <=> Decoded(row) \notin ToSet(KeptUpTo(t)[pos])
  BY <1>1, KeySeen
<1>11. /\ t \in Seq(TermRows) /\ Len(t) = Len(input) /\ t[pos + 1] = Decoded(row)
       /\ out \in Seq(CodeRows) /\ DecodedRows(out) = KeptUpTo(t)[pos]
  BY <1>1, <1>3, <1>4, DecodedByRow DEF Reading
<1> HIDE DEF CodeRows, TermRows, row, t, new
<1>12. out' \in Seq(CodeRows) /\ DecodedRows(out') = KeptUpTo(t)[pos + 1]
  <2>1. PICK k \in 1 .. Len(t) : k = pos + 1 /\ k - 1 = pos
    BY <1>3, <1>4, <1>11
  <2>2. KeptUpTo(t)[k] = IF t[k] \in ToSet(KeptUpTo(t)[k - 1]) THEN KeptUpTo(t)[k - 1]
                         ELSE Append(KeptUpTo(t)[k - 1], t[k])
    BY <1>11, KeptUnfolds
  <2>3. CASE new
    <3>1. out' = Append(out, row) /\ out' \in Seq(CodeRows)
      BY <1>2, <1>4, <1>11, <2>3
    <3>2. KeptUpTo(t)[k] = Append(DecodedRows(out), Decoded(row))
      BY <1>10, <1>11, <2>1, <2>2, <2>3
    <3>3. DecodedRows(Append(out, row)) = Append(DecodedRows(out), Decoded(row))
      BY <1>11 DEF DecodedRows
    <3> QED BY <2>1, <3>1, <3>2, <3>3
  <2>4. CASE ~new
    BY <1>2, <1>10, <1>11, <2>1, <2>2, <2>4
  <2> QED BY <2>3, <2>4
<1>13. (DecodedRows(out) = KeptUpTo(DecodedRows(input))[pos])'
  <2>1. DecodedRows(out)' = DecodedRows(out') /\ DecodedRows(input)' = t
    BY <1>2, <1>5 DEF t
  <2> QED BY <1>2, <1>12, <2>1
<1>14. pulled' \in 0 .. Len(input') /\ pos' \in 0 .. pulled' /\ query'.distinct /\ size' \in Nat
  BY <1>1, <1>2, <1>3, <1>4 DEF Reading
<1> QED BY <1>7, <1>8, <1>9, <1>12, <1>13, <1>14 DEF Reading

(* The head planned: the rows in order, or read for their distinct terms.  *)
LEMMA EvalHeadReads ==
  ASSUME HeadInv, EvalHead
  PROVE  /\ stage' = "reading" => Reading'
         /\ stage' = "done" => Window(query, DecodedRows(out')) = RdflibAnswer(query)
<1> DEFINE shown == Projected(query, RowsInOrder(query))
<1>1. PlaceOK /\ HeadQuery(query) /\ Untouched
  BY HeadAssumes DEF HeadInv, EvalHead
<1>2. /\ UNCHANGED <<file, place, query>> /\ query' = query /\ classified' = classified /\ reps' = reps
      /\ pulled' = pulled /\ pos' = pos /\ size' = size /\ aliases' = aliases /\ seen' = seen
  BY DEF EvalHead, scope
<1>3. CASE query.distinct
  <2>1. input' = FirstSeen(shown) /\ stage' = "reading" /\ out' = out
    BY <1>3 DEF EvalHead
  <2>2. RowsInOrder(query) = RdflibRows(query)
    BY <1>1, <1>3, OrderedAsRdflib
  <2>3. /\ \A s : DecodedRows(s)' = DecodedRows(s)
        /\ RdflibRows(query)' = RdflibRows(query)
    BY <1>1, <1>2, AnswerStays
  <2>4. (input = FirstSeen(Projected(query, RdflibRows(query))))'
    BY <1>2, <2>1, <2>2, <2>3
  <2>5. input' \in Seq(CodeRows)
    BY <1>1, <2>1, <2>2, ShownRows
  <2>6. ReadCodes(pulled)' = {}
    BY <1>1, <1>2 DEF ReadCodes, Untouched
  <2>7. (seen = {AliasedRow(aliases, input[i]) : i \in 1 .. pos})'
    <3>1. seen' = {} /\ pos' = 0
      BY <1>1, <1>2 DEF Untouched
    <3> QED BY <3>1
  <2>8. (DecodedRows(out) = KeptUpTo(DecodedRows(input))[pos])'
    <3>1. DecodedRows(out)' = DecodedRows(out') /\ DecodedRows(input)' = DecodedRows(input')
      BY <2>3
    <3>2. out' = <<>> /\ pos' = 0 /\ DecodedRows(<<>>) = <<>>
      BY <1>1, <1>2, <2>1 DEF Untouched, DecodedRows
    <3>3. DecodedRows(input') \in Seq(TermRows)
      BY <2>5, DecodedByRow
    <3>4. KeptUpTo(DecodedRows(input'))[0] = <<>>
      BY <3>3, KeptUnfolds
    <3> QED BY <3>1, <3>2, <3>4
  <2>9. Len(input') \in Nat /\ pulled' = 0 /\ pos' = 0 /\ size' \in Nat /\ DOMAIN aliases' = {}
        /\ out' \in Seq(CodeRows)
    BY <1>1, <1>2, <2>1, <2>5, HeadsAssumption DEF Untouched, NoAliases
  <2>10. Reading'
    BY <1>2, <1>3, <2>4, <2>6, <2>7, <2>8, <2>9 DEF Reading
  <2> QED BY <2>1, <2>10
<1>4. CASE ~query.distinct
  <2>1. out' = shown /\ stage' = "done"
    BY <1>4 DEF EvalHead
  <2> QED BY <1>1, <1>4, <2>1, PlainHead
<1> QED BY <1>3, <1>4

(* The rows read, or enough of them.                                       *)
LEMMA EndReadDone ==
  ASSUME HeadInv, IsHead(query), EndRead
  PROVE  Window(query, DecodedRows(out)) = RdflibAnswer(query)
<1>1. PlaceOK /\ HeadQuery(query) /\ Reading
  BY HeadAssumes DEF HeadInv, EndRead
<1>2. Len(input) \in Nat
  BY <1>1, InputRows
<1>3. pos \in 0 .. Len(input) /\ out \in Seq(CodeRows) /\ query.distinct
      /\ input = FirstSeen(Projected(query, RdflibRows(query)))
      /\ DecodedRows(out) = KeptUpTo(DecodedRows(input))[pos]
  BY <1>1, <1>2 DEF Reading
<1>4. query.stop \in Nat \cup {None}
  BY <1>1, HeadIsSortable DEF HeadShape
<1> HIDE DEF CodeRows
<1>5. pos = Len(input) \/ (query.stop # None /\ query.stop <= Len(out))
  <2>1. Len(out) \in Nat
    BY <1>3
  <2> QED BY <1>4, <2>1 DEF EndRead, Wanted
<1> QED BY <1>1, <1>3, <1>5, DistinctHead

LEMMA HeadStep == HeadInv /\ [Next]_vars => HeadInv'
<1> SUFFICES ASSUME HeadInv, [Next]_vars PROVE HeadInv'
  OBVIOUS
<1>1. AliasInv'
  BY AliasStep DEF HeadInv
<1>2. UNCHANGED <<file, place, query>> /\ place' = place /\ query' = query
      /\ (\A q : IsHead(q)' <=> IsHead(q))
  BY DEF Next, vars, OtherCall, Decline, EvalHead, PullChunk, HandleRow, EndRead, CountPattern,
         CountNothing, CountGroups
<1>3. place' \in Places /\ query' \in Queries
  BY <1>2 DEF HeadInv
<1>4. CASE ~IsHead(query)
  BY <1>1, <1>2, <1>3, <1>4 DEF HeadInv, HeadIsRdflibs
<1>5. CASE IsHead(query)
  <2> USE <1>5
  <2>1. PlaceOK /\ HeadQuery(query)
    BY HeadAssumes
  <2>2. RdflibAnswer(query)' = RdflibAnswer(query) /\ DecodedRows(out)' = DecodedRows(out')
    BY <1>2, <2>1, AnswerStays
  <2>3. HeadIsRdflibs' <=>
          (stage' = "done" => Window(query, DecodedRows(out')) = RdflibAnswer(query))
    <3>1. IsHead(query)'
      BY <1>2
    <3>2. Window(query, DecodedRows(out))' = Window(query, DecodedRows(out'))
      BY <1>2, <2>2 DEF Window
    <3> QED BY <2>2, <3>1, <3>2 DEF HeadIsRdflibs
  <2>4. ASSUME stage' \in {"reading", "done", "rdflib"},
               stage' = "reading" => Reading',
               stage' = "done" => Window(query, DecodedRows(out')) = RdflibAnswer(query)
        PROVE  HeadInv'
    BY <1>1, <1>3, <2>3, <2>4 DEF HeadInv
  <2>5. CASE OtherCall
    <3>1. stage' = "reading"
      BY <2>5 DEF OtherCall
    <3> QED BY <2>4, <2>5, <3>1, OtherCallReads
  <2>6. CASE Decline
    BY <2>4, <2>6 DEF Decline
  <2>7. CASE EvalHead
    <3>1. stage' \in {"reading", "done"}
      BY <2>7 DEF EvalHead
    <3> QED BY <2>4, <2>7, <3>1, EvalHeadReads
  <2>8. CASE PullChunk
    <3>1. stage' = "reading"
      BY <2>8 DEF PullChunk
    <3> QED BY <2>4, <2>8, <3>1, PullChunkReads
  <2>9. CASE HandleRow
    <3>1. stage' = "reading"
      BY <2>9 DEF HandleRow
    <3> QED BY <2>4, <2>9, <3>1, HandleRowReads
  <2>10. CASE EndRead
    <3>1. stage' = "done" /\ out' = out
      BY <2>10 DEF EndRead, reader
    <3> QED BY <2>4, <2>10, <3>1, EndReadDone
  <2>11. CASE CountPattern \/ CountNothing \/ CountGroups
    BY <2>11 DEF CountPattern, CountNothing, CountGroups
  <2>12. CASE UNCHANGED vars
    <3>1. /\ input' = input /\ pulled' = pulled /\ pos' = pos /\ size' = size /\ aliases' = aliases
          /\ seen' = seen /\ out' = out /\ stage' = stage /\ classified' = classified /\ reps' = reps
      BY <2>12 DEF vars, reader, scope
    <3>2. stage = "asked" => Untouched'
      BY <3>1 DEF HeadInv, Untouched
    <3>3. stage = "reading" => Reading'
      <4> SUFFICES ASSUME Reading PROVE Reading'
        BY DEF HeadInv
      <4>1. /\ \A s : DecodedRows(s)' = DecodedRows(s)
            /\ RdflibRows(query)' = RdflibRows(query)
        BY <1>2, <2>1, AnswerStays
      <4>2. ReadCodes(pulled)' = ReadCodes(pulled)
        BY <3>1 DEF ReadCodes
      <4>3. DecodedRows(out)' = DecodedRows(out) /\ DecodedRows(input)' = DecodedRows(input)
        BY <3>1, <4>1
      <4>4. /\ ReadCodes(pulled)' \subseteq (classified \cup Names)'
            /\ \A c \in ReadCodes(pulled)' : (Alias(aliases, c) = RepOf(c))'
            /\ DOMAIN aliases' \subseteq ReadCodes(pulled)'
        BY <3>1, <4>2 DEF Reading, Alias, RepOf
      <4>5. (input = FirstSeen(Projected(query, RdflibRows(query))))'
        BY <1>2, <3>1, <4>1 DEF Reading
      <4>6. (seen = {AliasedRow(aliases, input[i]) : i \in 1 .. pos})'
        BY <3>1 DEF Reading, AliasedRow, Alias
      <4>7. (DecodedRows(out) = KeptUpTo(DecodedRows(input))[pos])'
        BY <3>1, <4>3 DEF Reading
      <4> QED BY <1>2, <3>1, <4>4, <4>5, <4>6, <4>7 DEF Reading
    <3>4. stage = "done" => Window(query, DecodedRows(out')) = RdflibAnswer(query)
      BY <3>1 DEF HeadInv, HeadIsRdflibs
    <3> QED BY <1>1, <1>2, <1>3, <2>3, <3>1, <3>2, <3>3, <3>4 DEF HeadInv
  <2> QED BY <2>5, <2>6, <2>7, <2>8, <2>9, <2>10, <2>11, <2>12 DEF Next
<1> QED BY <1>4, <1>5

(* ORDER BY, DISTINCT and LIMIT deliver rdflib's answer, for any rows, any *)
(* conditions and any calls beside the head: _order_rows' one sort by      *)
(* ranks, its top rows, and _term_distinct's keys of aliases.              *)
THEOREM HeadIsRdflibsAlways == Spec => []HeadIsRdflibs
<1>1. HeadInv => HeadIsRdflibs
  BY DEF HeadInv
<1> QED BY <1>1, HeadInitOK, HeadStep, PTL DEF Spec

-----------------------------------------------------------------------------
(* The values of two terms, for all terms: what the fast route answers     *)
(* definitely is rdflib's answer.                                          *)

(* A term whose value both sides read alike: a query constant out of its   *)
(* type's bounds is one for rdflib only, and _constant_view refuses it.    *)
Comparable(t) == t.query /\ Numeric(t) /\ t.conv # "none" => InBounds(t)

USE DEF Answer

LEMMA NumericAlike ==
  ASSUME NEW a \in Term, NEW b \in Term, Comparable(a), Comparable(b)
  PROVE  RdfNumeric(a, b) <=> NumericValue(a) /\ NumericValue(b)
BY DEF Comparable, RdfNumeric, NumericValue, IllTyped

LEMMA GtAlike ==
  ASSUME NEW a \in Term, NEW b \in Term, Comparable(a), Comparable(b),
         Gt(a, b) # "unknown"
  PROVE  RdfGt(a, b) = Gt(a, b)
BY NumericAlike DEF Gt, RdfGt, NumGt, PyGt

LEMMA EqAlike ==
  ASSUME NEW a \in Term, NEW b \in Term, Comparable(a), Comparable(b),
         WellSpelled(a), WellSpelled(b), SpelledAlike(a, b),
         Literal(a), Literal(b), Eq(a, b) # "unknown"
  PROVE  RdfEq(a, b) = Eq(a, b)
<1>1. CASE NumericValue(a) /\ NumericValue(b)
  BY <1>1, NumericAlike DEF Eq, RdfEq, NumEq
<1>2. CASE ~(NumericValue(a) /\ NumericValue(b)) /\ (a.lang # b.lang \/ Dt(a) # Dt(b))
  BY <1>2, NumericAlike DEF Eq, RdfEq
<1>3. CASE ~(NumericValue(a) /\ NumericValue(b)) /\ a.lang = b.lang /\ Dt(a) = Dt(b)
  <2>1. Eq(a, b) = SameTypeEq(a, b) /\ Dt(a) \notin XmlTypes
    BY <1>3 DEF Eq
  <2>2. CASE Dt(a) = "string"
    <3>1. a.norm = a.lex /\ b.norm = b.lex
      BY <2>2, <1>3 DEF WellSpelled, Dt
    <3>. QED BY <2>1, <2>2, <3>1, <1>3, NumericAlike DEF SameTypeEq, RdfEq
  <2>3. CASE Dt(a) # "string"
    <3>1. a.dt = b.dt /\ Dt(a) = a.dt
      BY <2>3, <1>3 DEF Dt
    <3>2. /\ a.lex = b.lex => a.norm = b.norm
          /\ a.norm = b.norm => a.conv = b.conv /\ a.val = b.val
      BY <1>3, <3>1 DEF SpelledAlike, Literal
    <3>3. RdfEq(a, b) = IF a.conv # "none" /\ b.conv # "none" THEN Answer(ValueEq(a, b))
                        ELSE IF a.norm = b.norm THEN "yes" ELSE "error"
      BY <1>3, <2>1, <2>3, NumericAlike DEF RdfEq
    <3>4. CASE Dt(a) = "boolean"
      BY <2>1, <2>3, <3>1, <3>3, <3>4 DEF SameTypeEq, WellSpelled
    <3>5. CASE Dt(a) \in NumericTypes /\ Dt(a) # "boolean"
      BY <2>1, <2>3, <3>1, <3>2, <3>3, <3>5 DEF SameTypeEq, NumEq, WellSpelled
    <3>6. CASE Dt(a) \notin NumericTypes /\ Dt(a) # "boolean"
      BY <2>1, <2>3, <3>1, <3>2, <3>3, <3>6 DEF SameTypeEq, WellSpelled, ValueEq, Term, NumericTypes
    <3>. QED BY <3>4, <3>5, <3>6
  <2>. QED BY <2>2, <2>3
<1>. QED BY <1>1, <1>2, <1>3

(* The relational operators of the fast route, over any two terms whose    *)
(* values both sides read alike: an answer other than unknown is rdflib's. *)
THEOREM RelationalIsRdflib ==
  ASSUME NEW a \in Term, NEW b \in Term, NEW op,
         Comparable(a), Comparable(b), WellSpelled(a), WellSpelled(b),
         SpelledAlike(a, b), Relational(op, a, b) # "unknown"
  PROVE  RdfRelational(op, a, b) = Relational(op, a, b)
<1>1. AnyEq(a, b) # "unknown" => RdfAnyEq(a, b) = AnyEq(a, b)
  <2>1. CASE Literal(a) /\ Literal(b)
    BY <2>1, EqAlike DEF AnyEq, RdfAnyEq
  <2>2. CASE ~(Literal(a) /\ Literal(b))
    BY <2>2 DEF AnyEq, RdfAnyEq, RdfTermEq, WellSpelled, Literal
  <2>. QED BY <2>1, <2>2
<1>2. CASE op = "=" \/ op = "!="
  BY <1>1, <1>2 DEF Relational, RdfRelational, Not
<1>3. CASE ~(Literal(a) /\ Literal(b)) \/ (NonXsd(a) /\ NonXsd(b))
  BY <1>2, <1>3 DEF Relational, RdfRelational
<1>4. CASE /\ op \notin {"=", "!="}
           /\ Literal(a) /\ Literal(b) /\ ~(NonXsd(a) /\ NonXsd(b))
  <2>1. /\ Relational(op, a, b) = Ordered(op, Gt(a, b), Eq(a, b))
        /\ RdfRelational(op, a, b) = RdfOrdered(op, RdfGt(a, b), RdfEq(a, b))
    BY <1>4 DEF Relational, RdfRelational
  <2>2. Gt(a, b) \in {"yes", "no"} /\ RdfGt(a, b) = Gt(a, b)
    <3>1. Gt(a, b) \in {"yes", "no", "unknown"}
      BY DEF Gt, NumGt
    <3>2. Gt(a, b) # "unknown"
      BY <2>1 DEF Ordered
    <3>. QED BY <3>1, <3>2, GtAlike
  <2>3. CASE Gt(a, b) = "yes" \/ op = ">"
    BY <2>1, <2>2, <2>3 DEF Ordered, RdfOrdered
  <2>4. CASE Gt(a, b) = "no" /\ op # ">"
    <3>1. Eq(a, b) # "unknown"
      BY <2>1, <2>4 DEF Ordered, Not
    <3>2. RdfEq(a, b) = Eq(a, b)
      BY <3>1, <1>4, EqAlike
    <3>3. Eq(a, b) \in {"yes", "no", "error"}
      BY <3>1 DEF Eq, NumEq, SameTypeEq
    <3>. QED BY <2>1, <2>2, <2>4, <3>2, <3>3 DEF Ordered, RdfOrdered, Not
  <2>. QED BY <2>2, <2>3, <2>4
<1>. QED BY <1>2, <1>3, <1>4

(* The fast route's effective boolean value of any term: settled, it is    *)
(* the one rdflib gives the term.                                          *)
THEOREM TruthIsRdflib ==
  ASSUME NEW t \in Term, WellSpelled(t), TermTruth(t) # "unknown"
  PROVE  RdfTruth(t) = TermTruth(t)
BY DEF TermTruth, RdfTruth, WellSpelled, StringLike, Numeric

(* Term equality, which sameTerm and IN ask of any two terms spelled       *)
(* alike on both sides: an answer other than unknown is rdflib's.          *)
THEOREM TermEqIsRdflib ==
  ASSUME NEW a \in Term, NEW b \in Term, WellSpelled(a), WellSpelled(b),
         SpelledAlike(a, b), TermEq(a, b) # "unknown"
  PROVE  Answer(RdfTermEq(a, b)) = TermEq(a, b)
BY DEF TermEq, RdfTermEq, WellSpelled, SpelledAlike, StringLike, Literal
=============================================================================
