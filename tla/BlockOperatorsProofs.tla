------------------------ MODULE BlockOperatorsProofs ------------------------
(***************************************************************************)
(* Proofs about BlockOperators: what _shared_key_ok, the semi-join and a   *)
(* FILTER's push-down rest on holds of every relation the solver makes,    *)
(* whatever the block, its bindings and the data.                          *)
(*                                                                         *)
(* The scope a node is solved in is known before anything is solved: it is *)
(* that of the GRAPH node next above it.  Every relation fits its node in  *)
(* that scope (RelationFits): its rows bind no variable outside its        *)
(* schema, leave unbound only what it declares and what _block_nullable    *)
(* foresees, and bind the graph column where _carries_graph says they do;  *)
(* the last is what lets GRAPH ?g count ?g among the variables it binds.   *)
(***************************************************************************)
EXTENDS BlockOperators, SequenceTheorems, FiniteSetTheorems, WellFoundedInduction, TLAPS

(* The scope of a node, from the nodes above it.                           *)
ScopeUnder(n) ==
  IF block[n].vars \subseteq DOMAIN ctx THEN Scope(NamedBy(block[n], ctx), {})
  ELSE Scope(Union, block[n].vars)

Parents(n) == {k \in Nodes : n \in Children(block[k])}
Parent(n) == CHOOSE k \in Parents(n) : TRUE

ScopeOf[n \in Nodes] ==
  IF Parents(n) = {} THEN ActiveScope
  ELSE IF block[Parent(n)].op = "Graph" THEN ScopeUnder(Parent(n))
  ELSE ScopeOf[Parent(n)]

(* The variables the rows of node n bind, or its nullable ones foresee.    *)
Foreseen(n, f) == BoundVars[n] \ (DOMAIN ctx \cup DOMAIN f) \subseteq Nullable[n]
Columned(n, f) ==
  (ScopeOf[n].vars \cap CarriesGraph[n]) \ (CarriesRightOnly[n] \cup DOMAIN ctx) \subseteq DOMAIN f
Declared(r, f) == DOMAIN f \subseteq r.schema /\ r.schema \ DOMAIN f \subseteq r.nullable

RowsAt(n, r) == {f \in Bindings : Declared(r, f) /\ Foreseen(n, f) /\ Columned(n, f)}
Mentioned(n) == (NodeVars[n] \cup ScopeOf[n].vars) \ DOMAIN ctx

RelationFits(n, r) ==
  /\ r = Relation(r.schema, r.rows, r.nullable)
  /\ r.schema \subseteq Mentioned(n)
  /\ r.rows \in Seq(RowsAt(n, r))

QueryOK ==
  /\ Tree(block)
  /\ ctx \in Bindings
  /\ active \in Places
  /\ \A b \in Patterns : \A g \in Places : matches[b][g] \subseteq [PatternVars[b] -> Codes]

(* A call waiting for the block of a GRAPH ?g has found its column, and one*)
(* about to solve an EXISTS body has one.                                  *)
CallOK(c) ==
  /\ c = [node |-> c.node, at |-> c.at, env |-> c.env, pushed |-> c.pushed, scope |-> c.scope]
  /\ c.node \in Nodes
  /\ c.scope = ScopeOf[c.node]
  /\ block[c.node].op = "Graph" /\ c.at = "left" =>
       \A v \in ScopeUnder(c.node).vars :
         v \in CarriesGraph[block[c.node].p1] \ CarriesRightOnly[block[c.node].p1]
  /\ c.at = "exists" => block[c.node].exists # 0

CallsFit(cs, at) ==
  /\ cs \in Seq(Range(cs))
  /\ \A c \in Range(cs) : CallOK(c)
  /\ at = "solving" => cs # <<>>

RelationsFit(rs) ==
  /\ rs = [n \in Nodes |-> rs[n]]
  /\ \A n \in Nodes : RelationFits(n, rs[n])

BlocksInv == QueryOK /\ CallsFit(calls, outcome) /\ RelationsFit(rel)

-----------------------------------------------------------------------------
(* Numbers, steps and sequences.                                           *)

(* A set with 0 and the successor of each of its naturals holds them all.  *)
LEMMA SetInduction ==
  ASSUME NEW S, 0 \in S, \A n \in Nat : n \in S => n + 1 \in S
  PROVE  Nat \subseteq S
  <1> DEFINE R == OpToRel(<, Nat)
             T == Nat \ S
  <1> SUFFICES ASSUME T # {} PROVE FALSE
    OBVIOUS
  <1>1. PICK x \in T : \A y \in T : ~(<<y, x>> \in R)
    <2>1. IsWellFoundedOn(R, Nat)
      BY NatLessThanWellFounded
    <2>2. T \subseteq Nat
      OBVIOUS
    <2> HIDE DEF R, T
    <2> QED
      BY <2>1, <2>2, WFMin
  <1>2. x \in Nat /\ x # 0 /\ x - 1 \in Nat /\ x - 1 + 1 = x
    OBVIOUS
  <1>3. x - 1 \in S
    <2>1. x - 1 \in T => <<x - 1, x>> \in R
      BY <1>2 DEF OpToRel
    <2> QED
      BY <1>1, <1>2, <2>1
  <1> QED
    BY <1>2, <1>3

(* A value made step by step, one function after another, exists.          *)
MadeBy(g, V, start, N, step) ==
  g \in [0..N -> V] /\ g[0] = start /\ \A i \in 1..N : g[i] = step[i][g[i - 1]]

LEMMA StepByStep ==
  ASSUME NEW V, NEW start \in V, NEW N \in Nat, NEW step \in [1..N -> [V -> V]]
  PROVE  \E g : MadeBy(g, V, start, N, step)
  <1> DEFINE Made(g, n) == g[0] = start /\ \A i \in 1..n : g[i] = step[i][g[i - 1]]
             Exist(n) == \E g \in [0..n -> V] : Made(g, n)
             S == {n \in Nat : n <= N => Exist(n)}
  <1>1. Exist(0)
    <2>1. [i \in 0..0 |-> start] \in [0..0 -> V] /\ Made([i \in 0..0 |-> start], 0)
      OBVIOUS
    <2> QED
      BY <2>1
  <1>2. ASSUME NEW n \in Nat, n + 1 <= N, Exist(n)
        PROVE  Exist(n + 1)
    <2>1. PICK g \in [0..n -> V] : Made(g, n)
      BY <1>2
    <2>2. step[n + 1][g[n]] \in V
      <3>1. g[n] \in V /\ step[n + 1] \in [V -> V]
        BY <1>2
      <3> QED
        BY <3>1
    <2> DEFINE h == [i \in 0..n + 1 |-> IF i = n + 1 THEN step[n + 1][g[n]] ELSE g[i]]
    <2>3. h \in [0..n + 1 -> V]
      BY <2>2
    <2>4. \A i \in 0..n : h[i] = g[i]
      OBVIOUS
    <2>5. h[n + 1] = step[n + 1][g[n]]
      OBVIOUS
    <2> HIDE DEF h
    <2>6. h[0] = start
      BY <2>1, <2>4
    <2>7. ASSUME NEW i \in 1..n + 1
          PROVE  h[i] = step[i][h[i - 1]]
      <3>1. CASE i = n + 1
        <4>1. i - 1 = n /\ n \in 0..n
          BY <3>1
        <4> QED
          BY <2>4, <2>5, <3>1, <4>1
      <3>2. CASE i # n + 1
        <4>1. i \in 1..n /\ i \in 0..n /\ i - 1 \in 0..n
          BY <3>2
        <4> QED
          BY <2>1, <2>4, <4>1
      <3> QED
        BY <3>1, <3>2
    <2> QED
      BY <2>3, <2>6, <2>7
  <1> HIDE DEF Exist
  <1>3. 0 \in S /\ \A n \in Nat : n \in S => n + 1 \in S
    BY <1>1, <1>2
  <1>4. N \in S
    BY <1>3, SetInduction
  <1>5. Exist(N)
    BY <1>4
  <1> QED
    BY <1>5, Zenon DEF Exist, MadeBy

(* What is kept of a sequence is a sequence of the same things.            *)
LEMMA KeepOK ==
  ASSUME NEW V, NEW s \in Seq(V), NEW T
  PROVE  Keep(s, T) \in Seq(V)
  <1> DEFINE N == Len(s)
             step == [i \in 1..N |-> [u \in Seq(V) |-> IF s[i] \in T THEN Append(u, s[i]) ELSE u]]
             P(h) == h = [n \in 0..N |-> IF n = 0 THEN <<>>
                                         ELSE IF s[n] \in T THEN Append(h[n - 1], s[n]) ELSE h[n - 1]]
  <1>1. N \in Nat /\ <<>> \in Seq(V) /\ step \in [1..N -> [Seq(V) -> Seq(V)]]
    <2>1. \A i \in 1..N : s[i] \in V
      BY ElementOfSeq
    <2>2. \A i \in 1..N, u \in Seq(V) : Append(u, s[i]) \in Seq(V)
      BY <2>1, AppendProperties
    <2> QED
      BY <2>2, LenProperties, EmptySeq
  <1>2. \A i \in 1..N, u \in Seq(V) : step[i][u] = IF s[i] \in T THEN Append(u, s[i]) ELSE u
    OBVIOUS
  <1> HIDE DEF step
  <1>3. PICK g \in [0..N -> Seq(V)] : g[0] = <<>> /\ \A i \in 1..N : g[i] = step[i][g[i - 1]]
    <2>1. \E g : MadeBy(g, Seq(V), <<>>, N, step)
      BY <1>1, StepByStep
    <2> QED
      BY <2>1, Zenon DEF MadeBy
  <1>4. P(g)
    <2>1. ASSUME NEW n \in 0..N
          PROVE  g[n] = IF n = 0 THEN <<>>
                        ELSE IF s[n] \in T THEN Append(g[n - 1], s[n]) ELSE g[n - 1]
      <3>1. CASE n = 0
        BY <1>3, <3>1
      <3>2. CASE n # 0
        <4>1. n \in 1..N /\ n - 1 \in 0..N
          BY <1>1, <3>2
        <4>2. g[n - 1] \in Seq(V)
          BY <4>1
        <4> QED
          BY <1>2, <1>3, <3>2, <4>1, <4>2, Zenon
      <3> QED
        BY <3>1, <3>2
    <2> QED
      BY <1>3, <2>1, Zenon
  <1>5. P(CHOOSE h : P(h))
    BY <1>4, Zenon
  <1> DEFINE kept == CHOOSE h : P(h)
  <1>6. Keep(s, T) = kept[N]
    BY DEF Keep
  <1>7. P(kept)
    BY <1>5, Zenon
  <1> HIDE DEF kept
  <1>12. \A n \in 0..N : kept[n] = IF n = 0 THEN <<>>
                     ELSE IF s[n] \in T THEN Append(kept[n - 1], s[n]) ELSE kept[n - 1]
    BY <1>7, Zenon
  <1> DEFINE S == {n \in Nat : n <= N => kept[n] \in Seq(V)}
  <1>8. kept[0] = <<>>
    <2>1. 0 \in 0..N
      BY <1>1
    <2> QED
      BY <1>12, <2>1, Zenon
  <1>9. \A n \in Nat : n \in S => n + 1 \in S
    <2> SUFFICES ASSUME NEW n \in Nat, n + 1 <= N, kept[n] \in Seq(V)
                 PROVE  kept[n + 1] \in Seq(V)
      BY <1>1
    <2>1. n + 1 \in 1..N /\ n + 1 \in 0..N /\ n + 1 # 0 /\ n + 1 - 1 = n
      BY <1>1
    <2>2. kept[n + 1] = IF s[n + 1] \in T THEN Append(kept[n], s[n + 1]) ELSE kept[n]
      <3>1. PICK k \in 0..N : k = n + 1 /\ k # 0 /\ k - 1 = n
        BY <2>1
      <3>2. kept[k] = IF s[k] \in T THEN Append(kept[k - 1], s[k]) ELSE kept[k - 1]
        BY <1>12, <3>1, Zenon
      <3>3. kept[k] = IF s[k] \in T THEN Append(kept[n], s[k]) ELSE kept[n]
        BY <3>1, <3>2, Zenon
      <3> QED
        BY <3>1, <3>3, Zenon
    <2>3. s[n + 1] \in V
      BY <2>1, ElementOfSeq
    <2> QED
      BY <2>2, <2>3, AppendProperties
  <1>10. 0 \in S
    BY <1>1, <1>8
  <1>11. N \in S
    BY <1>1, <1>9, <1>10, SetInduction
  <1> QED
    BY <1>6, <1>11

(* So is what is put together from several.                                *)
LEMMA FlattenOK ==
  ASSUME NEW V, NEW seqs \in Seq(Seq(V))
  PROVE  FlattenSeq(seqs) \in Seq(V)
  <1> DEFINE N == Len(seqs)
             start == IF N = 0 THEN <<>> ELSE seqs[1]
             step == [i \in 1..N |-> [u \in Seq(V) |-> IF i = 1 THEN start ELSE u \o seqs[i]]]
             P(h) == h = [i \in 1..N |-> IF i = 1 THEN seqs[i] ELSE h[i - 1] \o seqs[i]]
  <1>1. N \in Nat /\ DOMAIN seqs = 1..N /\ \A i \in 1..N : seqs[i] \in Seq(V)
    BY ElementOfSeq, LenProperties
  <1>2. CASE N = 0
    <2>1. seqs = <<>>
      BY <1>2, EmptySeq
    <2>2. FlattenSeq(seqs) = seqs
      BY <1>2 DEF FlattenSeq
    <2> QED
      BY <2>1, <2>2, EmptySeq
  <1>3. CASE N # 0
    <2>1. start \in Seq(V) /\ step \in [1..N -> [Seq(V) -> Seq(V)]]
      <3>1. start \in Seq(V)
        BY <1>1, <1>3
      <3>2. \A i \in 1..N, u \in Seq(V) : u \o seqs[i] \in Seq(V)
        BY <1>1, ConcatProperties
      <3> HIDE DEF start
      <3> QED
        BY <3>1, <3>2
    <2>2. \A i \in 1..N, u \in Seq(V) : step[i][u] = IF i = 1 THEN start ELSE u \o seqs[i]
      OBVIOUS
    <2>3. start = seqs[1]
      BY <1>3
    <2> HIDE DEF step, start
    <2>4. PICK g \in [0..N -> Seq(V)] : g[0] = start /\ \A i \in 1..N : g[i] = step[i][g[i - 1]]
      <3>1. \E g : MadeBy(g, Seq(V), start, N, step)
        BY <1>1, <2>1, StepByStep
      <3> QED
        BY <3>1, Zenon DEF MadeBy
    <2> DEFINE h == [i \in 1..N |-> g[i]]
    <2>5. \A i \in 1..N : h[i] = g[i]
      OBVIOUS
    <2>6. h = [i \in 1..N |-> IF i = 1 THEN seqs[i] ELSE h[i - 1] \o seqs[i]]
      <3>1. ASSUME NEW i \in 1..N
            PROVE  g[i] = IF i = 1 THEN seqs[i] ELSE h[i - 1] \o seqs[i]
        <4>1. i - 1 \in 0..N /\ (i # 1 => i - 1 \in 1..N)
          BY <1>1
        <4>2. g[i] = step[i][g[i - 1]] /\ g[i - 1] \in Seq(V)
          BY <2>4, <4>1
        <4> QED
          BY <2>2, <2>3, <2>5, <4>1, <4>2, Zenon
      <3> QED
        BY <3>1, Zenon
    <2>7. P(CHOOSE f : P(f))
      BY <2>6, Zenon
    <2> DEFINE flat == CHOOSE f : P(f)
    <2>8. FlattenSeq(seqs) = flat[N]
      BY <1>3 DEF FlattenSeq
    <2>9. P(flat)
      BY <2>7, Zenon
    <2> HIDE DEF flat
    <2>13. \A i \in 1..N : flat[i] = IF i = 1 THEN seqs[i] ELSE flat[i - 1] \o seqs[i]
      BY <2>9, Zenon
    <2> DEFINE S == {n \in Nat : n + 1 <= N => flat[n + 1] \in Seq(V)}
    <2>10. 0 \in S
      <3>1. 1 \in 1..N => flat[1] = seqs[1]
        BY <2>13, Zenon
      <3> QED
        BY <1>1, <3>1
    <2>11. \A n \in Nat : n \in S => n + 1 \in S
      <3> SUFFICES ASSUME NEW n \in Nat, n + 2 <= N, flat[n + 1] \in Seq(V)
                   PROVE  flat[n + 2] \in Seq(V)
        BY <1>1
      <3>1. n + 2 \in 1..N /\ n + 2 # 1 /\ n + 2 - 1 = n + 1
        BY <1>1
      <3>2. flat[n + 2] = flat[n + 1] \o seqs[n + 2]
        <4>1. PICK k \in 1..N : k = n + 2 /\ k # 1 /\ k - 1 = n + 1
          BY <3>1
        <4>2. flat[k] = flat[k - 1] \o seqs[k]
          BY <2>13, <4>1, Zenon
        <4>3. flat[k] = flat[n + 1] \o seqs[k]
          BY <4>1, <4>2, Zenon
        <4> QED
          BY <4>1, <4>3, Zenon
      <3> QED
        BY <1>1, <3>1, <3>2, ConcatProperties
    <2>12. N - 1 \in S /\ N - 1 + 1 = N
      <3>1. Nat \subseteq S
        BY <2>10, <2>11, SetInduction
      <3>2. N - 1 \in Nat /\ N - 1 + 1 = N
        BY <1>1, <1>3
      <3> QED
        BY <3>1, <3>2
    <2> QED
      BY <1>1, <2>8, <2>12
  <1> QED
    BY <1>2, <1>3

(* A finite set put in some order is a sequence of its elements.           *)
LEMMA InOrderOK ==
  ASSUME NEW V, NEW S \in SUBSET V, IsFiniteSet(S)
  PROVE  SetToSeq(S) \in Seq(V)
  <1> DEFINE n == Cardinality(S)
             order == SetToSeq(S)
  <1>1. n \in Nat
    BY FS_CardinalityType
  <1>2. PICK b : b \in Bijection(1..n, S)
    BY FS_CardinalityType DEF ExistsBijection
  <1>3. b \in [1..n -> S] /\ IsInjective(b)
    BY <1>2 DEF Bijection, Injection
  <1>4. order \in [1..n -> S]
    BY <1>3, Zenon DEF SetToSeq
  <1> HIDE DEF order, n
  <1>5. order \in [1..n -> V]
    BY <1>4
  <1> QED
    BY <1>1, <1>5, SeqDef DEF order

(* A function over D whose value at each point depends on the values at    *)
(* the points before it, in some order p, exists.                          *)
InSomeOrder(p, N, D) ==
  /\ p \in [1..N -> D]
  /\ \A i, j \in 1..N : i # j => p[i] # p[j]
  /\ \A n \in D : \E i \in 1..N : p[i] = n

DependsOnEarlier(step, p, N, D, V) ==
  \A i \in 1..N : \A f, g \in [D -> V] :
    (\A j \in 1..(i - 1) : f[p[j]] = g[p[j]]) => step[p[i]][f] = step[p[i]][g]

StepsOver(step, D, V) == step \in [D -> [[D -> V] -> V]]
MadeOf(h, step, D, V) == h \in [D -> V] /\ \A n \in D : h[n] = step[n][h]

LEMMA Recursion ==
  ASSUME NEW N \in Nat, NEW D, NEW V, NEW some \in V, NEW p, InSomeOrder(p, N, D),
         NEW step, StepsOver(step, D, V), DependsOnEarlier(step, p, N, D, V)
  PROVE  \E h : MadeOf(h, step, D, V)
  <1> DEFINE W == [D -> V]
             start == [n \in D |-> some]
             next == [i \in 1..N |-> [f \in W |-> [f EXCEPT ![p[i]] = step[p[i]][f]]]]
  <1>1. start \in W /\ next \in [1..N -> [W -> W]]
    <2>1. \A i \in 1..N : p[i] \in D
      BY DEF InSomeOrder
    <2> QED
      BY <2>1 DEF StepsOver
  <1>2. \A i \in 1..N, f \in W : next[i][f] = [f EXCEPT ![p[i]] = step[p[i]][f]]
    OBVIOUS
  <1> HIDE DEF next, start
  <1>3. PICK g : MadeBy(g, W, start, N, next)
    BY <1>1, StepByStep
  <1>4. g \in [0..N -> W]
    BY <1>3 DEF MadeBy
  <1>5. \A i \in 1..N : g[i] = [g[i - 1] EXCEPT ![p[i]] = step[p[i]][g[i - 1]]]
    <2> SUFFICES ASSUME NEW i \in 1..N
                 PROVE  g[i] = [g[i - 1] EXCEPT ![p[i]] = step[p[i]][g[i - 1]]]
      OBVIOUS
    <2>1. i - 1 \in 0..N
      OBVIOUS
    <2>2. g[i - 1] \in W /\ g[i] = next[i][g[i - 1]]
      BY <1>3, <1>4, <2>1 DEF MadeBy
    <2> QED
      BY <1>2, <2>2, Zenon
  <1> DEFINE Settled(m) == \A j \in 1..m : g[m][p[j]] = g[j][p[j]]
             S == {m \in Nat : m <= N => Settled(m)}
  <1>6. ASSUME NEW m \in Nat, m + 1 <= N, Settled(m)
        PROVE  Settled(m + 1)
    <2> SUFFICES ASSUME NEW j \in 1..(m + 1), j # m + 1
                 PROVE  g[m + 1][p[j]] = g[j][p[j]]
      OBVIOUS
    <2>1. j \in 1..m /\ j \in 1..N /\ m + 1 \in 1..N /\ m \in 0..N /\ m + 1 - 1 = m
      BY <1>6
    <2>2. p[j] \in D /\ p[m + 1] \in D /\ p[j] # p[m + 1]
      BY <2>1 DEF InSomeOrder
    <2>3. g[m + 1] = [g[m] EXCEPT ![p[m + 1]] = step[p[m + 1]][g[m]]]
      <3>1. PICK k \in 1..N : k = m + 1 /\ k - 1 = m
        BY <2>1
      <3>2. g[k] = [g[k - 1] EXCEPT ![p[k]] = step[p[k]][g[k - 1]]]
        BY <1>5, Zenon
      <3> QED
        BY <3>1, <3>2, Zenon
    <2>4. g[m] \in W
      BY <1>4, <2>1
    <2>5. g[m + 1][p[j]] = g[m][p[j]]
      BY <2>2, <2>3, <2>4
    <2> QED
      BY <1>6, <2>1, <2>5
  <1> HIDE DEF Settled
  <1>7. Settled(0)
    BY DEF Settled
  <1>8. Nat \subseteq S
    <2>1. 0 \in S /\ \A m \in Nat : m \in S => m + 1 \in S
      BY <1>6, <1>7
    <2> QED
      BY <2>1, SetInduction
  <1>9. g[N] \in W
    BY <1>4
  <1>10. ASSUME NEW n \in D
         PROVE  g[N][n] = step[n][g[N]]
    <2>1. PICK i \in 1..N : p[i] = n
      BY DEF InSomeOrder
    <2>2. g[N][n] = g[i][n]
      BY <1>8, <2>1 DEF Settled
    <2>3. i - 1 \in 0..N /\ i - 1 \in Nat /\ i - 1 <= N
      OBVIOUS
    <2>4. g[i - 1] \in W
      BY <1>4, <2>3
    <2>5. g[i][n] = step[n][g[i - 1]]
      BY <1>5, <2>1, <2>4
    <2>6. \A j \in 1..(i - 1) : g[i - 1][p[j]] = g[N][p[j]]
      BY <1>8, <2>3 DEF Settled
    <2>7. step[p[i]][g[i - 1]] = step[p[i]][g[N]]
      BY <1>9, <2>4, <2>6 DEF DependsOnEarlier
    <2> QED
      BY <2>1, <2>2, <2>5, <2>7
  <1> QED
    BY <1>9, <1>10 DEF MadeOf

(* From a node's children to it, or from its parent.                       *)
LEMMA Upward ==
  ASSUME NEW N \in Nat, NEW V, NEW some \in V, NEW step, StepsOver(step, 1..N, V),
         \A n \in 1..N : \A f, g \in [1..N -> V] :
           (\A k \in 1..(n - 1) : f[k] = g[k]) => step[n][f] = step[n][g]
  PROVE  \E h : MadeOf(h, step, 1..N, V)
  <1> DEFINE p == [i \in 1..N |-> i]
  <1>1. \A i \in 1..N : p[i] = i
    OBVIOUS
  <1>2. InSomeOrder(p, N, 1..N)
    BY DEF InSomeOrder
  <1> HIDE DEF p
  <1>3. DependsOnEarlier(step, p, N, 1..N, V)
    <2> SUFFICES ASSUME NEW i \in 1..N, NEW f \in [1..N -> V], NEW g \in [1..N -> V],
                        \A j \in 1..(i - 1) : f[p[j]] = g[p[j]]
                 PROVE  step[p[i]][f] = step[p[i]][g]
      BY DEF DependsOnEarlier
    <2>1. \A k \in 1..(i - 1) : f[k] = g[k]
      <3> SUFFICES ASSUME NEW k \in 1..(i - 1) PROVE f[k] = g[k]
        OBVIOUS
      <3>1. k \in 1..N
        OBVIOUS
      <3>2. f[p[k]] = g[p[k]] /\ p[k] = k
        BY <1>1, <3>1
      <3> QED
        BY <3>2
    <2>2. step[i][f] = step[i][g]
      BY <2>1
    <2> QED
      BY <1>1, <2>2
  <1> QED
    BY <1>2, <1>3, Recursion

LEMMA Downward ==
  ASSUME NEW N \in Nat, NEW V, NEW some \in V, NEW step, StepsOver(step, 1..N, V),
         \A n \in 1..N : \A f, g \in [1..N -> V] :
           (\A k \in (n + 1)..N : f[k] = g[k]) => step[n][f] = step[n][g]
  PROVE  \E h : MadeOf(h, step, 1..N, V)
  <1> DEFINE p == [i \in 1..N |-> N + 1 - i]
  <1>1. \A i \in 1..N : p[i] = N + 1 - i /\ p[i] \in 1..N
    OBVIOUS
  <1>2. InSomeOrder(p, N, 1..N)
    <2>1. p \in [1..N -> 1..N]
      BY <1>1
    <2>2. \A n \in 1..N : N + 1 - n \in 1..N /\ p[N + 1 - n] = n
      OBVIOUS
    <2>3. \A i, j \in 1..N : i # j => p[i] # p[j]
      BY <1>1
    <2> HIDE DEF p
    <2> QED
      BY <2>1, <2>2, <2>3 DEF InSomeOrder
  <1> HIDE DEF p
  <1>3. DependsOnEarlier(step, p, N, 1..N, V)
    <2> SUFFICES ASSUME NEW i \in 1..N, NEW f \in [1..N -> V], NEW g \in [1..N -> V],
                        \A j \in 1..(i - 1) : f[p[j]] = g[p[j]]
                 PROVE  step[p[i]][f] = step[p[i]][g]
      BY DEF DependsOnEarlier
    <2>1. \A k \in (N + 1 - i + 1)..N : f[k] = g[k]
      <3> SUFFICES ASSUME NEW k \in (N + 1 - i + 1)..N PROVE f[k] = g[k]
        OBVIOUS
      <3>1. PICK j \in 1..(i - 1) : j = N + 1 - k
        OBVIOUS
      <3>2. j \in 1..N /\ N + 1 - j = k
        BY <3>1
      <3>3. p[j] = k /\ f[p[j]] = g[p[j]]
        BY <1>1, <3>2
      <3> QED
        BY <3>3
    <2>2. PICK n \in 1..N : n = N + 1 - i
      OBVIOUS
    <2>3. \A k \in (n + 1)..N : f[k] = g[k]
      BY <2>1, <2>2
    <2>4. step[n][f] = step[n][g]
      BY <2>3
    <2> QED
      BY <1>1, <2>2, <2>4
  <1> QED
    BY <1>2, <1>3, Recursion

(* What holds of a node when it holds of all before it holds of all.       *)
LEMMA NodeInduction ==
  ASSUME NEW N \in Nat, NEW S, \A n \in 1..N : 1..(n - 1) \subseteq S => n \in S
  PROVE  1..N \subseteq S
  <1> DEFINE T == {m \in Nat : m <= N => 1..m \subseteq S}
  <1>1. 0 \in T
    OBVIOUS
  <1>2. \A m \in Nat : m \in T => m + 1 \in T
    <2> SUFFICES ASSUME NEW m \in Nat, 1..m \subseteq S, m + 1 <= N
                 PROVE  1..(m + 1) \subseteq S
      OBVIOUS
    <2>1. PICK n \in 1..N : n = m + 1 /\ n - 1 = m
      OBVIOUS
    <2>2. n \in S
      BY <2>1
    <2> QED
      BY <2>1, <2>2
  <1>3. N \in T
    <2>1. Nat \subseteq T
      BY <1>1, <1>2, SetInduction
    <2> QED
      BY <2>1
  <1> QED
    BY <1>3

-----------------------------------------------------------------------------
(* What the walks over a tree give each of its nodes.                      *)

Leaf == {"BGP", "Values"}
Unary == {"Filter", "Graph"}
Binary == {"Join", "LeftJoin", "Minus"}

LEMMA TreeFacts ==
  ASSUME Tree(block)
  PROVE  /\ Root \in Nat \ {0} /\ Root \in Nodes /\ Nodes = 1..Root
         /\ \A n \in Nodes :
              /\ n \in Nat
              /\ block[n].op \in Leaf \cup Unary \cup Binary
              /\ block[n].op = "BGP" => block[n].pattern \in Patterns
              /\ block[n].op = "Values" => block[n].vars \subseteq Vars /\ block[n].rows \in Seq(Bindings)
              /\ block[n].op = "Graph" =>
                   block[n].vars \subseteq Vars /\ (block[n].vars = {} => block[n].graph \in Codes)
              /\ Children(block[n]) \subseteq 1..(n - 1)
              /\ Children(block[n]) \subseteq Nodes
              /\ block[n].op \in Unary \cup Binary => block[n].p1 \in Children(block[n])
              /\ block[n].op \in Binary => block[n].p2 \in Children(block[n])
              /\ block[n].op = "Filter" /\ block[n].exists # 0 => block[n].exists \in Children(block[n])
         /\ \A n, k \in Nodes : Children(block[k]) \cap Children(block[n]) # {} => k = n
  <1>1. Root \in Nat \ {0} /\ Root \in Nodes /\ Nodes = 1..Root
    BY DEF Tree, Root, Nodes
  <1>2. ASSUME NEW n \in Nodes
        PROVE  /\ n \in Nat
               /\ block[n].op \in Leaf \cup Unary \cup Binary
               /\ block[n].op = "BGP" => block[n].pattern \in Patterns
               /\ block[n].op = "Values" => block[n].vars \subseteq Vars /\ block[n].rows \in Seq(Bindings)
               /\ block[n].op = "Graph" =>
                    block[n].vars \subseteq Vars /\ (block[n].vars = {} => block[n].graph \in Codes)
               /\ Children(block[n]) \subseteq 1..(n - 1)
    BY <1>1 DEF Tree, Nodes, Leaf, Unary, Binary
  <1>3. ASSUME NEW n \in Nodes
        PROVE  /\ block[n].op \in Unary \cup Binary => block[n].p1 \in Children(block[n])
               /\ block[n].op \in Binary => block[n].p2 \in Children(block[n])
               /\ block[n].op = "Filter" /\ block[n].exists # 0 => block[n].exists \in Children(block[n])
    BY <1>2 DEF Children, Leaf, Unary, Binary
  <1>4. \A n \in Nodes : 1..(n - 1) \subseteq Nodes
    BY <1>1
  <1>5. \A n, k \in Nodes : Children(block[k]) \cap Children(block[n]) # {} => k = n
    BY DEF Tree, Nodes
  <1> QED
    BY <1>1, <1>2, <1>3, <1>4, <1>5

(* A node's child, said once for all the walks.                            *)
Below(n, k) == k \in Nodes /\ k \in 1..(n - 1)

LEMMA ChildrenBelow ==
  ASSUME Tree(block), NEW n \in Nodes
  PROVE  /\ block[n].op \in {"Filter", "Graph", "Join", "LeftJoin", "Minus"} => Below(n, block[n].p1)
         /\ block[n].op \in {"Join", "LeftJoin", "Minus"} => Below(n, block[n].p2)
  BY TreeFacts DEF Below, Unary, Binary

VarsStep(n, f) ==
  LET b == block[n]
  IN  CASE b.op = "BGP" -> PatternVars[b.pattern]
        [] b.op = "Values" -> b.vars
        [] b.op = "Filter" -> f[b.p1]
        [] b.op = "Graph" -> f[b.p1] \cup b.vars
        [] OTHER -> f[b.p1] \cup f[b.p2]

LEMMA NodeVarsUnfolds ==
  ASSUME Tree(block)
  PROVE  NodeVars \in [Nodes -> SUBSET Vars] /\ \A n \in Nodes : NodeVars[n] = VarsStep(n, NodeVars)
  <1> DEFINE F == [Nodes -> SUBSET Vars]
             step == [n \in Nodes |-> [f \in F |-> VarsStep(n, f)]]
             P(h) == h = [n \in Nodes |-> VarsStep(n, h)]
  <1>1. Root \in Nat /\ Nodes = 1..Root
    BY TreeFacts
  <1>2. ASSUME NEW n \in Nodes, NEW f, \A k \in 1..(n - 1) : f[k] \subseteq Vars
        PROVE  VarsStep(n, f) \subseteq Vars
    BY <1>2, TreeFacts, ChildrenBelow, BlocksAssumption DEF VarsStep, Below, Leaf, Unary, Binary
  <1>3. ASSUME NEW n \in Nodes, NEW f \in F, NEW g \in F, \A k \in 1..(n - 1) : f[k] = g[k]
        PROVE  VarsStep(n, f) = VarsStep(n, g)
    BY <1>3, TreeFacts, ChildrenBelow DEF VarsStep, Below, Leaf, Unary, Binary
  <1>4. StepsOver(step, Nodes, SUBSET Vars)
    <2> SUFFICES ASSUME NEW n \in Nodes, NEW f \in F PROVE VarsStep(n, f) \in SUBSET Vars
      BY DEF StepsOver
    <2>1. \A k \in 1..(n - 1) : f[k] \subseteq Vars
      BY <1>1
    <2> QED
      BY <1>2, <2>1
  <1>5. \A n \in Nodes : \A f, g \in F :
          (\A k \in 1..(n - 1) : f[k] = g[k]) => step[n][f] = step[n][g]
    BY <1>3
  <1>6. \A n \in Nodes, f \in F : step[n][f] = VarsStep(n, f)
    OBVIOUS
  <1> HIDE DEF step
  <1>7. PICK h : MadeOf(h, step, Nodes, SUBSET Vars)
    <2>1. {} \in SUBSET Vars
      OBVIOUS
    <2> QED
      BY <1>1, <1>4, <1>5, <2>1, Upward
  <1>8. h \in F /\ P(h)
    BY <1>6, <1>7, Zenon DEF MadeOf
  <1>9. NodeVars = CHOOSE f : P(f)
    BY Zenon DEF NodeVars, VarsStep
  <1>10. P(NodeVars)
    BY <1>8, <1>9, Zenon
  <1>11. \A n \in Nodes : NodeVars[n] = VarsStep(n, NodeVars)
    BY <1>10, Zenon
  <1> DEFINE S == {n \in Nodes : NodeVars[n] \subseteq Vars}
  <1>12. 1..Root \subseteq S
    <2>1. \A n \in 1..Root : 1..(n - 1) \subseteq S => n \in S
      BY <1>1, <1>2, <1>11
    <2> HIDE DEF S
    <2> QED
      BY <1>1, <2>1, NodeInduction
  <1>13. NodeVars = [n \in Nodes |-> NodeVars[n]]
    BY <1>10, <1>11
  <1>14. \A n \in Nodes : NodeVars[n] \in SUBSET Vars
    BY <1>1, <1>12
  <1> QED
    BY <1>11, <1>13, <1>14

BoundStep(n, f) ==
  LET b == block[n]
  IN  CASE b.op = "BGP" -> PatternVars[b.pattern]
        [] b.op = "Values" -> b.vars
        [] b.op \in {"Filter", "Minus"} -> f[b.p1]
        [] b.op = "Graph" -> f[b.p1] \cup b.vars
        [] OTHER -> f[b.p1] \cup f[b.p2]

LEMMA BoundVarsUnfolds ==
  ASSUME Tree(block)
  PROVE  BoundVars \in [Nodes -> SUBSET Vars] /\ \A n \in Nodes : BoundVars[n] = BoundStep(n, BoundVars)
  <1> DEFINE F == [Nodes -> SUBSET Vars]
             step == [n \in Nodes |-> [f \in F |-> BoundStep(n, f)]]
             P(h) == h = [n \in Nodes |-> BoundStep(n, h)]
  <1>1. Root \in Nat /\ Nodes = 1..Root
    BY TreeFacts
  <1>2. ASSUME NEW n \in Nodes, NEW f, \A k \in 1..(n - 1) : f[k] \subseteq Vars
        PROVE  BoundStep(n, f) \subseteq Vars
    BY <1>2, TreeFacts, ChildrenBelow, BlocksAssumption DEF BoundStep, Below, Leaf, Unary, Binary
  <1>3. ASSUME NEW n \in Nodes, NEW f \in F, NEW g \in F, \A k \in 1..(n - 1) : f[k] = g[k]
        PROVE  BoundStep(n, f) = BoundStep(n, g)
    BY <1>3, TreeFacts, ChildrenBelow DEF BoundStep, Below, Leaf, Unary, Binary
  <1>4. StepsOver(step, Nodes, SUBSET Vars)
    <2> SUFFICES ASSUME NEW n \in Nodes, NEW f \in F PROVE BoundStep(n, f) \in SUBSET Vars
      BY DEF StepsOver
    <2>1. \A k \in 1..(n - 1) : f[k] \subseteq Vars
      BY <1>1
    <2> QED
      BY <1>2, <2>1
  <1>5. \A n \in Nodes : \A f, g \in F :
          (\A k \in 1..(n - 1) : f[k] = g[k]) => step[n][f] = step[n][g]
    BY <1>3
  <1>6. \A n \in Nodes, f \in F : step[n][f] = BoundStep(n, f)
    OBVIOUS
  <1> HIDE DEF step
  <1>7. PICK h : MadeOf(h, step, Nodes, SUBSET Vars)
    <2>1. {} \in SUBSET Vars
      OBVIOUS
    <2> QED
      BY <1>1, <1>4, <1>5, <2>1, Upward
  <1>8. h \in F /\ P(h)
    BY <1>6, <1>7, Zenon DEF MadeOf
  <1>9. BoundVars = CHOOSE f : P(f)
    BY Zenon DEF BoundVars, BoundStep
  <1>10. P(BoundVars)
    BY <1>8, <1>9, Zenon
  <1>11. \A n \in Nodes : BoundVars[n] = BoundStep(n, BoundVars)
    BY <1>10, Zenon
  <1> DEFINE S == {n \in Nodes : BoundVars[n] \subseteq Vars}
  <1>12. 1..Root \subseteq S
    <2>1. \A n \in 1..Root : 1..(n - 1) \subseteq S => n \in S
      BY <1>1, <1>2, <1>11
    <2> HIDE DEF S
    <2> QED
      BY <1>1, <2>1, NodeInduction
  <1>13. BoundVars = [n \in Nodes |-> BoundVars[n]]
    BY <1>10, <1>11
  <1>14. \A n \in Nodes : BoundVars[n] \in SUBSET Vars
    BY <1>1, <1>12
  <1> QED
    BY <1>11, <1>13, <1>14

NullableStep(n, f) ==
  LET b == block[n]
  IN  CASE b.op = "BGP" -> {}
        [] b.op = "Values" -> UndefVars(n)
        [] b.op \in {"Filter", "Minus", "Graph"} -> f[b.p1]
        [] b.op = "Join" -> f[b.p1] \cup f[b.p2]
        [] OTHER -> f[b.p1] \cup f[b.p2] \cup PaddedVars(n)

LEMMA NullableUnfolds ==
  ASSUME Tree(block)
  PROVE  Nullable \in [Nodes -> SUBSET Vars] /\ \A n \in Nodes : Nullable[n] = NullableStep(n, Nullable)
  <1> DEFINE F == [Nodes -> SUBSET Vars]
             step == [n \in Nodes |-> [f \in F |-> NullableStep(n, f)]]
             P(h) == h = [n \in Nodes |-> NullableStep(n, h)]
  <1>1. Root \in Nat /\ Nodes = 1..Root
    BY TreeFacts
  <1>2. ASSUME NEW n \in Nodes, NEW f, \A k \in 1..(n - 1) : f[k] \subseteq Vars
        PROVE  NullableStep(n, f) \subseteq Vars
    <2>1. \A k \in Nodes : NodeVars[k] \subseteq Vars
      BY NodeVarsUnfolds
    <2>2. block[n].op = "LeftJoin" => PaddedVars(n) \subseteq Vars
      BY <2>1, ChildrenBelow DEF PaddedVars, Below
    <2> QED
      BY <1>2, <2>1, <2>2, TreeFacts, ChildrenBelow DEF NullableStep, UndefVars, Below, Leaf, Unary, Binary
  <1>3. ASSUME NEW n \in Nodes, NEW f \in F, NEW g \in F, \A k \in 1..(n - 1) : f[k] = g[k]
        PROVE  NullableStep(n, f) = NullableStep(n, g)
    BY <1>3, TreeFacts, ChildrenBelow DEF NullableStep, UndefVars, Below, Leaf, Unary, Binary
  <1>4. StepsOver(step, Nodes, SUBSET Vars)
    <2> SUFFICES ASSUME NEW n \in Nodes, NEW f \in F PROVE NullableStep(n, f) \in SUBSET Vars
      BY DEF StepsOver
    <2>1. \A k \in 1..(n - 1) : f[k] \subseteq Vars
      BY <1>1
    <2> QED
      BY <1>2, <2>1
  <1>5. \A n \in Nodes : \A f, g \in F :
          (\A k \in 1..(n - 1) : f[k] = g[k]) => step[n][f] = step[n][g]
    BY <1>3
  <1>6. \A n \in Nodes, f \in F : step[n][f] = NullableStep(n, f)
    OBVIOUS
  <1> HIDE DEF step
  <1>7. PICK h : MadeOf(h, step, Nodes, SUBSET Vars)
    <2>1. {} \in SUBSET Vars
      OBVIOUS
    <2> QED
      BY <1>1, <1>4, <1>5, <2>1, Upward
  <1>8. h \in F /\ P(h)
    BY <1>6, <1>7, Zenon DEF MadeOf
  <1>9. Nullable = CHOOSE f : P(f)
    BY Zenon DEF Nullable, NullableStep
  <1>10. P(Nullable)
    BY <1>8, <1>9, Zenon
  <1>11. \A n \in Nodes : Nullable[n] = NullableStep(n, Nullable)
    BY <1>10, Zenon
  <1> DEFINE S == {n \in Nodes : Nullable[n] \subseteq Vars}
  <1>12. 1..Root \subseteq S
    <2>1. \A n \in 1..Root : 1..(n - 1) \subseteq S => n \in S
      BY <1>1, <1>2, <1>11
    <2> HIDE DEF S
    <2> QED
      BY <1>1, <2>1, NodeInduction
  <1>13. Nullable = [n \in Nodes |-> Nullable[n]]
    BY <1>10, <1>11
  <1>14. \A n \in Nodes : Nullable[n] \in SUBSET Vars
    BY <1>1, <1>12
  <1> QED
    BY <1>11, <1>13, <1>14

CarriesStep(n, f) ==
  LET b == block[n]
  IN  CASE b.op = "BGP" -> Vars
        [] b.op = "Values" -> {}
        [] b.op = "Join" -> f[b.p1] \cup f[b.p2]
        [] b.op = "Graph" -> b.vars \cap f[b.p1]
        [] OTHER -> f[b.p1]

LEMMA CarriesGraphUnfolds ==
  ASSUME Tree(block)
  PROVE  CarriesGraph \in [Nodes -> SUBSET Vars] /\ \A n \in Nodes : CarriesGraph[n] = CarriesStep(n, CarriesGraph)
  <1> DEFINE F == [Nodes -> SUBSET Vars]
             step == [n \in Nodes |-> [f \in F |-> CarriesStep(n, f)]]
             P(h) == h = [n \in Nodes |-> CarriesStep(n, h)]
  <1>1. Root \in Nat /\ Nodes = 1..Root
    BY TreeFacts
  <1>2. ASSUME NEW n \in Nodes, NEW f, \A k \in 1..(n - 1) : f[k] \subseteq Vars
        PROVE  CarriesStep(n, f) \subseteq Vars
    BY <1>2, TreeFacts, ChildrenBelow, BlocksAssumption DEF CarriesStep, Below, Leaf, Unary, Binary
  <1>3. ASSUME NEW n \in Nodes, NEW f \in F, NEW g \in F, \A k \in 1..(n - 1) : f[k] = g[k]
        PROVE  CarriesStep(n, f) = CarriesStep(n, g)
    BY <1>3, TreeFacts, ChildrenBelow DEF CarriesStep, Below, Leaf, Unary, Binary
  <1>4. StepsOver(step, Nodes, SUBSET Vars)
    <2> SUFFICES ASSUME NEW n \in Nodes, NEW f \in F PROVE CarriesStep(n, f) \in SUBSET Vars
      BY DEF StepsOver
    <2>1. \A k \in 1..(n - 1) : f[k] \subseteq Vars
      BY <1>1
    <2> QED
      BY <1>2, <2>1
  <1>5. \A n \in Nodes : \A f, g \in F :
          (\A k \in 1..(n - 1) : f[k] = g[k]) => step[n][f] = step[n][g]
    BY <1>3
  <1>6. \A n \in Nodes, f \in F : step[n][f] = CarriesStep(n, f)
    OBVIOUS
  <1> HIDE DEF step
  <1>7. PICK h : MadeOf(h, step, Nodes, SUBSET Vars)
    <2>1. {} \in SUBSET Vars
      OBVIOUS
    <2> QED
      BY <1>1, <1>4, <1>5, <2>1, Upward
  <1>8. h \in F /\ P(h)
    BY <1>6, <1>7, Zenon DEF MadeOf
  <1>9. CarriesGraph = CHOOSE f : P(f)
    BY Zenon DEF CarriesGraph, CarriesStep
  <1>10. P(CarriesGraph)
    BY <1>8, <1>9, Zenon
  <1>11. \A n \in Nodes : CarriesGraph[n] = CarriesStep(n, CarriesGraph)
    BY <1>10, Zenon
  <1> DEFINE S == {n \in Nodes : CarriesGraph[n] \subseteq Vars}
  <1>12. 1..Root \subseteq S
    <2>1. \A n \in 1..Root : 1..(n - 1) \subseteq S => n \in S
      BY <1>1, <1>2, <1>11
    <2> HIDE DEF S
    <2> QED
      BY <1>1, <2>1, NodeInduction
  <1>13. CarriesGraph = [n \in Nodes |-> CarriesGraph[n]]
    BY <1>10, <1>11
  <1>14. \A n \in Nodes : CarriesGraph[n] \in SUBSET Vars
    BY <1>1, <1>12
  <1> QED
    BY <1>11, <1>13, <1>14

RightOnlyStep(n, f) ==
  LET b == block[n]
  IN  CASE b.op \in {"BGP", "Values"} -> {}
        [] b.op = "Filter" -> f[b.p1]
        [] b.op = "Graph" -> b.vars \cap f[b.p1]
        [] b.op = "Join" -> f[b.p1] \cup f[b.p2]
        [] OTHER -> f[b.p1] \cup f[b.p2] \cup (CarriesGraph[b.p2] \ CarriesGraph[b.p1])

LEMMA CarriesRightOnlyUnfolds ==
  ASSUME Tree(block)
  PROVE  CarriesRightOnly \in [Nodes -> SUBSET Vars] /\ \A n \in Nodes : CarriesRightOnly[n] = RightOnlyStep(n, CarriesRightOnly)
  <1> DEFINE F == [Nodes -> SUBSET Vars]
             step == [n \in Nodes |-> [f \in F |-> RightOnlyStep(n, f)]]
             P(h) == h = [n \in Nodes |-> RightOnlyStep(n, h)]
  <1>1. Root \in Nat /\ Nodes = 1..Root
    BY TreeFacts
  <1>2. ASSUME NEW n \in Nodes, NEW f, \A k \in 1..(n - 1) : f[k] \subseteq Vars
        PROVE  RightOnlyStep(n, f) \subseteq Vars
    <2>1. \A k \in Nodes : CarriesGraph[k] \subseteq Vars
      BY CarriesGraphUnfolds
    <2> QED
      BY <1>2, <2>1, TreeFacts, ChildrenBelow DEF RightOnlyStep, Below, Leaf, Unary, Binary
  <1>3. ASSUME NEW n \in Nodes, NEW f \in F, NEW g \in F, \A k \in 1..(n - 1) : f[k] = g[k]
        PROVE  RightOnlyStep(n, f) = RightOnlyStep(n, g)
    BY <1>3, TreeFacts, ChildrenBelow DEF RightOnlyStep, Below, Leaf, Unary, Binary
  <1>4. StepsOver(step, Nodes, SUBSET Vars)
    <2> SUFFICES ASSUME NEW n \in Nodes, NEW f \in F PROVE RightOnlyStep(n, f) \in SUBSET Vars
      BY DEF StepsOver
    <2>1. \A k \in 1..(n - 1) : f[k] \subseteq Vars
      BY <1>1
    <2> QED
      BY <1>2, <2>1
  <1>5. \A n \in Nodes : \A f, g \in F :
          (\A k \in 1..(n - 1) : f[k] = g[k]) => step[n][f] = step[n][g]
    BY <1>3
  <1>6. \A n \in Nodes, f \in F : step[n][f] = RightOnlyStep(n, f)
    OBVIOUS
  <1> HIDE DEF step
  <1>7. PICK h : MadeOf(h, step, Nodes, SUBSET Vars)
    <2>1. {} \in SUBSET Vars
      OBVIOUS
    <2> QED
      BY <1>1, <1>4, <1>5, <2>1, Upward
  <1>8. h \in F /\ P(h)
    BY <1>6, <1>7, Zenon DEF MadeOf
  <1>9. CarriesRightOnly = CHOOSE f : P(f)
    BY Zenon DEF CarriesRightOnly, RightOnlyStep
  <1>10. P(CarriesRightOnly)
    BY <1>8, <1>9, Zenon
  <1>11. \A n \in Nodes : CarriesRightOnly[n] = RightOnlyStep(n, CarriesRightOnly)
    BY <1>10, Zenon
  <1> DEFINE S == {n \in Nodes : CarriesRightOnly[n] \subseteq Vars}
  <1>12. 1..Root \subseteq S
    <2>1. \A n \in 1..Root : 1..(n - 1) \subseteq S => n \in S
      BY <1>1, <1>2, <1>11
    <2> HIDE DEF S
    <2> QED
      BY <1>1, <2>1, NodeInduction
  <1>13. CarriesRightOnly = [n \in Nodes |-> CarriesRightOnly[n]]
    BY <1>10, <1>11
  <1>14. \A n \in Nodes : CarriesRightOnly[n] \in SUBSET Vars
    BY <1>1, <1>12
  <1> QED
    BY <1>11, <1>13, <1>14

LEMMA BoundAreMentioned ==
  ASSUME Tree(block)
  PROVE  \A n \in Nodes : BoundVars[n] \subseteq NodeVars[n]
  <1> DEFINE S == {n \in Nodes : BoundVars[n] \subseteq NodeVars[n]}
  <1>1. Root \in Nat /\ Nodes = 1..Root
    BY TreeFacts
  <1>2. ASSUME NEW n \in 1..Root, 1..(n - 1) \subseteq S
        PROVE  n \in S
    <2>1. \A k \in 1..(n - 1) : BoundVars[k] \subseteq NodeVars[k]
      BY <1>2
    <2>2. NodeVars[n] = VarsStep(n, NodeVars) /\ BoundVars[n] = BoundStep(n, BoundVars)
      BY <1>1, NodeVarsUnfolds, BoundVarsUnfolds
    <2> QED
      BY <1>1, <2>1, <2>2, TreeFacts, ChildrenBelow
         DEF VarsStep, BoundStep, Below, Leaf, Unary, Binary
  <1> HIDE DEF S
  <1>3. 1..Root \subseteq S
    BY <1>1, <1>2, NodeInduction
  <1> QED
    BY <1>1, <1>3 DEF S

ScopeStep(n, f) ==
  IF Parents(n) = {} THEN ActiveScope
  ELSE IF block[Parent(n)].op = "Graph" THEN ScopeUnder(Parent(n))
  ELSE f[Parent(n)]

Scopes == [graph : Places, vars : SUBSET Vars]

LEMMA ScopeUnderOK ==
  ASSUME QueryOK, NEW n \in Nodes, block[n].op = "Graph"
  PROVE  ScopeUnder(n) \in Scopes
  <1>1. block[n].vars \subseteq Vars /\ (block[n].vars = {} => block[n].graph \in Codes)
    BY TreeFacts DEF QueryOK
  <1>2. CASE block[n].vars \subseteq DOMAIN ctx
    <2>1. NamedBy(block[n], ctx) \in Codes
      <3>1. CASE block[n].vars = {}
        BY <1>1, <3>1 DEF NamedBy
      <3>2. CASE block[n].vars # {}
        <4>1. (CHOOSE v \in block[n].vars : TRUE) \in block[n].vars
          BY <3>2
        <4>2. \A v \in DOMAIN ctx : ctx[v] \in Codes
          BY DEF QueryOK, Bindings
        <4> QED
          BY <1>2, <3>2, <4>1, <4>2 DEF NamedBy
      <3> QED
        BY <3>1, <3>2
    <2> QED
      BY <1>2, <2>1 DEF ScopeUnder, Scope, Scopes, Places
  <1>3. CASE ~(block[n].vars \subseteq DOMAIN ctx)
    BY <1>1, <1>3 DEF ScopeUnder, Scope, Scopes, Places
  <1> QED
    BY <1>2, <1>3

LEMMA ParentAbove ==
  ASSUME Tree(block), NEW n \in Nodes, Parents(n) # {}
  PROVE  /\ Parent(n) \in Nodes /\ n \in Children(block[Parent(n)])
         /\ Parent(n) \in (n + 1)..Root
  <1>1. Parent(n) \in Parents(n)
    BY DEF Parent
  <1>2. Parent(n) \in Nodes /\ n \in Children(block[Parent(n)])
    BY <1>1 DEF Parents
  <1> HIDE DEF Parent
  <1>3. n \in 1..(Parent(n) - 1) /\ Parent(n) \in 1..Root /\ Root \in Nat
    BY <1>2, TreeFacts
  <1> QED
    BY <1>2, <1>3

LEMMA ScopeUnfolds ==
  ASSUME QueryOK
  PROVE  \A n \in Nodes : ScopeOf[n] = ScopeStep(n, ScopeOf) /\ ScopeOf[n] \in Scopes
  <1> DEFINE F == [Nodes -> Scopes]
             step == [n \in Nodes |-> [f \in F |-> ScopeStep(n, f)]]
             P(h) == h = [n \in Nodes |-> ScopeStep(n, h)]
  <1>1. Root \in Nat /\ Nodes = 1..Root /\ Tree(block)
    BY TreeFacts DEF QueryOK
  <1>2. ActiveScope \in Scopes
    BY DEF QueryOK, ActiveScope, Scope, Scopes
  <1>3. ASSUME NEW n \in Nodes, NEW f, \A k \in (n + 1)..Root : f[k] \in Scopes
        PROVE  ScopeStep(n, f) \in Scopes
    BY <1>1, <1>2, <1>3, ParentAbove, ScopeUnderOK DEF ScopeStep
  <1>4. ASSUME NEW n \in Nodes, NEW f \in F, NEW g \in F, \A k \in (n + 1)..Root : f[k] = g[k]
        PROVE  ScopeStep(n, f) = ScopeStep(n, g)
    BY <1>1, <1>4, ParentAbove DEF ScopeStep
  <1>5. StepsOver(step, Nodes, Scopes)
    <2> SUFFICES ASSUME NEW n \in Nodes, NEW f \in F PROVE ScopeStep(n, f) \in Scopes
      BY DEF StepsOver
    <2>1. \A k \in (n + 1)..Root : f[k] \in Scopes
      BY <1>1
    <2> QED
      BY <1>3, <2>1
  <1>6. \A n \in Nodes : \A f, g \in F :
          (\A k \in (n + 1)..Root : f[k] = g[k]) => step[n][f] = step[n][g]
    BY <1>4
  <1>7. \A n \in Nodes, f \in F : step[n][f] = ScopeStep(n, f)
    OBVIOUS
  <1> HIDE DEF step
  <1>8. PICK h : MadeOf(h, step, Nodes, Scopes)
    BY <1>1, <1>2, <1>5, <1>6, Downward
  <1>9. h \in F /\ P(h)
    BY <1>7, <1>8, Zenon DEF MadeOf
  <1>10. ScopeOf = CHOOSE f : P(f)
    BY Zenon DEF ScopeOf, ScopeStep
  <1>11. P(ScopeOf)
    BY <1>9, <1>10, Zenon
  <1>12. \A n \in Nodes : ScopeOf[n] = ScopeStep(n, ScopeOf)
    BY <1>11, Zenon
  <1> DEFINE S == {i \in 1..Root : ScopeOf[Root + 1 - i] \in Scopes}
  <1>13. ASSUME NEW i \in 1..Root, 1..(i - 1) \subseteq S
         PROVE  i \in S
    <2>1. PICK n \in Nodes : n = Root + 1 - i
      BY <1>1
    <2>2. \A k \in (n + 1)..Root : ScopeOf[k] \in Scopes
      <3> SUFFICES ASSUME NEW k \in (n + 1)..Root PROVE ScopeOf[k] \in Scopes
        OBVIOUS
      <3>1. PICK j \in 1..(i - 1) : j = Root + 1 - k
        BY <1>1, <2>1
      <3>2. Root + 1 - j = k
        BY <1>1, <3>1
      <3>3. ScopeOf[Root + 1 - j] \in Scopes
        BY <1>13
      <3> QED
        BY <3>2, <3>3
    <2>3. ScopeOf[n] \in Scopes
      BY <1>3, <1>12, <2>2
    <2> QED
      BY <2>1, <2>3
  <1>14. 1..Root \subseteq S
    <2> HIDE DEF S
    <2> QED
      BY <1>1, <1>13, NodeInduction
  <1>15. ASSUME NEW n \in Nodes
         PROVE  ScopeOf[n] \in Scopes
    <2>1. PICK i \in 1..Root : Root + 1 - i = n
      <3>1. Root + 1 - n \in 1..Root /\ Root + 1 - (Root + 1 - n) = n
        BY <1>1
      <3> QED
        BY <3>1
    <2> QED
      BY <1>14, <2>1
  <1> QED
    BY <1>12, <1>15

(* A node is solved in the scope of the one above it, or that a GRAPH sets.*)
LEMMA ScopesFollow ==
  ASSUME QueryOK
  PROVE  /\ ScopeOf[Root] = ActiveScope
         /\ \A n \in Nodes : \A k \in Children(block[n]) :
              ScopeOf[k] = IF block[n].op = "Graph" THEN ScopeUnder(n) ELSE ScopeOf[n]
  <1>1. Tree(block) /\ Root \in Nodes /\ Root \in Nat
    BY TreeFacts DEF QueryOK
  <1>2. Parents(Root) = {}
    <2>1. Parents(Root) # {} => Parent(Root) \in (Root + 1)..Root
      BY <1>1, ParentAbove
    <2> QED
      BY <1>1, <2>1
  <1>3. ASSUME NEW n \in Nodes, NEW k \in Children(block[n])
        PROVE  ScopeOf[k] = IF block[n].op = "Graph" THEN ScopeUnder(n) ELSE ScopeOf[n]
    <2>1. k \in Nodes /\ n \in Parents(k)
      BY <1>1, TreeFacts DEF Parents
    <2>2. Parent(k) \in Nodes /\ k \in Children(block[Parent(k)])
      BY <1>1, <2>1, ParentAbove
    <2>3. Parent(k) = n
      BY <1>1, <2>2, TreeFacts
    <2>4. ScopeOf[k] = ScopeStep(k, ScopeOf)
      BY <2>1, ScopeUnfolds
    <2> QED
      BY <2>1, <2>3, <2>4 DEF ScopeStep
  <1> QED
    BY <1>1, <1>2, <1>3, ScopeUnfolds DEF ScopeStep

-----------------------------------------------------------------------------
(* What a step does to the calls and the relations.                        *)

(* Nothing that is known of the tree beforehand changes.                   *)
LEMMA StaticsStay ==
  ASSUME UNCHANGED query
  PROVE  /\ block' = block /\ ctx' = ctx /\ active' = active /\ matches' = matches
         /\ Nodes' = Nodes
         /\ NodeVars' = NodeVars /\ BoundVars' = BoundVars /\ Nullable' = Nullable
         /\ CarriesGraph' = CarriesGraph /\ CarriesRightOnly' = CarriesRightOnly
         /\ ScopeOf' = ScopeOf
  <1>1. block' = block /\ ctx' = ctx /\ active' = active /\ matches' = matches
    BY DEF query
  <1>2. Nodes' = Nodes
    BY <1>1 DEF Nodes
  <1>3. NodeVars' = NodeVars
    BY <1>1, SMT DEF NodeVars, Nodes
  <1>4. BoundVars' = BoundVars
    BY <1>1, SMT DEF BoundVars, Nodes
  <1>5. CarriesGraph' = CarriesGraph
    BY <1>1, SMT DEF CarriesGraph, Nodes
  <1>6. CarriesRightOnly' = CarriesRightOnly
    BY <1>1, SMT DEF CarriesRightOnly, CarriesGraph, Nodes
  <1>7. Nullable' = Nullable
    BY <1>1, SMT DEF Nullable, UndefVars, PaddedVars, NodeVars, BoundVars, Nodes
  <1>8. ScopeOf' = ScopeOf
    BY <1>1, SMT DEF ScopeOf, Parents, Parent, ActiveScope, ScopeUnder, Nodes, NamedBy, Scope
  <1> QED
    BY <1>1, <1>2, <1>3, <1>4, <1>5, <1>6, <1>7, <1>8

LEMMA InvStays ==
  ASSUME QueryOK, UNCHANGED query, CallsFit(calls', outcome'), RelationsFit(rel')
  PROVE  BlocksInv'
  <1>1. QueryOK'
    BY StaticsStay DEF QueryOK
  <1>2. CallsFit(calls, outcome)'
    BY StaticsStay DEF CallsFit, CallOK, ScopeUnder
  <1>3. RelationsFit(rel)'
    BY StaticsStay DEF RelationsFit, RelationFits, RowsAt, Declared, Foreseen, Columned, Mentioned
  <1> QED
    BY <1>1, <1>2, <1>3 DEF BlocksInv

LEMMA TopOK ==
  ASSUME BlocksInv, outcome = "solving"
  PROVE  /\ Len(calls) \in Nat \ {0} /\ DOMAIN calls = 1..Len(calls)
         /\ \A i \in 1..Len(calls) : calls[i] \in Range(calls) /\ CallOK(calls[i])
         /\ CallOK(Top) /\ Top.node \in Nodes /\ Top.scope = ScopeOf[Top.node]
  <1>1. calls \in Seq(Range(calls)) /\ calls # <<>> /\ \A c \in Range(calls) : CallOK(c)
    BY DEF BlocksInv, CallsFit
  <1>2. Len(calls) \in Nat \ {0} /\ DOMAIN calls = 1..Len(calls)
    BY <1>1, EmptySeq, LenProperties
  <1>3. \A i \in 1..Len(calls) : calls[i] \in Range(calls)
    BY <1>1, ElementOfSeq
  <1>4. Top \in Range(calls)
    BY <1>2, <1>3 DEF Top
  <1> QED
    BY <1>1, <1>2, <1>3, <1>4 DEF CallOK

(* A sequence of good calls.                                               *)
LEMMA GoodCalls ==
  ASSUME NEW cs, NEW S, cs \in Seq(S), \A c \in S : CallOK(c), NEW at, at = "solving" => cs # <<>>
  PROVE  CallsFit(cs, at)
  <1>1. cs \in Seq(Range(cs)) /\ Range(cs) \subseteq S
    BY SeqOfRange, RangeOfSeq
  <1> QED
    BY <1>1 DEF CallsFit

LEMMA Shortened ==
  ASSUME NEW S, NEW s \in Seq(S), NEW n \in Nat, n <= Len(s)
  PROVE  SubSeq(s, 1, n) \in Seq(S) /\ Len(SubSeq(s, 1, n)) = n
  <1>1. \A i \in 1..n : s[i] \in S
    <2>1. Len(s) \in Nat
      BY LenProperties
    <2> QED
      BY <2>1, ElementOfSeq
  <1> QED
    BY <1>1, SubSeqProperties

Waits(c, at) == [c EXCEPT !.at = at]

LEMMA MovedFits ==
  ASSUME BlocksInv, outcome = "solving", NEW at, CallOK(Waits(Top, at)), NEW out
  PROVE  /\ CallsFit(Moved(at), out)
         /\ \A c : CallOK(c) => CallsFit(Append(Moved(at), c), out)
  <1> DEFINE S == {c \in Range(calls) \cup {Waits(Top, at)} : TRUE}
             n == Len(calls) - 1
             start == SubSeq(calls, 1, n)
  <1>1. calls \in Seq(Range(calls)) /\ \A c \in S : CallOK(c)
    BY DEF BlocksInv, CallsFit
  <1>2. n \in Nat /\ n <= Len(calls)
    BY TopOK
  <1>3. calls \in Seq(S)
    BY <1>1, SeqMonotonic
  <1>4. start \in Seq(S)
    BY <1>2, <1>3, Shortened
  <1>5. Waits(Top, at) \in S
    OBVIOUS
  <1> HIDE DEF S, start
  <1>6. Moved(at) = start \o <<Waits(Top, at)>>
    BY DEF Moved, Waits, start
  <1>7. Moved(at) = Append(start, Waits(Top, at))
    BY <1>4, <1>5, <1>6, AppendIsConcat
  <1>8. Moved(at) \in Seq(S) /\ Moved(at) # <<>>
    BY <1>4, <1>5, <1>7, AppendProperties
  <1>9. ASSUME NEW c, CallOK(c)
        PROVE  CallsFit(Append(Moved(at), c), out)
    <2> DEFINE T == S \cup {c}
    <2>1. Moved(at) \in Seq(T) /\ c \in T
      BY <1>8, SeqMonotonic
    <2>2. \A d \in T : CallOK(d)
      BY <1>1, <1>9
    <2> HIDE DEF T
    <2>3. Append(Moved(at), c) \in Seq(T) /\ Append(Moved(at), c) # <<>>
      BY <2>1, AppendProperties
    <2> QED
      BY <2>2, <2>3, GoodCalls
  <1>10. CallsFit(Moved(at), out)
    BY <1>1, <1>8, GoodCalls
  <1> QED
    BY <1>9, <1>10

(* A call returns a relation that fits its node.                           *)
LEMMA ReturnFits ==
  ASSUME BlocksInv, outcome = "solving", NEW r, RelationFits(Top.node, r), Return(r)
  PROVE  BlocksInv'
  <1>1. QueryOK /\ RelationsFit(rel)
    BY DEF BlocksInv
  <1>2. UNCHANGED query
    BY DEF Return
  <1>3. RelationsFit(rel')
    <2>1. rel' = [rel EXCEPT ![Top.node] = r]
      BY DEF Return
    <2>2. Top.node \in Nodes
      BY TopOK
    <2>3. rel' = [n \in Nodes |-> IF n = Top.node THEN r ELSE rel[n]]
      BY <1>1, <2>1, <2>2 DEF RelationsFit
    <2>4. \A n \in Nodes : rel'[n] = IF n = Top.node THEN r ELSE rel[n]
      BY <2>3, Zenon
    <2> QED
      BY <1>1, <2>3, <2>4 DEF RelationsFit
  <1>4. CallsFit(calls', outcome')
    <2> DEFINE n == Len(calls) - 1
    <2>1. n \in Nat /\ n <= Len(calls)
      BY TopOK
    <2>2. calls' = SubSeq(calls, 1, n) /\ outcome' = IF n = 0 THEN "solved" ELSE outcome
      BY <2>1 DEF Return
    <2>3. calls \in Seq(Range(calls)) /\ \A c \in Range(calls) : CallOK(c)
      BY DEF BlocksInv, CallsFit
    <2> HIDE DEF n
    <2>4. calls' \in Seq(Range(calls)) /\ Len(calls') = n
      BY <2>1, <2>2, <2>3, Shortened
    <2>5. outcome' = "solving" => calls' # <<>>
      BY <2>2, <2>4, EmptySeq
    <2> QED
      BY <2>3, <2>4, <2>5, GoodCalls
  <1> QED
    BY <1>1, <1>2, <1>3, <1>4, InvStays

(* It waits for a node below it, which is solved in its own scope.          *)
LEMMA SolveFits ==
  ASSUME BlocksInv, outcome = "solving", NEW n \in Nodes, NEW at, NEW env, NEW pushed,
         CallOK(Waits(Top, at)), SolveIn(ScopeOf[n], n, at, env, pushed), UNCHANGED rel
  PROVE  BlocksInv'
  <1> DEFINE c == [node |-> n, at |-> "start", env |-> env, pushed |-> pushed, scope |-> ScopeOf[n]]
  <1>1. CallOK(c)
    BY DEF CallOK
  <1>2. calls' = Append(Moved(at), c) /\ UNCHANGED <<query, outcome>>
    BY DEF SolveIn
  <1> HIDE DEF c
  <1>3. CallsFit(calls', outcome')
    BY <1>1, <1>2, MovedFits
  <1> QED
    BY <1>2, <1>3, InvStays DEF BlocksInv

LEMMA WaitsOK ==
  ASSUME NEW c, CallOK(c), NEW at, block[c.node].op # "Graph" \/ at # "left",
         at = "exists" => block[c.node].exists # 0
  PROVE  CallOK(Waits(c, at))
  BY DEF CallOK, Waits

LEMMA SolveBelowFits ==
  ASSUME BlocksInv, outcome = "solving", Node.op # "Graph", NEW n \in Children(Node),
         NEW at, at # "exists", NEW env, NEW pushed, Solve(n, at, env, pushed), UNCHANGED rel
  PROVE  BlocksInv'
  <1>1. Top.node \in Nodes /\ Top.scope = ScopeOf[Top.node] /\ CallOK(Top)
    BY TopOK
  <1>2. n \in Nodes /\ ScopeOf[n] = ScopeOf[Top.node]
    <2>1. QueryOK /\ Tree(block)
      BY DEF BlocksInv, QueryOK
    <2> QED
      BY <1>1, <2>1, TreeFacts, ScopesFollow DEF Node
  <1>3. CallOK(Waits(Top, at))
    BY <1>1, WaitsOK DEF Node
  <1> QED
    BY <1>1, <1>2, <1>3, SolveFits DEF Solve

(* A call moves on, with the relation of its node or without.               *)
LEMMA MoveFits ==
  ASSUME BlocksInv, outcome = "solving", NEW at, at = "exists" => HasExists, Node.op # "Graph",
         calls' = Moved(at),
         UNCHANGED <<query, outcome>>,
         \/ UNCHANGED rel
         \/ \E r : RelationFits(Top.node, r) /\ rel' = [rel EXCEPT ![Top.node] = r]
  PROVE  BlocksInv'
  <1>1. CallOK(Waits(Top, at))
    BY TopOK, WaitsOK DEF Node, HasExists
  <1>2. CallsFit(calls', outcome')
    BY <1>1, MovedFits
  <1>3. RelationsFit(rel')
    <2>1. RelationsFit(rel)
      BY DEF BlocksInv
    <2>2. CASE UNCHANGED rel
      BY <2>1, <2>2
    <2>3. ASSUME NEW r, RelationFits(Top.node, r), rel' = [rel EXCEPT ![Top.node] = r]
          PROVE  RelationsFit(rel')
      <3>1. Top.node \in Nodes
        BY TopOK
      <3>2. rel' = [n \in Nodes |-> IF n = Top.node THEN r ELSE rel[n]]
        BY <2>1, <2>3, <3>1 DEF RelationsFit
      <3>3. \A n \in Nodes : rel'[n] = IF n = Top.node THEN r ELSE rel[n]
        BY <3>2, Zenon
      <3> QED
        BY <2>1, <2>3, <3>2, <3>3 DEF RelationsFit
    <2> QED
      BY <2>2, <2>3
  <1> QED
    BY <1>2, <1>3, InvStays DEF BlocksInv

(* A set of places in a sequence has a last one.                           *)
LEMMA LastOf ==
  ASSUME NEW N \in Nat, NEW S \in SUBSET (1..N), S # {}
  PROVE  \E i \in S : \A k \in S : k <= i
  <1> DEFINE Above == {m \in Nat : ~(\E i \in S : N - m <= i)
                         \/ \E i \in S : \A k \in S : k <= i}
  <1>1. 0 \in Above
    OBVIOUS
  <1>2. \A m \in Nat : m \in Above => m + 1 \in Above
    OBVIOUS
  <1>3. N \in Above
    <2> HIDE DEF Above
    <2> QED
      BY <1>1, <1>2, SetInduction
  <1>4. PICK i \in S : TRUE
    OBVIOUS
  <1>5. N - N <= i
    <2>1. i \in 1..N
      OBVIOUS
    <2> QED
      BY <2>1
  <1> QED
    BY <1>3, <1>5

LEMMA RaiseFits ==
  ASSUME BlocksInv, outcome = "solving", Raise
  PROVE  BlocksInv'
  <1>1. QueryOK /\ RelationsFit(rel) /\ UNCHANGED <<query, rel>>
    BY DEF BlocksInv, Raise
  <1>2. CallsFit(calls', outcome')
    <2>1. CASE Bodies = {}
      <3>1. calls' = <<>> /\ outcome' = "handed back"
        BY <2>1 DEF Raise
      <3>2. calls' \in Seq({})
        BY <3>1, EmptySeq
      <3> QED
        <4>1. outcome' # "solving" /\ \A c \in {} : CallOK(c)
          BY <3>1
        <4> QED
          BY <3>2, <4>1, GoodCalls
    <2>2. CASE Bodies # {}
      <3> DEFINE i == CHOOSE j \in Bodies : \A k \in Bodies : k <= j
                 c == Waits(calls[i], "generic")
                 S == Range(calls) \cup {c}
                 start == SubSeq(calls, 1, i - 1)
      <3>1. Len(calls) \in Nat /\ Bodies \in SUBSET (1..Len(calls))
        BY TopOK DEF Bodies
      <3>2. i \in 1..Len(calls)
        <4>1. \E j \in Bodies : \A k \in Bodies : k <= j
          BY <2>2, <3>1, LastOf
        <4> QED
          BY <3>1, <4>1
      <3>3. calls' = SubSeq(calls, 1, i - 1) \o <<c>> /\ outcome' = outcome
        BY <2>2 DEF Raise, Waits
      <3> HIDE DEF i
      <3>4. CallOK(c)
        BY <3>2, TopOK, WaitsOK
      <3>5. calls \in Seq(Range(calls)) /\ \A d \in Range(calls) : CallOK(d)
        BY DEF BlocksInv, CallsFit
      <3>6. calls \in Seq(S) /\ c \in S /\ \A d \in S : CallOK(d)
        BY <3>4, <3>5, SeqMonotonic
      <3> HIDE DEF S, c
      <3>7. start \in Seq(S)
        BY <3>1, <3>2, <3>6, Shortened
      <3> HIDE DEF start
      <3>8. calls' = Append(start, c)
        BY <3>3, <3>6, <3>7, AppendIsConcat DEF start
      <3>9. calls' \in Seq(S) /\ calls' # <<>>
        BY <3>6, <3>7, <3>8, AppendProperties
      <3> QED
        BY <3>6, <3>9, GoodCalls
    <2> QED
      BY <2>1, <2>2
  <1> QED
    BY <1>1, <1>2, InvStays

-----------------------------------------------------------------------------
(* Rows and relations.                                                     *)

(* What the walks give a node, together.                                   *)
WalksAt(n) ==
  /\ NodeVars[n] = VarsStep(n, NodeVars) /\ BoundVars[n] = BoundStep(n, BoundVars)
  /\ Nullable[n] = NullableStep(n, Nullable)
  /\ CarriesGraph[n] = CarriesStep(n, CarriesGraph)
  /\ CarriesRightOnly[n] = RightOnlyStep(n, CarriesRightOnly)
  /\ BoundVars[n] \subseteq NodeVars[n] /\ NodeVars[n] \subseteq Vars
  /\ ScopeOf[n].vars \subseteq Vars /\ ScopeOf[n].graph \in Places

LEMMA Walks ==
  ASSUME QueryOK, NEW n \in Nodes
  PROVE  WalksAt(n)
  <1>1. Tree(block)
    BY DEF QueryOK
  <1>2. ScopeOf[n].vars \subseteq Vars /\ ScopeOf[n].graph \in Places
    BY ScopeUnfolds DEF Scopes
  <1> QED
    BY <1>1, <1>2, NodeVarsUnfolds, BoundVarsUnfolds, NullableUnfolds, CarriesGraphUnfolds,
       CarriesRightOnlyUnfolds, BoundAreMentioned DEF WalksAt

(* A node and the sides of it, solved in its scope.                        *)
LEMMA Sides ==
  ASSUME QueryOK, NEW n \in Nodes, block[n].op \in {"Filter", "Join", "LeftJoin", "Minus"}
  PROVE  /\ block[n].p1 \in Nodes /\ WalksAt(block[n].p1) /\ ScopeOf[block[n].p1] = ScopeOf[n]
         /\ block[n].op # "Filter" =>
              block[n].p2 \in Nodes /\ WalksAt(block[n].p2) /\ ScopeOf[block[n].p2] = ScopeOf[n]
  <1>1. Tree(block)
    BY DEF QueryOK
  <1>2. /\ block[n].p1 \in Nodes /\ block[n].p1 \in Children(block[n])
        /\ block[n].op # "Filter" => block[n].p2 \in Nodes /\ block[n].p2 \in Children(block[n])
    BY <1>1, TreeFacts DEF Unary, Binary
  <1> QED
    BY <1>2, Walks, ScopesFollow

LEMMA BindingsAre ==
  /\ \A f \in Bindings : DOMAIN f \in SUBSET Vars /\ f \in [DOMAIN f -> Codes]
  /\ \A S \in SUBSET Vars : \A f \in [S -> Codes] : f \in Bindings /\ DOMAIN f = S
  BY DEF Bindings

LEMMA MergedOK ==
  ASSUME NEW f \in Bindings, NEW g \in Bindings
  PROVE  Merged(f, g) \in Bindings /\ DOMAIN Merged(f, g) = DOMAIN f \cup DOMAIN g
  <1> DEFINE S == DOMAIN f \cup DOMAIN g
             h == [v \in S |-> IF v \in DOMAIN f THEN f[v] ELSE g[v]]
  <1>1. S \in SUBSET Vars /\ f \in [DOMAIN f -> Codes] /\ g \in [DOMAIN g -> Codes]
    BY BindingsAre
  <1>2. h \in [S -> Codes]
    BY <1>1
  <1>3. Merged(f, g) = h
    BY DEF Merged
  <1> HIDE DEF S, h
  <1>4. h \in Bindings /\ DOMAIN h = S
    BY <1>1, <1>2, BindingsAre
  <1> QED
    BY <1>3, <1>4 DEF S

LEMMA OnOK ==
  ASSUME NEW f \in Bindings, NEW S
  PROVE  On(f, S) \in Bindings /\ DOMAIN On(f, S) = DOMAIN f \cap S
  <1> DEFINE T == DOMAIN f \cap S
             h == [v \in T |-> f[v]]
  <1>1. T \in SUBSET Vars /\ f \in [DOMAIN f -> Codes]
    BY BindingsAre
  <1>2. h \in [T -> Codes]
    BY <1>1
  <1>3. On(f, S) = h
    BY DEF On, Restrict
  <1> HIDE DEF T, h
  <1>4. h \in Bindings /\ DOMAIN h = T
    BY <1>1, <1>2, BindingsAre
  <1> QED
    BY <1>3, <1>4 DEF T

LEMMA RelationIs ==
  ASSUME NEW S, NEW rows, NEW N
  PROVE  LET r == Relation(S, rows, N)
         IN  r = Relation(r.schema, r.rows, r.nullable)
               /\ r.schema = S /\ r.rows = rows /\ r.nullable = N
  BY DEF Relation

(* Fewer rows fit as well.                                                 *)
LEMMA KeptFits ==
  ASSUME NEW n, NEW r, RelationFits(n, r), NEW T
  PROVE  RelationFits(n, [r EXCEPT !.rows = Keep(@, T)])
  <1> DEFINE rows == Keep(r.rows, T)
             s == Relation(r.schema, rows, r.nullable)
  <1>1. rows \in Seq(RowsAt(n, r))
    BY KeepOK DEF RelationFits
  <1>2. [r EXCEPT !.rows = Keep(@, T)] = s
    BY DEF RelationFits, Relation
  <1>3. s = Relation(s.schema, s.rows, s.nullable) /\ s.schema = r.schema /\ s.rows = rows
          /\ s.nullable = r.nullable
    BY RelationIs
  <1> HIDE DEF s, rows
  <1>4. RowsAt(n, s) = RowsAt(n, r)
    BY <1>3 DEF RowsAt, Declared
  <1> QED
    BY <1>1, <1>2, <1>3, <1>4 DEF RelationFits

LEMMA NoneFits ==
  ASSUME NEW n, NEW S \in SUBSET Mentioned(n), NEW N
  PROVE  RelationFits(n, Relation(S, <<>>, N))
  <1> DEFINE r == Relation(S, <<>>, N)
  <1>1. r = Relation(r.schema, r.rows, r.nullable) /\ r.schema = S /\ r.rows = <<>>
    BY RelationIs
  <1> HIDE DEF r
  <1>2. r.rows \in Seq(RowsAt(n, r))
    BY <1>1, EmptySeq
  <1> QED
    BY <1>1, <1>2 DEF RelationFits, r

(* The rows of the left side of a FILTER or a MINUS are rows of it.        *)
LEMMA LeftFits ==
  ASSUME QueryOK, NEW n \in Nodes, block[n].op \in {"Filter", "Minus"},
         NEW r, RelationFits(block[n].p1, r)
  PROVE  RelationFits(n, r)
  <1> DEFINE k == block[n].p1
  <1>1. WalksAt(n) /\ WalksAt(k) /\ ScopeOf[k] = ScopeOf[n]
    BY Walks, Sides
  <1>2. Mentioned(k) \subseteq Mentioned(n)
    BY <1>1 DEF Mentioned, WalksAt, VarsStep
  <1>3. BoundVars[n] = BoundVars[k] /\ Nullable[n] = Nullable[k] /\ CarriesGraph[n] = CarriesGraph[k]
          /\ CarriesRightOnly[k] \subseteq CarriesRightOnly[n]
    BY <1>1 DEF WalksAt, BoundStep, NullableStep, CarriesStep, RightOnlyStep
  <1> HIDE DEF k
  <1>4. RowsAt(k, r) \subseteq RowsAt(n, r)
    BY <1>1, <1>3 DEF RowsAt, Foreseen, Columned
  <1>5. RelationFits(k, r)
    BY DEF k
  <1> QED
    BY <1>2, <1>4, <1>5, SeqMonotonic DEF RelationFits

(* So are those of a GRAPH's group, which bind the variable of the GRAPH.  *)
LEMMA GraphFits ==
  ASSUME QueryOK, NEW n \in Nodes, block[n].op = "Graph",
         NEW r, RelationFits(block[n].p1, r),
         \A v \in ScopeUnder(n).vars :
           v \in CarriesGraph[block[n].p1] \ CarriesRightOnly[block[n].p1]
  PROVE  RelationFits(n, r)
  <1> DEFINE k == block[n].p1
             vs == block[n].vars
  <1>1. k \in Nodes /\ WalksAt(n) /\ WalksAt(k) /\ ScopeOf[k] = ScopeUnder(n)
    <2>1. Tree(block)
      BY DEF QueryOK
    <2>2. k \in Nodes /\ k \in Children(block[n])
      BY <2>1, TreeFacts DEF Unary
    <2> QED
      BY <2>2, Walks, ScopesFollow
  <1>2. /\ NodeVars[n] = NodeVars[k] \cup vs /\ BoundVars[n] = BoundVars[k] \cup vs
        /\ Nullable[n] = Nullable[k]
        /\ CarriesGraph[n] = vs \cap CarriesGraph[k]
        /\ CarriesRightOnly[n] = vs \cap CarriesRightOnly[k]
    BY <1>1 DEF WalksAt, VarsStep, BoundStep, NullableStep, CarriesStep, RightOnlyStep
  <1>3. ScopeOf[k].vars = IF vs \subseteq DOMAIN ctx THEN {} ELSE vs
    BY <1>1 DEF ScopeUnder, Scope
  <1>4. \A v \in ScopeOf[k].vars : v \in CarriesGraph[k] /\ v \notin CarriesRightOnly[k]
    BY <1>1
  <1>5. RelationFits(k, r)
    OBVIOUS
  <1> HIDE DEF k, vs
  <1>6. Mentioned(k) \subseteq Mentioned(n)
    BY <1>2, <1>3 DEF Mentioned
  <1>7. ASSUME NEW f \in RowsAt(k, r)
        PROVE  f \in RowsAt(n, r)
    <2>1. f \in Bindings /\ Declared(r, f) /\ Foreseen(k, f) /\ Columned(k, f)
      BY DEF RowsAt
    <2>2. vs \subseteq DOMAIN ctx \cup DOMAIN f
      BY <1>3, <1>4, <2>1 DEF Columned
    <2>3. Foreseen(n, f)
      BY <1>2, <2>1, <2>2 DEF Foreseen
    <2>4. Columned(n, f)
      BY <1>2, <2>2 DEF Columned
    <2> QED
      BY <2>1, <2>3, <2>4 DEF RowsAt
  <1>8. RowsAt(k, r) \subseteq RowsAt(n, r)
    BY <1>7
  <1> QED
    BY <1>5, <1>6, <1>8, SeqMonotonic DEF RelationFits

(* What a pattern matches in a scope, and its rows.                        *)
LEMMA ScopeMatches ==
  ASSUME QueryOK, NEW p \in Patterns, Top.scope.vars \subseteq Vars, Top.scope.graph \in Places
  PROVE  InScope(p) \subseteq {f \in Bindings : DOMAIN f = PatternVars[p] \cup Top.scope.vars}
  <1> DEFINE vs == Top.scope.vars
             M(g) == matches[p][g]
  <1>1. \A g \in Places : \A f \in M(g) : f \in Bindings /\ DOMAIN f = PatternVars[p]
    <2>1. PatternVars[p] \in SUBSET Vars
      BY BlocksAssumption
    <2>2. \A g \in Places : M(g) \subseteq [PatternVars[p] -> Codes]
      BY DEF QueryOK
    <2> HIDE DEF M
    <2> QED
      BY <2>1, <2>2, BindingsAre
  <1>2. CASE vs = {}
    <2>1. InScope(p) = M(Top.scope.graph)
      BY <1>2 DEF InScope
    <2> HIDE DEF M
    <2> QED
      BY <1>1, <1>2, <2>1
  <1>3. CASE vs # {}
    <2> DEFINE label(g) == [v \in vs |-> g]
    <2>1. ASSUME NEW g \in Graphs, NEW f \in M(g)
          PROVE  Merged(f, label(g)) \in Bindings /\ DOMAIN Merged(f, label(g)) = PatternVars[p] \cup vs
      <3>1. g \in Places /\ g \in Codes
        BY BlocksAssumption DEF Places
      <3>2. label(g) \in Bindings /\ DOMAIN label(g) = vs
        <4>1. label(g) \in [vs -> Codes] /\ vs \in SUBSET Vars
          BY <3>1
        <4> HIDE DEF label, vs
        <4> QED
          BY <4>1, BindingsAre
      <3> HIDE DEF label, M, vs
      <3>3. f \in Bindings /\ DOMAIN f = PatternVars[p]
        BY <1>1, <3>1
      <3> QED
        BY <3>2, <3>3, MergedOK
    <2>2. InScope(p) = UNION {{Merged(f, label(g)) : f \in {f \in M(g) : Compatible(f, label(g))}} :
                              g \in Graphs}
      BY <1>3 DEF InScope
    <2> HIDE DEF label, M
    <2> SUFFICES ASSUME NEW h \in InScope(p)
                 PROVE  h \in Bindings /\ DOMAIN h = PatternVars[p] \cup vs
      OBVIOUS
    <2>3. PICK g \in Graphs : h \in {Merged(f, label(g)) : f \in {f \in M(g) : Compatible(f, label(g))}}
      BY <2>2
    <2>4. PICK f \in M(g) : h = Merged(f, label(g))
      BY <2>3
    <2> QED
      BY <2>1, <2>4
  <1> QED
    BY <1>2, <1>3

(* A pattern's rows bind every variable of it, and the column.             *)
LEMMA PatternFits ==
  ASSUME QueryOK, NEW n \in Nodes, block[n].op = "BGP", Top.scope = ScopeOf[n], NEW ks
  PROVE  RelationFits(n, Relation(Free(block[n].pattern),
                                  Filtered(Matched(block[n].pattern), ks), {}))
  <1> DEFINE p == block[n].pattern
             S == {On(f, Free(p)) : f \in {f \in InScope(p) : Compatible(f, ctx)}}
             rows == Filtered(Matched(p), ks)
             r == Relation(Free(p), rows, {})
  <1>1. p \in Patterns
    BY TreeFacts DEF QueryOK
  <1>2. WalksAt(n) /\ PatternVars[p] \subseteq Vars
    BY <1>1, Walks, BlocksAssumption
  <1>3. /\ NodeVars[n] = PatternVars[p] /\ BoundVars[n] = PatternVars[p]
        /\ Top.scope.vars = ScopeOf[n].vars
    BY <1>2 DEF WalksAt, VarsStep, BoundStep
  <1>4. Free(p) = Mentioned(n)
    BY <1>3 DEF Free, Mentioned
  <1>5. r = Relation(r.schema, r.rows, r.nullable) /\ r.schema = Free(p) /\ r.rows = rows
    BY RelationIs
  <1> HIDE DEF r
  <1>6. ASSUME NEW f \in S
        PROVE  f \in RowsAt(n, r)
    <2>1. PICK g \in InScope(p) : f = On(g, Free(p))
      OBVIOUS
    <2>2. g \in Bindings /\ DOMAIN g = PatternVars[p] \cup Top.scope.vars
      BY <1>1, <1>2, <2>1, ScopeMatches DEF WalksAt
    <2>3. f \in Bindings /\ DOMAIN f = DOMAIN g \cap Free(p)
      BY <2>1, <2>2, OnOK
    <2>4. DOMAIN g \cap Free(p) = Free(p)
      BY <2>2 DEF Free
    <2> QED
      BY <1>3, <1>4, <1>5, <2>3, <2>4 DEF RowsAt, Declared, Foreseen, Columned, Mentioned
  <1>7. IsFiniteSet(S)
    <2>1. S \subseteq Bindings
      BY <1>6 DEF RowsAt
    <2> QED
      BY <2>1, BlocksAssumption, FS_Subset
  <1>8. Matched(p) = SetToSeq(S)
    BY DEF Matched
  <1> HIDE DEF S
  <1>9. Matched(p) \in Seq(RowsAt(n, r))
    BY <1>6, <1>7, <1>8, InOrderOK
  <1>10. rows \in Seq(RowsAt(n, r))
    BY <1>9, KeepOK DEF Filtered
  <1> HIDE DEF rows
  <1>11. RelationFits(n, r)
    BY <1>4, <1>5, <1>10 DEF RelationFits
  <1> QED
    BY <1>11 DEF r, rows

(* Rows joined row by row.                                                 *)
LEMMA JoiningOK ==
  ASSUME NEW C, NEW B, NEW f, NEW rows \in Seq(B), \A g \in B : Merged(f, g) \in C
  PROVE  Joining(f, rows) \in Seq(C)
  <1> DEFINE own == Keep(rows, {g \in Range(rows) : Compatible(f, g)})
             n == Len(own)
  <1>1. own \in Seq(B)
    BY KeepOK
  <1> HIDE DEF own
  <1>2. n \in Nat /\ DOMAIN own = 1..n /\ \A i \in 1..n : own[i] \in B
    BY <1>1, LenProperties, ElementOfSeq
  <1>3. Joining(f, rows) = [i \in DOMAIN own |-> Merged(f, own[i])]
    BY DEF Joining, own
  <1> HIDE DEF n
  <1>4. Joining(f, rows) \in [1..n -> C]
    BY <1>2, <1>3
  <1> QED
    BY <1>2, <1>4, SeqDef

(* The rows each left row is put in place of, one after the other.         *)
LEMMA EachOK ==
  ASSUME NEW C, NEW pieces, NEW n \in Nat, pieces \in [1..n -> Seq(C)]
  PROVE  FlattenSeq(pieces) \in Seq(C)
  <1>1. pieces \in Seq(Seq(C))
    BY SeqDef
  <1> QED
    BY <1>1, FlattenOK

(* The rows two sides fit for a JOIN or an OPTIONAL of them, once merged.  *)
LEMMA MergedRowFits ==
  ASSUME QueryOK, NEW n \in Nodes, block[n].op \in {"Join", "LeftJoin"}, NEW l, NEW r, NEW s,
         s.schema = l.schema \cup r.schema,
         l.nullable \subseteq s.nullable,
         (r.schema \cap r.nullable) \ l.schema \subseteq s.nullable,
         NEW f \in RowsAt(block[n].p1, l), NEW g \in RowsAt(block[n].p2, r)
  PROVE  Merged(f, g) \in RowsAt(n, s)
  <1> DEFINE j == block[n].p1
             k == block[n].p2
             h == Merged(f, g)
  <1>1. /\ WalksAt(n) /\ WalksAt(j) /\ WalksAt(k)
        /\ ScopeOf[j] = ScopeOf[n] /\ ScopeOf[k] = ScopeOf[n]
    BY Walks, Sides
  <1>2. /\ BoundVars[n] = BoundVars[j] \cup BoundVars[k]
        /\ Nullable[j] \cup Nullable[k] \subseteq Nullable[n]
        /\ CarriesGraph[n] \ CarriesRightOnly[n] \subseteq
             (CarriesGraph[j] \ CarriesRightOnly[j]) \cup (CarriesGraph[k] \ CarriesRightOnly[k])
    BY <1>1 DEF WalksAt, BoundStep, NullableStep, CarriesStep, RightOnlyStep
  <1>3. /\ f \in Bindings /\ Declared(l, f) /\ Foreseen(j, f) /\ Columned(j, f)
        /\ g \in Bindings /\ Declared(r, g) /\ Foreseen(k, g) /\ Columned(k, g)
    BY DEF RowsAt
  <1> HIDE DEF j, k, h
  <1>4. h \in Bindings /\ DOMAIN h = DOMAIN f \cup DOMAIN g
    BY <1>3, MergedOK DEF h
  <1>5. Declared(s, h)
    BY <1>3, <1>4 DEF Declared
  <1>6. Foreseen(n, h)
    BY <1>2, <1>3, <1>4 DEF Foreseen
  <1>7. Columned(n, h)
    BY <1>1, <1>2, <1>3, <1>4 DEF Columned
  <1> QED
    BY <1>4, <1>5, <1>6, <1>7 DEF RowsAt, h

(* What the two sides of a join mention, its schema may have.              *)
LEMMA SchemasFit ==
  ASSUME QueryOK, NEW n \in Nodes, block[n].op \in {"Join", "LeftJoin"}, NEW S,
         S \subseteq Mentioned(block[n].p1) \cup Mentioned(block[n].p2)
  PROVE  S \subseteq Mentioned(n)
  <1>1. /\ WalksAt(n)
        /\ ScopeOf[block[n].p1] = ScopeOf[n] /\ ScopeOf[block[n].p2] = ScopeOf[n]
    BY Walks, Sides
  <1>2. NodeVars[n] = NodeVars[block[n].p1] \cup NodeVars[block[n].p2]
    BY <1>1 DEF WalksAt, VarsStep
  <1> QED
    BY <1>1, <1>2 DEF Mentioned

LEMMA JoinFits ==
  ASSUME QueryOK, NEW n \in Nodes, block[n].op = "Join",
         NEW l, RelationFits(block[n].p1, l), NEW r, RelationFits(block[n].p2, r),
         NEW rows, rows = r.rows \/ rows = SetToSeq(Range(r.rows))
  PROVE  RelationFits(n, Relation(l.schema \cup r.schema, Joined(l.rows, rows),
                                  l.nullable \cup r.nullable))
  <1> DEFINE j == block[n].p1
             k == block[n].p2
             joined == Joined(l.rows, rows)
             s == Relation(l.schema \cup r.schema, joined, l.nullable \cup r.nullable)
  <1>1. /\ s = Relation(s.schema, s.rows, s.nullable)
        /\ s.schema = l.schema \cup r.schema /\ s.rows = joined
        /\ s.nullable = l.nullable \cup r.nullable
    BY RelationIs
  <1>2. l.rows \in Seq(RowsAt(j, l)) /\ r.rows \in Seq(RowsAt(k, r))
    BY DEF RelationFits
  <1>3. s.schema \subseteq Mentioned(n)
    BY <1>1, SchemasFit DEF RelationFits
  <1> HIDE DEF s
  <1>4. \A f \in RowsAt(j, l), g \in RowsAt(k, r) : Merged(f, g) \in RowsAt(n, s)
    BY <1>1, MergedRowFits
  <1> HIDE DEF j, k
  <1>5. rows \in Seq(RowsAt(k, r))
    <2>1. Range(r.rows) \in SUBSET RowsAt(k, r)
      BY <1>2, RangeOfSeq
    <2>2. IsFiniteSet(Range(r.rows))
      <3>1. Range(r.rows) \subseteq Bindings
        BY <2>1 DEF RowsAt
      <3> QED
        BY <3>1, BlocksAssumption, FS_Subset
    <2> QED
      BY <1>2, <2>1, <2>2, InOrderOK
  <1> DEFINE pieces == [i \in DOMAIN l.rows |-> Joining(l.rows[i], rows)]
             N == Len(l.rows)
  <1>6. N \in Nat /\ DOMAIN l.rows = 1..N /\ \A i \in 1..N : l.rows[i] \in RowsAt(j, l)
    BY <1>2, LenProperties, ElementOfSeq
  <1>7. \A i \in 1..N : Joining(l.rows[i], rows) \in Seq(RowsAt(n, s))
    <2> SUFFICES ASSUME NEW i \in 1..N PROVE Joining(l.rows[i], rows) \in Seq(RowsAt(n, s))
      OBVIOUS
    <2>1. PICK f \in RowsAt(j, l) : f = l.rows[i]
      BY <1>6
    <2>2. \A g \in RowsAt(k, r) : Merged(f, g) \in RowsAt(n, s)
      BY <1>4
    <2>3. Joining(f, rows) \in Seq(RowsAt(n, s))
      BY <1>5, <2>2, JoiningOK
    <2> QED
      BY <2>1, <2>3
  <1>8. pieces \in [1..N -> Seq(RowsAt(n, s))]
    BY <1>6, <1>7
  <1>9. joined = FlattenSeq(pieces)
    BY DEF Joined, Each
  <1> HIDE DEF pieces, N, joined
  <1>10. joined \in Seq(RowsAt(n, s))
    BY <1>6, <1>8, <1>9, EachOK
  <1>11. RelationFits(n, s)
    BY <1>1, <1>3, <1>10 DEF RelationFits
  <1> QED
    BY <1>11 DEF s, joined

(* A row of the left side that nothing extends is a row of an OPTIONAL.    *)
LEMMA UnextendedFits ==
  ASSUME QueryOK, NEW n \in Nodes, block[n].op = "LeftJoin", NEW l, NEW s,
         l.schema \subseteq s.schema, s.schema \ l.schema \subseteq s.nullable,
         l.nullable \subseteq s.nullable, NEW f \in RowsAt(block[n].p1, l)
  PROVE  f \in RowsAt(n, s)
  <1> DEFINE j == block[n].p1
             k == block[n].p2
  <1>1. WalksAt(n) /\ WalksAt(j) /\ WalksAt(k) /\ ScopeOf[j] = ScopeOf[n]
    BY Walks, Sides
  <1>2. /\ BoundVars[n] = BoundVars[j] \cup BoundVars[k]
        /\ Nullable[n] = Nullable[j] \cup Nullable[k] \cup (NodeVars[k] \ BoundVars[j])
        /\ CarriesGraph[n] = CarriesGraph[j] /\ CarriesRightOnly[j] \subseteq CarriesRightOnly[n]
        /\ BoundVars[k] \subseteq NodeVars[k]
    BY <1>1 DEF WalksAt, BoundStep, NullableStep, CarriesStep, RightOnlyStep, PaddedVars
  <1>3. f \in Bindings /\ Declared(l, f) /\ Foreseen(j, f) /\ Columned(j, f)
    BY DEF RowsAt
  <1> HIDE DEF j, k
  <1>4. Declared(s, f)
    BY <1>3 DEF Declared
  <1>5. Foreseen(n, f)
    BY <1>2, <1>3 DEF Foreseen
  <1>6. Columned(n, f)
    BY <1>1, <1>2, <1>3 DEF Columned
  <1> QED
    BY <1>3, <1>4, <1>5, <1>6 DEF RowsAt

-----------------------------------------------------------------------------
(* The steps.                                                              *)

LEMMA Here ==
  ASSUME BlocksInv, outcome = "solving"
  PROVE  /\ QueryOK /\ Tree(block) /\ Top.node \in Nodes /\ Node = block[Top.node]
         /\ Top.scope = ScopeOf[Top.node] /\ CallOK(Top)
         /\ \A n \in Nodes : RelationFits(n, rel[n])
  BY TopOK DEF BlocksInv, QueryOK, RelationsFit, Node

LEMMA HereSides ==
  ASSUME BlocksInv, outcome = "solving", Node.op \in {"Filter", "Join", "LeftJoin", "Minus"}
  PROVE  /\ RelationFits(Node.p1, Left) /\ Node.p1 \in Nodes /\ Node.p1 \in Children(Node)
         /\ Top.scope = ScopeOf[Node.p1] /\ BlockVars(Node.p1) = Mentioned(Node.p1)
         /\ Node.op # "Filter" =>
              /\ RelationFits(Node.p2, Right) /\ Node.p2 \in Nodes /\ Node.p2 \in Children(Node)
              /\ Top.scope = ScopeOf[Node.p2] /\ BlockVars(Node.p2) = Mentioned(Node.p2)
  <1>1. /\ Node.p1 \in Nodes /\ ScopeOf[Node.p1] = Top.scope
        /\ Node.op # "Filter" => Node.p2 \in Nodes /\ ScopeOf[Node.p2] = Top.scope
    BY Here, Sides
  <1>2. /\ Node.p1 \in Children(Node)
        /\ Node.op # "Filter" => Node.p2 \in Children(Node)
    BY Here, TreeFacts DEF Unary, Binary
  <1> QED
    BY <1>1, <1>2, Here DEF Left, Right, BlockVars, ScopedVars, Mentioned

(* The relation of an OPTIONAL.                                            *)
LEMMA LeftJoinFits ==
  ASSUME BlocksInv, outcome = "solving", Node.op = "LeftJoin",
         NEW right, RelationFits(Node.p2, right)
  PROVE  RelationFits(Top.node, Relation(Left.schema \cup right.schema, LeftJoined(right), Pads))
  <1> DEFINE n == Top.node
             l == Left
             j == Node.p1
             k == Node.p2
             joined == LeftJoined(right)
             S == l.schema \cup right.schema
             s == Relation(S, joined, Pads)
  <1>1. /\ QueryOK /\ n \in Nodes /\ block[n].op = "LeftJoin" /\ j = block[n].p1 /\ k = block[n].p2
        /\ RelationFits(j, l) /\ RelationFits(k, right) /\ BlockVars(k) = Mentioned(k)
    BY Here, HereSides
  <1>2. S \subseteq Mentioned(n)
    BY <1>1, SchemasFit DEF RelationFits
  <1>3. l.nullable \subseteq Pads /\ right.schema \ l.schema \subseteq Pads
    BY <1>1 DEF Pads, Extra, RelationFits
  <1>4. s = Relation(s.schema, s.rows, s.nullable) /\ s.schema = S /\ s.rows = joined
          /\ s.nullable = Pads
    BY RelationIs
  <1> HIDE DEF s
  <1>5. l.rows \in Seq(RowsAt(j, l)) /\ right.rows \in Seq(RowsAt(k, right))
    BY <1>1 DEF RelationFits
  <1>6. \A f \in RowsAt(j, l), g \in RowsAt(k, right) : Merged(f, g) \in RowsAt(n, s)
    BY <1>1, <1>3, <1>4, MergedRowFits
  <1>7. \A f \in RowsAt(j, l) : f \in RowsAt(n, s)
    BY <1>1, <1>3, <1>4, UnextendedFits
  <1> DEFINE ks == Conditions(l.schema \cup right.schema)
             extended(f) == IF \E c \in ks : c.vars = {} /\ ~Decides(c, Nothing) THEN <<>>
                            ELSE Filtered(Joining(f, right.rows), ks)
             piece(f) == IF extended(f) = <<>> THEN <<f>> ELSE extended(f)
             pieces == [i \in DOMAIN l.rows |-> piece(l.rows[i])]
             N == Len(l.rows)
  <1>8. joined = FlattenSeq(pieces)
    BY DEF LeftJoined, Each
  <1> HIDE DEF ks, joined, j, k, l
  <1>9. ASSUME NEW f \in RowsAt(j, l)
        PROVE  piece(f) \in Seq(RowsAt(n, s))
    <2>1. Joining(f, right.rows) \in Seq(RowsAt(n, s))
      BY <1>5, <1>6, JoiningOK
    <2>2. extended(f) \in Seq(RowsAt(n, s))
      BY <2>1, KeepOK, EmptySeq DEF Filtered
    <2>3. <<f>> \in Seq(RowsAt(n, s))
      BY <1>7
    <2> QED
      BY <2>2, <2>3
  <1>10. N \in Nat /\ DOMAIN l.rows = 1..N /\ \A i \in 1..N : l.rows[i] \in RowsAt(j, l)
    BY <1>5, LenProperties, ElementOfSeq
  <1> HIDE DEF piece, N
  <1>11. pieces \in [1..N -> Seq(RowsAt(n, s))]
    BY <1>9, <1>10
  <1> HIDE DEF pieces
  <1>12. joined \in Seq(RowsAt(n, s))
    BY <1>8, <1>10, <1>11, EachOK
  <1>13. RelationFits(n, s)
    BY <1>2, <1>4, <1>12 DEF RelationFits
  <1> QED
    BY <1>13 DEF s, joined, l

LEMMA BGPStep ==
  ASSUME BlocksInv, SolveBGP
  PROVE  BlocksInv'
  <1>1. outcome = "solving" /\ Node.op = "BGP"
    BY DEF SolveBGP, At
  <1>2. PICK ks : Return(Relation(Free(Node.pattern), Filtered(Matched(Node.pattern), ks), {}))
    BY DEF SolveBGP
  <1>3. RelationFits(Top.node, Relation(Free(Node.pattern), Filtered(Matched(Node.pattern), ks), {}))
    BY <1>1, Here, PatternFits
  <1> QED
    BY <1>1, <1>2, <1>3, ReturnFits

LEMMA ValuesStep ==
  ASSUME BlocksInv, SolveValues
  PROVE  BlocksInv'
  <1> DEFINE n == Top.node
             table == Node.rows
             S == Node.vars \ DOMAIN ctx
             kept == Filtered(Keep(table, {f \in Range(table) : Compatible(f, ctx)}),
                              OfOne(Top.pushed, S))
             rows == [i \in DOMAIN kept |-> On(kept[i], S)]
             N == {v \in S : \E i \in DOMAIN rows : v \notin DOMAIN rows[i]}
             r == Relation(S, rows, N)
  <1>1. outcome = "solving" /\ Node.op = "Values" /\ Return(r)
    BY DEF SolveValues, At
  <1>2. QueryOK /\ n \in Nodes /\ Node = block[n]
    BY <1>1, Here
  <1>3. table \in Seq(Bindings) /\ Node.vars \subseteq Vars
    BY <1>1, <1>2, TreeFacts DEF QueryOK
  <1>4. /\ NodeVars[n] = Node.vars /\ BoundVars[n] = Node.vars
        /\ Nullable[n] = {v \in Node.vars : \E f \in Range(table) : v \notin DOMAIN f}
        /\ CarriesGraph[n] = {}
    BY <1>1, <1>2, Walks DEF WalksAt, VarsStep, BoundStep, NullableStep, CarriesStep, UndefVars
  <1>5. kept \in Seq(Range(table)) /\ Range(table) \subseteq Bindings
    BY <1>3, SeqOfRange, RangeOfSeq, KeepOK DEF Filtered
  <1> DEFINE m == Len(kept)
  <1> HIDE DEF n, table, kept
  <1>6. m \in Nat /\ DOMAIN kept = 1..m /\ \A i \in 1..m : kept[i] \in Range(table)
    BY <1>5, LenProperties, ElementOfSeq
  <1> HIDE DEF m, S
  <1>7. /\ rows = [i \in 1..m |-> rows[i]] /\ DOMAIN rows = 1..m
        /\ \A i \in 1..m : rows[i] = On(kept[i], S)
    BY <1>6
  <1> HIDE DEF rows
  <1>8. \A i \in 1..m : \A v \in S : v \notin DOMAIN rows[i] => v \in N
    BY <1>7
  <1> HIDE DEF N
  <1>9. r = Relation(r.schema, r.rows, r.nullable) /\ r.schema = S /\ r.rows = rows /\ r.nullable = N
    BY RelationIs
  <1> HIDE DEF r
  <1>10. ASSUME NEW i \in 1..m
         PROVE  rows[i] \in RowsAt(n, r)
    <2>1. rows[i] \in Bindings /\ DOMAIN rows[i] = DOMAIN kept[i] \cap S
      BY <1>5, <1>6, <1>7, OnOK
    <2>2. Declared(r, rows[i])
      BY <1>8, <1>9, <2>1 DEF Declared
    <2>3. Foreseen(n, rows[i])
      <3> SUFFICES ASSUME NEW v \in Node.vars, v \notin DOMAIN ctx, v \notin DOMAIN rows[i]
                   PROVE  v \in Nullable[n]
        BY <1>4 DEF Foreseen
      <3>1. v \notin DOMAIN kept[i] /\ kept[i] \in Range(table)
        BY <1>6, <2>1 DEF S
      <3> QED
        BY <1>4, <3>1
    <2>4. Columned(n, rows[i])
      BY <1>4 DEF Columned
    <2> QED
      BY <2>1, <2>2, <2>3, <2>4 DEF RowsAt
  <1>11. rows \in Seq(RowsAt(n, r))
    <2>1. rows \in [1..m -> RowsAt(n, r)]
      BY <1>7, <1>10
    <2> QED
      BY <1>6, <2>1, SeqDef
  <1>12. S \subseteq Mentioned(n)
    BY <1>4 DEF Mentioned, S
  <1>13. RelationFits(n, r)
    BY <1>9, <1>11, <1>12 DEF RelationFits
  <1> QED
    BY <1>1, <1>13, ReturnFits DEF n

LEMMA FilterSteps ==
  ASSUME BlocksInv, EnterFilter \/ FilterRows \/ EnterExists \/ SemiJoin \/ GenericExists
  PROVE  BlocksInv'
  <1>1. outcome = "solving" /\ Node.op = "Filter"
    BY DEF EnterFilter, FilterRows, EnterExists, SemiJoin, GenericExists, At
  <1>2. /\ QueryOK /\ Top.node \in Nodes /\ block[Top.node].op = "Filter" /\ Node = block[Top.node]
        /\ RelationFits(Top.node, Own)
    BY <1>1, Here DEF Own
  <1>3. RelationFits(Node.p1, Left) /\ Node.p1 \in Children(Node) /\ BlockVars(Node.p1) = Mentioned(Node.p1)
    BY <1>1, HereSides
  <1>4. CASE EnterFilter
    <2>1. CASE Raise
      BY <1>1, <2>1, RaiseFits
    <2>2. CASE Return(Relation(BlockVars(Node.p1), <<>>, {}))
      <3>1. BlockVars(Node.p1) \subseteq Mentioned(Top.node)
        <4>1. NodeVars[Top.node] = NodeVars[Node.p1] /\ ScopeOf[Node.p1] = ScopeOf[Top.node]
          BY <1>2, Walks, Sides DEF WalksAt, VarsStep
        <4> QED
          BY <1>3, <4>1 DEF Mentioned
      <3>2. RelationFits(Top.node, Relation(BlockVars(Node.p1), <<>>, {}))
        BY <3>1, NoneFits
      <3> QED
        BY <1>1, <2>2, <3>2, ReturnFits
    <2>3. CASE Solve(Node.p1, "left", Top.env, Top.pushed \cup PushedDown) /\ UNCHANGED rel
      BY <1>1, <1>3, <2>3, SolveBelowFits
    <2> QED
      BY <1>4, <2>1, <2>2, <2>3 DEF EnterFilter
  <1>5. CASE FilterRows
    <2> DEFINE r == [Left EXCEPT !.rows = Filtered(@, Residual \ applied)]
    <2>1. RelationFits(Top.node, r)
      <3>1. RelationFits(Top.node, Left)
        BY <1>2, <1>3, LeftFits
      <3> QED
        BY <3>1, KeptFits DEF Filtered
    <2>2. CASE Return(r)
      BY <1>1, <2>1, <2>2, ReturnFits
    <2>3. CASE /\ HasExists /\ rel' = [rel EXCEPT ![Top.node] = r] /\ calls' = Moved("exists")
               /\ UNCHANGED <<query, applied, outcome>>
      <3> HIDE DEF r
      <3>1. Node.op # "Graph" /\ HasExists
        BY <1>1, <2>3
      <3> QED
        BY <1>1, <2>1, <2>3, <3>1, MoveFits
    <2> QED
      BY <1>5, <2>2, <2>3 DEF FilterRows
  <1>6. CASE EnterExists
    <2>1. CASE Return(Own)
      BY <1>1, <1>2, <2>1, ReturnFits
    <2>2. CASE Generic
      BY <1>1, <2>2, MoveFits DEF Generic
    <2>3. CASE Solve(Node.exists, "body", Own.schema, {}) /\ UNCHANGED rel
      <3>1. Node.exists \in Children(Node)
        <4>1. Node.exists # 0
          BY <1>1, <1>6, Here DEF EnterExists, At, CallOK
        <4> QED
          BY <1>1, <1>2, <4>1, Here, TreeFacts
      <3> QED
        BY <1>1, <2>3, <3>1, SolveBelowFits
    <2> QED
      BY <1>6, <2>1, <2>2, <2>3 DEF EnterExists
  <1>7. ASSUME NEW T, Return([Own EXCEPT !.rows = Keep(@, T)])
        PROVE  BlocksInv'
    <2>1. RelationFits(Top.node, [Own EXCEPT !.rows = Keep(@, T)])
      BY <1>2, KeptFits
    <2> QED
      BY <1>1, <1>7, <2>1, ReturnFits
  <1>8. CASE SemiJoin
    <2>1. CASE Generic
      BY <1>1, <2>1, MoveFits DEF Generic
    <2>2. CASE ~Generic
      BY <1>7, <1>8, <2>2 DEF SemiJoin
    <2> QED
      BY <2>1, <2>2
  <1>9. CASE GenericExists
    <2>1. CASE Raise
      BY <1>1, <2>1, RaiseFits
    <2>2. CASE ~Raise
      BY <1>7, <1>9, <2>2 DEF GenericExists
    <2> QED
      BY <2>1, <2>2
  <1> QED
    BY <1>4, <1>5, <1>6, <1>8, <1>9

(* A triple pattern on the right of a join.                                *)
LEMMA PatternSideFits ==
  ASSUME BlocksInv, outcome = "solving", Node.op \in {"Join", "LeftJoin"}, IsPattern(Node.p2),
         NEW pushed
  PROVE  RelationFits(Node.p2, PatternSide(pushed))
  <1>1. QueryOK /\ Node.p2 \in Nodes /\ block[Node.p2].op = "BGP" /\ Top.scope = ScopeOf[Node.p2]
    BY Here, HereSides DEF IsPattern
  <1> QED
    BY <1>1, PatternFits DEF PatternSide

LEMMA JoinSteps ==
  ASSUME BlocksInv, EnterJoin \/ JoinLeft \/ JoinRight
  PROVE  BlocksInv'
  <1>1. outcome = "solving" /\ Node.op = "Join"
    BY DEF EnterJoin, JoinLeft, JoinRight, At
  <1>2. QueryOK /\ Top.node \in Nodes /\ Node = block[Top.node]
    BY <1>1, Here
  <1>3. /\ RelationFits(Node.p1, Left) /\ Node.p1 \in Children(Node)
        /\ RelationFits(Node.p2, Right) /\ Node.p2 \in Children(Node)
        /\ BlockVars(Node.p2) = Mentioned(Node.p2)
    BY <1>1, HereSides
  <1>4. ASSUME NEW right, RelationFits(Node.p2, right), JoinWith(right)
        PROVE  BlocksInv'
    <2> DEFINE rows == IF Lazy THEN right.rows ELSE SetToSeq(Range(right.rows))
               r == Relation(Left.schema \cup right.schema, Joined(Left.rows, rows),
                             Left.nullable \cup right.nullable)
    <2>1. RelationFits(Top.node, r)
      <3>1. rows = right.rows \/ rows = SetToSeq(Range(right.rows))
        OBVIOUS
      <3> HIDE DEF rows
      <3> QED
        BY <1>1, <1>2, <1>3, <1>4, <3>1, JoinFits
    <2>2. Raise \/ Return(r)
      BY <1>4 DEF JoinWith
    <2> QED
      BY <1>1, <2>1, <2>2, ReturnFits, RaiseFits
  <1>5. CASE EnterJoin
    BY <1>1, <1>3, <1>5, SolveBelowFits DEF EnterJoin
  <1>6. CASE JoinLeft
    <2> DEFINE S == Left.schema \cup BlockVars(Node.p2)
               N == Left.nullable \cup Nullable[Node.p2]
    <2>1. CASE Return(Relation(S, <<>>, N))
      <3>1. S \subseteq Mentioned(Top.node)
        BY <1>1, <1>2, <1>3, SchemasFit DEF RelationFits
      <3>2. RelationFits(Top.node, Relation(S, <<>>, N))
        BY <3>1, NoneFits
      <3> QED
        BY <1>1, <2>1, <3>2, ReturnFits
    <2>2. CASE IsPattern(Node.p2) /\ JoinWith(PatternSide(Top.pushed))
      BY <1>1, <1>4, <2>2, PatternSideFits
    <2>3. ASSUME NEW env, Solve(Node.p2, "right", env, Top.pushed), UNCHANGED rel
          PROVE  BlocksInv'
      BY <1>1, <1>3, <2>3, SolveBelowFits
    <2> QED
      BY <1>6, <2>1, <2>2, <2>3 DEF JoinLeft
  <1>7. CASE JoinRight
    BY <1>3, <1>4, <1>7 DEF JoinRight
  <1> QED
    BY <1>5, <1>6, <1>7

LEMMA LeftJoinSteps ==
  ASSUME BlocksInv, EnterLeftJoin \/ LeftJoinLeft \/ LeftJoinRight
  PROVE  BlocksInv'
  <1>1. outcome = "solving" /\ Node.op = "LeftJoin"
    BY DEF EnterLeftJoin, LeftJoinLeft, LeftJoinRight, At
  <1>2. QueryOK /\ Top.node \in Nodes /\ Node = block[Top.node]
    BY <1>1, Here
  <1>3. /\ RelationFits(Node.p1, Left) /\ Node.p1 \in Children(Node)
        /\ RelationFits(Node.p2, Right) /\ Node.p2 \in Children(Node)
        /\ BlockVars(Node.p2) = Mentioned(Node.p2)
    BY <1>1, HereSides
  <1>4. ASSUME NEW right, RelationFits(Node.p2, right), LeftJoinWith(right)
        PROVE  BlocksInv'
    <2> DEFINE r == Relation(Left.schema \cup right.schema, LeftJoined(right), Pads)
    <2>1. RelationFits(Top.node, r)
      BY <1>1, <1>4, LeftJoinFits
    <2>2. Raise \/ Return(r)
      BY <1>4 DEF LeftJoinWith
    <2> QED
      BY <1>1, <2>1, <2>2, ReturnFits, RaiseFits
  <1>5. CASE EnterLeftJoin
    <2>1. Raise \/ (Solve(Node.p1, "left", Top.env, Top.pushed) /\ UNCHANGED rel)
      BY <1>5 DEF EnterLeftJoin
    <2> QED
      BY <1>1, <1>3, <2>1, SolveBelowFits, RaiseFits
  <1>6. CASE LeftJoinLeft
    <2> DEFINE S == Left.schema \cup Extra
    <2>1. CASE Return(Relation(S, <<>>, Pads))
      <3>1. S \subseteq Mentioned(Top.node)
        BY <1>1, <1>2, <1>3, SchemasFit DEF RelationFits, Extra
      <3>2. RelationFits(Top.node, Relation(S, <<>>, Pads))
        BY <3>1, NoneFits
      <3> QED
        BY <1>1, <2>1, <3>2, ReturnFits
    <2>2. CASE IsPattern(Node.p2) /\ LeftJoinWith(PatternSide({}))
      BY <1>1, <1>4, <2>2, PatternSideFits
    <2>3. ASSUME NEW env, Solve(Node.p2, "right", env, {}), UNCHANGED rel
          PROVE  BlocksInv'
      BY <1>1, <1>3, <2>3, SolveBelowFits
    <2> QED
      BY <1>6, <2>1, <2>2, <2>3 DEF LeftJoinLeft
  <1>7. CASE LeftJoinRight
    BY <1>3, <1>4, <1>7 DEF LeftJoinRight
  <1> QED
    BY <1>5, <1>6, <1>7

LEMMA MinusSteps ==
  ASSUME BlocksInv, EnterMinus \/ MinusLeft \/ MinusRight
  PROVE  BlocksInv'
  <1>1. outcome = "solving" /\ Node.op = "Minus"
    BY DEF EnterMinus, MinusLeft, MinusRight, At
  <1>2. QueryOK /\ Top.node \in Nodes /\ Node = block[Top.node]
    BY <1>1, Here
  <1>3. Node.p1 \in Children(Node) /\ Node.p2 \in Children(Node)
    BY <1>1, HereSides
  <1>4. RelationFits(Top.node, Left)
    BY <1>1, <1>2, HereSides, LeftFits
  <1>5. CASE EnterMinus
    <2>1. Raise \/ (Solve(Node.p1, "left", Top.env, Top.pushed) /\ UNCHANGED rel)
      BY <1>5 DEF EnterMinus
    <2> QED
      BY <1>1, <1>3, <2>1, SolveBelowFits, RaiseFits
  <1>6. CASE MinusLeft
    <2>1. Return(Left) \/ Raise \/ (Solve(Node.p2, "right", Top.env, {}) /\ UNCHANGED rel)
      BY <1>6 DEF MinusLeft
    <2> QED
      BY <1>1, <1>3, <1>4, <2>1, SolveBelowFits, ReturnFits, RaiseFits
  <1>7. CASE MinusRight
    <2>1. Raise \/ \E T : Return([Left EXCEPT !.rows = Keep(@, T)])
      BY <1>7 DEF MinusRight
    <2>2. ASSUME NEW T, Return([Left EXCEPT !.rows = Keep(@, T)])
          PROVE  BlocksInv'
      <3>1. RelationFits(Top.node, [Left EXCEPT !.rows = Keep(@, T)])
        BY <1>4, KeptFits
      <3> QED
        BY <1>1, <2>2, <3>1, ReturnFits
    <2> QED
      BY <1>1, <2>1, <2>2, RaiseFits
  <1> QED
    BY <1>5, <1>6, <1>7

LEMMA GraphSteps ==
  ASSUME BlocksInv, EnterGraph \/ LeaveGraph
  PROVE  BlocksInv'
  <1>1. outcome = "solving" /\ Node.op = "Graph"
    BY DEF EnterGraph, LeaveGraph, At
  <1>2. QueryOK /\ Top.node \in Nodes /\ Node = block[Top.node] /\ CallOK(Top)
    BY <1>1, Here
  <1>3. Node.p1 \in Nodes /\ Node.p1 \in Children(Node)
    BY <1>1, Here, TreeFacts DEF Unary
  <1>4. GraphScope = ScopeUnder(Top.node)
    BY DEF GraphScope, ScopeUnder, Node
  <1>5. CASE EnterGraph
    <2>1. CASE Raise
      BY <1>1, <2>1, RaiseFits
    <2>2. CASE ~Raise
      <3>1. /\ \A v \in GraphScope.vars : ~ColumnMissing(v)
            /\ SolveIn(GraphScope, Node.p1, "left", Top.env, Top.pushed) /\ UNCHANGED rel
        BY <1>5, <2>2 DEF EnterGraph
      <3>2. CallOK(Waits(Top, "left"))
        BY <1>2, <1>4, <3>1 DEF CallOK, Waits, ColumnMissing
      <3>3. ScopeOf[Node.p1] = GraphScope
        BY <1>1, <1>2, <1>3, <1>4, ScopesFollow
      <3> QED
        BY <1>1, <1>3, <3>1, <3>2, <3>3, SolveFits
    <2> QED
      BY <2>1, <2>2
  <1>6. CASE LeaveGraph
    <2>1. Top.at = "left" /\ Return(Left)
      BY <1>6 DEF LeaveGraph, At
    <2>2. RelationFits(Node.p1, Left)
      BY <1>1, <1>3, Here DEF Left
    <2>3. RelationFits(Top.node, Left)
      BY <1>1, <1>2, <2>1, <2>2, GraphFits DEF CallOK
    <2> QED
      BY <1>1, <2>1, <2>3, ReturnFits
  <1> QED
    BY <1>5, <1>6

-----------------------------------------------------------------------------

LEMMA BlocksStart == Init => BlocksInv
  <1> SUFFICES ASSUME Init PROVE BlocksInv
    OBVIOUS
  <1>1. QueryOK
    <2>1. PICK c \in Cases :
            block \in c.blocks /\ ctx \in c.contexts /\ active \in c.actives /\ matches \in c.data
      BY DEF Init
    <2>2. Tree(block) /\ ctx \in Bindings
      BY <2>1, BlocksAssumption
    <2>3. active \in Places
      BY <2>1, BlocksAssumption DEF Places
    <2>4. \A b \in Patterns : \A g \in Places : matches[b][g] \subseteq [PatternVars[b] -> Codes]
      BY <2>1, BlocksAssumption
    <2> QED
      BY <2>2, <2>3, <2>4 DEF QueryOK
  <1>2. CallsFit(calls, outcome)
    <2> DEFINE c == [node |-> Root, at |-> "start", env |-> {}, pushed |-> {}, scope |-> ActiveScope]
    <2>1. calls = <<c>>
      BY DEF Init
    <2>2. CallOK(c)
      <3>1. Root \in Nodes /\ ScopeOf[Root] = ActiveScope
        BY <1>1, TreeFacts, ScopesFollow DEF QueryOK
      <3> QED
        BY <3>1 DEF CallOK
    <2> HIDE DEF c
    <2>3. calls \in Seq({c}) /\ calls # <<>>
      BY <2>1
    <2> QED
      BY <2>2, <2>3, GoodCalls
  <1>3. RelationsFit(rel)
    <2>1. rel = [n \in Nodes |-> None]
      BY DEF Init
    <2>2. \A n \in Nodes : RelationFits(n, None)
      <3>1. None = Relation({}, <<>>, {})
        BY DEF None, Relation
      <3> QED
        BY <3>1, NoneFits
    <2>3. \A n \in Nodes : rel[n] = None
      BY <2>1
    <2> HIDE DEF None
    <2> QED
      BY <2>1, <2>2, <2>3 DEF RelationsFit
  <1> QED
    BY <1>1, <1>2, <1>3 DEF BlocksInv

LEMMA BlocksStep == BlocksInv /\ [Next]_vars => BlocksInv'
  <1> SUFFICES ASSUME BlocksInv, [Next]_vars PROVE BlocksInv'
    OBVIOUS
  <1>1. ASSUME UNCHANGED vars
        PROVE  BlocksInv'
    <2>1. UNCHANGED query /\ calls' = calls /\ outcome' = outcome /\ rel' = rel
      BY <1>1 DEF vars, query
    <2> QED
      BY <2>1, InvStays DEF BlocksInv
  <1> QED
    BY <1>1, BGPStep, ValuesStep, FilterSteps, JoinSteps, LeftJoinSteps, MinusSteps, GraphSteps
       DEF Next, Answered

(* Every relation fits its node, and every call its place in the block.     *)
THEOREM RelationsFitTheirNodes == Spec => []BlocksInv
  BY BlocksStart, BlocksStep, PTL DEF Spec

(* What _shared_key_ok and the semi-join rest on: whatever the block, a     *)
(* column some row leaves unbound is among its relation's nullable ones.    *)
THEOREM UnboundIsDeclaredAlways == Spec => []UnboundIsDeclared
  <1>1. BlocksInv => UnboundIsDeclared
    <2> SUFFICES ASSUME BlocksInv, NEW n \in Nodes, NEW r \in Range(rel[n].rows)
                 PROVE  Declared(rel[n], r)
      BY DEF UnboundIsDeclared, Declared
    <2>1. rel[n].rows \in Seq(RowsAt(n, rel[n]))
      BY DEF BlocksInv, RelationsFit, RelationFits
    <2>2. r \in RowsAt(n, rel[n])
      BY <2>1, RangeOfSeq
    <2> QED
      BY <2>2 DEF RowsAt
  <1> QED
    BY <1>1, RelationsFitTheirNodes, PTL

(* What a FILTER's push-down rests on: whatever the block and the data,     *)
(* _block_nullable names every variable a row turns out to leave unbound.   *)
THEOREM UnboundIsForeseenAlways == Spec => []UnboundIsForeseen
  <1>1. BlocksInv => UnboundIsForeseen
    <2> SUFFICES ASSUME BlocksInv, NEW n \in Nodes, NEW r \in Range(rel[n].rows)
                 PROVE  Foreseen(n, r)
      BY DEF UnboundIsForeseen, Foreseen
    <2>1. rel[n].rows \in Seq(RowsAt(n, rel[n]))
      BY DEF BlocksInv, RelationsFit, RelationFits
    <2>2. r \in RowsAt(n, rel[n])
      BY <2>1, RangeOfSeq
    <2> QED
      BY <2>2 DEF RowsAt
  <1> QED
    BY <1>1, RelationsFitTheirNodes, PTL

=============================================================================
