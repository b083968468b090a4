--------------------------- MODULE ProbeJoinProofs --------------------------
(***************************************************************************)
(* Proofs about ProbeJoin, for every relation, every number of matches,    *)
(* every budget and every size of the batches: a probe join that returns   *)
(* has every row joined with the matches of its own probe; a step holds no *)
(* more joined rows than its budget; no batch is left running; and one     *)
(* probe is sent after a cancel at most.                                   *)
(*                                                                         *)
(* The argument: while a batch is joined, as many of its answers have been *)
(* pulled as rows of it were probed, so the answer of a row is the next    *)
(* one, if the native layer gave the answers it owes.  If it did not, the  *)
(* rows joined may be wrong from there on, but the last pull notices: a    *)
(* batch that ends had all its answers and no other, so they were in order *)
(* all along (BatchOK and OutOK).                                          *)
(***************************************************************************)
EXTENDS ProbeJoin, WellFoundedInduction, SequenceTheorems, FiniteSetTheorems, TLAPS

(* Every variable's type.  What is reported of the tally, and how much a   *)
(* step may hold, are naturals.                                            *)
TypeOK ==
  /\ makes \in Seq({NoQuad} \cup Nat)
  /\ use \in {"step", "join", "optional"}
  /\ use = "step" => cap \in Nat
  /\ exists \in BOOLEAN /\ scans \in BOOLEAN /\ inMemory \in BOOLEAN /\ tokened \in BOOLEAN
  /\ opened \in BOOLEAN /\ cancelled \in BOOLEAN
  /\ pc \in {"batching", "counting", "joining"} \cup Ended
  /\ handled \in 0..NRows /\ last \in 0..NRows /\ asked \in 0..NRows
  /\ answers \in Seq(1..NRows)
  /\ ready \subseteq 1..Len(answers)
  /\ pulled \in Nat
  /\ out \in Seq((1..NRows) \X (1..NRows) \X Nat)
  /\ reached \subseteq 1..NRows /\ atCancel \subseteq reached
  /\ reported \in Nat

(* The rows of a batch run from First to last: ProbeBatch rows, or those   *)
(* there are.                                                              *)
PlaceOK ==
  /\ last # 0 => last = MinOf(First - 1 + ProbeBatch, NRows)
  /\ pc = "batching" => handled = last
  /\ pc = "counting" => exists /\ handled = First - 1 /\ handled < last
  /\ pc = "joining" => First - 1 <= handled /\ handled < last
  /\ pc = "done" => handled = NRows

(* A call is made of one row: the row to join, or one of a batch counted.  *)
AskedOK ==
  asked # 0 =>
    /\ pc \in {"counting", "joining"}
    /\ ~Batched
    /\ asked \in InBatch
    /\ pc = "joining" => asked = Next1 /\ ~exists

(* What is held of a batch, while its rows are joined: as many answers     *)
(* pulled as rows were probed, and no more of them once the last is.       *)
BatchOK ==
  /\ opened => pc = "joining" /\ Batched /\ ~exists /\ answers \in Answered(InOrder(InBatch))
  /\ pc = "joining" /\ exists => answers = InOrder(InBatch)
  /\ pc = "joining" /\ (Batched \/ exists) => pulled = Cardinality(Probes(First..handled))
  /\ ~opened => ready = {}
  /\ pc # "joining" => pulled = 0
  /\ opened /\ pulled = Cardinality(InBatch) => Len(answers) = Cardinality(InBatch)

(* The rows joined are those of the join as far as it came, unless the     *)
(* batch in hand was answered wrongly: such a batch never ends.            *)
OutOK ==
  /\ pc \notin {"over", "raised"} /\ (opened => answers = InOrder(InBatch)) => out = Joined[handled]
  /\ use = "step" => Len(out) <= cap
  /\ pc = "over" => out = <<>>

(* After the cancel only the call being made may still reach the store.    *)
CancelOK ==
  cancelled =>
    /\ asked # 0 => reached = atCancel
    /\ \E i \in 0..NRows : reached \ atCancel \subseteq {i}

IInv ==
  /\ TypeOK
  /\ PlaceOK
  /\ AskedOK
  /\ BatchOK
  /\ OutOK
  /\ CancelOK

-----------------------------------------------------------------------------
(* Sets of rows in order, and what a batch may answer.                     *)

(* A set with 0 and the successor of each of its naturals holds them all.  *)
LEMMA SetInduction ==
  ASSUME NEW S, 0 \in S, \A n \in Nat : n \in S => n + 1 \in S
  PROVE  Nat \subseteq S
  <1> DEFINE R == OpToRel(<, Nat)
             T == Nat \ S
  <1> SUFFICES ASSUME T # {} PROVE FALSE
    OBVIOUS
  <1>1. PICK x \in T : \A y \in T : ~(<<y, x>> \in R)
    <2>1. IsWellFoundedOn(R, Nat)
      BY NatLessThanWellFounded
    <2>2. T \subseteq Nat
      OBVIOUS
    <2> HIDE DEF R, T
    <2> QED
      BY <2>1, <2>2, WFMin
  <1>2. x \in Nat /\ x # 0 /\ x - 1 \in Nat /\ x - 1 + 1 = x
    OBVIOUS
  <1>3. x - 1 \in S
    <2>1. x - 1 \in T => <<x - 1, x>> \in R
      BY <1>2 DEF OpToRel
    <2> QED
      BY <1>1, <1>2, <2>1
  <1> QED
    BY <1>2, <1>3

(* A set of naturals has a least one.                                      *)
LEMMA Least ==
  ASSUME NEW S, S # {}, S \subseteq Nat
  PROVE  \E i \in S : \A j \in S : i <= j
  <1>1. PICK i \in S : \A j \in S : ~(<<j, i>> \in OpToRel(<, Nat))
    BY NatLessThanWellFounded, WFMin
  <1>2. ASSUME NEW j \in S
        PROVE  i <= j
    <2>1. i \in Nat /\ j \in Nat
      OBVIOUS
    <2>2. ~(j < i)
      BY <1>1, <2>1 DEF OpToRel
    <2> QED
      BY <2>1, <2>2
  <1> QED
    BY <1>2

(* The members of S before i.                                              *)
Before(S, i) == {j \in S : j < i}

LEMMA Finite ==
  ASSUME NEW N \in Nat, NEW S \in SUBSET (1..N)
  PROVE  /\ IsFiniteSet(S) /\ Cardinality(S) \in Nat
         /\ \A i : IsFiniteSet(Before(S, i)) /\ Cardinality(Before(S, i)) \in Nat
  <1>1. IsFiniteSet(1..N)
    BY FS_Interval
  <1>2. \A i : Before(S, i) \subseteq S
    BY DEF Before
  <1> QED
    BY <1>1, <1>2, FS_Subset, FS_CardinalityType

(* Every place in the order of S is some member's.                         *)
LEMMA Ranks ==
  ASSUME NEW N \in Nat, NEW S \in SUBSET (1..N)
  PROVE  \A k \in 1..Cardinality(S) : \E i \in S : Cardinality(Before(S, i)) = k - 1
  <1> DEFINE Ranked(T) == \A k \in 1..Cardinality(T) : \E i \in T : Cardinality(Before(T, i)) = k - 1
             Upto == {n \in Nat : \A T \in SUBSET (1..n) : Ranked(T)}
  <1>1. 0 \in Upto
    <2>1. ASSUME NEW T \in SUBSET (1..0)
          PROVE  Ranked(T)
      <3>1. T = {}
        OBVIOUS
      <3> QED
        BY <3>1, FS_EmptySet
    <2> QED
      BY <2>1
  <1>2. ASSUME NEW n \in Nat, n \in Upto
        PROVE  n + 1 \in Upto
    <2>1. ASSUME NEW T \in SUBSET (1..n + 1)
          PROVE  Ranked(T)
      <3>1. CASE n + 1 \notin T
        <4>1. T \in SUBSET (1..n)
          BY <3>1
        <4> QED
          BY <1>2, <4>1
      <3>2. CASE n + 1 \in T
        <4> DEFINE U == T \ {n + 1}
        <4>1. U \in SUBSET (1..n)
          OBVIOUS
        <4>2. Cardinality(U) \in Nat /\ Cardinality(T) = Cardinality(U) + 1
          <5>1. IsFiniteSet(T) /\ Cardinality(T) \in Nat /\ Cardinality(U) \in Nat
            <6>1. n + 1 \in Nat
              OBVIOUS
            <6> QED
              BY <4>1, <6>1, Finite
          <5>2. Cardinality(U) = Cardinality(T) - 1
            BY <3>2, <5>1, FS_RemoveElement
          <5> QED
            BY <5>1, <5>2
        <4>3. Ranked(U)
          BY <1>2, <4>1
        <4>4. Before(T, n + 1) = U
          <5>1. (\A j \in U : j < n + 1) /\ ~(n + 1 < n + 1)
            BY <4>1
          <5> QED
            BY <5>1, Zenon DEF Before
        <4>5. ASSUME NEW i \in U
              PROVE  Before(T, i) = Before(U, i)
          <5>1. i < n + 1 /\ ~(n + 1 < i)
            BY <4>1
          <5> QED
            BY <5>1 DEF Before
        <4>6. ASSUME NEW k \in 1..Cardinality(T)
              PROVE  \E i \in T : Cardinality(Before(T, i)) = k - 1
          <5>1. CASE k = Cardinality(U) + 1
            <6>1. Cardinality(U) = k - 1
              BY <4>2, <5>1
            <6>2. Cardinality(Before(T, n + 1)) = k - 1
              BY <4>4, <6>1, Zenon
            <6> QED
              BY <3>2, <6>2
          <5>2. CASE k # Cardinality(U) + 1
            <6>1. k \in 1..Cardinality(U)
              BY <4>2, <5>2
            <6>2. PICK i \in U : Cardinality(Before(U, i)) = k - 1
              BY <4>3, <6>1
            <6> QED
              BY <4>5, <6>2
          <5> QED
            BY <5>1, <5>2
        <4> QED
          BY <4>6
      <3> QED
        BY <3>1, <3>2
    <2> QED
      BY <2>1
  <1>3. Nat \subseteq Upto
    BY <1>1, <1>2, SetInduction
  <1> QED
    BY <1>3

(* InOrder lists the members of S, each at its place.                      *)
LEMMA OrderOfProbes ==
  ASSUME NEW N \in Nat, NEW S \in SUBSET (1..N)
  PROVE  /\ InOrder(S) \in Seq(1..N)
         /\ Len(InOrder(S)) = Cardinality(S)
         /\ \A x \in S : /\ Cardinality(Before(S, x)) + 1 \in 1..Cardinality(S)
                         /\ InOrder(S)[Cardinality(Before(S, x)) + 1] = x
  <1>1. Cardinality(S) \in Nat
    BY Finite
  <1>2. InOrder(S) = [k \in 1..Cardinality(S) |-> CHOOSE i \in S : Cardinality(Before(S, i)) = k - 1]
    BY DEF InOrder, Before
  <1>3. ASSUME NEW k \in 1..Cardinality(S)
        PROVE  InOrder(S)[k] \in S /\ Cardinality(Before(S, InOrder(S)[k])) = k - 1
    <2>1. \E i \in S : Cardinality(Before(S, i)) = k - 1
      BY Ranks
    <2>2. InOrder(S)[k] = CHOOSE i \in S : Cardinality(Before(S, i)) = k - 1
      BY <1>2
    <2> QED
      BY <2>1, <2>2
  <1>4. InOrder(S) \in Seq(1..N) /\ Len(InOrder(S)) = Cardinality(S)
    <2>1. InOrder(S) \in [1..Cardinality(S) -> 1..N]
      BY <1>2, <1>3
    <2> QED
      BY <1>1, <2>1, SeqDef, LenProperties
  <1>5. ASSUME NEW x \in S
        PROVE  /\ Cardinality(Before(S, x)) + 1 \in 1..Cardinality(S)
               /\ InOrder(S)[Cardinality(Before(S, x)) + 1] = x
    <2>1. Cardinality(Before(S, x)) \in Nat /\ Cardinality(Before(S, x)) < Cardinality(S)
      <3>1. Before(S, x) \subseteq S /\ x \notin Before(S, x)
        BY DEF Before
      <3>2. IsFiniteSet(S)
        BY Finite
      <3> QED
        BY <1>1, <3>1, <3>2, Finite, FS_Subset
    <2>2. Cardinality(Before(S, x)) + 1 \in 1..Cardinality(S)
      BY <1>1, <2>1
    <2>3. PICK y : y = InOrder(S)[Cardinality(Before(S, x)) + 1]
      OBVIOUS
    <2>4. y \in S /\ Cardinality(Before(S, y)) = Cardinality(Before(S, x))
      BY <1>3, <2>1, <2>2, <2>3
    <2>5. ASSUME NEW u \in S, NEW v \in S, u < v
          PROVE  Cardinality(Before(S, u)) < Cardinality(Before(S, v))
      <3>1. Before(S, u) \subseteq Before(S, v) /\ u \in Before(S, v) /\ u \notin Before(S, u)
        <4>1. u \in Nat /\ v \in Nat /\ u < v /\ \A j \in S : j \in Nat
          BY <2>5
        <4>2. \A j \in S : j < u => j < v
          BY <4>1
        <4>3. ~(u < u)
          BY <4>1
        <4> QED
          BY <4>1, <4>2, <4>3, Zenon DEF Before
      <3>2. IsFiniteSet(Before(S, v)) /\ Cardinality(Before(S, v)) \in Nat
        BY Finite
      <3> QED
        BY <3>1, <3>2, FS_Subset, FS_CardinalityType
    <2>6. ~(x < y) /\ ~(y < x)
      BY <2>1, <2>4, <2>5
    <2>7. x = y
      BY <2>4, <2>6
    <2> QED
      BY <2>2, <2>3, <2>7
  <1> QED
    BY <1>4, <1>5

(* An answer left out or given twice shows in how many there are.          *)
LEMMA AnswersTold ==
  ASSUME NEW S, NEW s \in Seq(S), NEW given \in Answered(s)
  PROVE  given \in Seq(S) /\ (Len(given) = Len(s) => given = s)
  <1>1. Len(s) \in Nat
    BY LenProperties
  <1>2. CASE given = s
    BY <1>2
  <1>3. ASSUME NEW k \in 1..Len(s), given = Without(s, k)
        PROVE  given \in Seq(S) /\ Len(given) # Len(s)
    <2>1. SubSeq(s, 1, k - 1) \in Seq(S) /\ Len(SubSeq(s, 1, k - 1)) = k - 1
      BY <1>1, SubSeqProperties
    <2>2. SubSeq(s, k + 1, Len(s)) \in Seq(S) /\ Len(SubSeq(s, k + 1, Len(s))) = Len(s) - k
      BY <1>1, SubSeqProperties
    <2>3. given = SubSeq(s, 1, k - 1) \o SubSeq(s, k + 1, Len(s))
      BY <1>3 DEF Without
    <2>4. given \in Seq(S) /\ Len(given) = Len(SubSeq(s, 1, k - 1)) + Len(SubSeq(s, k + 1, Len(s)))
      <3>1. PICK t \in Seq(S), u \in Seq(S) : t = SubSeq(s, 1, k - 1) /\ u = SubSeq(s, k + 1, Len(s))
        BY <2>1, <2>2, Zenon
      <3>2. t \o u \in Seq(S) /\ Len(t \o u) = Len(t) + Len(u)
        BY ConcatProperties
      <3> QED
        BY <2>3, <3>1, <3>2, Zenon
    <2>5. Len(given) = k - 1 + (Len(s) - k)
      BY <1>1, <2>1, <2>2, <2>4
    <2>6. Len(given) # Len(s)
      BY <1>1, <2>5
    <2> QED
      BY <2>4, <2>6
  <1>4. ASSUME NEW k \in 1..Len(s), given = Twice(s, k)
        PROVE  given \in Seq(S) /\ Len(given) # Len(s)
    <2>1. SubSeq(s, 1, k) \in Seq(S) /\ Len(SubSeq(s, 1, k)) = k
      BY <1>1, SubSeqProperties
    <2>2. SubSeq(s, k, Len(s)) \in Seq(S) /\ Len(SubSeq(s, k, Len(s))) = Len(s) - k + 1
      BY <1>1, SubSeqProperties
    <2>3. given = SubSeq(s, 1, k) \o SubSeq(s, k, Len(s))
      BY <1>4 DEF Twice
    <2>4. given \in Seq(S) /\ Len(given) = Len(SubSeq(s, 1, k)) + Len(SubSeq(s, k, Len(s)))
      <3>1. PICK t \in Seq(S), u \in Seq(S) : t = SubSeq(s, 1, k) /\ u = SubSeq(s, k, Len(s))
        BY <2>1, <2>2, Zenon
      <3>2. t \o u \in Seq(S) /\ Len(t \o u) = Len(t) + Len(u)
        BY ConcatProperties
      <3> QED
        BY <2>3, <3>1, <3>2, Zenon
    <2> QED
      BY <1>1, <2>1, <2>2, <2>4
  <1> QED
    BY <1>2, <1>3, <1>4 DEF Answered

-----------------------------------------------------------------------------
(* The rows of the join.                                                   *)

Row == (1..NRows) \X (1..NRows) \X Nat

(* A value made step by step, one function after another, exists.          *)
LEMMA StepByStep ==
  ASSUME NEW V, NEW start \in V, NEW N \in Nat, NEW step \in [1..N -> [V -> V]]
  PROVE  \E g \in [0..N -> V] : g[0] = start /\ \A i \in 1..N : g[i] = step[i][g[i - 1]]
  <1> DEFINE Made(g, n) == g[0] = start /\ \A i \in 1..n : g[i] = step[i][g[i - 1]]
             Exist(n) == \E g \in [0..n -> V] : Made(g, n)
             S == {n \in Nat : n <= N => Exist(n)}
  <1>1. Exist(0)
    <2>1. [i \in 0..0 |-> start] \in [0..0 -> V] /\ Made([i \in 0..0 |-> start], 0)
      OBVIOUS
    <2> QED
      BY <2>1
  <1>2. ASSUME NEW n \in Nat, n + 1 <= N, Exist(n)
        PROVE  Exist(n + 1)
    <2>1. PICK g \in [0..n -> V] : Made(g, n)
      BY <1>2
    <2>2. step[n + 1][g[n]] \in V
      <3>1. g[n] \in V /\ step[n + 1] \in [V -> V]
        BY <1>2
      <3> QED
        BY <3>1
    <2> DEFINE h == [i \in 0..n + 1 |-> IF i = n + 1 THEN step[n + 1][g[n]] ELSE g[i]]
    <2>3. h \in [0..n + 1 -> V]
      BY <2>2
    <2>4. \A i \in 0..n : h[i] = g[i]
      OBVIOUS
    <2>5. h[n + 1] = step[n + 1][g[n]]
      OBVIOUS
    <2> HIDE DEF h
    <2>6. h[0] = start
      BY <2>1, <2>4
    <2>7. ASSUME NEW i \in 1..n + 1
          PROVE  h[i] = step[i][h[i - 1]]
      <3>1. CASE i = n + 1
        <4>1. i - 1 = n /\ n \in 0..n
          BY <3>1
        <4> QED
          BY <2>4, <2>5, <3>1, <4>1
      <3>2. CASE i # n + 1
        <4>1. i \in 1..n /\ i \in 0..n /\ i - 1 \in 0..n
          BY <3>2
        <4> QED
          BY <2>1, <2>4, <4>1
      <3> QED
        BY <3>1, <3>2
    <2> QED
      BY <2>3, <2>6, <2>7
  <1> HIDE DEF Exist
  <1>3. 0 \in S /\ \A n \in Nat : n \in S => n + 1 \in S
    BY <1>1, <1>2
  <1>4. N \in S
    BY <1>3, SetInduction
  <1>5. Exist(N)
    BY <1>4
  <1> QED
    BY <1>5, Zenon DEF Exist

LEMMA RowsExtended ==
  ASSUME TypeOK
  PROVE  /\ NRows \in Nat
         /\ \A i \in 1..NRows : makes[i] \in Int
         /\ \A i, a \in 1..NRows : Extended(i, a) \in Seq(Row)
  <1>1. NRows \in Nat /\ \A i \in 1..NRows : makes[i] \in Int
    BY LenProperties, ElementOfSeq DEF TypeOK, NRows, NoQuad
  <1>2. ASSUME NEW i \in 1..NRows, NEW a \in 1..NRows
        PROVE  Extended(i, a) \in Seq(Row)
    <2>1. CASE makes[a] > 0
      <3>1. makes[a] \in Nat
        BY <1>1, <2>1
      <3>2. [k \in 1..makes[a] |-> <<i, a, k>>] \in [1..makes[a] -> Row]
        BY <3>1 DEF Row
      <3>3. [k \in 1..makes[a] |-> <<i, a, k>>] \in Seq(Row)
        BY <3>1, <3>2, SeqDef
      <3> QED
        BY <2>1, <3>3, Zenon DEF Extended
    <2>2. CASE ~(makes[a] > 0)
      <3>1. <<i, i, 0>> \in Row
        BY DEF Row
      <3>2. <<<<i, i, 0>>>> \in Seq(Row) /\ <<>> \in Seq(Row)
        BY <3>1
      <3> QED
        BY <2>2, <3>2, Zenon DEF Extended
    <2> QED
      BY <2>1, <2>2
  <1> QED
    BY <1>1, <1>2

LEMMA JoinedRows ==
  ASSUME TypeOK
  PROVE  /\ Joined[0] = <<>>
         /\ \A i \in 1..NRows : Joined[i] = Joined[i - 1] \o Extended(i, i)
         /\ \A i \in 0..NRows : Joined[i] \in Seq(Row)
  <1> DEFINE step == [i \in 1..NRows |-> [s \in Seq(Row) |-> s \o Extended(i, i)]]
             P(f) == f = [i \in 0..NRows |-> IF i = 0 THEN <<>> ELSE f[i - 1] \o Extended(i, i)]
             J == Joined
  <1>1. NRows \in Nat /\ <<>> \in Seq(Row) /\ step \in [1..NRows -> [Seq(Row) -> Seq(Row)]]
    <2>1. ASSUME NEW i \in 1..NRows, NEW s \in Seq(Row)
          PROVE  s \o Extended(i, i) \in Seq(Row)
      BY RowsExtended, ConcatProperties
    <2> QED
      BY <2>1, RowsExtended, EmptySeq
  <1>2. \A i \in 1..NRows, s \in Seq(Row) : step[i][s] = s \o Extended(i, i)
    OBVIOUS
  <1> HIDE DEF step
  <1>3. PICK g \in [0..NRows -> Seq(Row)] :
          g[0] = <<>> /\ \A i \in 1..NRows : g[i] = step[i][g[i - 1]]
    <2>1. PICK V, start, N, a : V = Seq(Row) /\ start = <<>> /\ N = NRows /\ a = step
      OBVIOUS
    <2>2. start \in V /\ N \in Nat /\ a \in [1..N -> [V -> V]]
      BY <1>1, <2>1, Zenon
    <2>3. \E g \in [0..N -> V] : g[0] = start /\ \A i \in 1..N : g[i] = a[i][g[i - 1]]
      BY <2>2, StepByStep
    <2> QED
      BY <2>1, <2>3, Zenon
  <1>4. P(g)
    <2>1. ASSUME NEW i \in 0..NRows
          PROVE  g[i] = IF i = 0 THEN <<>> ELSE g[i - 1] \o Extended(i, i)
      <3>1. CASE i = 0
        BY <1>3, <3>1
      <3>2. CASE i # 0
        <4>1. i \in 1..NRows /\ i - 1 \in 0..NRows
          BY <1>1, <3>2
        <4>2. g[i - 1] \in Seq(Row)
          BY <4>1
        <4> QED
          BY <1>2, <1>3, <3>2, <4>1, <4>2, Zenon
      <3> QED
        BY <3>1, <3>2
    <2> QED
      BY <1>3, <2>1, Zenon
  <1>5. P(CHOOSE f : P(f))
    BY <1>4, Zenon
  <1>6. J = CHOOSE f : P(f)
    BY DEF Joined
  <1>7. P(J)
    BY <1>5, <1>6, Zenon
  <1> HIDE DEF J
  <1>8. J[0] = <<>> /\ \A i \in 1..NRows : J[i] = J[i - 1] \o Extended(i, i)
    <2>1. \A i \in 0..NRows : J[i] = IF i = 0 THEN <<>> ELSE J[i - 1] \o Extended(i, i)
      BY <1>7, Zenon
    <2>2. 0 \in 0..NRows /\ \A i \in 1..NRows : i \in 0..NRows /\ i # 0
      BY <1>1
    <2> QED
      BY <2>1, <2>2, Zenon
  <1>9. \A i \in 0..NRows : J[i] \in Seq(Row)
    <2> DEFINE S == {n \in Nat : n <= NRows => J[n] \in Seq(Row)}
    <2>1. 0 \in S
      BY <1>8, EmptySeq
    <2>2. ASSUME NEW n \in Nat, n \in S
          PROVE  n + 1 \in S
      <3> SUFFICES ASSUME n + 1 <= NRows PROVE J[n + 1] \in Seq(Row)
        OBVIOUS
      <3>1. J[n] \in Seq(Row) /\ n + 1 \in 1..NRows /\ n + 1 - 1 = n
        BY <1>1, <2>2
      <3>2. J[n + 1] = J[n] \o Extended(n + 1, n + 1)
        <4>1. PICK m \in 1..NRows : m = n + 1 /\ m - 1 = n
          BY <3>1
        <4> QED
          BY <1>8, <4>1, Zenon
      <3>3. Extended(n + 1, n + 1) \in Seq(Row)
        BY <3>1, RowsExtended
      <3> QED
        BY <3>1, <3>2, <3>3, ConcatProperties
    <2>3. Nat \subseteq S
      BY <2>1, <2>2, SetInduction
    <2> QED
      BY <1>1, <2>3
  <1> QED
    BY <1>8, <1>9 DEF J

LEMMA JoinedStays ==
  ASSUME UNCHANGED relation
  PROVE  NRows' = NRows /\ Joined' = Joined /\ Row' = Row
  BY DEF relation, Joined, NRows, Extended, Row

-----------------------------------------------------------------------------
(* The rows of a batch.                                                    *)

(* A batch that follows whole ones begins with the row after theirs.       *)
LEMMA FirstOfBatch ==
  ASSUME NEW m \in Nat, NEW l \in Nat, NEW p \in Nat \ {0}, m * p < l, l <= m * p + p
  PROVE  (l - 1) \div p = m
  OBVIOUS

LEMMA Sizes ==
  /\ ProbeBatch \in Nat \ {0} /\ ScanBatchMin \in Nat \ {0} /\ MemoryScanBatchMin \in Nat \ {0}
  /\ CheapBatchMin \in Nat \ {0} /\ Ahead \in Nat \ {0}
  BY ProbesAssumption

LEMMA BatchRows ==
  ASSUME TypeOK
  PROVE  /\ NRows \in Nat /\ last \in Nat /\ handled \in Nat
         /\ InBatch \in SUBSET (1..NRows)
         /\ IsFiniteSet(InBatch) /\ Cardinality(InBatch) \in Nat
         /\ last # 0 => First \in Nat \ {0} /\ InBatch = Probes(First..last)
         /\ InOrder(InBatch) \in Seq(1..NRows) /\ Len(InOrder(InBatch)) = Cardinality(InBatch)
  <1>1. NRows \in Nat /\ last \in 0..NRows /\ handled \in 0..NRows
    BY RowsExtended DEF TypeOK
  <1>2. last # 0 => First \in Nat \ {0}
    <2>1. ASSUME last # 0
          PROVE  First \in Nat \ {0}
      <3>1. (last - 1) \div ProbeBatch \in Nat
        BY <1>1, <2>1, Sizes
      <3>2. PICK q \in Nat : q = (last - 1) \div ProbeBatch
        BY <3>1
      <3>3. q * ProbeBatch \in Nat
        BY Sizes
      <3>4. q * ProbeBatch + 1 \in Nat \ {0}
        BY <3>3
      <3> QED
        BY <3>2, <3>4, Zenon DEF First
    <2> QED
      BY <2>1
  <1>3. InBatch \in SUBSET (1..NRows)
    <2>1. CASE last = 0
      BY <2>1 DEF InBatch
    <2>2. CASE last # 0
      <3>1. First..last \subseteq 1..NRows
        BY <1>1, <1>2, <2>2
      <3> QED
        BY <2>2, <3>1 DEF InBatch, Probes
    <2> QED
      BY <2>1, <2>2
  <1>4. last # 0 => InBatch = Probes(First..last)
    BY DEF InBatch
  <1>5. IsFiniteSet(InBatch) /\ Cardinality(InBatch) \in Nat
    BY <1>1, <1>3, Finite
  <1>6. InOrder(InBatch) \in Seq(1..NRows) /\ Len(InOrder(InBatch)) = Cardinality(InBatch)
    BY <1>1, <1>3, OrderOfProbes
  <1> QED
    BY <1>1, <1>2, <1>3, <1>4, <1>5, <1>6

LEMMA BatchStays ==
  ASSUME UNCHANGED relation, last' = last
  PROVE  /\ First' = First /\ InBatch' = InBatch /\ Batched' = Batched
         /\ InOrder(InBatch)' = InOrder(InBatch) /\ Answered(InOrder(InBatch))' = Answered(InOrder(InBatch))
         /\ handled' = handled => Next1' = Next1 /\ Probes(First..handled)' = Probes(First..handled)
  BY DEF relation, First, InBatch, Batched, InOrder, Answered, Next1, Probes, Without, Twice

(* While a row is joined, the next answer is its own; a row without a      *)
(* probe takes none.                                                       *)
LEMMA NextRow ==
  ASSUME TypeOK, PlaceOK, BatchOK, pc = "joining"
  PROVE  /\ Next1 \in 1..NRows /\ Next1 \in First..last /\ handled + 1 = Next1
         /\ Next1 \in InBatch <=> makes[Next1] # NoQuad
         /\ IsFiniteSet(Probes(First..Next1)) /\ Cardinality(Probes(First..Next1)) \in Nat
         /\ Next1 = last => Probes(First..Next1) = InBatch
         /\ Next1 \notin InBatch => Probes(First..Next1) = Probes(First..handled)
         /\ (Batched \/ exists) /\ Next1 \in InBatch =>
              /\ pulled + 1 \in 1..Cardinality(InBatch)
              /\ InOrder(InBatch)[pulled + 1] = Next1
              /\ Cardinality(Probes(First..Next1)) = pulled + 1
  <1>1. /\ NRows \in Nat /\ last \in 1..NRows /\ handled \in Nat /\ handled < last
        /\ First \in Nat \ {0} /\ First - 1 <= handled
        /\ InBatch = Probes(First..last) /\ InBatch \in SUBSET (1..NRows)
        /\ IsFiniteSet(InBatch) /\ Cardinality(InBatch) \in Nat
    <2>1. last \in 0..NRows /\ handled \in 0..NRows /\ handled < last /\ NRows \in Nat
      BY RowsExtended DEF TypeOK, PlaceOK
    <2>2. last # 0
      BY <2>1
    <2> QED
      BY <2>1, <2>2, BatchRows DEF PlaceOK
  <1>2. Next1 \in 1..NRows /\ Next1 \in First..last /\ handled + 1 = Next1
    BY <1>1 DEF Next1
  <1>3. Next1 \in InBatch <=> makes[Next1] # NoQuad
    BY <1>1, <1>2 DEF Probes
  <1>4. Probes(First..Next1) \subseteq InBatch
    BY <1>1, <1>2 DEF Probes
  <1>5. IsFiniteSet(Probes(First..Next1)) /\ Cardinality(Probes(First..Next1)) \in Nat
    BY <1>1, <1>4, FS_Subset, FS_CardinalityType
  <1>6. Next1 = last => Probes(First..Next1) = InBatch
    BY <1>1
  <1>7. First..Next1 = (First..handled) \cup {Next1} /\ Next1 \notin First..handled
    BY <1>1, <1>2
  <1>8. Next1 \notin InBatch => Probes(First..Next1) = Probes(First..handled)
    BY <1>3, <1>7 DEF Probes
  <1>9. ASSUME Batched \/ exists, Next1 \in InBatch
        PROVE  /\ pulled + 1 \in 1..Cardinality(InBatch)
               /\ InOrder(InBatch)[pulled + 1] = Next1
               /\ Cardinality(Probes(First..Next1)) = pulled + 1
    <2>1. pulled = Cardinality(Probes(First..handled))
      BY <1>9 DEF BatchOK
    <2>2. Before(InBatch, Next1) = Probes(First..handled)
      <3>1. \A j \in First..last : j < Next1 <=> j \in First..handled
        BY <1>1, <1>2
      <3>2. First..handled \subseteq First..last
        BY <1>1
      <3> QED
        BY <1>1, <3>1, <3>2, Zenon DEF Before, Probes
    <2>3. Cardinality(Before(InBatch, Next1)) + 1 \in 1..Cardinality(InBatch)
          /\ InOrder(InBatch)[Cardinality(Before(InBatch, Next1)) + 1] = Next1
      BY <1>1, <1>9, OrderOfProbes
    <2>4. Probes(First..Next1) = Probes(First..handled) \cup {Next1} /\ Next1 \notin Probes(First..handled)
      BY <1>3, <1>7, <1>9 DEF Probes
    <2>5. IsFiniteSet(Probes(First..handled))
      BY <1>5, <2>4, FS_Subset
    <2>6. Cardinality(Probes(First..Next1)) = Cardinality(Probes(First..handled)) + 1
      BY <2>4, <2>5, FS_AddElement
    <2> QED
      BY <2>1, <2>2, <2>3, <2>6, Zenon
  <1> QED
    BY <1>1, <1>2, <1>3, <1>5, <1>6, <1>8, <1>9

-----------------------------------------------------------------------------
(* Every action keeps the types.                                           *)

LEMMA EmptyBatch ==
  ASSUME Release, NEW n
  PROVE  ~opened' /\ answers' = <<>> /\ ready' = {} /\ pulled' = 0
         /\ answers' \in Seq(1..n) /\ opened' \in BOOLEAN /\ pulled' \in Nat
  BY EmptySeq DEF Release

LEMMA JoinKeepsTypes ==
  ASSUME TypeOK, PlaceOK, BatchOK, pc = "joining",
         NEW a \in 1..NRows, NEW p \in Nat, Join(a, p), reached' \subseteq 1..NRows, reached \subseteq reached'
  PROVE  TypeOK'
  <1>1. /\ Next1 \in 1..NRows /\ NRows \in Nat /\ handled' = Next1 /\ asked' = 0
        /\ UNCHANGED relation /\ last' = last /\ cancelled' = cancelled /\ atCancel' = atCancel
    BY NextRow, RowsExtended DEF Join, token
  <1>2. NRows' = NRows
    BY <1>1, JoinedStays
  <1>3. out \o Extended(Next1, a) \in Seq(Row)
    <2>1. Extended(Next1, a) \in Seq(Row) /\ out \in Seq(Row)
      BY <1>1, RowsExtended DEF TypeOK, Row
    <2> QED
      BY <2>1, ConcatProperties
  <1>4. out' \in Seq(Row) /\ pc' \in {"batching", "counting", "joining"} \cup Ended
    BY <1>3, EmptySeq DEF Join, Ended
  <1>5. /\ answers' \in Seq(1..NRows) /\ opened' \in BOOLEAN /\ pulled' \in Nat
        /\ ready' \subseteq 1..Len(answers')
    <2>1. CASE UNCHANGED <<opened, answers, ready>> /\ pulled' = p
      BY <2>1 DEF TypeOK
    <2>2. CASE Release
      BY <2>2, EmptyBatch
    <2> QED
      BY <2>1, <2>2 DEF Join
  <1>6. reported' \in Nat
    <2>1. Sent \in Nat
      <3>1. last # 0
        BY <1>1, NextRow DEF TypeOK, PlaceOK
      <3>2. First \in Nat /\ First - 1 \in Int
        BY <3>1, BatchRows
      <3>3. IsFiniteSet(1..First-1) /\ Probes(1..First-1) \subseteq 1..First-1
        BY <3>2, FS_Interval DEF Probes
      <3>4. Cardinality(Probes(1..First-1)) \in Nat
        BY <3>3, FS_Subset, FS_CardinalityType
      <3>5. Cardinality(InBatch) \in Nat /\ Cardinality(Probes(First..Next1)) \in Nat
        BY BatchRows, NextRow
      <3> DEFINE sent == IF exists \/ (Batched /\ Probes(First..Next1) # {})
                         THEN Cardinality(InBatch) ELSE Cardinality(Probes(First..Next1))
      <3>6. sent \in Nat
        BY <3>5
      <3>7. Sent = Cardinality(Probes(1..First-1)) + sent
        BY DEF Sent
      <3> HIDE DEF sent
      <3> QED
        BY <3>4, <3>6, <3>7
    <2> QED
      BY <2>1 DEF Join, TypeOK
  <1>7. /\ reached' \subseteq 1..NRows /\ atCancel' \subseteq reached'
    BY <1>1 DEF TypeOK
  <1>8. handled' \in 0..NRows /\ asked' \in 0..NRows
    BY <1>1
  <1> QED
    BY <1>1, <1>2, <1>4, <1>5, <1>6, <1>7, <1>8 DEF TypeOK, relation, Row

LEMMA RaiseKeepsTypes ==
  ASSUME TypeOK, Raise, reached \subseteq reached', reached' \subseteq 1..NRows
  PROVE  TypeOK'
  <1>1. NRows' = NRows /\ UNCHANGED relation
    BY JoinedStays DEF Raise
  <1>2. /\ answers' \in Seq(1..NRows) /\ opened' \in BOOLEAN /\ pulled' \in Nat
        /\ ready' \subseteq 1..Len(answers')
    BY EmptyBatch DEF Raise
  <1>3. pc' = "raised" /\ asked' = 0 /\ 0 \in 0..NRows /\ UNCHANGED <<handled, last, out, reported, cancelled, atCancel>>
    BY RowsExtended DEF Raise, token
  <1> QED
    BY <1>1, <1>2, <1>3 DEF TypeOK, relation, Ended

(* The answers a batch holds are of its own rows.                          *)
LEMMA AnswersAreRows ==
  ASSUME TypeOK, NEW given \in Answered(InOrder(InBatch))
  PROVE  given \in Seq(1..NRows) /\ (Len(given) = Cardinality(InBatch) => given = InOrder(InBatch))
  BY BatchRows, AnswersTold

LEMMA PulledAnswer ==
  ASSUME TypeOK, PlaceOK, BatchOK
  PROVE  /\ JoinCounted => answers[pulled + 1] \in 1..NRows /\ answers[pulled + 1] = Next1
         /\ JoinPulled => answers[pulled + 1] \in 1..NRows
  <1>1. ASSUME JoinCounted
        PROVE  answers[pulled + 1] \in 1..NRows /\ answers[pulled + 1] = Next1
    <2>1. pc = "joining" /\ exists /\ Next1 \in InBatch
      BY <1>1 DEF JoinCounted, Pulls
    <2>2. answers = InOrder(InBatch)
      BY <2>1 DEF BatchOK
    <2> QED
      BY <2>1, <2>2, NextRow
  <1>2. ASSUME JoinPulled
        PROVE  answers[pulled + 1] \in 1..NRows
    <2>1. pulled + 1 \in ready
      BY <1>2 DEF JoinPulled
    <2>2. answers \in Seq(1..NRows) /\ pulled + 1 \in 1..Len(answers)
      BY <2>1 DEF TypeOK
    <2> QED
      BY <2>2, ElementOfSeq
  <1> QED
    BY <1>1, <1>2

LEMMA StepKeepsTypes ==
  ASSUME IInv, Next
  PROVE  TypeOK'
  <1>1. TypeOK /\ PlaceOK /\ AskedOK /\ BatchOK
    BY DEF IInv
  <1>2. /\ NRows \in Nat /\ last \in 0..NRows /\ handled \in 0..NRows /\ 0 \in 0..NRows
        /\ InBatch \in SUBSET (1..NRows) /\ reached \subseteq 1..NRows
    BY <1>1, RowsExtended, BatchRows DEF TypeOK
  <1>3. UNCHANGED relation => NRows' = NRows
    BY JoinedStays
  <1>4. CASE BeginBatch
    <2>1. /\ pc' \in {"counting", "joining"}
          /\ UNCHANGED <<relation, handled, asked, opened, answers, ready, pulled, out, reached, reported, cancelled, atCancel>>
      BY <1>4 DEF BeginBatch, batch, token
    <2>2. last' \in 0..NRows
      BY <1>2, <1>4, Sizes DEF BeginBatch, MinOf
    <2> QED
      BY <1>1, <1>3, <2>1, <2>2 DEF TypeOK, relation
  <1>5. CASE Finish
    BY <1>1, <1>3, <1>5 DEF Finish, TypeOK, relation, batch, token, Ended
  <1>6. CASE Call
    <2>1. NextCall \in 1..NRows
      <3>1. CASE pc = "joining"
        BY <1>1, <3>1, NextRow DEF NextCall
      <3>2. CASE pc # "joining"
        <4>1. Uncounted # {} /\ Uncounted \subseteq InBatch
          BY <1>6, <3>2 DEF Call, CallsNext, Pulls, Uncounted
        <4>2. Uncounted \subseteq Nat
          BY <1>2, <4>1
        <4>3. \E i \in Uncounted : \A j \in Uncounted : i <= j
          BY <4>1, <4>2, Least
        <4> QED
          BY <1>2, <3>2, <4>1, <4>3 DEF NextCall
      <3> QED
        BY <3>1, <3>2
    <2>2. /\ asked' = NextCall /\ reached' \in {reached, reached \cup {NextCall}}
          /\ UNCHANGED <<relation, pc, handled, last, opened, answers, ready, pulled, out, reported, cancelled, atCancel>>
      BY <1>6 DEF Call, batch, token
    <2>3. asked' \in 0..NRows /\ reached' \subseteq 1..NRows /\ atCancel' \subseteq reached'
      BY <1>1, <1>2, <2>1, <2>2 DEF TypeOK
    <2> QED
      BY <1>1, <1>3, <2>2, <2>3 DEF TypeOK, relation
  <1>7. CASE CallRefused \/ CallRaises \/ CountBatchRaises \/ BatchRaises \/ WrongSize
    BY <1>1, <1>2, <1>7, RaiseKeepsTypes DEF CallRefused, CallRaises, CountBatchRaises, BatchRaises, WrongSize
  <1>8. CASE CountAnswers
    <2>1. asked \in 1..NRows
      BY <1>1, <1>2, <1>8 DEF CountAnswers, AskedOK
    <2>2. /\ asked' = 0 /\ reached' = reached \cup {asked}
          /\ UNCHANGED <<relation, pc, handled, last, opened, answers, ready, pulled, out, reported, cancelled, atCancel>>
      BY <1>8 DEF CountAnswers, batch, token
    <2>3. asked' \in 0..NRows /\ reached' \subseteq 1..NRows /\ atCancel' \subseteq reached'
      BY <1>1, <1>2, <2>1, <2>2 DEF TypeOK
    <2> QED
      BY <1>1, <1>3, <2>2, <2>3 DEF TypeOK, relation
  <1>9. CASE CountsEnd
    <2>1. /\ pc' = "joining" /\ answers' = InOrder(InBatch)
          /\ UNCHANGED <<relation, handled, last, asked, opened, ready, pulled, out, reached, reported, cancelled, atCancel>>
      BY <1>9 DEF CountsEnd, token
    <2>2. answers' \in Seq(1..NRows) /\ ready' = {}
      BY <1>1, <1>9, <2>1, BatchRows DEF BatchOK, CountsEnd
    <2> QED
      BY <1>1, <1>3, <2>1, <2>2 DEF TypeOK, relation
  <1>10. CASE CountBatch
    <2>1. reached' = reached \cup InBatch
      BY <1>10 DEF CountBatch
    <2>2. PICK given \in Answered(InOrder(InBatch)) :
            \/ Raise
            \/ /\ pc' = "joining" /\ answers' = given
               /\ UNCHANGED <<relation, handled, last, asked, opened, ready, pulled, out, reported, token>>
      BY <1>10 DEF CountBatch
    <2>3. reached \subseteq reached' /\ reached' \subseteq 1..NRows /\ ready = {} /\ atCancel \subseteq reached'
      BY <1>1, <1>2, <1>10, <2>1 DEF BatchOK, CountBatch, TypeOK
    <2>4. CASE Raise
      BY <1>1, <2>3, <2>4, RaiseKeepsTypes
    <2>5. CASE ~Raise
      <3>1. /\ pc' = "joining" /\ answers' = given
            /\ UNCHANGED <<relation, handled, last, asked, opened, ready, pulled, out, reported, cancelled, atCancel>>
        BY <2>2, <2>5 DEF token
      <3>2. answers' \in Seq(1..NRows)
        BY <1>1, <3>1, AnswersAreRows
      <3> QED
        BY <1>1, <1>3, <2>3, <3>1, <3>2 DEF TypeOK, relation
    <2> QED
      BY <2>4, <2>5
  <1>11. CASE OpenBatch
    <2>1. /\ opened' = TRUE /\ answers' \in Answered(InOrder(InBatch)) /\ reached' = reached \cup InBatch
          /\ UNCHANGED <<relation, pc, handled, last, asked, ready, pulled, out, reported, cancelled, atCancel>>
      BY <1>11 DEF OpenBatch, token
    <2>2. answers' \in Seq(1..NRows) /\ ready' = {}
      BY <1>1, <1>11, <2>1, AnswersAreRows DEF BatchOK, OpenBatch
    <2>3. reached' \subseteq 1..NRows /\ atCancel' \subseteq reached'
      BY <1>1, <1>2, <2>1 DEF TypeOK
    <2> QED
      BY <1>1, <1>3, <2>1, <2>2, <2>3 DEF TypeOK, relation
  <1>12. CASE NativeAnswers
    <2>1. ready' \subseteq 1..Len(answers)
      BY <1>1, <1>12 DEF NativeAnswers, InFlight, TypeOK
    <2>2. UNCHANGED <<relation, pc, handled, last, asked, opened, answers, pulled, out, reached, reported, cancelled, atCancel>>
      BY <1>12 DEF NativeAnswers, token
    <2> QED
      BY <1>1, <1>3, <2>1, <2>2 DEF TypeOK, relation
  <1>13. CASE JoinUnprobed
    <2>1. pc = "joining" /\ Join(Next1, pulled) /\ reached' = reached
      BY <1>13 DEF JoinUnprobed
    <2>2. Next1 \in 1..NRows /\ pulled \in Nat
      BY <1>1, <2>1, NextRow DEF TypeOK
    <2> QED
      BY <1>1, <1>2, <2>1, <2>2, JoinKeepsTypes
  <1>14. CASE JoinCalled
    <2>1. pc = "joining" /\ Join(asked, pulled) /\ reached' = reached \cup {asked} /\ asked # 0
      BY <1>14 DEF JoinCalled, Pulls
    <2>2. asked \in 1..NRows /\ pulled \in Nat
      BY <1>1, <1>2, <2>1 DEF AskedOK, TypeOK
    <2> QED
      BY <1>1, <1>2, <2>1, <2>2, JoinKeepsTypes
  <1>15. CASE JoinCounted \/ JoinPulled
    <2>1. pc = "joining" /\ Join(answers[pulled + 1], pulled + 1) /\ reached' = reached
      BY <1>15 DEF JoinCounted, JoinPulled, Pulls
    <2>2. answers[pulled + 1] \in 1..NRows /\ pulled + 1 \in Nat
      BY <1>1, <1>15, PulledAnswer DEF TypeOK
    <2> QED
      BY <1>1, <1>2, <2>1, <2>2, JoinKeepsTypes
  <1>16. CASE Cancel
    BY <1>1, <1>3, <1>16 DEF Cancel, TypeOK, relation, batch
  <1> QED
    BY <1>4, <1>5, <1>6, <1>7, <1>8, <1>9, <1>10, <1>11, <1>12, <1>13, <1>14, <1>15, <1>16 DEF Next, Step

-----------------------------------------------------------------------------
(* The invariant, action by action.                                        *)

LEMMA InitHolds ==
  ASSUME Init
  PROVE  IInv
  <1>1. makes \in Seq({NoQuad} \cup Nat)
    <2>1. PICK n \in 0..MaxRows : makes \in [1..n -> {NoQuad} \cup 0..MaxMatches]
      BY DEF Init
    <2>2. n \in Nat /\ 0..MaxMatches \subseteq Nat
      BY <2>1, ProbesAssumption
    <2>3. makes \in [1..n -> {NoQuad} \cup Nat]
      BY <2>1, <2>2
    <2> QED
      BY <2>2, <2>3, SeqDef
  <1>2. use = "step" => cap \in Nat
    BY ProbesAssumption DEF Init
  <1>3. NRows \in Nat
    BY <1>1, LenProperties DEF NRows
  <1>4. TypeOK
    <2>1. 0 \in 0..NRows /\ 0 \in Nat
      BY <1>3
    <2>2. <<>> \in Seq(1..NRows) /\ <<>> \in Seq(Row)
      BY EmptySeq
    <2>3. /\ use \in {"step", "join", "optional"}
          /\ exists \in BOOLEAN /\ scans \in BOOLEAN /\ inMemory \in BOOLEAN /\ tokened \in BOOLEAN
          /\ opened = FALSE /\ cancelled = FALSE /\ pc = "batching"
          /\ handled = 0 /\ last = 0 /\ asked = 0 /\ pulled = 0 /\ reported = 0
          /\ answers = <<>> /\ out = <<>> /\ ready = {} /\ reached = {} /\ atCancel = {}
      BY DEF Init
    <2> QED
      BY <1>1, <1>2, <2>1, <2>2, <2>3 DEF TypeOK, Row
  <1>5. PlaceOK /\ AskedOK /\ BatchOK /\ CancelOK
    BY DEF Init, PlaceOK, AskedOK, BatchOK, CancelOK
  <1>6. OutOK
    BY <1>2, <1>4, JoinedRows, EmptySeq DEF Init, OutOK
  <1> QED
    BY <1>4, <1>5, <1>6 DEF IInv

LEMMA BeginBatchKeeps ==
  ASSUME IInv, TypeOK', BeginBatch
  PROVE  IInv'
  <1>1. /\ TypeOK /\ pc = "batching" /\ handled = last /\ handled < NRows
        /\ pc' = IF exists THEN "counting" ELSE "joining"
        /\ last' = MinOf(handled + ProbeBatch, NRows)
        /\ UNCHANGED relation
        /\ UNCHANGED <<handled, asked, opened, answers, ready, pulled, out, reached, cancelled, atCancel,
                       exists, use, cap>>
    BY DEF IInv, PlaceOK, BeginBatch, batch, token, relation
  <1>2. NRows' = NRows /\ Joined' = Joined
    BY <1>1, JoinedStays
  <1>3. NRows \in Nat /\ handled \in Nat /\ ProbeBatch \in Nat \ {0}
    BY <1>1, RowsExtended, BatchRows, Sizes
  <1>4. last' \in Nat /\ handled < last' /\ last' <= handled + ProbeBatch
    BY <1>1, <1>3 DEF MinOf
  <1>5. First' = handled + 1
    <2>1. PICK m \in Nat : m * ProbeBatch = handled
      <3>1. CASE last = 0
        BY <1>1, <1>3, <3>1
      <3>2. CASE last # 0
        <4>1. (last - 1) \div ProbeBatch \in Nat
          BY <1>1, <1>3, <3>2
        <4>2. PICK q \in Nat : q = (last - 1) \div ProbeBatch
          BY <4>1
        <4>3. First = q * ProbeBatch + 1
          BY <4>2, Zenon DEF First
        <4>4. q * ProbeBatch \in Nat /\ (q + 1) * ProbeBatch = q * ProbeBatch + ProbeBatch
          BY <1>3
        <4>5. last = MinOf(First - 1 + ProbeBatch, NRows)
          BY <3>2 DEF IInv, PlaceOK
        <4>6. last = q * ProbeBatch + ProbeBatch
          BY <1>1, <1>3, <4>3, <4>4, <4>5 DEF MinOf
        <4> QED
          BY <1>1, <4>2, <4>4, <4>6
      <3> QED
        BY <3>1, <3>2
    <2>2. (last' - 1) \div ProbeBatch = m
      BY <1>3, <1>4, <2>1, FirstOfBatch
    <2>3. First' = m * ProbeBatch + 1
      BY <2>2, Zenon DEF First
    <2> QED
      BY <2>1, <2>3
  <1>6. PlaceOK'
    <2>1. First' - 1 = handled
      BY <1>3, <1>5
    <2>2. (First - 1)' = handled
      BY <2>1
    <2>3. last' = MinOf(handled + ProbeBatch, NRows')
      BY <1>1, <1>2
    <2> QED
      BY <1>1, <1>3, <1>4, <2>1, <2>3 DEF PlaceOK, MinOf
  <1>7. ~opened /\ asked = 0 /\ ready = {} /\ pulled = 0
    BY <1>1 DEF IInv, BatchOK, AskedOK
  <1>8. AskedOK'
    BY <1>1, <1>7 DEF AskedOK
  <1>9. BatchOK'
    <2>1. Probes(First..handled)' = {}
      <3>1. First'..handled' = {}
        BY <1>1, <1>3, <1>5
      <3> QED
        BY <3>1 DEF Probes
    <2>2. Cardinality(Probes(First..handled))' = 0
      BY <2>1, FS_EmptySet
    <2> QED
      BY <1>1, <1>7, <2>2 DEF BatchOK
  <1>10. OutOK'
    BY <1>1, <1>2, <1>7 DEF IInv, OutOK
  <1>11. CancelOK'
    BY <1>1, <1>2 DEF IInv, CancelOK
  <1> QED
    BY <1>6, <1>8, <1>9, <1>10, <1>11 DEF IInv

LEMMA FinishKeeps ==
  ASSUME IInv, TypeOK', Finish
  PROVE  IInv'
  <1>1. /\ pc = "batching" /\ handled = NRows /\ pc' = "done" /\ UNCHANGED relation
        /\ UNCHANGED <<handled, last, asked, opened, answers, ready, pulled, out, reached, cancelled, atCancel,
                       exists, use, cap>>
    BY DEF Finish, batch, token, relation
  <1>2. NRows' = NRows /\ Joined' = Joined /\ First' = First
    BY <1>1, JoinedStays, BatchStays
  <1>3. ~opened /\ asked = 0 /\ ready = {} /\ pulled = 0
    BY <1>1 DEF IInv, BatchOK, AskedOK
  <1>4. PlaceOK' /\ AskedOK' /\ BatchOK' /\ OutOK' /\ CancelOK'
    BY <1>1, <1>2, <1>3 DEF IInv, PlaceOK, AskedOK, BatchOK, OutOK, CancelOK
  <1> QED
    BY <1>4 DEF IInv

(* However a join is given up, nothing of its batch is left.               *)
LEMMA RaiseKeeps ==
  ASSUME IInv, TypeOK', Raise, cancelled => reached' = reached
  PROVE  IInv'
  <1>1. /\ pc' = "raised" /\ asked' = 0 /\ UNCHANGED relation
        /\ UNCHANGED <<handled, last, out, cancelled, atCancel, exists, use, cap>>
    BY DEF Raise, token, relation
  <1>2. NRows' = NRows /\ First' = First
    BY <1>1, JoinedStays, BatchStays
  <1>3. ~opened' /\ ready' = {} /\ pulled' = 0
    BY EmptyBatch DEF Raise
  <1>4. PlaceOK' /\ AskedOK' /\ BatchOK' /\ OutOK' /\ CancelOK'
    BY <1>1, <1>2, <1>3 DEF IInv, PlaceOK, AskedOK, BatchOK, OutOK, CancelOK
  <1> QED
    BY <1>4 DEF IInv

(* A call is made for the row to join, or for one still to be counted, and *)
(* only before the cancel.                                                 *)
LEMMA CallKeeps ==
  ASSUME IInv, TypeOK', Call
  PROVE  IInv'
  <1>1. /\ TypeOK /\ PlaceOK /\ BatchOK /\ ~cancelled /\ ~Batched /\ asked' = NextCall
        /\ UNCHANGED relation
        /\ UNCHANGED <<pc, handled, last, opened, answers, ready, pulled, out, cancelled, atCancel,
                       exists, use, cap>>
    BY DEF IInv, Call, CallsNext, Checked, batch, token, relation
  <1>2. /\ NRows' = NRows /\ Joined' = Joined /\ First' = First /\ InBatch' = InBatch /\ Batched' = Batched
        /\ Next1' = Next1
        /\ InOrder(InBatch)' = InOrder(InBatch) /\ Answered(InOrder(InBatch))' = Answered(InOrder(InBatch))
        /\ Probes(First..handled)' = Probes(First..handled)
    BY <1>1, JoinedStays, BatchStays
  <1>3. CASE pc = "joining"
    <2>1. Next1 \in InBatch /\ ~exists /\ NextCall = Next1
      BY <1>3 DEF Call, CallsNext, Pulls, NextCall
    <2> QED
      BY <1>1, <1>2, <1>3, <2>1 DEF IInv, PlaceOK, AskedOK, BatchOK, OutOK, CancelOK
  <1>4. CASE pc # "joining"
    <2>1. pc = "counting" /\ Uncounted # {}
      BY <1>4 DEF Call, CallsNext, Pulls
    <2>2. Uncounted \subseteq InBatch /\ Uncounted \subseteq Nat
      BY <1>1, BatchRows DEF Uncounted
    <2>3. \E i \in Uncounted : \A j \in Uncounted : i <= j
      BY <2>1, <2>2, Least
    <2>4. NextCall \in InBatch
      BY <1>4, <2>2, <2>3 DEF NextCall
    <2> QED
      BY <1>1, <1>2, <2>1, <2>4 DEF IInv, PlaceOK, AskedOK, BatchOK, OutOK, CancelOK
  <1> QED
    BY <1>3, <1>4

LEMMA CountAnswersKeeps ==
  ASSUME IInv, TypeOK', CountAnswers
  PROVE  IInv'
  <1>1. /\ TypeOK /\ asked # 0 /\ asked' = 0 /\ reached' = reached \cup {asked} /\ UNCHANGED relation
        /\ UNCHANGED <<pc, handled, last, opened, answers, ready, pulled, out, cancelled, atCancel,
                       exists, use, cap>>
    BY DEF IInv, CountAnswers, batch, token, relation
  <1>2. /\ NRows' = NRows /\ Joined' = Joined /\ First' = First /\ InBatch' = InBatch /\ Batched' = Batched
        /\ InOrder(InBatch)' = InOrder(InBatch) /\ Answered(InOrder(InBatch))' = Answered(InOrder(InBatch))
        /\ Probes(First..handled)' = Probes(First..handled)
    BY <1>1, JoinedStays, BatchStays
  <1>3. PlaceOK' /\ AskedOK' /\ BatchOK' /\ OutOK'
    BY <1>1, <1>2 DEF IInv, PlaceOK, AskedOK, BatchOK, OutOK
  <1>4. CancelOK'
    <2>1. asked \in 0..NRows /\ (cancelled => reached = atCancel)
      BY <1>1 DEF IInv, TypeOK, CancelOK
    <2>2. cancelled => reached' \ atCancel \subseteq {asked}
      BY <1>1, <2>1
    <2> QED
      BY <1>1, <1>2, <2>1, <2>2 DEF CancelOK
  <1> QED
    BY <1>3, <1>4 DEF IInv

(* Counted one after another or at once, the counts are the rows' own.     *)
LEMMA CountedKeeps ==
  ASSUME IInv, TypeOK', pc = "counting", pc' = "joining", asked = 0, answers' = InOrder(InBatch),
         UNCHANGED <<relation, handled, last, asked, opened, ready, pulled, out, token>>,
         cancelled => reached' = reached
  PROVE  IInv'
  <1>1. /\ TypeOK /\ UNCHANGED relation
        /\ UNCHANGED <<handled, last, asked, opened, ready, pulled, out, cancelled, atCancel, exists, use, cap>>
    BY DEF IInv, token, relation
  <1>2. /\ NRows' = NRows /\ Joined' = Joined /\ First' = First /\ InBatch' = InBatch /\ Batched' = Batched
        /\ InOrder(InBatch)' = InOrder(InBatch)
        /\ Probes(First..handled)' = Probes(First..handled)
    BY <1>1, JoinedStays, BatchStays
  <1>3. exists /\ handled = First - 1 /\ handled < last /\ ~opened /\ ready = {} /\ pulled = 0
    BY DEF IInv, PlaceOK, BatchOK
  <1>4. handled \in Nat /\ last \in Nat
    BY <1>1, BatchRows
  <1>5. First \in Nat \ {0}
    BY <1>1, <1>3, <1>4, BatchRows
  <1>6. Cardinality(Probes(First..handled)) = 0
    <2>1. First..handled = {}
      BY <1>3, <1>4, <1>5
    <2> QED
      BY <2>1, FS_EmptySet DEF Probes
  <1>7. PlaceOK'
    BY <1>1, <1>2, <1>3, <1>4, <1>5 DEF IInv, PlaceOK
  <1>8. AskedOK' /\ CancelOK'
    BY <1>1, <1>2 DEF IInv, AskedOK, CancelOK
  <1>9. BatchOK'
    BY <1>1, <1>2, <1>3, <1>6 DEF BatchOK
  <1>10. OutOK'
    BY <1>1, <1>2, <1>3 DEF IInv, OutOK
  <1> QED
    BY <1>7, <1>8, <1>9, <1>10 DEF IInv

LEMMA CountsKeep ==
  ASSUME IInv, TypeOK', CountsEnd \/ CountBatch
  PROVE  IInv'
  <1>1. CASE CountsEnd
    <2>1. /\ pc = "counting" /\ pc' = "joining" /\ asked = 0 /\ answers' = InOrder(InBatch)
          /\ UNCHANGED <<relation, handled, last, asked, opened, ready, pulled, out, token>>
          /\ reached' = reached
      BY <1>1 DEF CountsEnd
    <2> QED
      BY <2>1, CountedKeeps
  <1>2. CASE CountBatch
    <2>1. pc = "counting" /\ ~cancelled /\ Batched
      BY <1>2 DEF CountBatch
    <2>2. CASE Raise
      BY <2>1, <2>2, RaiseKeeps
    <2>3. CASE ~Raise
      <3>1. PICK given \in Answered(InOrder(InBatch)) :
              /\ Len(given) = Cardinality(InBatch)
              /\ pc' = "joining" /\ answers' = given
              /\ UNCHANGED <<relation, handled, last, asked, opened, ready, pulled, out, reported, token>>
        BY <1>2, <2>3 DEF CountBatch
      <3>2. answers' = InOrder(InBatch)
        BY <3>1, AnswersAreRows DEF IInv
      <3>3. asked = 0
        BY <2>1 DEF IInv, AskedOK
      <3> QED
        BY <2>1, <3>1, <3>2, <3>3, CountedKeeps
    <2> QED
      BY <2>2, <2>3
  <1> QED
    BY <1>1, <1>2

(* A batch is opened before any of its answers was pulled.                 *)
LEMMA OpenBatchKeeps ==
  ASSUME IInv, TypeOK', OpenBatch
  PROVE  IInv'
  <1>1. /\ TypeOK /\ PlaceOK /\ BatchOK /\ pc = "joining" /\ Next1 \in InBatch /\ Batched /\ ~exists /\ ~opened /\ ~cancelled
        /\ opened' = TRUE /\ answers' \in Answered(InOrder(InBatch)) /\ UNCHANGED relation
        /\ UNCHANGED <<pc, handled, last, asked, ready, pulled, out, cancelled, atCancel, exists, use, cap>>
    BY DEF IInv, OpenBatch, Pulls, token, relation
  <1>2. /\ NRows' = NRows /\ Joined' = Joined /\ First' = First /\ InBatch' = InBatch /\ Batched' = Batched
        /\ InOrder(InBatch)' = InOrder(InBatch) /\ Answered(InOrder(InBatch))' = Answered(InOrder(InBatch))
        /\ Probes(First..handled)' = Probes(First..handled)
    BY <1>1, JoinedStays, BatchStays
  <1>3. asked = 0
    BY <1>1 DEF IInv, AskedOK
  <1>4. pulled # Cardinality(InBatch)
    <2>1. pulled + 1 \in 1..Cardinality(InBatch) /\ pulled \in Nat
      BY <1>1, NextRow DEF TypeOK
    <2> QED
      BY <1>1, <2>1, BatchRows
  <1>5. PlaceOK' /\ AskedOK' /\ CancelOK'
    BY <1>1, <1>2, <1>3 DEF IInv, PlaceOK, AskedOK, CancelOK
  <1>6. BatchOK'
    BY <1>1, <1>2, <1>4 DEF BatchOK
  <1>7. OutOK'
    BY <1>1, <1>2 DEF IInv, OutOK
  <1> QED
    BY <1>5, <1>6, <1>7 DEF IInv

(* The rows joined stay those of the join, if the answers were the batch's *)
(* own; at the batch's end they were.                                      *)
LEMMA JoinKeeps ==
  ASSUME IInv, TypeOK', pc = "joining",
         NEW a \in 1..NRows, NEW p \in Nat, Join(a, p),
         (opened => answers = InOrder(InBatch)) => a = Next1,
         Batched \/ exists => p = Cardinality(Probes(First..Next1)),
         opened /\ p = Cardinality(InBatch) => Len(answers) = Cardinality(InBatch),
         reached' = reached \/ (asked # 0 /\ reached' = reached \cup {asked})
  PROVE  IInv'
  <1> DEFINE rows == out \o Extended(Next1, a)
  <1>1. /\ TypeOK /\ PlaceOK /\ BatchOK
        /\ handled' = Next1 /\ asked' = 0 /\ UNCHANGED relation
        /\ UNCHANGED <<last, cancelled, atCancel, exists, use, cap>>
    BY DEF IInv, Join, token, relation
  <1>2. /\ NRows' = NRows /\ Joined' = Joined /\ First' = First /\ InBatch' = InBatch /\ Batched' = Batched
        /\ InOrder(InBatch)' = InOrder(InBatch) /\ Answered(InOrder(InBatch))' = Answered(InOrder(InBatch))
    BY <1>1, JoinedStays, BatchStays
  <1>3. Probes(First..handled)' = Probes(First..Next1)
    BY <1>1, <1>2 DEF Probes, relation
  <1>4. /\ Next1 \in 1..NRows /\ Next1 \in First..last /\ NRows \in Nat /\ Next1 = handled + 1
        /\ handled \in Nat /\ last \in Nat /\ First \in Nat /\ First - 1 <= handled /\ handled < last
    <2>1. /\ Next1 \in 1..NRows /\ Next1 \in First..last /\ NRows \in Nat /\ Next1 = handled + 1
          /\ handled \in Nat /\ last \in Nat /\ First - 1 <= handled /\ handled < last
      BY <1>1, NextRow, BatchRows DEF PlaceOK
    <2>2. last # 0
      BY <2>1
    <2> QED
      BY <1>1, <2>1, <2>2, BatchRows
  <1>5. rows \in Seq(Row)
    <2>1. Extended(Next1, a) \in Seq(Row) /\ out \in Seq(Row)
      BY <1>1, <1>4, RowsExtended DEF TypeOK, Row
    <2> QED
      BY <2>1, ConcatProperties
  <1> HIDE DEF rows
  <1>6. \/ Over(rows) /\ pc' = "over" /\ out' = <<>> /\ Release
        \/ ~Over(rows) /\ Next1 = last /\ pc' = "batching" /\ out' = rows /\ Release
        \/ ~Over(rows) /\ Next1 # last /\ pc' = "joining" /\ out' = rows /\ pulled' = p
           /\ UNCHANGED <<opened, answers, ready>>
    BY DEF Join, rows
  <1>7. Release => ~opened' /\ ready' = {} /\ pulled' = 0
    BY EmptyBatch
  <1>8. PlaceOK'
    BY <1>1, <1>2, <1>4, <1>6 DEF PlaceOK
  <1>9. AskedOK'
    BY <1>1 DEF AskedOK
  <1>10. BatchOK'
    <2>1. CASE pc' # "joining" /\ Release
      BY <1>7, <2>1 DEF BatchOK
    <2>2. CASE pc' = "joining" /\ pulled' = p /\ UNCHANGED <<opened, answers, ready>>
      BY <1>1, <1>2, <1>3, <2>2 DEF BatchOK
    <2> QED
      BY <1>6, <2>1, <2>2
  <1>11. OutOK'
    <2>1. CASE Over(rows)
      <3>1. pc' = "over" /\ out' = <<>> /\ Len(<<>>) = 0
        BY <1>6, <2>1, EmptySeq
      <3>2. use = "step" => cap \in Nat
        BY <1>1 DEF TypeOK
      <3> QED
        BY <1>1, <3>1, <3>2 DEF OutOK
    <2>2. CASE ~Over(rows)
      <3>1. out' = rows /\ pc' # "over"
        BY <1>6, <2>2
      <3>2. use = "step" => Len(rows) <= cap
        <4>1. Len(rows) \in Nat /\ (use = "step" => cap \in Nat)
          BY <1>1, <1>5, LenProperties DEF TypeOK
        <4> QED
          BY <2>2, <4>1 DEF Over
      <3>3. ASSUME opened' => answers' = InOrder(InBatch)
            PROVE  opened => answers = InOrder(InBatch)
        <4>1. CASE Next1 = last
          <5>1. SUFFICES ASSUME opened PROVE answers = InOrder(InBatch)
            OBVIOUS
          <5>2. Batched /\ answers \in Answered(InOrder(InBatch))
            BY <1>1, <5>1 DEF BatchOK
          <5>3. p = Cardinality(InBatch)
            BY <1>1, <4>1, <5>2, NextRow
          <5>4. Len(answers) = Cardinality(InBatch)
            BY <5>1, <5>3
          <5> QED
            BY <1>1, <5>2, <5>4, AnswersAreRows
        <4>2. CASE Next1 # last
          BY <1>6, <2>2, <3>3, <4>2
        <4> QED
          BY <4>1, <4>2
      <3>4. ASSUME opened => answers = InOrder(InBatch)
            PROVE  rows = Joined[Next1]
        <4>1. a = Next1
          BY <3>4
        <4>2. out = Joined[handled]
          BY <3>4 DEF IInv, OutOK
        <4>3. Joined[Next1] = Joined[Next1 - 1] \o Extended(Next1, Next1)
          BY <1>1, <1>4, JoinedRows
        <4>4. Next1 - 1 = handled
          BY <1>4
        <4> QED
          BY <4>1, <4>2, <4>3, <4>4 DEF rows
      <3> QED
        BY <1>1, <1>2, <3>1, <3>2, <3>3, <3>4 DEF OutOK
    <2> QED
      BY <2>1, <2>2
  <1>12. CancelOK'
    <2>1. CASE reached' = reached
      BY <1>1, <1>2, <2>1 DEF IInv, CancelOK
    <2>2. CASE asked # 0 /\ reached' = reached \cup {asked}
      <3>1. asked \in 0..NRows /\ (cancelled => reached = atCancel)
        BY <1>1, <2>2 DEF IInv, TypeOK, CancelOK
      <3>2. cancelled => reached' \ atCancel \subseteq {asked}
        BY <2>2, <3>1
      <3> QED
        BY <1>1, <1>2, <3>1, <3>2 DEF CancelOK
    <2> QED
      BY <2>1, <2>2
  <1> QED
    BY <1>8, <1>9, <1>10, <1>11, <1>12 DEF IInv

LEMMA JoinsKeep ==
  ASSUME IInv, TypeOK', JoinUnprobed \/ JoinCalled \/ JoinCounted \/ JoinPulled
  PROVE  IInv'
  <1>1. TypeOK /\ PlaceOK /\ AskedOK /\ BatchOK
    BY DEF IInv
  <1>2. CASE JoinUnprobed
    <2>1. pc = "joining" /\ Join(Next1, pulled) /\ reached' = reached /\ Next1 \notin InBatch
      BY <1>2 DEF JoinUnprobed, Pulls
    <2>2. Next1 \in 1..NRows /\ pulled \in Nat
      BY <1>1, <2>1, NextRow DEF TypeOK
    <2>3. /\ Batched \/ exists => pulled = Cardinality(Probes(First..Next1))
          /\ opened /\ pulled = Cardinality(InBatch) => Len(answers) = Cardinality(InBatch)
      BY <1>1, <2>1, NextRow DEF BatchOK
    <2> QED
      BY <2>1, <2>2, <2>3, JoinKeeps
  <1>3. CASE JoinCalled
    <2>1. /\ pc = "joining" /\ Join(asked, pulled) /\ asked # 0
          /\ reached' = reached \/ (asked # 0 /\ reached' = reached \cup {asked})
      BY <1>3 DEF JoinCalled, Pulls
    <2>2. asked = Next1 /\ ~Batched /\ ~exists
      BY <1>1, <2>1 DEF AskedOK
    <2>3. asked \in 1..NRows /\ pulled \in Nat /\ ~opened
      BY <1>1, <2>1, <2>2, NextRow DEF TypeOK, BatchOK
    <2> QED
      BY <2>1, <2>2, <2>3, JoinKeeps
  <1>4. CASE JoinCounted
    <2>1. pc = "joining" /\ Join(answers[pulled + 1], pulled + 1) /\ reached' = reached /\ Next1 \in InBatch /\ exists
      BY <1>4 DEF JoinCounted, Pulls
    <2>2. answers[pulled + 1] \in 1..NRows /\ answers[pulled + 1] = Next1 /\ pulled + 1 \in Nat /\ ~opened
      BY <1>1, <1>4, <2>1, PulledAnswer, SMTT(20) DEF TypeOK, BatchOK
    <2>3. pulled + 1 = Cardinality(Probes(First..Next1))
      BY <1>1, <2>1, NextRow
    <2> QED
      BY <2>1, <2>2, <2>3, JoinKeeps
  <1>5. CASE JoinPulled
    <2>1. /\ pc = "joining" /\ Join(answers[pulled + 1], pulled + 1) /\ reached' = reached /\ Next1 \in InBatch
          /\ opened /\ ~Short /\ ~Long /\ pulled + 1 \in ready
      BY <1>5 DEF JoinPulled, Pulls
    <2>2. answers[pulled + 1] \in 1..NRows /\ pulled + 1 \in Nat /\ Batched
      BY <1>1, <1>5, <2>1, PulledAnswer, SMTT(20) DEF TypeOK, BatchOK
    <2>3. pulled + 1 = Cardinality(Probes(First..Next1)) /\ InOrder(InBatch)[pulled + 1] = Next1
      BY <1>1, <2>1, <2>2, NextRow
    <2>4. pulled + 1 = Cardinality(InBatch) => Len(answers) = Cardinality(InBatch)
      <3>1. Len(answers) \in Nat /\ pulled + 1 \in 1..Len(answers) /\ Cardinality(InBatch) \in Nat
        BY <1>1, <2>1, LenProperties, BatchRows DEF TypeOK
      <3>2. pulled + 1 = Cardinality(InBatch) => ~(Len(answers) > Cardinality(InBatch))
        BY <2>1 DEF Long
      <3> QED
        BY <3>1, <3>2
    <2>5. (opened => answers = InOrder(InBatch)) => answers[pulled + 1] = Next1
      BY <2>1, <2>3
    <2> QED
      BY <2>1, <2>2, <2>3, <2>4, <2>5, JoinKeeps
  <1> QED
    BY <1>2, <1>3, <1>4, <1>5

LEMMA RaisesKeep ==
  ASSUME IInv, TypeOK', CallRefused \/ CallRaises \/ CountBatchRaises \/ BatchRaises \/ WrongSize
  PROVE  IInv'
  BY RaiseKeeps DEF CallRefused, CallRaises, CountBatchRaises, BatchRaises, WrongSize

LEMMA NativeAnswersKeeps ==
  ASSUME IInv, TypeOK', NativeAnswers
  PROVE  IInv'
  <1>1. /\ TypeOK /\ UNCHANGED relation
        /\ UNCHANGED <<pc, handled, last, asked, opened, answers, pulled, out, reached, cancelled, atCancel,
                       exists, use, cap>>
    BY DEF IInv, NativeAnswers, token, relation
  <1>2. /\ NRows' = NRows /\ Joined' = Joined /\ First' = First /\ InBatch' = InBatch /\ Batched' = Batched
        /\ Next1' = Next1
        /\ InOrder(InBatch)' = InOrder(InBatch) /\ Answered(InOrder(InBatch))' = Answered(InOrder(InBatch))
        /\ Probes(First..handled)' = Probes(First..handled)
    BY <1>1, JoinedStays, BatchStays
  <1>3. opened
    BY DEF NativeAnswers, InFlight
  <1> QED
    BY <1>1, <1>2, <1>3 DEF IInv, PlaceOK, AskedOK, BatchOK, OutOK, CancelOK

LEMMA CancelKeeps ==
  ASSUME IInv, TypeOK', Cancel
  PROVE  IInv'
  <1>1. /\ TypeOK /\ UNCHANGED relation /\ cancelled' = TRUE /\ atCancel' = reached
        /\ UNCHANGED <<pc, handled, last, asked, opened, answers, ready, pulled, out, reached,
                       exists, use, cap>>
    BY DEF IInv, Cancel, batch, relation
  <1>2. /\ NRows' = NRows /\ Joined' = Joined /\ First' = First /\ InBatch' = InBatch /\ Batched' = Batched
        /\ Next1' = Next1
        /\ InOrder(InBatch)' = InOrder(InBatch) /\ Answered(InOrder(InBatch))' = Answered(InOrder(InBatch))
        /\ Probes(First..handled)' = Probes(First..handled)
    BY <1>1, JoinedStays, BatchStays
  <1>3. CancelOK'
    <2>1. 0 \in 0..NRows /\ reached' \ atCancel' \subseteq {0}
      BY <1>1, RowsExtended
    <2> QED
      BY <1>1, <1>2, <2>1 DEF CancelOK
  <1> QED
    BY <1>1, <1>2, <1>3 DEF IInv, PlaceOK, AskedOK, BatchOK, OutOK

LEMMA StutterKeeps ==
  ASSUME IInv, UNCHANGED vars
  PROVE  IInv'
  <1>1. /\ UNCHANGED relation
        /\ UNCHANGED <<pc, handled, last, asked, opened, answers, ready, pulled, out, reached, reported, cancelled,
                       atCancel, makes, use, cap, exists, scans, inMemory, tokened>>
    BY DEF vars, relation, batch, token
  <1>2. /\ NRows' = NRows /\ Joined' = Joined /\ First' = First /\ InBatch' = InBatch /\ Batched' = Batched
        /\ Next1' = Next1
        /\ InOrder(InBatch)' = InOrder(InBatch) /\ Answered(InOrder(InBatch))' = Answered(InOrder(InBatch))
        /\ Probes(First..handled)' = Probes(First..handled)
    BY <1>1, JoinedStays, BatchStays
  <1> QED
    BY <1>1, <1>2 DEF IInv, TypeOK, PlaceOK, AskedOK, BatchOK, OutOK, CancelOK

LEMMA Invariance == Spec => []IInv
  <1>1. Init => IInv
    BY InitHolds
  <1>2. IInv /\ [Next]_vars => IInv'
    BY StepKeepsTypes, StutterKeeps, BeginBatchKeeps, FinishKeeps, CallKeeps, RaisesKeep, CountAnswersKeeps, CountsKeep,
       OpenBatchKeeps, JoinsKeep, NativeAnswersKeeps, CancelKeeps DEF Next, Step
  <1> QED
    BY <1>1, <1>2, PTL DEF Spec

-----------------------------------------------------------------------------
(* The theorems.                                                           *)

(* Rows, answers and counts stay within the relation and the batch.        *)
THEOREM TypesHold == Spec => []TypeOK
  <1>1. IInv => TypeOK
    BY DEF IInv
  <1> QED
    BY <1>1, Invariance, PTL

(* A join that returns has every row, in order, joined with the matches of *)
(* its own probe, whatever answers a native batch left out or gave twice   *)
(* (_batch_answers and _probe_matches of probes.py).                       *)
THEOREM ReturnedJoinIsTheJoin == Spec => []DoneIsJoin
  <1>1. ASSUME IInv, pc = "done"
        PROVE  out = Joined[NRows]
    <2>1. handled = NRows /\ ~opened
      BY <1>1 DEF IInv, PlaceOK, BatchOK
    <2> QED
      BY <1>1, <2>1 DEF IInv, OutOK
  <1>2. IInv => DoneIsJoin
    BY <1>1 DEF DoneIsJoin
  <1> QED
    BY <1>2, Invariance, PTL

(* A step goes on to another row only with max_rows joined rows or fewer,  *)
(* and lets them go when it gives up (_probe_join, _OverBudget).           *)
THEOREM StepsStayWithinTheCap == Spec => []HeldWithinCap
  <1>1. IInv => HeldWithinCap
    BY DEF IInv, OutOK, HeldWithinCap
  <1> QED
    BY <1>1, Invariance, PTL

(* A batch's answers are closed before the join goes on, returns, raises   *)
(* or gives up: the native layer runs no probe for it any more.            *)
THEOREM BatchesAreClosed == Spec => []NothingInFlight
  <1>1. ASSUME IInv, pc \in Ended \cup {"batching"}
        PROVE  InFlight = {}
    <2>1. ~opened
      BY <1>1 DEF IInv, BatchOK, Ended
    <2> QED
      BY <2>1 DEF InFlight
  <1>2. IInv => NothingInFlight
    BY <1>1 DEF NothingInFlight
  <1> QED
    BY <1>2, Invariance, PTL

(* A cancel may miss the one call that had checked the token already, and  *)
(* no other (cancel_scope and cancel_kw_for of cancel.py).                 *)
THEOREM CancelMissesOneProbe == Spec => []OneSentAfterCancel
  <1>1. ASSUME IInv, cancelled
        PROVE  Cardinality(reached \ atCancel) <= 1
    <2>1. PICK i : reached \ atCancel \subseteq {i}
      BY <1>1 DEF IInv, CancelOK
    <2>2. IsFiniteSet({i}) /\ Cardinality({i}) = 1
      BY FS_Singleton
    <2> QED
      BY <2>1, <2>2, FS_Subset, FS_CardinalityType
  <1>2. IInv => OneSentAfterCancel
    BY <1>1 DEF OneSentAfterCancel
  <1> QED
    BY <1>2, Invariance, PTL
=============================================================================
