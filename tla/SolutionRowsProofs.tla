------------------------- MODULE SolutionRowsProofs -------------------------
(***************************************************************************)
(* Proofs about SolutionRows, for every body, every number of solutions    *)
(* rdflib makes of a row, every window and every chunk size: the solutions *)
(* delivered are those of the window, each once and in order; a cancelled  *)
(* query delivers what it had decoded at most; and no more is decoded than *)
(* the consumer's reading justifies.                                       *)
(*                                                                         *)
(* The argument: SolutionsUpTo[i] numbers the solutions of the first i     *)
(* rows, so each row of the chunk stands for a range of numbers; what was  *)
(* delivered, what the chunk holds and what was read adjoin (WindowOfRows  *)
(* without tier 3, WindowOfSolutions with it).  Where each generator       *)
(* stopped says which of the chunk's rows are still to come (PlaceOK).     *)
(***************************************************************************)
EXTENDS SolutionRows, WellFoundedInduction, SequenceTheorems, TLAPS

(* The rows' counts, as Init made them.                                    *)
RelationOK ==
  /\ \A i \in 1..NRows : extends[i] <= MaxExtends
  /\ ~rest => \A i \in 1..NRows : extends[i] = 1

(* Where the generators are says how much of the chunk is handed on.       *)
PlaceOK ==
  /\ pc = "created" => out = <<>> /\ chunk = <<>>
  /\ pc \in {"created", "checking"} => pos = Len(chunk)
  /\ pc = "filling" => pos = 0 /\ Len(chunk) <= size
  /\ pc \in {"yielding", "yielded"} => chunk # <<>>
  /\ pc = "finishing" => rest /\ pos > 0
  /\ pc = "extending" => rest
  /\ rest /\ pc \in {"extending", "yielded"} => pos > 0 \/ RestWindowEnds

SizesOK ==
  /\ size <= ChunkMax
  /\ Len(chunk) <= ChunkMax
  /\ decoded + (IF pc = "filling" THEN Len(chunk) ELSE 0) <= passed
  /\ made <= MaxExtends

(* Without tier 3 the rows that passed are those before the window, those  *)
(* delivered and those of the chunk to come.                               *)
WindowOfRows ==
  /\ passed = SolutionsUpTo[read]
  /\ passed <= window[1] => chunk = <<>> /\ out = <<>>
  /\ passed > window[1] => passed = window[1] + Len(out) + Len(chunk) - pos
  /\ window[2] # NoStop => passed <= window[2]
  /\ \A k \in 1..Len(chunk) :
       keeps[chunk[k]] /\ SolutionsUpTo[chunk[k] - 1] + 1 + pos = window[1] + Len(out) + k

(* With it the chunk's rows follow each other, and rdflib has made the     *)
(* solutions of those handed on.                                           *)
ChunkFollows ==
  /\ \A k \in 1..Len(chunk) : keeps[chunk[k]]
  /\ \A k \in 1..Len(chunk) - 1 : SolutionsUpTo[chunk[k + 1] - 1] = SolutionsUpTo[chunk[k]]
  /\ chunk # <<>> => SolutionsUpTo[read] = SolutionsUpTo[chunk[Len(chunk)]]

ReachedOK ==
  /\ pc \in {"created", "checking"} => reached = SolutionsUpTo[read]
  /\ pc \in {"filling", "yielding"} =>
       reached = IF chunk = <<>> THEN SolutionsUpTo[read]
                 ELSE IF pos = 0 THEN SolutionsUpTo[chunk[1] - 1]
                 ELSE SolutionsUpTo[chunk[pos]]
  /\ pc = "finishing" => reached = SolutionsUpTo[chunk[pos] - 1]
  /\ pc \in {"extending", "yielded"} /\ pos > 0 =>
       reached = SolutionsUpTo[chunk[pos] - 1] + made /\ made <= extends[chunk[pos]]

WindowOfSolutions ==
  /\ ChunkFollows
  /\ ReachedOK
  /\ Len(out) = IF reached <= window[1] THEN 0 ELSE reached - window[1]
  /\ window[2] # NoStop => reached <= window[2]

OutOK ==
  \A n \in 1..Len(out) :
    /\ keeps[out[n][1]]
    /\ out[n][2] \in 1..extends[out[n][1]]
    /\ SolutionsUpTo[out[n][1] - 1] + out[n][2] = window[1] + n

CompleteOK ==
  pc = "complete" =>
    \/ window[1] + Len(out) = window[2]
    \/ window[1] + Len(out) >= SolutionsUpTo[NRows]

(* What may still be delivered once the token is cancelled.                *)
CancelOK ==
  cancelled =>
    IF rest THEN /\ Len(out) <= seenAtCancel + MaxExtends
                 /\ pc \in {"extending", "yielded"} => Len(out) <= seenAtCancel + made
    ELSE IF pc = "filling" THEN Len(out) <= seenAtCancel
    ELSE Len(out) + Len(chunk) - pos <= seenAtCancel + ChunkMax

(* The next chunk is no larger than four times what is decoded, or is the  *)
(* first, or no row is left for it.                                        *)
GrowthOK ==
  /\ Len(out) <= decoded /\ decoded <= Len(out) + Len(chunk) - pos
  /\ pc = "filling" => decoded = Len(out)
  /\ pc \notin {"filling", "raised"} => decoded = Len(out) + Len(chunk) - pos
  /\ \/ size <= 4 * decoded
     \/ decoded = 0 /\ size = ChunkStart
     \/ (WindowEnds \/ read = NRows) /\ (pc = "filling" => chunk = <<>>)
  /\ decoded - Len(out) <= 4 * Len(out) \/ decoded <= ChunkStart

IInv ==
  /\ TypeOK
  /\ RelationOK
  /\ PlaceOK
  /\ SizesOK
  /\ ~rest => WindowOfRows /\ GrowthOK
  /\ rest => WindowOfSolutions
  /\ OutOK
  /\ CompleteOK
  /\ CancelOK

-----------------------------------------------------------------------------
(* The numbers of the rows' solutions.                                     *)

(* A set with 0 and the successor of each of its naturals holds them all.  *)
LEMMA SetInduction ==
  ASSUME NEW S, 0 \in S, \A n \in Nat : n \in S => n + 1 \in S
  PROVE  Nat \subseteq S
  <1> DEFINE R == OpToRel(<, Nat)
             T == Nat \ S
  <1> SUFFICES ASSUME T # {} PROVE FALSE
    OBVIOUS
  <1>1. PICK x \in T : \A y \in T : ~(<<y, x>> \in R)
    <2>1. IsWellFoundedOn(R, Nat)
      BY NatLessThanWellFounded
    <2>2. T \subseteq Nat
      OBVIOUS
    <2> HIDE DEF R, T
    <2> QED
      BY <2>1, <2>2, WFMin
  <1>2. x \in Nat /\ x # 0 /\ x - 1 \in Nat /\ x - 1 + 1 = x
    OBVIOUS
  <1>3. x - 1 \in S
    <2>1. x - 1 \in T => <<x - 1, x>> \in R
      BY <1>2 DEF OpToRel
    <2> QED
      BY <1>1, <1>2, <2>1
  <1> QED
    BY <1>2, <1>3

(* The sums of a row of numbers, the first n for each n.                   *)
LEMMA SumsExist ==
  ASSUME NEW N \in Nat, NEW a \in [1..N -> Nat]
  PROVE  \E g \in [0..N -> Nat] :
           \A i \in 0..N : g[i] = IF i = 0 THEN 0 ELSE g[i - 1] + a[i]
  <1> DEFINE Sums(g, n) == \A i \in 0..n : g[i] = IF i = 0 THEN 0 ELSE g[i - 1] + a[i]
             Exist(n) == \E g \in [0..n -> Nat] : Sums(g, n)
             S == {n \in Nat : n <= N => Exist(n)}
  <1>1. Exist(0)
    <2>1. [i \in 0..0 |-> 0] \in [0..0 -> Nat] /\ Sums([i \in 0..0 |-> 0], 0)
      OBVIOUS
    <2> QED
      BY <2>1
  <1>2. ASSUME NEW n \in Nat, n + 1 <= N, Exist(n)
        PROVE  Exist(n + 1)
    <2>1. PICK g \in [0..n -> Nat] : Sums(g, n)
      BY <1>2
    <2>2. g[n] + a[n + 1] \in Nat
      BY <1>2
    <2> DEFINE h == [i \in 0..n + 1 |-> IF i = n + 1 THEN g[n] + a[n + 1] ELSE g[i]]
    <2>3. h \in [0..n + 1 -> Nat]
      BY <2>2
    <2>4. Sums(h, n + 1)
      <3>1. ASSUME NEW i \in 0..n
            PROVE  h[i] = IF i = 0 THEN 0 ELSE h[i - 1] + a[i]
        <4>1. h[i] = g[i] /\ (i # 0 => h[i - 1] = g[i - 1])
          OBVIOUS
        <4> QED
          BY <2>1, <4>1
      <3>2. h[n + 1] = h[n + 1 - 1] + a[n + 1]
        OBVIOUS
      <3> HIDE DEF h
      <3> QED
        BY <3>1, <3>2, SMTT(20)
    <2> QED
      BY <2>3, <2>4
  <1> HIDE DEF Exist
  <1>3. 0 \in S /\ \A n \in Nat : n \in S => n + 1 \in S
    BY <1>1, <1>2
  <1>4. N \in S
    BY <1>3, SetInduction
  <1>5. Exist(N)
    BY <1>4
  <1> QED
    BY <1>5, Zenon DEF Exist

LEMMA SumsOfRows ==
  ASSUME TypeOK
  PROVE  /\ NRows \in Nat
         /\ SolutionsUpTo \in [0..NRows -> Nat]
         /\ SolutionsUpTo[0] = 0
         /\ \A i \in 1..NRows :
              SolutionsUpTo[i] = SolutionsUpTo[i - 1] + IF keeps[i] THEN extends[i] ELSE 0
  <1> DEFINE a == [i \in 1..NRows |-> IF keeps[i] THEN extends[i] ELSE 0]
             P(f) == f = [i \in 0..NRows |-> IF i = 0 THEN 0
                                             ELSE f[i - 1] + IF keeps[i] THEN extends[i] ELSE 0]
             U == SolutionsUpTo
  <1>1. NRows \in Nat /\ a \in [1..NRows -> Nat]
    BY LenProperties DEF TypeOK, NRows
  <1>2. \A i \in 1..NRows : a[i] = IF keeps[i] THEN extends[i] ELSE 0
    OBVIOUS
  <1> HIDE DEF a
  <1>3. PICK g \in [0..NRows -> Nat] : \A i \in 0..NRows : g[i] = IF i = 0 THEN 0 ELSE g[i - 1] + a[i]
    BY <1>1, SumsExist
  <1>4. P(g)
    BY <1>2, <1>3
  <1>5. P(CHOOSE f : P(f))
    BY <1>4, Zenon
  <1>6. U = CHOOSE f : P(f)
    BY DEF SolutionsUpTo
  <1>7. P(U)
    BY <1>5, <1>6, Zenon
  <1> HIDE DEF U
  <1>8. U[0] = 0 /\ DOMAIN U = 0..NRows
    BY <1>1, <1>7
  <1>9. \A i \in 1..NRows : U[i] = U[i - 1] + IF keeps[i] THEN extends[i] ELSE 0
    BY <1>1, <1>7
  <1>10. \A i \in 0..NRows : U[i] \in Nat
    <2> DEFINE S == {n \in Nat : n <= NRows => U[n] \in Nat}
    <2>1. 0 \in S
      BY <1>8
    <2>2. ASSUME NEW n \in Nat, n \in S
          PROVE  n + 1 \in S
      <3> SUFFICES ASSUME n + 1 <= NRows PROVE U[n + 1] \in Nat
        OBVIOUS
      <3>1. U[n] \in Nat /\ n + 1 \in 1..NRows
        BY <1>1, <2>2
      <3>2. U[n + 1] = U[n] + a[n + 1]
        <4>1. n + 1 - 1 = n
          OBVIOUS
        <4> QED
          BY <1>2, <1>9, <3>1, <4>1
      <3> QED
        BY <1>1, <3>1, <3>2
    <2>3. Nat \subseteq S
      BY <2>1, <2>2, SetInduction
    <2> QED
      BY <1>1, <2>3
  <1> QED
    BY <1>1, <1>7, <1>8, <1>9, <1>10 DEF U

LEMMA SumsStay ==
  ASSUME UNCHANGED relation
  PROVE  NRows' = NRows /\ SolutionsUpTo' = SolutionsUpTo
  BY DEF relation, SolutionsUpTo, NRows

LEMMA Lengths ==
  ASSUME TypeOK
  PROVE  /\ NRows \in Nat /\ read \in Nat
         /\ Len(chunk) \in Nat /\ (chunk = <<>> <=> Len(chunk) = 0)
         /\ \A k \in 1..Len(chunk) : chunk[k] \in 1..read /\ chunk[k] \in 1..NRows
         /\ Len(out) \in Nat /\ (out = <<>> <=> Len(out) = 0)
         /\ \A n \in 1..Len(out) : out[n][1] \in 1..read /\ out[n][2] \in Nat
  <1>1. NRows \in Nat /\ read \in 0..NRows
    BY LenProperties DEF TypeOK, NRows
  <1>2. chunk \in Seq(1..read) /\ out \in Seq((1..read) \X (Nat \ {0}))
    BY DEF TypeOK
  <1>3. Len(chunk) \in Nat /\ (chunk = <<>> <=> Len(chunk) = 0)
        /\ Len(out) \in Nat /\ (out = <<>> <=> Len(out) = 0)
    BY <1>2, LenProperties, EmptySeq
  <1>4. \A k \in 1..Len(chunk) : chunk[k] \in 1..read
    BY <1>2, ElementOfSeq
  <1>5. \A n \in 1..Len(out) : out[n] \in (1..read) \X (Nat \ {0})
    BY <1>2, ElementOfSeq
  <1> QED
    BY <1>1, <1>3, <1>4, <1>5

(* A solution delivered.                                                   *)
LEMMA OutGrows ==
  ASSUME TypeOK, NEW row \in 1..read, NEW n \in Nat \ {0}, out' = Append(out, <<row, n>>)
  PROVE  /\ out' \in Seq((1..read) \X (Nat \ {0}))
         /\ Len(out') = Len(out) + 1
         /\ \A i \in 1..Len(out) : out'[i] = out[i]
         /\ out'[Len(out) + 1] = <<row, n>>
  <1>1. out \in Seq((1..read) \X (Nat \ {0})) /\ <<row, n>> \in (1..read) \X (Nat \ {0})
    BY DEF TypeOK
  <1> QED
    BY <1>1, AppendProperties

(* The next row read, and kept in the chunk or not.                        *)
LEMMA ChunkGrows ==
  ASSUME TypeOK, PullRow
  PROVE  /\ read < NRows /\ read + 1 \in 1..NRows /\ read' = read + 1
         /\ \/ keeps[read + 1] /\ passed' = passed + 1
            \/ ~keeps[read + 1] /\ passed' = passed /\ chunk' = chunk
         /\ \/ /\ keeps[read + 1] /\ InWindow
               /\ Len(chunk') = Len(chunk) + 1
               /\ \A k \in 1..Len(chunk) : chunk'[k] = chunk[k]
               /\ chunk'[Len(chunk) + 1] = read + 1
               /\ chunk' # <<>>
            \/ ~(keeps[read + 1] /\ InWindow) /\ chunk' = chunk
         /\ chunk' \in Seq(1..read + 1)
  <1>1. read < NRows /\ read + 1 \in 1..NRows /\ read' = read + 1
    BY Lengths DEF PullRow
  <1>2. chunk \in Seq(1..read + 1) /\ read + 1 \in 1..read + 1
    <2>1. 1..read \subseteq 1..read + 1 /\ chunk \in Seq(1..read)
      BY Lengths DEF TypeOK
    <2> QED
      BY <1>1, <2>1, Lengths, SeqMonotonic
  <1>3. \/ keeps[read + 1] /\ passed' = passed + 1
        \/ ~keeps[read + 1] /\ passed' = passed /\ chunk' = chunk
    BY DEF PullRow
  <1>4. CASE keeps[read + 1] /\ InWindow
    <2>1. chunk' = Append(chunk, read + 1)
      BY <1>4 DEF PullRow
    <2> QED
      BY <1>1, <1>2, <1>3, <1>4, <2>1, AppendProperties
  <1>5. CASE ~(keeps[read + 1] /\ InWindow)
    <2>1. chunk' = chunk
      BY <1>5 DEF PullRow
    <2> QED
      BY <1>1, <1>2, <1>3, <1>5, <2>1
  <1> QED
    BY <1>4, <1>5

-----------------------------------------------------------------------------
(* The types.                                                              *)

LEMMA StepKeepsTypes ==
  ASSUME IInv, [Next]_vars
  PROVE  TypeOK'
  <1> USE DEF relation, slicing, chunking, finishing, token
  <1>0. TypeOK /\ (UNCHANGED relation => NRows' = NRows)
    BY SumsStay DEF IInv
  <1>1. CASE UNCHANGED vars
    BY <1>0, <1>1 DEF TypeOK, vars
  <1>2. CASE CheckChunk
    <2>1. chunk' \in Seq(1..read) /\ Len(chunk') = 0
      BY <1>2, EmptySeq DEF CheckChunk
    <2> QED
      BY <1>0, <1>2, <2>1 DEF TypeOK, CheckChunk, Running, Ended
  <1>3. CASE SliceRaises \/ EvalRaises \/ RestWindowCloses
    BY <1>0, <1>3 DEF TypeOK, SliceRaises, EvalRaises, RestWindowCloses, Running, Ended
  <1>4. CASE PullRow
    <2>1. /\ read < NRows /\ read' = read + 1 /\ chunk' \in Seq(1..read + 1)
          /\ passed' \in {passed, passed + 1}
          /\ Len(chunk') \in {Len(chunk), Len(chunk) + 1}
      BY <1>0, <1>4, ChunkGrows
    <2>2. out \in Seq((1..read + 1) \X (Nat \ {0}))
      <3>1. (1..read) \X (Nat \ {0}) \subseteq (1..read + 1) \X (Nat \ {0})
        BY <1>0, Lengths
      <3> QED
        BY <1>0, <3>1, SeqMonotonic DEF TypeOK
    <2>3. sliceEnd' \in read + 1..NRows /\ sliceSize' \in Nat \ {0}
      <3>1. CASE ~AtSliceEnd
        BY <1>0, <1>4, <2>1, <3>1, Lengths DEF TypeOK, PullRow, NextSlice, AtSliceEnd
      <3>2. CASE AtSliceEnd /\ body = "rows"
        BY <1>0, <1>4, <2>1, <3>2, Lengths DEF TypeOK, PullRow, NextSlice
      <3>3. CASE AtSliceEnd /\ body # "rows"
        <4>1. PICK n \in {sliceSize, ChunkStart} :
                /\ sliceEnd' \in read + 1..SliceStop(n)
                /\ sliceSize' = MinOf(n * 4, ChunkMax)
          BY <1>4, <3>3 DEF PullRow, NextSlice
        <4>2. n \in Nat \ {0} /\ SliceStop(n) \in Nat /\ SliceStop(n) <= NRows
          BY <1>0, WindowsAssumption, Lengths DEF TypeOK, SliceStop, MinOf
        <4> QED
          BY <4>1, <4>2, WindowsAssumption, <1>0, Lengths DEF MinOf
      <3> QED
        BY <3>1, <3>2, <3>3
    <2>4. pos \in 0..Len(chunk') /\ passed' \in 0..read + 1 /\ decoded \in 0..read + 1
      BY <1>0, <2>1, Lengths DEF TypeOK
    <2>5. UNCHANGED <<relation, pc, pos, size, decoded, finishing, out, token>>
      BY <1>4 DEF PullRow
    <2> QED
      BY <1>0, <2>1, <2>2, <2>3, <2>4, <2>5, Lengths DEF TypeOK
  <1>5. CASE Decode
    <2>1. decoded' \in 0..read
      BY <1>0, <1>5, Lengths DEF IInv, TypeOK, SizesOK, Decode
    <2>2. size' \in Nat \ {0}
      BY <1>0, <1>5, WindowsAssumption DEF TypeOK, Decode, MinOf
    <2> QED
      BY <1>0, <1>5, <2>1, <2>2 DEF TypeOK, Decode, AfterDecode, Running, Ended
  <1>6. CASE ChunkEnds
    BY <1>0, <1>6 DEF TypeOK, ChunkEnds, Running, Ended
  <1>7. CASE YieldRow
    <2>1. pos' = pos + 1 /\ pos' \in 0..Len(chunk) /\ pos + 1 \in 1..Len(chunk)
      BY <1>0, <1>7, Lengths DEF TypeOK, YieldRow
    <2>2. CASE rest
      BY <1>0, <1>7, <2>1, <2>2 DEF TypeOK, YieldRow, Running, Ended
    <2>3. CASE ~rest
      <3>1. out' = Append(out, <<chunk[pos + 1], 1>>) /\ chunk[pos + 1] \in 1..read
        BY <1>0, <1>7, <2>1, <2>3, Lengths DEF YieldRow
      <3>2. out' \in Seq((1..read) \X (Nat \ {0})) /\ Len(out') = Len(out) + 1
        BY <1>0, <3>1, OutGrows
      <3>3. seenAtCancel \in 0..Len(out')
        BY <1>0, <3>2, Lengths DEF TypeOK
      <3>4. /\ pc' = "yielded"
            /\ UNCHANGED <<relation, slicing, chunk, size, decoded, finishing, token>>
        BY <1>7, <2>3 DEF YieldRow
      <3> QED
        BY <1>0, <2>1, <3>2, <3>3, <3>4 DEF TypeOK
    <2> QED
      BY <2>2, <2>3
  <1>8. CASE FinishRow
    BY <1>0, <1>8 DEF TypeOK, FinishRow, Running, Ended
  <1>9. CASE Extend
    <2>1. made' = made + 1 /\ reached' = reached + 1 /\ made' \in Nat \ {0} /\ reached' \in Nat
      BY <1>0, <1>9 DEF TypeOK, Extend
    <2>2. CASE RestInWindow
      <3>1. pos \in 1..Len(chunk)
        BY <1>0, <1>9, Lengths DEF IInv, TypeOK, PlaceOK, Extend
      <3>2. out' = Append(out, <<chunk[pos], made + 1>>) /\ chunk[pos] \in 1..read
        BY <1>0, <1>9, <2>2, <3>1, Lengths DEF Extend
      <3>3. out' \in Seq((1..read) \X (Nat \ {0})) /\ Len(out') = Len(out) + 1
        BY <1>0, <2>1, <3>2, OutGrows
      <3> QED
        BY <1>0, <1>9, <2>1, <2>2, <3>3, Lengths DEF TypeOK, Extend, Running, Ended
    <2>3. CASE ~RestInWindow
      BY <1>0, <1>9, <2>1, <2>3 DEF TypeOK, Extend
    <2> QED
      BY <2>2, <2>3
  <1>10. CASE ExtendEnds \/ Resume \/ Close
    BY <1>0, <1>10 DEF TypeOK, ExtendEnds, Resume, Close, Running, Ended
  <1>11. CASE Cancel
    BY <1>0, <1>11, Lengths DEF TypeOK, Cancel
  <1> QED
    BY <1>1, <1>2, <1>3, <1>4, <1>5, <1>6, <1>7, <1>8, <1>9, <1>10, <1>11 DEF Next, Step

-----------------------------------------------------------------------------
(* The invariant.                                                          *)

LEMMA SameBound ==
  ASSUME NEW m \in Nat, NEW n \in Nat, 1..m = 1..n
  PROVE  m = n
  <1>1. ASSUME NEW a \in Nat, NEW b \in Nat, 1..a = 1..b, a # 0
        PROVE  a <= b
    <2>1. a \in 1..a
      BY <1>1
    <2>2. a \in 1..b
      BY <1>1, <2>1, Zenon
    <2> QED
      BY <2>2
  <1>2. m # 0 => m <= n
    BY <1>1
  <1>3. n # 0 => n <= m
    BY <1>1
  <1> QED
    BY <1>2, <1>3

LEMMA InitHolds ==
  ASSUME Init
  PROVE  IInv
  <1>1. PICK n \in 0..MaxRows : keeps \in [1..n -> BOOLEAN]
    BY DEF Init
  <1>2. n \in Nat /\ keeps \in Seq(BOOLEAN) /\ Len(keeps) = n
    <2>1. n \in Nat
      BY WindowsAssumption
    <2>2. keeps \in Seq(BOOLEAN)
      BY <1>1, <2>1, SeqDef
    <2>3. Len(keeps) \in Nat /\ DOMAIN keeps = 1..Len(keeps) /\ DOMAIN keeps = 1..n
      BY <1>1, <2>2, LenProperties
    <2>4. 1..Len(keeps) = 1..n
      BY <2>3
    <2> QED
      BY <2>1, <2>2, <2>3, <2>4, SameBound
  <1>3. extends \in [1..NRows -> 0..MaxExtends] /\ MaxExtends \in Nat /\ NRows = n
    BY <1>2, WindowsAssumption DEF Init, NRows
  <1>4. chunk \in Seq(1..read) /\ Len(chunk) = 0 /\ out \in Seq((1..read) \X (Nat \ {0})) /\ Len(out) = 0
    BY EmptySeq DEF Init
  <1>5. TypeOK
    <2>1. extends \in [1..NRows -> Nat]
      BY <1>3
    <2>2. /\ read \in 0..NRows /\ sliceEnd \in read..NRows /\ passed \in 0..read
          /\ pos \in 0..Len(chunk) /\ decoded \in 0..read /\ made \in Nat /\ reached \in Nat
          /\ seenAtCancel \in 0..Len(out)
      BY <1>2, <1>3, <1>4 DEF Init
    <2> QED
      BY <1>2, <1>4, <2>1, <2>2, WindowsAssumption DEF Init, TypeOK
  <1>6. window[1] \in Nat /\ (window[2] # NoStop => window[2] \in Nat)
    BY WindowsAssumption DEF Init
  <1>7. SolutionsUpTo[read] = 0 /\ read = 0
    BY <1>5, SumsOfRows DEF Init
  <1>8. RelationOK
    BY <1>3 DEF Init, RelationOK
  <1>9. PlaceOK /\ SizesOK /\ OutOK /\ CompleteOK /\ CancelOK /\ GrowthOK
    BY <1>3, <1>4, WindowsAssumption
       DEF Init, PlaceOK, SizesOK, OutOK, CompleteOK, CancelOK, GrowthOK
  <1>10. WindowOfRows
    BY <1>4, <1>6, <1>7 DEF Init, WindowOfRows
  <1>11. WindowOfSolutions
    BY <1>4, <1>6, <1>7 DEF Init, WindowOfSolutions, ChunkFollows, ReachedOK
  <1> QED
    BY <1>5, <1>8, <1>9, <1>10, <1>11 DEF IInv

(* What the steps' arithmetic is about.                                    *)
LEMMA Numbers ==
  ASSUME TypeOK
  PROVE  /\ window[1] \in Nat
         /\ window[2] # NoStop => window[2] \in Nat /\ window[1] <= window[2]
         /\ pos \in Nat /\ pos <= Len(chunk)
         /\ passed \in Nat /\ decoded \in Nat /\ made \in Nat /\ reached \in Nat
         /\ size \in Nat /\ size # 0
         /\ seenAtCancel \in Nat /\ seenAtCancel <= Len(out)
         /\ ChunkStart \in Nat /\ ChunkMax \in Nat /\ MaxExtends \in Nat /\ ChunkStart <= ChunkMax
  <1>1. window \in Windows
    BY DEF TypeOK
  <1> QED
    BY <1>1, WindowsAssumption, Lengths DEF TypeOK

LEMMA CheckChunkKeeps ==
  ASSUME IInv, TypeOK', CheckChunk
  PROVE  IInv'
  <1> USE DEF relation, slicing, chunking, finishing, token
  <1>1. TypeOK /\ UNCHANGED relation /\ Len(chunk') = 0 /\ chunk' = <<>>
    BY EmptySeq DEF IInv, CheckChunk
  <1>2. NRows' = NRows /\ SolutionsUpTo' = SolutionsUpTo
    BY <1>1, SumsStay
  <1>3. RelationOK' /\ PlaceOK' /\ SizesOK' /\ CompleteOK'
    BY <1>1, <1>2, Numbers, Lengths DEF IInv, CheckChunk, RelationOK, PlaceOK, SizesOK, CompleteOK
  <1>4. rest' => WindowOfSolutions'
    BY <1>1, <1>2, Numbers, Lengths
       DEF IInv, CheckChunk, PlaceOK, WindowOfSolutions, ChunkFollows, ReachedOK
  <1>5. ~rest' => WindowOfRows'
    BY <1>1, <1>2, Numbers, Lengths DEF IInv, CheckChunk, PlaceOK, WindowOfRows
  <1>6. ~rest' => GrowthOK'
    BY <1>1, <1>2, Numbers, Lengths DEF IInv, CheckChunk, PlaceOK, GrowthOK, WindowEnds, Stop
  <1>7. OutOK'
    BY <1>1, <1>2 DEF IInv, CheckChunk, OutOK
  <1>8. CancelOK'
    BY <1>1, Numbers, Lengths DEF IInv, CheckChunk, PlaceOK, CancelOK, Checked
  <1> QED
    BY <1>3, <1>4, <1>5, <1>6, <1>7, <1>8 DEF IInv

(* The steps that only move on: an end, an error, or back to the consumer  *)
(* and on from there.                                                      *)
MovesOn ==
  SliceRaises \/ ChunkEnds \/ EvalRaises \/ ExtendEnds \/ RestWindowCloses \/ Resume \/ Close

LEMMA MovesOnKeeps ==
  ASSUME IInv, TypeOK', MovesOn
  PROVE  IInv'
  <1>1. TypeOK /\ UNCHANGED <<relation, slicing, chunking, finishing, out, token>>
    BY DEF IInv, MovesOn, SliceRaises, ChunkEnds, EvalRaises, ExtendEnds, RestWindowCloses, Resume, Close
  <1>2. NRows' = NRows /\ SolutionsUpTo' = SolutionsUpTo
    BY <1>1, SumsStay
  <1> USE DEF relation, slicing, chunking, finishing, token
  <1>3. RelationOK' /\ OutOK'
    BY <1>1, <1>2 DEF IInv, RelationOK, OutOK
  <1>4. pc' # "filling" /\ pc' # "finishing"
    BY DEF MovesOn, SliceRaises, ChunkEnds, EvalRaises, ExtendEnds, RestWindowCloses, Resume, Close
  <1>5. PlaceOK'
    BY <1>1, <1>4, Numbers, Lengths
       DEF IInv, PlaceOK, RestWindowEnds, MovesOn, SliceRaises, ChunkEnds, EvalRaises, ExtendEnds,
           RestWindowCloses, Resume, Close
  <1>6. SizesOK'
    BY <1>1, <1>4, Numbers, Lengths DEF IInv, SizesOK
  <1>7. CompleteOK'
    BY <1>1, <1>2, Numbers, Lengths, SMTT(20)
       DEF IInv, PlaceOK, CompleteOK, WindowOfSolutions, RestWindowEnds,
           MovesOn, SliceRaises, ChunkEnds, EvalRaises, ExtendEnds, RestWindowCloses, Resume, Close
  <1>8. ~rest' => WindowOfRows'
    BY <1>1, <1>2, Numbers, Lengths DEF IInv, WindowOfRows
  <1>9. ~rest' => GrowthOK'
    <2> SUFFICES ASSUME ~rest PROVE GrowthOK'
      BY <1>1
    <2>1. (WindowEnds \/ read = NRows)' <=> (WindowEnds \/ read = NRows)
      BY <1>1, <1>2 DEF WindowEnds, Stop
    <2>2. GrowthOK /\ (pc = "filling" => pos = 0)
      BY DEF IInv, PlaceOK
    <2>3. pc = "filling" => pc' = "raised"
      BY DEF MovesOn, SliceRaises, ChunkEnds, EvalRaises, ExtendEnds, RestWindowCloses, Resume, Close
    <2>4. pc = "raised" => pc' = "raised"
      BY DEF MovesOn, SliceRaises, ChunkEnds, EvalRaises, ExtendEnds, RestWindowCloses, Resume, Close
    <2> QED
      BY <1>1, <1>4, <2>1, <2>2, <2>3, <2>4 DEF GrowthOK
  <1>10. rest => ReachedOK'
    <2> SUFFICES ASSUME rest PROVE ReachedOK'
      OBVIOUS
    <2>1. CASE SliceRaises \/ EvalRaises \/ RestWindowCloses \/ Close
      BY <2>1 DEF ReachedOK, SliceRaises, EvalRaises, RestWindowCloses, Close
    <2>2. CASE ChunkEnds
      BY <1>1, <1>2, <2>2, Lengths
         DEF IInv, PlaceOK, WindowOfSolutions, ChunkFollows, ReachedOK, ChunkEnds
    <2>3. CASE ExtendEnds
      <3>1. pos \in 1..Len(chunk) /\ made = extends[chunk[pos]] /\ pc = "extending" /\ pc' = "yielding"
        BY <1>1, <2>3, Numbers, Lengths DEF IInv, PlaceOK, ExtendEnds
      <3>2. SolutionsUpTo[chunk[pos]] = SolutionsUpTo[chunk[pos] - 1] + extends[chunk[pos]]
        <4>1. keeps[chunk[pos]]
          BY <1>1, <3>1, Zenon DEF IInv, WindowOfSolutions, ChunkFollows
        <4>2. chunk[pos] \in 1..NRows
          BY <1>1, <3>1, Lengths
        <4> QED
          BY <1>1, <4>1, <4>2, SumsOfRows
      <3>3. reached = SolutionsUpTo[chunk[pos]] /\ chunk # <<>> /\ pos # 0
        BY <1>1, <3>1, <3>2, Lengths DEF IInv, WindowOfSolutions, ReachedOK
      <3> QED
        BY <1>1, <1>2, <3>1, <3>3 DEF ReachedOK
    <2>4. CASE Resume
      BY <1>1, <1>2, <2>4, Numbers, Lengths
         DEF IInv, PlaceOK, WindowOfSolutions, ChunkFollows, ReachedOK, Resume
    <2> QED
      BY <2>1, <2>2, <2>3, <2>4 DEF MovesOn
  <1>11. rest' => WindowOfSolutions'
    BY <1>1, <1>2, <1>10 DEF IInv, WindowOfSolutions, ChunkFollows
  <1>12. CancelOK'
    BY <1>1, Numbers, Lengths, SMTT(20)
       DEF IInv, PlaceOK, SizesOK, CancelOK, MovesOn, SliceRaises, ChunkEnds, EvalRaises, ExtendEnds,
           RestWindowCloses, Resume, Close
  <1> QED
    BY <1>3, <1>5, <1>6, <1>7, <1>8, <1>9, <1>11, <1>12 DEF IInv

LEMMA PullRowKeeps ==
  ASSUME IInv, TypeOK', PullRow
  PROVE  IInv'
  <1> DEFINE row == read + 1
             added == keeps[row] /\ InWindow
  <1>1. /\ TypeOK /\ pc = "filling" /\ pc' = "filling"
        /\ ~WindowEnds /\ ~ChunkFull
        /\ UNCHANGED <<relation, pos, size, decoded, finishing, out, token>>
        /\ UNCHANGED <<rest, window, keeps, extends, made, reached, cancelled, seenAtCancel>>
    BY DEF IInv, PullRow, relation, finishing, token
  <1>0. /\ window[1] \in Nat /\ (window[2] # NoStop => window[2] \in Nat)
        /\ passed \in Nat /\ decoded \in Nat /\ made \in Nat /\ size \in Nat
        /\ ChunkMax \in Nat /\ MaxExtends \in Nat /\ seenAtCancel \in Nat
        /\ Len(chunk) \in Nat /\ (chunk = <<>> <=> Len(chunk) = 0)
        /\ Len(out) \in Nat /\ (out = <<>> <=> Len(out) = 0)
    BY <1>1, Numbers, Lengths
  <1>2. NRows' = NRows /\ SolutionsUpTo' = SolutionsUpTo
    BY <1>1, SumsStay
  <1>3. /\ row \in 1..NRows /\ read' = row /\ row - 1 = read /\ read < NRows
        /\ keeps[row] => passed' = passed + 1
        /\ ~keeps[row] => passed' = passed
        /\ added => /\ Len(chunk') = Len(chunk) + 1 /\ chunk' # <<>>
                    /\ \A k \in 1..Len(chunk) : chunk'[k] = chunk[k]
                    /\ chunk'[Len(chunk) + 1] = row
        /\ ~added => chunk' = chunk
    BY <1>1, ChunkGrows, Lengths
  <1>4. SolutionsUpTo[row] = SolutionsUpTo[read] + IF keeps[row] THEN extends[row] ELSE 0
    BY <1>1, <1>3, SumsOfRows
  <1>5. SolutionsUpTo[read] \in Nat /\ extends[row] \in Nat
    BY <1>1, <1>3, Lengths, SumsOfRows DEF TypeOK
  <1>6. pos = 0 /\ Len(chunk) < size /\ size <= ChunkMax
    BY <1>1, Numbers, Lengths DEF IInv, PlaceOK, SizesOK, ChunkFull
  <1> HIDE DEF row
  <1>7. RelationOK' /\ OutOK' /\ CompleteOK'
    BY <1>1, <1>2 DEF IInv, RelationOK, OutOK, CompleteOK
  <1>8. PlaceOK' /\ SizesOK' /\ CancelOK'
    <2>1. Len(chunk') \in {Len(chunk), Len(chunk) + 1} /\ passed' >= passed
          /\ (Len(chunk') = Len(chunk) + 1 => passed' = passed + 1)
      BY <1>0, <1>3
    <2>2. PlaceOK'
      BY <1>0, <1>1, <1>6, <2>1 DEF PlaceOK
    <2>3. SizesOK'
      BY <1>0, <1>1, <1>3, <1>6, <2>1 DEF IInv, SizesOK
    <2>4. CancelOK'
      BY <1>1 DEF IInv, CancelOK
    <2> QED
      BY <2>2, <2>3, <2>4
  <1>9. ASSUME ~rest
        PROVE  WindowOfRows'
    <2>1. /\ WindowOfRows /\ (InWindow <=> passed + 1 > window[1])
          /\ window[2] # NoStop => passed < window[2]
      <3>1. WindowOfRows
        BY <1>9 DEF IInv
      <3>2. InWindow <=> passed + 1 > window[1]
        BY <1>9 DEF InWindow, Start
      <3>3. window[2] # NoStop => passed < window[2]
        BY <1>0, <1>1, <1>9 DEF WindowEnds, Stop
      <3> QED
        BY <3>1, <3>2, <3>3
    <2>2. extends[row] = 1
      BY <1>3, <1>9 DEF IInv, RelationOK
    <2>3. passed' = SolutionsUpTo[row] /\ (window[2] # NoStop => passed' <= window[2])
      BY <1>1, <1>3, <1>4, <1>5, <2>1, <2>2, Numbers, SMTT(20) DEF WindowOfRows
    <2>4. CASE added
      <3>1. passed + 1 > window[1] /\ passed' = passed + 1 /\ passed = SolutionsUpTo[read]
        BY <1>3, <2>1, <2>4 DEF WindowOfRows
      <3>2. passed = window[1] + Len(out) + Len(chunk) - pos
        <4>1. CASE passed > window[1]
          BY <2>1, <4>1 DEF WindowOfRows
        <4>2. CASE passed <= window[1]
          BY <1>1, <1>6, <2>1, <3>1, <4>2, Numbers, Lengths DEF WindowOfRows
        <4> QED
          BY <1>1, <4>1, <4>2, Numbers
      <3>3. ASSUME NEW k \in 1..Len(chunk')
            PROVE  keeps[chunk'[k]] /\ SolutionsUpTo[chunk'[k] - 1] + 1 + pos = window[1] + Len(out) + k
        <4>1. CASE k = Len(chunk) + 1
          <5>1. chunk'[k] = row /\ keeps[row] /\ SolutionsUpTo[row - 1] = passed
            BY <1>3, <2>4, <3>1, <4>1
          <5> QED
            BY <1>0, <1>6, <3>2, <4>1, <5>1
        <4>2. CASE k # Len(chunk) + 1
          <5>1. k \in 1..Len(chunk) /\ chunk'[k] = chunk[k]
            BY <1>1, <1>3, <2>4, <3>3, <4>2, Lengths
          <5> QED
            BY <2>1, <5>1 DEF WindowOfRows
        <4> QED
          BY <4>1, <4>2
      <3>4. passed' = window[1] + Len(out) + Len(chunk') - pos /\ passed' > window[1]
        <4>1. Len(chunk') = Len(chunk) + 1
          BY <1>3, <2>4
        <4> QED
          BY <1>0, <1>6, <3>1, <3>2, <4>1
      <3> QED
        BY <1>1, <1>2, <1>3, <2>3, <3>3, <3>4, Numbers, SMTT(20) DEF WindowOfRows
    <2>5. CASE ~added
      <3>1. chunk' = chunk /\ (passed' = passed \/ (passed' = passed + 1 /\ passed + 1 <= window[1]))
        BY <1>1, <1>3, <2>1, <2>5, Numbers
      <3> QED
        <4>1. passed' > window[1] => passed' = passed
          BY <1>0, <3>1
        <4>2. passed' <= window[1] => passed <= window[1]
          BY <1>0, <3>1
        <4>3. passed' > window[1] => passed' = window[1] + Len(out) + Len(chunk) - pos
          BY <2>1, <4>1 DEF WindowOfRows
        <4>4. passed' <= window[1] => chunk = <<>> /\ out = <<>>
          BY <2>1, <4>2 DEF WindowOfRows
        <4> QED
          BY <1>1, <1>2, <1>3, <2>1, <2>3, <3>1, <4>3, <4>4 DEF WindowOfRows
    <2> QED
      BY <2>4, <2>5
  <1>10. ASSUME ~rest
         PROVE  GrowthOK'
    <2>1. decoded = Len(out) /\ (size <= 4 * decoded \/ (decoded = 0 /\ size = ChunkStart))
      BY <1>1, <1>3, <1>10, Lengths DEF IInv, GrowthOK
    <2>2. Len(chunk') >= 0 /\ pos = 0 /\ Len(chunk') \in Nat
      BY <1>1, <1>3, <1>6, Lengths
    <2> QED
      BY <1>1, <1>10, <2>1, <2>2, Numbers, Lengths DEF IInv, GrowthOK
  <1>11. ASSUME rest
         PROVE  WindowOfSolutions'
    <2>1. WindowOfSolutions /\ (added <=> keeps[row])
      BY <1>1, <1>11, Numbers DEF IInv, InWindow, Start
    <2>2. CASE added
      <3>1. \A k \in 1..Len(chunk') : keeps[chunk'[k]]
        BY <1>1, <1>3, <2>1, <2>2, Lengths, SMTT(20) DEF WindowOfSolutions, ChunkFollows
      <3>2. ASSUME NEW k \in 1..Len(chunk') - 1
            PROVE  SolutionsUpTo[chunk'[k + 1] - 1] = SolutionsUpTo[chunk'[k]]
        <4>1. CASE k = Len(chunk)
          <5>1. chunk # <<>> /\ chunk'[k] = chunk[Len(chunk)] /\ chunk'[k + 1] = row
            BY <1>1, <1>3, <2>2, <3>2, <4>1, Lengths
          <5> QED
            BY <1>3, <2>1, <5>1 DEF WindowOfSolutions, ChunkFollows
        <4>2. CASE k # Len(chunk)
          <5>1. k \in 1..Len(chunk) - 1 /\ chunk'[k] = chunk[k] /\ chunk'[k + 1] = chunk[k + 1]
            BY <1>1, <1>3, <2>2, <3>2, <4>2, Lengths
          <5> QED
            BY <2>1, <5>1 DEF WindowOfSolutions, ChunkFollows
        <4> QED
          BY <4>1, <4>2
      <3>3. chunk'[Len(chunk')] = row
        BY <1>1, <1>3, <2>2, Lengths
      <3>4. reached = SolutionsUpTo[chunk'[1] - 1]
        <4>1. CASE chunk = <<>>
          <5>1. chunk'[1] = row
            BY <1>1, <1>3, <2>2, <4>1, Lengths
          <5> QED
            BY <1>1, <1>3, <2>1, <4>1, <5>1 DEF WindowOfSolutions, ReachedOK
        <4>2. CASE chunk # <<>>
          <5>1. chunk'[1] = chunk[1]
            BY <1>1, <1>3, <2>2, <4>2, Lengths
          <5> QED
            BY <1>1, <1>6, <2>1, <4>2, <5>1 DEF WindowOfSolutions, ReachedOK
        <4> QED
          BY <4>1, <4>2
      <3>5. ChunkFollows'
        BY <1>1, <1>2, <1>3, <3>1, <3>2, <3>3 DEF ChunkFollows
      <3>6. ReachedOK'
        BY <1>1, <1>2, <1>3, <1>6, <2>2, <3>4 DEF ReachedOK
      <3> QED
        BY <1>1, <2>1, <3>5, <3>6 DEF WindowOfSolutions
    <2>3. CASE ~added
      <3>1. chunk' = chunk /\ SolutionsUpTo[row] = SolutionsUpTo[read]
        BY <1>3, <1>4, <1>5, <2>1, <2>3
      <3> QED
        BY <1>1, <1>2, <1>3, <2>1, <3>1 DEF WindowOfSolutions, ChunkFollows, ReachedOK
    <2> QED
      BY <2>2, <2>3
  <1> QED
    BY <1>1, <1>7, <1>8, <1>9, <1>10, <1>11 DEF IInv

LEMMA DecodeKeeps ==
  ASSUME IInv, TypeOK', Decode
  PROVE  IInv'
  <1>1. /\ TypeOK /\ pc = "filling" /\ decoded' = decoded + Len(chunk)
        /\ WindowEnds \/ ChunkFull \/ read = NRows
        /\ size' = MinOf(size * 4, ChunkMax)
        /\ pc' = IF chunk = <<>> THEN "complete" ELSE "yielding"
        /\ UNCHANGED <<relation, slicing, chunk, pos, finishing, out, token>>
        /\ UNCHANGED <<rest, window, keeps, extends, read, passed, made, reached, cancelled, seenAtCancel>>
    BY DEF IInv, Decode, AfterDecode, relation, slicing, finishing, token
  <1>2. NRows' = NRows /\ SolutionsUpTo' = SolutionsUpTo
    BY <1>1, SumsStay
  <1>3. pos = 0 /\ Len(chunk) <= size /\ size <= ChunkMax /\ size' <= ChunkMax /\ size' <= 4 * size
        /\ size \in Nat \ {0} /\ Len(chunk) \in Nat
    BY <1>1, Numbers, Lengths, SMTT(20) DEF IInv, PlaceOK, SizesOK, MinOf
  <1>4. RelationOK' /\ OutOK'
    BY <1>1, <1>2 DEF IInv, RelationOK, OutOK
  <1>5. PlaceOK' /\ SizesOK' /\ CancelOK'
    BY <1>1, <1>3, Numbers, Lengths, SMTT(20) DEF IInv, PlaceOK, SizesOK, CancelOK
  <1>6. CompleteOK'
    <2> SUFFICES ASSUME chunk = <<>>
                 PROVE  \/ window[1] + Len(out) = window[2]
                        \/ window[1] + Len(out) >= SolutionsUpTo[NRows]
      BY <1>1, <1>2 DEF CompleteOK
    <2>1. WindowEnds \/ read = NRows
      BY <1>1, <1>3, Lengths DEF ChunkFull
    <2>2. CASE rest
      <3>1. reached = SolutionsUpTo[read] /\ read = NRows
        BY <1>1, <2>1, <2>2 DEF IInv, WindowOfSolutions, ReachedOK, WindowEnds, Stop
      <3> QED
        BY <1>1, <2>2, <3>1, Numbers, Lengths, SMTT(20) DEF IInv, WindowOfSolutions
    <2>3. CASE ~rest
      <3>1. /\ passed = SolutionsUpTo[read]
            /\ passed <= window[1] => Len(out) = 0
            /\ passed > window[1] => passed = window[1] + Len(out)
            /\ WindowEnds => window[2] # NoStop /\ passed >= window[2]
            /\ window[2] # NoStop => passed <= window[2]
        BY <1>1, <1>3, <2>3, Numbers, Lengths DEF IInv, WindowOfRows, WindowEnds, Stop
      <3> QED
        <4>1. CASE WindowEnds
          BY <1>1, <3>1, <4>1, Numbers, Lengths, SMTT(20)
        <4>2. CASE read = NRows
          BY <1>1, <3>1, <4>2, Numbers, Lengths
        <4> QED
          BY <2>1, <4>1, <4>2
    <2> QED
      BY <2>2, <2>3
  <1>7. ~rest' => WindowOfRows'
    BY <1>1, <1>2, Numbers, Lengths DEF IInv, WindowOfRows
  <1>8. ~rest' => GrowthOK'
    <2> SUFFICES ASSUME ~rest PROVE GrowthOK'
      BY <1>1
    <2>1. decoded = Len(out) /\ GrowthOK
      BY <1>1 DEF IInv, GrowthOK
    <2>2. (WindowEnds \/ read = NRows)' <=> (WindowEnds \/ read = NRows)
      BY <1>1, <1>2 DEF WindowEnds, Stop
    <2>3. \/ size' <= 4 * decoded'
          \/ WindowEnds \/ read = NRows
      <3>1. CASE ChunkFull
        <4>1. size = Len(chunk) /\ decoded \in Nat /\ size' \in Nat
          BY <1>1, <3>1, Numbers DEF ChunkFull, TypeOK
        <4> QED
          BY <1>1, <1>3, <4>1
      <3> QED
        BY <1>1, <3>1
    <2>4. decoded' - Len(out) <= 4 * Len(out) \/ decoded' <= ChunkStart
      BY <1>1, <1>3, <2>1, Numbers, Lengths DEF GrowthOK
    <2> QED
      BY <1>1, <1>3, <2>1, <2>2, <2>3, <2>4, Numbers, Lengths DEF GrowthOK
  <1>9. rest' => WindowOfSolutions'
    BY <1>1, <1>2, <1>3, Numbers, Lengths DEF IInv, WindowOfSolutions, ChunkFollows, ReachedOK
  <1> QED
    BY <1>1, <1>4, <1>5, <1>6, <1>7, <1>8, <1>9 DEF IInv

(* A row handed on; without tier 3 it is the next solution.                *)
LEMMA YieldRowKeeps ==
  ASSUME IInv, TypeOK', YieldRow
  PROVE  IInv'
  <1>1. /\ TypeOK /\ pc = "yielding" /\ pos < Len(chunk) /\ pos' = pos + 1
        /\ UNCHANGED <<relation, slicing, chunk, size, decoded, finishing, token>>
        /\ UNCHANGED <<rest, window, keeps, extends, read, passed, made, reached, cancelled, seenAtCancel>>
    BY DEF IInv, YieldRow, relation, slicing, finishing, token
  <1>2. NRows' = NRows /\ SolutionsUpTo' = SolutionsUpTo
    BY <1>1, SumsStay
  <1>3. /\ pos \in Nat /\ Len(chunk) \in Nat /\ pos + 1 \in 1..Len(chunk)
        /\ chunk[pos + 1] \in 1..read /\ chunk[pos + 1] \in 1..NRows /\ chunk # <<>>
        /\ Len(out) \in Nat /\ (out = <<>> <=> Len(out) = 0)
        /\ window[1] \in Nat /\ passed \in Nat /\ decoded \in Nat /\ seenAtCancel \in Nat
        /\ ChunkMax \in Nat /\ ChunkStart \in Nat /\ size \in Nat /\ made \in Nat /\ MaxExtends \in Nat
    BY <1>1, Numbers, Lengths, SMTT(20)
  <1>4. RelationOK' /\ SizesOK'
    BY <1>1, <1>2, <1>3 DEF IInv, RelationOK, SizesOK, YieldRow
  <1>5. CASE rest
    <2>1. pc' = "finishing" /\ out' = out
      BY <1>1, <1>5 DEF YieldRow
    <2>2. PlaceOK' /\ OutOK' /\ CompleteOK' /\ CancelOK'
      BY <1>1, <1>2, <1>3, <1>5, <2>1 DEF IInv, PlaceOK, OutOK, CompleteOK, CancelOK
    <2>3. reached = SolutionsUpTo[chunk[pos + 1] - 1]
      <3>1. WindowOfSolutions
        BY <1>5 DEF IInv
      <3>2. CASE pos = 0
        BY <1>1, <1>3, <3>1, <3>2 DEF WindowOfSolutions, ReachedOK
      <3>3. CASE pos # 0
        <4>1. pos \in 1..Len(chunk) - 1
          BY <1>3, <3>3
        <4> QED
          BY <1>1, <1>3, <3>1, <3>3, <4>1 DEF WindowOfSolutions, ReachedOK, ChunkFollows
      <3> QED
        BY <3>2, <3>3
    <2>4. ReachedOK'
      BY <1>1, <1>2, <2>1, <2>3 DEF ReachedOK
    <2>5. WindowOfSolutions'
      BY <1>1, <1>2, <1>5, <2>1, <2>4 DEF IInv, WindowOfSolutions, ChunkFollows
    <2> QED
      BY <1>1, <1>4, <1>5, <2>2, <2>5 DEF IInv
  <1>6. CASE ~rest
    <2>1. pc' = "yielded" /\ out' = Append(out, <<chunk[pos + 1], 1>>)
      BY <1>1, <1>6 DEF YieldRow
    <2>2. /\ Len(out') = Len(out) + 1
          /\ \A n \in 1..Len(out) : out'[n] = out[n]
          /\ out'[Len(out) + 1] = <<chunk[pos + 1], 1>>
      BY <1>1, <1>3, <2>1, OutGrows
    <2>3. WindowOfRows /\ GrowthOK
      BY <1>6 DEF IInv
    <2>4. PlaceOK' /\ CompleteOK'
      BY <1>1, <1>3, <1>6, <2>1 DEF IInv, PlaceOK, CompleteOK
    <2>5. CancelOK'
      BY <1>1, <1>3, <1>6, <2>1, <2>2 DEF IInv, CancelOK
    <2>6. OutOK'
      <3>1. ASSUME NEW n \in 1..Len(out')
            PROVE  /\ keeps[out'[n][1]]
                   /\ out'[n][2] \in 1..extends[out'[n][1]]
                   /\ SolutionsUpTo[out'[n][1] - 1] + out'[n][2] = window[1] + n
        <4>1. CASE n = Len(out) + 1
          <5>1. out'[n][1] = chunk[pos + 1] /\ out'[n][2] = 1
            BY <2>2, <4>1
          <5>2. extends[chunk[pos + 1]] = 1
            BY <1>3, <1>6 DEF IInv, RelationOK
          <5>3. /\ keeps[chunk[pos + 1]]
                /\ SolutionsUpTo[chunk[pos + 1] - 1] + 1 + pos = window[1] + Len(out) + (pos + 1)
            BY <1>3, <2>3 DEF WindowOfRows
          <5>4. SolutionsUpTo[chunk[pos + 1] - 1] \in Nat
            BY <1>1, <1>3, SumsOfRows
          <5>5. SolutionsUpTo[chunk[pos + 1] - 1] + 1 = window[1] + n
            BY <1>3, <4>1, <5>3, <5>4, SMTT(20)
          <5>6. 1 \in 1..extends[chunk[pos + 1]]
            BY <5>2
          <5> QED
            BY <5>1, <5>3, <5>5, <5>6, Zenon
        <4>2. CASE n # Len(out) + 1
          <5>1. n \in 1..Len(out) /\ out'[n] = out[n]
            BY <1>3, <2>2, <3>1, <4>2
          <5> QED
            BY <5>1 DEF IInv, OutOK
        <4> QED
          BY <4>1, <4>2
      <3> QED
        BY <1>1, <1>2, <3>1 DEF OutOK
    <2>7. WindowOfRows'
      <3>1. passed > window[1]
        BY <1>3, <2>3 DEF WindowOfRows
      <3>2. \A k \in 1..Len(chunk) : SolutionsUpTo[chunk[k] - 1] \in Nat
        <4>1. ASSUME NEW k \in 1..Len(chunk)
              PROVE  chunk[k] - 1 \in 0..NRows
          BY <1>1, Lengths
        <4> QED
          BY <1>1, <4>1, SumsOfRows
      <3>3. \A k \in 1..Len(chunk) :
              /\ keeps[chunk[k]]
              /\ SolutionsUpTo[chunk[k] - 1] + 1 + (pos + 1) = window[1] + (Len(out) + 1) + k
        <4> SUFFICES ASSUME NEW k \in 1..Len(chunk)
                     PROVE  /\ keeps[chunk[k]]
                            /\ SolutionsUpTo[chunk[k] - 1] + 1 + (pos + 1) = window[1] + (Len(out) + 1) + k
          OBVIOUS
        <4>1. /\ keeps[chunk[k]]
              /\ SolutionsUpTo[chunk[k] - 1] + 1 + pos = window[1] + Len(out) + k
          BY <2>3 DEF WindowOfRows
        <4>2. SolutionsUpTo[chunk[k] - 1] + 1 + (pos + 1) = window[1] + (Len(out) + 1) + k
          <5>1. SolutionsUpTo[chunk[k] - 1] + 1 + pos = window[1] + Len(out) + k
            BY <4>1, Zenon
          <5>2. SolutionsUpTo[chunk[k] - 1] \in Nat
            BY <3>2, Zenon
          <5>3. chunk[k] \in Nat
            BY <1>1, Lengths
          <5>4. window[1] \in Nat /\ Len(out) \in Nat /\ pos \in Nat /\ k \in Nat
            BY <1>1, <1>3, Lengths
          <5> QED
            <6>1. PICK u, p, w, l : /\ u = SolutionsUpTo[chunk[k] - 1] /\ p = pos
                                    /\ w = window[1] /\ l = Len(out)
              OBVIOUS
            <6>2. u \in Nat /\ p \in Nat /\ w \in Nat /\ l \in Nat /\ k \in Nat
              BY <5>2, <5>4, <6>1, Zenon
            <6>3. u + 1 + p = w + l + k
              BY <5>1, <6>1, Zenon
            <6>4. u + 1 + (p + 1) = w + (l + 1) + k
              BY <6>2, <6>3
            <6> QED
              BY <6>1, <6>4, Zenon
        <4> QED
          BY <4>1, <4>2
      <3>4. passed = window[1] + (Len(out) + 1) + Len(chunk) - (pos + 1)
        BY <1>3, <2>3, <3>1 DEF WindowOfRows
      <3> QED
        BY <1>1, <1>2, <1>3, <2>2, <2>3, <3>1, <3>3, <3>4 DEF WindowOfRows
    <2>8. GrowthOK'
      <3>1. (WindowEnds \/ read = NRows)' <=> (WindowEnds \/ read = NRows)
        BY <1>1, <1>2 DEF WindowEnds, Stop
      <3>2. passed > window[1] /\ decoded = Len(out) + Len(chunk) - pos
        BY <1>1, <1>3, <2>3 DEF WindowOfRows, GrowthOK
      <3>3. /\ Len(out') = Len(out) + 1 /\ pos' = pos + 1
            /\ decoded' = decoded /\ size' = size /\ Len(chunk') = Len(chunk) /\ ChunkStart' = ChunkStart
        BY <1>1, <2>2
      <3>4. /\ Len(out') <= decoded' /\ decoded' = Len(out') + Len(chunk') - pos'
            /\ decoded' - Len(out') <= 4 * Len(out') \/ decoded' <= ChunkStart
        <4>1. decoded - Len(out) <= 4 * Len(out) \/ decoded <= ChunkStart
          BY <2>3 DEF GrowthOK
        <4>2. /\ Len(out) + 1 <= decoded /\ decoded = (Len(out) + 1) + Len(chunk) - (pos + 1)
              /\ decoded - (Len(out) + 1) <= 4 * (Len(out) + 1) \/ decoded <= ChunkStart
          BY <1>3, <3>2, <4>1
        <4> QED
          BY <3>3, <4>2
      <3>5. \/ size' <= 4 * decoded'
            \/ decoded' = 0 /\ size' = ChunkStart
            \/ (WindowEnds \/ read = NRows)'
        BY <2>3, <3>1, <3>3 DEF GrowthOK
      <3>6. pc' # "filling"
        BY <2>1
      <3> QED
        BY <3>4, <3>5, <3>6 DEF GrowthOK
    <2> QED
      BY <1>1, <1>4, <1>6, <2>4, <2>5, <2>6, <2>7, <2>8 DEF IInv
  <1> QED
    BY <1>5, <1>6

LEMMA FinishRowKeeps ==
  ASSUME IInv, TypeOK', FinishRow
  PROVE  IInv'
  <1>1. /\ TypeOK /\ rest /\ pc = "finishing" /\ pc' \in {"extending", "raised"} /\ made' = 0
        /\ pc' = "extending" => ~cancelled
        /\ UNCHANGED <<relation, slicing, chunking, reached, out, token>>
        /\ UNCHANGED <<rest, window, keeps, extends, read, passed, chunk, pos, size, decoded, cancelled,
                       seenAtCancel>>
    BY DEF IInv, PlaceOK, FinishRow, Checked, relation, slicing, chunking, token
  <1>2. NRows' = NRows /\ SolutionsUpTo' = SolutionsUpTo
    BY <1>1, SumsStay
  <1>3. pos \in 1..Len(chunk) /\ extends[chunk[pos]] \in Nat /\ SolutionsUpTo[chunk[pos] - 1] \in Nat
        /\ MaxExtends \in Nat
    <2>1. pos \in 1..Len(chunk) /\ MaxExtends \in Nat
      BY <1>1, Numbers, Lengths DEF IInv, PlaceOK
    <2>2. chunk[pos] \in 1..NRows /\ NRows \in Nat
      BY <1>1, <2>1, Lengths
    <2>3. chunk[pos] - 1 \in 0..NRows
      BY <2>2
    <2> QED
      BY <1>1, <2>1, <2>2, <2>3, SumsOfRows DEF TypeOK
  <1>4. RelationOK' /\ OutOK' /\ CompleteOK' /\ SizesOK' /\ PlaceOK'
    BY <1>1, <1>2, <1>3 DEF IInv, RelationOK, OutOK, CompleteOK, SizesOK, PlaceOK
  <1>5. ReachedOK'
    BY <1>1, <1>2, <1>3 DEF IInv, WindowOfSolutions, ReachedOK
  <1>6. WindowOfSolutions'
    BY <1>1, <1>2, <1>5 DEF IInv, WindowOfSolutions, ChunkFollows
  <1>7. CancelOK'
    BY <1>1 DEF IInv, CancelOK
  <1> QED
    BY <1>1, <1>4, <1>6, <1>7 DEF IInv

(* rdflib makes the next solution of the row in hand.                      *)
LEMMA ExtendKeeps ==
  ASSUME IInv, TypeOK', Extend
  PROVE  IInv'
  <1>1. /\ TypeOK /\ rest /\ pc = "extending" /\ ~RestWindowEnds
        /\ made < extends[chunk[pos]] /\ made' = made + 1 /\ reached' = reached + 1
        /\ UNCHANGED <<relation, slicing, chunking, token>>
        /\ UNCHANGED <<rest, window, keeps, extends, read, passed, chunk, pos, size, decoded, cancelled,
                       seenAtCancel>>
    BY DEF IInv, PlaceOK, Extend, relation, slicing, chunking, token
  <1>2. NRows' = NRows /\ SolutionsUpTo' = SolutionsUpTo
    BY <1>1, SumsStay
  <1>3. /\ pos \in 1..Len(chunk) /\ chunk # <<>>
        /\ chunk[pos] \in 1..read /\ chunk[pos] \in 1..NRows
    BY <1>1, Numbers, Lengths, SMTT(20) DEF IInv, PlaceOK
  <1>4. /\ extends[chunk[pos]] \in Nat /\ extends[chunk[pos]] <= MaxExtends
        /\ SolutionsUpTo[chunk[pos] - 1] \in Nat
        /\ keeps[chunk[pos]]
        /\ reached = SolutionsUpTo[chunk[pos] - 1] + made
    <2>1. chunk[pos] - 1 \in 0..NRows /\ pos > 0
      BY <1>1, <1>3, Lengths
    <2>2. SolutionsUpTo[chunk[pos] - 1] \in Nat
      BY <1>1, <2>1, SumsOfRows
    <2>3. WindowOfSolutions
      BY <1>1 DEF IInv
    <2> QED
      BY <1>1, <1>3, <2>1, <2>2, <2>3
         DEF IInv, RelationOK, TypeOK, WindowOfSolutions, ReachedOK, ChunkFollows
  <1>5. /\ window[1] \in Nat /\ (window[2] # NoStop => window[2] \in Nat)
        /\ made \in Nat /\ reached \in Nat /\ seenAtCancel \in Nat /\ MaxExtends \in Nat
        /\ decoded \in Nat /\ passed \in Nat
        /\ Len(out) \in Nat /\ (out = <<>> <=> Len(out) = 0)
    BY <1>1, Numbers, Lengths
  <1>6. /\ Len(out) = IF reached <= window[1] THEN 0 ELSE reached - window[1]
        /\ window[2] # NoStop => reached < window[2]
    BY <1>1, <1>5 DEF IInv, WindowOfSolutions, RestWindowEnds
  <1>7. \/ /\ RestInWindow /\ pc' = "yielded"
           /\ Len(out') = Len(out) + 1
           /\ \A n \in 1..Len(out) : out'[n] = out[n]
           /\ out'[Len(out) + 1] = <<chunk[pos], made + 1>>
        \/ ~RestInWindow /\ pc' = pc /\ out' = out
    <2>1. CASE RestInWindow
      <3>1. pc' = "yielded" /\ out' = Append(out, <<chunk[pos], made + 1>>)
        BY <2>1 DEF Extend
      <3>2. made + 1 \in Nat \ {0}
        BY <1>5
      <3> QED
        BY <1>1, <1>3, <2>1, <3>1, <3>2, OutGrows
    <2>2. CASE ~RestInWindow
      BY <2>2 DEF Extend
    <2> QED
      BY <2>1, <2>2
  <1>8. Len(out') = IF reached + 1 <= window[1] THEN 0 ELSE reached + 1 - window[1]
    <2>1. CASE RestInWindow
      <3>1. reached + 1 > window[1] /\ Len(out') = Len(out) + 1
        BY <1>7, <2>1 DEF RestInWindow
      <3> QED
        BY <1>5, <1>6, <3>1
    <2>2. CASE ~RestInWindow
      <3>1. ~(reached + 1 > window[1]) /\ out' = out
        BY <1>7, <2>2 DEF RestInWindow
      <3> QED
        BY <1>5, <1>6, <3>1
    <2> QED
      BY <2>1, <2>2
  <1>9. RelationOK' /\ CompleteOK' /\ PlaceOK'
    BY <1>1, <1>2, <1>3, <1>7 DEF IInv, RelationOK, CompleteOK, PlaceOK
  <1>10. SizesOK'
    BY <1>1, <1>4, <1>5, <1>7 DEF IInv, SizesOK
  <1>11. OutOK'
    <2>1. ASSUME NEW n \in 1..Len(out')
          PROVE  /\ keeps[out'[n][1]]
                 /\ out'[n][2] \in 1..extends[out'[n][1]]
                 /\ SolutionsUpTo[out'[n][1] - 1] + out'[n][2] = window[1] + n
      <3>1. CASE n = Len(out) + 1
        <4>1. RestInWindow /\ out'[n][1] = chunk[pos] /\ out'[n][2] = made + 1
          BY <1>5, <1>7, <2>1, <3>1
        <4>2. made + 1 \in 1..extends[chunk[pos]]
          BY <1>1, <1>4, <1>5
        <4>3. SolutionsUpTo[chunk[pos] - 1] + (made + 1) = window[1] + n
          <5>1. reached + 1 > window[1]
            BY <4>1 DEF RestInWindow
          <5> QED
            <6>1. reached = SolutionsUpTo[chunk[pos] - 1] + made /\ SolutionsUpTo[chunk[pos] - 1] \in Nat
              BY <1>4, Zenon
            <6>2. Len(out) = reached - window[1]
              BY <1>5, <1>6, <5>1
            <6>3. n = Len(out) + 1
              BY <3>1, Zenon
            <6> QED
              <7>1. PICK u, m, w, l, r : /\ u = SolutionsUpTo[chunk[pos] - 1] /\ m = made
                                         /\ w = window[1] /\ l = Len(out) /\ r = reached
                OBVIOUS
              <7>2. u \in Nat /\ m \in Nat /\ w \in Nat /\ l \in Nat /\ r \in Nat
                BY <1>5, <6>1, <7>1, Zenon
              <7>3. r = u + m /\ l = r - w /\ n = l + 1
                BY <6>1, <6>2, <6>3, <7>1, Zenon
              <7>4. u + (m + 1) = w + n
                BY <7>2, <7>3
              <7> QED
                BY <7>1, <7>4, Zenon
        <4> QED
          BY <1>4, <4>1, <4>2, <4>3
      <3>2. CASE n # Len(out) + 1
        <4>1. n \in 1..Len(out) /\ out'[n] = out[n]
          BY <1>5, <1>7, <2>1, <3>2
        <4> QED
          BY <4>1 DEF IInv, OutOK
      <3> QED
        BY <3>1, <3>2
    <2> QED
      BY <1>1, <1>2, <2>1 DEF OutOK
  <1>12. ReachedOK'
    <2>1. reached + 1 = SolutionsUpTo[chunk[pos] - 1] + (made + 1) /\ made + 1 <= extends[chunk[pos]]
      BY <1>1, <1>4, <1>5
    <2>2. pc' \in {"extending", "yielded"}
      BY <1>1, <1>7
    <2> QED
      BY <1>1, <1>2, <2>1, <2>2 DEF ReachedOK
  <1>13. WindowOfSolutions'
    <2>1. window[2] # NoStop => reached + 1 <= window[2]
      BY <1>5, <1>6
    <2> QED
      <3>1. WindowOfSolutions /\ ChunkFollows'
        BY <1>1, <1>2 DEF IInv, WindowOfSolutions, ChunkFollows
      <3>2. window[2]' # NoStop => reached' <= window[2]'
        BY <1>1, <2>1
      <3>3. Len(out)' = IF reached' <= window[1]' THEN 0 ELSE reached' - window[1]'
        <4>1. reached' = reached + 1 /\ window' = window
          BY <1>1
        <4> QED
          BY <1>5, <1>8, <4>1
      <3> QED
        BY <1>12, <3>1, <3>2, <3>3, Zenon DEF WindowOfSolutions
  <1>14. CancelOK'
    BY <1>1, <1>4, <1>5, <1>7 DEF IInv, CancelOK
  <1> QED
    BY <1>1, <1>9, <1>10, <1>11, <1>13, <1>14 DEF IInv

LEMMA CancelKeeps ==
  ASSUME IInv, TypeOK', Cancel
  PROVE  IInv'
  <1>1. /\ TypeOK /\ seenAtCancel' = Len(out) /\ cancelled'
        /\ UNCHANGED <<relation, pc, slicing, chunking, finishing, out>>
        /\ UNCHANGED <<rest, window, keeps, extends, read, passed, chunk, pos, size, decoded, made, reached>>
    BY DEF IInv, Cancel, relation, slicing, chunking, finishing
  <1>2. NRows' = NRows /\ SolutionsUpTo' = SolutionsUpTo
    BY <1>1, SumsStay
  <1>3. RelationOK' /\ OutOK' /\ CompleteOK' /\ SizesOK' /\ PlaceOK'
    BY <1>1, <1>2 DEF IInv, RelationOK, OutOK, CompleteOK, SizesOK, PlaceOK, RestWindowEnds
  <1>4. ~rest => WindowOfRows' /\ GrowthOK'
    BY <1>1, <1>2 DEF IInv, WindowOfRows, GrowthOK, WindowEnds, Stop
  <1>5. rest => WindowOfSolutions'
    BY <1>1, <1>2 DEF IInv, WindowOfSolutions, ChunkFollows, ReachedOK
  <1>6. CancelOK'
    BY <1>1, Numbers, Lengths, SMTT(20) DEF IInv, CancelOK, SizesOK
  <1> QED
    BY <1>1, <1>3, <1>4, <1>5, <1>6 DEF IInv

LEMMA StutterKeeps ==
  ASSUME IInv, UNCHANGED vars
  PROVE  IInv'
  <1>1. /\ UNCHANGED <<relation, pc, slicing, chunking, finishing, out, token>>
        /\ UNCHANGED <<rest, window, keeps, extends, read, passed, chunk, pos, size, decoded, made, reached,
                       cancelled, seenAtCancel>>
        /\ IInv /\ TypeOK'
    BY StepKeepsTypes DEF vars, relation, slicing, chunking, finishing, token
  <1>2. NRows' = NRows /\ SolutionsUpTo' = SolutionsUpTo
    BY <1>1, SumsStay
  <1>3. RelationOK' /\ OutOK' /\ CompleteOK' /\ SizesOK' /\ PlaceOK' /\ CancelOK'
    BY <1>1, <1>2 DEF IInv, RelationOK, OutOK, CompleteOK, SizesOK, PlaceOK, RestWindowEnds, CancelOK
  <1>4. ~rest => WindowOfRows' /\ GrowthOK'
    BY <1>1, <1>2 DEF IInv, WindowOfRows, GrowthOK, WindowEnds, Stop
  <1>5. rest => WindowOfSolutions'
    BY <1>1, <1>2 DEF IInv, WindowOfSolutions, ChunkFollows, ReachedOK
  <1> QED
    BY <1>1, <1>3, <1>4, <1>5 DEF IInv

LEMMA Invariance == Spec => []IInv
  <1>1. Init => IInv
    BY InitHolds
  <1>2. IInv /\ [Next]_vars => IInv'
    BY StepKeepsTypes, StutterKeeps, CheckChunkKeeps, MovesOnKeeps, PullRowKeeps, DecodeKeeps, YieldRowKeeps,
       FinishRowKeeps, ExtendKeeps, CancelKeeps DEF Next, Step, MovesOn
  <1> QED
    BY <1>1, <1>2, PTL DEF Spec

-----------------------------------------------------------------------------
(* The theorems.                                                           *)

(* What was read, decoded and delivered stays within the body, and every   *)
(* slice and chunk has a size.                                             *)
THEOREM TypesHold == Spec => []TypeOK
  <1>1. IInv => TypeOK
    BY DEF IInv
  <1> QED
    BY <1>1, Invariance, PTL

(* Every solution of the window is delivered once, in the body's order,    *)
(* with tier 3 or without, however slices and chunks fall (_yield_rows,    *)
(* _project_window and _finish_with_rdflib).                               *)
THEOREM TheWindowIsDelivered == Spec => []DeliversWindow
  <1>1. ASSUME IInv, window[2] # NoStop
        PROVE  Len(out) <= window[2] - window[1]
    <2>1. TypeOK
      BY <1>1 DEF IInv
    <2>2. CASE rest
      BY <1>1, <2>1, <2>2, Numbers, Lengths, SMTT(20) DEF IInv, WindowOfSolutions
    <2>3. CASE ~rest
      <3>1. WindowOfRows
        BY <1>1, <2>3 DEF IInv
      <3>2. CASE passed <= window[1]
        BY <1>1, <2>1, <3>1, <3>2, Numbers, Lengths DEF WindowOfRows
      <3>3. CASE passed > window[1]
        <4>1. passed = window[1] + Len(out) + Len(chunk) - pos /\ passed <= window[2]
          BY <1>1, <3>1, <3>3, Zenon DEF WindowOfRows
        <4>2. /\ passed \in Nat /\ window[1] \in Nat /\ window[2] \in Nat /\ Len(out) \in Nat
              /\ Len(chunk) \in Nat /\ pos \in Nat /\ pos <= Len(chunk)
          BY <1>1, <2>1, Numbers, Lengths
        <4> QED
          BY <4>1, <4>2
      <3> QED
        BY <2>1, <3>2, <3>3, Numbers
    <2> QED
      BY <2>2, <2>3
  <1>2. IInv => DeliversWindow
    BY <1>1 DEF IInv, OutOK, CompleteOK, DeliversWindow
  <1> QED
    BY <1>2, Invariance, PTL

(* A cancelled query delivers one decode chunk more at most, or what       *)
(* rdflib makes of the row in hand (cancel.py).                            *)
THEOREM CancelIsPrompt == Spec => []CancelStopsWithinAChunk
  <1>1. ASSUME IInv, cancelled
        PROVE  Len(out) <= seenAtCancel + IF rest THEN MaxExtends ELSE ChunkMax
    <2>1. TypeOK
      BY <1>1 DEF IInv
    <2> QED
      BY <1>1, <2>1, Numbers, Lengths, SMTT(20) DEF IInv, CancelOK
  <1>2. IInv => CancelStopsWithinAChunk
    BY <1>1 DEF CancelStopsWithinAChunk
  <1> QED
    BY <1>2, Invariance, PTL

(* What is decoded is in proportion to what was read of it, and never past *)
(* the window: the chunks grow by four times only as they are used up.     *)
THEOREM DecodingIsLazy == Spec => []DecodesOnlyReached
  <1>1. ASSUME IInv, ~rest
        PROVE  /\ decoded - Len(out) <= ChunkMax
               /\ decoded - Len(out) <= 4 * Len(out) \/ decoded <= ChunkStart
               /\ window[2] # NoStop => passed <= window[2] /\ decoded <= window[2] - window[1]
    <2>1. TypeOK /\ WindowOfRows /\ GrowthOK /\ SizesOK
      BY <1>1 DEF IInv
    <2>2. decoded - Len(out) <= ChunkMax
      BY <2>1, Numbers, Lengths DEF GrowthOK, SizesOK
    <2>3. window[2] # NoStop => passed <= window[2] /\ decoded <= window[2] - window[1]
      <3>1. CASE passed <= window[1]
        BY <2>1, <3>1, Numbers, Lengths DEF GrowthOK, WindowOfRows
      <3>2. CASE passed > window[1]
        <4>1. /\ passed = window[1] + Len(out) + Len(chunk) - pos
              /\ window[2] # NoStop => passed <= window[2]
              /\ decoded <= Len(out) + Len(chunk) - pos
          BY <2>1, <3>2, Zenon DEF GrowthOK, WindowOfRows
        <4>2. /\ passed \in Nat /\ decoded \in Nat /\ window[1] \in Nat
              /\ window[2] # NoStop => window[2] \in Nat
              /\ Len(out) \in Nat /\ Len(chunk) \in Nat /\ pos \in Nat /\ pos <= Len(chunk)
          BY <2>1, Numbers, Lengths
        <4> QED
          BY <4>1, <4>2
      <3> QED
        BY <2>1, <3>1, <3>2, Numbers
    <2> QED
      BY <2>1, <2>2, <2>3 DEF GrowthOK
  <1>2. IInv => DecodesOnlyReached
    BY <1>1 DEF DecodesOnlyReached
  <1> QED
    BY <1>2, Invariance, PTL
=============================================================================
