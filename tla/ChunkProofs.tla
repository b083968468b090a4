----------------------------- MODULE ChunkProofs ----------------------------
(***************************************************************************)
(* Proofs about the two readers that cut a match into chunks, GatherPieces *)
(* and UnionRows, for every match and wherever the cuts fall.              *)
(*                                                                         *)
(* GatherPieces, for every fed side, every grouped side and every pair     *)
(* budget: the pieces lose no pair and stay within the budget, a cancel    *)
(* stops them within a piece, and the generator implements JoinStream.     *)
(* The halves on the stack always adjoin (PartsAdjoin), so the rows        *)
(* handled are a prefix of the fed side and its pairs are what has been    *)
(* gathered.                                                               *)
(*                                                                         *)
(* UnionRows: the rows kept are the first of each triple, and each triple  *)
(* is yielded once with all its rows.  A triple's rows are adjacent, so    *)
(* the last row read says whether a triple was met before.                 *)
(***************************************************************************)
EXTENDS GatherPieces, UnionRows, SequenceTheorems, WellFoundedInduction, TLAPS

(* A part is gathered only when the loop let it through.                   *)
GatheringOK ==
  pc = "gathering" =>
    /\ part.lo < part.hi
    /\ Pairs(part) # 0
    /\ ~OverBudget(part)

CompleteOK == pc = "complete" => parts = <<>> /\ pulled = fedRows

CancelOK ==
  cancelled => /\ Len(pieces) <= seenAtCancel + 1
               /\ pc = "gathering" => Len(pieces) <= seenAtCancel

IInv ==
  /\ TypeOK
  /\ CountsOK
  /\ PartsAdjoin
  /\ GatheringOK
  /\ CompleteOK
  /\ outputRows = upto[Handled]
  /\ PiecesInOrder
  /\ PiecesWithinBudget
  /\ CancelOK

-----------------------------------------------------------------------------
(* The parts popped or halved.                                             *)

LEMMA TopIsAPart ==
  ASSUME TypeOK, PartsAdjoin, parts # <<>>
  PROVE  /\ Len(parts) \in Nat \ {0}
         /\ Top \in Parts
         /\ Top.lo < Top.hi
         /\ Len(parts) = 1 => Top.hi = pulled
         /\ Len(parts) > 1 => Top.hi = parts[Len(parts) - 1].lo
  <1>1. Len(parts) \in Nat \ {0}
    BY DEF TypeOK
  <1>2. \A i \in 1..Len(parts) : parts[i] \in Parts
    BY DEF TypeOK
  <1> QED
    BY <1>1, <1>2 DEF PartsAdjoin, Top

LEMMA PoppedAdjoin ==
  ASSUME TypeOK, PartsAdjoin, parts # <<>>
  PROVE  /\ Popped \in Seq(Parts)
         /\ Len(Popped) = Len(parts) - 1
         /\ \A i \in 1..Len(Popped) : Popped[i] = parts[i]
         /\ (IF Popped = <<>> THEN pulled ELSE Popped[Len(Popped)].lo) = Top.hi
  <1>1. Len(parts) \in Nat \ {0}
    BY TopIsAPart
  <1>2. /\ Popped \in Seq(Parts)
        /\ Len(Popped) = Len(parts) - 1
        /\ \A i \in 1..Len(Popped) : Popped[i] = parts[i]
    <2> DEFINE n == Len(parts) - 1
    <2>1. n \in Nat /\ \A i \in 1..n : parts[i] \in Parts
      BY <1>1 DEF TypeOK
    <2>2. Popped = SubSeq(parts, 1, n)
      BY DEF Popped
    <2> HIDE DEF n
    <2>3. /\ Popped \in Seq(Parts)
          /\ Len(Popped) = IF 1 <= n THEN n - 1 + 1 ELSE 0
          /\ \A i \in 1..n - 1 + 1 : Popped[i] = parts[1 + i - 1]
      BY <2>1, <2>2, SubSeqProperties
    <2>4. Len(Popped) = n
      BY <2>1, <2>3
    <2>5. ASSUME NEW i \in 1..n
          PROVE  Popped[i] = parts[i]
      <3>1. i \in 1..n - 1 + 1 /\ 1 + i - 1 = i
        BY <2>1
      <3> QED
        BY <2>3, <3>1
    <2> QED
      BY <2>3, <2>4, <2>5 DEF n
  <1>3. CASE Len(parts) = 1
    <2>1. Popped = <<>>
      BY <1>2, <1>3, EmptySeq
    <2> QED
      BY <1>2, <1>3, <2>1, TopIsAPart
  <1>4. CASE Len(parts) > 1
    <2>1. Popped # <<>>
      BY <1>1, <1>2, <1>4
    <2> QED
      BY <1>1, <1>2, <1>4, <2>1, TopIsAPart
  <1> QED
    BY <1>1, <1>2, <1>3, <1>4

LEMMA HalfwayLiesBetween ==
  ASSUME NEW lo \in Nat, NEW hi \in Nat, hi - lo > 1
  PROVE  LET mid == lo + (hi - lo) \div 2
         IN  mid \in Nat /\ lo < mid /\ mid < hi
  OBVIOUS

LEMMA HalvedAdjoin ==
  ASSUME TypeOK, PartsAdjoin, parts # <<>>, Length(Top) > 1
  PROVE  /\ Halved(Top) \in Seq(Parts)
         /\ Halved(Top) # <<>>
         /\ Len(Halved(Top)) = Len(parts) + 1
         /\ Halved(Top)[Len(Halved(Top))].lo = Top.lo
         /\ Halved(Top)[1].hi = pulled
         /\ \A i \in 1..Len(Halved(Top)) :
              /\ Halved(Top)[i].lo < Halved(Top)[i].hi
              /\ i > 1 => Halved(Top)[i].hi = Halved(Top)[i-1].lo
  <1> DEFINE mid == Middle(Top)
             first == [lo |-> Top.lo, hi |-> mid]
             second == [lo |-> mid, hi |-> Top.hi]
             rest == Append(Popped, second)
  <1>1. /\ Len(parts) \in Nat \ {0}
        /\ Top \in Parts
        /\ Len(parts) = 1 => Top.hi = pulled
        /\ Len(parts) > 1 => Top.hi = parts[Len(parts) - 1].lo
    BY TopIsAPart
  <1>2. mid \in Rows /\ Top.lo < mid /\ mid < Top.hi
    <2>1. /\ fedRows \in Nat
          /\ Top.lo \in 0..fedRows
          /\ Top.hi \in 0..fedRows
      BY <1>1 DEF Parts, Rows, TypeOK
    <2>2. mid = Top.lo + (Top.hi - Top.lo) \div 2 /\ Top.hi - Top.lo > 1
      BY DEF Middle, Length
    <2> QED
      BY <2>1, <2>2, HalfwayLiesBetween DEF Rows
  <1>3. first \in Parts /\ second \in Parts
    BY <1>1, <1>2 DEF Parts
  <1>4. /\ rest \in Seq(Parts)
        /\ Len(rest) = Len(parts)
        /\ rest[Len(parts)] = second
        /\ \A i \in 1..Len(parts) : i # Len(parts) => rest[i] = parts[i]
    <2> HIDE DEF second
    <2> QED
      BY <1>1, <1>3, PoppedAdjoin, AppendProperties
  <1>5. Halved(Top) = Append(rest, first)
    BY DEF Halved
  <1> HIDE DEF rest, mid, first, second
  <1>6. /\ Halved(Top) \in Seq(Parts)
        /\ Len(Halved(Top)) = Len(parts) + 1
        /\ Halved(Top)[Len(parts) + 1] = first
        /\ \A i \in 1..Len(parts) : Halved(Top)[i] = rest[i]
    BY <1>1, <1>3, <1>4, <1>5
  <1>7. first.lo = Top.lo /\ first.hi = mid /\ second.lo = mid /\ second.hi = Top.hi
    BY DEF first, second
  <1>8. Halved(Top)[1].hi = pulled
    BY <1>1, <1>4, <1>6, <1>7 DEF PartsAdjoin
  <1>9. ASSUME NEW i \in 1..Len(Halved(Top))
        PROVE  /\ Halved(Top)[i].lo < Halved(Top)[i].hi
               /\ i > 1 => Halved(Top)[i].hi = Halved(Top)[i-1].lo
    <2>1. CASE i = Len(parts) + 1
      BY <2>1, <1>1, <1>2, <1>4, <1>6, <1>7
    <2>2. CASE i = Len(parts)
      BY <2>2, <1>1, <1>2, <1>4, <1>6, <1>7
    <2>3. CASE i < Len(parts)
      BY <2>3, <1>1, <1>4, <1>6, SMTT(20) DEF PartsAdjoin
    <2> QED
      BY <2>1, <2>2, <2>3, <1>1, <1>6
  <1> QED
    BY <1>1, <1>6, <1>7, <1>8, <1>9

-----------------------------------------------------------------------------
(* The parts of the inductive invariant, action by action.                 *)

LEMMA InitEstablishes == Init => IInv
  <1> SUFFICES ASSUME Init PROVE IInv
    OBVIOUS
  <1>1. fedRows \in Nat /\ grouped \in Nat /\ budget \in Nat
    BY SizesAssumption DEF Init
  <1>2. upto \in [Rows -> Nat]
    <2>1. 0..(MaxRows * MaxGrouped) \subseteq Nat
      BY SizesAssumption
    <2> QED
      BY <2>1 DEF Init, Rows
  <1>3. TypeOK
    BY <1>1, <1>2, SMTT(20) DEF Init, TypeOK, Running, Ended, Parts, Rows
  <1>4. PartsAdjoin /\ GatheringOK /\ CompleteOK /\ CancelOK
    BY DEF Init, PartsAdjoin, GatheringOK, CompleteOK, CancelOK
  <1>5. CountsOK /\ outputRows = upto[Handled]
    BY DEF Init, CountsOK, Handled
  <1>6. PiecesInOrder /\ PiecesWithinBudget
    BY DEF Init, PiecesInOrder, PiecesWithinBudget
  <1> QED
    BY <1>3, <1>4, <1>5, <1>6 DEF IInv

LEMMA TypeStep == IInv /\ [Next]_vars => TypeOK'
  <1> SUFFICES ASSUME IInv, [Next]_vars PROVE TypeOK'
    OBVIOUS
  <1> USE DEF IInv
  <1>1. CASE Resume \/ Close \/ PullRaises \/ FeedEnds \/ CheckRaises \/ Cancel
    <2>1. UNCHANGED <<data, pulled, parts, part, pieces, outputRows>>
      BY <1>1 DEF Resume, Close, PullRaises, FeedEnds, CheckRaises, Cancel
    <2>2. pc' \in {"created", "yielded"} \cup Running \cup Ended
      BY <1>1 DEF Resume, Close, PullRaises, FeedEnds, CheckRaises, Cancel, TypeOK,
         Running, Ended
    <2>3. cancelled' \in BOOLEAN /\ seenAtCancel' \in Nat
      <3>1. CASE Cancel
        BY <3>1 DEF Cancel, TypeOK
      <3>2. CASE UNCHANGED token
        BY <3>2 DEF token, TypeOK
      <3> QED
        BY <1>1, <3>1, <3>2 DEF Resume, Close, PullRaises, FeedEnds, CheckRaises
    <2> QED
      BY <2>1, <2>2, <2>3 DEF TypeOK, data, Rows, Parts
  <1>2. CASE PullFeed
    <2>1. PICK stop \in pulled + 1 .. fedRows :
            pulled' = stop /\ parts' = <<[lo |-> pulled, hi |-> stop]>>
      BY <1>2 DEF PullFeed
    <2>2. [lo |-> pulled, hi |-> stop] \in Parts
      BY <2>1 DEF TypeOK, Rows, Parts
    <2> QED
      BY <1>2, <2>1, <2>2 DEF PullFeed, TypeOK, data, token, Rows, Parts, Running, Ended
  <1>3. CASE Split
    <2>1. Halved(Top) \in Seq(Parts) /\ Top \in Parts
      BY <1>3, HalvedAdjoin, TopIsAPart DEF Split, OverBudget
    <2> QED
      BY <1>3, <2>1 DEF Split, TypeOK, data, token, Rows, Parts, Running, Ended
  <1>4. CASE Skip \/ BeginGather
    <2>1. Popped \in Seq(Parts) /\ Top \in Parts
      BY <1>4, PoppedAdjoin, TopIsAPart DEF Skip, BeginGather
    <2> QED
      BY <1>4, <2>1 DEF Skip, BeginGather, TypeOK, data, token, Rows, Parts, Running, Ended
  <1>5. CASE YieldPiece
    <2>1. Pairs(part) \in Nat
      <3>1. part.lo \in Rows /\ part.hi \in Rows /\ part.lo < part.hi
        BY <1>5 DEF YieldPiece, GatheringOK, TypeOK, Parts
      <3>2. upto[part.lo] <= upto[part.hi]
        BY <3>1 DEF CountsOK, Rows, TypeOK
      <3>3. upto[part.lo] \in Nat /\ upto[part.hi] \in Nat
        BY <3>1 DEF TypeOK
      <3> QED
        BY <3>2, <3>3 DEF Pairs
    <2>2. outputRows' \in Nat /\ pieces' \in Seq(Parts)
      BY <1>5, <2>1 DEF YieldPiece, TypeOK
    <2> QED
      BY <1>5, <2>2 DEF YieldPiece, TypeOK, data, token, Rows, Parts, Running, Ended
  <1>6. CASE UNCHANGED vars
    BY <1>6 DEF vars, TypeOK, data, token, Rows, Parts
  <1> QED
    BY <1>1, <1>2, <1>3, <1>4, <1>5, <1>6 DEF Next, Step

(* What the stack, the part in hand and the counts say of each other.      *)
Stack ==
  /\ CountsOK
  /\ PartsAdjoin
  /\ GatheringOK
  /\ CompleteOK
  /\ outputRows = upto[Handled]

LEMMA StackStep == IInv /\ [Next]_vars => Stack'
  <1> SUFFICES ASSUME IInv, [Next]_vars PROVE Stack'
    OBVIOUS
  <1> USE DEF IInv
  <1>1. CountsOK' /\ upto' = upto /\ fedRows' = fedRows /\ budget' = budget
    BY DEF Next, Step, Resume, Close, PullFeed, PullRaises, FeedEnds, CheckRaises, Split,
       Skip, BeginGather, YieldPiece, Cancel, vars, data, CountsOK, Rows
  <1>2. CASE Resume \/ Close \/ PullRaises \/ FeedEnds \/ CheckRaises
    <2>1. /\ UNCHANGED <<parts, part, pulled, outputRows>>
          /\ pc # "gathering" /\ pc' # "gathering"
          /\ pc' = "complete" => parts = <<>> /\ pulled = fedRows
      BY <1>2 DEF Resume, Close, PullRaises, FeedEnds, CheckRaises, FeedExhausted
    <2> QED
      BY <1>1, <2>1 DEF Stack, PartsAdjoin, GatheringOK, CompleteOK, Handled, Top
  <1>3. CASE PullFeed
    <2>1. PICK stop \in pulled + 1 .. fedRows :
            pulled' = stop /\ parts' = <<[lo |-> pulled, hi |-> stop]>>
      BY <1>3 DEF PullFeed
    <2>2. Len(parts') = 1 /\ parts'[1] = [lo |-> pulled, hi |-> stop] /\ parts' # <<>>
      BY <2>1
    <2>3. PartsAdjoin'
      BY <1>3, <2>1, <2>2 DEF PullFeed, PartsAdjoin, TypeOK, Rows
    <2>4. Handled' = Handled
      BY <1>3, <2>2 DEF PullFeed, Handled, Top
    <2> QED
      BY <1>1, <1>3, <2>3, <2>4 DEF PullFeed, Stack, GatheringOK, CompleteOK
  <1>4. CASE Split
    <2>1. parts # <<>> /\ Length(Top) > 1 /\ parts' = Halved(Top)
      BY <1>4 DEF Split, OverBudget
    <2>2. pc = "checking" /\ UNCHANGED <<pc, pulled, outputRows>>
      BY <1>4 DEF Split
    <2>3. PartsAdjoin'
      BY <2>1, <2>2, HalvedAdjoin DEF PartsAdjoin
    <2>4. Handled' = Handled
      BY <2>1, <2>2, HalvedAdjoin DEF Handled, Top
    <2> QED
      BY <1>1, <2>2, <2>3, <2>4 DEF Stack, GatheringOK, CompleteOK
  <1>5. CASE Skip \/ BeginGather
    <2>1. /\ parts # <<>> /\ parts' = Popped /\ part' = Top
          /\ UNCHANGED <<pulled, outputRows>>
          /\ pc = "checking"
          /\ pc' \in {"checking", "gathering"}
      BY <1>5 DEF Skip, BeginGather
    <2>2. Len(Popped) < Len(parts)
      BY <2>1, PoppedAdjoin, TopIsAPart
    <2>3. Len(parts) \in Nat /\ Len(Popped) \in Nat
      BY <2>1, PoppedAdjoin DEF TypeOK
    <2>4. PartsAdjoin'
      <3>1. \A i \in 1..Len(parts') :
              /\ parts'[i].lo < parts'[i].hi
              /\ i > 1 => parts'[i].hi = parts'[i-1].lo
        <4> SUFFICES ASSUME NEW i \in 1..Len(Popped)
                     PROVE  /\ Popped[i].lo < Popped[i].hi
                            /\ i > 1 => Popped[i].hi = Popped[i-1].lo
          BY <2>1
        <4>1. i \in 1..Len(parts) /\ Popped[i] = parts[i]
          BY <2>1, <2>2, <2>3, PoppedAdjoin
        <4>2. i > 1 => Popped[i-1] = parts[i-1]
          BY <2>1, <2>3, PoppedAdjoin
        <4> QED
          BY <4>1, <4>2 DEF PartsAdjoin
      <3>2. parts' # <<>> => parts'[1].hi = pulled'
        <4> SUFFICES ASSUME Popped # <<>> PROVE Popped[1].hi = pulled
          BY <2>1
        <4>1. Len(Popped) \in Nat \ {0}
          BY <2>1, PoppedAdjoin, EmptySeq
        <4> QED
          BY <2>1, <4>1, PoppedAdjoin DEF PartsAdjoin
      <3>3. /\ part'.lo < part'.hi
            /\ part'.hi = IF parts' = <<>> THEN pulled' ELSE parts'[Len(parts')].lo
        BY <2>1, PoppedAdjoin, TopIsAPart
      <3> QED
        BY <3>1, <3>2, <3>3 DEF PartsAdjoin, Top
    <2>5. CASE BeginGather
      <3>1. pc' = "gathering" /\ Pairs(Top) # 0 /\ ~OverBudget(Top)
        BY <2>5 DEF BeginGather
      <3>2. Handled' = Handled
        BY <2>1, <3>1 DEF Handled
      <3>3. GatheringOK'
        BY <1>1, <2>1, <2>4, <3>1 DEF GatheringOK, PartsAdjoin, OverBudget, Pairs, Length
      <3> QED
        BY <1>1, <2>1, <2>4, <3>1, <3>2, <3>3 DEF Stack, CompleteOK
    <2>6. CASE Skip
      <3>1. pc' = "checking" /\ Pairs(Top) = 0
        BY <2>6 DEF Skip
      <3>2. Handled = Top.lo /\ Handled' = Top.hi
        BY <2>1, <3>1, PoppedAdjoin DEF Handled, Top
      <3>3. upto[Top.lo] = upto[Top.hi]
        BY <2>1, <3>1, TopIsAPart DEF Pairs, TypeOK, Parts
      <3> QED
        BY <1>1, <2>1, <2>4, <3>1, <3>2, <3>3 DEF Stack, GatheringOK, CompleteOK
    <2> QED
      BY <1>5, <2>5, <2>6
  <1>6. CASE YieldPiece
    <2>1. /\ pc = "gathering" /\ pc' = "yielded"
          /\ UNCHANGED <<pulled, parts, part>>
          /\ outputRows' = outputRows + Pairs(part)
      BY <1>6 DEF YieldPiece
    <2>2. Handled = part.lo /\ Handled' = part.hi
      BY <2>1 DEF Handled, PartsAdjoin, Top
    <2>3. outputRows' = upto[part.hi]
      BY <2>1, <2>2 DEF Pairs, TypeOK, Parts
    <2> QED
      BY <1>1, <2>1, <2>2, <2>3 DEF Stack, PartsAdjoin, GatheringOK, CompleteOK, Top
  <1>7. CASE Cancel \/ UNCHANGED vars
    <2>1. UNCHANGED <<pc, parts, part, pulled, outputRows>>
      BY <1>7 DEF Cancel, vars
    <2> QED
      BY <1>1, <2>1 DEF Stack, PartsAdjoin, GatheringOK, CompleteOK, Handled, Top,
         OverBudget, Pairs, Length
  <1> QED
    BY <1>2, <1>3, <1>4, <1>5, <1>6, <1>7 DEF Next, Step

(* What the loop lets through to be gathered.                              *)
LEMMA GatheredWithinBudget ==
  ASSUME TypeOK, CountsOK, GatheringOK, pc = "gathering"
  PROVE  /\ Pairs(part) \in Nat \ {0}
         /\ Pairs(part) <= budget \/ (Length(part) = 1 /\ Pairs(part) <= grouped)
  <1>1. /\ part.lo \in Nat /\ part.hi \in Nat /\ part.lo < part.hi
        /\ part.lo \in Rows /\ part.hi \in Rows
        /\ Pairs(part) # 0
        /\ ~(Pairs(part) > budget /\ Length(part) > 1)
    BY DEF GatheringOK, OverBudget, TypeOK, Parts, Rows
  <1>2. upto[part.lo] \in Nat /\ upto[part.hi] \in Nat /\ upto[part.lo] <= upto[part.hi]
    BY <1>1 DEF CountsOK, TypeOK
  <1>3. CASE Length(part) > 1
    <2>1. Pairs(part) \in Nat /\ budget \in Nat
      BY <1>2 DEF Pairs, TypeOK
    <2> QED
      BY <1>1, <1>3, <2>1
  <1>4. CASE Length(part) = 1
    <2>1. part.lo = part.hi - 1 /\ part.hi > 0
      BY <1>1, <1>4 DEF Length
    <2>2. upto[part.hi] - upto[part.lo] <= grouped
      BY <1>1, <2>1 DEF CountsOK
    <2> QED
      BY <1>1, <1>2, <1>4, <2>2 DEF Pairs
  <1> QED
    BY <1>1, <1>3, <1>4 DEF Length

LEMMA PiecesAreParts ==
  ASSUME TypeOK
  PROVE  \A i \in 1..Len(pieces) : pieces[i].hi \in Nat
  <1> SUFFICES ASSUME NEW i \in 1..Len(pieces) PROVE pieces[i].hi \in Nat
    OBVIOUS
  <1>1. pieces[i] \in Parts
    BY DEF TypeOK
  <1> QED
    BY <1>1 DEF Parts, Rows

LEMMA HandledIsARow == TypeOK => Handled \in Nat
  <1> SUFFICES ASSUME TypeOK PROVE Handled \in Nat
    OBVIOUS
  <1>1. part.lo \in Nat /\ pulled \in Nat
    BY DEF TypeOK, Parts, Rows
  <1>2. parts # <<>> => Top.lo \in Nat
    <2> SUFFICES ASSUME parts # <<>> PROVE Top.lo \in Nat
      OBVIOUS
    <2>1. Len(parts) \in Nat \ {0}
      BY EmptySeq DEF TypeOK
    <2>2. Top \in Parts
      BY <2>1 DEF Top, TypeOK
    <2> QED
      BY <2>2 DEF Parts, Rows
  <1> QED
    BY <1>1, <1>2 DEF Handled

(* No step takes back a row: only Skip passes rows without a piece.        *)
LEMMA HandledGrows ==
  ASSUME IInv, [Next]_vars, ~YieldPiece
  PROVE  Handled' \in Nat /\ Handled <= Handled'
  <1> USE DEF IInv
  <1>1. Handled \in Nat
    BY HandledIsARow
  <1>2. CASE Resume \/ Close \/ PullRaises \/ FeedEnds \/ CheckRaises
    <2>1. UNCHANGED <<parts, pulled>> /\ pc # "gathering" /\ pc' # "gathering"
      BY <1>2 DEF Resume, Close, PullRaises, FeedEnds, CheckRaises
    <2> QED
      BY <1>1, <2>1 DEF Handled, Top
  <1>3. CASE PullFeed
    <2>1. PICK stop \in pulled + 1 .. fedRows :
            parts' = <<[lo |-> pulled, hi |-> stop]>>
      BY <1>3 DEF PullFeed
    <2>2. Handled' = Handled
      BY <1>3, <2>1 DEF PullFeed, Handled, Top
    <2> QED
      BY <1>1, <2>2
  <1>4. CASE Split
    <2>1. parts # <<>> /\ Length(Top) > 1 /\ parts' = Halved(Top) /\ pc = "checking" /\ pc' = pc
      BY <1>4 DEF Split, OverBudget
    <2> QED
      BY <1>1, <2>1, HalvedAdjoin DEF Handled, Top
  <1>5. CASE Skip
    <2>1. parts # <<>> /\ parts' = Popped /\ pulled' = pulled /\ pc = "checking" /\ pc' = pc
      BY <1>5 DEF Skip
    <2>2. Handled = Top.lo /\ Handled' = Top.hi
      BY <2>1, PoppedAdjoin DEF Handled, Top
    <2>3. Top.lo \in Nat /\ Top.hi \in Nat /\ Top.lo < Top.hi
      <3>1. Top \in Parts /\ Top.lo < Top.hi
        BY <2>1, TopIsAPart
      <3> QED
        BY <3>1 DEF Parts, Rows
    <2> QED
      BY <2>2, <2>3
  <1>6. CASE BeginGather
    BY <1>1, <1>6 DEF BeginGather, Handled
  <1>7. CASE Cancel \/ UNCHANGED vars
    BY <1>1, <1>7 DEF Cancel, vars, Handled, Top
  <1> QED
    BY <1>2, <1>3, <1>4, <1>5, <1>6, <1>7 DEF Next, Step

LEMMA PiecesStep ==
  IInv /\ [Next]_vars => PiecesInOrder' /\ PiecesWithinBudget'
  <1> SUFFICES ASSUME IInv, [Next]_vars PROVE PiecesInOrder' /\ PiecesWithinBudget'
    OBVIOUS
  <1> USE DEF IInv
  <1>1. upto' = upto /\ grouped' = grouped /\ budget' = budget
    BY DEF Next, Step, Resume, Close, PullFeed, PullRaises, FeedEnds, CheckRaises, Split,
       Skip, BeginGather, YieldPiece, Cancel, vars, data
  <1>2. CASE YieldPiece
    <2>1. /\ pc = "gathering" /\ pc' = "yielded"
          /\ UNCHANGED <<pulled, parts, part>>
          /\ pieces' = Append(pieces, part)
      BY <1>2 DEF YieldPiece
    <2>2. /\ Len(pieces) \in Nat
          /\ Len(pieces') = Len(pieces) + 1
          /\ pieces'[Len(pieces) + 1] = part
          /\ \A i \in 1..Len(pieces) : pieces'[i] = pieces[i]
      BY <2>1 DEF TypeOK
    <2>3. Handled = part.lo /\ Handled' = part.hi
      BY <2>1 DEF Handled, PartsAdjoin, Top
    <2>4. part.lo < part.hi /\ part.lo \in Nat /\ part.hi \in Nat
      BY <2>1 DEF GatheringOK, TypeOK, Parts, Rows
    <2>5. \A i \in 1..Len(pieces) : pieces[i].hi \in Nat
      BY PiecesAreParts
    <2>6. PiecesInOrder'
      <3> SUFFICES ASSUME NEW i \in 1..Len(pieces')
                   PROVE  /\ pieces'[i].lo < pieces'[i].hi
                          /\ pieces'[i].hi <= part.hi
                          /\ \A j \in i+1..Len(pieces') : pieces'[i].hi <= pieces'[j].lo
        BY <2>3 DEF PiecesInOrder
      <3>1. CASE i = Len(pieces) + 1
        BY <2>2, <2>4, <3>1
      <3>2. CASE i \in 1..Len(pieces)
        <4>1. /\ pieces'[i] = pieces[i]
              /\ pieces[i].lo < pieces[i].hi
              /\ pieces[i].hi <= part.lo
          BY <2>2, <2>3, <3>2 DEF PiecesInOrder
        <4>2. ASSUME NEW j \in i+1..Len(pieces')
              PROVE  pieces[i].hi <= pieces'[j].lo
          <5>1. CASE j = Len(pieces) + 1
            BY <2>2, <4>1, <5>1
          <5>2. CASE j \in i+1..Len(pieces)
            BY <2>2, <3>2, <5>2 DEF PiecesInOrder
          <5> QED
            BY <2>2, <3>2, <5>1, <5>2
        <4> QED
          BY <2>4, <2>5, <3>2, <4>1, <4>2
      <3> QED
        BY <2>2, <3>1, <3>2
    <2>7. PiecesWithinBudget'
      <3>1. Pairs(part) <= budget \/ (Length(part) = 1 /\ Pairs(part) <= grouped)
        BY <2>1, GatheredWithinBudget
      <3> SUFFICES ASSUME NEW i \in 1..Len(pieces')
                   PROVE  \/ Pairs(pieces'[i]) <= budget
                          \/ Length(pieces'[i]) = 1 /\ Pairs(pieces'[i]) <= grouped
        BY <1>1 DEF PiecesWithinBudget, Pairs, Length
      <3>2. CASE i = Len(pieces) + 1
        BY <2>2, <3>1, <3>2
      <3>3. CASE i \in 1..Len(pieces)
        BY <2>2, <3>3 DEF PiecesWithinBudget
      <3> QED
        BY <2>2, <3>2, <3>3
    <2> QED
      BY <2>6, <2>7
  <1>3. CASE ~YieldPiece
    <2>1. pieces' = pieces
      BY <1>3 DEF Next, Step, Resume, Close, PullFeed, PullRaises, FeedEnds, CheckRaises,
         Split, Skip, BeginGather, Cancel, vars
    <2>2. Handled' \in Nat /\ Handled <= Handled'
      BY <1>3, HandledGrows
    <2>3. Handled \in Nat
      BY HandledIsARow
    <2>4. \A i \in 1..Len(pieces) : pieces[i].hi \in Nat
      BY PiecesAreParts
    <2>5. PiecesInOrder'
      BY <2>1, <2>2, <2>3, <2>4 DEF PiecesInOrder
    <2> QED
      BY <1>1, <2>1, <2>5 DEF PiecesWithinBudget, Pairs, Length
  <1> QED
    BY <1>2, <1>3

(* A cancelled token lets the gather in hand finish and no other begin.    *)
LEMMA CancelStep == IInv /\ [Next]_vars => CancelOK'
  <1> SUFFICES ASSUME IInv, [Next]_vars PROVE CancelOK'
    OBVIOUS
  <1> USE DEF IInv
  <1>1. Len(pieces) \in Nat /\ seenAtCancel \in Nat
    BY DEF TypeOK
  <1>2. CASE Cancel
    BY <1>1, <1>2 DEF Cancel, CancelOK
  <1>3. CASE YieldPiece
    <2>1. Len(pieces') = Len(pieces) + 1
      BY <1>3 DEF YieldPiece, TypeOK
    <2> QED
      BY <1>1, <1>3, <2>1 DEF YieldPiece, CancelOK, token
  <1>4. CASE BeginGather
    BY <1>4 DEF BeginGather, Checked, CancelOK, token
  <1>5. CASE Resume \/ Close \/ PullFeed \/ PullRaises \/ FeedEnds \/ CheckRaises \/ Split \/ Skip
    <2>1. UNCHANGED <<pieces, token>> /\ (pc' = "gathering" => pc = "gathering")
      BY <1>5 DEF Resume, Close, PullFeed, PullRaises, FeedEnds, CheckRaises, Split, Skip
    <2> QED
      BY <1>1, <2>1 DEF CancelOK, token
  <1>6. CASE UNCHANGED vars
    BY <1>6 DEF vars, CancelOK, token
  <1> QED
    BY <1>2, <1>3, <1>4, <1>5, <1>6 DEF Next, Step

THEOREM Inductive == Spec => []IInv
  <1>1. Init => IInv
    BY InitEstablishes
  <1>2. IInv /\ [Next]_vars => IInv'
    BY TypeStep, StackStep, PiecesStep, CancelStep DEF IInv, Stack
  <1> QED
    BY <1>1, <1>2, PTL DEF Spec

-----------------------------------------------------------------------------
(* The variables keep their types (_gather_pieces' own state).             *)
THEOREM TypeCorrect == Spec => []TypeOK
  BY Inductive, PTL DEF IInv

(* However the parts of the feed are split, a stream that runs to its end  *)
(* has gathered every pair of the join.                                    *)
THEOREM NothingLost == Spec => []NoPairLost
  <1>1. IInv => NoPairLost
    BY DEF IInv, NoPairLost, CompleteOK, Handled
  <1> QED
    BY <1>1, Inductive, PTL

(* No piece holds more than pair_budget pairs, or one row's.               *)
THEOREM MemoryBound == Spec => []PiecesWithinBudget
  BY Inductive, PTL DEF IInv

(* The pieces follow the fed side's rows, none gathered twice.             *)
THEOREM RowOrder == Spec => []PiecesInOrder
  BY Inductive, PTL DEF IInv

(* After token.cancel() at most one more piece is delivered.               *)
THEOREM PromptCancel == Spec => []CancelStopsWithinAPiece
  <1>1. IInv => CancelStopsWithinAPiece
    BY DEF IInv, CancelOK, CancelStopsWithinAPiece
  <1> QED
    BY <1>1, Inductive, PTL

-----------------------------------------------------------------------------
(* The generator implements the stream's promise: YieldPiece is Deliver,   *)
(* the exhausted feed Complete, every other end Stop.                      *)

LEMMA InitRefines == Init => Stream!Init
  <1> SUFFICES ASSUME Init PROVE Stream!Init
    OBVIOUS
  <1>1. TypeOK /\ upto[fedRows] \in Nat
    BY InitEstablishes DEF IInv, TypeOK, Rows
  <1> QED
    BY <1>1 DEF Init, Stream!Init, TypeOK

LEMMA StepRefines == IInv /\ IInv' /\ [Next]_vars => [Stream!Next]_Stream!vars
  <1> SUFFICES ASSUME IInv, IInv', [Next]_vars PROVE [Stream!Next]_Stream!vars
    OBVIOUS
  <1> DEFINE promised(state) ==
               CASE state = "complete" -> "complete"
                 [] state \in {"raised", "closed"} -> "stopped"
                 [] OTHER -> "open"
  <1>1. UNCHANGED <<fedRows, upto, grouped, budget>>
    BY DEF Next, Step, Resume, Close, PullFeed, PullRaises, FeedEnds, CheckRaises, Split,
       Skip, BeginGather, YieldPiece, Cancel, vars, data
  <1>2. CASE YieldPiece
    <2>1. /\ pc = "gathering" /\ pc' = "yielded"
          /\ outputRows' = outputRows + Pairs(part)
          /\ Handled' = part.hi
      BY <1>2 DEF YieldPiece, Handled, IInv, PartsAdjoin, Top
    <2>2. /\ Pairs(part) \in Nat \ {0}
          /\ Pairs(part) <= budget \/ Pairs(part) <= grouped
      BY <2>1, GatheredWithinBudget DEF IInv
    <2>3. outputRows \in Nat /\ budget \in Nat /\ grouped \in Nat /\ fedRows \in Nat
      BY DEF IInv, TypeOK
    <2>4. outputRows' <= upto[fedRows]
      <3>1. outputRows' = upto[part.hi]
        BY <1>1, <2>1 DEF IInv
      <3>2. part.hi \in Rows
        BY DEF IInv, TypeOK, Parts
      <3> QED
        BY <2>3, <3>1, <3>2 DEF IInv, CountsOK, Rows
    <2> QED
      BY <1>1, <2>1, <2>2, <2>3, <2>4 DEF Stream!Next, Stream!Deliver
  <1>3. CASE FeedEnds
    <2>1. outputRows = upto[fedRows] /\ outputRows' = outputRows
      BY <1>3 DEF FeedEnds, FeedExhausted, IInv, Handled
    <2> QED
      BY <1>1, <1>3, <2>1 DEF FeedEnds, Stream!Next, Stream!Complete
  <1>4. CASE PullRaises \/ CheckRaises \/ Close
    BY <1>1, <1>4 DEF PullRaises, CheckRaises, Close, Stream!Next, Stream!Stop
  <1>5. CASE Resume \/ PullFeed \/ Split \/ Skip \/ BeginGather \/ Cancel \/ UNCHANGED vars
    <2>1. outputRows' = outputRows /\ promised(pc') = promised(pc)
      BY <1>5 DEF Resume, PullFeed, Split, Skip, BeginGather, Cancel, vars
    <2> QED
      BY <1>1, <2>1 DEF Stream!vars
  <1> QED
    BY <1>2, <1>3, <1>4, <1>5 DEF Next, Step

THEOREM Refinement == Spec => IsJoinStream
  <1>1. Init => Stream!Init
    BY InitRefines
  <1>2. IInv /\ IInv' /\ [Next]_vars => [Stream!Next]_Stream!vars
    BY StepRefines
  <1> QED
    BY <1>1, <1>2, Inductive, PTL DEF Spec, IsJoinStream, Stream!Spec

-----------------------------------------------------------------------------
(* Every set of naturals has a least element, and a bounded one a largest. *)

Less == {ij \in Nat \X Nat : ij[1] < ij[2]}

LEMMA LessIsWellFounded == IsWellFoundedOn(Less, Nat)
BY NatLessThanWellFounded DEF OpToRel, Less

LEMMA Least ==
  ASSUME NEW T \in SUBSET Nat, T # {}
  PROVE  \E i \in T : \A j \in T : i <= j
<1>1. T \subseteq Nat
  OBVIOUS
<1>2. \E i \in T : \A j \in T : ~ (<<j, i>> \in Less)
  BY <1>1, LessIsWellFounded, WFMin, Zenon
<1>3. ASSUME NEW i \in T, NEW j \in T, <<j, i>> \notin Less
      PROVE  i <= j
  <2>1. j < i => <<j, i>> \in Less
    BY DEF Less
  <2> QED BY <2>1, <1>3
<1> QED BY <1>2, <1>3, Zenon

LEMMA Largest ==
  ASSUME NEW n \in Nat, NEW T \in SUBSET (0..n), T # {}
  PROVE  \E i \in T : \A j \in T : j <= i
<1> DEFINE U == {n - i : i \in T}
<1>1. U \in SUBSET Nat /\ U # {}
  <2>1. PICK i \in T : TRUE
    OBVIOUS
  <2>2. n - i \in U
    BY <2>1
  <2>3. \A j \in T : n - j \in Nat
    OBVIOUS
  <2> QED BY <2>2, <2>3
<1>2. PICK d \in U : \A e \in U : d <= e
  BY <1>1, Least
<1>3. PICK i \in T : d = n - i
  OBVIOUS
<1>4. ASSUME NEW j \in T PROVE j <= i
  <2>1. n - j \in U
    OBVIOUS
  <2> QED BY <2>1, <1>2, <1>3
<1> QED BY <1>4

LEMMA FunctionIsSequence ==
  ASSUME NEW S, NEW n \in Nat, NEW f \in [1..n -> S]
  PROVE  f \in Seq(S)
OBVIOUS

LEMMA SequencesGrow ==
  ASSUME NEW S, NEW T, S \subseteq T
  PROVE  Seq(S) \subseteq Seq(T)
BY SeqMonotonic

-----------------------------------------------------------------------------
RowSet(s) == {s[k] : k \in 1..Len(s)}

LEMMA AppendedSet ==
  ASSUME NEW S, NEW s \in Seq(S), NEW e
  PROVE  RowSet(Append(s, e)) = RowSet(s) \cup {e}
<1>1. Append(s, e) \in Seq(S \cup {e}) /\ Len(s) \in Nat
  <2>1. s \in Seq(S \cup {e})
    BY SequencesGrow
  <2> QED BY <2>1
<1>2. /\ Len(Append(s, e)) = Len(s) + 1
      /\ \A k \in 1..Len(s) : Append(s, e)[k] = s[k]
      /\ Append(s, e)[Len(s) + 1] = e
  OBVIOUS
<1>3. \A k \in 1..Len(s) + 1 : k \in 1..Len(s) \/ k = Len(s) + 1
  BY <1>1
<1>4. \A k \in 1..Len(s) : k \in 1..Len(s) + 1
  BY <1>1
<1>5. Len(s) + 1 \in 1..Len(s) + 1
  BY <1>1
<1> QED BY <1>2, <1>3, <1>4, <1>5 DEF RowSet

-----------------------------------------------------------------------------
(* What each reader knows between two steps.                               *)

FirstRows(n) == {i \in 1..n : \A j \in 1..i-1 : match[j] # match[i]}

LastOK == last = IF read = 0 THEN NoTriple ELSE match[read]

(* The triple one_per_triple is on is that of the last row it read, with   *)
(* all of its rows so far; every other one it read is yielded.             *)
OnTriple ==
  /\ merged = 0 => triple = NoTriple
  /\ merged > 0 => triple = match[merged] /\ RowSet(rows) = RowsOf(triple, merged)

YieldedWhole ==
  /\ \A i \in 1..Len(yielded) :
       /\ RowSet(yielded[i][2]) = RowsOf(yielded[i][1], Len(match))
       /\ \A j \in 1..i-1 : yielded[j][1] # yielded[i][1]
       /\ \E k \in 1..merged : yielded[i][1] = match[k]
       /\ ~done => yielded[i][1] # triple
  /\ \A k \in 1..merged :
       \/ ~done /\ match[k] = triple
       \/ \E i \in 1..Len(yielded) : yielded[i][1] = match[k]
  /\ done => merged = Len(match)

DistinctInv == kept = FirstRows(read) /\ LastOK
MergeInv == OnTriple /\ YieldedWhole

-----------------------------------------------------------------------------

THEOREM UnionTypeCorrect == UnionSpec => []UnionTypeOK
<1>1. UnionInit => UnionTypeOK
  <2> SUFFICES ASSUME UnionInit PROVE UnionTypeOK
    OBVIOUS
  <2>1. PICK n \in 0..MaxMatched : match \in [1..n -> Triples]
    BY DEF UnionInit
  <2>2. n \in Nat
    BY UnionAssumption
  <2>3. match \in Seq(Triples) /\ Len(match) \in Nat
    BY <2>1, <2>2, FunctionIsSequence
  <2>4. rows \in Seq(1..merged) /\ yielded \in Seq(Triples \X Seq(1..merged))
    BY DEF UnionInit
  <2>5. read \in 0..Len(match) /\ merged \in 0..Len(match) /\ kept \in SUBSET (1..read)
    BY <2>3 DEF UnionInit
  <2> QED BY <2>3, <2>4, <2>5 DEF UnionInit, UnionTypeOK
<1>2. UnionTypeOK /\ [UnionNext]_unionVars => UnionTypeOK'
  <2> SUFFICES ASSUME UnionTypeOK, [UnionNext]_unionVars PROVE UnionTypeOK'
    OBVIOUS
  <2>1. CASE ReadChunk
    <3>1. PICK stop \in read .. Len(match) :
            LET new == Fresh(read + 1 .. stop)
            IN  /\ read' = stop
                /\ kept' = kept \cup new
                /\ last' = IF new = {} THEN last
                           ELSE match[CHOOSE i \in new : \A j \in new : j <= i]
                /\ UNCHANGED <<match, merge>>
      BY <2>1 DEF ReadChunk
    <3> DEFINE new == Fresh(read + 1 .. stop)
    <3>2. new \in SUBSET (1..stop)
      BY DEF Fresh, RunStarts, UnionTypeOK
    <3>3. last' \in Triples \cup {NoTriple}
      <4>1. CASE new = {}
        BY <4>1, <3>1 DEF UnionTypeOK
      <4>2. CASE new # {}
        <5>1. new \in SUBSET (0..stop) /\ stop \in Nat
          BY <3>2 DEF UnionTypeOK
        <5>2. \E i \in new : \A j \in new : j <= i
          BY <5>1, <4>2, Largest
        <5>3. (CHOOSE i \in new : \A j \in new : j <= i) \in 1..Len(match)
          BY <5>2, <3>2 DEF UnionTypeOK
        <5> QED BY <5>3, <3>1, <4>2 DEF UnionTypeOK
      <4> QED BY <4>1, <4>2
    <3>4. read' \in 0..Len(match)
      BY <3>1 DEF UnionTypeOK
    <3>6. kept' \in SUBSET (1..read')
      <4>1. read \in Nat /\ read <= stop /\ stop \in Nat
        BY DEF UnionTypeOK
      <4>2. kept \in SUBSET (1..stop)
        BY <4>1 DEF UnionTypeOK
      <4> QED BY <3>1, <3>2, <4>2
    <3>5. UNCHANGED <<match, merged, triple, rows, yielded, done>>
      BY <3>1 DEF merge
    <3> QED BY <3>3, <3>4, <3>5, <3>6 DEF UnionTypeOK
  <2>2. CASE MergeRow
    <3>1. merged' \in 0..Len(match) /\ merged' = merged + 1 /\ merged + 1 \in 1..Len(match)
      BY <2>2 DEF MergeRow, UnionTypeOK
    <3>2. Seq(1..merged) \subseteq Seq(1..merged')
      <4>1. 1..merged \subseteq 1..merged'
        BY <3>1 DEF UnionTypeOK
      <4> QED BY <4>1, SequencesGrow
    <3>3. rows' \in Seq(1..merged')
      <4>1. rows \in Seq(1..merged') /\ merged + 1 \in 1..merged'
        BY <3>1, <3>2 DEF UnionTypeOK
      <4>2. Append(rows, merged + 1) \in Seq(1..merged') /\ <<merged + 1>> \in Seq(1..merged')
        BY <4>1
      <4>3. rows' = Append(rows, merged + 1) \/ rows' = <<merged + 1>>
        BY <2>2 DEF MergeRow
      <4> QED BY <4>2, <4>3
    <3>4. yielded \in Seq(Triples \X Seq(1..merged'))
      <4>1. Triples \X Seq(1..merged) \subseteq Triples \X Seq(1..merged')
        BY <3>2, Zenon
      <4>2. Seq(Triples \X Seq(1..merged)) \subseteq Seq(Triples \X Seq(1..merged'))
        BY <4>1, SequencesGrow
      <4> QED BY <4>2 DEF UnionTypeOK
    <3>5. yielded' \in Seq(Triples \X Seq(1..merged'))
      <4>1. triple # NoTriple => <<triple, rows>> \in Triples \X Seq(1..merged')
        BY <3>2 DEF UnionTypeOK
      <4>2. Yield \in Seq(Triples \X Seq(1..merged'))
        BY <4>1, <3>4 DEF Yield
      <4> QED BY <4>2, <3>4, <2>2 DEF MergeRow
    <3>6. triple' \in Triples \cup {NoTriple}
      BY <2>2, <3>1 DEF MergeRow, UnionTypeOK
    <3> QED BY <2>2, <3>1, <3>3, <3>5, <3>6 DEF MergeRow, UnionTypeOK, distinct
  <2>3. CASE MergeEnds
    BY <2>3 DEF MergeEnds, LastYielded, Yield, UnionTypeOK, distinct
  <2>4. CASE UNCHANGED unionVars
    BY <2>4 DEF unionVars, distinct, merge, UnionTypeOK
  <2> QED BY <2>1, <2>2, <2>3, <2>4 DEF UnionNext
<1> QED BY <1>1, <1>2, PTL DEF UnionSpec

-----------------------------------------------------------------------------
(* distinct_chunks.  A row of a chunk is fresh just when it is the first   *)
(* of its triple, in the chunk and before it.                              *)

LEMMA FreshAreFirst ==
  ASSUME UnionTypeOK, Adjacent(match), LastOK,
         NEW stop \in read .. Len(match), NEW i \in read + 1 .. stop
  PROVE  i \in Fresh(read + 1 .. stop) <=> i \in FirstRows(stop)
<1>1. /\ i \in 1..Len(match) /\ i \in 1..stop /\ stop \in Nat /\ read \in Nat
      /\ match[i] \in Triples
  BY DEF UnionTypeOK
<1>2. i \in FirstRows(stop) <=> \A j \in 1..i-1 : match[j] # match[i]
  BY <1>1 DEF FirstRows
<1>3. ASSUME NEW j \in 1..i-1, match[j] = match[i]
      PROVE  i - 1 \in 1..i-1 /\ match[i - 1] = match[i]
  BY <1>1, <1>3 DEF Adjacent
<1>4. CASE i = read + 1
  <2>1. i \in Fresh(read + 1 .. stop) <=> match[i] # last
    BY <1>1, <1>4 DEF Fresh, RunStarts
  <2>2. CASE read = 0
    BY <2>1, <2>2, <1>1, <1>2, <1>4, UnionAssumption DEF LastOK
  <2>3. CASE read # 0
    <3>1. last = match[i - 1] /\ i - 1 \in 1..i-1
      BY <2>3, <1>1, <1>4 DEF LastOK
    <3> QED BY <3>1, <2>1, <1>2, <1>3
  <2> QED BY <2>2, <2>3
<1>5. CASE i # read + 1
  <2>1. i - 1 \in read + 1 .. stop /\ i - 1 \in 1..i-1
    BY <1>1, <1>5
  <2>2. i \in Fresh(read + 1 .. stop) <=> match[i - 1] # match[i]
    BY <2>1 DEF Fresh, RunStarts
  <2> QED BY <2>1, <2>2, <1>2, <1>3
<1> QED BY <1>4, <1>5

(* The triple of a chunk's last row has a first row: in the chunk, and the *)
(* chunk's last fresh row is of that triple too, or before it, and then    *)
(* every row of the chunk is of that triple.                               *)
LEMMA LastKept ==
  ASSUME UnionTypeOK, Adjacent(match), LastOK,
         NEW stop \in read .. Len(match),
         NEW new, new = Fresh(read + 1 .. stop)
  PROVE  (IF new = {} THEN last
          ELSE match[CHOOSE i \in new : \A j \in new : j <= i])
           = IF stop = 0 THEN NoTriple ELSE match[stop]
<1>1. read \in Nat /\ stop \in Nat /\ read <= stop /\ stop <= Len(match) /\ Len(match) \in Nat
  BY DEF UnionTypeOK
<1>2. \A i \in read + 1 .. stop : i \in new <=> i \in FirstRows(stop)
  BY FreshAreFirst
<1>3. new \in SUBSET (read + 1 .. stop)
  BY DEF Fresh, RunStarts
<1>4. CASE stop = read
  <2>1. new = {}
    BY <1>1, <1>3, <1>4
  <2> QED BY <2>1, <1>4 DEF LastOK
<1>5. CASE stop # read
  <2> DEFINE same == {i \in 1..stop : match[i] = match[stop]}
  <2>1. same \in SUBSET Nat /\ same # {}
    BY <1>1, <1>5
  <2>2. PICK f \in same : \A i \in same : f <= i
    BY <2>1, Least
  <2>3. f \in 1..stop /\ match[f] = match[stop]
    BY <2>2
  <2>4. \A i \in f..stop : match[i] = match[stop]
    <3>1. f = stop \/ f < stop
      BY <2>3, <1>1
    <3>2. f \in 1..Len(match) /\ stop \in 1..Len(match)
      BY <2>3, <1>1
    <3> QED BY <3>1, <3>2, <2>3 DEF Adjacent
  <2>5. f \in FirstRows(stop)
    BY <2>2, <2>3 DEF FirstRows
  <2>6. CASE f > read
    <3>1. f \in new
      BY <2>6, <2>3, <2>5, <1>1, <1>2
    <3>2. new \in SUBSET (0..stop)
      BY <1>1, <1>3
    <3>3. \E i \in new : \A j \in new : j <= i
      BY <3>1, <3>2, <1>1, Largest
    <3> DEFINE m == CHOOSE i \in new : \A j \in new : j <= i
    <3>4. m \in new /\ \A j \in new : j <= m
      BY <3>3
    <3>5. m \in f..stop
      BY <3>1, <3>4, <1>3, <2>3, <1>1
    <3> QED BY <3>1, <3>5, <2>4, <1>5, <1>1
  <2>7. CASE f <= read
    <3>1. read > 0 /\ match[read] = match[stop]
      BY <2>7, <2>3, <2>4, <1>1
    <3>2. ASSUME NEW i \in new PROVE FALSE
      <4>1. i \in read + 1 .. stop /\ i \in FirstRows(stop)
        BY <1>2, <1>3
      <4>2. f \in 1..i-1 /\ match[f] = match[i]
        BY <4>1, <2>3, <2>4, <2>7, <1>1
      <4> QED BY <4>1, <4>2 DEF FirstRows
    <3> QED BY <3>1, <3>2, <1>1, <1>5 DEF LastOK
  <2> QED BY <2>6, <2>7, <2>3, <1>1
<1> QED BY <1>4, <1>5

(* The chunks keep the first row of every triple, wherever they cut it.    *)
THEOREM FirstRowsKept == UnionSpec => []KeepsFirstRows
<1>1. UnionInit => Adjacent(match) /\ DistinctInv
  BY DEF UnionInit, DistinctInv, LastOK, FirstRows
<1>2. UnionTypeOK /\ Adjacent(match) /\ DistinctInv /\ [UnionNext]_unionVars => Adjacent(match)' /\ DistinctInv'
  <2> SUFFICES ASSUME UnionTypeOK, Adjacent(match), DistinctInv, [UnionNext]_unionVars
               PROVE  Adjacent(match)' /\ DistinctInv'
    OBVIOUS
  <2>1. match' = match
    BY DEF UnionNext, ReadChunk, MergeRow, MergeEnds, unionVars
  <2>2. Adjacent(match)'
    BY <2>1 DEF Adjacent
  <2>3. CASE ReadChunk
    <3>1. PICK stop \in read .. Len(match) :
            LET new == Fresh(read + 1 .. stop)
            IN  /\ read' = stop
                /\ kept' = kept \cup new
                /\ last' = IF new = {} THEN last
                           ELSE match[CHOOSE i \in new : \A j \in new : j <= i]
                /\ UNCHANGED <<match, merge>>
      BY <2>3 DEF ReadChunk
    <3> DEFINE new == Fresh(read + 1 .. stop)
    <3>2. LastOK /\ kept = FirstRows(read)
      BY DEF DistinctInv
    <3>3. LastOK'
      <4>1. last' = IF stop = 0 THEN NoTriple ELSE match[stop]
        BY <3>1, <3>2, LastKept
      <4> QED BY <4>1, <3>1, <2>1 DEF LastOK
    <3>4. kept \cup new = FirstRows(stop)
      <4>1. read \in Nat /\ stop \in Nat /\ read <= stop
        BY DEF UnionTypeOK
      <4>2. \A i \in read + 1 .. stop : i \in new <=> i \in FirstRows(stop)
        BY <3>2, FreshAreFirst
      <4>3. new \subseteq read + 1 .. stop
        BY DEF Fresh, RunStarts
      <4>4. \A i \in 1..read : i \in FirstRows(read) <=> i \in FirstRows(stop)
        BY <4>1 DEF FirstRows
      <4>5. FirstRows(read) \subseteq 1..read /\ FirstRows(stop) \subseteq 1..stop
        BY DEF FirstRows
      <4>6. \A i \in 1..stop : i \in 1..read \/ i \in read + 1 .. stop
        BY <4>1
      <4>7. 1..read \subseteq 1..stop /\ read + 1 .. stop \subseteq 1..stop
        BY <4>1
      <4> HIDE DEF new
      <4> QED BY <4>2, <4>3, <4>4, <4>5, <4>6, <4>7, <3>2, Zenon
    <3>5. FirstRows(stop) = FirstRows(read)'
      BY <3>1, <2>1 DEF FirstRows
    <3> QED BY <2>2, <3>1, <3>3, <3>4, <3>5 DEF DistinctInv
  <2>4. CASE MergeRow \/ MergeEnds \/ UNCHANGED unionVars
    <3>1. UNCHANGED <<match, read, last, kept>>
      BY <2>4 DEF MergeRow, MergeEnds, unionVars, distinct
    <3> QED BY <3>1, <2>2 DEF DistinctInv, LastOK, FirstRows
  <2> QED BY <2>3, <2>4 DEF UnionNext
<1>3. DistinctInv => KeepsFirstRows
  BY DEF DistinctInv, FirstRows, KeepsFirstRows
<1> QED BY <1>1, <1>2, <1>3, UnionTypeCorrect, PTL DEF UnionSpec

-----------------------------------------------------------------------------
(* one_per_triple.  A row of another triple ends the rows of the one the   *)
(* reader is on, and is the first of its own.                              *)

LEMMA AnotherTriple ==
  ASSUME UnionTypeOK, Adjacent(match), OnTriple,
         merged < Len(match), match[merged + 1] # triple
  PROVE  /\ \A j \in 1..merged : match[j] # match[merged + 1]
         /\ triple # NoTriple => RowsOf(triple, merged) = RowsOf(triple, Len(match))
<1>1. merged \in Nat /\ Len(match) \in Nat /\ merged + 1 \in 1..Len(match)
  BY DEF UnionTypeOK
<1>2. ASSUME NEW j \in 1..merged, match[j] = match[merged + 1] PROVE FALSE
  <2>1. triple = match[merged] /\ merged \in j .. merged + 1
    BY <1>1, <1>2 DEF OnTriple
  <2> QED BY <2>1, <1>1, <1>2 DEF Adjacent
<1>3. ASSUME triple # NoTriple, NEW k \in merged + 1 .. Len(match), match[k] = triple
      PROVE  FALSE
  <2>1. merged > 0 /\ triple = match[merged]
    BY <1>1, <1>3 DEF OnTriple
  <2>2. merged + 1 \in merged .. k /\ merged \in 1..Len(match) /\ k \in 1..Len(match)
    BY <2>1, <1>1, <1>3
  <2> QED BY <2>1, <2>2, <1>1, <1>3 DEF Adjacent
<1>4. ASSUME triple # NoTriple
      PROVE  RowsOf(triple, merged) = RowsOf(triple, Len(match))
  BY <1>1, <1>3, <1>4 DEF RowsOf
<1> QED BY <1>2, <1>4

(* Once its rows are all read, yielding the triple leaves every row read   *)
(* in what was yielded, each triple once.                                  *)
LEMMA Yielding ==
  ASSUME UnionTypeOK, MergeInv, ~done,
         triple # NoTriple => RowsOf(triple, merged) = RowsOf(triple, Len(match)),
         NEW y, y = Yield
  PROVE  /\ \A i \in 1..Len(y) :
              /\ RowSet(y[i][2]) = RowsOf(y[i][1], Len(match))
              /\ \A j \in 1..i-1 : y[j][1] # y[i][1]
              /\ \E k \in 1..merged : y[i][1] = match[k]
         /\ \A k \in 1..merged : \E i \in 1..Len(y) : y[i][1] = match[k]
<1>1. merged \in Nat /\ Len(yielded) \in Nat
  BY DEF UnionTypeOK
<1>2. CASE triple = NoTriple
  <2>1. merged = 0
    BY <1>1, <1>2, UnionAssumption DEF MergeInv, OnTriple, UnionTypeOK
  <2>2. y = yielded
    BY <1>2 DEF Yield
  <2> QED BY <2>1, <2>2 DEF MergeInv, YieldedWhole
<1>3. CASE triple # NoTriple
  <2>1. merged > 0 /\ triple = match[merged] /\ RowSet(rows) = RowsOf(triple, merged)
    BY <1>1, <1>3 DEF MergeInv, OnTriple
  <2>2. /\ Len(y) = Len(yielded) + 1
        /\ y[Len(y)] = <<triple, rows>>
        /\ \A i \in 1..Len(yielded) : y[i] = yielded[i]
    BY <1>3 DEF Yield, UnionTypeOK
  <2>3. ASSUME NEW i \in 1..Len(y)
        PROVE  /\ RowSet(y[i][2]) = RowsOf(y[i][1], Len(match))
               /\ \A j \in 1..i-1 : y[j][1] # y[i][1]
               /\ \E k \in 1..merged : y[i][1] = match[k]
    <3>1. CASE i = Len(y)
      <4>1. RowSet(y[i][2]) = RowsOf(y[i][1], Len(match))
        BY <3>1, <2>1, <2>2, <1>3
      <4>2. \A j \in 1..i-1 : y[j][1] # triple
        BY <3>1, <2>2, <1>1 DEF MergeInv, YieldedWhole
      <4> QED BY <4>1, <4>2, <3>1, <2>1, <2>2, <1>1
    <3>2. CASE i # Len(y)
      <4>1. i \in 1..Len(yielded) /\ \A j \in 1..i-1 : j \in 1..Len(yielded)
        BY <3>2, <2>2, <1>1
      <4> QED BY <4>1, <2>2 DEF MergeInv, YieldedWhole
    <3> QED BY <3>1, <3>2
  <2>4. ASSUME NEW k \in 1..merged
        PROVE  \E i \in 1..Len(y) : y[i][1] = match[k]
    <3>1. CASE match[k] = triple
      BY <3>1, <2>2, <1>1
    <3>2. CASE match[k] # triple
      <4>1. PICK i \in 1..Len(yielded) : yielded[i][1] = match[k]
        BY <3>2 DEF MergeInv, YieldedWhole
      <4> QED BY <4>1, <2>2, <1>1
    <3> QED BY <3>1, <3>2
  <2> QED BY <2>3, <2>4
<1> QED BY <1>2, <1>3

(* The union's triples() yields a set of triples, each with the contexts   *)
(* of all its rows, and by its end every triple of the match.              *)
THEOREM EachTripleOnce == UnionSpec => []YieldsEachTripleOnce
<1>1. UnionInit => Adjacent(match) /\ MergeInv
  BY DEF UnionInit, MergeInv, OnTriple, YieldedWhole
<1>2. UnionTypeOK /\ Adjacent(match) /\ MergeInv /\ [UnionNext]_unionVars => Adjacent(match)' /\ MergeInv'
  <2> SUFFICES ASSUME UnionTypeOK, Adjacent(match), MergeInv, [UnionNext]_unionVars
               PROVE  Adjacent(match)' /\ MergeInv'
    OBVIOUS
  <2>1. match' = match
    BY DEF UnionNext, ReadChunk, MergeRow, MergeEnds, unionVars
  <2>2. Adjacent(match)'
    BY <2>1 DEF Adjacent
  <2>3. CASE MergeRow
    <3>1. /\ merged < Len(match) /\ merged' = merged + 1 /\ ~done /\ ~done'
          /\ merged \in Nat /\ merged + 1 \in 1..Len(match) /\ match[merged + 1] \in Triples
      BY <2>3 DEF MergeRow, UnionTypeOK, MergeInv, YieldedWhole
    <3>2. CASE match[merged + 1] = triple
      <4>1. /\ rows' = Append(rows, merged + 1) /\ triple' = triple /\ yielded' = yielded
            /\ done' = done
        BY <3>2, <2>3 DEF MergeRow
      <4>2. merged > 0 /\ triple = match[merged] /\ RowSet(rows) = RowsOf(triple, merged)
        BY <3>1, <3>2, UnionAssumption DEF MergeInv, OnTriple
      <4>3. RowSet(Append(rows, merged + 1)) = RowSet(rows) \cup {merged + 1}
        BY AppendedSet DEF UnionTypeOK
      <4>4. RowsOf(triple, merged + 1) = RowsOf(triple, merged) \cup {merged + 1}
        BY <3>1, <3>2 DEF RowsOf
      <4>5. RowSet(rows') = RowsOf(triple', merged')
        BY <4>1, <4>2, <4>3, <4>4, <3>1, <2>1 DEF RowsOf
      <4>6. OnTriple'
        BY <4>1, <4>5, <3>1, <3>2, <2>1 DEF OnTriple, RowSet, RowsOf
      <4>7. YieldedWhole'
        <5>1. \A k \in 1..merged' : k \in 1..merged \/ k = merged + 1
          BY <3>1
        <5>2. 1..merged \subseteq 1..merged'
          BY <3>1
        <5>3. YieldedWhole
          BY DEF MergeInv
        <5>4. \A i \in 1..Len(yielded) :
                /\ RowSet(yielded[i][2]) = RowsOf(yielded[i][1], Len(match))
                /\ \A j \in 1..i-1 : yielded[j][1] # yielded[i][1]
                /\ \E k \in 1..merged' : yielded[i][1] = match[k]
                /\ yielded[i][1] # triple
          BY <5>2, <5>3, <3>1 DEF YieldedWhole
        <5>5. \A k \in 1..merged' :
                match[k] = triple \/ \E i \in 1..Len(yielded) : yielded[i][1] = match[k]
          BY <5>1, <5>3, <3>1, <3>2 DEF YieldedWhole
        <5> QED BY <5>4, <5>5, <4>1, <3>1, <2>1 DEF YieldedWhole, RowSet, RowsOf
      <4> QED BY <2>2, <4>6, <4>7 DEF MergeInv
    <3>3. CASE match[merged + 1] # triple
      <4>1. /\ yielded' = Yield /\ triple' = match[merged + 1] /\ rows' = <<merged + 1>>
            /\ done' = done
        BY <3>3, <2>3 DEF MergeRow
      <4>2. /\ \A j \in 1..merged : match[j] # match[merged + 1]
            /\ triple # NoTriple => RowsOf(triple, merged) = RowsOf(triple, Len(match))
        BY <3>1, <3>3, AnotherTriple DEF MergeInv
      <4>3. /\ \A i \in 1..Len(yielded') :
                 /\ RowSet(yielded'[i][2]) = RowsOf(yielded'[i][1], Len(match))
                 /\ \A j \in 1..i-1 : yielded'[j][1] # yielded'[i][1]
                 /\ \E k \in 1..merged : yielded'[i][1] = match[k]
            /\ \A k \in 1..merged : \E i \in 1..Len(yielded') : yielded'[i][1] = match[k]
        BY <4>1, <4>2, <3>1, Yielding
      <4>4. RowsOf(match[merged + 1], merged + 1) = {merged + 1}
        BY <4>2, <3>1 DEF RowsOf
      <4>5. RowSet(<<merged + 1>>) = {merged + 1}
        BY DEF RowSet
      <4>6. OnTriple'
        BY <4>1, <4>4, <4>5, <3>1, <2>1 DEF OnTriple, RowSet, RowsOf
      <4>7. YieldedWhole'
        <5>1. \A k \in 1..merged' : k \in 1..merged \/ k = merged + 1
          BY <3>1
        <5>2. 1..merged \subseteq 1..merged'
          BY <3>1
        <5>3. \A i \in 1..Len(yielded') : yielded'[i][1] # triple'
          BY <4>1, <4>2, <4>3
        <5> QED BY <5>1, <5>2, <5>3, <4>1, <4>3, <3>1, <2>1, ZenonT(40)
                DEF YieldedWhole, RowSet, RowsOf
      <4> QED BY <2>2, <4>6, <4>7 DEF MergeInv
    <3> QED BY <3>2, <3>3
  <2>4. CASE MergeEnds
    <3>1. /\ merged = Len(match) /\ ~done /\ done' /\ yielded' = Yield
          /\ merged' = merged /\ triple' = triple /\ rows' = rows
      BY <2>4 DEF MergeEnds, LastYielded
    <3>2. /\ \A i \in 1..Len(yielded') :
               /\ RowSet(yielded'[i][2]) = RowsOf(yielded'[i][1], Len(match))
               /\ \A j \in 1..i-1 : yielded'[j][1] # yielded'[i][1]
               /\ \E k \in 1..merged : yielded'[i][1] = match[k]
          /\ \A k \in 1..merged : \E i \in 1..Len(yielded') : yielded'[i][1] = match[k]
      BY <3>1, Yielding
    <3>3. YieldedWhole'
      BY <3>1, <3>2, <2>1 DEF YieldedWhole, RowSet, RowsOf
    <3>4. OnTriple'
      BY <3>1, <2>1 DEF MergeInv, OnTriple, RowSet, RowsOf
    <3> QED BY <2>2, <3>3, <3>4 DEF MergeInv
  <2>5. CASE ReadChunk \/ UNCHANGED unionVars
    <3>1. UNCHANGED <<match, merged, triple, rows, yielded, done>>
      BY <2>5 DEF ReadChunk, unionVars, merge
    <3> QED BY <3>1, <2>2 DEF MergeInv, OnTriple, YieldedWhole, RowSet, RowsOf
  <2> QED BY <2>3, <2>4, <2>5 DEF UnionNext
<1>3. MergeInv => YieldsEachTripleOnce
  BY DEF MergeInv, YieldedWhole, YieldsEachTripleOnce, RowSet
<1> QED BY <1>1, <1>2, <1>3, UnionTypeCorrect, PTL DEF UnionSpec
=============================================================================
