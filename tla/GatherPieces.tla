---------------------------- MODULE GatherPieces ----------------------------
(***************************************************************************)
(* The pieces of a streamed join step: _gather_pieces of                   *)
(* pushdown/streaming.py, over the slices of a side it holds (_slices) or  *)
(* the chunks of a match it reads (match_code_chunks).                     *)
(*                                                                         *)
(* The fed side is rows 1..fedRows; upto[i] is the number of pairs its     *)
(* first i rows make with the grouped side, so the part of rows lo+1..hi   *)
(* counts upto[hi] - upto[lo] pairs (CodeGroups.count).  A part is the     *)
(* record [lo, hi].  The generator is stepped by its consumer (Resume),    *)
(* while another thread may cancel the query's token at any point.         *)
(***************************************************************************)
EXTENDS Integers, Sequences

CONSTANTS
  MaxRows,      \* bound: the rows of the fed side
  MaxGrouped,   \* bound: the rows of the grouped side
  PairBudgets,  \* the values SETTINGS.pair_budget may have
  PieceRows     \* SETTINGS.piece_rows

ASSUME SizesAssumption ==
  /\ MaxRows \in Nat
  /\ MaxGrouped \in Nat
  /\ PairBudgets \subseteq Nat
  /\ PieceRows \in Nat \ {0}

VARIABLES
  fedRows,      \* rows of the fed side
  upto,         \* upto[i]: pairs of the first i fed rows
  grouped,      \* rows of the grouped side
  budget,       \* SETTINGS.pair_budget
  feed,         \* "slices" of a held side, or "chunks" of a native match
  pc,           \* where the generator is
  pulled,       \* fed rows handed over by the feed so far
  parts,        \* the parts still to be gathered of the last pull, a stack: top last
  part,         \* the part popped last
  pieces,       \* the parts gathered so far, in order
  outputRows,   \* the pairs gathered so far
  cancelled,    \* the query's token is cancelled
  seenAtCancel  \* history: the pieces gathered when it was

data == <<fedRows, upto, grouped, budget, feed>>
token == <<cancelled, seenAtCancel>>
vars == <<data, pc, pulled, parts, part, pieces, outputRows, token>>

Rows == 0..fedRows
Parts == [lo : Rows, hi : Rows]

Length(p) == p.hi - p.lo
Pairs(p) == upto[p.hi] - upto[p.lo]

Running == {"checking", "gathering"}
Ended == {"complete", "raised", "closed"}

(* A fed row makes some pairs with the grouped rows, at most all of them.  *)
CountsOK ==
  /\ upto[0] = 0
  /\ \A i, j \in Rows : i <= j => upto[i] <= upto[j]
  /\ \A i \in Rows : i > 0 => upto[i] - upto[i-1] <= grouped

Init ==
  /\ fedRows \in 0..MaxRows
  /\ grouped \in 0..MaxGrouped
  /\ upto \in [0..fedRows -> 0..(MaxRows * MaxGrouped)]
  /\ CountsOK
  /\ budget \in PairBudgets
  /\ feed \in {"slices", "chunks"}
  /\ pc = "created"
  /\ pulled = 0
  /\ parts = <<>>
  /\ part = [lo |-> 0, hi |-> 0]
  /\ pieces = <<>>
  /\ outputRows = 0
  /\ cancelled = FALSE
  /\ seenAtCancel = 0

(* The consumer asks for the next piece.                                   *)
Resume ==
  /\ pc \in {"created", "yielded"}
  /\ pc' = "checking"
  /\ UNCHANGED <<data, pulled, parts, part, pieces, outputRows, token>>

(* for part in fed: the next slice of at most PieceRows rows (_slices), or *)
(* the next chunk, of as many rows as the native layer makes of it up to   *)
(* batch_rows.                                                             *)
PullFeed ==
  /\ pc = "checking"
  /\ parts = <<>>
  /\ pulled < fedRows
  /\ \E stop \in pulled + 1 .. fedRows :
       /\ stop <= pulled + PieceRows
       /\ feed = "slices" => stop = fedRows \/ stop = pulled + PieceRows
       /\ pulled' = stop
       /\ parts' = <<[lo |-> pulled, hi |-> stop]>>
  /\ UNCHANGED <<data, pc, part, pieces, outputRows, token>>

(* Every pull of a chunk races the token: once it is cancelled the pull    *)
(* may raise Cancelled instead.                                            *)
PullRaises ==
  /\ pc = "checking"
  /\ parts = <<>>
  /\ feed = "chunks"
  /\ cancelled
  /\ pc' = "raised"
  /\ UNCHANGED <<data, pulled, parts, part, pieces, outputRows, token>>

(* Mutant: the feed ends one row early.                                   *)
FeedExhaustedEarly == pulled + 1 >= fedRows

FeedExhausted == pulled = fedRows

FeedEnds ==
  /\ pc = "checking"
  /\ parts = <<>>
  /\ FeedExhausted
  /\ pc' = "complete"
  /\ UNCHANGED <<data, pulled, parts, part, pieces, outputRows, token>>

(* Mutant: the token is checked once per fed row.                         *)
CheckedPerPull == Len(parts) = 1 => ~cancelled

(* check_cancelled(): each part checks the token before it is counted.     *)
Checked == ~cancelled

CheckRaises ==
  /\ pc = "checking"
  /\ parts # <<>>
  /\ ~Checked
  /\ pc' = "raised"
  /\ UNCHANGED <<data, pulled, parts, part, pieces, outputRows, token>>

Top == parts[Len(parts)]
Popped == SubSeq(parts, 1, Len(parts) - 1)

(* Mutant: a part of two rows is never halved.                            *)
OverBudgetKeepsTwo(p) == Pairs(p) > budget /\ Length(p) > 2
(* Mutant: a part of a single row is halved too.                          *)
OverBudgetSplitsOne(p) == Pairs(p) > budget

OverBudget(p) == Pairs(p) > budget /\ Length(p) > 1

Middle(p) == p.lo + Length(p) \div 2

(* Mutant: the halves are pushed the other way round.                     *)
HalvedSwapped(p) ==
  Append(Append(Popped, [lo |-> p.lo, hi |-> Middle(p)]),
         [lo |-> Middle(p), hi |-> p.hi])
(* Mutant: the second half ends its length past the middle.               *)
HalvedByLength(p) ==
  Append(Append(Popped, [lo |-> Middle(p), hi |-> Middle(p) + Length(p)]),
         [lo |-> p.lo, hi |-> Middle(p)])
(* Mutant: the halves of an odd part leave its middle row out.            *)
HalvedApart(p) ==
  Append(Append(Popped, [lo |-> p.hi - Length(p) \div 2, hi |-> p.hi]),
         [lo |-> p.lo, hi |-> Middle(p)])

(* The parts with p, popped, back in halves, the first half on top.         *)
Halved(p) ==
  Append(Append(Popped, [lo |-> Middle(p), hi |-> p.hi]),
         [lo |-> p.lo, hi |-> Middle(p)])

(* A part that counts more than the budget and holds more than one row is  *)
(* split in halves.                                                        *)
Split ==
  /\ pc = "checking"
  /\ parts # <<>>
  /\ Checked
  /\ OverBudget(Top)
  /\ parts' = Halved(Top)
  /\ part' = Top
  /\ UNCHANGED <<data, pc, pulled, pieces, outputRows, token>>

(* A part that counts no pair is skipped.                                  *)
Skip ==
  /\ pc = "checking"
  /\ parts # <<>>
  /\ Checked
  /\ ~OverBudget(Top)
  /\ Pairs(Top) = 0
  /\ parts' = Popped
  /\ part' = Top
  /\ UNCHANGED <<data, pc, pulled, pieces, outputRows, token>>

(* Any other part passes the check and is gathered: the gather is a native *)
(* call the token does not stop.                                           *)
BeginGather ==
  /\ pc = "checking"
  /\ parts # <<>>
  /\ Checked
  /\ ~OverBudget(Top)
  /\ Pairs(Top) # 0
  /\ parts' = Popped
  /\ part' = Top
  /\ pc' = "gathering"
  /\ UNCHANGED <<data, pulled, pieces, outputRows, token>>

YieldPiece ==
  /\ pc = "gathering"
  /\ pieces' = Append(pieces, part)
  /\ outputRows' = outputRows + Pairs(part)
  /\ pc' = "yielded"
  /\ UNCHANGED <<data, pulled, parts, part, token>>

(* The consumer closes the pieces between two of them.                     *)
Close ==
  /\ pc \in {"created", "yielded"}
  /\ pc' = "closed"
  /\ UNCHANGED <<data, pulled, parts, part, pieces, outputRows, token>>

(* token.cancel(), from any thread.                                        *)
Cancel ==
  /\ ~cancelled
  /\ cancelled' = TRUE
  /\ seenAtCancel' = Len(pieces)
  /\ UNCHANGED <<data, pc, pulled, parts, part, pieces, outputRows>>

Step ==
  \/ PullFeed \/ PullRaises \/ FeedEnds
  \/ CheckRaises \/ Split \/ Skip \/ BeginGather \/ YieldPiece

Next == Step \/ Resume \/ Close \/ Cancel

(* A consumer inside next() waits for the generator, which takes its steps.*)
Spec == Init /\ [][Next]_vars /\ WF_vars(Step)

-----------------------------------------------------------------------------

(* The fed row, its parts and the pieces are ranges of the two sides.     *)
TypeOK ==
  /\ fedRows \in Nat
  /\ upto \in [Rows -> Nat]
  /\ grouped \in Nat
  /\ budget \in Nat
  /\ feed \in {"slices", "chunks"}
  /\ pc \in {"created", "yielded"} \cup Running \cup Ended
  /\ pulled \in Rows
  /\ parts \in Seq(Parts)
  /\ part \in Parts
  /\ pieces \in Seq(Parts)
  /\ outputRows \in Nat
  /\ cancelled \in BOOLEAN
  /\ seenAtCancel \in Nat

(* The fed rows whose pairs are gathered, or known to be none.             *)
Handled ==
  IF pc = "gathering" THEN part.lo
  ELSE IF parts # <<>> THEN Top.lo
  ELSE pulled

(* A piece holds at most pair_budget pairs, or one fed row's pairs, which  *)
(* are at most the grouped rows already held ("a single row is gathered    *)
(* whatever its count").                                                   *)
PiecesWithinBudget ==
  \A i \in 1..Len(pieces) :
    \/ Pairs(pieces[i]) <= budget
    \/ Length(pieces[i]) = 1 /\ Pairs(pieces[i]) <= grouped

(* The pieces come in the fed side's row order and no fed row is in two.   *)
PiecesInOrder ==
  \A i \in 1..Len(pieces) :
    /\ pieces[i].lo < pieces[i].hi
    /\ pieces[i].hi <= Handled
    /\ \A j \in i+1..Len(pieces) : pieces[i].hi <= pieces[j].lo

(* The pairs gathered are exactly those of the rows handled so far, so a   *)
(* stream that ends by itself has gathered the whole join: however the     *)
(* parts were split, no pair is lost and none is gathered twice.           *)
NoPairLost ==
  /\ outputRows = upto[Handled]
  /\ pc = "complete" => outputRows = upto[fedRows]

(* The halves left of a part are still the rows it had, side by side.      *)
PartsAdjoin ==
  /\ \A i \in 1..Len(parts) :
       /\ parts[i].lo < parts[i].hi
       /\ i > 1 => parts[i].hi = parts[i-1].lo
  /\ parts # <<>> => parts[1].hi = pulled
  /\ pc = "gathering" =>
       /\ part.lo < part.hi
       /\ part.hi = IF parts = <<>> THEN pulled ELSE Top.lo

(* At most the piece being gathered when the token is cancelled is still   *)
(* delivered.                                                              *)
CancelStopsWithinAPiece ==
  cancelled => Len(pieces) <= seenAtCancel + 1

(* A next() always comes back: with a piece, the end, or Cancelled; the    *)
(* halving never goes on for ever.                                         *)
NextReturns == pc \in Running ~> pc \notin Running

Stream == INSTANCE JoinStream WITH
  total <- upto[fedRows],
  piecePairs <- IF budget >= grouped THEN budget ELSE grouped,
  delivered <- outputRows,
  status <- CASE pc = "complete" -> "complete"
              [] pc \in {"raised", "closed"} -> "stopped"
              [] OTHER -> "open"

(* The generator implements the stream's promise.                          *)
IsJoinStream == Stream!Spec
=============================================================================
