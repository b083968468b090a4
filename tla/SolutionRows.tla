---------------------------- MODULE SolutionRows ----------------------------
(***************************************************************************)
(* The solutions of a relation, read lazily: _yield_solutions of           *)
(* pushdown/solutions.py, the rows of the body under it (_body_rows,       *)
(* _column_rows and _piece_rows of pushdown/relation.py), and the patterns *)
(* rdflib finishes each row over (tier 3, _finish_with_rdflib).            *)
(*                                                                         *)
(* Row i of the body passes the row predicates (keeps[i]) or not, and      *)
(* rdflib makes extends[i] solutions of it; without tier 3 it is one       *)
(* solution.  A solution is <<row, its number among the row's>>.           *)
(***************************************************************************)
EXTENDS Integers, Sequences

CONSTANTS
  MaxRows,       \* bound: the rows of the body
  MaxExtends,    \* bound: the solutions rdflib makes of a row
  NoStop,        \* no LIMIT
  Windows,       \* the windows <<start, stop>> a head may ask for
  ChunkStart,    \* SETTINGS.chunk_start
  ChunkMax       \* SETTINGS.chunk_max

ASSUME WindowsAssumption ==
  /\ MaxRows \in Nat
  /\ MaxExtends \in Nat
  /\ NoStop \notin Nat
  /\ \A w \in Windows : w[1] \in Nat /\ (w[2] = NoStop \/ (w[2] \in Nat /\ w[1] <= w[2]))
  /\ ChunkStart \in Nat \ {0}
  /\ ChunkMax \in Nat \ {0}
  /\ ChunkStart <= ChunkMax   \* 64 and 4096, or both the ablation's (settings.py)

VARIABLES
  keeps, extends, \* the body's rows
  body,           \* "rows", "columns" or "pieces"
  rest,           \* rdflib finishes the rows
  window,         \* <<start, stop>>
  pc,             \* where the generators are
  read,           \* the body's rows pulled
  sliceEnd,       \* the rows of the slice they are in end here
  sliceSize,      \* the size of the next slice
  passed,         \* the rows that passed the predicates
  chunk,          \* the decode chunk: rows
  pos,            \* the rows of it handed on
  size,           \* the size of the next chunk
  decoded,        \* the rows decoded, in all
  made,           \* the solutions rdflib made of the row handed on
  reached,        \* the solutions it made in all
  out,            \* the solutions delivered
  cancelled,      \* the query's token is cancelled
  seenAtCancel    \* history: the solutions delivered when it was

relation == <<keeps, extends, body, rest, window>>
slicing == <<read, sliceEnd, sliceSize, passed>>
chunking == <<chunk, pos, size, decoded>>
finishing == <<made, reached>>
token == <<cancelled, seenAtCancel>>
vars == <<relation, pc, slicing, chunking, finishing, out, token>>

NRows == Len(keeps)
MinOf(m, n) == IF m <= n THEN m ELSE n

(* The window is on the rows, before they are decoded, or on what rdflib   *)
(* makes of them.                                                          *)
Start == IF rest THEN 0 ELSE window[1]
Stop == IF rest THEN NoStop ELSE window[2]

Running == {"checking", "filling", "yielding", "finishing", "extending"}
Ended == {"complete", "raised", "closed"}

Init ==
  /\ keeps \in UNION {[1..n -> BOOLEAN] : n \in 0..MaxRows}
  /\ extends \in [1..NRows -> 0..MaxExtends]
  /\ body \in {"rows", "columns", "pieces"}
  /\ rest \in BOOLEAN
  /\ rest \/ extends = [i \in 1..NRows |-> 1]
  /\ window \in Windows
  /\ pc = "created"
  /\ read = 0
  /\ sliceEnd = 0
  /\ sliceSize = ChunkStart
  /\ passed = 0
  /\ chunk = <<>>
  /\ pos = 0
  /\ size = ChunkStart
  /\ decoded = 0
  /\ made = 0
  /\ reached = 0
  /\ out = <<>>
  /\ cancelled = FALSE
  /\ seenAtCancel = 0

(* _project_window: the solutions before the window are made and dropped,  *)
(* and none is asked for after it.                                         *)
RestInWindow == reached + 1 > window[1]
RestWindowEnds == window[2] # NoStop /\ reached >= window[2]

(* The consumer asks for the next solution: each generator goes on from    *)
(* its last yield.                                                         *)
Resume ==
  /\ pc \in {"created", "yielded"}
  /\ pc' = IF rest /\ (pc = "yielded" \/ RestWindowEnds) THEN "extending"
           ELSE IF pc = "created" THEN "checking" ELSE "yielding"
  /\ UNCHANGED <<relation, slicing, chunking, finishing, out, token>>

-----------------------------------------------------------------------------
(* _yield_rows: a chunk is read, after a check of the token, and decoded.  *)

(* Mutant: the token is not checked between chunks.                       *)
CheckedNever == TRUE

Checked == ~cancelled

CheckChunk ==
  /\ pc = "checking"
  /\ pc' = IF Checked THEN "filling" ELSE "raised"
  /\ chunk' = <<>>
  /\ pos' = 0
  /\ UNCHANGED <<relation, slicing, size, decoded, finishing, out, token>>

(* Mutant: the window ends one row late.                                  *)
WindowEndsPast == Stop # NoStop /\ passed > Stop

WindowEnds == Stop # NoStop /\ passed >= Stop
ChunkFull == Len(chunk) = size

(* _column_rows: the rows after a slice come after a check of the token;   *)
(* a pull of a piece checks or races it too.                               *)
AtSliceEnd == read = sliceEnd
ChecksSlice == body # "rows" /\ AtSliceEnd /\ (read > 0 \/ body = "pieces")

SliceRaises ==
  /\ pc = "filling"
  /\ ~WindowEnds /\ ~ChunkFull
  /\ ChecksSlice
  /\ cancelled
  /\ pc' = "raised"
  /\ UNCHANGED <<relation, slicing, chunking, finishing, out, token>>

SliceStop(n) == MinOf(read + n, NRows)

(* The slices of a columnar body grow; a piece is sliced on its own.       *)
NextSlice ==
  IF ~AtSliceEnd THEN UNCHANGED <<sliceEnd, sliceSize>>
  ELSE IF body = "rows" THEN sliceEnd' = NRows /\ UNCHANGED sliceSize
  ELSE \E n \in IF body = "pieces" THEN {sliceSize, ChunkStart} ELSE {sliceSize} :
         /\ sliceEnd' \in read + 1 .. SliceStop(n)
         /\ body = "columns" => sliceEnd' = SliceStop(n)
         /\ sliceSize' = MinOf(n * 4, ChunkMax)

(* Mutant: the window starts one row early.                               *)
InWindowFromStart == passed + 1 >= Start

InWindow == passed + 1 > Start

PullRow ==
  /\ pc = "filling"
  /\ ~WindowEnds /\ ~ChunkFull
  /\ ChecksSlice => ~cancelled
  /\ read < NRows
  /\ read' = read + 1
  /\ NextSlice
  /\ passed' = IF keeps[read + 1] THEN passed + 1 ELSE passed
  /\ chunk' = IF keeps[read + 1] /\ InWindow THEN Append(chunk, read + 1) ELSE chunk
  /\ UNCHANGED <<relation, pc, pos, size, decoded, finishing, out, token>>

AfterDecode == IF chunk = <<>> THEN "complete" ELSE "yielding"

(* decode_many of a chunk that has rows, the last perhaps short.           *)
Decode ==
  /\ pc = "filling"
  /\ WindowEnds \/ ChunkFull \/ (read = NRows /\ (ChecksSlice => ~cancelled))
  /\ pc' = AfterDecode
  /\ decoded' = decoded + Len(chunk)
  /\ size' = MinOf(size * 4, ChunkMax)
  /\ UNCHANGED <<relation, slicing, chunk, pos, finishing, out, token>>

ChunkEnds ==
  /\ pc = "yielding"
  /\ pos = Len(chunk)
  /\ pc' = "checking"
  /\ UNCHANGED <<relation, slicing, chunking, finishing, out, token>>

YieldRow ==
  /\ pc = "yielding"
  /\ pos < Len(chunk)
  /\ pos' = pos + 1
  /\ IF rest THEN pc' = "finishing" /\ UNCHANGED out
     ELSE pc' = "yielded" /\ out' = Append(out, <<chunk[pos + 1], 1>>)
  /\ UNCHANGED <<relation, slicing, chunk, size, decoded, finishing, token>>

-----------------------------------------------------------------------------
(* _finish_with_rdflib: the token is checked, then rdflib's evalBGP makes  *)
(* the row's solutions; its own reads may find the token cancelled too.    *)

FinishRow ==
  /\ pc = "finishing"
  /\ pc' = IF Checked THEN "extending" ELSE "raised"
  /\ made' = 0
  /\ UNCHANGED <<relation, slicing, chunking, reached, out, token>>

EvalRaises ==
  /\ pc = "extending"
  /\ ~RestWindowEnds
  /\ cancelled
  /\ pc' = "raised"
  /\ UNCHANGED <<relation, slicing, chunking, finishing, out, token>>

Extend ==
  /\ pc = "extending"
  /\ ~RestWindowEnds
  /\ made < extends[chunk[pos]]
  /\ made' = made + 1
  /\ reached' = reached + 1
  /\ IF RestInWindow
     THEN out' = Append(out, <<chunk[pos], made + 1>>) /\ pc' = "yielded"
     ELSE UNCHANGED <<out, pc>>
  /\ UNCHANGED <<relation, slicing, chunking, token>>

ExtendEnds ==
  /\ pc = "extending"
  /\ ~RestWindowEnds
  /\ made = extends[chunk[pos]]
  /\ pc' = "yielding"
  /\ UNCHANGED <<relation, slicing, chunking, finishing, out, token>>

RestWindowCloses ==
  /\ pc = "extending"
  /\ RestWindowEnds
  /\ pc' = "complete"
  /\ UNCHANGED <<relation, slicing, chunking, finishing, out, token>>

-----------------------------------------------------------------------------

Close ==
  /\ pc \in {"created", "yielded"}
  /\ pc' = "closed"
  /\ UNCHANGED <<relation, slicing, chunking, finishing, out, token>>

Cancel ==
  /\ ~cancelled
  /\ pc \notin Ended
  /\ cancelled' = TRUE
  /\ seenAtCancel' = Len(out)
  /\ UNCHANGED <<relation, pc, slicing, chunking, finishing, out>>

Step ==
  \/ CheckChunk \/ SliceRaises \/ PullRow \/ Decode \/ ChunkEnds \/ YieldRow
  \/ FinishRow \/ EvalRaises \/ Extend \/ ExtendEnds \/ RestWindowCloses

Next == Step \/ Resume \/ Close \/ Cancel

Spec == Init /\ [][Next]_vars

-----------------------------------------------------------------------------

(* What was read, decoded and delivered are rows of the body.             *)
TypeOK ==
  /\ keeps \in Seq(BOOLEAN)
  /\ extends \in [1..NRows -> Nat]
  /\ body \in {"rows", "columns", "pieces"}
  /\ rest \in BOOLEAN
  /\ window \in Windows
  /\ pc \in {"created", "yielded"} \cup Running \cup Ended
  /\ read \in 0..NRows
  /\ sliceEnd \in read..NRows
  /\ sliceSize \in Nat \ {0}
  /\ passed \in 0..read
  /\ chunk \in Seq(1..read)
  /\ pos \in 0..Len(chunk)
  /\ size \in Nat \ {0}
  /\ decoded \in 0..read
  /\ made \in Nat
  /\ reached \in Nat
  /\ out \in Seq((1..read) \X (Nat \ {0}))
  /\ cancelled \in BOOLEAN
  /\ seenAtCancel \in 0..Len(out)

(* The solutions the first i rows make.                                    *)
SolutionsUpTo[i \in 0..NRows] ==
  IF i = 0 THEN 0
  ELSE SolutionsUpTo[i - 1] +
         IF keeps[i] THEN extends[i] ELSE 0

(* The solutions delivered are those of the window, in the body's order,   *)
(* none twice and none missed, and all of them when the end is reached,    *)
(* wherever slices, chunks, predicates and the rows that make none fall.   *)
DeliversWindow ==
  /\ \A n \in 1..Len(out) :
       /\ keeps[out[n][1]]
       /\ out[n][2] \in 1..extends[out[n][1]]
       /\ SolutionsUpTo[out[n][1] - 1] + out[n][2] = window[1] + n
  /\ window[2] # NoStop => Len(out) <= window[2] - window[1]
  /\ pc = "complete" =>
       \/ window[1] + Len(out) = window[2]
       \/ window[1] + Len(out) >= SolutionsUpTo[NRows]

(* cancel.py, "the rows already decoded, at most one decode chunk, are     *)
(* delivered first"; a row rdflib is finishing delivers at most its own.   *)
CancelStopsWithinAChunk ==
  cancelled => Len(out) <= seenAtCancel + IF rest THEN MaxExtends ELSE ChunkMax

(* A consumer that stops early has had decoded at most four times what it  *)
(* read, or one chunk, past it; under a LIMIT no row past the window is    *)
(* decoded, or even pulled.                                                *)
DecodesOnlyReached ==
  ~rest =>
    /\ decoded - Len(out) <= ChunkMax
    /\ decoded - Len(out) <= 4 * Len(out) \/ decoded <= ChunkStart
    /\ window[2] # NoStop => passed <= window[2] /\ decoded <= window[2] - window[1]
=============================================================================
