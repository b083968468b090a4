----------------------------- MODULE UnionRows ------------------------------
(***************************************************************************)
(* The union of a store's graphs as a set of triples (union.py): a match   *)
(* over every graph returns a triple once per graph, on adjacent rows.     *)
(* distinct_chunks keeps the first row of each triple, reading the match   *)
(* in chunks that cut it anywhere; one_per_triple yields each triple once, *)
(* with the contexts of all its rows.                                      *)
(*                                                                         *)
(* The match is the sequence of its rows' triples; row i is in graph i.    *)
(***************************************************************************)
EXTENDS Integers, Sequences

CONSTANTS
  Triples,
  NoTriple,  \* no row read yet
  MaxMatched    \* bound: the rows of the match

ASSUME UnionAssumption ==
  /\ NoTriple \notin Triples
  /\ MaxMatched \in Nat

VARIABLES
  match,   \* the triple of each row
  read,    \* the rows distinct_chunks has read
  last,    \* the triple of the last row it kept
  kept,    \* the rows it kept
  merged,  \* the rows one_per_triple has read
  triple,  \* the triple it is on
  rows,    \* the rows of that triple so far
  yielded, \* what it yielded: <<triple, its rows>>
  done     \* it read the last row

distinct == <<read, last, kept>>
merge == <<merged, triple, rows, yielded, done>>
unionVars == <<match, distinct, merge>>

(* Every sort order a store holds ends in the graph: a triple's rows are   *)
(* adjacent.                                                               *)
Adjacent(m) ==
  \A i, j \in 1..Len(m) : i < j /\ m[i] = m[j] => \A k \in i..j : m[k] = m[i]

UnionInit ==
  /\ match \in UNION {[1..n -> Triples] : n \in 0..MaxMatched}
  /\ Adjacent(match)
  /\ read = 0
  /\ last = NoTriple
  /\ kept = {}
  /\ merged = 0
  /\ triple = NoTriple
  /\ rows = <<>>
  /\ yielded = <<>>
  /\ done = FALSE

(* distinct_rows: the first row of each run of a chunk.                    *)
RunStarts(chunk) == {i \in chunk : i - 1 \in chunk => match[i - 1] # match[i]}

(* Mutant: the run a chunk starts in is taken for a new one.              *)
FreshAlways(chunk) == RunStarts(chunk)

(* The rows a chunk adds: its first run may be the last chunk's.           *)
Fresh(chunk) ==
  {i \in RunStarts(chunk) : i - 1 \in chunk \/ match[i] # last}

(* The next chunk, of any number of rows.                                  *)
ReadChunk ==
  \E stop \in read .. Len(match) :
    LET new == Fresh(read + 1 .. stop)
    IN  /\ read' = stop
        /\ kept' = kept \cup new
        /\ last' = IF new = {} THEN last
                   ELSE match[CHOOSE i \in new : \A j \in new : j <= i]
        /\ UNCHANGED <<match, merge>>

(* one_per_triple: a row of the triple it is on adds its context; a row of *)
(* another one yields that triple first.                                   *)

Yield == IF triple = NoTriple THEN yielded ELSE Append(yielded, <<triple, rows>>)

MergeRow ==
  /\ merged < Len(match)
  /\ merged' = merged + 1
  /\ IF match[merged + 1] = triple
     THEN /\ rows' = Append(rows, merged + 1)
          /\ UNCHANGED <<triple, yielded>>
     ELSE /\ yielded' = Yield
          /\ triple' = match[merged + 1]
          /\ rows' = <<merged + 1>>
  /\ UNCHANGED <<match, distinct, done>>

(* Mutant: the last triple is not yielded after the loop.                 *)
LastYieldedNever == yielded

LastYielded == Yield

MergeEnds ==
  /\ merged = Len(match)
  /\ ~done
  /\ done' = TRUE
  /\ yielded' = LastYielded
  /\ UNCHANGED <<match, distinct, merged, triple, rows>>

UnionNext == ReadChunk \/ MergeRow \/ MergeEnds

UnionSpec == UnionInit /\ [][UnionNext]_unionVars

-----------------------------------------------------------------------------

(* What was kept and yielded are rows and triples of the match.           *)
UnionTypeOK ==
  /\ match \in Seq(Triples)
  /\ read \in 0..Len(match)
  /\ last \in Triples \cup {NoTriple}
  /\ kept \in SUBSET (1..read)
  /\ merged \in 0..Len(match)
  /\ triple \in Triples \cup {NoTriple}
  /\ rows \in Seq(1..merged)
  /\ yielded \in Seq(Triples \X Seq(1..merged))
  /\ done \in BOOLEAN

(* Wherever the chunks cut the match, the rows kept are exactly the first  *)
(* row of each triple read: no triple is kept twice and none is lost.      *)
KeepsFirstRows ==
  kept = {i \in 1..read : \A j \in 1..i-1 : match[j] # match[i]}

RowsOf(t, n) == {i \in 1..n : match[i] = t}

(* What triples() yields of the union is a set, each triple with the       *)
(* contexts of all the graphs that hold it; nothing is missing at the end. *)
YieldsEachTripleOnce ==
  /\ \A i \in 1..Len(yielded) :
       /\ {yielded[i][2][k] : k \in 1..Len(yielded[i][2])} = RowsOf(yielded[i][1], Len(match))
       /\ \A j \in 1..i-1 : yielded[j][1] # yielded[i][1]
  /\ done => \A k \in 1..Len(match) : \E i \in 1..Len(yielded) : yielded[i][1] = match[k]
=============================================================================
