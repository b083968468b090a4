-------------------------- MODULE StoreReadsProofs --------------------------
(***************************************************************************)
(* For any files, any calls and any order of opens, closes and reads: what *)
(* a triples() call yields is of the file it started on, what the store    *)
(* keeps is the open file's, and a call decodes only the slices it         *)
(* reached.                                                                *)
(*                                                                         *)
(* A term cache serves one file at a time because a query keeps its scope  *)
(* from its first step to its last (QueriesOK), and a context cache serves *)
(* one file for good because an open replaces it (ContextsOK).             *)
(***************************************************************************)
EXTENDS StoreReads, WellFoundedInduction, SequenceTheorems, FiniteSetTheorems, TLAPS

Term == Files \X Nat
Entry == Term \X Seq(Term)

(* The record of a call, whatever it holds.                                *)
Fields ==
  {"status", "file", "epoch", "cache", "want", "match", "chunked", "merges", "pos",
   "sliceEnd", "chunkEnd", "size", "run", "got"}

Shaped(r) == r = [x \in Fields |-> r[x]]

CachesOK ==
  /\ contexts = [e \in 0..MaxEpoch |-> contexts[e]]
  /\ decode = [d \in Queries \cup Calls |-> decode[d]]
  /\ calls = [c \in Calls |-> calls[c]] /\ \A c \in Calls : Shaped(calls[c])

TypeOK ==
  /\ native \in Files \cup {None}
  /\ path \in Files
  /\ epoch \in 0..MaxEpoch
  /\ current \in Queries \cup {None}
  /\ live \in [Queries -> {"new", "live", "ended"}]
  /\ CachesOK

Opened(c) == calls[c].status = "open"

(* A cache holds terms of file f only.                                     *)
Right(cache, f) == \A code \in DOMAIN cache : cache[code] = Decoded(f, code)

Repeats(f) == Cardinality(TriplesOf(f)) # Size(f)

(* The store opens again the file it was on; a step of a query is current  *)
(* only while the query lives.                                             *)
StoreOK ==
  /\ native # None => native = path
  /\ current # None => live[current] = "live"

(* What is kept of the open file.                                          *)
KeptOf(f, k) ==
  /\ DOMAIN k = {"graphs", "repeats", "size"}
  /\ \/ k.graphs = None
     \/ /\ k.graphs \in Seq(Term)
        /\ ToSet(k.graphs) = {Decoded(f, GraphCode(row)) : row \in ToSet(FileRows[f])}
        /\ IsInjective(k.graphs)
  /\ \/ k.repeats = None
     \/ /\ k.repeats = Repeats(f)
        /\ k.repeats => k.size = Cardinality(TriplesOf(f))

KnownOK == native # None => KeptOf(native, known)

(* A number no graph context was made under yet.                           *)
Untouched(e) == DOMAIN contexts[e] = {} /\ \A c \in Calls : Opened(c) => calls[c].epoch # e

(* The contexts of file f, open under number e.                            *)
HeldFor(f, e) ==
  /\ Right(contexts[e], f)
  /\ \A c \in Calls : Opened(c) /\ calls[c].epoch = e => calls[c].file = f

ContextsOK ==
  /\ \A e \in 0..MaxEpoch : e > epoch => Untouched(e)
  /\ native # None => HeldFor(native, epoch)
  /\ \A c \in Calls : Opened(c) => HeldFor(calls[c].file, calls[c].epoch)

(* A call bound to a file, and its place in its match.                     *)
Placed(c, r) ==
  /\ r.file \in Files
  /\ r.want \in Ground \cup {None}
  /\ r.cache \in Queries \cup {c}
  /\ r.epoch \in 0..MaxEpoch
  /\ r.match = Match(r.file, r.want)
  /\ r.pos \in Nat /\ r.sliceEnd \in Nat /\ r.chunkEnd \in Nat
  /\ r.pos <= r.sliceEnd /\ r.sliceEnd <= r.chunkEnd /\ r.chunkEnd <= Len(r.match)
  /\ r.size \in 1..ChunkMax
  /\ r.merges = Repeats(r.file)
  /\ r.want = None => r.sliceEnd < r.pos + ChunkMax

CallsOK ==
  \A c \in Calls :
    /\ calls[c].status \in {"new", "open", "done", "stopped"}
    /\ calls[c].status = "new" => calls[c] = Unstarted
    /\ Opened(c) => Placed(c, calls[c]) /\ calls[c].pos > 0
    /\ calls[c].status = "done" =>
         calls[c].file \in Files /\ calls[c].want \in Ground \cup {None}

(* A cache of a call's own holds what the call decoded, bound as b.        *)
OwnFor(c, b) ==
  /\ Right(decode[c], b.file)
  /\ b.want # None => DOMAIN decode[c] = {}
  /\ DOMAIN decode[c] \subseteq {Code(b.match[i]) : i \in 1..b.sliceEnd}

OwnOK ==
  \A c \in Calls :
    /\ ~Opened(c) => DOMAIN decode[c] = {}
    /\ Opened(c) => OwnFor(c, calls[c])

Uses(c, q) == Opened(c) /\ calls[c].cache = q

(* A query's cache is of one file: the one open while the query lives.     *)
QueriesOK ==
  /\ \A q \in Queries : live[q] = "new" =>
       DOMAIN decode[q] = {} /\ \A c \in Calls : ~Uses(c, q)
  /\ \A q \in Queries : live[q] = "live" =>
       Right(decode[q], path) /\ \A c \in Calls : Uses(c, q) => calls[c].file = path
  /\ \A q \in Queries, c \in Calls : Uses(c, q) => Right(decode[q], calls[c].file)
  /\ \A q \in Queries, c, d \in Calls : Uses(c, q) /\ Uses(d, q) => calls[c].file = calls[d].file

(* What was yielded, and the run held back, is the union of the rows read. *)
Gathered(r) ==
  LET union == UnionUpTo(r.file, r.match)[r.pos]
  IN  /\ r.got \in Seq(Entry)
      /\ IF ~r.merges THEN r.run = <<>> /\ r.got = union
         ELSE IF r.run = <<>> THEN r.pos = 0 /\ r.got = <<>>
         ELSE r.run \in Entry /\ r.pos > 0 /\ union = Append(r.got, r.run)

GatheredOK ==
  \A c \in Calls :
    /\ Opened(c) => Gathered(calls[c])
    /\ calls[c].status = "done" => calls[c].got = UnionOf(calls[c].file, calls[c].want)

StoreInv == TypeOK /\ StoreOK /\ KnownOK /\ ContextsOK /\ CallsOK /\ OwnOK

(* While no file is opened under a live query.                             *)
RowsInv == QueriesOK /\ GatheredOK

-----------------------------------------------------------------------------
(* Numbers and steps.                                                      *)

(* A set with 0 and the successor of each of its naturals holds them all.  *)
LEMMA SetInduction ==
  ASSUME NEW S, 0 \in S, \A n \in Nat : n \in S => n + 1 \in S
  PROVE  Nat \subseteq S
  <1> DEFINE R == OpToRel(<, Nat)
             T == Nat \ S
  <1> SUFFICES ASSUME T # {} PROVE FALSE
    OBVIOUS
  <1>1. PICK x \in T : \A y \in T : ~(<<y, x>> \in R)
    <2>1. IsWellFoundedOn(R, Nat)
      BY NatLessThanWellFounded
    <2>2. T \subseteq Nat
      OBVIOUS
    <2> HIDE DEF R, T
    <2> QED
      BY <2>1, <2>2, WFMin
  <1>2. x \in Nat /\ x # 0 /\ x - 1 \in Nat /\ x - 1 + 1 = x
    OBVIOUS
  <1>3. x - 1 \in S
    <2>1. x - 1 \in T => <<x - 1, x>> \in R
      BY <1>2 DEF OpToRel
    <2> QED
      BY <1>1, <1>2, <2>1
  <1> QED
    BY <1>2, <1>3

(* A value made step by step, one function after another, exists.          *)
MadeBy(g, V, start, N, step) ==
  g \in [0..N -> V] /\ g[0] = start /\ \A i \in 1..N : g[i] = step[i][g[i - 1]]

LEMMA StepByStep ==
  ASSUME NEW V, NEW start \in V, NEW N \in Nat, NEW step \in [1..N -> [V -> V]]
  PROVE  \E g : MadeBy(g, V, start, N, step)
  <1> DEFINE Made(g, n) == g[0] = start /\ \A i \in 1..n : g[i] = step[i][g[i - 1]]
             Exist(n) == \E g \in [0..n -> V] : Made(g, n)
             S == {n \in Nat : n <= N => Exist(n)}
  <1>1. Exist(0)
    <2>1. [i \in 0..0 |-> start] \in [0..0 -> V] /\ Made([i \in 0..0 |-> start], 0)
      OBVIOUS
    <2> QED
      BY <2>1
  <1>2. ASSUME NEW n \in Nat, n + 1 <= N, Exist(n)
        PROVE  Exist(n + 1)
    <2>1. PICK g \in [0..n -> V] : Made(g, n)
      BY <1>2
    <2>2. step[n + 1][g[n]] \in V
      <3>1. g[n] \in V /\ step[n + 1] \in [V -> V]
        BY <1>2
      <3> QED
        BY <3>1
    <2> DEFINE h == [i \in 0..n + 1 |-> IF i = n + 1 THEN step[n + 1][g[n]] ELSE g[i]]
    <2>3. h \in [0..n + 1 -> V]
      BY <2>2
    <2>4. \A i \in 0..n : h[i] = g[i]
      OBVIOUS
    <2>5. h[n + 1] = step[n + 1][g[n]]
      OBVIOUS
    <2> HIDE DEF h
    <2>6. h[0] = start
      BY <2>1, <2>4
    <2>7. ASSUME NEW i \in 1..n + 1
          PROVE  h[i] = step[i][h[i - 1]]
      <3>1. CASE i = n + 1
        <4>1. i - 1 = n /\ n \in 0..n
          BY <3>1
        <4> QED
          BY <2>4, <2>5, <3>1, <4>1
      <3>2. CASE i # n + 1
        <4>1. i \in 1..n /\ i \in 0..n /\ i - 1 \in 0..n
          BY <3>2
        <4> QED
          BY <2>1, <2>4, <4>1
      <3> QED
        BY <3>1, <3>2
    <2> QED
      BY <2>3, <2>6, <2>7
  <1> HIDE DEF Exist
  <1>3. 0 \in S /\ \A n \in Nat : n \in S => n + 1 \in S
    BY <1>1, <1>2
  <1>4. N \in S
    BY <1>3, SetInduction
  <1>5. Exist(N)
    BY <1>4
  <1> QED
    BY <1>5, Zenon DEF Exist, MadeBy

(* A set of numbers up to n has a least and a greatest one.                *)
LEMMA Extremes ==
  ASSUME NEW n \in Nat, NEW S \in SUBSET (1..n), S # {}
  PROVE  /\ Min(S) \in S /\ Max(S) \in S
         /\ \A x \in S : Min(S) <= x /\ x <= Max(S)
  <1> DEFINE R == OpToRel(<, Nat)
  <1>1. ASSUME NEW T \in SUBSET Nat, T # {}
        PROVE  \E x \in T : \A y \in T : x <= y
    <2>1. PICK x \in T : \A y \in T : ~(<<y, x>> \in R)
      <3>1. IsWellFoundedOn(R, Nat)
        BY NatLessThanWellFounded
      <3> HIDE DEF R
      <3> QED
        BY <1>1, <3>1, WFMin
    <2>2. \A y \in T : ~(y < x)
      BY <1>1, <2>1 DEF OpToRel
    <2> QED
      BY <1>1, <2>2
  <1>2. \E x \in S : \A y \in S : x <= y
    <2>1. S \in SUBSET Nat
      OBVIOUS
    <2> QED
      BY <1>1, <2>1
  <1>3. Min(S) \in S /\ \A y \in S : Min(S) <= y
    BY <1>2, Zenon DEF Min
  <1> DEFINE T == {m \in Nat : \A x \in S : x <= m}
  <1>4. PICK m \in T : \A y \in T : m <= y
    <2>1. n \in T
      OBVIOUS
    <2>2. T \in SUBSET Nat
      OBVIOUS
    <2> HIDE DEF T
    <2> QED
      BY <1>1, <2>1, <2>2
  <1>5. m \in S
    <2> SUFFICES ASSUME m \notin S PROVE FALSE
      OBVIOUS
    <2>1. \A x \in S : x < m /\ x \in Nat /\ x > 0
      BY <1>4
    <2>2. m > 0 /\ m - 1 \in Nat
      <3>1. PICK x \in S : TRUE
        OBVIOUS
      <3>2. m \in Nat
        BY <1>4
      <3> QED
        BY <2>1, <3>1, <3>2
    <2>3. m - 1 \in T
      BY <2>1, <2>2
    <2> QED
      BY <1>4, <2>2, <2>3
  <1>6. \E x \in S : \A y \in S : x >= y
    BY <1>4, <1>5
  <1>7. Max(S) \in S /\ \A y \in S : Max(S) >= y
    BY <1>6, Zenon DEF Max
  <1> QED
    BY <1>3, <1>7

-----------------------------------------------------------------------------
(* A match: distinct rows, those of a triple adjacent.                     *)

RowsOK(rows) ==
  /\ rows \in Seq(Nat \X Nat)
  /\ \A i, j \in 1..Len(rows) : i < j => rows[i] # rows[j]
  /\ \A i, j, k \in 1..Len(rows) :
       i < j /\ j < k /\ Code(rows[i]) = Code(rows[k]) => Code(rows[j]) = Code(rows[i])

LEMMA FilesOK ==
  ASSUME NEW f \in Files
  PROVE  RowsOK(FileRows[f]) /\ Size(f) = Len(FileRows[f]) /\ Len(FileRows[f]) \in Nat
  <1>1. FileRows[f] \in Seq(Nat \X Nat)
    BY ReadsAssumption
  <1>2. DOMAIN FileRows[f] = 1..Len(FileRows[f]) /\ Len(FileRows[f]) \in Nat
    BY <1>1, LenProperties
  <1>3. /\ \A i, j \in DOMAIN FileRows[f] : i < j => FileRows[f][i] # FileRows[f][j]
        /\ \A i, j, k \in DOMAIN FileRows[f] :
             i < j /\ j < k /\ FileRows[f][i][1] = FileRows[f][k][1]
               => FileRows[f][j][1] = FileRows[f][i][1]
    BY ReadsAssumption, Zenon
  <1> DEFINE rows == FileRows[f]
  <1> HIDE DEF rows
  <1>4. RowsOK(rows)
    <2>1. rows \in Seq(Nat \X Nat) /\ DOMAIN rows = 1..Len(rows)
      BY <1>1, <1>2, Zenon DEF rows
    <2>2. /\ \A i, j \in DOMAIN rows : i < j => rows[i] # rows[j]
          /\ \A i, j, k \in DOMAIN rows :
               i < j /\ j < k /\ rows[i][1] = rows[k][1] => rows[j][1] = rows[i][1]
      BY <1>3, Zenon DEF rows
    <2> QED
      BY <2>1, <2>2 DEF RowsOK, Code
  <1> QED
    BY <1>2, <1>4, Zenon DEF Size, rows

LEMMA MatchesOK ==
  ASSUME NEW f \in Files, NEW want \in Ground \cup {None}
  PROVE  /\ RowsOK(Match(f, want)) /\ Len(Match(f, want)) \in Nat
         /\ DOMAIN Match(f, want) = 1..Len(Match(f, want))
         /\ want = None => Match(f, want) = FileRows[f]
         /\ want # None => \A i \in 1..Len(Match(f, want)) : Code(Match(f, want)[i]) = want
         /\ ToSet(Match(f, want)) \subseteq ToSet(FileRows[f])
  <1> DEFINE rows == FileRows[f]
             hits == {i \in 1..Len(rows) : Code(rows[i]) = want}
             M == Match(f, want)
  <1>1. RowsOK(rows) /\ Len(rows) \in Nat /\ DOMAIN rows = 1..Len(rows)
    <2>1. RowsOK(rows) /\ Len(rows) \in Nat
      BY FilesOK
    <2> QED
      BY <2>1, LenProperties DEF RowsOK
  <1>2. CASE want = None
    <2>1. M = rows
      BY <1>2 DEF Match
    <2> QED
      BY <1>1, <1>2, <2>1
  <1>3. CASE want # None /\ hits = {}
    <2>1. M = <<>>
      BY <1>1, <1>3 DEF Match
    <2> QED
      BY <1>1, <1>3, <2>1 DEF RowsOK, ToSet
  <1>4. CASE want # None /\ hits # {}
    <2> DEFINE lo == Min(hits)
               hi == Max(hits)
    <2>1. M = SubSeq(rows, lo, hi)
      BY <1>1, <1>4 DEF Match
    <2>2. lo \in hits /\ hi \in hits /\ \A x \in hits : lo <= x /\ x <= hi
      <3>1. hits \in SUBSET (1..Len(rows))
        OBVIOUS
      <3> HIDE DEF hits
      <3> QED
        BY <1>1, <1>4, <3>1, Extremes
    <2>3. lo \in 1..Len(rows) /\ hi \in 1..Len(rows) /\ lo <= hi
          /\ Code(rows[lo]) = want /\ Code(rows[hi]) = want
      BY <2>2
    <2> HIDE DEF lo, hi, hits, M
    <2>4. /\ M \in Seq(Nat \X Nat) /\ Len(M) = hi - lo + 1
          /\ \A i \in 1..Len(M) : M[i] = rows[lo + i - 1]
      <3>1. lo \in Int /\ hi \in Int
        BY <1>1, <2>3
      <3>2. \A i \in lo..hi : rows[i] \in Nat \X Nat
        BY <1>1, <2>3, ElementOfSeq, SMTT(30) DEF RowsOK
      <3>3. /\ SubSeq(rows, lo, hi) \in Seq(Nat \X Nat)
            /\ Len(SubSeq(rows, lo, hi)) = IF lo <= hi THEN hi - lo + 1 ELSE 0
            /\ \A i \in 1..hi - lo + 1 : SubSeq(rows, lo, hi)[i] = rows[lo + i - 1]
        BY <3>1, <3>2, SubSeqProperties
      <3> QED
        BY <2>1, <2>3, <3>3
    <2>5. Len(M) \in Nat /\ DOMAIN M = 1..Len(M)
      BY <2>4
    <2>6. \A i \in 1..Len(M) : lo + i - 1 \in 1..Len(rows) /\ lo <= lo + i - 1 /\ lo + i - 1 <= hi
      BY <1>1, <2>3, <2>4
    <2>7. ASSUME NEW i \in 1..Len(M)
          PROVE  Code(M[i]) = want
      <3>1. M[i] = rows[lo + i - 1]
        BY <2>4
      <3>2. CASE lo + i - 1 = lo \/ lo + i - 1 = hi
        BY <2>3, <3>1, <3>2
      <3>3. CASE lo < lo + i - 1 /\ lo + i - 1 < hi
        BY <1>1, <2>3, <2>6, <3>1, <3>3 DEF RowsOK
      <3> QED
        BY <2>3, <2>6, <3>2, <3>3
    <2>8. ASSUME NEW i \in 1..Len(M), NEW j \in 1..Len(M), i < j
          PROVE  M[i] # M[j]
      <3>1. lo + i - 1 < lo + j - 1
        BY <2>3, <2>8
      <3>2. \A a, b \in 1..Len(rows) : a < b => rows[a] # rows[b]
        BY <1>1 DEF RowsOK
      <3>3. M[i] = rows[lo + i - 1] /\ M[j] = rows[lo + j - 1]
        BY <2>4
      <3> QED
        BY <2>6, <3>1, <3>2, <3>3
    <2>9. ToSet(M) \subseteq ToSet(rows)
      BY <1>1, <2>4, <2>5, <2>6 DEF ToSet
    <2>10. RowsOK(M)
      BY <2>4, <2>7, <2>8 DEF RowsOK
    <2> QED
      BY <1>4, <2>5, <2>7, <2>9, <2>10 DEF M
  <1> QED
    BY <1>2, <1>3, <1>4
-----------------------------------------------------------------------------
(* The union of a match, built a row at a time.                            *)

LEMMA RowAdded ==
  ASSUME NEW f \in Files, NEW union \in Seq(Entry), NEW row \in Nat \X Nat
  PROVE  WithRow(f, union, row) \in Seq(Entry)
  <1> DEFINE triple == Decoded(f, Code(row))
             graph == Decoded(f, GraphCode(row))
             longer == [k \in DOMAIN union |->
                          IF union[k][1] = triple THEN <<triple, Append(union[k][2], graph)>>
                          ELSE union[k]]
  <1>1. triple \in Term /\ graph \in Term
    BY DEF Decoded, Code, GraphCode, Term
  <1>2. <<triple, <<graph>>>> \in Entry
    BY <1>1 DEF Entry
  <1> HIDE DEF triple, graph
  <1>3. longer \in Seq(Entry)
    <2>1. DOMAIN union = 1..Len(union) /\ Len(union) \in Nat
      BY LenProperties
    <2>2. ASSUME NEW k \in DOMAIN union
          PROVE  longer[k] \in Entry
      <3>1. union[k] \in Entry
        BY <2>1, ElementOfSeq
      <3>2. union[k][2] \in Seq(Term)
        BY <3>1 DEF Entry
      <3>3. Append(union[k][2], graph) \in Seq(Term)
        BY <1>1, <3>2
      <3>4. <<triple, Append(union[k][2], graph)>> \in Entry
        BY <1>1, <3>3 DEF Entry
      <3> QED
        BY <3>1, <3>4
    <2>3. longer \in [1..Len(union) -> Entry]
      BY <2>1, <2>2
    <2> QED
      BY <2>1, <2>3, SeqDef
  <1>4. Append(union, <<triple, <<graph>>>>) \in Seq(Entry)
    BY <1>2
  <1>5. WithRow(f, union, row) = longer \/ WithRow(f, union, row) = Append(union, <<triple, <<graph>>>>)
    BY Zenon DEF WithRow, triple, graph
  <1> QED
    BY <1>3, <1>4, <1>5, Zenon

LEMMA UnionUnfolds ==
  ASSUME NEW f \in Files, NEW rows, RowsOK(rows)
  PROVE  /\ UnionUpTo(f, rows)[0] = <<>>
         /\ \A n \in 1..Len(rows) :
              UnionUpTo(f, rows)[n] = WithRow(f, UnionUpTo(f, rows)[n - 1], rows[n])
         /\ \A n \in 0..Len(rows) : UnionUpTo(f, rows)[n] \in Seq(Entry)
  <1> DEFINE N == Len(rows)
             step == [i \in 1..N |-> [u \in Seq(Entry) |-> WithRow(f, u, rows[i])]]
             P(h) == h = [n \in 0..N |-> IF n = 0 THEN <<>> ELSE WithRow(f, h[n - 1], rows[n])]
             U == UnionUpTo(f, rows)
  <1>1. N \in Nat /\ <<>> \in Seq(Entry) /\ step \in [1..N -> [Seq(Entry) -> Seq(Entry)]]
    <2>1. ASSUME NEW i \in 1..N, NEW u \in Seq(Entry)
          PROVE  WithRow(f, u, rows[i]) \in Seq(Entry)
      <3>1. rows[i] \in Nat \X Nat
        BY ElementOfSeq DEF RowsOK
      <3> QED
        BY <3>1, RowAdded
    <2>2. N \in Nat
      BY LenProperties DEF RowsOK
    <2> QED
      BY <2>1, <2>2, EmptySeq
  <1>2. \A i \in 1..N, u \in Seq(Entry) : step[i][u] = WithRow(f, u, rows[i])
    OBVIOUS
  <1> HIDE DEF step, N
  <1>3. PICK g \in [0..N -> Seq(Entry)] : g[0] = <<>> /\ \A i \in 1..N : g[i] = step[i][g[i - 1]]
    <2>1. \E g : MadeBy(g, Seq(Entry), <<>>, N, step)
      BY <1>1, StepByStep
    <2> QED
      BY <2>1, Zenon DEF MadeBy
  <1>4. P(g)
    <2>1. ASSUME NEW n \in 0..N
          PROVE  g[n] = IF n = 0 THEN <<>> ELSE WithRow(f, g[n - 1], rows[n])
      <3>1. CASE n = 0
        BY <1>3, <3>1
      <3>2. CASE n # 0
        <4>1. n \in 1..N /\ n - 1 \in 0..N
          BY <1>1, <3>2
        <4>2. g[n - 1] \in Seq(Entry)
          BY <4>1
        <4> QED
          BY <1>2, <1>3, <3>2, <4>1, <4>2, Zenon
      <3> QED
        BY <3>1, <3>2
    <2> QED
      BY <1>3, <2>1, Zenon
  <1>5. P(CHOOSE h : P(h))
    BY <1>4, Zenon
  <1>6. U = CHOOSE h : P(h)
    BY DEF UnionUpTo, N
  <1>7. P(U)
    BY <1>5, <1>6, Zenon
  <1> HIDE DEF U
  <1>8. U[0] = <<>> /\ \A n \in 1..N : U[n] = WithRow(f, U[n - 1], rows[n])
    <2>1. 0 \in 0..N /\ \A n \in 1..N : n \in 0..N /\ n # 0
      BY <1>1
    <2> QED
      BY <1>7, <2>1, Zenon
  <1>9. \A n \in 0..N : U[n] \in Seq(Entry)
    <2> DEFINE S == {n \in Nat : n <= N => U[n] \in Seq(Entry)}
    <2>1. 0 \in S
      BY <1>1, <1>8
    <2>2. ASSUME NEW n \in Nat, n \in S
          PROVE  n + 1 \in S
      <3> SUFFICES ASSUME n + 1 <= N PROVE U[n + 1] \in Seq(Entry)
        OBVIOUS
      <3>1. U[n] \in Seq(Entry) /\ n + 1 \in 1..N /\ (n + 1) - 1 = n
        BY <1>1, <2>2
      <3>2. U[n + 1] = WithRow(f, U[n], rows[n + 1])
        BY <1>8, <3>1, Zenon
      <3>3. rows[n + 1] \in Nat \X Nat
        BY <3>1, ElementOfSeq DEF RowsOK, N
      <3> QED
        BY <3>1, <3>2, <3>3, RowAdded
    <2> HIDE DEF S
    <2>3. Nat \subseteq S
      BY <2>1, <2>2, SetInduction
    <2> QED
      BY <1>1, <2>3 DEF S
  <1> QED
    BY <1>8, <1>9 DEF U, N
(* A union with a row added: its last triple with one graph more, or one   *)
(* triple more.                                                            *)
Grown(f, union, row, longer) ==
  LET triple == Decoded(f, Code(row))
      graph == Decoded(f, GraphCode(row))
  IN  \/ /\ union # <<>> /\ union[Len(union)][1] = triple
         /\ longer = [k \in 1..Len(union) |->
                        IF k = Len(union) THEN <<triple, Append(union[k][2], graph)>> ELSE union[k]]
      \/ /\ union = <<>> \/ union[Len(union)][1] # triple
         /\ longer = Append(union, <<triple, <<graph>>>>)

(* The union of the first n rows: their triples, each once, row n's last.  *)
UnionShape(f, rows, n, union) ==
  /\ \A j, k \in 1..Len(union) : union[j][1] = union[k][1] => j = k
  /\ \A k \in 1..Len(union) : \E i \in 1..n : union[k][1] = Decoded(f, Code(rows[i]))
  /\ \A i \in 1..n : \E k \in 1..Len(union) : union[k][1] = Decoded(f, Code(rows[i]))
  /\ n > 0 => union # <<>> /\ union[Len(union)][1] = Decoded(f, Code(rows[n]))
  /\ n = 0 => union = <<>>

LEMMA RowGrows ==
  ASSUME NEW f \in Files, NEW rows, RowsOK(rows), NEW n \in Nat, n + 1 <= Len(rows),
         NEW union \in Seq(Entry), UnionShape(f, rows, n, union)
  PROVE  /\ Grown(f, union, rows[n + 1], WithRow(f, union, rows[n + 1]))
         /\ UnionShape(f, rows, n + 1, WithRow(f, union, rows[n + 1]))
  <1> DEFINE row == rows[n + 1]
             triple == Decoded(f, Code(row))
             graph == Decoded(f, GraphCode(row))
             longer == WithRow(f, union, row)
             L == Len(union)
  <1>1. DOMAIN union = 1..L /\ L \in Nat /\ Len(rows) \in Nat
    BY LenProperties DEF RowsOK
  <1>2. union # <<>> => L > 0 /\ L \in 1..L
    BY <1>1, EmptySeq
  <1>3. \A i \in 1..n : i \in 1..Len(rows) /\ i < n + 1
    BY <1>1
  <1>4. ASSUME NEW k \in 1..L, union[k][1] = triple
        PROVE  k = L /\ union # <<>> /\ union[L][1] = triple /\ Code(rows[n]) = Code(row)
    <2>1. PICK i \in 1..n : union[k][1] = Decoded(f, Code(rows[i]))
      BY DEF UnionShape
    <2>2. Code(rows[i]) = Code(row)
      BY <1>4, <2>1 DEF Decoded
    <2>3. n > 0 /\ i \in 1..Len(rows) /\ n \in 1..Len(rows) /\ n + 1 \in 1..Len(rows)
      BY <1>1, <1>3
    <2>4. Code(rows[n]) = Code(row)
      <3>1. CASE i = n
        BY <2>2, <3>1
      <3>2. CASE i # n
        <4>1. i < n /\ n < n + 1
          BY <3>2
        <4> QED
          BY <2>2, <2>3, <4>1 DEF RowsOK
      <3> QED
        BY <3>1, <3>2
    <2>5. union # <<>> /\ union[L][1] = Decoded(f, Code(rows[n]))
      BY <2>3 DEF UnionShape
    <2>6. k = L
      <3>1. union[k][1] = union[L][1] /\ L \in 1..L
        BY <1>2, <1>4, <2>4, <2>5
      <3> QED
        BY <3>1 DEF UnionShape
    <2> QED
      BY <2>4, <2>5, <2>6
  <1>5. CASE union # <<>> /\ union[L][1] = triple
    <2>1. longer = [k \in 1..L |->
                      IF union[k][1] = triple THEN <<triple, Append(union[k][2], graph)>>
                      ELSE union[k]]
      BY <1>1, <1>2, <1>5 DEF WithRow
    <2>2. \A k \in 1..L : union[k][1] = triple <=> k = L
      BY <1>4, <1>5
    <2> HIDE DEF triple, graph, longer, row
    <2>3. longer = [k \in 1..L |->
                      IF k = L THEN <<triple, Append(union[k][2], graph)>> ELSE union[k]]
      BY <2>1, <2>2
    <2>4. /\ DOMAIN longer = 1..L /\ \A k \in 1..L : longer[k][1] = union[k][1]
          /\ longer \in Seq(Entry)
      <3>1. row \in Nat \X Nat
        BY <1>1, ElementOfSeq DEF RowsOK, row
      <3>2. longer \in Seq(Entry)
        BY <3>1, RowAdded DEF longer
      <3> QED
        BY <2>2, <2>3, <3>2
    <2>5. Len(longer) = L
      BY <1>1, <2>4, LenProperties
    <2>6. Code(rows[n]) = Code(row) /\ n > 0
      <3>1. L \in 1..L
        BY <1>2, <1>5
      <3>2. PICK i \in 1..n : TRUE
        BY <3>1 DEF UnionShape
      <3> QED
        BY <1>4, <1>5, <3>1, <3>2 DEF triple
    <2>7. UnionShape(f, rows, n + 1, longer)
      <3>1. \A i \in 1..n + 1 : i = n + 1 \/ i \in 1..n
        OBVIOUS
      <3>2. \A i \in 1..n : i \in 1..n + 1
        OBVIOUS
      <3>3. longer # <<>> /\ longer[L][1] = Decoded(f, Code(rows[n + 1]))
        BY <1>2, <1>5, <2>4, <2>5, EmptySeq DEF triple, row
      <3>4. \A i \in 1..n + 1 : \E k \in 1..L : longer[k][1] = Decoded(f, Code(rows[i]))
        BY <1>2, <1>5, <2>4, <3>1, <3>3 DEF UnionShape
      <3>5. /\ \A j, k \in 1..L : longer[j][1] = longer[k][1] => j = k
            /\ \A k \in 1..L : \E i \in 1..n : longer[k][1] = Decoded(f, Code(rows[i]))
        BY <2>4 DEF UnionShape
      <3>6. \A k \in 1..L : \E i \in 1..n + 1 : longer[k][1] = Decoded(f, Code(rows[i]))
        BY <3>2, <3>5
      <3> QED
        BY <2>5, <3>3, <3>4, <3>5, <3>6 DEF UnionShape
    <2> QED
      BY <1>5, <2>3, <2>7 DEF Grown, triple, graph, longer, row
  <1>6. CASE union = <<>> \/ union[L][1] # triple
    <2>1. \A k \in 1..L : union[k][1] # triple
      BY <1>4, <1>6
    <2>2. longer = Append(union, <<triple, <<graph>>>>)
      BY <1>1, <2>1 DEF WithRow
    <2> HIDE DEF triple, graph, longer, row
    <2>3. /\ Len(longer) = L + 1
          /\ \A k \in 1..L : longer[k] = union[k]
          /\ longer[L + 1] = <<triple, <<graph>>>>
      BY <1>1, <2>2, AppendProperties
    <2>4. longer # <<>>
      BY <1>1, <2>3, EmptySeq
    <2>5. UnionShape(f, rows, n + 1, longer)
      <3>1. /\ \A i \in 1..n + 1 : i = n + 1 \/ i \in 1..n
            /\ \A i \in 1..n : i \in 1..n + 1
            /\ n + 1 \in 1..n + 1 /\ n + 1 > 0 /\ n + 1 # 0
        OBVIOUS
      <3>2. /\ \A k \in 1..L + 1 : k = L + 1 \/ k \in 1..L
            /\ \A k \in 1..L : k \in 1..L + 1
            /\ L + 1 \in 1..L + 1
        BY <1>1
      <3>3. longer[L + 1][1] = Decoded(f, Code(rows[n + 1]))
        BY <2>3 DEF triple, row
      <3>4. \A j, k \in 1..L + 1 : longer[j][1] = longer[k][1] => j = k
        <4>1. \A j, k \in 1..L : longer[j][1] = longer[k][1] => j = k
          BY <2>3 DEF UnionShape
        <4>2. \A k \in 1..L : longer[k][1] # longer[L + 1][1]
          BY <2>1, <2>3
        <4> QED
          BY <3>2, <4>1, <4>2
      <3>5. \A k \in 1..L + 1 : \E i \in 1..n + 1 : longer[k][1] = Decoded(f, Code(rows[i]))
        <4>1. \A k \in 1..L : \E i \in 1..n : longer[k][1] = Decoded(f, Code(rows[i]))
          <5>1. \A k \in 1..L : longer[k][1] = union[k][1]
            BY <2>3
          <5>2. \A k \in 1..L : \E i \in 1..n : union[k][1] = Decoded(f, Code(rows[i]))
            BY DEF UnionShape
          <5> QED
            BY <5>1, <5>2, Zenon
        <4> QED
          BY <3>1, <3>2, <3>3, <4>1, Zenon
      <3>6. \A i \in 1..n + 1 : \E k \in 1..L + 1 : longer[k][1] = Decoded(f, Code(rows[i]))
        <4>1. \A i \in 1..n : \E k \in 1..L : longer[k][1] = Decoded(f, Code(rows[i]))
          BY <2>3 DEF UnionShape
        <4> QED
          BY <3>1, <3>2, <3>3, <4>1, Zenon
      <3> QED
        BY <2>3, <2>4, <3>1, <3>3, <3>4, <3>5, <3>6 DEF UnionShape
    <2> QED
      BY <1>6, <2>2, <2>5 DEF Grown, triple, graph, longer, row
  <1> QED
    BY <1>5, <1>6
LEMMA UnionsGrow ==
  ASSUME NEW f \in Files, NEW rows, RowsOK(rows)
  PROVE  /\ Len(rows) \in Nat
         /\ \A n \in 0..Len(rows) : /\ UnionUpTo(f, rows)[n] \in Seq(Entry)
                                    /\ UnionShape(f, rows, n, UnionUpTo(f, rows)[n])
         /\ \A n \in Nat : n + 1 <= Len(rows) =>
              Grown(f, UnionUpTo(f, rows)[n], rows[n + 1], UnionUpTo(f, rows)[n + 1])
  <1> DEFINE U == UnionUpTo(f, rows)
             S == {n \in Nat : n <= Len(rows) => UnionShape(f, rows, n, U[n])}
  <1>1. Len(rows) \in Nat
    BY LenProperties DEF RowsOK
  <1>2. /\ U[0] = <<>>
        /\ \A n \in 1..Len(rows) : U[n] = WithRow(f, U[n - 1], rows[n])
        /\ \A n \in 0..Len(rows) : U[n] \in Seq(Entry)
    BY UnionUnfolds
  <1> HIDE DEF U
  <1>3. \A n \in Nat : n + 1 <= Len(rows) =>
          U[n] \in Seq(Entry) /\ U[n + 1] = WithRow(f, U[n], rows[n + 1])
    <2> SUFFICES ASSUME NEW n \in Nat, n + 1 <= Len(rows)
                 PROVE  U[n] \in Seq(Entry) /\ U[n + 1] = WithRow(f, U[n], rows[n + 1])
      OBVIOUS
    <2>1. n \in 0..Len(rows) /\ n + 1 \in 1..Len(rows) /\ (n + 1) - 1 = n
      BY <1>1
    <2> QED
      BY <1>2, <2>1
  <1>4. 0 \in S
    <2>1. Len(U[0]) = 0
      BY <1>2, EmptySeq
    <2>2. 1..0 = {}
      OBVIOUS
    <2> QED
      BY <1>2, <2>1, <2>2 DEF UnionShape
  <1>5. ASSUME NEW n \in Nat, n \in S
        PROVE  n + 1 \in S
    <2> SUFFICES ASSUME n + 1 <= Len(rows) PROVE UnionShape(f, rows, n + 1, U[n + 1])
      OBVIOUS
    <2>1. UnionShape(f, rows, n, U[n])
      BY <1>1, <1>5
    <2> QED
      BY <1>3, <2>1, RowGrows
  <1> HIDE DEF S
  <1>6. Nat \subseteq S
    BY <1>4, <1>5, SetInduction
  <1>7. \A n \in 0..Len(rows) : UnionShape(f, rows, n, U[n])
    BY <1>1, <1>6 DEF S
  <1>8. ASSUME NEW n \in Nat, n + 1 <= Len(rows)
        PROVE  Grown(f, U[n], rows[n + 1], U[n + 1])
    <2>1. n \in 0..Len(rows)
      BY <1>1, <1>8
    <2> QED
      BY <1>3, <1>7, <1>8, <2>1, RowGrows
  <1> QED
    BY <1>1, <1>2, <1>7, <1>8 DEF U

(* Rows of different triples make a union of a triple each.                *)
Apart(rows) == \A i, j \in 1..Len(rows) : i < j => Code(rows[i]) # Code(rows[j])

LEMMA ApartGrows ==
  ASSUME NEW f \in Files, NEW rows, RowsOK(rows), Apart(rows), NEW n \in Nat, n + 1 <= Len(rows)
  PROVE  UnionUpTo(f, rows)[n + 1]
           = Append(UnionUpTo(f, rows)[n],
                    <<Decoded(f, Code(rows[n + 1])), <<Decoded(f, GraphCode(rows[n + 1]))>>>>)
  <1> DEFINE union == UnionUpTo(f, rows)[n]
  <1>1. Len(rows) \in Nat /\ n \in 0..Len(rows)
    BY UnionsGrow
  <1>2. UnionShape(f, rows, n, union) /\ Grown(f, union, rows[n + 1], UnionUpTo(f, rows)[n + 1])
    BY <1>1, UnionsGrow
  <1> HIDE DEF union
  <1>3. ~(union # <<>> /\ union[Len(union)][1] = Decoded(f, Code(rows[n + 1])))
    <2> SUFFICES ASSUME union # <<>>, union[Len(union)][1] = Decoded(f, Code(rows[n + 1]))
                 PROVE  FALSE
      OBVIOUS
    <2>1. n # 0
      BY <1>2 DEF UnionShape
    <2>2. union[Len(union)][1] = Decoded(f, Code(rows[n]))
      BY <1>2, <2>1 DEF UnionShape
    <2>3. n \in 1..Len(rows) /\ n + 1 \in 1..Len(rows) /\ n < n + 1
      BY <1>1, <2>1
    <2> QED
      BY <2>2, <2>3 DEF Apart, Decoded
  <1> QED
    BY <1>2, <1>3 DEF Grown, union

(* A later union begins with the earlier one but for its last triple.      *)
Begins(early, late, rows) ==
  /\ Len(early) <= Len(late)
  /\ \A k \in 1..Len(early) : k < Len(early) \/ Apart(rows) => late[k] = early[k]

LEMMA UnionsBegin ==
  ASSUME NEW f \in Files, NEW rows, RowsOK(rows),
         NEW n \in 0..Len(rows), NEW m \in 0..Len(rows), n <= m
  PROVE  Begins(UnionUpTo(f, rows)[n], UnionUpTo(f, rows)[m], rows)
  <1> DEFINE U == UnionUpTo(f, rows)
             L == Len(U[n])
             P(i) == /\ L <= Len(U[i])
                     /\ \A k \in 1..L : k < L \/ Apart(rows) => U[i][k] = U[n][k]
             S == {i \in Nat : n <= i /\ i <= Len(rows) => P(i)}
  <1>1. /\ Len(rows) \in Nat
        /\ \A i \in 0..Len(rows) : U[i] \in Seq(Entry)
        /\ \A i \in Nat : i + 1 <= Len(rows) => Grown(f, U[i], rows[i + 1], U[i + 1])
    BY UnionsGrow
  <1>2. \A i \in Nat : i + 1 <= Len(rows) /\ Apart(rows) =>
          U[i + 1] = Append(U[i], <<Decoded(f, Code(rows[i + 1])), <<Decoded(f, GraphCode(rows[i + 1]))>>>>)
    BY ApartGrows
  <1> HIDE DEF U
  <1>3. L \in Nat /\ P(n)
    BY <1>1, LenProperties
  <1>4. ASSUME NEW i \in Nat, i \in S, n <= i + 1, i + 1 <= Len(rows)
        PROVE  P(i + 1)
    <2>1. CASE n = i + 1
      BY <1>3, <2>1
    <2>2. CASE n <= i
      <3> DEFINE union == U[i]
                 longer == U[i + 1]
      <3>1. P(i) /\ i \in 0..Len(rows) /\ union \in Seq(Entry)
        BY <1>1, <1>4, <2>2
      <3>2. Len(union) \in Nat /\ Grown(f, union, rows[i + 1], longer)
        BY <1>1, <1>4, <3>1, LenProperties
      <3>3. CASE /\ ~Apart(rows)
                 /\ longer = [k \in 1..Len(union) |->
                                IF k = Len(union)
                                THEN <<Decoded(f, Code(rows[i + 1])),
                                       Append(union[k][2], Decoded(f, GraphCode(rows[i + 1])))>>
                                ELSE union[k]]
        <4>1. DOMAIN longer = 1..Len(union) /\ \A k \in 1..Len(union) : k # Len(union) => longer[k] = union[k]
          BY <3>3
        <4>2. longer \in Seq(Entry)
          <5>1. i + 1 \in 0..Len(rows)
            BY <1>1, <1>4
          <5> QED
            BY <1>1, <5>1
        <4>3. Len(longer) = Len(union)
          BY <3>2, <4>1, <4>2, LenProperties
        <4>4. \A k \in 1..L : k < L => k \in 1..Len(union) /\ k # Len(union)
          BY <1>3, <3>1, <3>2
        <4> HIDE DEF longer, union, L
        <4>5. \A k \in 1..L : k < L => longer[k] = union[k]
          BY <4>1, <4>4
        <4>6. \A k \in 1..L : k < L => union[k] = U[n][k]
          BY <3>1 DEF union, L
        <4> QED
          BY <3>1, <3>3, <4>3, <4>5, <4>6 DEF longer, union, L
      <3>4. CASE longer = Append(union, <<Decoded(f, Code(rows[i + 1])), <<Decoded(f, GraphCode(rows[i + 1]))>>>>)
        <4>1. Len(longer) = Len(union) + 1 /\ \A k \in 1..Len(union) : longer[k] = union[k]
          BY <3>1, <3>4
        <4>2. \A k \in 1..L : k \in 1..Len(union)
          BY <1>3, <3>1, <3>2
        <4> HIDE DEF longer, union, L
        <4>3. L <= Len(longer)
          BY <1>3, <3>1, <3>2, <4>1 DEF L, union
        <4> QED
          BY <3>1, <4>1, <4>2, <4>3 DEF longer, union, L
      <3>5. CASE Apart(rows)
        BY <1>2, <1>4, <3>4, <3>5
      <3> QED
        BY <3>2, <3>3, <3>4, <3>5 DEF Grown
    <2> QED
      BY <1>4, <2>1, <2>2
  <1> HIDE DEF P
  <1>5. 0 \in S
    BY <1>3
  <1>6. \A i \in Nat : i \in S => i + 1 \in S
    BY <1>4
  <1> HIDE DEF S
  <1>7. m \in S
    BY <1>5, <1>6, SetInduction
  <1>8. P(m)
    BY <1>1, <1>7 DEF S
  <1> QED
    BY <1>8 DEF P, U, Begins
-----------------------------------------------------------------------------
(* Counting: triples, graphs and the length of a union.                    *)

(* The values a sequence takes of its places are finitely many.            *)
LEMMA PlacesCount ==
  ASSUME NEW n \in Nat, NEW T, NEW h \in [1..n -> T], \A x \in T : \E i \in 1..n : h[i] = x
  PROVE  /\ IsFiniteSet(T) /\ Cardinality(T) \in Nat
         /\ Cardinality(T) = n <=> IsInjective(h)
  <1>1. IsFiniteSet(1..n) /\ Cardinality(1..n) = n
    <2>1. n \in Int /\ 1 \in Int /\ (IF 1 > n THEN 0 ELSE n - 1 + 1) = n
      OBVIOUS
    <2> QED
      BY <2>1, FS_Interval
  <1>2. h \in Surjection(1..n, T)
    BY DEF Surjection
  <1>3. IsFiniteSet(T) /\ (Cardinality(T) = Cardinality(1..n) <=> h \in Injection(1..n, T))
    BY <1>1, <1>2, FS_Surjection
  <1>4. h \in Injection(1..n, T) <=> IsInjective(h)
    BY DEF Injection
  <1>5. Cardinality(T) \in Nat
    BY <1>3, FS_CardinalityType
  <1> QED
    BY <1>1, <1>3, <1>4, <1>5

LEMMA TriplesCount ==
  ASSUME NEW f \in Files
  PROVE  /\ Cardinality(TriplesOf(f)) \in Nat
         /\ ~Repeats(f) <=> Apart(FileRows[f])
  <1> DEFINE rows == FileRows[f]
             h == [i \in 1..Len(rows) |-> Code(rows[i])]
             T == TriplesOf(f)
  <1>1. RowsOK(rows) /\ Size(f) = Len(rows) /\ Len(rows) \in Nat
    BY FilesOK
  <1>2. DOMAIN rows = 1..Len(rows)
    BY <1>1, LenProperties DEF RowsOK
  <1>3. T = {Code(rows[i]) : i \in 1..Len(rows)}
    BY <1>2 DEF TriplesOf, ToSet
  <1>4. h \in [1..Len(rows) -> T] /\ \A x \in T : \E i \in 1..Len(rows) : h[i] = x
    BY <1>3
  <1>5. \A i \in 1..Len(rows) : h[i] = Code(rows[i])
    OBVIOUS
  <1>6. DOMAIN h = 1..Len(rows)
    OBVIOUS
  <1> HIDE DEF h, T, rows
  <1>7. Cardinality(T) \in Nat /\ (Cardinality(T) = Len(rows) <=> IsInjective(h))
    BY <1>1, <1>4, PlacesCount
  <1>8. IsInjective(h) <=> Apart(rows)
    <2>1. ASSUME IsInjective(h) PROVE Apart(rows)
      <3>1. \A i, j \in 1..Len(rows) : i < j => i # j
        BY <1>1
      <3> QED
        BY <1>5, <1>6, <2>1, <3>1 DEF IsInjective, Apart
    <2>2. ASSUME Apart(rows) PROVE IsInjective(h)
      <3>1. \A i, j \in 1..Len(rows) : i = j \/ i < j \/ j < i
        BY <1>1
      <3> QED
        BY <1>5, <1>6, <2>2, <3>1 DEF IsInjective, Apart
    <2> QED
      BY <2>1, <2>2
  <1> QED
    BY <1>1, <1>7, <1>8 DEF Repeats, T, rows

(* A file of one graph repeats no triple.                                  *)
LEMMA OneGraph ==
  ASSUME NEW f \in Files, Cardinality(GraphsOf(FileRows[f])) <= 1
  PROVE  ~Repeats(f)
  <1> DEFINE rows == FileRows[f]
             h == [i \in 1..Len(rows) |-> GraphCode(rows[i])]
             G == GraphsOf(rows)
  <1>1. RowsOK(rows) /\ Len(rows) \in Nat
    BY FilesOK
  <1>2. DOMAIN rows = 1..Len(rows)
    BY <1>1, LenProperties DEF RowsOK
  <1>3. G = {GraphCode(rows[i]) : i \in 1..Len(rows)}
    BY <1>2 DEF GraphsOf, ToSet
  <1>4. IsFiniteSet(G) /\ Cardinality(G) \in Nat
    <2>1. h \in [1..Len(rows) -> G] /\ \A x \in G : \E i \in 1..Len(rows) : h[i] = x
      BY <1>3
    <2> HIDE DEF h, G
    <2> QED
      BY <1>1, <2>1, PlacesCount
  <1>5. \A x, y \in G : x = y
    <2>1. PICK b : b \in Bijection(1..Cardinality(G), G)
      BY <1>4, FS_CardinalityType DEF ExistsBijection
    <2>2. \A x \in G : \E i \in 1..Cardinality(G) : b[i] = x
      BY <2>1 DEF Bijection, Surjection
    <2>3. \A i, j \in 1..Cardinality(G) : i = j
      BY <1>4
    <2> QED
      BY <2>2, <2>3
  <1>6. ASSUME NEW i \in 1..Len(rows), NEW j \in 1..Len(rows), i < j
        PROVE  Code(rows[i]) # Code(rows[j])
    <2>1. rows[i] \in Nat \X Nat /\ rows[j] \in Nat \X Nat
      BY <1>1, ElementOfSeq DEF RowsOK
    <2>2. rows[i] # rows[j]
      BY <1>1, <1>6 DEF RowsOK
    <2>3. GraphCode(rows[i]) = GraphCode(rows[j])
      BY <1>3, <1>5
    <2> QED
      BY <2>1, <2>2, <2>3 DEF Code, GraphCode
  <1>7. Apart(rows)
    BY <1>6 DEF Apart
  <1> QED
    BY <1>7, TriplesCount

(* Neither does any match of a file that repeats none.                     *)
LEMMA MatchesApart ==
  ASSUME NEW f \in Files, NEW want \in Ground \cup {None}, ~Repeats(f)
  PROVE  Apart(Match(f, want))
  <1> DEFINE rows == FileRows[f]
             M == Match(f, want)
  <1>1. RowsOK(rows) /\ Len(rows) \in Nat
    BY FilesOK
  <1>2. DOMAIN rows = 1..Len(rows)
    BY <1>1, LenProperties DEF RowsOK
  <1>3. RowsOK(M) /\ DOMAIN M = 1..Len(M) /\ ToSet(M) \subseteq ToSet(rows)
    BY MatchesOK
  <1>4. Apart(rows)
    BY TriplesCount
  <1> HIDE DEF M, rows
  <1>5. ASSUME NEW i \in 1..Len(M), NEW j \in 1..Len(M), i < j
        PROVE  Code(M[i]) # Code(M[j])
    <2>1. PICK a \in 1..Len(rows) : M[i] = rows[a]
      BY <1>2, <1>3 DEF ToSet
    <2>2. PICK b \in 1..Len(rows) : M[j] = rows[b]
      BY <1>2, <1>3 DEF ToSet
    <2>3. a # b
      BY <1>3, <1>5, <2>1, <2>2 DEF RowsOK
    <2>4. a < b \/ b < a
      BY <1>1, <2>3
    <2> QED
      BY <1>4, <2>1, <2>2, <2>4 DEF Apart
  <1> QED
    BY <1>5 DEF Apart, M

LEMMA UnionLength ==
  ASSUME NEW f \in Files
  PROVE  Len(UnionOf(f, None)) = Cardinality(TriplesOf(f))
  <1> DEFINE rows == FileRows[f]
             N == Len(rows)
             union == UnionOf(f, None)
             h == [k \in 1..Len(union) |-> union[k][1][2]]
             T == TriplesOf(f)
  <1>1. RowsOK(rows) /\ N \in Nat /\ DOMAIN rows = 1..N
    <2>1. RowsOK(rows) /\ N \in Nat
      BY FilesOK
    <2> QED
      BY <2>1, LenProperties DEF RowsOK
  <1>2. union = UnionUpTo(f, rows)[N]
    BY DEF UnionOf, Match
  <1>3. union \in Seq(Entry) /\ UnionShape(f, rows, N, union)
    <2>1. N \in 0..N
      BY <1>1
    <2> QED
      BY <1>1, <1>2, <2>1, UnionsGrow
  <1>4. T = {Code(rows[i]) : i \in 1..N}
    BY <1>1 DEF TriplesOf, ToSet
  <1> HIDE DEF union, T, rows, N
  <1>5. Len(union) \in Nat
    BY <1>3, LenProperties
  <1>6. \A k \in 1..Len(union) : \E i \in 1..N :
          union[k][1] = Decoded(f, Code(rows[i])) /\ union[k][1][2] = Code(rows[i])
    <2>1. \A k \in 1..Len(union) : \E i \in 1..N : union[k][1] = Decoded(f, Code(rows[i]))
      BY <1>3, Zenon DEF UnionShape
    <2>2. \A i \in 1..N : Decoded(f, Code(rows[i]))[2] = Code(rows[i])
      BY DEF Decoded
    <2> QED
      BY <2>1, <2>2, Zenon
  <1>7. h \in [1..Len(union) -> T]
    BY <1>4, <1>6
  <1>8. ASSUME NEW x \in T
        PROVE  \E k \in 1..Len(union) : h[k] = x
    <2>1. PICK i \in 1..N : x = Code(rows[i])
      BY <1>4
    <2>2. PICK k \in 1..Len(union) : union[k][1] = Decoded(f, Code(rows[i]))
      BY <1>3 DEF UnionShape
    <2>3. h[k] = x
      BY <2>1, <2>2 DEF Decoded
    <2> QED
      BY <2>3
  <1>9. IsInjective(h)
    <2>1. ASSUME NEW j \in 1..Len(union), NEW k \in 1..Len(union), h[j] = h[k]
          PROVE  j = k
      <3>1. union[j][1][2] = union[k][1][2]
        BY <2>1
      <3>2. union[j][1] = union[k][1]
        <4>1. \A l \in 1..Len(union) : union[l][1] = <<f, union[l][1][2]>>
          BY <1>6 DEF Decoded
        <4> QED
          BY <3>1, <4>1
      <3> QED
        BY <1>3, <3>2 DEF UnionShape
    <2>2. DOMAIN h = 1..Len(union)
      OBVIOUS
    <2> HIDE DEF h
    <2> QED
      BY <2>1, <2>2 DEF IsInjective
  <1> HIDE DEF h
  <1>10. Cardinality(T) = Len(union)
    BY <1>5, <1>7, <1>8, <1>9, PlacesCount
  <1> QED
    BY <1>10 DEF union, T
-----------------------------------------------------------------------------
(* The pieces of the actions.                                              *)

LEMMA RepeatsKept ==
  ASSUME NEW f \in Files, NEW k, KeptOf(f, k)
  PROVE  KeptOf(f, WithRepeats(f, k)) /\ WithRepeats(f, k).repeats = Repeats(f)
  <1> DEFINE one == [k EXCEPT !.repeats = FALSE]
             many == [k EXCEPT !.repeats = Cardinality(TriplesOf(f)) # Size(f),
                               !.size = Cardinality(TriplesOf(f))]
  <1>1. DOMAIN k = {"graphs", "repeats", "size"}
    BY DEF KeptOf
  <1>2. CASE k.repeats # None
    BY <1>2, Zenon DEF KeptOf, WithRepeats
  <1>3. CASE k.repeats = None /\ Cardinality(GraphsOf(FileRows[f])) <= 1
    <2>1. /\ one.graphs = k.graphs /\ one.repeats = FALSE
          /\ DOMAIN one = {"graphs", "repeats", "size"}
      BY <1>1
    <2>2. Repeats(f) = FALSE
      BY <1>3, OneGraph DEF Repeats
    <2>3. WithRepeats(f, k) = one
      BY <1>3 DEF WithRepeats
    <2> HIDE DEF one
    <2> QED
      BY <2>1, <2>2, <2>3 DEF KeptOf
  <1>4. CASE k.repeats = None /\ ~(Cardinality(GraphsOf(FileRows[f])) <= 1)
    <2>1. /\ many.graphs = k.graphs /\ many.repeats = Repeats(f)
          /\ many.size = Cardinality(TriplesOf(f))
          /\ DOMAIN many = {"graphs", "repeats", "size"}
      BY <1>1 DEF Repeats
    <2>2. WithRepeats(f, k) = many
      BY <1>4 DEF WithRepeats
    <2> HIDE DEF many
    <2> QED
      BY <2>1, <2>2 DEF KeptOf
  <1> QED
    BY <1>2, <1>3, <1>4

(* A finite set as a sequence.                                             *)
LEMMA InOrder ==
  ASSUME NEW S, IsFiniteSet(S)
  PROVE  /\ Cardinality(S) \in Nat
         /\ SetToSeq(S) \in [1..Cardinality(S) -> S]
         /\ \A x \in S : \E i \in 1..Cardinality(S) : SetToSeq(S)[i] = x
         /\ IsInjective(SetToSeq(S))
  <1> DEFINE n == Cardinality(S)
             order == SetToSeq(S)
  <1>1. n \in Nat
    BY FS_CardinalityType
  <1>2. PICK b : b \in Bijection(1..n, S)
    BY FS_CardinalityType DEF ExistsBijection
  <1>3. b \in [1..n -> S] /\ IsInjective(b)
    BY <1>2 DEF Bijection, Injection
  <1>4. order \in [1..n -> S] /\ IsInjective(order)
    BY <1>3, Zenon DEF SetToSeq
  <1>5. Cardinality(1..n) = n
    <2>1. n \in Int /\ 1 \in Int /\ (IF 1 > n THEN 0 ELSE n - 1 + 1) = n
      BY <1>1
    <2> QED
      BY <2>1, FS_Interval
  <1> HIDE DEF order
  <1>6. order \in Surjection(1..n, S)
    <2>1. order \in Injection(1..n, S)
      BY <1>4 DEF Injection
    <2> QED
      BY <1>5, <2>1, FS_Injection
  <1>7. \A x \in S : \E i \in 1..n : order[i] = x
    BY <1>6 DEF Surjection
  <1> QED
    BY <1>1, <1>4, <1>7 DEF order

LEMMA FilledIsRight ==
  ASSUME NEW f, NEW cache, Right(cache, f), NEW codes
  PROVE  /\ Right(Filled(cache, f, codes), f)
         /\ DOMAIN Filled(cache, f, codes) = DOMAIN cache \cup codes
         /\ \A x \in codes : Filled(cache, f, codes)[x] = Decoded(f, x)
  BY DEF Right, Filled

(* Whatever reads the store finds it open, on the file it was on.          *)
LEMMA FoundOpen ==
  ASSUME StoreInv, Reopened
  PROVE  /\ native' \in Files /\ native' = path
         /\ epoch' \in 0..MaxEpoch /\ epoch <= epoch'
         /\ KeptOf(native', Held)
         /\ HeldFor(native', epoch')
         /\ \A e \in 0..MaxEpoch : e > epoch' => Untouched(e)
  <1> USE DEF StoreInv, TypeOK, StoreOK
  <1>1. MaxEpoch \in Nat /\ None \notin Files
    BY ReadsAssumption
  <1>2. CASE native # None
    <2>1. native' = native /\ epoch' = epoch
      BY <1>2 DEF Reopened
    <2>2. KeptOf(native', Held)
      BY <1>2, <2>1 DEF KnownOK, Held
    <2> QED
      BY <1>1, <1>2, <2>1, <2>2 DEF ContextsOK
  <1>3. CASE native = None
    <2>1. epoch < MaxEpoch /\ native' = path /\ epoch' = epoch + 1
      BY <1>3 DEF Reopened, NextEpoch
    <2>2. KeptOf(native', Held)
      <3>1. Held = [graphs |-> None, repeats |-> None, size |-> None]
        BY <1>3 DEF Held, Forgotten, Unread
      <3> QED
        BY <3>1 DEF KeptOf
    <2>3. epoch' \in 0..MaxEpoch /\ epoch' > epoch /\ \A e \in 0..MaxEpoch : e > epoch' => e > epoch
      BY <1>1, <2>1
    <2>4. Untouched(epoch') /\ \A e \in 0..MaxEpoch : e > epoch' => Untouched(e)
      BY <2>3, Zenon DEF ContextsOK
    <2>5. HeldFor(native', epoch')
      BY <2>4 DEF Untouched, HeldFor, Right
    <2> QED
      BY <2>1, <2>2, <2>3, <2>4, <2>5
  <1> QED
    BY <1>2, <1>3
-----------------------------------------------------------------------------
(* The pieces of a call.                                                   *)

(* What a call never changes once it is bound.                             *)
SameCall(r, s) ==
  /\ r.status = s.status /\ r.file = s.file /\ r.epoch = s.epoch /\ r.cache = s.cache
  /\ r.want = s.want /\ r.match = s.match /\ r.merges = s.merges

LEMMA SlicedKeeps ==
  ASSUME NEW r, Shaped(r)
  PROVE  /\ Shaped(Sliced(r)) /\ SameCall(Sliced(r), r)
         /\ Sliced(r).pos = r.pos /\ Sliced(r).run = r.run /\ Sliced(r).got = r.got
         /\ Sliced(r).chunkEnd = r.chunkEnd
         /\ Sliced(r).sliceEnd = MinOf(r.sliceEnd + r.size, r.chunkEnd)
         /\ Sliced(r).size = MinOf(r.size * 4, ChunkMax)
  <1>1. DOMAIN r = Fields
    BY DEF Shaped
  <1>2. DOMAIN Sliced(r) = Fields /\ Shaped(Sliced(r))
    BY <1>1 DEF Sliced, Shaped
  <1> QED
    BY <1>1, <1>2 DEF Sliced, Fields, SameCall

LEMMA Advanced ==
  ASSUME NEW c \in Calls, NEW b, Shaped(b), Placed(c, b), NEW r \in Advances(b)
  PROVE  /\ Shaped(r) /\ SameCall(r, b)
         /\ r.pos = b.pos /\ r.run = b.run /\ r.got = b.got
         /\ r.sliceEnd \in Nat /\ r.chunkEnd \in Nat /\ r.size \in 1..ChunkMax
         /\ b.sliceEnd <= r.sliceEnd /\ r.pos < r.sliceEnd
         /\ r.sliceEnd <= r.chunkEnd /\ r.chunkEnd <= Len(r.match)
         /\ r.want = None => r.sliceEnd <= r.pos + ChunkMax
  <1>1. /\ ChunkMax \in Nat /\ ChunkStart \in 1..ChunkMax /\ ChunkRows \in Nat
        /\ Len(b.match) \in Nat
    <2>1. Len(b.match) \in Nat
      BY MatchesOK DEF Placed
    <2>2. ChunkMax \in Nat /\ ChunkStart \in Nat \ {0} /\ ChunkStart <= ChunkMax /\ ChunkRows \in Nat
      BY ReadsAssumption
    <2> QED
      BY <2>1, <2>2
  <1>2. /\ b.pos \in Nat /\ b.sliceEnd \in Nat /\ b.chunkEnd \in Nat /\ b.size \in 1..ChunkMax
        /\ b.pos <= b.sliceEnd /\ b.sliceEnd <= b.chunkEnd /\ b.chunkEnd <= Len(b.match)
        /\ b.want = None => b.sliceEnd < b.pos + ChunkMax
    BY DEF Placed
  <1>3. ASSUME NEW s, Shaped(s), SameCall(s, b), s.pos = b.pos, s.run = b.run, s.got = b.got,
               s.sliceEnd = b.sliceEnd, s.chunkEnd \in Nat, b.sliceEnd < s.chunkEnd,
               s.chunkEnd <= Len(b.match), s.size \in 1..ChunkMax, r = Sliced(s),
               b.sliceEnd <= b.pos
        PROVE  /\ Shaped(r) /\ SameCall(r, b)
               /\ r.pos = b.pos /\ r.run = b.run /\ r.got = b.got
               /\ r.sliceEnd \in Nat /\ r.chunkEnd \in Nat /\ r.size \in 1..ChunkMax
               /\ b.sliceEnd <= r.sliceEnd /\ r.pos < r.sliceEnd
               /\ r.sliceEnd <= r.chunkEnd /\ r.chunkEnd <= Len(r.match)
               /\ r.want = None => r.sliceEnd <= r.pos + ChunkMax
    <2>1. /\ Shaped(r) /\ SameCall(r, b)
          /\ r.pos = b.pos /\ r.run = b.run /\ r.got = b.got
          /\ r.chunkEnd = s.chunkEnd
          /\ r.sliceEnd = MinOf(b.sliceEnd + s.size, s.chunkEnd)
          /\ r.size = MinOf(s.size * 4, ChunkMax)
      BY <1>3, SlicedKeeps DEF SameCall
    <2>2. r.size \in 1..ChunkMax
      BY <1>1, <1>3, <2>1 DEF MinOf
    <2>3. /\ r.sliceEnd \in Nat /\ b.sliceEnd < r.sliceEnd /\ r.sliceEnd <= s.chunkEnd
          /\ r.sliceEnd <= b.sliceEnd + ChunkMax
      BY <1>1, <1>2, <1>3, <2>1 DEF MinOf
    <2>4. r.match = b.match
      BY <2>1 DEF SameCall
    <2> QED
      BY <1>1, <1>2, <1>3, <2>1, <2>2, <2>3, <2>4
  <1>4. CASE InSlice(b)
    <2>1. r = b
      BY <1>4 DEF Advances
    <2> QED
      BY <1>1, <1>2, <1>4, <2>1 DEF InSlice, SameCall
  <1>5. CASE ~InSlice(b) /\ InChunk(b)
    <2>1. r = Sliced(b)
      BY <1>5 DEF Advances
    <2> QED
      BY <1>2, <1>3, <1>5, <2>1 DEF InSlice, InChunk, SameCall
  <1>6. CASE ~InSlice(b) /\ ~InChunk(b)
    <2>1. PICK stop \in Nat : /\ r = Sliced([b EXCEPT !.chunkEnd = stop, !.size = ChunkStart])
                              /\ b.chunkEnd < stop /\ stop <= Len(b.match)
      <3>1. PICK stop \in IF b.chunked
                          THEN b.chunkEnd + 1 .. MinOf(b.chunkEnd + ChunkRows, Len(b.match))
                          ELSE {n \in {Len(b.match)} : n > b.chunkEnd} :
                   r = Sliced([b EXCEPT !.chunkEnd = stop, !.size = ChunkStart])
        BY <1>6, Zenon DEF Advances
      <3>2. CASE b.chunked
        <4>1. stop \in b.chunkEnd + 1 .. MinOf(b.chunkEnd + ChunkRows, Len(b.match))
          BY <3>1, <3>2
        <4>2. MinOf(b.chunkEnd + ChunkRows, Len(b.match)) <= Len(b.match)
              /\ MinOf(b.chunkEnd + ChunkRows, Len(b.match)) \in Nat
          BY <1>1, <1>2 DEF MinOf
        <4>3. stop \in Nat /\ b.chunkEnd < stop /\ stop <= Len(b.match)
          BY <1>1, <1>2, <4>1, <4>2
        <4> QED
          BY <3>1, <4>3, Zenon
      <3>3. CASE ~b.chunked
        <4>1. stop \in {n \in {Len(b.match)} : n > b.chunkEnd}
          BY <3>1, <3>3
        <4>2. stop \in Nat /\ b.chunkEnd < stop /\ stop <= Len(b.match)
          BY <1>1, <1>2, <4>1
        <4> QED
          BY <3>1, <4>2, Zenon
      <3> QED
        BY <3>2, <3>3
    <2> DEFINE s == [b EXCEPT !.chunkEnd = stop, !.size = ChunkStart]
    <2>2. /\ Shaped(s) /\ SameCall(s, b) /\ s.pos = b.pos /\ s.run = b.run /\ s.got = b.got
          /\ s.sliceEnd = b.sliceEnd /\ s.chunkEnd = stop /\ s.size = ChunkStart
      <3>1. DOMAIN b = Fields
        BY DEF Shaped
      <3>2. DOMAIN s = Fields /\ Shaped(s)
        BY <3>1 DEF Shaped
      <3> QED
        BY <3>1, <3>2 DEF SameCall, Fields
    <2> HIDE DEF s
    <2>3. r = Sliced(s)
      BY <2>1 DEF s
    <2>4. b.sliceEnd <= b.pos /\ b.sliceEnd < stop
      BY <1>2, <1>6, <2>1 DEF InSlice
    <2>5. s.chunkEnd \in Nat /\ b.sliceEnd < s.chunkEnd /\ s.chunkEnd <= Len(b.match)
          /\ s.size \in 1..ChunkMax
      BY <1>1, <2>1, <2>2, <2>4
    <2> QED
      BY <1>3, <2>2, <2>3, <2>4, <2>5
  <1> QED
    BY <1>4, <1>5, <1>6

LEMMA MergedKeeps ==
  ASSUME NEW r, Shaped(r), NEW triple, NEW graph
  PROVE  /\ Shaped(Merged(r, triple, graph)) /\ SameCall(Merged(r, triple, graph), r)
         /\ Merged(r, triple, graph).pos = r.pos
         /\ Merged(r, triple, graph).sliceEnd = r.sliceEnd
         /\ Merged(r, triple, graph).chunkEnd = r.chunkEnd
         /\ Merged(r, triple, graph).size = r.size
  <1> DEFINE Keeps(m) == /\ Shaped(m) /\ SameCall(m, r) /\ m.pos = r.pos
                         /\ m.sliceEnd = r.sliceEnd /\ m.chunkEnd = r.chunkEnd /\ m.size = r.size
  <1>1. DOMAIN r = Fields
    BY DEF Shaped
  <1>2. \A x : Keeps([r EXCEPT !.got = x])
    BY <1>1 DEF Shaped, Fields, SameCall
  <1>3. \A x : Keeps([r EXCEPT !.run = x])
    BY <1>1 DEF Shaped, Fields, SameCall
  <1>4. \A x, y : Keeps([r EXCEPT !.got = x, !.run = y])
    BY <1>1, ZenonT(40) DEF Shaped, Fields, SameCall
  <1> HIDE DEF Keeps
  <1>5. Keeps(Merged(r, triple, graph))
    BY <1>2, <1>3, <1>4 DEF Merged
  <1> QED
    BY <1>5 DEF Keeps
(* A row read leaves the call in its place, one row on.                    *)
LEMMA RowPlaced ==
  ASSUME NEW c \in Calls, NEW b, Shaped(b), Placed(c, b), NEW r \in Advances(b),
         NEW triple, NEW graph, NEW m, m = Merged([r EXCEPT !.pos = @ + 1], triple, graph)
  PROVE  /\ Shaped(m) /\ SameCall(m, b) /\ Placed(c, m)
         /\ m.pos = b.pos + 1 /\ m.sliceEnd = r.sliceEnd
  <1>1. /\ Shaped(r) /\ SameCall(r, b)
        /\ r.pos = b.pos /\ r.run = b.run /\ r.got = b.got
        /\ r.sliceEnd \in Nat /\ r.chunkEnd \in Nat /\ r.size \in 1..ChunkMax
        /\ b.sliceEnd <= r.sliceEnd /\ r.pos < r.sliceEnd
        /\ r.sliceEnd <= r.chunkEnd /\ r.chunkEnd <= Len(r.match)
        /\ r.want = None => r.sliceEnd <= r.pos + ChunkMax
    BY Advanced
  <1> DEFINE s == [r EXCEPT !.pos = @ + 1]
  <1>2. /\ Shaped(s) /\ SameCall(s, b) /\ s.pos = b.pos + 1
        /\ s.sliceEnd = r.sliceEnd /\ s.chunkEnd = r.chunkEnd /\ s.size = r.size
    <2>1. DOMAIN r = Fields
      BY <1>1 DEF Shaped
    <2>2. DOMAIN s = Fields /\ Shaped(s)
      BY <2>1 DEF Shaped
    <2> QED
      BY <1>1, <2>1, <2>2 DEF SameCall, Fields
  <1> HIDE DEF s
  <1>3. /\ Shaped(m) /\ SameCall(m, s) /\ m.pos = s.pos /\ m.sliceEnd = s.sliceEnd
        /\ m.chunkEnd = s.chunkEnd /\ m.size = s.size
    <2>1. m = Merged(s, triple, graph)
      BY DEF s
    <2> QED
      BY <1>2, <2>1, MergedKeeps
  <1>4. SameCall(m, b) /\ SameCall(r, b)
    BY <1>1, <1>2, <1>3 DEF SameCall
  <1>5. Placed(c, m)
    <2>1. /\ b.file \in Files /\ b.want \in Ground \cup {None} /\ b.cache \in Queries \cup {c}
          /\ b.epoch \in 0..MaxEpoch /\ b.match = Match(b.file, b.want)
          /\ b.pos \in Nat /\ b.merges = Repeats(b.file)
      BY DEF Placed
    <2>2. /\ m.file = b.file /\ m.want = b.want /\ m.cache = b.cache /\ m.epoch = b.epoch
          /\ m.match = b.match /\ m.merges = b.merges /\ r.match = b.match /\ r.want = b.want
      BY <1>4 DEF SameCall
    <2>3. /\ m.pos = r.pos + 1 /\ m.sliceEnd = r.sliceEnd /\ m.chunkEnd = r.chunkEnd
          /\ m.size = r.size /\ r.pos \in Nat
      BY <1>1, <1>2, <1>3, <2>1
    <2>4. ChunkMax \in Nat
      BY ReadsAssumption
    <2>5. /\ m.pos \in Nat /\ m.pos <= m.sliceEnd
          /\ m.want = None => m.sliceEnd < m.pos + ChunkMax
      BY <1>1, <2>2, <2>3, <2>4
    <2> QED
      BY <1>1, <2>1, <2>2, <2>3, <2>5 DEF Placed
  <1> QED
    BY <1>2, <1>3, <1>4, <1>5

LEMMA BoundPlaced ==
  ASSUME NEW c \in Calls, calls[c] = Unstarted, NEW want \in Ground \cup {None},
         NEW f \in Files, NEW e \in 0..MaxEpoch, NEW k, k.repeats = Repeats(f),
         current \in Queries \cup {None}
  PROVE  /\ Shaped(Bound(c, want, f, e, k)) /\ Placed(c, Bound(c, want, f, e, k))
         /\ Bound(c, want, f, e, k).status = "open" /\ Bound(c, want, f, e, k).file = f
         /\ Bound(c, want, f, e, k).epoch = e /\ Bound(c, want, f, e, k).pos = 0
         /\ Bound(c, want, f, e, k).run = <<>> /\ Bound(c, want, f, e, k).got = <<>>
         /\ Bound(c, want, f, e, k).cache = IF current = None THEN c ELSE current
         /\ Bound(c, want, f, e, k).want = want
  <1> DEFINE b == Bound(c, want, f, e, k)
             match == Match(f, want)
             read == IF want = None THEN 0 ELSE Len(match)
  <1>1. /\ DOMAIN Unstarted = Fields /\ Unstarted.pos = 0 /\ Unstarted.size = ChunkStart
        /\ Unstarted.run = <<>> /\ Unstarted.got = <<>>
    BY DEF Unstarted, Fields
  <1> HIDE DEF match
  <1>2. /\ DOMAIN b = Fields /\ Shaped(b)
        /\ b.status = "open" /\ b.file = f /\ b.epoch = e /\ b.want = want
        /\ b.cache = IF current = None THEN c ELSE current
    <2>1. DOMAIN b = Fields /\ Shaped(b)
      BY <1>1 DEF Bound, Shaped
    <2> QED
      BY <1>1, <2>1 DEF Bound, Fields
  <1>3. /\ b.match = match /\ b.sliceEnd = read /\ b.chunkEnd = read /\ b.merges = k.repeats
        /\ b.pos = 0 /\ b.size = ChunkStart /\ b.run = <<>> /\ b.got = <<>>
    BY <1>1, <1>2 DEF Bound, Fields, match
  <1> HIDE DEF b
  <1>4. Len(match) \in Nat
    BY MatchesOK DEF match
  <1>5. ChunkMax \in Nat /\ ChunkStart \in 1..ChunkMax /\ ChunkMax > 0
    BY ReadsAssumption
  <1>6. Placed(c, b)
    BY <1>2, <1>3, <1>4, <1>5 DEF Placed, match
  <1> QED
    BY <1>2, <1>3, <1>6 DEF b

(* What a row read does to the caches and to the call.                     *)
RowRead(c, b, r, triple, graph) ==
  /\ calls' = [calls EXCEPT ![c] = Merged([r EXCEPT !.pos = @ + 1], triple, graph)]
  /\ decode' = [decode EXCEPT ![b.cache] = Filled(decode[b.cache], b.file, CodesRead(r))]
  /\ contexts' = [contexts EXCEPT ![b.epoch] = Filled(contexts[b.epoch], b.file, GraphsRead(r))]
  /\ graph = Decoded(b.file, GraphCode(b.match[b.pos + 1]))
  /\ b.want # None => CodesRead(r) = {} /\ triple = Decoded(b.file, b.want)
  /\ b.want = None =>
       /\ CodesRead(r) \subseteq {Code(b.match[i]) : i \in 1..r.sliceEnd}
       /\ Code(b.match[b.pos + 1]) \in CodesRead(r)
       /\ triple = Filled(decode[b.cache], b.file, CodesRead(r))[Code(b.match[b.pos + 1])]

LEMMA ReadsOneRow ==
  ASSUME NEW c \in Calls, NEW b, Shaped(b), Placed(c, b),
         Right(contexts[b.epoch], b.file), ReadsRow(c, b)
  PROVE  \E r \in Advances(b) : \E triple, graph : RowRead(c, b, r, triple, graph)
  <1> DEFINE termsOf(r) == Filled(decode[r.cache], r.file, CodesRead(r))
             graphsOf(r) == Filled(contexts[r.epoch], r.file, GraphsRead(r))
             rowOf(r) == r.match[r.pos + 1]
             tripleOf(r) == IF r.want = None THEN termsOf(r)[Code(rowOf(r))] ELSE Decoded(r.file, r.want)
             graphOf(r) == graphsOf(r)[GraphCode(rowOf(r))]
  <1>1. PICK r \in Advances(b) :
          /\ decode' = [decode EXCEPT ![r.cache] = termsOf(r)]
          /\ contexts' = [contexts EXCEPT ![r.epoch] = graphsOf(r)]
          /\ calls' = [calls EXCEPT ![c] = Merged([r EXCEPT !.pos = @ + 1], tripleOf(r), graphOf(r))]
    BY Zenon DEF ReadsRow, Dictionary
  <1>2. /\ SameCall(r, b) /\ r.pos = b.pos /\ r.sliceEnd \in Nat /\ r.pos < r.sliceEnd
    BY Advanced
  <1>3. /\ r.file = b.file /\ r.epoch = b.epoch /\ r.cache = b.cache /\ r.want = b.want
        /\ r.match = b.match
    BY <1>2 DEF SameCall
  <1>4. b.pos \in Nat
    BY DEF Placed
  <1>5. b.pos + 1 \in SliceRows(r) /\ \A i \in SliceRows(r) : i \in 1..r.sliceEnd
    BY <1>2, <1>4 DEF SliceRows
  <1>6. GraphCode(b.match[b.pos + 1]) \in GraphsRead(r)
    BY <1>2, <1>3, <1>5 DEF GraphsRead
  <1>7. graphOf(r) = Decoded(b.file, GraphCode(b.match[b.pos + 1]))
    <2>1. \A x \in GraphsRead(r) :
            Filled(contexts[b.epoch], b.file, GraphsRead(r))[x] = Decoded(b.file, x)
      BY DEF Right, Filled
    <2>2. graphOf(r) = Filled(contexts[b.epoch], b.file, GraphsRead(r))[GraphCode(b.match[b.pos + 1])]
      BY <1>2, <1>3
    <2> QED
      BY <1>6, <2>1, <2>2, Zenon
  <1>8. b.want # None => CodesRead(r) = {}
    BY <1>3 DEF CodesRead
  <1>9. b.want = None =>
          /\ CodesRead(r) \subseteq {Code(b.match[i]) : i \in 1..r.sliceEnd}
          /\ Code(b.match[b.pos + 1]) \in CodesRead(r)
    BY <1>3, <1>5 DEF CodesRead
  <1>10. RowRead(c, b, r, tripleOf(r), graphOf(r))
    BY <1>1, <1>2, <1>3, <1>7, <1>8, <1>9 DEF RowRead
  <1> QED
    BY <1>10
-----------------------------------------------------------------------------
(* The steps of a call keep the store's invariant.                         *)

(* A call that may take a step, bound as b.                                *)
Ready(c, b) ==
  /\ Shaped(b) /\ Placed(c, b) /\ b.status = "open"
  /\ HeldFor(b.file, b.epoch)
  /\ OwnFor(c, b)

(* The store as the step finds it.                                         *)
Found ==
  /\ \A e \in 0..MaxEpoch : e > epoch' => Untouched(e)
  /\ native' # None => HeldFor(native', epoch')

LEMMA RowKeepsCalls ==
  ASSUME CachesOK, CallsOK, OwnOK, NEW c \in Calls, NEW b, Ready(c, b), ReadsRow(c, b)
  PROVE  CachesOK' /\ CallsOK' /\ OwnOK'
  <1>1. /\ Shaped(b) /\ Placed(c, b) /\ b.status = "open" /\ Right(contexts[b.epoch], b.file)
        /\ OwnFor(c, b)
    BY DEF Ready, HeldFor
  <1>2. PICK r \in Advances(b) : \E triple, graph : RowRead(c, b, r, triple, graph)
    BY <1>1, ReadsOneRow
  <1>3. PICK triple, graph : RowRead(c, b, r, triple, graph)
    BY <1>2
  <1> DEFINE m == Merged([r EXCEPT !.pos = @ + 1], triple, graph)
  <1>4. /\ SameCall(r, b) /\ r.pos = b.pos /\ r.sliceEnd \in Nat /\ b.sliceEnd <= r.sliceEnd
    BY <1>1, Advanced
  <1>5. /\ Shaped(m) /\ SameCall(m, b) /\ Placed(c, m) /\ m.pos = b.pos + 1
        /\ m.sliceEnd = r.sliceEnd
    BY <1>1, RowPlaced
  <1> HIDE DEF m
  <1>6. /\ m.file = b.file /\ m.want = b.want /\ m.cache = b.cache /\ m.match = b.match
        /\ m.status = "open" /\ m.epoch = b.epoch
    BY <1>1, <1>5 DEF SameCall
  <1>7. /\ calls' = [calls EXCEPT ![c] = m]
        /\ decode' = [decode EXCEPT ![b.cache] = Filled(decode[b.cache], b.file, CodesRead(r))]
        /\ contexts' = [contexts EXCEPT ![b.epoch] = Filled(contexts[b.epoch], b.file, GraphsRead(r))]
    BY <1>3 DEF RowRead, m
  <1>8. calls'[c] = m /\ \A d \in Calls : d # c => calls'[d] = calls[d]
    BY <1>7 DEF CachesOK
  <1>9. b.cache \in Queries \cup {c} /\ Calls \cap Queries = {}
    BY <1>1, ReadsAssumption DEF Placed
  <1>10. CachesOK'
    BY <1>5, <1>7, <1>8 DEF CachesOK
  <1>11. CallsOK'
    <2>1. b.pos \in Nat
      BY <1>1 DEF Placed
    <2>2. m.pos > 0
      BY <1>5, <2>1
    <2> QED
      BY <1>5, <1>6, <1>8, <2>2 DEF CallsOK, Opened
  <1>12. \A d \in Calls : d # c => decode'[d] = decode[d]
    BY <1>7, <1>9 DEF CachesOK
  <1>13. /\ Right(decode'[c], b.file)
         /\ b.want # None => DOMAIN decode'[c] = {}
         /\ DOMAIN decode'[c] \subseteq {Code(b.match[i]) : i \in 1..r.sliceEnd}
    <2>1. b.sliceEnd \in Nat
      BY <1>1 DEF Placed
    <2>2. {Code(b.match[i]) : i \in 1..b.sliceEnd} \subseteq {Code(b.match[i]) : i \in 1..r.sliceEnd}
      <3>1. \A i \in 1..b.sliceEnd : i \in 1..r.sliceEnd
        BY <1>4, <2>1
      <3> QED
        BY <3>1
    <2>3. /\ Right(decode[c], b.file)
          /\ b.want # None => DOMAIN decode[c] = {}
          /\ DOMAIN decode[c] \subseteq {Code(b.match[i]) : i \in 1..r.sliceEnd}
      BY <1>1, <2>2, Zenon DEF OwnFor
    <2>4. CASE b.cache # c
      <3>1. decode'[c] = decode[c]
        BY <1>7, <1>9, <2>4 DEF CachesOK
      <3> QED
        BY <2>3, <3>1
    <2>5. CASE b.cache = c
      <3>1. decode'[c] = Filled(decode[c], b.file, CodesRead(r))
        BY <1>7, <2>5 DEF CachesOK
      <3>2. /\ Right(decode'[c], b.file)
            /\ DOMAIN decode'[c] = DOMAIN decode[c] \cup CodesRead(r)
        BY <2>3, <3>1 DEF Right, Filled
      <3>3. /\ b.want # None => CodesRead(r) = {}
            /\ b.want = None => CodesRead(r) \subseteq {Code(b.match[i]) : i \in 1..r.sliceEnd}
        BY <1>3, Zenon DEF RowRead
      <3> HIDE DEF m
      <3>4. CodesRead(r) \subseteq {Code(b.match[i]) : i \in 1..r.sliceEnd}
        BY <3>3
      <3> QED
        BY <2>3, <3>2, <3>3, <3>4
    <2> QED
      BY <2>4, <2>5
  <1>14. OwnOK'
    <2> SUFFICES ASSUME NEW d \in Calls
                 PROVE  /\ ~Opened(d)' => DOMAIN decode'[d] = {}
                        /\ Opened(d)' => OwnFor(d, calls[d])'
      BY DEF OwnOK, OwnFor
    <2>1. CASE d = c
      <3>1. Opened(d)'
        BY <1>6, <1>8, <2>1 DEF Opened
      <3>2. OwnFor(d, calls[d])'
        BY <1>5, <1>6, <1>8, <1>13, <2>1 DEF OwnFor
      <3> QED
        BY <3>1, <3>2
    <2>2. CASE d # c
      <3>1. calls'[d] = calls[d] /\ decode'[d] = decode[d]
        BY <1>8, <1>12, <2>2
      <3> QED
        BY <3>1 DEF OwnOK, OwnFor, Opened
    <2> QED
      BY <2>1, <2>2
  <1> QED
    BY <1>10, <1>11, <1>14
LEMMA RowKeepsContexts ==
  ASSUME CachesOK, CallsOK, Found,
         \A d \in Calls : Opened(d) => HeldFor(calls[d].file, calls[d].epoch),
         NEW c \in Calls, NEW b, Ready(c, b), ReadsRow(c, b),
         epoch' \in 0..MaxEpoch, b.epoch <= epoch',
         native' # None /\ b.epoch = epoch' => b.file = native'
  PROVE  ContextsOK'
  <1>1. /\ Shaped(b) /\ Placed(c, b) /\ b.status = "open" /\ Right(contexts[b.epoch], b.file)
        /\ HeldFor(b.file, b.epoch)
    BY DEF Ready, HeldFor
  <1>2. PICK r \in Advances(b) : \E triple, graph : RowRead(c, b, r, triple, graph)
    BY <1>1, ReadsOneRow
  <1>3. PICK triple, graph : RowRead(c, b, r, triple, graph)
    BY <1>2
  <1> DEFINE m == Merged([r EXCEPT !.pos = @ + 1], triple, graph)
             graphs == Filled(contexts[b.epoch], b.file, GraphsRead(r))
  <1>4. m.file = b.file /\ m.status = "open" /\ m.epoch = b.epoch
    BY <1>1, RowPlaced DEF SameCall
  <1>5. calls' = [calls EXCEPT ![c] = m] /\ contexts' = [contexts EXCEPT ![b.epoch] = graphs]
    BY <1>3 DEF RowRead
  <1>6. Right(graphs, b.file)
    BY <1>1 DEF Right, Filled
  <1>7. b.epoch \in 0..MaxEpoch
    BY <1>1 DEF Placed
  <1> HIDE DEF m, graphs
  <1>8. /\ calls'[c] = m /\ \A d \in Calls : d # c => calls'[d] = calls[d]
        /\ contexts'[b.epoch] = graphs
        /\ \A e \in 0..MaxEpoch : e # b.epoch => contexts'[e] = contexts[e]
    BY <1>5, <1>7 DEF CachesOK
  <1>9. ASSUME NEW f, NEW e \in 0..MaxEpoch, HeldFor(f, e), e = b.epoch => f = b.file
        PROVE  HeldFor(f, e)'
    <2>1. Right(contexts'[e], f)
      BY <1>6, <1>8, <1>9 DEF HeldFor
    <2>2. \A d \in Calls : calls'[d].status = "open" /\ calls'[d].epoch = e => calls'[d].file = f
      BY <1>4, <1>8, <1>9 DEF HeldFor, Opened
    <2> QED
      BY <2>1, <2>2 DEF HeldFor, Opened
  <1>10. ASSUME NEW e \in 0..MaxEpoch, e > epoch'
         PROVE  Untouched(e)'
    <2>1. e # b.epoch /\ Untouched(e)
      BY <1>7, <1>10 DEF Found
    <2>2. contexts'[e] = contexts[e]
      BY <1>8, <2>1
    <2> QED
      BY <1>4, <1>8, <2>1, <2>2 DEF Untouched, Opened
  <1>11. native' # None => HeldFor(native, epoch)'
    <2> SUFFICES ASSUME native' # None PROVE HeldFor(native, epoch)'
      OBVIOUS
    <2>1. PICK f, e : f = native' /\ e = epoch'
      OBVIOUS
    <2>2. HeldFor(f, e)'
      BY <1>9, <2>1 DEF Found
    <2> QED
      BY <2>1, <2>2 DEF HeldFor, Opened
  <1>12. ASSUME NEW d \in Calls, Opened(d)'
         PROVE  HeldFor(calls[d].file, calls[d].epoch)'
    <2>1. PICK f, e : f = calls'[d].file /\ e = calls'[d].epoch
      OBVIOUS
    <2>2. CASE d = c
      <3>1. f = b.file /\ e = b.epoch
        BY <1>4, <1>8, <2>1, <2>2
      <3>2. HeldFor(f, e)'
        BY <1>1, <1>7, <1>9, <3>1
      <3> QED
        BY <2>1, <3>2 DEF HeldFor, Opened
    <2>3. CASE d # c
      <3>1. calls'[d] = calls[d] /\ Opened(d)
        BY <1>8, <1>12, <2>3 DEF Opened
      <3>2. HeldFor(f, e) /\ f = calls[d].file /\ e = calls[d].epoch
        BY <2>1, <3>1
      <3>3. e = b.epoch => f = b.file
        BY <1>1, <3>1, <3>2 DEF HeldFor
      <3>4. e \in 0..MaxEpoch
        BY <3>1, <3>2 DEF CallsOK, Placed
      <3>5. HeldFor(f, e)'
        BY <1>9, <3>2, <3>3, <3>4
      <3> QED
        BY <2>1, <3>5 DEF HeldFor, Opened
    <2> QED
      BY <2>2, <2>3
  <1> QED
    BY <1>10, <1>11, <1>12 DEF ContextsOK
(* A call that ends, or is stopped, lets go of what it held.               *)
LEMMA LeavingKeeps ==
  ASSUME CachesOK, CallsOK, OwnOK, Found,
         \A d \in Calls : Opened(d) => HeldFor(calls[d].file, calls[d].epoch),
         NEW c \in Calls, NEW left, Shaped(left), left.status \in {"done", "stopped"},
         left.status = "done" => left.file \in Files /\ left.want \in Ground \cup {None},
         calls' = [calls EXCEPT ![c] = left], decode' = [decode EXCEPT ![c] = NoCodes],
         contexts' = contexts
  PROVE  CachesOK' /\ CallsOK' /\ OwnOK' /\ ContextsOK'
  <1>1. calls'[c] = left /\ \A d \in Calls : d # c => calls'[d] = calls[d]
    BY DEF CachesOK
  <1>2. decode'[c] = NoCodes /\ \A d \in Calls : d # c => decode'[d] = decode[d]
    BY DEF CachesOK
  <1>3. DOMAIN NoCodes = {}
    BY DEF NoCodes
  <1>4. ~Opened(c)' /\ \A d \in Calls : Opened(d)' => d # c /\ Opened(d) /\ calls'[d] = calls[d]
    BY <1>1 DEF Opened
  <1>5. CachesOK'
    BY <1>1 DEF CachesOK
  <1>6. CallsOK'
    BY <1>1 DEF CallsOK, Opened
  <1>7. OwnOK'
    <2> SUFFICES ASSUME NEW d \in Calls
                 PROVE  /\ ~Opened(d)' => DOMAIN decode'[d] = {}
                        /\ Opened(d)' => OwnFor(d, calls[d])'
      BY DEF OwnOK
    <2> QED
      BY <1>1, <1>2, <1>3, <1>4 DEF OwnOK, OwnFor, Opened
  <1>8. ASSUME NEW f, NEW e, HeldFor(f, e)
        PROVE  HeldFor(f, e)'
    BY <1>4, <1>8 DEF HeldFor
  <1>9. ContextsOK'
    <2>1. ASSUME NEW e \in 0..MaxEpoch, e > epoch'
          PROVE  Untouched(e)'
      BY <1>4, <2>1 DEF Found, Untouched
    <2>2. native' # None => HeldFor(native, epoch)'
      BY <1>4 DEF Found, HeldFor
    <2>3. ASSUME NEW d \in Calls, Opened(d)'
          PROVE  HeldFor(calls[d].file, calls[d].epoch)'
      BY <1>4, <2>3 DEF HeldFor
    <2> QED
      BY <2>1, <2>2, <2>3 DEF ContextsOK
  <1> QED
    BY <1>5, <1>6, <1>7, <1>9

LEMMA LeftShaped ==
  ASSUME NEW b, NEW status
  PROVE  /\ Shaped(Left(b, status)) /\ Left(b, status).status = status
         /\ Left(b, status).file = b.file /\ Left(b, status).want = b.want
         /\ Left(b, status).got = b.got
  <1>1. DOMAIN Unstarted = Fields
    BY DEF Unstarted, Fields
  <1>2. DOMAIN Left(b, status) = Fields /\ Shaped(Left(b, status))
    BY <1>1 DEF Left, Shaped
  <1> QED
    BY <1>1, <1>2 DEF Left, Fields

LEMMA FlushedKeeps ==
  ASSUME NEW b, Shaped(b)
  PROVE  /\ Flushed(b).file = b.file /\ Flushed(b).want = b.want
         /\ Flushed(b).got = IF b.run = <<>> THEN b.got ELSE Append(b.got, b.run)
  <1>1. DOMAIN b = Fields
    BY DEF Shaped
  <1> QED
    BY <1>1 DEF Flushed, Fields

(* A step of a call, whatever it is bound to.                              *)
LEMMA CallSteps ==
  ASSUME CachesOK, CallsOK, OwnOK, Found,
         \A d \in Calls : Opened(d) => HeldFor(calls[d].file, calls[d].epoch),
         NEW c \in Calls, NEW b, Ready(c, b), ReadsRow(c, b) \/ Ends(c, b),
         epoch' \in 0..MaxEpoch, b.epoch <= epoch',
         native' # None /\ b.epoch = epoch' => b.file = native'
  PROVE  CachesOK' /\ CallsOK' /\ OwnOK' /\ ContextsOK'
  <1>1. CASE ReadsRow(c, b)
    BY <1>1, RowKeepsCalls, RowKeepsContexts
  <1>2. CASE Ends(c, b)
    <2> DEFINE left == Left(Flushed(b), "done")
    <2>1. /\ calls' = [calls EXCEPT ![c] = left]
          /\ decode' = [decode EXCEPT ![c] = NoCodes]
          /\ contexts' = contexts
      BY <1>2 DEF Ends
    <2>2. Shaped(left) /\ left.status = "done" /\ left.file \in Files /\ left.want \in Ground \cup {None}
      BY LeftShaped, FlushedKeeps DEF Ready, Placed
    <2> HIDE DEF left
    <2> QED
      BY <2>1, <2>2, LeavingKeeps
  <1> QED
    BY <1>1, <1>2
LEMMA CallsStandStill ==
  ASSUME CachesOK, CallsOK, OwnOK, Found,
         \A d \in Calls : Opened(d) => HeldFor(calls[d].file, calls[d].epoch),
         UNCHANGED <<contexts, decode, calls>>
  PROVE  CachesOK' /\ CallsOK' /\ OwnOK' /\ ContextsOK'
  <1>1. \A d \in Calls : Opened(d)' <=> Opened(d)
    BY DEF Opened
  <1>2. CachesOK' /\ CallsOK' /\ OwnOK'
    BY <1>1 DEF CachesOK, CallsOK, OwnOK, OwnFor
  <1>3. ASSUME NEW e \in 0..MaxEpoch, e > epoch'
        PROVE  Untouched(e)'
    BY <1>1, <1>3 DEF Found, Untouched
  <1>4. native' # None => HeldFor(native, epoch)'
    BY <1>1 DEF Found, HeldFor
  <1>5. ASSUME NEW d \in Calls, Opened(d)'
        PROVE  HeldFor(calls[d].file, calls[d].epoch)'
    BY <1>1, <1>5 DEF HeldFor
  <1> QED
    BY <1>2, <1>3, <1>4, <1>5 DEF ContextsOK

LEMMA UnreadKept ==
  ASSUME NEW f
  PROVE  KeptOf(f, Unread)
  BY DEF KeptOf, Unread

(* The store's own steps.                                                  *)

LEMMA OpenKeeps ==
  ASSUME StoreInv, NEW f \in Files, Open(f)
  PROVE  StoreInv'
  <1> USE DEF StoreInv
  <1>1. /\ native' = f /\ path' = f /\ epoch' = epoch + 1 /\ epoch < MaxEpoch /\ known' = Unread
        /\ UNCHANGED <<contexts, decode, current, live, calls>>
    BY DEF Open, NextEpoch, Forgotten
  <1>2. MaxEpoch \in Nat /\ epoch \in 0..MaxEpoch
    BY ReadsAssumption DEF TypeOK
  <1>3. epoch' \in 0..MaxEpoch /\ epoch' > epoch /\ \A e \in 0..MaxEpoch : e > epoch' => e > epoch
    BY <1>1, <1>2
  <1>4. Untouched(epoch') /\ \A e \in 0..MaxEpoch : e > epoch' => Untouched(e)
    BY <1>3, Zenon DEF ContextsOK
  <1>5. Found
    BY <1>4 DEF Found, HeldFor, Untouched, Right
  <1>6. CachesOK' /\ CallsOK' /\ OwnOK' /\ ContextsOK'
    BY <1>1, <1>5, CallsStandStill DEF TypeOK, ContextsOK
  <1>7. TypeOK' /\ StoreOK'
    BY <1>1, <1>3, <1>6 DEF TypeOK, StoreOK
  <1>8. KnownOK'
    BY <1>1, UnreadKept DEF KnownOK
  <1> QED
    BY <1>6, <1>7, <1>8

LEMMA CloseKeeps ==
  ASSUME StoreInv, Close
  PROVE  StoreInv'
  <1> USE DEF StoreInv
  <1>1. /\ native' = None /\ path' = path /\ epoch' = epoch + 1 /\ epoch < MaxEpoch
        /\ UNCHANGED <<contexts, decode, current, live, calls>>
    BY DEF Close, NextEpoch
  <1>2. MaxEpoch \in Nat /\ epoch \in 0..MaxEpoch
    BY ReadsAssumption DEF TypeOK
  <1>3. epoch' \in 0..MaxEpoch /\ \A e \in 0..MaxEpoch : e > epoch' => e > epoch
    BY <1>1, <1>2
  <1>4. Found
    BY <1>1, <1>3 DEF Found, ContextsOK
  <1>5. CachesOK' /\ CallsOK' /\ OwnOK' /\ ContextsOK'
    BY <1>1, <1>4, CallsStandStill DEF TypeOK, ContextsOK
  <1>6. TypeOK' /\ StoreOK' /\ KnownOK'
    BY <1>1, <1>3, <1>5 DEF TypeOK, StoreOK, KnownOK
  <1> QED
    BY <1>5, <1>6

LEMMA ScopeKeeps ==
  ASSUME StoreInv, (\E q \in Queries : EnterStep(q)) \/ LeaveStep
  PROVE  StoreInv'
  <1> USE DEF StoreInv
  <1>1. UNCHANGED <<native, path, epoch, contexts, known, decode, calls>>
    BY DEF EnterStep, LeaveStep
  <1>2. Found
    BY <1>1 DEF Found, ContextsOK
  <1>3. CachesOK' /\ CallsOK' /\ OwnOK' /\ ContextsOK'
    BY <1>1, <1>2, CallsStandStill DEF TypeOK, ContextsOK
  <1>4. KnownOK'
    BY <1>1 DEF KnownOK
  <1>5. /\ current' \in Queries \cup {None}
        /\ live' \in [Queries -> {"new", "live", "ended"}]
        /\ current' # None => live'[current'] = "live"
    <2>1. CASE LeaveStep
      BY <2>1 DEF LeaveStep, TypeOK
    <2>2. ASSUME NEW q \in Queries, EnterStep(q)
          PROVE  /\ current' \in Queries \cup {None}
                 /\ live' \in [Queries -> {"new", "live", "ended"}]
                 /\ current' # None => live'[current'] = "live"
      BY <2>2 DEF EnterStep, TypeOK
    <2> QED
      BY <2>1, <2>2
  <1>6. TypeOK' /\ StoreOK'
    BY <1>1, <1>3, <1>5 DEF TypeOK, StoreOK
  <1> QED
    BY <1>3, <1>4, <1>6

(* What a step that reads the store leaves, but for the calls.             *)
LEMMA ReadKeeps ==
  ASSUME StoreInv, Reopened, KeptOf(native', known'), UNCHANGED <<path, current, live>>,
         CachesOK', CallsOK', OwnOK', ContextsOK'
  PROVE  StoreInv'
  <1>1. native' \in Files /\ native' = path /\ epoch' \in 0..MaxEpoch
    BY FoundOpen
  <1>2. TypeOK' /\ StoreOK'
    BY <1>1 DEF StoreInv, TypeOK, StoreOK
  <1>3. KnownOK'
    BY DEF KnownOK
  <1> QED
    BY <1>2, <1>3 DEF StoreInv

LEMMA ReadFinds ==
  ASSUME StoreInv, Reopened
  PROVE  Found
  BY FoundOpen DEF Found

LEMMA LengthKeeps ==
  ASSUME StoreInv, Length \/ ReadRaises
  PROVE  StoreInv'
  <1>1. Reopened /\ UNCHANGED <<path, contexts, decode, current, live, calls>>
    BY DEF Length, ReadRaises
  <1>2. KeptOf(native', Held) /\ native' \in Files
    BY <1>1, FoundOpen
  <1>3. KeptOf(native', known')
    <2>1. CASE Length
      <3>1. PICK f \in Files : f = native'
        BY <1>2
      <3>2. KeptOf(f, WithRepeats(f, Held))
        BY <1>2, <3>1, RepeatsKept
      <3> QED
        BY <2>1, <3>1, <3>2 DEF Length
    <2>2. CASE ReadRaises
      BY <2>2, UnreadKept DEF ReadRaises, Forgotten
    <2> QED
      BY <2>1, <2>2
  <1>4. CachesOK' /\ CallsOK' /\ OwnOK' /\ ContextsOK'
    BY <1>1, ReadFinds, CallsStandStill DEF StoreInv, TypeOK, ContextsOK
  <1> QED
    BY <1>1, <1>3, <1>4, ReadKeeps
(* contexts() of everything keeps the graphs of the file, each once.       *)
LEMMA GraphsKept ==
  ASSUME NEW f \in Files, NEW k, KeptOf(f, k), NEW cache, Right(cache, f),
         GraphsOf(FileRows[f]) \subseteq DOMAIN cache,
         NEW order, order = SetToSeq(GraphsOf(FileRows[f]))
  PROVE  KeptOf(f, [k EXCEPT !.graphs = [i \in DOMAIN order |-> cache[order[i]]]])
  <1> DEFINE rows == FileRows[f]
             G == GraphsOf(rows)
             h == [i \in 1..Len(rows) |-> GraphCode(rows[i])]
             graphs == [i \in DOMAIN order |-> cache[order[i]]]
             n == Cardinality(G)
  <1>1. RowsOK(rows) /\ Len(rows) \in Nat
    BY FilesOK
  <1>2. DOMAIN rows = 1..Len(rows) /\ \A i \in 1..Len(rows) : rows[i] \in Nat \X Nat
    <2>1. rows \in Seq(Nat \X Nat)
      BY <1>1 DEF RowsOK
    <2> QED
      BY <2>1, LenProperties, ElementOfSeq
  <1>3. G = {GraphCode(rows[i]) : i \in 1..Len(rows)} /\ G \subseteq Nat
    <2>1. G = {GraphCode(rows[i]) : i \in 1..Len(rows)}
      BY <1>2 DEF GraphsOf, ToSet
    <2>2. \A i \in 1..Len(rows) : GraphCode(rows[i]) \in Nat
      BY <1>2 DEF GraphCode
    <2> QED
      BY <2>1, <2>2
  <1>4. IsFiniteSet(G)
    <2>1. h \in [1..Len(rows) -> G] /\ \A x \in G : \E i \in 1..Len(rows) : h[i] = x
      BY <1>3
    <2> HIDE DEF h, G
    <2> QED
      BY <1>1, <2>1, PlacesCount
  <1>5. /\ n \in Nat /\ order \in [1..n -> G]
        /\ \A x \in G : \E i \in 1..n : order[i] = x
        /\ IsInjective(order)
    BY <1>4, InOrder
  <1>6. {Decoded(f, GraphCode(row)) : row \in ToSet(rows)} = {Decoded(f, x) : x \in G}
    BY DEF GraphsOf
  <1> HIDE DEF G, h, n
  <1>7. DOMAIN order = 1..n /\ \A i \in 1..n : order[i] \in G /\ graphs[i] = Decoded(f, order[i])
    <2>1. \A i \in 1..n : order[i] \in G
      BY <1>5
    <2>2. \A x \in G : cache[x] = Decoded(f, x)
      BY DEF Right, G
    <2> QED
      BY <1>5, <2>1, <2>2
  <1>8. DOMAIN graphs = 1..n
    BY <1>7
  <1> HIDE DEF graphs
  <1>9. graphs \in Seq(Term)
    <2>1. \A i \in 1..n : graphs[i] \in Term
      <3>1. \A i \in 1..n : order[i] \in Nat
        BY <1>3, <1>7
      <3>2. \A x \in Nat : Decoded(f, x) \in Term
        BY DEF Decoded, Term
      <3> QED
        BY <1>7, <3>1, <3>2
    <2>2. graphs = [i \in 1..n |-> graphs[i]]
      BY <1>8 DEF graphs
    <2>3. graphs \in [1..n -> Term]
      BY <2>1, <2>2
    <2> QED
      BY <1>5, <2>3, SeqDef
  <1>10. ToSet(graphs) = {Decoded(f, x) : x \in G}
    BY <1>5, <1>7, <1>8, SMTT(30) DEF ToSet
  <1>11. IsInjective(graphs)
    <2>1. \A i, j \in 1..n : graphs[i] = graphs[j] => order[i] = order[j]
      BY <1>7 DEF Decoded
    <2> QED
      BY <1>5, <1>7, <1>8, <2>1, SMTT(30) DEF IsInjective
  <1> DEFINE m == [k EXCEPT !.graphs = graphs]
  <1>12. /\ m.graphs = graphs /\ m.repeats = k.repeats /\ m.size = k.size
         /\ DOMAIN m = {"graphs", "repeats", "size"}
    <2>1. DOMAIN k = {"graphs", "repeats", "size"}
      BY DEF KeptOf
    <2> QED
      BY <2>1
  <1> HIDE DEF m
  <1>13. KeptOf(f, m)
    <2>1. \/ k.repeats = None
          \/ k.repeats = Repeats(f) /\ (k.repeats => k.size = Cardinality(TriplesOf(f)))
      BY Zenon DEF KeptOf
    <2> QED
      BY <1>6, <1>9, <1>10, <1>11, <1>12, <2>1, Zenon DEF KeptOf
  <1> QED
    BY <1>13 DEF m, graphs

LEMMA ContextsKeeps ==
  ASSUME StoreInv, NEW want \in Ground \cup {None}, Contexts(want)
  PROVE  StoreInv'
  <1> DEFINE kept == want = None /\ Held.graphs # None
             codes == GraphsOf(Match(native', want))
             cache == IF kept THEN contexts[epoch'] ELSE Filled(contexts[epoch'], native', codes)
             order == SetToSeq(codes)
             graphs == [i \in DOMAIN order |-> cache[order[i]]]
  <1>1. /\ Reopened /\ UNCHANGED <<path, decode, current, live, calls>>
        /\ contexts' = [contexts EXCEPT ![epoch'] = cache]
        /\ known' = IF want # None \/ kept THEN Held ELSE [Held EXCEPT !.graphs = graphs]
    BY DEF Contexts
  <1>2. /\ native' \in Files /\ epoch' \in 0..MaxEpoch
        /\ KeptOf(native', Held) /\ HeldFor(native', epoch')
    BY <1>1, FoundOpen
  <1>3. PICK f \in Files, e \in 0..MaxEpoch : f = native' /\ e = epoch'
    BY <1>2
  <1>4. HeldFor(f, e) /\ Right(contexts[e], f) /\ KeptOf(f, Held)
    BY <1>2, <1>3 DEF HeldFor
  <1>5. Right(cache, f)
    <2>1. Right(Filled(contexts[e], f, codes), f)
      BY <1>4 DEF Right, Filled
    <2> QED
      BY <1>3, <1>4, <2>1
  <1>6. ~kept => codes \subseteq DOMAIN cache
    BY DEF Filled
  <1>7. KeptOf(native', known')
    <2>1. CASE want # None \/ kept
      BY <1>1, <1>2, <2>1
    <2>2. CASE want = None /\ ~kept
      <3>1. codes = GraphsOf(FileRows[f])
        BY <1>3, <2>2 DEF Match
      <3>2. GraphsOf(FileRows[f]) \subseteq DOMAIN cache
        BY <1>6, <2>2, <3>1
      <3> HIDE DEF cache, codes
      <3>3. KeptOf(f, [Held EXCEPT !.graphs = graphs])
        BY <1>4, <1>5, <3>1, <3>2, GraphsKept
      <3> QED
        BY <1>1, <1>3, <2>2, <3>3
    <2> QED
      BY <2>1, <2>2
  <1> HIDE DEF cache, kept
  <1>8. CachesOK /\ CallsOK /\ OwnOK /\ Found
        /\ \A d \in Calls : Opened(d) => HeldFor(calls[d].file, calls[d].epoch)
    BY <1>1, ReadFinds DEF StoreInv, TypeOK, ContextsOK
  <1>9. /\ contexts'[e] = cache
        /\ \A x \in 0..MaxEpoch : x # e => contexts'[x] = contexts[x]
    BY <1>1, <1>3, <1>8 DEF CachesOK
  <1>10. \A d \in Calls : Opened(d)' <=> Opened(d)
    BY <1>1 DEF Opened
  <1>11. CachesOK' /\ CallsOK' /\ OwnOK'
    <2>1. contexts' = [x \in 0..MaxEpoch |-> contexts'[x]]
      BY <1>1, <1>8 DEF CachesOK
    <2>2. CachesOK'
      BY <1>1, <1>8, <2>1 DEF CachesOK
    <2> QED
      BY <1>1, <1>8, <1>10, <2>2 DEF CallsOK, OwnOK, OwnFor
  <1>12. ASSUME NEW g, NEW x \in 0..MaxEpoch, HeldFor(g, x), x = e => g = f
         PROVE  HeldFor(g, x)'
    <2>1. Right(contexts'[x], g)
      BY <1>5, <1>9, <1>12 DEF HeldFor
    <2> QED
      BY <1>1, <1>10, <1>12, <2>1 DEF HeldFor
  <1>13. ContextsOK'
    <2>1. ASSUME NEW x \in 0..MaxEpoch, x > epoch'
          PROVE  Untouched(x)'
      <3>1. x # e /\ Untouched(x)
        BY <1>3, <1>8, <2>1 DEF Found
      <3> QED
        BY <1>1, <1>9, <1>10, <3>1 DEF Untouched
    <2>2. HeldFor(native, epoch)'
      <3>1. HeldFor(f, e)'
        BY <1>4, <1>12
      <3> QED
        BY <1>3, <3>1 DEF HeldFor, Opened
    <2>3. ASSUME NEW d \in Calls, Opened(d)'
          PROVE  HeldFor(calls[d].file, calls[d].epoch)'
      <3>1. PICK g, x : g = calls[d].file /\ x = calls[d].epoch
        OBVIOUS
      <3>2. Opened(d) /\ HeldFor(g, x)
        BY <1>8, <1>10, <2>3, <3>1
      <3>3. x \in 0..MaxEpoch /\ (x = e => g = f)
        BY <1>4, <1>8, <3>1, <3>2 DEF CallsOK, Placed, HeldFor
      <3>4. HeldFor(g, x)'
        BY <1>12, <3>2, <3>3
      <3> QED
        BY <1>1, <3>1, <3>4 DEF HeldFor, Opened
    <2> QED
      BY <2>1, <2>2, <2>3 DEF ContextsOK
  <1> QED
    BY <1>1, <1>7, <1>11, <1>13, ReadKeeps
(* A call's first step, bound to the file it finds open.                   *)
LEMMA StartBinds ==
  ASSUME StoreInv, NEW c \in Calls, NEW want \in Ground \cup {None},
         calls[c].status = "new", Reopened, known' = WithRepeats(native', Held)
  PROVE  /\ KeptOf(native', known')
         /\ Shaped(Bound(c, want, native', epoch', known'))
         /\ Placed(c, Bound(c, want, native', epoch', known'))
         /\ Bound(c, want, native', epoch', known').status = "open"
         /\ Bound(c, want, native', epoch', known').file = native'
         /\ Bound(c, want, native', epoch', known').epoch = epoch'
         /\ Bound(c, want, native', epoch', known').pos = 0
         /\ Bound(c, want, native', epoch', known').run = <<>>
         /\ Bound(c, want, native', epoch', known').got = <<>>
         /\ Bound(c, want, native', epoch', known').cache = IF current = None THEN c ELSE current
         /\ Bound(c, want, native', epoch', known').want = want
         /\ Ready(c, Bound(c, want, native', epoch', known'))
  <1> DEFINE b == Bound(c, want, native', epoch', known')
  <1>1. /\ native' \in Files /\ epoch' \in 0..MaxEpoch
        /\ KeptOf(native', Held) /\ HeldFor(native', epoch')
    BY FoundOpen
  <1>2. PICK f, e, k : /\ f = native' /\ e = epoch' /\ k = known'
                       /\ f \in Files /\ e \in 0..MaxEpoch
    BY <1>1
  <1>3. KeptOf(f, k) /\ k.repeats = Repeats(f)
    <2>1. KeptOf(f, Held) /\ f \in Files
      BY <1>1, <1>2
    <2>2. k = WithRepeats(f, Held)
      BY <1>2
    <2> QED
      BY <2>1, <2>2, RepeatsKept
  <1>4. calls[c] = Unstarted
    BY DEF StoreInv, CallsOK
  <1>5. current \in Queries \cup {None}
    BY DEF StoreInv, TypeOK
  <1>6. b = Bound(c, want, f, e, k)
    BY <1>2
  <1> HIDE DEF b
  <1>7. /\ Shaped(b) /\ Placed(c, b) /\ b.status = "open" /\ b.file = f /\ b.epoch = e
        /\ b.pos = 0 /\ b.run = <<>> /\ b.got = <<>> /\ b.want = want
        /\ b.cache = IF current = None THEN c ELSE current
    <2>1. /\ Shaped(Bound(c, want, f, e, k)) /\ Placed(c, Bound(c, want, f, e, k))
          /\ Bound(c, want, f, e, k).status = "open" /\ Bound(c, want, f, e, k).file = f
          /\ Bound(c, want, f, e, k).epoch = e /\ Bound(c, want, f, e, k).pos = 0
          /\ Bound(c, want, f, e, k).run = <<>> /\ Bound(c, want, f, e, k).got = <<>>
          /\ Bound(c, want, f, e, k).cache = IF current = None THEN c ELSE current
          /\ Bound(c, want, f, e, k).want = want
      BY <1>2, <1>3, <1>4, <1>5, BoundPlaced, SMTT(60)
    <2> QED
      BY <1>6, <2>1, Zenon
  <1>8. DOMAIN decode[c] = {}
    BY DEF StoreInv, OwnOK, Opened
  <1>9. Ready(c, b)
    <2>1. OwnFor(c, b)
      BY <1>8 DEF OwnFor, Right
    <2> QED
      BY <1>1, <1>2, <1>7, <2>1 DEF Ready
  <1> QED
    BY <1>2, <1>3, <1>7, <1>9 DEF b

LEMMA StartKeeps ==
  ASSUME StoreInv, NEW c \in Calls, Start(c)
  PROVE  StoreInv'
  <1>1. /\ calls[c].status = "new" /\ Reopened /\ known' = WithRepeats(native', Held)
        /\ UNCHANGED <<path, current, live>>
    BY DEF Start
  <1>2. PICK want \in Ground \cup {None} :
          \/ ReadsRow(c, Bound(c, want, native', epoch', known'))
          \/ Ends(c, Bound(c, want, native', epoch', known'))
    BY Zenon DEF Start
  <1>3. PICK b : b = Bound(c, want, native', epoch', known')
    OBVIOUS
  <1>4. KeptOf(native', known') /\ Ready(c, b) /\ b.file = native' /\ b.epoch = epoch'
    BY <1>1, <1>3, StartBinds
  <1>5. epoch' \in 0..MaxEpoch /\ b.epoch <= epoch'
    BY <1>1, <1>4, FoundOpen
  <1>6. ReadsRow(c, b) \/ Ends(c, b)
    BY <1>2, <1>3
  <1>7. CachesOK /\ CallsOK /\ OwnOK /\ Found
        /\ \A d \in Calls : Opened(d) => HeldFor(calls[d].file, calls[d].epoch)
    BY <1>1, ReadFinds DEF StoreInv, TypeOK, ContextsOK
  <1>8. CachesOK' /\ CallsOK' /\ OwnOK' /\ ContextsOK'
    BY <1>4, <1>5, <1>6, <1>7, CallSteps
  <1> QED
    BY <1>1, <1>4, <1>8, ReadKeeps

LEMMA OpenIsReady ==
  ASSUME StoreInv, NEW c \in Calls, Opened(c)
  PROVE  /\ Ready(c, calls[c]) /\ calls[c].pos > 0
         /\ calls[c].epoch <= epoch
         /\ native # None /\ calls[c].epoch = epoch => calls[c].file = native
  <1>1. Placed(c, calls[c]) /\ calls[c].pos > 0
    BY DEF StoreInv, CallsOK
  <1>2. Ready(c, calls[c])
    BY <1>1 DEF StoreInv, TypeOK, CachesOK, ContextsOK, OwnOK, Ready, Opened
  <1>3. calls[c].epoch \in 0..MaxEpoch /\ epoch \in 0..MaxEpoch /\ MaxEpoch \in Nat
    BY <1>1, ReadsAssumption DEF Placed, StoreInv, TypeOK
  <1>4. ~(calls[c].epoch > epoch)
    BY <1>3 DEF StoreInv, ContextsOK, Untouched
  <1>5. native # None /\ calls[c].epoch = epoch => calls[c].file = native
    BY DEF StoreInv, ContextsOK, HeldFor
  <1> QED
    BY <1>1, <1>2, <1>3, <1>4, <1>5

(* Steps that leave the store as it is, for the calls.                     *)
LEMMA StoreStands ==
  ASSUME StoreInv, UNCHANGED <<native, path, epoch, known, current, live>>,
         CachesOK', CallsOK', OwnOK', ContextsOK'
  PROVE  StoreInv'
  BY DEF StoreInv, TypeOK, StoreOK, KnownOK

LEMMA ResumeKeeps ==
  ASSUME StoreInv, NEW c \in Calls, Resume(c) \/ Stop(c)
  PROVE  StoreInv'
  <1>1. /\ calls[c].status = "open" /\ UNCHANGED <<native, path, epoch, known, current, live>>
    BY DEF Resume, Stop
  <1>2. PICK b : b = calls[c]
    OBVIOUS
  <1>3. /\ Ready(c, b) /\ b.epoch <= epoch'
        /\ native' # None /\ b.epoch = epoch' => b.file = native'
    BY <1>1, <1>2, OpenIsReady DEF Opened
  <1>4. CachesOK /\ CallsOK /\ OwnOK /\ Found /\ epoch' \in 0..MaxEpoch
        /\ \A d \in Calls : Opened(d) => HeldFor(calls[d].file, calls[d].epoch)
    BY <1>1 DEF StoreInv, TypeOK, ContextsOK, Found
  <1>5. CASE Resume(c)
    <2>1. ReadsRow(c, b) \/ Ends(c, b)
      BY <1>2, <1>5 DEF Resume
    <2>2. CachesOK' /\ CallsOK' /\ OwnOK' /\ ContextsOK'
      BY <1>3, <1>4, <2>1, CallSteps
    <2> QED
      BY <1>1, <2>2, StoreStands
  <1>6. CASE Stop(c)
    <2> DEFINE left == [Unstarted EXCEPT !.status = "stopped"]
    <2>1. /\ calls' = [calls EXCEPT ![c] = left] /\ decode' = [decode EXCEPT ![c] = NoCodes]
          /\ contexts' = contexts
      BY <1>6 DEF Stop
    <2>2. Shaped(left) /\ left.status = "stopped"
      <3>1. DOMAIN Unstarted = Fields
        BY DEF Unstarted, Fields
      <3> QED
        BY <3>1 DEF Shaped, Fields
    <2> HIDE DEF left
    <2>3. CachesOK' /\ CallsOK' /\ OwnOK' /\ ContextsOK'
      BY <1>4, <2>1, <2>2, LeavingKeeps
    <2> QED
      BY <1>1, <2>3, StoreStands
  <1> QED
    BY <1>5, <1>6

LEMMA StoreInit ==
  ASSUME Init
  PROVE  StoreInv
  <1>1. MaxEpoch \in Nat /\ None \notin Files
    BY ReadsAssumption
  <1>2. Shaped(Unstarted) /\ Unstarted.status = "new" /\ DOMAIN NoCodes = {}
    BY DEF Unstarted, Shaped, Fields, NoCodes
  <1>3. \A c \in Calls : calls[c] = Unstarted /\ ~Opened(c) /\ decode[c] = NoCodes
    BY <1>2 DEF Init, Opened
  <1>4. \A e \in 0..MaxEpoch : contexts[e] = NoCodes
    BY DEF Init
  <1>5. TypeOK /\ StoreOK
    BY <1>1, <1>2, <1>3 DEF Init, TypeOK, CachesOK, StoreOK
  <1>6. KnownOK
    BY UnreadKept DEF Init, KnownOK
  <1>7. ContextsOK
    <2>1. 0 \in 0..MaxEpoch /\ epoch = 0
      BY <1>1 DEF Init
    <2> QED
      BY <1>2, <1>3, <1>4, <2>1 DEF ContextsOK, Untouched, HeldFor, Right
  <1>8. CallsOK /\ OwnOK
    BY <1>2, <1>3 DEF CallsOK, OwnOK
  <1> QED
    BY <1>5, <1>6, <1>7, <1>8 DEF StoreInv

LEMMA StoreSteps ==
  ASSUME StoreInv, [Next]_vars
  PROVE  StoreInv'
  <1>1. CASE UNCHANGED vars
    BY <1>1 DEF vars, StoreInv, TypeOK, CachesOK, StoreOK, KnownOK, ContextsOK, Untouched, HeldFor,
                CallsOK, OwnOK, OwnFor, Opened
  <1>2. ASSUME NEW f \in Files, Open(f) PROVE StoreInv'
    BY <1>2, OpenKeeps
  <1>3. CASE Close
    BY <1>3, CloseKeeps
  <1>4. CASE (\E q \in Queries : EnterStep(q)) \/ LeaveStep
    BY <1>4, ScopeKeeps
  <1>5. ASSUME NEW c \in Calls, Start(c) PROVE StoreInv'
    BY <1>5, StartKeeps
  <1>6. ASSUME NEW c \in Calls, Resume(c) \/ Stop(c) PROVE StoreInv'
    BY <1>6, ResumeKeeps
  <1>7. ASSUME NEW want \in Ground \cup {None}, Contexts(want) PROVE StoreInv'
    BY <1>7, ContextsKeeps
  <1>8. CASE Length \/ ReadRaises
    BY <1>8, LengthKeeps
  <1> QED
    BY <1>1, <1>2, <1>3, <1>4, <1>5, <1>6, <1>7, <1>8 DEF Next
LEMMA KeptIsTrue ==
  ASSUME StoreInv
  PROVE  KeptIsTheOpenFiles
  <1> SUFFICES ASSUME native # None
               PROVE  /\ known.graphs # None =>
                           /\ ToSet(known.graphs) =
                                {Decoded(native, GraphCode(row)) : row \in ToSet(FileRows[native])}
                           /\ IsInjective(known.graphs)
                      /\ known.repeats # None =>
                           LengthOf(native, known) = Len(UnionOf(native, None))
    BY DEF KeptIsTheOpenFiles
  <1>1. native \in Files /\ KeptOf(native, known)
    BY DEF StoreInv, TypeOK, KnownOK
  <1>2. ASSUME known.repeats # None
        PROVE  LengthOf(native, known) = Len(UnionOf(native, None))
    <2>1. known.repeats = Repeats(native) /\ (known.repeats => known.size = Cardinality(TriplesOf(native)))
      BY <1>1, <1>2, Zenon DEF KeptOf
    <2>2. ~Repeats(native) => Cardinality(TriplesOf(native)) = Size(native)
      BY DEF Repeats
    <2>3. LengthOf(native, known) = Cardinality(TriplesOf(native))
      BY <2>1, <2>2, Zenon DEF LengthOf
    <2> QED
      BY <1>1, <2>3, UnionLength
  <1> QED
    BY <1>1, <1>2, Zenon DEF KeptOf

LEMMA DecodedWereReached ==
  ASSUME StoreInv
  PROVE  DecodesOnlyReached
  <1> SUFFICES ASSUME NEW c \in Calls, Opened(c), NEW r, r = calls[c]
               PROVE  DOMAIN decode[c] \subseteq
                        {Code(r.match[i]) : i \in 1..MinOf(r.pos + ChunkMax - 1, Len(r.match))}
    BY DEF DecodesOnlyReached, Opened
  <1>1. Placed(c, r) /\ OwnFor(c, r)
    BY OpenIsReady DEF Ready
  <1>2. CASE r.want # None
    BY <1>1, <1>2 DEF OwnFor
  <1>3. CASE r.want = None
    <2>1. /\ r.pos \in Nat /\ r.sliceEnd \in Nat /\ ChunkMax \in Nat /\ Len(r.match) \in Nat
          /\ r.sliceEnd < r.pos + ChunkMax /\ r.sliceEnd <= Len(r.match)
      BY <1>1, <1>3, ReadsAssumption, MatchesOK DEF Placed
    <2>2. \A i \in 1..r.sliceEnd : i \in 1..MinOf(r.pos + ChunkMax - 1, Len(r.match))
      BY <2>1 DEF MinOf
    <2>3. DOMAIN decode[c] \subseteq {Code(r.match[i]) : i \in 1..r.sliceEnd}
      BY <1>1 DEF OwnFor
    <2> QED
      BY <2>2, <2>3
  <1> QED
    BY <1>2, <1>3

(* The types, and what a state of the store, its caches and its calls must *)
(* agree on (store.py, open, close, triples, contexts, __len__).           *)
THEOREM StoreAgrees == Spec => []StoreInv
  <1>1. Init => StoreInv
    BY StoreInit
  <1>2. StoreInv /\ [Next]_vars => StoreInv'
    BY StoreSteps
  <1> QED
    BY <1>1, <1>2, PTL DEF Spec

(* What contexts() and len() answer from is the open file's, whatever was  *)
(* opened and closed before, and under a live query too (store.py,         *)
(* contexts, __len__, _read_union_repeats).                                *)
THEOREM KeptIsTheOpenFilesAlways == Spec => []KeptIsTheOpenFiles
  <1>1. StoreInv => KeptIsTheOpenFiles
    BY KeptIsTrue
  <1> QED
    BY <1>1, StoreAgrees, PTL

(* A call's own cache holds terms of the slices it reached only, less than *)
(* one slice past its last row (store.py, _quad_rows).                     *)
THEOREM DecodesOnlyReachedAlways == Spec => []DecodesOnlyReached
  <1>1. StoreInv => DecodesOnlyReached
    BY DecodedWereReached
  <1> QED
    BY <1>1, StoreAgrees, PTL
-----------------------------------------------------------------------------
(* The rows of a call, while no file is opened under a live query.         *)

LEMMA GatheredAtFirst ==
  ASSUME NEW c \in Calls, NEW b, Placed(c, b), b.pos = 0, b.run = <<>>, b.got = <<>>
  PROVE  Gathered(b)
  <1>1. RowsOK(b.match) /\ b.file \in Files
    BY MatchesOK DEF Placed
  <1>2. UnionUpTo(b.file, b.match)[0] = <<>>
    BY <1>1, UnionUnfolds
  <1>3. <<>> \in Seq(Entry)
    BY EmptySeq
  <1> QED
    BY <1>2, <1>3 DEF Gathered

LEMMA RowGathered ==
  ASSUME NEW c \in Calls, NEW b, Shaped(b), Placed(c, b), Gathered(b), NEW r \in Advances(b),
         NEW triple, triple = Decoded(b.file, Code(b.match[b.pos + 1])),
         NEW graph, graph = Decoded(b.file, GraphCode(b.match[b.pos + 1])),
         NEW m, m = Merged([r EXCEPT !.pos = @ + 1], triple, graph)
  PROVE  Gathered(m)
  <1> DEFINE s == [r EXCEPT !.pos = @ + 1]
             f == b.file
             rows == b.match
             union == UnionUpTo(f, rows)[b.pos]
             longer == UnionUpTo(f, rows)[b.pos + 1]
             entry == <<triple, <<graph>>>>
  <1>1. /\ Shaped(r) /\ SameCall(r, b) /\ r.pos = b.pos /\ r.run = b.run /\ r.got = b.got
        /\ r.pos < r.sliceEnd /\ r.sliceEnd <= r.chunkEnd /\ r.chunkEnd <= Len(r.match)
        /\ r.sliceEnd \in Nat /\ r.chunkEnd \in Nat
    BY Advanced
  <1>2. /\ DOMAIN s = Fields /\ SameCall(s, b) /\ s.pos = b.pos + 1 /\ s.run = b.run /\ s.got = b.got
    <2>1. DOMAIN r = Fields /\ DOMAIN s = Fields
      BY <1>1 DEF Shaped
    <2> QED
      BY <1>1, <2>1 DEF SameCall, Fields
  <1> HIDE DEF s
  <1>3. /\ RowsOK(rows) /\ Len(rows) \in Nat /\ f \in Files /\ b.pos \in Nat
        /\ b.merges = Repeats(f) /\ b.pos + 1 <= Len(rows)
    <2>1. RowsOK(rows) /\ Len(rows) \in Nat /\ f \in Files /\ b.pos \in Nat /\ b.merges = Repeats(f)
      BY MatchesOK DEF Placed
    <2>2. r.match = rows
      BY <1>1 DEF SameCall
    <2> QED
      BY <1>1, <2>1, <2>2
  <1>4. /\ SameCall(m, b) /\ m.pos = b.pos + 1
    BY RowPlaced
  <1>5. m.file = f /\ m.match = rows /\ m.merges = b.merges /\ s.merges = b.merges
    BY <1>2, <1>4 DEF SameCall
  <1>6. b.pos \in 0..Len(rows) /\ b.pos + 1 \in 0..Len(rows)
    BY <1>3
  <1>7. /\ union \in Seq(Entry) /\ longer \in Seq(Entry)
        /\ Grown(f, union, rows[b.pos + 1], longer)
    BY <1>3, <1>6, UnionsGrow
  <1>8. rows[b.pos + 1] \in Nat \X Nat
    BY <1>3, <1>6, ElementOfSeq DEF RowsOK
  <1>9. entry \in Entry /\ triple \in Term /\ graph \in Term
    <2>1. triple \in Term /\ graph \in Term
      BY <1>3, <1>8 DEF Decoded, Term, Code, GraphCode
    <2>2. <<graph>> \in Seq(Term)
      BY <2>1
    <2> QED
      BY <2>1, <2>2 DEF Entry
  <1>10. m = Merged(s, triple, graph)
    BY DEF s
  <1>11. b.got \in Seq(Entry)
    BY DEF Gathered
  <1>12. /\ triple = Decoded(f, Code(rows[b.pos + 1]))
         /\ graph = Decoded(f, GraphCode(rows[b.pos + 1]))
    OBVIOUS
  <1>13. SUFFICES /\ m.got \in Seq(Entry)
                  /\ IF ~b.merges THEN m.run = <<>> /\ m.got = longer
                     ELSE m.run # <<>> /\ m.run \in Entry /\ longer = Append(m.got, m.run)
    <2>1. m.pos > 0
      <3>1. b.pos \in Nat /\ m.pos = b.pos + 1
        BY <1>3, <1>4
      <3> QED
        BY <3>1
    <2>2. UnionUpTo(m.file, m.match)[m.pos] = longer
      BY <1>4, <1>5
    <2> QED
      BY <1>5, <2>1, <2>2, Zenon DEF Gathered
  <1> HIDE DEF f, rows, longer
  <1>14. CASE ~b.merges
    <2>1. Apart(rows)
      <3>1. ~Repeats(f) /\ b.want \in Ground \cup {None} /\ rows = Match(f, b.want)
        BY <1>3, <1>14 DEF Placed, f, rows
      <3> QED
        BY <1>3, <3>1, MatchesApart
    <2>2. longer = Append(union, entry)
      BY <1>3, <1>12, <2>1, ApartGrows, SMTT(30) DEF longer
    <2>3. b.run = <<>> /\ b.got = union
      BY <1>14 DEF Gathered, f, rows
    <2>4. m = [s EXCEPT !.got = Append(@, entry)]
      BY <1>5, <1>10, <1>14 DEF Merged
    <2>5. m.got = Append(b.got, entry) /\ m.run = <<>>
      BY <1>2, <2>3, <2>4 DEF Fields
    <2> QED
      BY <1>7, <1>14, <2>2, <2>3, <2>5
  <1>15. CASE b.merges /\ b.run = <<>>
    <2>1. b.pos = 0 /\ b.got = <<>>
      BY <1>15 DEF Gathered
    <2>2. union = <<>>
      BY <1>3, <2>1, UnionUnfolds
    <2>3. longer = Append(<<>>, entry)
      BY <1>7, <1>12, <2>2 DEF Grown
    <2>4. m = [s EXCEPT !.run = entry]
      BY <1>2, <1>5, <1>10, <1>15 DEF Merged
    <2>5. m.got = <<>> /\ m.run = entry
      BY <1>2, <2>1, <2>4 DEF Fields
    <2>6. entry # <<>>
      OBVIOUS
    <2> HIDE DEF entry
    <2> QED
      BY <1>9, <1>11, <1>15, <2>1, <2>3, <2>5, <2>6
  <1>16. CASE b.merges /\ b.run # <<>>
    <2>1. b.run \in Entry /\ union = Append(b.got, b.run)
      BY <1>16 DEF Gathered, f, rows
    <2>2. PICK n : n = Len(b.got)
      OBVIOUS
    <2> HIDE DEF union
    <2>3. /\ n \in Nat /\ Len(union) = n + 1 /\ union # <<>> /\ union[n + 1] = b.run
          /\ \A k \in 1..n : union[k] = b.got[k]
      <3>1. n \in Nat
        BY <1>11, <2>2, LenProperties
      <3>2. Len(union) = n + 1 /\ union[n + 1] = b.run /\ \A k \in 1..n : union[k] = b.got[k]
        BY <1>11, <2>1, <2>2, AppendProperties
      <3>3. union # <<>>
        BY <3>1, <3>2
      <3> QED
        BY <3>1, <3>2, <3>3
    <2>4. CASE b.run[1] = triple
      <3> DEFINE more == <<triple, Append(b.run[2], graph)>>
      <3>1. longer = [k \in 1..n + 1 |-> IF k = n + 1 THEN more ELSE union[k]]
        BY <1>7, <1>12, <2>3, <2>4 DEF Grown
      <3>2. more \in Entry
        <4>1. b.run[2] \in Seq(Term)
          BY <2>1 DEF Entry
        <4>2. Append(b.run[2], graph) \in Seq(Term)
          BY <1>9, <4>1
        <4> QED
          BY <1>9, <4>2 DEF Entry
      <3>3. m = [s EXCEPT !.run = more]
        BY <1>2, <1>5, <1>10, <1>16, <2>4 DEF Merged
      <3>4. m.got = b.got /\ m.run = more
        BY <1>2, <3>3 DEF Fields
      <3>5. more # <<>>
        OBVIOUS
      <3> HIDE DEF more
      <3>6. longer = Append(b.got, more)
        <4>1. /\ Append(b.got, more) \in Seq(Entry) /\ Len(Append(b.got, more)) = n + 1
              /\ Append(b.got, more)[n + 1] = more
              /\ \A k \in 1..n : Append(b.got, more)[k] = b.got[k]
          BY <1>11, <2>2, <3>2, AppendProperties
        <4>2. /\ Len(longer) = n + 1 /\ longer[n + 1] = more
              /\ \A k \in 1..n : longer[k] = b.got[k]
          <5>1. DOMAIN longer = 1..n + 1
            BY <3>1
          <5>2. Len(longer) = n + 1
            BY <1>7, <2>3, <5>1, LenProperties
          <5>3. longer[n + 1] = more
            BY <2>3, <3>1
          <5>4. \A k \in 1..n : longer[k] = b.got[k]
            BY <2>3, <3>1
          <5> QED
            BY <5>2, <5>3, <5>4
        <4>3. \A k \in 1..n + 1 : k = n + 1 \/ k \in 1..n
          BY <2>3
        <4>4. \A k \in 1..Len(longer) : longer[k] = Append(b.got, more)[k]
          BY <4>1, <4>2, <4>3
        <4> QED
          BY <1>7, <4>1, <4>2, <4>4, SeqEqual
      <3> QED
        BY <1>11, <1>16, <3>2, <3>4, <3>5, <3>6
    <2>5. CASE b.run[1] # triple
      <3>1. longer = Append(union, entry)
        BY <1>7, <1>12, <2>3, <2>5 DEF Grown
      <3>2. m = [s EXCEPT !.got = Append(@, s.run), !.run = entry]
        BY <1>2, <1>5, <1>10, <1>16, <2>5 DEF Merged
      <3>3. m.got = Append(b.got, b.run) /\ m.run = entry
        BY <1>2, <3>2 DEF Fields
      <3>4. entry # <<>>
        OBVIOUS
      <3> HIDE DEF entry
      <3>5. m.got \in Seq(Entry)
        <4>1. Append(b.got, b.run) \in Seq(Entry)
          BY <1>11, <2>1, AppendProperties
        <4> QED
          BY <3>3, <4>1
      <3> QED
        BY <1>9, <1>16, <2>1, <3>1, <3>3, <3>4, <3>5
    <2> QED
      BY <2>4, <2>5
  <1> QED
    BY <1>14, <1>15, <1>16
(* A call with nothing to advance to has read its whole match.             *)
LEMMA EndGathered ==
  ASSUME NEW c \in Calls, NEW b, Shaped(b), Placed(c, b), Gathered(b), Advances(b) = {}
  PROVE  Flushed(b).got = UnionOf(b.file, b.want)
  <1>1. /\ ChunkRows \in Nat \ {0} /\ Len(b.match) \in Nat /\ b.match = Match(b.file, b.want)
        /\ b.pos \in Nat /\ b.sliceEnd \in Nat /\ b.chunkEnd \in Nat
        /\ b.pos <= b.sliceEnd /\ b.sliceEnd <= b.chunkEnd /\ b.chunkEnd <= Len(b.match)
        /\ b.file \in Files /\ b.want \in Ground \cup {None}
    <2>1. Len(b.match) \in Nat
      BY MatchesOK DEF Placed
    <2> QED
      BY <2>1, ReadsAssumption DEF Placed
  <1>2. ~InSlice(b) /\ ~InChunk(b)
    BY DEF Advances
  <1> DEFINE stops == IF b.chunked
                      THEN b.chunkEnd + 1 .. MinOf(b.chunkEnd + ChunkRows, Len(b.match))
                      ELSE {n \in {Len(b.match)} : n > b.chunkEnd}
  <1>3. stops = {}
    <2>1. Advances(b) = {Sliced([b EXCEPT !.chunkEnd = stop, !.size = ChunkStart]) : stop \in stops}
      BY <1>2, Zenon DEF Advances
    <2> HIDE DEF stops
    <2> QED
      BY <2>1
  <1>4. b.chunkEnd = Len(b.match)
    <2> SUFFICES ASSUME b.chunkEnd < Len(b.match) PROVE FALSE
      BY <1>1
    <2>1. CASE b.chunked
      <3>1. b.chunkEnd + 1 \in b.chunkEnd + 1 .. MinOf(b.chunkEnd + ChunkRows, Len(b.match))
        BY <1>1 DEF MinOf
      <3> QED
        BY <1>3, <2>1, <3>1
    <2>2. CASE ~b.chunked
      BY <1>1, <1>3, <2>2
    <2> QED
      BY <2>1, <2>2
  <1>5. b.pos = Len(b.match)
    BY <1>1, <1>2, <1>4 DEF InSlice, InChunk
  <1> DEFINE union == UnionUpTo(b.file, b.match)[b.pos]
  <1>6. union = UnionOf(b.file, b.want)
    BY <1>1, <1>5 DEF UnionOf
  <1>7. b.pos = 0 => union = <<>>
    BY <1>1, MatchesOK, UnionUnfolds
  <1>8. Flushed(b).got = IF b.run = <<>> THEN b.got ELSE Append(b.got, b.run)
    BY FlushedKeeps
  <1>9. Flushed(b).got = union
    BY <1>7, <1>8, Zenon DEF Gathered
  <1> QED
    BY <1>6, <1>9

(* What a call bound as b finds in the query it decodes for.               *)
ServedBy(b) ==
  b.cache \in Queries =>
    /\ Right(decode[b.cache], b.file)
    /\ live[b.cache] # "new" /\ (live[b.cache] = "live" => b.file = path)
    /\ \A d \in Calls : Uses(d, b.cache) => calls[d].file = b.file

LEMMA RowKeepsRows ==
  ASSUME CachesOK, RowsInv, NEW c \in Calls, NEW b, Ready(c, b), ServedBy(b), Gathered(b),
         ReadsRow(c, b), UNCHANGED <<path, live>>
  PROVE  RowsInv'
  <1>1. /\ Shaped(b) /\ Placed(c, b) /\ b.status = "open" /\ Right(contexts[b.epoch], b.file)
        /\ Right(decode[c], b.file)
    BY DEF Ready, HeldFor, OwnFor
  <1>2. PICK r \in Advances(b) : \E triple, graph : RowRead(c, b, r, triple, graph)
    BY <1>1, ReadsOneRow
  <1>3. PICK triple, graph : RowRead(c, b, r, triple, graph)
    BY <1>2
  <1> DEFINE m == Merged([r EXCEPT !.pos = @ + 1], triple, graph)
             terms == Filled(decode[b.cache], b.file, CodesRead(r))
  <1>4. /\ m.file = b.file /\ m.status = "open" /\ m.cache = b.cache /\ SameCall(r, b)
        /\ r.pos = b.pos /\ r.sliceEnd <= Len(b.match) /\ r.pos < r.sliceEnd
        /\ r.sliceEnd \in Nat
    <2>1. SameCall(m, b)
      BY <1>1, RowPlaced
    <2>2. /\ SameCall(r, b) /\ r.pos = b.pos /\ r.sliceEnd <= r.chunkEnd /\ r.chunkEnd <= Len(r.match)
          /\ r.sliceEnd \in Nat /\ r.chunkEnd \in Nat /\ r.pos < r.sliceEnd
      BY <1>1, Advanced
    <2>3. Len(b.match) \in Nat
      BY <1>1, MatchesOK DEF Placed
    <2> HIDE DEF m
    <2>4. r.match = b.match /\ m.file = b.file /\ m.status = "open" /\ m.cache = b.cache
      BY <1>1, <2>1, <2>2 DEF SameCall
    <2> QED
      BY <2>2, <2>3, <2>4
  <1>5. /\ calls' = [calls EXCEPT ![c] = m] /\ decode' = [decode EXCEPT ![b.cache] = terms]
    BY <1>3 DEF RowRead
  <1>6. b.cache \in Queries \cup {c} /\ Calls \cap Queries = {}
    BY <1>1, ReadsAssumption DEF Placed
  <1>7. Right(decode[b.cache], b.file)
    BY <1>1, <1>6 DEF ServedBy
  <1>8. Right(terms, b.file) /\ \A x \in CodesRead(r) : terms[x] = Decoded(b.file, x)
    BY <1>7 DEF Right, Filled
  <1>9. /\ triple = Decoded(b.file, Code(b.match[b.pos + 1]))
        /\ graph = Decoded(b.file, GraphCode(b.match[b.pos + 1]))
    <2>1. CASE b.want = None
      <3>1. /\ Code(b.match[b.pos + 1]) \in CodesRead(r)
            /\ triple = terms[Code(b.match[b.pos + 1])]
            /\ graph = Decoded(b.file, GraphCode(b.match[b.pos + 1]))
        BY <1>3, <2>1, Zenon DEF RowRead
      <3> HIDE DEF terms
      <3> QED
        BY <1>8, <3>1
    <2>2. CASE b.want # None
      <3>1. /\ triple = Decoded(b.file, b.want)
            /\ graph = Decoded(b.file, GraphCode(b.match[b.pos + 1]))
        BY <1>3, <2>2, Zenon DEF RowRead
      <3>2. b.pos + 1 \in 1..Len(b.match)
        <4>1. b.pos \in Nat /\ Len(b.match) \in Nat
          BY <1>1, MatchesOK DEF Placed
        <4> QED
          BY <1>4, <4>1
      <3>3. Code(b.match[b.pos + 1]) = b.want
        BY <1>1, <2>2, <3>2, MatchesOK DEF Placed
      <3> QED
        BY <3>1, <3>3
    <2> QED
      BY <2>1, <2>2
  <1>10. Gathered(m)
    BY <1>1, <1>9, RowGathered
  <1> HIDE DEF m, terms
  <1>11. /\ calls'[c] = m /\ \A d \in Calls : d # c => calls'[d] = calls[d]
         /\ \A q \in Queries : q # b.cache => decode'[q] = decode[q]
         /\ b.cache \in Queries => decode'[b.cache] = terms
    BY <1>5, <1>6 DEF CachesOK
  <1>12. GatheredOK'
    BY <1>4, <1>10, <1>11 DEF RowsInv, GatheredOK, Opened
  <1>13. \A q \in Queries : q # b.cache => ~Uses(c, q)'
    BY <1>4, <1>11 DEF Uses
  <1>14. \A d \in Calls, q \in Queries : d # c => (Uses(d, q)' <=> Uses(d, q))
    BY <1>11 DEF Uses, Opened
  <1>15. ASSUME NEW q \in Queries, q = b.cache
         PROVE  /\ Right(decode'[q], b.file) /\ live'[q] # "new"
                /\ live'[q] = "live" => b.file = path'
                /\ \A d \in Calls : Uses(d, q)' => calls'[d].file = b.file
    <2>1. \A d \in Calls : Uses(d, q)' => calls'[d].file = b.file
      <3>1. ASSUME NEW d \in Calls, Uses(d, q)'
            PROVE  calls'[d].file = b.file
        <4>1. CASE d = c
          BY <1>4, <1>11, <4>1
        <4>2. CASE d # c
          BY <1>11, <1>14, <1>15, <3>1, <4>2 DEF ServedBy
        <4> QED
          BY <4>1, <4>2
      <3> QED
        BY <3>1
    <2> QED
      BY <1>8, <1>11, <1>15, <2>1 DEF ServedBy
  <1>16. ASSUME NEW q \in Queries, q # b.cache
         PROVE  /\ decode'[q] = decode[q] /\ live'[q] = live[q] /\ path' = path
                /\ \A d \in Calls : Uses(d, q)' => Uses(d, q) /\ calls'[d] = calls[d]
    BY <1>11, <1>13, <1>14, <1>16
  <1>17. QueriesOK'
    <2>1. ASSUME NEW q \in Queries, live'[q] = "new"
          PROVE  DOMAIN decode'[q] = {} /\ \A d \in Calls : ~Uses(d, q)'
      <3>1. q # b.cache
        BY <1>15, <2>1
      <3> QED
        BY <1>16, <2>1, <3>1 DEF RowsInv, QueriesOK
    <2>2. ASSUME NEW q \in Queries, live'[q] = "live"
          PROVE  Right(decode'[q], path') /\ \A d \in Calls : Uses(d, q)' => calls'[d].file = path'
      <3>1. CASE q = b.cache
        BY <1>15, <2>2, <3>1
      <3>2. CASE q # b.cache
        BY <1>16, <2>2, <3>2 DEF RowsInv, QueriesOK
      <3> QED
        BY <3>1, <3>2
    <2>3. ASSUME NEW q \in Queries, NEW d \in Calls, Uses(d, q)'
          PROVE  Right(decode'[q], calls'[d].file)
      <3>1. CASE q = b.cache
        BY <1>15, <2>3, <3>1
      <3>2. CASE q # b.cache
        BY <1>16, <2>3, <3>2 DEF RowsInv, QueriesOK
      <3> QED
        BY <3>1, <3>2
    <2>4. ASSUME NEW q \in Queries, NEW d \in Calls, NEW e \in Calls, Uses(d, q)', Uses(e, q)'
          PROVE  calls'[d].file = calls'[e].file
      <3>1. CASE q = b.cache
        BY <1>15, <2>4, <3>1
      <3>2. CASE q # b.cache
        BY <1>16, <2>4, <3>2 DEF RowsInv, QueriesOK
      <3> QED
        BY <3>1, <3>2
    <2> QED
      BY <2>1, <2>2, <2>3, <2>4 DEF QueriesOK
  <1> QED
    BY <1>12, <1>17 DEF RowsInv
(* A call that lets go of what it held, done only with its whole union.    *)
LetGo(c, left) ==
  /\ left.status \in {"done", "stopped"}
  /\ left.status = "done" => left.got = UnionOf(left.file, left.want)
  /\ calls' = [calls EXCEPT ![c] = left]
  /\ decode' = [decode EXCEPT ![c] = NoCodes]
  /\ path' = path /\ live' = live

LEMMA LeavingKeepsRows ==
  ASSUME CachesOK, RowsInv, NEW c \in Calls, NEW left, LetGo(c, left)
  PROVE  RowsInv'
  <1> USE DEF LetGo
  <1>1. calls'[c] = left /\ \A d \in Calls : d # c => calls'[d] = calls[d]
    BY DEF CachesOK
  <1>2. \A q \in Queries : decode'[q] = decode[q]
    BY ReadsAssumption DEF CachesOK
  <1>3. \A d \in Calls, q \in Queries : Uses(d, q)' => Uses(d, q) /\ calls'[d] = calls[d]
    BY <1>1 DEF Uses, Opened
  <1>4. QueriesOK'
    <2>1. \A q \in Queries : live'[q] = "new" =>
            DOMAIN decode'[q] = {} /\ \A d \in Calls : ~Uses(d, q)'
      BY <1>2, <1>3 DEF RowsInv, QueriesOK
    <2>2. \A q \in Queries : live'[q] = "live" =>
            Right(decode'[q], path') /\ \A d \in Calls : Uses(d, q)' => calls'[d].file = path'
      BY <1>2, <1>3 DEF RowsInv, QueriesOK
    <2>3. ASSUME NEW q \in Queries, NEW d \in Calls, Uses(d, q)'
          PROVE  Right(decode'[q], calls'[d].file)
      BY <1>2, <1>3, <2>3 DEF RowsInv, QueriesOK
    <2>4. ASSUME NEW q \in Queries, NEW d \in Calls, NEW e \in Calls, Uses(d, q)', Uses(e, q)'
          PROVE  calls'[d].file = calls'[e].file
      BY <1>3, <2>4 DEF RowsInv, QueriesOK
    <2> QED
      BY <2>1, <2>2, <2>3, <2>4 DEF QueriesOK
  <1>5. GatheredOK'
    BY <1>1 DEF RowsInv, GatheredOK, Opened
  <1> QED
    BY <1>4, <1>5 DEF RowsInv

LEMMA CallStepsKeepRows ==
  ASSUME CachesOK, RowsInv, NEW c \in Calls, NEW b, Ready(c, b), ServedBy(b), Gathered(b),
         ReadsRow(c, b) \/ Ends(c, b), UNCHANGED <<path, live>>
  PROVE  RowsInv'
  <1>1. CASE ReadsRow(c, b)
    BY <1>1, RowKeepsRows
  <1>2. CASE Ends(c, b)
    <2> DEFINE left == Left(Flushed(b), "done")
    <2>1. /\ Advances(b) = {}
          /\ calls' = [calls EXCEPT ![c] = left]
          /\ decode' = [decode EXCEPT ![c] = NoCodes]
      BY <1>2 DEF Ends
    <2>2. Shaped(b) /\ Placed(c, b)
      BY DEF Ready
    <2>3. /\ left.status = "done" /\ left.file = b.file /\ left.want = b.want
          /\ left.got = Flushed(b).got
      BY <2>2, LeftShaped, FlushedKeeps
    <2>4. Flushed(b).got = UnionOf(b.file, b.want)
      BY <2>1, <2>2, EndGathered
    <2> HIDE DEF left
    <2> QED
      <3>1. LetGo(c, left)
        BY <2>1, <2>3, <2>4 DEF LetGo
      <3> QED
        BY <3>1, LeavingKeepsRows
  <1> QED
    BY <1>1, <1>2

LEMMA OthersKeepRows ==
  ASSUME RowsInv, UNCHANGED <<path, decode, calls, live>>
  PROVE  RowsInv'
  <1>1. \A d \in Calls, q \in Queries : Uses(d, q)' <=> Uses(d, q)
    BY DEF Uses, Opened
  <1>2. QueriesOK'
    BY <1>1 DEF RowsInv, QueriesOK
  <1>3. GatheredOK'
    BY DEF RowsInv, GatheredOK, Opened
  <1> QED
    BY <1>2, <1>3 DEF RowsInv

LEMMA RowsSteps ==
  ASSUME ~OpensInQuery, StoreInv, RowsInv, [Next]_vars
  PROVE  RowsInv'
  <1>1. CachesOK
    BY DEF StoreInv, TypeOK
  <1>2. CASE UNCHANGED vars \/ Close \/ Length \/ ReadRaises
             \/ (\E want \in Ground \cup {None} : Contexts(want))
    <2>1. UNCHANGED <<path, decode, calls, live>>
      BY <1>2 DEF vars, Close, Length, ReadRaises, Contexts
    <2> QED
      BY <2>1, OthersKeepRows
  <1>3. ASSUME NEW f \in Files, Open(f)
        PROVE  RowsInv'
    <2>1. /\ \A q \in Queries : live[q] # "live"
          /\ UNCHANGED <<decode, calls, live>>
      BY <1>3 DEF Open, MayOpen
    <2>2. \A d \in Calls, q \in Queries : Uses(d, q)' <=> Uses(d, q)
      BY <2>1 DEF Uses, Opened
    <2>3. QueriesOK'
      BY <2>1, <2>2 DEF RowsInv, QueriesOK
    <2>4. GatheredOK'
      BY <2>1 DEF RowsInv, GatheredOK, Opened
    <2> QED
      BY <2>3, <2>4 DEF RowsInv
  <1>4. CASE (\E q \in Queries : EnterStep(q)) \/ LeaveStep
    <2>1. /\ UNCHANGED <<path, decode, calls>>
          /\ \A q \in Queries : live'[q] # live[q] =>
               \/ live[q] \in {"new", "live"} /\ live'[q] = "live"
               \/ live'[q] = "ended"
      <3>1. live \in [Queries -> {"new", "live", "ended"}]
        BY DEF StoreInv, TypeOK
      <3> QED
        BY <1>4, <3>1 DEF EnterStep, LeaveStep
    <2>2. \A d \in Calls, q \in Queries : Uses(d, q)' <=> Uses(d, q)
      BY <2>1 DEF Uses, Opened
    <2>3. QueriesOK'
      <3>1. ASSUME NEW q \in Queries, live'[q] = "new"
            PROVE  DOMAIN decode'[q] = {} /\ \A d \in Calls : ~Uses(d, q)'
        <4>1. live[q] = "new"
          BY <2>1, <3>1
        <4> QED
          BY <2>1, <2>2, <4>1 DEF RowsInv, QueriesOK
      <3>2. ASSUME NEW q \in Queries, live'[q] = "live"
            PROVE  Right(decode'[q], path') /\ \A d \in Calls : Uses(d, q)' => calls'[d].file = path'
        <4>1. live[q] \in {"new", "live"}
          BY <2>1, <3>2
        <4>2. CASE live[q] = "live"
          BY <2>1, <2>2, <4>2 DEF RowsInv, QueriesOK
        <4>3. CASE live[q] = "new"
          <5>1. DOMAIN decode[q] = {} /\ \A d \in Calls : ~Uses(d, q)
            BY <4>3 DEF RowsInv, QueriesOK
          <5> QED
            BY <2>1, <2>2, <5>1 DEF Right
        <4> QED
          BY <4>1, <4>2, <4>3
      <3>3. ASSUME NEW q \in Queries, NEW d \in Calls, Uses(d, q)'
            PROVE  Right(decode'[q], calls'[d].file)
        BY <2>1, <2>2, <3>3 DEF RowsInv, QueriesOK
      <3>4. ASSUME NEW q \in Queries, NEW d \in Calls, NEW e \in Calls, Uses(d, q)', Uses(e, q)'
            PROVE  calls'[d].file = calls'[e].file
        BY <2>1, <2>2, <3>4 DEF RowsInv, QueriesOK
      <3> QED
        BY <3>1, <3>2, <3>3, <3>4 DEF QueriesOK
    <2>4. GatheredOK'
      BY <2>1 DEF RowsInv, GatheredOK, Opened
    <2> QED
      BY <2>3, <2>4 DEF RowsInv
  <1>5. ASSUME NEW c \in Calls, Start(c)
        PROVE  RowsInv'
    <2>1. /\ calls[c].status = "new" /\ Reopened /\ known' = WithRepeats(native', Held)
          /\ UNCHANGED <<path, current, live>>
      BY <1>5 DEF Start
    <2>2. PICK want \in Ground \cup {None} :
            \/ ReadsRow(c, Bound(c, want, native', epoch', known'))
            \/ Ends(c, Bound(c, want, native', epoch', known'))
      BY <1>5, Zenon DEF Start
    <2>3. PICK b : b = Bound(c, want, native', epoch', known')
      OBVIOUS
    <2>4. /\ Ready(c, b) /\ Placed(c, b) /\ b.file = native' /\ b.pos = 0 /\ b.run = <<>>
          /\ b.got = <<>> /\ b.cache = IF current = None THEN c ELSE current
      BY <2>1, <2>3, StartBinds
    <2>5. Gathered(b)
      BY <2>4, GatheredAtFirst
    <2>6. b.file = path /\ (current # None => current \in Queries /\ live[current] = "live")
      BY <2>1, <2>4, FoundOpen DEF StoreInv, TypeOK, StoreOK
    <2>7. ServedBy(b)
      <3> SUFFICES ASSUME b.cache \in Queries PROVE ServedBy(b)
        BY DEF ServedBy
      <3>1. current # None /\ b.cache = current
        BY <2>4, ReadsAssumption
      <3>2. live[b.cache] = "live"
        BY <2>6, <3>1
      <3> QED
        BY <2>6, <3>2 DEF ServedBy, RowsInv, QueriesOK
    <2>8. ReadsRow(c, b) \/ Ends(c, b)
      BY <2>2, <2>3
    <2> QED
      BY <1>1, <2>1, <2>4, <2>5, <2>7, <2>8, CallStepsKeepRows
  <1>6. ASSUME NEW c \in Calls, Resume(c)
        PROVE  RowsInv'
    <2>1. /\ Opened(c) /\ UNCHANGED <<path, live>>
          /\ (ReadsRow(c, calls[c]) \/ Ends(c, calls[c]))
      BY <1>6 DEF Resume, Opened
    <2>2. PICK b : b = calls[c]
      OBVIOUS
    <2>3. Ready(c, b) /\ Gathered(b)
      BY <2>1, <2>2, OpenIsReady DEF RowsInv, GatheredOK
    <2>4. ServedBy(b)
      <3> SUFFICES ASSUME NEW q \in Queries, q = b.cache
                   PROVE  /\ Right(decode[q], b.file)
                          /\ live[q] # "new" /\ (live[q] = "live" => b.file = path)
                          /\ \A d \in Calls : Uses(d, q) => calls[d].file = b.file
        BY DEF ServedBy
      <3>1. Uses(c, q)
        BY <2>1, <2>2 DEF Uses
      <3> QED
        BY <2>2, <3>1 DEF RowsInv, QueriesOK
    <2>5. ReadsRow(c, b) \/ Ends(c, b)
      BY <2>1, <2>2
    <2> QED
      BY <1>1, <2>1, <2>3, <2>4, <2>5, CallStepsKeepRows
  <1>7. ASSUME NEW c \in Calls, Stop(c)
        PROVE  RowsInv'
    <2> DEFINE left == [Unstarted EXCEPT !.status = "stopped"]
    <2>1. /\ calls' = [calls EXCEPT ![c] = left] /\ decode' = [decode EXCEPT ![c] = NoCodes]
          /\ UNCHANGED <<path, live>>
      BY <1>7 DEF Stop
    <2>2. left.status = "stopped"
      BY DEF Unstarted
    <2> HIDE DEF left
    <2>3. LetGo(c, left)
      BY <2>1, <2>2 DEF LetGo
    <2> QED
      BY <1>1, <2>3, LeavingKeepsRows
  <1> QED
    BY <1>2, <1>3, <1>4, <1>5, <1>6, <1>7 DEF Next

LEMMA RowsInit ==
  ASSUME Init
  PROVE  RowsInv
  <1>1. \A c \in Calls : calls[c].status = "new"
    BY DEF Init, Unstarted
  <1>2. \A q \in Queries : DOMAIN decode[q] = {} /\ live[q] = "new"
    BY DEF Init, NoCodes
  <1>3. \A c \in Calls, q \in Queries : ~Uses(c, q)
    BY <1>1 DEF Uses, Opened
  <1>4. QueriesOK
    BY <1>2, <1>3 DEF QueriesOK
  <1>5. GatheredOK
    BY <1>1 DEF GatheredOK, Opened
  <1> QED
    BY <1>4, <1>5 DEF RowsInv

LEMMA RowsAreOfTheFile ==
  ASSUME StoreInv, RowsInv
  PROVE  RowsFromItsFile
  <1>1. ASSUME NEW c \in Calls, calls[c].status = "done"
        PROVE  calls[c].got = UnionOf(calls[c].file, calls[c].want)
    BY <1>1 DEF RowsInv, GatheredOK
  <1>2. ASSUME NEW c \in Calls, Opened(c), NEW r, r = calls[c]
        PROVE  IsPrefix(r.got, UnionOf(r.file, r.want))
    <2> DEFINE U == UnionUpTo(r.file, r.match)
               N == Len(r.match)
    <2>1. Placed(c, r) /\ Gathered(r) /\ r.pos > 0
      BY <1>2, OpenIsReady DEF Ready, RowsInv, GatheredOK
    <2>2. /\ RowsOK(r.match) /\ N \in Nat /\ r.file \in Files /\ r.want \in Ground \cup {None}
          /\ r.match = Match(r.file, r.want) /\ r.merges = Repeats(r.file)
          /\ r.pos \in 0..N /\ N \in 0..N /\ r.pos <= N
      <3>1. Len(r.match) \in Nat /\ RowsOK(r.match)
        BY <2>1, MatchesOK DEF Placed
      <3> QED
        BY <2>1, <3>1 DEF Placed
    <2>3. UnionOf(r.file, r.want) = U[N]
      BY <2>2 DEF UnionOf
    <2>4. U[r.pos] \in Seq(Entry) /\ U[N] \in Seq(Entry)
      BY <2>2, UnionsGrow
    <2>5. /\ Len(U[r.pos]) <= Len(U[N])
          /\ \A k \in 1..Len(U[r.pos]) :
               k < Len(U[r.pos]) \/ Apart(r.match) => U[N][k] = U[r.pos][k]
      <3>1. Begins(U[r.pos], U[N], r.match)
        BY <2>2, UnionsBegin
      <3> HIDE DEF U, N
      <3> QED
        BY <3>1, Zenon DEF Begins
    <2> HIDE DEF U, N
    <2>6. r.got \in Seq(Entry)
      BY <2>1 DEF Gathered
    <2>7. PICK n \in Nat : n = Len(r.got)
      BY <2>6, LenProperties
    <2>8. n <= Len(U[N]) /\ \A k \in 1..n : U[N][k] = r.got[k]
      <3>1. CASE ~r.merges
        <4>1. r.got = U[r.pos]
          BY <2>1, <3>1 DEF Gathered, U
        <4>2. Apart(r.match)
          BY <2>2, <3>1, MatchesApart
        <4> QED
          BY <2>5, <2>7, <4>1, <4>2
      <3>2. CASE r.merges
        <4>1. r.run \in Entry /\ U[r.pos] = Append(r.got, r.run)
          BY <2>1, <3>2 DEF Gathered, U
        <4>2. Len(U[r.pos]) = n + 1 /\ \A k \in 1..n : U[r.pos][k] = r.got[k]
          BY <2>6, <2>7, <4>1, AppendProperties
        <4>3. \A k \in 1..n : k \in 1..Len(U[r.pos]) /\ k < Len(U[r.pos])
          BY <4>2
        <4>4. Len(U[N]) \in Nat
          BY <2>4, LenProperties
        <4> QED
          BY <2>5, <4>2, <4>3, <4>4
      <3> QED
        BY <3>1, <3>2
    <2>9. SubSeq(r.got, 1, n) = SubSeq(U[N], 1, n)
      <3>1. Len(U[N]) \in Nat
        BY <2>4, LenProperties
      <3>2. /\ \A k \in 1..n : r.got[k] \in Entry
            /\ \A k \in 1..n : U[N][k] \in Entry
        BY <2>4, <2>6, <2>7, <2>8, <3>1, ElementOfSeq
      <3>3. /\ SubSeq(r.got, 1, n) \in Seq(Entry) /\ Len(SubSeq(r.got, 1, n)) = n
            /\ \A k \in 1..n : SubSeq(r.got, 1, n)[k] = r.got[k]
        BY <3>2, SubSeqProperties
      <3>4. /\ SubSeq(U[N], 1, n) \in Seq(Entry) /\ Len(SubSeq(U[N], 1, n)) = n
            /\ \A k \in 1..n : SubSeq(U[N], 1, n)[k] = U[N][k]
        BY <3>2, SubSeqProperties
      <3>5. \A k \in 1..Len(SubSeq(r.got, 1, n)) : SubSeq(r.got, 1, n)[k] = SubSeq(U[N], 1, n)[k]
        BY <2>8, <3>3, <3>4
      <3> QED
        BY <3>3, <3>4, <3>5, SeqEqual
    <2> QED
      BY <2>3, <2>7, <2>8, <2>9 DEF IsPrefix
  <1> QED
    BY <1>1, <1>2 DEF RowsFromItsFile, Opened

(* While no other file is opened before a query has ended, a call reads    *)
(* the triples of the file it started on, each once with all its graphs,   *)
(* in order and in its terms, whatever is closed and opened meanwhile      *)
(* (store.py, triples, _context_of_code, _quad_rows; union.py,             *)
(* one_per_triple).                                                        *)
THEOREM RowsFromItsFileAlways ==
  ASSUME ~OpensInQuery
  PROVE  Spec => []RowsFromItsFile
  <1>1. Init => StoreInv /\ RowsInv
    BY StoreInit, RowsInit
  <1>2. StoreInv /\ RowsInv /\ [Next]_vars => StoreInv' /\ RowsInv'
    BY StoreSteps, RowsSteps
  <1>3. StoreInv /\ RowsInv => RowsFromItsFile
    BY RowsAreOfTheFile
  <1> QED
    BY <1>1, <1>2, <1>3, PTL DEF Spec
=============================================================================
