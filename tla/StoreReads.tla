----------------------------- MODULE StoreReads -----------------------------
(***************************************************************************)
(* The union of a store's graphs, read a row at a time by triples(), and   *)
(* by contexts() and len(), while the store is closed and opened on other  *)
(* files: open, close, _quad_rows, _code_matches, _decode_into,            *)
(* _context_of_code and _union_has_repeats of store.py, with the merge of  *)
(* one_per_triple (union.py), over the term state of query_scope.py.       *)
(*                                                                         *)
(* A row of a file is the code of its triple and the code of its graph,    *)
(* the rows of one triple adjacent; the dictionary of file f decodes code  *)
(* c to Decoded(f, c).  A dictionary cache is a partial function from      *)
(* codes.  Each open() makes new graph contexts, numbered by epoch.  A     *)
(* call decodes into the term cache of the query current when it starts,   *)
(* or into one of its own.                                                 *)
(***************************************************************************)
EXTENDS Naturals, FiniteSets, SequencesExt

CONSTANTS
  Files,
  FileRows,       \* FileRows[f]: the rows of file f, <<code, graph code>>
  Calls, Queries, None,
  Ground,         \* the triples asked for by name, as codes
  ChunkRows,      \* SETTINGS.triples_chunk_rows
  ChunkStart,     \* SETTINGS.chunk_start
  ChunkMax,       \* SETTINGS.chunk_max
  OpensInQuery,   \* whether another file is opened before a query has ended
  MaxEpoch        \* bound: the opens and closes

ASSUME ReadsAssumption ==
  /\ \A f \in Files :
       /\ FileRows[f] \in Seq(Nat \X Nat)
       /\ \A i, j \in DOMAIN FileRows[f] : i < j => FileRows[f][i] # FileRows[f][j]
       /\ \A i, j, k \in DOMAIN FileRows[f] :
            i < j /\ j < k /\ FileRows[f][i][1] = FileRows[f][k][1]
              => FileRows[f][j][1] = FileRows[f][i][1]
  /\ None \notin Ground /\ None \notin Files
  /\ Calls \cap Queries = {}
  /\ ChunkRows \in Nat \ {0}
  /\ ChunkStart \in Nat \ {0}
  /\ ChunkMax \in Nat
  /\ ChunkStart <= ChunkMax
  /\ OpensInQuery \in BOOLEAN
  /\ MaxEpoch \in Nat

VARIABLES
  native,    \* the file open, or None
  path,      \* the file _store() opens again
  epoch,     \* numbers the graph contexts the store holds
  contexts,  \* contexts[e]: code -> graph
  known,     \* _all_contexts, _union_repeats and _union_len
  decode,    \* decode[d]: code -> term, of a query's scope or a call's own
  current,   \* the query whose step is running
  live,      \* "new", "live" or "ended", per query
  calls      \* the triples() calls

vars == <<native, path, epoch, contexts, known, decode, current, live, calls>>

Decoded(f, c) == <<f, c>>
NoCodes == [c \in {} |-> c]

Code(row) == row[1]
GraphCode(row) == row[2]
Size(f) == Len(FileRows[f])
Unread == [graphs |-> None, repeats |-> None, size |-> None]
MinOf(m, n) == IF m <= n THEN m ELSE n

Unstarted ==
  [status |-> "new", file |-> None, epoch |-> 0, cache |-> None, want |-> None,
   match |-> <<>>, chunked |-> FALSE, merges |-> FALSE, pos |-> 0, sliceEnd |-> 0,
   chunkEnd |-> 0, size |-> ChunkStart, run |-> <<>>, got |-> <<>>]

Init ==
  /\ native \in Files
  /\ path = native
  /\ epoch = 0
  /\ contexts = [e \in 0..MaxEpoch |-> NoCodes]
  /\ known = Unread
  /\ decode = [d \in Queries \cup Calls |-> NoCodes]
  /\ current = None
  /\ live = [q \in Queries |-> "new"]
  /\ calls = [c \in Calls |-> Unstarted]

-----------------------------------------------------------------------------
(* The store.  Both calls replace the contexts, never clear them, and      *)
(* forget what the file's other caches hold.                               *)

MayOpen == OpensInQuery \/ \A q \in Queries : live[q] # "live"

NextEpoch == epoch + 1

(* Mutant: a file opened or closed keeps what was read of the union.       *)
ForgottenButUnion == [known EXCEPT !.graphs = None]

Forgotten == Unread

Open(f) ==
  /\ MayOpen
  /\ epoch < MaxEpoch
  /\ native' = f
  /\ path' = f
  /\ epoch' = NextEpoch
  /\ known' = Forgotten
  /\ UNCHANGED <<contexts, decode, current, live, calls>>

Close ==
  /\ native # None
  /\ epoch < MaxEpoch
  /\ native' = None
  /\ epoch' = NextEpoch
  /\ known' = Forgotten
  /\ UNCHANGED <<path, contexts, decode, current, live, calls>>

(* A closed store is opened again by what reads it.                        *)
Reopened ==
  IF native # None
  THEN native' = native /\ epoch' = epoch
  ELSE epoch < MaxEpoch /\ native' = path /\ epoch' = NextEpoch

Held == IF native = None THEN Forgotten ELSE known

-----------------------------------------------------------------------------
(* What the store reads of its file once.                                  *)

GraphsOf(rows) == {GraphCode(row) : row \in ToSet(rows)}

TriplesOf(f) == {Code(row) : row \in ToSet(FileRows[f])}

(* _read_union_repeats: a file of one graph has none; else its distinct    *)
(* triples are counted, and kept.                                          *)
WithRepeats(f, k) ==
  IF k.repeats # None THEN k
  ELSE IF Cardinality(GraphsOf(FileRows[f])) <= 1 THEN [k EXCEPT !.repeats = FALSE]
  ELSE [k EXCEPT !.repeats = Cardinality(TriplesOf(f)) # Size(f),
                 !.size = Cardinality(TriplesOf(f))]

-----------------------------------------------------------------------------
(* The queries' steps make their scope current.                            *)

EnterStep(q) ==
  /\ current = None
  /\ live[q] # "ended"
  /\ current' = q
  /\ live' = [live EXCEPT ![q] = "live"]
  /\ UNCHANGED <<native, path, epoch, contexts, known, decode, calls>>

LeaveStep ==
  /\ current # None
  /\ current' = None
  /\ \/ UNCHANGED live
     \/ live' = [live EXCEPT ![current] = "ended"]
  /\ UNCHANGED <<native, path, epoch, contexts, known, decode, calls>>

-----------------------------------------------------------------------------
(* triples(): what a call binds when it starts: the file, its contexts,    *)
(* its match or chunks, the term cache, and whether triples repeat.  A     *)
(* triple asked for by name is one match, its rows adjacent, of which the  *)
(* graphs are read.                                                        *)

Match(f, want) ==
  LET rows == FileRows[f]
      hits == {i \in DOMAIN rows : Code(rows[i]) = want}
  IN  IF want = None THEN rows
      ELSE IF hits = {} THEN <<>>
      ELSE SubSeq(rows, Min(hits), Max(hits))

Bound(c, want, f, e, k) ==
  LET match == Match(f, want)
      read == IF want = None THEN 0 ELSE Len(match)
  IN  [calls[c] EXCEPT !.status = "open", !.file = f, !.epoch = e, !.want = want,
                       !.cache = IF current = None THEN c ELSE current,
                       !.match = match,
                       !.chunked = want = None /\ Len(match) > ChunkRows,
                       !.sliceEnd = read, !.chunkEnd = read,
                       !.merges = k.repeats]

(* The slices of a match or chunk: ChunkStart rows, then four times more   *)
(* at a time, ChunkMax at most; a new chunk starts small again.            *)
InSlice(r) == r.pos < r.sliceEnd
InChunk(r) == r.sliceEnd < r.chunkEnd

Sliced(r) ==
  [r EXCEPT !.sliceEnd = MinOf(r.sliceEnd + r.size, r.chunkEnd),
            !.size = MinOf(r.size * 4, ChunkMax)]

(* A call with a row to yield, in a slice: of the match, whole when it is  *)
(* not chunked, or of the next chunk, which the native layer may cut short.*)
Advances(r) ==
  IF InSlice(r) THEN {r}
  ELSE IF InChunk(r) THEN {Sliced(r)}
  ELSE {Sliced([r EXCEPT !.chunkEnd = stop, !.size = ChunkStart]) :
          stop \in IF r.chunked
                   THEN r.chunkEnd + 1 .. MinOf(r.chunkEnd + ChunkRows, Len(r.match))
                   ELSE {n \in {Len(r.match)} : n > r.chunkEnd}}

(* A cache after the codes it lacks of a slice are added: a code it holds  *)
(* already is not looked at again.                                         *)
Filled(cache, f, codes) ==
  [c \in DOMAIN cache \cup codes |->
     IF c \in DOMAIN cache THEN cache[c] ELSE Decoded(f, c)]

(* Mutant: codes are decoded by the store's file of the moment.           *)
DictionaryNow(r) == path

(* The dictionary a call decodes through: the one bound when it started.   *)
Dictionary(r) == r.file

(* Mutant: the whole match is decoded with its first slice.               *)
SliceRowsAll(r) == 1 .. Len(r.match)

SliceRows(r) == r.pos + 1 .. r.sliceEnd

(* The codes read of a slice: a triple asked for by name is not decoded,   *)
(* and its graphs are resolved a row at a time.                            *)
CodesRead(r) == IF r.want = None THEN {Code(r.match[i]) : i \in SliceRows(r)} ELSE {}
GraphsRead(r) ==
  IF r.want = None THEN {GraphCode(r.match[i]) : i \in SliceRows(r)}
  ELSE {GraphCode(r.match[r.pos + 1])}

(* one_per_triple: the run of a triple's rows is yielded when it ends.     *)
Merged(r, triple, graph) ==
  IF ~r.merges THEN [r EXCEPT !.got = Append(@, <<triple, <<graph>>>>)]
  ELSE IF r.run = <<>> THEN [r EXCEPT !.run = <<triple, <<graph>>>>]
  ELSE IF r.run[1] = triple THEN [r EXCEPT !.run = <<triple, Append(r.run[2], graph)>>]
  ELSE [r EXCEPT !.got = Append(@, r.run), !.run = <<triple, <<graph>>>>]

Flushed(r) ==
  IF r.run = <<>> THEN r ELSE [r EXCEPT !.got = Append(@, r.run), !.run = <<>>]

(* A row of call c, bound as b: yielded, or added to its triple's run.     *)
ReadsRow(c, b) ==
  \E r \in Advances(b) :
    LET terms == Filled(decode[r.cache], Dictionary(r), CodesRead(r))
        graphs == Filled(contexts[r.epoch], Dictionary(r), GraphsRead(r))
        row == r.match[r.pos + 1]
        triple == IF r.want = None THEN terms[Code(row)] ELSE Decoded(r.file, r.want)
    IN  /\ decode' = [decode EXCEPT ![r.cache] = terms]
        /\ contexts' = [contexts EXCEPT ![r.epoch] = graphs]
        /\ calls' = [calls EXCEPT ![c] =
             Merged([r EXCEPT !.pos = @ + 1], triple, graphs[GraphCode(row)])]

(* A generator that ends lets go of its chunks, and of a cache of its own; *)
(* what it yielded is kept to speak of it.                                 *)
Left(b, status) ==
  [Unstarted EXCEPT !.status = status, !.file = b.file, !.want = b.want, !.got = b.got]

Ends(c, b) ==
  /\ Advances(b) = {}
  /\ calls' = [calls EXCEPT ![c] = Left(Flushed(b), "done")]
  /\ decode' = [decode EXCEPT ![c] = NoCodes]
  /\ UNCHANGED contexts

(* The first next() of a call, over everything or for one triple.          *)
Start(c) ==
  /\ calls[c].status = "new"
  /\ Reopened
  /\ known' = WithRepeats(native', Held)
  /\ \E want \in Ground \cup {None} :
       LET b == Bound(c, want, native', epoch', known')
       IN  ReadsRow(c, b) \/ Ends(c, b)
  /\ UNCHANGED <<path, current, live>>

Resume(c) ==
  /\ calls[c].status = "open"
  /\ ReadsRow(c, calls[c]) \/ Ends(c, calls[c])
  /\ UNCHANGED <<native, path, epoch, known, current, live>>

(* The consumer stops early.                                               *)
Stop(c) ==
  /\ calls[c].status = "open"
  /\ calls' = [calls EXCEPT ![c] = [Unstarted EXCEPT !.status = "stopped"]]
  /\ decode' = [decode EXCEPT ![c] = NoCodes]
  /\ UNCHANGED <<native, path, epoch, contexts, known, current, live>>

-----------------------------------------------------------------------------
(* contexts() and len(), whole calls, by what they leave on the store.  A  *)
(* call cancelled in its native read leaves it open and nothing read.      *)

(* contexts() of everything, kept, or of a triple.  Nothing depends on     *)
(* the order of the graphs.                                                *)
Contexts(want) ==
  /\ Reopened
  /\ LET kept == want = None /\ Held.graphs # None
         codes == GraphsOf(Match(native', want))
         cache == IF kept THEN contexts[epoch']
                  ELSE Filled(contexts[epoch'], native', codes)
         order == SetToSeq(codes)
     IN  /\ contexts' = [contexts EXCEPT ![epoch'] = cache]
         /\ known' = IF want # None \/ kept THEN Held
                     ELSE [Held EXCEPT !.graphs = [i \in DOMAIN order |-> cache[order[i]]]]
  /\ UNCHANGED <<path, decode, current, live, calls>>

(* len() of the union, with what was read of it.                           *)
LengthOf(f, k) == IF k.repeats THEN k.size ELSE Size(f)

Length ==
  /\ Reopened
  /\ known' = WithRepeats(native', Held)
  /\ UNCHANGED <<path, contexts, decode, current, live, calls>>

ReadRaises ==
  /\ native = None
  /\ Reopened
  /\ known' = Forgotten
  /\ UNCHANGED <<path, contexts, decode, current, live, calls>>

Next ==
  \/ \E f \in Files : Open(f)
  \/ Close
  \/ \E q \in Queries : EnterStep(q)
  \/ LeaveStep
  \/ \E c \in Calls : Start(c) \/ Resume(c) \/ Stop(c)
  \/ \E want \in Ground \cup {None} : Contexts(want)
  \/ Length \/ ReadRaises

Spec == Init /\ [][Next]_vars

-----------------------------------------------------------------------------

(* The union of f's graphs as a set: its rows of the triples asked for,    *)
(* the rows of one triple as one with all their graphs.                    *)
WithRow(f, union, row) ==
  LET triple == Decoded(f, Code(row))
      graph == Decoded(f, GraphCode(row))
  IN  IF \E k \in DOMAIN union : union[k][1] = triple
      THEN [k \in DOMAIN union |->
              IF union[k][1] = triple THEN <<triple, Append(union[k][2], graph)>> ELSE union[k]]
      ELSE Append(union, <<triple, <<graph>>>>)

UnionUpTo(f, rows) ==
  LET upTo[n \in 0..Len(rows)] == IF n = 0 THEN <<>> ELSE WithRow(f, upTo[n - 1], rows[n])
  IN  upTo

UnionOf(f, want) == UnionUpTo(f, Match(f, want))[Len(Match(f, want))]

(* A call reads the triples of the file it started on, each once with all  *)
(* its graphs, in order, in its terms, whatever close() or open() does     *)
(* meanwhile and whatever caches it shares; one that ends has read them    *)
(* all (store.py, triples, _context_of_code and _quad_rows).               *)
RowsFromItsFile ==
  \A c \in Calls : calls[c].status \in {"open", "done"} =>
    LET r == calls[c]
    IN  IF r.status = "done"
        THEN r.got = UnionOf(r.file, r.want)
        ELSE IsPrefix(r.got, UnionOf(r.file, r.want))

(* What contexts() and len() answer from, kept on the store and read also  *)
(* by triples(), is the open file's: its graphs, each once, and the size   *)
(* of their union (store.py, contexts, __len__, _read_union_repeats).      *)
KeptIsTheOpenFiles ==
  native # None =>
    /\ known.graphs # None =>
         /\ ToSet(known.graphs) = {Decoded(native, GraphCode(row)) : row \in ToSet(FileRows[native])}
         /\ IsInjective(known.graphs)
    /\ known.repeats # None => LengthOf(native, known) = Len(UnionOf(native, None))

(* A consumer that stops early has had decoded only the slices it reached  *)
(* (store.py, _quad_rows): less than one slice past the last row it read.  *)
DecodesOnlyReached ==
  \A c \in Calls : calls[c].status = "open" =>
    LET r == calls[c]
    IN  DOMAIN decode[c] \subseteq {Code(r.match[i]) : i \in 1..MinOf(r.pos + ChunkMax - 1, Len(r.match))}
=============================================================================
