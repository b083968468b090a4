----------------------------- MODULE ProbeJoin ------------------------------
(***************************************************************************)
(* A join that matches its pattern again for each row of the relation:     *)
(* _probe_join of pushdown/probes.py, in batches of rows, over _run_probes *)
(* and the iterators it answers with, _batch_answers and _probe_matches.   *)
(*                                                                         *)
(* Every probe of a join binds the same positions, so all of them scan or  *)
(* all are point lookups, and a batch of rows sends all of its probes in   *)
(* one native call or each in a call of its own.  A native batch runs its  *)
(* probes concurrently, ahead of the pulls.  Another thread may cancel the *)
(* query's token at any point.                                             *)
(*                                                                         *)
(* makes[i] is the number of rows that row i's matches extend it to, tests *)
(* and predicates passed, or NoQuad where no quad can match it and no      *)
(* probe is sent.  A joined row is <<row, probe answered, match>>; a row   *)
(* padded by a left join, <<row, row, 0>>.                                 *)
(***************************************************************************)
EXTENDS Integers, FiniteSets, Sequences

CONSTANTS
  MaxRows,           \* bound: the rows of the relation
  MaxMatches,        \* bound: the rows one probe makes
  Caps,              \* the values max_rows may have, pair_budget // 4
  ProbeBatch,        \* SETTINGS.probe_batch
  ScanBatchMin,      \* SETTINGS.scan_batch_min
  MemoryScanBatchMin,\* SETTINGS.memory_scan_batch_min
  CheapBatchMin,     \* SETTINGS.cheap_batch_min
  Ahead              \* the probes the native layer runs ahead of the pulls

ASSUME ProbesAssumption ==
  /\ MaxRows \in Nat
  /\ MaxMatches \in Nat \ {0}
  /\ Caps \subseteq Nat
  /\ {ProbeBatch, ScanBatchMin, MemoryScanBatchMin, CheapBatchMin, Ahead} \subseteq Nat \ {0}

VARIABLES
  makes,     \* the rows each row's matches make, or NoQuad
  use,       \* "step" of a BGP, "join" of two groups, or "optional"
  cap,       \* max_rows, of a step
  exists,    \* the pattern has no free position: the probes are counts
  scans,     \* the probes scan the store
  inMemory,  \* store.in_memory
  tokened,   \* the query has a cancel token
  pc,        \* where the join is
  handled,   \* the rows joined
  last,      \* the last row of the batch
  asked,     \* the row whose one-shot call is being made, or 0
  opened,    \* the native batch's answers are held
  answers,   \* the rows whose probes the batch answers, as it gives them
  ready,     \* the answers it has
  pulled,    \* those pulled
  out,       \* the joined rows
  reached,   \* the rows whose probes reached the native layer
  reported,  \* the probes sent, of an _OverBudget
  cancelled, \* the token is cancelled
  atCancel   \* history: reached when it was

relation == <<makes, use, cap, exists, scans, inMemory, tokened>>
batch == <<opened, answers, ready, pulled>>
token == <<cancelled, atCancel>>
vars == <<relation, pc, handled, last, asked, batch, out, reached, reported, token>>

NoQuad == -1
NRows == Len(makes)
MinOf(m, n) == IF m <= n THEN m ELSE n
Ended == {"done", "over", "raised"}

Probes(S) == {i \in S : makes[i] # NoQuad}

(* The batch of rows being joined: those after the batches before it.      *)
First == ((last - 1) \div ProbeBatch) * ProbeBatch + 1
InBatch == IF last = 0 THEN {} ELSE Probes(First..last)

(* One native call answers the batch (_batched_probes).                    *)
Batched ==
  LET n == Cardinality(InBatch)
  IN  /\ n >= IF inMemory THEN MemoryScanBatchMin ELSE ScanBatchMin
      /\ scans \/ (~inMemory /\ n >= CheapBatchMin)

InOrder(S) ==
  [k \in 1..Cardinality(S) |-> CHOOSE i \in S : Cardinality({j \in S : j < i}) = k - 1]

(* What a native batch may answer: every probe in order; the join is to    *)
(* notice one that leaves an answer out or gives one twice.                *)
Without(s, k) == SubSeq(s, 1, k - 1) \o SubSeq(s, k + 1, Len(s))
Twice(s, k) == SubSeq(s, 1, k) \o SubSeq(s, k, Len(s))
Answered(s) == {s} \cup {Without(s, k) : k \in 1..Len(s)} \cup {Twice(s, k) : k \in 1..Len(s)}

Init ==
  /\ makes \in UNION {[1..n -> {NoQuad} \cup 0..MaxMatches] : n \in 0..MaxRows}
  /\ use \in {"step", "join", "optional"}
  /\ cap \in IF use = "step" THEN Caps ELSE {CHOOSE c \in Caps : TRUE}
  /\ exists \in BOOLEAN
  /\ exists => \A i \in 1..NRows : makes[i] <= 1
  /\ scans \in BOOLEAN
  /\ inMemory \in BOOLEAN
  /\ tokened \in BOOLEAN
  /\ pc = "batching"
  /\ handled = 0
  /\ last = 0
  /\ asked = 0
  /\ opened = FALSE
  /\ answers = <<>>
  /\ ready = {}
  /\ pulled = 0
  /\ out = <<>>
  /\ reached = {}
  /\ reported = 0
  /\ cancelled = FALSE
  /\ atCancel = {}

-----------------------------------------------------------------------------

BeginBatch ==
  /\ pc = "batching"
  /\ handled < NRows
  /\ pc' = IF exists THEN "counting" ELSE "joining"
  /\ last' = MinOf(handled + ProbeBatch, NRows)
  /\ UNCHANGED <<relation, handled, asked, batch, out, reached, reported, token>>

Finish ==
  /\ pc = "batching"
  /\ handled = NRows
  /\ pc' = "done"
  /\ UNCHANGED <<relation, handled, last, asked, batch, out, reached, reported, token>>

(* Mutant: a batch dropped over the tally is not closed.                  *)
ReleaseUnlessOver ==
  IF pc' = "over" THEN UNCHANGED batch
  ELSE opened' = FALSE /\ answers' = <<>> /\ ready' = {} /\ pulled' = 0
(* However a batch ends, its answers are released (finally: close()).      *)
Release ==
  /\ opened' = FALSE
  /\ answers' = <<>> /\ ready' = {} /\ pulled' = 0

Raise ==
  /\ pc' = "raised"
  /\ asked' = 0
  /\ Release
  /\ UNCHANGED <<relation, handled, last, out, reported, token>>

-----------------------------------------------------------------------------
(* One-shot calls: a match as its row is reached, the counts of a batch    *)
(* one after another before its first row is.                              *)

Next1 == handled + 1
Pulls == pc = "joining" /\ Next1 \in InBatch

Uncounted == InBatch \ reached
NextCall == IF pc = "joining" THEN Next1
            ELSE CHOOSE i \in Uncounted : \A j \in Uncounted : i <= j

CallsNext ==
  /\ ~Batched
  /\ asked = 0
  /\ \/ Pulls /\ ~exists
     \/ pc = "counting" /\ Uncounted # {}

(* A call that races the token is refused it once it is cancelled; any     *)
(* other one checks it before the call (cancel_kw_for).                    *)
Races == tokened /\ scans /\ ~inMemory /\ ~exists

(* Mutant: only a call that can race the token checks it.                 *)
CheckedIfRaces == Races => ~cancelled

Checked == ~cancelled

Call ==
  /\ CallsNext
  /\ Checked
  /\ asked' = NextCall
  /\ reached' = IF Races THEN reached \cup {NextCall} ELSE reached
  /\ UNCHANGED <<relation, pc, handled, last, batch, out, reported, token>>

CallRefused ==
  /\ CallsNext
  /\ ~Checked
  /\ Raise
  /\ UNCHANGED reached

CallRaises ==
  /\ asked # 0
  /\ Races /\ cancelled
  /\ Raise
  /\ UNCHANGED reached

CountAnswers ==
  /\ pc = "counting"
  /\ asked # 0
  /\ reached' = reached \cup {asked}
  /\ asked' = 0
  /\ UNCHANGED <<relation, pc, handled, last, batch, out, reported, token>>

CountsEnd ==
  /\ pc = "counting"
  /\ ~Batched
  /\ asked = 0
  /\ Uncounted = {}
  /\ pc' = "joining"
  /\ answers' = InOrder(InBatch)
  /\ UNCHANGED <<relation, handled, last, asked, opened, ready, pulled, out, reached, reported, token>>

(* count_quads_many: all the counts at once, as many as the probes.        *)
CountBatch ==
  /\ pc = "counting"
  /\ Batched
  /\ ~cancelled
  /\ reached' = reached \cup InBatch
  /\ \E given \in Answered(InOrder(InBatch)) :
       IF Len(given) = Cardinality(InBatch)
       THEN /\ pc' = "joining"
            /\ answers' = given
            /\ UNCHANGED <<relation, handled, last, asked, opened, ready, pulled, out, reported, token>>
       ELSE Raise

CountBatchRaises ==
  /\ pc = "counting"
  /\ Batched
  /\ cancelled
  /\ Raise
  /\ UNCHANGED reached

-----------------------------------------------------------------------------
(* match_codes_many: the first pull makes the call, with every probe.      *)

OpenBatch ==
  /\ Pulls /\ ~exists
  /\ Batched
  /\ ~opened
  /\ ~cancelled
  /\ opened' = TRUE
  /\ answers' \in Answered(InOrder(InBatch))
  /\ reached' = reached \cup InBatch
  /\ UNCHANGED <<relation, pc, handled, last, asked, ready, pulled, out, reported, token>>

(* Mutant: an answer pulled makes no room for another probe.              *)
InFlightNotRefilled ==
  IF opened THEN {k \in 1..Len(answers) : k <= Ahead} \ ready ELSE {}

(* The native layer runs a batch's probes a lookahead past the pulls, and  *)
(* finishes them in any order.                                             *)
InFlight ==
  IF opened THEN {k \in 1..Len(answers) : k <= pulled + Ahead} \ ready ELSE {}

NativeAnswers ==
  /\ \E k \in InFlight : ready' = ready \cup {k}
  /\ UNCHANGED <<relation, pc, handled, last, asked, opened, answers, pulled, out, reached, reported, token>>

(* A pull waits for its answer, racing the token.                          *)
BatchRaises ==
  /\ Pulls /\ ~exists
  /\ Batched
  /\ cancelled
  /\ Raise
  /\ UNCHANGED reached

Short == pulled = Len(answers)

(* Mutant: an answer too many goes unnoticed.                             *)
LongNever == FALSE

(* The last probe's pull looks for an answer too many.                     *)
Long == pulled + 1 = Cardinality(InBatch) /\ Len(answers) > Cardinality(InBatch)

WrongSize ==
  /\ Pulls
  /\ opened
  /\ Short \/ (pulled + 1 \in ready /\ Long)
  /\ Raise
  /\ UNCHANGED reached

-----------------------------------------------------------------------------
(* A row joined: extended by the matches of the probe answered.            *)

Extended(i, a) ==
  IF makes[a] > 0 THEN [k \in 1..makes[a] |-> <<i, a, k>>]
  ELSE IF use = "optional" THEN <<<<i, i, 0>>>>
  ELSE <<>>

(* Mutant: the tally is compared once per batch.                          *)
OverAtBatchEnd(rows) == use = "step" /\ Len(rows) > cap /\ Next1 = last

Over(rows) == use = "step" /\ Len(rows) > cap

(* The probes of the batches before, and those of this one sent so far     *)
(* (_batch_probes_sent).                                                   *)
Sent ==
  Cardinality(Probes(1..First-1)) +
    IF exists \/ (Batched /\ Probes(First..Next1) # {})
    THEN Cardinality(InBatch)
    ELSE Cardinality(Probes(First..Next1))

Join(a, pulls) ==
  LET rows == out \o Extended(Next1, a)
  IN  /\ handled' = Next1
      /\ asked' = 0
      /\ IF Over(rows)
         THEN /\ pc' = "over"
              /\ out' = <<>>
              /\ reported' = Sent
              /\ Release
         ELSE /\ pc' = IF Next1 = last THEN "batching" ELSE "joining"
              /\ out' = rows
              /\ UNCHANGED reported
              /\ IF Next1 = last THEN Release
                 ELSE pulled' = pulls /\ UNCHANGED <<opened, answers, ready>>
      /\ UNCHANGED <<relation, last, token>>

JoinUnprobed ==
  /\ pc = "joining"
  /\ ~Pulls
  /\ Join(Next1, pulled)
  /\ UNCHANGED reached

JoinCalled ==
  /\ Pulls
  /\ asked # 0
  /\ reached' = reached \cup {asked}
  /\ Join(asked, pulled)

JoinCounted ==
  /\ Pulls
  /\ exists
  /\ Join(answers[pulled + 1], pulled + 1)
  /\ UNCHANGED reached

JoinPulled ==
  /\ Pulls
  /\ opened
  /\ ~Short
  /\ pulled + 1 \in ready
  /\ ~Long
  /\ Join(answers[pulled + 1], pulled + 1)
  /\ UNCHANGED reached

Cancel ==
  /\ tokened
  /\ ~cancelled
  /\ pc \notin Ended
  /\ cancelled' = TRUE
  /\ atCancel' = reached
  /\ UNCHANGED <<relation, pc, handled, last, asked, batch, out, reached, reported>>

Step ==
  \/ BeginBatch \/ Finish
  \/ Call \/ CallRefused \/ CallRaises
  \/ CountAnswers \/ CountsEnd \/ CountBatch \/ CountBatchRaises
  \/ OpenBatch \/ BatchRaises \/ WrongSize
  \/ JoinUnprobed \/ JoinCalled \/ JoinCounted \/ JoinPulled

Next == Step \/ NativeAnswers \/ Cancel

(* The planning thread takes its steps, and the native runtime its own.    *)
Spec == Init /\ [][Next]_vars /\ WF_vars(Step) /\ WF_vars(NativeAnswers)

-----------------------------------------------------------------------------

Rows == 1..NRows

(* The join of the first i rows, row after row.                            *)
Joined[i \in 0..NRows] == IF i = 0 THEN <<>> ELSE Joined[i - 1] \o Extended(i, i)

(* A join that returns has every row, in order, joined with the matches of *)
(* its own probe: a native batch that dropped an answer or gave one twice  *)
(* never comes through, wherever the rows without a probe fall             *)
(* (probes.py, _batch_answers and _probe_matches).                         *)
DoneIsJoin == pc = "done" => out = Joined[NRows]

(* Before it goes on to another row a step holds at most max_rows joined   *)
(* rows, and none once it has given up.                                    *)
HeldWithinCap ==
  use = "step" =>
    /\ Len(out) <= cap
    /\ pc = "over" => out = <<>>

(* No probe is left in flight by a batch that ended, however it did.       *)
NothingInFlight == pc \in Ended \cup {"batching"} => InFlight = {}

(* Once the token is cancelled at most one more probe is sent: the call    *)
(* that had checked it already (cancel.py, cancel_scope).                  *)
OneSentAfterCancel == cancelled => Cardinality(reached \ atCancel) <= 1

(* Every join ends: a pull waits for an answer only while the native layer *)
(* still runs its probe, however few it runs ahead of the pulls and in     *)
(* whatever order they finish (_probe_matches, _batch_answers).            *)
JoinEnds == <>(pc \in Ended)
=============================================================================
