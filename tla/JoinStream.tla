----------------------------- MODULE JoinStream -----------------------------
(***************************************************************************)
(* What a streamed join step promises the rows above it (README, "Join     *)
(* memory"; pushdown/streaming.py): the pairs of the join are delivered in *)
(* nested-loop order, none twice, a bounded piece at a time; the stream is *)
(* complete only once it has delivered every pair, and otherwise stops for *)
(* good (cancelled, failed, or closed by its consumer).                    *)
(*                                                                         *)
(* The pairs are numbered 1..total in nested-loop order, so the pairs      *)
(* delivered so far are just 1..delivered.                                 *)
(***************************************************************************)
EXTENDS Integers

VARIABLES
  total,      \* the pairs the join makes
  piecePairs, \* the most pairs one piece may hold
  delivered,  \* the pairs delivered so far: 1..delivered
  status      \* "open", "complete" or "stopped"

vars == <<total, piecePairs, delivered, status>>

Init ==
  /\ total \in Nat
  /\ piecePairs \in Nat
  /\ delivered = 0
  /\ status = "open"

(* The next piece: at least one pair, in order, none skipped.              *)
Deliver ==
  /\ status = "open"
  /\ delivered' \in Nat
  /\ delivered < delivered'
  /\ delivered' <= total
  /\ delivered' - delivered <= piecePairs
  /\ UNCHANGED <<total, piecePairs, status>>

Complete ==
  /\ status = "open"
  /\ delivered = total
  /\ status' = "complete"
  /\ UNCHANGED <<total, piecePairs, delivered>>

Stop ==
  /\ status = "open"
  /\ status' = "stopped"
  /\ UNCHANGED <<total, piecePairs, delivered>>

Next == Deliver \/ Complete \/ Stop

Spec == Init /\ [][Next]_vars
=============================================================================
