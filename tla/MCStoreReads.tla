---------------------------- MODULE MCStoreReads ----------------------------
EXTENDS StoreReads

Symmetry == Permutations(Calls)

(* Two files that give the same codes to different terms; triples of the   *)
(* first are in two graphs, those of the second in one each.               *)
TwoFiles == [f \in Files |->
  IF f = "a" THEN <<<<1, 7>>, <<2, 7>>, <<2, 8>>, <<3, 7>>, <<3, 8>>>>
  ELSE <<<<2, 8>>, <<3, 7>>>>]
=============================================================================
