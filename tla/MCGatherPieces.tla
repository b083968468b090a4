--------------------------- MODULE MCGatherPieces ---------------------------
(* GatherPieces over every fed side of at most MaxRows rows, each making at *)
(* most MaxGrouped pairs, under every budget of PairBudgets.                *)
EXTENDS GatherPieces
=============================================================================
