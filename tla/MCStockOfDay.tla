---------------------------- MODULE MCStockOfDay ----------------------------
(* Small instances of StockOfDay for TLC.  The members of a set are        *)
(* interchangeable: the specification never tells them apart.              *)
EXTENDS StockOfDay, TLC

Symmetry == Permutations(Picks) \cup Permutations(Trades) \cup Permutations(Generators)
=============================================================================
