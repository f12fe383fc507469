-------------------------- MODULE MCSilverStrategy --------------------------
(* Small instances of SilverStrategy for TLC.                              *)
EXTENDS SilverStrategy, TLC

\* Sound for the safety run: no property names a particular signal.
Symmetry == Permutations(Signals)
=============================================================================
