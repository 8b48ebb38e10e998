--------------------------- MODULE MCProductCache ---------------------------
(***************************************************************************)
(* Values for the run of ProductCache.                                     *)
(***************************************************************************)
EXTENDS ProductCache, TLC

Symmetry == Permutations(Reader) \cup Permutations(Writer)
=============================================================================
