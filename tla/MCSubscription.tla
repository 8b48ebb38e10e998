--------------------------- MODULE MCSubscription ---------------------------
(***************************************************************************)
(* Values for the run of Subscription, and its refinement.                 *)
(***************************************************************************)
EXTENDS Subscription, TLC

Symmetry == Permutations(Session) \cup Permutations(Payment)
=============================================================================
