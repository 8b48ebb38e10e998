---------------------------- MODULE MCTillSocket ----------------------------
(***************************************************************************)
(* Values for the run of TillSocket.                                       *)
(***************************************************************************)
EXTENDS TillSocket, TLC

Symmetry == Permutations(Worker) \cup Permutations(Socket)
=============================================================================
