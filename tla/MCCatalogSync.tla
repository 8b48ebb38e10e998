---------------------------- MODULE MCCatalogSync ----------------------------
(***************************************************************************)
(* Values for the run of CatalogSync: two rows of different times, and a   *)
(* third that the shop may add, so that a batch of two leaves one out.     *)
(***************************************************************************)
EXTENDS CatalogSync

CONSTANTS a, b, c

TwoRows == [i \in Item |-> IF i = c THEN None ELSE [val |-> 1, ts |-> IF i = a THEN 0 ELSE 1]]
=============================================================================
