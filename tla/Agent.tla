-------------------------------- MODULE Agent --------------------------------
(***************************************************************************)
(* What the two kinds of cycle of a shop's sync agent have in common: the  *)
(* sizes it is configured with, and a network, a cloud and a process that  *)
(* fail.  Outbox is the cycle over sales, CatalogSync the cycles over      *)
(* products and customers.                                                 *)
(***************************************************************************)
EXTENDS Integers

CONSTANTS
    BatchSize,      \* BATCH_SIZE, and the LIMIT of the cloud's feed (500)
    MaxAttempts,    \* replays before a batch is a dead letter (10)
    MaxFaults       \* bound: refusals, broken connections, failed commits, crashes

ASSUME SizesAssumption == BatchSize \in Nat \ {0} /\ MaxAttempts \in Nat
ASSUME MaxFaultsAssumption == MaxFaults \in Nat

VARIABLE faults

Fault == faults < MaxFaults /\ faults' = faults + 1
=============================================================================
