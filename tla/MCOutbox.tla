------------------------------- MODULE MCOutbox -------------------------------
(***************************************************************************)
(* Values for the run of Outbox: three sales and batches of two, so that   *)
(* two waiting sales keep the third from its turn; the items of one are    *)
(* refused by the cloud, and two requests are at work in it at once.       *)
(***************************************************************************)
EXTENDS Outbox
===============================================================================
