--------------------------- MODULE MCOfflineQueue ---------------------------
(***************************************************************************)
(* The run of OfflineQueue takes its values from the configuration.        *)
(***************************************************************************)
EXTENDS OfflineQueue
=============================================================================
