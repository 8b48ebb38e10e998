------------------------------- MODULE Delivery -------------------------------
(***************************************************************************)
(* What the shop is promised about its sales in the cloud: only completed  *)
(* sales arrive, each at most once, and what has arrived stays.            *)
(* ("Idempotent - the sync agent can retry any number of times without     *)
(* creating duplicates", backend/app/routers/sync.py.)                     *)
(***************************************************************************)
EXTENDS Naturals

CONSTANT Sale

VARIABLES
    sold,       \* sales completed in the shop
    copies      \* how many times each sale is in the cloud

Init == sold = {} /\ copies = [s \in Sale |-> 0]

Complete(s) == sold' = sold \cup {s} /\ UNCHANGED copies

\* A batch of sales arrives, none of them for the second time.
Arrive(batch) ==
    /\ \A s \in batch : copies[s] = 0
    /\ copies' = [s \in Sale |-> IF s \in batch THEN 1 ELSE copies[s]]
    /\ UNCHANGED sold

Next == \/ \E s \in Sale : Complete(s)
        \/ \E batch \in SUBSET sold : Arrive(batch)

Spec == Init /\ [][Next]_<<sold, copies>>
===============================================================================
