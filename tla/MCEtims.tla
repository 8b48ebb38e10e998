------------------------------- MODULE MCEtims -------------------------------
(***************************************************************************)
(* Values for the run of Etims and Pricing: lists of one sale a batch, so  *)
(* that two sales make a second batch; amounts past the remainders of the  *)
(* rate, which repeat after 25 cents.  The counter of Pricing is open      *)
(* while no sale of Etims is completed: the amounts do not depend on what  *)
(* happens to a filing, and need not be combined with it.                  *)
(***************************************************************************)
EXTENDS Etims, Pricing

Cents == 0..16
Reductions == {0, 5}
Handed == 0..38

MCInit == Init /\ PricingInit

Counter == completed = {} /\ PricingNext /\ UNCHANGED vars

Filing == receipt = NoSale /\ Next /\ UNCHANGED sale

MCSpec == MCInit /\ [][Counter \/ Filing]_<<vars, sale>> /\ Fairness
=============================================================================
