--------------------------- MODULE MCProcurement ---------------------------
(***************************************************************************)
(* Values for the runs of Procurement: orders with their items as they     *)
(* stand when the run begins, and the deliveries that make the cases       *)
(* happen: two notes of one order, lines in opposite orders, damaged units,*)
(* a line without an item, an item of another order.                       *)
(***************************************************************************)
EXTENDS Procurement, TLC

CONSTANTS p1, p2, o1, o2, i1, i2, i3

L(p, i, n, m) == [product |-> p, item |-> i, got |-> n, bad |-> m]

Wanted == [i \in Item |-> IF i = i1 THEN 2 ELSE 1]

\* Both items at once, in either order, and each of them by itself.
Partial == {<<L(p1, i1, 2, 1), L(p2, i2, 1, 0)>>, <<L(p2, i2, 1, 1), L(p1, i1, 1, 0)>>,
            <<L(p1, i1, 2, 0)>>, <<L(p2, i2, 1, 0)>>,
            <<L(p1, i1, 1, 0), L(p1, i1, 1, 1)>>}
\* Half a unit is no unit: int(qty_purchase) is 0, and the note moves nothing.
Odd == {<<L(p1, i1, 1, 0)>>, <<L(p1, i1, 0, 0)>>, <<L(p1, NoItem, 0, 0)>>, <<>>}
Single == {<<L(p1, i1, 1, 0)>>}
None == {}

OneApproved == [o \in Order |-> IF o = o1 THEN "approved" ELSE "absent"]
OneDraft    == [o \in Order |-> IF o = o1 THEN "draft" ELSE "absent"]
BothItems   == [i \in Item |-> IF i \in {i1, i2} THEN o1 ELSE NoOrder]
OneItem     == [i \in Item |-> IF i = i1 THEN o1 ELSE NoOrder]
Empty       == [p \in Product |-> 0]

\* The tables the test suite creates take every ledger row; migration 0003
\* takes neither these types nor a delta of zero.
FromModels == {"purchase_receive", "purchase_reject"}
Migrated   == {}

=============================================================================
