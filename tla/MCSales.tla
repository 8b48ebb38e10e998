------------------------------ MODULE MCSales ------------------------------
(***************************************************************************)
(* Values for the runs of Sales: a few sessions, products, sales and       *)
(* receipts, and the carts and corrections that make the cases happen.     *)
(***************************************************************************)
EXTENDS Sales, TLC

CONSTANTS s1, s2, s3, p1, p2

L(p, n) == [product |-> p, qty |-> n]
Cash(lines)  == [lines |-> lines, mpesa |-> FALSE]
Mpesa(lines) == [lines |-> lines, mpesa |-> TRUE]

\* Two sales that lock two products in opposite orders, one that names a
\* product twice, and one of nothing, which the schema lets through.
CrossCarts == {Cash(<<L(p1, 1), L(p2, 1)>>), Cash(<<L(p2, 2), L(p1, 1)>>),
               Cash(<<L(p1, 1), L(p1, 1)>>), Cash(<<>>)}
SingleCarts == {Cash(<<L(p1, 1)>>), Cash(<<L(p1, 2)>>)}
MixedCarts == {Mpesa(<<L(p1, 1), L(p2, 1)>>), Cash(<<L(p2, 1), L(p1, 2)>>)}
MpesaCarts == {Mpesa(<<L(p1, 1)>>)}

\* A loss of two, a return of one, and a reason the schema's comment offers
\* and its CHECK does not.
Corrections == {[qty |-> -2, reason |-> "write_off"],
                [qty |-> 1, reason |-> "adjustment"],
                [qty |-> 1, reason |-> "damaged"]}
None == {}
SetToOne == {1}

TwoEach == [p \in Product |-> 2]

\* chk_sm_movement_type of migration 0003.
Migrated == {"sale", "purchase", "adjustment", "write_off", "void_restore",
             "sync", "opening"}

\* The schema the test suite creates from the models has no such CHECK.
Unconstrained == Migrated \cup {"mpesa_timeout_restore", "damaged"}

Symmetry == Permutations(Session)
=============================================================================
