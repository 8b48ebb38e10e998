----------------------------- MODULE StockBook -----------------------------
(***************************************************************************)
(* What the selling endpoints promise the shop's books, one atomic entry   *)
(* per request: a sale takes its units off the shelf and into the ledger,  *)
(* a void gives exactly those units back, a confirmation moves no goods.   *)
(* Module Sales, with its concurrent sessions, half-done handlers, lock    *)
(* waits and crashes, implements it (KeepsTheBooks).                       *)
(*                                                                         *)
(* Code: the docstring of backend/app/routers/transactions.py ("no partial *)
(* writes") and of StockMovement in backend/app/models/product.py.         *)
(***************************************************************************)
EXTENDS Integers, FiniteSets

CONSTANTS Product, Txn, OpeningStock

VARIABLES stock, ledger,
          book      \* per sale: its status and the lines it took
vars == <<stock, ledger, book>>

\* The units of product p on these lines, one by one: the line of each and its
\* place there.
Goods(lines, p) ==
    UNION {{n} \X (1..lines[n].qty) :
              n \in {m \in DOMAIN lines : lines[m].product = p}}

Units(lines, p) == Cardinality(Goods(lines, p))

\* Stock and ledger move together.
Post(delta) ==
    /\ stock'  = [p \in Product |-> stock[p] + delta[p]]
    /\ ledger' = [p \in Product |-> ledger[p] + delta[p]]

Init ==
    /\ stock = OpeningStock
    /\ ledger = OpeningStock
    /\ book = [t \in Txn |-> [status |-> "absent", lines |-> <<>>]]

\* One whole sale, entered once, of goods that are there.
Sell(t) ==
    /\ book[t].status = "absent"
    /\ book'[t].status \in {"pending", "completed"}
    /\ \A p \in Product : Units(book'[t].lines, p) <= stock[p]
    /\ Post([p \in Product |-> -Units(book'[t].lines, p)])
    /\ \A u \in Txn \ {t} : book'[u] = book[u]

\* Voids give back every unit of their sales.
GiveBack(T) ==
    /\ T # {}
    /\ \A t \in T : book[t].status # "absent"
    /\ Post([p \in Product |->
                Cardinality(UNION {{t} \X Goods(book[t].lines, p) : t \in T})])
    /\ book' = [t \in Txn |-> IF t \in T THEN [book[t] EXCEPT !.status = "voided"]
                                         ELSE book[t]]

\* A payment confirmation.
Settle(t) ==
    /\ book[t].status # "absent"
    /\ book' = [book EXCEPT ![t].status = "completed"]
    /\ UNCHANGED <<stock, ledger>>

Next ==
    \/ \E t \in Txn : Sell(t) \/ Settle(t)
    \/ \E T \in SUBSET Txn : GiveBack(T)

Spec == Init /\ [][Next]_vars
=============================================================================
