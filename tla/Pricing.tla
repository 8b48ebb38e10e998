------------------------------- MODULE Pricing -------------------------------
(***************************************************************************)
(* The money of a sale, in cents: what create_transaction computes from    *)
(* the cart, takes and gives back, and what submit_invoice files of it.    *)
(*                                                                         *)
(* Code: backend/app/routers/transactions.py (create_transaction),         *)
(* services/etims.py (submit_invoice, _build_item_payload).                *)
(*                                                                         *)
(* A cart of two lines is paid in cash, and sold or refused; the sale is   *)
(* filed.  Prices and discounts have two decimals and the rate is a whole  *)
(* number of hundredths, so that every Decimal is a number of hundredths   *)
(* of a cent; quantize(0.01) rounds half to even.  Python's floats in      *)
(* _build_item_payload: a line total divided by 1.16 is never half a cent. *)
(***************************************************************************)
EXTENDS Integers

CONSTANTS
    Amounts,    \* line totals, in cents
    Discounts,  \* discounts on a whole sale, in cents
    Tenders     \* what customers hand over, in cents

ASSUME AmountsAssumption ==
    Amounts \subseteq Int /\ Discounts \subseteq Int /\ Tenders \subseteq Int

VARIABLES
    receipt,    \* the sale at the counter: the row, or the refusal
    invoice     \* what is filed of it

sale == <<receipt, invoice>>

-----------------------------------------------------------------------------
(* The receipt *)

VatRate == 16   \* VAT_RATE, in hundredths

\* n / d to the nearest integer, a tie to the even one.
Quantize(n, d) ==
    LET q == n \div d
        r == n % d
    IN  IF 2 * r < d \/ (2 * r = d /\ q % 2 = 0) THEN q ELSE q + 1

VatAmount(subtotal) == Quantize(subtotal * VatRate, 100)

\* total is rounded by itself, from the exact sum.
Total(subtotal) == Quantize(subtotal * (100 + VatRate), 100)

\* Cash is compared with the exact total, before rounding.
Refused(tendered, subtotal) == 100 * tendered < subtotal * (100 + VatRate)

\* (Mistake) the change is cut, not rounded.
ChangeCut(tendered, subtotal) ==
    (100 * tendered - subtotal * (100 + VatRate)) \div 100

ChangeGiven(tendered, subtotal) ==
    Quantize(100 * tendered - subtotal * (100 + VatRate), 100)

\* The tax of a line on its own, TransactionItem.vat_amount; whatever the tax
\* code of its product.
LineVat(lineTotal) == Quantize(lineTotal * VatRate, 100)

\* A line: its total, and whether the product's tax code is the standard one.
Line == [total : Amounts, standard : BOOLEAN]

NoSale == [status |-> "none"]

Subtotal(a, b, discount) == a.total + b.total - discount

Sold(a, b, discount, tendered) ==
    LET s == Subtotal(a, b, discount) IN
    [status |-> "sold", a |-> a, b |-> b, discount |-> discount,
     subtotal |-> s, vat |-> VatAmount(s), total |-> Total(s),
     cash |-> tendered, change |-> ChangeGiven(tendered, s)]

\* The refusal names the rounded total; exact is what the cash was below.
TurnedAway(s, tendered) ==
    [status |-> "refused", total |-> Total(s), cash |-> tendered,
     exact |-> s * (100 + VatRate)]

-----------------------------------------------------------------------------
(* The invoice *)

\* _build_item_payload: the total of a standard-rated line is taken to include
\* the tax; any other line has none.
TaxblAmt(line) ==
    IF line.standard THEN Quantize(line.total * 100, 100 + VatRate) ELSE line.total

\* (Mistake) tax of the total with tax.
TaxOnTax(line) == Quantize(Total(line.total) * VatRate, 100)

TaxAmt(line) == line.total - TaxblAmt(line)

\* submit_invoice.
Invoice(r) ==
    [status |-> "filed", totTaxblAmt |-> r.total - r.vat, totTax |-> r.vat,
     totAmt |-> r.total, itemTax |-> <<TaxAmt(r.a), TaxAmt(r.b)>>]

-----------------------------------------------------------------------------
(* The counter *)

PricingInit == receipt = NoSale /\ invoice = NoSale

\* create_transaction.
RingUp ==
    /\ receipt = NoSale
    /\ \E a, b \in Line, discount \in Discounts, tendered \in Tenders :
        LET s == Subtotal(a, b, discount) IN
        receipt' = IF Refused(tendered, s) THEN TurnedAway(s, tendered)
                   ELSE Sold(a, b, discount, tendered)
    /\ UNCHANGED invoice

\* submit_to_etims, for the row of the sale.
File ==
    /\ receipt.status = "sold" /\ invoice = NoSale
    /\ invoice' = Invoice(receipt)
    /\ UNCHANGED receipt

NextCustomer ==
    /\ receipt # NoSale
    /\ receipt' = NoSale /\ invoice' = NoSale

PricingNext == RingUp \/ File \/ NextCustomer

PricingSpec == PricingInit /\ [][PricingNext]_sale

-----------------------------------------------------------------------------
(* Properties *)

\* Subtotal, tax and total are rounded one by one and still add up, on the
\* receipt and on the invoice filed with KRA.
TotalsAddUp ==
    /\ receipt.status = "sold" => receipt.total = receipt.subtotal + receipt.vat
    /\ invoice # NoSale => invoice.totTaxblAmt = receipt.subtotal

\* What is kept of a customer's cash is the total on the receipt, although the
\* change comes from the exact total; and change is never negative.
CashBalances ==
    receipt.status = "sold" => /\ receipt.change >= 0
                               /\ receipt.cash - receipt.change = receipt.total

\* Cash of a whole cent above the total that is shown is never refused; the
\* total itself is, when it was rounded down.
RefusedWithinACent ==
    receipt.status = "refused" =>
        \/ receipt.cash < receipt.total
        \/ receipt.cash = receipt.total /\ 100 * receipt.total < receipt.exact

\* The taxes of two lines, each rounded, and the tax of the sale differ by a
\* cent at most, unless there is a discount on the whole: no line has it.
LineVatsNearTotal ==
    receipt.status = "sold" /\ receipt.discount = 0 =>
        LineVat(receipt.a.total) + LineVat(receipt.b.total) - receipt.vat \in -1..1

\* A line of the invoice never claims more tax than its customer paid for it:
\* it claims less, a tax-exclusive total being split as if it included the tax.
ItemTaxIsWithin ==
    invoice # NoSale =>
        /\ receipt.a.total >= 0 => invoice.itemTax[1] <= LineVat(receipt.a.total)
        /\ receipt.b.total >= 0 => invoice.itemTax[2] <= LineVat(receipt.b.total)

\* The money of a sale balances: on the receipt, in the drawer, in what cash is
\* refused, and in what is filed.
MoneyBalances == TotalsAddUp /\ CashBalances /\ RefusedWithinACent

\* The tax of the lines and the tax of the sale agree up to rounding, and the
\* lines filed never claim more.
TaxAgrees == LineVatsNearTotal /\ ItemTaxIsWithin
=============================================================================
