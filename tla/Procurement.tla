----------------------------- MODULE Procurement -----------------------------
(***************************************************************************)
(* Inbound stock: purchase orders, goods received notes (GRNs) and the     *)
(* matching of supplier invoices, as concurrent sessions over one          *)
(* PostgreSQL.                                                             *)
(*                                                                         *)
(* Code: backend/app/services/procurement.py, committed by                 *)
(* routers/procurement.py.                                                 *)
(*                                                                         *)
(* Sessions work as in module Sales: autoflush off, READ COMMITTED, an     *)
(* object loaded twice is the one in memory.  Order operations read the    *)
(* order without a lock; posting and cancelling a note lock it first.      *)
(* Posting then locks, line by line, the product and the order item, at    *)
(* the end the order, and only then writes.                                *)
(*                                                                         *)
(* Abstracted: one store and one supplier, money, audit rows; damaged and  *)
(* rejected units are one quantity (bad), since both only stay out of the  *)
(* stock.  The conversion to base units and the cost price are not here.   *)
(***************************************************************************)
EXTENDS Integers, Sequences, FiniteSets

CONSTANTS
    Session, Product,
    Order,          \* purchase orders
    Item,           \* purchase order items, each id given out once
    Note,           \* goods received notes
    Invoice,        \* supplier invoices
    Free,           \* "no session holds this lock"
    NoOrder, NoItem, NoNote,
    Ordered,        \* [Item -> Nat]: ordered_qty_base
    Deliveries,     \* the lines a GRN may carry
    OpeningStatus,  \* [Order -> status]: orders already there
    OpeningItems,   \* [Item -> Order]: and their items
    OpeningStock,   \* [Product -> Nat]
    Admitted,       \* the kinds of ledger rows the schema takes
    MaxRequests     \* bound: requests of a behaviour

GrnLine == [product : Product, item : Item \cup {NoItem}, got : Nat, bad : Nat]
POStatus == {"absent", "draft", "submitted", "approved", "partially_received",
             "fully_received", "closed", "cancelled"}
GRNStatus == {"absent", "draft", "posted", "cancelled"}
InvoiceMatchStatus == {"absent", "unmatched", "partial", "matched", "disputed"}

ASSUME OrderedAssumption == Ordered \in [Item -> Nat]
ASSUME DeliveriesAssumption ==
    /\ Deliveries \subseteq Seq(GrnLine)
    /\ \A d \in Deliveries : \A n \in DOMAIN d : d[n].bad <= d[n].got
ASSUME OpeningAssumption ==
    /\ OpeningStatus \in [Order -> {"absent", "draft", "submitted", "approved"}]
    /\ OpeningItems \in [Item -> Order \cup {NoOrder}]
    /\ OpeningStock \in [Product -> Nat]
ASSUME MaxRequestsAssumption == MaxRequests \in Nat
ASSUME FreeAssumption == Free \notin Session
ASSUME NothingAssumption ==
    NoOrder \notin Order /\ NoItem \notin Item /\ NoNote \notin Note
ASSUME TablesAssumption == Product \cap Item = {}

VARIABLES
    orders,     \* purchase_orders.status, committed
    itemOf,     \* purchase_order_items: the order of each item
    spent,      \* item ids the sequence has given out
    notes,      \* goods_received_notes with their items
    qty,        \* products.stock_quantity and received_qty_base of items
    posted,     \* commits of a posting, per note
    matches,    \* supplier_invoice_matches
    lock,       \* row locks
    sess,       \* what each session has in memory
    requests    \* requests so far (bounds the model)

tables == <<orders, itemOf, spent, notes, qty, posted, matches>>
vars   == <<orders, itemOf, spent, notes, qty, posted, matches, lock, sess,
            requests>>

-----------------------------------------------------------------------------
(* State *)

Counter == Product \cup Item
Row     == Product \cup Item \cup Order \cup Note

NoRow == [status |-> "absent", order |-> NoOrder, lines |-> <<>>]
NoMatch == [status |-> "absent", order |-> NoOrder, note |-> NoNote]

Idle == [pc |-> "idle", op |-> "none", order |-> NoOrder, note |-> NoNote,
         lines |-> <<>>, mem |-> [c \in Counter |-> 0], seen |-> {},
         verdict |-> "absent", fresh |-> {}, drop |-> {}]

Ops == {"none", "submit", "approve", "cancel", "edit", "receive", "post", "void"}

SessionState ==
    [pc : {"idle", "shelf", "item", "commit"}, op : Ops,
     order : Order \cup {NoOrder}, note : Note \cup {NoNote},
     lines : Seq(GrnLine), mem : [Counter -> Int], seen : SUBSET Counter,
     verdict : POStatus, fresh : SUBSET Item, drop : SUBSET Item]

\* Every table, the locks and the sessions keep their shape.
TypeOK ==
    /\ orders \in [Order -> POStatus]
    /\ itemOf \in [Item -> Order \cup {NoOrder}]
    /\ spent \in SUBSET Item
    /\ notes \in [Note -> [status : GRNStatus, order : Order \cup {NoOrder},
                           lines : Seq(GrnLine)]]
    /\ qty \in [Counter -> Int]
    /\ posted \in [Note -> Nat]
    /\ matches \in [Invoice -> [status : InvoiceMatchStatus,
                                order : Order \cup {NoOrder},
                                note : Note \cup {NoNote}]]
    /\ lock \in [Row -> Session \cup {Free}]
    /\ sess \in [Session -> SessionState]
    /\ requests \in Nat

Init ==
    /\ orders = OpeningStatus
    /\ itemOf = OpeningItems
    /\ spent = {i \in Item : OpeningItems[i] # NoOrder}
    /\ notes = [g \in Note |-> NoRow]
    /\ qty = [c \in Counter |-> IF c \in Product THEN OpeningStock[c] ELSE 0]
    /\ posted = [g \in Note |-> 0]
    /\ matches = [v \in Invoice |-> NoMatch]
    /\ lock = [r \in Row |-> Free]
    /\ sess = [s \in Session |-> Idle]
    /\ requests = 0

-----------------------------------------------------------------------------
(* Sessions and locks *)

LockFree(s, r) == lock[r] \in {Free, s}

\* SELECT ... FOR UPDATE.
Lock(s, r) == LockFree(s, r) /\ lock' = [lock EXCEPT ![r] = s]

\* (Mistake) the same SELECT without FOR UPDATE.
SelectOnly(s, r) == LockFree(s, r) /\ UNCHANGED lock

\* The session ends, and its row locks with it.
Release(s) ==
    /\ sess' = [sess EXCEPT ![s] = Idle]
    /\ lock' = [r \in Row |-> IF lock[r] = s THEN Free ELSE lock[r]]

\* db.rollback(): nothing the session did is ever seen.
Rollback(s) == Release(s) /\ UNCHANGED <<tables, requests>>

Request == requests < MaxRequests /\ requests' = requests + 1

\* A request arrives at a free worker and starts in state w.
Begin(s, w) ==
    /\ sess[s].pc = "idle"
    /\ Request
    /\ sess' = [sess EXCEPT ![s] = w]

-----------------------------------------------------------------------------
(* Purchase orders *)

ItemsOf(o) == {i \in Item : itemOf[i] = o}

\* Ids no row and no session has.
Unused == {i \in Item \ spent : \A s \in Session : i \notin sess[s].fresh}

\* create_po reads nothing that another session could change: one step.
CreateOrder(s, o, new) ==
    /\ sess[s].pc = "idle" /\ Request
    /\ orders[o] = "absent" /\ new # {}
    /\ orders' = [orders EXCEPT ![o] = "draft"]
    /\ itemOf' = [i \in Item |-> IF i \in new THEN o ELSE itemOf[i]]
    /\ spent' = spent \cup new
    /\ UNCHANGED <<notes, qty, posted, matches, lock, sess>>

\* update_po: the order is read without a lock, its items are marked for
\* deletion and the new ones added.
BeginEdit(s, o, new) ==
    /\ orders[o] = "draft"
    /\ Begin(s, [Idle EXCEPT !.pc = "commit", !.op = "edit", !.order = o,
                             !.fresh = new, !.drop = ItemsOf(o)])
    /\ UNCHANGED <<tables, lock>>

\* submit_po.
BeginSubmit(s, o) ==
    /\ orders[o] = "draft" /\ ItemsOf(o) # {}
    /\ Begin(s, [Idle EXCEPT !.pc = "commit", !.op = "submit", !.order = o,
                             !.verdict = "submitted"])
    /\ UNCHANGED <<tables, lock>>

\* approve_po.
BeginApprove(s, o) ==
    /\ orders[o] = "submitted"
    /\ Begin(s, [Idle EXCEPT !.pc = "commit", !.op = "approve", !.order = o,
                             !.verdict = "approved"])
    /\ UNCHANGED <<tables, lock>>

\* cancel_po.
BeginCancel(s, o) ==
    /\ orders[o] \notin {"absent", "fully_received", "closed", "cancelled"}
    /\ Begin(s, [Idle EXCEPT !.pc = "commit", !.op = "cancel", !.order = o,
                             !.verdict = "cancelled"])
    /\ UNCHANGED <<tables, lock>>

-----------------------------------------------------------------------------
(* Goods received notes *)

Linked(lines) == {lines[n].item : n \in DOMAIN lines} \ {NoItem}

\* create_grn: the order is read without a lock.  The item a line names is
\* taken as it comes: it may be an item of another order.
BeginReceive(s, g, o, lines) ==
    /\ notes[g].status = "absent"
    /\ \A q \in Session : sess[q].op = "receive" => sess[q].note # g
    /\ o # NoOrder => orders[o] \in {"approved", "partially_received"}
    /\ Linked(lines) \subseteq spent
    /\ Begin(s, [Idle EXCEPT !.pc = "commit", !.op = "receive", !.order = o,
                             !.note = g, !.lines = lines])
    /\ UNCHANGED <<tables, lock>>

\* (Mistake) the note is read without FOR UPDATE.
PostUnlocked(s, g) ==
    /\ notes[g].status = "draft" /\ notes[g].lines # <<>>
    /\ Begin(s, [Idle EXCEPT !.pc = "shelf", !.op = "post", !.note = g,
                             !.order = notes[g].order, !.lines = notes[g].lines])
    /\ UNCHANGED <<tables, lock>>

\* post_grn locks the note before it looks at its status.  A request that
\* waits here has read nothing and holds nothing: it has not begun.
BeginPost(s, g) ==
    /\ Lock(s, g)
    /\ notes[g].status = "draft" /\ notes[g].lines # <<>>
    /\ Begin(s, [Idle EXCEPT !.pc = "shelf", !.op = "post", !.note = g,
                             !.order = notes[g].order, !.lines = notes[g].lines])
    /\ UNCHANGED tables

\* (Mistake) the row wins over the object in memory: an earlier line of the
\* same product or item is forgotten.
Reread(s, c) ==
    IF sess[s].pc = "commit" /\ c \in sess[s].seen THEN sess[s].mem[c] ELSE qty[c]

\* What the session has for a counter: the object in memory if it was loaded.
InHand(s, c) == IF c \in sess[s].seen THEN sess[s].mem[c] ELSE qty[c]

\* Load, and add n in memory; then go on at pc with these lines.
Add(s, c, n, pc, lines) ==
    sess' = [sess EXCEPT ![s] = [sess[s] EXCEPT
                !.mem = [sess[s].mem EXCEPT ![c] = InHand(s, c) + n],
                !.seen = sess[s].seen \cup {c}, !.pc = pc, !.lines = lines]]

Accepted(line) == line.got - line.bad

\* The product of the next line: its accepted units go to the shelf.
ShelveLine(s) ==
    /\ sess[s].pc = "shelf" /\ sess[s].lines # <<>>
    /\ LET l == Head(sess[s].lines)
       IN  /\ Lock(s, l.product)
           /\ IF l.item = NoItem
              THEN Add(s, l.product, Accepted(l), "shelf", Tail(sess[s].lines))
              ELSE Add(s, l.product, Accepted(l), "item", sess[s].lines)
    /\ UNCHANGED <<tables, requests>>

\* The order item of that line: everything received is counted, more than was
\* ordered only makes a warning.
CreditItem(s) ==
    /\ sess[s].pc = "item"
    /\ LET l == Head(sess[s].lines)
       IN  /\ itemOf[l.item] # NoOrder
           /\ Lock(s, l.item)
           /\ Add(s, l.item, l.got, "shelf", Tail(sess[s].lines))
    /\ UNCHANGED <<tables, requests>>

\* An edit has deleted the item: nothing to credit.
ItemGone(s) ==
    /\ sess[s].pc = "item" /\ itemOf[Head(sess[s].lines).item] = NoOrder
    /\ sess' = [sess EXCEPT ![s].pc = "shelf", ![s].lines = Tail(@)]
    /\ UNCHANGED <<tables, lock, requests>>

Terminal == {"cancelled", "closed"}

\* _recompute_po_status, over received quantities r.
Recomputed(o, r) ==
    LET live == ItemsOf(o)
    IN  IF orders[o] \in Terminal \/ live = {} THEN orders[o]
        ELSE IF \A i \in live : r[i] >= Ordered[i] THEN "fully_received"
        ELSE IF \E i \in live : r[i] > 0 THEN "partially_received"
        ELSE IF orders[o] = "partially_received" THEN "approved"
        ELSE orders[o]

\* (Mistake) the order is read without FOR UPDATE.
SettleUnlocked(s) ==
    /\ sess[s].pc = "shelf" /\ sess[s].lines = <<>> /\ sess[s].order # NoOrder
    /\ sess' = [sess EXCEPT ![s].pc = "commit",
          ![s].verdict = Recomputed(sess[s].order, [i \in Item |-> InHand(s, i)])]
    /\ UNCHANGED <<tables, lock, requests>>

\* The order is locked and refreshed.  Its items are loaded now: those this
\* session credited are the objects in memory.
SettleOrder(s) ==
    /\ sess[s].pc = "shelf" /\ sess[s].lines = <<>> /\ sess[s].order # NoOrder
    /\ Lock(s, sess[s].order)
    /\ sess' = [sess EXCEPT ![s].pc = "commit",
          ![s].verdict = Recomputed(sess[s].order, [i \in Item |-> InHand(s, i)])]
    /\ UNCHANGED <<tables, requests>>

\* A note without an order.
NothingToSettle(s) ==
    /\ sess[s].pc = "shelf" /\ sess[s].lines = <<>> /\ sess[s].order = NoOrder
    /\ sess' = [sess EXCEPT ![s].pc = "commit"]
    /\ UNCHANGED <<tables, lock, requests>>

\* (Mistake) a posted note can be cancelled.
VoidPosted(s, g) ==
    /\ Lock(s, g)
    /\ notes[g].status \in {"draft", "posted"}
    /\ Begin(s, [Idle EXCEPT !.pc = "commit", !.op = "void", !.note = g])
    /\ UNCHANGED tables

\* cancel_grn locks the note too.
BeginVoid(s, g) ==
    /\ Lock(s, g)
    /\ notes[g].status = "draft"
    /\ Begin(s, [Idle EXCEPT !.pc = "commit", !.op = "void", !.note = g])
    /\ UNCHANGED tables

-----------------------------------------------------------------------------
(* Flush and commit, one step each: the rows a flush still has to lock are   *)
(* free, the constraints accept it, and the writes appear at once.           *)

\* submit_po, approve_po and cancel_po write the status they decided on when
\* they read the order.
CommitStatus(s) ==
    /\ sess[s].pc = "commit" /\ sess[s].op \in {"submit", "approve", "cancel"}
    /\ LockFree(s, sess[s].order)
    /\ orders' = [orders EXCEPT ![sess[s].order] = sess[s].verdict]
    /\ Release(s)
    /\ UNCHANGED <<itemOf, spent, notes, qty, posted, matches, requests>>

\* The old items go and the new ones come; deleting an item clears the link
\* of every GRN line that named it.
Unlink(line, gone) == IF line.item \in gone THEN [line EXCEPT !.item = NoItem]
                                            ELSE line
CommitEdit(s) ==
    /\ sess[s].pc = "commit" /\ sess[s].op = "edit"
    /\ \A r \in sess[s].drop \cup {sess[s].order} : LockFree(s, r)
    /\ itemOf' = [i \in Item |-> IF i \in sess[s].fresh THEN sess[s].order
                                 ELSE IF i \in sess[s].drop THEN NoOrder
                                 ELSE itemOf[i]]
    /\ spent' = spent \cup sess[s].fresh
    /\ notes' = [g \in Note |-> [notes[g] EXCEPT !.lines =
                    [n \in DOMAIN notes[g].lines |->
                        Unlink(notes[g].lines[n], sess[s].drop)]]]
    /\ Release(s)
    /\ UNCHANGED <<orders, qty, posted, matches, requests>>

\* The foreign key of a line needs its order item; without it the insert fails.
LinksExist(s) == \A i \in Linked(sess[s].lines) : itemOf[i] # NoOrder

CommitReceive(s) ==
    /\ sess[s].pc = "commit" /\ sess[s].op = "receive" /\ LinksExist(s)
    /\ notes' = [notes EXCEPT ![sess[s].note] =
                    [status |-> "draft", order |-> sess[s].order,
                     lines |-> sess[s].lines]]
    /\ Release(s)
    /\ UNCHANGED <<orders, itemOf, spent, qty, posted, matches, requests>>

RefuseReceive(s) ==
    /\ sess[s].pc = "commit" /\ sess[s].op = "receive" /\ ~LinksExist(s)
    /\ Rollback(s)

\* The ledger rows of a posting: what goes to the shelf, and a row of delta
\* zero for what does not.
Movements(lines) ==
    UNION {(IF Accepted(lines[n]) > 0 THEN {"purchase_receive"} ELSE {})
             \cup (IF lines[n].bad > 0 THEN {"purchase_reject"} ELSE {})
           : n \in DOMAIN lines}

\* chk_sm_movement_type and chk_sm_qty_nonzero.
LedgerAccepts(s) == Movements(notes[sess[s].note].lines) \subseteq Admitted

CommitPost(s) ==
    /\ sess[s].pc = "commit" /\ sess[s].op = "post" /\ LedgerAccepts(s)
    /\ qty' = [c \in Counter |-> InHand(s, c)]
    /\ orders' = IF sess[s].order = NoOrder THEN orders
                 ELSE [orders EXCEPT ![sess[s].order] = sess[s].verdict]
    /\ notes' = [notes EXCEPT ![sess[s].note].status = "posted"]
    /\ posted' = [posted EXCEPT ![sess[s].note] = posted[sess[s].note] + 1]
    /\ Release(s)
    /\ UNCHANGED <<itemOf, spent, matches, requests>>

\* IntegrityError at the flush: "Failed to post GRN".
RefusePost(s) ==
    /\ sess[s].pc = "commit" /\ sess[s].op = "post" /\ ~LedgerAccepts(s)
    /\ Rollback(s)

CommitVoid(s) ==
    /\ sess[s].pc = "commit" /\ sess[s].op = "void"
    /\ notes' = [notes EXCEPT ![sess[s].note].status = "cancelled"]
    /\ Release(s)
    /\ UNCHANGED <<orders, itemOf, spent, qty, posted, matches, requests>>

\* Waiting for a row another session has.
Blocked(s) ==
    \/ /\ sess[s].pc = "shelf" /\ sess[s].lines # <<>>
       /\ ~LockFree(s, Head(sess[s].lines).product)
    \/ sess[s].pc = "item" /\ ~LockFree(s, Head(sess[s].lines).item)
    \/ /\ sess[s].pc = "shelf" /\ sess[s].lines = <<>> /\ sess[s].order # NoOrder
       /\ ~LockFree(s, sess[s].order)
    \/ /\ sess[s].pc = "commit" /\ sess[s].op \in {"submit", "approve", "cancel"}
       /\ ~LockFree(s, sess[s].order)
    \/ /\ sess[s].pc = "commit" /\ sess[s].op = "edit"
       /\ \E r \in sess[s].drop \cup {sess[s].order} : ~LockFree(s, r)

\* (Mistake) no lock_timeout on the connection.
NoTimeout(s) == FALSE

\* lock_timeout, or the deadlock detector, ends the wait and the request.
LockTimeout(s) == Blocked(s) /\ Rollback(s)

\* The worker dies, or the statement fails; PostgreSQL rolls back.
Crash(s) == sess[s].pc # "idle" /\ Rollback(s)

-----------------------------------------------------------------------------
(* Supplier invoices *)

\* create_invoice_match, against an order, a posted note, both or neither.
\* Sums are not modelled: any comparison may find a discrepancy.
MatchInvoice(s, v, o, g) ==
    /\ sess[s].pc = "idle" /\ Request
    /\ matches[v].status = "absent"
    /\ o # NoOrder => orders[o] # "absent"
    /\ g # NoNote => notes[g].status = "posted"
    /\ \E discrepancy \in (IF o = NoOrder /\ g = NoNote THEN {FALSE} ELSE BOOLEAN) :
           matches' = [matches EXCEPT ![v] =
               [status |-> IF discrepancy THEN "partial" ELSE "matched",
                order |-> o, note |-> g]]
    /\ UNCHANGED <<orders, itemOf, spent, notes, qty, posted, lock, sess>>

\* resolve_invoice_match: any match, whatever its status.
ResolveInvoice(s, v) ==
    /\ sess[s].pc = "idle" /\ Request
    /\ matches[v].status # "absent"
    /\ \E to \in {"matched", "disputed"} :
           matches' = [matches EXCEPT ![v] = [matches[v] EXCEPT !.status = to]]
    /\ UNCHANGED <<orders, itemOf, spent, notes, qty, posted, lock, sess>>

-----------------------------------------------------------------------------
(* Next and fairness *)

Arrive(s) ==
    \/ \E o \in Order, new \in SUBSET Unused :
           CreateOrder(s, o, new) \/ BeginEdit(s, o, new)
    \/ \E o \in Order : BeginSubmit(s, o) \/ BeginApprove(s, o) \/ BeginCancel(s, o)
    \/ \E g \in Note, o \in Order \cup {NoOrder}, d \in Deliveries :
           BeginReceive(s, g, o, d)
    \/ \E g \in Note : BeginPost(s, g) \/ BeginVoid(s, g)
    \/ \E v \in Invoice, o \in Order \cup {NoOrder}, g \in Note \cup {NoNote} :
           MatchInvoice(s, v, o, g)
    \/ \E v \in Invoice : ResolveInvoice(s, v)

Proceed(s) ==
    \/ ShelveLine(s) \/ CreditItem(s) \/ ItemGone(s)
    \/ SettleOrder(s) \/ NothingToSettle(s)
    \/ CommitStatus(s) \/ CommitEdit(s)
    \/ CommitReceive(s) \/ RefuseReceive(s)
    \/ CommitPost(s) \/ RefusePost(s) \/ CommitVoid(s)
    \/ LockTimeout(s)

\* Nobody has to send another request.
Closed == (\A s \in Session : sess[s].pc = "idle") /\ UNCHANGED vars

Next ==
    \/ \E s \in Session : Arrive(s) \/ Proceed(s) \/ Crash(s)
    \/ Closed

Spec == Init /\ [][Next]_vars

\* A thread that can go on does; requests need not come, workers need not crash.
FairSpec == Spec /\ \A s \in Session : WF_vars(Proceed(s))

-----------------------------------------------------------------------------
(* Properties *)

\* A row lock belongs to a session at work on that row: no path of post_grn or
\* cancel_grn, failed ones included, leaves one behind.
LocksAreOwned ==
    \A r \in Row : lock[r] # Free =>
        LET w == sess[lock[r]]
        IN  /\ w.op \in {"post", "void"}
            /\ r \in w.seen \cup {w.note, w.order}

\* "GRN cannot be double-posted": a posted note entered the stock exactly once,
\* and neither a draft nor a cancelled note ever did, whatever ran at once.
NotePostsOnce ==
    \A g \in Note : posted[g] = IF notes[g].status = "posted" THEN 1 ELSE 0

\* What a line brings to counter c, and the units that lines bring, one by one:
\* the line of each and its place there.
Brings(line, c) == IF line.product = c THEN Accepted(line)
                   ELSE IF c \in Item /\ line.item = c THEN line.got ELSE 0
Brought(lines, c) == UNION {{n} \X (1..Brings(lines[n], c)) : n \in DOMAIN lines}

\* The units that the postings of notes brought to counter c.
Received(c) ==
    UNION {(({g} \X (1..posted[g])) \X Brought(notes[g].lines, c)) : g \in Note}

Opening(c) == IF c \in Product THEN OpeningStock[c] ELSE 0

\* "Stock only increases when a GRN is POSTED": the stock is what the posted
\* notes accepted, and an order item has received what the posted notes that
\* name it brought; no posting is lost and none counted by half.
CountersArePostings ==
    \A c \in Product \cup {i \in Item : itemOf[i] # NoOrder} :
        qty[c] = Opening(c) + Cardinality(Received(c))

\* Every note names items of its own order only.
WellLinked ==
    \A g \in Note : \A i \in Linked(notes[g].lines) : itemOf[i] = notes[g].order

\* The status a posting writes is the one the received quantities give at that
\* moment, although another note may be crediting other items of the same
\* order, or an edit or a cancellation be under way.  A note that names items
\* of another order is outside this: post_grn settles its own order only.
StatusFollowsReceipts ==
    [][\A s \in Session :
          /\ sess[s].pc = "commit" /\ sess[s].op = "post" /\ posted' # posted
          /\ sess'[s].pc = "idle" /\ sess[s].order # NoOrder /\ WellLinked
          => orders'[sess[s].order] = Recomputed(sess[s].order, qty')]_vars

\* An invoice is matched only against goods that came in: the note it names
\* was posted and stays so.
MatchedGoodsCame ==
    \A v \in Invoice : matches[v].note # NoNote =>
        notes[matches[v].note].status = "posted" /\ posted[matches[v].note] = 1

\* No request hangs: two postings with the same products in opposite orders
\* are ended by the lock timeout.
EveryRequestEnds ==
    \A s \in Session : sess[s].pc # "idle" ~> sess[s].pc = "idle"
=============================================================================
