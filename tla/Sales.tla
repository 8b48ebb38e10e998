------------------------------- MODULE Sales -------------------------------
(***************************************************************************)
(* The till's core: selling, voiding, M-PESA confirmation and stock        *)
(* correction, as concurrent database sessions over one PostgreSQL.        *)
(*                                                                         *)
(* Code: backend/app/routers/transactions.py, mpesa.py, products.py (the   *)
(* stock endpoints), app/main.py (_cleanup_stale_mpesa), app/database.py   *)
(* and the constraints of alembic/versions/0003.                           *)
(*                                                                         *)
(* A session is one request in one uvicorn worker (the production image    *)
(* runs four).  SessionLocal has autoflush off and the database is READ    *)
(* COMMITTED, so a handler runs in these steps, and other sessions may act *)
(* between any two of them:                                                *)
(*   - it reads committed rows, some with SELECT ... FOR UPDATE;           *)
(*   - it changes attributes in memory (base is what was loaded, next what *)
(*     the attribute now says, rows the qty_delta of the ledger rows added);*)
(*   - Flush writes the changed columns as absolute values, taking the row *)
(*     locks it needs, and meets the CHECK and UNIQUE constraints;         *)
(*   - Commit publishes the writes and frees the locks.                    *)
(* Any error rolls back.  A wait for a row lock ends with an error after   *)
(* lock_timeout, a worker may die at any step.                             *)
(*                                                                         *)
(* Abstracted: money, names, audit rows and store                          *)
(* scoping (one store).  A ledger row is kept as its sum per product       *)
(* (ledger) and as the number of "sale" and "restore" postings made for    *)
(* each transaction (sold, restored).                                      *)
(***************************************************************************)
EXTENDS Integers, Sequences, FiniteSets

CONSTANTS
    Session,        \* concurrent requests
    Product,
    Txn,            \* transaction numbers, which are also idempotency keys
    Ref,            \* M-PESA receipts
    Free,           \* "no session holds this lock"
    NoRef,
    Carts,          \* the carts a till sends: [lines, mpesa]
    Adjustments,    \* the stock corrections managers send: [qty, reason]
    Overwrites,     \* the stock_quantity values a product PATCH carries
    OpeningStock,   \* [Product -> Nat]
    MovementTypes,  \* the types chk_sm_movement_type admits
    StockChecked,   \* whether chk_prod_stock_gte0 is in the schema
    MaxRequests     \* bound: requests of a behaviour

Line == [product : Product, qty : Nat \ {0}]
Cart == [lines : Seq(Line), mpesa : BOOLEAN]

ASSUME CartsAssumption == Carts \subseteq Cart
ASSUME AdjustmentsAssumption == \A a \in Adjustments : a.qty \in Int
ASSUME OverwritesAssumption == Overwrites \subseteq Int
ASSUME OpeningAssumption == OpeningStock \in [Product -> Nat]
ASSUME StockCheckedAssumption == StockChecked \in BOOLEAN
ASSUME MaxRequestsAssumption == MaxRequests \in Nat
ASSUME FreeAssumption == Free \notin Session
ASSUME NoRefAssumption == NoRef \notin Ref

VARIABLES
    stock,      \* products.stock_quantity, committed
    ledger,     \* SUM(stock_movements.qty_delta) per product, with the opening
    txns,       \* the transactions table, committed
    sold,       \* "sale" postings committed per transaction
    restored,   \* restore postings committed per transaction
    plock,      \* row locks on products
    tlock,      \* row locks on transactions
    sess,       \* what each session has in memory
    pushed,     \* Safaricom: the transaction a payment request is for
    receipt,    \* Safaricom: how far each payment got
    requests    \* requests so far (bounds the model)

dbVars  == <<stock, ledger, txns, sold, restored>>
payVars == <<pushed, receipt>>
vars    == <<stock, ledger, txns, sold, restored, plock, tlock, sess, pushed,
             receipt, requests>>

-----------------------------------------------------------------------------
(* State *)

NoCart == [lines |-> <<>>, mpesa |-> FALSE]
Zero   == [p \in Product |-> 0]

Absent == [status |-> "absent", lines |-> <<>>, mpesa |-> FALSE, ref |-> NoRef,
           checkout |-> NoRef]

Idle == [pc |-> "idle", op |-> "none", cart |-> NoCart, lines |-> <<>>,
         held |-> {}, base |-> Zero, next |-> Zero, rows |-> Zero,
         kind |-> "none", marks |-> {}, todo |-> {}, ref |-> NoRef]

Statuses == {"absent", "pending", "completed", "voided"}
Ops      == {"none", "create", "void", "confirm", "callback", "push", "adjust",
             "update", "cleanup"}

\* The movement_type of the ledger rows a session adds.
Kinds == {"none", "sale", "void_restore", "mpesa_timeout_restore"}
             \cup {a.reason : a \in Adjustments}

TxnRow == [status : Statuses, lines : Seq(Line), mpesa : BOOLEAN,
           ref : Ref \cup {NoRef}, checkout : Ref \cup {NoRef}]

SessionState ==
    [pc : {"idle", "await", "work", "commit"}, op : Ops, cart : Cart,
     lines : Seq(Line), held : SUBSET Product, base : [Product -> Int],
     next : [Product -> Int], rows : [Product -> Int], kind : Kinds,
     marks : SUBSET Txn, todo : SUBSET Txn, ref : Ref \cup {NoRef}]

\* Every variable keeps its shape: the tables, the locks and the sessions.
TypeOK ==
    /\ stock \in [Product -> Int]
    /\ ledger \in [Product -> Int]
    /\ txns \in [Txn -> TxnRow]
    /\ sold \in [Txn -> Nat]
    /\ restored \in [Txn -> Nat]
    /\ plock \in [Product -> Session \cup {Free}]
    /\ tlock \in [Txn -> Session \cup {Free}]
    /\ sess \in [Session -> SessionState]
    /\ pushed \in [Ref -> Txn \cup {Free}]
    /\ receipt \in [Ref -> {"none", "asked", "paid", "declined", "answered"}]
    /\ \A r \in Ref : receipt[r] # "none" => pushed[r] \in Txn
    /\ requests \in Nat

Init ==
    /\ stock = OpeningStock
    /\ ledger = OpeningStock
    /\ txns = [t \in Txn |-> Absent]
    /\ sold = [t \in Txn |-> 0]
    /\ restored = [t \in Txn |-> 0]
    /\ plock = [p \in Product |-> Free]
    /\ tlock = [t \in Txn |-> Free]
    /\ sess = [s \in Session |-> Idle]
    /\ pushed = [r \in Ref |-> Free]
    /\ receipt = [r \in Ref |-> "none"]
    /\ requests = 0

-----------------------------------------------------------------------------
(* What a session holds *)

LockFree(lock, s) == lock \in {Free, s}

\* Writing back only the attributes that changed: the UPDATEs of a flush.
Dirty(s) == {p \in Product : sess[s].next[p] # sess[s].base[p]}

\* Every product line is locked and nothing is left to load: the handler has
\* reached db.commit().
Ready(s) ==
    /\ sess[s].pc = "work"
    /\ sess[s].lines = <<>>
    /\ sess[s].todo = {}

\* Two receipts being written at once meet in uq_txn_mpesa_ref: the second
\* waits for the first to end.
RefFree(s) ==
    sess[s].op \in {"confirm", "callback"} =>
        \A q \in Session \ {s} :
            ~ /\ sess[q].pc = "commit"
              /\ sess[q].op \in {"confirm", "callback"}
              /\ sess[q].ref = sess[s].ref

\* The rows a flush writes are free, or already this session's.
RowsFree(s) ==
    /\ \A p \in Dirty(s) : LockFree(plock[p], s)
    /\ \A t \in sess[s].marks : LockFree(tlock[t], s)
    /\ RefFree(s)

\* chk_sm_movement_type, chk_sm_qty_nonzero and chk_prod_stock_gte0.
LedgerAccepted(s) ==
    sess[s].kind # "none" => /\ sess[s].kind \in MovementTypes
                             /\ \E p \in Product : sess[s].rows[p] # 0
StockAccepted(s) == StockChecked => \A p \in Dirty(s) : sess[s].next[p] >= 0

\* (Mistake) no unique index on txn_number.
NumberUnchecked(s) == TRUE

\* txn_number is unique, and so is a receipt: uq_txn_mpesa_ref.
NumberUnique(s) ==
    sess[s].op = "create" => \A t \in sess[s].marks : txns[t].status = "absent"
ReceiptUnique(s) ==
    sess[s].op \in {"confirm", "callback"} =>
        \A t \in Txn \ sess[s].marks : txns[t].ref # sess[s].ref

\* The constraints accept the flush.
Accepted(s) ==
    /\ LedgerAccepted(s)
    /\ StockAccepted(s)
    /\ NumberUnique(s)
    /\ ReceiptUnique(s)

\* The session ends and its row locks with it.
Release(s) ==
    /\ sess'  = [sess EXCEPT ![s] = Idle]
    /\ plock' = [p \in Product |-> IF plock[p] = s THEN Free ELSE plock[p]]
    /\ tlock' = [t \in Txn |-> IF tlock[t] = s THEN Free ELSE tlock[t]]

\* db.rollback(): nothing the session wrote is ever seen.
Rollback(s) == Release(s) /\ UNCHANGED <<dbVars, payVars, requests>>

\* A request arrives at a free worker and starts in state w.
Begin(s, w) ==
    /\ sess[s].pc = "idle"
    /\ requests < MaxRequests
    /\ sess' = [sess EXCEPT ![s] = w]
    /\ requests' = requests + 1

-----------------------------------------------------------------------------
(* POST /transactions *)

\* A number that is already in the table is answered with the stored row and
\* changes nothing, so only an unused one starts work.
BeginCreate(s, t, cart) ==
    /\ txns[t].status = "absent"
    /\ Begin(s, [Idle EXCEPT !.pc = "work", !.op = "create", !.cart = cart,
                             !.lines = cart.lines, !.marks = {t}])
    /\ UNCHANGED <<dbVars, payVars, plock, tlock>>

\* (Mistake) a query that refreshes the object it finds in the identity map
\* drops what the earlier line of the same product did.
Refreshed(s, p) == [base |-> stock[p], next |-> stock[p]]

\* What the session has for the product of a line.  Loading it again gives
\* the object already in the identity map, not the row.
Loaded(s, p) ==
    IF p \in sess[s].held THEN [base |-> sess[s].base[p], next |-> sess[s].next[p]]
                          ELSE [base |-> stock[p], next |-> stock[p]]

\* (Mistake) an off-by-one in the stock check.
EnoughButOne(s, l) == sess[s].op = "create" => Loaded(s, l.product).base + 1 >= l.qty

\* The check of one line looks at the stock as loaded: what the earlier lines
\* of the same cart take is subtracted only after the last check.
Enough(s, l) ==
    sess[s].op = "create" => Loaded(s, l.product).base >= l.qty

\* (Mistake) a void that gives back one unit of each line.
DeltaOfOne(s, l) == IF sess[s].op = "create" THEN -l.qty ELSE 1

LineDelta(s, l) == IF sess[s].op = "create" THEN -l.qty ELSE l.qty

\* The movement_type of the ledger row of a line.
LineKind(s) == CASE sess[s].op = "create" -> "sale"
                 [] sess[s].op = "void"   -> "void_restore"
                 [] OTHER                 -> "mpesa_timeout_restore"

\* (Mistake) the same SELECT without FOR UPDATE.
SelectOnly(s, p) == LockFree(plock[p], s) /\ UNCHANGED plock

\* SELECT ... FOR UPDATE.
Lock(s, p) ==
    /\ LockFree(plock[p], s)
    /\ plock' = [plock EXCEPT ![p] = s]

\* One turn of the item loop of create_transaction, void_transaction and
\* _cleanup_stale_mpesa: SELECT the product FOR UPDATE, change it in memory
\* and add its ledger row.
LockLine(s) ==
    /\ sess[s].pc = "work" /\ sess[s].lines # <<>>
    /\ LET l == Head(sess[s].lines)
           p == l.product
           d == LineDelta(s, l)
       IN  /\ Enough(s, l)
           /\ Lock(s, p)
           /\ sess' = [sess EXCEPT ![s] = [sess[s] EXCEPT
                 !.lines = Tail(sess[s].lines),
                 !.held = sess[s].held \cup {p},
                 !.base = [sess[s].base EXCEPT ![p] = Loaded(s, p).base],
                 !.next = [sess[s].next EXCEPT ![p] = Loaded(s, p).next + d],
                 !.rows = [sess[s].rows EXCEPT ![p] = sess[s].rows[p] + d],
                 !.kind = LineKind(s)]]
    /\ UNCHANGED <<dbVars, payVars, tlock, requests>>

\* "Insufficient stock": the whole sale is rolled back.
RefuseLine(s) ==
    /\ sess[s].pc = "work" /\ sess[s].lines # <<>>
    /\ LET l == Head(sess[s].lines)
       IN  LockFree(plock[l.product], s) /\ ~Enough(s, l)
    /\ Rollback(s)

\* The cash tendered is short of the total.  The cart's money is not modelled,
\* so any cash sale may end here.
RefuseCash(s) ==
    /\ Ready(s) /\ sess[s].op = "create" /\ ~sess[s].cart.mpesa
    /\ Rollback(s)

-----------------------------------------------------------------------------
(* POST /transactions/{id}/void and /mpesa-confirm *)

\* The row is read without a lock: its status may be another by the time the
\* stock is restored.
BeginVoid(s, t) ==
    /\ txns[t].status \in {"pending", "completed"}
    /\ Begin(s, [Idle EXCEPT !.pc = "work", !.op = "void",
                             !.lines = txns[t].lines, !.marks = {t}])
    /\ UNCHANGED <<dbVars, payVars, plock, tlock>>

\* (Mistake) a confirmation that only refuses COMPLETED rows.
ConfirmVoided(s, t, r) ==
    /\ txns[t].status \in {"pending", "voided"}
    /\ Begin(s, [Idle EXCEPT !.pc = "work", !.op = "confirm", !.marks = {t},
                             !.ref = r])
    /\ UNCHANGED <<dbVars, payVars, plock, tlock>>

\* Manual confirmation by a manager, who types a receipt number.
BeginConfirm(s, t, r) ==
    /\ txns[t].status = "pending"
    /\ Begin(s, [Idle EXCEPT !.pc = "work", !.op = "confirm", !.marks = {t},
                             !.ref = r])
    /\ UNCHANGED <<dbVars, payVars, plock, tlock>>

-----------------------------------------------------------------------------
(* M-PESA: the push, the customer, the callback *)

\* POST /mpesa/stk-push reads a pending row and awaits Safaricom.
BeginPush(s, t) ==
    /\ txns[t].status = "pending"
    /\ Begin(s, [Idle EXCEPT !.pc = "await", !.op = "push", !.marks = {t}])
    /\ UNCHANGED <<dbVars, payVars, plock, tlock>>

\* Safaricom takes the request; the handler goes on to store the checkout id.
PushAccepted(s, r) ==
    /\ sess[s].pc = "await" /\ receipt[r] = "none"
    /\ receipt' = [receipt EXCEPT ![r] = "asked"]
    /\ \E t \in sess[s].marks : pushed' = [pushed EXCEPT ![r] = t]
    /\ sess' = [sess EXCEPT ![s].pc = "work", ![s].ref = r]
    /\ UNCHANGED <<dbVars, plock, tlock, requests>>

\* The call fails or times out: 502, nothing stored.
PushFailed(s) == sess[s].pc = "await" /\ Rollback(s)

\* The customer enters the PIN, or lets the prompt go: the failure callback
\* only looks the row up to notify the till.
CustomerAnswers(r) ==
    /\ receipt[r] = "asked"
    /\ \E a \in {"paid", "declined"} : receipt' = [receipt EXCEPT ![r] = a]
    /\ UNCHANGED <<dbVars, plock, tlock, sess, pushed, requests>>

\* POST /mpesa/callback answers "Accepted" whatever it did, so Safaricom sends
\* it once more only if that answer is lost.
Answered(r) ==
    \E lost \in BOOLEAN :
        receipt' = [receipt EXCEPT ![r] = IF lost THEN "paid" ELSE "answered"]

\* (Mistake) the callback's SELECT without FOR UPDATE.
ReadUnlocked(s, t) == UNCHANGED tlock

\* FOR UPDATE SKIP LOCKED finds the row only if nobody has it.
SkipLocked(s, t) ==
    /\ tlock[t] = Free
    /\ tlock' = [tlock EXCEPT ![t] = s]

\* The row is free and pending.
Callback(s, r) ==
    /\ receipt[r] = "paid"
    /\ LET t == pushed[r]
       IN  /\ SkipLocked(s, t)
           /\ txns[t].status = "pending"
           /\ Begin(s, [Idle EXCEPT !.pc = "work", !.op = "callback",
                                    !.marks = {t}, !.ref = r])
    /\ Answered(r)
    /\ UNCHANGED <<dbVars, plock, pushed>>

\* The row is locked by any other session, or no longer pending: the handler
\* answers "Accepted" and the receipt is written nowhere.
CallbackSkips(s, r) ==
    /\ receipt[r] = "paid" /\ sess[s].pc = "idle" /\ requests < MaxRequests
    /\ \/ tlock[pushed[r]] # Free
       \/ txns[pushed[r]].status # "pending"
    /\ Answered(r)
    /\ requests' = requests + 1
    /\ UNCHANGED <<dbVars, plock, tlock, sess, pushed>>

-----------------------------------------------------------------------------
(* POST /products/stock/adjust and PATCH /products/{id} *)

AtLeastZero(n) == IF n < 0 THEN 0 ELSE n

\* Read without a lock; the new quantity is clamped at zero, the ledger row
\* carries the quantity as sent.
BeginAdjust(s, p, a) ==
    /\ Begin(s, [Idle EXCEPT !.pc = "work", !.op = "adjust", !.kind = a.reason,
                   !.base = [Zero EXCEPT ![p] = stock[p]],
                   !.next = [Zero EXCEPT ![p] = AtLeastZero(stock[p] + a.qty)],
                   !.rows = [Zero EXCEPT ![p] = a.qty]])
    /\ UNCHANGED <<dbVars, payVars, plock, tlock>>

\* A PATCH that carries stock_quantity sets it, with no ledger row.
BeginUpdate(s, p, v) ==
    /\ Begin(s, [Idle EXCEPT !.pc = "work", !.op = "update",
                   !.base = [Zero EXCEPT ![p] = stock[p]],
                   !.next = [Zero EXCEPT ![p] = v]])
    /\ UNCHANGED <<dbVars, payVars, plock, tlock>>

-----------------------------------------------------------------------------
(* Startup: _cleanup_stale_mpesa, in every worker *)

\* The pending M-PESA rows older than ten minutes, read without a lock.
BeginCleanup(s) ==
    /\ \E stale \in SUBSET {t \in Txn : txns[t].status = "pending" /\ txns[t].mpesa} :
           /\ stale # {}
           /\ Begin(s, [Idle EXCEPT !.pc = "work", !.op = "cleanup", !.todo = stale])
    /\ UNCHANGED <<dbVars, payVars, plock, tlock>>

\* The next stale row: its lines are restored and it is marked VOIDED; one
\* commit at the end covers them all.
CleanupNext(s) ==
    /\ sess[s].pc = "work" /\ sess[s].lines = <<>>
    /\ \E t \in sess[s].todo :
           sess' = [sess EXCEPT ![s].todo = @ \ {t},
                                ![s].marks = @ \cup {t},
                                ![s].lines = txns[t].lines]
    /\ UNCHANGED <<dbVars, payVars, plock, tlock, requests>>

-----------------------------------------------------------------------------
(* Flush, commit, failure *)

Flush(s) ==
    /\ Ready(s) /\ RowsFree(s) /\ Accepted(s)
    /\ sess' = [sess EXCEPT ![s].pc = "commit"]
    /\ plock' = [p \in Product |-> IF p \in Dirty(s) THEN s ELSE plock[p]]
    /\ tlock' = [t \in Txn |-> IF t \in sess[s].marks THEN s ELSE tlock[t]]
    /\ UNCHANGED <<dbVars, payVars, requests>>

\* A constraint refuses the flush: IntegrityError or DataError, rolled back.
RefuseFlush(s) ==
    /\ Ready(s) /\ RowsFree(s) /\ ~Accepted(s)
    /\ Rollback(s)

Restores(s) == sess[s].op \in {"void", "cleanup"}

\* The committed row of t after this session: only changed columns move.
Written(s, t) ==
    CASE sess[s].op = "create" ->
           [status |-> IF sess[s].cart.mpesa THEN "pending" ELSE "completed",
            lines |-> sess[s].cart.lines, mpesa |-> sess[s].cart.mpesa,
            ref |-> NoRef, checkout |-> NoRef]
      [] Restores(s) -> [txns[t] EXCEPT !.status = "voided"]
      [] sess[s].op = "push" -> [txns[t] EXCEPT !.checkout = sess[s].ref]
      [] OTHER -> [txns[t] EXCEPT !.status = "completed", !.ref = sess[s].ref]

Commit(s) ==
    /\ sess[s].pc = "commit"
    /\ stock' = [p \in Product |-> IF p \in Dirty(s) THEN sess[s].next[p] ELSE stock[p]]
    /\ ledger' = [p \in Product |-> ledger[p] + sess[s].rows[p]]
    /\ txns' = [t \in Txn |-> IF t \in sess[s].marks THEN Written(s, t) ELSE txns[t]]
    /\ sold' = [t \in Txn |-> IF sess[s].op = "create" /\ t \in sess[s].marks
                              THEN sold[t] + 1 ELSE sold[t]]
    /\ restored' = [t \in Txn |-> IF Restores(s) /\ t \in sess[s].marks
                                  THEN restored[t] + 1 ELSE restored[t]]
    /\ Release(s)
    /\ UNCHANGED <<payVars, requests>>

\* Waiting for a row another session has.
Blocked(s) ==
    \/ /\ sess[s].pc = "work" /\ sess[s].lines # <<>>
       /\ ~LockFree(plock[Head(sess[s].lines).product], s)
    \/ Ready(s) /\ ~RowsFree(s)

\* (Mistake) no lock_timeout on the connection.
NoTimeout(s) == FALSE

\* lock_timeout (or PostgreSQL's deadlock detector) ends the wait with an
\* error and the request with it.
LockTimeout(s) ==
    /\ Blocked(s)
    /\ sess[s].op = "cleanup" => Ready(s)
    /\ Rollback(s)

\* The cleanup loop catches the error of one row: the rows handled before it
\* are rolled back with it, and the loop goes on with the others.
CleanupRowFails(s) ==
    /\ Blocked(s) /\ sess[s].op = "cleanup" /\ ~Ready(s)
    /\ sess' = [sess EXCEPT ![s] = [Idle EXCEPT !.pc = "work", !.op = "cleanup",
                                                !.todo = sess[s].todo]]
    /\ plock' = [p \in Product |-> IF plock[p] = s THEN Free ELSE plock[p]]
    /\ UNCHANGED <<dbVars, payVars, tlock, requests>>

\* The worker dies; the database rolls the session back, and a callback that
\* got no answer is sent again.
Crash(s) ==
    /\ sess[s].pc # "idle"
    /\ Release(s)
    /\ receipt' = [r \in Ref |->
          IF sess[s].op = "callback" /\ r = sess[s].ref /\ receipt[r] = "answered"
          THEN "paid" ELSE receipt[r]]
    /\ UNCHANGED <<dbVars, pushed, requests>>

-----------------------------------------------------------------------------
(* Next and fairness *)

Arrive(s) ==
    \/ \E t \in Txn, cart \in Carts : BeginCreate(s, t, cart)
    \/ \E t \in Txn : BeginVoid(s, t)
    \/ \E t \in Txn, r \in Ref : BeginConfirm(s, t, r)
    \/ \E t \in Txn : BeginPush(s, t)
    \/ \E r \in Ref : Callback(s, r)
    \/ \E r \in Ref : CallbackSkips(s, r)
    \/ \E p \in Product, a \in Adjustments : BeginAdjust(s, p, a)
    \/ \E p \in Product, v \in Overwrites : BeginUpdate(s, p, v)
    \/ BeginCleanup(s)

Proceed(s) ==
    \/ LockLine(s)
    \/ RefuseLine(s)
    \/ RefuseCash(s)
    \/ \E r \in Ref : PushAccepted(s, r)
    \/ PushFailed(s)
    \/ CleanupNext(s)
    \/ Flush(s)
    \/ RefuseFlush(s)
    \/ Commit(s)
    \/ LockTimeout(s)
    \/ CleanupRowFails(s)

\* Nobody has to send another request: the till may stay closed.  A session
\* that can not go on is a deadlock TLC reports.
Closed ==
    /\ \A s \in Session : sess[s].pc = "idle"
    /\ \A r \in Ref : receipt[r] # "asked"
    /\ UNCHANGED vars

Next ==
    \/ \E s \in Session : Arrive(s) \/ Proceed(s) \/ Crash(s)
    \/ \E r \in Ref : CustomerAnswers(r)
    \/ Closed

Spec == Init /\ [][Next]_vars

\* A thread that can go on does: the thread pool runs it, the HTTP client has
\* a timeout and the database a lock_timeout.  Nobody has to send a request,
\* and workers need not crash.
FairSpec == Spec /\ \A s \in Session : WF_vars(Proceed(s))

-----------------------------------------------------------------------------
(* Properties *)

Unlocked == {"adjust", "update"}

\* A row lock belongs to a session at work on that row; an ended request, by
\* whatever path, leaves none behind.
LocksAreOwned ==
    /\ \A p \in Product : plock[p] # Free =>
           /\ sess[plock[p]].pc \in {"work", "commit"}
           /\ p \in sess[plock[p]].held \cup Dirty(plock[p])
    /\ \A t \in Txn : tlock[t] # Free =>
           /\ sess[tlock[t]].pc \in {"work", "commit"}
           /\ t \in sess[tlock[t]].marks

Current(s) ==
    /\ \A p \in sess[s].held : plock[p] = s /\ sess[s].base[p] = stock[p]
    /\ sess[s].op \notin Unlocked =>
          \A p \in Product :
              /\ sess[s].next[p] = sess[s].base[p] + sess[s].rows[p]
              /\ p \notin sess[s].held => sess[s].rows[p] = 0
    /\ sess[s].pc = "commit" => /\ \A p \in Dirty(s) : plock[p] = s
                                /\ \A t \in sess[s].marks : tlock[t] = s

\* What a session believes is what the tables say: a product it locked is as it
\* loaded it until it ends, so the absolute value its UPDATE writes is the
\* stock plus exactly the units of its ledger rows; and every row it is about
\* to commit is its own.
LockedIsCurrent == \A s \in Session : Current(s)

Exists(t) == txns[t].status # "absent"

Sound(s) ==
    /\ sess[s].pc = "await" => sess[s].op = "push"
    /\ sess[s].todo # {} => sess[s].op = "cleanup"
    /\ sess[s].op \in Unlocked \cup {"none"} => sess[s].marks = {}
    /\ sess[s].op = "create" /\ sess[s].pc = "commit" =>
          \A t \in sess[s].marks : ~Exists(t)
    /\ sess[s].op # "create" => \A t \in sess[s].marks \cup sess[s].todo : Exists(t)
    /\ sess[s].op \in {"push", "confirm", "callback", "cleanup"} =>
          \A t \in sess[s].marks \cup sess[s].todo : txns[t].mpesa
    /\ sess[s].op = "callback" =>
          \A t \in sess[s].marks : tlock[t] = s /\ txns[t].status = "pending"

\* What a session marks is still there and fit for its mark when it commits: a
\* new number is unused, every other row exists and is a sale of the right
\* kind, and the row of a callback stays pending under its lock.
MarksAreSound ==
    /\ \A t \in Txn : txns[t].status = "pending" => txns[t].mpesa
    /\ \A r \in Ref : receipt[r] # "none" =>
          pushed[r] \in Txn /\ Exists(pushed[r]) /\ txns[pushed[r]].mpesa
    /\ \A s \in Session : Sound(s)

\* "Every qty change is recorded here; this table is authoritative": the stock
\* is the sum of its ledger.
LedgerIsAuthoritative == \A p \in Product : stock[p] = ledger[p]

\* The handlers that lock a product before they read it (sale, void, cleanup)
\* move the stock by exactly what they enter in the ledger, whatever else runs:
\* only adjust_stock and a PATCH of stock_quantity, which read without a lock,
\* can open a gap between stock_quantity and the stock_movements ledger.
Gap(p) == stock[p] - ledger[p]
GapOnlyFromUnlocked ==
    [][\A p \in Product : Gap(p)' # Gap(p) =>
          \E s \in Session : /\ sess[s].pc = "commit" /\ sess'[s].pc = "idle"
                             /\ sess[s].op \in Unlocked]_vars

\* An Idempotency-Key sells once: however often and however concurrently a
\* sale is retried, one posting leaves the stock, and a key is sold exactly
\* when its row exists.
KeySellsOnce ==
    \A t \in Txn : sold[t] = IF txns[t].status = "absent" THEN 0 ELSE 1

\* The status tells where the goods are: a pending sale and a completed cash
\* sale still hold theirs, and a voided sale has given them back.
StatusTellsGoods ==
    \A t \in Txn :
        /\ txns[t].status \in {"absent", "pending"} => restored[t] = 0
        /\ txns[t].status = "completed" /\ ~txns[t].mpesa => restored[t] = 0
        /\ txns[t].status = "voided" => restored[t] >= 1

\* The books of the shop, read off the tables.
Book == INSTANCE StockBook WITH
            book <- [t \in Txn |-> [status |-> txns[t].status,
                                    lines |-> txns[t].lines]]

\* The units of product p that count[t] postings of each sale t move.
Moved(count, p) ==
    UNION {(({t} \X (1..count[t])) \X Book!Goods(txns[t].lines, p)) : t \in Txn}

\* Without the unlocked handlers the ledger is made of whole sales and whole
\* restores only, and the stock is its sum: no failure leaves a sale or a void
\* half posted, and a line is never lost when a cart names a product twice.
WholePostings ==
    \A p \in Product :
        /\ stock[p] = ledger[p]
        /\ ledger[p] = OpeningStock[p] + Cardinality(Moved(restored, p))
                                       - Cardinality(Moved(sold, p))

\* Every step of the concurrent handlers is one whole entry in the books of
\* StockBook, or none.
KeepsTheBooks == Book!Spec

\* The callback completes only a row that is pending at its commit: a void, a
\* second callback or a manual confirmation can not slip in after its check.
CallbackCompletesPending ==
    [][\A s \in Session :
          sess[s].op = "callback" /\ sess[s].pc = "commit" /\ txns' # txns
              /\ sess'[s].pc = "idle"
          => \A t \in sess[s].marks : txns[t].status = "pending"]_vars

\* A sale never takes more than the shelf has, with or without the database's
\* own CHECK: the check under the row lock is enough for carts that name each
\* product once.
NoOversell == \A p \in Product : stock[p] >= 0

\* No request hangs: two sales locking the same products in opposite orders,
\* or anything waiting for a row, is ended by the lock timeout.
EveryRequestEnds ==
    \A s \in Session : sess[s].pc # "idle" ~> sess[s].pc = "idle"
=============================================================================
