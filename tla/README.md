# DukaPOS in TLA+

DukaPOS is a point of sale for Kenyan shops: a FastAPI/SQLAlchemy backend over
PostgreSQL (`src/backend/app`, four uvicorn workers in production), a Node agent
that copies a shop's database to the cloud (`src/sync-agent/src`), and an
Electron/React till with an offline queue (`src/frontend`). This directory models
the parts where several actors meet: concurrent requests on the same rows, calls
to Safaricom and KRA that are lost or answered late, crashes, and queues that
survive restarts.

Run a check with `tlc -config MCSalesStock.cfg MCSales.tla`, a proof with
`tlapm SalesProofs.tla`. `PROJECT.json` maps every definition to the lines it
stands for.

## 1. Inventory

| Component | State | Operations | Meets | Hard behaviour | What makes it correct |
|---|---|---|---|---|---|
| **Sales and stock** (`routers/transactions.py`, `mpesa.py`, `products.py`, `main.py`) | `transactions`, `transaction_items`, `products.stock_quantity`, `stock_movements`; row locks | create, void, mpesa-confirm, stk-push, callback, adjust, PATCH, startup cleanup | Safaricom, the database, every other writer of stock | absolute writes of values read earlier; reads with and without FOR UPDATE; skip-locked callbacks; lock waits; crash before commit | a key sells once; stock and ledger move together; status tells where the goods are; a paid sale is completed; no request hangs |
| **Procurement** (`services/procurement.py`, `routers/procurement.py`) | purchase orders, items, goods received notes, invoice matches | create, submit, approve, cancel, receive, post, match | stock and ledger | status read without a lock, over-receipt, posting twice, an order cancelled under a receipt | a GRN is posted once; received = sum of posted GRNs; a closed order moves no goods |
| **Sync agent** (`sync-agent/src`) and **cloud ingest** (`routers/sync.py`) | checkpoint file, retry queue, dead letters; cloud tables | outbox of sales, CDC of products and customers, pull of cloud updates, mark-synced | the shop's database, the cloud API | batches half accepted, answers lost, ties on `updated_at`, restarts between apply and checkpoint | every completed sale reaches the cloud exactly once; no change is skipped; no echo |
| **Offline queue** (`frontend/electron/main.js`, `src/api/client.js`, `hooks/useOfflineQueue.js`, `pages/POSTerminal.jsx`) | an SQLite table of unsent sales, the page's cart and key, the session's tokens | enqueue, drain, mark, refresh, log in, mount and leave | create_transaction, login | a sale sent and not answered, a session that dies in a drain, two drains at once, a failed INSERT | a sale with a receipt is kept; it is made twice only when its answer was lost; the queue drains |
| **Subscription** (`routers/subscription.py`, `platform.py`) | stores: status, trial end, paid end; payments | register, upgrade push, callback, activate, suspend, reinstate, trial end | Safaricom, every premium endpoint | no row is locked: callbacks, activations and suspensions work on what they read | no time nobody granted; a payment counts once per overlapping request at most; a suspension survives a renewal |
| **eTIMS** (`routers/etims.py`, `services/etims.py`) | etims_synced, invoice number, attempts in the audit trail | submit, retry-all, background retry | KRA | read, await, write: submissions of one sale overlap; answers lost; retries in memory only | the number is a receipt KRA issued; a queued sale stays in hand and its retry ends; a filing stays |
| **Notifications** (`core/notifier.py`, `core/pubsub.py`, `routers/ws.py`, `hooks/useMpesaSocket.js`) | sockets and tickets per worker, one Redis channel, the page's refs and timers | ticket, connect, disconnect, publish, relay, reconnect | callback, tills | everything goes by the terminal's name; reconnect before the old socket is gone; Redis down; a ticket of another worker | a till that thinks it is connected can be reached; a connected till hears of its payment; the page keeps trying |
| **Product cache** (`core/cache.py`, `routers/products.py`) | Redis entries with TTL | read-through, invalidate | product writes | fill after invalidate; invalidations lost; writers that make none | no answer older than its TTL and one wait; only an overlapping reader leaves an old list |
| **Auth and limits** (`routers/auth.py`, `core/security.py`, `core/deps.py`) | revoked refresh tokens, ws tickets, rate counters | login, refresh, logout, ticket | workers (each has its own memory) | rotation seen by one worker only; Redis lost | a refresh token rotates once |
| **Pricing** (in `create_transaction` and `submit_invoice`) | the amounts of a sale's row | totals, VAT, change, invoice amounts | receipts, eTIMS | rounding of each amount on its own | total = subtotal + VAT after rounding; cash in less change out is the total |

Not modelled: reports, audit listing, logging, metrics, request middleware,
API versioning, seed and backup scripts, nginx, the React pages (presentation),
Alembic migrations beyond the constraints they add. None of them changes the
state above except by calling the endpoints that are modelled.

## 2. Plan

The most important behaviour first; every module below is built and checked.

1. `Sales` with `StockBook`, the abstract specification it implements; proved.
2. `Procurement`: orders, goods received notes and invoices, over the same session
   steps; proved.
3. `Outbox` with `Delivery`, the abstract specification it implements: sales on
   their way to the cloud; proved.
4. `Subscription` with `Entitlement`, the abstract specification it implements as
   long as no request commits on a stale read; proved, that refinement too.
5. `Etims` and `Pricing`: filing sales, and the money of a sale; proved.
6. `OfflineQueue`: till, queue and the server's side of a sale; proved.
7. `CatalogSync`: products and customers up, products down; proved. What it shares
   with `Outbox` - sizes, and things that fail - is in `Agent`.
8. `TillSocket`: sockets, tickets, registries and the relay between workers; proved.
9. `ProductCache`: the two cached answers; proved.

"Proved" means the safety and action properties of the runs; liveness stays with TLC.

Left for later: `Tokens` (revocations and rate counters per worker) as a module, if the
workers are ever given a shared store, since today there is nothing between them to
check.

## 3. The modules

### Sessions (`Sales`, `Procurement`)

The backend is synchronous SQLAlchemy in FastAPI's thread pool, in four uvicorn
processes. `SessionLocal` has autoflush off, PostgreSQL runs at READ COMMITTED.
One request is one *session*, and both modules cut a handler at the points where
another request can come between:

| Step | Code | Model |
|---|---|---|
| a request starts and reads | the first queries of the handler, its early returns | `Begin...`: the guard is the early returns, the session keeps what was read |
| SELECT ... FOR UPDATE | `.with_for_update()` in an item loop | `LockLine`, `ShelveLine`, `CreditItem`, `SettleOrder` |
| in memory | attributes of loaded objects; loading a row again gives the object in the identity map | `base`, `next`, `rows` in Sales, `mem` and `seen` in Procurement |
| flush | absolute values of changed columns, row locks, CHECK and UNIQUE constraints | `Flush`, `RefuseFlush` |
| commit | `db.commit()` | `Commit...`: writes become visible, locks go |
| error | `db.rollback()`, an HTTPException | `Rollback`: nothing was written |
| wait | lock_timeout of 10 s, deadlock detector | `LockTimeout`, enabled whenever the session waits |
| death | a worker killed, a connection dropped | `Crash` at any step |

Two things matter here and are easy to lose in a model. An UPDATE writes the value
computed in memory, not `stock_quantity - n`, so a read that is not under a lock
makes a lost update. And a second SELECT FOR UPDATE of the same row in the same
session does not refresh the object, so a cart that names a product twice works on
the first reading.

### Sales

Variables: `stock` and `ledger` (`products.stock_quantity` and the sum of
`stock_movements.qty_delta`), `txns` (the transactions table), `sold` and
`restored` (committed postings per transaction), `plock` and `tlock` (row locks),
`sess` (memory of each session), `pushed` and `receipt` (what Safaricom knows),
`requests` (the bound).

| Operation | Code | Actions |
|---|---|---|
| POST /transactions | `transactions.py` create_transaction | `BeginCreate`, `LockLine`, `RefuseLine`, `RefuseCash`, `Flush`, `RefuseFlush`, `Commit` |
| POST /transactions/{id}/void | void_transaction | `BeginVoid`, then the same |
| POST /transactions/{id}/mpesa-confirm | mpesa_confirm | `BeginConfirm`, `Flush`, ... |
| POST /mpesa/stk-push | `mpesa.py` | `BeginPush`, `PushAccepted`, `PushFailed`, ... |
| POST /mpesa/callback | `mpesa.py` | `Callback` (row found by SKIP LOCKED), `CallbackSkips` |
| the customer | external | `CustomerAnswers` |
| POST /products/stock/adjust, PATCH /products/{id} | `products.py` | `BeginAdjust`, `BeginUpdate` |
| startup | `main.py` _cleanup_stale_mpesa | `BeginCleanup`, `CleanupNext`, `CleanupRowFails` |

Safaricom sends a callback again only if its answer was lost, because the handler
answers "Accepted" on every path. Receipts are unique (`uq_txn_mpesa_ref`).
`StockBook` is the promise of the module's docstring ("no partial writes"): each
request is one atomic entry, or none. `Sales!Book` instantiates it over the
tables, and `KeepsTheBooks` is the refinement.

### Procurement

Variables: `orders`, `itemOf`, `spent` (item ids given out, so that an edit that
replaces the items gets new ids), `notes`, `qty` (stock and received quantities in
one table of counters), `posted`, `matches`, `lock`, `sess`, `requests`.

Order operations (`BeginSubmit`, `BeginApprove`, `BeginCancel`, `BeginEdit`) read
the order without a lock and write at their commit what they decided then
(`CommitStatus`, `CommitEdit`). `BeginReceive` reads the order, unlocked too, and
`CommitReceive` enters a draft note, or `RefuseReceive` finds its items gone.
`BeginPost` and `BeginVoid` lock the note. A
posting goes over its lines (`ShelveLine` locks the product, `CreditItem` the order
item, `ItemGone` finds it deleted), settles the order (`SettleOrder`, with the
quantities in memory) and writes it all in `CommitPost`, or is refused by the
schema in `RefusePost`. `MatchInvoice` and `ResolveInvoice` are single steps; they
lock nothing that matters to others.

`Admitted` says which ledger rows the schema takes. There are two schemas: the one
the Alembic migrations build, in production, and the one `create_all` builds from
the models, in the test suite. The runs use both and name which.

### Outbox and Delivery

Variables: `status`, `sold`, `synced` (the shop's table), `queue` and `dead` (the
JSON files of the agent), `agent` (one process, one cycle at a time), `request`
(what the cloud's workers are doing), `copies` (rows in the cloud), `faults`.

The shop: `Enter`, `Confirm`, `Void`. The agent: `Tick` starts a cycle; `Promote`,
`Replay`, `ClearRetryItem`, `MarkRetried` drain the retry queue; `Post`,
`NonePending`, `PushRetryQueue`, `MarkSynced` handle the batch of the cycle;
`Resend` and `GiveUp` are axios's retries. The cloud (`sync_transactions`):
`Skip`, `NotThere`, `Insert`, `InsertFails` go over the records, looking and
inserting in two steps because another request may insert between them; `Commit`
ends the batch and answers 200 whatever happened to its records. Faults:
`LoseConnection` (the cloud works on for nobody), `CloudFails`, `AgentStops`.

`MarkReachesShop` is FALSE in the code: the agent sends an API key to an endpoint
that wants a cashier's token. The action `MarkSynced` keeps both branches, so that
a repaired endpoint is one definition away. Since nothing is marked, a sale with a
batch's worth of older ones before it (`Behind`) is never `Selected`;
`EverySaleArrives` names that exception. `Delivery` is what the ingest
endpoint's docstring promises; `DeliversOnce` is the refinement. The module assumes
a shop schema in which the agent's query for `status = 'completed'` returns rows:
the models declare enum labels that are the upper-case names, and a database made
from them would refuse the agent's lower-case literals.

### Subscription and Entitlement

Variables: `now` (a clock of whole periods), `stores`, `payments`, `wire` (how far
Safaricom got with each push), `sess` (what each request has in hand), and the
ghosts `answered`, `failed`, `posted`, `granted`.

| Operation | Code | Actions |
|---|---|---|
| POST /subscription/register | `subscription.py` register_store | `Register`, `InsertStore` |
| POST /subscription/upgrade | initiate_upgrade, `services/mpesa.py` stk_push | `Upgrade`, `Push`; the phone is `Customer` |
| POST /subscription/mpesa-callback | subscription_mpesa_callback | `Callback` (the payment), `Load` (the store), `Commit` or `Fail` |
| POST /subscription/activate, platform activate, suspend, reinstate | `subscription.py`, `platform.py` | `Command`, `Load`, `Commit` |

No handler locks a row. `Written` is SQLAlchemy's UPDATE: only columns whose value
differs from the loaded one are written, as absolute values. A session whose rows
another request has changed since it read them is `stale` (`Ends` marks it).
`Entitlement` is what the comments promise a store without requests: time is added
to what is left, a payment counts once, suspending closes and reinstating opens.

### Etims and Pricing

`Etims`: `filing` (invoice number and etims_synced), `attempts` (audit rows),
`issued` (KRA), `task` (coroutines), and the ghosts `queued` (sales answered
"queued_for_retry"), `dropped` (their retry ended with an error or its worker) and
`takenBack` (a later batch took the filing back). `Submit` is the till's
call; when it fails and its commit gets through it goes on as the background retry of
its sale (`Afterwards`, `Wake`, `ReadForRetry`). `RetryAll` takes its list once and
goes through it in batches (`Take`, `Full`); after each commit the session loads the
rest afresh. `Answer` is what KRA says: `Issues`, `Repeats` (it had the number),
`Refuses` (or its answer is lost). `CommitFails` and `Dies` end a task; what a commit
writes is `Written`.

`Pricing` is one counter: `RingUp` makes the `receipt` of a cart of two lines, with a
discount on the whole and cash, or refuses it; `File` makes the `invoice` of it; both
in cents, with quantize's rounding half to even.

### OfflineQueue

Variables: `online`, `session` (good, expired or none), `mounted` and the coroutines
of each mounting of the page (`till`, `drain`), the table (`queue`, `status`), `sold`
(sales the server made), and ghosts that name each way a sale can be lost or doubled:
`unwritten` (its INSERT failed), `dropped` (taken off after the session had died),
`unanswered` (made, but the till did not get to know), `unrecorded` (made, but the drain
could not mark it) and `shared` (two drains had its row).

| Operation | Code | Actions |
|---|---|---|
| completing a sale | `POSTerminal.jsx` handleCompleteSale | `SellOnline` then `TillPost`, or `SellOffline`; `ClearCart` |
| POST, refresh, dead session | `api/client.js` | `TillPost`, `PostMakes`, `PostDropped`, `PostFails`, `Refresh`, `SessionEnds` |
| the drain | `useOfflineQueue.js` syncQueue | `GoOnline` starts it, unless getQueue throws; `Mark` is clearItem or markFailed, `ClearFails` a clearItem that throws, which the catch of the post takes for a failed post, `MarkFailedFails` a markFailed that throws, which ends the drain |
| main process | `electron/main.js` | the inserts and updates inside those actions; `Restart` |
| the cashier and the line | - | `Mount`, `Leave`, `LogIn`, `GoOnline`, `GoOffline`, `Expire` |

### CatalogSync

Variables: `local` and `cloud` (a version and a time per row), `checkpoint` and
`since`, `retry` (queued batches with the values of then), `left` (requests at work in
the cloud for nobody), `push` and `pull` (the two cycles of the agent, which overlap),
ghosts that name what may keep a row behind.
`StartPush`, `ReplayBatch`, `Query`, `SendChanges` and `Requeue` are a cycle of
`syncEntity`;
`Fetch` and `Apply` one of `pullCloudUpdates` (`Updates` or `RollsBack`). What becomes
of a POST: it is answered (`Taken`, or `LetGo` if its commit failed), it comes to nothing
(`Lost`), or its connection breaks and it stays in `left` (`Leaves`), whereupon axios may
post it again or the batch is queued; at a `Crash` of the agent the one on its way may
stay too. What is left looks the rows up (`Look`) and commits (`LateCommit`) at any two
later moments. `Wins` is the cloud's rule for customers.

Every row gets the time the transaction that wrote it *began* (now() in PostgreSQL): a
change of shop or cloud, the ingest's upsert and the pull's UPDATE alike. `Recent` are
the times of transactions that may still commit, up to `Lag` ago; those of an answered
POST or a pull began after the SELECT or the feed they carry (`Since(from)`). A row may
so appear behind a mark that was moved past its time before its commit: `missed`,
`unpulled`. The shop starts with rows (`Started`), so that the first cycles have a batch
to cut.

### TillSocket

Variables: for each socket the page's state, the worker's state, the ticket's worker
and the worker it reached; the hook's refs (`current`, `connecting`, `retries`,
`timers`); for each worker its registry, the holder of its lock, whether its loop
runs, the events on their way and the send at work. The page: `Fire`, `Render`,
`GetTicket`, `OnClose`. The endpoint: `Accept`, `Refuse`, `Replace`, `Register`,
`HandlerEnds`, `Disconnect`. The event: `Publish`, `LookUp`, `Send`, `Pop`. Faults:
`Break`, `LoopEnds`, no ticket, a failed publish, a pong that is late (`HandlerEnds` of
an open page). A page may close a socket that is still opening (`Closed`), and the
worker may accept one the page has given up. Connect and disconnect hold the
registry lock across an await, the look-up of a send does not.

### ProductCache

Variables: `version` of the rows and the `age` of each, `entry` (the list and the
barcode answer in Redis with what is left of their TTL), `reader`, `writer`, `floor`
(the last invalidation that got through). `Miss` reads the rows, `Fill` stores them at
any time up to the socket timeout later, `Invalidate` deletes the list; each may fail
(`FillFails`, `InvalidateFails`), and `WriteQuietly` is every writer of products that
makes no invalidation. `Pass` is time.

## 4. The runs

| Run | What it checks | Bounds | States |
|---|---|---|---|
| `sales_stock` | `KeySellsOnce`, `WholePostings`, `EveryRequestEnds`: sales and voids that lock two products in opposite orders, a cart that names a product twice, an empty one | 2 sessions, 2 products, 2 numbers, 4 requests | 14,713 |
| `sales_gap` | `GapOnlyFromUnlocked`, `NoOversell`: corrections and a PATCH beside sales and voids, no CHECK on the stock | 3 sessions, 1 product, 2 numbers, 4 requests | 31,303 |
| `sales_mpesa` | `StatusTellsGoods`, `KeepsTheBooks`, `CallbackCompletesPending`: pushes, answers, callbacks sent again, confirmations, voids, cleanup | 2 sessions, 2 products, 2 numbers, 2 receipts, 5 requests | 165,190 |
| `procurement_receive` | `NotePostsOnce`, `CountersArePostings`, `StatusFollowsReceipts`, `EveryRequestEnds`: notes with lines in opposite orders, a product twice in a note, posting against cancelling | 2 sessions, 1 order of 2 items, 2 notes, 4 requests; tables made from the models | 41,302 |
| `procurement_orders` | `MatchedGoodsCame`: drafts edited under a receipt, items deleted, invoices | 2 sessions, 2 orders, 1 note, 1 invoice, 6 requests; migrated schema | 157,382 |
| `outbox` | `NoHalfSale`, `DeliversOnce`, `EverySaleArrives`: three sales, one refused at its items, two to a batch | 3 sales, batch of 2, 2 requests in the cloud, 1 replay, 2 faults | 579,950 |
| `subscription` | `NeverMoreThanGranted`, `CountedByOverlapOnly`, `AnsweredIsCounted`, `SuspensionHolds`, `ApartIsExact`: repeated callbacks, activations, suspensions over unlocked reads | 1 store, 2 payments, 2 sessions, clock 0..2, 5 requests | 377,595 |
| `etims` | `FilingsAreSound`, `QueuedIsInHand`, `LostByLaterBatchOnly`, `RetryEnds`, and over a range of carts `MoneyBalances` (`TotalsAddUp`, `CashBalances`, `RefusedWithinACent`) and `TaxAgrees` (`LineVatsNearTotal`, `ItemTaxIsWithin`) | 2 sales, 2 tasks, batches of 1, 3 attempts, 3 requests, 1 fault; lines to 16 cents, cash to 38, two discounts | 507,062 |
| `offline` | `QueueIsSound` (`ReceiptIsKept`), `NoDoubleSale` (`SoldTwiceUnawares`, `WaitingIsUnsold`), `SyncedIsFinal`, `QueueDrains` | 2 sales, 2 mountings, 1 move of the cashier or restart, 1 fault | 440,666 |
| `catalog` | `CheckpointIsSound` (`BehindIsDelivered`), `GoesBackByLateBatch`, `UndoneByEarlierFeed`, `Converges` | 3 items, 2 of them rows at first, batch of 2, clock 1..2, transactions up to 1 long, 1 change, 2 replays, 3 ticks, changes and faults | 826,206 |
| `product_cache` | `NoOlderThanTTL`, `OldListWasLate` | 2 readers, 2 writers, TTLs 2 and 3, wait 1, 2 changes | 415,604 |
| `live` | `RegistryAgrees` (`RegisteredIsServed`, `OpenIsRegistered`), `ReachesWhoStays`, `NeverStuck` (`KeepsTrying`, `GuardIsHeld`) | 2 workers, 3 sockets, 1 event, 2 retries, 1 re-render, 1 fault | 914,079 |

Every module has a type invariant, `TypeOK`, and it is proved in each (section 5). The
runs do not repeat it, nor `LocksAreOwned`, `LockedIsCurrent` and `MarksAreSound`, except
as the first part of `FilingsAreSound`, `QueueIsSound`, `CheckpointIsSound` and
`RegistryAgrees`.

Why these are enough. In `Sales` and `Procurement` every conflict is between two
requests on one row or on two rows in opposite orders, so two sessions and two
products show all of them; the third session of `sales_gap` is for the lost update
between two writers beside a third that holds the lock. Four requests are a sale, its
retry, a void and a second void; five add a push and a callback; six take an order
from draft to a posted note with an edit or a cancellation in between. The third
sale of `outbox` is the one that LIMIT cuts when two older ones wait; two faults lose an
answer and stop the agent, or lose the replay's answer too. In
`sales_mpesa` the schema is the unconstrained one, since on the migrated one the
cleanup never succeeds and would hide itself.

`subscription`: rows of different stores never meet, so one store; two payments let one
callback extend what another has, two sessions are the overlap, and five requests are
two upgrades, their callbacks and a command between. `etims`: a batch of one makes the
second sale a later batch; three attempts leave a retry between the first and the last;
the rate's remainders repeat after 25 cents, and two lines of up to sixteen hold each
of them. The counter of `Pricing` is open only while no sale of `Etims` is completed
(`MCEtims`), since amounts and filings do not touch each other. `offline`: two
mountings are the old and the new page; one fault is a lost answer, a refusal, a failed
statement of the queue or a refresh that fails; access tokens run out freely. `catalog`:
two rows of different times and a third item the shop may add let a batch of two leave
one out; a change and one fault (a connection broken, a crash) let a left-over request
write the old value over the newer one, and the feed brings it to the shop; a change
and a tick put a row behind a mark. All four changes of a row (shop, cloud, ingest,
pull) can be late by `Lag`. `live`: three sockets are the one replaced, its successor,
and the one that finds out; two workers are the one with the socket and another. `product_cache`: TTLs of two and three
units with a wait of one keep the order of the real ones (300 s, 600 s, 2 s).

`MaxRequests`, `MaxFaults`, `MaxMoves`, `MaxRenders`, `MaxWrites`, `MaxClock`,
`MaxVersion` and `MaxEvents` are the only caps and stand in guards of what the
environment does.
Symmetry is used only in runs without liveness. Where there is a next request a session
that could not go on would be reported: TLC's deadlock check is on, and `Closed` in
`Sales` and `Procurement` keeps a finished system from counting as one. It is off in
`subscription`, `etims` and `live`, where a bounded number of requests, receipts or
sockets really does come to rest.

Fairness. `Sales` and `Procurement`: weak fairness of `Proceed(s)` for each session,
since a thread of the pool that can go on is scheduled, the HTTP client has a timeout
and the database a `lock_timeout`; requests and crashes are not fair. `Outbox`: weak
fairness of the agent, because cron starts cycles for as long as the process manager
keeps it up, and of each request at work in the cloud. `Etims`: weak fairness of each
task, since KRA is asked with a timeout of 10 s and a sleep ends. `CatalogSync`: weak
fairness of the two cycles and of the requests left in the cloud, which end;
`Converges` asks besides that a sending cycle is alone again and again, which every
minute against every five gives.
`OfflineQueue`: weak fairness of each drain's steps and of mounting a page, and strong
fairness of a drain's post that is answered and of a login: the line and the
cashier do not fail for ever. `QueueDrains` asks besides that the line comes back again
and again with the till on the screen, because nothing else starts a drain. Nobody has
to buy anything and no fault has to happen.

### Where the code does not do what it says

The properties above are stated with the exceptions the code needs, so that they hold;
these are the exceptions, and what was met beside them.

Sales, M-PESA and stock:

- Two voids that both read the sale completed both restore its stock
  (`transactions.py:267`): the status is not looked at again after the waits for the
  product locks, where `tests/test_transaction_integration.py:247` says a sale can not
  be voided twice.
- A manual confirmation that read the sale pending is written over a void committed
  meanwhile (`transactions.py:333`, 337): the sale is completed and its goods are back
  in stock. `StatusTellsGoods` leaves completed M-PESA sales out for that reason.
- The startup cleanup writes the movement type `mpesa_timeout_restore` (`main.py:140`),
  which `chk_sm_movement_type` refuses: on the migrated schema stale sales keep their
  stock for ever.
- A callback that finds its row locked by any other request is answered "Accepted" and
  dropped (`mpesa.py:187`): the customer paid and the sale stays pending. So is one
  that comes before the push handler has stored the checkout id (`mpesa.py:83`).
- `adjust_stock` clamps the stock at zero (`products.py:66`) and enters the quantity as
  sent, against "this table is authoritative" (`models/product.py:108-109`);
  `GapOnlyFromUnlocked` confines the drift to that handler and the PATCH. The reasons a
  manager may type are wider than the CHECK admits.
- Exact cash for a total that was rounded down is refused (`transactions.py:107`):
  cash is compared with the unrounded total (`RefusedWithinACent`).
- A discount on the whole sale is in its total and in none of its lines
  (`transactions.py:100`, 137): the taxes stored for the lines then add up to more
  than the sale's (`LineVatsNearTotal` leaves these out).

Procurement:

- A submission, approval or edit overtaken by a cancellation takes the cancelled order
  back (`services/procurement.py:320`), against "terminal states - don't touch" (116).
- On the migrated schema every posting that moves goods is refused: its movement types
  and zero deltas (496-523) are not admitted (`0003`, lines 76-80).
- Over-receipt is warned of, not refused (535, docstring line 12); a note may credit an
  item of another order (430; `WellLinked` in `StatusFollowsReceipts` names this); a
  note can be posted after its order was cancelled (384); an invoice against neither
  order nor note is matched (628); base units are rounded half up where the docstring
  says up, and truncated for `unit` (224).

The agent and the cloud:

- mark-synced is posted with the agent's API key to an endpoint that wants a cashier's
  token (`syncLoop.js:339`, `transactions.py:361`): no sale is ever marked, every cycle
  sends the same oldest batch, and with one sale more than a batch holds the newest
  never leaves the shop, against "NEVER silently dropped" (247): the exception
  `Behind` in `EverySaleArrives`, and a refused sale in the same batch is the other. Were the mark accepted, it
  would cover the whole batch even if the cloud rolled a record back.
- A refused record takes back those inserted before it in its batch; a sale voided
  after it was sent stays completed in the cloud; the response cache that
  `sync.py:303-304` speaks of is not there.
- The checkpoint passes rows whose transaction commits late (`syncLoop.js:213`), rows of
  a commit the cloud answered with 200 and `synced: 0` (`sync.py:180`), and, for the
  pull, rows of a transaction it rolled back (`syncLoop.js:409`): the ghosts `missed`
  and `unpulled` in `BehindIsDelivered` and `Converges`.
- A queued batch is replayed over newer rows (`syncLoop.js:99`), a request that outlived
  its connection commits after them (`cloudApi.js:15`, 31), and the feed brings the
  old values back to the shop (`late` in `GoesBackByLateBatch` and
  `UndoneByEarlierFeed`). Overlapping
  cycles swap two versions. Rows of one millisecond that fill a batch block what comes
  after them (`Stuck`). Customers are compared by the time the cloud wrote them.

The till:

- The Idempotency-Key is never sent: `post()` gives its options in the place of
  request()'s retry flag (`client.js:149`), so a repeated sale is a second sale
  (`unanswered` in `SoldTwiceUnawares`). So is one whose clearItem throws: the catch is
  that of the post (`useOfflineQueue.js:143`), the row becomes failed, and the next drain
  sells it again (`unrecorded`).
- A session that dies during a drain makes request() return undefined (`client.js:125`),
  and the drain takes that sale and every one after it off the queue (`dropped` in
  `ReceiptIsKept`). The result of the enqueue is not looked at before the receipt is
  printed (`unwritten`).
- Two mountings of the page drain at once (`shared`); a drain starts only on an online
  event, so that sales queued before a restart wait for the line to go down and come
  back; the retry limit reads `_attempts`, which no row carries
  (`useOfflineQueue.js:127`), and is never reached.
- Voiding the cart while a sale is being posted leaves the sale standing. The M-PESA
  push needs the id of a receipt that completing the sale gives only after the payment
  is confirmed.

Subscriptions:

- Two deliveries of one callback at once both extend the store (`subscription.py:257`);
  an extension read before another's commit is lost (266); an exception is answered
  "Accepted" and the payment stays uncounted (273, `failed` in `AnsweredIsCounted`).
- A callback that loaded a trial store makes it active after a suspension committed
  meanwhile, while the store stays closed otherwise; reinstating puts a paid store on
  trial (`platform.py:210`).
- The push of an upgrade names the callback of sales (`services/mpesa.py:84`):
  `MPESA_CALLBACK_URL_SUBSCRIPTION` is read nowhere. The model lets the callback arrive
  as a deployment that routes it would.

eTIMS:

- A later batch of retry-all files a sale again that another task has filed, and may
  write KRA's refusal over the receipt (`etims.py:177-190`): the exception in
  `LostByLaterBatchOnly`. Only columns that changed are
  written, so that after such a taking back further batches can leave a sale marked
  as filed with no number (`takenBack` in `FilingsAreSound`).
- retry-all starts no background retry for what it could not file, and neither does a
  submission whose commit failed; retries end with their worker (`dropped` in
  `QueuedIsInHand`).
- Line totals are split as if they included the tax (`services/etims.py:58`): the items
  of an invoice claim less than its total tax (`ItemTaxIsWithin`).

Notifications and cache:

- The finally of an old handler disconnects by terminal and closes the new socket
  (`notifier.py:92`). A send that failed late takes the new socket off without closing
  it (108): the till thinks it is connected and hears nothing (`robbed`).
- Tickets are known to the worker that issued them (`auth.py:40`), with four workers
  behind the proxy; a refusal before the handshake does not reach the page as 4001, so
  it counts as one of its retries. An error ends the subscriber loop for good
  (`pubsub.py:186`). A change of the page's callbacks closes the socket and starts a
  second one beside the retry of the first (`useMpesaSocket.js:122-130`).
- Barcode answers are never invalidated and live ten minutes, where `cache.py:9` says
  five; a list read before a change may be stored after its invalidation
  (`OldListWasLate`).
- Revoked refresh tokens are remembered by one worker (`security.py:54`), against "can
  never be replayed" (47).

## 5. The proofs

Each theorem holds for every value of the constants that satisfies the named
ASSUMEs of its module, with no bound on sessions, products, sales, stores, payments,
readers, requests or faults: `MaxRequests` and its like are arbitrary naturals.

**Sales** (`SalesProofs`). Type correctness comes first. The
invariant has three parts, proved one after the other because they speak of different
tables.

- `LockedIsCurrent`: a product that a session holds is as it loaded it, what it will
  write is that plus its ledger rows, and at the commit it owns every row it writes.
  It is inductive given the types: a step of session s leaves what the others hold alone
  (`Undisturbed`, `CurrentFrame`), so each action has only its own session to mind.
  From it: `GapTheorem` (only the two handlers that read without a lock can move stock
  and ledger apart), `LedgerTheorem` (without them the stock *is* its ledger, in every
  state) and `OversellTheorem` (if carts name each product once and no PATCH is
  negative, the row lock alone keeps the stock at or above zero, whether or not the
  CHECK is there). The hypothesis on carts is needed: the check of a line does not see
  what earlier lines of the same cart take.
- `MarksAreSound`: the rows a session is about to mark fit the mark - a number being
  sold is unused, a callback's row is pending under its lock. From it: `KeyTheorem`
  (a number is sold exactly once when its row exists), `StatusTheorem`
  (the status tells where the goods are) and `CallbackTheorem`.
- `PostsInv`: the ledger rows in a session's memory are those of the lines it has dealt
  with, what is left to do is the rest of its cart or of the sales it gives back, and
  between two steps no unit is in both. A quantity is the cardinality of a set with one
  element for each unit (`Goods`, `Moved`), so that sums over lines and over sales are
  facts about disjoint finite sets and need no recursion. From it, with the other two:
  `PostingsTheorem` (without the unlocked handlers the ledger is the opening stock less
  the units of every sale posted, plus those of every sale given back) and
  `BooksTheorem` (every step of `Sales` is one entry of `StockBook` or none). That
  refinement is under hypotheses: no unlocked handler, which has no entry in the books,
  and carts that name a product once or the CHECK, without which a sale may take goods
  that are not there.
- `Covered`: with the CHECK, what a flushed session will write passed it and does not
  change before the commit (`CheckedTheorem`: no cart, correction or PATCH oversells).
- `LocksTheorem`: no path, failed ones included, leaves a lock behind.

**Procurement** (`ProcurementProofs`). The inductive invariant is typing, `NotesHeld`
(what a posting or cancelling session read of its note is still so, and the note is
its own) and `LocksAreOwned`. `NotePostsOnce` and `MatchedGoodsCame` are inductive
only relative to it: at `CommitPost` one must know that the note is still a draft,
which is what the lock held since `BeginPost` gives.

Orders are read without a lock, and a cancelled one may come back (section 4), but what
a posting writes to its order is right when it writes it (`StatusIsRight`, which is
`StatusFollowsReceipts` for any instance). `SettleInv` says why: from `SettleOrder` on
the posting holds the order's row (`Settled`), every other writer of the order's items
or counters needs that lock, and a posting credits only items its note names
(`Follows`), which are of its order - unless the note names items of another
(`WellLinked`, the exception of section 4). That an edit's deleted items do not come
back under another order is `IdsAreOnce`: ids are given out once.

The counters are the posted notes (`CountersTheorem`), units being counted as in Sales.
The invariant `CountInv` follows a posting line by line: it holds every counter it has
loaded, and what it has in hand plus what its remaining lines bring is the counter as
it stands plus what its note brings (`InStep`). A counter it has not loaded others may
move meanwhile, both sides alike. An edit under a posting deletes items and takes their
links out of the note, so both are claimed of the counters that are still there (`Kept`):
a line whose item is gone credits nothing, and brings nothing to any of those.

**Outbox** (`AgentProofs`). `DeliveryTheorem` shows that `Outbox` implements
`Delivery`, step by step. It needs `OnTheWay` (what is in the queue, in the agent or
in a request was completed), `OnlyRow` (an inserted, uncommitted row is the only one
of its sale: the unique index) and, for `WholeSales`, `Whole` (of the rows a request
has inserted only the last can lack its items, because the next flush writes them).
`Replaying` keeps the attempts within their type.

**CatalogSync** (`AgentProofs`). `CatalogInv` has five parts. `SoundInv`: a batch on its
way covers every row whose time the checkpoint is about to pass, which is what ORDER BY
with LIMIT gives at the SELECT and `LocalEdit`'s ghost keeps after it; a pull's UPDATE
may come behind the mark too, but what it writes the cloud has had. With it goes
`CheckpointTheorem`. `LeftIsLate`: what a request left in the cloud carries is marked
`late`. The other three order the versions of an item along their path.
`ShopIsNewest`: nothing in the cloud, the queue, a left-over request or a cycle is newer
than the shop's row,
but for changes of the cloud and rows a pull has set back. `BatchIsNewest`: nor, with the same two exceptions, than the batch being sent, so that a
POST of fresh rows finds nothing newer to go back from (`OnlyLateBatchesGoBack`). `DeliveredStays`: where the cloud had the shop's row, neither
the cloud nor the feed at hand is older, but for batches that came late and a feed that
a POST overtook
(`OnlyOldFeedsUndo`). Each needs the one before it when the two cycles overlap: a pull
that is applied between SELECT and POST must not make the batch old. The set of items
is assumed finite (`ItemAssumption`), because the key of a queued batch counts them.

**Subscription** (`SubscriptionProofs`). Typing comes with `Refers` (what a request at
work points to). `NoTimeFromNowhere`: a paid end is at most `now` plus the months
granted. A session computes its end from an unlocked read, so the invariant says it of
every date a session has in hand as well, with its own months added only at the commit;
since the bound only grows, a stale date stays within it. `CountedOncePerOverlap`: a
payment's count plus the number of sessions that still hold it is at most the number of
sessions, once it is confirmed no session can take it up, so that the holders only
become fewer. `AnswersAreCounted` and `RenewalKeepsSuspension` rest on what `Written`
leaves alone: columns whose value did not change.

`ApartRefines` is the refinement of `Entitlement`: but for a commit on rows that another
request has written since they were read (`CommitsStale`), every step is one of its
steps or none. By `ApartInv` a request that is not stale has its store's row as it is,
and a callback that is not stale a payment nobody has counted, so that what it writes
is what `Entitlement` computes from the row at that moment.

**Etims** (`EtimsProofs`). `FilingInv`: tasks are in step with their operation and read
sales unfiled (`TaskInv`), every answer a task has in hand is KRA's for that sale
(`AnswersAreReceipts`), and of a sale no batch has taken back the row is whole and no
task has loaded it as filed when it is not (`RowsAgree`). With `QueuedIsInHand` it is
inductive. The exception for later batches cannot be dropped from any part of it.

**OfflineQueue** (`OfflineQueueProofs`). `OfflineInv`: a key is one till's
(`KeysAreApart`); a till that may still sell has not queued its sale (`TillsAreFresh`);
a row in a drain's hand waits in the queue and is in no other hand unless it is shared
(`DrainsAreApart`); what a drain is about to mark as synced is sold, or its session has
died (`MarksAreKnown`); a row that waits and is sold is about to be marked, or one of the
exceptions, among them a clearItem that failed (`WaitingIsUnsold`). `QueueStaysSound`,
`NoSaleTwice` and `SyncedStaysFinal` follow.

**TillSocket** (`TillSocketProofs`). `RegistryInv`: an open socket has a handler, whoever replaces a connection holds its
worker's lock and has closed the connection, and a send that is about to take the
terminal off has found it gone. Then an open socket whose handler runs, or is about to
disconnect after a late pong, is the registered one unless it was robbed
(`RegistriesAgree`).
`PaymentInv` adds that each socket that should hear a payment still has it on its way
(`PaymentReaches`). `PageNeverStuck` is about the page alone.

**Pricing** (`EtimsProofs`). The invariant `SaleIsComputed`: receipt and invoice are
what the formulas make of some cart and cash. Rounding half to even is characterised
once - the result is the integer within half a unit - and every amount is linear
arithmetic from there, for all amounts, discounts and tenders.

**ProductCache** (`ProductCacheProofs`). `AgeInv`: what a reader has in hand is at most
as old as the wait it has used, what Redis holds at most as old as the TTL it has used
plus that wait; time takes off one side what it adds to the other, so the two bounds
add up when a reader hands over to Redis. `LateInv`: a version below
`floor` is in a reader's hand, or in the list, only with the mark that an invalidation
went past it.

Only model-checked: liveness (`EveryRequestEnds`, `EverySaleArrives`, `RetryEnds`,
`QueueDrains`, `Converges`), which is out of the prover's reach under fairness. Of the refinements, what `StockBook`
promises is proved under the two hypotheses above; where the runs check it they are
met, and the unlocked handlers have `GapOnlyFromUnlocked` instead.

## 6. What is not here

Names, audit rows, sync logs and store scoping are abstracted away. Time is a clock
where a property compares times (`Subscription`, `CatalogSync`, `ProductCache`) and
otherwise a choice: a timeout is always possible while something waits. Money is in
`Pricing` and nowhere else; procurement's base units and costs are not modelled.

Three inputs are narrower than the schemas of the code. Months of an upgrade or an
activation are natural numbers (`MonthsAssum`): nothing in the code refuses a negative
one, which would take time away. Discounts and cash of `Pricing` are whole cents, as the
till sends them; the schema limits the unit price only (`schemas/transaction.py:11`).
Two things are covered by a theorem and reached by no run: an order edited while two
notes of it are posted (`procurement_receive` starts with an approved order;
`StatusIsRight`), and a second payment sent over a connection a late send took off
(`live` has one event; `PaymentReaches`).

Revoked tokens and rate counters are dictionaries of each worker with nothing between
the workers: a module of them would say only that they are not shared. Employees,
accounts and clock-in are single-row writes with no other actor; so is creating
products, categories and suppliers. Reports, audit listing, logging, metrics, request
middleware, API versioning, seed, backup and restore scripts, nginx, the rest of the
React pages and the migrations (beyond the constraints they add) change no state of the
modelled parts except through the modelled endpoints. The low-stock broadcast is called
by nothing, `offline:clearAll` by no page.
