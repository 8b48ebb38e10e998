---------------------------- MODULE OfflineQueue ----------------------------
(***************************************************************************)
(* A till that sells while the line is down: the cart's key, the SQLite    *)
(* queue of the main process, the drain that posts it when the line is     *)
(* back, and the session the posts need.                                   *)
(*                                                                         *)
(* Code: frontend/src/pages/POSTerminal.jsx, hooks/useOfflineQueue.js,     *)
(* api/client.js, electron/main.js; the server's side of POST              *)
(* /transactions (backend/app/routers/transactions.py).                    *)
(*                                                                         *)
(* A page is one mounting of POSTerminal.  Its handlers are coroutines     *)
(* that go on after the cashier has left for the back office; the guard    *)
(* against a second drain (syncingRef) belongs to the page.  post() gives  *)
(* the options to request() in the place of the retry options, so no       *)
(* Idempotency-Key leaves the till: each post that reaches the server is   *)
(* a sale.                                                                 *)
(*                                                                         *)
(* The main process answers the calls of the pages in the order they were  *)
(* made, each a whole; a call that follows from an event is made with it.  *)
(*                                                                         *)
(* Abstracted: the cart's lines and the payment (Pricing, Sales); the      *)
(* waits between two posts, which change nothing; queued_at, which grows   *)
(* with the id of the row.                                                 *)
(***************************************************************************)
EXTENDS Integers, Sequences, SequencesExt

CONSTANTS
    Sale,       \* the keys generateTxnNumber makes
    Page,       \* mountings of the till page
    NoSale, NoPage,
    MaxMoves,   \* bound: mountings and restarts of a behaviour
    MaxFaults   \* bound: refused posts, lost answers, failed statements of
                \* the queue, refreshes that fail

ASSUME NamesAssumption == NoSale \notin Sale /\ NoPage \notin Page
ASSUME BoundsAssumption == MaxMoves \in Nat /\ MaxFaults \in Nat

VARIABLES
    online,     \* navigator.onLine
    session,    \* access token good; run out, with a refresh token; none
    mounted,    \* the page on the screen
    rung,       \* keys in use
    till,       \* of each page: its cart and its handler
    drain,      \* of each page: syncQueue
    queue,      \* offline_queue, in the order of queued_at
    status,     \* the status column
    sold,       \* transactions the server made of each sale
    receipted,  \* sales whose customer has a receipt
    unwritten,  \* sales whose INSERT into the queue failed
    unanswered, \* sales the server made without the till getting to know
    unrecorded, \* sales a drain made and could not mark
    shared,     \* rows two drains had in hand at once
    dropped,    \* rows a drain took off after its session had died
    moves, faults

db     == <<queue, status>>
ghosts == <<receipted, unwritten, unanswered, unrecorded, shared, dropped>>
bounds == <<moves, faults>>
vars   == <<online, session, mounted, rung, till, drain, db, sold, ghosts, bounds>>

-----------------------------------------------------------------------------
(* State *)

\* key is txnKeyRef; sending is the key the running handler took.
Till == [pc : {"idle", "post"}, key : Sale \cup {NoSale},
         sending : Sale \cup {NoSale}, receipt : BOOLEAN]

EmptyTill == [pc |-> "idle", key |-> NoSale, sending |-> NoSale, receipt |-> FALSE]

\* todo begins with the item at hand.
Drain == [pc : {"idle", "post", "clear", "fail"}, todo : Seq(Sale)]

Resting == [pc |-> "idle", todo |-> <<>>]

\* The queue, the pages and the bookkeeping keep their shape; a key is in the
\* queue once, and a drain at work has an item.
TypeOK ==
    /\ online \in BOOLEAN
    /\ session \in {"good", "expired", "dead"}
    /\ mounted \in Page \cup {NoPage}
    /\ rung \in SUBSET Sale
    /\ till \in [Page -> Till]
    /\ drain \in [Page -> Drain]
    /\ \A p \in Page : drain[p].todo = <<>> <=> drain[p].pc = "idle"
    /\ queue \in Seq(Sale)
    /\ \A i, j \in DOMAIN queue : queue[i] = queue[j] => i = j
    /\ status \in [Sale -> {"none", "pending", "failed", "synced"}]
    /\ sold \in [Sale -> Nat]
    /\ receipted \in SUBSET Sale /\ unwritten \in SUBSET Sale
    /\ unanswered \in SUBSET Sale /\ unrecorded \in SUBSET Sale
    /\ shared \in SUBSET Sale /\ dropped \in SUBSET Sale
    /\ moves \in 0..MaxMoves /\ faults \in 0..MaxFaults

Init ==
    /\ online = FALSE
    /\ session = "good"
    /\ mounted = NoPage
    /\ rung = {}
    /\ till = [p \in Page |-> EmptyTill]
    /\ drain = [p \in Page |-> Resting]
    /\ queue = <<>>
    /\ status = [s \in Sale |-> "none"]
    /\ sold = [s \in Sale |-> 0]
    /\ receipted = {} /\ unwritten = {} /\ unanswered = {}
    /\ unrecorded = {} /\ shared = {} /\ dropped = {}
    /\ moves = 0 /\ faults = 0

Fault == faults < MaxFaults /\ faults' = faults + 1

Unsynced(s) == status[s] \in {"pending", "failed"}

-----------------------------------------------------------------------------
(* The line, the session and the pages *)

\* The rows of the queue that are wanted, oldest first.
Lists(items, wanted) ==
    /\ ToSet(items) = wanted \cap ToSet(queue)
    /\ \A i, j \in DOMAIN items : i < j =>
          \E m, n \in DOMAIN queue : m < n /\ items[i] = queue[m] /\ items[j] = queue[n]

\* (Mistake) the failed rows are forgotten.
GetPending(items) == Lists(items, {s \in Sale : status[s] = "pending"})

\* getQueue: the pending and the failed rows.
GetQueue(items) == Lists(items, {s \in Sale : Unsynced(s)})

\* The online event: the page on the screen starts syncQueue unless it is at
\* it; a getQueue that throws ends it at once.
GoOnline ==
    LET starts == {p \in Page : p = mounted /\ drain[p].pc = "idle"} IN
    /\ ~online
    /\ online' = TRUE
    /\ \/ /\ \E items \in SeqOf(ToSet(queue), Len(queue)) :
              /\ GetQueue(items)
              /\ drain' = [p \in Page |->
                    IF p \in starts /\ items # <<>> THEN [pc |-> "post", todo |-> items]
                    ELSE drain[p]]
              /\ shared' = IF starts = {} THEN shared
                           ELSE shared \cup (ToSet(items) \cap
                                             UNION {ToSet(drain[q].todo) : q \in Page})
          /\ UNCHANGED faults
       \/ Fault /\ UNCHANGED <<drain, shared>>
    /\ UNCHANGED <<session, mounted, rung, till, db, sold, receipted, unwritten,
                   unanswered, unrecorded, dropped, moves>>

GoOffline ==
    /\ online
    /\ online' = FALSE
    /\ UNCHANGED <<session, mounted, rung, till, drain, db, sold, ghosts, bounds>>

Expire ==
    /\ session = "good"
    /\ session' = "expired"
    /\ UNCHANGED <<online, mounted, rung, till, drain, db, sold, ghosts, bounds>>

LogIn ==
    /\ session = "dead" /\ online
    /\ session' = "good"
    /\ UNCHANGED <<online, mounted, rung, till, drain, db, sold, ghosts, bounds>>

\* Back at the till: a new page with an empty cart.  It has not asked for the
\* queue's length yet, so it starts no drain.
Mount(p) ==
    /\ mounted = NoPage
    /\ till[p].pc = "idle" /\ drain[p].pc = "idle"
    /\ mounted' = p
    /\ till' = [till EXCEPT ![p] = EmptyTill]
    /\ UNCHANGED <<online, session, rung, drain, db, sold, ghosts, bounds>>

Leave ==
    /\ mounted # NoPage
    /\ moves < MaxMoves
    /\ mounted' = NoPage
    /\ moves' = moves + 1
    /\ UNCHANGED <<online, session, rung, till, drain, db, sold, ghosts, faults>>

\* The application stops; the queue and the session are on disk.  A sale that
\* was made but not yet marked is one the till will not know of.
Restart ==
    LET unmarked == {p \in Page : drain[p].pc = "clear"} IN
    /\ moves < MaxMoves
    /\ moves' = moves + 1
    /\ mounted' = NoPage
    /\ till' = [p \in Page |-> EmptyTill]
    /\ drain' = [p \in Page |-> Resting]
    /\ unanswered' = unanswered \cup {Head(drain[p].todo) : p \in unmarked}
    /\ UNCHANGED <<online, session, rung, db, sold, receipted, unwritten,
                   unrecorded, shared, dropped, faults>>

-----------------------------------------------------------------------------
(* The till *)

\* handleCompleteSale: the key is made once for a cart.  The button is there
\* while there is no receipt, and does nothing under a running handler.
Pressed(p, s) ==
    /\ mounted = p
    /\ till[p].pc = "idle" /\ ~till[p].receipt
    /\ IF till[p].key = NoSale THEN s \notin rung ELSE s = till[p].key
    /\ rung' = rung \cup {s}

SellOnline(p, s) ==
    /\ online
    /\ Pressed(p, s)
    /\ till' = [till EXCEPT ![p].key = s, ![p].sending = s, ![p].pc = "post"]
    /\ UNCHANGED <<online, session, mounted, drain, db, sold, ghosts, bounds>>

\* INSERT OR IGNORE, which may fail; the till does not look at the result.
SellOffline(p, s) ==
    /\ ~online
    /\ Pressed(p, s)
    /\ \/ /\ IF status[s] = "none"
             THEN /\ queue' = Append(queue, s)
                  /\ status' = [status EXCEPT ![s] = "pending"]
             ELSE UNCHANGED db
          /\ UNCHANGED <<unwritten, faults>>
       \/ Fault /\ unwritten' = unwritten \cup {s} /\ UNCHANGED db
    /\ till' = [till EXCEPT ![p].key = s, ![p].receipt = TRUE]
    /\ receipted' = receipted \cup {s}
    /\ UNCHANGED <<online, session, mounted, drain, sold, unanswered, unrecorded,
                   shared, dropped, moves>>

\* VOID TRANSACTION and NEW TRANSACTION: clearCart, also under a running
\* handler, which keeps the key it took.
ClearCart(p) ==
    /\ mounted = p
    /\ till[p].key # NoSale \/ till[p].receipt
    /\ till' = [till EXCEPT ![p].key = NoSale, ![p].receipt = FALSE]
    /\ UNCHANGED <<online, session, mounted, rung, drain, db, sold, ghosts, bounds>>

\* (Mistake) a sale that was made leaves the button there.
PrintsOpen(p, s) ==
    /\ till' = [till EXCEPT ![p].pc = "idle", ![p].sending = NoSale]
    /\ receipted' = receipted \cup {s}

Prints(p, s) ==
    /\ till' = [till EXCEPT ![p].pc = "idle", ![p].sending = NoSale, ![p].receipt = TRUE]
    /\ receipted' = receipted \cup {s}

\* (Mistake) after an error the page shows a receipt.
ShowsReceipt(p) ==
    /\ till' = [till EXCEPT ![p].pc = "idle", ![p].sending = NoSale, ![p].receipt = TRUE]
    /\ receipted' = receipted \cup {till[p].sending}

ShowsError(p) ==
    /\ till' = [till EXCEPT ![p].pc = "idle", ![p].sending = NoSale]
    /\ UNCHANGED receipted

\* What becomes of a post of s: the server makes the sale and answers, or its
\* answer is lost; it refuses or cannot be reached.  It makes a sale of every
\* post it takes, whatever it made before.  A token that has run out is
\* refreshed after the 401, and the post goes out once more.
Makes(s) ==
    /\ online /\ session # "dead"
    /\ session' = "good"
    /\ sold' = [sold EXCEPT ![s] = @ + 1]

Refuses == IF online THEN session = "good" /\ Fault ELSE UNCHANGED faults

\* The refresh alone: one for all that wait for it, whatever becomes of their
\* posts.  One that fails clears the tokens, and so does a 401 without one.
Refresh ==
    /\ online /\ session = "expired"
    /\ session' = "good"
    /\ UNCHANGED <<online, mounted, rung, till, drain, db, sold, ghosts, bounds>>

SessionEnds ==
    \/ session = "dead" /\ online /\ UNCHANGED faults
    \/ session = "expired" /\ online /\ Fault

TillPost(p) ==
    LET s == till[p].sending IN
    /\ till[p].pc = "post"
    /\ \/ /\ Makes(s) /\ Prints(p, s)
          /\ UNCHANGED <<unanswered, faults>>
       \/ /\ Makes(s) /\ Fault /\ ShowsError(p)
          /\ unanswered' = unanswered \cup {s}
       \/ /\ Refuses /\ ShowsError(p)
          /\ UNCHANGED <<session, sold, unanswered>>
       \/ /\ SessionEnds /\ ShowsError(p)
          /\ session' = "dead"
          /\ UNCHANGED <<sold, unanswered>>
    /\ UNCHANGED <<online, mounted, rung, drain, db, unwritten, unrecorded, shared,
                   dropped, moves>>

-----------------------------------------------------------------------------
(* The drain *)

Turns(p, pc) == drain' = [drain EXCEPT ![p].pc = pc]

PostMakes(p) ==
    /\ drain[p].pc = "post"
    /\ Makes(Head(drain[p].todo))
    /\ Turns(p, "clear")
    /\ UNCHANGED <<online, mounted, rung, till, db, ghosts, bounds>>

\* request() answers undefined when the session has died: no error, so the
\* drain goes on as if the sale were made.
PostDropped(p) ==
    /\ drain[p].pc = "post"
    /\ SessionEnds
    /\ session' = "dead"
    /\ Turns(p, "clear")
    /\ dropped' = dropped \cup {Head(drain[p].todo)}
    /\ UNCHANGED <<online, mounted, rung, till, db, sold, receipted, unwritten,
                   unanswered, unrecorded, shared, moves>>

\* A sale whose answer is lost looks refused when the wait for it ends.
PostUnanswered(p) ==
    /\ drain[p].pc = "post"
    /\ Makes(Head(drain[p].todo))
    /\ Fault
    /\ unanswered' = unanswered \cup {Head(drain[p].todo)}
    /\ Turns(p, "fail")
    /\ UNCHANGED <<online, mounted, rung, till, db, receipted, unwritten,
                   unrecorded, shared, dropped, moves>>

PostFails(p) ==
    /\ drain[p].pc = "post"
    /\ Refuses
    /\ Turns(p, "fail")
    /\ UNCHANGED <<online, session, mounted, rung, till, db, sold, ghosts, moves>>

\* (Mistake) the drain stays with its item.
MarksInPlace(p, mark) ==
    /\ status' = [status EXCEPT ![Head(drain[p].todo)] = mark]
    /\ drain' = [drain EXCEPT ![p] =
          IF mark = "synced" /\ Len(drain[p].todo) = 1 THEN Resting
          ELSE [pc |-> "post", todo |-> drain[p].todo]]

\* clearItem or markFailed, whatever the row has become; then the next item.
Marks(p, mark) ==
    /\ status' = [status EXCEPT ![Head(drain[p].todo)] = mark]
    /\ drain' = [drain EXCEPT ![p] =
          IF Len(drain[p].todo) = 1 THEN Resting
          ELSE [pc |-> "post", todo |-> Tail(drain[p].todo)]]

Mark(p) ==
    /\ \/ drain[p].pc = "clear" /\ Marks(p, "synced")
       \/ drain[p].pc = "fail" /\ Marks(p, "failed")
    /\ UNCHANGED <<online, session, mounted, rung, till, queue, sold, ghosts, bounds>>

\* clearItem throws: the catch is that of the post, and a sale that was made
\* goes on to markFailed.
ClearFails(p) ==
    LET s == Head(drain[p].todo) IN
    /\ drain[p].pc = "clear"
    /\ Fault
    /\ Turns(p, "fail")
    /\ unrecorded' = IF sold[s] > 0 THEN unrecorded \cup {s} ELSE unrecorded
    /\ UNCHANGED <<online, session, mounted, rung, till, db, sold, receipted, unwritten,
                   unanswered, shared, dropped, moves>>

\* markFailed throws: out of the loop, and the other items wait with this one.
MarkFailedFails(p) ==
    /\ drain[p].pc = "fail"
    /\ Fault
    /\ drain' = [drain EXCEPT ![p] = Resting]
    /\ UNCHANGED <<online, session, mounted, rung, till, db, sold, ghosts, moves>>

-----------------------------------------------------------------------------

PageSteps(p) ==
    \/ \E s \in Sale : SellOnline(p, s) \/ SellOffline(p, s)
    \/ ClearCart(p)
    \/ TillPost(p)
    \/ PostMakes(p) \/ PostDropped(p) \/ PostUnanswered(p) \/ PostFails(p)
    \/ Mark(p) \/ ClearFails(p) \/ MarkFailedFails(p)

Next ==
    \/ GoOnline \/ GoOffline
    \/ Expire \/ LogIn \/ Refresh
    \/ Leave \/ Restart
    \/ \E p \in Page : Mount(p) \/ PageSteps(p)

Spec == Init /\ [][Next]_vars

\* A drain that has begun goes on while the application runs; a post gets
\* through sometimes if the line comes back again and again; the cashier logs
\* in again and returns to the till.
FairSpec ==
    /\ Spec
    /\ \A p \in Page :
        /\ WF_vars(PostMakes(p) \/ PostDropped(p) \/ PostFails(p) \/ Mark(p))
        /\ SF_vars(PostMakes(p))
    /\ SF_vars(LogIn)
    /\ WF_vars(\E p \in Page : Mount(p))

-----------------------------------------------------------------------------
(* Properties *)

\* "ACID - sales are NEVER lost": a sale with a receipt is on the server or
\* waits in the queue, unless its INSERT failed or a drain of a session that
\* had died took it off.
ReceiptIsKept ==
    \A s \in receipted \ (unwritten \cup dropped) : sold[s] > 0 \/ Unsynced(s)

\* Till, queue and server keep their shape, and the queue keeps what it has.
QueueIsSound == TypeOK /\ ReceiptIsKept

\* "No double-posting": without a key on the wire the server makes a sale twice
\* only if the till did not get to know of the first, could not mark it in its
\* queue, or had its row in two drains.
SoldTwiceUnawares ==
    \A s \in Sale : sold[s] > 1 => s \in unanswered \cup unrecorded \cup shared

\* What keeps the drain from selling again: a row that waits is not sold yet,
\* or it is about to be marked.
WaitingIsUnsold ==
    \A s \in Sale : Unsynced(s) /\ sold[s] > 0 =>
        \/ s \in unanswered \cup unrecorded \cup shared
        \/ \E p \in Page : drain[p].pc = "clear" /\ Head(drain[p].todo) = s

\* No sale is made twice while the till knows what became of it and can write it
\* down, and none that is made waits to be made again.
NoDoubleSale == SoldTwiceUnawares /\ WaitingIsUnsold

\* A row that was taken off comes back only by the late markFailed of a second
\* drain: neither the till nor the drain that marked it undoes the mark.
SyncedIsFinal ==
    [][\A s \in Sale : status[s] = "synced" /\ status'[s] # "synced" => s \in shared]_vars

\* Every sale that was queued leaves the queue if the line comes back, with the
\* till on the screen, again and again; nothing else starts a drain.
QueueDrains ==
    []<><<GoOnline /\ mounted # NoPage>>_vars =>
        \A s \in Sale : Unsynced(s) ~> status[s] = "synced"
=============================================================================
