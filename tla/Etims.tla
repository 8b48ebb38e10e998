-------------------------------- MODULE Etims --------------------------------
(***************************************************************************)
(* Filing completed sales with the tax authority (KRA eTIMS).              *)
(*                                                                         *)
(* Code: backend/app/routers/etims.py (submit_to_etims,                    *)
(* retry_all_unsynced, _schedule_etims_retry), services/etims.py           *)
(* (submit_invoice).                                                       *)
(*                                                                         *)
(* A task is a coroutine: the till's submission, which becomes the         *)
(* background retry of its sale when it fails, or a manager's retry-all.   *)
(* Each awaits KRA, and the retry sleeps, with what it read of the sale    *)
(* before in its session; nothing is read again before the commit.  A      *)
(* commit writes the columns that differ from what was loaded, and makes   *)
(* the session load the rest of its list afresh.  A worker that stops      *)
(* takes its tasks along; they are in memory only.                         *)
(*                                                                         *)
(* Abstracted: the invoice itself (Pricing), the QR code (it goes with the *)
(* number), the delays.  A sale is its place in the order of created_at.   *)
(* Voids: a sale is taken up only while COMPLETED, and no task looks at    *)
(* the status again, so a void changes nothing for a task under way.  A    *)
(* store without ETIMS_PIN is one whose every submission fails.            *)
(***************************************************************************)
EXTENDS Integers, FiniteSets, FiniteSetsExt

CONSTANTS
    Txn,            \* sales, as numbers in the order of created_at
    Task,           \* tasks at work at once
    NoTxn,
    BatchSize,      \* BATCH of retry_all_unsynced (50)
    MaxAttempts,    \* MAX_ATTEMPTS of the background retry (10)
    MaxReceipts,    \* bound: receipts KRA issues for a sale
    MaxRequests,    \* bound: submissions and retry-alls of a behaviour
    MaxFaults       \* bound: failed commits and tasks that die

ASSUME TxnAssumption == Txn \subseteq Nat /\ NoTxn \notin Txn
ASSUME SizesAssumption == BatchSize \in Nat \ {0} /\ MaxAttempts \in Nat \ {0}
ASSUME BoundsAssumption ==
    MaxReceipts \in Nat /\ MaxRequests \in Nat /\ MaxFaults \in Nat

VARIABLES
    completed,  \* sales that are COMPLETED
    filing,     \* etims_invoice_no (0 is NULL) and etims_synced of each sale
    attempts,   \* rows etims_submit of the audit trail, per sale
    issued,     \* KRA: receipts issued per sale
    task,
    queued,     \* sales whose till was told queued_for_retry
    dropped,    \* sales whose retry an error or a stop has ended
    takenBack,  \* sales whose filing a later batch has taken back
    requests, faults

bounds == <<requests, faults>>
ghosts == <<queued, dropped, takenBack>>
vars   == <<completed, filing, attempts, issued, task, ghosts, bounds>>

-----------------------------------------------------------------------------
(* State *)

Row == [number : Nat, synced : BOOLEAN]

Unfiled == [number |-> 0, synced |-> FALSE]     \* also _FAILED_RESULT

\* todo: the rest of the list; batch: the sales whose result waits for the
\* commit; first: no batch of this list has been committed yet.
TaskState ==
    [op : {"none", "submit", "chain", "bulk"},
     pc : {"idle", "read", "sleep", "take", "post", "commit"},
     sale : Txn \cup {NoTxn}, todo : SUBSET Txn, batch : SUBSET Txn,
     loaded : [Txn -> Row], result : [Txn -> Row], first : BOOLEAN]

NoRows == [t \in Txn |-> Unfiled]

Idle == [op |-> "none", pc |-> "idle", sale |-> NoTxn, todo |-> {}, batch |-> {},
         loaded |-> NoRows, result |-> NoRows, first |-> TRUE]

\* The tables, the tasks and the bookkeeping keep their shape.
TypeOK ==
    /\ completed \in SUBSET Txn
    /\ filing \in [Txn -> Row]
    /\ attempts \in [Txn -> Nat]
    /\ issued \in [Txn -> 0..MaxReceipts]
    /\ task \in [Task -> TaskState]
    /\ queued \in SUBSET Txn
    /\ dropped \in SUBSET Txn /\ takenBack \in SUBSET Txn
    /\ requests \in 0..MaxRequests
    /\ faults \in 0..MaxFaults

Init ==
    /\ completed = {}
    /\ filing = NoRows
    /\ attempts = [t \in Txn |-> 0]
    /\ issued = [t \in Txn |-> 0]
    /\ task = [k \in Task |-> Idle]
    /\ queued = {} /\ dropped = {} /\ takenBack = {}
    /\ requests = 0 /\ faults = 0

-----------------------------------------------------------------------------
(* Requests and the retry *)

Complete(t) ==
    /\ t \notin completed
    /\ completed' = completed \cup {t}
    /\ UNCHANGED <<filing, attempts, issued, task, ghosts, bounds>>

Begin(k, w) ==
    /\ task[k].pc = "idle"
    /\ requests < MaxRequests
    /\ task' = [task EXCEPT ![k] = w]
    /\ requests' = requests + 1
    /\ UNCHANGED <<completed, filing, attempts, issued, ghosts, faults>>

\* submit_to_etims up to its await; a sale that is synced is answered at once.
Submit(k, t) ==
    /\ t \in completed /\ ~filing[t].synced
    /\ Begin(k, [Idle EXCEPT !.op = "submit", !.pc = "post", !.sale = t,
                             !.batch = {t}, !.loaded = filing])

\* retry_all_unsynced: the list and its rows in one SELECT.
RetryAll(k) ==
    LET unsynced == {t \in completed : ~filing[t].synced} IN
    /\ unsynced # {}
    /\ Begin(k, [Idle EXCEPT !.op = "bulk", !.pc = "take", !.todo = unsynced,
                             !.loaded = filing])

\* The next sale of the batch.  A commit or a rollback has expired the rows the
\* session holds: after the first batch they are loaded when they are used.
Take(k) ==
    LET w == task[k]
        t == Min(w.todo)
    IN
    /\ w.pc = "take" /\ w.todo # {}
    /\ Cardinality(w.batch) < BatchSize
    /\ task' = [task EXCEPT ![k] =
          [w EXCEPT !.pc = "post", !.sale = t,
                    !.todo = w.todo \ {t}, !.batch = w.batch \cup {t},
                    !.loaded = IF w.first THEN w.loaded
                               ELSE [w.loaded EXCEPT ![t] = filing[t]]]]
    /\ UNCHANGED <<completed, filing, attempts, issued, ghosts, bounds>>

\* _schedule_etims_retry: done, given up, or asleep with the row in hand.
ReadForRetry(k) ==
    LET w == task[k]
        t == w.sale
    IN
    /\ w.pc = "read"
    /\ task' = [task EXCEPT ![k] =
          IF filing[t].synced \/ attempts[t] >= MaxAttempts THEN Idle
          ELSE [w EXCEPT !.pc = "sleep", !.batch = {t}, !.loaded = filing]]
    /\ UNCHANGED <<completed, filing, attempts, issued, ghosts, bounds>>

\* asyncio.sleep is over; etims_synced is not read again.
Wake(k) ==
    /\ task[k].pc = "sleep"
    /\ task' = [task EXCEPT ![k] = [task[k] EXCEPT !.pc = "post"]]
    /\ UNCHANGED <<completed, filing, attempts, issued, ghosts, bounds>>

-----------------------------------------------------------------------------
(* KRA *)

\* submit_invoice never raises: the answer is a receipt, or a failure, which
\* is also what becomes of an answer that was lost.  The invoice carries the
\* number of the sale; of one it has, KRA may say the receipt again, issue
\* another one or refuse.
Answer(k, result) ==
    LET w == task[k] IN
    /\ w.pc = "post"
    /\ task' = [task EXCEPT ![k] =
          [w EXCEPT !.pc = IF w.op = "bulk" THEN "take" ELSE "commit",
                    !.result = [w.result EXCEPT ![w.sale] = result]]]
    /\ UNCHANGED <<completed, filing, attempts, ghosts, bounds>>

Receipt(n) == [number |-> n, synced |-> TRUE]

Issues(k) ==
    LET t == task[k].sale
        n == issued[t] + 1
    IN  /\ task[k].pc = "post" /\ issued[t] < MaxReceipts
        /\ issued' = [issued EXCEPT ![t] = n]
        /\ Answer(k, Receipt(n)) \/ Answer(k, Unfiled)

Repeats(k) ==
    LET t == task[k].sale IN
    /\ task[k].pc = "post" /\ issued[t] > 0
    /\ Answer(k, Receipt(issued[t]))
    /\ UNCHANGED issued

Refuses(k) == Answer(k, Unfiled) /\ UNCHANGED issued

-----------------------------------------------------------------------------
(* The commit *)

\* A batch is committed when it is full or the list is at its end.
Full(w) ==
    \/ w.pc = "commit"
    \/ /\ w.pc = "take" /\ w.batch # {}
       /\ w.todo = {} \/ Cardinality(w.batch) = BatchSize

\* (Mistake) an UPDATE of both columns.
WholeRow(w, t, row) == w.result[t]

\* (Mistake) the flag is written and the number forgotten.
FlagOnly(w, t, row) ==
    [row EXCEPT !.synced = IF w.result[t].synced = w.loaded[t].synced THEN @
                           ELSE w.result[t].synced]

\* The columns whose value is not the loaded one.
Written(w, t, row) ==
    [number |-> IF w.result[t].number = w.loaded[t].number THEN row.number
                ELSE w.result[t].number,
     synced |-> IF w.result[t].synced = w.loaded[t].synced THEN row.synced
                ELSE w.result[t].synced]

\* (Mistake) only what was filed is recorded.
RecordedFiled(w) == {t \in w.batch : w.result[t].synced}

\* _record_etims_attempt: each submission of the commit, whatever came of it.
Recorded(w) == w.batch

\* (Mistake) a retry that fails schedules no other.
RetryOnce(w) ==
    CASE w.op = "bulk" /\ w.todo # {} -> [w EXCEPT !.batch = {}, !.first = FALSE]
      [] w.op = "submit" /\ ~w.result[w.sale].synced ->
            [Idle EXCEPT !.op = "chain", !.pc = "read", !.sale = w.sale]
      [] OTHER -> Idle

\* A list goes on with its next batch, a failed submission as the retry of its
\* sale, a failed retry as the next one.
Afterwards(w) ==
    CASE w.op = "bulk" /\ w.todo # {} -> [w EXCEPT !.batch = {}, !.first = FALSE]
      [] w.op # "bulk" /\ ~w.result[w.sale].synced ->
            [Idle EXCEPT !.op = "chain", !.pc = "read", !.sale = w.sale]
      [] OTHER -> Idle

Commit(k) ==
    LET w == task[k] IN
    /\ Full(w)
    /\ filing' = [t \in Txn |-> IF t \in w.batch THEN Written(w, t, filing[t])
                                ELSE filing[t]]
    /\ attempts' = [t \in Txn |-> attempts[t] + (IF t \in Recorded(w) THEN 1 ELSE 0)]
    /\ task' = [task EXCEPT ![k] = Afterwards(w)]
    /\ queued' = IF w.op = "submit" /\ ~w.result[w.sale].synced
                 THEN queued \cup {w.sale} ELSE queued
    /\ takenBack' = takenBack \cup {t \in Txn : filing[t].synced /\ ~filing'[t].synced}
    /\ UNCHANGED <<completed, issued, dropped, bounds>>

\* The commit fails: a submission answers 500, a retry ends, a list goes on.
CommitFails(k) ==
    LET w == task[k] IN
    /\ Full(w)
    /\ faults < MaxFaults
    /\ faults' = faults + 1
    /\ task' = [task EXCEPT ![k] =
                    IF w.op = "bulk" THEN Afterwards(w) ELSE Idle]
    /\ dropped' = IF w.op = "chain" THEN dropped \cup {w.sale} ELSE dropped
    /\ UNCHANGED <<completed, filing, attempts, issued, queued, takenBack, requests>>

\* The worker stops.
Dies(k) ==
    /\ task[k].op # "none"
    /\ faults < MaxFaults
    /\ faults' = faults + 1
    /\ task' = [task EXCEPT ![k] = Idle]
    /\ dropped' = IF task[k].op = "chain" THEN dropped \cup {task[k].sale} ELSE dropped
    /\ UNCHANGED <<completed, filing, attempts, issued, queued, takenBack, requests>>

-----------------------------------------------------------------------------

Works(k) ==
    \/ Take(k) \/ ReadForRetry(k) \/ Wake(k)
    \/ Issues(k) \/ Repeats(k) \/ Refuses(k)
    \/ Commit(k)

Next ==
    \/ \E t \in Txn : Complete(t)
    \/ \E k \in Task :
        \/ \E t \in Txn : Submit(k, t)
        \/ RetryAll(k)
        \/ Works(k)
        \/ CommitFails(k)
        \/ Dies(k)

Spec == Init /\ [][Next]_vars

\* The event loop of a worker runs what is ready, the sleep ends, and
\* submit_invoice gives KRA ten seconds.
Fairness == \A k \in Task : WF_vars(Works(k))

FairSpec == Spec /\ Fairness

-----------------------------------------------------------------------------
(* Properties *)

\* A sale that is filed stays filed whatever submissions, retries and lists
\* overlap on it, with one exception: a list that is past its first batch has
\* loaded it as filed, files it again and writes KRA's refusal over it.
LostByLaterBatchOnly ==
    [][\A t \in Txn : filing[t].synced /\ ~filing'[t].synced =>
          \E k \in Task : /\ Commit(k)
                          /\ task[k].op = "bulk" /\ ~task[k].first
                          /\ t \in task[k].batch]_vars

\* What a sale carries as its invoice number is a receipt KRA issued for it,
\* and no answer that was lost on the way counts as one.  With one exception: a
\* batch that overlaps the taking back leaves the number without the flag, and
\* of two submissions that then load such a row one can set the flag and the
\* other take away the number.
NumberIsReceipt ==
    \A t \in Txn : /\ filing[t].number <= issued[t]
                   /\ filing[t].synced /\ t \notin takenBack => filing[t].number > 0

\* Filings and tasks keep their shape, and no number is made up.
FilingsAreSound == TypeOK /\ NumberIsReceipt

\* A till that was told queued_for_retry need not ask again: while the sale is
\* not filed and has attempts left, a retry has it in hand, unless a failed
\* commit or a stop ended the retry or a later batch took the filing back.
QueuedIsInHand ==
    \A t \in queued \ (dropped \cup takenBack) :
        \/ filing[t].synced
        \/ attempts[t] >= MaxAttempts
        \/ \E k \in Task : task[k].op = "chain" /\ task[k].sale = t

\* The retry comes to an end: the sale is filed, its attempts are used up, or
\* the retry or the filing was lost.
RetryEnds ==
    \A t \in Txn : t \in queued ~>
        (filing[t].synced \/ attempts[t] >= MaxAttempts \/ t \in dropped \cup takenBack)
=============================================================================
