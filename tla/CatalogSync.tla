---------------------------- MODULE CatalogSync ----------------------------
(***************************************************************************)
(* How a shop's catalogue and the cloud's keep up with each other: the     *)
(* agent sends the rows changed since its checkpoint, and brings back what *)
(* changed in the cloud.  Customers go up only.                            *)
(*                                                                         *)
(* Code: sync-agent/src/syncLoop.js (syncEntity, syncProducts,             *)
(* syncCustomers, drainRetryQueue, pullCloudUpdates), checkpoint.js,       *)
(* retryQueue.js, index.js; backend/app/routers/sync.py (sync_products,    *)
(* sync_customers, cloud_product_updates).                                 *)
(*                                                                         *)
(* Sending and pulling are two cycles of one process that overlap; each    *)
(* has its running flag, its checkpoint and what it awaits.  A row's time  *)
(* is when the transaction that wrote it began.  The agent cuts it to      *)
(* milliseconds before it becomes a checkpoint, so that rows of the same   *)
(* millisecond as the last one are due again: the unit of time here is the *)
(* millisecond, and a row is due if its time is at least the checkpoint.   *)
(*                                                                         *)
(* A POST that is answered is one step: it looks the rows up and commits.  *)
(* One whose connection broke (the agent's 15 s are over, the agent        *)
(* stopped, axios posts again) may still be at work in the cloud, and      *)
(* looks and commits whenever it likes.                                    *)
(*                                                                         *)
(* Abstracted: a row is a version number and a time; a rule of one column  *)
(* stands for all that are sent; stores (one), backoff and cron, the sync  *)
(* log.                                                                    *)
(***************************************************************************)
EXTENDS Agent, Sequences, FiniteSets, FiniteSetsExt, SequencesExt

CONSTANTS
    Item,           \* products by sku, or customers by phone
    Started,        \* the rows of the shop at first
    Lag,            \* the longest time a transaction takes
    MaxClock,       \* bound: the clock, 1 at first
    MaxVersion,     \* bound: changes of a behaviour, one for the rows at first
    MaxEvents       \* bound: ticks, changes and faults together

ASSUME ItemAssumption == IsFiniteSet(Item)
ASSUME LagAssumption == Lag \in Nat
ASSUME BoundsAssumption ==
    MaxClock \in Nat \ {0} /\ MaxVersion \in Nat \ {0} /\ MaxEvents \in Nat
ASSUME StartedAssumption ==
    Started \in [Item -> {[val |-> 0, ts |-> 0]} \cup [val : {1}, ts : {0, 1}]]

VARIABLES
    entity,     \* what is synchronised
    clock, version,
    local,      \* the rows of the shop
    cloud,      \* the rows of the cloud
    checkpoint, \* of what was sent
    since,      \* of what was pulled
    retry,      \* retry_queue of the entity, oldest first
    left,       \* POSTs in the cloud that nobody waits for
    push,       \* the cycle that sends
    pull,       \* the cycle that pulls
    delivered,  \* items whose row of the shop the cloud has had
    missed,     \* items changed behind the checkpoint, or that the cloud let go
    unpulled,   \* items changed behind since, or rolled back
    fromCloud,  \* versions made in the cloud
    reverted,   \* items a pull has set back to an older version
    late        \* items of batches replayed, or left in the cloud

marks  == <<checkpoint, since>>
ghosts == <<delivered, missed, unpulled, fromCloud, reverted, late>>
catalogVars ==
    <<entity, clock, version, local, cloud, marks, retry, left, push, pull, ghosts,
      faults>>

-----------------------------------------------------------------------------
(* State *)

Row == [val : Nat, ts : Nat]

\* Version 0 is no row.
None == [val |-> 0, ts |-> 0]

\* Rows of some items.
IsBatch(rows) == DOMAIN rows \subseteq Item /\ rows \in [DOMAIN rows -> Row]

Nothing == [i \in {} |-> None]

\* A POST as it arrives: which rows it overwrites, and which of them are new to
\* the cloud, it decides when it looks them up.
Posted(rows) == [rows |-> rows, looked |-> FALSE, won |-> {}, new |-> {}]

\* from: when it read, before its transactions begin; alone: no pull was at work
\* since the SELECT.
Rest   == [pc |-> "idle", at |-> 1, rows |-> Nothing, last |-> 0, from |-> 0,
           alone |-> FALSE]
Asleep == [pc |-> "idle", rows |-> Nothing, last |-> 0, from |-> 0, overtaken |-> {}]

\* The rows, the cycles and the queue keep their shape, and a key is in the queue
\* once.  What a batch is, IsBatch says.
CatalogTypeOK ==
    /\ entity \in {"products", "customers"}
    /\ clock \in Nat /\ version \in Nat
    /\ local \in [Item -> Row] /\ cloud \in [Item -> Row]
    /\ checkpoint \in Nat /\ since \in Nat
    /\ retry \in Seq([key : Nat \X Nat, rows : {item.rows : item \in Range(retry)},
                      attempts : 0..MaxAttempts])
    /\ \A n \in DOMAIN retry : IsBatch(retry[n].rows)
    /\ \A n, m \in DOMAIN retry : retry[m].key = retry[n].key => m = n
    /\ \A q \in left :
        /\ q \in [rows : {q.rows}, looked : BOOLEAN, won : SUBSET Item, new : SUBSET Item]
        /\ IsBatch(q.rows) /\ q.won \subseteq DOMAIN q.rows
    /\ push \in [pc : {"idle", "replay", "send"}, at : Nat \ {0},
                 rows : {push.rows}, last : Nat, from : Nat, alone : BOOLEAN]
    /\ IsBatch(push.rows) /\ push.at <= Len(retry) + 1
    /\ pull \in [pc : {"idle", "apply"}, rows : {pull.rows}, last : Nat, from : Nat,
                 overtaken : SUBSET Item]
    /\ IsBatch(pull.rows)
    /\ {delivered, missed, unpulled, reverted, late} \subseteq SUBSET Item
    /\ fromCloud \in SUBSET (1..version)
    /\ faults \in 0..MaxFaults

\* A shop with some rows joins an empty cloud.
CatalogInit ==
    /\ entity \in {"products", "customers"}
    /\ clock = 1 /\ version = 1
    /\ local = Started
    /\ cloud = [i \in Item |-> None]
    /\ checkpoint = 0 /\ since = 0
    /\ retry = <<>> /\ left = {}
    /\ push = Rest /\ pull = Asleep
    /\ delivered = {} /\ missed = {} /\ unpulled = {} /\ fromCloud = {}
    /\ reverted = {} /\ late = {}
    /\ faults = 0

-----------------------------------------------------------------------------
(* Changes *)

\* One more tick, change or fault.
Event == (clock - 1) + (version - 1) + faults < MaxEvents

Trouble == Fault /\ Event

\* The times of the transactions that may be committed now, and those of them
\* that began after some time.
Recent == {t \in 0..clock : t + Lag >= clock}
Since(from) == {t \in Recent : t >= from}

ClockTick ==
    /\ clock < MaxClock /\ Event
    /\ clock' = clock + 1
    /\ UNCHANGED <<entity, version, local, cloud, marks, retry, left, push, pull, ghosts,
                   faults>>

\* A change of the shop, or a new row, is committed; it has the time its
\* transaction began.  The cycle at work, or one before it, may have read past
\* that time already.
LocalEdit(i, t) ==
    /\ version < MaxVersion /\ Event
    /\ version' = version + 1
    /\ local' = [local EXCEPT ![i] = [val |-> version', ts |-> t]]
    /\ delivered' = delivered \ {i}
    /\ missed' = IF t < checkpoint \/ t < push.last THEN missed \cup {i}
               ELSE missed \ {i}
    /\ UNCHANGED <<entity, clock, cloud, marks, retry, left, push, pull, unpulled,
                   fromCloud, reverted, late, faults>>

\* The same in the cloud, on a product it has.
CloudEdit(i, t) ==
    /\ entity = "products" /\ cloud[i].val # 0
    /\ version < MaxVersion /\ Event
    /\ version' = version + 1
    /\ cloud' = [cloud EXCEPT ![i] = [val |-> version', ts |-> t]]
    /\ fromCloud' = fromCloud \cup {version'}
    /\ unpulled' = IF t < since \/ t < pull.last THEN unpulled \cup {i}
                 ELSE unpulled \ {i}
    /\ UNCHANGED <<entity, clock, local, marks, retry, left, push, pull, delivered, missed,
                   reverted, late, faults>>

-----------------------------------------------------------------------------
(* Sending *)

\* (Mistake) rows of the millisecond of the mark are left out.
DueAfter(table, mark) == {i \in Item : table[i].val # 0 /\ table[i].ts > mark}

\* Rows changed since the mark.
Due(table, mark) == {i \in Item : table[i].val # 0 /\ table[i].ts >= mark}

\* ORDER BY time LIMIT n: any n of the due rows with none older left out.
Firsts(table, due, n) ==
    {S \in SUBSET due :
        /\ Cardinality(S) = Min({n, Cardinality(due)})
        /\ \A i \in S, j \in due \ S : table[i].ts <= table[j].ts}

\* The last rows of such a batch.
Latest(table, S) == {i \in S : \A j \in S : table[j].ts <= table[i].ts}

Pick(table, S) == [i \in S |-> table[i]]

\* A cycle begins by replaying every batch of the retry queue.
StartPush ==
    /\ push.pc = "idle"
    /\ push' = [Rest EXCEPT !.pc = "replay", !.from = clock]
    /\ UNCHANGED <<entity, clock, version, local, cloud, marks, retry, left, pull, ghosts,
                   faults>>

\* Whether the cloud writes an incoming row over its own: a product always,
\* a customer if the shop's time is later than the cloud's own.
Wins(row, own) ==
    /\ row.val # own.val
    /\ entity = "products" \/ own.val = 0 \/ row.ts > own.ts

Winning(rows) == {i \in DOMAIN rows : Wins(rows[i], cloud[i])}

\* A transaction of time t commits the rows that won.
Writes(rows, won, t) ==
    LET has == {i \in DOMAIN rows : rows[i].val = local[i].val} IN
    /\ cloud' = [i \in Item |->
                    IF i \in won THEN [val |-> rows[i].val, ts |-> t] ELSE cloud[i]]
    /\ delivered' = delivered \cup {i \in has : cloud'[i].val = rows[i].val}
    /\ missed' = missed \cup {i \in has \ delivered : cloud'[i].val # rows[i].val}
    /\ unpulled' = IF t < since \/ t < pull.last THEN unpulled \cup won
                  ELSE unpulled \ won

Overtakes(rows) ==
    pull' = IF pull.pc = "idle" THEN pull
            ELSE [pull EXCEPT !.overtaken = @ \cup DOMAIN rows]

\* The POST is answered after its commit.
Taken(rows) ==
    /\ \E t \in Since(push.from) : Writes(rows, Winning(rows), t)
    /\ Overtakes(rows)
    /\ UNCHANGED <<left, faults>>

\* The commit failed: the answer is 200 with synced 0.
LetGo(rows) ==
    /\ Trouble
    /\ missed' = missed \cup {i \in DOMAIN rows : rows[i].val = local[i].val
                                                  /\ i \notin delivered}
    /\ UNCHANGED <<cloud, delivered, unpulled, left, pull>>

\* It never arrives, or nothing comes of it.
Lost == UNCHANGED <<cloud, delivered, missed, unpulled, left, pull>>

\* Its connection breaks.
Leaves(rows) ==
    /\ left' = left \cup {Posted(rows)}
    /\ UNCHANGED <<cloud, delivered, missed, unpulled, pull>>

\* drainRetryQueue, one batch: gone after a 200, one more attempt after an
\* error, and a dead letter after the last.
ReplayBatch ==
    LET n     == push.at
        item  == retry[n]
        worn  == item.attempts >= MaxAttempts
        gone  == retry' = RemoveAt(retry, n) /\ UNCHANGED push
        stays == /\ retry' = [retry EXCEPT ![n] =
                        [item EXCEPT !.attempts = item.attempts + 1]]
                 /\ push' = [push EXCEPT !.at = @ + 1]
        again == UNCHANGED <<retry, push>>
    IN
    /\ push.pc = "replay" /\ n <= Len(retry)
    /\ IF worn
       THEN gone /\ Lost /\ UNCHANGED <<late, faults>>
       ELSE /\ \/ (Taken(item.rows) \/ LetGo(item.rows)) /\ gone
               \/ Trouble /\ Lost /\ stays
               \/ Trouble /\ Leaves(item.rows) /\ (stays \/ again)
            /\ late' = late \cup DOMAIN item.rows
    /\ UNCHANGED <<entity, clock, version, local, marks, fromCloud, reverted>>

\* The SELECT, after the replays.
Query ==
    LET due == Due(local, checkpoint) IN
    /\ push.pc = "replay" /\ push.at > Len(retry)
    /\ IF due = {} THEN push' = Rest
       ELSE \E S \in Firsts(local, due, BatchSize) : \E i \in Latest(local, S) :
              push' = [pc |-> "send", at |-> 1, rows |-> Pick(local, S),
                       last |-> local[i].ts, from |-> clock, alone |-> pull.pc = "idle"]
    /\ UNCHANGED <<entity, clock, version, local, cloud, marks, retry, left, pull, ghosts,
                   faults>>

\* pushRetryQueue: a key that is there already keeps its payload.
Requeue(rows) ==
    LET key == <<checkpoint, Cardinality(DOMAIN rows)>> IN
    retry' = IF \E n \in DOMAIN retry : retry[n].key = key THEN retry
             ELSE Append(retry, [key |-> key, rows |-> rows, attempts |-> 0])

\* The POST of the batch: any answer advances the checkpoint, an error queues
\* the batch, after axios has posted it again or not.
SendChanges ==
    LET rows == push.rows IN
    /\ push.pc = "send"
    /\ \/ /\ Taken(rows) \/ LetGo(rows)
          /\ checkpoint' = push.last
          /\ push' = Rest
          /\ UNCHANGED <<retry, late>>
       \/ /\ Trouble
          /\ \/ Lost /\ UNCHANGED late
             \/ Leaves(rows) /\ late' = late \cup DOMAIN rows
          /\ Requeue(rows)
          /\ push' = Rest
          /\ UNCHANGED checkpoint
       \/ /\ Trouble
          /\ Leaves(rows) /\ late' = late \cup DOMAIN rows
          /\ UNCHANGED <<checkpoint, retry, push>>
    /\ UNCHANGED <<entity, clock, version, local, since, fromCloud, reverted>>

\* The agent stops; the cloud may be at work on what it has posted.
Crash ==
    /\ push.pc # "idle" \/ pull.pc # "idle"
    /\ Trouble
    /\ \/ UNCHANGED <<left, late>>
       \/ \E rows \in {push.rows} \cup {item.rows : item \in Range(retry)} :
            /\ \/ push.pc = "send" /\ rows = push.rows
               \/ /\ push.pc = "replay" /\ push.at <= Len(retry)
                  /\ rows = retry[push.at].rows
                  /\ retry[push.at].attempts < MaxAttempts
            /\ left' = left \cup {Posted(rows)}
            /\ late' = late \cup DOMAIN rows
    /\ push' = Rest /\ pull' = Asleep
    /\ UNCHANGED <<entity, clock, version, local, cloud, marks, retry, delivered, missed,
                   unpulled, fromCloud, reverted>>

-----------------------------------------------------------------------------
(* A POST nobody waits for *)

\* It reads the rows of the cloud.
Look(q) ==
    /\ q \in left /\ ~q.looked
    /\ left' = (left \ {q}) \cup
            {[q EXCEPT !.looked = TRUE, !.won = Winning(q.rows),
                       !.new = {i \in Winning(q.rows) : cloud[i].val = 0}]}
    /\ UNCHANGED <<entity, clock, version, local, cloud, marks, retry, push, pull, ghosts,
                   faults>>

\* It commits, unless a row that was new to it has been inserted since.
LateCommit(q) ==
    /\ q \in left /\ q.looked
    /\ left' = left \ {q}
    /\ IF \E i \in q.new : cloud[i].val # 0
       THEN UNCHANGED <<cloud, delivered, missed, unpulled, pull>>
       ELSE /\ \E t \in Recent : Writes(q.rows, q.won, t)
            /\ Overtakes(q.rows)
    /\ UNCHANGED <<entity, clock, version, local, marks, retry, push, fromCloud, reverted,
                   late, faults>>

-----------------------------------------------------------------------------
(* Pulling *)

Fetch ==
    LET due == Due(cloud, since) IN
    /\ entity = "products" /\ pull.pc = "idle"
    /\ due # {}
    /\ \E S \in Firsts(cloud, due, BatchSize) : \E i \in Latest(cloud, S) :
          pull' = [pc |-> "apply", rows |-> Pick(cloud, S), last |-> cloud[i].ts,
                   from |-> clock, overtaken |-> {}]
    /\ push' = [push EXCEPT !.alone = FALSE]
    /\ UNCHANGED <<entity, clock, version, local, cloud, marks, retry, left, ghosts, faults>>

\* (Mistake) what is not in the page is taken for deleted.
UpdatesAsWhole(rows) ==
    /\ \E t \in Since(pull.from) : local' = [i \in Item |->
            IF i \in DOMAIN rows THEN [val |-> rows[i].val, ts |-> t] ELSE None]
    /\ delivered' = delivered \cup DOMAIN rows
    /\ missed' = missed \ DOMAIN rows
    /\ reverted' = reverted \cup {i \in DOMAIN rows : rows[i].val < local[i].val}
    /\ UNCHANGED unpulled

\* (Mistake) the UPDATE looks for the cloud's id, which no row has.
UpdatesById(rows) == UNCHANGED <<local, delivered, missed, unpulled, reverted>>

\* One transaction of UPDATEs that sets every row's time to its own.
Updates(rows) ==
    /\ \E t \in Since(pull.from) : local' = [i \in Item |->
            IF i \in DOMAIN rows THEN [val |-> rows[i].val, ts |-> t] ELSE local[i]]
    /\ delivered' = delivered \cup DOMAIN rows
    /\ missed' = missed \ DOMAIN rows
    /\ reverted' = reverted \cup {i \in DOMAIN rows : rows[i].val < local[i].val}
    /\ UNCHANGED unpulled

\* (Mistake) no transaction: the UPDATEs before an error stay.
KeepsRows(rows) ==
    /\ \E t \in Since(pull.from) : local' = [i \in Item |->
            IF i \in DOMAIN rows THEN [val |-> rows[i].val, ts |-> t] ELSE local[i]]
    /\ unpulled' = unpulled \cup DOMAIN rows
    /\ UNCHANGED <<delivered, missed, reverted>>

RollsBack(rows) ==
    /\ unpulled' = unpulled \cup DOMAIN rows
    /\ UNCHANGED <<local, delivered, missed, reverted>>

\* The checkpoint advances whether the page was committed or rolled back, unless
\* the agent stops in between.
Apply ==
    /\ pull.pc = "apply"
    /\ \/ Updates(pull.rows) /\ since' = pull.last /\ UNCHANGED <<push, faults>>
       \/ RollsBack(pull.rows) /\ since' = pull.last /\ Trouble /\ UNCHANGED push
       \/ Updates(pull.rows) /\ UNCHANGED since /\ Trouble /\ push' = Rest
    /\ pull' = Asleep
    /\ UNCHANGED <<entity, clock, version, cloud, checkpoint, retry, left, fromCloud, late>>

-----------------------------------------------------------------------------

PushCycle == StartPush \/ ReplayBatch \/ Query \/ SendChanges
PullCycle == Fetch \/ Apply
Leftover  == \E q \in left : Look(q) \/ LateCommit(q)

CatalogNext ==
    \/ ClockTick
    \/ \E i \in Item, t \in Recent : LocalEdit(i, t) \/ CloudEdit(i, t)
    \/ PushCycle \/ PullCycle \/ Leftover \/ Crash

CatalogSpec == CatalogInit /\ [][CatalogNext]_catalogVars

\* cron starts the cycles again and again, and the cloud ends what it has begun.
CatalogFairSpec ==
    /\ CatalogSpec
    /\ WF_catalogVars(PushCycle) /\ WF_catalogVars(PullCycle)
    /\ WF_catalogVars(Leftover)

-----------------------------------------------------------------------------
(* Properties *)

\* "Checkpoints only advance after confirmed cloud write": what the shop
\* changed before the checkpoint the cloud has had, unless the change was
\* committed late, the cloud's commit failed, or it kept a customer of its own.
BehindIsDelivered ==
    \A i \in Item :
        local[i].val # 0 /\ local[i].ts < checkpoint => i \in delivered \cup missed

\* Both sides and the agent keep their shape, and the checkpoint passes nothing.
CheckpointIsSound == CatalogTypeOK /\ BehindIsDelivered

\* The cloud's row goes back to an older version by a batch that comes late
\* only, replayed or left behind, or by a shop that has not pulled the cloud's
\* own change or was set back itself.
GoesBackByLateBatch ==
    [][\A i \in Item : cloud'[i].val < cloud[i].val =>
            \/ ReplayBatch \/ \E q \in left : LateCommit(q)
            \/ cloud[i].val \in fromCloud \/ i \in reverted]_catalogVars

\* A change of the shop that the cloud has taken is first undone in the shop by
\* a pull that had read the feed before, or after a batch that came late has
\* undone it in the cloud.
UndoneByEarlierFeed ==
    [][\A i \in delivered :
          local'[i].val < local[i].val /\ local[i].val \notin fromCloud =>
            i \in pull.overtaken \cup late \cup reverted]_catalogVars

\* A batch that one millisecond fills keeps the rows after it from their turn.
Stuck(table, mark) ==
    LET due   == {i \in Item : table[i].val # 0 /\ table[i].ts >= mark}
        first == {i \in due : \A j \in due : table[i].ts <= table[j].ts}
    IN  Cardinality(first) >= BatchSize /\ Cardinality(due) > BatchSize

\* Once changes and faults have ended, shop and cloud come to the same version
\* of each product or customer, but for what was missed or rolled back, or a
\* customer's batch that came late, and unless one millisecond fills a batch.
\* The cycles may swap two versions as long as they overlap; every minute
\* against every five lets one be alone.
Converges ==
    []<><<SendChanges /\ push.alone>>_catalogVars =>
        \A i \in Item : <>[](\/ local[i].val = cloud[i].val
                             \/ i \in missed \cup unpulled
                             \/ entity = "customers" /\ i \in late
                             \/ Stuck(local, checkpoint) \/ Stuck(cloud, since))
=============================================================================
