-------------------------------- MODULE Outbox --------------------------------
(***************************************************************************)
(* How sales get to the cloud: the sync agent of a shop reads completed    *)
(* sales that are not marked synced, posts them in batches, keeps failed   *)
(* batches in a retry queue on disk, and the cloud's ingest endpoint       *)
(* inserts what it does not have.                                          *)
(*                                                                         *)
(* Code: sync-agent/src/syncLoop.js (syncTransactions, drainRetryQueue),   *)
(* retryQueue.js, index.js, cloudApi.js; backend/app/routers/sync.py       *)
(* (sync_transactions).                                                    *)
(*                                                                         *)
(* One agent, one process with one cycle at a time (the running flag).     *)
(* The cloud handles several of its requests at once: axios sends a POST   *)
(* again when the connection breaks, and a restarted agent knows nothing   *)
(* of the requests its predecessor left.                                   *)
(*                                                                         *)
(* Abstracted: a sale is its number, in the order of created_at; the       *)
(* contents of a record; time (backoff and cron only say when a cycle may  *)
(* start); sync logs.  The two reads of a cycle are one step: the items of *)
(* a completed sale do not change.                                         *)
(***************************************************************************)
EXTENDS Agent, Sequences, FiniteSets

CONSTANTS
    Sale,           \* numbers of sales
    Request,        \* requests the cloud can work on at once
    NoSale,
    NoCashier,      \* sales whose cashier or customer the cloud does not have
    NoProduct       \* sales with an item whose product it does not have

ASSUME SaleAssumption == Sale \subseteq Nat /\ NoSale \notin Sale
ASSUME RefusedAssumption == NoCashier \subseteq Sale /\ NoProduct \subseteq Sale

VARIABLES
    status,     \* transactions.status in the shop
    sold,       \* sales ever completed
    synced,     \* sales with sync_status SYNCED in the shop
    queue,      \* retry_queue, oldest first
    dead,       \* dead_letter_queue
    agent,      \* the agent's process
    request,    \* the requests at work in the cloud
    copies      \* committed rows per sale in the cloud

shop  == <<status, sold, synced>>
disk  == <<queue, dead>>
vars  == <<status, sold, synced, queue, dead, agent, request, copies, faults>>

-----------------------------------------------------------------------------
(* State *)

Resting == [pc |-> "idle", at |-> 1, batch |-> {}, answer |-> "none"]
Done    == [pc |-> "free", todo |-> {}, flushed |-> {}, items |-> NoSale,
            live |-> FALSE]

\* Every table, the queue and the processes keep their shape, and no batch is
\* replayed more often than retryQueue.js allows.
TypeOK ==
    /\ status \in [Sale -> {"absent", "pending", "completed", "voided"}]
    /\ sold \in SUBSET Sale
    /\ synced \in SUBSET Sale
    /\ queue \in Seq([batch : SUBSET Sale, attempts : 0..MaxAttempts])
    /\ dead \in SUBSET (SUBSET Sale)
    /\ agent \in [pc : {"idle", "drain", "replay", "post"}, at : Nat \ {0},
                  batch : SUBSET Sale,
                  answer : {"none", "waiting", "broken", "ok", "error"}]
    /\ request \in [Request -> [pc : {"free", "look", "insert"}, todo : SUBSET Sale,
                                flushed : SUBSET Sale, items : Sale \cup {NoSale},
                                live : BOOLEAN]]
    /\ copies \in [Sale -> Nat]
    /\ faults \in 0..MaxFaults

Init ==
    /\ status = [s \in Sale |-> "absent"]
    /\ sold = {} /\ synced = {}
    /\ queue = <<>> /\ dead = {}
    /\ agent = Resting
    /\ request = [r \in Request |-> Done]
    /\ copies = [s \in Sale |-> 0]
    /\ faults = 0

-----------------------------------------------------------------------------
(* The shop: its tills do not know of the agent *)

Enter(s, to) ==
    /\ status[s] = "absent"
    /\ status' = [status EXCEPT ![s] = to]
    /\ sold' = IF to = "completed" THEN sold \cup {s} ELSE sold
    /\ UNCHANGED <<synced, disk, agent, request, copies, faults>>

Confirm(s) ==
    /\ status[s] = "pending"
    /\ status' = [status EXCEPT ![s] = "completed"]
    /\ sold' = sold \cup {s}
    /\ UNCHANGED <<synced, disk, agent, request, copies, faults>>

Void(s) ==
    /\ status[s] \in {"pending", "completed"}
    /\ status' = [status EXCEPT ![s] = "voided"]
    /\ UNCHANGED <<sold, synced, disk, agent, request, copies, faults>>

-----------------------------------------------------------------------------
(* The agent *)

\* A POST of a batch: a worker of the cloud takes it up.
Send(batch) ==
    \E r \in Request :
        /\ request[r].pc = "free"
        /\ request' = [request EXCEPT ![r] =
              [pc |-> "look", todo |-> batch, flushed |-> {}, items |-> NoSale,
               live |-> TRUE]]

\* cron: a cycle begins unless the last one still runs.  getRetryQueue reads
\* the queue; nobody else changes it until the replays are done.
Tick ==
    /\ agent.pc = "idle"
    /\ agent' = [Resting EXCEPT !.pc = "drain"]
    /\ UNCHANGED <<shop, disk, request, copies, faults>>

Without(n) == [i \in 1..(Len(queue) - 1) |-> IF i < n THEN queue[i] ELSE queue[i + 1]]

Draining == agent.pc = "drain" /\ agent.at \in DOMAIN queue

Spent(item) == item.attempts >= MaxAttempts

\* promoteToDeadLetter.
Promote ==
    /\ Draining /\ Spent(queue[agent.at])
    /\ dead' = dead \cup {queue[agent.at].batch}
    /\ queue' = Without(agent.at)
    /\ UNCHANGED <<shop, agent, request, copies, faults>>

Replay ==
    /\ Draining /\ ~Spent(queue[agent.at])
    /\ Send(queue[agent.at].batch)
    /\ agent' = [agent EXCEPT !.pc = "replay", !.batch = queue[agent.at].batch,
                              !.answer = "waiting"]
    /\ UNCHANGED <<shop, disk, copies, faults>>

\* Any 200 will do, whatever it says of the records.
ClearRetryItem ==
    /\ agent.pc = "replay" /\ agent.answer = "ok"
    /\ queue' = Without(agent.at)
    /\ agent' = [agent EXCEPT !.pc = "drain", !.answer = "none"]
    /\ UNCHANGED <<shop, dead, request, copies, faults>>

MarkRetried ==
    /\ agent.pc = "replay" /\ agent.answer = "error"
    /\ queue' = [queue EXCEPT ![agent.at] =
          [batch |-> queue[agent.at].batch, attempts |-> queue[agent.at].attempts + 1]]
    /\ agent' = [agent EXCEPT !.pc = "drain", !.answer = "none", !.at = @ + 1]
    /\ UNCHANGED <<shop, dead, request, copies, faults>>

Ready == {s \in Sale : status[s] = "completed" /\ s \notin synced}

\* ORDER BY created_at LIMIT BATCH_SIZE.
Oldest(batch) ==
    /\ batch \subseteq Ready
    /\ Cardinality(batch) <= BatchSize
    /\ batch # Ready => Cardinality(batch) = BatchSize
    /\ \A s \in batch, t \in Ready \ batch : s < t

Drained == agent.pc = "drain" /\ agent.at \notin DOMAIN queue

Post ==
    /\ Drained /\ Ready # {}
    /\ \E batch \in SUBSET Ready :
           /\ Oldest(batch) /\ Send(batch)
           /\ agent' = [agent EXCEPT !.pc = "post", !.batch = batch,
                                     !.answer = "waiting"]
    /\ UNCHANGED <<shop, disk, copies, faults>>

NonePending ==
    /\ Drained /\ Ready = {}
    /\ agent' = Resting
    /\ UNCHANGED <<shop, disk, request, copies, faults>>

\* pushRetryQueue: the key is a hash of the numbers, and a batch that is in the
\* queue already keeps its attempts.
PushRetryQueue ==
    /\ agent.pc = "post" /\ agent.answer = "error"
    /\ queue' = IF \E n \in DOMAIN queue : queue[n].batch = agent.batch THEN queue
                ELSE Append(queue, [batch |-> agent.batch, attempts |-> 0])
    /\ agent' = Resting
    /\ UNCHANGED <<shop, dead, request, copies, faults>>

\* POST /transactions/sync/mark-synced wants a cashier's token and the agent
\* has an API key: 401, which the agent logs as non-fatal.
MarkReachesShop == FALSE

MarkSynced ==
    /\ agent.pc = "post" /\ agent.answer = "ok"
    /\ synced' = IF MarkReachesShop THEN synced \cup agent.batch ELSE synced
    /\ agent' = Resting
    /\ UNCHANGED <<status, sold, disk, request, copies, faults>>

\* The connection is broken: axios posts again, up to three times, or the
\* agent has its error.
Resend ==
    /\ agent.answer = "broken" /\ Send(agent.batch)
    /\ agent' = [agent EXCEPT !.answer = "waiting"]
    /\ UNCHANGED <<shop, disk, copies, faults>>

GiveUp ==
    /\ agent.answer = "broken"
    /\ agent' = [agent EXCEPT !.answer = "error"]
    /\ UNCHANGED <<shop, disk, request, copies, faults>>

-----------------------------------------------------------------------------
(* The cloud: sync_transactions, one database transaction for the batch.     *)
(* The database has a unique index on txn_number and the foreign keys.       *)

First(r, s) == s \in request[r].todo /\ \A t \in request[r].todo : s <= t

Known(r, s) == copies[s] > 0 \/ s \in request[r].flushed

\* (Mistake) a sale that is there ends the batch: break for continue.
SkipRest(r, s) ==
    /\ request[r].pc = "look" /\ First(r, s) /\ Known(r, s)
    /\ request' = [request EXCEPT ![r].todo = {}]
    /\ UNCHANGED <<shop, disk, agent, copies, faults>>

Skip(r, s) ==
    /\ request[r].pc = "look" /\ First(r, s) /\ Known(r, s)
    /\ request' = [request EXCEPT ![r].todo = @ \ {s}]
    /\ UNCHANGED <<shop, disk, agent, copies, faults>>

NotThere(r, s) ==
    /\ request[r].pc = "look" /\ First(r, s) /\ ~Known(r, s)
    /\ request' = [request EXCEPT ![r].pc = "insert"]
    /\ UNCHANGED <<shop, disk, agent, copies, faults>>

\* Another request has inserted the sale and not committed.
Locked(r, s) == \E q \in Request \ {r} : s \in request[q].flushed

\* (Mistake) no unique index on txn_number: the look before is all there is.
FlushTwice(r, s) == s \in NoCashier \/ request[r].items \in NoProduct

\* The flush also writes the items of the record before, so that their error
\* is this record's.
FlushFails(r, s) ==
    copies[s] > 0 \/ s \in NoCashier \/ request[r].items \in NoProduct

Insert(r, s) ==
    /\ request[r].pc = "insert" /\ First(r, s) /\ ~Locked(r, s) /\ ~FlushFails(r, s)
    /\ request' = [request EXCEPT ![r] =
          [request[r] EXCEPT !.pc = "look", !.todo = request[r].todo \ {s},
                             !.flushed = request[r].flushed \cup {s}, !.items = s]]
    /\ UNCHANGED <<shop, disk, agent, copies, faults>>

\* (Mistake) only the failed record is taken back.
KeepFlushed(r, s) ==
    request' = [request EXCEPT ![r] =
        [request[r] EXCEPT !.pc = "look", !.todo = request[r].todo \ {s},
                           !.items = NoSale]]

\* db.rollback() takes back the whole batch so far; the loop goes on.
RollbackRecord(r, s) ==
    request' = [request EXCEPT ![r] =
        [request[r] EXCEPT !.pc = "look", !.todo = request[r].todo \ {s},
                           !.flushed = {}, !.items = NoSale]]

\* An IntegrityError, or lock_timeout behind another request.
InsertFails(r, s) ==
    /\ request[r].pc = "insert" /\ First(r, s)
    /\ Locked(r, s) \/ FlushFails(r, s)
    /\ RollbackRecord(r, s)
    /\ UNCHANGED <<shop, disk, agent, copies, faults>>

\* The answer is 200 in any case; it goes nowhere if the agent does not wait.
Answer(r) ==
    /\ request' = [request EXCEPT ![r] = Done]
    /\ agent' = IF request[r].live THEN [agent EXCEPT !.answer = "ok"] ELSE agent

\* The commit flushes the last items; "synced": 0 if that fails.
Commit(r) ==
    /\ request[r].pc = "look" /\ request[r].todo = {}
    /\ copies' = IF request[r].items \in NoProduct THEN copies
                 ELSE [s \in Sale |-> IF s \in request[r].flushed THEN copies[s] + 1
                                      ELSE copies[s]]
    /\ Answer(r)
    /\ UNCHANGED <<shop, disk, faults>>

-----------------------------------------------------------------------------
(* Faults *)

Broken(r) == IF request[r].live THEN [agent EXCEPT !.answer = "broken"] ELSE agent

\* The connection breaks and the cloud works on.
LoseConnection(r) ==
    /\ Fault /\ request[r].live
    /\ request' = [request EXCEPT ![r].live = FALSE]
    /\ agent' = Broken(r)
    /\ UNCHANGED <<shop, disk, copies>>

\* A worker dies, the database is away, or the request never arrives.
CloudFails(r) ==
    /\ Fault /\ request[r].pc # "free"
    /\ request' = [request EXCEPT ![r] = Done]
    /\ agent' = Broken(r)
    /\ UNCHANGED <<shop, disk, copies>>

\* The agent restarts, or a read of the shop's database fails: the cycle is over.
AgentStops ==
    /\ Fault /\ agent.pc # "idle"
    /\ agent' = Resting
    /\ request' = [r \in Request |-> [request[r] EXCEPT !.live = FALSE]]
    /\ UNCHANGED <<shop, disk, copies>>

-----------------------------------------------------------------------------
(* Next and fairness *)

Shop(s) == Enter(s, "completed") \/ Enter(s, "pending") \/ Confirm(s) \/ Void(s)

Agent ==
    \/ Tick \/ Promote \/ Replay \/ ClearRetryItem \/ MarkRetried
    \/ Post \/ NonePending \/ PushRetryQueue \/ MarkSynced \/ Resend \/ GiveUp

Cloud(r) ==
    \/ \E s \in Sale : Skip(r, s) \/ NotThere(r, s) \/ Insert(r, s) \/ InsertFails(r, s)
    \/ Commit(r)

Next ==
    \/ \E s \in Sale : Shop(s)
    \/ Agent
    \/ \E r \in Request : Cloud(r) \/ LoseConnection(r) \/ CloudFails(r)
    \/ AgentStops

Spec == Init /\ [][Next]_vars

\* cron keeps starting cycles and the cloud's workers work; nobody has to buy.
FairSpec == Spec /\ WF_vars(Agent) /\ \A r \in Request : WF_vars(Cloud(r))

-----------------------------------------------------------------------------
(* Properties *)

Promise == INSTANCE Delivery

\* Lost answers, replays, restarts and two requests with the same batch at once
\* never put a sale into the cloud twice, nor one that was not completed.
DeliversOnce == Promise!Spec

\* A sale is in the cloud with its items or not at all.
NoHalfSale == \A s \in NoCashier \cup NoProduct : copies[s] = 0

\* Sales older than it, waiting as well, fill a batch; if not, it is selected.
Behind(s) == Cardinality({t \in Ready : t < s}) >= BatchSize
Selected(s) == s \in Ready /\ ~Behind(s)

\* "NEVER silently dropped": a completed sale arrives in the end, if it stands,
\* no batch of older ones keeps it from its turn for ever, as none is ever marked
\* synced, and the cloud does not refuse another one of its batch.
EverySaleArrives ==
    \A s \in Sale \ (NoCashier \cup NoProduct) :
        s \in sold ~>
            \/ copies[s] = 1 \/ status[s] = "voided" \/ Behind(s)
            \/ Selected(s) /\ \E t \in NoCashier \cup NoProduct : Selected(t)
=============================================================================
