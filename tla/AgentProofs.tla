------------------------------ MODULE AgentProofs ------------------------------
(***************************************************************************)
(* Theorems about the two kinds of cycle of the sync agent.                *)
(*                                                                         *)
(* Outbox, for any sales, batch size, number of attempts, requests in the  *)
(* cloud and faults: what the agent sends was completed, and what the      *)
(* cloud commits was not there and is whole.                               *)
(*                                                                         *)
(* CatalogSync, for any finite set of items, batch size, number of         *)
(* attempts, time of a transaction, changes and faults: the checkpoint     *)
(* passes nothing the cloud has not had, and rows go back to older         *)
(* versions on either side only by replays and by overlapping cycles.      *)
(***************************************************************************)
EXTENDS Outbox, CatalogSync, FiniteSetTheorems, TLAPS

-----------------------------------------------------------------------------
(* Sales: the inductive invariant *)

\* The batch that is being replayed may be replayed once more.
Replaying ==
    agent.pc = "replay" => /\ agent.at \in DOMAIN queue
                           /\ queue[agent.at].attempts < MaxAttempts

\* Every sale on its way was completed, wherever it waits.
OnTheWay ==
    /\ \A s \in Sale : status[s] = "completed" => s \in sold
    /\ agent.batch \subseteq sold
    /\ \A n \in DOMAIN queue : queue[n].batch \subseteq sold
    /\ \A r \in Request : request[r].todo \cup request[r].flushed \subseteq sold

\* A row that is inserted and not committed is the only one of its sale.
OnlyRow ==
    \A r \in Request : \A s \in request[r].flushed :
        /\ copies[s] = 0
        /\ \A q \in Request : s \in request[q].flushed => q = r

\* Of the rows a request has inserted only the last can lack its items, and
\* nothing the database refuses has been committed.
Whole ==
    /\ \A s \in NoCashier \cup NoProduct : copies[s] = 0
    /\ \A r \in Request : \A s \in request[r].flushed :
           /\ s \notin NoCashier
           /\ s \in NoProduct => s = request[r].items

Inv == TypeOK /\ Replaying /\ OnTheWay /\ OnlyRow /\ Whole

RequestType ==
    [pc : {"free", "look", "insert"}, todo : SUBSET Sale, flushed : SUBSET Sale,
     items : Sale \cup {NoSale}, live : BOOLEAN]

-----------------------------------------------------------------------------
(* Sales: what a step leaves alone *)

LEMMA InitInv == Init => Inv
  <1> SUFFICES ASSUME Init PROVE Inv
    OBVIOUS
  <1>1. TypeOK
    <2>1. <<>> \in Seq([batch : SUBSET Sale, attempts : 0..MaxAttempts])
      OBVIOUS
    <2> QED  BY <2>1, MaxFaultsAssumption DEF Init, TypeOK, Resting, Done
  <1>2. Replaying /\ OnTheWay /\ OnlyRow
    BY DEF Init, Replaying, OnTheWay, OnlyRow, Resting, Done
  <1>3. Whole
    BY RefusedAssumption DEF Init, Whole, Done
  <1> QED  BY <1>1, <1>2, <1>3 DEF Inv

\* The rows that request r has inserted once it is w.
Rows(r, w) ==
    \A s \in w.flushed : /\ copies[s] = 0
                         /\ \A q \in Request \ {r} : s \notin request[q].flushed
                         /\ s \notin NoCashier
                         /\ s \in NoProduct => s = w.items

\* A step that takes the request r to w, and its sale s to the inserted rows or
\* not, or takes its rows back.
LEMMA RequestStep ==
    ASSUME Inv, NEW r \in Request, NEW w \in RequestType,
           request' = [request EXCEPT ![r] = w],
           UNCHANGED <<shop, queue, copies>>,
           w.todo \subseteq sold, w.flushed \subseteq sold,
           Rows(r, w)
    PROVE  /\ request' \in [Request -> RequestType]
           /\ \A q \in Request : request'[q].todo \cup request'[q].flushed \subseteq sold'
           /\ OnlyRow' /\ Whole'
  <1>1. request \in [Request -> RequestType]
    BY DEF Inv, TypeOK, RequestType
  <1>2. \A q \in Request : request'[q] = IF q = r THEN w ELSE request[q]
    BY <1>1
  <1>3. request' \in [Request -> RequestType]
    BY <1>1
  <1>4. \A q \in Request : request'[q].todo \cup request'[q].flushed \subseteq sold'
    BY <1>2 DEF Inv, OnTheWay, shop
  <1>5. OnlyRow'
    BY <1>2 DEF Inv, OnlyRow, Rows
  <1>6. Whole'
    BY <1>2 DEF Inv, Whole, Rows
  <1> QED  BY <1>3, <1>4, <1>5, <1>6

LEMMA SendStep ==
    ASSUME Inv, NEW batch \in SUBSET Sale, batch \subseteq sold, Send(batch),
           UNCHANGED <<shop, queue, copies>>
    PROVE  /\ request' \in [Request -> RequestType]
           /\ \A q \in Request : request'[q].todo \cup request'[q].flushed \subseteq sold'
           /\ OnlyRow' /\ Whole'
  <1> PICK r \in Request :
          request' = [request EXCEPT ![r] =
              [pc |-> "look", todo |-> batch, flushed |-> {}, items |-> NoSale,
               live |-> TRUE]]
    BY DEF Send
  <1> DEFINE w == [pc |-> "look", todo |-> batch, flushed |-> {}, items |-> NoSale,
                   live |-> TRUE]
  <1>1. w \in RequestType /\ w.todo = batch /\ w.flushed = {} /\ Rows(r, w)
    BY DEF RequestType, Rows
  <1>2. request' = [request EXCEPT ![r] = w]
    OBVIOUS
  <1> HIDE DEF w
  <1> QED  BY <1>1, <1>2, RequestStep

LEMMA WithoutType ==
    ASSUME TypeOK, NEW n \in DOMAIN queue
    PROVE  /\ Without(n) \in Seq([batch : SUBSET Sale, attempts : 0..MaxAttempts])
           /\ \A i \in DOMAIN Without(n) : \E j \in DOMAIN queue :
                  Without(n)[i] = queue[j]
  <1> DEFINE Waiting == [batch : SUBSET Sale, attempts : 0..MaxAttempts]
  <1>1. queue \in Seq(Waiting)
    BY DEF TypeOK
  <1> HIDE DEF Waiting
  <1>2. Len(queue) \in Nat /\ DOMAIN queue = 1..Len(queue)
    BY <1>1
  <1>3. \A i \in 1..(Len(queue) - 1) : i \in DOMAIN queue /\ i + 1 \in DOMAIN queue
    BY <1>2
  <1>4. \A i \in DOMAIN queue : queue[i] \in Waiting
    BY <1>1
  <1>5. Without(n) \in [1..(Len(queue) - 1) -> Waiting]
    BY <1>3, <1>4 DEF Without
  <1>6. Len(queue) - 1 \in Nat
    BY <1>2
  <1>7. Without(n) \in Seq(Waiting)
    BY <1>5, <1>6
  <1>8. \A i \in DOMAIN Without(n) : \E j \in DOMAIN queue : Without(n)[i] = queue[j]
    BY <1>3 DEF Without
  <1> QED  BY <1>7, <1>8 DEF Waiting

-----------------------------------------------------------------------------
(* Sales: every step keeps it *)

LEMMA ShopInv == ASSUME Inv, NEW s \in Sale, Shop(s) PROVE Inv'
  <1>1. /\ status' \in [Sale -> {"absent", "pending", "completed", "voided"}]
        /\ sold' \in SUBSET Sale /\ sold \subseteq sold'
        /\ \A t \in Sale : status'[t] = "completed" => t \in sold'
    <2>0. /\ status \in [Sale -> {"absent", "pending", "completed", "voided"}]
          /\ sold \in SUBSET Sale
          /\ \A t \in Sale : status[t] = "completed" => t \in sold
      BY DEF Inv, TypeOK, OnTheWay
    <2>1. CASE \E to \in {"completed", "pending"} : Enter(s, to)
      BY <2>0, <2>1 DEF Enter
    <2>2. CASE Confirm(s)
      BY <2>0, <2>2 DEF Confirm
    <2>3. CASE Void(s)
      BY <2>0, <2>3 DEF Void
    <2> QED  BY <2>1, <2>2, <2>3 DEF Shop
  <1>2. UNCHANGED <<synced, queue, dead, agent, request, copies, faults>>
    BY DEF Shop, Enter, Confirm, Void, disk
  <1>3. TypeOK'
    BY <1>1, <1>2 DEF Inv, TypeOK
  <1>4. Replaying' /\ OnlyRow' /\ Whole'
    BY <1>2 DEF Inv, Replaying, OnlyRow, Whole
  <1>5. OnTheWay'
    BY <1>1, <1>2 DEF Inv, OnTheWay
  <1> QED  BY <1>3, <1>4, <1>5 DEF Inv

AgentType ==
    [pc : {"idle", "drain", "replay", "post"}, at : Nat \ {0}, batch : SUBSET Sale,
     answer : {"none", "waiting", "broken", "ok", "error"}]

LEMMA AgentInv == ASSUME Inv, Agent PROVE Inv'
  <1> DEFINE Waiting == [batch : SUBSET Sale, attempts : 0..MaxAttempts]
  <1>0. /\ agent \in AgentType /\ queue \in Seq(Waiting)
        /\ agent.at \in Nat \ {0} /\ agent.at + 1 \in Nat \ {0}
        /\ \A n \in DOMAIN queue : /\ queue[n] \in Waiting
                                   /\ queue[n].batch \in SUBSET Sale
                                   /\ queue[n].batch \subseteq sold
    <2>1. agent \in AgentType /\ queue \in Seq(Waiting)
      BY DEF Inv, TypeOK, AgentType
    <2>2. agent.at \in Nat \ {0} /\ agent.at + 1 \in Nat \ {0}
      BY <2>1 DEF AgentType
    <2>3. \A n \in DOMAIN queue : queue[n] \in Waiting /\ queue[n].batch \in SUBSET Sale
      <3> HIDE DEF Waiting
      <3>1. \A n \in DOMAIN queue : queue[n] \in Waiting
        BY <2>1
      <3> QED  BY <3>1 DEF Waiting
    <2>4. \A n \in DOMAIN queue : queue[n].batch \subseteq sold
      BY DEF Inv, OnTheWay
    <2> QED  BY <2>1, <2>2, <2>3, <2>4
  <1>a. \* a step that leaves the requests alone
    ASSUME UNCHANGED <<status, sold, request, copies, faults>>,
           synced' \in SUBSET Sale, dead' \in SUBSET (SUBSET Sale),
           queue' \in Seq(Waiting), agent' \in AgentType,
           agent'.batch \subseteq sold,
           \A n \in DOMAIN queue' : queue'[n].batch \subseteq sold,
           agent'.pc = "replay" => agent = agent' /\ queue = queue'
    PROVE  Inv'
    <2>1. TypeOK'
      BY <1>a DEF Inv, TypeOK, AgentType
    <2>2. Replaying'
      BY <1>a DEF Inv, Replaying
    <2>3. OnTheWay' /\ OnlyRow' /\ Whole'
      BY <1>a DEF Inv, OnTheWay, OnlyRow, Whole
    <2> QED  BY <2>1, <2>2, <2>3 DEF Inv
  <1>b. \* a step that sends a batch
    ASSUME NEW batch \in SUBSET Sale, batch \subseteq sold, Send(batch),
           UNCHANGED <<shop, disk, copies, faults>>,
           agent' \in AgentType, agent'.batch \subseteq sold, Replaying'
    PROVE  Inv'
    <2>0. UNCHANGED <<shop, queue, copies>>
      BY <1>b DEF disk
    <2>1. /\ request' \in [Request -> RequestType]
          /\ \A q \in Request : request'[q].todo \cup request'[q].flushed \subseteq sold'
          /\ OnlyRow' /\ Whole'
      BY <1>b, <2>0, SendStep
    <2>2. TypeOK'
      BY <1>b, <2>1 DEF Inv, TypeOK, AgentType, RequestType, shop, disk
    <2>3. OnTheWay'
      BY <1>b, <2>1 DEF Inv, OnTheWay, shop, disk
    <2> QED  BY <1>b, <2>1, <2>2, <2>3 DEF Inv
  <1>1. ASSUME Tick PROVE Inv'
    <2>1. agent' \in AgentType /\ agent'.batch = {} /\ agent'.pc = "drain"
      BY <1>1 DEF Tick, Resting, AgentType
    <2> QED  BY <1>1, <2>1, <1>0, <1>a DEF Tick, shop, disk, Inv, TypeOK
  <1>2. ASSUME Promote PROVE Inv'
    <2>1. agent.at \in DOMAIN queue /\ agent.pc = "drain"
      BY <1>2 DEF Promote, Draining
    <2>2. /\ queue' \in Seq(Waiting)
          /\ \A n \in DOMAIN queue' : queue'[n].batch \subseteq sold
      BY <1>2, <2>1, <1>0, WithoutType DEF Promote, Inv
    <2>3. dead' \in SUBSET (SUBSET Sale)
      BY <1>2, <2>1, <1>0 DEF Promote, Inv, TypeOK
    <2> QED  BY <1>2, <2>1, <2>2, <2>3, <1>0, <1>a DEF Promote, shop, Inv, TypeOK, OnTheWay
  <1>3. ASSUME Replay PROVE Inv'
    <2>1. agent.at \in DOMAIN queue
      BY <1>3 DEF Replay, Draining
    <2>2. agent' = [agent EXCEPT !.pc = "replay", !.batch = queue[agent.at].batch,
                                 !.answer = "waiting"]
      BY <1>3 DEF Replay
    <2>3. /\ agent' \in AgentType /\ agent'.batch = queue[agent.at].batch
          /\ agent'.at = agent.at
      BY <2>1, <2>2, <1>0 DEF AgentType
    <2>4. queue[agent.at].attempts < MaxAttempts
      BY <1>3, <2>1, <1>0, SizesAssumption DEF Replay, Spent
    <2>5. Replaying'
      BY <1>3, <2>1, <2>3, <2>4 DEF Replay, Replaying, disk
    <2> QED  BY <1>3, <2>1, <2>3, <2>5, <1>0, <1>b DEF Replay
  <1>4. ASSUME ClearRetryItem PROVE Inv'
    <2>1. agent.at \in DOMAIN queue
      BY <1>4 DEF ClearRetryItem, Inv, Replaying
    <2>2. /\ queue' \in Seq(Waiting)
          /\ \A n \in DOMAIN queue' : queue'[n].batch \subseteq sold
      BY <1>4, <2>1, <1>0, WithoutType DEF ClearRetryItem, Inv
    <2>3. agent' \in AgentType /\ agent'.batch = agent.batch /\ agent'.pc = "drain"
      BY <1>4, <1>0 DEF ClearRetryItem, AgentType
    <2> QED  BY <1>4, <2>2, <2>3, <1>0, <1>a DEF ClearRetryItem, shop, Inv, TypeOK, OnTheWay
  <1>5. ASSUME MarkRetried PROVE Inv'
    <2>1. agent.at \in DOMAIN queue /\ queue[agent.at].attempts < MaxAttempts
      BY <1>5 DEF MarkRetried, Inv, Replaying
    <2> DEFINE item == [batch |-> queue[agent.at].batch,
                        attempts |-> queue[agent.at].attempts + 1]
    <2>2. queue[agent.at].attempts + 1 \in 0..MaxAttempts
      BY <2>1, <1>0, SizesAssumption
    <2>3. item \in Waiting /\ item.batch = queue[agent.at].batch
      BY <2>1, <2>2, <1>0
    <2>4. queue' = [queue EXCEPT ![agent.at] = item]
      BY <1>5, <2>1, <1>0 DEF MarkRetried
    <2> HIDE DEF item
    <2>5. /\ queue' \in Seq(Waiting)
          /\ \A n \in DOMAIN queue' : queue'[n].batch \subseteq sold
      BY <2>1, <2>3, <2>4, <1>0
    <2>6. agent' \in AgentType /\ agent'.batch = agent.batch /\ agent'.pc = "drain"
      BY <1>5, <1>0 DEF MarkRetried, AgentType
    <2> QED  BY <1>5, <2>5, <2>6, <1>0, <1>a DEF MarkRetried, shop, Inv, TypeOK, OnTheWay
  <1>6. ASSUME Post PROVE Inv'
    <2>1. PICK batch \in SUBSET Ready :
              /\ Send(batch)
              /\ agent' = [agent EXCEPT !.pc = "post", !.batch = batch,
                                        !.answer = "waiting"]
      BY <1>6 DEF Post
    <2>2. batch \in SUBSET Sale /\ batch \subseteq sold
      BY <2>1 DEF Ready, Inv, OnTheWay
    <2>3. agent' \in AgentType /\ agent'.batch = batch /\ agent'.pc = "post"
      BY <2>1, <2>2, <1>0 DEF AgentType
    <2>4. Replaying'
      BY <2>3 DEF Replaying
    <2> QED  BY <1>6, <2>1, <2>2, <2>3, <2>4, <1>b DEF Post
  <1>7. agent' = Resting => agent' \in AgentType /\ agent'.batch = {} /\ agent'.pc = "idle"
    BY DEF Resting, AgentType
  <1>8. ASSUME NonePending PROVE Inv'
    BY <1>8, <1>7, <1>0, <1>a DEF NonePending, shop, disk, Inv, TypeOK
  <1>9. ASSUME PushRetryQueue PROVE Inv'
    <2> DEFINE item == [batch |-> agent.batch, attempts |-> 0]
    <2>1. item \in Waiting /\ item.batch \subseteq sold
      BY <1>0, SizesAssumption DEF AgentType, Inv, OnTheWay
    <2>2. queue' = queue \/ queue' = Append(queue, item)
      BY <1>9 DEF PushRetryQueue
    <2> HIDE DEF item, Waiting
    <2>3. /\ queue' \in Seq(Waiting)
          /\ \A n \in DOMAIN queue' : queue'[n].batch \subseteq sold
      <3>1. CASE queue' = queue
        BY <3>1, <1>0
      <3>2. CASE queue' = Append(queue, item)
        BY <3>2, <2>1, <1>0
      <3> QED  BY <2>2, <3>1, <3>2
    <2> QED  BY <1>9, <2>3, <1>7, <1>0, <1>a DEF PushRetryQueue, shop, Inv, TypeOK
  <1>10. ASSUME MarkSynced PROVE Inv'
    <2>1. synced' \in SUBSET Sale
      BY <1>10, <1>0 DEF MarkSynced, MarkReachesShop, Inv, TypeOK
    <2> QED  BY <1>10, <2>1, <1>7, <1>0, <1>a DEF MarkSynced, disk, Inv, TypeOK
  <1>11. ASSUME Resend PROVE Inv'
    <2>1. agent' = [agent EXCEPT !.answer = "waiting"]
      BY <1>11 DEF Resend
    <2>2. /\ agent' \in AgentType /\ agent'.batch = agent.batch
          /\ agent'.pc = agent.pc /\ agent'.at = agent.at
      BY <2>1, <1>0 DEF AgentType
    <2>3. agent.batch \in SUBSET Sale /\ agent.batch \subseteq sold
      BY <1>0 DEF AgentType, Inv, OnTheWay
    <2>4. Replaying'
      BY <1>11, <2>2 DEF Resend, disk, Inv, Replaying
    <2> QED  BY <1>11, <2>2, <2>3, <2>4, <1>b DEF Resend
  <1>12. ASSUME GiveUp PROVE Inv'
    <2>1. agent' = [agent EXCEPT !.answer = "error"]
      BY <1>12 DEF GiveUp
    <2>2. /\ agent' \in AgentType /\ agent'.batch = agent.batch
          /\ agent'.pc = agent.pc /\ agent'.at = agent.at
      BY <2>1, <1>0 DEF AgentType
    <2>3. TypeOK'
      BY <1>12, <2>2 DEF GiveUp, shop, disk, Inv, TypeOK, AgentType
    <2>4. Replaying' /\ OnTheWay' /\ OnlyRow' /\ Whole'
      BY <1>12, <2>2 DEF GiveUp, shop, disk, Inv, Replaying, OnTheWay, OnlyRow, Whole
    <2> QED  BY <2>3, <2>4 DEF Inv
  <1> QED
    BY <1>1, <1>2, <1>3, <1>4, <1>5, <1>6, <1>8, <1>9, <1>10, <1>11, <1>12 DEF Agent

LEMMA CloudInv == ASSUME Inv, NEW r \in Request, Cloud(r) PROVE Inv'
  <1>0. /\ request \in [Request -> RequestType] /\ request[r] \in RequestType
        /\ request[r].todo \in SUBSET Sale /\ request[r].flushed \in SUBSET Sale
        /\ request[r].todo \subseteq sold /\ request[r].flushed \subseteq sold
        /\ agent \in AgentType
    BY DEF Inv, TypeOK, RequestType, AgentType, OnTheWay
  <1>1. Rows(r, request[r])
    BY DEF Inv, OnlyRow, Whole, Rows
  <1>a. \* a step on one record
    ASSUME NEW w \in RequestType, request' = [request EXCEPT ![r] = w],
           UNCHANGED <<shop, disk, agent, copies, faults>>,
           w.todo \subseteq sold, w.flushed \subseteq sold,
           Rows(r, w)
    PROVE  Inv'
    <2>0. UNCHANGED <<shop, queue, copies>>
      BY <1>a DEF disk
    <2>1. /\ request' \in [Request -> RequestType]
          /\ \A q \in Request : request'[q].todo \cup request'[q].flushed \subseteq sold'
          /\ OnlyRow' /\ Whole'
      BY <1>a, <2>0, RequestStep
    <2>2. TypeOK'
      BY <1>a, <2>1 DEF Inv, TypeOK, RequestType, shop, disk
    <2>3. OnTheWay' /\ Replaying'
      BY <1>a, <2>1 DEF Inv, OnTheWay, Replaying, shop, disk
    <2> QED  BY <2>1, <2>2, <2>3 DEF Inv
  <1>2. ASSUME NEW s \in Sale, Skip(r, s) PROVE Inv'
    <2> DEFINE w == [request[r] EXCEPT !.todo = request[r].todo \ {s}]
    <2>1. /\ w \in RequestType /\ w.todo = request[r].todo \ {s}
          /\ w.flushed = request[r].flushed /\ w.items = request[r].items
      BY <1>0 DEF RequestType
    <2>2. request' = [request EXCEPT ![r] = w]
      BY <1>2, <1>0 DEF Skip
    <2> HIDE DEF w
    <2>3. Rows(r, w)
      BY <1>1, <2>1 DEF Rows
    <2> QED  BY <1>0, <1>2, <2>1, <2>2, <2>3, <1>a DEF Skip
  <1>3. ASSUME NEW s \in Sale, NotThere(r, s) PROVE Inv'
    <2> DEFINE w == [request[r] EXCEPT !.pc = "insert"]
    <2>1. /\ w \in RequestType /\ w.todo = request[r].todo
          /\ w.flushed = request[r].flushed /\ w.items = request[r].items
      BY <1>0 DEF RequestType
    <2>2. request' = [request EXCEPT ![r] = w]
      BY <1>3, <1>0 DEF NotThere
    <2> HIDE DEF w
    <2>3. Rows(r, w)
      BY <1>1, <2>1 DEF Rows
    <2> QED  BY <1>0, <1>3, <2>1, <2>2, <2>3, <1>a DEF NotThere
  <1>4. ASSUME NEW s \in Sale, Insert(r, s) PROVE Inv'
    <2> DEFINE w == [request[r] EXCEPT !.pc = "look", !.todo = request[r].todo \ {s},
                                       !.flushed = request[r].flushed \cup {s},
                                       !.items = s]
    <2>1. /\ w \in RequestType /\ w.todo = request[r].todo \ {s}
          /\ w.flushed = request[r].flushed \cup {s} /\ w.items = s
      BY <1>0 DEF RequestType
    <2>2. request' = [request EXCEPT ![r] = w]
      BY <1>4 DEF Insert
    <2> HIDE DEF w
    <2>3. /\ s \in request[r].todo /\ s \notin NoCashier
          /\ request[r].items \notin NoProduct
          /\ \A q \in Request \ {r} : s \notin request[q].flushed
      BY <1>4 DEF Insert, First, Locked, FlushFails
    <2>4. copies[s] = 0
      <3>1. copies[s] \in Nat /\ ~(copies[s] > 0)
        BY <1>4 DEF Insert, FlushFails, Inv, TypeOK
      <3> QED  BY <3>1
    <2>5. Rows(r, w)
      BY <1>1, <2>1, <2>3, <2>4 DEF Rows
    <2>6. w.flushed \subseteq sold
      BY <1>0, <2>1, <2>3
    <2> QED  BY <1>0, <1>4, <2>1, <2>2, <2>5, <2>6, <1>a DEF Insert
  <1>5. ASSUME NEW s \in Sale, InsertFails(r, s) PROVE Inv'
    <2> DEFINE w == [request[r] EXCEPT !.pc = "look", !.todo = request[r].todo \ {s},
                                       !.flushed = {}, !.items = NoSale]
    <2>1. /\ w \in RequestType /\ w.todo = request[r].todo \ {s} /\ w.flushed = {}
      BY <1>0 DEF RequestType
    <2>2. request' = [request EXCEPT ![r] = w]
      BY <1>5 DEF InsertFails, RollbackRecord
    <2> HIDE DEF w
    <2>3. Rows(r, w)
      BY <2>1 DEF Rows
    <2> QED  BY <1>0, <1>5, <2>1, <2>2, <2>3, <1>a DEF InsertFails
  <1>6. ASSUME Commit(r) PROVE Inv'
    <2>1. /\ Done \in RequestType /\ Done.todo = {} /\ Done.flushed = {}
          /\ request' = [request EXCEPT ![r] = Done]
      BY <1>6 DEF Done, RequestType, Commit, Answer
    <2>2. \A q \in Request : request'[q] = IF q = r THEN Done ELSE request[q]
      BY <1>0, <2>1
    <2>3. /\ agent' \in AgentType /\ agent'.batch = agent.batch
          /\ agent'.pc = agent.pc /\ agent'.at = agent.at
      BY <1>0, <1>6 DEF Commit, Answer, AgentType
    <2>4. /\ copies' \in [Sale -> Nat]
          /\ \A s \in Sale : copies'[s] # copies[s] =>
                 s \in request[r].flushed /\ request[r].items \notin NoProduct
      BY <1>6 DEF Commit, Inv, TypeOK
    <2>5. UNCHANGED <<shop, disk, faults>>
      BY <1>6 DEF Commit
    <2>6. TypeOK'
      BY <1>0, <2>1, <2>3, <2>4, <2>5 DEF Inv, TypeOK, RequestType, AgentType, shop, disk
    <2>7. Replaying' /\ OnTheWay'
      BY <2>1, <2>2, <2>3, <2>5 DEF Inv, Replaying, OnTheWay, shop, disk
    <2>8. OnlyRow'
      BY <1>0, <2>1, <2>2, <2>4 DEF Inv, OnlyRow, OnTheWay, TypeOK, RequestType
    <2>9. Whole'
      BY <1>1, <2>1, <2>2, <2>4, RefusedAssumption DEF Inv, Whole, Rows
    <2> QED  BY <2>6, <2>7, <2>8, <2>9 DEF Inv
  <1> QED  BY <1>2, <1>3, <1>4, <1>5, <1>6 DEF Cloud

\* A fault forgets requests, or only who waits for them.
LEMMA FaultInv ==
    ASSUME Inv, \/ \E r \in Request : LoseConnection(r) \/ CloudFails(r)
                \/ AgentStops
    PROVE  Inv'
  <1>0. /\ request \in [Request -> RequestType] /\ agent \in AgentType
        /\ \A q \in Request : request[q] \in RequestType
    BY DEF Inv, TypeOK, RequestType, AgentType
  <1>1. /\ faults' \in 0..MaxFaults
        /\ UNCHANGED <<shop, disk, copies>>
    BY MaxFaultsAssumption DEF LoseConnection, CloudFails, AgentStops, Fault, Inv, TypeOK
  <1>2. /\ agent' \in AgentType /\ agent'.batch \subseteq sold
        /\ agent'.pc = "replay" => agent.pc = "replay" /\ agent'.at = agent.at
    <2>1. Resting \in AgentType /\ Resting.batch = {} /\ Resting.pc = "idle"
      BY DEF Resting, AgentType
    <2>2. agent' \in {agent, Resting, [agent EXCEPT !.answer = "broken"]}
      BY DEF LoseConnection, CloudFails, AgentStops, Broken
    <2> QED  BY <1>0, <2>1, <2>2 DEF AgentType, Inv, OnTheWay
  <1> DEFINE Kept ==
      /\ request' \in [Request -> RequestType]
      /\ \A q \in Request :
             \/ request'[q].todo = {} /\ request'[q].flushed = {}
             \/ /\ request'[q].todo = request[q].todo
                /\ request'[q].flushed = request[q].flushed
                /\ request'[q].items = request[q].items
  <1>3. Kept
    <2>1. ASSUME NEW r \in Request, LoseConnection(r) PROVE Kept
      BY <1>0, <2>1 DEF LoseConnection, RequestType
    <2>2. ASSUME NEW r \in Request, CloudFails(r) PROVE Kept
      BY <1>0, <2>2 DEF CloudFails, Done, RequestType
    <2>3. ASSUME AgentStops PROVE Kept
      BY <1>0, <2>3 DEF AgentStops, RequestType
    <2> QED  BY <2>1, <2>2, <2>3
  <1>4. TypeOK'
    BY <1>1, <1>2, <1>3 DEF Inv, TypeOK, AgentType, RequestType, shop, disk
  <1>5. Replaying' /\ OnTheWay'
    BY <1>1, <1>2, <1>3 DEF Inv, Replaying, OnTheWay, shop, disk
  <1>6. OnlyRow' /\ Whole'
    BY <1>1, <1>3 DEF Inv, OnlyRow, Whole
  <1> QED  BY <1>4, <1>5, <1>6 DEF Inv

LEMMA NextInv == Inv /\ [Next]_vars => Inv'
  <1> SUFFICES ASSUME Inv, [Next]_vars PROVE Inv'
    OBVIOUS
  <1>1. CASE Next
    BY <1>1, ShopInv, AgentInv, CloudInv, FaultInv DEF Next
  <1>2. CASE UNCHANGED vars
    BY <1>2 DEF vars, Inv, TypeOK, Replaying, OnTheWay, OnlyRow, Whole
  <1> QED  BY <1>1, <1>2

LEMMA InvCorrect == Spec => []Inv
  BY InitInv, NextInv, PTL DEF Spec

-----------------------------------------------------------------------------
(* Sales: theorems *)

\* The tables, the queue and the processes keep their shape, and no batch is
\* replayed more than MaxAttempts times (syncLoop.js drainRetryQueue).
THEOREM TypeCorrect == Spec => []TypeOK
  <1>1. Inv => TypeOK
    BY DEF Inv
  <1> QED  BY <1>1, InvCorrect, PTL

\* What the database refuses a part of is not in the cloud at all, whatever was
\* flushed before or after it (routers/sync.py sync_transactions).
THEOREM WholeSales == Spec => []NoHalfSale
  <1>1. Inv => NoHalfSale
    BY DEF Inv, Whole, NoHalfSale
  <1> QED  BY <1>1, InvCorrect, PTL

\* A commit brings sales that were completed and not in the cloud; no other step
\* touches the cloud's rows.
LEMMA StepDelivers ==
    ASSUME Inv, [Next]_vars
    PROVE  Promise!Next \/ UNCHANGED <<sold, copies>>
  <1>1. ASSUME NEW s \in Sale, Shop(s)
        PROVE  Promise!Next \/ UNCHANGED <<sold, copies>>
    <2>1. UNCHANGED copies /\ (sold' = sold \/ sold' = sold \cup {s})
      BY <1>1 DEF Shop, Enter, Confirm, Void
    <2> QED  BY <2>1 DEF Promise!Next, Promise!Complete
  <1>2. ASSUME NEW r \in Request, Commit(r)
        PROVE  Promise!Next \/ UNCHANGED <<sold, copies>>
    <2>1. sold' = sold
      BY <1>2 DEF Commit, shop
    <2>2. CASE request[r].items \in NoProduct
      BY <1>2, <2>1, <2>2 DEF Commit
    <2>3. CASE request[r].items \notin NoProduct
      <3>1. \A s \in request[r].flushed : copies[s] = 0
        BY DEF Inv, OnlyRow
      <3>2. request[r].flushed \in SUBSET sold
        BY DEF Inv, OnTheWay
      <3>3. copies' = [s \in Sale |-> IF s \in request[r].flushed THEN 1 ELSE copies[s]]
        BY <1>2, <2>3, <3>1 DEF Commit
      <3>4. Promise!Arrive(request[r].flushed)
        BY <2>1, <3>1, <3>3 DEF Promise!Arrive
      <3> QED  BY <3>2, <3>4 DEF Promise!Next
    <2> QED  BY <2>2, <2>3
  <1>3. ASSUME Agent PROVE UNCHANGED <<sold, copies>>
    BY <1>3 DEF Agent, Tick, Promote, Replay, ClearRetryItem, MarkRetried, Post,
                NonePending, PushRetryQueue, MarkSynced, Resend, GiveUp, shop
  <1>4. ASSUME NEW r \in Request, NEW s \in Sale,
               Skip(r, s) \/ NotThere(r, s) \/ Insert(r, s) \/ InsertFails(r, s)
        PROVE  UNCHANGED <<sold, copies>>
    BY <1>4 DEF Skip, NotThere, Insert, InsertFails, shop
  <1>5. ASSUME NEW r \in Request, LoseConnection(r) \/ CloudFails(r) \/ AgentStops
        PROVE  UNCHANGED <<sold, copies>>
    BY <1>5 DEF LoseConnection, CloudFails, AgentStops, shop
  <1>6. ASSUME AgentStops PROVE UNCHANGED <<sold, copies>>
    BY <1>6 DEF AgentStops, shop
  <1> QED  BY <1>1, <1>2, <1>3, <1>4, <1>5, <1>6 DEF Next, Cloud, vars

\* Outbox implements Delivery: lost answers, replays, restarts and two requests
\* with the same batch never bring a sale into the cloud twice, nor one that was
\* not completed (routers/sync.py: "idempotent").
THEOREM DeliveryTheorem == Spec => DeliversOnce
  <1>1. Init => Promise!Init
    BY DEF Init, Promise!Init
  <1>2. Inv /\ [Next]_vars => [Promise!Next]_<<sold, copies>>
    BY StepDelivers
  <1> QED  BY <1>1, <1>2, InvCorrect, PTL DEF Spec, DeliversOnce, Promise!Spec

-----------------------------------------------------------------------------
(* The catalogue: the inductive invariant *)

\* Every version in use has been made, and version 0 is only the lack of a row.
Versions ==
    /\ \A i \in Item : local[i].val \in 0..version /\ cloud[i].val \in 0..version
    /\ \A i \in DOMAIN pull.rows : pull.rows[i].val \in 1..version
    /\ \A i \in DOMAIN push.rows : push.rows[i].val \in 1..version
    /\ \A n \in DOMAIN retry : \A i \in DOMAIN retry[n].rows :
           retry[n].rows[i].val \in 1..version
    /\ \A q \in left : \A i \in DOMAIN q.rows : q.rows[i].val \in 1..version

\* A batch on its way holds what the checkpoint is about to pass.
SendingCovers ==
    push.pc = "send" =>
        \A i \in Item : local[i].val # 0 /\ local[i].ts < push.last =>
            \/ i \in delivered \cup missed
            \/ i \in DOMAIN push.rows /\ push.rows[i].val = local[i].val

SoundInv == CatalogTypeOK /\ Versions /\ BehindIsDelivered /\ SendingCovers

\* What the cloud, a queue, a POST or a cycle has of an item is no newer than the shop's
\* row, but for changes of the cloud and items that were set back.
NoNewer(i, v) == v \in fromCloud \/ i \in reverted \/ v <= local[i].val

ShopIsNewest ==
    /\ \A i \in Item : NoNewer(i, cloud[i].val)
    /\ \A i \in DOMAIN pull.rows : NoNewer(i, pull.rows[i].val)
    /\ \A i \in DOMAIN push.rows : NoNewer(i, push.rows[i].val)
    /\ \A n \in DOMAIN retry : \A i \in DOMAIN retry[n].rows :
           NoNewer(i, retry[n].rows[i].val)
    /\ \A q \in left : \A i \in DOMAIN q.rows : NoNewer(i, q.rows[i].val)

\* Nor than the batch that the shop is sending.
BatchIsNewest ==
    push.pc = "send" =>
        /\ \A i \in DOMAIN push.rows :
               \/ cloud[i].val \in fromCloud \/ i \in reverted
               \/ cloud[i].val <= push.rows[i].val
        /\ pull.pc = "apply" => \A i \in DOMAIN push.rows \cap DOMAIN pull.rows :
               \/ pull.rows[i].val \in fromCloud \/ i \in reverted
               \/ pull.rows[i].val <= push.rows[i].val
        /\ \A q \in left : \A i \in DOMAIN push.rows \cap DOMAIN q.rows :
               \/ q.rows[i].val \in fromCloud \/ i \in reverted
               \/ q.rows[i].val <= push.rows[i].val

\* A batch that nobody waits for is known to be late.
LeftIsLate == \A q \in left : DOMAIN q.rows \subseteq late

Loose(i) == i \in late \cup reverted

\* Where the shop's row was delivered, the cloud's row, the batch that is sent
\* and the feed that is applied are no older, but for late batches, set-backs and
\* a batch that overtook the feed; nor is the cloud's row older than the feed's.
DeliveredStays ==
    /\ \A i \in delivered :
           local[i].val \in fromCloud \/ Loose(i) \/ local[i].val <= cloud[i].val
    /\ push.pc = "send" => \A i \in DOMAIN push.rows \cap delivered :
           local[i].val \in fromCloud \/ Loose(i) \/ local[i].val <= push.rows[i].val
    /\ pull.pc = "apply" => \A i \in DOMAIN pull.rows :
           /\ \/ pull.rows[i].val \in fromCloud \/ Loose(i)
              \/ pull.rows[i].val <= cloud[i].val
           /\ i \in delivered =>
                 \/ local[i].val \in fromCloud \/ Loose(i) \/ i \in pull.overtaken
                 \/ local[i].val <= pull.rows[i].val

CatalogInv ==
    SoundInv /\ ShopIsNewest /\ BatchIsNewest /\ LeftIsLate /\ DeliveredStays

-----------------------------------------------------------------------------
(* The catalogue: what the cloud and the queue do with a batch *)

\* The cloud's rows change to those of the batch only.
Answered(rows) ==
    /\ cloud' \in [Item -> Row]
    /\ delivered \subseteq delivered' /\ delivered' \subseteq Item
    /\ missed \subseteq missed' /\ missed' \subseteq Item
    /\ unpulled' \subseteq Item
    /\ \A i \in Item :
           \/ cloud'[i] = cloud[i]
           \/ i \in DOMAIN rows /\ cloud'[i].val = rows[i].val
    /\ \A i \in delivered' :
           \/ i \in delivered
           \/ i \in DOMAIN rows /\ cloud'[i].val = rows[i].val
                                /\ rows[i].val = local[i].val

\* What the shop has not changed since is delivered, or known to be missed.
Passed(rows) ==
    \A i \in DOMAIN rows : rows[i].val = local[i].val => i \in delivered' \cup missed'

LEMMA WritesAnswer ==
    ASSUME CatalogTypeOK, NEW rows, IsBatch(rows), NEW won \in SUBSET (DOMAIN rows),
           NEW t \in Nat, Writes(rows, won, t)
    PROVE  Answered(rows) /\ Passed(rows)
  <1>1. /\ cloud \in [Item -> Row]
        /\ delivered \subseteq Item /\ missed \subseteq Item /\ unpulled \subseteq Item
    BY DEF CatalogTypeOK
  <1>2. \A i \in DOMAIN rows : i \in Item /\ rows[i].val \in Nat
    BY DEF IsBatch, Row
  <1> DEFINE has == {i \in DOMAIN rows : rows[i].val = local[i].val}
  <1>3. /\ cloud' = [i \in Item |->
                IF i \in won THEN [val |-> rows[i].val, ts |-> t] ELSE cloud[i]]
        /\ delivered' = delivered \cup {i \in has : cloud'[i].val = rows[i].val}
        /\ missed' = missed \cup {i \in has \ delivered : cloud'[i].val # rows[i].val}
        /\ unpulled' = unpulled \cup won \/ unpulled' = unpulled \ won
    BY DEF Writes
  <1>4. has \subseteq DOMAIN rows
    OBVIOUS
  <1>5. \A i \in has : i \in DOMAIN rows /\ rows[i].val = local[i].val
    OBVIOUS
  <1>6. \A i \in DOMAIN rows : rows[i].val = local[i].val => i \in has
    OBVIOUS
  <1> HIDE DEF has
  <1>7. cloud' \in [Item -> Row]
    BY <1>1, <1>2, <1>3 DEF Row
  <1>8. \A i \in Item : \/ cloud'[i] = cloud[i]
                        \/ i \in DOMAIN rows /\ cloud'[i].val = rows[i].val
    BY <1>1, <1>3
  <1>9. Passed(rows)
    BY <1>3, <1>6 DEF Passed
  <1> QED  BY <1>1, <1>2, <1>3, <1>4, <1>5, <1>7, <1>8, <1>9 DEF Answered

LEMMA TakenAnswers ==
    ASSUME CatalogTypeOK, NEW rows, IsBatch(rows), Taken(rows)
    PROVE  Answered(rows) /\ Passed(rows)
  <1>1. PICK t \in Since(push.from) : Writes(rows, Winning(rows), t)
    BY DEF Taken
  <1>2. t \in Nat
    BY DEF Since, Recent
  <1>3. PICK won : won = Winning(rows)
    OBVIOUS
  <1>4. won \in SUBSET (DOMAIN rows)
    BY <1>3 DEF Winning
  <1>5. Writes(rows, won, t)
    BY <1>1, <1>3 DEF Writes
  <1> QED  BY <1>2, <1>4, <1>5, WritesAnswer

LEMMA LetGoAnswers ==
    ASSUME CatalogTypeOK, NEW rows, IsBatch(rows), LetGo(rows)
    PROVE  Answered(rows) /\ Passed(rows)
  BY DEF CatalogTypeOK, IsBatch, LetGo, Answered, Passed

LEMMA SilenceAnswers ==
    ASSUME CatalogTypeOK, NEW rows, UNCHANGED <<cloud, delivered, missed, unpulled>>
    PROVE  Answered(rows)
  BY DEF CatalogTypeOK, Answered

\* Whatever becomes of a POST: it changes the cloud and overtakes the feed, or
\* does neither; it may be left there.
LEMMA PostEnds ==
    ASSUME CatalogTypeOK, NEW rows, IsBatch(rows),
           Taken(rows) \/ LetGo(rows) \/ Lost \/ Leaves(rows)
    PROVE  /\ Answered(rows)
           /\ Taken(rows) \/ LetGo(rows) => Passed(rows)
           /\ Overtakes(rows) \/ UNCHANGED <<cloud, delivered, pull>>
           /\ left' = left \/ left' = left \cup {Posted(rows)}
  <1>1. CASE Taken(rows)
    BY <1>1, TakenAnswers DEF Taken
  <1>2. CASE LetGo(rows)
    BY <1>2, LetGoAnswers DEF LetGo
  <1>3. CASE Lost /\ ~ Taken(rows) /\ ~ LetGo(rows)
    BY <1>3, SilenceAnswers DEF Lost
  <1>4. CASE Leaves(rows) /\ ~ Taken(rows) /\ ~ LetGo(rows)
    BY <1>4, SilenceAnswers DEF Leaves
  <1> QED  BY <1>1, <1>2, <1>3, <1>4

LEMMA RemovedAt ==
    ASSUME NEW S, NEW q \in Seq(S), NEW n \in 1..Len(q)
    PROVE  /\ RemoveAt(q, n) \in Seq(S)
           /\ Len(RemoveAt(q, n)) = Len(q) - 1
           /\ \A m \in 1..(Len(q) - 1) :
                  RemoveAt(q, n)[m] = IF m < n THEN q[m] ELSE q[m + 1]
  <1>1. Len(q) \in Nat /\ n \in Nat
    OBVIOUS
  <1>2. /\ SubSeq(q, 1, n - 1) \in Seq(S)
        /\ Len(SubSeq(q, 1, n - 1)) = n - 1
        /\ \A m \in 1..(n - 1) : SubSeq(q, 1, n - 1)[m] = q[m]
    BY <1>1
  <1>3. /\ SubSeq(q, n + 1, Len(q)) \in Seq(S)
        /\ Len(SubSeq(q, n + 1, Len(q))) = Len(q) - n
        /\ \A m \in 1..(Len(q) - n) : SubSeq(q, n + 1, Len(q))[m] = q[m + n]
    BY <1>1
  <1>4. PICK a \in Seq(S) : a = SubSeq(q, 1, n - 1)
    BY <1>2
  <1>5. PICK b \in Seq(S) : b = SubSeq(q, n + 1, Len(q))
    BY <1>3
  <1>6. RemoveAt(q, n) = a \o b
    BY <1>4, <1>5 DEF RemoveAt
  <1>7. Len(a) = n - 1 /\ Len(b) = Len(q) - n
    BY <1>2, <1>3, <1>4, <1>5
  <1>8. a \o b \in Seq(S) /\ Len(a \o b) = Len(q) - 1
    <2>1. a \o b \in Seq(S)
      OBVIOUS
    <2>2. Len(a \o b) = Len(a) + Len(b)
      OBVIOUS
    <2>3. (n - 1) + (Len(q) - n) = Len(q) - 1
      BY <1>1
    <2> QED  BY <1>7, <2>1, <2>2, <2>3
  <1>9. ASSUME NEW m \in 1..(Len(q) - 1)
        PROVE  (a \o b)[m] = IF m < n THEN q[m] ELSE q[m + 1]
    <2>1. m \in Nat /\ m >= 1 /\ m =< Len(q) - 1
      BY <1>1
    <2>2. CASE m < n
      <3>1. (a \o b)[m] = a[m]
        BY <1>1, <1>7, <2>1, <2>2
      <3> QED  BY <1>1, <1>2, <1>4, <2>1, <2>2, <3>1
    <2>3. CASE ~(m < n)
      <3>1. (a \o b)[m] = b[m - Len(a)]
        BY <1>1, <1>7, <2>1, <2>3
      <3>2. m - (n - 1) \in 1..(Len(q) - n)
        BY <1>1, <2>1, <2>3
      <3>3. b[m - (n - 1)] = q[(m - (n - 1)) + n]
        BY <1>3, <1>5, <3>2
      <3>4. (m - (n - 1)) + n = m + 1
        BY <1>1, <2>1
      <3> QED  BY <1>7, <2>3, <3>1, <3>3, <3>4
    <2> QED  BY <2>2, <2>3
  <1> QED  BY <1>6, <1>8, <1>9

-----------------------------------------------------------------------------
(* The catalogue: the queue *)

QueueTypeOK ==
    /\ retry \in Seq([key : Nat \X Nat, rows : {item.rows : item \in Range(retry)},
                      attempts : 0..MaxAttempts])
    /\ \A n \in DOMAIN retry : IsBatch(retry[n].rows)
    /\ \A n, m \in DOMAIN retry : retry[m].key = retry[n].key => m = n

\* What is queued is a batch.
IsQueued(item) ==
    /\ item \in [key : Nat \X Nat, rows : {item.rows}, attempts : 0..MaxAttempts]
    /\ IsBatch(item.rows)

LEMMA QueueGives ==
    ASSUME CatalogTypeOK
    PROVE  /\ retry \in Seq({retry[n] : n \in 1..Len(retry)})
           /\ Len(retry) \in Nat /\ DOMAIN retry = 1..Len(retry)
           /\ \A n \in DOMAIN retry : IsQueued(retry[n])
           /\ \A n, m \in DOMAIN retry : retry[m].key = retry[n].key => m = n
  <1> DEFINE R == {item.rows : item \in Range(retry)}
  <1>1. /\ retry \in Seq([key : Nat \X Nat, rows : R, attempts : 0..MaxAttempts])
        /\ \A n \in DOMAIN retry : IsBatch(retry[n].rows)
        /\ \A n, m \in DOMAIN retry : retry[m].key = retry[n].key => m = n
    BY DEF CatalogTypeOK
  <1> HIDE DEF R
  <1>2. Len(retry) \in Nat /\ DOMAIN retry = 1..Len(retry)
    BY <1>1
  <1>3. retry \in [1..Len(retry) -> {retry[n] : n \in 1..Len(retry)}]
    BY <1>1, <1>2
  <1>4. retry \in Seq({retry[n] : n \in 1..Len(retry)})
    BY <1>2, <1>3
  <1>5. ASSUME NEW n \in DOMAIN retry PROVE IsQueued(retry[n])
    <2> DEFINE T == [key : Nat \X Nat, rows : R, attempts : 0..MaxAttempts]
    <2>1. retry \in Seq(T)
      BY <1>1
    <2> HIDE DEF T
    <2>2. retry[n] \in T
      BY <1>2, <2>1
    <2>3. retry[n] \in [key : Nat \X Nat, rows : R, attempts : 0..MaxAttempts]
      BY <2>2 DEF T
    <2>4. retry[n] \in [key : Nat \X Nat, rows : {retry[n].rows}, attempts : 0..MaxAttempts]
      BY <2>3
    <2> QED  BY <1>1, <2>4 DEF IsQueued
  <1> QED  BY <1>1, <1>2, <1>4, <1>5

LEMMA QueueTaken ==
    ASSUME NEW q, NEW S, q \in Seq(S), \A n \in DOMAIN q : IsQueued(q[n])
    PROVE  q \in Seq([key : Nat \X Nat, rows : {item.rows : item \in Range(q)},
                      attempts : 0..MaxAttempts])
  <1> DEFINE R == {item.rows : item \in Range(q)}
  <1>1. Len(q) \in Nat /\ DOMAIN q = 1..Len(q)
    OBVIOUS
  <1>2. ASSUME NEW n \in 1..Len(q) PROVE q[n].rows \in R
    BY <1>1 DEF Range
  <1> HIDE DEF R
  <1>3. ASSUME NEW n \in 1..Len(q)
        PROVE  q[n] \in [key : Nat \X Nat, rows : R, attempts : 0..MaxAttempts]
    <2>1. q[n] \in [key : Nat \X Nat, rows : {q[n].rows}, attempts : 0..MaxAttempts]
      BY <1>1 DEF IsQueued
    <2> QED  BY <1>2, <2>1
  <1>4. q \in [1..Len(q) -> [key : Nat \X Nat, rows : R, attempts : 0..MaxAttempts]]
    BY <1>1, <1>3
  <1>5. q \in Seq([key : Nat \X Nat, rows : R, attempts : 0..MaxAttempts])
    <2> DEFINE T == [key : Nat \X Nat, rows : R, attempts : 0..MaxAttempts]
    <2>1. q \in [1..Len(q) -> T]
      BY <1>4
    <2> HIDE DEF T
    <2>2. q \in Seq(T)
      BY <1>1, <2>1
    <2> QED  BY <2>2 DEF T
  <1> QED  BY <1>5 DEF R

\* A batch in the queue was in it before, or was being sent.
Descend ==
    \A n \in DOMAIN retry' :
        \/ \E m \in DOMAIN retry : retry'[n].rows = retry[m].rows
        \/ push.pc = "send" /\ retry'[n].rows = push.rows

LEMMA QueueLoses ==
    ASSUME CatalogTypeOK, NEW n \in 1..Len(retry), retry' = RemoveAt(retry, n)
    PROVE  QueueTypeOK' /\ Descend /\ Len(retry') = Len(retry) - 1
  <1>1. PICK S : S = {retry[k] : k \in 1..Len(retry)}
    OBVIOUS
  <1>2. /\ retry \in Seq(S) /\ Len(retry) \in Nat /\ DOMAIN retry = 1..Len(retry)
        /\ \A k \in DOMAIN retry : IsQueued(retry[k])
        /\ \A k, m \in DOMAIN retry : retry[m].key = retry[k].key => m = k
    BY <1>1, QueueGives
  <1>3. PICK q : q = retry
    OBVIOUS
  <1>4. /\ RemoveAt(q, n) \in Seq(S) /\ Len(RemoveAt(q, n)) = Len(q) - 1
        /\ \A m \in 1..(Len(q) - 1) :
               RemoveAt(q, n)[m] = IF m < n THEN q[m] ELSE q[m + 1]
    BY <1>2, <1>3, RemovedAt
  <1>5. /\ retry' \in Seq(S) /\ Len(retry') = Len(retry) - 1
        /\ \A m \in 1..(Len(retry) - 1) :
               retry'[m] = IF m < n THEN retry[m] ELSE retry[m + 1]
    BY <1>3, <1>4
  <1>6. DOMAIN retry' = 1..(Len(retry) - 1)
    BY <1>5
  <1>7. \A m \in DOMAIN retry' : retry'[m] = retry[IF m < n THEN m ELSE m + 1]
    BY <1>5, <1>6
  <1>8. \A m \in DOMAIN retry' : (IF m < n THEN m ELSE m + 1) \in DOMAIN retry
    BY <1>2, <1>6
  <1>9. \A m \in DOMAIN retry' : IsQueued(retry'[m])
    BY <1>2, <1>7, <1>8
  <1>10. \A k, m \in DOMAIN retry' : retry'[m].key = retry'[k].key => m = k
    <2> SUFFICES ASSUME NEW k \in DOMAIN retry', NEW m \in DOMAIN retry',
                        retry'[m].key = retry'[k].key
                 PROVE  m = k
      OBVIOUS
    <2>1. (IF m < n THEN m ELSE m + 1) = (IF k < n THEN k ELSE k + 1)
      BY <1>2, <1>7, <1>8
    <2> QED  BY <1>2, <1>6, <2>1
  <1>11. PICK p : p = retry'
    OBVIOUS
  <1>12. p \in Seq([key : Nat \X Nat, rows : {item.rows : item \in Range(p)},
                    attempts : 0..MaxAttempts])
    BY <1>5, <1>9, <1>11, QueueTaken
  <1>13. QueueTypeOK'
    BY <1>9, <1>10, <1>11, <1>12 DEF QueueTypeOK, IsQueued
  <1>14. Descend
    BY <1>7, <1>8 DEF Descend
  <1> QED  BY <1>5, <1>13, <1>14

LEMMA QueueBumps ==
    ASSUME CatalogTypeOK, NEW n \in 1..Len(retry), retry[n].attempts < MaxAttempts,
           retry' = [retry EXCEPT ![n] =
                        [retry[n] EXCEPT !.attempts = retry[n].attempts + 1]]
    PROVE  QueueTypeOK' /\ Descend /\ Len(retry') = Len(retry)
  <1>1. /\ retry \in Seq({retry[k] : k \in 1..Len(retry)})
        /\ Len(retry) \in Nat /\ DOMAIN retry = 1..Len(retry)
        /\ \A k \in DOMAIN retry : IsQueued(retry[k])
        /\ \A k, m \in DOMAIN retry : retry[m].key = retry[k].key => m = k
    BY QueueGives
  <1>2. PICK item : item = [retry[n] EXCEPT !.attempts = retry[n].attempts + 1]
    OBVIOUS
  <1>3. IsQueued(retry[n])
    BY <1>1
  <1>4. IsQueued(item) /\ item.key = retry[n].key /\ item.rows = retry[n].rows
    BY <1>2, <1>3, SizesAssumption DEF IsQueued
  <1>5. \A k \in DOMAIN retry : retry'[k] = IF k = n THEN item ELSE retry[k]
    BY <1>1, <1>2
  <1>6. DOMAIN retry' = DOMAIN retry
    BY <1>1
  <1>7. PICK p : p = retry'
    OBVIOUS
  <1>8. PICK len \in Nat : len = Len(retry)
    BY <1>1
  <1>9. p \in [1..len -> {p[k] : k \in 1..len}]
    <2>1. p = [k \in 1..len |-> IF k = n THEN item ELSE retry[k]]
      BY <1>1, <1>2, <1>7, <1>8
    <2> QED  BY <2>1
  <1>10. p \in Seq({p[k] : k \in 1..len}) /\ Len(p) = len
    <2>1. PICK S : S = {p[k] : k \in 1..len}
      OBVIOUS
    <2>2. p \in [1..len -> S]
      BY <1>9, <2>1
    <2>3. p \in Seq(S) /\ Len(p) = len
      BY <1>8, <2>2
    <2> QED  BY <2>1, <2>3
  <1>11. \A k \in DOMAIN p : IsQueued(p[k])
    BY <1>1, <1>4, <1>5, <1>6, <1>7
  <1>12. p \in Seq([key : Nat \X Nat, rows : {it.rows : it \in Range(p)},
                    attempts : 0..MaxAttempts])
    BY <1>10, <1>11, QueueTaken
  <1>13. \A k, m \in DOMAIN retry' : retry'[m].key = retry'[k].key => m = k
    <2>1. \A k \in DOMAIN retry : retry'[k].key = retry[k].key
      BY <1>4, <1>5
    <2> QED  BY <1>1, <1>6, <2>1
  <1>14. QueueTypeOK'
    BY <1>7, <1>11, <1>12, <1>13 DEF QueueTypeOK, IsQueued
  <1>15. Descend
    BY <1>4, <1>5, <1>6, <1>1 DEF Descend
  <1> QED  BY <1>7, <1>8, <1>10, <1>14, <1>15

LEMMA QueueGains ==
    ASSUME CatalogTypeOK, push.pc = "send", Requeue(push.rows)
    PROVE  QueueTypeOK' /\ Descend
  <1>1. /\ retry \in Seq({retry[k] : k \in 1..Len(retry)})
        /\ Len(retry) \in Nat /\ DOMAIN retry = 1..Len(retry)
        /\ \A k \in DOMAIN retry : IsQueued(retry[k])
        /\ \A k, m \in DOMAIN retry : retry[m].key = retry[k].key => m = k
    BY QueueGives
  <1>2. PICK key : key = <<checkpoint, Cardinality(DOMAIN push.rows)>>
    OBVIOUS
  <1>3. PICK item : item = [key |-> key, rows |-> push.rows, attempts |-> 0]
    OBVIOUS
  <1>4. key \in Nat \X Nat /\ IsBatch(push.rows)
    <2>1. IsBatch(push.rows) /\ checkpoint \in Nat
      BY DEF CatalogTypeOK
    <2>2. Cardinality(DOMAIN push.rows) \in Nat
      BY <2>1, ItemAssumption, FS_Subset, FS_CardinalityType DEF IsBatch
    <2> QED  BY <1>2, <2>1, <2>2
  <1>5. IsQueued(item) /\ item.key = key /\ item.rows = push.rows
    BY <1>3, <1>4, SizesAssumption DEF IsQueued
  <1>6. CASE \E n \in DOMAIN retry : retry[n].key = key
    <2>1. retry' = retry
      BY <1>2, <1>6 DEF Requeue
    <2>2. QueueTypeOK
      BY DEF CatalogTypeOK, QueueTypeOK
    <2>3. QueueTypeOK'
      BY <2>1, <2>2 DEF QueueTypeOK, IsBatch
    <2> QED  BY <2>1, <2>3 DEF Descend
  <1>7. CASE ~ \E n \in DOMAIN retry : retry[n].key = key
    <2>1. retry' = Append(retry, item)
      BY <1>2, <1>3, <1>7 DEF Requeue
    <2>2. PICK S : S = {retry[k] : k \in 1..Len(retry)}
      OBVIOUS
    <2>3. PICK q \in Seq(S) : q = retry
      BY <1>1, <2>2
    <2>4. PICK p : p = retry'
      OBVIOUS
    <2>5. /\ p \in Seq(S \cup {item}) /\ Len(p) = Len(q) + 1
          /\ \A k \in 1..Len(q) : p[k] = q[k]
          /\ p[Len(q) + 1] = item
      BY <2>1, <2>3, <2>4
    <2>6. DOMAIN p = 1..(Len(q) + 1) /\ Len(q) \in Nat /\ DOMAIN q = 1..Len(q)
      BY <2>3, <2>5
    <2>7. \A k \in DOMAIN p : (k \in DOMAIN q /\ p[k] = q[k])
                              \/ (k = Len(q) + 1 /\ p[k] = item)
      BY <2>5, <2>6
    <2>8. \A k \in DOMAIN p : IsQueued(p[k])
      BY <1>1, <1>5, <2>3, <2>7
    <2>9. p \in Seq([key : Nat \X Nat, rows : {it.rows : it \in Range(p)},
                     attempts : 0..MaxAttempts])
      BY <2>5, <2>8, QueueTaken
    <2>10. \A k, m \in DOMAIN p : p[m].key = p[k].key => m = k
      BY <1>1, <1>5, <1>7, <2>3, <2>7
    <2>11. QueueTypeOK'
      BY <2>4, <2>8, <2>9, <2>10 DEF QueueTypeOK, IsQueued
    <2>12. Descend
      BY <1>5, <2>3, <2>4, <2>7 DEF Descend
    <2> QED  BY <2>11, <2>12
  <1> QED  BY <1>6, <1>7

-----------------------------------------------------------------------------
(* The catalogue: types *)

PlainTypeOK ==
    /\ entity \in {"products", "customers"}
    /\ clock \in Nat /\ version \in Nat
    /\ local \in [Item -> Row] /\ cloud \in [Item -> Row]
    /\ checkpoint \in Nat /\ since \in Nat
    /\ delivered \subseteq Item /\ missed \subseteq Item /\ unpulled \subseteq Item
    /\ reverted \subseteq Item /\ late \subseteq Item
    /\ fromCloud \in SUBSET (1..version)
    /\ faults \in 0..MaxFaults

PushTypeOK ==
    /\ push \in [pc : {"idle", "replay", "send"}, at : Nat \ {0},
                 rows : {push.rows}, last : Nat, from : Nat, alone : BOOLEAN]
    /\ IsBatch(push.rows) /\ push.at <= Len(retry) + 1

LeftTypeOK ==
    \A q \in left :
        /\ q \in [rows : {q.rows}, looked : BOOLEAN, won : SUBSET Item, new : SUBSET Item]
        /\ IsBatch(q.rows) /\ q.won \subseteq DOMAIN q.rows

PullTypeOK ==
    /\ pull \in [pc : {"idle", "apply"}, rows : {pull.rows}, last : Nat, from : Nat,
                 overtaken : SUBSET Item]
    /\ IsBatch(pull.rows)

LEMMA CatalogTypes ==
    CatalogTypeOK <=>
        PlainTypeOK /\ QueueTypeOK /\ LeftTypeOK /\ PushTypeOK /\ PullTypeOK
  BY DEF CatalogTypeOK, PlainTypeOK, QueueTypeOK, LeftTypeOK, PushTypeOK, PullTypeOK

LEMMA CatalogTypesNext ==
    CatalogTypeOK' <=>
        PlainTypeOK' /\ QueueTypeOK' /\ LeftTypeOK' /\ PushTypeOK' /\ PullTypeOK'
  BY CatalogTypes, PTL

LEMMA NothingIsBatch == IsBatch(Nothing) /\ DOMAIN Nothing = {}
  BY DEF IsBatch, Nothing

LEMMA FaultCounts ==
    ASSUME faults \in 0..MaxFaults, Fault \/ UNCHANGED faults
    PROVE  faults' \in 0..MaxFaults
  BY MaxFaultsAssumption DEF Fault

LEMMA QueueStays ==
    ASSUME QueueTypeOK, UNCHANGED retry
    PROVE  QueueTypeOK' /\ Descend
  BY DEF QueueTypeOK, Descend, IsBatch

\* A POST in the cloud was there before, or has just been left behind.
Lingers ==
    \A q \in left' :
        \/ \E p \in left : q.rows = p.rows
        \/ DOMAIN q.rows \subseteq late' /\ q.rows = push.rows
        \/ /\ DOMAIN q.rows \subseteq late'
           /\ \E n \in DOMAIN retry : q.rows = retry[n].rows

LEMMA LeftStays ==
    ASSUME LeftTypeOK, left' \subseteq left
    PROVE  LeftTypeOK' /\ Lingers
  BY DEF LeftTypeOK, Lingers, IsBatch

LEMMA LeftGains ==
    ASSUME LeftTypeOK, NEW rows, IsBatch(rows), left' = left \cup {Posted(rows)},
           DOMAIN rows \subseteq late',
           rows = push.rows \/ \E n \in DOMAIN retry : rows = retry[n].rows
    PROVE  LeftTypeOK' /\ Lingers
  <1>1. PICK q : q = Posted(rows)
    OBVIOUS
  <1>2. /\ q \in [rows : {q.rows}, looked : BOOLEAN, won : SUBSET Item, new : SUBSET Item]
        /\ q.rows = rows /\ q.won = {}
    BY <1>1 DEF Posted
  <1>3. left' = left \cup {q}
    BY <1>1
  <1>4. LeftTypeOK'
    BY <1>2, <1>3 DEF LeftTypeOK, IsBatch
  <1>5. Lingers
    BY <1>2, <1>3 DEF Lingers
  <1> QED  BY <1>4, <1>5

LEMMA PushStays ==
    ASSUME PushTypeOK, UNCHANGED <<push, retry>> PROVE PushTypeOK'
  BY DEF PushTypeOK, IsBatch

LEMMA PullStays ==
    ASSUME PullTypeOK, UNCHANGED pull PROVE PullTypeOK'
  BY DEF PullTypeOK, IsBatch

\* The cycle that sends is over.
LEMMA PushRests ==
    ASSUME QueueTypeOK', push' = Rest PROVE PushTypeOK'
  <1>1. push'.rows = Nothing /\ push'.at = 1
    BY DEF Rest
  <1>2. push' \in [pc : {"idle", "replay", "send"}, at : Nat \ {0},
                   rows : {push'.rows}, last : Nat, from : Nat, alone : BOOLEAN]
    BY DEF Rest
  <1>3. Len(retry') \in Nat
    BY DEF QueueTypeOK
  <1> QED  BY <1>1, <1>2, <1>3, NothingIsBatch DEF PushTypeOK

LEMMA PullRests ==
    ASSUME pull' = Asleep PROVE PullTypeOK'
  <1>1. pull'.rows = Nothing
    BY DEF Asleep
  <1>2. pull' \in [pc : {"idle", "apply"}, rows : {pull'.rows}, last : Nat, from : Nat,
                   overtaken : SUBSET Item]
    BY DEF Asleep
  <1> QED  BY <1>1, <1>2, NothingIsBatch DEF PullTypeOK

LEMMA PullOvertaken ==
    ASSUME PullTypeOK, NEW rows, IsBatch(rows), Overtakes(rows)
    PROVE  /\ PullTypeOK'
           /\ pull'.pc = pull.pc /\ pull'.rows = pull.rows
           /\ pull.pc = "apply" =>
                 pull'.overtaken = pull.overtaken \cup DOMAIN rows
  <1>1. PICK p : p = pull
    OBVIOUS
  <1>2. PICK q : q = pull'
    OBVIOUS
  <1>3. /\ p \in [pc : {"idle", "apply"}, rows : {p.rows}, last : Nat, from : Nat,
                  overtaken : SUBSET Item]
        /\ IsBatch(p.rows)
    BY <1>1 DEF PullTypeOK
  <1>4. q = IF p.pc = "idle" THEN p
            ELSE [p EXCEPT !.overtaken = p.overtaken \cup DOMAIN rows]
    BY <1>1, <1>2 DEF Overtakes
  <1>5. /\ q \in [pc : {"idle", "apply"}, rows : {q.rows}, last : Nat, from : Nat,
                  overtaken : SUBSET Item]
        /\ q.pc = p.pc /\ q.rows = p.rows
        /\ p.pc = "apply" => q.overtaken = p.overtaken \cup DOMAIN rows
    BY <1>3, <1>4 DEF IsBatch
  <1> QED  BY <1>1, <1>2, <1>3, <1>5 DEF PullTypeOK, IsBatch

LEMMA PickIsBatch ==
    ASSUME NEW table \in [Item -> Row], NEW S \in SUBSET Item
    PROVE  /\ IsBatch(Pick(table, S))
           /\ DOMAIN Pick(table, S) = S
           /\ \A i \in S : Pick(table, S)[i] = table[i]
  BY DEF IsBatch, Pick

\* A cycle reads due rows, and knows the time of the last of them.
LEMMA FirstsAreDue ==
    ASSUME NEW table \in [Item -> Row], NEW mark,
           NEW S \in Firsts(table, Due(table, mark), BatchSize),
           NEW i \in Latest(table, S)
    PROVE  /\ S \subseteq Due(table, mark) /\ S \subseteq Item /\ i \in S
           /\ table[i].ts \in Nat
           /\ \A j \in Due(table, mark) : table[j].ts < table[i].ts => j \in S
  <1>1. S \subseteq Due(table, mark) /\ S \subseteq Item /\ i \in S
    BY DEF Firsts, Due, Latest
  <1>2. \A j \in Item : table[j].ts \in Nat
    BY DEF Row
  <1>3. ASSUME NEW j \in Due(table, mark), table[j].ts < table[i].ts PROVE j \in S
    <2>1. j \in Item
      BY DEF Due
    <2>2. j \notin S => table[i].ts <= table[j].ts
      BY <1>1 DEF Firsts
    <2> QED  BY <1>1, <1>2, <1>3, <2>1, <2>2
  <1> QED  BY <1>1, <1>2, <1>3

-----------------------------------------------------------------------------
(* The catalogue: what each step does *)

LEMMA CatalogInitTypes == CatalogInit => CatalogTypeOK
  <1> SUFFICES ASSUME CatalogInit PROVE CatalogTypeOK
    OBVIOUS
  <1>1. PlainTypeOK
    BY MaxFaultsAssumption, StartedAssumption DEF CatalogInit, PlainTypeOK, Row, None
  <1>2. QueueTypeOK
    <2>1. retry = <<>>
      BY DEF CatalogInit
    <2> QED  BY <2>1 DEF QueueTypeOK
  <1>3. LeftTypeOK
    BY DEF CatalogInit, LeftTypeOK
  <1>4. PushTypeOK /\ PullTypeOK
    <2>1. push = Rest /\ pull = Asleep /\ Len(retry) = 0
      BY DEF CatalogInit
    <2>2. push.rows = Nothing /\ push.at = 1 /\ pull.rows = Nothing
      BY <2>1 DEF Rest, Asleep
    <2>3. push \in [pc : {"idle", "replay", "send"}, at : Nat \ {0},
                    rows : {push.rows}, last : Nat, from : Nat, alone : BOOLEAN]
      BY <2>1 DEF Rest
    <2>4. pull \in [pc : {"idle", "apply"}, rows : {pull.rows}, last : Nat, from : Nat,
                    overtaken : SUBSET Item]
      BY <2>1 DEF Asleep
    <2> QED  BY <2>1, <2>2, <2>3, <2>4, NothingIsBatch DEF PushTypeOK, PullTypeOK
  <1> QED  BY <1>1, <1>2, <1>3, <1>4, CatalogTypes

\* The shop, the cloud and the start of a cycle leave the queue alone.
LEMMA EditTypes ==
    ASSUME CatalogTypeOK,
           ClockTick \/ \E i \in Item, t \in Recent : LocalEdit(i, t) \/ CloudEdit(i, t)
    PROVE  CatalogTypeOK' /\ Descend /\ Lingers
  <1>1. PlainTypeOK /\ QueueTypeOK /\ LeftTypeOK /\ PushTypeOK /\ PullTypeOK
    BY CatalogTypes
  <1>2. UNCHANGED <<retry, left, push, pull>>
    BY DEF ClockTick, LocalEdit, CloudEdit
  <1>3. /\ QueueTypeOK' /\ LeftTypeOK' /\ PushTypeOK' /\ PullTypeOK'
        /\ Descend /\ Lingers
    BY <1>1, <1>2, QueueStays, LeftStays, PushStays, PullStays
  <1>4. PlainTypeOK'
    <2>1. CASE ClockTick
      BY <1>1, <2>1 DEF ClockTick, PlainTypeOK, marks, ghosts
    <2>2. ASSUME NEW i \in Item, NEW t \in Recent, LocalEdit(i, t) PROVE PlainTypeOK'
      <3>1. t \in Nat
        BY <2>2 DEF Recent
      <3>2. version \in Nat /\ version' = version + 1
        BY <1>1, <2>2 DEF LocalEdit, PlainTypeOK
      <3>3. local' \in [Item -> Row]
        BY <1>1, <2>2, <3>1, <3>2 DEF LocalEdit, PlainTypeOK, Row
      <3>4. delivered' \subseteq Item /\ missed' \subseteq Item
        BY <1>1, <2>2 DEF LocalEdit, PlainTypeOK
      <3>5. fromCloud' \in SUBSET (1..version')
        BY <1>1, <2>2, <3>2 DEF LocalEdit, PlainTypeOK
      <3> QED  BY <1>1, <2>2, <3>2, <3>3, <3>4, <3>5 DEF LocalEdit, PlainTypeOK, marks
    <2>3. ASSUME NEW i \in Item, NEW t \in Recent, CloudEdit(i, t) PROVE PlainTypeOK'
      <3>1. t \in Nat
        BY <2>3 DEF Recent
      <3>2. version \in Nat /\ version' = version + 1
        BY <1>1, <2>3 DEF CloudEdit, PlainTypeOK
      <3>3. cloud' \in [Item -> Row]
        BY <1>1, <2>3, <3>1, <3>2 DEF CloudEdit, PlainTypeOK, Row
      <3>4. unpulled' \subseteq Item
        BY <1>1, <2>3 DEF CloudEdit, PlainTypeOK
      <3>5. fromCloud' \in SUBSET (1..version')
        BY <1>1, <2>3, <3>2 DEF CloudEdit, PlainTypeOK
      <3> QED  BY <1>1, <2>3, <3>2, <3>3, <3>4, <3>5 DEF CloudEdit, PlainTypeOK, marks
    <2> QED  BY <2>1, <2>2, <2>3
  <1> QED  BY <1>3, <1>4, CatalogTypesNext

LEMMA StartPushTypes ==
    ASSUME CatalogTypeOK, StartPush
    PROVE  /\ CatalogTypeOK' /\ Descend /\ Lingers
           /\ push'.pc = "replay" /\ DOMAIN push'.rows = {}
  <1>1. PlainTypeOK /\ QueueTypeOK /\ LeftTypeOK /\ PushTypeOK /\ PullTypeOK
    BY CatalogTypes
  <1>2. QueueTypeOK' /\ LeftTypeOK' /\ PullTypeOK' /\ Descend /\ Lingers
    BY <1>1, QueueStays, LeftStays, PullStays DEF StartPush
  <1>3. PlainTypeOK'
    BY <1>1 DEF StartPush, PlainTypeOK, marks, ghosts
  <1>4. push' = [pc |-> "replay", at |-> 1, rows |-> Nothing, last |-> 0, from |-> clock,
                 alone |-> FALSE]
    BY DEF StartPush, Rest
  <1>5. push' \in [pc : {"idle", "replay", "send"}, at : Nat \ {0},
                   rows : {push'.rows}, last : Nat, from : Nat, alone : BOOLEAN]
    BY <1>1, <1>4 DEF PlainTypeOK
  <1>6. Len(retry') \in Nat
    BY <1>2 DEF QueueTypeOK
  <1>7. PushTypeOK' /\ DOMAIN push'.rows = {}
    BY <1>4, <1>5, <1>6, NothingIsBatch DEF PushTypeOK
  <1> QED  BY <1>2, <1>3, <1>4, <1>7, CatalogTypesNext

LEMMA QueryGives ==
    ASSUME CatalogTypeOK, Query
    PROVE  /\ CatalogTypeOK' /\ Descend /\ Lingers
           /\ \/ push' = Rest
              \/ /\ push'.pc = "send"
                 /\ \A i \in DOMAIN push'.rows : push'.rows[i] = local[i] /\ local[i].val # 0
                 /\ \A i \in Due(local, checkpoint) :
                        local[i].ts < push'.last => i \in DOMAIN push'.rows
  <1>1. PlainTypeOK /\ QueueTypeOK /\ LeftTypeOK /\ PushTypeOK /\ PullTypeOK
    BY CatalogTypes
  <1>2. QueueTypeOK' /\ LeftTypeOK' /\ PullTypeOK' /\ Descend /\ Lingers
    BY <1>1, QueueStays, LeftStays, PullStays DEF Query
  <1>3. PlainTypeOK'
    BY <1>1 DEF Query, PlainTypeOK, marks, ghosts
  <1>4. CASE push' = Rest
    BY <1>2, <1>3, <1>4, PushRests, CatalogTypesNext
  <1>5. CASE push' # Rest
    <2>1. PICK S \in Firsts(local, Due(local, checkpoint), BatchSize) :
            \E i \in Latest(local, S) :
              push' = [pc |-> "send", at |-> 1, rows |-> Pick(local, S),
                       last |-> local[i].ts, from |-> clock, alone |-> pull.pc = "idle"]
      BY <1>5 DEF Query
    <2>2. PICK i \in Latest(local, S) :
              push' = [pc |-> "send", at |-> 1, rows |-> Pick(local, S),
                       last |-> local[i].ts, from |-> clock, alone |-> pull.pc = "idle"]
      BY <2>1
    <2>3. local \in [Item -> Row]
      BY <1>1 DEF PlainTypeOK
    <2>4. /\ S \subseteq Due(local, checkpoint) /\ S \subseteq Item /\ i \in S
          /\ local[i].ts \in Nat
          /\ \A j \in Due(local, checkpoint) : local[j].ts < local[i].ts => j \in S
      <3>1. PICK table \in [Item -> Row] : table = local
        BY <2>3
      <3>2. PICK mark : mark = checkpoint
        OBVIOUS
      <3>3. S \in Firsts(table, Due(table, mark), BatchSize) /\ i \in Latest(table, S)
        BY <2>1, <2>2, <3>1, <3>2
      <3>4. /\ S \subseteq Due(table, mark) /\ S \subseteq Item /\ i \in S
            /\ table[i].ts \in Nat
            /\ \A j \in Due(table, mark) : table[j].ts < table[i].ts => j \in S
        BY <3>3, FirstsAreDue
      <3> QED  BY <3>1, <3>2, <3>4
    <2>5. PICK rows : rows = Pick(local, S)
      OBVIOUS
    <2>6. IsBatch(rows) /\ DOMAIN rows = S /\ \A j \in S : rows[j] = local[j]
      <3>1. PICK table \in [Item -> Row] : table = local
        BY <2>3
      <3>2. /\ IsBatch(Pick(table, S)) /\ DOMAIN Pick(table, S) = S
            /\ \A j \in S : Pick(table, S)[j] = table[j]
        BY <2>4, PickIsBatch
      <3> QED  BY <2>5, <3>1, <3>2
    <2>7. push' \in [pc : {"idle", "replay", "send"}, at : Nat \ {0},
                     rows : {push'.rows}, last : Nat, from : Nat, alone : BOOLEAN]
      BY <1>1, <2>2, <2>4 DEF PlainTypeOK
    <2>8. push'.rows = rows /\ push'.pc = "send" /\ push'.last = local[i].ts
          /\ push'.at = 1
      BY <2>2, <2>5
    <2>9. Len(retry') \in Nat
      BY <1>2 DEF QueueTypeOK
    <2>10. PushTypeOK'
      BY <2>6, <2>7, <2>8, <2>9 DEF PushTypeOK
    <2>11. \A j \in S : local[j].val # 0
      BY <2>4 DEF Due
    <2> QED  BY <1>2, <1>3, <2>4, <2>6, <2>8, <2>10, <2>11, CatalogTypesNext
  <1> QED  BY <1>4, <1>5

\* A batch that is replayed reaches the cloud at most, and is late.
LEMMA ReplayGives ==
    ASSUME CatalogTypeOK, ReplayBatch
    PROVE  /\ CatalogTypeOK' /\ Descend /\ Lingers
           /\ push.pc = "replay" /\ push'.pc = "replay" /\ push'.rows = push.rows
           /\ push'.last = push.last
           /\ pull'.pc = pull.pc /\ pull'.rows = pull.rows
           /\ pull.pc = "apply" => pull.overtaken \subseteq pull'.overtaken
           /\ push.at \in DOMAIN retry
           /\ Answered(retry[push.at].rows)
           /\ \/ UNCHANGED <<cloud, delivered, left>>
              \/ late' = late \cup DOMAIN retry[push.at].rows
  <1>1. PlainTypeOK /\ QueueTypeOK /\ LeftTypeOK /\ PushTypeOK /\ PullTypeOK
    BY CatalogTypes
  <1>2. PICK n : n = push.at
    OBVIOUS
  <1>3. PICK item : item = retry[n]
    OBVIOUS
  <1>4. /\ Len(retry) \in Nat /\ DOMAIN retry = 1..Len(retry)
        /\ \A k \in DOMAIN retry : IsQueued(retry[k])
    BY QueueGives
  <1>5. n \in 1..Len(retry) /\ push.pc = "replay"
    BY <1>1, <1>2, <1>4 DEF PushTypeOK, ReplayBatch
  <1>6. IsQueued(item)
    BY <1>3, <1>4, <1>5
  <1>7. PICK rows : rows = item.rows
    OBVIOUS
  <1>8. IsBatch(rows) /\ rows = retry[push.at].rows
    BY <1>2, <1>3, <1>6, <1>7 DEF IsQueued
  <1>9. PICK p : p = push
    OBVIOUS
  <1>10. /\ p \in [pc : {"idle", "replay", "send"}, at : Nat \ {0},
                   rows : {p.rows}, last : Nat, from : Nat, alone : BOOLEAN]
         /\ IsBatch(p.rows) /\ p.at = n
    BY <1>1, <1>2, <1>9 DEF PushTypeOK
  <1> DEFINE gone  == retry' = RemoveAt(retry, n) /\ UNCHANGED push
             stays == /\ retry' = [retry EXCEPT ![n] =
                            [item EXCEPT !.attempts = item.attempts + 1]]
                      /\ push' = [push EXCEPT !.at = push.at + 1]
             again == UNCHANGED <<retry, push>>
  <1>11. /\ \/ /\ item.attempts >= MaxAttempts /\ gone
               /\ Lost /\ UNCHANGED <<late, faults>>
            \/ /\ ~ (item.attempts >= MaxAttempts)
               /\ \/ (Taken(rows) \/ LetGo(rows)) /\ gone
                  \/ Trouble /\ Lost /\ stays
                  \/ Trouble /\ Leaves(rows) /\ (stays \/ again)
               /\ late' = late \cup DOMAIN rows
         /\ UNCHANGED <<entity, clock, version, local, marks, fromCloud, reverted>>
    BY <1>2, <1>3, <1>7 DEF ReplayBatch
  <1>12. ASSUME gone PROVE QueueTypeOK' /\ Descend /\ PushTypeOK'
    <2>1. QueueTypeOK' /\ Descend /\ Len(retry') = Len(retry) - 1
      BY <1>5, <1>12, QueueLoses
    <2>2. push' = push /\ push.at <= Len(retry') + 1
      BY <1>2, <1>4, <1>5, <1>12, <2>1
    <2> QED  BY <1>1, <2>1, <2>2 DEF PushTypeOK, IsBatch
  <1>13. ASSUME stays, ~ (item.attempts >= MaxAttempts)
         PROVE  /\ QueueTypeOK' /\ Descend /\ PushTypeOK' /\ push'.pc = push.pc
                /\ push'.rows = push.rows /\ push'.last = push.last
    <2>1. item.attempts \in Nat
      BY <1>6, SizesAssumption DEF IsQueued
    <2>2. retry[n].attempts < MaxAttempts
      BY <1>3, <1>13, <2>1, SizesAssumption
    <2>3. QueueTypeOK' /\ Descend /\ Len(retry') = Len(retry)
      BY <1>3, <1>5, <1>13, <2>2, QueueBumps
    <2>4. PICK q : q = push'
      OBVIOUS
    <2>5. q = [p EXCEPT !.at = p.at + 1]
      BY <1>9, <1>13, <2>4
    <2>6. /\ q \in [pc : {"idle", "replay", "send"}, at : Nat \ {0},
                    rows : {q.rows}, last : Nat, from : Nat, alone : BOOLEAN]
          /\ q.rows = p.rows /\ q.at = n + 1 /\ q.pc = p.pc /\ q.last = p.last
      BY <1>10, <2>5
    <2>7. n + 1 <= Len(retry') + 1
      BY <1>4, <1>5, <2>3
    <2>8. PushTypeOK'
      BY <1>10, <2>4, <2>6, <2>7 DEF PushTypeOK, IsBatch
    <2> QED  BY <1>9, <2>3, <2>4, <2>6, <2>8
  <1>14. ASSUME again PROVE QueueTypeOK' /\ Descend /\ PushTypeOK'
    BY <1>1, <1>14, QueueStays, PushStays
  <1>15. /\ QueueTypeOK' /\ Descend /\ PushTypeOK' /\ push'.pc = push.pc
         /\ push'.rows = push.rows /\ push'.last = push.last
    <2>1. gone \/ again => UNCHANGED push
      OBVIOUS
    <2> HIDE DEF gone, stays, again
    <2> QED  BY <1>11, <1>12, <1>13, <1>14, <2>1
  <1> HIDE DEF gone, stays, again
  <1>16. /\ Answered(rows)
         /\ Overtakes(rows) \/ UNCHANGED <<cloud, delivered, pull>>
         /\ left' = left \/ left' = left \cup {Posted(rows)}
    BY <1>8, <1>11, PostEnds
  <1>17. faults' \in 0..MaxFaults
    BY <1>1, <1>11, FaultCounts DEF PlainTypeOK, Taken, LetGo, Trouble
  <1>18. /\ PullTypeOK' /\ pull'.pc = pull.pc /\ pull'.rows = pull.rows
         /\ pull.pc = "apply" => pull.overtaken \subseteq pull'.overtaken
    <2>1. CASE Overtakes(rows)
      BY <1>1, <1>8, <2>1, PullOvertaken
    <2>2. CASE ~ Overtakes(rows)
      BY <1>1, <1>16, <2>2, PullStays
    <2> QED  BY <2>1, <2>2
  <1>19. \/ UNCHANGED <<cloud, delivered, left>>
         \/ late' = late \cup DOMAIN rows
    BY <1>11 DEF Lost
  <1>20. LeftTypeOK' /\ Lingers
    <2>1. CASE left' = left
      BY <1>1, <2>1, LeftStays
    <2>2. CASE left' # left
      <3>1. left' = left \cup {Posted(rows)} /\ DOMAIN rows \subseteq late'
        BY <1>16, <1>19, <2>2
      <3>2. \E k \in DOMAIN retry : rows = retry[k].rows
        BY <1>2, <1>4, <1>5, <1>8
      <3> QED  BY <1>1, <1>8, <3>1, <3>2, LeftGains
    <2> QED  BY <2>1, <2>2
  <1>21. PlainTypeOK'
    <2>1. late' \subseteq Item
      BY <1>1, <1>8, <1>11 DEF PlainTypeOK, IsBatch
    <2> QED  BY <1>1, <1>11, <1>16, <1>17, <2>1 DEF PlainTypeOK, Answered, marks
  <1> QED
    BY <1>2, <1>4, <1>5, <1>8, <1>15, <1>16, <1>18, <1>19, <1>20, <1>21, CatalogTypesNext

\* A batch that is sent: the checkpoint passes it once it is answered, the queue
\* has it otherwise, unless it is posted again; it may be left in the cloud.
LEMMA SendGives ==
    ASSUME CatalogTypeOK, SendChanges
    PROVE  /\ CatalogTypeOK' /\ Descend /\ Lingers
           /\ push.pc = "send" /\ (push' = Rest \/ UNCHANGED <<push, cloud, delivered>>)
           /\ pull'.pc = pull.pc /\ pull'.rows = pull.rows
           /\ \/ pull.pc = "apply" =>
                     pull'.overtaken = pull.overtaken \cup DOMAIN push.rows
              \/ UNCHANGED <<cloud, delivered, pull>>
           /\ Answered(push.rows)
           /\ left' = left \/ left' = left \cup {Posted(push.rows)}
           /\ \/ UNCHANGED checkpoint
              \/ checkpoint' = push.last /\ Passed(push.rows) /\ push' = Rest
  <1>1. PlainTypeOK /\ QueueTypeOK /\ LeftTypeOK /\ PushTypeOK /\ PullTypeOK
    BY CatalogTypes
  <1>2. PICK rows : rows = push.rows
    OBVIOUS
  <1>3. IsBatch(rows) /\ push.last \in Nat
    BY <1>1, <1>2 DEF PushTypeOK
  <1>4. /\ push.pc = "send"
        /\ \/ /\ Taken(rows) \/ LetGo(rows)
              /\ checkpoint' = push.last /\ push' = Rest
              /\ UNCHANGED <<retry, late>>
           \/ /\ Trouble
              /\ (Lost /\ UNCHANGED late) \/ (Leaves(rows) /\ late' = late \cup DOMAIN rows)
              /\ Requeue(rows) /\ push' = Rest
              /\ UNCHANGED checkpoint
           \/ /\ Trouble
              /\ Leaves(rows) /\ late' = late \cup DOMAIN rows
              /\ UNCHANGED <<checkpoint, retry, push>>
        /\ UNCHANGED <<entity, clock, version, local, since, fromCloud, reverted>>
    BY <1>2 DEF SendChanges
  <1>5. /\ Answered(rows) /\ (Taken(rows) \/ LetGo(rows) => Passed(rows))
        /\ Overtakes(rows) \/ UNCHANGED <<cloud, delivered, pull>>
        /\ left' = left \/ left' = left \cup {Posted(rows)}
    BY <1>3, <1>4, PostEnds
  <1>6. QueueTypeOK' /\ Descend
    <2>1. CASE UNCHANGED retry
      BY <1>1, <2>1, QueueStays
    <2>2. CASE Requeue(push.rows)
      BY <1>4, <2>2, QueueGains
    <2> QED  BY <1>2, <1>4, <2>1, <2>2
  <1>7. PushTypeOK'
    <2>1. CASE push' = Rest
      BY <1>6, <2>1, PushRests
    <2>2. CASE UNCHANGED <<retry, push>>
      BY <1>1, <2>2, PushStays
    <2> QED  BY <1>4, <2>1, <2>2
  <1>8. /\ PullTypeOK' /\ pull'.pc = pull.pc /\ pull'.rows = pull.rows
        /\ \/ pull.pc = "apply" => pull'.overtaken = pull.overtaken \cup DOMAIN rows
           \/ UNCHANGED <<cloud, delivered, pull>>
    <2>1. CASE Overtakes(rows)
      BY <1>1, <1>3, <2>1, PullOvertaken
    <2>2. CASE UNCHANGED <<cloud, delivered, pull>>
      BY <1>1, <2>2, PullStays
    <2> QED  BY <1>5, <2>1, <2>2
  <1>9. LeftTypeOK' /\ Lingers
    <2>1. CASE left' = left
      BY <1>1, <2>1, LeftStays
    <2>2. CASE left' # left
      <3>1. late' = late \cup DOMAIN rows
        BY <1>4, <2>2 DEF Taken, LetGo, Lost
      <3> QED  BY <1>1, <1>2, <1>3, <1>5, <2>2, <3>1, LeftGains
    <2> QED  BY <2>1, <2>2
  <1>10. faults' \in 0..MaxFaults
    BY <1>1, <1>4, FaultCounts DEF PlainTypeOK, Taken, LetGo, Trouble
  <1>11. PlainTypeOK'
    <2>1. late' \subseteq Item
      BY <1>1, <1>3, <1>4 DEF PlainTypeOK, IsBatch
    <2>2. checkpoint' \in Nat
      BY <1>1, <1>3, <1>4 DEF PlainTypeOK
    <2> QED  BY <1>1, <1>4, <1>5, <1>10, <2>1, <2>2 DEF PlainTypeOK, Answered
  <1>12. push' = Rest \/ UNCHANGED <<push, cloud, delivered>>
    BY <1>4 DEF Leaves
  <1> QED
    BY <1>2, <1>4, <1>5, <1>6, <1>7, <1>8, <1>9, <1>11, <1>12, CatalogTypesNext

LEMMA CrashGives ==
    ASSUME CatalogTypeOK, Crash
    PROVE  /\ CatalogTypeOK' /\ Descend /\ Lingers
           /\ push' = Rest /\ pull' = Asleep
  <1>1. PlainTypeOK /\ QueueTypeOK /\ LeftTypeOK /\ PushTypeOK /\ PullTypeOK
    BY CatalogTypes
  <1>2. QueueTypeOK' /\ Descend
    BY <1>1, QueueStays DEF Crash
  <1>3. PushTypeOK' /\ PullTypeOK'
    BY <1>2, PushRests, PullRests DEF Crash
  <1>4. faults' \in 0..MaxFaults
    BY <1>1, FaultCounts DEF PlainTypeOK, Crash, Trouble
  <1>5. LeftTypeOK' /\ Lingers /\ late' \subseteq Item
    <2>1. CASE UNCHANGED <<left, late>>
      BY <1>1, <2>1, LeftStays DEF PlainTypeOK
    <2>2. CASE ~ UNCHANGED <<left, late>>
      <3>1. PICK rows :
                /\ \/ push.pc = "send" /\ rows = push.rows
                   \/ /\ push.pc = "replay" /\ push.at <= Len(retry)
                      /\ rows = retry[push.at].rows
                /\ left' = left \cup {Posted(rows)}
                /\ late' = late \cup DOMAIN rows
        BY <2>2 DEF Crash
      <3>2. push.at \in Nat \ {0} /\ IsBatch(push.rows)
        BY <1>1 DEF PushTypeOK
      <3>3. /\ DOMAIN retry = 1..Len(retry) /\ Len(retry) \in Nat
            /\ \A n \in DOMAIN retry : IsBatch(retry[n].rows)
        BY QueueGives DEF IsQueued
      <3>4. /\ IsBatch(rows)
            /\ rows = push.rows \/ \E n \in DOMAIN retry : rows = retry[n].rows
        <4>1. CASE rows = push.rows
          BY <3>2, <4>1
        <4>2. CASE rows # push.rows
          <5>1. push.at \in DOMAIN retry
            BY <3>1, <3>2, <3>3, <4>2
          <5> QED  BY <3>1, <3>3, <4>2, <5>1
        <4> QED  BY <4>1, <4>2
      <3> QED  BY <1>1, <3>1, <3>4, LeftGains DEF PlainTypeOK, IsBatch
    <2> QED  BY <2>1, <2>2
  <1>6. PlainTypeOK'
    BY <1>1, <1>4, <1>5 DEF PlainTypeOK, Crash, marks
  <1> QED  BY <1>2, <1>3, <1>5, <1>6, CatalogTypesNext DEF Crash

\* A POST that nobody waits for looks at the cloud's rows.
LEMMA LookGives ==
    ASSUME CatalogTypeOK, NEW q, Look(q)
    PROVE  /\ CatalogTypeOK' /\ Descend /\ Lingers
           /\ \A r \in left' : \E p \in left : r.rows = p.rows
  <1>1. PlainTypeOK /\ QueueTypeOK /\ LeftTypeOK /\ PushTypeOK /\ PullTypeOK
    BY CatalogTypes
  <1>2. QueueTypeOK' /\ PushTypeOK' /\ PullTypeOK' /\ Descend
    BY <1>1, QueueStays, PushStays, PullStays DEF Look
  <1>3. PlainTypeOK'
    BY <1>1 DEF Look, PlainTypeOK, marks, ghosts
  <1>4. PICK won : won = Winning(q.rows)
    OBVIOUS
  <1>5. PICK new : new = {i \in Winning(q.rows) : cloud[i].val = 0}
    OBVIOUS
  <1>6. PICK r : r = [q EXCEPT !.looked = TRUE, !.won = won, !.new = new]
    OBVIOUS
  <1>7. q \in left /\ left' = (left \ {q}) \cup {r}
    BY <1>4, <1>5, <1>6 DEF Look
  <1>8. /\ q \in [rows : {q.rows}, looked : BOOLEAN, won : SUBSET Item, new : SUBSET Item]
        /\ IsBatch(q.rows)
    BY <1>1, <1>7 DEF LeftTypeOK
  <1>9. won \subseteq DOMAIN q.rows /\ won \subseteq Item /\ new \subseteq Item
    BY <1>4, <1>5, <1>8 DEF Winning, IsBatch
  <1>10. /\ r \in [rows : {r.rows}, looked : BOOLEAN, won : SUBSET Item, new : SUBSET Item]
         /\ r.rows = q.rows /\ r.won = won
    BY <1>6, <1>8, <1>9
  <1>11. LeftTypeOK'
    BY <1>1, <1>7, <1>8, <1>9, <1>10 DEF LeftTypeOK, IsBatch
  <1>12. \A p \in left' : \E o \in left : p.rows = o.rows
    BY <1>7, <1>10
  <1> QED  BY <1>2, <1>3, <1>11, <1>12, CatalogTypesNext DEF Lingers

\* It changes the cloud and overtakes the feed, or it does nothing.
LEMMA LateCommitGives ==
    ASSUME CatalogTypeOK, NEW q, LateCommit(q)
    PROVE  /\ CatalogTypeOK' /\ Descend /\ Lingers
           /\ q \in left /\ left' \subseteq left /\ Answered(q.rows)
           /\ pull'.pc = pull.pc /\ pull'.rows = pull.rows
           /\ pull.pc = "apply" => pull.overtaken \subseteq pull'.overtaken
  <1>1. PlainTypeOK /\ QueueTypeOK /\ LeftTypeOK /\ PushTypeOK /\ PullTypeOK
    BY CatalogTypes
  <1>2. QueueTypeOK' /\ PushTypeOK' /\ Descend
    BY <1>1, QueueStays, PushStays DEF LateCommit
  <1>3. q \in left /\ left' \subseteq left
    BY DEF LateCommit
  <1>4. LeftTypeOK' /\ Lingers
    BY <1>1, <1>3, LeftStays
  <1>5. IsBatch(q.rows) /\ q.won \in SUBSET (DOMAIN q.rows)
    BY <1>1, <1>3 DEF LeftTypeOK
  <1>6. /\ Answered(q.rows)
        /\ Overtakes(q.rows) \/ UNCHANGED pull
    <2>1. CASE UNCHANGED <<cloud, delivered, missed, unpulled, pull>>
      BY <2>1, SilenceAnswers
    <2>2. CASE ~ UNCHANGED <<cloud, delivered, missed, unpulled, pull>>
      <3>1. PICK t \in Recent : Writes(q.rows, q.won, t)
        BY <2>2 DEF LateCommit
      <3>2. t \in Nat
        BY DEF Recent
      <3>3. Overtakes(q.rows)
        BY <2>2 DEF LateCommit
      <3> QED  BY <1>5, <3>1, <3>2, <3>3, WritesAnswer
    <2> QED  BY <2>1, <2>2
  <1>7. /\ PullTypeOK' /\ pull'.pc = pull.pc /\ pull'.rows = pull.rows
        /\ pull.pc = "apply" => pull.overtaken \subseteq pull'.overtaken
    <2>1. CASE Overtakes(q.rows)
      BY <1>1, <1>5, <2>1, PullOvertaken
    <2>2. CASE UNCHANGED pull
      BY <1>1, <2>2, PullStays
    <2> QED  BY <1>6, <2>1, <2>2
  <1>8. PlainTypeOK'
    BY <1>1, <1>6 DEF LateCommit, PlainTypeOK, Answered, marks
  <1> QED  BY <1>2, <1>3, <1>4, <1>6, <1>7, <1>8, CatalogTypesNext

LEMMA FetchGives ==
    ASSUME CatalogTypeOK, Fetch
    PROVE  /\ CatalogTypeOK' /\ Descend /\ Lingers
           /\ push'.pc = push.pc /\ push'.rows = push.rows /\ push'.last = push.last
           /\ pull'.pc = "apply"
           /\ \A i \in DOMAIN pull'.rows : pull'.rows[i] = cloud[i] /\ cloud[i].val # 0
  <1>1. PlainTypeOK /\ QueueTypeOK /\ LeftTypeOK /\ PushTypeOK /\ PullTypeOK
    BY CatalogTypes
  <1>2. QueueTypeOK' /\ LeftTypeOK' /\ Descend /\ Lingers
    BY <1>1, QueueStays, LeftStays DEF Fetch
  <1>3. PlainTypeOK'
    BY <1>1 DEF Fetch, PlainTypeOK, marks, ghosts
  <1>4. /\ PushTypeOK' /\ push'.pc = push.pc /\ push'.rows = push.rows
        /\ push'.last = push.last
    <2>1. PICK p : p = push
      OBVIOUS
    <2>2. PICK q : q = push'
      OBVIOUS
    <2>3. q = [p EXCEPT !.alone = FALSE] /\ UNCHANGED retry
      BY <2>1, <2>2 DEF Fetch
    <2>4. /\ p \in [pc : {"idle", "replay", "send"}, at : Nat \ {0},
                    rows : {p.rows}, last : Nat, from : Nat, alone : BOOLEAN]
          /\ IsBatch(p.rows) /\ p.at <= Len(retry) + 1
      BY <1>1, <2>1 DEF PushTypeOK
    <2>5. /\ q \in [pc : {"idle", "replay", "send"}, at : Nat \ {0},
                    rows : {q.rows}, last : Nat, from : Nat, alone : BOOLEAN]
          /\ q.rows = p.rows /\ q.at = p.at /\ q.pc = p.pc /\ q.last = p.last
      BY <2>3, <2>4
    <2> QED  BY <2>1, <2>2, <2>3, <2>4, <2>5 DEF PushTypeOK, IsBatch
  <1>5. PICK S \in Firsts(cloud, Due(cloud, since), BatchSize) :
          \E i \in Latest(cloud, S) :
            pull' = [pc |-> "apply", rows |-> Pick(cloud, S), last |-> cloud[i].ts,
                     from |-> clock, overtaken |-> {}]
    BY DEF Fetch
  <1>6. PICK i \in Latest(cloud, S) :
            pull' = [pc |-> "apply", rows |-> Pick(cloud, S), last |-> cloud[i].ts,
                     from |-> clock, overtaken |-> {}]
    BY <1>5
  <1>7. PICK table \in [Item -> Row] : table = cloud
    BY <1>1 DEF PlainTypeOK
  <1>8. S \subseteq Due(cloud, since) /\ S \subseteq Item /\ cloud[i].ts \in Nat
    <2>1. PICK mark : mark = since
      OBVIOUS
    <2>2. S \in Firsts(table, Due(table, mark), BatchSize) /\ i \in Latest(table, S)
      BY <1>5, <1>6, <1>7, <2>1
    <2>3. S \subseteq Due(table, mark) /\ S \subseteq Item /\ table[i].ts \in Nat
      BY <2>2, FirstsAreDue
    <2> QED  BY <1>7, <2>1, <2>3
  <1>9. PICK rows : rows = Pick(cloud, S)
    OBVIOUS
  <1>10. IsBatch(rows) /\ DOMAIN rows = S /\ \A j \in S : rows[j] = cloud[j]
    <2>1. /\ IsBatch(Pick(table, S)) /\ DOMAIN Pick(table, S) = S
          /\ \A j \in S : Pick(table, S)[j] = table[j]
      BY <1>8, PickIsBatch
    <2> QED  BY <1>7, <1>9, <2>1
  <1>11. pull' \in [pc : {"idle", "apply"}, rows : {pull'.rows}, last : Nat, from : Nat,
                    overtaken : SUBSET Item]
    BY <1>1, <1>6, <1>8 DEF PlainTypeOK
  <1>12. pull'.rows = rows /\ pull'.pc = "apply"
    BY <1>6, <1>9
  <1>13. PullTypeOK'
    BY <1>10, <1>11, <1>12 DEF PullTypeOK
  <1>14. \A j \in S : cloud[j].val # 0
    BY <1>8 DEF Due
  <1> QED  BY <1>2, <1>3, <1>4, <1>10, <1>12, <1>13, <1>14, CatalogTypesNext

\* The feed is applied to the shop, or rolled back.
LEMMA ApplyGives ==
    ASSUME CatalogTypeOK, Apply
    PROVE  /\ CatalogTypeOK' /\ Descend /\ Lingers
           /\ pull.pc = "apply" /\ pull' = Asleep
           /\ UNCHANGED push \/ push' = Rest
           /\ \/ UNCHANGED <<local, delivered, missed, reverted>>
              \/ /\ \A i \in Item : i \notin DOMAIN pull.rows => local'[i] = local[i]
                 /\ \A i \in DOMAIN pull.rows : local'[i].val = pull.rows[i].val
                 /\ delivered' = delivered \cup DOMAIN pull.rows
                 /\ missed' = missed \ DOMAIN pull.rows
                 /\ reverted \subseteq reverted'
                 /\ \A i \in DOMAIN pull.rows :
                        pull.rows[i].val < local[i].val => i \in reverted'
  <1>1. PlainTypeOK /\ QueueTypeOK /\ LeftTypeOK /\ PushTypeOK /\ PullTypeOK
    BY CatalogTypes
  <1>2. PICK rows : rows = pull.rows
    OBVIOUS
  <1>3. IsBatch(rows) /\ pull.last \in Nat
    BY <1>1, <1>2 DEF PullTypeOK
  <1>4. \A i \in DOMAIN rows : i \in Item /\ rows[i].val \in Nat
    BY <1>3 DEF IsBatch, Row
  <1>5. /\ pull.pc = "apply" /\ pull' = Asleep
        /\ \/ Updates(rows) /\ since' = pull.last /\ UNCHANGED <<push, faults>>
           \/ RollsBack(rows) /\ since' = pull.last /\ Trouble /\ UNCHANGED push
           \/ Updates(rows) /\ UNCHANGED since /\ Trouble /\ push' = Rest
        /\ UNCHANGED <<entity, clock, version, cloud, checkpoint, retry, left, fromCloud,
                       late>>
    BY <1>2 DEF Apply
  <1>6. /\ QueueTypeOK' /\ LeftTypeOK' /\ Descend /\ Lingers /\ PullTypeOK'
        /\ UNCHANGED push \/ push' = Rest
    BY <1>1, <1>5, QueueStays, LeftStays, PullRests
  <1>7. PushTypeOK'
    BY <1>1, <1>5, <1>6, PushStays, PushRests
  <1>8. local \in [Item -> Row]
    BY <1>1 DEF PlainTypeOK
  <1>9. ASSUME Updates(rows)
        PROVE  /\ local' \in [Item -> Row]
               /\ \A i \in Item : i \notin DOMAIN rows => local'[i] = local[i]
               /\ \A i \in DOMAIN rows : local'[i].val = rows[i].val
               /\ delivered' = delivered \cup DOMAIN rows
               /\ missed' = missed \ DOMAIN rows
               /\ reverted \subseteq reverted' /\ reverted' \subseteq Item
               /\ \A i \in DOMAIN rows : rows[i].val < local[i].val => i \in reverted'
               /\ UNCHANGED unpulled
    <2>1. PICK t \in Since(pull.from) : local' = [i \in Item |->
              IF i \in DOMAIN rows THEN [val |-> rows[i].val, ts |-> t] ELSE local[i]]
      BY <1>9 DEF Updates
    <2>2. t \in Nat
      BY DEF Since, Recent
    <2>3. /\ local' \in [Item -> Row]
          /\ \A i \in Item : i \notin DOMAIN rows => local'[i] = local[i]
          /\ \A i \in DOMAIN rows : local'[i].val = rows[i].val
      BY <1>4, <1>8, <2>1, <2>2 DEF Row
    <2>4. /\ delivered' = delivered \cup DOMAIN rows
          /\ missed' = missed \ DOMAIN rows
          /\ reverted' = reverted \cup {i \in DOMAIN rows : rows[i].val < local[i].val}
          /\ UNCHANGED unpulled
      BY <1>9 DEF Updates
    <2> QED  BY <1>1, <1>4, <2>3, <2>4 DEF PlainTypeOK
  <1>10. \/ UNCHANGED <<local, delivered, missed, reverted>>
         \/ /\ \A i \in Item : i \notin DOMAIN rows => local'[i] = local[i]
            /\ \A i \in DOMAIN rows : local'[i].val = rows[i].val
            /\ delivered' = delivered \cup DOMAIN rows
            /\ missed' = missed \ DOMAIN rows
            /\ reverted \subseteq reverted'
            /\ \A i \in DOMAIN rows : rows[i].val < local[i].val => i \in reverted'
    BY <1>5, <1>9 DEF RollsBack
  <1>11. faults' \in 0..MaxFaults
    BY <1>1, <1>5, FaultCounts DEF PlainTypeOK, Trouble
  <1>12. PlainTypeOK'
    <2>1. /\ local' \in [Item -> Row] /\ delivered' \subseteq Item
          /\ missed' \subseteq Item /\ unpulled' \subseteq Item
          /\ reverted' \subseteq Item
      BY <1>1, <1>4, <1>5, <1>8, <1>9 DEF PlainTypeOK, RollsBack
    <2>2. since' \in Nat
      BY <1>1, <1>3, <1>5 DEF PlainTypeOK
    <2> QED  BY <1>1, <1>5, <1>11, <2>1, <2>2 DEF PlainTypeOK
  <1> QED  BY <1>2, <1>5, <1>6, <1>7, <1>10, <1>12, CatalogTypesNext

LEMMA CatalogTypesKept ==
    CatalogTypeOK /\ [CatalogNext]_catalogVars => CatalogTypeOK' /\ Descend /\ Lingers
  <1> SUFFICES ASSUME CatalogTypeOK, [CatalogNext]_catalogVars
               PROVE  CatalogTypeOK' /\ Descend /\ Lingers
    OBVIOUS
  <1>1. CASE UNCHANGED catalogVars
    <2>1. PlainTypeOK /\ QueueTypeOK /\ LeftTypeOK /\ PushTypeOK /\ PullTypeOK
      BY CatalogTypes
    <2>2. /\ QueueTypeOK' /\ LeftTypeOK' /\ PushTypeOK' /\ PullTypeOK'
          /\ Descend /\ Lingers
      BY <1>1, <2>1, QueueStays, LeftStays, PushStays, PullStays DEF catalogVars
    <2>3. PlainTypeOK'
      BY <1>1, <2>1 DEF PlainTypeOK, catalogVars, marks, ghosts
    <2> QED  BY <2>2, <2>3, CatalogTypesNext
  <1>2. CASE PushCycle
    BY <1>2, StartPushTypes, ReplayGives, QueryGives, SendGives DEF PushCycle
  <1>3. CASE PullCycle
    BY <1>3, FetchGives, ApplyGives DEF PullCycle
  <1>4. CASE Leftover
    BY <1>4, LookGives, LateCommitGives DEF Leftover
  <1> QED  BY <1>1, <1>2, <1>3, <1>4, EditTypes, CrashGives DEF CatalogNext

\* Where the rows of a next state come from.
Origins ==
    /\ version' \in Nat /\ version <= version'
    /\ fromCloud \subseteq fromCloud' /\ reverted \subseteq reverted'
    /\ \A i \in Item :
           \/ local'[i] = local[i]
           \/ version' = version + 1 /\ local'[i].val = version'
           \/ /\ i \in DOMAIN pull.rows /\ local'[i].val = pull.rows[i].val
              /\ pull.rows[i].val < local[i].val => i \in reverted'
    /\ \A i \in Item :
           \/ cloud'[i] = cloud[i]
           \/ /\ version' = version + 1 /\ cloud'[i].val = version'
              /\ cloud'[i].val \in fromCloud'
           \/ i \in DOMAIN push.rows /\ cloud'[i].val = push.rows[i].val
           \/ \E n \in DOMAIN retry : /\ i \in DOMAIN retry[n].rows
                                      /\ cloud'[i].val = retry[n].rows[i].val
           \/ \E q \in left : i \in DOMAIN q.rows /\ cloud'[i].val = q.rows[i].val
    /\ \A i \in DOMAIN pull'.rows :
           \/ i \in DOMAIN pull.rows /\ pull'.rows[i] = pull.rows[i]
           \/ pull'.rows[i] = cloud[i] /\ cloud[i].val # 0
    /\ \A i \in DOMAIN push'.rows :
           \/ i \in DOMAIN push.rows /\ push'.rows[i] = push.rows[i]
           \/ push'.rows[i] = local[i] /\ local[i].val # 0

LEMMA RestsEmpty ==
    /\ Rest.rows = Nothing /\ Rest.pc = "idle" /\ DOMAIN Rest.rows = {}
    /\ Asleep.rows = Nothing /\ Asleep.pc = "idle" /\ DOMAIN Asleep.rows = {}
  BY NothingIsBatch DEF Rest, Asleep

LEMMA CatalogOrigins ==
    ASSUME CatalogTypeOK, [CatalogNext]_catalogVars
    PROVE  Origins
  <1>1. /\ version \in Nat
        /\ local \in [Item -> Row] /\ cloud \in [Item -> Row]
    BY DEF CatalogTypeOK
  <1>2. CASE UNCHANGED catalogVars
    BY <1>1, <1>2 DEF Origins, catalogVars, ghosts
  <1>3. CASE ClockTick
    BY <1>1, <1>3 DEF Origins, ClockTick, ghosts
  <1>4. ASSUME NEW i \in Item, NEW t \in Recent, LocalEdit(i, t) PROVE Origins
    <2>1. \A j \in Item : \/ local'[j] = local[j]
                          \/ version' = version + 1 /\ local'[j].val = version'
      BY <1>1, <1>4 DEF LocalEdit
    <2> QED  BY <1>1, <1>4, <2>1 DEF Origins, LocalEdit
  <1>5. ASSUME NEW i \in Item, NEW t \in Recent, CloudEdit(i, t) PROVE Origins
    <2>1. \A j \in Item : \/ cloud'[j] = cloud[j]
                          \/ /\ version' = version + 1 /\ cloud'[j].val = version'
                             /\ cloud'[j].val \in fromCloud'
      BY <1>1, <1>5 DEF CloudEdit
    <2> QED  BY <1>1, <1>5, <2>1 DEF Origins, CloudEdit
  <1>6. CASE StartPush
    <2>1. DOMAIN push'.rows = {}
      BY <1>6, StartPushTypes
    <2> QED  BY <1>1, <1>6, <2>1 DEF Origins, StartPush, ghosts
  <1>7. CASE ReplayBatch
    <2>1. /\ push'.rows = push.rows /\ pull'.rows = pull.rows
          /\ push.at \in DOMAIN retry /\ Answered(retry[push.at].rows)
      BY <1>7, ReplayGives
    <2>2. UNCHANGED <<version, local, fromCloud, reverted>>
      BY <1>7 DEF ReplayBatch
    <2>3. \A i \in Item :
             \/ cloud'[i] = cloud[i]
             \/ \E n \in DOMAIN retry : /\ i \in DOMAIN retry[n].rows
                                        /\ cloud'[i].val = retry[n].rows[i].val
      BY <2>1 DEF Answered
    <2> QED  BY <1>1, <2>1, <2>2, <2>3 DEF Origins
  <1>8. CASE Query
    <2>1. \A i \in DOMAIN push'.rows : push'.rows[i] = local[i] /\ local[i].val # 0
      BY <1>8, QueryGives, RestsEmpty
    <2> QED  BY <1>1, <1>8, <2>1 DEF Origins, Query, ghosts
  <1>9. CASE SendChanges
    <2>1. /\ push' = Rest \/ UNCHANGED push
          /\ pull'.rows = pull.rows /\ Answered(push.rows)
      BY <1>9, SendGives
    <2>2. UNCHANGED <<version, local, fromCloud, reverted>>
      BY <1>9 DEF SendChanges
    <2> QED  BY <1>1, <2>1, <2>2, RestsEmpty DEF Origins, Answered
  <1>10. CASE Crash
    <2>1. push' = Rest /\ pull' = Asleep
      BY <1>10, CrashGives
    <2>2. UNCHANGED <<version, local, cloud, fromCloud, reverted>>
      BY <1>10 DEF Crash
    <2> QED  BY <1>1, <2>1, <2>2, RestsEmpty DEF Origins
  <1>11. CASE Fetch
    <2>1. /\ push'.rows = push.rows
          /\ \A i \in DOMAIN pull'.rows : pull'.rows[i] = cloud[i] /\ cloud[i].val # 0
      BY <1>11, FetchGives
    <2> QED  BY <1>1, <1>11, <2>1 DEF Origins, Fetch, ghosts
  <1>12. CASE Apply
    <2>1. /\ pull' = Asleep /\ (UNCHANGED push \/ push' = Rest)
          /\ \/ UNCHANGED <<local, delivered, missed, reverted>>
             \/ /\ \A i \in Item : i \notin DOMAIN pull.rows => local'[i] = local[i]
                /\ \A i \in DOMAIN pull.rows : local'[i].val = pull.rows[i].val
                /\ reverted \subseteq reverted'
                /\ \A i \in DOMAIN pull.rows :
                       pull.rows[i].val < local[i].val => i \in reverted'
      BY <1>12, ApplyGives
    <2>2. UNCHANGED <<version, cloud, fromCloud>>
      BY <1>12 DEF Apply
    <2> QED  BY <1>1, <2>1, <2>2, RestsEmpty DEF Origins
  <1>13. ASSUME NEW q, Look(q) PROVE Origins
    <2>1. UNCHANGED <<version, local, cloud, pull, push, fromCloud, reverted>>
      BY <1>13 DEF Look, ghosts
    <2> QED  BY <1>1, <2>1 DEF Origins
  <1>14. ASSUME NEW q, LateCommit(q) PROVE Origins
    <2>1. q \in left /\ Answered(q.rows) /\ pull'.rows = pull.rows
      BY <1>14, LateCommitGives
    <2>2. UNCHANGED <<version, local, push, fromCloud, reverted>>
      BY <1>14 DEF LateCommit
    <2>3. \A i \in Item :
             \/ cloud'[i] = cloud[i]
             \/ \E r \in left : i \in DOMAIN r.rows /\ cloud'[i].val = r.rows[i].val
      BY <2>1 DEF Answered
    <2> QED  BY <1>1, <2>1, <2>2, <2>3 DEF Origins
  <1> QED
    BY <1>2, <1>3, <1>4, <1>5, <1>6, <1>7, <1>8, <1>9, <1>10, <1>11, <1>12, <1>13, <1>14
       DEF CatalogNext, PushCycle, PullCycle, Leftover

LEMMA VersionsKept ==
    ASSUME CatalogTypeOK, Versions, Origins, Descend, Lingers, CatalogTypeOK'
    PROVE  Versions'
  <1>1. version \in Nat /\ version' \in Nat /\ version <= version'
    BY DEF CatalogTypeOK, Origins
  <1>2. \A i \in DOMAIN pull.rows : i \in Item
    BY DEF CatalogTypeOK, IsBatch
  <1>3. /\ \A i \in DOMAIN pull'.rows : i \in Item
        /\ \A i \in DOMAIN push'.rows : i \in Item
    <2>1. IsBatch(pull'.rows) /\ IsBatch(push'.rows)
      BY DEF CatalogTypeOK, IsBatch
    <2> QED  BY <2>1 DEF IsBatch
  <1>4. \A i \in Item : local[i].val \in 0..version /\ cloud[i].val \in 0..version
    BY DEF Versions
  <1>5. ASSUME NEW i \in Item PROVE local'[i].val \in 0..version'
    <2>1. i \in DOMAIN pull.rows => pull.rows[i].val \in 1..version
      BY DEF Versions
    <2> QED  BY <1>1, <1>4, <2>1 DEF Origins
  <1>6. ASSUME NEW i \in Item PROVE cloud'[i].val \in 0..version'
    <2>1. i \in DOMAIN push.rows => push.rows[i].val \in 1..version
      BY DEF Versions
    <2>2. \A n \in DOMAIN retry : i \in DOMAIN retry[n].rows =>
              retry[n].rows[i].val \in 1..version
      BY DEF Versions
    <2>3. \A q \in left : i \in DOMAIN q.rows => q.rows[i].val \in 1..version
      BY DEF Versions
    <2> QED  BY <1>1, <1>4, <2>1, <2>2, <2>3 DEF Origins
  <1>7. ASSUME NEW i \in DOMAIN pull'.rows PROVE pull'.rows[i].val \in 1..version'
    <2>1. i \in DOMAIN pull.rows => pull.rows[i].val \in 1..version
      BY DEF Versions
    <2> QED  BY <1>1, <1>3, <1>4, <2>1 DEF Origins
  <1>8. ASSUME NEW i \in DOMAIN push'.rows PROVE push'.rows[i].val \in 1..version'
    <2>1. i \in DOMAIN push.rows => push.rows[i].val \in 1..version
      BY DEF Versions
    <2> QED  BY <1>1, <1>3, <1>4, <2>1 DEF Origins
  <1>9. ASSUME NEW n \in DOMAIN retry', NEW i \in DOMAIN retry'[n].rows
        PROVE  retry'[n].rows[i].val \in 1..version'
    <2>1. retry'[n].rows[i].val \in 1..version
      BY DEF Descend, Versions
    <2> QED  BY <1>1, <2>1
  <1>10. ASSUME NEW q \in left', NEW i \in DOMAIN q.rows
         PROVE  q.rows[i].val \in 1..version'
    <2>1. q.rows[i].val \in 1..version
      BY DEF Lingers, Versions
    <2> QED  BY <1>1, <2>1
  <1> QED  BY <1>5, <1>6, <1>7, <1>8, <1>9, <1>10 DEF Versions

LEMMA ShopIsNewestKept ==
    ASSUME CatalogTypeOK, Versions, ShopIsNewest, Origins, Descend, Lingers, CatalogTypeOK'
    PROVE  ShopIsNewest'
  <1>1. version \in Nat /\ version' \in Nat /\ version <= version'
    BY DEF CatalogTypeOK, Origins
  <1>2. \A i \in Item : local[i].val \in 0..version /\ cloud[i].val \in 0..version
    BY DEF Versions
  <1>3. ASSUME NEW i \in Item, NEW v \in 0..version, NoNewer(i, v)
        PROVE  v \in fromCloud' \/ i \in reverted' \/ v <= local'[i].val
    <2>1. v \in fromCloud \/ i \in reverted \/ v <= local[i].val
      BY <1>3 DEF NoNewer
    <2>2. /\ fromCloud \subseteq fromCloud' /\ reverted \subseteq reverted'
          /\ \/ local'[i] = local[i]
             \/ version' = version + 1 /\ local'[i].val = version'
             \/ /\ i \in DOMAIN pull.rows /\ local'[i].val = pull.rows[i].val
                /\ pull.rows[i].val < local[i].val => i \in reverted'
      BY DEF Origins
    <2>3. i \in DOMAIN pull.rows => pull.rows[i].val \in 1..version
      BY DEF Versions
    <2> QED  BY <1>1, <1>2, <2>1, <2>2, <2>3
  <1>4. /\ \A i \in DOMAIN pull.rows : i \in Item
        /\ \A i \in DOMAIN push.rows : i \in Item
        /\ \A n \in DOMAIN retry : \A i \in DOMAIN retry[n].rows : i \in Item
        /\ \A q \in left : \A i \in DOMAIN q.rows : i \in Item
    BY DEF CatalogTypeOK, IsBatch
  <1>5. /\ \A i \in DOMAIN pull'.rows : i \in Item
        /\ \A i \in DOMAIN push'.rows : i \in Item
    <2>1. IsBatch(pull'.rows) /\ IsBatch(push'.rows)
      BY DEF CatalogTypeOK, IsBatch
    <2> QED  BY <2>1 DEF IsBatch
  <1>6. \A i \in Item :
            cloud[i].val \in fromCloud' \/ i \in reverted' \/ cloud[i].val <= local'[i].val
    BY <1>2, <1>3 DEF ShopIsNewest
  <1>7. \A i \in DOMAIN pull.rows : \/ pull.rows[i].val \in fromCloud' \/ i \in reverted'
                                    \/ pull.rows[i].val <= local'[i].val
    <2> SUFFICES ASSUME NEW i \in DOMAIN pull.rows
                 PROVE  \/ pull.rows[i].val \in fromCloud' \/ i \in reverted'
                        \/ pull.rows[i].val <= local'[i].val
      OBVIOUS
    <2>1. pull.rows[i].val \in 1..version /\ NoNewer(i, pull.rows[i].val)
      BY DEF Versions, ShopIsNewest
    <2>2. pull.rows[i].val \in 0..version
      BY <1>1, <2>1
    <2> QED  BY <1>3, <1>4, <2>1, <2>2
  <1>8. \A i \in DOMAIN push.rows : \/ push.rows[i].val \in fromCloud' \/ i \in reverted'
                                    \/ push.rows[i].val <= local'[i].val
    <2> SUFFICES ASSUME NEW i \in DOMAIN push.rows
                 PROVE  \/ push.rows[i].val \in fromCloud' \/ i \in reverted'
                        \/ push.rows[i].val <= local'[i].val
      OBVIOUS
    <2>1. push.rows[i].val \in 1..version /\ NoNewer(i, push.rows[i].val)
      BY DEF Versions, ShopIsNewest
    <2>2. push.rows[i].val \in 0..version
      BY <1>1, <2>1
    <2> QED  BY <1>3, <1>4, <2>1, <2>2
  <1>9. \A n \in DOMAIN retry : \A i \in DOMAIN retry[n].rows :
            \/ retry[n].rows[i].val \in fromCloud' \/ i \in reverted'
            \/ retry[n].rows[i].val <= local'[i].val
    <2> SUFFICES ASSUME NEW n \in DOMAIN retry, NEW i \in DOMAIN retry[n].rows
                 PROVE  \/ retry[n].rows[i].val \in fromCloud' \/ i \in reverted'
                        \/ retry[n].rows[i].val <= local'[i].val
      OBVIOUS
    <2>1. retry[n].rows[i].val \in 1..version /\ NoNewer(i, retry[n].rows[i].val)
      BY DEF Versions, ShopIsNewest
    <2>2. retry[n].rows[i].val \in 0..version
      BY <1>1, <2>1
    <2> QED  BY <1>3, <1>4, <2>1, <2>2
  <1>10. \A i \in Item : \/ local[i].val \in fromCloud' \/ i \in reverted'
                         \/ local[i].val <= local'[i].val
    <2> SUFFICES ASSUME NEW i \in Item
                 PROVE  \/ local[i].val \in fromCloud' \/ i \in reverted'
                        \/ local[i].val <= local'[i].val
      OBVIOUS
    <2>1. local[i].val \in 0..version /\ NoNewer(i, local[i].val)
      BY <1>1, <1>2 DEF NoNewer
    <2> QED  BY <1>3, <2>1
  <1>11. \A q \in left : \A i \in DOMAIN q.rows :
            \/ q.rows[i].val \in fromCloud' \/ i \in reverted'
            \/ q.rows[i].val <= local'[i].val
    <2> SUFFICES ASSUME NEW q \in left, NEW i \in DOMAIN q.rows
                 PROVE  \/ q.rows[i].val \in fromCloud' \/ i \in reverted'
                        \/ q.rows[i].val <= local'[i].val
      OBVIOUS
    <2>1. q.rows[i].val \in 1..version /\ NoNewer(i, q.rows[i].val)
      BY DEF Versions, ShopIsNewest
    <2>2. q.rows[i].val \in 0..version
      BY <1>1, <2>1
    <2> QED  BY <1>3, <1>4, <2>1, <2>2
  <1>12. ASSUME NEW i \in Item
         PROVE  \/ cloud'[i].val \in fromCloud' \/ i \in reverted'
                \/ cloud'[i].val <= local'[i].val
    BY <1>6, <1>8, <1>9, <1>11 DEF Origins
  <1>13. ASSUME NEW i \in DOMAIN pull'.rows
         PROVE  \/ pull'.rows[i].val \in fromCloud' \/ i \in reverted'
                \/ pull'.rows[i].val <= local'[i].val
    BY <1>5, <1>6, <1>7 DEF Origins
  <1>14. ASSUME NEW i \in DOMAIN push'.rows
         PROVE  \/ push'.rows[i].val \in fromCloud' \/ i \in reverted'
                \/ push'.rows[i].val <= local'[i].val
    BY <1>5, <1>8, <1>10 DEF Origins
  <1>15. ASSUME NEW n \in DOMAIN retry', NEW i \in DOMAIN retry'[n].rows
         PROVE  \/ retry'[n].rows[i].val \in fromCloud' \/ i \in reverted'
                \/ retry'[n].rows[i].val <= local'[i].val
    BY <1>8, <1>9 DEF Descend
  <1>16. ASSUME NEW q \in left', NEW i \in DOMAIN q.rows
         PROVE  \/ q.rows[i].val \in fromCloud' \/ i \in reverted'
                \/ q.rows[i].val <= local'[i].val
    BY <1>8, <1>9, <1>11 DEF Lingers
  <1> QED  BY <1>12, <1>13, <1>14, <1>15, <1>16 DEF ShopIsNewest, NoNewer

-----------------------------------------------------------------------------
(* The catalogue: every step keeps the invariant *)

LEMMA SoundInvKept ==
    ASSUME SoundInv, [CatalogNext]_catalogVars
    PROVE  SoundInv'
  <1>1. /\ CatalogTypeOK /\ Versions /\ BehindIsDelivered /\ SendingCovers
        /\ Origins /\ CatalogTypeOK' /\ Descend /\ Lingers
    BY CatalogOrigins, CatalogTypesKept DEF SoundInv
  <1>2. Versions'
    BY <1>1, VersionsKept
  <1>3. /\ local \in [Item -> Row] /\ local' \in [Item -> Row]
        /\ checkpoint \in Nat /\ push.last \in Nat
        /\ clock \in Nat
    BY <1>1 DEF CatalogTypeOK
  <1>4. \A i \in Item : local[i].ts \in Nat
    BY <1>3 DEF Row
  <1> DEFINE Goal == BehindIsDelivered' /\ SendingCovers'
  <1>5. ASSUME UNCHANGED catalogVars PROVE Goal
    BY <1>1, <1>5 DEF catalogVars, marks, ghosts, BehindIsDelivered, SendingCovers
  <1>6. ASSUME ClockTick PROVE Goal
    BY <1>1, <1>6 DEF ClockTick, marks, ghosts, BehindIsDelivered, SendingCovers
  <1>7. ASSUME NEW i \in Item, NEW t \in Recent, LocalEdit(i, t) PROVE Goal
    <2>1. /\ local' = [local EXCEPT ![i] = [val |-> version', ts |-> t]]
          /\ delivered' = delivered \ {i}
          /\ missed' = IF t < checkpoint \/ t < push.last THEN missed \cup {i}
                       ELSE missed \ {i}
          /\ UNCHANGED <<checkpoint, push>>
      BY <1>7 DEF LocalEdit, marks
    <2>2. \A j \in Item : j # i =>
              /\ local'[j] = local[j]
              /\ j \in delivered \cup missed <=> j \in delivered' \cup missed'
      BY <1>3, <2>1
    <2>3. local'[i].ts = t
      BY <1>3, <2>1
    <2>4. t < checkpoint \/ t < push.last => i \in missed'
      BY <2>1
    <2>5. BehindIsDelivered'
      <3> SUFFICES ASSUME NEW j \in Item, local'[j].val # 0, local'[j].ts < checkpoint'
                   PROVE  j \in delivered' \cup missed'
        BY DEF BehindIsDelivered
      <3>1. checkpoint' = checkpoint
        BY <2>1
      <3>2. CASE j = i
        BY <2>3, <2>4, <3>1, <3>2
      <3>3. CASE j # i
        BY <1>1, <2>2, <3>1, <3>3 DEF BehindIsDelivered
      <3> QED  BY <3>2, <3>3
    <2>6. SendingCovers'
      <3> SUFFICES ASSUME push'.pc = "send", NEW j \in Item,
                          local'[j].val # 0, local'[j].ts < push'.last
                   PROVE  \/ j \in delivered' \cup missed'
                          \/ j \in DOMAIN push'.rows /\ push'.rows[j].val = local'[j].val
        BY DEF SendingCovers
      <3>1. push' = push
        BY <2>1
      <3>2. CASE j = i
        BY <2>3, <2>4, <3>1, <3>2
      <3>3. CASE j # i
        BY <1>1, <2>2, <3>1, <3>3 DEF SendingCovers
      <3> QED  BY <3>2, <3>3
    <2> QED  BY <2>5, <2>6
  <1>8. ASSUME NEW i \in Item, NEW t \in Recent, CloudEdit(i, t) PROVE Goal
    BY <1>1, <1>8 DEF CloudEdit, marks, BehindIsDelivered, SendingCovers
  <1>9. ASSUME StartPush PROVE Goal
    <2>1. push'.pc = "replay"
      BY <1>1, <1>9, StartPushTypes
    <2> QED  BY <1>1, <1>9, <2>1
             DEF StartPush, marks, ghosts, BehindIsDelivered, SendingCovers
  <1>10. ASSUME ReplayBatch PROVE Goal
    <2>1. push'.pc = "replay" /\ Answered(retry[push.at].rows)
      BY <1>1, <1>10, ReplayGives
    <2>2. delivered \subseteq delivered' /\ missed \subseteq missed'
      BY <2>1 DEF Answered
    <2> QED  BY <1>1, <1>10, <2>1, <2>2
             DEF ReplayBatch, marks, BehindIsDelivered, SendingCovers
  <1>11. ASSUME Query PROVE Goal
    <2>1. UNCHANGED <<local, checkpoint, delivered, missed>>
      BY <1>11 DEF Query, marks, ghosts
    <2>2. BehindIsDelivered'
      BY <1>1, <2>1 DEF BehindIsDelivered
    <2>3. CASE push' = Rest
      BY <2>2, <2>3, RestsEmpty DEF SendingCovers
    <2>4. CASE push' # Rest
      <3>1. /\ \A i \in DOMAIN push'.rows : push'.rows[i] = local[i]
            /\ \A i \in Due(local, checkpoint) :
                   local[i].ts < push'.last => i \in DOMAIN push'.rows
        BY <1>1, <1>11, <2>4, QueryGives
      <3> SUFFICES ASSUME NEW i \in Item, local'[i].val # 0, local'[i].ts < push'.last
                   PROVE  \/ i \in delivered' \cup missed'
                          \/ i \in DOMAIN push'.rows /\ push'.rows[i].val = local'[i].val
        BY <2>2 DEF SendingCovers
      <3>2. CASE local[i].ts < checkpoint
        BY <1>1, <2>1, <3>2 DEF BehindIsDelivered
      <3>3. CASE ~ (local[i].ts < checkpoint)
        <4>1. i \in Due(local, checkpoint)
          BY <1>3, <1>4, <2>1, <3>3 DEF Due
        <4> QED  BY <2>1, <3>1, <4>1
      <3> QED  BY <3>2, <3>3
    <2> QED  BY <2>3, <2>4
  <1>12. ASSUME SendChanges PROVE Goal
    <2>1. /\ push.pc = "send" /\ (push' = Rest \/ UNCHANGED push) /\ Answered(push.rows)
          /\ \/ UNCHANGED checkpoint
             \/ checkpoint' = push.last /\ Passed(push.rows) /\ push' = Rest
      BY <1>1, <1>12, SendGives
    <2>2. UNCHANGED local
      BY <1>12 DEF SendChanges
    <2>3. delivered \subseteq delivered' /\ missed \subseteq missed'
      BY <2>1 DEF Answered
    <2>4. SendingCovers'
      BY <1>1, <2>1, <2>2, <2>3, RestsEmpty DEF SendingCovers
    <2>5. CASE UNCHANGED checkpoint
      BY <1>1, <2>2, <2>3, <2>4, <2>5 DEF BehindIsDelivered
    <2>6. CASE checkpoint' = push.last /\ Passed(push.rows) /\ push' = Rest
      BY <1>1, <2>1, <2>2, <2>3, <2>4, <2>6 DEF BehindIsDelivered, SendingCovers, Passed
    <2> QED  BY <2>1, <2>5, <2>6
  <1>13. ASSUME Crash PROVE Goal
    <2>1. push' = Rest
      BY <1>1, <1>13, CrashGives
    <2> QED  BY <1>1, <1>13, <2>1, RestsEmpty
             DEF Crash, marks, BehindIsDelivered, SendingCovers
  <1>14. ASSUME Fetch PROVE Goal
    <2>1. push'.pc = push.pc /\ push'.rows = push.rows /\ push'.last = push.last
      BY <1>1, <1>14, FetchGives
    <2>2. UNCHANGED <<local, checkpoint, delivered, missed>>
      BY <1>14 DEF Fetch, marks, ghosts
    <2> QED  BY <1>1, <2>1, <2>2 DEF BehindIsDelivered, SendingCovers
  <1>15. ASSUME Apply PROVE Goal
    <2>1. UNCHANGED checkpoint /\ (UNCHANGED push \/ push' = Rest)
      BY <1>1, <1>15, ApplyGives DEF Apply
    <2>2. \/ UNCHANGED <<local, delivered, missed>>
          \/ /\ \A i \in Item : i \notin DOMAIN pull.rows => local'[i] = local[i]
             /\ delivered' = delivered \cup DOMAIN pull.rows
             /\ missed' = missed \ DOMAIN pull.rows
      BY <1>1, <1>15, ApplyGives
    <2>3. \A i \in Item :
             \/ i \in delivered'
             \/ /\ local'[i] = local[i]
                /\ i \in delivered \cup missed => i \in delivered' \cup missed'
      BY <2>2
    <2> QED  BY <1>1, <2>1, <2>3, RestsEmpty DEF BehindIsDelivered, SendingCovers
  <1>16. ASSUME NEW q, Look(q) PROVE Goal
    BY <1>1, <1>16 DEF Look, marks, ghosts, BehindIsDelivered, SendingCovers
  <1>17. ASSUME NEW q, LateCommit(q) PROVE Goal
    <2>1. Answered(q.rows)
      BY <1>1, <1>17, LateCommitGives
    <2>2. delivered \subseteq delivered' /\ missed \subseteq missed'
      BY <2>1 DEF Answered
    <2> QED  BY <1>1, <1>17, <2>2
             DEF LateCommit, marks, BehindIsDelivered, SendingCovers
  <1> HIDE DEF Goal
  <1>18. Goal
    BY <1>5, <1>6, <1>7, <1>8, <1>9, <1>10, <1>11, <1>12, <1>13, <1>14, <1>15, <1>16, <1>17
       DEF CatalogNext, PushCycle, PullCycle, Leftover
  <1> QED  BY <1>1, <1>2, <1>18 DEF SoundInv, Goal

LEMMA BatchIsNewestKept ==
    ASSUME CatalogInv, [CatalogNext]_catalogVars
    PROVE  BatchIsNewest'
  <1>1. /\ CatalogTypeOK /\ Versions /\ ShopIsNewest /\ BatchIsNewest
        /\ Origins /\ CatalogTypeOK' /\ Descend /\ Lingers
    BY CatalogOrigins, CatalogTypesKept DEF CatalogInv, SoundInv
  <1>2. fromCloud \subseteq fromCloud' /\ reverted \subseteq reverted'
    BY <1>1 DEF Origins
  <1>3. /\ \A i \in DOMAIN pull.rows : i \in Item
        /\ \A i \in DOMAIN push.rows : i \in Item
        /\ \A q \in left : \A i \in DOMAIN q.rows : i \in Item
    BY <1>1 DEF CatalogTypeOK, IsBatch
  <1>4. IsBatch(push'.rows) /\ IsBatch(pull'.rows)
    BY <1>1 DEF CatalogTypeOK, IsBatch
  <1>5. /\ \A i \in DOMAIN pull'.rows : i \in Item
        /\ \A i \in DOMAIN push'.rows : i \in Item
    BY <1>4 DEF IsBatch
  <1> DEFINE Goal == BatchIsNewest'
  <1>6. ASSUME UNCHANGED <<cloud, pull, push>>,
               \A q \in left' : \E p \in left : q.rows = p.rows
        PROVE  Goal
    BY <1>1, <1>2, <1>6 DEF BatchIsNewest
  <1>7. ASSUME push'.pc # "send" PROVE Goal
    BY <1>7 DEF BatchIsNewest
  <1>8. ASSUME NEW i \in Item, NEW t \in Recent, CloudEdit(i, t) PROVE Goal
    <2>1. UNCHANGED <<push, pull, left>>
      BY <1>8 DEF CloudEdit
    <2>2. \A j \in Item : cloud'[j] = cloud[j] \/ cloud'[j].val \in fromCloud'
      <3>1. cloud \in [Item -> Row]
        BY <1>1 DEF CatalogTypeOK
      <3> QED  BY <1>8, <3>1 DEF CloudEdit
    <2> QED  BY <1>1, <1>2, <1>3, <2>1, <2>2 DEF BatchIsNewest
  <1>9. ASSUME Query PROVE Goal
    <2>1. UNCHANGED <<cloud, local, pull, left, fromCloud, reverted>>
      BY <1>9 DEF Query, ghosts
    <2>2. push'.pc = "send" => \A i \in DOMAIN push'.rows : push'.rows[i] = local[i]
      BY <1>1, <1>9, QueryGives, RestsEmpty
    <2>3. \A i \in Item : NoNewer(i, cloud[i].val)
      BY <1>1 DEF ShopIsNewest
    <2>4. \A i \in DOMAIN pull.rows : NoNewer(i, pull.rows[i].val)
      BY <1>1 DEF ShopIsNewest
    <2>5. \A q \in left : \A i \in DOMAIN q.rows : NoNewer(i, q.rows[i].val)
      BY <1>1 DEF ShopIsNewest
    <2> QED  BY <1>5, <2>1, <2>2, <2>3, <2>4, <2>5 DEF BatchIsNewest, NoNewer
  <1>10. ASSUME Fetch PROVE Goal
    <2>1. UNCHANGED <<cloud, left, fromCloud, reverted>>
      BY <1>10 DEF Fetch, ghosts
    <2>2. /\ push'.pc = push.pc /\ push'.rows = push.rows
          /\ \A i \in DOMAIN pull'.rows : pull'.rows[i] = cloud[i]
      BY <1>1, <1>10, FetchGives
    <2> QED  BY <1>1, <2>1, <2>2 DEF BatchIsNewest
  <1>11. ASSUME Apply PROVE Goal
    <2>1. /\ UNCHANGED <<cloud, left, fromCloud>> /\ pull' = Asleep
          /\ UNCHANGED push \/ push' = Rest
      BY <1>1, <1>11, ApplyGives DEF Apply
    <2> QED  BY <1>1, <1>2, <2>1, RestsEmpty DEF BatchIsNewest
  <1>12. ASSUME NEW q, LateCommit(q) PROVE Goal
    <2>1. /\ q \in left /\ left' \subseteq left /\ Answered(q.rows)
          /\ pull'.pc = pull.pc /\ pull'.rows = pull.rows
      BY <1>1, <1>12, LateCommitGives
    <2>2. UNCHANGED <<push, fromCloud, reverted>>
      BY <1>12 DEF LateCommit
    <2>3. \A i \in Item : \/ cloud'[i] = cloud[i]
                          \/ i \in DOMAIN q.rows /\ cloud'[i].val = q.rows[i].val
      BY <2>1 DEF Answered
    <2> QED  BY <1>1, <1>3, <2>1, <2>2, <2>3 DEF BatchIsNewest
  <1>13. ASSUME SendChanges, push' # Rest PROVE Goal
    <2>1. /\ UNCHANGED <<push, cloud>> /\ push.pc = "send"
          /\ pull'.pc = pull.pc /\ pull'.rows = pull.rows
          /\ left' = left \/ left' = left \cup {Posted(push.rows)}
      BY <1>1, <1>13, SendGives
    <2>2. UNCHANGED <<fromCloud, reverted>>
      BY <1>13 DEF SendChanges
    <2>3. \A q \in left' : q \in left \/ q.rows = push.rows
      BY <2>1 DEF Posted
    <2>4. version \in Nat /\ \A i \in DOMAIN push.rows : push.rows[i].val \in 1..version
      BY <1>1 DEF Versions, CatalogTypeOK
    <2>5. \A i \in DOMAIN push.rows : push.rows[i].val <= push.rows[i].val
      BY <2>4
    <2> QED  BY <1>1, <2>1, <2>2, <2>3, <2>5 DEF BatchIsNewest
  <1> HIDE DEF Goal
  <1>14. ASSUME NEW q, Look(q) PROVE Goal
    BY <1>1, <1>6, <1>14, LookGives DEF Look
  <1>15. ASSUME StartPush PROVE Goal
    BY <1>1, <1>7, <1>15, StartPushTypes
  <1>16. ASSUME ReplayBatch PROVE Goal
    BY <1>1, <1>7, <1>16, ReplayGives
  <1>17. ASSUME SendChanges PROVE Goal
    BY <1>1, <1>7, <1>17, <1>13, RestsEmpty
  <1>18. ASSUME Crash PROVE Goal
    BY <1>1, <1>7, <1>18, CrashGives, RestsEmpty
  <1>19. ASSUME ClockTick \/ (\E i \in Item, t \in Recent : LocalEdit(i, t))
                \/ UNCHANGED catalogVars
         PROVE  Goal
    BY <1>6, <1>19 DEF ClockTick, LocalEdit, catalogVars
  <1>20. Goal
    BY <1>8, <1>9, <1>10, <1>11, <1>15, <1>16, <1>17, <1>18, <1>19, <1>12, <1>14
       DEF CatalogNext, PushCycle, PullCycle, Leftover
  <1> QED  BY <1>20 DEF Goal

LEMMA LateGrows == ASSUME [CatalogNext]_catalogVars PROVE late \subseteq late'
  <1>1. CASE CatalogNext
    BY <1>1 DEF CatalogNext, PushCycle, PullCycle, Leftover, ghosts, ClockTick, LocalEdit,
                CloudEdit, StartPush, ReplayBatch, Query, SendChanges, Crash, Look,
                LateCommit, Fetch, Apply
  <1>2. CASE UNCHANGED catalogVars
    BY <1>2 DEF catalogVars, ghosts
  <1> QED  BY <1>1, <1>2

LEMMA LeftIsLateKept ==
    ASSUME CatalogInv, [CatalogNext]_catalogVars
    PROVE  LeftIsLate'
  <1>1. LeftIsLate /\ Lingers
    BY CatalogTypesKept DEF CatalogInv, SoundInv
  <1>2. late \subseteq late'
    BY LateGrows
  <1> QED  BY <1>1, <1>2 DEF LeftIsLate, Lingers

LEMMA DeliveredStaysKept ==
    ASSUME CatalogInv, [CatalogNext]_catalogVars
    PROVE  DeliveredStays'
  <1>1. /\ CatalogTypeOK /\ Versions /\ ShopIsNewest /\ BatchIsNewest /\ DeliveredStays
        /\ Origins /\ CatalogTypeOK' /\ Descend /\ Lingers
    BY CatalogOrigins, CatalogTypesKept DEF CatalogInv, SoundInv
  <1>2. /\ fromCloud \subseteq fromCloud' /\ reverted \subseteq reverted'
        /\ late \subseteq late'
    BY <1>1, LateGrows DEF Origins
  <1>3. /\ \A i \in DOMAIN pull.rows : i \in Item
        /\ \A i \in DOMAIN push.rows : i \in Item
        /\ \A i \in delivered : i \in Item
        /\ cloud \in [Item -> Row] /\ local \in [Item -> Row] /\ version \in Nat
    BY <1>1 DEF CatalogTypeOK, IsBatch
  <1>4. IsBatch(push'.rows) /\ IsBatch(pull'.rows)
    BY <1>1 DEF CatalogTypeOK, IsBatch
  <1>5. /\ \A i \in DOMAIN pull'.rows : i \in Item
        /\ \A i \in DOMAIN push'.rows : i \in Item
    BY <1>4 DEF IsBatch
  <1>6. /\ \A i \in Item : /\ local[i].val \in Nat /\ cloud[i].val \in Nat
                           /\ local[i].val <= version /\ cloud[i].val <= version
        /\ \A i \in DOMAIN pull.rows : /\ pull.rows[i].val \in Nat
                                       /\ pull.rows[i].val <= version
        /\ \A i \in DOMAIN push.rows : push.rows[i].val \in Nat
    BY <1>1, <1>3 DEF Versions
  <1> DEFINE Goal == DeliveredStays'
  <1>7. ASSUME UNCHANGED <<local, cloud, pull, push, delivered>> PROVE Goal
    BY <1>1, <1>2, <1>7 DEF DeliveredStays, Loose
  <1>8. ASSUME NEW i \in Item, NEW t \in Recent, LocalEdit(i, t) PROVE Goal
    <2>1. /\ UNCHANGED <<cloud, pull, push, fromCloud, reverted, late>>
          /\ delivered' = delivered \ {i}
          /\ \A j \in Item : j # i => local'[j] = local[j]
      BY <1>3, <1>8 DEF LocalEdit
    <2> QED  BY <1>1, <1>3, <2>1 DEF DeliveredStays, Loose
  <1>9. ASSUME NEW i \in Item, NEW t \in Recent, CloudEdit(i, t) PROVE Goal
    <2>1. UNCHANGED <<local, pull, push, delivered, reverted, late>>
      BY <1>9 DEF CloudEdit
    <2>2. \A j \in Item : \/ cloud'[j] = cloud[j]
                          \/ cloud'[j].val = version + 1
      BY <1>3, <1>9 DEF CloudEdit
    <2> QED  BY <1>1, <1>2, <1>3, <1>6, <2>1, <2>2 DEF DeliveredStays, Loose
  <1>10. ASSUME StartPush PROVE Goal
    <2>1. push'.pc = "replay"
      BY <1>1, <1>10, StartPushTypes
    <2>2. UNCHANGED <<local, cloud, pull, ghosts>>
      BY <1>10 DEF StartPush
    <2> QED  BY <1>1, <2>1, <2>2 DEF DeliveredStays, Loose, ghosts
  <1>11. ASSUME NEW rows, Answered(rows), \A j \in DOMAIN rows : j \in late',
                UNCHANGED <<local, fromCloud, reverted>>,
                push'.pc = "send" => UNCHANGED push,
                pull'.pc = pull.pc /\ pull'.rows = pull.rows,
                pull.pc = "apply" => pull.overtaken \subseteq pull'.overtaken
         PROVE  Goal
    <2>1. \A j \in Item : j \notin DOMAIN rows =>
              cloud'[j] = cloud[j] /\ (j \in delivered' => j \in delivered)
      BY <1>11 DEF Answered
    <2>2. delivered' \subseteq Item
      BY <1>11 DEF Answered
    <2>3. \A j \in Item : j \notin DOMAIN rows \/ Loose(j)'
      BY <1>11 DEF Loose
    <2>4. \A j \in Item : Loose(j) => Loose(j)'
      BY <1>2 DEF Loose
    <2>5. \A j \in delivered' :
             local'[j].val \in fromCloud' \/ Loose(j)' \/ local'[j].val <= cloud'[j].val
      BY <1>1, <1>11, <2>1, <2>2, <2>3, <2>4 DEF DeliveredStays
    <2>6. push'.pc = "send" => \A j \in DOMAIN push'.rows \cap delivered' :
             \/ local'[j].val \in fromCloud' \/ Loose(j)'
             \/ local'[j].val <= push'.rows[j].val
      BY <1>1, <1>11, <2>1, <2>2, <2>3, <2>4 DEF DeliveredStays
    <2>7. pull'.pc = "apply" => \A j \in DOMAIN pull'.rows :
             /\ \/ pull'.rows[j].val \in fromCloud' \/ Loose(j)'
                \/ pull'.rows[j].val <= cloud'[j].val
             /\ j \in delivered' =>
                   \/ local'[j].val \in fromCloud' \/ Loose(j)' \/ j \in pull'.overtaken
                   \/ local'[j].val <= pull'.rows[j].val
      BY <1>1, <1>3, <1>11, <2>1, <2>3, <2>4 DEF DeliveredStays
    <2> QED  BY <2>5, <2>6, <2>7 DEF DeliveredStays
  <1>12. ASSUME Query PROVE Goal
    <2>1. UNCHANGED <<local, cloud, pull, delivered, fromCloud, reverted, late>>
      BY <1>12 DEF Query, ghosts
    <2>2. push'.pc = "send" => \A i \in DOMAIN push'.rows : push'.rows[i] = local[i]
      BY <1>1, <1>12, QueryGives, RestsEmpty
    <2> QED  BY <1>1, <1>5, <1>6, <2>1, <2>2 DEF DeliveredStays, Loose
  <1>13. ASSUME push.pc = "send" /\ push' = Rest /\ Answered(push.rows)
                /\ UNCHANGED <<local, fromCloud, reverted>>
                /\ pull'.pc = pull.pc /\ pull'.rows = pull.rows,
                \/ pull.pc = "apply" =>
                       pull'.overtaken = pull.overtaken \cup DOMAIN push.rows
                \/ UNCHANGED <<cloud, delivered, pull>>
         PROVE  Goal
    <2>1. PICK rows : rows = push.rows
      OBVIOUS
    <2>2. /\ \A i \in Item : \/ cloud'[i] = cloud[i]
                             \/ i \in DOMAIN rows /\ cloud'[i].val = rows[i].val
          /\ \A i \in delivered' :
                 \/ i \in delivered
                 \/ i \in DOMAIN rows /\ cloud'[i].val = rows[i].val
                                      /\ rows[i].val = local[i].val
          /\ delivered' \subseteq Item
      BY <1>13, <2>1 DEF Answered
    <2>3. ASSUME NEW i \in delivered'
          PROVE  \/ local[i].val \in fromCloud \/ Loose(i) \/ local[i].val <= cloud'[i].val
      BY <1>1, <1>6, <1>13, <2>1, <2>2, <2>3 DEF DeliveredStays
    <2>4. ASSUME pull.pc = "apply", NEW i \in DOMAIN pull.rows
          PROVE  \/ pull.rows[i].val \in fromCloud \/ Loose(i)
                 \/ pull.rows[i].val <= cloud'[i].val
      <3>1. \/ pull.rows[i].val \in fromCloud \/ Loose(i)
            \/ pull.rows[i].val <= cloud[i].val
        BY <1>1, <2>4 DEF DeliveredStays
      <3>2. i \in DOMAIN rows => \/ pull.rows[i].val \in fromCloud \/ i \in reverted
                                 \/ pull.rows[i].val <= rows[i].val
        BY <1>1, <1>13, <2>1, <2>4 DEF BatchIsNewest
      <3> QED  BY <1>3, <2>2, <3>1, <3>2 DEF Loose
    <2>5. ASSUME pull.pc = "apply", NEW i \in DOMAIN pull.rows, i \in delivered'
          PROVE  \/ local[i].val \in fromCloud \/ Loose(i) \/ i \in pull'.overtaken
                 \/ local[i].val <= pull.rows[i].val
      BY <1>1, <1>13, <2>1, <2>2, <2>5 DEF DeliveredStays
    <2>6. push'.pc = "idle"
      BY <1>13, RestsEmpty
    <2> QED  BY <1>2, <1>13, <2>3, <2>4, <2>5, <2>6 DEF DeliveredStays, Loose
  <1>14. ASSUME Fetch PROVE Goal
    <2>1. UNCHANGED <<local, cloud, delivered, fromCloud, reverted, late>>
      BY <1>14 DEF Fetch, ghosts
    <2>2. /\ push'.pc = push.pc /\ push'.rows = push.rows
          /\ \A i \in DOMAIN pull'.rows : pull'.rows[i] = cloud[i]
      BY <1>1, <1>14, FetchGives
    <2> QED  BY <1>1, <1>5, <1>6, <2>1, <2>2 DEF DeliveredStays, Loose
  <1>15. ASSUME Apply PROVE Goal
    <2>1. UNCHANGED <<cloud, fromCloud, late>> /\ pull' = Asleep
          /\ pull.pc = "apply" /\ (UNCHANGED push \/ push' = Rest)
      BY <1>15 DEF Apply
    <2>2. pull'.pc = "idle" /\ (push' = Rest => push'.pc = "idle")
      BY <2>1, RestsEmpty
    <2>3. \/ UNCHANGED <<local, delivered, reverted>>
          \/ /\ \A i \in Item : i \notin DOMAIN pull.rows => local'[i] = local[i]
             /\ \A i \in DOMAIN pull.rows : local'[i].val = pull.rows[i].val
             /\ delivered' = delivered \cup DOMAIN pull.rows
             /\ reverted \subseteq reverted'
      BY <1>1, <1>15, ApplyGives
    <2>4. ASSUME NEW i \in delivered'
          PROVE  local'[i].val \in fromCloud' \/ Loose(i)' \/ local'[i].val <= cloud'[i].val
      BY <1>1, <1>2, <1>3, <2>1, <2>3, <2>4 DEF DeliveredStays, Loose
    <2>5. ASSUME push.pc = "send", NEW i \in DOMAIN push.rows \cap delivered'
          PROVE  \/ local'[i].val \in fromCloud' \/ Loose(i)'
                 \/ local'[i].val <= push.rows[i].val
      <3>1. i \in DOMAIN pull.rows => \/ pull.rows[i].val \in fromCloud \/ i \in reverted
                                      \/ pull.rows[i].val <= push.rows[i].val
        BY <1>1, <2>1, <2>5 DEF BatchIsNewest
      <3>2. i \in delivered => \/ local[i].val \in fromCloud \/ Loose(i)
                               \/ local[i].val <= push.rows[i].val
        BY <1>1, <2>5 DEF DeliveredStays
      <3> QED  BY <1>2, <1>3, <2>1, <2>3, <3>1, <3>2 DEF Loose
    <2> QED  BY <2>1, <2>2, <2>4, <2>5 DEF DeliveredStays
  <1> HIDE DEF Goal
  <1>16. ASSUME SendChanges PROVE Goal
    <2>1. UNCHANGED <<local, fromCloud, reverted>>
      BY <1>16 DEF SendChanges
    <2>2. /\ push.pc = "send" /\ (push' = Rest \/ UNCHANGED <<push, cloud, delivered>>)
          /\ pull'.pc = pull.pc /\ pull'.rows = pull.rows
          /\ \/ pull.pc = "apply" =>
                    pull'.overtaken = pull.overtaken \cup DOMAIN push.rows
             \/ UNCHANGED <<cloud, delivered, pull>>
          /\ Answered(push.rows)
      BY <1>1, <1>16, SendGives
    <2>3. CASE push' = Rest
      BY <1>13, <2>1, <2>2, <2>3
    <2>4. CASE UNCHANGED <<push, cloud, delivered>>
      BY <1>1, <1>2, <2>1, <2>2, <2>4 DEF Goal, DeliveredStays, Loose
    <2> QED  BY <2>2, <2>3, <2>4
  <1>17. ASSUME Crash PROVE Goal
    <2>1. UNCHANGED <<local, cloud, delivered, fromCloud, reverted>>
      BY <1>17 DEF Crash
    <2>2. push' = Rest /\ pull' = Asleep
      BY <1>1, <1>17, CrashGives
    <2> QED  BY <1>1, <1>2, <2>1, <2>2, RestsEmpty DEF Goal, DeliveredStays, Loose
  <1>18. ASSUME ReplayBatch PROVE Goal
    <2>1. PICK rows : rows = retry[push.at].rows
      OBVIOUS
    <2>2. /\ push'.pc = "replay" /\ pull'.pc = pull.pc /\ pull'.rows = pull.rows
          /\ pull.pc = "apply" => pull.overtaken \subseteq pull'.overtaken
          /\ Answered(rows)
          /\ \/ UNCHANGED <<cloud, delivered>>
             \/ late' = late \cup DOMAIN rows
      BY <1>1, <1>18, <2>1, ReplayGives
    <2>3. UNCHANGED <<local, fromCloud, reverted>>
      BY <1>18 DEF ReplayBatch
    <2>4. CASE UNCHANGED <<cloud, delivered>>
      BY <1>1, <1>2, <2>2, <2>3, <2>4 DEF Goal, DeliveredStays, Loose
    <2>5. CASE late' = late \cup DOMAIN rows
      BY <1>11, <2>2, <2>3, <2>5
    <2> QED  BY <2>2, <2>4, <2>5
  <1>19. ASSUME NEW q, LateCommit(q) PROVE Goal
    <2>1. PICK rows : rows = q.rows
      OBVIOUS
    <2>2. /\ q \in left /\ Answered(rows)
          /\ pull'.pc = pull.pc /\ pull'.rows = pull.rows
          /\ pull.pc = "apply" => pull.overtaken \subseteq pull'.overtaken
      BY <1>1, <1>19, <2>1, LateCommitGives
    <2>3. UNCHANGED <<local, push, fromCloud, reverted, late>>
      BY <1>19 DEF LateCommit
    <2>4. \A j \in DOMAIN rows : j \in late'
      BY <2>1, <2>2, <2>3 DEF CatalogInv, LeftIsLate
    <2> QED  BY <1>11, <2>2, <2>3, <2>4
  <1>20. ASSUME ClockTick \/ (\E q : Look(q)) \/ UNCHANGED catalogVars PROVE Goal
    BY <1>7, <1>20 DEF ClockTick, Look, catalogVars, ghosts
  <1>21. Goal
    BY <1>8, <1>9, <1>10, <1>12, <1>14, <1>15, <1>16, <1>17, <1>18, <1>19, <1>20
       DEF CatalogNext, PushCycle, PullCycle, Leftover
  <1> QED  BY <1>21 DEF Goal

-----------------------------------------------------------------------------
(* The catalogue: theorems *)

LEMMA CatalogInitInv == CatalogInit => CatalogInv
  <1> SUFFICES ASSUME CatalogInit PROVE CatalogInv
    OBVIOUS
  <1>1. CatalogTypeOK
    BY CatalogInitTypes
  <1>2. /\ push = Rest /\ pull = Asleep /\ version = 1 /\ checkpoint = 0
        /\ DOMAIN retry = {} /\ delivered = {} /\ left = {}
        /\ \A i \in Item : /\ local[i].val \in 0..1 /\ local[i].ts \in Nat
                           /\ cloud[i].val = 0
    BY StartedAssumption DEF CatalogInit, None
  <1>3. Versions
    BY <1>2, RestsEmpty DEF Versions
  <1>4. BehindIsDelivered /\ SendingCovers
    BY <1>2, RestsEmpty DEF BehindIsDelivered, SendingCovers
  <1>5. ShopIsNewest
    BY <1>2, RestsEmpty DEF ShopIsNewest, NoNewer
  <1>6. BatchIsNewest /\ LeftIsLate /\ DeliveredStays
    BY <1>2, RestsEmpty DEF BatchIsNewest, LeftIsLate, DeliveredStays
  <1> QED  BY <1>1, <1>3, <1>4, <1>5, <1>6 DEF CatalogInv, SoundInv

LEMMA CatalogInvKept == CatalogInv /\ [CatalogNext]_catalogVars => CatalogInv'
  <1> SUFFICES ASSUME CatalogInv, [CatalogNext]_catalogVars PROVE CatalogInv'
    OBVIOUS
  <1>1. SoundInv'
    BY SoundInvKept DEF CatalogInv
  <1>2. ShopIsNewest'
    BY ShopIsNewestKept, CatalogOrigins, CatalogTypesKept DEF CatalogInv, SoundInv
  <1> QED  BY <1>1, <1>2, BatchIsNewestKept, LeftIsLateKept, DeliveredStaysKept DEF CatalogInv

LEMMA CatalogInvariant == CatalogSpec => []CatalogInv
  BY CatalogInitInv, CatalogInvKept, PTL DEF CatalogSpec

\* Whatever the cycles of the agent, the shop, the cloud and the network do, in
\* any order: what the shop changed before the checkpoint the cloud has had,
\* unless the change was committed late, the cloud's commit failed, or it kept a
\* customer of its own (syncLoop.js, syncEntity; sync.py, sync_products).
THEOREM CheckpointTheorem == CatalogSpec => []CheckpointIsSound
  <1>1. CatalogInv => CheckpointIsSound
    BY DEF CatalogInv, SoundInv, CheckpointIsSound
  <1> QED  BY <1>1, CatalogInvariant, PTL

\* A POST of the cycle over fresh rows never takes an older version to the cloud
\* than the one it has, unless that is a change of the cloud or the shop was set
\* back: only a batch of the retry queue does, or a POST that the cloud still
\* works at after its connection broke (syncLoop.js, drainRetryQueue; cloudApi.js).
THEOREM OnlyLateBatchesGoBack == CatalogSpec => GoesBackByLateBatch
  <1> DEFINE Forward == \A i \in Item : cloud'[i].val < cloud[i].val =>
                 \/ ReplayBatch \/ \E q \in left : LateCommit(q)
                 \/ cloud[i].val \in fromCloud \/ i \in reverted
  <1>1. CatalogInv /\ [CatalogNext]_catalogVars => [Forward]_catalogVars
    <2> SUFFICES ASSUME CatalogInv, CatalogNext, NEW i \in Item,
                        cloud'[i].val < cloud[i].val, ~ ReplayBatch,
                        ~ \E q \in left : LateCommit(q)
                 PROVE  cloud[i].val \in fromCloud \/ i \in reverted
      OBVIOUS
    <2>1. CatalogTypeOK /\ Versions /\ BatchIsNewest
      BY DEF CatalogInv, SoundInv
    <2>2. cloud[i].val \in Nat /\ cloud[i].val <= version /\ version \in Nat
      BY <2>1 DEF Versions, CatalogTypeOK
    <2>3. ASSUME push.pc = "send", Answered(push.rows)
          PROVE  cloud[i].val \in fromCloud \/ i \in reverted
      <3>1. \/ cloud'[i] = cloud[i]
            \/ i \in DOMAIN push.rows /\ cloud'[i].val = push.rows[i].val
        BY <2>3 DEF Answered
      <3>2. i \in DOMAIN push.rows
        BY <2>2, <3>1
      <3>3. push.rows[i].val \in Nat
        BY <2>1, <3>2 DEF Versions
      <3> QED  BY <2>1, <2>2, <2>3, <3>1, <3>2, <3>3 DEF BatchIsNewest
    <2>4. ASSUME NEW j \in Item, NEW t \in Recent, CloudEdit(j, t) PROVE FALSE
      <3>1. cloud \in [Item -> Row]
        BY <2>1 DEF CatalogTypeOK
      <3>2. cloud'[i] = cloud[i] \/ cloud'[i].val = version + 1
        BY <2>4, <3>1 DEF CloudEdit
      <3> QED  BY <2>2, <3>2
    <2>5. cloud' # cloud
      BY <2>2
    <2>6. CASE SendChanges
      BY <2>1, <2>3, <2>6, SendGives
    <2> QED  BY <2>4, <2>5, <2>6
             DEF CatalogNext, PushCycle, PullCycle, Leftover, ClockTick, LocalEdit,
                 StartPush, Query, Crash, Look, Fetch, Apply
  <1>2. CatalogSpec => [][CatalogNext]_catalogVars
    BY DEF CatalogSpec
  <1>3. CatalogSpec => [][Forward]_catalogVars
    BY <1>1, <1>2, CatalogInvariant, PTL
  <1> QED  BY <1>3 DEF GoesBackByLateBatch

\* A pull undoes in the shop a change the cloud has taken only if the feed was
\* read before that change arrived, or a batch that came late, replayed or left
\* behind, had undone it in the cloud (syncLoop.js, pullCloudUpdates beside
\* syncProducts).
THEOREM OnlyOldFeedsUndo == CatalogSpec => UndoneByEarlierFeed
  <1> DEFINE Held == \A i \in delivered :
                 local'[i].val < local[i].val /\ local[i].val \notin fromCloud =>
                     i \in pull.overtaken \cup late \cup reverted
  <1>1. CatalogInv /\ [CatalogNext]_catalogVars => [Held]_catalogVars
    <2> SUFFICES ASSUME CatalogInv, CatalogNext, NEW i \in delivered,
                        local'[i].val < local[i].val, local[i].val \notin fromCloud
                 PROVE  i \in pull.overtaken \cup late \cup reverted
      OBVIOUS
    <2>1. CatalogTypeOK /\ Versions /\ DeliveredStays
      BY DEF CatalogInv, SoundInv
    <2>2. i \in Item
      BY <2>1 DEF CatalogTypeOK
    <2>3. local[i].val \in Nat /\ local[i].val <= version /\ version \in Nat
      BY <2>1, <2>2 DEF Versions, CatalogTypeOK
    <2>4. ASSUME NEW j \in Item, NEW t \in Recent, LocalEdit(j, t) PROVE FALSE
      <3>1. local \in [Item -> Row]
        BY <2>1 DEF CatalogTypeOK
      <3>2. local'[i] = local[i] \/ local'[i].val = version + 1
        BY <2>2, <2>4, <3>1 DEF LocalEdit
      <3> QED  BY <2>3, <3>2
    <2>5. local' # local
      BY <2>3
    <2>6. CASE Apply
      <3>1. pull.pc = "apply"
        BY <2>6 DEF Apply
      <3>2. i \in DOMAIN pull.rows /\ local'[i].val = pull.rows[i].val
        BY <2>1, <2>2, <2>3, <2>5, <2>6, ApplyGives
      <3>3. pull.rows[i].val \in Nat
        BY <2>1, <3>2 DEF Versions
      <3> QED  BY <2>1, <2>3, <3>1, <3>2, <3>3 DEF DeliveredStays, Loose
    <2> QED  BY <2>4, <2>5, <2>6
             DEF CatalogNext, PushCycle, PullCycle, Leftover, ClockTick, CloudEdit,
                 StartPush, ReplayBatch, Query, SendChanges, Crash, Look, LateCommit, Fetch
  <1>2. CatalogSpec => [][CatalogNext]_catalogVars
    BY DEF CatalogSpec
  <1>3. CatalogSpec => [][Held]_catalogVars
    BY <1>1, <1>2, CatalogInvariant, PTL
  <1> QED  BY <1>3 DEF UndoneByEarlierFeed
================================================================================
