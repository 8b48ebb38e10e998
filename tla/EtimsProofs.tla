----------------------------- MODULE EtimsProofs -----------------------------
(***************************************************************************)
(* Proofs about Etims, for every set of sales and tasks, every batch size  *)
(* and every limit, and about Pricing, for every set of amounts in cents.  *)
(*                                                                         *)
(* Etims: the invariant says what a task has in hand: answers that are     *)
(* receipts or failures, and rows of sales that were not filed when they   *)
(* were loaded, unless its list is past the first batch.                   *)
(*                                                                         *)
(* Pricing: two facts of quantize, the cents of a fraction are added       *)
(* outside of the rounding, and the rounded number is within half a unit;  *)
(* and one invariant, receipt and invoice are what the formulas make of a  *)
(* cart.                                                                   *)
(***************************************************************************)
EXTENDS Etims, Pricing, WellFoundedInduction, TLAPS

Steps(op) ==
    CASE op = "none" -> {"idle"}
      [] op = "submit" -> {"post", "commit"}
      [] op = "chain" -> {"read", "sleep", "post", "commit"}
      [] op = "bulk" -> {"take", "post"}

\* Where a task may be, and which sale it is about.
InStep(w) ==
    /\ w.pc \in Steps(w.op)
    /\ w.op \in {"submit", "chain"} => w.sale \in Txn /\ w.first /\ w.todo = {}
    /\ w.pc \in {"sleep", "commit"} => w.batch = {w.sale}
    /\ w.pc = "post" => w.sale \in w.batch /\ (w.op = "bulk" \/ w.batch = {w.sale})

\* What it loaded as not filed it took up as not filed.
ReadUnfiled(w) == w.first => \A t \in w.todo \cup w.batch : ~w.loaded[t].synced

\* The columns of a filing go together.
Whole(row) == row.synced <=> row.number > 0

AnswersAreReceipts ==
    \A k \in Task : \A t \in Txn :
        /\ Whole(task[k].result[t])
        /\ task[k].result[t].number <= issued[t]

\* A sale no batch has taken back: its row is whole, and so is what any task
\* has loaded of it, which was filed only if the sale is.
RowsAgree ==
    \A t \in Txn :
        /\ filing[t].number <= issued[t]
        /\ t \notin takenBack =>
              /\ Whole(filing[t])
              /\ \A k \in Task : /\ Whole(task[k].loaded[t])
                                 /\ task[k].loaded[t].synced => filing[t].synced

TaskInv ==
    /\ TypeOK
    /\ \A k \in Task : InStep(task[k]) /\ ReadUnfiled(task[k])

FilingInv == TaskInv /\ AnswersAreReceipts /\ RowsAgree /\ QueuedIsInHand

-----------------------------------------------------------------------------
(* What an action makes of its task *)

\* w is what task k becomes: in step, with rows that were loaded before or are
\* loaded now, and answers that were there before or are KRA's.
Becomes(k, w) ==
    /\ w \in TaskState /\ InStep(w) /\ ReadUnfiled(w)
    /\ \A t \in Txn : w.loaded[t] \in {task[k].loaded[t], Unfiled, filing[t]}
    /\ \A t \in Txn : \/ w.result[t] \in {task[k].result[t], Unfiled}
                      \/ \E n \in 1..issued'[t] : w.result[t] = Receipt(n)
    /\ task' = [task EXCEPT ![k] = w]

\* A retry that goes on is still that sale's.
KeepsChain(k, w) == task[k].op = "chain" => w.op = "chain" /\ w.sale = task[k].sale

\* The smallest element of a set of numbers is one of it.
LEMMA MinIn ==
    ASSUME NEW S, S \subseteq Nat, S # {}
    PROVE  Min(S) \in S
<1> DEFINE R == OpToRel(<, Nat)
<1>1. \A m, n \in Nat : <<n, m>> \in R <=> n < m
  BY DEF OpToRel
<1>2. IsWellFoundedOn(R, Nat)
  BY NatLessThanWellFounded
<1> HIDE DEF R
<1>3. PICK m \in S : \A n \in S : <<n, m>> \notin R
  BY <1>2, WFMin
<1>4. \A n \in S : m <= n
  <2> TAKE n \in S
  <2>1. m \in Nat /\ n \in Nat /\ <<n, m>> \notin R
    BY <1>3
  <2>2. ~(n < m)
    BY <1>1, <2>1
  <2> QED
    BY <2>1, <2>2
<1> QED
  BY <1>4 DEF Min

LEMMA Fields ==
    ASSUME TypeOK, NEW k \in Task
    PROVE  /\ task[k] \in TaskState
           /\ task[k].op \in {"none", "submit", "chain", "bulk"}
           /\ task[k].pc \in {"idle", "read", "sleep", "take", "post", "commit"}
           /\ task[k].sale \in Txn \cup {NoTxn}
           /\ task[k].todo \subseteq Txn /\ task[k].batch \subseteq Txn
           /\ task[k].loaded \in [Txn -> Row] /\ task[k].result \in [Txn -> Row]
           /\ task[k].first \in BOOLEAN
BY DEF TypeOK, TaskState

LEMMA IdleBecomes ==
    ASSUME NEW k \in Task, task' = [task EXCEPT ![k] = Idle]
    PROVE  Becomes(k, Idle)
BY DEF Becomes, Idle, NoRows, Unfiled, Row, TaskState, InStep, Steps, ReadUnfiled

LEMMA SubmitBecomes ==
    ASSUME TaskInv, NEW k \in Task, NEW t \in Txn, Submit(k, t)
    PROVE  \E w : Becomes(k, w) /\ KeepsChain(k, w)
<1> DEFINE w == [Idle EXCEPT !.op = "submit", !.pc = "post", !.sale = t,
                             !.batch = {t}, !.loaded = filing]
<1>1. /\ task' = [task EXCEPT ![k] = w] /\ task[k].pc = "idle" /\ ~filing[t].synced
      /\ filing \in [Txn -> Row] /\ InStep(task[k])
  BY DEF Submit, Begin, TaskInv, TypeOK
<1>2. /\ w \in TaskState /\ w.op = "submit" /\ w.pc = "post" /\ w.sale = t
      /\ w.todo = {} /\ w.batch = {t} /\ w.loaded = filing /\ w.result = NoRows
      /\ w.first
  BY <1>1 DEF Idle, TaskState, NoRows, Unfiled, Row
<1> HIDE DEF w
<1>3. Becomes(k, w)
  BY <1>1, <1>2 DEF Becomes, NoRows, Unfiled, Row, TaskState, InStep, Steps, ReadUnfiled
<1>4. KeepsChain(k, w)
  BY <1>1, <1>2 DEF KeepsChain, InStep, Steps
<1> QED
  BY <1>3, <1>4

LEMMA RetryAllBecomes ==
    ASSUME TaskInv, NEW k \in Task, RetryAll(k)
    PROVE  \E w : Becomes(k, w) /\ KeepsChain(k, w)
<1> DEFINE unsynced == {t \in completed : ~filing[t].synced}
           w == [Idle EXCEPT !.op = "bulk", !.pc = "take", !.todo = unsynced,
                             !.loaded = filing]
<1>1. /\ task' = [task EXCEPT ![k] = w] /\ task[k].pc = "idle"
      /\ filing \in [Txn -> Row] /\ InStep(task[k])
  BY DEF RetryAll, Begin, TaskInv, TypeOK
<1>2. unsynced \subseteq Txn /\ \A t \in unsynced : ~filing[t].synced
  BY DEF TaskInv, TypeOK
<1> HIDE DEF unsynced
<1>3. /\ w \in TaskState /\ w.op = "bulk" /\ w.pc = "take"
      /\ w.todo = unsynced /\ w.batch = {} /\ w.loaded = filing /\ w.result = NoRows
  BY <1>1, <1>2 DEF Idle, TaskState, NoRows, Unfiled, Row
<1> HIDE DEF w
<1>4. Becomes(k, w)
  BY <1>1, <1>2, <1>3
     DEF Becomes, NoRows, Unfiled, Row, TaskState, InStep, Steps, ReadUnfiled
<1>5. KeepsChain(k, w)
  BY <1>1, <1>3 DEF KeepsChain, InStep, Steps
<1> QED
  BY <1>4, <1>5

LEMMA TakeBecomes ==
    ASSUME TaskInv, NEW k \in Task, Take(k)
    PROVE  \E w : Becomes(k, w) /\ KeepsChain(k, w)
<1> DEFINE v == task[k]
           t == Min(v.todo)
           rows == IF v.first THEN v.loaded ELSE [v.loaded EXCEPT ![t] = filing[t]]
           w == [v EXCEPT !.pc = "post", !.sale = t, !.todo = v.todo \ {t},
                          !.batch = v.batch \cup {t}, !.loaded = rows]
<1>1. /\ task' = [task EXCEPT ![k] = w] /\ v.pc = "take" /\ v.todo # {}
      /\ filing \in [Txn -> Row] /\ InStep(v) /\ ReadUnfiled(v)
  BY DEF Take, TaskInv, TypeOK
<1>2. /\ v \in TaskState /\ v.todo \subseteq Txn /\ v.batch \subseteq Txn
      /\ v.loaded \in [Txn -> Row] /\ v.op \in {"none", "submit", "chain", "bulk"}
  BY Fields DEF TaskInv
<1>3. t \in v.todo /\ t \in Txn
  BY <1>1, <1>2, MinIn, TxnAssumption
<1>4. /\ rows \in [Txn -> Row]
      /\ \A u \in Txn : rows[u] \in {v.loaded[u], filing[u]}
      /\ v.first => rows = v.loaded
  BY <1>1, <1>2, <1>3
<1>5. v.op = "bulk"
  BY <1>1, <1>2 DEF InStep, Steps
<1> HIDE DEF v, t, rows
<1>6. /\ w \in TaskState /\ w.op = "bulk" /\ w.pc = "post" /\ w.sale = t
      /\ w.todo = v.todo \ {t} /\ w.batch = v.batch \cup {t} /\ w.loaded = rows
      /\ w.result = v.result /\ w.first = v.first
  BY <1>2, <1>3, <1>4, <1>5 DEF TaskState
<1> HIDE DEF w
<1>7. InStep(w) /\ ReadUnfiled(w)
  BY <1>1, <1>3, <1>4, <1>6 DEF InStep, Steps, ReadUnfiled
<1>8. Becomes(k, w)
  BY <1>1, <1>4, <1>6, <1>7 DEF Becomes, v
<1>9. KeepsChain(k, w)
  BY <1>5 DEF KeepsChain, v
<1> QED
  BY <1>8, <1>9

LEMMA ReadForRetryBecomes ==
    ASSUME TaskInv, NEW k \in Task, ReadForRetry(k)
    PROVE  \E w : /\ Becomes(k, w)
                  /\ \/ KeepsChain(k, w)
                     \/ /\ task[k].op = "chain"
                        /\ \/ filing[task[k].sale].synced
                           \/ attempts[task[k].sale] >= MaxAttempts
<1> DEFINE v == task[k]
           t == v.sale
           w == [v EXCEPT !.pc = "sleep", !.batch = {t}, !.loaded = filing]
<1>1. /\ v.pc = "read" /\ filing \in [Txn -> Row] /\ InStep(v) /\ ReadUnfiled(v)
      /\ task' = [task EXCEPT ![k] =
                    IF filing[t].synced \/ attempts[t] >= MaxAttempts THEN Idle ELSE w]
  BY DEF ReadForRetry, TaskInv, TypeOK
<1>2. v \in TaskState /\ v.op \in {"none", "submit", "chain", "bulk"} /\ v.todo \subseteq Txn
  BY Fields DEF TaskInv
<1>3. v.op = "chain" /\ t \in Txn /\ v.first /\ v.todo = {}
  BY <1>1, <1>2 DEF InStep, Steps
<1>4. CASE filing[t].synced \/ attempts[t] >= MaxAttempts
  BY <1>1, <1>3, <1>4, IdleBecomes
<1>5. CASE ~(filing[t].synced \/ attempts[t] >= MaxAttempts)
  <2>1. task' = [task EXCEPT ![k] = w] /\ ~filing[t].synced
    BY <1>1, <1>5
  <2> HIDE DEF v, t
  <2>2. /\ w \in TaskState /\ w.op = "chain" /\ w.pc = "sleep" /\ w.sale = t
        /\ w.todo = v.todo /\ w.batch = {t} /\ w.loaded = filing
        /\ w.result = v.result /\ w.first = v.first
    BY <1>1, <1>2, <1>3 DEF TaskState, t
  <2> HIDE DEF w
  <2>3. InStep(w)
    BY <1>3, <2>2 DEF InStep, Steps
  <2>4. ReadUnfiled(w)
    BY <1>3, <2>1, <2>2 DEF ReadUnfiled
  <2>5. Becomes(k, w) /\ KeepsChain(k, w)
    BY <1>3, <2>1, <2>2, <2>3, <2>4 DEF Becomes, KeepsChain, v, t
  <2> QED
    BY <2>5
<1> QED
  BY <1>4, <1>5

LEMMA WakeBecomes ==
    ASSUME TaskInv, NEW k \in Task, Wake(k)
    PROVE  \E w : Becomes(k, w) /\ KeepsChain(k, w)
<1> DEFINE v == task[k]
           w == [v EXCEPT !.pc = "post"]
<1>1. /\ task' = [task EXCEPT ![k] = w] /\ v.pc = "sleep"
      /\ InStep(v) /\ ReadUnfiled(v)
  BY DEF Wake, TaskInv
<1>2. v \in TaskState /\ v.op \in {"none", "submit", "chain", "bulk"}
  BY Fields DEF TaskInv
<1> HIDE DEF v
<1>3. /\ w \in TaskState /\ w.op = v.op /\ w.pc = "post" /\ w.sale = v.sale
      /\ w.todo = v.todo /\ w.batch = v.batch /\ w.loaded = v.loaded
      /\ w.result = v.result /\ w.first = v.first
  BY <1>2 DEF TaskState
<1> HIDE DEF w
<1>4. InStep(w) /\ ReadUnfiled(w)
  BY <1>1, <1>2, <1>3 DEF InStep, Steps, ReadUnfiled
<1>5. Becomes(k, w) /\ KeepsChain(k, w)
  BY <1>1, <1>3, <1>4 DEF Becomes, KeepsChain, v
<1> QED
  BY <1>5

LEMMA AnswerBecomes ==
    ASSUME TaskInv, NEW k \in Task, NEW result \in Row, Answer(k, result),
           result = Unfiled \/ \E n \in 1..issued'[task[k].sale] : result = Receipt(n)
    PROVE  \E w : Becomes(k, w) /\ KeepsChain(k, w)
<1> DEFINE v == task[k]
           pc == IF v.op = "bulk" THEN "take" ELSE "commit"
           results == [v.result EXCEPT ![v.sale] = result]
           w == [v EXCEPT !.pc = pc, !.result = results]
<1>1. /\ task' = [task EXCEPT ![k] = w] /\ v.pc = "post"
      /\ InStep(v) /\ ReadUnfiled(v)
  BY DEF Answer, TaskInv
<1>2. /\ v \in TaskState /\ v.op \in {"none", "submit", "chain", "bulk"}
      /\ v.batch \subseteq Txn /\ v.result \in [Txn -> Row]
  BY Fields DEF TaskInv
<1>3. v.sale \in Txn
  BY <1>1, <1>2 DEF InStep
<1>4. /\ results \in [Txn -> Row]
      /\ \A t \in Txn : \/ results[t] \in {v.result[t], Unfiled}
                        \/ \E n \in 1..issued'[t] : results[t] = Receipt(n)
  BY <1>2, <1>3
<1>5. \/ v.op = "bulk" /\ pc = "take"
      \/ v.op \in {"submit", "chain"} /\ pc = "commit"
  BY <1>1, <1>2 DEF InStep, Steps
<1> HIDE DEF v, pc, results
<1>6. /\ w \in TaskState /\ w.op = v.op /\ w.pc = pc /\ w.sale = v.sale
      /\ w.todo = v.todo /\ w.batch = v.batch /\ w.loaded = v.loaded
      /\ w.result = results /\ w.first = v.first
  BY <1>2, <1>4, <1>5 DEF TaskState
<1> HIDE DEF w
<1>7. InStep(w) /\ ReadUnfiled(w)
  BY <1>1, <1>2, <1>5, <1>6 DEF InStep, Steps, ReadUnfiled
<1>8. Becomes(k, w) /\ KeepsChain(k, w)
  BY <1>1, <1>4, <1>6, <1>7 DEF Becomes, KeepsChain, v
<1> QED
  BY <1>8

\* What KRA says is a receipt it has issued, or a failure.
LEMMA KraBecomes ==
    ASSUME TaskInv, NEW k \in Task, Issues(k) \/ Repeats(k) \/ Refuses(k)
    PROVE  /\ \E w : Becomes(k, w) /\ KeepsChain(k, w)
           /\ issued' \in [Txn -> 0..MaxReceipts]
           /\ \A t \in Txn : issued[t] <= issued'[t]
           /\ UNCHANGED <<completed, filing, attempts, ghosts, bounds>>
<1> DEFINE t == task[k].sale
<1>1. t \in Txn
  <2>1. task[k].pc = "post" /\ InStep(task[k])
    BY DEF Issues, Repeats, Refuses, Answer, TaskInv
  <2> QED
    BY <2>1, Fields DEF InStep, TaskInv
<1>2. /\ issued \in [Txn -> 0..MaxReceipts] /\ issued[t] \in Nat /\ MaxReceipts \in Nat
      /\ issued[t] + 1 > issued[t]
  BY <1>1, BoundsAssumption DEF TaskInv, TypeOK
<1>3. Unfiled \in Row /\ \A n \in Nat : Receipt(n) \in Row
  BY DEF Unfiled, Receipt, Row
<1>4. CASE Issues(k)
  <2>1. /\ issued' = [issued EXCEPT ![t] = issued[t] + 1] /\ issued[t] < MaxReceipts
        /\ Answer(k, Receipt(issued[t] + 1)) \/ Answer(k, Unfiled)
    BY <1>4 DEF Issues
  <2>2. issued'[t] = issued[t] + 1 /\ issued[t] + 1 \in 1..issued'[t]
    BY <1>1, <1>2, <2>1
  <2>3. \E w : Becomes(k, w) /\ KeepsChain(k, w)
    BY <1>2, <1>3, <2>1, <2>2, AnswerBecomes
  <2> QED
    BY <1>1, <1>2, <2>1, <2>3 DEF Answer
<1>5. CASE Repeats(k)
  <2>1. issued' = issued /\ issued[t] > 0 /\ Answer(k, Receipt(issued[t]))
    BY <1>5 DEF Repeats
  <2>2. issued[t] \in 1..issued'[t]
    BY <1>2, <2>1
  <2>3. \E w : Becomes(k, w) /\ KeepsChain(k, w)
    BY <1>2, <1>3, <2>1, <2>2, AnswerBecomes
  <2> QED
    BY <1>2, <2>1, <2>3 DEF Answer
<1>6. CASE Refuses(k)
  <2>1. Answer(k, Unfiled) /\ issued' = issued
    BY <1>6 DEF Refuses
  <2>2. \E w : Becomes(k, w) /\ KeepsChain(k, w)
    BY <1>3, <2>1, AnswerBecomes
  <2> QED
    BY <1>2, <2>1, <2>2 DEF Answer
<1> QED
  BY <1>4, <1>5, <1>6

-----------------------------------------------------------------------------
(* The commit *)

\* What a commit makes of its task: over, the next batch, or the next retry.
LEMMA AfterwardsBecomes ==
    ASSUME TaskInv, NEW k \in Task, Full(task[k]),
           task' = [task EXCEPT ![k] = Afterwards(task[k])]
    PROVE  /\ Becomes(k, Afterwards(task[k]))
           /\ task[k].op \in {"submit", "chain", "bulk"}
           /\ task[k].op # "bulk" => /\ task[k].sale \in Txn
                                     /\ task[k].batch = {task[k].sale} /\ task[k].first
           /\ task[k].op # "bulk" /\ ~task[k].result[task[k].sale].synced =>
                 /\ Afterwards(task[k]).op = "chain"
                 /\ Afterwards(task[k]).sale = task[k].sale
<1> DEFINE v == task[k]
           next == [v EXCEPT !.batch = {}, !.first = FALSE]
           again == [Idle EXCEPT !.op = "chain", !.pc = "read", !.sale = v.sale]
<1>1. InStep(v) /\ ReadUnfiled(v) /\ Full(v)
  BY DEF TaskInv
<1>2. v \in TaskState /\ v.op \in {"none", "submit", "chain", "bulk"} /\ v.pc # "idle"
  BY <1>1, Fields DEF TaskInv, Full
<1>3. /\ v.op \in {"submit", "chain", "bulk"}
      /\ v.op = "bulk" => v.pc = "take"
      /\ v.op # "bulk" => v.sale \in Txn /\ v.batch = {v.sale} /\ v.first
  BY <1>1, <1>2 DEF InStep, Steps, Full
<1>4. CASE v.op = "bulk" /\ v.todo = {}
  BY <1>3, <1>4, IdleBecomes DEF Afterwards
<1>5. CASE v.op = "bulk" /\ v.todo # {}
  <2>1. Afterwards(v) = next
    BY <1>5 DEF Afterwards
  <2>2. v.result \in [Txn -> Row] /\ v.loaded \in [Txn -> Row]
    BY Fields DEF TaskInv
  <2> HIDE DEF v
  <2>3. /\ next \in TaskState /\ next.op = "bulk" /\ next.pc = v.pc
        /\ next.loaded = v.loaded /\ next.result = v.result /\ next.first = FALSE
    BY <1>2, <1>5 DEF TaskState
  <2> HIDE DEF next
  <2>4. InStep(next) /\ ReadUnfiled(next)
    BY <1>3, <1>5, <2>3 DEF InStep, Steps, ReadUnfiled
  <2>5. Becomes(k, next)
    BY <2>1, <2>3, <2>4 DEF Becomes, v
  <2> QED
    BY <1>3, <1>5, <2>1, <2>5 DEF v
<1>6. CASE v.op # "bulk" /\ v.result[v.sale].synced
  BY <1>3, <1>6, IdleBecomes DEF Afterwards
<1>7. CASE v.op # "bulk" /\ ~v.result[v.sale].synced
  <2>1. Afterwards(v) = again
    BY <1>7 DEF Afterwards
  <2> HIDE DEF v
  <2>2. /\ again \in TaskState /\ again.op = "chain" /\ again.pc = "read"
        /\ again.sale = v.sale /\ again.todo = {} /\ again.batch = {} /\ again.first
        /\ again.loaded = NoRows /\ again.result = NoRows
    BY <1>3, <1>7 DEF Idle, TaskState, NoRows, Unfiled, Row
  <2> HIDE DEF again
  <2>3. InStep(again) /\ ReadUnfiled(again)
    BY <1>3, <1>7, <2>2 DEF InStep, Steps, ReadUnfiled
  <2>4. Becomes(k, again)
    BY <2>1, <2>2, <2>3 DEF Becomes, NoRows, v
  <2> QED
    BY <1>3, <1>7, <2>1, <2>2, <2>4 DEF v
<1> QED
  BY <1>4, <1>5, <1>6, <1>7

\* The columns of a row after the commit of w.
LEMMA WrittenRow ==
    ASSUME NEW w \in TaskState, NEW t \in Txn, NEW row \in Row
    PROVE  /\ Written(w, t, row) \in Row
           /\ Written(w, t, row).number \in {row.number, w.result[t].number}
           /\ Written(w, t, row).number =
                 IF w.result[t].number = w.loaded[t].number THEN row.number
                 ELSE w.result[t].number
           /\ Written(w, t, row).synced =
                 IF w.result[t].synced = w.loaded[t].synced THEN row.synced
                 ELSE w.result[t].synced
<1>1. w.result[t] \in Row
  BY DEF TaskState
<1>2. w.result[t].number \in Nat /\ w.result[t].synced \in BOOLEAN
  BY <1>1 DEF Row
<1>3. row.number \in Nat /\ row.synced \in BOOLEAN
  BY DEF Row
<1> QED
  BY <1>2, <1>3 DEF Written, Row

LEMMA CommitRows ==
    ASSUME TaskInv, NEW k \in Task, Commit(k)
    PROVE  /\ Becomes(k, Afterwards(task[k])) /\ Full(task[k])
           /\ filing' \in [Txn -> Row]
           /\ \A t \in Txn : filing'[t] = IF t \in task[k].batch
                                          THEN Written(task[k], t, filing[t])
                                          ELSE filing[t]
           /\ attempts' \in [Txn -> Nat]
           /\ \A t \in Txn : attempts[t] <= attempts'[t]
           /\ takenBack' = takenBack \cup {t \in Txn : filing[t].synced /\ ~filing'[t].synced}
           /\ queued' = IF task[k].op = "submit" /\ ~task[k].result[task[k].sale].synced
                        THEN queued \cup {task[k].sale} ELSE queued
           /\ UNCHANGED <<completed, issued, dropped, bounds>>
<1>1. /\ filing \in [Txn -> Row] /\ attempts \in [Txn -> Nat] /\ task[k] \in TaskState
      /\ \A t \in Txn : filing[t] \in Row
  BY DEF TaskInv, TypeOK
<1>2. Becomes(k, Afterwards(task[k])) /\ Full(task[k])
  BY AfterwardsBecomes DEF Commit
<1>3. filing' = [t \in Txn |-> IF t \in task[k].batch THEN Written(task[k], t, filing[t])
                               ELSE filing[t]]
  BY DEF Commit
<1>4. \A t \in Txn : Written(task[k], t, filing[t]) \in Row
  BY <1>1, WrittenRow
<1>5. filing' \in [Txn -> Row]
  BY <1>1, <1>3, <1>4
<1>6. attempts' = [t \in Txn |-> attempts[t] + (IF t \in Recorded(task[k]) THEN 1 ELSE 0)]
  BY DEF Commit
<1>7. attempts' \in [Txn -> Nat] /\ \A t \in Txn : attempts[t] <= attempts'[t]
  BY <1>1, <1>6
<1> QED
  BY <1>2, <1>3, <1>5, <1>7 DEF Commit

LEMMA Becoming ==
    ASSUME TaskInv, NEW k \in Task, NEW w, Becomes(k, w)
    PROVE  /\ task' \in [Task -> TaskState]
           /\ task'[k] = w /\ \A j \in Task \ {k} : task'[j] = task[j]
           /\ \A j \in Task : InStep(task'[j]) /\ ReadUnfiled(task'[j])
<1>1. task \in [Task -> TaskState] /\ w \in TaskState /\ task' = [task EXCEPT ![k] = w]
  BY DEF TaskInv, TypeOK, Becomes
<1>2. /\ task' \in [Task -> TaskState]
      /\ task'[k] = w /\ \A j \in Task \ {k} : task'[j] = task[j]
  BY <1>1
<1>3. ASSUME NEW j \in Task PROVE InStep(task'[j]) /\ ReadUnfiled(task'[j])
  BY <1>2 DEF Becomes, TaskInv
<1> QED
  BY <1>2, <1>3

\* What each step but the commit leaves as it is.
LEMMA StepsAside ==
    ASSUME TaskInv, NEW k \in Task,
           \/ \E t \in Txn : Submit(k, t)
           \/ RetryAll(k) \/ Take(k) \/ ReadForRetry(k) \/ Wake(k)
           \/ Issues(k) \/ Repeats(k) \/ Refuses(k)
    PROVE  /\ \E w : /\ Becomes(k, w)
                     /\ \/ KeepsChain(k, w)
                        \/ /\ task[k].op = "chain"
                           /\ \/ filing[task[k].sale].synced
                              \/ attempts[task[k].sale] >= MaxAttempts
           /\ issued' \in [Txn -> 0..MaxReceipts]
           /\ \A t \in Txn : issued[t] <= issued'[t]
           /\ requests' \in 0..MaxRequests
           /\ UNCHANGED <<completed, filing, attempts, ghosts, faults>>
<1>1. CASE Issues(k) \/ Repeats(k) \/ Refuses(k)
  BY <1>1, KraBecomes DEF TaskInv, TypeOK, bounds
<1>2. CASE \/ \E t \in Txn : Submit(k, t)
           \/ RetryAll(k) \/ Take(k) \/ ReadForRetry(k) \/ Wake(k)
  <2>1. \E w : /\ Becomes(k, w)
               /\ \/ KeepsChain(k, w)
                  \/ /\ task[k].op = "chain"
                     /\ \/ filing[task[k].sale].synced
                        \/ attempts[task[k].sale] >= MaxAttempts
    BY <1>2, SubmitBecomes, RetryAllBecomes, TakeBecomes, ReadForRetryBecomes, WakeBecomes
  <2>2. UNCHANGED <<completed, filing, attempts, issued, ghosts, faults>>
    BY <1>2 DEF Submit, RetryAll, Begin, Take, ReadForRetry, Wake, bounds
  <2>3. requests' \in 0..MaxRequests
    <3>1. requests' = requests \/ (requests < MaxRequests /\ requests' = requests + 1)
      BY <1>2 DEF Submit, RetryAll, Begin, Take, ReadForRetry, Wake, bounds
    <3> QED
      BY <3>1, BoundsAssumption DEF TaskInv, TypeOK
  <2>4. issued \in [Txn -> 0..MaxReceipts]
    BY DEF TaskInv, TypeOK
  <2> QED
    BY <2>1, <2>2, <2>3, <2>4, BoundsAssumption
<1> QED
  BY <1>1, <1>2

\* A commit that fails and a stop end a task or let a list go on.
LEMMA FaultBecomes ==
    ASSUME TaskInv, NEW k \in Task, CommitFails(k) \/ Dies(k)
    PROVE  /\ \E w : Becomes(k, w)
           /\ dropped' = IF task[k].op = "chain" THEN dropped \cup {task[k].sale} ELSE dropped
           /\ dropped' \subseteq Txn /\ faults' \in 0..MaxFaults
           /\ UNCHANGED <<completed, filing, attempts, issued, queued, takenBack, requests>>
<1>1. /\ dropped' = IF task[k].op = "chain" THEN dropped \cup {task[k].sale} ELSE dropped
      /\ faults < MaxFaults /\ faults' = faults + 1
      /\ UNCHANGED <<completed, filing, attempts, issued, queued, takenBack, requests>>
  BY DEF CommitFails, Dies
<1>2. faults' \in 0..MaxFaults
  BY <1>1, BoundsAssumption DEF TaskInv, TypeOK
<1>3. dropped' \subseteq Txn
  BY <1>1 DEF TaskInv, TypeOK, InStep
<1>4. \E w : Becomes(k, w)
  <2>1. CASE task' = [task EXCEPT ![k] = Idle]
    BY <2>1, IdleBecomes
  <2>2. CASE Full(task[k]) /\ task' = [task EXCEPT ![k] = Afterwards(task[k])]
    BY <2>2, AfterwardsBecomes
  <2> QED
    BY <2>1, <2>2 DEF CommitFails, Dies
<1> QED
  BY <1>1, <1>2, <1>3, <1>4

LEMMA TaskStep == TaskInv /\ [Next]_vars => TaskInv'
<1> SUFFICES ASSUME TaskInv, [Next]_vars PROVE TaskInv'
  OBVIOUS
<1>1. TypeOK /\ \A k \in Task : InStep(task[k]) /\ ReadUnfiled(task[k])
  BY DEF TaskInv
<1>2. ASSUME NEW t \in Txn, Complete(t) PROVE TaskInv'
  BY <1>1, <1>2 DEF Complete, TaskInv, TypeOK, ghosts, bounds
<1>3. ASSUME NEW k \in Task,
             \/ \E t \in Txn : Submit(k, t)
             \/ RetryAll(k) \/ Take(k) \/ ReadForRetry(k) \/ Wake(k)
             \/ Issues(k) \/ Repeats(k) \/ Refuses(k)
      PROVE  TaskInv'
  <2>1. PICK w : Becomes(k, w)
    BY <1>3, StepsAside
  <2>2. /\ task' \in [Task -> TaskState]
        /\ \A j \in Task : InStep(task'[j]) /\ ReadUnfiled(task'[j])
    BY <2>1, Becoming
  <2>3. /\ issued' \in [Txn -> 0..MaxReceipts] /\ requests' \in 0..MaxRequests
        /\ UNCHANGED <<completed, filing, attempts, ghosts, faults>>
    BY <1>3, StepsAside
  <2> QED
    BY <1>1, <2>2, <2>3 DEF TaskInv, TypeOK, ghosts
<1>4. ASSUME NEW k \in Task, Commit(k) PROVE TaskInv'
  <2>1. /\ task' \in [Task -> TaskState]
        /\ \A j \in Task : InStep(task'[j]) /\ ReadUnfiled(task'[j])
    BY <1>4, CommitRows, Becoming
  <2>2. queued' \subseteq Txn /\ takenBack' \subseteq Txn
    <3>1. task[k].op = "submit" => task[k].sale \in Txn
      BY <1>1 DEF InStep
    <3>2. /\ takenBack' = takenBack \cup {t \in Txn : filing[t].synced /\ ~filing'[t].synced}
          /\ queued' = IF task[k].op = "submit" /\ ~task[k].result[task[k].sale].synced
                       THEN queued \cup {task[k].sale} ELSE queued
      BY <1>4, CommitRows
    <3> QED
      BY <1>1, <3>1, <3>2 DEF TypeOK
  <2>3. /\ filing' \in [Txn -> Row] /\ attempts' \in [Txn -> Nat]
        /\ UNCHANGED <<completed, issued, dropped, bounds>>
    BY <1>4, CommitRows
  <2> QED
    BY <1>1, <2>1, <2>2, <2>3 DEF TaskInv, TypeOK, bounds
<1>5. ASSUME NEW k \in Task, CommitFails(k) \/ Dies(k) PROVE TaskInv'
  <2>1. PICK w : Becomes(k, w)
    BY <1>5, FaultBecomes
  <2>2. /\ task' \in [Task -> TaskState]
        /\ \A j \in Task : InStep(task'[j]) /\ ReadUnfiled(task'[j])
    BY <2>1, Becoming
  <2>3. /\ dropped' \subseteq Txn /\ faults' \in 0..MaxFaults
        /\ UNCHANGED <<completed, filing, attempts, issued, queued, takenBack, requests>>
    BY <1>5, FaultBecomes
  <2> QED
    BY <1>1, <2>2, <2>3 DEF TaskInv, TypeOK
<1>6. ASSUME UNCHANGED vars PROVE TaskInv'
  BY <1>1, <1>6 DEF vars, ghosts, bounds, TaskInv, TypeOK
<1> QED
  BY <1>2, <1>3, <1>4, <1>5, <1>6 DEF Next, Works

-----------------------------------------------------------------------------
(* Filings are sound *)

\* Receipts stay receipts while KRA issues more.
LEMMA AnswersStay ==
    ASSUME TaskInv, AnswersAreReceipts, NEW k \in Task, NEW w, Becomes(k, w),
           issued' \in [Txn -> 0..MaxReceipts],
           \A t \in Txn : issued[t] <= issued'[t]
    PROVE  AnswersAreReceipts'
<1> SUFFICES ASSUME NEW j \in Task, NEW t \in Txn
             PROVE  Whole(task'[j].result[t]) /\ task'[j].result[t].number <= issued'[t]
  BY DEF AnswersAreReceipts, Whole
<1>1. /\ issued[t] \in Nat /\ issued'[t] \in Nat /\ issued[t] <= issued'[t]
      /\ task'[k] = w /\ (j # k => task'[j] = task[j])
  BY Becoming, BoundsAssumption DEF TaskInv, TypeOK
<1>2. \A i \in Task : /\ Whole(task[i].result[t])
                      /\ task[i].result[t].number <= issued[t]
                      /\ task[i].result[t].number \in Nat
  <2> TAKE i \in Task
  <2>1. task[i].result[t] \in Row
    BY Fields DEF TaskInv
  <2> QED
    BY <2>1 DEF AnswersAreReceipts, Row
<1>3. CASE task'[j].result[t] = task[j].result[t]
  BY <1>1, <1>2, <1>3
<1>4. CASE task'[j].result[t] = Unfiled
  BY <1>1, <1>4 DEF Unfiled, Whole
<1>5. CASE \E n \in 1..issued'[t] : task'[j].result[t] = Receipt(n)
  BY <1>1, <1>5 DEF Receipt, Whole
<1> QED
  BY <1>1, <1>3, <1>4, <1>5 DEF Becomes

\* While no row is written, what is loaded is a row as it is.
LEMMA RowsStay ==
    ASSUME TaskInv, RowsAgree, NEW k \in Task, NEW w, Becomes(k, w),
           filing' = filing, takenBack' = takenBack,
           issued' \in [Txn -> 0..MaxReceipts],
           \A t \in Txn : issued[t] <= issued'[t]
    PROVE  RowsAgree'
<1> SUFFICES ASSUME NEW t \in Txn
             PROVE  /\ filing[t].number <= issued'[t]
                    /\ t \notin takenBack =>
                          /\ Whole(filing[t])
                          /\ \A j \in Task : /\ Whole(task'[j].loaded[t])
                                             /\ task'[j].loaded[t].synced => filing[t].synced
  BY DEF RowsAgree, Whole
<1>1. /\ issued[t] \in Nat /\ issued'[t] \in Nat /\ issued[t] <= issued'[t]
      /\ task'[k] = w /\ \A j \in Task \ {k} : task'[j] = task[j]
  BY Becoming, BoundsAssumption DEF TaskInv, TypeOK
<1>2. filing[t].number \in Nat /\ filing[t].number <= issued[t]
  <2>1. filing[t] \in Row
    BY DEF TaskInv, TypeOK
  <2> QED
    BY <2>1 DEF RowsAgree, Row
<1>3. w.loaded[t] \in {task[k].loaded[t], Unfiled, filing[t]}
  BY DEF Becomes
<1>4. Whole(Unfiled) /\ ~Unfiled.synced
  BY DEF Whole, Unfiled
<1>5. ASSUME t \notin takenBack, NEW j \in Task
      PROVE  /\ Whole(filing[t]) /\ Whole(task'[j].loaded[t])
             /\ task'[j].loaded[t].synced => filing[t].synced
  BY <1>1, <1>3, <1>4, <1>5 DEF RowsAgree
<1>6. t \notin takenBack => Whole(filing[t])
  BY DEF RowsAgree
<1> QED
  BY <1>1, <1>2, <1>5, <1>6

\* A commit writes whole rows over whole rows, unless one was taken back.
LEMMA RowsCommit ==
    ASSUME TaskInv, AnswersAreReceipts, RowsAgree, NEW k \in Task, Commit(k)
    PROVE  RowsAgree'
<1> SUFFICES ASSUME NEW t \in Txn
             PROVE  /\ filing'[t].number <= issued'[t]
                    /\ t \notin takenBack' =>
                          /\ Whole(filing'[t])
                          /\ \A j \in Task : /\ Whole(task'[j].loaded[t])
                                             /\ task'[j].loaded[t].synced => filing'[t].synced
  BY DEF RowsAgree, Whole
<1> DEFINE row == filing[t]
           v == task[k]
<1>1. /\ issued' = issued /\ issued[t] \in Nat
      /\ filing'[t] = IF t \in v.batch THEN Written(v, t, row) ELSE row
      /\ t \notin takenBack' => t \notin takenBack /\ (row.synced => filing'[t].synced)
      /\ \A j \in Task : task'[j].loaded[t] \in {task[j].loaded[t], Unfiled, filing[t]}
  BY CommitRows, Becoming DEF TaskInv, TypeOK, Becomes
<1>2. row \in Row /\ v \in TaskState /\ v.result[t] \in Row /\ v.loaded[t] \in Row
  BY Fields DEF TaskInv, TypeOK
<1>3. /\ row.number \in Nat /\ row.synced \in BOOLEAN /\ row.number <= issued[t]
      /\ v.result[t].number \in Nat /\ v.result[t].number <= issued[t]
      /\ v.result[t].synced \in BOOLEAN /\ Whole(v.result[t])
      /\ v.loaded[t].number \in Nat /\ v.loaded[t].synced \in BOOLEAN
  BY <1>2 DEF Row, RowsAgree, AnswersAreReceipts
<1>4. t \in v.batch =>
        /\ filing'[t].number = IF v.result[t].number = v.loaded[t].number THEN row.number
                               ELSE v.result[t].number
        /\ filing'[t].synced = IF v.result[t].synced = v.loaded[t].synced THEN row.synced
                               ELSE v.result[t].synced
  BY <1>1, <1>2, WrittenRow
<1>5. t \notin v.batch => filing'[t] = row
  BY <1>1
<1>6. filing'[t].number <= issued'[t]
  BY <1>1, <1>3, <1>4, <1>5
<1>7. ASSUME t \notin takenBack' PROVE Whole(filing'[t])
  <2>1. Whole(row) /\ Whole(v.loaded[t]) /\ (v.loaded[t].synced => row.synced)
    BY <1>1, <1>7 DEF RowsAgree
  <2> QED
    BY <1>3, <1>4, <1>5, <2>1 DEF Whole
<1>8. ASSUME t \notin takenBack', NEW j \in Task
      PROVE  /\ Whole(task'[j].loaded[t])
             /\ task'[j].loaded[t].synced => filing'[t].synced
  <2>1. /\ Whole(row) /\ Whole(task[j].loaded[t])
        /\ (task[j].loaded[t].synced => row.synced) /\ (row.synced => filing'[t].synced)
    BY <1>1, <1>8 DEF RowsAgree
  <2>2. Whole(Unfiled) /\ ~Unfiled.synced
    BY DEF Whole, Unfiled
  <2> QED
    BY <1>1, <2>1, <2>2
<1> QED
  BY <1>6, <1>7, <1>8

LEMMA FilingStep ==
    TaskInv /\ AnswersAreReceipts /\ RowsAgree /\ [Next]_vars =>
        AnswersAreReceipts' /\ RowsAgree'
<1> SUFFICES ASSUME TaskInv, AnswersAreReceipts, RowsAgree, [Next]_vars
             PROVE  AnswersAreReceipts' /\ RowsAgree'
  OBVIOUS
<1>1. issued \in [Txn -> 0..MaxReceipts] /\ \A t \in Txn : issued[t] <= issued[t]
  BY BoundsAssumption DEF TaskInv, TypeOK
<1>2. ASSUME NEW k \in Task,
             \/ \E t \in Txn : Submit(k, t)
             \/ RetryAll(k) \/ Take(k) \/ ReadForRetry(k) \/ Wake(k)
             \/ Issues(k) \/ Repeats(k) \/ Refuses(k)
      PROVE  AnswersAreReceipts' /\ RowsAgree'
  <2>1. PICK w : Becomes(k, w)
    BY <1>2, StepsAside
  <2>2. /\ issued' \in [Txn -> 0..MaxReceipts]
        /\ \A t \in Txn : issued[t] <= issued'[t]
        /\ filing' = filing /\ takenBack' = takenBack
    BY <1>2, StepsAside DEF ghosts
  <2> QED
    BY <2>1, <2>2, AnswersStay, RowsStay
<1>3. ASSUME NEW k \in Task, Commit(k) PROVE AnswersAreReceipts' /\ RowsAgree'
  <2>1. Becomes(k, Afterwards(task[k])) /\ issued' = issued
    BY <1>3, CommitRows
  <2> QED
    BY <1>1, <1>3, <2>1, AnswersStay, RowsCommit
<1>4. ASSUME NEW k \in Task, CommitFails(k) \/ Dies(k)
      PROVE  AnswersAreReceipts' /\ RowsAgree'
  <2>1. PICK w : Becomes(k, w)
    BY <1>4, FaultBecomes
  <2>2. issued' = issued /\ filing' = filing /\ takenBack' = takenBack
    BY <1>4, FaultBecomes
  <2> QED
    BY <1>1, <2>1, <2>2, AnswersStay, RowsStay
<1>5. ASSUME UNCHANGED <<task, issued, filing, takenBack>>
      PROVE  AnswersAreReceipts' /\ RowsAgree'
  BY <1>5 DEF AnswersAreReceipts, RowsAgree, Whole
<1>6. ASSUME NEW t \in Txn, Complete(t) PROVE AnswersAreReceipts' /\ RowsAgree'
  BY <1>5, <1>6 DEF Complete, ghosts
<1>7. ASSUME UNCHANGED vars PROVE AnswersAreReceipts' /\ RowsAgree'
  BY <1>5, <1>7 DEF vars, ghosts
<1> QED
  BY <1>2, <1>3, <1>4, <1>6, <1>7 DEF Next, Works

\* The retry of a queued sale is handed on, or ended for a reason.
LEMMA QueuedStep == TaskInv /\ QueuedIsInHand /\ [Next]_vars => QueuedIsInHand'
<1> SUFFICES ASSUME TaskInv, QueuedIsInHand, [Next]_vars,
                    NEW t \in queued', t \notin dropped' \cup takenBack'
             PROVE  \/ filing'[t].synced
                    \/ attempts'[t] >= MaxAttempts
                    \/ \E k \in Task : task'[k].op = "chain" /\ task'[k].sale = t
  BY DEF QueuedIsInHand
<1>1. queued \subseteq Txn /\ attempts \in [Txn -> Nat] /\ MaxAttempts \in Nat
  BY SizesAssumption DEF TaskInv, TypeOK
<1> DEFINE InHand == \/ filing[t].synced
                     \/ attempts[t] >= MaxAttempts
                     \/ \E k \in Task : task[k].op = "chain" /\ task[k].sale = t
<1>2. t \in queued /\ t \notin dropped \cup takenBack => InHand
  BY DEF QueuedIsInHand
<1>3. ASSUME NEW k \in Task,
             \/ \E u \in Txn : Submit(k, u)
             \/ RetryAll(k) \/ Take(k) \/ ReadForRetry(k) \/ Wake(k)
             \/ Issues(k) \/ Repeats(k) \/ Refuses(k)
      PROVE  InHand'
  <2>1. PICK w : /\ Becomes(k, w)
                 /\ \/ KeepsChain(k, w)
                    \/ /\ task[k].op = "chain"
                       /\ \/ filing[task[k].sale].synced
                          \/ attempts[task[k].sale] >= MaxAttempts
    BY <1>3, StepsAside
  <2>2. UNCHANGED <<filing, attempts, queued, dropped, takenBack>>
    BY <1>3, StepsAside DEF ghosts
  <2>3. task'[k] = w /\ \A j \in Task \ {k} : task'[j] = task[j]
    BY <2>1, Becoming
  <2> QED
    BY <1>2, <2>1, <2>2, <2>3 DEF KeepsChain
<1>4. ASSUME NEW k \in Task, Commit(k) PROVE InHand'
  <2> DEFINE v == task[k]
  <2>1. /\ filing \in [Txn -> Row]
        /\ \A u \in Txn : filing'[u] = IF u \in v.batch THEN Written(v, u, filing[u])
                                       ELSE filing[u]
        /\ \A u \in Txn : attempts[u] <= attempts'[u]
        /\ attempts' \in [Txn -> Nat]
        /\ takenBack' = takenBack \cup {u \in Txn : filing[u].synced /\ ~filing'[u].synced}
        /\ queued' = IF v.op = "submit" /\ ~v.result[v.sale].synced
                     THEN queued \cup {v.sale} ELSE queued
        /\ dropped' = dropped
    BY <1>4, CommitRows DEF TaskInv, TypeOK
  <2>2. /\ task'[k] = Afterwards(v) /\ \A j \in Task \ {k} : task'[j] = task[j]
        /\ v.op # "bulk" => v.sale \in Txn /\ v.batch = {v.sale} /\ v.first
        /\ v.op # "bulk" /\ ~v.result[v.sale].synced =>
              Afterwards(v).op = "chain" /\ Afterwards(v).sale = v.sale
    BY <1>4, CommitRows, Becoming, AfterwardsBecomes DEF Commit
  <2>3. CASE v.op # "bulk" /\ v.sale = t /\ ~v.result[v.sale].synced
    BY <2>2, <2>3
  <2>4. CASE v.op # "bulk" /\ v.sale = t /\ v.result[v.sale].synced
    <3>1. t \in Txn /\ t \in v.batch /\ v.first /\ v \in TaskState /\ filing[t] \in Row
      BY <2>1, <2>2, <2>4, Fields DEF TaskInv
    <3>2. ~v.loaded[t].synced
      BY <3>1 DEF TaskInv, ReadUnfiled
    <3>3. Written(v, t, filing[t]).synced
      <4>1. Written(v, t, filing[t]).synced =
              IF v.result[t].synced = v.loaded[t].synced THEN filing[t].synced
              ELSE v.result[t].synced
        BY <3>1, WrittenRow
      <4> QED
        BY <2>4, <3>2, <4>1
    <3> QED
      BY <2>1, <3>1, <3>3
  <2>5. CASE v.op = "bulk" \/ v.sale # t
    <3>1. t \in queued /\ t \notin dropped \cup takenBack
      BY <2>1, <2>5
    <3>2. filing[t].synced => filing'[t].synced
      BY <1>1, <2>1, <3>1
    <3>3. attempts[t] >= MaxAttempts => attempts'[t] >= MaxAttempts
      BY <1>1, <2>1, <3>1
    <3>4. ASSUME NEW j \in Task, task[j].op = "chain", task[j].sale = t
          PROVE  task'[j].op = "chain" /\ task'[j].sale = t
      BY <2>2, <2>5, <3>4
    <3> QED
      BY <1>2, <3>1, <3>2, <3>3, <3>4
  <2> QED
    BY <2>3, <2>4, <2>5
<1>5. ASSUME NEW k \in Task, CommitFails(k) \/ Dies(k) PROVE InHand'
  <2>1. PICK w : Becomes(k, w)
    BY <1>5, FaultBecomes
  <2>2. /\ dropped' = IF task[k].op = "chain" THEN dropped \cup {task[k].sale} ELSE dropped
        /\ UNCHANGED <<filing, attempts, queued, takenBack>>
    BY <1>5, FaultBecomes
  <2>3. \A j \in Task \ {k} : task'[j] = task[j]
    BY <2>1, Becoming
  <2>4. ~(task[k].op = "chain" /\ task[k].sale = t)
    BY <2>2
  <2> QED
    BY <1>2, <2>2, <2>3, <2>4
<1>6. ASSUME UNCHANGED <<filing, attempts, task, queued, dropped, takenBack>> PROVE InHand'
  BY <1>2, <1>6
<1>7. ASSUME NEW u \in Txn, Complete(u) PROVE InHand'
  BY <1>6, <1>7 DEF Complete, ghosts
<1>8. ASSUME UNCHANGED vars PROVE InHand'
  BY <1>6, <1>8 DEF vars, ghosts
<1> QED
  BY <1>3, <1>4, <1>5, <1>7, <1>8 DEF Next, Works

LEMMA InitFiling == Init => FilingInv
<1> SUFFICES ASSUME Init PROVE FilingInv
  OBVIOUS
<1>1. Idle \in TaskState /\ NoRows \in [Txn -> Row] /\ \A t \in Txn : NoRows[t] = Unfiled
  BY DEF Idle, TaskState, NoRows, Unfiled, Row
<1>2. TypeOK
  BY <1>1, BoundsAssumption DEF Init, TypeOK
<1>3. InStep(Idle) /\ ReadUnfiled(Idle)
  BY DEF InStep, ReadUnfiled, Steps, Idle
<1>4. Idle.loaded = NoRows /\ Idle.result = NoRows
  BY DEF Idle
<1>5. Whole(Unfiled) /\ Unfiled.number = 0 /\ ~Unfiled.synced
  BY DEF Whole, Unfiled
<1>6. AnswersAreReceipts /\ RowsAgree /\ QueuedIsInHand
  BY <1>1, <1>4, <1>5 DEF Init, AnswersAreReceipts, RowsAgree, QueuedIsInHand
<1> QED
  BY <1>2, <1>3, <1>6 DEF FilingInv, TaskInv, Init

LEMMA FilingInvariant == Spec => []FilingInv
<1>1. FilingInv /\ [Next]_vars => FilingInv'
  BY TaskStep, FilingStep, QueuedStep DEF FilingInv
<1> QED
  BY <1>1, InitFiling, PTL DEF Spec

\* Filings and tasks keep their shape, and a sale's invoice number is a receipt
\* KRA issued for it (FilingsAreSound; submit_to_etims, _schedule_etims_retry,
\* retry_all_unsynced).
THEOREM FilingsStaySound == Spec => []FilingsAreSound
<1>1. FilingInv => FilingsAreSound
  <2> SUFFICES ASSUME FilingInv PROVE NumberIsReceipt
    BY DEF FilingInv, TaskInv, FilingsAreSound
  <2> QED
    BY DEF FilingInv, RowsAgree, Whole, NumberIsReceipt
<1> QED
  BY <1>1, FilingInvariant, PTL

\* A sale whose till was told queued_for_retry stays in hand until it is filed
\* or out of attempts (QueuedIsInHand; _schedule_etims_retry).
THEOREM QueuedStaysInHand == Spec => []QueuedIsInHand
<1>1. FilingInv => QueuedIsInHand
  BY DEF FilingInv
<1> QED
  BY <1>1, FilingInvariant, PTL

\* Only a batch of a list that is past its first one takes a filing back
\* (LostByLaterBatchOnly; retry_all_unsynced).
THEOREM OnlyLaterBatchLoses == Spec => LostByLaterBatchOnly
<1> DEFINE Kept(t) == filing[t].synced /\ ~filing'[t].synced =>
              \E k \in Task : /\ Commit(k)
                              /\ task[k].op = "bulk" /\ ~task[k].first
                              /\ t \in task[k].batch
<1>1. ASSUME FilingInv, Next, NEW t \in Txn, filing[t].synced, ~filing'[t].synced
      PROVE  \E k \in Task : /\ Commit(k)
                             /\ task[k].op = "bulk" /\ ~task[k].first
                             /\ t \in task[k].batch
  <2>1. TaskInv
    BY <1>1 DEF FilingInv
  <2>2. PICK k \in Task : Commit(k)
    <3>1. ASSUME NEW k \in Task,
                 \/ \E u \in Txn : Submit(k, u)
                 \/ RetryAll(k) \/ Take(k) \/ ReadForRetry(k) \/ Wake(k)
                 \/ Issues(k) \/ Repeats(k) \/ Refuses(k)
          PROVE  filing' = filing
      BY <2>1, <3>1, StepsAside
    <3>2. ASSUME NEW k \in Task, CommitFails(k) \/ Dies(k) PROVE filing' = filing
      BY <2>1, <3>2, FaultBecomes
    <3>3. ASSUME NEW u \in Txn, Complete(u) PROVE filing' = filing
      BY <3>3 DEF Complete
    <3> QED
      BY <1>1, <3>1, <3>2, <3>3 DEF Next, Works
  <2> DEFINE v == task[k]
  <2>3. t \in v.batch /\ filing'[t] = Written(v, t, filing[t])
    BY <1>1, <2>1, <2>2, CommitRows
  <2>4. v \in TaskState /\ filing[t] \in Row
    BY <2>1, Fields DEF TaskInv, TypeOK
  <2>5. /\ v.loaded[t].synced \in BOOLEAN /\ v.result[t].synced \in BOOLEAN
        /\ filing'[t].synced = IF v.result[t].synced = v.loaded[t].synced
                               THEN filing[t].synced ELSE v.result[t].synced
    <3>1. v.loaded[t] \in Row /\ v.result[t] \in Row
      BY <2>4 DEF TaskState
    <3> QED
      BY <2>3, <2>4, <3>1, WrittenRow DEF Row
  <2>6. v.loaded[t].synced
    BY <1>1, <2>5
  <2>7. ~v.first
    BY <2>1, <2>3, <2>6 DEF TaskInv, ReadUnfiled
  <2>8. v.op = "bulk"
    BY <2>1, <2>2, <2>7, AfterwardsBecomes DEF Commit
  <2> QED
    BY <2>2, <2>3, <2>7, <2>8
<1>2. FilingInv /\ [Next]_vars => [\A t \in Txn : Kept(t)]_vars
  BY <1>1
<1> QED
  BY <1>2, FilingInvariant, PTL DEF Spec, LostByLaterBatchOnly

-----------------------------------------------------------------------------
(* Pricing *)


\* n / 100 is q whole cents and r hundredths, and is rounded to q or q + 1.
LEMMA QuantizeCases ==
    ASSUME NEW q \in Int, NEW r \in 0..99
    PROVE  Quantize(100 * q + r, 100) =
              IF r < 50 \/ (r = 50 /\ q % 2 = 0) THEN q ELSE q + 1
<1>1. (100 * q + r) \div 100 = q /\ (100 * q + r) % 100 = r
  OBVIOUS
<1> QED
  BY <1>1 DEF Quantize

\* Whole cents and hundredths of every number of hundredths.
LEMMA Split ==
    ASSUME NEW n \in Int
    PROVE  n \div 100 \in Int /\ n % 100 \in 0..99 /\ n = 100 * (n \div 100) + (n % 100)
OBVIOUS

LEMMA QuantizeInt ==
    ASSUME NEW n \in Int
    PROVE  Quantize(n, 100) \in Int
BY DEF Quantize

\* Rounding moves a number by half a cent at most, up or down.
LEMMA QuantizeNear ==
    ASSUME NEW n \in Int
    PROVE  100 * Quantize(n, 100) - n \in -50..50
<1> DEFINE q == n \div 100
           r == n % 100
<1>1. q \in Int /\ r \in 0..99 /\ n = 100 * q + r
  BY Split
<1> HIDE DEF q, r
<1>2. Quantize(n, 100) = IF r < 50 \/ (r = 50 /\ q % 2 = 0) THEN q ELSE q + 1
  BY <1>1, QuantizeCases
<1> QED
  BY <1>1, <1>2

\* Of two cents equally near, the even one: the rounding of n is the only
\* number nearer than half a cent, if there is one.
LEMMA QuantizeNearest ==
    ASSUME NEW n \in Int, NEW k \in Int, 100 * k - n \in -49..49
    PROVE  Quantize(n, 100) = k
<1>1. 100 * Quantize(n, 100) - n \in -50..50 /\ Quantize(n, 100) \in Int
  BY QuantizeNear, QuantizeInt
<1> DEFINE x == Quantize(n, 100)
<1> HIDE DEF x
<1>2. x \in Int /\ 100 * x - n \in -50..50 => x = k
  OBVIOUS
<1> QED
  BY <1>1, <1>2 DEF x

\* Whole cents may be added before the rounding or after it, but for the ties.
LEMMA QuantizeShift ==
    ASSUME NEW n \in Int, NEW k \in Int
    PROVE  \/ Quantize(100 * k + n, 100) = k + Quantize(n, 100)
           \/ n % 100 = 50
<1> DEFINE q == n \div 100
           r == n % 100
<1>1. q \in Int /\ r \in 0..99 /\ n = 100 * q + r
  BY Split
<1> HIDE DEF q, r
<1>2. Quantize(n, 100) = IF r < 50 \/ (r = 50 /\ q % 2 = 0) THEN q ELSE q + 1
  BY <1>1, QuantizeCases
<1>3. 100 * k + n = 100 * (k + q) + r
  BY <1>1
<1>4. Quantize(100 * k + n, 100) =
        IF r < 50 \/ (r = 50 /\ (k + q) % 2 = 0) THEN k + q ELSE k + q + 1
  <2> DEFINE j == k + q
  <2>1. j \in Int
    BY <1>1
  <2> HIDE DEF j
  <2>2. Quantize(100 * j + r, 100) = IF r < 50 \/ (r = 50 /\ j % 2 = 0) THEN j ELSE j + 1
    BY <1>1, <2>1, QuantizeCases
  <2> QED
    BY <1>3, <2>2 DEF j
<1>5. CASE r = 50
  BY <1>5 DEF r
<1>6. CASE r # 50
  BY <1>1, <1>2, <1>4, <1>6
<1> QED
  BY <1>5, <1>6

\* Whole cents at 16% never end in half a cent.
LEMMA NoHalfCent ==
    ASSUME NEW s \in Int
    PROVE  (s * VatRate) % 100 # 50
BY DEF VatRate

-----------------------------------------------------------------------------
(* The formulas *)

\* The tax and the total of a receipt are rounded one by one and add up.
LEMMA TotalIsSum ==
    ASSUME NEW s \in Int
    PROVE  Total(s) = s + VatAmount(s) /\ VatAmount(s) \in Int
<1>1. s * (100 + VatRate) = 100 * s + s * VatRate /\ s * VatRate \in Int
  BY DEF VatRate
<1>2. Total(s) = s + VatAmount(s)
  BY <1>1, QuantizeShift, NoHalfCent DEF Total, VatAmount
<1>3. VatAmount(s) \in Int
  BY <1>1, QuantizeInt DEF VatAmount
<1> QED
  BY <1>2, <1>3

\* The exact total is less than half a cent away from the receipt's.
LEMMA TotalNear ==
    ASSUME NEW s \in Int
    PROVE  /\ Total(s) \in Int
           /\ 100 * Total(s) - s * (100 + VatRate) \in -49..49
<1>1. s * (100 + VatRate) \in Int /\ (s * (100 + VatRate)) % 100 # 50
  BY DEF VatRate
<1> DEFINE n == s * (100 + VatRate)
           q == n \div 100
           r == n % 100
<1>2. n \in Int /\ q \in Int /\ r \in 0..99 /\ n = 100 * q + r /\ r # 50
  BY <1>1, Split
<1> HIDE DEF n, q, r
<1>3. Quantize(n, 100) = IF r < 50 \/ (r = 50 /\ q % 2 = 0) THEN q ELSE q + 1
  BY <1>2, QuantizeCases
<1>4. Total(s) = Quantize(n, 100)
  BY DEF Total, n
<1>5. Total(s) \in Int /\ 100 * Total(s) - n \in -49..49
  BY <1>2, <1>3, <1>4
<1> QED
  BY <1>5 DEF n

\* The till keeps exactly the receipt's total of the cash it takes, and never
\* owes a negative change.
LEMMA ChangeIsRest ==
    ASSUME NEW s \in Int, NEW c \in Int, ~Refused(c, s)
    PROVE  /\ ChangeGiven(c, s) >= 0
           /\ c - ChangeGiven(c, s) = Total(s)
<1> DEFINE e == s * (100 + VatRate)
<1>2. e \in Int /\ Total(s) \in Int /\ 100 * Total(s) - e \in -49..49
  BY TotalNear DEF VatRate
<1>3. 100 * c >= e
  BY <1>2 DEF Refused
<1> HIDE DEF e
<1>4. 100 * (c - Total(s)) - (100 * c - e) \in -49..49
  BY <1>2
<1>5. Quantize(100 * c - e, 100) = c - Total(s)
  <2>1. 100 * c - e \in Int /\ c - Total(s) \in Int
    BY <1>2
  <2> QED
    BY <1>4, <2>1, QuantizeNearest
<1>6. ChangeGiven(c, s) = c - Total(s)
  BY <1>5 DEF ChangeGiven, e
<1> QED
  BY <1>2, <1>3, <1>6

\* Exact cash is refused in one case only: the total on the receipt was rounded
\* down.
LEMMA RefusedByRounding ==
    ASSUME NEW s \in Int, NEW c \in Int, Refused(c, s)
    PROVE  \/ c < Total(s)
           \/ c = Total(s) /\ 100 * Total(s) < s * (100 + VatRate)
<1> DEFINE e == s * (100 + VatRate)
<1>2. e \in Int /\ Total(s) \in Int /\ 100 * Total(s) - e \in -49..49
  BY TotalNear DEF VatRate
<1>3. 100 * c < e
  BY DEF Refused
<1> HIDE DEF e
<1>4. c < Total(s) \/ (c = Total(s) /\ 100 * Total(s) < e)
  BY <1>2, <1>3
<1> QED
  BY <1>4 DEF e

\* The taxes of two lines are a cent off the tax of their sum at most.
LEMMA LineVatsStayNear ==
    ASSUME NEW a \in Int, NEW b \in Int
    PROVE  LineVat(a) + LineVat(b) - VatAmount(a + b) \in -1..1
<1> DEFINE x == a * VatRate
           y == b * VatRate
<1>2. x \in Int /\ y \in Int /\ (a + b) * VatRate = x + y
  BY DEF VatRate
<1>3. LineVat(a) = Quantize(x, 100) /\ LineVat(b) = Quantize(y, 100)
      /\ VatAmount(a + b) = Quantize(x + y, 100)
  BY <1>2 DEF LineVat, VatAmount
<1> HIDE DEF x, y
<1>4. /\ 100 * Quantize(x, 100) - x \in -50..50
      /\ 100 * Quantize(y, 100) - y \in -50..50
      /\ 100 * Quantize(x + y, 100) - (x + y) \in -50..50
  BY <1>2, QuantizeNear
<1>5. Quantize(x, 100) \in Int /\ Quantize(y, 100) \in Int /\ Quantize(x + y, 100) \in Int
  BY <1>2, QuantizeInt
<1> QED
  BY <1>2, <1>3, <1>4, <1>5

\* A line of an invoice claims no more tax than the receipt charged on it.
LEMMA LineClaimsNoMore ==
    ASSUME NEW line \in Line, line.total >= 0
    PROVE  TaxAmt(line) <= LineVat(line.total)
<1> DEFINE n == line.total
<1>1. n \in Nat
  <2>1. n \in Amounts /\ n >= 0
    BY DEF Line
  <2> HIDE DEF n
  <2> QED
    BY <2>1, AmountsAssumption
<1>2. n - Quantize(n * 100, 116) <= Quantize(n * 16, 100)
  <2> HIDE DEF n
  <2> QED
    BY <1>1, SMTT(60) DEF Quantize
<1>3. 0 <= Quantize(n * 16, 100)
  <2> HIDE DEF n
  <2> QED
    BY <1>1 DEF Quantize
<1>4. CASE line.standard
  BY <1>2, <1>4 DEF TaxAmt, TaxblAmt, LineVat, VatRate
<1>5. CASE ~line.standard
  BY <1>1, <1>3, <1>5 DEF TaxAmt, TaxblAmt, LineVat, VatRate
<1> QED
  BY <1>4, <1>5

-----------------------------------------------------------------------------
(* The counter *)

IsTurnedAway ==
    \E s, c \in Int : Refused(c, s) /\ receipt = TurnedAway(s, c)

IsSold ==
    \E a, b \in Line, d, c \in Int :
        ~Refused(c, Subtotal(a, b, d)) /\ receipt = Sold(a, b, d, c)

\* The sale at the counter is what the formulas make of some cart and cash, and
\* the invoice is made of it.
SaleIsComputed ==
    /\ receipt = NoSale \/ IsTurnedAway \/ IsSold
    /\ invoice = NoSale \/ (receipt.status = "sold" /\ invoice = Invoice(receipt))

LEMMA SubtotalInt ==
    ASSUME NEW a \in Line, NEW b \in Line, NEW d \in Int
    PROVE  /\ a.total \in Int /\ b.total \in Int
           /\ Subtotal(a, b, d) \in Int
<1>1. a.total \in Amounts /\ b.total \in Amounts
  BY DEF Line
<1>2. a.total \in Int /\ b.total \in Int
  BY <1>1, AmountsAssumption
<1> QED
  BY <1>2 DEF Subtotal

\* Every step computes the sale anew, files it as it is or clears the counter.
THEOREM SaleStaysComputed == PricingSpec => []SaleIsComputed
<1>1. PricingInit => SaleIsComputed
  BY DEF PricingInit, SaleIsComputed
<1>2. SaleIsComputed /\ [PricingNext]_sale => SaleIsComputed'
  <2> SUFFICES ASSUME SaleIsComputed, [PricingNext]_sale
               PROVE  SaleIsComputed'
    OBVIOUS
  <2>1. CASE RingUp
    <3>1. PICK a \in Line, b \in Line, d \in Discounts, c \in Tenders :
            receipt' = IF Refused(c, Subtotal(a, b, d))
                       THEN TurnedAway(Subtotal(a, b, d), c) ELSE Sold(a, b, d, c)
      BY <2>1 DEF RingUp
    <3>2. d \in Int /\ c \in Int /\ Subtotal(a, b, d) \in Int
      BY AmountsAssumption, SubtotalInt
    <3>3. (IsTurnedAway \/ IsSold)'
      BY <3>1, <3>2 DEF IsTurnedAway, IsSold
    <3>4. invoice' = NoSale
      BY <2>1 DEF RingUp, SaleIsComputed, NoSale
    <3> QED
      BY <3>3, <3>4 DEF SaleIsComputed
  <2>2. CASE File
    BY <2>2 DEF File, SaleIsComputed, IsTurnedAway, IsSold
  <2>3. CASE NextCustomer
    BY <2>3 DEF NextCustomer, SaleIsComputed
  <2>4. CASE UNCHANGED sale
    BY <2>4 DEF sale, SaleIsComputed, IsTurnedAway, IsSold
  <2> QED
    BY <2>1, <2>2, <2>3, <2>4 DEF PricingNext
<1> QED
  BY <1>1, <1>2, PTL DEF PricingSpec

\* The money of a sale balances for every cart, discount and tender, on the
\* receipt, in the drawer, in what cash is refused and in what is filed
\* (MoneyBalances; create_transaction, submit_invoice).
THEOREM ReceiptsBalance == PricingSpec => []MoneyBalances
<1>1. SaleIsComputed => MoneyBalances
  <2> SUFFICES ASSUME SaleIsComputed
               PROVE  MoneyBalances
    OBVIOUS
  <2>1. CASE receipt = NoSale
    BY <2>1 DEF SaleIsComputed, NoSale, MoneyBalances, TotalsAddUp, CashBalances,
                RefusedWithinACent
  <2>2. CASE IsTurnedAway
    <3>1. PICK s \in Int, c \in Int : Refused(c, s) /\ receipt = TurnedAway(s, c)
      BY <2>2 DEF IsTurnedAway
    <3>2. /\ receipt.status = "refused" /\ receipt.total = Total(s)
          /\ receipt.cash = c /\ receipt.exact = s * (100 + VatRate)
      BY <3>1 DEF TurnedAway
    <3>3. invoice = NoSale
      BY <3>2 DEF SaleIsComputed
    <3>4. RefusedWithinACent
      BY <3>1, <3>2, RefusedByRounding DEF RefusedWithinACent
    <3> QED
      BY <3>2, <3>3, <3>4 DEF MoneyBalances, TotalsAddUp, CashBalances
  <2>3. CASE IsSold
    <3>1. PICK a \in Line, b \in Line, d \in Int, c \in Int :
            ~Refused(c, Subtotal(a, b, d)) /\ receipt = Sold(a, b, d, c)
      BY <2>3 DEF IsSold
    <3> DEFINE s == Subtotal(a, b, d)
    <3>2. s \in Int
      BY SubtotalInt
    <3>3. /\ receipt.status = "sold" /\ receipt.subtotal = s
          /\ receipt.vat = VatAmount(s) /\ receipt.total = Total(s)
          /\ receipt.cash = c /\ receipt.change = ChangeGiven(c, s)
      BY <3>1 DEF Sold
    <3>4. ~Refused(c, s)
      BY <3>1
    <3> HIDE DEF s
    <3>5. Total(s) = s + VatAmount(s) /\ VatAmount(s) \in Int
      BY <3>2, TotalIsSum
    <3>6. invoice # NoSale => invoice.totTaxblAmt = receipt.total - receipt.vat
      BY DEF SaleIsComputed, Invoice
    <3>7. TotalsAddUp
      BY <3>2, <3>3, <3>5, <3>6 DEF TotalsAddUp
    <3>8. CashBalances
      BY <3>2, <3>3, <3>4, ChangeIsRest DEF CashBalances
    <3> QED
      BY <3>3, <3>7, <3>8 DEF MoneyBalances, RefusedWithinACent
  <2> QED
    BY <2>1, <2>2, <2>3 DEF SaleIsComputed
<1> QED
  BY <1>1, SaleStaysComputed, PTL

\* The tax of the lines and of the sale agree up to rounding, and the lines
\* filed claim no more (TaxAgrees; create_transaction, submit_invoice).
THEOREM TaxesAgree == PricingSpec => []TaxAgrees
<1>1. SaleIsComputed => TaxAgrees
  <2> SUFFICES ASSUME SaleIsComputed
               PROVE  TaxAgrees
    OBVIOUS
  <2>1. CASE receipt.status # "sold"
    BY <2>1 DEF SaleIsComputed, TaxAgrees, LineVatsNearTotal, ItemTaxIsWithin
  <2>2. CASE receipt.status = "sold"
    <3>1. IsSold
      BY <2>2 DEF SaleIsComputed, NoSale, IsTurnedAway, TurnedAway
    <3>2. PICK a \in Line, b \in Line, d \in Int, c \in Int :
            receipt = Sold(a, b, d, c)
      BY <3>1 DEF IsSold
    <3>3. a.total \in Int /\ b.total \in Int
      BY SubtotalInt
    <3>4. /\ receipt.a = a /\ receipt.b = b /\ receipt.discount = d
          /\ receipt.vat = VatAmount(Subtotal(a, b, d))
      BY <3>2 DEF Sold
    <3>5. d = 0 => Subtotal(a, b, d) = a.total + b.total
      BY <3>3 DEF Subtotal
    <3>6. LineVatsNearTotal
      BY <3>3, <3>4, <3>5, LineVatsStayNear DEF LineVatsNearTotal
    <3>7. invoice # NoSale => /\ invoice.itemTax[1] = TaxAmt(a)
                              /\ invoice.itemTax[2] = TaxAmt(b)
      BY <3>4 DEF SaleIsComputed, Invoice
    <3>8. ItemTaxIsWithin
      BY <3>4, <3>7, LineClaimsNoMore DEF ItemTaxIsWithin
    <3> QED
      BY <3>6, <3>8 DEF TaxAgrees
  <2> QED
    BY <2>1, <2>2
<1> QED
  BY <1>1, SaleStaysComputed, PTL
=============================================================================
