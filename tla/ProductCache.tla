---------------------------- MODULE ProductCache ----------------------------
(***************************************************************************)
(* The product list and the barcode lookup of a store in Redis, in front   *)
(* of the products table.                                                  *)
(*                                                                         *)
(* Code: backend/app/core/cache.py (RedisCache), routers/products.py       *)
(* (list_products, get_by_barcode, create_product, update_product,         *)
(* adjust_stock); transactions.py, procurement and sync.py as writers of   *)
(* the same rows.                                                          *)
(*                                                                         *)
(* Several workers; a reader awaits Redis before and after it reads the    *)
(* database, a writer commits and then awaits the invalidation.  Redis may *)
(* be out of reach: then each operation does nothing and says nothing.     *)
(*                                                                         *)
(* Abstracted: the rows are one version number, as every write makes each  *)
(* of the two answers old; the invalidation's SCAN is one step, since the  *)
(* prefix of a store's lists has one key that is ever stored.  Time runs   *)
(* in units no longer than the client's socket timeout, and is kept as     *)
(* what is left of each TTL.                                               *)
(***************************************************************************)
EXTENDS Integers

CONSTANTS
    Reader, Writer,
    ListTTL,        \* PRODUCT_LIST_TTL
    BarcodeTTL,     \* BARCODE_LOOKUP_TTL
    FillTime,       \* socket_timeout: the longest a reader waits for SETEX
    MaxWrites       \* bound: writes of a behaviour

ASSUME TimesAssumption ==
    ListTTL \in Nat \ {0} /\ BarcodeTTL \in Nat \ {0} /\ FillTime \in Nat
ASSUME BoundAssumption == MaxWrites \in Nat

Key == {"list", "barcode"}

TTL == [k \in Key |-> IF k = "list" THEN ListTTL ELSE BarcodeTTL]

\* Ages are counted as far as any property looks.
Oldest == (IF ListTTL > BarcodeTTL THEN ListTTL ELSE BarcodeTTL) + FillTime + 1

Version == 0..MaxWrites

VARIABLES
    version,    \* of the rows in the database
    age,        \* how long each version has been out of date
    entry,      \* the keys in Redis; left = 0: not there
    reader,     \* a request of list_products or get_by_barcode
    writer,     \* a request that changes products
    floor       \* the latest version whose invalidation has reached Redis

vars == <<version, age, entry, reader, writer, floor>>

-----------------------------------------------------------------------------
(* State *)

\* late: an invalidation came between the reader's SELECT and its SETEX.
Entry == [val : Version, left : 0..Oldest, late : BOOLEAN]

Reading == [pc : {"idle", "set"}, key : Key, val : Version,
            left : 0..FillTime, late : BOOLEAN]

Writing == [pc : {"idle", "invalidate"}, val : Version]

Free == [pc |-> "idle", key |-> "list", val |-> 0, left |-> 0, late |-> FALSE]
Done == [pc |-> "idle", val |-> 0]

\* The table, Redis and the requests keep their shape.
TypeOK ==
    /\ version \in Version
    /\ age \in [Version -> 0..Oldest]
    /\ entry \in [Key -> Entry]
    /\ \A k \in Key : entry[k].left <= TTL[k]
    /\ reader \in [Reader -> Reading]
    /\ writer \in [Writer -> Writing]
    /\ floor \in Version

Init ==
    /\ version = 0
    /\ age = [v \in Version |-> 0]
    /\ entry = [k \in Key |-> [val |-> 0, left |-> 0, late |-> FALSE]]
    /\ reader = [r \in Reader |-> Free]
    /\ writer = [w \in Writer |-> Done]
    /\ floor = 0

Alive(k) == entry[k].left > 0

-----------------------------------------------------------------------------
(* Readers *)

\* (Mistake) a hit is stored again, with a new TTL.
MissOrRenew(r, k) ==
    /\ reader[r].pc = "idle"
    /\ reader' = [reader EXCEPT ![r] =
          [pc |-> "set", key |-> k, val |-> IF Alive(k) THEN entry[k].val ELSE version,
           left |-> FillTime, late |-> FALSE]]
    /\ UNCHANGED <<version, age, entry, writer, floor>>

\* cache.get, and the SELECT in the same turn of the event loop: a hit is the
\* answer; a miss and an error go to the database.
Miss(r, k) ==
    /\ reader[r].pc = "idle"
    /\ reader' = [reader EXCEPT ![r] =
          [pc |-> "set", key |-> k, val |-> version, left |-> FillTime, late |-> FALSE]]
    /\ UNCHANGED <<version, age, entry, writer, floor>>

\* cache.set, whatever has happened to the rows meanwhile.
Fill(r) ==
    LET k == reader[r].key IN
    /\ reader[r].pc = "set"
    /\ entry' = [entry EXCEPT ![k] = [val |-> reader[r].val, left |-> TTL[k],
                                      late |-> reader[r].late]]
    /\ reader' = [reader EXCEPT ![r] = Free]
    /\ UNCHANGED <<version, age, writer, floor>>

FillFails(r) ==
    /\ reader[r].pc = "set"
    /\ reader' = [reader EXCEPT ![r] = Free]
    /\ UNCHANGED <<version, age, entry, writer, floor>>

-----------------------------------------------------------------------------
(* Writers *)

\* The commit of create_product, update_product or adjust_stock.
Write(w) ==
    /\ writer[w].pc = "idle"
    /\ version < MaxWrites
    /\ version' = version + 1
    /\ writer' = [writer EXCEPT ![w] = [pc |-> "invalidate", val |-> version']]
    /\ UNCHANGED <<age, entry, reader, floor>>

\* A sale, a receipt of goods, a batch of the sync agent: no invalidation.
WriteQuietly ==
    /\ version < MaxWrites
    /\ version' = version + 1
    /\ UNCHANGED <<age, entry, reader, writer, floor>>

\* (Mistake) the prefix matches no key of the list.
InvalidateNone(w) ==
    /\ writer[w].pc = "invalidate"
    /\ floor' = IF writer[w].val > floor THEN writer[w].val ELSE floor
    /\ reader' = [r \in Reader |->
          [reader[r] EXCEPT !.late = @ \/ reader[r].pc = "set"]]
    /\ writer' = [writer EXCEPT ![w] = Done]
    /\ UNCHANGED <<version, age, entry>>

\* invalidate_prefix("products:list:store"): the barcode's key is not there.
Invalidate(w) ==
    /\ writer[w].pc = "invalidate"
    /\ entry' = [entry EXCEPT !["list"] = [@ EXCEPT !.left = 0]]
    /\ floor' = IF writer[w].val > floor THEN writer[w].val ELSE floor
    /\ reader' = [r \in Reader |->
          [reader[r] EXCEPT !.late = @ \/ reader[r].pc = "set"]]
    /\ writer' = [writer EXCEPT ![w] = Done]
    /\ UNCHANGED <<version, age>>

\* Redis is out of reach, or the worker stops.
InvalidateFails(w) ==
    /\ writer[w].pc = "invalidate"
    /\ writer' = [writer EXCEPT ![w] = Done]
    /\ UNCHANGED <<version, age, entry, reader, floor>>

\* A unit of time passes; no reader waits longer than its socket does.
Pass ==
    /\ \A r \in Reader : reader[r].pc = "set" => reader[r].left > 0
    /\ age' = [v \in Version |->
                  IF v < version /\ age[v] < Oldest THEN age[v] + 1 ELSE age[v]]
    /\ entry' = [k \in Key |->
                  [entry[k] EXCEPT !.left = IF @ > 0 THEN @ - 1 ELSE 0]]
    /\ reader' = [r \in Reader |->
                  [reader[r] EXCEPT !.left = IF @ > 0 THEN @ - 1 ELSE 0]]
    /\ UNCHANGED <<version, writer, floor>>

-----------------------------------------------------------------------------

Next ==
    \/ \E r \in Reader :
        \/ \E k \in Key : Miss(r, k)
        \/ Fill(r) \/ FillFails(r)
    \/ \E w \in Writer : Write(w) \/ Invalidate(w) \/ InvalidateFails(w)
    \/ WriteQuietly
    \/ Pass

Spec == Init /\ [][Next]_vars

-----------------------------------------------------------------------------
(* Properties *)

\* What Redis answers was the database's answer no longer ago than the TTL of
\* its key and one wait for the SETEX, whichever invalidations were lost.
NoOlderThanTTL ==
    \A k \in Key : Alive(k) => age[entry[k].val] <= TTL[k] + FillTime

\* "Used for bulk invalidation": the list is older than a change whose
\* invalidation got through only if the reader that stored it had read the
\* rows before and stored them after.
OldListWasLate ==
    Alive("list") /\ entry["list"].val < floor => entry["list"].late
=============================================================================
