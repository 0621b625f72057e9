-------------------------- MODULE ReadThroughStore --------------------------
(***************************************************************************)
(* The bounded read-through kinds of the RocksDB store (store.rs): AMD KDS,*)
(* NVIDIA RIM and NVIDIA OCSP records.  Beside every record the store      *)
(* keeps two index rows and one counter per kind:                          *)
(*                                                                         *)
(*   fifo-pos/{key}               -> write stamp      pos[kind][key]       *)
(*   fifo/{kind}{stamp}{key}      -> (empty)          order[kind]          *)
(*   fifo-count/{kind}            -> number of records  count[kind]        *)
(*                                                                         *)
(* Every operation runs under `fifo_lock' and ends in one WriteBatch, so   *)
(* it is one action.  The mutex holds the last stamp handed out; it is     *)
(* memory, and starts at 0 whenever the database is opened.                *)
(*                                                                         *)
(* A key stands for an entry key of the database; keys are numbered in the *)
(* byte order RocksDB iterates in.  Time is in clock units (microseconds); *)
(* UnitsPerSec of them make the second `fetched_at' is kept in.            *)
(***************************************************************************)
EXTENDS Integers, FiniteSets

CONSTANTS
    Kinds,          \* BOUNDED_KINDS
    Keys,           \* entry keys, numbered in byte order
    Caps,           \* values of readthrough_max_entries an operator may set
    UnitsPerSec,    \* clock units per second: 1_000_000 in the code
    MaxLegacy,      \* bound: latest fetched_at of a record older than the index
    Horizon,        \* bound: no stamp reaches it and the clock stops at it
    MaxWrites       \* bound: number of writes

ASSUME KeysAssumption == Keys \subseteq Nat /\ IsFiniteSet(Keys)
ASSUME CapsAssumption == Caps \subseteq Nat /\ Caps # {}
ASSUME UnitsAssumption == UnitsPerSec \in Nat \ {0}
ASSUME BoundsAssumption == Horizon \in Nat /\ MaxWrites \in Nat /\ MaxLegacy \in Nat

VARIABLES
    entry,      \* entry[kind]: key of a stored record -> its fetched_at
    pos,        \* pos[kind]: key -> write stamp of its fifo-pos row
    order,      \* order[kind]: set of fifo rows, pairs <<stamp, key>>
    count,      \* count[kind]: the count row, NoRow when there is none
    last,       \* the value inside fifo_lock
    max,        \* readthrough_max_entries
    clock,      \* the wall clock
    up,         \* is the database open?
    wrote,      \* history, wrote[kind]: stored key -> number of its last write
    writes,     \* history: number of writes so far
    opened,     \* history: the value of writes when the database was opened
    steady      \* history: the clock was not set back, nor behind a row at an open

disk == <<entry, pos, order, count>>
history == <<wrote, writes, opened, steady>>
vars == <<entry, pos, order, count, last, max, clock, up, wrote, writes, opened, steady>>

NoRow == -1
NoKeys == [k \in {} |-> 0]

\* `readthrough_count': a missing row reads as zero.
readthrough_count(kind) == IF count[kind] = NoRow THEN 0 ELSE count[kind]

\* Row r comes before row q in the iteration order of the index.
Before(r, q) == r[1] < q[1] \/ (r[1] = q[1] /\ r[2] < q[2])

\* The same order on records by (fetched_at, key), `entries.sort()'.
FetchedBefore(f, a, b) == Before(<<f[a], a>>, <<f[b], b>>)
FetchRank(f, key) == Cardinality({j \in DOMAIN f : FetchedBefore(f, j, key)})

\* The index rows of keys ks positioned by p, and the keys of some rows.
RowsOf(p, ks) == {<<p[k], k>> : k \in ks}
KeysOf(rows) == {r[2] : r \in rows}

Without(f, S) == [k \in DOMAIN f \ S |-> f[k]]
With(f, key, v) == [k \in DOMAIN f \cup {key} |-> IF k = key THEN v ELSE f[k]]

-----------------------------------------------------------------------------
(***************************************************************************)
(* A database written before the index existed holds records and no index  *)
(* rows.  The only trace of their write order is `fetched_at', which lies  *)
(* in the past of the clock.                                               *)
(***************************************************************************)
Init ==
    /\ entry \in [Kinds -> UNION {[S -> 0 .. MaxLegacy] : S \in SUBSET Keys}]
    /\ pos = [kind \in Kinds |-> NoKeys]
    /\ order = [kind \in Kinds |-> {}]
    /\ count = [kind \in Kinds |-> NoRow]
    /\ last = 0
    /\ max = 1
    /\ clock = MaxLegacy * UnitsPerSec + Cardinality(Keys)
    /\ up = FALSE
    /\ wrote = [kind \in Kinds |-> [k \in DOMAIN entry[kind] |-> FetchRank(entry[kind], k)]]
    /\ writes = Cardinality(Keys)
    /\ opened = writes
    /\ steady = TRUE

\* Variant: a record at open is stamped by its key, without fetched_at.
LegacyStampByKey(kind, key) == key

\* index_unindexed_entries for one kind: the stamp the i-th oldest record gets.
LegacyStamp(kind, key) ==
    entry[kind][key] * UnitsPerSec + FetchRank(entry[kind], key)

\* A kind that has no count row but has records is indexed at open.
Unindexed(kind) == count[kind] = NoRow /\ DOMAIN entry[kind] # {}

PosAfterOpen(kind) ==
    IF Unindexed(kind)
    THEN [k \in DOMAIN entry[kind] |-> LegacyStamp(kind, k)]
    ELSE pos[kind]

OrderAfterOpen(kind) ==
    IF Unindexed(kind)
    THEN {<<LegacyStamp(kind, k), k>> : k \in DOMAIN entry[kind]}
    ELSE order[kind]

CountAfterOpen(kind) ==
    IF Unindexed(kind) THEN Cardinality(DOMAIN entry[kind]) ELSE count[kind]

(***************************************************************************)
(* Store::open followed by set_readthrough_max_entries.  The stamps of the *)
(* last run may be ahead of the clock: it was set back, or the process     *)
(* restarted sooner than its stamps had run ahead.                         *)
(***************************************************************************)
Open(cap) ==
    /\ ~up
    /\ pos' = [kind \in Kinds |-> PosAfterOpen(kind)]
    /\ order' = [kind \in Kinds |-> OrderAfterOpen(kind)]
    /\ count' = [kind \in Kinds |-> CountAfterOpen(kind)]
    /\ last' = 0
    /\ max' = IF cap < 1 THEN 1 ELSE cap
    /\ up' = TRUE
    /\ opened' = writes
    /\ steady' = (steady /\ \A kind \in Kinds : \A r \in order'[kind] : r[1] < clock)
    /\ UNCHANGED <<entry, clock, wrote, writes>>

\* The process stops or is killed; what is on disk stays.
Crash ==
    /\ up
    /\ up' = FALSE
    /\ UNCHANGED <<disk, last, max, clock, history>>

\* The wall clock moves on, or is set by an administrator or NTP.
ClockStep ==
    /\ clock' \in (0 .. Horizon) \ {clock}
    /\ steady' = (steady /\ clock' >= clock)
    /\ UNCHANGED <<disk, last, max, up, wrote, writes, opened>>

-----------------------------------------------------------------------------
\* Variant: only the last stamp itself is avoided, so that a step back within
\* one run gives a later write an earlier stamp.
StampNotTwice == IF clock = last THEN last + 1 ELSE clock

\* The stamp handed out under the lock: never below the clock, always new.
NextStamp == IF clock > last + 1 THEN clock ELSE last + 1

\* Variant: a rewrite forgets to delete its old order row.
RowsWithOld(kind, key) == order[kind]

\* The rows of a kind once the superseded row of a rewritten key is deleted.
RowsWithoutOld(kind, key) ==
    IF key \in DOMAIN pos[kind]
    THEN order[kind] \ {<<pos[kind][key], key>>}
    ELSE order[kind]

\* The count with the key written, which a rewrite does not raise.
CountWith(kind, key) ==
    readthrough_count(kind) + (IF key \in DOMAIN pos[kind] THEN 0 ELSE 1)

\* Variant: the loop leaves one record above the cap.
ExcessOffByOne(n) == IF n > max + 1 THEN n - max - 1 ELSE 0

\* How many rows the eviction loop may still delete.
Excess(n) == IF n > max THEN n - max ELSE 0

(***************************************************************************)
(* The eviction loop walks the index as it was before the batch, skips     *)
(* rows of the key being written, and deletes the first `excess' others;   *)
(* it stops early when the index has no more rows.                         *)
(***************************************************************************)
Victims(kind, key, excess) ==
    LET rows == {r \in order[kind] : r[2] # key}
        size == IF excess < Cardinality(rows) THEN excess ELSE Cardinality(rows)
    IN  {V \in SUBSET rows : /\ Cardinality(V) = size
                             /\ \A v \in V, r \in rows \ V : Before(v, r)}

\* put_bounded: the record, its index rows, the evictions and the count.
put_bounded(kind, key) ==
    /\ up
    /\ writes < MaxWrites
    /\ NextStamp < Horizon
    /\ \E V \in Victims(kind, key, Excess(CountWith(kind, key))) :
           LET gone == KeysOf(V) IN
           /\ entry' = [entry EXCEPT ![kind] =
                           Without(With(@, key, clock \div UnitsPerSec), gone)]
           /\ pos' = [pos EXCEPT ![kind] = Without(With(@, key, NextStamp), gone)]
           /\ order' = [order EXCEPT ![kind] =
                           (RowsWithoutOld(kind, key) \cup {<<NextStamp, key>>}) \ V]
           /\ count' = [count EXCEPT ![kind] = CountWith(kind, key) - Cardinality(V)]
           /\ wrote' = [wrote EXCEPT ![kind] = Without(With(@, key, writes), gone)]
    /\ writes' = writes + 1
    /\ last' = NextStamp
    /\ UNCHANGED <<max, clock, up, opened, steady>>

\* The batch of a put is refused by the database: only the lock's value moved.
PutFails ==
    /\ up
    /\ NextStamp < Horizon
    /\ last' = NextStamp
    /\ UNCHANGED <<disk, max, clock, up, history>>

\* unindex: the rows of a kind without the index row of each of `keys'.
Unindex(kind, keys) ==
    order[kind] \ RowsOf(pos[kind], keys \cap DOMAIN pos[kind])

\* The count row is written only when an index row was found.
CountWithout(kind, keys) ==
    LET unindexed == Cardinality(keys \cap DOMAIN pos[kind])
        left      == readthrough_count(kind) - unindexed
    IN  IF unindexed = 0 THEN count[kind] ELSE IF left < 0 THEN 0 ELSE left

RemoveKeys(kind, keys) ==
    /\ up
    /\ entry' = [entry EXCEPT ![kind] = Without(@, keys)]
    /\ pos' = [pos EXCEPT ![kind] = Without(@, keys)]
    /\ order' = [order EXCEPT ![kind] = Unindex(kind, keys)]
    /\ count' = [count EXCEPT ![kind] = CountWithout(kind, keys)]
    /\ wrote' = [wrote EXCEPT ![kind] = Without(@, keys)]
    /\ UNCHANGED <<last, max, clock, up, writes, opened, steady>>

\* delete_key: one record found expired at a read, gone already or not.
delete_key(kind, key) == RemoveKeys(kind, {key})

\* sweep_prefix: every record the expiry test flags, whichever they are.
sweep_prefix(kind) == \E expired \in SUBSET DOMAIN entry[kind] :
    expired # {} /\ RemoveKeys(kind, expired)

Next ==
    \/ \E cap \in Caps : Open(cap)
    \/ Crash
    \/ ClockStep
    \/ \E kind \in Kinds, key \in Keys : put_bounded(kind, key)
    \/ PutFails
    \/ \E kind \in Kinds, key \in Keys : delete_key(kind, key)
    \/ \E kind \in Kinds : sweep_prefix(kind)

Spec == Init /\ [][Next]_vars

-----------------------------------------------------------------------------
\* g maps some of the keys to numbers; f does so for each kind.
KeyNumbers(g) == DOMAIN g \subseteq Keys /\ g \in [DOMAIN g -> Nat]
KeyedNumbers(f) ==
    /\ f = [kind \in Kinds |-> f[kind]]
    /\ \A kind \in Kinds : KeyNumbers(f[kind])

(***************************************************************************)
(* Type invariant: every row of the store has its type, rows are keyed by  *)
(* entry keys, and the count row is a number or absent.                    *)
(***************************************************************************)
TypeOK ==
    /\ KeyedNumbers(entry)
    /\ KeyedNumbers(pos)
    /\ order \in [Kinds -> SUBSET (Nat \X Keys)]
    /\ count \in [Kinds -> Nat \cup {NoRow}]
    /\ last \in Nat
    /\ max \in Nat
    /\ clock \in Nat
    /\ up \in BOOLEAN
    /\ KeyedNumbers(wrote)
    /\ writes \in Nat
    /\ opened \in Nat
    /\ steady \in BOOLEAN

\* The index rows of a kind describe exactly its records.
IndexMatches(kind) ==
    /\ DOMAIN pos[kind] = DOMAIN entry[kind]
    /\ order[kind] = RowsOf(pos[kind], DOMAIN pos[kind])

(***************************************************************************)
(* Index consistency (comment on put_bounded: concurrent inserts "cannot   *)
(* make the count drift").  Whatever puts, rewrites, evictions, deletes,   *)
(* sweeps, failed batches and restarts happened, a kind with a count row   *)
(* has exactly one position row and one order row per record, agreeing on  *)
(* the stamp, and the count row is the number of records.  A kind without  *)
(* a count row has no index rows, and none of its records is served        *)
(* unindexed while the store is open.                                      *)
(***************************************************************************)
IndexConsistent ==
    \A kind \in Kinds :
        IF count[kind] = NoRow
        THEN /\ DOMAIN pos[kind] = {} /\ order[kind] = {}
             /\ up => DOMAIN entry[kind] = {}
        ELSE IndexMatches(kind) /\ count[kind] = Cardinality(DOMAIN entry[kind])

(***************************************************************************)
(* README of the code: "evicts the oldest-written one (FIFO)".  Rows come  *)
(* in the index in the order the records were last written, so the row the *)
(* eviction loop meets first is the oldest-written record.  It rests on a  *)
(* clock that is not set back and on opens that find it past every stamp   *)
(* (steady), since the last stamp is forgotten by a restart.               *)
(***************************************************************************)
IndexFollowsWriteOrder == steady =>
    \A kind \in Kinds : \A r, q \in order[kind] :
        wrote[kind][r[2]] < wrote[kind][q[2]] => Before(r, q)

(***************************************************************************)
(* What remains of it however the wall clock is set, before or during a    *)
(* run: the rows written since the database was opened are in write order, *)
(* because the stamp is taken above the last one handed out under the lock.*)
(***************************************************************************)
OrderWithinRun ==
    \A kind \in Kinds : \A r, q \in order[kind] :
        opened <= wrote[kind][r[2]] /\ wrote[kind][r[2]] < wrote[kind][q[2]] => Before(r, q)

(***************************************************************************)
(* The store implements a first-in first-out cache with a capacity per     *)
(* kind: a put drops exactly the excess, only the oldest-written other     *)
(* keys, never the key being written; nothing but expiry removes a record  *)
(* otherwise; a failed batch, a crash and an open change no record.  Every *)
(* step is one of that cache for as long as the clock is steady.           *)
(***************************************************************************)
Fifo == INSTANCE FifoCache WITH
            age <- wrote, cap <- max, Caps <- Nat

FifoSpec == Fifo!Init /\ [][steady => Fifo!Next]_(Fifo!vars)
=============================================================================
