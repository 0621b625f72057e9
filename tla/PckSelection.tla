---------------------------- MODULE PckSelection ----------------------------
(***************************************************************************)
(* select_best_pck_cert (selection.rs): which certificate of a pool is     *)
(* served for a raw TCB level.  TCBs are only partially ordered: one may   *)
(* be ahead in one component and behind in another.  The levels of the TCB *)
(* info become buckets, sorted with V8's algorithm because the comparison  *)
(* is no total order; every certificate goes into the first bucket it      *)
(* reaches; the buckets are walked for the first certificate that the raw  *)
(* level reaches.                                                          *)
(*                                                                         *)
(* One action per iteration of a loop.  The certificates are picked as the *)
(* loop over the pool gets to them and the raw level when the walk begins: *)
(* nothing before depends on them.                                         *)
(***************************************************************************)
EXTENDS Integers, Sequences, FiniteSets

CONSTANTS
    Components,  \* components of a TCB: 16 CPUSVN bytes and the PCESVN
    Svns,        \* values of a component
    MaxLevels,   \* bound: levels of a TCB info
    MaxInput     \* bound: levels and certificates together

ASSUME SvnsAssumption == Svns \subseteq Int
ASSUME BoundsAssumption == MaxLevels \in Nat /\ MaxInput \in Nat

VARIABLES
    pc,       \* where the function is
    levels,   \* TCBs of the buckets, in the order of the buckets
    start,    \* sort: the pivot; the levels before it are sorted
    left,     \* sort: the pivot belongs at or after left ...
    right,    \* ... and at or before right
    pool,     \* TCBs of the certificates placed so far
    buckets,  \* buckets[b]: numbers of the certificates in it; the last: not_matching
    raw,      \* the raw TCB, or NoTcb
    chosen    \* number of the certificate selected, or 0

vars == <<pc, levels, start, left, right, pool, buckets, raw, chosen>>

Tcbs == [Components -> Svns]
NoTcb == <<>>

-----------------------------------------------------------------------------
(***************************************************************************)
(* Tcb::compare: lower in some component, higher in some, or both.         *)
(***************************************************************************)
Lower(a, b) == \E i \in Components : a[i] < b[i]
AtLeast(a, b) == ~Lower(a, b)
Higher(a, b) == Lower(b, a) /\ ~Lower(a, b)
Below(a, b) == Higher(b, a)
Comparable(a, b) == ~(Lower(a, b) /\ Lower(b, a))

\* s with e put in at position p.
Insert(s, p, e) == [k \in 1..Len(s) + 1 |-> IF k < p THEN s[k] ELSE IF k = p THEN e ELSE s[k - 1]]

Init ==
    /\ pc = "validate"
    /\ levels = <<>>
    /\ start = 1 /\ left = 1 /\ right = 1
    /\ pool = <<>>
    /\ buckets = <<>>
    /\ raw = NoTcb
    /\ chosen = 0

(***************************************************************************)
(* An empty pool, a certificate that does not parse or is of another       *)
(* platform, a TCB info of another type, PCE or FMSPC, a level without     *)
(* components or with a PCESVN over 32 bits.                               *)
(***************************************************************************)
Refuse ==
    /\ pc = "validate"
    /\ pc' = "refused"
    /\ UNCHANGED <<levels, start, left, right, pool, buckets, raw, chosen>>

\* countAndMakeRunAscending: the length of the run s begins with ...
Rising(s) == Len(s) > 1 /\ Higher(s[2], s[1])
IsRun(s, n) == \A k \in 2..n : Higher(s[k], s[k - 1]) <=> Rising(s)

\* Variant: the count of the run goes past the last level.
RunTooLong(s) == Len(s) + 1

RunLength(s) ==
    CHOOSE n \in 1..Len(s) : IsRun(s, n) /\ \A m \in 1..Len(s) : IsRun(s, m) => m <= n

\* Variant: the run is left as it is.
RunLeft(s) == s

\* ... which is turned round when it rises, since the order is descending.
RunTurned(s) ==
    LET n == RunLength(s)
    IN  [k \in 1..Len(s) |-> IF Rising(s) /\ k <= n THEN s[n + 1 - k] ELSE s[k]]

\* create_buckets, up to the sort's first insertion.
CreateBuckets ==
    /\ pc = "validate"
    /\ \E n \in 1..MaxLevels : \E s \in [1..n -> Tcbs] :
           /\ levels' = RunTurned(s)
           /\ start' = RunLength(s) + 1
           /\ left' = 1 /\ right' = RunLength(s) + 1
    /\ pc' = "sort"
    /\ UNCHANGED <<pool, buckets, raw, chosen>>

Mid == left + (right - left) \div 2

SearchesLeft == Higher(levels[start], levels[Mid])

\* binaryInsertionSort: one step of the search for the pivot's place ...
Search ==
    /\ pc = "sort" /\ start <= Len(levels) /\ left < right
    /\ IF SearchesLeft THEN right' = Mid /\ UNCHANGED left
                       ELSE left' = Mid + 1 /\ UNCHANGED right
    /\ UNCHANGED <<pc, levels, start, pool, buckets, raw, chosen>>

\* ... and the pivot slides down to it.
Rotate ==
    /\ pc = "sort" /\ start <= Len(levels) /\ left = right
    /\ levels' = [k \in 1..Len(levels) |->
                     IF k < left \/ k > start THEN levels[k]
                     ELSE IF k = left THEN levels[start] ELSE levels[k - 1]]
    /\ start' = start + 1
    /\ left' = 1 /\ right' = start + 1
    /\ UNCHANGED <<pc, pool, buckets, raw, chosen>>

Sorted ==
    /\ pc = "sort" /\ start > Len(levels)
    /\ pc' = "place"
    /\ start' = 1 /\ left' = 1 /\ right' = 1
    /\ buckets' = [b \in 1..Len(levels) + 1 |-> <<>>]
    /\ UNCHANGED <<levels, pool, raw, chosen>>

-----------------------------------------------------------------------------
Last == Len(levels) + 1

\* Variant: a certificate may go into a later bucket it reaches.
AnyBucketFor(tcb, b) ==
    IF b = Last THEN \A k \in 1..Len(levels) : ~AtLeast(tcb, levels[k]) ELSE AtLeast(tcb, levels[b])

\* b is the bucket of a certificate: the first whose level it reaches.
BucketFor(tcb, b) ==
    /\ b # Last => AtLeast(tcb, levels[b])
    /\ \A k \in 1..b - 1 : ~AtLeast(tcb, levels[k])

\* Variant: a bucket is filled in the order of the pool.
InsertAtEnd(s, tcb) == Len(s) + 1

(***************************************************************************)
(* find_insert_index: before the first certificate the new one reaches;    *)
(* but those it cannot be compared with are not counted, so the place may  *)
(* be further to the front.                                                *)
(***************************************************************************)
InsertIndex(s, tcb) ==
    LET reached == {p \in 1..Len(s) : AtLeast(tcb, pool[s[p]])}
        first == CHOOSE p \in reached : \A q \in reached : p <= q
    IN  IF reached = {} THEN Len(s) + 1
        ELSE 1 + Cardinality({q \in 1..first - 1 : Below(tcb, pool[s[q]])})

\* The loop over the pool: the next certificate goes into its bucket.
Place ==
    /\ pc = "place" /\ Len(pool) + Len(levels) < MaxInput
    /\ \E tcb \in Tcbs, b \in 1..Last :
           /\ BucketFor(tcb, b)
           /\ pool' = Append(pool, tcb)
           /\ buckets' = [buckets EXCEPT ![b] =
                  Insert(@, IF b = Last THEN Len(@) + 1 ELSE InsertIndex(@, tcb), Len(pool) + 1)]
    /\ UNCHANGED <<pc, levels, start, left, right, raw, chosen>>

\* Tcb::from_hex refuses the raw level.
RefuseRaw ==
    /\ pc = "place" /\ pool # <<>>
    /\ pc' = "refused"
    /\ UNCHANGED <<levels, start, left, right, pool, buckets, raw, chosen>>

\* Variant: the certificates no level matched are forgotten.
WalkedMatched == 1..Last - 1

\* The buckets that are walked.
Walked == 1..Last

\* The walk has got past all that lies before position p of bucket b.
PassedOver(r, b, p) ==
    \A c \in Walked : \A q \in 1..Len(buckets[c]) :
        c < b \/ (c = b /\ q < p) => ~AtLeast(r, pool[buckets[c][q]])

\* selectBestPckCertFromTcbBuckets: the first certificate raw reaches.
Select ==
    /\ pc = "place" /\ pool # <<>>
    /\ \E r \in Tcbs :
           /\ raw' = r
           /\ \/ \E b \in Walked : \E p \in 1..Len(buckets[b]) :
                     /\ AtLeast(r, pool[buckets[b][p]])
                     /\ PassedOver(r, b, p)
                     /\ chosen' = buckets[b][p]
                     /\ pc' = "chosen"
              \/ /\ PassedOver(r, Last + 1, 1)
                 /\ pc' = "no_match"
                 /\ UNCHANGED chosen
    /\ UNCHANGED <<levels, start, left, right, pool, buckets>>

Next == Refuse \/ CreateBuckets \/ Search \/ Rotate \/ Sorted \/ Place \/ RefuseRaw \/ Select

Spec == Init /\ [][Next]_vars

-----------------------------------------------------------------------------
\* Type invariant.
TypeOK ==
    /\ pc \in {"validate", "sort", "place", "chosen", "no_match", "refused"}
    /\ levels \in Seq(Tcbs)
    /\ start \in 1..Len(levels) + 1
    /\ left \in 1..right /\ right \in 1..start
    /\ pool \in Seq(Tcbs)
    /\ buckets \in Seq(Seq(1..Len(pool)))
    /\ raw \in Tcbs \cup {NoTcb}
    /\ chosen \in 0..Len(pool)

(***************************************************************************)
(* "every pair that *is* comparable must still come out in descending      *)
(* order relative to its neighbour" (selection.rs, the test of             *)
(* create_buckets): after the sort no level stands right behind one it is  *)
(* higher than, though being incomparable is not transitive and a search   *)
(* that halves its range skips most comparisons (v8_sort_desc).            *)
(***************************************************************************)
NeighboursDescend ==
    pc \in {"place", "chosen", "no_match"} =>
        \A k \in 2..Len(levels) : ~Higher(levels[k], levels[k - 1])

(***************************************************************************)
(* A certificate that is at least another one is in the same bucket or an  *)
(* earlier one, whatever order the sort gave to incomparable levels: so    *)
(* the walk comes to the bucket of the higher one first                    *)
(* (select_best_pck_cert).                                                 *)
(***************************************************************************)
HigherNeverLater ==
    \A b \in 1..Len(buckets) : \A c \in 1..b - 1 :
        \A p \in 1..Len(buckets[b]), q \in 1..Len(buckets[c]) :
            ~AtLeast(pool[buckets[b][p]], pool[buckets[c][q]])

\* Certificate i is in bucket b.
In(b, i) == \E p \in 1..Len(buckets[b]) : buckets[b][p] = i

(***************************************************************************)
(* "a raw TCB at the top level must pick the cert in the highest bucket    *)
(* that is <= raw": the choice can be used by the platform, and one that   *)
(* is higher and could be used as well is passed over only inside its own  *)
(* bucket; there is no choice only when no certificate of the pool can be  *)
(* used (select_best_pck_cert).                                            *)
(***************************************************************************)
ChosenFromBestBucket ==
    /\ pc = "no_match" => \A i \in 1..Len(pool) : ~AtLeast(raw, pool[i])
    /\ pc = "chosen" =>
           /\ AtLeast(raw, pool[chosen])
           /\ \A i \in 1..Len(pool) :
                  AtLeast(raw, pool[i]) /\ AtLeast(pool[i], pool[chosen]) =>
                      \E b \in 1..Len(buckets) : In(b, i) /\ In(b, chosen)

(***************************************************************************)
(* When all certificates of a pool can be compared, the one chosen from    *)
(* the bucket of a level is the highest one that can be used               *)
(* (find_insert_index, select_best_pck_cert).                              *)
(***************************************************************************)
BestOfComparable ==
    (/\ pc = "chosen" /\ ~In(Last, chosen)
     /\ \A i, k \in 1..Len(pool) : Comparable(pool[i], pool[k])) =>
        \A i \in 1..Len(pool) : AtLeast(raw, pool[i]) => AtLeast(pool[chosen], pool[i])

(***************************************************************************)
(* "Inside a bucket, insert descending" (docs/intel-store-contract.md):    *)
(* in the bucket of a level a certificate stands before the ones it is     *)
(* higher than.  It does not when find_insert_index skips certificates it  *)
(* cannot be compared with.                                                *)
(***************************************************************************)
BucketsDescend ==
    \A b \in 1..Len(buckets) - 1 : \A p, q \in 1..Len(buckets[b]) :
        p < q => ~Higher(pool[buckets[b][q]], pool[buckets[b][p]])
=============================================================================
