------------------------- MODULE PckSelectionProofs -------------------------
(***************************************************************************)
(* Proofs about PckSelection for any components, SVNs and lengths of TCB   *)
(* infos and pools: the sort, though the comparison is no order; the       *)
(* placement of certificates; the choice.                                  *)
(***************************************************************************)
EXTENDS PckSelection, TLAPS, FiniteSetTheorems, SequenceTheorems, WellFoundedInduction

-----------------------------------------------------------------------------
(* Facts about numbers, sequences and the comparison.                      *)

\* A set of naturals has a least element.
LEMMA LeastExists ==
  ASSUME NEW T, T \subseteq Nat, T # {}
  PROVE  \E x \in T : \A y \in T : x <= y
<1>1. PICK x \in T : \A y \in T : ~(<<y, x>> \in OpToRel(<, Nat))
  BY NatLessThanWellFounded, WFMin, Zenon
<1>2. ASSUME NEW y \in T PROVE x <= y
  <2>1. y \in Nat /\ x \in Nat
    OBVIOUS
  <2>2. ~(y < x)
    <3>1. OpToRel(<, Nat) = {ss \in Nat \X Nat : ss[1] < ss[2]}
      BY Zenon DEF OpToRel
    <3>2. ~(<<y, x>> \in {ss \in Nat \X Nat : ss[1] < ss[2]})
      BY <1>1, <3>1, Zenon
    <3> QED
      BY <2>1, <3>2, SMT
  <2> QED
    BY <2>1, <2>2
<1> QED
  BY <1>2

\* A set of numbers up to N has a greatest element.
LEMMA GreatestExists ==
  ASSUME NEW N \in Nat, NEW T, T \subseteq 1..N, T # {}
  PROVE  \E x \in T : \A y \in T : y <= x
<1> DEFINE U == {N - t : t \in T}
<1>1. U \subseteq Nat /\ U # {}
  <2>1. \A t \in T : t \in 1..N
    OBVIOUS
  <2>2. \A t \in T : N - t \in Nat
    BY <2>1
  <2> QED
    BY <2>2, Zenon
<1>2. PICK u \in U : \A v \in U : u <= v
  BY <1>1, LeastExists
<1>3. PICK x \in T : u = N - x
  BY <1>2
<1>4. ASSUME NEW y \in T PROVE y <= x
  <2>1. N - y \in U
    OBVIOUS
  <2>2. N - x <= N - y
    BY <2>1, <1>2, <1>3
  <2> QED
    BY <2>2
<1> QED
  BY <1>4

\* Reaching a TCB is transitive, although not every two TCBs are comparable.
LEMMA AtLeastTransitive ==
  ASSUME NEW a \in Tcbs, NEW b \in Tcbs, NEW c \in Tcbs, AtLeast(a, b), AtLeast(b, c)
  PROVE  AtLeast(a, c)
<1>1. SUFFICES ASSUME NEW i \in Components, a[i] < c[i] PROVE FALSE
  BY DEF AtLeast, Lower
<1>2. a[i] \in Int /\ b[i] \in Int /\ c[i] \in Int
  BY SvnsAssumption DEF Tcbs
<1>3. ~(a[i] < b[i]) /\ ~(b[i] < c[i])
  BY DEF AtLeast, Lower
<1> QED
  BY <1>1, <1>2, <1>3

\* No two TCBs are higher than one another.
LEMMA HigherAsymmetric ==
  ASSUME NEW a, NEW b, Higher(a, b)
  PROVE  ~Higher(b, a)
  BY DEF Higher

\* What is in a sequence after an insertion.
LEMMA InsertProperties ==
  ASSUME NEW S, NEW s \in Seq(S), NEW e \in S, NEW p \in 1..Len(s) + 1
  PROVE  /\ Insert(s, p, e) \in Seq(S)
         /\ Len(Insert(s, p, e)) = Len(s) + 1
         /\ Insert(s, p, e)[p] = e
         /\ \A k \in 1..Len(s) + 1 : Insert(s, p, e)[k] = e \/ \E l \in 1..Len(s) : Insert(s, p, e)[k] = s[l]
         /\ \A l \in 1..Len(s) : \E k \in 1..Len(s) + 1 : Insert(s, p, e)[k] = s[l]
<1> DEFINE t == [k \in 1..Len(s) + 1 |-> IF k < p THEN s[k] ELSE IF k = p THEN e ELSE s[k - 1]]
<1>1. Insert(s, p, e) = t
  BY DEF Insert
<1>2. t \in Seq(S) /\ Len(t) = Len(s) + 1
  <2>1. \A k \in 1..Len(s) + 1 : t[k] \in S
    OBVIOUS
  <2> QED
    BY <2>1
<1>3. t[p] = e
  OBVIOUS
<1>4. ASSUME NEW k \in 1..Len(s) + 1 PROVE t[k] = e \/ \E l \in 1..Len(s) : t[k] = s[l]
  <2>1. CASE k < p
    BY <2>1
  <2>2. CASE k = p
    BY <2>2
  <2>3. CASE k > p
    <3>1. k - 1 \in 1..Len(s) /\ t[k] = s[k - 1]
      BY <2>3
    <3> QED
      BY <3>1
  <2> QED
    BY <2>1, <2>2, <2>3
<1>5. ASSUME NEW l \in 1..Len(s) PROVE \E k \in 1..Len(s) + 1 : t[k] = s[l]
  <2>1. CASE l < p
    BY <2>1
  <2>2. CASE l >= p
    <3>1. l + 1 \in 1..Len(s) + 1 /\ t[l + 1] = s[l]
      BY <2>2
    <3> QED
      BY <3>1
  <2> QED
    BY <2>1, <2>2
<1> QED
  BY <1>1, <1>2, <1>3, <1>4, <1>5

\* find_insert_index answers a place in the bucket or right behind it.
LEMMA InsertIndexRange ==
  ASSUME NEW n \in Nat, NEW s \in Seq(1..n), NEW tcb
  PROVE  InsertIndex(s, tcb) \in 1..Len(s) + 1
<1> DEFINE reached == {p \in 1..Len(s) : AtLeast(tcb, pool[s[p]])}
           first == CHOOSE p \in reached : \A q \in reached : p <= q
           skipped == {q \in 1..first - 1 : Below(tcb, pool[s[q]])}
<1>0. InsertIndex(s, tcb) = IF reached = {} THEN Len(s) + 1 ELSE 1 + Cardinality(skipped)
  BY DEF InsertIndex
<1>1. CASE reached = {}
  BY <1>0, <1>1
<1>2. CASE reached # {}
  <2>1. reached \subseteq Nat
    OBVIOUS
  <2>2. \E p \in reached : \A q \in reached : p <= q
    <3> HIDE DEF reached
    <3> QED
      BY <1>2, <2>1, LeastExists
  <2>3. first \in 1..Len(s)
    BY <2>2
  <2> HIDE DEF first
  <2>4. IsFiniteSet(1..first - 1) /\ Cardinality(1..first - 1) = first - 1
    BY <2>3, FS_Interval
  <2>5. IsFiniteSet(skipped) /\ Cardinality(skipped) <= first - 1
    BY <2>4, FS_Subset
  <2>6. Cardinality(skipped) \in Nat
    BY <2>5, FS_CardinalityType
  <2>7. InsertIndex(s, tcb) = 1 + Cardinality(skipped)
    BY <1>0, <1>2
  <2> HIDE DEF skipped
  <2> QED
    BY <2>3, <2>5, <2>6, <2>7
<1> QED
  BY <1>1, <1>2

\* The run that the levels begin with: it exists, and neighbours fall in it
\* once it is turned round.
LEMMA RunProperties ==
  ASSUME NEW n \in Nat \ {0}, NEW s \in [1..n -> Tcbs]
  PROVE  /\ s \in Seq(Tcbs) /\ Len(s) = n
         /\ RunLength(s) \in 1..n
         /\ RunTurned(s) \in Seq(Tcbs) /\ Len(RunTurned(s)) = n
         /\ \A k \in 2..RunLength(s) : ~Higher(RunTurned(s)[k], RunTurned(s)[k - 1])
<1>1. s \in Seq(Tcbs) /\ Len(s) = n
  OBVIOUS
<1> DEFINE T == {m \in 1..n : IsRun(s, m)}
           r == RunLength(s)
<1>2. r \in 1..n /\ IsRun(s, r)
  <2>1. 1 \in T
    BY DEF IsRun
  <2>2. T \subseteq 1..n /\ T # {}
    BY <2>1
  <2>3. \E x \in T : \A y \in T : y <= x
    <3> HIDE DEF T
    <3> QED
      BY <2>2, GreatestExists
  <2>4. \E x \in 1..n : IsRun(s, x) /\ \A m \in 1..n : IsRun(s, m) => m <= x
    BY <2>3
  <2>5. r = CHOOSE x \in 1..n : IsRun(s, x) /\ \A m \in 1..n : IsRun(s, m) => m <= x
    BY <1>1 DEF RunLength
  <2> QED
    BY <2>4, <2>5
<1> DEFINE t == [k \in 1..n |-> IF Rising(s) /\ k <= r THEN s[r + 1 - k] ELSE s[k]]
<1>3. RunTurned(s) = t
  BY <1>1 DEF RunTurned
<1> HIDE DEF r
<1>4. t \in [1..n -> Tcbs]
  BY <1>2
<1>5. t \in Seq(Tcbs) /\ Len(t) = n
  BY <1>4
<1>6. ASSUME NEW k \in 2..r PROVE ~Higher(t[k], t[k - 1])
  <2>1. k \in 1..n /\ k - 1 \in 1..n /\ k <= r /\ k - 1 <= r
    BY <1>2
  <2>2. CASE Rising(s)
    <3>1. t[k] = s[r + 1 - k] /\ t[k - 1] = s[r + 2 - k]
      BY <2>1, <2>2, <1>2
    <3>2. r + 2 - k \in 2..r /\ (r + 2 - k) - 1 = r + 1 - k
      BY <1>2
    <3>3. Higher(s[r + 2 - k], s[r + 1 - k])
      BY <1>2, <2>2, <3>2 DEF IsRun
    <3> QED
      BY <3>1, <3>3, HigherAsymmetric
  <2>3. CASE ~Rising(s)
    <3>1. t[k] = s[k] /\ t[k - 1] = s[k - 1]
      BY <2>1, <2>3
    <3>2. ~Higher(s[k], s[k - 1])
      BY <1>2, <2>3 DEF IsRun
    <3> QED
      BY <3>1, <3>2
  <2> QED
    BY <2>2, <2>3
<1> QED
  BY <1>1, <1>2, <1>3, <1>5, <1>6 DEF r

-----------------------------------------------------------------------------
(* The inductive invariant.                                                *)

\* Before the pivot the levels are sorted; the search has compared the pivot
\* with the level left of its range and with the one at the range's end.
SortInv ==
    pc = "sort" =>
        /\ \A k \in 2..start - 1 : ~Higher(levels[k], levels[k - 1])
        /\ start <= Len(levels) /\ left > 1 => ~Higher(levels[start], levels[left - 1])
        /\ start <= Len(levels) /\ right < start => Higher(levels[start], levels[right])

\* Buckets exist from the end of the sort; every certificate of the pool is
\* in one, and only in the first whose level it reaches.
PlaceInv ==
    /\ pc \in {"validate", "sort"} => buckets = <<>> /\ pool = <<>>
    /\ pc \in {"place", "chosen", "no_match"} => Len(buckets) = Last
    /\ buckets = <<>> \/ Len(buckets) = Last
    /\ \A b \in 1..Len(buckets) : \A p \in 1..Len(buckets[b]) : BucketFor(pool[buckets[b][p]], b)
    /\ \A i \in 1..Len(pool) : \E b \in 1..Len(buckets) : In(b, i)

\* What the walk over the buckets has seen when it ends.
WalkInv ==
    /\ pc = "no_match" => PassedOver(raw, Last + 1, 1)
    /\ pc = "chosen" =>
           \E b \in Walked : \E p \in 1..Len(buckets[b]) :
               /\ chosen = buckets[b][p]
               /\ AtLeast(raw, pool[chosen])
               /\ PassedOver(raw, b, p)

IInv == TypeOK /\ SortInv /\ NeighboursDescend /\ PlaceInv /\ WalkInv

\* A call begins without levels, buckets or certificates.
LEMMA InitIInv == Init => IInv
<1> SUFFICES ASSUME Init PROVE IInv
  OBVIOUS
<1>1. TypeOK
  BY DEF Init, TypeOK
<1>2. SortInv /\ NeighboursDescend /\ WalkInv
  BY DEF Init, SortInv, NeighboursDescend, WalkInv
<1>3. PlaceInv
  BY DEF Init, PlaceInv
<1> QED
  BY <1>1, <1>2, <1>3 DEF IInv

\* A certificate or a TCB info is refused.
LEMMA RefuseIInv == IInv /\ (Refuse \/ RefuseRaw) => IInv'
<1> SUFFICES ASSUME IInv, Refuse \/ RefuseRaw PROVE IInv'
  OBVIOUS
<1>0. /\ pc' = "refused"
      /\ UNCHANGED <<levels, start, left, right, pool, buckets, raw, chosen>>
  BY DEF Refuse, RefuseRaw
<1>1. TypeOK'
  BY <1>0 DEF IInv, TypeOK
<1>2. SortInv' /\ NeighboursDescend' /\ WalkInv'
  BY <1>0 DEF SortInv, NeighboursDescend, WalkInv
<1>3. PlaceInv'
  BY <1>0 DEF IInv, PlaceInv, Last, BucketFor, In
<1> QED
  BY <1>1, <1>2, <1>3 DEF IInv

\* The run at the beginning of the levels is found and turned round.
LEMMA CreateBucketsIInv == IInv /\ CreateBuckets => IInv'
<1> SUFFICES ASSUME IInv, CreateBuckets PROVE IInv'
  OBVIOUS
<1>0. /\ pc = "validate" /\ pc' = "sort"
      /\ UNCHANGED <<pool, buckets, raw, chosen>>
  BY DEF CreateBuckets
<1>1. PICK n \in 1..MaxLevels : \E s \in [1..n -> Tcbs] :
           /\ levels' = RunTurned(s)
           /\ start' = RunLength(s) + 1
           /\ left' = 1 /\ right' = RunLength(s) + 1
  BY DEF CreateBuckets
<1>2. PICK s \in [1..n -> Tcbs] :
           /\ levels' = RunTurned(s)
           /\ start' = RunLength(s) + 1
           /\ left' = 1 /\ right' = RunLength(s) + 1
  BY <1>1
<1>3. n \in Nat \ {0}
  BY BoundsAssumption
<1>4. /\ RunLength(s) \in 1..n
      /\ RunTurned(s) \in Seq(Tcbs) /\ Len(RunTurned(s)) = n
      /\ \A k \in 2..RunLength(s) : ~Higher(RunTurned(s)[k], RunTurned(s)[k - 1])
  BY <1>3, RunProperties
<1>5. TypeOK'
  <2>1. levels' \in Seq(Tcbs) /\ Len(levels') = n /\ start' \in 2..n + 1
    BY <1>2, <1>3, <1>4
  <2>2. start' \in 1..Len(levels') + 1 /\ left' \in 1..right' /\ right' \in 1..start'
    BY <1>2, <1>3, <1>4, <2>1
  <2> QED
    BY <1>0, <2>1, <2>2 DEF IInv, TypeOK
<1>6. SortInv'
  <2>1. \A k \in 2..start' - 1 : ~Higher(levels'[k], levels'[k - 1])
    BY <1>2, <1>3, <1>4
  <2>2. ~(left' > 1) /\ ~(right' < start')
    BY <1>2, <1>4
  <2> QED
    BY <2>1, <2>2 DEF SortInv
<1>7. NeighboursDescend' /\ WalkInv'
  BY <1>0 DEF NeighboursDescend, WalkInv
<1>8. PlaceInv'
  <2>1. buckets' = <<>> /\ pool' = <<>>
    BY <1>0 DEF IInv, PlaceInv
  <2> QED
    BY <1>0, <2>1 DEF PlaceInv
<1> QED
  BY <1>5, <1>6, <1>7, <1>8 DEF IInv

\* The search compares the pivot with the level in the middle of its range.
LEMMA SearchIInv == IInv /\ Search => IInv'
<1> SUFFICES ASSUME IInv, Search PROVE IInv'
  OBVIOUS
<1>0. /\ pc = "sort" /\ start <= Len(levels) /\ left < right
      /\ UNCHANGED <<pc, levels, start, pool, buckets, raw, chosen>>
  BY DEF Search
<1>1. TypeOK
  BY DEF IInv
<1>2. Mid \in left..right - 1
  BY <1>0, <1>1 DEF Mid, TypeOK
<1>3. \/ right' = Mid /\ left' = left /\ Higher(levels[start], levels[Mid])
      \/ left' = Mid + 1 /\ right' = right /\ ~Higher(levels[start], levels[Mid])
  BY DEF Search, SearchesLeft
<1> HIDE DEF Mid
<1>4. TypeOK'
  <2>1. left \in Nat /\ right \in Nat /\ start \in Nat /\ left >= 1 /\ right <= start
    BY <1>1 DEF TypeOK
  <2>2. left' \in 1..right' /\ right' \in 1..start'
    BY <1>0, <1>2, <1>3, <2>1
  <2> QED
    BY <1>0, <1>1, <2>2 DEF TypeOK
<1>5. SortInv'
  <2>1. left \in Nat /\ right \in Nat /\ start \in Nat /\ left >= 1 /\ right <= start /\ Mid \in Nat
    BY <1>1, <1>2 DEF TypeOK
  <2>2. /\ \A k \in 2..start - 1 : ~Higher(levels[k], levels[k - 1])
        /\ left > 1 => ~Higher(levels[start], levels[left - 1])
        /\ right < start => Higher(levels[start], levels[right])
    BY <1>0 DEF IInv, SortInv
  <2>3. left' > 1 => ~Higher(levels[start], levels[left' - 1])
    BY <1>3, <2>1, <2>2
  <2>4. right' < start => Higher(levels[start], levels[right'])
    BY <1>3, <2>1, <2>2
  <2> QED
    BY <1>0, <2>2, <2>3, <2>4 DEF SortInv
<1>6. NeighboursDescend' /\ WalkInv'
  BY <1>0 DEF NeighboursDescend, WalkInv
<1>7. PlaceInv'
  <2>1. buckets' = <<>> /\ pool' = <<>>
    BY <1>0 DEF IInv, PlaceInv
  <2> QED
    BY <1>0, <2>1 DEF PlaceInv
<1> QED
  BY <1>4, <1>5, <1>6, <1>7 DEF IInv

\* The pivot slides down to the place that the search found.
LEMMA RotateIInv == IInv /\ Rotate => IInv'
<1> SUFFICES ASSUME IInv, Rotate PROVE IInv'
  OBVIOUS
<1> DEFINE t == [k \in 1..Len(levels) |->
                     IF k < left \/ k > start THEN levels[k]
                     ELSE IF k = left THEN levels[start] ELSE levels[k - 1]]
<1>0. /\ pc = "sort" /\ start <= Len(levels) /\ left = right
      /\ levels' = t /\ start' = start + 1 /\ left' = 1 /\ right' = start + 1
      /\ UNCHANGED <<pc, pool, buckets, raw, chosen>>
  BY DEF Rotate
<1>1. /\ levels \in Seq(Tcbs) /\ Len(levels) \in Nat
      /\ start \in 1..Len(levels) /\ left \in 1..start
  BY <1>0 DEF IInv, TypeOK
<1>2. t \in Seq(Tcbs) /\ Len(t) = Len(levels)
  <2>1. \A k \in 1..Len(levels) : levels[k] \in Tcbs
    BY <1>1
  <2>2. \A k \in 1..Len(levels) : t[k] \in Tcbs
    BY <1>1, <2>1
  <2>3. t \in [1..Len(levels) -> Tcbs]
    BY <2>2
  <2> HIDE DEF t
  <2> QED
    BY <1>1, <2>3
<1>3. TypeOK'
  <2>1. start' \in 1..Len(levels') + 1 /\ left' \in 1..right' /\ right' \in 1..start'
    BY <1>0, <1>1, <1>2
  <2> HIDE DEF t
  <2> QED
    BY <1>0, <1>2, <2>1 DEF IInv, TypeOK
<1>4. SortInv'
  <2>1. /\ \A k \in 2..start - 1 : ~Higher(levels[k], levels[k - 1])
        /\ left > 1 => ~Higher(levels[start], levels[left - 1])
        /\ left < start => Higher(levels[start], levels[left])
    BY <1>0 DEF IInv, SortInv
  <2>2. ASSUME NEW k \in 2..start PROVE ~Higher(t[k], t[k - 1])
    <3>1. k \in 1..Len(levels) /\ k - 1 \in 1..Len(levels) /\ k \in Int /\ left \in Int
      BY <1>1
    <3>2. CASE k < left
      <4>1. t[k] = levels[k] /\ t[k - 1] = levels[k - 1]
        BY <3>1, <3>2
      <4> QED
        BY <4>1, <3>2, <2>1, <1>1
    <3>3. CASE k = left
      <4>1. t[k] = levels[start] /\ t[k - 1] = levels[left - 1]
        BY <1>1, <3>1, <3>3
      <4> QED
        BY <4>1, <3>1, <3>3, <2>1
    <3>4. CASE k = left + 1
      <4>1. t[k] = levels[left] /\ t[k - 1] = levels[start]
        BY <1>1, <3>1, <3>4
      <4>2. Higher(levels[start], levels[left])
        BY <1>1, <3>1, <3>4, <2>1
      <4> QED
        BY <4>1, <4>2, HigherAsymmetric
    <3>5. CASE k > left + 1
      <4>1. t[k] = levels[k - 1] /\ t[k - 1] = levels[k - 2]
        BY <1>1, <3>1, <3>5
      <4>2. k - 1 \in 2..start - 1 /\ (k - 1) - 1 = k - 2
        BY <1>1, <3>1, <3>5
      <4> QED
        BY <4>1, <4>2, <2>1
    <3> QED
      BY <3>1, <3>2, <3>3, <3>4, <3>5
  <2>3. ~(left' > 1) /\ ~(right' < start') /\ start' - 1 = start
    BY <1>0, <1>1
  <2> HIDE DEF t
  <2>4. \A k \in 2..start' - 1 : ~Higher(levels'[k], levels'[k - 1])
    BY <1>0, <2>2, <2>3
  <2> QED
    BY <2>3, <2>4 DEF SortInv
<1>5. NeighboursDescend' /\ WalkInv'
  BY <1>0 DEF NeighboursDescend, WalkInv
<1>6. PlaceInv'
  <2>1. buckets' = <<>> /\ pool' = <<>>
    BY <1>0 DEF IInv, PlaceInv
  <2> QED
    BY <1>0, <2>1 DEF PlaceInv
<1> QED
  BY <1>3, <1>4, <1>5, <1>6 DEF IInv

\* The sort is done; every level and not_matching get an empty bucket.
LEMMA SortedIInv == IInv /\ Sorted => IInv'
<1> SUFFICES ASSUME IInv, Sorted PROVE IInv'
  OBVIOUS
<1>0. /\ pc = "sort" /\ start > Len(levels) /\ pc' = "place"
      /\ start' = 1 /\ left' = 1 /\ right' = 1
      /\ buckets' = [b \in 1..Len(levels) + 1 |-> <<>>]
      /\ UNCHANGED <<levels, pool, raw, chosen>>
  BY DEF Sorted
<1>1. /\ levels \in Seq(Tcbs) /\ Len(levels) \in Nat /\ start = Len(levels) + 1
  BY <1>0 DEF IInv, TypeOK
<1>2. pool = <<>> /\ Len(pool) = 0
  BY <1>0 DEF IInv, PlaceInv
<1>3. buckets' \in Seq(Seq(1..Len(pool))) /\ Len(buckets') = Len(levels) + 1
  <2>1. <<>> \in Seq(1..Len(pool))
    OBVIOUS
  <2>2. buckets' \in [1..Len(levels) + 1 -> Seq(1..Len(pool))]
    BY <1>0, <2>1
  <2> QED
    BY <1>1, <2>2
<1>4. TypeOK'
  <2>1. start' \in 1..Len(levels') + 1 /\ left' \in 1..right' /\ right' \in 1..start'
    BY <1>0, <1>1
  <2> QED
    BY <1>0, <1>3, <2>1 DEF IInv, TypeOK
<1>5. NeighboursDescend'
  <2>1. \A k \in 2..start - 1 : ~Higher(levels[k], levels[k - 1])
    BY <1>0 DEF IInv, SortInv
  <2> QED
    BY <1>0, <1>1, <2>1 DEF NeighboursDescend
<1>6. SortInv' /\ WalkInv'
  BY <1>0 DEF SortInv, WalkInv
<1>7. PlaceInv'
  <2>1. Len(buckets') = Last'
    BY <1>0, <1>3 DEF Last
  <2>2. \A b \in 1..Len(buckets') : Len(buckets'[b]) = 0
    BY <1>0, <1>3
  <2>3. \A b \in 1..Len(buckets') : \A p \in 1..Len(buckets'[b]) : BucketFor(pool[buckets[b][p]], b)'
    BY <2>2
  <2>4. \A i \in 1..Len(pool') : \E b \in 1..Len(buckets') : In(b, i)'
    BY <1>0, <1>2
  <2> QED
    BY <1>0, <2>1, <2>3, <2>4 DEF PlaceInv
<1> QED
  BY <1>4, <1>5, <1>6, <1>7 DEF IInv

\* A certificate goes into its bucket, the others stay in theirs.
LEMMA PlaceIInv == IInv /\ Place => IInv'
<1> SUFFICES ASSUME IInv, Place PROVE IInv'
  OBVIOUS
<1>0. /\ pc = "place"
      /\ UNCHANGED <<pc, levels, start, left, right, raw, chosen>>
  BY DEF Place
<1>1. PICK tcb \in Tcbs, b \in 1..Last :
           /\ BucketFor(tcb, b)
           /\ pool' = Append(pool, tcb)
           /\ buckets' = [buckets EXCEPT ![b] =
                  Insert(@, IF b = Last THEN Len(@) + 1 ELSE InsertIndex(@, tcb), Len(pool) + 1)]
  BY DEF Place
<1> DEFINE n == Len(pool)
           s == buckets[b]
           p0 == IF b = Last THEN Len(s) + 1 ELSE InsertIndex(s, tcb)
           t == Insert(s, p0, n + 1)
<1>2. /\ pool \in Seq(Tcbs) /\ n \in Nat
      /\ buckets \in Seq(Seq(1..n)) /\ Len(buckets) = Last
  BY <1>0 DEF IInv, TypeOK, PlaceInv
<1>3. /\ pool' \in Seq(Tcbs) /\ Len(pool') = n + 1 /\ pool'[n + 1] = tcb
      /\ \A i \in 1..n : pool'[i] = pool[i]
  BY <1>1, <1>2
<1>4. b \in 1..Len(buckets) /\ Last \in Nat
  BY <1>2
<1>5. s \in Seq(1..n) /\ Len(s) \in Nat
  BY <1>2, <1>4
<1>6. p0 \in 1..Len(s) + 1
  <2>1. InsertIndex(s, tcb) \in 1..Len(s) + 1
    <3> HIDE DEF n, s
    <3> QED
      BY <1>2, <1>5, InsertIndexRange
  <2> HIDE DEF s
  <2> QED
    BY <1>5, <2>1
<1>7. s \in Seq(1..n + 1)
  <2>1. 1..n \subseteq 1..n + 1
    BY <1>2
  <2> HIDE DEF n, s
  <2> QED
    BY <1>5, <2>1, SeqMonotonic
<1>8. /\ t \in Seq(1..n + 1) /\ Len(t) = Len(s) + 1 /\ t[p0] = n + 1
      /\ \A k \in 1..Len(s) + 1 : t[k] = n + 1 \/ \E l \in 1..Len(s) : t[k] = s[l]
      /\ \A l \in 1..Len(s) : \E k \in 1..Len(s) + 1 : t[k] = s[l]
  <2>1. n + 1 \in 1..n + 1
    BY <1>2
  <2> DEFINE S == 1..n + 1
             e == n + 1
  <2>2. s \in Seq(S) /\ e \in S
    BY <1>7, <2>1
  <2> HIDE DEF n, s, p0, S, e
  <2>3. /\ Insert(s, p0, e) \in Seq(S)
        /\ Len(Insert(s, p0, e)) = Len(s) + 1
        /\ Insert(s, p0, e)[p0] = e
        /\ \A k \in 1..Len(s) + 1 : Insert(s, p0, e)[k] = e \/ \E l \in 1..Len(s) : Insert(s, p0, e)[k] = s[l]
        /\ \A l \in 1..Len(s) : \E k \in 1..Len(s) + 1 : Insert(s, p0, e)[k] = s[l]
    BY <1>6, <2>2, InsertProperties
  <2> QED
    BY <2>3 DEF S, e
<1>9. buckets' = [buckets EXCEPT ![b] = t]
  BY <1>1
<1> HIDE DEF s, p0, t, n
<1>10. /\ buckets' \in Seq(Seq(1..n + 1)) /\ Len(buckets') = Len(buckets)
       /\ buckets'[b] = t /\ \A c \in 1..Len(buckets) : c # b => buckets'[c] = buckets[c]
  <2>1. 1..n \subseteq 1..n + 1
    BY <1>2
  <2>2. Seq(1..n) \subseteq Seq(1..n + 1)
    BY <2>1, SeqMonotonic
  <2>3. buckets \in Seq(Seq(1..n + 1))
    BY <1>2, <2>2, SeqMonotonic
  <2> QED
    BY <2>3, <1>4, <1>8, <1>9, ExceptSeq
<1>11. TypeOK'
  <2>1. chosen \in 0..n + 1
    BY <1>2 DEF IInv, TypeOK, n
  <2> QED
    BY <1>0, <1>3, <1>10, <2>1 DEF IInv, TypeOK
<1>12. SortInv' /\ WalkInv'
  BY <1>0 DEF SortInv, WalkInv
<1>13. NeighboursDescend'
  BY <1>0 DEF IInv, NeighboursDescend
<1>14. Last' = Last /\ \A x, c : BucketFor(x, c)' <=> BucketFor(x, c)
  BY <1>0 DEF Last, BucketFor
<1>15. ASSUME NEW c \in 1..Len(buckets), NEW p \in 1..Len(buckets'[c])
       PROVE  BucketFor(pool'[buckets'[c][p]], c)
  <2>1. \A d \in 1..Len(buckets) : \A q \in 1..Len(buckets[d]) :
            BucketFor(pool[buckets[d][q]], d) /\ buckets[d][q] \in 1..n
    <3>1. \A d \in 1..Len(buckets) : buckets[d] \in Seq(1..n)
      BY <1>2
    <3>2. \A d \in 1..Len(buckets) : \A q \in 1..Len(buckets[d]) : buckets[d][q] \in 1..n
      BY <3>1, ElementOfSeq
    <3> QED
      BY <3>2 DEF IInv, PlaceInv
  <2>2. CASE c # b
    <3>1. buckets'[c] = buckets[c]
      BY <1>10, <2>2
    <3> QED
      BY <2>1, <3>1, <1>3
  <2>3. CASE c = b
    <3>1. p \in 1..Len(s) + 1 /\ buckets'[c][p] = t[p]
      BY <1>8, <1>10, <2>3
    <3>2. CASE t[p] = n + 1
      BY <3>1, <3>2, <2>3, <1>1, <1>3
    <3>3. CASE \E l \in 1..Len(s) : t[p] = s[l]
      <4>1. PICK l \in 1..Len(s) : t[p] = s[l]
        BY <3>3
      <4>2. BucketFor(pool[s[l]], b) /\ s[l] \in 1..n
        BY <2>1, <1>4 DEF s
      <4> QED
        BY <3>1, <4>1, <4>2, <2>3, <1>3
    <3> QED
      BY <3>1, <3>2, <3>3, <1>8
  <2> QED
    BY <2>2, <2>3
<1>16. ASSUME NEW i \in 1..n + 1
       PROVE  \E c \in 1..Len(buckets) : \E p \in 1..Len(buckets'[c]) : buckets'[c][p] = i
  <2>1. CASE i = n + 1
    <3>1. p0 \in 1..Len(buckets'[b]) /\ buckets'[b][p0] = i
      BY <1>6, <1>8, <1>10, <2>1
    <3> QED
      BY <3>1, <1>4
  <2>2. CASE i # n + 1
    <3>1. i \in 1..n
      BY <1>2, <2>2
    <3>2. PICK c \in 1..Len(buckets) : In(c, i)
      BY <3>1 DEF IInv, PlaceInv, n
    <3>3. PICK p \in 1..Len(buckets[c]) : buckets[c][p] = i
      BY <3>2 DEF In
    <3>4. CASE c # b
      <4>1. buckets'[c] = buckets[c]
        BY <1>10, <3>4
      <4> QED
        BY <3>3, <4>1
    <3>5. CASE c = b
      <4>1. p \in 1..Len(s) /\ s[p] = i
        BY <3>3, <3>5 DEF s
      <4>2. PICK k \in 1..Len(s) + 1 : t[k] = s[p]
        BY <4>1, <1>8
      <4>3. k \in 1..Len(buckets'[b]) /\ buckets'[b][k] = i
        BY <4>1, <4>2, <1>8, <1>10
      <4> QED
        BY <4>3, <1>4
    <3> QED
      BY <3>4, <3>5
  <2> QED
    BY <2>1, <2>2
<1>17. PlaceInv'
  <2>1. Len(buckets') = Last'
    BY <1>2, <1>10, <1>14
  <2>2. \A c \in 1..Len(buckets') : \A p \in 1..Len(buckets'[c]) : BucketFor(pool[buckets[c][p]], c)'
    <3>1. SUFFICES ASSUME NEW c \in 1..Len(buckets'), NEW p \in 1..Len(buckets'[c])
                   PROVE  BucketFor(pool[buckets[c][p]], c)'
      OBVIOUS
    <3>2. BucketFor(pool'[buckets'[c][p]], c)
      BY <1>10, <1>15
    <3> QED
      BY <3>2, <1>0, <1>14 DEF BucketFor
  <2>3. \A i \in 1..Len(pool') : \E c \in 1..Len(buckets') : In(c, i)'
    BY <1>3, <1>10, <1>16 DEF In
  <2> QED
    BY <1>0, <2>1, <2>2, <2>3 DEF PlaceInv
<1> QED
  BY <1>11, <1>12, <1>13, <1>17 DEF IInv

\* The walk ends at the first certificate that the raw level reaches, or
\* having passed over all of them.
LEMMA SelectIInv == IInv /\ Select => IInv'
<1> SUFFICES ASSUME IInv, Select PROVE IInv'
  OBVIOUS
<1>0. pc = "place" /\ UNCHANGED <<levels, start, left, right, pool, buckets>>
  BY DEF Select
<1>1. PICK r \in Tcbs :
           /\ raw' = r
           /\ \/ \E b \in Walked : \E p \in 1..Len(buckets[b]) :
                     /\ AtLeast(r, pool[buckets[b][p]])
                     /\ PassedOver(r, b, p)
                     /\ chosen' = buckets[b][p]
                     /\ pc' = "chosen"
              \/ /\ PassedOver(r, Last + 1, 1)
                 /\ pc' = "no_match"
                 /\ UNCHANGED chosen
  BY DEF Select
<1>3. pc' \in {"chosen", "no_match"}
  BY <1>1
<1>4. TypeOK' /\ WalkInv'
  <2>1. CASE pc' = "chosen"
    <3>0. PICK b \in Walked : \E p \in 1..Len(buckets[b]) :
             /\ AtLeast(r, pool[buckets[b][p]])
             /\ PassedOver(r, b, p)
             /\ chosen' = buckets[b][p]
      BY <1>1, <2>1
    <3>1. PICK p \in 1..Len(buckets[b]) :
             /\ AtLeast(r, pool[buckets[b][p]])
             /\ PassedOver(r, b, p)
             /\ chosen' = buckets[b][p]
      BY <3>0
    <3>2. b \in 1..Len(buckets)
      BY <1>0 DEF IInv, PlaceInv, Walked
    <3>3. buckets[b] \in Seq(1..Len(pool))
      BY <3>2 DEF IInv, TypeOK
    <3>4. chosen' \in 0..Len(pool)
      BY <3>1, <3>3, ElementOfSeq
    <3>5. TypeOK'
      BY <1>0, <1>1, <2>1, <3>4 DEF IInv, TypeOK
    <3>6. WalkInv'
      BY <1>0, <1>1, <2>1, <3>1 DEF WalkInv, PassedOver, Walked, Last
    <3> QED
      BY <3>5, <3>6
  <2>2. CASE pc' = "no_match"
    <3>1. PassedOver(r, Last + 1, 1) /\ UNCHANGED chosen
      BY <1>1, <2>2
    <3>2. TypeOK'
      BY <1>0, <1>1, <2>2, <3>1 DEF IInv, TypeOK
    <3>3. WalkInv'
      BY <1>0, <1>1, <2>2, <3>1 DEF WalkInv, PassedOver, Walked, Last
    <3> QED
      BY <3>2, <3>3
  <2> QED
    BY <1>3, <2>1, <2>2
<1>5. SortInv'
  BY <1>3 DEF SortInv
<1>6. NeighboursDescend'
  BY <1>0 DEF IInv, NeighboursDescend
<1>7. PlaceInv'
  BY <1>0, <1>3 DEF IInv, PlaceInv, BucketFor, In, Last
<1> QED
  BY <1>4, <1>5, <1>6, <1>7 DEF IInv

\* A step that changes nothing preserves the invariant.
LEMMA StutterIInv == IInv /\ UNCHANGED vars => IInv'
<1> SUFFICES ASSUME IInv, UNCHANGED vars PROVE IInv'
  OBVIOUS
<1>1. TypeOK'
  BY DEF vars, IInv, TypeOK
<1>2. SortInv' /\ NeighboursDescend'
  BY DEF vars, IInv, SortInv, NeighboursDescend
<1>3. PlaceInv'
  BY DEF vars, IInv, PlaceInv, BucketFor, In, Last
<1>4. WalkInv'
  BY DEF vars, IInv, WalkInv, PassedOver, Walked, Last
<1> QED
  BY <1>1, <1>2, <1>3, <1>4 DEF IInv

\* IInv is inductive.
LEMMA Inductive == Spec => []IInv
<1>1. IInv /\ [Next]_vars => IInv'
  BY RefuseIInv, CreateBucketsIInv, SearchIInv, RotateIInv, SortedIInv, PlaceIInv, SelectIInv,
     StutterIInv DEF Next
<1> QED
  BY <1>1, InitIInv, PTL DEF Spec

-----------------------------------------------------------------------------
(* The theorems.                                                           *)

\* Every state of select_best_pck_cert has the types the code relies on: the
\* insertion sort stays inside the levels, find_insert_index inside a bucket.
THEOREM TypeCorrect == Spec => []TypeOK
  BY Inductive, PTL DEF IInv

\* V8's sort leaves no level right behind one that it is higher than, however
\* many levels there are and although incomparability is not transitive.
THEOREM SortSound == Spec => []NeighboursDescend
  BY Inductive, PTL DEF IInv

\* The types of the sequences.
LEMMA SequenceTypes ==
  ASSUME IInv
  PROVE  /\ buckets \in Seq(Seq(1..Len(pool))) /\ pool \in Seq(Tcbs) /\ levels \in Seq(Tcbs)
         /\ Len(levels) \in Nat /\ Len(buckets) \in Nat
  BY DEF IInv, TypeOK

\* First-match placement keeps a certificate out of every bucket behind that
\* of a certificate it reaches.
LEMMA PlacementOrders == IInv => HigherNeverLater
<1> SUFFICES ASSUME IInv,
                    NEW b \in 1..Len(buckets), NEW c \in 1..b - 1,
                    NEW p \in 1..Len(buckets[b]), NEW q \in 1..Len(buckets[c]),
                    AtLeast(pool[buckets[b][p]], pool[buckets[c][q]])
             PROVE  FALSE
  BY DEF HigherNeverLater
<1>1. /\ buckets \in Seq(Seq(1..Len(pool))) /\ pool \in Seq(Tcbs) /\ levels \in Seq(Tcbs)
      /\ Len(levels) \in Nat /\ Len(buckets) \in Nat
  BY SequenceTypes, Zenon
<1>2. Len(buckets) = Len(levels) + 1
  <2>1. buckets # <<>>
    BY <1>1
  <2> QED
    BY <2>1 DEF IInv, PlaceInv, Last
<1>3. c \in 1..Len(levels) /\ c \in 1..Len(buckets) /\ c # Last
  <2>1. b \in Int /\ b <= Len(buckets) /\ c \in Int /\ 1 <= c /\ c <= b - 1
    BY <1>1
  <2> DEFINE n == Len(levels)
             m == Len(buckets)
  <2>2. n \in Nat /\ m = n + 1 /\ Last = n + 1 /\ b <= m
    BY <1>1, <1>2, <2>1 DEF Last
  <2> HIDE DEF n, m
  <2>3. c \in 1..n /\ c \in 1..m /\ c # Last
    BY <2>1, <2>2
  <2> QED
    BY <2>3, Zenon DEF n, m
<1>4. /\ buckets[b] \in Seq(1..Len(pool)) /\ buckets[c] \in Seq(1..Len(pool))
  BY <1>1, <1>3, ElementOfSeq
<1>5. buckets[b][p] \in 1..Len(pool) /\ buckets[c][q] \in 1..Len(pool)
  BY <1>4, ElementOfSeq
<1>6. pool[buckets[b][p]] \in Tcbs /\ pool[buckets[c][q]] \in Tcbs /\ levels[c] \in Tcbs
  BY <1>1, <1>3, <1>5, ElementOfSeq
<1>7. BucketFor(pool[buckets[b][p]], b) /\ BucketFor(pool[buckets[c][q]], c)
  BY <1>3 DEF IInv, PlaceInv
<1>8. AtLeast(pool[buckets[c][q]], levels[c]) /\ ~AtLeast(pool[buckets[b][p]], levels[c])
  BY <1>3, <1>7 DEF BucketFor
<1> QED
  BY <1>6, <1>8, AtLeastTransitive

\* The walk comes to the bucket of the higher of two certificates no later
\* than to the bucket of the lower one.
THEOREM HigherFirst == Spec => []HigherNeverLater
  BY Inductive, PlacementOrders, PTL

\* What the walk passed over, and where certificates were placed, make its
\* choice the best up to the order inside one bucket.
LEMMA WalkChooses == IInv => ChosenFromBestBucket
<1> SUFFICES ASSUME IInv PROVE ChosenFromBestBucket
  OBVIOUS
<1>1. ASSUME NEW i \in 1..Len(pool)
      PROVE  \E c \in 1..Len(buckets) : \E q \in 1..Len(buckets[c]) : buckets[c][q] = i
  BY DEF IInv, PlaceInv, In
<1>2. Len(levels) \in Nat /\ Last \in Nat
  BY DEF IInv, TypeOK, Last
<1>3. pc \in {"chosen", "no_match"} => Len(buckets) = Last /\ Walked = 1..Len(buckets)
  BY DEF IInv, PlaceInv, Walked
<1>4. CASE pc = "no_match"
  <2>1. ASSUME NEW i \in 1..Len(pool) PROVE ~AtLeast(raw, pool[i])
    <3>1. PICK c \in 1..Len(buckets) : \E q \in 1..Len(buckets[c]) : buckets[c][q] = i
      BY <1>1
    <3>2. PICK q \in 1..Len(buckets[c]) : buckets[c][q] = i
      BY <3>1
    <3>3. PassedOver(raw, Last + 1, 1)
      BY <1>4 DEF IInv, WalkInv
    <3>4. c \in Walked /\ c < Last + 1
      BY <1>2, <1>3, <1>4
    <3> QED
      BY <3>2, <3>3, <3>4 DEF PassedOver
  <2> QED
    BY <1>4, <2>1 DEF ChosenFromBestBucket
<1>5. CASE pc = "chosen"
  <2>1. PICK b \in Walked : \E p \in 1..Len(buckets[b]) :
               /\ chosen = buckets[b][p]
               /\ AtLeast(raw, pool[chosen])
               /\ PassedOver(raw, b, p)
    BY <1>5 DEF IInv, WalkInv
  <2>2. PICK p \in 1..Len(buckets[b]) :
               /\ chosen = buckets[b][p]
               /\ AtLeast(raw, pool[chosen])
               /\ PassedOver(raw, b, p)
    BY <2>1
  <2>3. ASSUME NEW i \in 1..Len(pool), AtLeast(raw, pool[i]), AtLeast(pool[i], pool[chosen])
        PROVE  \E d \in 1..Len(buckets) : In(d, i) /\ In(d, chosen)
    <3>1. PICK c \in 1..Len(buckets) : \E q \in 1..Len(buckets[c]) : buckets[c][q] = i
      BY <1>1
    <3>2. PICK q \in 1..Len(buckets[c]) : buckets[c][q] = i
      BY <3>1
    <3>3. b \in 1..Len(buckets) /\ c \in Walked /\ b \in Int /\ c \in Int
      BY <1>2, <1>3, <1>5
    <3>4. ~(c < b)
      BY <2>2, <2>3, <3>2, <3>3 DEF PassedOver
    <3>5. ~(b < c)
      <4>1. SUFFICES ASSUME b < c PROVE FALSE
        OBVIOUS
      <4>2. b \in 1..c - 1
        BY <3>3, <4>1
      <4>3. ~AtLeast(pool[buckets[c][q]], pool[buckets[b][p]])
        BY <4>2, PlacementOrders DEF HigherNeverLater
      <4> QED
        BY <2>2, <2>3, <3>2, <4>3
    <3>6. b = c
      BY <3>3, <3>4, <3>5
    <3> QED
      BY <2>2, <3>2, <3>6 DEF In
  <2> QED
    BY <1>5, <2>2, <2>3 DEF ChosenFromBestBucket
<1> QED
  BY <1>4, <1>5 DEF ChosenFromBestBucket

\* The certificate served is usable and no usable one of an earlier bucket is
\* higher; none is served only when none of the pool is usable.
THEOREM BestBucketChosen == Spec => []ChosenFromBestBucket
  BY Inductive, WalkChooses, PTL

-----------------------------------------------------------------------------
(* Certificates that can be compared.                                      *)

AllComparable(tcbs) == \A i, k \in 1..Len(tcbs) : Comparable(tcbs[i], tcbs[k])

\* The bucket of a level then descends, equal certificates in any order.
DescendInv ==
    AllComparable(pool) =>
        \A b \in 1..Len(buckets) - 1 : \A p, q \in 1..Len(buckets[b]) :
            p < q => AtLeast(pool[buckets[b][p]], pool[buckets[b][q]])

\* Nothing is skipped, so find_insert_index answers the place before the first
\* certificate that the new one reaches.
LEMMA InsertIndexFirst ==
  ASSUME NEW n \in Nat, NEW s \in Seq(1..n), NEW tcb,
         \A p \in 1..Len(s) : Comparable(tcb, pool[s[p]])
  PROVE  /\ InsertIndex(s, tcb) \in 1..Len(s) + 1
         /\ \A p \in 1..Len(s) : p < InsertIndex(s, tcb) => AtLeast(pool[s[p]], tcb)
         /\ InsertIndex(s, tcb) \in 1..Len(s) => AtLeast(tcb, pool[s[InsertIndex(s, tcb)]])
<1> DEFINE reached == {p \in 1..Len(s) : AtLeast(tcb, pool[s[p]])}
           first == CHOOSE p \in reached : \A q \in reached : p <= q
           skipped == {q \in 1..first - 1 : Below(tcb, pool[s[q]])}
<1>0. InsertIndex(s, tcb) = IF reached = {} THEN Len(s) + 1 ELSE 1 + Cardinality(skipped)
  BY DEF InsertIndex
<1>1. ASSUME NEW p \in 1..Len(s), p \notin reached
      PROVE  Below(tcb, pool[s[p]]) /\ AtLeast(pool[s[p]], tcb)
  BY <1>1 DEF Comparable, AtLeast, Below, Higher
<1>2. CASE reached = {}
  BY <1>0, <1>1, <1>2
<1>3. CASE reached # {}
  <2>1. reached \subseteq Nat
    OBVIOUS
  <2>2. \E p \in reached : \A q \in reached : p <= q
    <3> HIDE DEF reached
    <3> QED
      BY <1>3, <2>1, LeastExists
  <2>3. first \in reached /\ \A q \in reached : first <= q
    BY <2>2
  <2>4. first \in 1..Len(s) /\ AtLeast(tcb, pool[s[first]])
    BY <2>3
  <2> HIDE DEF first
  <2>5. ASSUME NEW p \in 1..Len(s), p < first PROVE p \notin reached
    BY <2>3, <2>4, <2>5
  <2>6. skipped = 1..first - 1
    <3>1. ASSUME NEW q \in 1..first - 1 PROVE Below(tcb, pool[s[q]])
      <4>1. q \in 1..Len(s) /\ q < first
        BY <2>4
      <4>2. q \notin reached
        BY <2>5, <4>1
      <4> QED
        BY <1>1, <4>1, <4>2
    <3> QED
      BY <3>1
  <2>7. Cardinality(1..first - 1) = first - 1
    BY <2>4, FS_Interval
  <2>8. InsertIndex(s, tcb) = first
    <3>1. InsertIndex(s, tcb) = 1 + Cardinality(skipped)
      BY <1>0, <1>3
    <3> HIDE DEF skipped
    <3> QED
      BY <2>4, <2>6, <2>7, <3>1
  <2> QED
    BY <1>1, <2>4, <2>5, <2>8
<1> QED
  BY <1>2, <1>3

LEMMA InsertAt ==
  ASSUME NEW S, NEW s \in Seq(S), NEW e, NEW p \in 1..Len(s) + 1, NEW k \in 1..Len(s) + 1
  PROVE  /\ k < p => k \in 1..Len(s) /\ Insert(s, p, e)[k] = s[k]
         /\ k = p => Insert(s, p, e)[k] = e
         /\ k > p => k - 1 \in 1..Len(s) /\ Insert(s, p, e)[k] = s[k - 1]
  BY DEF Insert

\* A certificate placed in a bucket that descends leaves it descending.
LEMMA InsertDescends ==
  ASSUME NEW n \in Nat, NEW s \in Seq(1..n), pool \in [1..n -> Tcbs], NEW tcb \in Tcbs,
         \A p \in 1..Len(s) : Comparable(tcb, pool[s[p]]),
         \A p, q \in 1..Len(s) : p < q => AtLeast(pool[s[p]], pool[s[q]]),
         NEW more \in [1..n + 1 -> Tcbs], more[n + 1] = tcb, \A i \in 1..n : more[i] = pool[i],
         NEW t, t = Insert(s, InsertIndex(s, tcb), n + 1),
         NEW p \in 1..Len(s) + 1, NEW q \in 1..Len(s) + 1, p < q
  PROVE  AtLeast(more[t[p]], more[t[q]])
<1> DEFINE x == InsertIndex(s, tcb)
           e == n + 1
<1>1. /\ x \in 1..Len(s) + 1
      /\ \A k \in 1..Len(s) : k < x => AtLeast(pool[s[k]], tcb)
      /\ x \in 1..Len(s) => AtLeast(tcb, pool[s[x]])
  BY InsertIndexFirst
<1>2. Len(s) \in Nat /\ \A k \in 1..Len(s) : s[k] \in 1..n
  BY ElementOfSeq
<1>3. t = Insert(s, x, e)
  OBVIOUS
<1> HIDE DEF x, e
<1>4. \A k \in 1..Len(s) + 1 :
         /\ k < x => k \in 1..Len(s) /\ t[k] = s[k]
         /\ k = x => t[k] = e
         /\ k > x => k - 1 \in 1..Len(s) /\ t[k] = s[k - 1]
  BY <1>1, <1>3, InsertAt
<1>5. more[e] = tcb /\ \A k \in 1..Len(s) : more[s[k]] = pool[s[k]] /\ pool[s[k]] \in Tcbs
  BY <1>2 DEF e
<1>6. CASE q < x
  <2>1. p \in 1..Len(s) /\ q \in 1..Len(s) /\ t[p] = s[p] /\ t[q] = s[q]
    BY <1>1, <1>2, <1>4, <1>6
  <2>2. AtLeast(pool[s[p]], pool[s[q]])
    BY <2>1
  <2> QED
    BY <1>5, <2>1, <2>2
<1>7. CASE q = x
  BY <1>1, <1>2, <1>4, <1>5, <1>7
<1>8. CASE q > x /\ p < x
  <2>1. q - 1 \in 1..Len(s) /\ p \in 1..Len(s) /\ p < q - 1
    BY <1>1, <1>2, <1>4, <1>8
  <2>2. AtLeast(pool[s[p]], pool[s[q - 1]])
    BY <2>1
  <2> QED
    BY <1>4, <1>5, <1>8, <2>1, <2>2
<1>9. CASE p = x
  <2>1. q - 1 \in 1..Len(s) /\ x \in 1..Len(s) /\ x <= q - 1
    BY <1>1, <1>2, <1>4, <1>9
  <2>2. AtLeast(tcb, pool[s[q - 1]])
    <3>1. CASE x = q - 1
      BY <1>1, <2>1, <3>1
    <3>2. CASE x < q - 1
      <4>1. AtLeast(tcb, pool[s[x]]) /\ AtLeast(pool[s[x]], pool[s[q - 1]])
        BY <1>1, <2>1, <3>2
      <4>2. pool[s[x]] \in Tcbs /\ pool[s[q - 1]] \in Tcbs
        BY <1>5, <2>1
      <4> QED
        BY <4>1, <4>2, AtLeastTransitive
    <3> QED
      BY <1>1, <2>1, <3>1, <3>2
  <2>3. t[p] = e /\ t[q] = s[q - 1]
    BY <1>1, <1>4, <1>9
  <2> QED
    BY <1>5, <2>1, <2>2, <2>3
<1>10. CASE p > x
  <2>1. p - 1 \in 1..Len(s) /\ q - 1 \in 1..Len(s) /\ p - 1 < q - 1
        /\ t[p] = s[p - 1] /\ t[q] = s[q - 1]
    BY <1>1, <1>2, <1>4, <1>10
  <2>2. AtLeast(pool[s[p - 1]], pool[s[q - 1]])
    BY <2>1
  <2> QED
    BY <1>5, <2>1, <2>2
<1> QED
  BY <1>1, <1>6, <1>7, <1>8, <1>9, <1>10

LEMMA PlaceDescends == IInv /\ DescendInv /\ Place => DescendInv'
<1> SUFFICES ASSUME IInv, DescendInv, Place, AllComparable(pool')
             PROVE  \A c \in 1..Len(buckets') - 1 : \A p, q \in 1..Len(buckets'[c]) :
                        p < q => AtLeast(pool'[buckets'[c][p]], pool'[buckets'[c][q]])
  BY DEF DescendInv, AllComparable
<1>0. pc = "place"
  BY DEF Place
<1>1. PICK tcb \in Tcbs, b \in 1..Last :
           /\ pool' = Append(pool, tcb)
           /\ buckets' = [buckets EXCEPT ![b] =
                  Insert(@, IF b = Last THEN Len(@) + 1 ELSE InsertIndex(@, tcb), Len(pool) + 1)]
  BY DEF Place
<1> DEFINE n == Len(pool)
           s == buckets[b]
<1>2. /\ pool \in Seq(Tcbs) /\ n \in Nat
      /\ buckets \in Seq(Seq(1..n)) /\ Len(buckets) = Last /\ Last \in Nat
  BY <1>0 DEF IInv, TypeOK, PlaceInv, Last
<1>3. /\ pool' \in Seq(Tcbs) /\ Len(pool') = n + 1 /\ pool'[n + 1] = tcb
      /\ \A i \in 1..n : pool'[i] = pool[i]
  BY <1>1, <1>2
<1>4. /\ \A i, k \in 1..n : Comparable(pool[i], pool[k])
      /\ \A k \in 1..n : Comparable(tcb, pool[k])
  <2> HIDE DEF n
  <2>1. \A i, k \in 1..n + 1 : Comparable(pool'[i], pool'[k])
    BY <1>3 DEF AllComparable
  <2>2. n + 1 \in 1..n + 1 /\ \A i \in 1..n : i \in 1..n + 1
    BY <1>2
  <2>3. ASSUME NEW i \in 1..n, NEW k \in 1..n
        PROVE  Comparable(pool[i], pool[k])
    <3>1. Comparable(pool'[i], pool'[k]) /\ pool'[i] = pool[i] /\ pool'[k] = pool[k]
      BY <1>3, <2>1, <2>2
    <3> QED
      BY <3>1
  <2>4. ASSUME NEW k \in 1..n
        PROVE  Comparable(tcb, pool[k])
    <3>1. Comparable(pool'[n + 1], pool'[k]) /\ pool'[n + 1] = tcb /\ pool'[k] = pool[k]
      BY <1>3, <2>1, <2>2
    <3> QED
      BY <3>1
  <2> QED
    BY <2>3, <2>4
<1>5. \A c \in 1..Len(buckets) - 1 : \A p, q \in 1..Len(buckets[c]) :
          p < q => AtLeast(pool[buckets[c][p]], pool[buckets[c][q]])
  BY <1>4 DEF DescendInv, AllComparable
<1>6. s \in Seq(1..n) /\ \A c \in 1..Len(buckets) : buckets[c] \in Seq(1..n)
  BY <1>2
<1>7. /\ Len(buckets') = Len(buckets)
      /\ buckets'[b] = Insert(s, IF b = Last THEN Len(s) + 1 ELSE InsertIndex(s, tcb), n + 1)
      /\ \A c \in 1..Len(buckets) : c # b => buckets'[c] = buckets[c]
  BY <1>1, <1>2
<1> HIDE DEF n, s
<1> TAKE c \in 1..Len(buckets') - 1
<1>8. c \in 1..Len(buckets) /\ c \in 1..Len(buckets) - 1 /\ c # Last
  BY <1>2, <1>7
<1> TAKE p, q \in 1..Len(buckets'[c])
<1>9. CASE c # b
  <2>1. buckets'[c] = buckets[c] /\ buckets[c] \in Seq(1..n)
    BY <1>6, <1>7, <1>8, <1>9
  <2>2. buckets[c][p] \in 1..n /\ buckets[c][q] \in 1..n
    BY <2>1, ElementOfSeq
  <2> QED
    BY <1>3, <1>5, <1>8, <2>1, <2>2
<1>10. CASE c = b
  <2> DEFINE t == buckets'[c]
  <2>1. t = Insert(s, InsertIndex(s, tcb), n + 1)
    BY <1>7, <1>8, <1>10
  <2>2. Len(t) = Len(s) + 1
    <3>1. InsertIndex(s, tcb) \in 1..Len(s) + 1 /\ Len(s) \in Nat
      BY <1>2, <1>6, InsertIndexRange
    <3> QED
      BY <2>1, <3>1 DEF Insert
  <2>3. /\ \A k \in 1..Len(s) : Comparable(tcb, pool[s[k]])
        /\ \A k, l \in 1..Len(s) : k < l => AtLeast(pool[s[k]], pool[s[l]])
    <3>1. \A k \in 1..Len(s) : s[k] \in 1..n
      BY <1>6, ElementOfSeq
    <3> QED
      BY <1>4, <1>5, <1>8, <1>10, <3>1 DEF s
  <2>4. pool \in [1..n -> Tcbs] /\ pool' \in [1..n + 1 -> Tcbs]
    BY <1>2, <1>3 DEF n
  <2> DEFINE more == pool'
  <2>5. /\ more \in [1..n + 1 -> Tcbs] /\ more[n + 1] = tcb
        /\ \A i \in 1..n : more[i] = pool[i]
    BY <1>3, <2>4
  <2>6. p \in 1..Len(s) + 1 /\ q \in 1..Len(s) + 1
    BY <2>2
  <2> HIDE DEF t, more
  <2>7. p < q => AtLeast(more[t[p]], more[t[q]])
    BY <1>2, <1>6, <2>1, <2>3, <2>4, <2>5, <2>6, InsertDescends
  <2> QED
    BY <2>7 DEF t, more
<1> QED
  BY <1>9, <1>10

LEMMA Descends == Spec => []DescendInv
<1>1. Init => DescendInv
  BY DEF Init, DescendInv
<1>2. IInv /\ DescendInv /\ [Next]_vars => DescendInv'
  <2> SUFFICES ASSUME IInv, DescendInv, [Next]_vars PROVE DescendInv'
    OBVIOUS
  <2>1. CASE Place
    BY <2>1, PlaceDescends
  <2>2. CASE Sorted
    <3>1. Len(levels) \in Nat
      BY DEF IInv, TypeOK
    <3>2. \A b \in 1..Len(buckets') : Len(buckets'[b]) = 0
      BY <2>2, <3>1 DEF Sorted
    <3>3. Len(buckets') \in Nat
      BY <2>2, <3>1 DEF Sorted
    <3> QED
      BY <3>2, <3>3 DEF DescendInv
  <2>3. CASE UNCHANGED <<pool, buckets>>
    BY <2>3 DEF DescendInv, AllComparable
  <2> QED
    BY <2>1, <2>2, <2>3 DEF Next, Refuse, CreateBuckets, Search, Rotate, RefuseRaw, Select, vars
<1> QED
  BY <1>1, <1>2, Inductive, PTL DEF Spec

LEMMA AtLeastReflexive == ASSUME NEW a \in Tcbs PROVE AtLeast(a, a)
<1> SUFFICES ASSUME NEW x \in Components, a[x] < a[x]
             PROVE  FALSE
  BY DEF AtLeast, Lower
<1>1. a[x] \in Int
  BY SvnsAssumption DEF Tcbs
<1> QED
  BY <1>1

\* Of comparable certificates the walk meets the highest usable one first, inside
\* its bucket and across the buckets.
LEMMA WalkMeetsBest == IInv /\ DescendInv => BestOfComparable
<1> SUFFICES ASSUME IInv, DescendInv, pc = "chosen", ~In(Last, chosen),
                    \A i, k \in 1..Len(pool) : Comparable(pool[i], pool[k]),
                    NEW i \in 1..Len(pool), AtLeast(raw, pool[i])
             PROVE  AtLeast(pool[chosen], pool[i])
  BY DEF BestOfComparable
<1>1. Len(buckets) = Last /\ Walked = 1..Len(buckets) /\ Last \in Nat
  BY DEF IInv, TypeOK, PlaceInv, Walked, Last
<1>2. PICK b \in Walked : \E p \in 1..Len(buckets[b]) :
             chosen = buckets[b][p] /\ PassedOver(raw, b, p)
  BY DEF IInv, WalkInv
<1>3. PICK p \in 1..Len(buckets[b]) : chosen = buckets[b][p] /\ PassedOver(raw, b, p)
  BY <1>2
<1>4. PICK c \in 1..Len(buckets) : In(c, i)
  BY DEF IInv, PlaceInv
<1>5. PICK q \in 1..Len(buckets[c]) : buckets[c][q] = i
  BY <1>4 DEF In
<1>6. b \in 1..Len(buckets) - 1 /\ b \in Int /\ c \in Int
  <2>1. b # Last
    BY <1>3 DEF In
  <2> QED
    BY <1>1, <2>1
<1>7. ~(c < b) /\ ~(c = b /\ q < p)
  BY <1>1, <1>3, <1>5 DEF PassedOver
<1>8. CASE b < c
  <2>1. b \in 1..c - 1
    BY <1>1, <1>6, <1>8
  <2>2. ~AtLeast(pool[i], pool[chosen])
    BY <1>3, <1>5, <2>1, PlacementOrders DEF HigherNeverLater
  <2>3. chosen \in 1..Len(pool)
    <3>1. buckets[b] \in Seq(1..Len(pool))
      BY <1>1 DEF IInv, TypeOK
    <3> QED
      BY <1>3, <3>1, ElementOfSeq
  <2> QED
    BY <2>2, <2>3 DEF Comparable, AtLeast
<1>9. CASE c = b
  <2>1. p \in Int /\ q \in Int /\ ~(q < p)
    BY <1>7, <1>9
  <2>2. CASE p = q
    <3>1. pool[i] \in Tcbs
      BY ElementOfSeq DEF IInv, TypeOK
    <3>2. AtLeast(pool[i], pool[i])
      BY <3>1, AtLeastReflexive
    <3> QED
      BY <1>3, <1>5, <1>9, <2>2, <3>2
  <2>3. CASE p < q
    <3>1. AtLeast(pool[buckets[b][p]], pool[buckets[b][q]])
      BY <1>5, <1>6, <1>9, <2>3 DEF DescendInv, AllComparable
    <3> QED
      BY <1>3, <1>5, <1>9, <3>1
  <2> QED
    BY <2>1, <2>2, <2>3
<1> QED
  BY <1>6, <1>7, <1>8, <1>9

\* When the certificates of a pool can be compared, select_best_pck_cert serves the
\* highest usable one from the bucket of a level: the index find_insert_index counts
\* is then the right one, and no bucket behind holds a better certificate.
THEOREM BestIsChosen == Spec => []BestOfComparable
  BY Inductive, Descends, WalkMeetsBest, PTL
=============================================================================
