----------------------- MODULE ReadThroughStoreProofs -----------------------
(***************************************************************************)
(* Proofs about ReadThroughStore, for every set of kinds, finite set of    *)
(* keys, capacity, clock behaviour and bound.                              *)
(***************************************************************************)
EXTENDS ReadThroughStore, FiniteSetTheorems, FunctionTheorems, TLAPS

USE DEF NoRow

-----------------------------------------------------------------------------
(* Functions over keys *)

\* Writing one key: the domain gains it, other keys keep their value.
LEMMA WithFacts ==
    ASSUME NEW f, NEW key, NEW v
    PROVE  /\ DOMAIN With(f, key, v) = DOMAIN f \cup {key}
           /\ With(f, key, v)[key] = v
           /\ \A k \in DOMAIN f \ {key} : With(f, key, v)[k] = f[k]
  BY DEF With

\* Removing keys: the domain loses them, other keys keep their value.
LEMMA WithoutFacts ==
    ASSUME NEW f, NEW S
    PROVE  /\ DOMAIN Without(f, S) = DOMAIN f \ S
           /\ \A k \in DOMAIN f \ S : Without(f, S)[k] = f[k]
  BY DEF Without

\* Recording a key of the kind (a put) keeps a map of keys to numbers well typed.
LEMMA WithType ==
    ASSUME NEW f, KeyNumbers(f), NEW key \in Keys, NEW v \in Nat
    PROVE  KeyNumbers(With(f, key, v))
  BY DEF KeyNumbers, With

\* Dropping keys (an eviction, a delete, a sweep) keeps such a map well typed.
LEMMA WithoutType ==
    ASSUME NEW f, KeyNumbers(f), NEW S
    PROVE  KeyNumbers(Without(f, S))
  BY DEF KeyNumbers, Without

\* Replacing the function of one kind keeps the whole well typed.
LEMMA ExceptType ==
    ASSUME NEW f, KeyedNumbers(f), NEW kind \in Kinds, NEW g, KeyNumbers(g)
    PROVE  KeyedNumbers([f EXCEPT ![kind] = g])
  BY DEF KeyedNumbers

-----------------------------------------------------------------------------
(* Finite sets of keys and index rows *)

\* The records of a kind are finitely many.
LEMMA KeySetFinite ==
    ASSUME NEW S \in SUBSET Keys
    PROVE  IsFiniteSet(S) /\ Cardinality(S) \in Nat
  BY KeysAssumption, FS_Subset, FS_CardinalityType

\* The rank of a record in the order of fetched_at is a number.
LEMMA RankType ==
    ASSUME NEW f, KeyNumbers(f), NEW k
    PROVE  FetchRank(f, k) \in Nat
  <1>1. {j \in DOMAIN f : FetchedBefore(f, j, k)} \in SUBSET Keys
    BY DEF KeyNumbers
  <1> QED
    BY <1>1, KeySetFinite DEF FetchRank

\* Taking a subset away takes its size away.
LEMMA DifferenceSize ==
    ASSUME NEW S, IsFiniteSet(S), NEW T \in SUBSET S
    PROVE  Cardinality(S \ T) = Cardinality(S) - Cardinality(T)
  <1>1. IsFiniteSet(T) /\ IsFiniteSet(S \ T)
    BY FS_Subset
  <1>2. Cardinality((S \ T) \cup T) =
          Cardinality(S \ T) + Cardinality(T) - Cardinality((S \ T) \cap T)
    BY <1>1, FS_Union
  <1>3. (S \ T) \cup T = S /\ (S \ T) \cap T = {}
    OBVIOUS
  <1>4. Cardinality({}) = 0
    BY FS_EmptySet
  <1>5. /\ Cardinality(S) \in Nat
        /\ Cardinality(T) \in Nat
        /\ Cardinality(S \ T) \in Nat
    BY <1>1, FS_CardinalityType
  <1>6. Cardinality(S) = Cardinality(S \ T) + Cardinality(T) - 0
    BY <1>2, <1>3, <1>4, Zenon
  <1> QED
    BY <1>5, <1>6

\* The rows of an index, one per key, are as many as their keys.
LEMMA RowsAsManyAsKeys ==
    ASSUME NEW p, NEW V, NEW D \in SUBSET Keys,
           V \subseteq RowsOf(p, D)
    PROVE  /\ IsFiniteSet(V)
           /\ KeysOf(V) \subseteq D
           /\ Cardinality(KeysOf(V)) = Cardinality(V)
  <1> USE DEF RowsOf, KeysOf
  <1> DEFINE G == KeysOf(V)
             h == [k \in G |-> <<p[k], k>>]
  <1>1. G \subseteq D
    OBVIOUS
  <1>2. \A k \in G : h[k] \in V
    OBVIOUS
  <1>3. \A v \in V : v[2] \in G /\ h[v[2]] = v
    OBVIOUS
  <1>4. \A j, k \in G : h[j] = h[k] => j = k
    OBVIOUS
  <1>5. h \in Bijection(G, V)
    <2> HIDE DEF G
    <2>1. h \in [G -> V]
      BY <1>2
    <2> HIDE DEF h
    <2> QED
      BY <1>3, <1>4, <2>1 DEF Bijection, Injection, Surjection, IsInjective
  <1>6. IsFiniteSet(G)
    BY <1>1, KeySetFinite
  <1>7. ExistsBijection(G, V)
    BY <1>5 DEF ExistsBijection
  <1>8. IsFiniteSet(V) /\ Cardinality(V) = Cardinality(G)
    BY <1>6, <1>7, FS_Bijection
  <1> QED
    BY <1>1, <1>8
-----------------------------------------------------------------------------
(* The index invariant *)

\* The inductive invariant behind index consistency.
IndexInv == TypeOK /\ IndexConsistent

\* What the invariant says of a kind while the store is open: one row per
\* record, and the count read (zero when the row is missing) is their number.
LEMMA OpenKind ==
    ASSUME IndexInv, up, NEW kind \in Kinds
    PROVE  /\ KeyNumbers(entry[kind]) /\ KeyNumbers(pos[kind]) /\ KeyNumbers(wrote[kind])
           /\ DOMAIN pos[kind] = DOMAIN entry[kind]
           /\ DOMAIN pos[kind] \in SUBSET Keys
           /\ order[kind] = {<<pos[kind][k], k>> : k \in DOMAIN pos[kind]}
           /\ readthrough_count(kind) = Cardinality(DOMAIN entry[kind])
           /\ readthrough_count(kind) \in Nat
  <1>1. KeyNumbers(entry[kind]) /\ KeyNumbers(pos[kind]) /\ KeyNumbers(wrote[kind])
    BY DEF IndexInv, TypeOK, KeyedNumbers
  <1>2. DOMAIN pos[kind] \in SUBSET Keys
    BY <1>1 DEF KeyNumbers
  <1>3. count[kind] \in Nat \cup {NoRow}
    BY DEF IndexInv, TypeOK
  <1>4. CASE count[kind] = NoRow
    <2>1. DOMAIN pos[kind] = {} /\ order[kind] = {} /\ DOMAIN entry[kind] = {}
      BY <1>4 DEF IndexInv, IndexConsistent
    <2>2. Cardinality(DOMAIN entry[kind]) = 0
      BY <2>1, FS_EmptySet
    <2> QED
      BY <1>1, <1>2, <1>4, <2>1, <2>2 DEF readthrough_count
  <1>5. CASE count[kind] # NoRow
    BY <1>1, <1>2, <1>3, <1>5
    DEF IndexInv, IndexConsistent, IndexMatches, readthrough_count, RowsOf
  <1> QED
    BY <1>4, <1>5

\* A database that predates the index satisfies the index invariant.
LEMMA InitIndexInv == Init => IndexInv
  <1> SUFFICES ASSUME Init PROVE IndexInv
    OBVIOUS
  <1>1. \A kind \in Kinds : KeyNumbers(entry[kind])
    BY BoundsAssumption DEF Init, KeyNumbers
  <1>2. KeyedNumbers(entry)
    BY <1>1 DEF Init, KeyedNumbers
  <1>3. KeyedNumbers(pos)
    BY DEF Init, KeyedNumbers, KeyNumbers, NoKeys
  <1>4. KeyedNumbers(wrote)
    <2>1. ASSUME NEW kind \in Kinds, NEW k \in DOMAIN entry[kind]
          PROVE  FetchRank(entry[kind], k) \in Nat
      BY <1>1, RankType
    <2>2. ASSUME NEW kind \in Kinds
          PROVE  KeyNumbers(wrote[kind])
      BY <1>1, <2>1 DEF Init, KeyNumbers
    <2> QED
      BY <2>2 DEF Init, KeyedNumbers
  <1>5. Cardinality(Keys) \in Nat
    BY KeySetFinite
  <1>6. TypeOK
    <2>0. MaxLegacy * UnitsPerSec \in Nat
      BY BoundsAssumption, UnitsAssumption
    <2>1. clock \in Nat
      BY <1>5, <2>0 DEF Init
    <2> QED
      BY <1>2, <1>3, <1>4, <1>5, <2>1 DEF Init, TypeOK
  <1>7. IndexConsistent
    BY DEF Init, IndexConsistent, NoKeys
  <1> QED
    BY <1>6, <1>7 DEF IndexInv

\* Store::open, with index_unindexed_entries, keeps the index invariant.
LEMMA OpenIndexInv ==
    ASSUME IndexInv, NEW cap \in Caps, Open(cap)
    PROVE  IndexInv'
  <1> USE DEF IndexInv
  <1>1. ASSUME NEW kind \in Kinds
        PROVE  /\ DOMAIN entry[kind] \in SUBSET Keys
               /\ KeyNumbers(pos'[kind])
               /\ order'[kind] \in SUBSET (Nat \X Keys)
               /\ count'[kind] \in Nat \cup {NoRow}
               /\ count'[kind] = NoRow => /\ DOMAIN pos'[kind] = {} /\ order'[kind] = {}
                                          /\ DOMAIN entry'[kind] = {}
               /\ count'[kind] # NoRow => /\ DOMAIN pos'[kind] = DOMAIN entry'[kind]
                                          /\ order'[kind] = {<<pos'[kind][k], k>> : k \in DOMAIN pos'[kind]}
                                          /\ count'[kind] = Cardinality(DOMAIN entry'[kind])
    <2>1. /\ entry' = entry
          /\ pos'[kind] = PosAfterOpen(kind)
          /\ order'[kind] = OrderAfterOpen(kind)
          /\ count'[kind] = CountAfterOpen(kind)
      BY DEF Open
    <2>2. KeyNumbers(entry[kind]) /\ DOMAIN entry[kind] \in SUBSET Keys /\ KeyNumbers(pos[kind])
      BY DEF TypeOK, KeyedNumbers, KeyNumbers
    <2>3. CASE Unindexed(kind)
      <3>1. ASSUME NEW k \in DOMAIN entry[kind]
            PROVE  LegacyStamp(kind, k) \in Nat
        <4>2. FetchRank(entry[kind], k) \in Nat
          BY <2>2, RankType
        <4>3. entry[kind][k] \in Nat
          BY <2>2 DEF KeyNumbers
        <4> QED
          BY <4>2, <4>3, UnitsAssumption DEF LegacyStamp
      <3>2. /\ pos'[kind] = [k \in DOMAIN entry[kind] |-> LegacyStamp(kind, k)]
            /\ order'[kind] = {<<LegacyStamp(kind, k), k>> : k \in DOMAIN entry[kind]}
            /\ count'[kind] = Cardinality(DOMAIN entry[kind])
        BY <2>1, <2>3 DEF PosAfterOpen, OrderAfterOpen, CountAfterOpen
      <3>3. Cardinality(DOMAIN entry[kind]) \in Nat
        BY <2>2, KeySetFinite
      <3> HIDE DEF IndexInv
      <3> QED
        BY <2>1, <2>2, <3>1, <3>2, <3>3 DEF KeyNumbers
    <2>4. CASE ~Unindexed(kind)
      <3>1. pos'[kind] = pos[kind] /\ order'[kind] = order[kind] /\ count'[kind] = count[kind]
        BY <2>1, <2>4 DEF PosAfterOpen, OrderAfterOpen, CountAfterOpen
      <3>2. order[kind] \in SUBSET (Nat \X Keys) /\ count[kind] \in Nat \cup {NoRow}
        BY DEF TypeOK
      <3>3. count[kind] = NoRow => DOMAIN entry[kind] = {}
        BY <2>4 DEF Unindexed
      <3> QED
        BY <2>1, <2>2, <3>1, <3>2, <3>3 DEF IndexConsistent, IndexMatches, RowsOf
    <2> QED
      BY <2>3, <2>4
  <1>2. TypeOK'
    <2>1. KeyedNumbers(entry)' /\ KeyedNumbers(wrote)'
      BY DEF TypeOK, Open
    <2>2. KeyedNumbers(pos)'
      BY <1>1 DEF Open, KeyedNumbers
    <2>3. order' \in [Kinds -> SUBSET (Nat \X Keys)] /\ count' \in [Kinds -> Nat \cup {NoRow}]
      BY <1>1 DEF Open
    <2>4. max' \in Nat
      BY CapsAssumption DEF Open
    <2> QED
      BY <2>1, <2>2, <2>3, <2>4 DEF TypeOK, Open
  <1>3. IndexConsistent'
    BY <1>1 DEF IndexConsistent, IndexMatches, RowsOf
  <1> QED
    BY <1>2, <1>3

\* A step that rewrites the rows of one kind preserves the invariant when it
\* leaves that kind with one row per record and a count row that is right, or
\* leaves an empty kind without a count row.
LEMMA KindStep ==
    ASSUME IndexInv, up, up',
           NEW kind \in Kinds, NEW e, NEW p, NEW o, NEW c, NEW w,
           KeyNumbers(e), KeyNumbers(p), KeyNumbers(w), c \in Nat \cup {NoRow},
           DOMAIN p = DOMAIN e,
           o = {<<p[k], k>> : k \in DOMAIN p},
           c = NoRow => DOMAIN e = {},
           c # NoRow => c = Cardinality(DOMAIN e),
           entry' = [entry EXCEPT ![kind] = e],
           pos' = [pos EXCEPT ![kind] = p],
           order' = [order EXCEPT ![kind] = o],
           count' = [count EXCEPT ![kind] = c],
           wrote' = [wrote EXCEPT ![kind] = w],
           last' \in Nat, max' \in Nat, clock' \in Nat, writes' \in Nat, opened' \in Nat,
           steady' \in BOOLEAN
    PROVE  IndexInv'
  <1>1. KeyedNumbers(entry)' /\ KeyedNumbers(pos)' /\ KeyedNumbers(wrote)'
    BY ExceptType DEF IndexInv, TypeOK
  <1>2. o \in SUBSET (Nat \X Keys)
    BY DEF KeyNumbers
  <1>3. /\ order' \in [Kinds -> SUBSET (Nat \X Keys)]
        /\ count' \in [Kinds -> Nat \cup {NoRow}]
    BY <1>2 DEF IndexInv, TypeOK
  <1>4. TypeOK'
    BY <1>1, <1>3 DEF TypeOK
  <1>5. ASSUME NEW j \in Kinds, j # kind
        PROVE  /\ entry'[j] = entry[j] /\ pos'[j] = pos[j]
               /\ order'[j] = order[j] /\ count'[j] = count[j]
    BY <1>5 DEF IndexInv, TypeOK, KeyedNumbers
  <1>6. /\ entry'[kind] = e /\ pos'[kind] = p
        /\ order'[kind] = o /\ count'[kind] = c
    BY DEF IndexInv, TypeOK, KeyedNumbers
  <1>7. IndexConsistent'
    <2> SUFFICES ASSUME NEW j \in Kinds
                 PROVE  IF count'[j] = NoRow
                        THEN /\ DOMAIN pos'[j] = {} /\ order'[j] = {}
                             /\ up' => DOMAIN entry'[j] = {}
                        ELSE IndexMatches(j)' /\ count'[j] = Cardinality(DOMAIN entry'[j])
      BY DEF IndexConsistent
    <2>1. CASE j = kind
      BY <1>6, <2>1 DEF IndexMatches, RowsOf
    <2>2. CASE j # kind
      BY <1>5, <2>2 DEF IndexInv, IndexConsistent, IndexMatches
    <2> QED
      BY <2>1, <2>2
  <1> QED
    BY <1>4, <1>7 DEF IndexInv

\* Removing keys, with whatever index rows they have (delete_key, sweep_prefix).
LEMMA RemoveIndexInv ==
    ASSUME IndexInv, NEW kind \in Kinds, NEW keys, RemoveKeys(kind, keys)
    PROVE  IndexInv'
  <1> DEFINE D == DOMAIN entry[kind]
             e == Without(entry[kind], keys)
             p == Without(pos[kind], keys)
             w == Without(wrote[kind], keys)
             o == Unindex(kind, keys)
             c == CountWithout(kind, keys)
  <1>0. up /\ up'
    BY DEF RemoveKeys
  <1>1. /\ KeyNumbers(entry[kind]) /\ KeyNumbers(pos[kind]) /\ KeyNumbers(wrote[kind])
        /\ DOMAIN pos[kind] = D
        /\ D \in SUBSET Keys
        /\ order[kind] = {<<pos[kind][k], k>> : k \in D}
        /\ readthrough_count(kind) = Cardinality(D)
        /\ readthrough_count(kind) \in Nat
    BY <1>0, OpenKind
  <1>2. /\ Cardinality(D \ keys) \in Nat
        /\ Cardinality(keys \cap D) \in Nat
        /\ Cardinality(D \ keys) = Cardinality(D) - Cardinality(keys \cap D)
    <2>1. keys \cap D \in SUBSET D /\ D \ keys \in SUBSET Keys /\ keys \cap D \in SUBSET Keys
      BY <1>1
    <2>2. D \ keys = D \ (keys \cap D)
      OBVIOUS
    <2> QED
      BY <1>1, <2>1, <2>2, KeySetFinite, DifferenceSize
  <1>3. KeyNumbers(e) /\ KeyNumbers(p) /\ KeyNumbers(w)
    BY <1>1, WithoutType
  <1>4. DOMAIN e = D \ keys /\ DOMAIN p = D \ keys
    BY <1>1 DEF Without
  <1>5. o = {<<p[k], k>> : k \in DOMAIN p}
    <2>1. \A k \in D \ keys : p[k] = pos[kind][k]
      BY <1>1 DEF Without
    <2> QED
      BY <1>1, <1>4, <2>1 DEF Unindex, RowsOf
  <1>6. /\ c \in Nat \cup {NoRow}
        /\ c = NoRow => DOMAIN e = {}
        /\ c # NoRow => c = Cardinality(DOMAIN e)
    <2>1. CASE keys \cap D = {}
      <3>1. Cardinality(keys \cap DOMAIN pos[kind]) = 0
        BY <1>1, <2>1, FS_EmptySet
      <3>2. c = count[kind]
        BY <3>1 DEF CountWithout
      <3>3. D \ keys = D
        BY <2>1
      <3>4. count[kind] # NoRow => count[kind] = Cardinality(D)
        BY <1>1 DEF readthrough_count
      <3>5. count[kind] = NoRow => D = {}
        BY <1>0 DEF IndexInv, IndexConsistent
      <3>6. count[kind] \in Nat \cup {NoRow}
        BY DEF IndexInv, TypeOK
      <3> QED
        BY <1>4, <3>2, <3>3, <3>4, <3>5, <3>6
    <2>2. CASE keys \cap D # {}
      <3>1. Cardinality(keys \cap DOMAIN pos[kind]) # 0
        BY <1>1, <2>2, KeySetFinite, FS_EmptySet
      <3>2. c = Cardinality(D \ keys)
        BY <1>1, <1>2, <3>1 DEF CountWithout
      <3> QED
        BY <1>2, <1>4, <3>2
    <2> QED
      BY <2>1, <2>2
  <1>7. /\ entry' = [entry EXCEPT ![kind] = e]
        /\ pos' = [pos EXCEPT ![kind] = p]
        /\ order' = [order EXCEPT ![kind] = o]
        /\ count' = [count EXCEPT ![kind] = c]
        /\ wrote' = [wrote EXCEPT ![kind] = w]
        /\ last' \in Nat /\ max' \in Nat /\ clock' \in Nat /\ writes' \in Nat /\ opened' \in Nat
        /\ steady' \in BOOLEAN
    BY DEF RemoveKeys, IndexInv, TypeOK
  <1> HIDE DEF D, e, p, w, o, c
  <1> QED
    BY <1>0, <1>3, <1>4, <1>5, <1>6, <1>7, KindStep

\* One put: the new rows, less the victims, describe the new records.
LEMMA PutIndexInv ==
    ASSUME IndexInv, NEW kind \in Kinds, NEW key \in Keys, put_bounded(kind, key)
    PROVE  IndexInv'
  <1> DEFINE D == DOMAIN entry[kind]
             n == CountWith(kind, key)
  <1>0. up /\ up' /\ clock \in Nat /\ last \in Nat /\ writes \in Nat /\ max \in Nat
    BY DEF put_bounded, IndexInv, TypeOK
  <1>1. /\ KeyNumbers(entry[kind]) /\ KeyNumbers(pos[kind]) /\ KeyNumbers(wrote[kind])
        /\ DOMAIN pos[kind] = D
        /\ D \in SUBSET Keys
        /\ order[kind] = {<<pos[kind][k], k>> : k \in D}
        /\ readthrough_count(kind) = Cardinality(D)
        /\ readthrough_count(kind) \in Nat
    BY <1>0, OpenKind
  <1>2. NextStamp \in Nat
    BY <1>0 DEF NextStamp
  <1>3. n = Cardinality(D \cup {key}) /\ n \in Nat
    BY <1>1, KeySetFinite, FS_AddElement DEF CountWith
  <1>4. Excess(n) \in Nat /\ Excess(n) <= n
    BY <1>0, <1>3 DEF Excess
  <1>5. PICK V \in Victims(kind, key, Excess(n)) :
           LET gone == KeysOf(V) IN
           /\ entry' = [entry EXCEPT ![kind] =
                           Without(With(@, key, clock \div UnitsPerSec), gone)]
           /\ pos' = [pos EXCEPT ![kind] = Without(With(@, key, NextStamp), gone)]
           /\ order' = [order EXCEPT ![kind] =
                           (RowsWithoutOld(kind, key) \cup {<<NextStamp, key>>}) \ V]
           /\ count' = [count EXCEPT ![kind] = n - Cardinality(V)]
           /\ wrote' = [wrote EXCEPT ![kind] = Without(With(@, key, writes), gone)]
    BY DEF put_bounded
  <1> DEFINE gone == KeysOf(V)
             e == Without(With(entry[kind], key, clock \div UnitsPerSec), gone)
             p == Without(With(pos[kind], key, NextStamp), gone)
             w == Without(With(wrote[kind], key, writes), gone)
             o == (RowsWithoutOld(kind, key) \cup {<<NextStamp, key>>}) \ V
             c == n - Cardinality(V)
  <1>6. V \subseteq RowsOf(pos[kind], D \ {key})
    BY <1>1 DEF Victims, RowsOf
  <1>7. gone \subseteq D \ {key} /\ Cardinality(gone) = Cardinality(V) /\ Cardinality(V) \in Nat
    <2>1. D \ {key} \in SUBSET Keys
      BY <1>1
    <2>2. /\ IsFiniteSet(V)
          /\ gone \subseteq D \ {key}
          /\ Cardinality(gone) = Cardinality(V)
      BY <1>6, <2>1, RowsAsManyAsKeys
    <2> QED
      BY <2>2, FS_CardinalityType
  <1>8. KeyNumbers(e) /\ KeyNumbers(p) /\ KeyNumbers(w)
    <2>1. clock \div UnitsPerSec \in Nat
      BY <1>0, UnitsAssumption
    <2> QED
      BY <1>0, <1>1, <1>2, <2>1, WithType, WithoutType
  <1>9. DOMAIN e = (D \cup {key}) \ gone /\ DOMAIN p = (D \cup {key}) \ gone
    BY <1>1 DEF With, Without
  <1>10. o = {<<p[k], k>> : k \in DOMAIN p}
    <2>1. p[key] = NextStamp /\ \A k \in D \ (gone \cup {key}) : p[k] = pos[kind][k]
      BY <1>1, <1>7 DEF With, Without
    <2>2. RowsWithoutOld(kind, key) = {<<pos[kind][k], k>> : k \in D \ {key}}
      BY <1>1 DEF RowsWithoutOld
    <2>3. ASSUME NEW k \in D \ {key}
          PROVE  <<pos[kind][k], k>> \in V <=> k \in gone
      BY <1>6 DEF RowsOf, KeysOf
    <2>4. <<NextStamp, key>> \notin V
      BY <1>6 DEF RowsOf
    <2>5. ASSUME NEW r \in o PROVE r \in {<<p[k], k>> : k \in DOMAIN p}
      BY <1>7, <1>9, <2>1, <2>2, <2>3, <2>5
    <2>6. ASSUME NEW k \in DOMAIN p PROVE <<p[k], k>> \in o
      BY <1>7, <1>9, <2>1, <2>2, <2>3, <2>4, <2>6
    <2> HIDE DEF o, p
    <2> QED
      BY <2>5, <2>6
  <1>11. c = Cardinality(DOMAIN e) /\ c \in Nat
    <2>1. IsFiniteSet(D \cup {key}) /\ gone \in SUBSET (D \cup {key})
      BY <1>1, <1>7, KeySetFinite
    <2>2. Cardinality((D \cup {key}) \ gone) = n - Cardinality(gone)
      BY <1>3, <2>1, DifferenceSize
    <2>3. Cardinality((D \cup {key}) \ gone) \in Nat
      BY <1>1, KeySetFinite
    <2> QED
      BY <1>7, <1>9, <2>2, <2>3
  <1>12. /\ entry' = [entry EXCEPT ![kind] = e]
         /\ pos' = [pos EXCEPT ![kind] = p]
         /\ order' = [order EXCEPT ![kind] = o]
         /\ count' = [count EXCEPT ![kind] = c]
         /\ wrote' = [wrote EXCEPT ![kind] = w]
    BY <1>5
  <1>13. /\ last' \in Nat /\ max' \in Nat /\ clock' \in Nat /\ writes' \in Nat /\ opened' \in Nat
         /\ steady' \in BOOLEAN
    BY <1>0, <1>2 DEF put_bounded, IndexInv, TypeOK
  <1>14. c \in Nat \cup {NoRow} /\ c # NoRow /\ DOMAIN p = DOMAIN e
    BY <1>9, <1>11
  <1> HIDE DEF D, n, e, p, w, o, c, gone
  <1> QED
    BY <1>0, <1>8, <1>10, <1>11, <1>12, <1>13, <1>14, KindStep

\* Every operation of the store keeps the index invariant.
LEMMA NextIndexInv == IndexInv /\ [Next]_vars => IndexInv'
  <1> SUFFICES ASSUME IndexInv, [Next]_vars PROVE IndexInv'
    OBVIOUS
  <1>1. ASSUME NEW cap \in Caps, Open(cap) PROVE IndexInv'
    BY <1>1, OpenIndexInv
  <1>2. ASSUME Crash \/ ClockStep \/ PutFails PROVE IndexInv'
    <2>1. KeyedNumbers(entry)' /\ KeyedNumbers(pos)' /\ KeyedNumbers(wrote)'
      BY <1>2 DEF IndexInv, TypeOK, Crash, ClockStep, PutFails, disk, history
    <2>2. /\ last' \in Nat /\ max' \in Nat /\ clock' \in Nat /\ up' \in BOOLEAN
          /\ writes' \in Nat /\ opened' \in Nat /\ steady' \in BOOLEAN
      <3>1. NextStamp \in Nat
        BY DEF IndexInv, TypeOK, NextStamp
      <3>2. CASE Crash
        BY <3>2 DEF IndexInv, TypeOK, Crash, history
      <3>3. CASE ClockStep
        BY <3>3, BoundsAssumption DEF IndexInv, TypeOK, ClockStep, history
      <3>4. CASE PutFails
        BY <3>1, <3>4 DEF IndexInv, TypeOK, PutFails, history
      <3> QED
        BY <1>2, <3>2, <3>3, <3>4
    <2>3. order' = order /\ count' = count
      BY <1>2 DEF Crash, ClockStep, PutFails, disk
    <2>4. TypeOK'
      BY <2>1, <2>2, <2>3 DEF IndexInv, TypeOK
    <2>5. IndexConsistent'
      BY <1>2 DEF IndexInv, IndexConsistent, IndexMatches, Crash, ClockStep, PutFails, disk
    <2> QED
      BY <2>4, <2>5 DEF IndexInv
  <1>3. ASSUME NEW kind \in Kinds, NEW key \in Keys, put_bounded(kind, key) PROVE IndexInv'
    BY <1>3, PutIndexInv
  <1>4. ASSUME NEW kind \in Kinds, NEW key \in Keys, delete_key(kind, key) PROVE IndexInv'
    BY <1>4, RemoveIndexInv DEF delete_key
  <1>5. ASSUME NEW kind \in Kinds, sweep_prefix(kind) PROVE IndexInv'
    BY <1>5, RemoveIndexInv DEF sweep_prefix
  <1>6. ASSUME UNCHANGED vars PROVE IndexInv'
    BY <1>6 DEF vars, IndexInv, TypeOK, KeyedNumbers, KeyNumbers, IndexConsistent, IndexMatches
  <1> QED
    BY <1>1, <1>2, <1>3, <1>4, <1>5, <1>6 DEF Next

(***************************************************************************)
(* Type correctness of the store's rows, for all constants.                *)
(***************************************************************************)
THEOREM TypeCorrect == Spec => []TypeOK
  <1>1. IndexInv => TypeOK
    BY DEF IndexInv
  <1> QED
    BY <1>1, InitIndexInv, NextIndexInv, PTL DEF Spec

(***************************************************************************)
(* The FIFO index and the count row never drift from the records, for any  *)
(* number of kinds and keys, any capacities set across restarts, and any   *)
(* behaviour of the clock (comment on put_bounded, store.rs).              *)
(***************************************************************************)
THEOREM IndexNeverDrifts == Spec => []IndexConsistent
  <1>1. IndexInv => IndexConsistent
    BY DEF IndexInv
  <1> QED
    BY <1>1, InitIndexInv, NextIndexInv, PTL DEF Spec

-----------------------------------------------------------------------------
(* Write order *)

\* Every record has a write number, below the counter and of its own.
WriteNumbers ==
    \A kind \in Kinds :
        /\ DOMAIN wrote[kind] = DOMAIN entry[kind]
        /\ \A k \in DOMAIN entry[kind] : wrote[kind][k] < writes
        /\ \A j, k \in DOMAIN entry[kind] : wrote[kind][j] = wrote[kind][k] => j = k

\* Before it is indexed, a kind was written in the order of fetched_at.
LegacyOrder ==
    \A kind \in Kinds : count[kind] = NoRow =>
        \A j, k \in DOMAIN entry[kind] :
            wrote[kind][j] < wrote[kind][k] => FetchedBefore(entry[kind], j, k)

\* With a steady clock, the next stamp is above every row.
StampsBehind ==
    steady /\ up =>
        \A kind \in Kinds : \A r \in order[kind] : r[1] <= last \/ r[1] < clock

\* Whatever the clock does, a row written in this run is not above `last'.
RunStamps ==
    \A kind \in Kinds : \A r \in order[kind] :
        opened <= wrote[kind][r[2]] => r[1] <= last

OrderInv ==
    /\ up => max >= 1
    /\ WriteNumbers
    /\ LegacyOrder
    /\ StampsBehind
    /\ IndexFollowsWriteOrder
    /\ opened <= writes
    /\ RunStamps
    /\ OrderWithinRun

\* The rank of a record in the order of fetched_at is monotone in that order.
LEMMA RankMonotone ==
    ASSUME NEW f, KeyNumbers(f), NEW a \in DOMAIN f, NEW b \in DOMAIN f,
           FetchedBefore(f, a, b)
    PROVE  /\ FetchRank(f, a) \in Nat /\ FetchRank(f, b) \in Nat
           /\ FetchRank(f, a) < FetchRank(f, b)
  <1> DEFINE R(k) == {j \in DOMAIN f : FetchedBefore(f, j, k)}
  <1>1. DOMAIN f \subseteq Nat /\ \A k \in DOMAIN f : f[k] \in Nat
    BY KeysAssumption DEF KeyNumbers
  <1>2. R(a) \subseteq R(b)
    BY <1>1 DEF FetchedBefore, Before
  <1>3. a \in R(b) /\ a \notin R(a)
    BY <1>1 DEF FetchedBefore, Before
  <1>4. IsFiniteSet(R(b)) /\ R(a) \in SUBSET R(b) /\ Cardinality(R(a)) \in Nat /\ Cardinality(R(b)) \in Nat
    <2>1. R(a) \in SUBSET Keys /\ R(b) \in SUBSET Keys
      BY DEF KeyNumbers
    <2> QED
      BY <1>2, <2>1, KeySetFinite
  <1>5. Cardinality(R(a)) <= Cardinality(R(b)) /\ Cardinality(R(a)) # Cardinality(R(b))
    BY <1>3, <1>4, FS_Subset
  <1> QED
    BY <1>4, <1>5 DEF FetchRank

\* (fetched_at, key) orders any two records.
LEMMA FetchedTotal ==
    ASSUME NEW f, KeyNumbers(f), NEW a \in DOMAIN f, NEW b \in DOMAIN f, a # b
    PROVE  FetchedBefore(f, a, b) \/ FetchedBefore(f, b, a)
  <1>1. a \in Nat /\ b \in Nat /\ f[a] \in Nat /\ f[b] \in Nat
    BY KeysAssumption DEF KeyNumbers
  <1> QED
    BY <1>1 DEF FetchedBefore, Before

\* The records of an old database are in the order of their fetched_at.
LEMMA InitOrderInv == Init => OrderInv
  <1> SUFFICES ASSUME Init PROVE OrderInv
    OBVIOUS
  <1>0. IndexInv
    BY InitIndexInv
  <1>1. ASSUME NEW kind \in Kinds
        PROVE  /\ KeyNumbers(entry[kind])
               /\ DOMAIN wrote[kind] = DOMAIN entry[kind]
               /\ \A k \in DOMAIN entry[kind] : wrote[kind][k] = FetchRank(entry[kind], k)
    BY <1>0 DEF Init, IndexInv, TypeOK, KeyedNumbers
  <1>2. ASSUME NEW kind \in Kinds, NEW k \in DOMAIN entry[kind]
        PROVE  wrote[kind][k] < writes
    <2> DEFINE R == {j \in DOMAIN entry[kind] : FetchedBefore(entry[kind], j, k)}
    <2>1. k \in Keys /\ k \in Nat /\ entry[kind][k] \in Nat
      BY <1>1, KeysAssumption DEF KeyNumbers
    <2>2. k \notin R
      BY <2>1 DEF FetchedBefore, Before
    <2>3. R \in SUBSET Keys /\ R # Keys
      BY <1>1, <2>1, <2>2 DEF KeyNumbers
    <2>4. Cardinality(R) <= Cardinality(Keys) /\ Cardinality(R) # Cardinality(Keys)
      BY <2>3, KeysAssumption, FS_Subset
    <2>5. Cardinality(R) \in Nat /\ Cardinality(Keys) \in Nat
      BY <2>3, KeySetFinite
    <2>6. wrote[kind][k] = Cardinality(R) /\ writes = Cardinality(Keys)
      BY <1>1 DEF Init, FetchRank
    <2> QED
      BY <2>4, <2>5, <2>6
  <1>3. ASSUME NEW kind \in Kinds, NEW j \in DOMAIN entry[kind], NEW k \in DOMAIN entry[kind], j # k
        PROVE  /\ wrote[kind][j] # wrote[kind][k]
               /\ wrote[kind][j] < wrote[kind][k] => FetchedBefore(entry[kind], j, k)
    <2>1. KeyNumbers(entry[kind])
      BY <1>1
    <2>2. CASE FetchedBefore(entry[kind], j, k)
      <3>1. wrote[kind][j] \in Nat /\ wrote[kind][k] \in Nat /\ wrote[kind][j] < wrote[kind][k]
        BY <1>1, <2>1, <2>2, RankMonotone
      <3> QED
        BY <2>2, <3>1
    <2>3. CASE FetchedBefore(entry[kind], k, j)
      <3>1. wrote[kind][j] \in Nat /\ wrote[kind][k] \in Nat /\ wrote[kind][k] < wrote[kind][j]
        BY <1>1, <2>1, <2>3, RankMonotone
      <3> QED
        BY <3>1
    <2> QED
      BY <1>3, <2>1, <2>2, <2>3, FetchedTotal
  <1>4. ASSUME NEW kind \in Kinds, NEW j \in DOMAIN entry[kind]
        PROVE  ~(wrote[kind][j] < wrote[kind][j])
    <2>1. wrote[kind][j] \in Nat
      BY <1>0, <1>1 DEF IndexInv, TypeOK, KeyedNumbers, KeyNumbers
    <2> QED
      BY <2>1
  <1>5. WriteNumbers
    BY <1>1, <1>2, <1>3 DEF WriteNumbers
  <1>6. LegacyOrder
    BY <1>3, <1>4 DEF LegacyOrder
  <1>7. StampsBehind /\ IndexFollowsWriteOrder /\ RunStamps /\ OrderWithinRun
    BY DEF Init, StampsBehind, IndexFollowsWriteOrder, RunStamps, OrderWithinRun
  <1>8. opened <= writes
    BY <1>0 DEF Init, IndexInv, TypeOK
  <1> QED
    BY <1>5, <1>6, <1>7, <1>8 DEF OrderInv, Init

\* An indexed legacy record comes where fetched_at puts it.
LEMMA LegacyStampsOrdered ==
    ASSUME NEW kind \in Kinds, KeyNumbers(entry[kind]),
           NEW a \in DOMAIN entry[kind], NEW b \in DOMAIN entry[kind],
           FetchedBefore(entry[kind], a, b)
    PROVE  Before(<<LegacyStamp(kind, a), a>>, <<LegacyStamp(kind, b), b>>)
  <1>1. /\ FetchRank(entry[kind], a) \in Nat /\ FetchRank(entry[kind], b) \in Nat
        /\ FetchRank(entry[kind], a) < FetchRank(entry[kind], b)
    BY RankMonotone
  <1>2. entry[kind][a] \in Nat /\ entry[kind][b] \in Nat /\ entry[kind][a] <= entry[kind][b]
    BY DEF KeyNumbers, FetchedBefore, Before
  <1>3. \A x, y, u \in Nat : x <= y => x * u <= y * u /\ x * u \in Nat /\ y * u \in Nat
    OBVIOUS
  <1>4. /\ entry[kind][a] * UnitsPerSec <= entry[kind][b] * UnitsPerSec
        /\ entry[kind][a] * UnitsPerSec \in Nat
        /\ entry[kind][b] * UnitsPerSec \in Nat
    BY <1>2, <1>3, UnitsAssumption
  <1>5. LegacyStamp(kind, a) < LegacyStamp(kind, b)
    BY <1>1, <1>4 DEF LegacyStamp
  <1> QED
    BY <1>5 DEF Before

\* Store::open keeps the write order of the index rows, old or just made.
LEMMA OpenOrderInv ==
    ASSUME IndexInv, OrderInv, NEW cap \in Caps, Open(cap)
    PROVE  OrderInv'
  <1>1. entry' = entry /\ wrote' = wrote /\ writes' = writes /\ clock' = clock /\ opened' = writes
    BY DEF Open
  <1>2. ASSUME NEW kind \in Kinds
        PROVE  /\ KeyNumbers(entry[kind])
               /\ KeyNumbers(wrote[kind])
               /\ pos'[kind] = PosAfterOpen(kind)
               /\ order'[kind] = OrderAfterOpen(kind)
               /\ count'[kind] = CountAfterOpen(kind)
    BY DEF Open, IndexInv, TypeOK, KeyedNumbers
  <1>3. ASSUME NEW kind \in Kinds, NEW r \in order'[kind]
        PROVE  r[2] \in DOMAIN entry[kind]
    <2>1. CASE Unindexed(kind)
      <3>1. r \in {<<LegacyStamp(kind, k), k>> : k \in DOMAIN entry[kind]}
        BY <1>2, <2>1 DEF OrderAfterOpen
      <3> QED
        BY <3>1
    <2>2. CASE ~Unindexed(kind)
      <3>1. r \in order[kind]
        BY <1>2, <2>2 DEF OrderAfterOpen
      <3>2. count[kind] # NoRow
        BY <3>1 DEF IndexInv, IndexConsistent
      <3>3. r \in RowsOf(pos[kind], DOMAIN pos[kind]) /\ DOMAIN pos[kind] = DOMAIN entry[kind]
        BY <3>1, <3>2 DEF IndexInv, IndexConsistent, IndexMatches
      <3> QED
        BY <3>3 DEF RowsOf
    <2> QED
      BY <2>1, <2>2
  <1>4. up' /\ max' >= 1
    BY CapsAssumption DEF Open
  <1>5. WriteNumbers'
    BY <1>1 DEF OrderInv, WriteNumbers
  <1>6. LegacyOrder'
    <2>1. ASSUME NEW kind \in Kinds, count'[kind] = NoRow
          PROVE  count[kind] = NoRow
      <3>1. Unindexed(kind) => Cardinality(DOMAIN entry[kind]) \in Nat
        BY <1>2, KeySetFinite DEF KeyNumbers
      <3> QED
        BY <1>2, <2>1, <3>1 DEF CountAfterOpen
    <2> QED
      BY <1>1, <2>1 DEF OrderInv, LegacyOrder
  <1>7. StampsBehind'
    BY <1>1 DEF StampsBehind, Open
  <1>8. IndexFollowsWriteOrder'
    <2> SUFFICES ASSUME steady, NEW kind \in Kinds, NEW r \in order'[kind], NEW q \in order'[kind],
                        wrote[kind][r[2]] < wrote[kind][q[2]]
                 PROVE  Before(r, q)
      BY <1>1 DEF IndexFollowsWriteOrder, Open
    <2>1. CASE Unindexed(kind)
      <3>1. PICK a \in DOMAIN entry[kind] : r = <<LegacyStamp(kind, a), a>>
        BY <1>2, <2>1 DEF OrderAfterOpen
      <3>2. PICK b \in DOMAIN entry[kind] : q = <<LegacyStamp(kind, b), b>>
        BY <1>2, <2>1 DEF OrderAfterOpen
      <3>3. FetchedBefore(entry[kind], a, b)
        BY <2>1, <3>1, <3>2 DEF OrderInv, LegacyOrder, Unindexed
      <3> QED
        BY <1>2, <3>1, <3>2, <3>3, LegacyStampsOrdered
    <2>2. CASE ~Unindexed(kind)
      BY <1>2, <2>2 DEF OrderAfterOpen, OrderInv, IndexFollowsWriteOrder
    <2> QED
      BY <2>1, <2>2
  <1>9. ASSUME NEW kind \in Kinds, NEW r \in order'[kind]
        PROVE  ~(opened' <= wrote'[kind][r[2]])
    <2>1. r[2] \in DOMAIN entry[kind]
      BY <1>3, <1>9
    <2>2. wrote[kind][r[2]] < writes /\ wrote[kind][r[2]] \in Nat /\ writes \in Nat
      BY <1>2, <2>1 DEF OrderInv, WriteNumbers, KeyNumbers, IndexInv, TypeOK
    <2> QED
      BY <1>1, <2>2
  <1>10. RunStamps' /\ OrderWithinRun'
    BY <1>9 DEF RunStamps, OrderWithinRun
  <1>11. opened' <= writes'
    BY <1>1 DEF IndexInv, TypeOK
  <1> QED
    BY <1>4, <1>5, <1>6, <1>7, <1>8, <1>10, <1>11 DEF OrderInv

\* A crash, a clock step and a failed batch touch no index row.
LEMMA QuietOrderInv ==
    ASSUME IndexInv, OrderInv, Crash \/ ClockStep \/ PutFails \/ UNCHANGED vars
    PROVE  OrderInv'
  <1>1. /\ entry' = entry /\ pos' = pos /\ order' = order /\ count' = count
        /\ wrote' = wrote /\ writes' = writes /\ opened' = opened /\ max' = max
    BY DEF Crash, ClockStep, PutFails, vars, disk, history
  <1>2. up' => up
    BY DEF Crash, ClockStep, PutFails, vars
  <1>3. /\ last \in Nat /\ last' \in Nat /\ last <= last'
        /\ clock \in Nat /\ clock' \in Nat
        /\ steady' => steady /\ clock <= clock'
    <2>1. last \in Nat /\ clock \in Nat
      BY DEF IndexInv, TypeOK
    <2>2. CASE Crash
      BY <2>1, <2>2 DEF Crash, history
    <2>3. CASE ClockStep
      <3>1. steady' => steady /\ clock' >= clock
        BY <2>3, Zenon DEF ClockStep
      <3>2. last' = last /\ clock' \in Nat
        BY <2>1, <2>3, BoundsAssumption DEF ClockStep
      <3> QED
        BY <2>1, <3>1, <3>2
    <2>4. CASE PutFails
      BY <2>1, <2>4 DEF PutFails, NextStamp, history
    <2>5. CASE UNCHANGED vars
      BY <2>1, <2>5 DEF vars
    <2> QED
      BY <2>2, <2>3, <2>4, <2>5
  <1>4. ASSUME NEW kind \in Kinds, NEW r \in order[kind]
        PROVE  r[1] \in Nat
    BY DEF IndexInv, TypeOK
  <1>5. StampsBehind'
    BY <1>1, <1>2, <1>3, <1>4 DEF OrderInv, StampsBehind
  <1>6. RunStamps'
    BY <1>1, <1>3, <1>4 DEF OrderInv, RunStamps
  <1>7. WriteNumbers' /\ LegacyOrder' /\ OrderWithinRun'
    BY <1>1 DEF OrderInv, WriteNumbers, LegacyOrder, OrderWithinRun
  <1>8. IndexFollowsWriteOrder'
    BY <1>1, <1>3 DEF OrderInv, IndexFollowsWriteOrder
  <1> QED
    BY <1>1, <1>2, <1>5, <1>6, <1>7, <1>8 DEF OrderInv

(***************************************************************************)
(* What a put does to the records of its kind, in terms of the keys gone:  *)
(* exactly the excess over the cap, never the key written, and in index    *)
(* order before every key that stays.                                      *)
(***************************************************************************)
PutEffect(kind, key, gone) ==
    LET D    == DOMAIN entry[kind]
        kept == (D \cup {key}) \ gone
    IN  /\ gone \subseteq D \ {key}
        /\ Cardinality(gone) = IF Cardinality(D \cup {key}) > max
                               THEN Cardinality(D \cup {key}) - max ELSE 0
        /\ \A d \in gone, k \in (D \ {key}) \ gone :
               Before(<<pos[kind][d], d>>, <<pos[kind][k], k>>)
        /\ DOMAIN entry'[kind] = kept
        /\ DOMAIN wrote'[kind] = (DOMAIN wrote[kind] \cup {key}) \ gone
        /\ wrote'[kind][key] = writes
        /\ \A k \in (DOMAIN wrote[kind] \ {key}) \ gone : wrote'[kind][k] = wrote[kind][k]
        /\ order'[kind] = RowsOf(pos[kind], (D \ {key}) \ gone) \cup {<<NextStamp, key>>}
        /\ count'[kind] # NoRow
        /\ \A j \in Kinds \ {kind} :
               /\ entry'[j] = entry[j] /\ wrote'[j] = wrote[j]
               /\ order'[j] = order[j] /\ count'[j] = count[j]

\* What put_bounded does to the rows, positions and history of its kind.
LEMMA PutHasEffect ==
    ASSUME IndexInv, max >= 1, NEW kind \in Kinds, NEW key \in Keys, put_bounded(kind, key)
    PROVE  \E gone : PutEffect(kind, key, gone)
  <1> DEFINE D == DOMAIN entry[kind]
             n == CountWith(kind, key)
             rows == {r \in order[kind] : r[2] # key}
  <1>0. up /\ clock \in Nat /\ last \in Nat /\ writes \in Nat /\ max \in Nat
    BY DEF put_bounded, IndexInv, TypeOK
  <1>1. /\ DOMAIN pos[kind] = D
        /\ D \in SUBSET Keys
        /\ order[kind] = {<<pos[kind][k], k>> : k \in D}
        /\ readthrough_count(kind) = Cardinality(D)
        /\ readthrough_count(kind) \in Nat
    BY <1>0, OpenKind
  <1>2. n = Cardinality(D \cup {key}) /\ n \in Nat
    BY <1>1, KeySetFinite, FS_AddElement DEF CountWith
  <1>3. PICK V \in Victims(kind, key, Excess(n)) :
           LET gone == KeysOf(V) IN
           /\ entry' = [entry EXCEPT ![kind] =
                           Without(With(@, key, clock \div UnitsPerSec), gone)]
           /\ order' = [order EXCEPT ![kind] =
                           (RowsWithoutOld(kind, key) \cup {<<NextStamp, key>>}) \ V]
           /\ count' = [count EXCEPT ![kind] = n - Cardinality(V)]
           /\ wrote' = [wrote EXCEPT ![kind] = Without(With(@, key, writes), gone)]
    BY DEF put_bounded
  <1> DEFINE gone == KeysOf(V)
  <1>4. rows = RowsOf(pos[kind], D \ {key}) /\ V \subseteq rows
    BY <1>1 DEF Victims, RowsOf
  <1>5. D \ {key} \in SUBSET Keys
    BY <1>1
  <1>6. gone \subseteq D \ {key} /\ Cardinality(gone) = Cardinality(V) /\ IsFiniteSet(V)
    BY <1>4, <1>5, RowsAsManyAsKeys
  <1>7. Cardinality(rows) = Cardinality(D \ {key})
    <2>1. KeysOf(rows) = D \ {key}
      <3>1. ASSUME NEW k \in D \ {key} PROVE k \in KeysOf(rows)
        <4>1. <<pos[kind][k], k>> \in rows
          BY <1>4 DEF RowsOf
        <4> HIDE DEF rows
        <4> QED
          BY <4>1 DEF KeysOf
      <3>2. ASSUME NEW k \in KeysOf(rows) PROVE k \in D \ {key}
        <4> HIDE DEF rows
        <4> QED
          BY <1>4 DEF RowsOf, KeysOf
      <3> QED
        BY <3>1, <3>2
    <2>2. rows \subseteq RowsOf(pos[kind], D \ {key})
      BY <1>4
    <2> QED
      BY <1>5, <2>1, <2>2, RowsAsManyAsKeys
  <1>8. Cardinality(V) = Excess(n)
    <2>1. Cardinality(V) = IF Excess(n) < Cardinality(rows) THEN Excess(n) ELSE Cardinality(rows)
      BY DEF Victims
    <2>2. D \ {key} = (D \cup {key}) \ {key}
      OBVIOUS
    <2>3. Cardinality(D \ {key}) = n - 1
      <3>1. IsFiniteSet(D \cup {key})
        BY <1>1, KeySetFinite
      <3>2. Cardinality((D \cup {key}) \ {key}) = Cardinality(D \cup {key}) - 1
        BY <3>1, FS_RemoveElement
      <3> QED
        BY <1>2, <2>2, <3>2
    <2>4. Excess(n) \in Nat /\ Excess(n) <= n - 1
      <3>1. n >= 1
        BY <1>2, <2>3, <1>5, KeySetFinite
      <3> QED
        BY <1>0, <1>2, <3>1 DEF Excess
    <2> QED
      BY <1>2, <1>7, <2>1, <2>3, <2>4
  <1>9. ASSUME NEW d \in gone, NEW k \in (D \ {key}) \ gone
        PROVE  Before(<<pos[kind][d], d>>, <<pos[kind][k], k>>)
    <2>1. <<pos[kind][d], d>> \in V
      BY <1>4 DEF RowsOf, KeysOf
    <2>2. <<pos[kind][k], k>> \in rows \ V
      BY <1>4 DEF RowsOf, KeysOf
    <2> QED
      BY <2>1, <2>2 DEF Victims
  <1>10. /\ entry'[kind] = Without(With(entry[kind], key, clock \div UnitsPerSec), gone)
         /\ wrote'[kind] = Without(With(wrote[kind], key, writes), gone)
         /\ order'[kind] = (RowsWithoutOld(kind, key) \cup {<<NextStamp, key>>}) \ V
         /\ count'[kind] = n - Cardinality(V)
         /\ \A j \in Kinds \ {kind} :
               /\ entry'[j] = entry[j] /\ wrote'[j] = wrote[j]
               /\ order'[j] = order[j] /\ count'[j] = count[j]
    BY <1>3 DEF IndexInv, TypeOK, KeyedNumbers
  <1>11. /\ DOMAIN entry'[kind] = (D \cup {key}) \ gone
         /\ DOMAIN wrote'[kind] = (DOMAIN wrote[kind] \cup {key}) \ gone
         /\ wrote'[kind][key] = writes
         /\ \A k \in (DOMAIN wrote[kind] \ {key}) \ gone : wrote'[kind][k] = wrote[kind][k]
    BY <1>6, <1>10 DEF With, Without
  <1>12. order'[kind] = RowsOf(pos[kind], (D \ {key}) \ gone) \cup {<<NextStamp, key>>}
    <2>1. RowsWithoutOld(kind, key) = RowsOf(pos[kind], D \ {key})
      BY <1>1 DEF RowsWithoutOld, RowsOf
    <2>2. <<NextStamp, key>> \notin V
      BY <1>4 DEF RowsOf
    <2>3. RowsOf(pos[kind], D \ {key}) \ V = RowsOf(pos[kind], (D \ {key}) \ gone)
      BY <1>4 DEF RowsOf, KeysOf
    <2> QED
      BY <1>10, <2>1, <2>2, <2>3
  <1>13. count'[kind] # NoRow
    BY <1>0, <1>2, <1>8, <1>10 DEF Excess
  <1>14. Cardinality(gone) = IF Cardinality(D \cup {key}) > max
                               THEN Cardinality(D \cup {key}) - max ELSE 0
    BY <1>2, <1>6, <1>8 DEF Excess
  <1>15. PutEffect(kind, key, gone)
    BY <1>6, <1>9, <1>10, <1>11, <1>12, <1>13, <1>14 DEF PutEffect
  <1> QED
    BY <1>15

\* put_bounded keeps the write order: its stamp is above those it follows.
LEMMA PutOrderInv ==
    ASSUME IndexInv, OrderInv, NEW kind \in Kinds, NEW key \in Keys, put_bounded(kind, key)
    PROVE  OrderInv'
  <1> DEFINE D == DOMAIN entry[kind]
  <1>0. /\ up /\ up' = up /\ max' = max /\ max >= 1 /\ clock' = clock /\ opened' = opened
        /\ steady' = steady
        /\ last' = NextStamp /\ writes' = writes + 1
        /\ clock \in Nat /\ last \in Nat /\ writes \in Nat /\ opened \in Nat
    BY DEF put_bounded, IndexInv, TypeOK, OrderInv
  <1>1. PICK gone : PutEffect(kind, key, gone)
    BY <1>0, PutHasEffect
  <1> DEFINE kept == (D \ {key}) \ gone
  <1>2. /\ gone \subseteq D \ {key}
        /\ DOMAIN entry'[kind] = kept \cup {key}
        /\ DOMAIN wrote'[kind] = kept \cup {key}
        /\ wrote'[kind][key] = writes
        /\ \A k \in kept : wrote'[kind][k] = wrote[kind][k]
        /\ order'[kind] = RowsOf(pos[kind], kept) \cup {<<NextStamp, key>>}
        /\ count'[kind] # NoRow
        /\ \A j \in Kinds \ {kind} :
               /\ entry'[j] = entry[j] /\ wrote'[j] = wrote[j]
               /\ order'[j] = order[j] /\ count'[j] = count[j]
    BY <1>1 DEF PutEffect, OrderInv, WriteNumbers
  <1>3. ASSUME NEW j \in Kinds, NEW k \in DOMAIN entry[j]
        PROVE  wrote[j][k] \in Nat /\ wrote[j][k] < writes
    BY DEF OrderInv, WriteNumbers, IndexInv, TypeOK, KeyedNumbers, KeyNumbers
  <1>4. order[kind] = RowsOf(pos[kind], D)
    BY <1>0, OpenKind DEF RowsOf
  \* A row after the put is a row from before, with its write number, or the new one.
  <1>5. ASSUME NEW j \in Kinds, NEW r \in order'[j]
        PROVE  \/ /\ r \in order[j] /\ r[1] \in Nat
                  /\ r[2] \in DOMAIN entry[j]
                  /\ wrote'[j][r[2]] = wrote[j][r[2]]
                  /\ wrote[j][r[2]] \in Nat /\ wrote[j][r[2]] < writes
               \/ j = kind /\ r = <<NextStamp, key>> /\ wrote'[j][r[2]] = writes
    <2>1. \A i \in Kinds : \A s \in order[i] : s[1] \in Nat
      BY DEF IndexInv, TypeOK
    <2>2. CASE j # kind
      <3>1. r \in order[j] /\ wrote'[j] = wrote[j]
        BY <1>2, <2>2
      <3>2. order[j] = {<<pos[j][k], k>> : k \in DOMAIN pos[j]} /\ DOMAIN pos[j] = DOMAIN entry[j]
        BY <1>0, OpenKind
      <3>3. r[2] \in DOMAIN entry[j]
        BY <3>1, <3>2
      <3> QED
        BY <1>3, <2>1, <3>1, <3>3
    <2>3. CASE j = kind /\ r = <<NextStamp, key>>
      BY <1>2, <2>3
    <2>4. CASE j = kind /\ r \in RowsOf(pos[kind], kept)
      <3>1. PICK k \in kept : r = <<pos[kind][k], k>>
        BY <2>4 DEF RowsOf
      <3>2. r \in order[j]
        BY <1>4, <2>4, <3>1 DEF RowsOf
      <3>3. r[2] = k /\ k \in D
        BY <3>1
      <3> QED
        BY <1>2, <1>3, <2>1, <2>4, <3>2, <3>3
    <2> QED
      BY <1>2, <2>2, <2>3, <2>4
  <1>6. WriteNumbers'
    <2> SUFFICES ASSUME NEW j \in Kinds
                 PROVE  /\ DOMAIN wrote'[j] = DOMAIN entry'[j]
                        /\ \A k \in DOMAIN entry'[j] : wrote'[j][k] < writes'
                        /\ \A i, k \in DOMAIN entry'[j] : wrote'[j][i] = wrote'[j][k] => i = k
      BY DEF WriteNumbers
    <2>1. CASE j # kind
      <3>1. entry'[j] = entry[j] /\ wrote'[j] = wrote[j]
        BY <1>2, <2>1
      <3>2. \A k \in DOMAIN entry[j] : wrote[j][k] < writes + 1
        BY <1>0, <1>3
      <3> QED
        BY <1>0, <3>1, <3>2 DEF OrderInv, WriteNumbers
    <2>2. CASE j = kind
      <3>1. \A k \in kept : wrote'[kind][k] = wrote[kind][k] /\ wrote[kind][k] \in Nat /\ wrote[kind][k] < writes
        BY <1>2, <1>3
      <3>2. \A i, k \in kept : wrote[kind][i] = wrote[kind][k] => i = k
        BY DEF OrderInv, WriteNumbers
      <3> HIDE DEF kept
      <3>3. \A k \in kept \cup {key} : wrote'[kind][k] < writes'
        BY <1>0, <1>2, <3>1
      <3>4. \A i, k \in kept \cup {key} : wrote'[kind][i] = wrote'[kind][k] => i = k
        BY <1>0, <1>2, <3>1, <3>2
      <3> QED
        BY <1>2, <2>2, <3>3, <3>4
    <2> QED
      BY <2>1, <2>2
  <1>7. LegacyOrder'
    BY <1>2 DEF OrderInv, LegacyOrder
  <1>8. NextStamp \in Nat /\ NextStamp > last /\ NextStamp >= clock
    BY <1>0 DEF NextStamp
  <1>9. StampsBehind'
    <2> SUFFICES ASSUME steady, NEW j \in Kinds, NEW r \in order'[j]
                 PROVE  r[1] <= last' \/ r[1] < clock'
      BY <1>0 DEF StampsBehind
    <2>1. CASE r \in order[j] /\ r[1] \in Nat
      BY <1>0, <1>8, <2>1 DEF OrderInv, StampsBehind
    <2>2. CASE r = <<NextStamp, key>>
      BY <1>0, <1>8, <2>2
    <2> QED
      BY <1>5, <2>1, <2>2
  <1>10. IndexFollowsWriteOrder'
    <2> SUFFICES ASSUME steady, NEW j \in Kinds, NEW r \in order'[j], NEW q \in order'[j],
                        wrote'[j][r[2]] < wrote'[j][q[2]]
                 PROVE  Before(r, q)
      BY <1>0 DEF IndexFollowsWriteOrder
    <2>1. CASE r \in order[j] /\ q \in order[j] /\ wrote'[j][r[2]] = wrote[j][r[2]]
               /\ wrote'[j][q[2]] = wrote[j][q[2]]
      BY <2>1 DEF OrderInv, IndexFollowsWriteOrder
    <2>2. CASE r \in order[j] /\ r[1] \in Nat /\ q = <<NextStamp, key>>
      <3>1. r[1] <= last \/ r[1] < clock
        BY <1>0, <2>2 DEF OrderInv, StampsBehind
      <3> QED
        BY <1>0, <1>8, <2>2, <3>1 DEF Before
    <2>3. CASE wrote'[j][r[2]] = writes
      BY <1>0, <1>5, <2>3
    <2> QED
      BY <1>5, <2>1, <2>2, <2>3
  <1>11. RunStamps'
    <2> SUFFICES ASSUME NEW j \in Kinds, NEW r \in order'[j], opened <= wrote'[j][r[2]]
                 PROVE  r[1] <= last'
      BY <1>0 DEF RunStamps
    <2>1. CASE r \in order[j] /\ r[1] \in Nat /\ wrote'[j][r[2]] = wrote[j][r[2]]
      <3>1. r[1] <= last
        BY <2>1 DEF OrderInv, RunStamps
      <3> QED
        BY <1>0, <1>8, <2>1, <3>1
    <2>2. CASE r = <<NextStamp, key>>
      BY <1>0, <1>8, <2>2
    <2> QED
      BY <1>5, <2>1, <2>2
  <1>12. OrderWithinRun'
    <2> SUFFICES ASSUME NEW j \in Kinds, NEW r \in order'[j], NEW q \in order'[j],
                        opened <= wrote'[j][r[2]], wrote'[j][r[2]] < wrote'[j][q[2]]
                 PROVE  Before(r, q)
      BY <1>0 DEF OrderWithinRun
    <2>1. CASE r \in order[j] /\ q \in order[j] /\ wrote'[j][r[2]] = wrote[j][r[2]]
               /\ wrote'[j][q[2]] = wrote[j][q[2]]
      BY <2>1 DEF OrderInv, OrderWithinRun
    <2>2. CASE r \in order[j] /\ r[1] \in Nat /\ q = <<NextStamp, key>> /\ wrote'[j][r[2]] = wrote[j][r[2]]
      <3>1. r[1] <= last
        BY <2>2 DEF OrderInv, RunStamps
      <3> QED
        BY <1>0, <1>8, <2>2, <3>1 DEF Before
    <2>3. CASE wrote'[j][r[2]] = writes
      BY <1>0, <1>5, <2>3
    <2> QED
      BY <1>5, <2>1, <2>2, <2>3
  <1>13. opened' <= writes'
    BY <1>0 DEF OrderInv
  <1> QED
    BY <1>0, <1>6, <1>7, <1>9, <1>10, <1>11, <1>12, <1>13 DEF OrderInv

\* Deleting records (delete_key, sweep_prefix) keeps the order of the rest.
LEMMA RemoveOrderInv ==
    ASSUME IndexInv, OrderInv, NEW kind \in Kinds, NEW keys, RemoveKeys(kind, keys)
    PROVE  OrderInv'
  <1>0. /\ up /\ up' = up /\ max' = max /\ clock' = clock /\ opened' = opened
        /\ steady' = steady
        /\ last' = last /\ writes' = writes
    BY DEF RemoveKeys
  <1>1. /\ entry'[kind] = Without(entry[kind], keys)
        /\ wrote'[kind] = Without(wrote[kind], keys)
        /\ order'[kind] = Unindex(kind, keys)
        /\ count'[kind] = CountWithout(kind, keys)
        /\ \A j \in Kinds \ {kind} :
               /\ entry'[j] = entry[j] /\ wrote'[j] = wrote[j]
               /\ order'[j] = order[j] /\ count'[j] = count[j]
    BY DEF RemoveKeys, IndexInv, TypeOK, KeyedNumbers
  <1>2. ASSUME NEW j \in Kinds
        PROVE  /\ DOMAIN entry'[j] \subseteq DOMAIN entry[j]
               /\ DOMAIN wrote'[j] = DOMAIN entry'[j]
               /\ \A k \in DOMAIN entry'[j] : wrote'[j][k] = wrote[j][k] /\ entry'[j][k] = entry[j][k]
    <2>1. DOMAIN wrote[j] = DOMAIN entry[j]
      BY DEF OrderInv, WriteNumbers
    <2> QED
      BY <1>1, <2>1 DEF Without
  <1>3. ASSUME NEW j \in Kinds, NEW r \in order'[j]
        PROVE  r \in order[j] /\ wrote'[j][r[2]] = wrote[j][r[2]]
    <2>1. /\ order[j] = {<<pos[j][k], k>> : k \in DOMAIN pos[j]}
          /\ DOMAIN pos[j] = DOMAIN entry[j]
      BY <1>0, OpenKind
    <2>2. r \in order[j]
      BY <1>1 DEF Unindex
    <2>3. PICK k \in DOMAIN pos[j] : r = <<pos[j][k], k>>
      BY <2>1, <2>2
    <2>4. k \in DOMAIN entry'[j]
      <3>1. CASE j # kind
        BY <1>1, <2>1, <3>1
      <3>2. CASE j = kind
        <4>1. r \notin RowsOf(pos[kind], keys \cap DOMAIN pos[kind])
          BY <1>1, <3>2 DEF Unindex
        <4>2. k \notin keys
          BY <2>3, <3>2, <4>1 DEF RowsOf
        <4> QED
          BY <1>1, <2>1, <3>2, <4>2 DEF Without
      <3> QED
        BY <3>1, <3>2
    <2> QED
      BY <1>2, <2>2, <2>3, <2>4
  <1>4. WriteNumbers'
    BY <1>0, <1>2 DEF OrderInv, WriteNumbers
  <1>5. LegacyOrder'
    <2> SUFFICES ASSUME NEW j \in Kinds, count'[j] = NoRow,
                        NEW i \in DOMAIN entry'[j], NEW k \in DOMAIN entry'[j],
                        wrote'[j][i] < wrote'[j][k]
                 PROVE  FetchedBefore(entry'[j], i, k)
      BY DEF LegacyOrder
    <2>1. count[j] = NoRow
      <3>1. CASE j # kind
        BY <1>1, <3>1
      <3>2. CASE j = kind
        <4>1. readthrough_count(kind) \in Nat /\ DOMAIN pos[kind] \in SUBSET Keys
          BY <1>0, OpenKind
        <4>2. Cardinality(keys \cap DOMAIN pos[kind]) \in Nat
          BY <4>1, KeySetFinite
        <4> QED
          BY <1>1, <3>2, <4>1, <4>2 DEF CountWithout
      <3> QED
        BY <3>1, <3>2
    <2>2. DOMAIN entry[j] = {}
      BY <1>0, <2>1 DEF IndexInv, IndexConsistent
    <2> QED
      BY <1>2, <2>2
  <1>6. StampsBehind' /\ RunStamps' /\ OrderWithinRun'
    BY <1>0, <1>3 DEF OrderInv, StampsBehind, RunStamps, OrderWithinRun
  <1>7. IndexFollowsWriteOrder'
    BY <1>0, <1>3 DEF OrderInv, IndexFollowsWriteOrder
  <1> QED
    BY <1>0, <1>4, <1>5, <1>6, <1>7 DEF OrderInv

\* Every operation of the store keeps the write order of the index rows.
LEMMA NextOrderInv == IndexInv /\ OrderInv /\ [Next]_vars => OrderInv'
  <1> SUFFICES ASSUME IndexInv, OrderInv, [Next]_vars PROVE OrderInv'
    OBVIOUS
  <1>1. ASSUME NEW cap \in Caps, Open(cap) PROVE OrderInv'
    BY <1>1, OpenOrderInv
  <1>2. ASSUME Crash \/ ClockStep \/ PutFails \/ UNCHANGED vars PROVE OrderInv'
    BY <1>2, QuietOrderInv
  <1>3. ASSUME NEW kind \in Kinds, NEW key \in Keys, put_bounded(kind, key) PROVE OrderInv'
    BY <1>3, PutOrderInv
  <1>4. ASSUME NEW kind \in Kinds, NEW key \in Keys, delete_key(kind, key) PROVE OrderInv'
    BY <1>4, RemoveOrderInv DEF delete_key
  <1>5. ASSUME NEW kind \in Kinds, sweep_prefix(kind) PROVE OrderInv'
    BY <1>5, RemoveOrderInv DEF sweep_prefix
  <1> QED
    BY <1>1, <1>2, <1>3, <1>4, <1>5 DEF Next

\* The inductive invariant of the store holds in every reachable state.
LEMMA InvariantHolds == Spec => [](IndexInv /\ OrderInv)
  BY InitIndexInv, InitOrderInv, NextIndexInv, NextOrderInv, PTL DEF Spec

(***************************************************************************)
(* With a wall clock that is never set back, the index lists the records   *)
(* in the order they were last written: what put_bounded evicts first is   *)
(* the oldest-written record.                                              *)
(***************************************************************************)
THEOREM IndexIsFifo == Spec => []IndexFollowsWriteOrder
  <1>1. OrderInv => IndexFollowsWriteOrder
    BY DEF OrderInv
  <1> QED
    BY <1>1, InvariantHolds, PTL

(***************************************************************************)
(* Whatever the wall clock does, records written since the last open are   *)
(* in write order: NextStamp keeps above `last'.                           *)
(***************************************************************************)
THEOREM RunIsFifo == Spec => []OrderWithinRun
  <1>1. OrderInv => OrderWithinRun
    BY DEF OrderInv
  <1> QED
    BY <1>1, InvariantHolds, PTL

-----------------------------------------------------------------------------
(* The store implements the abstract FIFO cache *)

\* An initial store is an initial FIFO cache.
LEMMA RefineInit == Init => Fifo!Init
  <1> SUFFICES ASSUME Init PROVE Fifo!Init
    OBVIOUS
  <1>1. IndexInv
    BY InitIndexInv
  <1>2. DOMAIN wrote = Kinds /\ \A kind \in Kinds : DOMAIN wrote[kind] \subseteq Keys
    BY <1>1 DEF IndexInv, TypeOK, KeyedNumbers, KeyNumbers
  <1>3. max \in Nat
    BY DEF Init
  <1> QED
    BY <1>2, <1>3 DEF Fifo!Init, Fifo!Held

\* A put of the store is a put of the FIFO cache: the victims are the oldest.
LEMMA RefinePut ==
    ASSUME IndexInv, OrderInv, steady,
           NEW kind \in Kinds, NEW key \in Keys, put_bounded(kind, key)
    PROVE  Fifo!Put(kind, key)
  <1> DEFINE D == DOMAIN entry[kind]
  <1>0. up /\ max' = max /\ max >= 1
    BY DEF put_bounded, OrderInv
  <1>1. PICK gone : PutEffect(kind, key, gone)
    BY <1>0, PutHasEffect
  <1>2. DOMAIN wrote[kind] = D
    BY DEF OrderInv, WriteNumbers
  <1>3. /\ gone \subseteq D \ {key}
        /\ Cardinality(gone) = IF Cardinality(D \cup {key}) > max
                               THEN Cardinality(D \cup {key}) - max ELSE 0
        /\ \A d \in gone, k \in (D \ {key}) \ gone :
               Before(<<pos[kind][d], d>>, <<pos[kind][k], k>>)
        /\ DOMAIN wrote'[kind] = (D \cup {key}) \ gone
        /\ wrote'[kind][key] = writes
        /\ \A k \in (D \ {key}) \ gone : wrote'[kind][k] = wrote[kind][k]
    BY <1>1, <1>2 DEF PutEffect
  <1>4. ASSUME NEW k \in D
        PROVE  /\ wrote[kind][k] \in Nat /\ wrote[kind][k] < writes
               /\ <<pos[kind][k], k>> \in order[kind] /\ pos[kind][k] \in Nat /\ k \in Nat
    <2>1. KeyNumbers(pos[kind]) /\ DOMAIN pos[kind] = D
          /\ order[kind] = {<<pos[kind][i], i>> : i \in DOMAIN pos[kind]}
      BY <1>0, OpenKind
    <2>2. wrote[kind][k] \in Nat /\ wrote[kind][k] < writes
      BY DEF OrderInv, WriteNumbers, IndexInv, TypeOK, KeyedNumbers, KeyNumbers
    <2> QED
      BY <2>1, <2>2, KeysAssumption DEF KeyNumbers
  <1>5. ASSUME NEW d \in gone, NEW k \in (D \ {key}) \ gone
        PROVE  wrote[kind][d] < wrote[kind][k]
    <2>1. d \in D /\ k \in D /\ d # k
      BY <1>3
    <2>2. Before(<<pos[kind][d], d>>, <<pos[kind][k], k>>)
      BY <1>3
    <2>3. wrote[kind][d] # wrote[kind][k]
      BY <2>1 DEF OrderInv, WriteNumbers
    <2>4. ~Before(<<pos[kind][k], k>>, <<pos[kind][d], d>>)
      <3>1. /\ pos[kind][d] \in Nat /\ d \in Nat
            /\ pos[kind][k] \in Nat /\ k \in Nat
        BY <1>4, <2>1
      <3> QED
        BY <2>2, <3>1 DEF Before
    <2>5. ~(wrote[kind][k] < wrote[kind][d])
      <3>1. ASSUME wrote[kind][k] < wrote[kind][d]
            PROVE  Before(<<pos[kind][k], k>>, <<pos[kind][d], d>>)
        <4> DEFINE r == <<pos[kind][k], k>>
                   q == <<pos[kind][d], d>>
        <4>1. r \in order[kind] /\ q \in order[kind] /\ r[2] = k /\ q[2] = d
          BY <1>4, <2>1
        <4>2. wrote[kind][r[2]] < wrote[kind][q[2]]
          BY <3>1, <4>1
        <4> HIDE DEF r, q
        <4>3. Before(r, q)
          BY <4>1, <4>2 DEF OrderInv, IndexFollowsWriteOrder
        <4> QED
          BY <4>3 DEF r, q
      <3> QED
        BY <2>4, <3>1
    <2>6. wrote[kind][d] \in Nat /\ wrote[kind][k] \in Nat
      BY <1>4, <2>1
    <2> QED
      BY <2>3, <2>5, <2>6
  <1>6. Fifo!Drops(kind, key, gone)
    <2>1. \A S : Fifo!Cardinality(S) = Cardinality(S)
      BY DEF Fifo!Cardinality, Cardinality
    <2> QED
      BY <1>2, <1>3, <1>5, <2>1 DEF Fifo!Drops, Fifo!Held
  <1>7. wrote' = [wrote EXCEPT ![kind] = wrote'[kind]]
    BY DEF put_bounded, IndexInv, TypeOK, KeyedNumbers
  <1>8. ASSUME NEW k \in D \ {key}
        PROVE  /\ wrote[kind][k] < wrote'[kind][key]
               /\ k \notin gone => wrote'[kind][k] = wrote[kind][k]
    BY <1>3, <1>4
  <1> QED
    BY <1>0, <1>2, <1>3, <1>6, <1>7, <1>8 DEF Fifo!Put, Fifo!Held

\* A removal of the store is a removal of the FIFO cache.
LEMMA RefineRemove ==
    ASSUME IndexInv, OrderInv, NEW kind \in Kinds, NEW keys, RemoveKeys(kind, keys)
    PROVE  Fifo!Remove(kind)
  <1> DEFINE gone == keys \cap DOMAIN wrote[kind]
  <1>1. wrote' = [wrote EXCEPT ![kind] = Without(wrote[kind], keys)] /\ max' = max
    BY DEF RemoveKeys
  <1>2. Without(wrote[kind], keys) = [k \in DOMAIN wrote[kind] \ gone |-> wrote[kind][k]]
    BY DEF Without
  <1>3. gone \in SUBSET DOMAIN wrote[kind]
    OBVIOUS
  <1> QED
    BY <1>1, <1>2, <1>3 DEF Fifo!Remove, Fifo!Held

\* Every step of the store is a step of the FIFO cache or changes nothing in it.
LEMMA RefineNext ==
    ASSUME IndexInv, OrderInv, steady, [Next]_vars
    PROVE  [Fifo!Next]_(Fifo!vars)
  <1>1. ASSUME NEW cap \in Caps, Open(cap) PROVE Fifo!Next
    <2>1. max' \in Nat /\ wrote' = wrote
      BY <1>1, CapsAssumption DEF Open
    <2> QED
      BY <2>1 DEF Fifo!Next, Fifo!Resize
  <1>2. ASSUME Crash \/ ClockStep \/ PutFails \/ UNCHANGED vars PROVE UNCHANGED Fifo!vars
    BY <1>2 DEF Crash, ClockStep, PutFails, vars, history, Fifo!vars
  <1>3. ASSUME NEW kind \in Kinds, NEW key \in Keys, put_bounded(kind, key) PROVE Fifo!Next
    BY <1>3, RefinePut DEF Fifo!Next
  <1>4. ASSUME NEW kind \in Kinds, NEW key \in Keys, delete_key(kind, key) PROVE Fifo!Next
    BY <1>4, RefineRemove DEF delete_key, Fifo!Next
  <1>5. ASSUME NEW kind \in Kinds, sweep_prefix(kind) PROVE Fifo!Next
    BY <1>5, RefineRemove DEF sweep_prefix, Fifo!Next
  <1> QED
    BY <1>1, <1>2, <1>3, <1>4, <1>5 DEF Next

(***************************************************************************)
(* Refinement: as long as the clock is steady, every step of the store     *)
(* with its index rows, count rows, restarts, capacity changes and failed  *)
(* batches is a step of the abstract first-in first-out cache.             *)
(***************************************************************************)
THEOREM StoreImplementsFifoCache == Spec => FifoSpec
  <1>1. IndexInv /\ OrderInv /\ [Next]_vars => [steady => Fifo!Next]_(Fifo!vars)
    BY RefineNext
  <1> QED
    BY <1>1, RefineInit, InvariantHolds, PTL DEF Spec, FifoSpec

(***************************************************************************)
(* A store whose clock is never set back and is past every stamp at every  *)
(* open implements the abstract first-in first-out cache.                  *)
(***************************************************************************)
THEOREM SteadyStoreIsFifoCache == Spec /\ []steady => Fifo!Spec
  BY StoreImplementsFifoCache, PTL DEF FifoSpec, Fifo!Spec
=============================================================================
