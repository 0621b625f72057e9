------------------------- MODULE SingleFlightProofs -------------------------
(***************************************************************************)
(* Proofs about SingleFlight, for any sets of requests, keys and locks and *)
(* any lifetimes and caps.  The inductive invariant is Inv below: where a  *)
(* request is in its code decides which lock it keeps alive, the lock      *)
(* table points to that lock, and the holder is first in its queue; from   *)
(* there on, what the holder found out about its key stays true.           *)
(***************************************************************************)
EXTENDS SingleFlight, TLAPS

\* Requests that hold an Arc of their key's lock.
Engaged(r) == pc[r] = "queued" \/ Holds(r)

\* An engaged request keeps its lock alive, and the table points to it.
ArcInv ==
    \A r \in Reqs : /\ Engaged(r) => arc[r] \in Locks /\ inflight[key[r]] = arc[r]
                    /\ ~Engaged(r) => arc[r] = NoLock

\* The holder of a lock is the first of its queue.
HeadInv ==
    \A r \in Reqs : Holds(r) => queue[arc[r]] # << >> /\ Head(queue[arc[r]]) = r

\* What a request has found out about its key.
FoundInv ==
    \A r \in Reqs :
        /\ pc[r] = "drop_unlocked" => mode # "LAZY" /\ ~Fresh(key[r], store[key[r]], now)
        /\ pc[r] \notin {"idle", "drop_unlocked"} => mode = "LAZY"
        /\ Holds(r) => ~MemoFresh(key[r])
        /\ pc[r] \in {"drop_locked", "fetching"} => ~Fresh(key[r], store[key[r]], now)

Inv == TypeOK /\ ArcInv /\ HeadInv /\ FoundInv /\ FailureHidesNoRecord

-----------------------------------------------------------------------------
\* Two requests past the lock of one key are the same (key_lock).
LEMMA Exclusion == ArcInv /\ HeadInv => OneFlightPerKey
  BY DEF ArcInv, HeadInv, OneFlightPerKey, Engaged

\* A request that leaves a queue leaves a queue, and does not move its head.
LEMMA RemainingFacts ==
  ASSUME NEW s \in Seq(Reqs), NEW r \in Reqs
  PROVE  /\ Remaining(s, r) \in Seq(Reqs)
         /\ s # << >> /\ Head(s) # r =>
                Remaining(s, r) # << >> /\ Head(Remaining(s, r)) = Head(s)
<1>1. CASE ~\E i \in 1 .. Len(s) : s[i] = r
  BY <1>1 DEF Remaining
<1>2. CASE \E i \in 1 .. Len(s) : s[i] = r
  <2> DEFINE i == CHOOSE i \in 1 .. Len(s) : s[i] = r
             t == [j \in 1 .. Len(s) - 1 |-> IF j < i THEN s[j] ELSE s[j + 1]]
  <2>1. i \in 1 .. Len(s) /\ s[i] = r
    BY <1>2
  <2>2. Remaining(s, r) = t
    BY <1>2 DEF Remaining
  <2> HIDE DEF i
  <2>3. t \in Seq(Reqs) /\ Len(t) = Len(s) - 1
    BY <2>1
  <2>4. ASSUME s # << >>, Head(s) # r
        PROVE  t # << >> /\ Head(t) = Head(s)
    <3>1. i > 1 /\ Len(s) > 1
      BY <2>1, <2>4
    <3>2. t[1] = s[1]
      BY <3>1
    <3> QED
      BY <3>1, <3>2, <2>3
  <2> QED
    BY <2>2, <2>3, <2>4
<1> QED
  BY <1>1, <1>2

\* A record past its lifetime and a stale memory stay so as time passes.
LEMMA Ageing ==
  ASSUME NEW k \in Keys, NEW stamp \in Nat \cup {NoRec}, NEW t \in Nat,
         ~Fresh(k, stamp, t)
  PROVE  ~Fresh(k, stamp, t + 1)
  BY TimesAssumption DEF Fresh, Minus, NoRec

-----------------------------------------------------------------------------
\* The service starts with the invariant, whatever an earlier run stored.
LEMMA InitInv == Init => Inv
<1> SUFFICES ASSUME Init PROVE Inv
  OBVIOUS
<1>1. TypeOK
  BY TimesAssumption DEF Init, TypeOK, Points, NoRec
<1>2. ArcInv /\ HeadInv /\ FoundInv
  BY DEF Init, ArcInv, HeadInv, FoundInv, Engaged, Holds
<1>3. FailureHidesNoRecord
  BY DEF Init, FailureHidesNoRecord, MemoFresh
<1> QED
  BY <1>1, <1>2, <1>3 DEF Inv

-----------------------------------------------------------------------------
\* The part of TypeOK about requests and locks, and the part about the rest.
TaskType ==
    /\ inflight \in [Keys -> Locks \cup {NoLock}]
    /\ queue \in [Locks -> Seq(Reqs)]
    /\ pc \in [Reqs -> Points]
    /\ key \in [Reqs -> Keys \cup {NoKey}]
    /\ \A r \in Reqs : pc[r] # "idle" => key[r] \in Keys
    /\ arc \in [Reqs -> Locks \cup {NoLock}]
    /\ seen \in [Reqs -> Nat]

DataType ==
    /\ mode \in Modes
    /\ now \in Nat
    /\ store \in [Keys -> Nat \cup {NoRec}]
    /\ memo \in [Keys -> [at : Nat, what : {"error", "non200"}] \cup {NoMemo}]

\* The two halves make the type invariant.
LEMMA TypeHalves == TypeOK <=> TaskType /\ DataType
  BY DEF TypeOK, TaskType, DataType

\* The parts of the invariant after a step make it up again.
LEMMA PartsMakeInv ==
  ASSUME TaskType', DataType', ArcInv', HeadInv', FoundInv', FailureHidesNoRecord'
  PROVE  Inv'
  BY DEF Inv, TypeOK, TaskType, DataType

\* A request that ends gives its lock back; the others keep theirs.
LEMMA EndInv ==
  ASSUME TaskType, ArcInv, HeadInv, NEW r \in Reqs, End(r), Release(r)
  PROVE  TaskType' /\ ArcInv' /\ HeadInv'
<1>1. \A q \in Reqs : q # r => /\ pc'[q] = pc[q] /\ key'[q] = key[q] /\ arc'[q] = arc[q]
                               /\ Engaged(q)' = Engaged(q) /\ Holds(q)' = Holds(q)
  BY DEF End, Release, Engaged, Holds, TaskType
<1>2. pc'[r] = "idle" /\ arc'[r] = NoLock /\ ~Engaged(r)' /\ ~Holds(r)'
  BY DEF End, Release, Engaged, Holds, TaskType
<1>3. queue' \in [Locks -> Seq(Reqs)]
  BY RemainingFacts DEF Release, TaskType
<1>4. TaskType'
  BY <1>3 DEF End, Release, TaskType, Points
<1>5. ArcInv'
  BY <1>1, <1>2 DEF ArcInv, Release
<1>6. ASSUME NEW q \in Reqs, Holds(q)'
      PROVE  queue'[arc'[q]] # << >> /\ Head(queue'[arc'[q]]) = q
  <2>1. q # r /\ Holds(q) /\ Engaged(q)
    BY <1>1, <1>2, <1>6 DEF Engaged
  <2>2. arc'[q] = arc[q] /\ arc[q] \in Locks
    BY <1>1, <2>1 DEF ArcInv
  <2>3. queue[arc[q]] # << >> /\ Head(queue[arc[q]]) = q /\ queue[arc[q]] \in Seq(Reqs)
    BY <2>1, <2>2 DEF HeadInv, TaskType
  <2>4. queue'[arc[q]] = queue[arc[q]] \/ queue'[arc[q]] = Remaining(queue[arc[q]], r)
    BY <2>2 DEF Release
  <2> QED
    BY <2>1, <2>2, <2>3, <2>4, RemainingFacts
<1> QED
  BY <1>4, <1>5, <1>6 DEF HeadInv

\* Steps between two points of the same side of the lock change no lock.
LEMMA MoveInv ==
  ASSUME TaskType, ArcInv, HeadInv, NEW r \in Reqs, NEW p \in Points \ {"idle"},
         Goto(r, p), UNCHANGED locks,
         pc[r] # "idle",
         \/ pc[r] = "queued" /\ p = "locked"
         \/ Holds(r) /\ p \in {"drop_locked", "fetching"},
         queue[arc[r]] # << >> /\ Head(queue[arc[r]]) = r
  PROVE  TaskType' /\ ArcInv' /\ HeadInv'
<1>1. \A q \in Reqs : q # r => pc'[q] = pc[q]
  BY DEF Goto, TaskType
<1>2. pc'[r] = p /\ Engaged(r) /\ Engaged(r)'
  BY DEF Goto, TaskType, Engaged, Holds
<1>3. key' = key /\ arc' = arc /\ queue' = queue /\ inflight' = inflight /\ seen' = seen
  BY DEF Goto, locks
<1>4. TaskType'
  BY <1>1, <1>2, <1>3 DEF TaskType, Goto
<1>5. ArcInv'
  BY <1>1, <1>2, <1>3 DEF ArcInv, Engaged, Holds
<1>6. HeadInv'
  BY <1>1, <1>2, <1>3 DEF HeadInv, Holds
<1> QED
  BY <1>4, <1>5, <1>6

\* A lookup or a drop before the lock touches no lock.
LEMMA MissedInv ==
  ASSUME TaskType, ArcInv, HeadInv, now \in Nat, NEW r \in Reqs, NEW k \in Keys,
         NEW d \in BOOLEAN, Missed(r, k, d), UNCHANGED locks,
         pc[r] \in {"idle", "drop_unlocked"}
  PROVE  TaskType' /\ ArcInv' /\ HeadInv'
<1>1. arc' = arc /\ queue' = queue /\ inflight' = inflight
  BY DEF locks
<1>2. \A q \in Reqs : q # r => pc'[q] = pc[q] /\ key'[q] = key[q]
  BY DEF Missed, End, TaskType
<1>3. pc'[r] \in {"idle", "drop_unlocked", "miss"}
  BY DEF Missed, End, TaskType
<1>4. TaskType'
  <2>1. CASE End(r)
    BY <2>1, <1>1 DEF End, TaskType, Points
  <2>2. CASE \E p \in {"drop_unlocked", "miss"} :
                 /\ pc' = [pc EXCEPT ![r] = p]
                 /\ key' = [key EXCEPT ![r] = k]
                 /\ seen' = [seen EXCEPT ![r] = now]
    BY <2>2, <1>1 DEF TaskType, Points
  <2> QED
    BY <2>1, <2>2 DEF Missed
<1>5. ArcInv'
  BY <1>1, <1>2, <1>3 DEF ArcInv, Engaged, Holds
<1>6. HeadInv'
  BY <1>1, <1>2, <1>3 DEF HeadInv, Holds
<1> QED
  BY <1>4, <1>5, <1>6

\* Joining a key's queue: a live lock is found again, never doubled (key_lock).
LEMMA JoinInv ==
  ASSUME TaskType, ArcInv, HeadInv, NEW r \in Reqs, Join(r)
  PROVE  TaskType' /\ ArcInv' /\ HeadInv'
<1>1. PICK l \in LocksFor(Purged, key[r]) :
          /\ inflight' = [Purged EXCEPT ![key[r]] = l]
          /\ arc' = [arc EXCEPT ![r] = l]
          /\ queue' = [queue EXCEPT ![l] = Append(@, r)]
  BY DEF Join
<1>2. key' = key /\ seen' = seen /\ pc' = [pc EXCEPT ![r] = "queued"] /\ key[r] \in Keys
  BY DEF Join, Goto, TaskType
<1>3. Purged \in [Keys -> Locks \cup {NoLock}]
  BY DEF Purged, TaskType
<1>4. \A k \in Keys : Alive(inflight[k]) /\ inflight[k] # NoLock => Purged[k] = inflight[k]
  BY DEF Purged, TaskType
<1>5. l \in Locks
  BY <1>1, <1>2, <1>3 DEF LocksFor
<1>6. TaskType'
  BY <1>1, <1>2, <1>3, <1>5 DEF TaskType, Points
<1>7. ASSUME NEW q \in Reqs, Engaged(q), q # r
      PROVE  inflight'[key[q]] = arc[q] /\ arc[q] \in Locks
  <2>1. inflight[key[q]] = arc[q] /\ arc[q] \in Locks /\ key[q] \in Keys
    BY <1>7 DEF ArcInv, Engaged, Holds, TaskType
  <2>2. Alive(arc[q]) /\ arc[q] # NoLock
    BY <2>1, NoneAssumption DEF Alive
  <2>3. Purged[key[q]] = arc[q]
    BY <2>1, <2>2, <1>4
  <2>4. CASE key[q] # key[r]
    BY <2>1, <2>3, <2>4, <1>1, <1>2, <1>3
  <2>5. CASE key[q] = key[r]
    <3>1. LocksFor(Purged, key[r]) = {arc[q]}
      BY <2>2, <2>3, <2>5 DEF LocksFor
    <3> QED
      BY <3>1, <2>1, <2>5, <1>1, <1>2, <1>3
  <2> QED
    BY <2>4, <2>5
<1>8. \A q \in Reqs : q # r => arc'[q] = arc[q] /\ pc'[q] = pc[q]
                             /\ Engaged(q)' = Engaged(q) /\ Holds(q)' = Holds(q)
  BY <1>1, <1>2 DEF TaskType, Engaged, Holds
<1>9. arc'[r] = l /\ inflight'[key[r]] = l /\ pc'[r] = "queued" /\ ~Holds(r)' /\ Engaged(r)'
  BY <1>1, <1>2, <1>3 DEF TaskType, Engaged, Holds
<1>10. ArcInv'
  BY <1>2, <1>5, <1>7, <1>8, <1>9 DEF ArcInv
<1>11. ASSUME NEW q \in Reqs, Holds(q)'
       PROVE  queue'[arc'[q]] # << >> /\ Head(queue'[arc'[q]]) = q
  <2>1. q # r /\ Holds(q) /\ arc'[q] = arc[q] /\ Engaged(q)
    BY <1>8, <1>9, <1>11 DEF Engaged
  <2>2. arc[q] \in Locks /\ queue[arc[q]] \in Seq(Reqs)
    BY <2>1 DEF ArcInv, TaskType
  <2>3. queue[arc[q]] # << >> /\ Head(queue[arc[q]]) = q
    BY <2>1 DEF HeadInv
  <2>4. queue'[arc[q]] = queue[arc[q]] \/ queue'[arc[q]] = Append(queue[arc[q]], r)
    BY <1>1, <2>2 DEF TaskType
  <2> QED
    BY <2>1, <2>2, <2>3, <2>4
<1> QED
  BY <1>6, <1>10, <1>11 DEF HeadInv

-----------------------------------------------------------------------------
\* What a request has found out, without the quantifier.
Found(r) ==
    /\ pc[r] = "drop_unlocked" => mode # "LAZY" /\ ~Fresh(key[r], store[key[r]], now)
    /\ pc[r] \notin {"idle", "drop_unlocked"} => mode = "LAZY"
    /\ Holds(r) => ~MemoFresh(key[r])
    /\ pc[r] \in {"drop_locked", "fetching"} => ~Fresh(key[r], store[key[r]], now)

(***************************************************************************)
(* A step of request r makes no key fresh and remembers no failure but for *)
(* its own key after its own fetch: what the others found out stays true,  *)
(* and no failure comes to hide a record.                                  *)
(***************************************************************************)
LEMMA StepInv ==
  ASSUME Inv, NEW r \in Reqs, Found(r)', now' = now, mode' = mode,
         \A q \in Reqs : q # r => pc'[q] = pc[q] /\ key'[q] = key[q],
         \A k \in Keys : Fresh(k, store'[k], now) =>
             Fresh(k, store[k], now) \/ (pc[r] = "fetching" /\ k = key[r]),
         \A k \in Keys : MemoFresh(k)' =>
             MemoFresh(k) \/ (pc[r] = "fetching" /\ k = key[r]),
         store' = store \/ memo' = memo
  PROVE  FoundInv' /\ FailureHidesNoRecord'
<1>1. OneFlightPerKey
  BY Exclusion DEF Inv
<1>2. ASSUME NEW q \in Reqs, q # r
      PROVE  Found(q)'
  <2>1. pc'[q] = pc[q] /\ key'[q] = key[q] /\ Holds(q)' = Holds(q)
    BY <1>2 DEF Holds
  <2>2. pc[q] # "idle" => key[q] \in Keys
    BY DEF Inv, TypeOK
  <2>3. pc[r] = "fetching" /\ Holds(q) => key[q] # key[r]
    BY <1>1, <1>2 DEF OneFlightPerKey, Holds
  <2>4. pc[r] = "fetching" => mode = "LAZY"
    BY DEF Inv, FoundInv
  <2>5. Found(q)
    BY DEF Inv, FoundInv, Found
  <2>6. Holds(q) => ~MemoFresh(key[q])'
    BY <2>1, <2>2, <2>3, <2>5 DEF Found, Holds
  <2>7. ASSUME pc[q] = "drop_unlocked" PROVE ~Fresh(key[q], store'[key[q]], now)
    BY <2>2, <2>4, <2>5, <2>7 DEF Found
  <2>8. ASSUME pc[q] \in {"drop_locked", "fetching"}
        PROVE  ~Fresh(key[q], store'[key[q]], now)
    BY <2>2, <2>3, <2>5, <2>8 DEF Found, Holds
  <2> QED
    BY <2>1, <2>5, <2>6, <2>7, <2>8 DEF Found
<1>3. FoundInv'
  BY <1>2 DEF FoundInv, Found
<1>4. ASSUME NEW k \in Keys, MemoFresh(k)'
      PROVE  ~Fresh(k, store'[k], now)
  <2>1. MemoFresh(k) => ~Fresh(k, store[k], now)
    BY DEF Inv, FailureHidesNoRecord
  <2>2. pc[r] = "fetching" => ~MemoFresh(key[r]) /\ ~Fresh(key[r], store[key[r]], now)
    BY DEF Inv, FoundInv, Holds
  <2>3. memo' = memo => MemoFresh(k)
    BY <1>4 DEF MemoFresh
  <2> QED
    BY <1>4, <2>1, <2>2, <2>3
<1> QED
  BY <1>3, <1>4 DEF FailureHidesNoRecord

\* The unlocked lookup (get_cached_url, get_nvidia_ocsp).
LEMMA LookupInv ==
  ASSUME Inv, NEW r \in Reqs, NEW k \in Keys, Lookup(r, k)
  PROVE  Inv'
<1>1. mode' = mode /\ now' = now /\ store' = store /\ memo' = memo /\ UNCHANGED locks
  BY DEF Lookup
<1>2. TaskType /\ DataType /\ ArcInv /\ HeadInv /\ now \in Nat
  BY TypeHalves DEF Inv, DataType
<1>3. DataType'
  BY <1>1, <1>2 DEF DataType
<1>4. CASE Fresh(k, store[k], now) /\ UNCHANGED <<pc, key, seen>>
  BY <1>1, <1>2, <1>3, <1>4, TypeHalves
     DEF Inv, TaskType, TypeOK, ArcInv, HeadInv, FoundInv, FailureHidesNoRecord,
         Engaged, Holds, MemoFresh, locks
<1>5. CASE /\ ~Fresh(k, store[k], now)
           /\ Missed(r, k, store[k] # NoRec /\ DropsUnlocked)
  <2>1. pc[r] = "idle"
    BY DEF Lookup
  <2>2. TaskType' /\ ArcInv' /\ HeadInv'
    BY <1>1, <1>2, <1>5, <2>1, MissedInv
  <2>3. \A q \in Reqs : q # r => pc'[q] = pc[q] /\ key'[q] = key[q]
    BY <1>2, <1>5 DEF Missed, End, TaskType
  <2>4. \/ pc'[r] = "idle"
        \/ pc'[r] = "drop_unlocked" /\ mode # "LAZY" /\ key'[r] = k
        \/ pc'[r] = "miss" /\ mode = "LAZY" /\ key'[r] = k
    BY <1>2, <1>5 DEF Missed, End, TaskType, DropsUnlocked
  <2>5. Found(r)'
    BY <1>1, <1>5, <2>4 DEF Found, Holds
  <2>6. FoundInv' /\ FailureHidesNoRecord'
    BY <1>1, <2>3, <2>5, StepInv DEF MemoFresh
  <2> QED
    BY <1>3, <2>2, <2>6, PartsMakeInv
<1> QED
  BY <1>4, <1>5 DEF Lookup

\* An expired record deleted before the lock, in the modes that fetch nothing.
LEMMA DropUnlockedInv ==
  ASSUME Inv, NEW r \in Reqs, DropUnlocked(r)
  PROVE  Inv'
<1>1. mode' = mode /\ now' = now /\ memo' = memo /\ UNCHANGED locks
  BY DEF DropUnlocked
<1>2. TaskType /\ DataType /\ ArcInv /\ HeadInv /\ now \in Nat
  BY TypeHalves DEF Inv, DataType
<1>3. pc[r] = "drop_unlocked" /\ key[r] \in Keys /\ mode # "LAZY"
  BY <1>2 DEF DropUnlocked, TaskType, Inv, FoundInv
<1>4. store' = [store EXCEPT ![key[r]] = NoRec]
  BY DEF DropUnlocked
<1>5. DataType'
  BY <1>1, <1>2, <1>4 DEF DataType
<1>6. Missed(r, key[r], FALSE)
  BY DEF DropUnlocked
<1>7. TaskType' /\ ArcInv' /\ HeadInv'
  BY <1>1, <1>2, <1>3, <1>6, MissedInv
<1>8. pc'[r] = "idle" /\ \A q \in Reqs : q # r => pc'[q] = pc[q] /\ key'[q] = key[q]
  BY <1>2, <1>3, <1>6 DEF Missed, End, TaskType
<1>9. \A k \in Keys : Fresh(k, store'[k], now) => Fresh(k, store[k], now)
  BY <1>2, <1>4 DEF Fresh, DataType
<1>10. Found(r)'
  BY <1>8 DEF Found, Holds
<1>11. FoundInv' /\ FailureHidesNoRecord'
  BY <1>1, <1>8, <1>9, <1>10, StepInv DEF MemoFresh
<1> QED
  BY <1>5, <1>7, <1>11, PartsMakeInv

\* Joining the queue of a key finds out nothing about it yet.
LEMMA JoinKeepsInv ==
  ASSUME Inv, NEW r \in Reqs, Join(r)
  PROVE  Inv'
<1>1. mode' = mode /\ now' = now /\ memo' = memo /\ store' = store
  BY DEF Join
<1>2. TaskType /\ DataType /\ ArcInv /\ HeadInv
  BY TypeHalves DEF Inv
<1>3. DataType'
  BY <1>1, <1>2 DEF DataType
<1>4. TaskType' /\ ArcInv' /\ HeadInv'
  BY <1>2, JoinInv
<1>5. pc'[r] = "queued" /\ \A q \in Reqs : q # r => pc'[q] = pc[q] /\ key'[q] = key[q]
  BY <1>2 DEF Join, Goto, TaskType
<1>6. pc[r] = "miss" /\ mode = "LAZY"
  BY DEF Join, Inv, FoundInv
<1>7. Found(r)'
  BY <1>1, <1>5, <1>6 DEF Found, Holds
<1>8. FoundInv' /\ FailureHidesNoRecord'
  BY <1>1, <1>5, <1>7, StepInv DEF MemoFresh
<1> QED
  BY <1>3, <1>4, <1>8, PartsMakeInv

(***************************************************************************)
(* A request past the lock that goes on, or that ends with its lock given  *)
(* back: the facts every such step shares.                                 *)
(***************************************************************************)
LEMMA EndStep ==
  ASSUME Inv, NEW r \in Reqs, End(r), Release(r), DataType', now' = now, mode' = mode,
         \A k \in Keys : Fresh(k, store'[k], now) =>
             Fresh(k, store[k], now) \/ (pc[r] = "fetching" /\ k = key[r]),
         \A k \in Keys : MemoFresh(k)' =>
             MemoFresh(k) \/ (pc[r] = "fetching" /\ k = key[r]),
         store' = store \/ memo' = memo
  PROVE  Inv'
<1>1. TaskType /\ ArcInv /\ HeadInv
  BY TypeHalves DEF Inv
<1>2. TaskType' /\ ArcInv' /\ HeadInv'
  BY <1>1, EndInv
<1>3. pc'[r] = "idle" /\ \A q \in Reqs : q # r => pc'[q] = pc[q] /\ key'[q] = key[q]
  BY <1>1 DEF End, TaskType
<1>4. Found(r)'
  BY <1>3 DEF Found, Holds
<1>5. FoundInv' /\ FailureHidesNoRecord'
  BY <1>3, <1>4, StepInv
<1> QED
  BY <1>2, <1>5, PartsMakeInv

\* The guard is granted: no failure of a sibling is remembered, or it is told.
LEMMA AcquireInv ==
  ASSUME Inv, NEW r \in Reqs, Acquire(r)
  PROVE  Inv'
<1>1. mode' = mode /\ now' = now /\ store' = store
  BY DEF Acquire
<1>2. TaskType /\ DataType /\ ArcInv /\ HeadInv
  BY TypeHalves DEF Inv
<1>3. pc[r] = "queued" /\ key[r] \in Keys /\ mode = "LAZY"
  BY <1>2 DEF Acquire, TaskType, Inv, FoundInv
<1>4. memo' = [memo EXCEPT ![key[r]] = IF MemoFresh(key[r]) THEN @ ELSE NoMemo]
  BY DEF Acquire
<1>5. DataType'
  BY <1>1, <1>2, <1>4 DEF DataType
<1>6. \A k \in Keys : MemoFresh(k)' => MemoFresh(k)
  BY <1>1, <1>2, <1>4 DEF MemoFresh, DataType
<1>7. CASE End(r) /\ Release(r)
  BY <1>1, <1>5, <1>6, <1>7, EndStep
<1>8. CASE Remembered(r) = {} /\ Goto(r, "locked") /\ UNCHANGED locks
  <2>1. queue[arc[r]] # << >> /\ Head(queue[arc[r]]) = r
    BY DEF Acquire
  <2>2. TaskType' /\ ArcInv' /\ HeadInv'
    BY <1>2, <1>3, <1>8, <2>1, MoveInv DEF Points
  <2>3. /\ pc'[r] = "locked" /\ key'[r] = key[r]
        /\ \A q \in Reqs : q # r => pc'[q] = pc[q] /\ key'[q] = key[q]
    BY <1>2, <1>8 DEF Goto, TaskType
  <2>4. ~MemoFresh(key[r])
    BY <1>8 DEF Remembered
  <2>5. ~MemoFresh(key[r])'
    <3>1. memo'[key[r]] = NoMemo
      BY <1>2, <1>3, <1>4, <2>4 DEF DataType
    <3> QED
      BY <2>3, <3>1 DEF MemoFresh
  <2>6. Found(r)'
    BY <1>1, <1>3, <2>3, <2>5 DEF Found, Holds
  <2>7. FoundInv' /\ FailureHidesNoRecord'
    BY <1>1, <1>6, <2>3, <2>6, StepInv
  <2> QED
    BY <1>5, <2>2, <2>7, PartsMakeInv
<1> QED
  BY <1>7, <1>8 DEF Acquire

\* The locked re-read (get_cached_url, get_nvidia_ocsp).
LEMMA LookupLockedInv ==
  ASSUME Inv, NEW r \in Reqs, LookupLocked(r)
  PROVE  Inv'
<1>1. mode' = mode /\ now' = now /\ store' = store /\ memo' = memo
  BY DEF LookupLocked
<1>2. TaskType /\ DataType /\ ArcInv /\ HeadInv
  BY TypeHalves DEF Inv
<1>3. pc[r] = "locked" /\ Holds(r) /\ key[r] \in Keys /\ mode = "LAZY" /\ ~MemoFresh(key[r])
  BY <1>2 DEF LookupLocked, TaskType, Inv, FoundInv, Holds
<1>4. DataType'
  BY <1>1, <1>2 DEF DataType
<1>5. CASE End(r) /\ Release(r)
  BY <1>1, <1>4, <1>5, EndStep DEF MemoFresh
<1>6. CASE /\ ~Fresh(key[r], store[key[r]], now)
           /\ Goto(r, IF Reread(r) # NoRec THEN "drop_locked" ELSE "fetching")
           /\ UNCHANGED locks
  <2>1. PICK p \in {"drop_locked", "fetching"} : Goto(r, p)
    BY <1>6
  <2>2. TaskType' /\ ArcInv' /\ HeadInv'
    BY <1>2, <1>3, <1>6, <2>1, MoveInv DEF Points, HeadInv
  <2>3. /\ pc'[r] = p /\ key'[r] = key[r]
        /\ \A q \in Reqs : q # r => pc'[q] = pc[q] /\ key'[q] = key[q]
    BY <1>2, <2>1 DEF Goto, TaskType
  <2>4. Found(r)'
    BY <1>1, <1>3, <1>6, <2>3 DEF Found, Holds, MemoFresh
  <2>5. FoundInv' /\ FailureHidesNoRecord'
    BY <1>1, <2>3, <2>4, StepInv DEF MemoFresh
  <2> QED
    BY <1>4, <2>2, <2>5, PartsMakeInv
<1> QED
  BY <1>5, <1>6 DEF LookupLocked, Reread, TimeUnderLock

\* An expired record deleted under the lock (drop_expired).
LEMMA DropLockedInv ==
  ASSUME Inv, NEW r \in Reqs, DropLocked(r)
  PROVE  Inv'
<1>1. mode' = mode /\ now' = now /\ memo' = memo /\ UNCHANGED locks /\ Goto(r, "fetching")
  BY DEF DropLocked
<1>2. TaskType /\ DataType /\ ArcInv /\ HeadInv
  BY TypeHalves DEF Inv
<1>3. /\ pc[r] = "drop_locked" /\ Holds(r) /\ key[r] \in Keys /\ mode = "LAZY"
      /\ ~MemoFresh(key[r])
  BY <1>2 DEF DropLocked, TaskType, Inv, FoundInv, Holds
<1>4. store' = [store EXCEPT ![key[r]] = NoRec]
  BY DEF DropLocked
<1>5. DataType'
  BY <1>1, <1>2, <1>4 DEF DataType
<1>6. TaskType' /\ ArcInv' /\ HeadInv'
  BY <1>1, <1>2, <1>3, MoveInv DEF Points, HeadInv
<1>7. /\ pc'[r] = "fetching" /\ key'[r] = key[r]
      /\ \A q \in Reqs : q # r => pc'[q] = pc[q] /\ key'[q] = key[q]
  BY <1>1, <1>2 DEF Goto, TaskType
<1>8. \A k \in Keys : Fresh(k, store'[k], now) => Fresh(k, store[k], now)
  BY <1>2, <1>4 DEF Fresh, DataType
<1>9. ~Fresh(key[r], store'[key[r]], now)
  BY <1>2, <1>3, <1>4 DEF Fresh, DataType
<1>10. Found(r)'
  BY <1>1, <1>3, <1>7, <1>9 DEF Found, Holds, MemoFresh
<1>11. FoundInv' /\ FailureHidesNoRecord'
  BY <1>1, <1>7, <1>8, <1>10, StepInv DEF MemoFresh
<1> QED
  BY <1>5, <1>6, <1>11, PartsMakeInv

-----------------------------------------------------------------------------
\* The memory of outcomes gains at most the outcome of one key (remember).
LEMMA RememberFacts ==
  ASSUME DataType, NEW k \in Keys, NEW what \in {"error", "non200"},
         Remember(k, what), now' = now
  PROVE  /\ memo' \in [Keys -> [at : Nat, what : {"error", "non200"}] \cup {NoMemo}]
         /\ \A j \in Keys : MemoFresh(j)' => MemoFresh(j) \/ j = k
<1>1. /\ Room(k) \in [Keys -> [at : Nat, what : {"error", "non200"}] \cup {NoMemo}]
      /\ \A j \in Keys : Room(k)[j] = memo[j] \/ Room(k)[j] = NoMemo
  BY DEF Room, DataType
<1>2. CASE memo' = Room(k)
  BY <1>1, <1>2 DEF MemoFresh
<1>3. CASE memo' = [Room(k) EXCEPT ![k] = [at |-> now, what |-> what]]
  <2>1. [at |-> now, what |-> what] \in [at : Nat, what : {"error", "non200"}]
    BY DEF DataType
  <2> QED
    BY <1>1, <1>3, <2>1 DEF MemoFresh
<1> QED
  BY <1>2, <1>3 DEF Remember

\* A failed fetch, a relayed status, a hang-up: nothing is stored.
LEMMA FetchWithoutRecordInv ==
  ASSUME Inv, NEW r \in Reqs, FetchFails(r) \/ FetchNon200(r) \/ Cancel(r)
  PROVE  Inv'
<1>1. mode' = mode /\ now' = now /\ store' = store /\ End(r) /\ Release(r)
  BY DEF FetchFails, FetchNon200, Cancel
<1>2. TaskType /\ DataType
  BY TypeHalves DEF Inv
<1>3. CASE memo' = memo
  <2>1. DataType'
    BY <1>1, <1>2, <1>3 DEF DataType
  <2> QED
    BY <1>1, <1>3, <2>1, EndStep DEF MemoFresh
<1>4. CASE pc[r] = "fetching" /\ \E what \in {"error", "non200"} : Remember(key[r], what)
  <2>1. key[r] \in Keys
    BY <1>2, <1>4 DEF TaskType
  <2>2. /\ memo' \in [Keys -> [at : Nat, what : {"error", "non200"}] \cup {NoMemo}]
        /\ \A j \in Keys : MemoFresh(j)' => MemoFresh(j) \/ j = key[r]
    BY <1>1, <1>2, <1>4, <2>1, RememberFacts
  <2>3. DataType'
    BY <1>1, <1>2, <2>2 DEF DataType
  <2> QED
    BY <1>1, <1>4, <2>2, <2>3, EndStep
<1> QED
  BY <1>3, <1>4 DEF FetchFails, FetchNon200, Cancel

\* A 200 answer: only the fetched key gains a record.
LEMMA FetchOkInv ==
  ASSUME Inv, NEW r \in Reqs, FetchOk(r)
  PROVE  Inv'
<1>1. mode' = mode /\ now' = now /\ memo' = memo /\ End(r) /\ Release(r)
  BY DEF FetchOk
<1>2. TaskType /\ DataType /\ pc[r] = "fetching" /\ key[r] \in Keys
  BY TypeHalves DEF Inv, TaskType, FetchOk
<1>3. /\ store' \in [Keys -> Nat \cup {NoRec}]
      /\ \A k \in Keys : k # key[r] => store'[k] = store[k] \/ store'[k] = NoRec
  <2>1. CASE store' = store
    BY <1>2, <2>1 DEF DataType
  <2>2. CASE \E stamp \in SavedStamps(key[r]), gone \in SUBSET (SameKind(key[r]) \ {key[r]}) :
                 store' = [k \in Keys |-> IF k = key[r] THEN stamp
                                          ELSE IF k \in gone THEN NoRec ELSE store[k]]
    <3>1. PICK stamp \in SavedStamps(key[r]), gone \in SUBSET (SameKind(key[r]) \ {key[r]}) :
                 store' = [k \in Keys |-> IF k = key[r] THEN stamp
                                          ELSE IF k \in gone THEN NoRec ELSE store[k]]
      BY <2>2
    <3>2. stamp \in Nat
      BY <1>2, TimesAssumption DEF SavedStamps, DataType
    <3> QED
      BY <1>2, <3>1, <3>2 DEF DataType
  <2> QED
    BY <2>1, <2>2 DEF FetchOk
<1>4. DataType'
  BY <1>1, <1>2, <1>3 DEF DataType
<1>5. \A k \in Keys : Fresh(k, store'[k], now) =>
             Fresh(k, store[k], now) \/ (pc[r] = "fetching" /\ k = key[r])
  BY <1>2, <1>3 DEF Fresh
<1>6. \A k \in Keys : MemoFresh(k)' => MemoFresh(k)
  BY <1>1 DEF MemoFresh
<1> QED
  BY <1>1, <1>4, <1>5, <1>6, EndStep

\* Time passes, or the scheduler sweeps: nothing becomes fresh.
LEMMA QuietInv ==
  ASSUME Inv, Tick \/ Sweep
  PROVE  Inv'
<1>1. UNCHANGED <<mode, memo, locks, pc, key, seen>>
  BY DEF Tick, Sweep
<1>2. DataType
  BY TypeHalves DEF Inv
<1>3. now' \in Nat /\ \A k \in Keys : store'[k] \in Nat \cup {NoRec}
  BY <1>2 DEF Tick, Sweep, DataType
<1>4. \A k \in Keys : ~Fresh(k, store[k], now) => ~Fresh(k, store'[k], now')
  <2>1. CASE Tick
    BY <1>2, <2>1, Ageing DEF Tick, DataType
  <2>2. CASE Sweep
    BY <1>2, <2>2 DEF Sweep, Fresh, DataType
  <2> QED
    BY <2>1, <2>2
<1>5. \A k \in Keys : MemoFresh(k)' => MemoFresh(k)
  BY <1>1, <1>2, TimesAssumption DEF MemoFresh, Tick, Sweep, DataType, NoMemo
<1>6. TypeOK'
  BY <1>1, <1>3 DEF TypeOK, Tick, Sweep, Inv, locks
<1>7. ArcInv' /\ HeadInv'
  BY <1>1 DEF ArcInv, HeadInv, Engaged, Holds, Inv, locks
<1>8. \A r \in Reqs : pc[r] # "idle" => key[r] \in Keys
  BY DEF Inv, TypeOK
<1>9. FoundInv'
  <2> SUFFICES ASSUME NEW r \in Reqs PROVE Found(r)'
    BY DEF FoundInv, Found
  <2>1. Found(r) /\ pc' = pc /\ key' = key /\ mode' = mode
    BY <1>1 DEF Inv, FoundInv, Found
  <2>2. Holds(r)' = Holds(r) /\ (MemoFresh(key[r])' => pc[r] = "idle" \/ MemoFresh(key[r]))
    BY <1>5, <1>8, <2>1 DEF Holds
  <2> QED
    BY <1>4, <1>8, <2>1, <2>2 DEF Found, Holds
<1>10. FailureHidesNoRecord'
  BY <1>4, <1>5 DEF FailureHidesNoRecord, Inv
<1> QED
  BY <1>6, <1>7, <1>9, <1>10 DEF Inv

\* Every step of the service keeps the invariant.
LEMMA NextInv == Inv /\ [Next]_vars => Inv'
<1> SUFFICES ASSUME Inv, [Next]_vars PROVE Inv'
  OBVIOUS
<1>1. CASE Tick \/ Sweep
  BY <1>1, QuietInv
<1>2. ASSUME NEW r \in Reqs, NEW k \in Keys, Lookup(r, k) PROVE Inv'
  BY <1>2, LookupInv
<1>3. ASSUME NEW r \in Reqs, Advance(r) PROVE Inv'
  BY <1>3, DropUnlockedInv, JoinKeepsInv, AcquireInv, LookupLockedInv, DropLockedInv,
     FetchWithoutRecordInv, FetchOkInv DEF Advance
<1>4. ASSUME NEW r \in Reqs, Cancel(r) PROVE Inv'
  BY <1>4, FetchWithoutRecordInv
<1>5. CASE UNCHANGED vars
  BY <1>5 DEF vars, Inv, TypeOK, ArcInv, HeadInv, FoundInv, FailureHidesNoRecord,
              Engaged, Holds, MemoFresh
<1> QED
  BY <1>1, <1>2, <1>3, <1>4, <1>5 DEF Next

-----------------------------------------------------------------------------
\* The inductive invariant holds in every reachable state.
LEMMA InvHolds == Spec => []Inv
  BY InitInv, NextInv, PTL DEF Spec

(***************************************************************************)
(* Type correctness of the read-through lookups.                           *)
(***************************************************************************)
THEOREM TypeCorrect == Spec => []TypeOK
<1>1. Inv => TypeOK
  BY DEF Inv
<1> QED
  BY <1>1, InvHolds, PTL

(***************************************************************************)
(* key_lock is a lock: for any number of requests and keys, however often  *)
(* the table of locks is purged and requests are dropped, no two requests  *)
(* for one key are past it together.                                       *)
(***************************************************************************)
THEOREM KeyLockExcludes == Spec => []OneFlightPerKey
<1>1. Inv => OneFlightPerKey
  BY Exclusion DEF Inv
<1> QED
  BY <1>1, InvHolds, PTL

(***************************************************************************)
(* An upstream request is under way only for a key without a fresh record  *)
(* and without a recent failure (get_cached_url, get_nvidia_ocsp).         *)
(***************************************************************************)
THEOREM FetchesAreNeeded == Spec => []FetchOnlyWhatIsMissing
<1>1. Inv => FetchOnlyWhatIsMissing
  BY DEF Inv, FoundInv, FetchOnlyWhatIsMissing, Holds
<1> QED
  BY <1>1, InvHolds, PTL

(***************************************************************************)
(* A failure replayed from memory never hides a record that could be       *)
(* served (recent_failure, recent_non200).                                 *)
(***************************************************************************)
THEOREM ReplayHidesNothing == Spec => []FailureHidesNoRecord
<1>1. Inv => FailureHidesNoRecord
  BY DEF Inv
<1> QED
  BY <1>1, InvHolds, PTL

(***************************************************************************)
(* No lookup and no sweep deletes a record that is within its lifetime     *)
(* (drop_expired, sweep_expired): only the eviction of a put does.         *)
(***************************************************************************)
THEOREM DropsOnlyExpired == Spec => FreshNeverDropped
<1> DEFINE Kept == \A k \in Keys : Fresh(k, store[k], now) /\ store'[k] = NoRec =>
                \E r \in Reqs : pc[r] = "fetching" /\ pc'[r] = "idle" /\ key[r] # k
<1>1. ASSUME Inv, [Next]_vars PROVE [Kept]_vars
  <2> SUFFICES ASSUME NEW k \in Keys, Fresh(k, store[k], now), store'[k] = NoRec
               PROVE  \E r \in Reqs : pc[r] = "fetching" /\ pc'[r] = "idle" /\ key[r] # k
    OBVIOUS
  <2>1. store[k] # NoRec /\ store \in [Keys -> Nat \cup {NoRec}]
    BY <1>1 DEF Fresh, Inv, TypeOK
  <2>2. store' # store
    BY <2>1
  <2>3. CASE Sweep
    BY <2>1, <2>3 DEF Sweep
  <2>4. ASSUME NEW r \in Reqs, DropUnlocked(r) \/ DropLocked(r) PROVE FALSE
    <3>1. store' = [store EXCEPT ![key[r]] = NoRec] /\ ~Fresh(key[r], store[key[r]], now)
      BY <1>1, <2>4 DEF DropUnlocked, DropLocked, Inv, FoundInv
    <3> QED
      BY <2>1, <3>1
  <2>5. ASSUME NEW r \in Reqs, FetchOk(r)
        PROVE  pc[r] = "fetching" /\ pc'[r] = "idle" /\ key[r] # k
    <3>1. pc[r] = "fetching" /\ pc'[r] = "idle"
      BY <1>1, <2>5 DEF FetchOk, End, Inv, TypeOK
    <3>2. ASSUME key[r] = k PROVE store'[k] \in Nat
      <4>1. now \in Nat
        BY <1>1 DEF Inv, TypeOK
      <4>2. PICK stamp \in SavedStamps(key[r]) : store'[k] = stamp
        BY <2>2, <2>5, <3>2 DEF FetchOk
      <4> QED
        BY <4>1, <4>2, TimesAssumption DEF SavedStamps
    <3> QED
      BY <3>1, <3>2 DEF NoRec
  <2>6. \/ Sweep
        \/ \E r \in Reqs : DropUnlocked(r) \/ DropLocked(r) \/ FetchOk(r)
    BY <1>1, <2>2 DEF Next, vars, Tick, Lookup, Advance, Join, Acquire, LookupLocked,
                FetchFails, FetchNon200, Cancel
  <2> QED
    BY <2>3, <2>4, <2>5, <2>6
<1>2. QED
  BY <1>1, InvHolds, PTL DEF Spec, FreshNeverDropped

(***************************************************************************)
(* No expired record is served, however long its request waited for the    *)
(* key lock (get_cached_url, get_nvidia_ocsp).                             *)
(***************************************************************************)
THEOREM ServesOnlyFresh == Spec => []ExpiredNeverServed
<1>1. Init => ExpiredNeverServed
  BY DEF Init, ExpiredNeverServed
<1>2. ASSUME ExpiredNeverServed, [Next]_vars PROVE ExpiredNeverServed'
  <2>1. CASE served' = served \/ served' = NotServed
    BY <1>2, <2>1 DEF ExpiredNeverServed
  <2>2. CASE \E k : served' = [key |-> k, stamp |-> store[k], at |-> now]
                    /\ Fresh(k, store[k], now)
    <3>1. PICK k : served' = [key |-> k, stamp |-> store[k], at |-> now]
                   /\ Fresh(k, store[k], now)
      BY <2>2
    <3>2. served'.key = k /\ served'.stamp = store[k] /\ served'.at = now
      BY <3>1
    <3> QED
      BY <3>1, <3>2 DEF ExpiredNeverServed
  <2> QED
    BY <1>2, <2>1, <2>2
       DEF Next, vars, Tick, Sweep, Lookup, Missed, Advance, DropUnlocked, Join, Acquire,
           LookupLocked, DropLocked, FetchFails, FetchNon200, FetchOk, Cancel, Serve,
           Answer, Reread, TimeUnderLock
<1> QED
  BY <1>1, <1>2, PTL DEF Spec
=============================================================================
