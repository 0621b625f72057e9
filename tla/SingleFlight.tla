---------------------------- MODULE SingleFlight ----------------------------
(***************************************************************************)
(* The read-through lookups of the cache (cache.rs): get_cached_url (AMD   *)
(* KDS and NVIDIA RIM) and get_nvidia_ocsp, with the per-key lock table    *)
(* (`inflight', key_lock), the memory of recent failures (`failures',      *)
(* remember, recent_outcome) and the periodic sweep.                       *)
(*                                                                         *)
(* A request is a task: it runs between two awaits without giving up its   *)
(* locals, other tasks run on other threads meanwhile, and its client may  *)
(* hang up at any await, which drops the future, its guard and its Arc.    *)
(*                                                                         *)
(* What a stored record contributes is the one field its expiry test       *)
(* reads: fetched_at of a URL record, expires_at of an OCSP record.  The   *)
(* index and the cap of the store are in ReadThroughStore.                 *)
(***************************************************************************)
EXTENDS Integers, Sequences, FiniteSets

CONSTANTS
    Reqs,        \* request tasks
    Keys,        \* store keys
    Ocsp,        \* those of them that hold OCSP records
    Locks,       \* addresses a fresh Arc<Mutex> can get
    Modes,       \* cache modes the service may be started in
    NoLock, NoKey,
    Ttl,         \* *_cache_ttl_secs, and nvidia_ocsp_max_ttl_secs
    FailureTtl,  \* FAILURE_TTL
    MaxLocks,    \* size past which dead lock entries are purged: 1024
    MaxMemos,    \* RECENT_OUTCOMES_MAX
    MaxTime      \* bound: the clock stops there

ASSUME OcspAssumption == Ocsp \subseteq Keys
ASSUME ModesAssumption == Modes \subseteq {"LAZY", "REQ", "OFFLINE"}
ASSUME NoneAssumption == NoLock \notin Locks /\ NoKey \notin Keys
ASSUME TimesAssumption == Ttl \in Nat /\ FailureTtl \in Nat /\ MaxTime \in Nat
ASSUME CapsAssumption == MaxLocks \in Nat /\ MaxMemos \in Nat

VARIABLES
    mode,      \* CacheMode of the process
    now,       \* the clock, in seconds
    store,     \* store[k]: the stamp of the record at k, or NoRec
    memo,      \* failures[k]: a remembered outcome, or NoMemo
    inflight,  \* inflight[k]: the lock the Weak at k points to, or NoLock
    queue,     \* queue[l]: requests on lock l in order of arrival; the first holds it
    pc,        \* where a request is
    key,       \* the key it asks for, NoKey when it is not running
    arc,       \* the lock whose Arc it keeps alive, or NoLock
    seen,      \* the time it read before its unlocked lookup
    served     \* history: the last answer, if it was a record of the store

locks == <<inflight, queue, arc>>
vars == <<mode, now, store, memo, inflight, queue, pc, key, arc, seen, served>>

NoRec == -1
NoMemo == [at |-> -1, what |-> "none"]
NotServed == [key |-> NoKey, stamp |-> NoRec, at |-> 0]
Points == {"idle", "drop_unlocked", "miss", "queued", "locked", "drop_locked", "fetching"}

-----------------------------------------------------------------------------
\* u64::saturating_sub
Minus(a, b) == IF a > b THEN a - b ELSE 0

\* The expiry tests: expires_at > now, now.saturating_sub(fetched_at) < ttl.
Fresh(k, stamp, t) ==
    /\ stamp # NoRec
    /\ IF k \in Ocsp THEN stamp > t ELSE Minus(t, stamp) < Ttl

MemoFresh(k) == memo[k] # NoMemo /\ now - memo[k].at < FailureTtl

Goto(r, p) == pc' = [pc EXCEPT ![r] = p] /\ UNCHANGED <<key, seen>>

\* A request ends: its locals are gone.
End(r) ==
    /\ pc' = [pc EXCEPT ![r] = "idle"]
    /\ key' = [key EXCEPT ![r] = NoKey]
    /\ seen' = [seen EXCEPT ![r] = 0]

\* It is answered: with a record of the store, or with something else.
Serve(k, stamp) == served' = [key |-> k, stamp |-> stamp, at |-> now]
Answer(what) == served' = NotServed

\* The queue once request r has left it, wherever it stood.
Remaining(s, r) ==
    IF \E i \in 1 .. Len(s) : s[i] = r
    THEN LET i == CHOOSE i \in 1 .. Len(s) : s[i] = r
         IN  [j \in 1 .. Len(s) - 1 |-> IF j < i THEN s[j] ELSE s[j + 1]]
    ELSE s

\* Variant: the guard of a request that ends is not given back.
Leak(r) == UNCHANGED locks

\* The guard and the Arc of a request go away with its future.
Release(r) ==
    /\ queue' = [l \in Locks |-> IF l = arc[r] THEN Remaining(queue[l], r) ELSE queue[l]]
    /\ arc' = [arc EXCEPT ![r] = NoLock]
    /\ UNCHANGED inflight

-----------------------------------------------------------------------------
(***************************************************************************)
(* The service starts on a store that earlier runs filled: any record, old *)
(* or recent, may be there.                                                *)
(***************************************************************************)
Init ==
    /\ mode \in Modes
    /\ now = Ttl
    /\ store \in [Keys -> {NoRec} \cup 0 .. Ttl + 1]
    /\ \A k \in Keys \ Ocsp : store[k] <= now
    /\ memo = [k \in Keys |-> NoMemo]
    /\ inflight = [k \in Keys |-> NoLock]
    /\ queue = [l \in Locks |-> << >>]
    /\ pc = [r \in Reqs |-> "idle"]
    /\ key = [r \in Reqs |-> NoKey]
    /\ arc = [r \in Reqs |-> NoLock]
    /\ seen = [r \in Reqs |-> 0]
    /\ served = NotServed

Tick ==
    /\ now < MaxTime
    /\ now' = now + 1
    /\ UNCHANGED <<mode, store, memo, locks, pc, key, seen, served>>

\* Variant: an expired record is deleted before the key lock in LAZY too.
DropsAlways == TRUE

\* LAZY leaves the drop of an expired record to the holder of the key lock.
DropsUnlocked == mode # "LAZY"

\* A lookup that missed: LAZY goes on to the upstream, the others give up.
Missed(r, k, dropping) ==
    \/ /\ dropping \/ mode = "LAZY"
       /\ pc' = [pc EXCEPT ![r] = IF dropping THEN "drop_unlocked" ELSE "miss"]
       /\ key' = [key EXCEPT ![r] = k]
       /\ seen' = [seen EXCEPT ![r] = now]
       /\ UNCHANGED served
    \/ /\ ~dropping /\ mode # "LAZY"
       /\ End(r) /\ Answer("NO_CACHE_DATA")

\* The unlocked lookup: a hit, or a miss that may have found an expired record.
Lookup(r, k) ==
    /\ pc[r] = "idle"
    /\ \/ /\ Fresh(k, store[k], now)
          /\ Serve(k, store[k]) /\ UNCHANGED <<pc, key, seen>>
       \/ /\ ~Fresh(k, store[k], now)
          /\ Missed(r, k, store[k] # NoRec /\ DropsUnlocked)
    /\ UNCHANGED <<mode, now, store, memo, locks>>

\* drop_expired before the lock: whatever is at the key by now is deleted.
DropUnlocked(r) ==
    /\ pc[r] = "drop_unlocked"
    /\ store' = [store EXCEPT ![key[r]] = NoRec]
    /\ Missed(r, key[r], FALSE)
    /\ UNCHANGED <<mode, now, memo, locks>>

-----------------------------------------------------------------------------
\* Weak::strong_count() > 0
Alive(l) == \E r \in Reqs : arc[r] = l

\* Variant: the purge empties the table.
PurgedAll == [k \in Keys |-> NoLock]

\* The lock table once a full one has lost its dead entries.
Purged ==
    IF Cardinality({k \in Keys : inflight[k] # NoLock}) > MaxLocks
    THEN [k \in Keys |-> IF Alive(inflight[k]) THEN inflight[k] ELSE NoLock]
    ELSE inflight

\* The locks key k may get: the one alive in table `map', else any free address.
LocksFor(map, k) ==
    IF map[k] # NoLock /\ Alive(map[k])
    THEN {map[k]}
    ELSE {l \in Locks : ~Alive(l) /\ \A j \in Keys \ {k} : map[j] # l}

\* key_lock, first half: find or make the lock of the key and queue up on it.
Join(r) ==
    /\ pc[r] = "miss"
    /\ \E l \in LocksFor(Purged, key[r]) :
           /\ inflight' = [Purged EXCEPT ![key[r]] = l]
           /\ arc' = [arc EXCEPT ![r] = l]
           /\ queue' = [queue EXCEPT ![l] = Append(@, r)]
    /\ Goto(r, "queued")
    /\ UNCHANGED <<mode, now, store, memo, served>>

\* Variant: the outcome of the sibling is not looked up.
NothingRemembered(r) == {}

\* What recent_outcome finds for the key of r.
Remembered(r) == IF MemoFresh(key[r]) THEN {memo[key[r]].what} ELSE {}

(***************************************************************************)
(* key_lock, second half, and recent_non200: the guard is granted in order *)
(* of arrival; a failure or a non-200 answer a sibling just got is         *)
(* returned again; a stale memory is forgotten when it is read.            *)
(***************************************************************************)
Acquire(r) ==
    /\ pc[r] = "queued"
    /\ queue[arc[r]] # << >> /\ Head(queue[arc[r]]) = r
    /\ memo' = [memo EXCEPT ![key[r]] = IF MemoFresh(key[r]) THEN @ ELSE NoMemo]
    /\ \/ \E what \in Remembered(r) :
              End(r) /\ Answer(what) /\ Release(r)
       \/ Remembered(r) = {} /\ Goto(r, "locked") /\ UNCHANGED <<served, locks>>
    /\ UNCHANGED <<mode, now, store>>

\* Variant: the time read before the lock is used again.
TimeBeforeLock(r) == seen[r]

\* The time is read again under the lock.
TimeUnderLock(r) == now

\* Variant: the request fetches without looking at the store again.
RereadNothing(r) == NoRec

\* The record found under the lock.
Reread(r) == store[key[r]]

\* The locked re-read: a sibling may have filled the key meanwhile.
LookupLocked(r) ==
    /\ pc[r] = "locked"
    /\ \/ /\ Fresh(key[r], Reread(r), TimeUnderLock(r))
          /\ End(r) /\ Serve(key[r], Reread(r)) /\ Release(r)
       \/ /\ ~Fresh(key[r], Reread(r), TimeUnderLock(r))
          /\ Goto(r, IF Reread(r) # NoRec THEN "drop_locked" ELSE "fetching")
          /\ UNCHANGED <<served, locks>>
    /\ UNCHANGED <<mode, now, store, memo>>

\* drop_expired under the lock, then the upstream request goes out.
DropLocked(r) ==
    /\ pc[r] = "drop_locked"
    /\ store' = [store EXCEPT ![key[r]] = NoRec]
    /\ Goto(r, "fetching")
    /\ UNCHANGED <<mode, now, memo, locks, served>>

-----------------------------------------------------------------------------
\* The memory of outcomes, once room was sought for an outcome of key k.
Room(k) ==
    IF memo[k] = NoMemo /\ Cardinality({j \in Keys : memo[j] # NoMemo}) >= MaxMemos
    THEN [j \in Keys |-> IF MemoFresh(j) THEN memo[j] ELSE NoMemo]
    ELSE memo

\* remember: a full memory takes no new key.
Remember(k, what) ==
    memo' = IF Room(k)[k] = NoMemo
               /\ Cardinality({j \in Keys : Room(k)[j] # NoMemo}) >= MaxMemos
            THEN Room(k)
            ELSE [Room(k) EXCEPT ![k] = [at |-> now, what |-> what]]

\* No answer, or a 1xx or 3xx one: an error the siblings are told too.
FetchFails(r) ==
    /\ pc[r] = "fetching"
    /\ Remember(key[r], "error")
    /\ End(r) /\ Answer("error") /\ Release(r)
    /\ UNCHANGED <<mode, now, store>>

\* Any other status but 200 is relayed, and remembered unless its body is big.
FetchNon200(r) ==
    /\ pc[r] = "fetching"
    /\ Remember(key[r], "non200") \/ UNCHANGED memo
    /\ End(r) /\ Answer("non200") /\ Release(r)
    /\ UNCHANGED <<mode, now, store>>

\* Variant: the time left is stored, not the time it ends.
SavedLifetimes(k) == {Ttl - now}

\* The stamps a 200 answer can be stored under (response_cache_expiry for OCSP).
SavedStamps(k) == IF k \in Ocsp THEN now + 1 .. now + Ttl ELSE {now}

SameKind(k) == IF k \in Ocsp THEN Ocsp ELSE Keys \ Ocsp

(***************************************************************************)
(* A 200 answer is stored; the put may evict other records of the kind.    *)
(* An OCSP answer that may not be kept is relayed only.  A put that fails  *)
(* is an internal error nobody remembers.                                  *)
(***************************************************************************)
FetchOk(r) ==
    /\ pc[r] = "fetching"
    /\ End(r) /\ Release(r)
    /\ \/ \E stamp \in SavedStamps(key[r]), gone \in SUBSET (SameKind(key[r]) \ {key[r]}) :
              /\ store' = [k \in Keys |-> IF k = key[r] THEN stamp
                                          ELSE IF k \in gone THEN NoRec ELSE store[k]]
              /\ Answer("upstream")
       \/ /\ key[r] \in Ocsp
          /\ Answer("upstream") /\ UNCHANGED store
       \/ Answer("INTERNAL_ERROR") /\ UNCHANGED store
    /\ UNCHANGED <<mode, now, memo>>

\* sweep_expired: the scheduler deletes every expired record.
Sweep ==
    /\ \E k \in Keys : store[k] # NoRec /\ ~Fresh(k, store[k], now)
    /\ store' = [k \in Keys |-> IF Fresh(k, store[k], now) THEN store[k] ELSE NoRec]
    /\ UNCHANGED <<mode, now, memo, locks, pc, key, seen, served>>

\* The client of a request hangs up: the future is dropped where it waits.
Cancel(r) ==
    /\ pc[r] \in {"miss", "queued", "fetching"}
    /\ End(r) /\ Answer("none") /\ Release(r)
    /\ UNCHANGED <<mode, now, store, memo>>

\* The steps a request takes by itself once it has arrived.
Advance(r) ==
    \/ DropUnlocked(r) \/ Join(r) \/ Acquire(r) \/ LookupLocked(r)
    \/ DropLocked(r) \/ FetchFails(r) \/ FetchNon200(r) \/ FetchOk(r)

Next ==
    \/ Tick
    \/ Sweep
    \/ \E r \in Reqs :
           (\E k \in Keys : Lookup(r, k)) \/ Advance(r) \/ Cancel(r)

Spec == Init /\ [][Next]_vars

(***************************************************************************)
(* Tasks are polled when they can run, and an upstream attempt ends within *)
(* REQUEST_TIMEOUT (pcs.rs), with a bounded number of attempts.            *)
(***************************************************************************)
FairSpec == Spec /\ \A r \in Reqs : WF_vars(Advance(r))

-----------------------------------------------------------------------------
\* Type invariant.
TypeOK ==
    /\ mode \in Modes
    /\ now \in Nat
    /\ store \in [Keys -> Nat \cup {NoRec}]
    /\ memo \in [Keys -> [at : Nat, what : {"error", "non200"}] \cup {NoMemo}]
    /\ inflight \in [Keys -> Locks \cup {NoLock}]
    /\ queue \in [Locks -> Seq(Reqs)]
    /\ pc \in [Reqs -> Points]
    /\ key \in [Reqs -> Keys \cup {NoKey}]
    /\ \A r \in Reqs : pc[r] # "idle" => key[r] \in Keys
    /\ arc \in [Reqs -> Locks \cup {NoLock}]
    /\ seen \in [Reqs -> Nat]

Holds(r) == pc[r] \in {"locked", "drop_locked", "fetching"}

(***************************************************************************)
(* "N concurrent misses on the same key produce one upstream request": no  *)
(* two requests for one key are past the key lock together, though the     *)
(* table forgets locks, is purged when it grows, and requests are dropped  *)
(* while they wait for or hold a lock (key_lock).                          *)
(***************************************************************************)
OneFlightPerKey ==
    \A r, q \in Reqs : r # q /\ Holds(r) /\ Holds(q) => key[r] # key[q]

(***************************************************************************)
(* The losers "re-read the store after acquiring": an upstream request is  *)
(* under way only for a key the store has no fresh record of and no recent *)
(* failure is remembered for.  It holds for as long as the request lasts:  *)
(* nobody fills the key, or fails for it, behind its back.                 *)
(***************************************************************************)
FetchOnlyWhatIsMissing ==
    \A r \in Reqs : pc[r] = "fetching" =>
        ~Fresh(key[r], store[key[r]], now) /\ ~MemoFresh(key[r])

(***************************************************************************)
(* A remembered failure is replayed without a look at the store (key_lock, *)
(* recent_non200), which is right because it never hides a record that     *)
(* could have been served.                                                 *)
(***************************************************************************)
FailureHidesNoRecord ==
    \A k \in Keys : MemoFresh(k) => ~Fresh(k, store[k], now)

(***************************************************************************)
(* "Expired entries are never served": a record served from the store is   *)
(* within its lifetime when it is served, however long the request waited  *)
(* for the key lock before (get_cached_url, get_nvidia_ocsp).              *)
(***************************************************************************)
ExpiredNeverServed ==
    served # NotServed => Fresh(served.key, served.stamp, served.at)

(***************************************************************************)
(* "a concurrent fill that just replaced it is never deleted": a record    *)
(* within its lifetime leaves the store only when a put of another key of  *)
(* its kind evicts it, never by a request or a sweep dropping an expired   *)
(* one (drop_expired, sweep_expired).                                      *)
(***************************************************************************)
FreshNeverDropped ==
    [][\A k \in Keys : Fresh(k, store[k], now) /\ store'[k] = NoRec =>
           \E r \in Reqs : pc[r] = "fetching" /\ pc'[r] = "idle" /\ key[r] # k]_vars

(***************************************************************************)
(* Every request ends: no hang-up, failure or purge of the lock table      *)
(* leaves the requests of a key waiting for a lock nobody will give back.  *)
(***************************************************************************)
EveryRequestEnds == \A r \in Reqs : pc[r] # "idle" ~> pc[r] = "idle"
=============================================================================
