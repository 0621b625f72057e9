---------------------------- MODULE PlatformPool ----------------------------
(***************************************************************************)
(* What the cache keeps about one SGX platform, and the tasks that race to *)
(* write it (cache.rs, store.rs): GET /pckcert, POST /platforms, the       *)
(* refreshes and PUT /platformcollateral.  On disk there are               *)
(*                                                                         *)
(*   platform/{qe}:{pce}      the pool: credentials, certificates by tcbm, *)
(*                            the raw TCB levels it is known to run        *)
(*   pckcert/{qe}..{pcesvn}   one GET row per raw TCB level                *)
(*   preg/{qe}..{pcesvn}      its rows of the registration queue           *)
(*                                                                         *)
(* A task reads the pool, fetches upstream without any lock, and publishes *)
(* under platform_lock in one batch, after a look at the credentials that  *)
(* are there by then.  A certificate goes by the task that fetched it.     *)
(* Which certificate of a pool select_best_pck_cert picks depends on the   *)
(* TCB documents: here any of them, or none.  Requests are version 4.      *)
(***************************************************************************)
EXTENDS Integers, FiniteSets

CONSTANTS
    Jobs,       \* tasks, each run once
    Raws,       \* raw TCB levels (cpusvn, pcesvn)
    Tcbms,      \* TCB levels certificates are issued for
    Ppids,      \* encrypted PPIDs
    Manifests,  \* platform manifests
    None,       \* no value; as a PPID: empty or all zeros
    Found,      \* the certificate the pool had for a level when the process started
    Stray,      \* another certificate that a row had then
    Modes,      \* cache modes the service may be started in
    Upstreams,  \* upstreams it may have: Intel PCS, another PCCS
    Interval,   \* pool_refetch_interval
    MaxTime     \* bound: the clock stops there

ASSUME NoneAssumption ==
    None \notin Jobs \cup Raws \cup Tcbms \cup Ppids \cup Manifests \cup {Found, Stray}
ASSUME StrayAssumption == Stray # Found /\ {Found, Stray} \cap Jobs = {}
ASSUME UpstreamsAssumption == Upstreams \subseteq {"PCS", "PCCS"}
ASSUME TimeAssumption == Interval \in Nat /\ MaxTime \in Nat

VARIABLES
    mode,         \* CacheMode of the process
    upstream,     \* what it fetches certificates from
    known,        \* is there a pool?
    cred,         \* its credentials
    certs,        \* certs[t]: the fetch its certificate for t is from, or None
    tracked,      \* its raw_tcbs
    rows,         \* rows[r]: the GET row of level r, or NoRow
    queue,        \* queue[r]: credentials in the NEW row of level r, or None
    unavailable,  \* levels with a NOT_AVAILABLE row
    refetcher,    \* holder of the key lock pool-refetch/{platform}, or None
    filler,       \* filler[r]: holder of the key lock pckcert/..., or None
    mark,         \* refetch_marks[platform], or NoMark
    now,          \* the clock
    kind,         \* what a task is
    pc,           \* where it is
    raw,          \* the level it asks for, or None
    want,         \* the credentials it fetches with
    seen,         \* the credentials it saw before its fetch, or None
    na,           \* levels its response calls "Not available"
    todo,         \* levels a refresh from another PCCS has left
    left,         \* history: levels whose row was found out of step with the pool
                  \* at the start and has not been rewritten since
    answer,       \* history: the last certificate served to a GET
    owed          \* history: POSTs whose row was queued and not handed out since

config == <<mode, upstream>>
pool == <<known, cred, certs, tracked, rows, left>>
requeue == <<queue, unavailable, owed>>
locks == <<refetcher, filler, mark>>
locals == <<raw, want, seen, na, todo>>
vars == <<mode, upstream, known, cred, certs, tracked, rows, left, queue, unavailable, refetcher,
          filler, mark, now, kind, pc, raw, want, seen, na, todo, answer, owed>>

Creds == [ppid : Ppids \cup {None}, manifest : Manifests \cup {None}]
NoCred == [ppid |-> None, manifest |-> None]
ASSUME CredsAssumption == None \notin Creds

NoRow == [tcbm |-> None, cert |-> None, cred |-> NoCred]
NoAnswer == [job |-> None, tcbm |-> None, cert |-> None]
NoMark == -1

Kinds == {"none", "get", "post", "put", "refresh"}
Points == {"new", "refetch_wait", "refetch_mark", "select", "key_wait", "fetching", "staged",
           "single", "next", "dequeue", "done", "error", "gone"}

-----------------------------------------------------------------------------
\* is_intel
Intel == upstream = "PCS"

\* PlatformPool::credentials of the pool, if there is one.
Observed == IF known THEN cred ELSE None

\* has_stored_credential
HasCred(c) == c.manifest # None \/ c.ppid # None

\* fetch_pckcert_pccs: a PCCS upstream serves one certificate without a manifest.
Single(j) == ~Intel /\ want[j].manifest = None

Refetching(j) == refetcher = j

Goto(j, p) == pc' = [pc EXCEPT ![j] = p]

\* The key locks go away with the future that holds them.
Unlock(j) ==
    /\ refetcher' = IF refetcher = j THEN None ELSE refetcher
    /\ filler' = [r \in Raws |-> IF filler[r] = j THEN None ELSE filler[r]]
    /\ UNCHANGED mark

Serve(j, row) == answer' = [job |-> j, tcbm |-> row.tcbm, cert |-> row.cert]

\* The row select_from_pool makes of certificate t of the pool as it will be.
RowOf(t) == [tcbm |-> t, cert |-> certs'[t], cred |-> cred']

\* A row holds the certificate its pool has, and its credentials too.
FromPool(row) == row.tcbm \in Tcbms /\ certs[row.tcbm] = row.cert
InStep(row) == FromPool(row) /\ row.cred = cred

(***************************************************************************)
(* The store may hold the platform from an earlier run, and the seed file  *)
(* was loaded over it (SeedStore).  The loader gives the pool a level's    *)
(* certificate only where it has none, and credentials only where they are *)
(* blank, but it puts its own record into the level's row: that row may    *)
(* have another certificate and other credentials than the pool, or no     *)
(* tcbm at all, and the rows of other levels the credentials from before.  *)
(* A seed may also name levels it has no certificate for.  A row's         *)
(* credentials are never read, so NoCred stands for all that may differ    *)
(* from the pool's, and a row with a stray certificate has those.          *)
(***************************************************************************)
Init ==
    /\ mode \in Modes
    /\ upstream \in Upstreams
    /\ known \in BOOLEAN
    /\ cred \in IF known THEN Creds ELSE {NoCred}
    /\ \E S \in SUBSET Tcbms : certs = [t \in Tcbms |-> IF known /\ t \in S THEN Found ELSE None]
    /\ tracked \in IF known THEN SUBSET Raws ELSE {{}}
    /\ LET levels == {t \in Tcbms : certs[t] = Found}
       IN  rows \in [Raws -> {NoRow}
               \cup [tcbm : levels, cert : {Found}, cred : {cred, NoCred}]
               \cup [tcbm : levels \cup {None}, cert : {Stray}, cred : {NoCred}]]
    /\ \A r \in Raws : rows[r] # NoRow => r \in tracked
    /\ left = {r \in Raws : rows[r] # NoRow /\ ~InStep(rows[r])}
    /\ queue = [r \in Raws \cup {None} |-> None]
    /\ unavailable = {}
    /\ refetcher = None
    /\ filler = [r \in Raws |-> None]
    /\ mark = NoMark
    /\ now = 0
    /\ kind = [j \in Jobs |-> "none"]
    /\ pc = [j \in Jobs |-> "new"]
    /\ raw = [j \in Jobs |-> None]
    /\ want = [j \in Jobs |-> NoCred]
    /\ seen = [j \in Jobs |-> None]
    /\ na = [j \in Jobs |-> {}]
    /\ todo = [j \in Jobs |-> {}]
    /\ answer = NoAnswer
    /\ owed = {}

\* Only the throttle of the re-fetches reads the clock: before the first one
\* it need not move.
Tick ==
    /\ now < MaxTime
    /\ mark # NoMark
    /\ now' = now + 1
    /\ UNCHANGED <<config, pool, requeue, locks, kind, pc, locals, answer>>

-----------------------------------------------------------------------------
\* A GET for level r may re-fetch a pool that has never seen it.
RefetchApplies(r) == mode = "LAZY" /\ Intel /\ r \notin tracked /\ HasCred(cred)

\* get_pckcert, up to its first await: a hit, or where the miss goes on.
Get(j, r, ppid) ==
    /\ pc[j] = "new"
    /\ kind' = [kind EXCEPT ![j] = "get"]
    /\ raw' = [raw EXCEPT ![j] = r]
    /\ want' = [want EXCEPT ![j] = [ppid |-> ppid, manifest |-> None]]
    /\ \/ /\ known /\ rows[r] # NoRow
          /\ Serve(j, rows[r]) /\ Goto(j, "done")
       \/ /\ known /\ rows[r] = NoRow
          /\ Goto(j, IF RefetchApplies(r) THEN "refetch_wait" ELSE "select")
          /\ UNCHANGED answer
       \/ ~known /\ Goto(j, "key_wait") /\ UNCHANGED answer
    /\ UNCHANGED <<config, pool, requeue, locks, now, seen, na, todo>>

\* refetch_due
Due == Interval = 0 \/ mark = NoMark \/ now - mark >= Interval

\* Variant: the lock of the platform's re-fetch excludes nobody.
NobodyRefetches == TRUE

RefetchFree == refetcher = None

\* The re-read and the throttle under the platform's re-fetch lock.
RefetchLock(j) ==
    /\ pc[j] = "refetch_wait"
    /\ RefetchFree
    /\ \/ /\ RefetchApplies(raw[j]) /\ Due
          /\ refetcher' = j
          /\ want' = [want EXCEPT ![j] = cred]
          /\ seen' = [seen EXCEPT ![j] = cred]
          /\ Goto(j, "refetch_mark")
       \/ /\ ~(RefetchApplies(raw[j]) /\ Due)
          /\ Goto(j, "select")
          /\ UNCHANGED <<refetcher, want, seen>>
    /\ UNCHANGED <<config, pool, requeue, filler, mark, now, kind, raw, na, todo, answer>>

\* mark_refetch, before the fetch goes out.
RefetchMark(j) ==
    /\ pc[j] = "refetch_mark"
    /\ mark' = now
    /\ Goto(j, "fetching")
    /\ UNCHANGED <<config, pool, requeue, refetcher, filler, now, kind, locals, answer>>

\* select_platform_cert: level r is mapped to a certificate of the pool.
SelectLocally(j, t) ==
    /\ certs[t] # None
    /\ UNCHANGED <<known, cred, certs, left>>
    /\ tracked' = tracked \cup {raw[j]}
    /\ rows' = [rows EXCEPT ![raw[j]] = RowOf(t)]
    /\ Serve(j, RowOf(t))
    /\ Goto(j, "done")

\* Local selection; only LAZY in front of a PCCS goes on when it finds nothing.
Select(j) ==
    /\ pc[j] = "select"
    /\ \/ \E t \in Tcbms : SelectLocally(j, t)
       \/ /\ Goto(j, IF Intel \/ mode # "LAZY" THEN "error" ELSE "key_wait")
          /\ UNCHANGED <<pool, answer>>
    /\ UNCHANGED <<config, requeue, locks, now, kind, locals>>

(***************************************************************************)
(* The rest of get_pckcert under the key lock of the level.  A failure     *)
(* remembered for the level (see SingleFlight) ends the request as well.   *)
(***************************************************************************)
KeyLock(j) ==
    /\ pc[j] = "key_wait"
    /\ filler[raw[j]] = None
    /\ \/ /\ rows[raw[j]] # NoRow
          /\ Serve(j, rows[raw[j]]) /\ Goto(j, "done")
          /\ UNCHANGED <<pool, filler, want, seen>>
       \/ /\ rows[raw[j]] = NoRow /\ mode = "LAZY" /\ Intel /\ known
          /\ \E t \in Tcbms : SelectLocally(j, t)
          /\ UNCHANGED <<filler, want, seen>>
       \/ /\ rows[raw[j]] = NoRow /\ mode = "LAZY"
          /\ ~Intel \/ (~known /\ want[j].ppid # None)
          /\ filler' = [filler EXCEPT ![raw[j]] = j]
          /\ seen' = [seen EXCEPT ![j] = Observed]
          /\ Goto(j, "fetching")
          /\ UNCHANGED <<pool, want, answer>>
       \/ /\ Goto(j, "error")
          /\ UNCHANGED <<pool, filler, want, seen, answer>>
    /\ UNCHANGED <<config, requeue, refetcher, mark, now, kind, raw, na, todo>>

-----------------------------------------------------------------------------
\* register_platform up to its fetch: c are the credentials to fetch with.
Post(j, r, c, cached) ==
    /\ pc[j] = "new"
    /\ kind' = [kind EXCEPT ![j] = "post"]
    /\ raw' = [raw EXCEPT ![j] = r]
    /\ want' = [want EXCEPT ![j] = c]
    /\ seen' = [seen EXCEPT ![j] = Observed]
    /\ queue' = IF cached \/ mode = "LAZY" THEN queue ELSE [queue EXCEPT ![r] = c]
    /\ owed' = IF cached \/ mode = "LAZY" THEN owed ELSE owed \cup {j}
    /\ Goto(j, IF cached \/ mode = "OFFLINE" THEN "done" ELSE "fetching")
    /\ UNCHANGED <<config, pool, unavailable, locks, now, na, todo, answer>>

\* POST with a raw level: the stored manifest, if any, counts as sent.
PostLevel(j, r, ppid) ==
    Post(j, r, [ppid |-> ppid, manifest |-> IF known THEN cred.manifest ELSE None],
         known /\ rows[r] # NoRow)

\* POST with a manifest: no level, no PPID.
PostManifest(j, m) ==
    Post(j, None, [ppid |-> None, manifest |-> m], known /\ cred.manifest = m)

\* delete_registered, after the fill of a POST in REQ.
Dequeue(j) ==
    /\ pc[j] = "dequeue"
    /\ queue' = [queue EXCEPT ![raw[j]] = None]
    /\ Goto(j, "done")
    /\ UNCHANGED <<config, pool, unavailable, owed, locks, now, kind, locals, answer>>

\* take_registered(NEW), take_registered(NOT_AVAILABLE)
TakeNew ==
    /\ queue' = [r \in Raws \cup {None} |-> None]
    /\ owed' = {}
    /\ UNCHANGED <<config, pool, unavailable, locks, now, kind, pc, locals, answer>>

TakeUnavailable ==
    /\ unavailable' = {}
    /\ UNCHANGED <<config, pool, queue, owed, locks, now, kind, pc, locals, answer>>

\* A refresh takes the pool as the scan found it.
StartRefresh(j) ==
    /\ pc[j] = "new" /\ known
    /\ kind' = [kind EXCEPT ![j] = "refresh"]
    /\ want' = [want EXCEPT ![j] = cred]
    /\ seen' = [seen EXCEPT ![j] = cred]
    /\ IF Intel \/ cred.manifest # None
       THEN Goto(j, "fetching") /\ UNCHANGED todo
       ELSE Goto(j, "next") /\ todo' = [todo EXCEPT ![j] = tracked]
    /\ UNCHANGED <<config, pool, requeue, locks, now, raw, na, answer>>

refresh_certs(j) == mode # "OFFLINE" /\ StartRefresh(j)

\* The scheduler: LAZY and Intel only, no pool a request has just re-fetched.
refresh_platform_pools(j) ==
    /\ mode = "LAZY" /\ Intel /\ HasCred(cred) /\ Due
    /\ StartRefresh(j)

\* The loop of refresh_certs over the levels of a pool without a manifest.
RefreshNext(j) ==
    /\ pc[j] = "next"
    /\ \/ todo[j] = {} /\ Goto(j, "done") /\ UNCHANGED <<raw, todo>>
       \/ \E r \in todo[j] :
              /\ raw' = [raw EXCEPT ![j] = r]
              /\ todo' = [todo EXCEPT ![j] = @ \ {r}]
              /\ Goto(j, "fetching")
    /\ UNCHANGED <<config, pool, requeue, locks, now, kind, want, seen, na, answer>>

-----------------------------------------------------------------------------
\* Another PCCS answers with the certificate it has selected.
CertAnswer(j) ==
    /\ pc[j] = "fetching" /\ Single(j)
    /\ Goto(j, "single")
    /\ UNCHANGED <<config, pool, requeue, locks, now, kind, locals, answer>>

\* process_not_available: in REQ, levels without a certificate are queued.
Unavailable(S) == IF mode = "REQ" THEN unavailable \cup S ELSE unavailable

(***************************************************************************)
(* The upstream answers with all certificates of the platform.  Levels it  *)
(* has none for are queued at once, whatever comes of the rest.            *)
(***************************************************************************)
PoolAnswer(j) ==
    /\ pc[j] = "fetching" /\ ~Single(j) /\ HasCred(want[j])
    /\ Goto(j, "staged")
    /\ \E S \in SUBSET Raws :
           /\ na' = [na EXCEPT ![j] = S]
           /\ unavailable' = Unavailable(S)
    /\ UNCHANGED <<config, pool, queue, owed, locks, now, kind, raw, want, seen, todo, answer>>

\* Where a failed fetch or publication leaves a task.
AfterFailure(j) ==
    IF Refetching(j) THEN "select"
    ELSE IF kind[j] = "refresh" /\ pc[j] = "fetching" /\ Single(j) THEN "next"
    ELSE "error"

(***************************************************************************)
(* No usable answer, no usable TCB documents, no selection, a refused      *)
(* publication, or the time limit of a re-fetch.                           *)
(***************************************************************************)
Fails(j) ==
    /\ pc[j] \in {"fetching", "staged", "single"}
    /\ Goto(j, AfterFailure(j))
    /\ Unlock(j)
    /\ UNCHANGED <<config, pool, requeue, now, kind, locals, answer>>

\* Variant: whatever was fetched is published.
PublishAlways(j) == TRUE

(***************************************************************************)
(* check_platform_publication: the credentials are what the task saw; an   *)
(* unknown GET also accepts a pool that got the credentials it sent.       *)
(***************************************************************************)
Publishable(j) ==
    \/ Observed = seen[j]
    \/ kind[j] = "get" /\ seen[j] = None /\ cred = want[j]

\* Where a published task goes on, and what it serves.
Published(j, row) ==
    /\ IF kind[j] = "get" THEN Serve(j, row) ELSE UNCHANGED answer
    /\ Goto(j, IF kind[j] = "post" /\ mode = "REQ" THEN "dequeue"
               ELSE IF kind[j] = "refresh" /\ pc[j] = "single" THEN "next"
               ELSE "done")
    /\ Unlock(j)

\* Variant: a registration by manifest invents a level as well.
RequestedAlways(j) == {raw[j]}

\* The level a fetched pool is selected for beside the known ones, if any.
Requested(j) == IF kind[j] = "refresh" THEN {} ELSE {raw[j]} \cap Raws

\* In LAZY it is not kept when some level was not available.
Kept(j) == IF mode = "LAZY" /\ na[j] # {} THEN {} ELSE Requested(j)

\* Variant: the fresh pool is written with no known levels.
CarriedNothing == {}

\* The known levels, read again under platform_lock.
Carried == tracked

\* Variant: the rows of known levels are left as they are.
ReselectedNothing == {}

\* The levels whose rows are selected again from the fresh pool.
Reselected == tracked

(***************************************************************************)
(* replace_platform_certs_after_fetch: certificates, credentials, known    *)
(* levels and their rows in one batch.                                     *)
(***************************************************************************)
Publish(j) ==
    /\ pc[j] = "staged"
    /\ Publishable(j)
    /\ \E S \in (SUBSET Tcbms) \ {{}} : \E best \in [Raws -> S] :
           /\ known' = TRUE
           /\ cred' = want[j]
           /\ certs' = [t \in Tcbms |-> IF t \in S THEN j ELSE None]
           /\ tracked' = Carried \cup Kept(j)
           /\ rows' = [r \in Raws |-> IF r \in Reselected \cup Kept(j)
                                      THEN RowOf(best[r]) ELSE rows[r]]
           /\ left' = {}
           /\ Published(j, IF kind[j] = "get" THEN RowOf(best[raw[j]]) ELSE NoRow)
    /\ UNCHANGED <<config, requeue, now, kind, locals>>

\* Variant: rows of other levels keep the certificate that was replaced.
KeepsCert(r, t) == FALSE

\* The rows a merged certificate for t goes into as well.
TakesCert(r, t) == rows[r].tcbm = t

(***************************************************************************)
(* merge_pckcert_after_fetch: one certificate joins the pool; the rows     *)
(* that served the one it replaces are rewritten.                          *)
(***************************************************************************)
Merge(j) ==
    /\ pc[j] = "single"
    /\ Publishable(j)
    /\ \E t \in Tcbms :
           /\ known' = TRUE
           /\ cred' = IF known THEN cred ELSE want[j]
           /\ certs' = [certs EXCEPT ![t] = j]
           /\ tracked' = tracked \cup {raw[j]}
           /\ rows' = [r \in Raws |->
                          IF r = raw[j] THEN RowOf(t)
                          ELSE IF r \in tracked /\ rows[r] # NoRow
                          THEN [rows[r] EXCEPT !.cred = cred',
                                               !.cert = IF TakesCert(r, t) THEN j ELSE @]
                          ELSE rows[r]]
           /\ left' = {r \in left : r # raw[j] /\ rows[r].tcbm # t /\ ~FromPool(rows[r])}
           /\ Published(j, RowOf(t))
    /\ UNCHANGED <<config, requeue, now, kind, locals>>

\* A certificate without an issuer chain is relayed, not stored.
Relay(j) ==
    /\ pc[j] = "single"
    /\ Goto(j, IF kind[j] = "post" /\ mode = "REQ" THEN "dequeue"
               ELSE IF kind[j] = "refresh" THEN "next" ELSE "done")
    /\ Unlock(j)
    /\ UNCHANGED <<config, pool, requeue, now, kind, locals, answer>>

(***************************************************************************)
(* put_platform_collateral, its part under platform_lock: an administrator *)
(* replaces the certificates and, when the body lists the platform, the    *)
(* credentials, adds levels, and every level is selected again.            *)
(***************************************************************************)
Put(j) ==
    /\ pc[j] = "new"
    /\ kind' = [kind EXCEPT ![j] = "put"]
    /\ \/ \E S \in (SUBSET Tcbms) \ {{}}, levels \in SUBSET Raws, c \in Creds :
          \E best \in [Raws -> S] :
              /\ known' = TRUE
              /\ cred' = c
              /\ certs' = [t \in Tcbms |-> IF t \in S THEN j ELSE None]
              /\ tracked' = tracked \cup levels
              /\ rows' = [r \in Raws |-> IF r \in tracked \cup levels
                                         THEN RowOf(best[r]) ELSE rows[r]]
              /\ left' = {}
              /\ Goto(j, "done")
       \/ Goto(j, "error") /\ UNCHANGED pool
    /\ UNCHANGED <<config, requeue, locks, now, locals, answer>>

\* The client of a task hangs up while it waits.
HangUp(j) ==
    /\ pc[j] \in {"refetch_wait", "refetch_mark", "key_wait", "fetching", "staged"}
    /\ Goto(j, "gone")
    /\ Unlock(j)
    /\ UNCHANGED <<config, pool, requeue, now, kind, locals, answer>>

-----------------------------------------------------------------------------
Arrive(j) ==
    \/ \E r \in Raws, ppid \in Ppids \cup {None} : Get(j, r, ppid)
    \/ \E r \in Raws, ppid \in Ppids : PostLevel(j, r, ppid)
    \/ \E m \in Manifests : PostManifest(j, m)
    \/ refresh_certs(j)
    \/ refresh_platform_pools(j)
    \/ Put(j)

Advance(j) ==
    \/ RefetchLock(j) \/ RefetchMark(j) \/ Select(j) \/ KeyLock(j)
    \/ RefreshNext(j) \/ CertAnswer(j) \/ PoolAnswer(j) \/ Fails(j)
    \/ Publish(j) \/ Merge(j) \/ Relay(j) \/ Dequeue(j)

Next ==
    \/ \E j \in Jobs : Arrive(j) \/ Advance(j) \/ HangUp(j)
    \/ TakeNew \/ TakeUnavailable
    \/ Tick

Spec == Init /\ [][Next]_vars

-----------------------------------------------------------------------------
\* Type invariant.
TypeOK ==
    /\ mode \in Modes
    /\ upstream \in Upstreams
    /\ known \in BOOLEAN
    /\ cred \in Creds
    /\ certs \in [Tcbms -> Jobs \cup {Found, None}]
    /\ tracked \subseteq Raws
    /\ rows \in [Raws -> {NoRow} \cup [tcbm : Tcbms \cup {None},
                                       cert : Jobs \cup {Found, Stray}, cred : Creds]]
    /\ left \subseteq Raws
    /\ queue \in [Raws \cup {None} -> Creds \cup {None}]
    /\ unavailable \subseteq Raws
    /\ refetcher \in Jobs \cup {None}
    /\ filler \in [Raws -> Jobs \cup {None}]
    /\ mark \in Nat \cup {NoMark}
    /\ now \in Nat
    /\ kind \in [Jobs -> Kinds]
    /\ pc \in [Jobs -> Points]
    /\ raw \in [Jobs -> Raws \cup {None}]
    /\ want \in [Jobs -> Creds]
    /\ seen \in [Jobs -> Creds \cup {None}]
    /\ na \in [Jobs -> SUBSET Raws]
    /\ todo \in [Jobs -> SUBSET Raws]
    /\ owed \subseteq Jobs

(***************************************************************************)
(* "leaving the old pool and success keys coherent": whatever fetches,     *)
(* registrations, selections, merges and PUTs raced, a GET row belongs to  *)
(* a level the pool tracks, holds the certificate that is in the pool now  *)
(* and was made under the credentials the pool has now                     *)
(* (replace_platform_certs_after_fetch, merge_pckcert_after_fetch,         *)
(* select_platform_cert, put_platform_collateral).  Excepted are only the  *)
(* rows the seed loader had put out of step before the process served; a   *)
(* replacement of the pool ends that for all of them, a merge for the rows *)
(* of its certificate.                                                     *)
(***************************************************************************)
RowsMatchPool ==
    \A r \in Raws : rows[r] # NoRow =>
        /\ known /\ r \in tracked
        /\ r \in left \/ InStep(rows[r])

(***************************************************************************)
(* "the pool must never be written with these dropped": a raw TCB level,   *)
(* once known, stays known and keeps its GET row, through every            *)
(* replacement of the pool and every task dropped halfway                  *)
(* (replace_platform_certs_after_fetch).                                   *)
(***************************************************************************)
LevelsNeverLost ==
    [][/\ tracked \subseteq tracked'
       /\ \A r \in Raws : rows[r] # NoRow => rows'[r] # NoRow]_vars

(***************************************************************************)
(* "Rejecting PCK response fetched under stale platform credentials": the  *)
(* credentials of a known platform change only by a PUT of an              *)
(* administrator, or by a POST that had seen the credentials it replaces;  *)
(* no GET, re-fetch or refresh puts its own or outdated ones back, however *)
(* long its fetch took (check_platform_publication).                       *)
(***************************************************************************)
CredentialsChangeByRegistration ==
    [][known /\ cred' # cred =>
          \E j \in Jobs : /\ pc'[j] # pc[j]
                          /\ kind'[j] = "put" \/ (kind[j] = "post" /\ seen[j] = cred)]_vars

(***************************************************************************)
(* A certificate served to a GET, from a row, a local selection or a       *)
(* fetch, is in the platform's pool at the moment it is served: never one  *)
(* of a pool that a registration or a PUT has replaced.  The exceptions    *)
(* are a row the seed loader left out of step and nothing has rewritten    *)
(* since, and a certificate another PCCS sent without its issuer chain,    *)
(* which is relayed and leaves no trace here (get_pckcert, fill_pckcert).  *)
(***************************************************************************)
ServedFromCurrentPool ==
    [][answer' # answer =>
          /\ known'
          /\ \/ answer'.tcbm \in Tcbms /\ certs'[answer'.tcbm] = answer'.cert
             \/ \E r \in left : /\ answer'.tcbm = rows[r].tcbm
                                /\ answer'.cert = rows[r].cert]_vars

(***************************************************************************)
(* "the throttle check inside it so queued requests do not each fetch":    *)
(* two re-fetches of the platform's pool by requests start at least        *)
(* Interval apart (refetch_pool_for_new_raw_tcb, refetch_due,              *)
(* mark_refetch).                                                          *)
(***************************************************************************)
RefetchesSpaced ==
    [][mark' # mark \/ (\E j \in Jobs : pc[j] = "refetch_mark" /\ pc'[j] = "fetching") =>
          mark = NoMark \/ now - mark >= Interval]_vars

(***************************************************************************)
(* "Node propagates a fill failure and leaves the NEW row in the queue",   *)
(* "Only this platform's own row leaves the queue": the row of a POST that *)
(* failed in REQ waits in the queue for the administrator, unless the      *)
(* platform has been filled with the credentials it sent after all         *)
(* (register_platform of the cache).  Two POSTs for one level share a row. *)
(***************************************************************************)
FailedPostStaysQueued ==
    \A j \in owed : pc[j] = "error" =>
        queue[raw[j]] # None \/ (known /\ cred = want[j])
=============================================================================
