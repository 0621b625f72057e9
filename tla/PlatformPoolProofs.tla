------------------------- MODULE PlatformPoolProofs -------------------------
(***************************************************************************)
(* Proofs about PlatformPool for any number of tasks, levels, certificates *)
(* and credentials, any mode and upstream, any interval.                   *)
(***************************************************************************)
EXTENDS PlatformPool, TLAPS

-----------------------------------------------------------------------------
(* The inductive invariant *)

\* A platform that is not known has no certificates.
UnknownEmpty == ~known => \A t \in Tcbms : certs[t] = None

\* Which task is where, and for which level.
PlaceOK(j) ==
    /\ kind[j] = "get" => raw[j] \in Raws
    /\ pc[j] \in {"refetch_wait", "refetch_mark", "select", "key_wait"} => kind[j] = "get"
    /\ pc[j] \in {"fetching", "staged", "single"} => kind[j] \in {"get", "post", "refresh"}
    /\ pc[j] = "next" => kind[j] = "refresh"
    /\ pc[j] \in {"single", "next"} => Single(j)
    /\ pc[j] = "staged" => ~Single(j)
    /\ pc[j] \in {"fetching", "single"} /\ Single(j) => raw[j] \in Raws

\* With which credentials: those it has seen, or its own for a platform nobody knew.
CredentialsOK(j) ==
    /\ kind[j] = "refresh" => want[j] = seen[j]
    /\ kind[j] = "get" /\ ~Intel => want[j].manifest = None
    /\ kind[j] = "get" /\ Intel /\ pc[j] \in {"fetching", "staged"} =>
           seen[j] \in {None, want[j]}

\* A re-fetch holds the lock of the platform until it has ended, and the
\* throttle it has passed is not touched before it sets its own mark.
RefetchOK(j) ==
    /\ refetcher = j =>
           /\ Intel /\ kind[j] = "get" /\ want[j] = seen[j]
           /\ pc[j] \in {"refetch_mark", "fetching", "staged"}
    /\ pc[j] = "refetch_mark" =>
           refetcher = j /\ (mark = NoMark \/ now - mark >= Interval)

TaskOK(j) == PlaceOK(j) /\ CredentialsOK(j) /\ RefetchOK(j)

Inv ==
    /\ TypeOK
    /\ RowsMatchPool
    /\ UnknownEmpty
    /\ mark <= now
    /\ \A j \in Jobs : TaskOK(j)

-----------------------------------------------------------------------------
(* The pool and its rows *)

Row == [tcbm : Tcbms \cup {None}, cert : Jobs \cup {Found, Stray}, cred : Creds]

PoolTypes ==
    /\ known \in BOOLEAN
    /\ cred \in Creds
    /\ certs \in [Tcbms -> Jobs \cup {Found, None}]
    /\ tracked \subseteq Raws
    /\ rows \in [Raws -> {NoRow} \cup Row]
    /\ left \subseteq Raws

\* What a GET may be answered with.
AnswerStep ==
    answer' # answer =>
        /\ known'
        /\ \/ answer'.tcbm \in Tcbms /\ certs'[answer'.tcbm] = answer'.cert
           \/ \E r \in left : /\ answer'.tcbm = rows[r].tcbm
                              /\ answer'.cert = rows[r].cert

\* What every step does to the pool, its rows and the answer.
PoolStep ==
    /\ PoolTypes'
    /\ RowsMatchPool'
    /\ UnknownEmpty'
    /\ tracked \subseteq tracked'
    /\ \A r \in Raws : rows[r] # NoRow => rows'[r] # NoRow
    /\ AnswerStep

\* A row is not the absence of one.
LEMMA RowIsRow ==
    ASSUME NEW row \in Row
    PROVE  row # NoRow
BY NoneAssumption DEF Row, NoRow

\* What select_from_pool writes for certificate t.
LEMMA RowOfCert ==
    ASSUME NEW t \in Tcbms, certs'[t] \in Jobs \cup {Found}, cred' \in Creds
    PROVE  /\ RowOf(t) \in Row /\ RowOf(t) # NoRow
           /\ RowOf(t).tcbm = t /\ RowOf(t).cert = certs'[t] /\ RowOf(t).cred = cred'
<1>1. RowOf(t) \in Row /\ RowOf(t).tcbm = t /\ RowOf(t).cert = certs'[t] /\ RowOf(t).cred = cred'
  BY DEF RowOf, Row
<1> QED BY <1>1, RowIsRow

\* What Serve answers with.
LEMMA Served ==
    ASSUME NEW j, NEW row, Serve(j, row)
    PROVE  answer'.tcbm = row.tcbm /\ answer'.cert = row.cert
BY DEF Serve

\* Steps that leave the pool and the answer alone.
LEMMA PoolUnchanged ==
    ASSUME Inv, UNCHANGED <<pool, answer>>
    PROVE  PoolStep
BY DEF Inv, TypeOK, PoolStep, PoolTypes, RowsMatchPool, InStep, FromPool, UnknownEmpty, pool, Row,
       AnswerStep

\* A row that is served as it is.
LEMMA RowServed ==
    ASSUME Inv, UNCHANGED pool, NEW j, NEW r \in Raws, rows[r] # NoRow, Serve(j, rows[r])
    PROVE  PoolStep
<1>1. answer'.tcbm = rows[r].tcbm /\ answer'.cert = rows[r].cert
  BY Served
<1>2. known /\ (r \in left \/ FromPool(rows[r]))
  BY DEF Inv, RowsMatchPool, InStep
<1>3. AnswerStep
  BY <1>1, <1>2 DEF AnswerStep, FromPool, pool
<1> QED BY <1>3 DEF Inv, TypeOK, PoolStep, PoolTypes, RowsMatchPool, InStep, FromPool, UnknownEmpty,
                    pool, Row

\* select_platform_cert
LEMMA SelectLocallyPool ==
    ASSUME Inv, NEW j \in Jobs, raw[j] \in Raws, NEW t \in Tcbms, SelectLocally(j, t)
    PROVE  PoolStep
<1> DEFINE r0 == raw[j]
<1>1. /\ known' = known /\ cred' = cred /\ certs' = certs /\ left' = left /\ tracked' = tracked \cup {r0}
      /\ rows' = [rows EXCEPT ![r0] = RowOf(t)] /\ Serve(j, RowOf(t)) /\ certs[t] # None
  BY DEF SelectLocally
<1>2. PoolTypes /\ RowsMatchPool /\ UnknownEmpty
  BY DEF Inv, TypeOK, PoolTypes, Row
<1>3. known
  BY <1>1, <1>2 DEF UnknownEmpty, PoolTypes
<1>4. certs'[t] \in Jobs \cup {Found} /\ cred' \in Creds
  BY <1>1, <1>2 DEF PoolTypes
<1>5. /\ RowOf(t) \in Row /\ RowOf(t) # NoRow
      /\ RowOf(t).tcbm = t /\ RowOf(t).cert = certs'[t] /\ RowOf(t).cred = cred'
  BY <1>4, RowOfCert
<1> HIDE DEF r0
<1>6. r0 \in Raws
  BY DEF r0
<1>7. \A r \in Raws : rows'[r] = IF r = r0 THEN RowOf(t) ELSE rows[r]
  BY <1>1, <1>2 DEF PoolTypes
<1>8. PoolTypes'
  BY <1>1, <1>2, <1>5, <1>6 DEF PoolTypes
<1>9. RowsMatchPool'
  BY <1>1, <1>2, <1>3, <1>5, <1>7 DEF RowsMatchPool, InStep, FromPool
<1>10. UnknownEmpty'
  BY <1>1, <1>3 DEF UnknownEmpty
<1>11. AnswerStep
  BY <1>1, <1>3, <1>5, Served DEF AnswerStep
<1> QED BY <1>1, <1>5, <1>7, <1>8, <1>9, <1>10, <1>11 DEF PoolStep

\* A new set S of certificates of task j, with the levels `kept' added and all
\* known levels selected again: what Publish and Put do to the pool.
Replace(j, S, best, c, kept) ==
    /\ known' = TRUE
    /\ cred' = c
    /\ certs' = [t \in Tcbms |-> IF t \in S THEN j ELSE None]
    /\ tracked' = tracked \cup kept
    /\ rows' = [r \in Raws |-> IF r \in tracked \cup kept THEN RowOf(best[r]) ELSE rows[r]]
    /\ left' = {}

LEMMA ReplacePool ==
    ASSUME Inv, NEW j \in Jobs, NEW S \in SUBSET Tcbms, NEW best \in [Raws -> S],
           NEW c \in Creds, NEW kept \in SUBSET Raws, Replace(j, S, best, c, kept),
           \/ UNCHANGED answer
           \/ \E r \in Raws : Serve(j, RowOf(best[r]))
    PROVE  PoolStep
<1>1. PoolTypes /\ RowsMatchPool
  BY DEF Inv, TypeOK, PoolTypes, Row
<1>2. ASSUME NEW r \in Raws
      PROVE  /\ RowOf(best[r]) \in Row /\ RowOf(best[r]) # NoRow
             /\ RowOf(best[r]).tcbm = best[r] /\ best[r] \in Tcbms
             /\ RowOf(best[r]).cert = certs'[best[r]] /\ RowOf(best[r]).cred = cred'
  <2>1. best[r] \in S /\ best[r] \in Tcbms
    OBVIOUS
  <2>2. certs'[best[r]] = j /\ cred' \in Creds
    BY <2>1 DEF Replace
  <2> QED BY <2>1, <2>2, RowOfCert
<1>3. \A r \in Raws : rows'[r] = IF r \in tracked \cup kept THEN RowOf(best[r]) ELSE rows[r]
  BY DEF Replace
<1>4. \A r \in Raws : r \notin tracked => rows[r] = NoRow
  BY <1>1 DEF RowsMatchPool
<1>5. /\ known' = TRUE /\ cred' \in Creds /\ certs' \in [Tcbms -> Jobs \cup {Found, None}]
      /\ tracked' = tracked \cup kept /\ tracked' \subseteq Raws /\ left' = {}
  BY <1>1 DEF Replace, PoolTypes
<1>6. rows' \in [Raws -> {NoRow} \cup Row]
  <2>1. \A r \in Raws : rows'[r] \in {NoRow} \cup Row
    BY <1>1, <1>2, <1>3 DEF PoolTypes
  <2> QED BY <2>1 DEF Replace
<1>7. RowsMatchPool'
  <2> SUFFICES ASSUME NEW r \in Raws, rows'[r] # NoRow
               PROVE  /\ known' /\ r \in tracked'
                      /\ rows'[r].tcbm \in Tcbms /\ certs'[rows'[r].tcbm] = rows'[r].cert
                      /\ rows'[r].cred = cred'
    BY DEF RowsMatchPool, InStep, FromPool
  <2>1. r \in tracked \cup kept /\ rows'[r] = RowOf(best[r])
    BY <1>3, <1>4
  <2> QED BY <2>1, <1>2, <1>5
<1>8. \A r \in Raws : rows[r] # NoRow => rows'[r] # NoRow
  BY <1>2, <1>3
<1>9. AnswerStep
  <2> SUFFICES ASSUME NEW r \in Raws, Serve(j, RowOf(best[r]))
               PROVE  answer'.tcbm \in Tcbms /\ certs'[answer'.tcbm] = answer'.cert
    BY <1>5 DEF AnswerStep
  <2> QED BY <1>2, Served
<1> QED BY <1>5, <1>6, <1>7, <1>8, <1>9 DEF PoolStep, PoolTypes, UnknownEmpty

\* The levels a publication adds are levels.
LEMMA KeptLevels ==
    ASSUME NEW j
    PROVE  Kept(j) \in SUBSET Raws
BY DEF Kept, Requested

LEMMA PublishPool ==
    ASSUME Inv, NEW j \in Jobs, Publish(j)
    PROVE  PoolStep
<1> DEFINE Chosen(S, best) ==
             /\ Replace(j, S, best, want[j], Kept(j))
             /\ Published(j, IF kind[j] = "get" THEN RowOf(best[raw[j]]) ELSE NoRow)
<1>a. PICK S \in (SUBSET Tcbms) \ {{}} : \E best \in [Raws -> S] : Chosen(S, best)
  BY DEF Publish, Replace, Carried, Reselected
<1>1. PICK best \in [Raws -> S] : Chosen(S, best)
  BY <1>a
<1>2. want[j] \in Creds
  BY DEF Inv, TypeOK
<1>3. \/ UNCHANGED answer
      \/ \E r \in Raws : Serve(j, RowOf(best[r]))
  <2>1. CASE kind[j] = "get"
    <3>1. raw[j] \in Raws
      BY <2>1 DEF Inv, TaskOK, PlaceOK
    <3>2. Serve(j, RowOf(best[raw[j]]))
      BY <1>1, <2>1 DEF Published
    <3> QED BY <3>1, <3>2
  <2>2. CASE kind[j] # "get"
    BY <1>1, <2>2 DEF Published
  <2> QED BY <2>1, <2>2
<1> QED BY <1>1, <1>2, <1>3, KeptLevels, ReplacePool

LEMMA PutPool ==
    ASSUME Inv, NEW j \in Jobs, Put(j)
    PROVE  PoolStep
<1>1. UNCHANGED answer
  BY DEF Put
<1>2. \/ UNCHANGED pool
      \/ \E S \in (SUBSET Tcbms) \ {{}}, levels \in SUBSET Raws, c \in Creds :
            \E best \in [Raws -> S] : Replace(j, S, best, c, levels)
  <2> DEFINE Chosen(S, levels, c, best) ==
               /\ known' = TRUE
               /\ cred' = c
               /\ certs' = [t \in Tcbms |-> IF t \in S THEN j ELSE None]
               /\ tracked' = tracked \cup levels
               /\ rows' = [r \in Raws |-> IF r \in tracked \cup levels
                                          THEN RowOf(best[r]) ELSE rows[r]]
               /\ left' = {}
  <2>1. \/ UNCHANGED pool
        \/ \E S \in (SUBSET Tcbms) \ {{}}, levels \in SUBSET Raws, c \in Creds :
              \E best \in [Raws -> S] : Chosen(S, levels, c, best)
    BY DEF Put
  <2>2. ASSUME NEW S, NEW levels, NEW c, NEW best, Chosen(S, levels, c, best)
        PROVE  Replace(j, S, best, c, levels)
    BY <2>2 DEF Replace
  <2> HIDE DEF Chosen
  <2> QED BY <2>1, <2>2
<1>3. CASE UNCHANGED pool
  BY <1>1, <1>3, PoolUnchanged
<1>4. ASSUME NEW S \in (SUBSET Tcbms) \ {{}}, NEW levels \in SUBSET Raws, NEW c \in Creds,
             NEW best \in [Raws -> S], Replace(j, S, best, c, levels)
      PROVE  PoolStep
  BY <1>1, <1>4, ReplacePool
<1> QED BY <1>2, <1>3, <1>4

\* merge_pckcert_after_fetch: rows of the certificate that is replaced follow it.
LEMMA MergePool ==
    ASSUME Inv, NEW j \in Jobs, Merge(j)
    PROVE  PoolStep
<1>1. PICK t \in Tcbms :
        /\ known' = TRUE
        /\ cred' = IF known THEN cred ELSE want[j]
        /\ certs' = [certs EXCEPT ![t] = j]
        /\ tracked' = tracked \cup {raw[j]}
        /\ rows' = [r \in Raws |->
                       IF r = raw[j] THEN RowOf(t)
                       ELSE IF r \in tracked /\ rows[r] # NoRow
                       THEN [rows[r] EXCEPT !.cred = cred',
                                            !.cert = IF TakesCert(r, t) THEN j ELSE @]
                       ELSE rows[r]]
        /\ left' = {r \in left : r # raw[j] /\ rows[r].tcbm # t /\ ~FromPool(rows[r])}
        /\ Published(j, RowOf(t))
  BY DEF Merge
<1>2. PoolTypes /\ RowsMatchPool /\ want[j] \in Creds
  BY DEF Inv, TypeOK, PoolTypes, Row
<1>3. raw[j] \in Raws
  BY DEF Inv, TaskOK, PlaceOK, Merge
<1>4. cred' \in Creds /\ certs' \in [Tcbms -> Jobs \cup {Found, None}] /\ certs'[t] = j
      /\ \A u \in Tcbms : certs'[u] = IF u = t THEN j ELSE certs[u]
  BY <1>1, <1>2 DEF PoolTypes
<1>5. /\ RowOf(t) \in Row /\ RowOf(t) # NoRow
      /\ RowOf(t).tcbm = t /\ RowOf(t).cert = certs'[t] /\ RowOf(t).cred = cred'
  BY <1>4, RowOfCert
<1>6. ASSUME NEW r \in Raws, r # raw[j], rows[r] # NoRow
      PROVE  /\ rows'[r] \in Row /\ rows'[r] # NoRow /\ r \in tracked
             /\ \/ r \in left'
                \/ /\ rows'[r].tcbm \in Tcbms /\ certs'[rows'[r].tcbm] = rows'[r].cert
                   /\ rows'[r].cred = cred'
  <2>1. rows[r] \in Row /\ r \in tracked /\ (r \in left \/ FromPool(rows[r]))
    BY <1>2, <1>6 DEF PoolTypes, RowsMatchPool, InStep
  <2>2. rows'[r] = [rows[r] EXCEPT !.cred = cred', !.cert = IF TakesCert(r, t) THEN j ELSE @]
    BY <1>1, <1>6, <2>1
  <2>3. /\ rows'[r].tcbm = rows[r].tcbm /\ rows'[r].cred = cred'
        /\ rows'[r].cert = IF rows[r].tcbm = t THEN j ELSE rows[r].cert
        /\ rows'[r] \in Row
    BY <2>1, <2>2, <1>4 DEF Row, TakesCert
  <2>4. CASE rows[r].tcbm = t
    BY <2>1, <2>3, <2>4, <1>4, RowIsRow
  <2>5. CASE rows[r].tcbm # t /\ FromPool(rows[r])
    BY <2>1, <2>3, <2>5, <1>4, RowIsRow DEF FromPool
  <2>6. CASE rows[r].tcbm # t /\ ~FromPool(rows[r])
    BY <2>1, <2>3, <2>6, <1>1, <1>6, RowIsRow
  <2> QED BY <2>4, <2>5, <2>6
<1>7. ASSUME NEW r \in Raws, r # raw[j], rows[r] = NoRow
      PROVE  rows'[r] = NoRow
  BY <1>1, <1>7
<1>8. rows'[raw[j]] = RowOf(t)
  BY <1>1, <1>3
<1>9. PoolTypes'
  <2>1. \A r \in Raws : rows'[r] \in {NoRow} \cup Row
    BY <1>5, <1>6, <1>7, <1>8
  <2>2. rows' \in [Raws -> {NoRow} \cup Row]
    BY <1>1, <2>1
  <2> QED BY <1>1, <1>2, <1>3, <1>4, <2>2 DEF PoolTypes
<1>10. RowsMatchPool'
  BY <1>1, <1>5, <1>6, <1>7, <1>8 DEF RowsMatchPool, InStep, FromPool
<1>11. AnswerStep
  BY <1>1, <1>5, Served DEF Published, AnswerStep
<1> QED BY <1>1, <1>5, <1>6, <1>8, <1>9, <1>10, <1>11 DEF PoolStep, UnknownEmpty

LEMMA NextPool ==
    ASSUME Inv, [Next]_vars
    PROVE  PoolStep
<1>1. CASE UNCHANGED <<pool, answer>>
  BY <1>1, PoolUnchanged
<1>2. CASE \E j \in Jobs : Arrive(j)
  <2>1. PICK j \in Jobs : Arrive(j)
    BY <1>2
  <2>2. CASE \E r \in Raws, ppid \in Ppids \cup {None} : Get(j, r, ppid)
    <3>1. PICK r \in Raws, ppid \in Ppids \cup {None} : Get(j, r, ppid)
      BY <2>2
    <3> QED BY <3>1, PoolUnchanged, RowServed DEF Get, pool
  <2>3. CASE Put(j)
    BY <2>3, PutPool
  <2>4. CASE \/ \E r \in Raws, ppid \in Ppids : PostLevel(j, r, ppid)
             \/ \E m \in Manifests : PostManifest(j, m)
             \/ refresh_certs(j) \/ refresh_platform_pools(j)
    BY <2>4, <1>1 DEF PostLevel, PostManifest, Post, refresh_certs, refresh_platform_pools, StartRefresh
  <2> QED BY <2>1, <2>2, <2>3, <2>4 DEF Arrive
<1>3. CASE \E j \in Jobs : Advance(j)
  <2>1. PICK j \in Jobs : Advance(j)
    BY <1>3
  <2>2. CASE Select(j)
    <3>1. raw[j] \in Raws
      BY <2>2 DEF Select, Inv, TaskOK, PlaceOK
    <3> QED BY <2>2, <3>1, <1>1, SelectLocallyPool DEF Select
  <2>3. CASE KeyLock(j)
    <3>1. raw[j] \in Raws
      BY <2>3 DEF KeyLock, Inv, TaskOK, PlaceOK
    <3> QED BY <2>3, <3>1, <1>1, SelectLocallyPool, RowServed DEF KeyLock
  <2>4. CASE Publish(j)
    BY <2>4, PublishPool
  <2>5. CASE Merge(j)
    BY <2>5, MergePool
  <2>6. CASE \/ RefetchLock(j) \/ RefetchMark(j) \/ RefreshNext(j) \/ CertAnswer(j)
             \/ PoolAnswer(j) \/ Fails(j) \/ Relay(j) \/ Dequeue(j)
    BY <2>6, <1>1 DEF RefetchLock, RefetchMark, RefreshNext, CertAnswer, PoolAnswer, Fails,
                      Relay, Dequeue
  <2> QED BY <2>1, <2>2, <2>3, <2>4, <2>5, <2>6 DEF Advance
<1>4. CASE \E j \in Jobs : HangUp(j)
  BY <1>4, <1>1 DEF HangUp
<1>5. CASE TakeNew \/ TakeUnavailable \/ Tick \/ UNCHANGED vars
  BY <1>5, <1>1 DEF TakeNew, TakeUnavailable, Tick, vars, pool
<1> QED BY <1>1, <1>2, <1>3, <1>4, <1>5 DEF Next

-----------------------------------------------------------------------------
(* The tasks *)

TaskTypes ==
    /\ refetcher \in Jobs \cup {None}
    /\ filler \in [Raws -> Jobs \cup {None}]
    /\ mark \in Nat \cup {NoMark}
    /\ now \in Nat
    /\ mark <= now
    /\ kind \in [Jobs -> Kinds]
    /\ pc \in [Jobs -> Points]
    /\ raw \in [Jobs -> Raws \cup {None}]
    /\ want \in [Jobs -> Creds]
    /\ seen \in [Jobs -> Creds \cup {None}]
    /\ todo \in [Jobs -> SUBSET Raws]

Tasks == TaskTypes /\ \A j \in Jobs : TaskOK(j)

\* What a task keeps to itself.
TaskVars(j) == <<kind[j], pc[j], raw[j], want[j], seen[j]>>

\* A step of task j leaves the others where they are.
Others(j) ==
    /\ UNCHANGED upstream
    /\ \A i \in Jobs \ {j} :
           /\ UNCHANGED TaskVars(i)
           /\ refetcher' = i <=> refetcher = i
           /\ pc[i] = "refetch_mark" => UNCHANGED <<mark, now>>

LEMMA InvTasks ==
    ASSUME Inv
    PROVE  Tasks
BY DEF Inv, TypeOK, Tasks, TaskTypes

LEMMA Frame ==
    ASSUME Tasks, NEW i \in Jobs, UNCHANGED upstream, UNCHANGED TaskVars(i),
           refetcher' = i <=> refetcher = i,
           pc[i] = "refetch_mark" => UNCHANGED <<mark, now>>
    PROVE  TaskOK(i)'
<1>1. TaskOK(i)
  BY DEF Tasks
<1>2. /\ kind'[i] = kind[i] /\ pc'[i] = pc[i] /\ raw'[i] = raw[i]
      /\ want'[i] = want[i] /\ seen'[i] = seen[i]
  BY DEF TaskVars
<1>3. PlaceOK(i)'
  BY <1>1, <1>2 DEF TaskOK, PlaceOK, Single, Intel
<1>4. CredentialsOK(i)'
  BY <1>1, <1>2 DEF TaskOK, CredentialsOK, Intel
<1>5. RefetchOK(i)'
  BY <1>1, <1>2 DEF TaskOK, RefetchOK, Intel
<1> QED BY <1>3, <1>4, <1>5 DEF TaskOK

LEMMA StepTasks ==
    ASSUME Tasks, NEW j \in Jobs, TaskTypes', TaskOK(j)', Others(j)
    PROVE  Tasks'
<1>1. ASSUME NEW i \in Jobs PROVE TaskOK(i)'
  <2>1. CASE i = j
    BY <2>1
  <2>2. CASE i # j
    BY <2>2, Frame DEF Others
  <2> QED BY <2>1, <2>2
<1> QED BY <1>1 DEF Tasks

\* Everything but the clock is where it was.
LEMMA TasksUnchanged ==
    ASSUME Tasks, UNCHANGED <<upstream, locks, now, kind, pc, locals>>
    PROVE  Tasks'
<1>1. TaskTypes'
  BY DEF Tasks, TaskTypes, locks, locals
<1>2. \A i \in Jobs : TaskOK(i)'
  BY Frame DEF locks, locals, TaskVars
<1> QED BY <1>1, <1>2 DEF Tasks

\* A task that has not begun is nowhere in the way.
LEMMA NewIdle ==
    ASSUME Tasks, NEW j \in Jobs, pc[j] = "new"
    PROVE  refetcher # j
BY DEF Tasks, TaskOK, RefetchOK

LEMMA GetTasks ==
    ASSUME Tasks, NEW j \in Jobs, NEW r \in Raws, NEW ppid \in Ppids \cup {None}, Get(j, r, ppid)
    PROVE  Tasks'
<1>1. pc[j] = "new" /\ refetcher # j /\ TaskTypes
  BY NewIdle DEF Get, Tasks
<1>2. /\ kind' = [kind EXCEPT ![j] = "get"] /\ raw' = [raw EXCEPT ![j] = r]
      /\ want' = [want EXCEPT ![j] = [ppid |-> ppid, manifest |-> None]]
      /\ UNCHANGED <<upstream, refetcher, filler, mark, now, seen, todo>>
      /\ \E p \in {"done", "refetch_wait", "select", "key_wait"} : Goto(j, p)
  BY DEF Get, config, locks
<1>3. [ppid |-> ppid, manifest |-> None] \in Creds
  BY DEF Creds
<1>4. TaskTypes'
  BY <1>1, <1>2, <1>3 DEF TaskTypes, Goto, Kinds, Points
<1>5. /\ kind'[j] = "get" /\ raw'[j] = r /\ want'[j].manifest = None
      /\ pc'[j] \in {"done", "refetch_wait", "select", "key_wait"}
  BY <1>1, <1>2 DEF TaskTypes, Goto
<1>6. TaskOK(j)'
  BY <1>1, <1>2, <1>5 DEF TaskOK, PlaceOK, CredentialsOK, RefetchOK
<1>7. Others(j)
  BY <1>1, <1>2 DEF Others, TaskVars, TaskTypes, Goto
<1> QED BY <1>4, <1>6, <1>7, StepTasks

\* A POST by manifest has one, so it is never in want of a level.
LEMMA PostTasks ==
    ASSUME Tasks, PoolTypes, NEW j \in Jobs, NEW r, NEW c \in Creds, NEW cached, Post(j, r, c, cached),
           r \in Raws \/ (r = None /\ c.manifest # None)
    PROVE  Tasks'
<1>1. pc[j] = "new" /\ refetcher # j /\ TaskTypes
  BY NewIdle DEF Post, Tasks
<1>2. /\ kind' = [kind EXCEPT ![j] = "post"] /\ raw' = [raw EXCEPT ![j] = r]
      /\ want' = [want EXCEPT ![j] = c] /\ seen' = [seen EXCEPT ![j] = Observed]
      /\ UNCHANGED <<upstream, refetcher, filler, mark, now, todo>>
      /\ \E p \in {"done", "fetching"} : Goto(j, p)
  BY DEF Post, config, locks
<1>3. Observed \in Creds \cup {None}
  BY DEF PoolTypes, Observed
<1>4. TaskTypes'
  BY <1>1, <1>2, <1>3 DEF TaskTypes, Goto, Kinds, Points
<1>5. /\ kind'[j] = "post" /\ raw'[j] = r /\ want'[j] = c
      /\ pc'[j] \in {"done", "fetching"}
  BY <1>1, <1>2 DEF TaskTypes, Goto
<1>6. TaskOK(j)'
  BY <1>1, <1>2, <1>5 DEF TaskOK, PlaceOK, CredentialsOK, RefetchOK, Single
<1>7. Others(j)
  BY <1>1, <1>2 DEF Others, TaskVars, TaskTypes, Goto
<1> QED BY <1>4, <1>6, <1>7, StepTasks

LEMMA RefreshTasks ==
    ASSUME Tasks, PoolTypes, NEW j \in Jobs, StartRefresh(j)
    PROVE  Tasks'
<1>1. pc[j] = "new" /\ refetcher # j /\ TaskTypes
  BY NewIdle DEF StartRefresh, Tasks
<1>2. /\ kind' = [kind EXCEPT ![j] = "refresh"] /\ UNCHANGED raw
      /\ want' = [want EXCEPT ![j] = cred] /\ seen' = [seen EXCEPT ![j] = cred]
      /\ UNCHANGED <<upstream, refetcher, filler, mark, now>>
      /\ \/ (Intel \/ cred.manifest # None) /\ Goto(j, "fetching") /\ UNCHANGED todo
         \/ ~Intel /\ cred.manifest = None /\ Goto(j, "next") /\ todo' = [todo EXCEPT ![j] = tracked]
  BY DEF StartRefresh, config, locks
<1>3. cred \in Creds /\ tracked \subseteq Raws
  BY DEF PoolTypes
<1>4. TaskTypes'
  BY <1>1, <1>2, <1>3 DEF TaskTypes, Goto, Kinds, Points
<1>5. /\ kind'[j] = "refresh" /\ want'[j] = cred /\ seen'[j] = cred
      /\ \/ pc'[j] = "fetching" /\ (Intel \/ cred.manifest # None)
         \/ pc'[j] = "next" /\ ~Intel /\ cred.manifest = None
  BY <1>1, <1>2 DEF TaskTypes, Goto
<1>6. TaskOK(j)'
  BY <1>1, <1>2, <1>5 DEF TaskOK, PlaceOK, CredentialsOK, RefetchOK, Single, Intel
<1>7. Others(j)
  BY <1>1, <1>2 DEF Others, TaskVars, TaskTypes, Goto
<1> QED BY <1>4, <1>6, <1>7, StepTasks

LEMMA PutTasks ==
    ASSUME Tasks, NEW j \in Jobs, Put(j)
    PROVE  Tasks'
<1>1. pc[j] = "new" /\ refetcher # j /\ TaskTypes
  BY NewIdle DEF Put, Tasks
<1>2. /\ kind' = [kind EXCEPT ![j] = "put"]
      /\ UNCHANGED <<upstream, refetcher, filler, mark, now, raw, want, seen, todo>>
      /\ \E p \in {"done", "error"} : Goto(j, p)
  BY DEF Put, config, locks, locals
<1>3. TaskTypes'
  BY <1>1, <1>2 DEF TaskTypes, Goto, Kinds, Points
<1>4. kind'[j] = "put" /\ pc'[j] \in {"done", "error"}
  BY <1>1, <1>2 DEF TaskTypes, Goto
<1>5. TaskOK(j)'
  BY <1>1, <1>2, <1>4 DEF TaskOK, PlaceOK, CredentialsOK, RefetchOK
<1>6. Others(j)
  BY <1>1, <1>2 DEF Others, TaskVars, TaskTypes, Goto
<1> QED BY <1>3, <1>5, <1>6, StepTasks

\* Under the lock of the re-fetch, the throttle has passed.
LEMMA RefetchLockTasks ==
    ASSUME Tasks, PoolTypes, NEW j \in Jobs, RefetchLock(j)
    PROVE  Tasks'
<1>1. pc[j] = "refetch_wait" /\ refetcher = None /\ TaskTypes /\ TaskOK(j)
  BY DEF RefetchLock, RefetchFree, Tasks
<1>2. CASE /\ RefetchApplies(raw[j]) /\ Due /\ refetcher' = j
           /\ want' = [want EXCEPT ![j] = cred] /\ seen' = [seen EXCEPT ![j] = cred]
           /\ Goto(j, "refetch_mark")
  <2>1. UNCHANGED <<upstream, filler, mark, now, kind, raw, todo>>
    BY DEF RefetchLock, config
  <2>2. cred \in Creds /\ Intel
    BY <1>2 DEF PoolTypes, RefetchApplies
  <2>3. mark = NoMark \/ now - mark >= Interval
    BY <1>1, <1>2, TimeAssumption DEF Due, TaskTypes
  <2>4. TaskTypes'
    BY <1>1, <1>2, <2>1, <2>2 DEF TaskTypes, Goto, Points
  <2>5. pc'[j] = "refetch_mark" /\ want'[j] = cred /\ seen'[j] = cred
    BY <1>1, <1>2 DEF TaskTypes, Goto
  <2>6. kind'[j] = "get" /\ raw'[j] \in Raws
    BY <1>1, <2>1 DEF TaskOK, PlaceOK
  <2>7. TaskOK(j)'
    BY <1>2, <2>1, <2>2, <2>3, <2>5, <2>6 DEF TaskOK, PlaceOK, CredentialsOK, RefetchOK, Single, Intel
  <2>8. Others(j)
    BY <1>1, <1>2, <2>1, NoneAssumption DEF Others, TaskVars, TaskTypes, Goto
  <2> QED BY <2>4, <2>7, <2>8, StepTasks
<1>3. CASE Goto(j, "select") /\ UNCHANGED <<refetcher, want, seen>>
  <2>1. UNCHANGED <<upstream, refetcher, filler, mark, now, kind, raw, want, seen, todo>>
    BY <1>3 DEF RefetchLock, config
  <2>2. TaskTypes' /\ pc'[j] = "select"
    BY <1>1, <1>3, <2>1 DEF TaskTypes, Goto, Points
  <2>3. TaskOK(j)'
    BY <1>1, <2>1, <2>2, NoneAssumption DEF TaskOK, PlaceOK, CredentialsOK, RefetchOK, Single, Intel
  <2>4. Others(j)
    BY <1>1, <1>3, <2>1 DEF Others, TaskVars, TaskTypes, Goto
  <2> QED BY <2>2, <2>3, <2>4, StepTasks
<1> QED BY <1>2, <1>3 DEF RefetchLock

LEMMA RefetchMarkTasks ==
    ASSUME Tasks, NEW j \in Jobs, RefetchMark(j)
    PROVE  Tasks'
<1>1. pc[j] = "refetch_mark" /\ TaskTypes /\ TaskOK(j) /\ refetcher = j
  BY DEF RefetchMark, Tasks, TaskOK, RefetchOK
<1>2. /\ UNCHANGED <<upstream, refetcher, filler, now, kind, raw, want, seen, todo>>
      /\ mark' = now /\ Goto(j, "fetching")
  BY DEF RefetchMark, config, locals
<1>3. TaskTypes' /\ pc'[j] = "fetching"
  BY <1>1, <1>2 DEF TaskTypes, Goto, Points
<1>4. /\ kind[j] = "get" /\ Intel /\ want[j] = seen[j] /\ raw[j] \in Raws
  BY <1>1 DEF TaskOK, RefetchOK, PlaceOK
<1>5. TaskOK(j)'
  BY <1>1, <1>2, <1>3, <1>4 DEF TaskOK, PlaceOK, CredentialsOK, RefetchOK, Single, Intel
<1>6. \A i \in Jobs \ {j} : pc[i] # "refetch_mark"
  BY <1>1 DEF Tasks, TaskOK, RefetchOK
<1>7. Others(j)
  BY <1>1, <1>2, <1>6 DEF Others, TaskVars, TaskTypes, Goto
<1> QED BY <1>3, <1>5, <1>7, StepTasks

\* A task goes on without a lock, to where it needs none.
LEMMA LeaveTasks ==
    ASSUME Tasks, NEW j \in Jobs, NEW p, Goto(j, p),
           UNCHANGED <<upstream, now, kind, raw, want, seen, todo>>,
           Unlock(j) \/ (refetcher # j /\ UNCHANGED locks),
           \/ p \in {"done", "error", "gone", "dequeue"}
           \/ p = "next" /\ kind[j] = "refresh" /\ Single(j)
           \/ p \in {"select", "key_wait"} /\ kind[j] = "get"
    PROVE  Tasks'
<1>1. TaskTypes /\ TaskOK(j)
  BY DEF Tasks
<1>2. /\ refetcher' \in Jobs \cup {None} /\ refetcher' # j
      /\ filler' \in [Raws -> Jobs \cup {None}]
      /\ UNCHANGED mark
      /\ \A i \in Jobs \ {j} : refetcher' = i <=> refetcher = i
  BY <1>1, NoneAssumption DEF TaskTypes, Unlock, locks
<1>3. p \in Points
  BY DEF Points
<1>4. TaskTypes' /\ pc'[j] = p
  BY <1>1, <1>2, <1>3 DEF TaskTypes, Goto
<1>5. TaskOK(j)'
  BY <1>1, <1>2, <1>4 DEF TaskOK, PlaceOK, CredentialsOK, RefetchOK, Single, Intel
<1>6. Others(j)
  BY <1>1, <1>2 DEF Others, TaskVars, TaskTypes, Goto
<1> QED BY <1>4, <1>5, <1>6, StepTasks

\* Who holds the lock of the re-fetch is on the way to its end.
LEMMA RefetcherPlace ==
    ASSUME Tasks, NEW j \in Jobs, pc[j] \notin {"refetch_mark", "fetching", "staged"}
    PROVE  refetcher # j
BY DEF Tasks, TaskOK, RefetchOK

LEMMA SelectTasks ==
    ASSUME Tasks, NEW j \in Jobs, Select(j)
    PROVE  Tasks'
<1>1. pc[j] = "select" /\ refetcher # j
  BY RefetcherPlace DEF Select
<1>2. kind[j] = "get"
  BY <1>1 DEF Tasks, TaskOK, PlaceOK
<1>3. \E p \in {"done", "error", "key_wait"} : Goto(j, p)
  BY DEF Select, SelectLocally
<1> QED BY <1>1, <1>2, <1>3, LeaveTasks DEF Select, config, locals

LEMMA KeyLockTasks ==
    ASSUME Tasks, PoolTypes, NEW j \in Jobs, KeyLock(j)
    PROVE  Tasks'
<1>1. pc[j] = "key_wait" /\ refetcher # j /\ TaskTypes /\ TaskOK(j)
  BY RefetcherPlace DEF KeyLock, Tasks
<1>2. UNCHANGED <<upstream, refetcher, mark, now, kind, raw, todo>>
  BY DEF KeyLock, config
<1>3. CASE UNCHANGED <<filler, want, seen>> /\ \E p \in {"done", "error"} : Goto(j, p)
  BY <1>1, <1>2, <1>3, LeaveTasks DEF locks
<1>4. CASE /\ ~Intel \/ (~known /\ want[j].ppid # None)
           /\ filler' = [filler EXCEPT ![raw[j]] = j]
           /\ seen' = [seen EXCEPT ![j] = Observed]
           /\ Goto(j, "fetching")
           /\ UNCHANGED want
  <2>1. Observed \in Creds \cup {None} /\ (Intel => Observed = None)
    BY <1>4 DEF PoolTypes, Observed
  <2>2. TaskTypes' /\ pc'[j] = "fetching" /\ seen'[j] = Observed
    BY <1>1, <1>2, <1>4, <2>1 DEF TaskTypes, Goto, Points
  <2>3. kind[j] = "get" /\ raw[j] \in Raws
    BY <1>1 DEF TaskOK, PlaceOK
  <2>4. TaskOK(j)'
    BY <1>1, <1>2, <1>4, <2>1, <2>2, <2>3
    DEF TaskOK, PlaceOK, CredentialsOK, RefetchOK, Single, Intel
  <2>5. Others(j)
    BY <1>1, <1>2, <1>4 DEF Others, TaskVars, TaskTypes, Goto
  <2> QED BY <2>2, <2>4, <2>5, StepTasks
<1> QED BY <1>3, <1>4 DEF KeyLock, SelectLocally

LEMMA RefreshNextTasks ==
    ASSUME Tasks, NEW j \in Jobs, RefreshNext(j)
    PROVE  Tasks'
<1>1. pc[j] = "next" /\ refetcher # j /\ TaskTypes /\ TaskOK(j)
  BY RefetcherPlace DEF RefreshNext, Tasks
<1>2. UNCHANGED <<upstream, refetcher, filler, mark, now, kind, want, seen>>
  BY DEF RefreshNext, config, locks
<1>3. CASE Goto(j, "done") /\ UNCHANGED <<raw, todo>>
  BY <1>1, <1>2, <1>3, LeaveTasks DEF locks
<1>4. ASSUME NEW r \in todo[j], raw' = [raw EXCEPT ![j] = r],
             todo' = [todo EXCEPT ![j] = @ \ {r}], Goto(j, "fetching")
      PROVE  Tasks'
  <2>1. TaskTypes' /\ pc'[j] = "fetching" /\ raw'[j] \in Raws
    BY <1>1, <1>2, <1>4 DEF TaskTypes, Goto, Points
  <2>2. TaskOK(j)'
    BY <1>1, <1>2, <2>1 DEF TaskOK, PlaceOK, CredentialsOK, RefetchOK, Single, Intel
  <2>3. Others(j)
    BY <1>1, <1>2, <1>4 DEF Others, TaskVars, TaskTypes, Goto
  <2> QED BY <2>1, <2>2, <2>3, StepTasks
<1> QED BY <1>3, <1>4 DEF RefreshNext

LEMMA AnswerTasks ==
    ASSUME Tasks, NEW j \in Jobs, CertAnswer(j) \/ PoolAnswer(j)
    PROVE  Tasks'
<1>1. pc[j] = "fetching" /\ TaskTypes /\ TaskOK(j)
  BY DEF CertAnswer, PoolAnswer, Tasks
<1>2. UNCHANGED <<upstream, refetcher, filler, mark, now, kind, raw, want, seen, todo>>
  BY DEF CertAnswer, PoolAnswer, config, locks, locals
<1>3. (Goto(j, "single") /\ Single(j)) \/ (Goto(j, "staged") /\ ~Single(j))
  BY DEF CertAnswer, PoolAnswer
<1>4. /\ TaskTypes'
      /\ (pc'[j] = "single" /\ Single(j)) \/ (pc'[j] = "staged" /\ ~Single(j))
  BY <1>1, <1>2, <1>3 DEF TaskTypes, Goto, Points
<1>5. TaskOK(j)'
  BY <1>1, <1>2, <1>4 DEF TaskOK, PlaceOK, CredentialsOK, RefetchOK, Single, Intel
<1>6. Others(j)
  BY <1>1, <1>2, <1>3 DEF Others, TaskVars, TaskTypes, Goto
<1> QED BY <1>4, <1>5, <1>6, StepTasks

\* A failed re-fetch goes on as the GET it belongs to.
LEMMA FailsTasks ==
    ASSUME Tasks, NEW j \in Jobs, Fails(j)
    PROVE  Tasks'
<1>1. UNCHANGED <<upstream, now, kind, raw, want, seen, todo>> /\ Unlock(j)
  BY DEF Fails, config, locals
<1>2. PICK p : p = AfterFailure(j)
  OBVIOUS
<1>3. Goto(j, p)
  BY <1>2 DEF Fails
<1>4. \/ p = "error"
      \/ p = "next" /\ kind[j] = "refresh" /\ Single(j)
      \/ p = "select" /\ kind[j] = "get"
  BY <1>2 DEF AfterFailure, Refetching, Tasks, TaskOK, RefetchOK
<1> QED BY <1>1, <1>3, <1>4, LeaveTasks

LEMMA PublishedTasks ==
    ASSUME Tasks, NEW j \in Jobs, Publish(j) \/ Merge(j) \/ Relay(j)
    PROVE  Tasks'
<1>1. UNCHANGED <<upstream, now, kind, raw, want, seen, todo>> /\ Unlock(j)
  BY DEF Publish, Merge, Relay, Published, config, locals
<1>2. pc[j] = "single" => Single(j)
  BY DEF Tasks, TaskOK, PlaceOK
<1>3. \/ Goto(j, "done") \/ Goto(j, "dequeue")
      \/ Goto(j, "next") /\ kind[j] = "refresh" /\ pc[j] = "single"
  BY DEF Publish, Merge, Relay, Published
<1> QED BY <1>1, <1>2, <1>3, LeaveTasks

LEMMA DequeueTasks ==
    ASSUME Tasks, NEW j \in Jobs, Dequeue(j)
    PROVE  Tasks'
<1>1. refetcher # j
  BY RefetcherPlace DEF Dequeue
<1> QED BY <1>1, LeaveTasks DEF Dequeue, config, locals

LEMMA HangUpTasks ==
    ASSUME Tasks, NEW j \in Jobs, HangUp(j)
    PROVE  Tasks'
BY LeaveTasks DEF HangUp, config, locals

LEMMA TickTasks ==
    ASSUME Tasks, Tick
    PROVE  Tasks'
<1>1. TaskTypes /\ now' = now + 1
      /\ UNCHANGED <<upstream, refetcher, filler, mark, kind, pc, raw, want, seen, todo>>
  BY DEF Tick, Tasks, config, locks, locals
<1>2. TaskTypes'
  BY <1>1 DEF TaskTypes, NoMark
<1>3. ASSUME NEW i \in Jobs PROVE TaskOK(i)'
  <2>1. TaskOK(i)
    BY DEF Tasks
  <2>2. mark = NoMark \/ now - mark >= Interval => mark' = NoMark \/ now' - mark' >= Interval
    BY <1>1, TimeAssumption DEF TaskTypes, NoMark
  <2> QED BY <1>1, <2>1, <2>2 DEF TaskOK, PlaceOK, CredentialsOK, RefetchOK, Single, Intel
<1> QED BY <1>2, <1>3 DEF Tasks

LEMMA NextTasks ==
    ASSUME Inv, [Next]_vars
    PROVE  Tasks'
<1>1. Tasks /\ PoolTypes
  BY InvTasks DEF Inv, TypeOK, PoolTypes, Row
<1>2. CASE \E j \in Jobs : Arrive(j)
  <2>1. PICK j \in Jobs : Arrive(j)
    BY <1>2
  <2>2. CASE \E r \in Raws, ppid \in Ppids \cup {None} : Get(j, r, ppid)
    BY <1>1, <2>2, GetTasks
  <2>3. ASSUME NEW r \in Raws, NEW ppid \in Ppids, PostLevel(j, r, ppid)
        PROVE  Tasks'
    <3>1. cred.manifest \in Manifests \cup {None}
      BY <1>1 DEF PoolTypes, Creds
    <3>2. [ppid |-> ppid, manifest |-> IF known THEN cred.manifest ELSE None] \in Creds
      BY <3>1 DEF Creds
    <3> QED BY <1>1, <2>3, <3>2, PostTasks DEF PostLevel
  <2>4. ASSUME NEW m \in Manifests, PostManifest(j, m)
        PROVE  Tasks'
    <3>1. /\ [ppid |-> None, manifest |-> m] \in Creds
          /\ [ppid |-> None, manifest |-> m].manifest # None
      BY NoneAssumption DEF Creds
    <3> QED BY <1>1, <2>4, <3>1, PostTasks DEF PostManifest
  <2>5. CASE refresh_certs(j) \/ refresh_platform_pools(j)
    BY <1>1, <2>5, RefreshTasks DEF refresh_certs, refresh_platform_pools
  <2>6. CASE Put(j)
    BY <1>1, <2>6, PutTasks
  <2> QED BY <2>1, <2>2, <2>3, <2>4, <2>5, <2>6 DEF Arrive
<1>3. CASE \E j \in Jobs : Advance(j)
  BY <1>1, <1>3, RefetchLockTasks, RefetchMarkTasks, SelectTasks, KeyLockTasks, RefreshNextTasks,
     AnswerTasks, FailsTasks, PublishedTasks, DequeueTasks DEF Advance
<1>4. CASE \E j \in Jobs : HangUp(j)
  BY <1>1, <1>4, HangUpTasks
<1>5. CASE Tick
  BY <1>1, <1>5, TickTasks
<1>6. CASE TakeNew \/ TakeUnavailable \/ UNCHANGED vars
  BY <1>1, <1>6, TasksUnchanged DEF TakeNew, TakeUnavailable, vars, config, locks, locals
<1> QED BY <1>2, <1>3, <1>4, <1>5, <1>6 DEF Next

-----------------------------------------------------------------------------
(* The rest of the state *)

QueueTypes ==
    /\ mode \in Modes
    /\ upstream \in Upstreams
    /\ queue \in [Raws \cup {None} -> Creds \cup {None}]
    /\ unavailable \subseteq Raws
    /\ na \in [Jobs -> SUBSET Raws]
    /\ owed \subseteq Jobs

LEMMA PostQueue ==
    ASSUME QueueTypes, NEW j \in Jobs, NEW r \in Raws \cup {None}, NEW c \in Creds, NEW cached,
           Post(j, r, c, cached)
    PROVE  QueueTypes'
<1>1. UNCHANGED <<mode, upstream, unavailable, na>>
  BY DEF Post, config
<1>2. \/ UNCHANGED <<queue, owed>>
      \/ queue' = [queue EXCEPT ![r] = c] /\ owed' = owed \cup {j}
  BY DEF Post
<1> QED BY <1>1, <1>2 DEF QueueTypes

LEMMA NextQueue ==
    ASSUME Inv, [Next]_vars
    PROVE  QueueTypes'
<1>1. QueueTypes /\ PoolTypes /\ raw \in [Jobs -> Raws \cup {None}]
  BY DEF Inv, TypeOK, QueueTypes, PoolTypes, Row
<1>2. CASE UNCHANGED <<config, requeue, na>>
  BY <1>1, <1>2 DEF QueueTypes, config, requeue
<1>3. CASE \E j \in Jobs : Arrive(j)
  <2>1. PICK j \in Jobs : Arrive(j)
    BY <1>3
  <2>2. ASSUME NEW r \in Raws, NEW ppid \in Ppids, PostLevel(j, r, ppid)
        PROVE  QueueTypes'
    <3>1. cred.manifest \in Manifests \cup {None}
      BY <1>1 DEF PoolTypes, Creds
    <3>2. [ppid |-> ppid, manifest |-> IF known THEN cred.manifest ELSE None] \in Creds
      BY <3>1 DEF Creds
    <3> QED BY <1>1, <2>2, <3>2, PostQueue DEF PostLevel
  <2>3. ASSUME NEW m \in Manifests, PostManifest(j, m)
        PROVE  QueueTypes'
    <3>1. [ppid |-> None, manifest |-> m] \in Creds
      BY DEF Creds
    <3> QED BY <1>1, <2>3, <3>1, PostQueue DEF PostManifest
  <2>4. CASE \/ \E r \in Raws, ppid \in Ppids \cup {None} : Get(j, r, ppid)
             \/ refresh_certs(j) \/ refresh_platform_pools(j) \/ Put(j)
    BY <2>4, <1>2 DEF Get, refresh_certs, refresh_platform_pools, StartRefresh, Put, locals
  <2> QED BY <2>1, <2>2, <2>3, <2>4 DEF Arrive
<1>4. CASE \E j \in Jobs : Advance(j)
  <2>1. PICK j \in Jobs : Advance(j)
    BY <1>4
  <2>2. CASE PoolAnswer(j)
    BY <2>2, <1>1 DEF PoolAnswer, Unavailable, QueueTypes, config
  <2>3. CASE Dequeue(j)
    BY <2>3, <1>1 DEF Dequeue, QueueTypes, config, locals
  <2>4. CASE \/ RefetchLock(j) \/ RefetchMark(j) \/ Select(j) \/ KeyLock(j) \/ RefreshNext(j)
             \/ CertAnswer(j) \/ Fails(j) \/ Publish(j) \/ Merge(j) \/ Relay(j)
    BY <2>4, <1>2 DEF RefetchLock, RefetchMark, Select, KeyLock, RefreshNext, CertAnswer, Fails,
                      Publish, Merge, Relay, locals
  <2> QED BY <2>1, <2>2, <2>3, <2>4 DEF Advance
<1>5. CASE (\E j \in Jobs : HangUp(j)) \/ Tick \/ UNCHANGED vars
  BY <1>5, <1>2 DEF HangUp, Tick, vars, config, requeue, locals
<1>6. CASE TakeNew \/ TakeUnavailable
  BY <1>6, <1>1 DEF TakeNew, TakeUnavailable, QueueTypes, config, locals
<1> QED BY <1>3, <1>4, <1>5, <1>6 DEF Next

-----------------------------------------------------------------------------
(* The theorems *)

\* The parts make the whole.
LEMMA InvFromParts ==
    Inv <=> PoolTypes /\ RowsMatchPool /\ UnknownEmpty /\ Tasks /\ QueueTypes
BY DEF Inv, TypeOK, PoolTypes, Row, Tasks, TaskTypes, QueueTypes

LEMMA InitInv == Init => Inv
<1> SUFFICES ASSUME Init PROVE Inv
  OBVIOUS
<1>1. NoCred \in Creds
  BY DEF NoCred, Creds
<1>2. known \in BOOLEAN /\ cred \in Creds /\ tracked \subseteq Raws
  BY <1>1 DEF Init
<1>3. /\ certs \in [Tcbms -> Jobs \cup {Found, None}]
      /\ UnknownEmpty
  BY DEF Init, UnknownEmpty
<1>4. rows \in [Raws -> {NoRow} \cup Row] /\ left \subseteq Raws
  <2> DEFINE levels == {t \in Tcbms : certs[t] = Found}
             A == [tcbm : levels, cert : {Found}, cred : {cred, NoCred}]
             B == [tcbm : levels \cup {None}, cert : {Stray}, cred : {NoCred}]
  <2>1. A \subseteq Row /\ B \subseteq Row
    BY <1>1, <1>2 DEF Row
  <2>2. rows \in [Raws -> {NoRow} \cup A \cup B]
    BY DEF Init
  <2>3. left \subseteq Raws
    BY DEF Init
  <2> HIDE DEF A, B
  <2> QED BY <2>1, <2>2, <2>3
<1>5. RowsMatchPool
  <2> SUFFICES ASSUME NEW r \in Raws, rows[r] # NoRow
               PROVE  known /\ r \in tracked /\ (r \in left \/ InStep(rows[r]))
    BY DEF RowsMatchPool
  <2>1. r \in tracked /\ (r \in left \/ InStep(rows[r]))
    BY DEF Init
  <2>2. known
    BY <2>1 DEF Init
  <2> QED BY <2>1, <2>2
<1>6. QueueTypes
  BY DEF Init, QueueTypes
<1>7. TaskTypes
  BY <1>1 DEF Init, TaskTypes, Kinds, Points, NoMark
<1>8. \A j \in Jobs : TaskOK(j)
  BY NoneAssumption DEF Init, TaskOK, PlaceOK, CredentialsOK, RefetchOK
<1> QED BY <1>2, <1>3, <1>4, <1>5, <1>6, <1>7, <1>8, InvFromParts DEF PoolTypes, Tasks

LEMMA NextInv == Inv /\ [Next]_vars => Inv'
<1> SUFFICES ASSUME Inv, [Next]_vars PROVE Inv'
  OBVIOUS
<1>1. PoolTypes' /\ RowsMatchPool' /\ UnknownEmpty'
  BY NextPool DEF PoolStep
<1>2. Tasks' /\ QueueTypes'
  BY NextTasks, NextQueue
<1>3. (PoolTypes /\ RowsMatchPool /\ UnknownEmpty /\ Tasks /\ QueueTypes)' => Inv'
  BY InvFromParts, PTL
<1> QED BY <1>1, <1>2, <1>3

LEMMA Invariance == Spec => []Inv
BY InitInv, NextInv, PTL DEF Spec

\* Every variable stays in its type, for every mode and upstream: no level, credential
\* or task that an index needs is ever missing (cache.rs, store.rs).
THEOREM TypesCorrect == Spec => []TypeOK
<1>1. Inv => TypeOK
  BY DEF Inv
<1> QED BY <1>1, Invariance, PTL

(***************************************************************************)
(* However many tasks race to write the pool of a platform, and whatever   *)
(* rows the seed loader had left, every GET row is of a tracked level, and *)
(* one the process has written, or found in step, holds the certificate    *)
(* and the credentials the pool has (replace_platform_certs_after_fetch,   *)
(* merge_pckcert_after_fetch, select_platform_cert).                       *)
(***************************************************************************)
THEOREM RowsStayCoherent == Spec => []RowsMatchPool
<1>1. Inv => RowsMatchPool
  BY DEF Inv
<1> QED BY <1>1, Invariance, PTL

\* No replacement of the pool drops a raw TCB level or its row.
THEOREM LevelsAreKept == Spec => LevelsNeverLost
<1>1. Inv /\ [Next]_vars =>
        [/\ tracked \subseteq tracked'
         /\ \A r \in Raws : rows[r] # NoRow => rows'[r] # NoRow]_vars
  BY NextPool DEF PoolStep
<1> QED BY <1>1, Invariance, PTL DEF Spec, LevelsNeverLost

\* A GET is served from the pool as it is at that moment, whoever replaced it before,
\* or from a row the seed loader left and nothing has rewritten since the start.
THEOREM ServesCurrentPool == Spec => ServedFromCurrentPool
<1>1. Inv /\ [Next]_vars => [AnswerStep]_vars
  BY NextPool DEF PoolStep
<1> QED BY <1>1, Invariance, PTL DEF Spec, ServedFromCurrentPool, AnswerStep

\* What a step that changes the credentials may be.
CredentialsStep ==
    known /\ cred' # cred =>
        \E j \in Jobs : /\ pc'[j] # pc[j]
                        /\ kind'[j] = "put" \/ (kind[j] = "post" /\ seen[j] = cred)

LEMMA PublishCredentials ==
    ASSUME Inv, NEW j \in Jobs, Publish(j), known, cred' # cred
    PROVE  pc'[j] # pc[j] /\ kind[j] = "post" /\ seen[j] = cred
<1>1. pc[j] = "staged" /\ cred' = want[j] /\ Publishable(j)
  BY DEF Publish
<1>2. cred \in Creds /\ cred # None /\ Observed = cred /\ TaskOK(j)
  BY CredsAssumption DEF Inv, TypeOK, Observed
<1>3. kind[j] \in {"get", "post", "refresh"} /\ ~Single(j)
  BY <1>1, <1>2 DEF TaskOK, PlaceOK
<1>4. kind[j] # "refresh"
  BY <1>1, <1>2 DEF TaskOK, CredentialsOK, Publishable
<1>5. kind[j] # "get"
  BY <1>1, <1>2, <1>3 DEF TaskOK, CredentialsOK, Publishable, Single
<1>6. seen[j] = cred
  BY <1>1, <1>2, <1>5 DEF Publishable
<1>7. pc'[j] # "staged"
  <2>1. \E p \in {"dequeue", "next", "done"} : Goto(j, p)
    BY DEF Publish, Published
  <2> QED BY <2>1 DEF Goto, Inv, TypeOK
<1> QED BY <1>1, <1>3, <1>4, <1>5, <1>6, <1>7

LEMMA PutCredentials ==
    ASSUME Inv, NEW j \in Jobs, Put(j)
    PROVE  pc'[j] # pc[j] /\ kind'[j] = "put"
BY DEF Put, Goto, Inv, TypeOK

(***************************************************************************)
(* The credentials of a known platform change only by an administrator's   *)
(* PUT or by a POST that saw the ones it replaces, for any number of       *)
(* fetches under way (check_platform_publication).                         *)
(***************************************************************************)
THEOREM OnlyRegistrationChangesCredentials == Spec => CredentialsChangeByRegistration
<1>1. Inv /\ [Next]_vars => [CredentialsStep]_vars
  <2> SUFFICES ASSUME Inv, [Next]_vars, known, cred' # cred
               PROVE  \E j \in Jobs : /\ pc'[j] # pc[j]
                                      /\ kind'[j] = "put" \/ (kind[j] = "post" /\ seen[j] = cred)
    BY DEF CredentialsStep
  <2>1. \E j \in Jobs : Publish(j) \/ Put(j)
    <3>1. CASE \E j \in Jobs : Arrive(j)
      BY <3>1 DEF Arrive, Get, PostLevel, PostManifest, Post, refresh_certs,
                  refresh_platform_pools, StartRefresh, pool
    <3>2. CASE \E j \in Jobs : Advance(j)
      BY <3>2 DEF Advance, RefetchLock, RefetchMark, Select, SelectLocally, KeyLock, RefreshNext,
                  CertAnswer, PoolAnswer, Fails, Merge, Relay, Dequeue, pool
    <3>3. CASE (\E j \in Jobs : HangUp(j)) \/ TakeNew \/ TakeUnavailable \/ Tick \/ UNCHANGED vars
      BY <3>3 DEF HangUp, TakeNew, TakeUnavailable, Tick, vars, pool
    <3> QED BY <3>1, <3>2, <3>3 DEF Next
  <2> QED BY <2>1, PublishCredentials, PutCredentials
<1> QED BY <1>1, Invariance, PTL DEF Spec, CredentialsChangeByRegistration, CredentialsStep

\* When a step may mark or begin a re-fetch.
SpacingStep ==
    mark' # mark \/ (\E j \in Jobs : pc[j] = "refetch_mark" /\ pc'[j] = "fetching") =>
        mark = NoMark \/ now - mark >= Interval

LEMMA MarkStep ==
    ASSUME [Next]_vars, mark' # mark
    PROVE  \E j \in Jobs : pc[j] = "refetch_mark"
<1>1. CASE \E j \in Jobs : Arrive(j)
  BY <1>1 DEF Arrive, Get, PostLevel, PostManifest, Post, refresh_certs,
              refresh_platform_pools, StartRefresh, Put, locks
<1>2. CASE \E j \in Jobs : Advance(j)
  BY <1>2 DEF Advance, RefetchLock, RefetchMark, Select, KeyLock, RefreshNext, CertAnswer,
              PoolAnswer, Fails, Publish, Merge, Relay, Published, Unlock, Dequeue, locks
<1>3. CASE (\E j \in Jobs : HangUp(j)) \/ TakeNew \/ TakeUnavailable \/ Tick \/ UNCHANGED vars
  BY <1>3 DEF HangUp, Unlock, TakeNew, TakeUnavailable, Tick, vars, locks
<1> QED BY <1>1, <1>2, <1>3 DEF Next

(***************************************************************************)
(* Re-fetches of a platform's pool start Interval apart, for any number of *)
(* GETs that wait for one another under its lock (refetch_due,             *)
(* mark_refetch): the mark a re-fetch was measured against stands until it *)
(* sets its own.                                                           *)
(***************************************************************************)
THEOREM RefetchesAreSpaced == Spec => RefetchesSpaced
<1>1. Inv /\ [Next]_vars => [SpacingStep]_vars
  BY MarkStep DEF Inv, TaskOK, RefetchOK, SpacingStep
<1> QED BY <1>1, Invariance, PTL DEF Spec, RefetchesSpaced, SpacingStep
=============================================================================
