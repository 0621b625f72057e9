----------------------------- MODULE SeedStore -----------------------------
(***************************************************************************)
(* The start of the server on a database: the seed file is loaded over     *)
(* what is there (store.rs: load_seed_value and what it calls), at every   *)
(* start anew, and a kill may come between any two writes.  With it, the   *)
(* appraisal policies: put_appraisal_policy under appraisal_lock,          *)
(* upsert_appraisal_policy_raw, get_default_policies.                      *)
(*                                                                         *)
(* RocksDB keeps what a killed process had written.  The loader ignores    *)
(* the result of its writes; `skipped' remembers that one failed.          *)
(***************************************************************************)
EXTENDS Records, Sequences

CONSTANTS
    Seed,       \* the seed file: a record of sequences, one per section
    Tasks,      \* PUT /appraisalpolicy requests
    Bodies,     \* the bodies they may bring: [fmspc, policy, type, isDefault, valid]
    NoTask,
    Renewed,    \* a certificate as upstream has it later
    MaxStarts   \* bound: how often the server is started

ASSUME NoTaskAssumption == NoTask \notin Tasks /\ MaxStarts \in Nat

VARIABLES
    db,        \* the records on disk
    server,    \* "down", "loading", "up"
    todo,      \* the items of the seed that are still to be loaded
    rowDue,    \* the pool of the first of them is written, its row is not
    starts,
    holder,    \* who holds appraisal_lock
    body, list,\* what a task puts, and the list it read
    acked,     \* history: policies of the PUTs that were answered
    chosen,    \* history: FMSPCs a default was set for by the server
    skipped    \* history: a write of the loader failed

svars == <<db, server, todo, rowDue, starts, holder, body, list, acked, chosen, skipped>>
putting == <<holder, body, list, acked>>

NoBody == [valid |-> FALSE]

\* load_seed_value: the sections in this order, each item by item.
Items == Seed.pckcerts \o Seed.platforms \o Seed.docs \o Seed.policies

SeedItems == {Items[n] : n \in DOMAIN Items}

ASSUME SeedAssumption ==
    /\ Items \in Seq(SeedItems)
    /\ \A item \in SeedItems : item.kind = "doc" =>
           item.key[1] \in {"tcb", "identity", "pckcrl", "rootcacrl", "crl"}
    /\ \A item \in SeedItems : item.kind = "policy" => item.isDefault \in BOOLEAN
ASSUME BodiesAssumption == \A b \in Bodies : b.isDefault \in BOOLEAN

SeedInit ==
    /\ db = EmptyDb
    /\ server = "down" /\ todo = << >> /\ rowDue = FALSE /\ starts = 0
    /\ holder = NoTask
    /\ body = [t \in Tasks |-> NoBody] /\ list = [t \in Tasks |-> {}]
    /\ acked = {} /\ chosen = {} /\ skipped = FALSE

-----------------------------------------------------------------------------
(* upsert_pckcert_from_json *)

\* The pool of a seeded certificate when there is none yet.
SeededPool(item) ==
    [EmptyPool EXCEPT !.ppid = item.ppid, !.fmspc = item.fmspc, !.ca = item.ca,
                      !.chain = item.chain]

\* Variant: a seeded certificate starts the pool afresh.
PoolAfresh(pool, item) ==
    [SeededPool(item) EXCEPT !.certs = {PlatformCert(item.tcbm, item.cert)},
                             !.raws = {RawTcb(item.raw, item.tcbm)}]

\* A certificate for a level without one, and a raw level that was not known.
PoolWithCert(pool, item) ==
    [pool EXCEPT
        !.certs = IF item.tcbm = "" \/ \E c \in @ : c.tcbm = item.tcbm THEN @
                  ELSE @ \cup {PlatformCert(item.tcbm, item.cert)},
        !.raws = IF \E r \in @ : r.raw = item.raw THEN @
                 ELSE @ \cup {RawTcb(item.raw, item.tcbm)}]

\* upsert_seed_platform: blanks are filled, and a level becomes known.
PoolWithPlatform(pool, item) ==
    [pool EXCEPT
        !.ppid = IF @ = "" THEN item.ppid ELSE @,
        !.fmspc = IF @ = "" THEN item.fmspc ELSE @,
        !.raws = IF item.raw = "" \/ \E r \in @ : r.raw = item.raw THEN @
                 ELSE @ \cup {RawTcb(item.raw, "")}]

\* The list of an FMSPC with a policy put into it: a new default unseats the others.
Upsert(policies, policy, type, isDefault) ==
    {[p EXCEPT !.isDefault = @ /\ ~isDefault] : p \in {q \in policies : q.policy # policy}}
        \cup {AppraisalPolicy(policy, type, isDefault)}

\* A name the item needs is missing: the item is passed over.
Incomplete(item) == "" \in item.names

-----------------------------------------------------------------------------
Item == Head(todo)
Loading(kind) == server = "loading" /\ todo # << >> /\ Item.kind = kind /\ ~Incomplete(Item)

\* A write of the loader, which may fail unnoticed.
Write(k, record) ==
    \/ db' = Put(db, k, record) /\ UNCHANGED skipped
    \/ skipped' = TRUE /\ UNCHANGED db

ItemDone == todo' = Tail(todo) /\ rowDue' = FALSE

PassOver ==
    /\ server = "loading" /\ todo # << >> /\ Incomplete(Item)
    /\ ItemDone
    /\ UNCHANGED <<db, skipped, server, starts, chosen, putting>>

\* Variant: the row is written first, then the pool that knows its level.
RowBeforePool == ~rowDue

\* The pool is written first, then it is the turn of the row.
RowsTurn == rowDue

LoadPckcert ==
    /\ Loading("pckcert")
    /\ LET k == platform(Item.qeid, Item.pceid)
       IN  IF RowsTurn
           THEN Write(pckcert(Item.qeid, Item.pceid, Item.raw),
                      PckCertRecord(Item.cert, Item.tcbm, Item.ppid))
           ELSE Write(k, PoolWithCert(Get(db, k, SeededPool(Item)), Item))
    /\ IF rowDue THEN ItemDone ELSE rowDue' = TRUE /\ UNCHANGED todo
    /\ UNCHANGED <<server, starts, chosen, putting>>

LoadPlatform ==
    /\ Loading("platform")
    /\ LET k == platform(Item.qeid, Item.pceid)
       IN  Write(k, PoolWithPlatform(Get(db, k, EmptyPool), Item))
    /\ ItemDone
    /\ UNCHANGED <<server, starts, chosen, putting>>

\* upsert_tcb_from_json, upsert_identity_from_json, the CRLs: what is there is replaced.
LoadDocument ==
    /\ Loading("doc")
    /\ Write(Item.key, Item.record)
    /\ ItemDone
    /\ UNCHANGED <<server, starts, chosen, putting>>

LoadPolicy ==
    /\ Loading("policy")
    /\ LET k == appraisal(Item.fmspc)
       IN  Write(k, Upsert(Get(db, k, {}), Item.policy, 0, Item.isDefault))
    /\ chosen' = IF Item.isDefault /\ ~skipped' THEN chosen \cup {Item.fmspc} ELSE chosen
    /\ ItemDone
    /\ UNCHANGED <<server, starts, putting>>

Start ==
    /\ server = "down" /\ starts < MaxStarts
    /\ server' = "loading" /\ todo' = Items /\ rowDue' = FALSE /\ starts' = starts + 1
    /\ UNCHANGED <<db, chosen, skipped, putting>>

Serve ==
    /\ server = "loading" /\ todo = << >>
    /\ server' = "up"
    /\ UNCHANGED <<db, todo, rowDue, starts, chosen, skipped, putting>>

Stop ==
    /\ server # "down"
    /\ server' = "down" /\ todo' = << >> /\ rowDue' = FALSE
    /\ holder' = NoTask
    /\ body' = [t \in Tasks |-> NoBody] /\ list' = [t \in Tasks |-> {}]
    /\ UNCHANGED <<db, starts, acked, chosen, skipped>>

-----------------------------------------------------------------------------
(* put_appraisal_policy, and the refreshes as far as they touch the pools. *)

\* Variant: the list is read and written without the lock.
NoLockNeeded == TRUE

\* appraisal_lock, held from the read of the list to its write.
CanLock == holder = NoTask

\* appraisal_policy refuses the body before anything is read.
PutPolicy(t) ==
    /\ server = "up" /\ body[t] = NoBody /\ CanLock
    /\ \E b \in {b \in Bodies : b.valid} :
           /\ body' = [body EXCEPT ![t] = b]
           /\ list' = [list EXCEPT ![t] = Get(db, appraisal(b.fmspc), {})]
    /\ holder' = t
    /\ UNCHANGED <<db, server, todo, rowDue, starts, acked, chosen, skipped>>

WritePolicy(t) ==
    /\ server = "up" /\ body[t] # NoBody
    /\ LET b == body[t]
       IN  \/ /\ db' = Put(db, appraisal(b.fmspc), Upsert(list[t], b.policy, b.type, b.isDefault))
              /\ acked' = acked \cup {<<b.fmspc, b.policy>>}
              /\ chosen' = IF b.isDefault THEN chosen \cup {b.fmspc} ELSE chosen
           \/ UNCHANGED <<db, acked, chosen>>      \* INTERNAL_ERROR
    /\ holder' = NoTask
    /\ body' = [body EXCEPT ![t] = NoBody] /\ list' = [list EXCEPT ![t] = {}]
    /\ UNCHANGED <<server, todo, rowDue, starts, skipped>>

\* A refresh (replace_platform_certs_after_fetch): upstream renewed the certificates, and for
\* every level the pool knows one of them is selected, with its row (PlatformPool).
Refetch(k) ==
    /\ server = "up" /\ k \in KeysOf(db, "platform") /\ db[k].certs # {}
    /\ LET fresh == {PlatformCert(c.tcbm, Renewed) : c \in db[k].certs}
       IN  \E selected \in [{r.raw : r \in db[k].raws} -> fresh] :
               LET known == DOMAIN selected
                   pool == [db[k] EXCEPT !.certs = fresh,
                                         !.raws = {RawTcb(x, selected[x].tcbm) : x \in known}]
                   rows == [y \in {pckcert(k[2], k[3], x) : x \in known} |->
                               PckCertRecord(selected[y[4]].cert, selected[y[4]].tcbm, pool.ppid)]
               IN  db' = PutAll(Put(db, k, pool), rows)
    /\ UNCHANGED <<server, todo, rowDue, starts, chosen, skipped, putting>>

SeedNext ==
    \/ Start \/ PassOver \/ LoadPckcert \/ LoadPlatform \/ LoadDocument \/ LoadPolicy
    \/ Serve \/ Stop
    \/ \E t \in Tasks : PutPolicy(t) \/ WritePolicy(t)
    \/ \E k \in KeysOf(db, "platform") : Refetch(k)

-----------------------------------------------------------------------------
(***************************************************************************)
(* A row that GET /pckcert serves is for a level its pool knows, at every  *)
(* moment, so also when a kill cut the loading of the seed short: the pool *)
(* is written before the row (upsert_pckcert_from_json).                   *)
(***************************************************************************)
RowsKnown ==
    ~skipped => \A k \in KeysOf(db, "pckcert") :
        /\ Has(db, platform(k[2], k[3]))
        /\ \E r \in db[platform(k[2], k[3])].raws : r.raw = k[4]

\* The record the seed file itself has for a key: a row, or a document.
SeedHas(k, record) ==
    \E item \in {item \in SeedItems : ~Incomplete(item)} :
        \/ /\ item.kind = "pckcert" /\ k = pckcert(item.qeid, item.pceid, item.raw)
           /\ record = PckCertRecord(item.cert, item.tcbm, item.ppid)
        \/ item.kind = "doc" /\ k = item.key /\ record = item.record

\* What the loader may make of a record it finds.
KeptAs(k, old, new) ==
    CASE k[1] = "platform" -> /\ old.certs \subseteq new.certs
                              /\ old.raws \subseteq new.raws
                              /\ old.ppid \in {"", new.ppid}
      [] k[1] = "appraisal" -> \A p \in old : \E q \in new : q.policy = p.policy
      [] OTHER -> new = old \/ SeedHas(k, new)

(***************************************************************************)
(* What a seed does to a database in use.  Pools are merged: no platform,  *)
(* certificate, level or credentials go ("Merges rather than overwrites",  *)
(* upsert_seed_platform; upsert_pckcert_from_json likewise).  No policy is *)
(* dropped from a list.  A served row or a document is not merged: it goes *)
(* back to the seed's own record for its key, at every start, and to       *)
(* nothing else.                                                           *)
(***************************************************************************)
SeedKeepsWhatItFinds ==
    [][server = "loading" =>
           \A k \in DOMAIN db : Has(db', k) /\ KeptAs(k, db[k], db'[k])]_svars

\* get_default_policies: 404 when there is none.
DefaultPolicies(fmspc) == {p \in Get(db, appraisal(fmspc), {}) : p.isDefault}

(***************************************************************************)
(* A policy whose PUT was answered is in the list of its FMSPC for good,   *)
(* whatever other PUTs, restarts and seeds do, and once the server has set *)
(* a default for an FMSPC it has at most one (put_appraisal_policy).       *)
(***************************************************************************)
PoliciesKept ==
    /\ \A a \in acked : \E p \in Get(db, appraisal(a[1]), {}) : p.policy = a[2]
    /\ \A f \in chosen : Cardinality(DefaultPolicies(f)) <= 1
=============================================================================
