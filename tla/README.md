# pccs-rs in TLA+

pccs-rs is a caching server for attestation collateral: it answers the PCCS API
of Intel (PCK certificates, TCB infos, identities, CRLs) and proxies AMD KDS,
NVIDIA RIM and NVIDIA OCSP, keeping what it fetched in one RocksDB database.
This directory models the parts of it where something can go wrong that a test
would hardly reach: concurrent requests around an upstream fetch, futures that
are dropped when a client hangs up, restarts, the clock, and indexes that must
stay in step with the records they describe.

File names below are those of `src/src/`.

## The system

| part | state it keeps | operations | talks to |
|---|---|---|---|
| Read-through store (`store.rs`) | records of three kinds, order rows, position rows, a counter per kind; the last stamp (memory) | open, put with eviction, delete, sweep | RocksDB, the wall clock |
| Read-through lookups (`cache.rs`, `ocsp.rs`) | table of key locks, memory of recent failures | `get_cached_url`, `get_nvidia_ocsp`, `sweep_expired` | the store, the upstream hosts |
| Refresh coordination (`cache.rs`, `main.rs`) | table of runs in flight, the refresh lock | `refresh`, `scheduled_refresh` | admin requests, the cron task |
| Platform pools (`cache.rs`, `store.rs`) | a pool, GET rows and queue rows per platform; re-fetch marks (memory) | GET `/pckcert`, POST and GET `/platforms`, PUT `/platformcollateral`, refreshes | the store, PCS or another PCCS |
| Quote verification collateral (`cache.rs`, `store.rs`) | TCB infos, identities, CRLs | getters, `fill_qv_collateral`, `refresh_collateral`, PUT | the store, the upstream |
| Upstream client (`pcs.rs`) | a semaphore of permits | `send` with attempts, back-off, throttling | the network |
| Selection (`selection.rs`) | none | `select_best_pck_cert`, pool validation | called by the pools |
| Appraisal policies (`store.rs`) | a list per FMSPC | PUT and GET `/appraisalpolicy` | the store, the seed |
| Import (`intel_import.rs`) | a staging directory with a database and a report | `db import-intel`: read, convert, publish | the file system, an SQLite file |
| Seed files (`store.rs`) | none of their own: the records of the store | `load_seed_value` at every start | the store |
| Configuration (`config.rs`) | defaults, the TOML file, the command line; `Config` | `from_serve_args`, `config import` | the file system, everything |
| Requests (`routes/`, `auth.rs`, `lib.rs`, `validate.rs`, `error.rs`) | none | routing, layers, tokens, body limits, headers of answers | the handlers |
| Server (`main.rs`, `server.rs`, `health.rs`) | listeners, connections, background tasks, `StartupState` | start, accept, serve, drain, stop | the clients, signals |
| Metrics, hashing, load generator | counters, or none | conversions | observers |

All tasks run on a multi-threaded async runtime. Between two awaits a task runs
to the next await, in parallel with tasks on other threads; at an await it may
be dropped, because axum drops the future of a handler when its client hangs
up. Store operations are synchronous and guarded by one mutex each
(`fifo_lock`, `platform_lock`, `reg_lock`, `appraisal_lock`); they end in one
RocksDB batch. So the grain of the models is: one action per stretch of code
between two awaits, split further where two store accesses are not under one
guard.

What makes the parts correct:

* **Read-through store**: the index describes exactly the records; the cap is
  exact; what goes is the oldest-written.
* **Lookups**: one upstream request per key; nothing expired is served; nothing
  fresh is dropped; a remembered failure hides nothing; every request ends.
* **Refresh coordination**: one run per target; calls share a run in flight,
  not one that is over; every call is answered.
* **Platform pools**: rows and pool agree; levels are never lost; credentials
  change by registration only; what is served is in the pool; re-fetches are
  throttled; a registration that failed stays in the queue.
* **Collateral**: fetches fill what is missing and replace nothing they should
  not; a registration brings all its TCB infos or none; a refresh that reports
  success covered what was cached.
* **Upstream client**: permits and the gauge match the attempts under way; a
  throttled upstream is not stormed; an answer is not lost to an earlier error;
  every call ends.
* **Selection**: the sort copes with a comparison that is no order; the choice
  can be used and is from the best bucket that has a usable certificate.
* **Import**: what is published is the hashed source, row by row, whole and
  durable, and takes nobody's place.
* **Seeds and policies**: a seed is merged into pools and lists of policies and
  changes no row or document but those it has itself, which go back to its own
  record; a row never comes before its pool; a policy whose PUT was answered
  stays, and an FMSPC has one default.
* **Configuration and requests**: whatever state the file is in, a guarded
  handler works only for the token the operator named; only answers anybody may
  see are marked as such.
* **Server**: a shutdown ends, and cuts off only what the grace period could not
  wait for.

The hazards, each at its line with the properties that watch it, are listed in
`PROJECT.json`.

## Modules

| module | models |
|---|---|
| `FifoCache` | abstract: a first-in first-out cache with a capacity per kind |
| `ReadThroughStore` | the bounded kinds of `store.rs`; implements `FifoCache` |
| `SingleFlight` | `get_cached_url`, `get_nvidia_ocsp`, `key_lock`, `remember`, `sweep_expired` |
| `RefreshGate` | `refresh`, `wait_refresh_result`, `scheduled_refresh` |
| `PlatformPool` | `get_pckcert`, `register_platform`, the pool refreshes, `put_platform_collateral` (its certificates), the registration queue |
| `Collateral` | the getters of TCB infos, identities and CRLs, `fetch_tcb_infos`, `fill_qv_collateral`, `refresh_collateral`, the collateral of `put_platform_collateral` |
| `PcsSend` | `PcsClient::send`, `post_json_once`, `post_bytes_once`, `acquire_permit`, the guards |
| `PckSelection` | `select_best_pck_cert`, `create_buckets`, `v8_sort_desc`, `find_insert_index` |
| `Records` | the keys (`keys.rs`) and the records of platforms and policies, and reading and writing them |
| `IntelConvert` | `read_snapshot`, `convert` and the conversions it calls, as operators on a snapshot |
| `IntelImport` | `import_intel`, `publish_with` and what may happen around them |
| `SeedStore` | `load_seed_value`, `put_appraisal_policy` |
| `Provisioning` | composes `IntelImport` and `SeedStore`: how a database comes to be and is served from |
| `Config` | the layers of the configuration, `apply_json_to_toml`, as operators |
| `Requests` | routes, layers, tokens, body limits and headers, as operators on a request |
| `Service` | one life of the process: the file and its import, the start, connections, requests, the shutdown |
| `*Proofs` | the theorems about the module of that name; `RefreshProofs` those about `RefreshGate` and `Collateral` |
| `MC*` | instances for TLC |

The modules compose by what they leave open for each other: `SingleFlight`
treats an eviction by a put as a choice of other records of the kind, which is
what `FifoCache` allows; `PlatformPool` treats a remembered failure as one more
way for a fill to fail, which `SingleFlight` describes; a run of `RefreshGate`
that refreshes certificates is `refresh_certs` or `refresh_platform_pools` of
`PlatformPool`, and one that refreshes the rest is `Refresh` of `Collateral`,
which therefore lets one refresh run at a time. An upstream request of these
modules is a call of `PcsSend`: it ends, with an answer or a failure. The level
a row of `PlatformPool` is selected from is the choice of `PckSelection`. A
database that `Provisioning` has opened is an initial state of the modules about
the running server, rows that a seed put out of step with their pool included,
and a handler of `Service` is a task of one of them: it takes
as long as it likes and answers with any of its statuses.

### ReadThroughStore

`entry`, `pos`, `order` and `count` are the rows on disk: the records, the
`fifo-pos/` rows, the `fifo/` rows and the `fifo-count/` row. `last` is the
value inside `fifo_lock`. Keys are numbers in the byte order RocksDB iterates
in, because the order rows of two keys with the same stamp come in that order.
`put_bounded`, `delete_key`, `sweep_prefix` and `Open` (with
`index_unindexed_entries`) are the functions of those names. `PutFails` is a
batch that RocksDB refused: only the stamp was used up. `wrote`, `writes`,
`opened` and `steady` are history.

Expiry is left to the caller in the code, so a delete or a sweep may take any
record here. The clock may be set to anything at any time. `steady` says that it
has not been set back so far, and that every open found it past all stamps on
disk (stamps run ahead of it only when writes come faster than one per
microsecond). Order across restarts is promised while `steady`; the exact index
and the order within one run are promised always.

### SingleFlight

A request goes through the points `miss` (before `key_lock`), `queued` (on the
mutex, in order of arrival), `locked`, `fetching`; two more points are the
drops of an expired record, which the code does in a store call of their own.
`inflight` holds the `Weak` pointers: an entry is alive as long as some request
keeps the `Arc`, and a new lock may reuse the address of a dead one.
`recent_failure` and `recent_non200` are two looks at the same memory with no
other task of the key in between; they are one action with the grant of the
lock. A record is the one field its expiry test reads.

The assumption behind "nothing fresh is dropped" in REQ and OFFLINE mode is the
mode itself: nobody fills there, so the unlocked drop has nothing fresh to hit.

### RefreshGate

A call that finds no entry creates a channel, looks again under the lock of the
table, lists its receiver, takes its place on `refresh_lock`, runs, sends the
result and removes the entry. Listing and queueing on the refresh lock are one
action: a call that is listed and not yet queued differs from one queued last
by nothing a property can see. `HangUp` drops a call at any of its awaits.
`over` is history: the calls that had returned when a call began.

### PlatformPool

One platform, named by QE id and PCE id. `certs[t]` is the task whose fetch
brought the certificate for TCB level `t`, so two fetches can be told apart
even when they answer alike. Which certificate is selected for a raw level
depends on the TCB documents and is left open (`select_best_pck_cert`).
Credentials are a pair of an encrypted PPID and a manifest; `None` stands for
no manifest and for a PPID that is empty or all zeros, which the upstream calls
refuse. A POST carries either a manifest or a raw level with a PPID
(`validate::platform_reg`), and the manifest the platform has counts as sent
(`is_cached`). `seen` is `PckFetchContext.expected`, `want` is what the task
fetches with. A publication is one action because it runs under
`platform_lock` and ends in one batch.

`Init` is any pool an earlier run or a PUT can have left, with a seed loaded over
it. The loader keeps the certificate the pool has for a level but puts its own
certificate and PPID into the GET row (`store.rs:1351`, `1364`), and it fills
blank credentials of a pool whose rows were written before (`1397`). So a row may
start with a certificate that is not the pool's (`Stray`; those of the pool are
`Found`) or with other credentials, and `left` is the set of rows that started
out of step and have not been brought back since. `RowsMatchPool` and
`ServedFromCurrentPool` except these rows and no others. Queue rows in
the states NEW and NOT_AVAILABLE are kept apart: their keys differ in how the
PCE SVN is written (hexadecimal in one, the plain number in the other), so one
does not overwrite the other for the values PCE SVNs have. The admin refresh
and the scheduler take one platform of their list at a time; other platforms
touch none of this state. Requests are version 4, where the re-fetch applies.
Mode and upstream (PCS or another PCCS) are picked at the start and never
change. The clock is there for the re-fetch throttle only and moves once the
first mark is set.

### Collateral

`doc[d]` is the issue that is stored, or `Nothing`. Issues have no order, because
no code compares them: the upstream may be another PCCS, which answers from its
own cache, so `Answers` brings any issue, and so does a PUT. A task goes through
its documents in the order of the code (`Stages`, `PutStages`): `Ask` sends a
request, `Answers`, `AnswersUnchained` (no issuer chain, so not cacheable) or
`AnswerFails` say what came of it, `Store` and `StoreFails` write the record.
Answer and write are two steps because the answer is on its way in between, and
that is where another task or a hang-up gets in. A registration keeps its TCB
infos (`sent`) for the batch of the pool; the one for the standard update is
`Standard`, without which it fails. `had` is `had_rootcacrl`. The key locks are
held by GETs only, as in the code. `outcome`, `brought`, `wrote`, `since` and
`present` are history.

Requests are version 4 with an upstream configured. The certificates of a PUT
are one step that succeeds or is refused; what they do is in `PlatformPool`.
A PUT writes its documents one by one and looks at the certificates last, so one
that is refused keeps the documents written before.

### PcsSend

A call is `queued` on the semaphore (which serves its waiters in order),
`flying` with a permit, or `sleeping` without one. `again` is `throttled_retry`;
`counted` and `inflight` are the metrics of those names. The number of attempts
is the length of the history `heard`, which the loop variable `attempt` counts.
Lengths of sleeps are left out, so the order in which sleepers wake is open.

### PckSelection

One action per iteration of the loops: the search and the rotation of the
insertion sort, the placement of one certificate, the walk. A TCB is a function
from components to SVNs; the code has 17 components, and two are enough for
TCBs that cannot be compared. `buckets` holds numbers of certificates as
`Bucket.certs` does; the last bucket is `not_matching`. What the code refuses
before it sorts (`validate_input`, `parse_pck_certs`) is `Refuse`, since what is
refused depends on fields no later step reads.

### Records, IntelConvert, IntelImport, SeedStore, Provisioning

A database is a function from keys to records (`Records`). A key is its prefix
and the fields it is hashed from; the hash is taken to be injective. Names that
the code writes in upper case before it hashes them are given by that spelling.

`IntelConvert` says what a snapshot of an Intel PCCS database must be like for
the import to take it (`Convertible`, one operator per table) and which records
it becomes (`Entries`). A text column is a name and a spelling: Intel's tables
tell spellings apart, this store does not, and that is where two rows could
become one. What a DER or JSON document must contain is what its check looks
for: the fields that are compared with other columns.

`IntelImport` is the publication: hash, read, convert, hash again, staging
directory, synced database, verification, report, syncs, `RENAME_NOREPLACE`,
sync of the parent. `dir` is a directory as processes see it, `disk` what is
certain to survive; a power loss leaves anything between the two (`Remains`).
The source file may be written to at any time, but no content comes back, since
SQLite counts its writes in the header of the file: without that, a file changed
and changed back between the hashes would go unnoticed.

`SeedStore` is the server on a database: the seed is loaded item by item over
what is there, at every start, and the loader ignores the result of its writes
(`skipped`). A certificate of a seed is two writes, pool and row. A PUT of a
policy reads and writes the list of its FMSPC under `appraisal_lock`. `Refetch`
is `replace_platform_certs_after_fetch` as the refreshes of `PlatformPool` call
it: every certificate of the pool is a `Renewed` one, and each raw level the pool
knows gets one of them and a row. So a seed meets pools and rows that have moved
on. `acked`, `chosen` and `skipped` are history.

`Provisioning` starts the server on what an import published or on a new
database. What the server does depends on the records alone, so of the many
states of the imports with the same records one is enough (`Alone`).

### Config, Requests, Service

A layer of the configuration is a record of options, each given or `Unset`.
Options with a rule of their own (transport, token hashes, mode, body size,
max-age, seed) are fields; those the next layer simply replaces are represented
by three. The packaged template sets none of the modelled options.
`usize::MAX` is the constant `UsizeMax`, because a body size is checked against
it before it is multiplied.

A request has what the layers look at: method, path, a trailing slash, the size
of its body, two tokens, whether its parameters are valid, and what its
extractors find (`content`: query and content type are looked at before the body
is read, its syntax after). Handlers answer with the statuses of `error.rs`, and
the proxies also with those they relay from the upstream (`Relayed`).
`Rejections` are the answers given before the handler, in the order of the
layers; `Answer` adds the headers the outer layers set.

`Service` has one action per step of `run`: the configuration is read, the cache
built, tasks started, the listener bound; then connections (waiting for the
first byte, in the channel, open), requests (body, work) and the shutdown.
`config import` may write the file until the server has read it, and die in the
middle of its write. A connection has one request at a time; keep-alive and
header limits are hang-ups. `loaded`, `graceOver` and `lost` are history.

## Runs

| run | question | bounds |
|---|---|---|
| `store_fifo` | is the index exact, in write order within a run, and is the store a FIFO cache until the clock is set back? | one kind, 3 keys, caps 0..2, 3 writes after 3 legacy ones, a clock of 9 values that goes to any of them at any time |
| `single_flight` | exclusion, freshness, failures, drops; does every request end? | 2 requests, again and again, 2 keys (one OCSP), 2 lock addresses, tables of size 1, 3 ticks |
| `refresh_gate` | one leader per target; what sharing and answers still hold when clients hang up? | 3 calls, 2 targets, the scheduler, hang-ups at every await |
| `refresh_stuck` | *violation*: is every call answered? | 2 calls |
| `platform_pool` | do rows, certificates, credentials and answers stay in step, in front of Intel PCS and of another PCCS, also after a seed? | 2 tasks of any kind, 2 raw levels, 2 TCB levels, 3 modes, a throttle that expires |
| `platform_queue` | *violation*: does a failed POST stay queued? | 2 POSTs, 1 level, 2 PPIDs |
| `collateral` | what may a fetch, a refresh and a PUT that overlap do to each other's documents? | 2 tasks of any kind, the standard and the early TCB info, the root CA CRL, 2 issues, 3 modes |
| `pcs_send` | permits, retries, metrics; does every call end? | 3 calls, 1 permit, 3 attempts, 2 throttled ones |
| `pck_selection` | is the sort sound, is the choice the best there is? | 2 components of 3 values, up to 4 levels, up to 5 levels and certificates together |
| `pck_buckets` | *violation*: are buckets in descending order? | 1 level, 4 certificates |
| `provisioning` | is an import faithful, whole and durable; what do seeds and policies leave behind? | 2 importers, 34 snapshots, a change of the source, 2 starts, 2 PUTs at a time, a kill or power loss at every step |
| `service` | who gets in, what may be kept, how does a shutdown end? | 2 clients, one request of every kind, 4 command lines, 4 states of the file, a Node configuration |

Kinds share nothing but the lock's last stamp, so one kind with 3 keys and caps
up to 2 shows every eviction pattern: under, at and over the cap, with a rewrite
among them. A request that has ended begins again, so two give a holder of a
lock, a waiter, and a newcomer who finds the table purged; a table of size 1
overflows with the second key, and for any number of requests the safety
properties are proved. Two pool tasks are enough for one to overtake another at each of
its awaits, and the initial pool stands for everything earlier tasks left. A pool
with two raw levels and two certificates is the smallest where a row of another
level must follow a replaced certificate. In `collateral` two TCB infos are the
fewest of which a registration could bring one without the other, the one it
cannot do without being one of them. They also stand for the documents a refresh
must not fail on; the root CA CRL may fail unless it is cached. A fourth document
takes the run beyond five minutes, so identities, PCK CRLs and CRLs by URI, which
are treated in these same two ways or, for identities, may always fail, are left
to the theorems. Two issues tell an answer from what it replaces. One permit for three calls gives a holder, a waiter and a
sleeper. Three levels are the fewest the sort can take in an order that is not
transitive, four leave its search a choice of halves; four certificates of one
bucket are the fewest in which the insertion goes wrong. The snapshots of
`provisioning` are one the import takes with two of most things, three more it
takes (other PPIDs, several default policies, version 3), and that one with a single table
changed in each way the code looks at: a missing table or column, a row spelled
twice, a row without the row it refers to, a document of another platform. Two
importers are enough for a race to the destination, two starts for a seed that
meets its own records. The command lines of `service` are those whose options
meet a rule: none, dev tokens, an empty hash, transports that contradict each
other; the files are a plain one, one with every odd value, an unusable one and
none. One client sends every kind of request, the other a registration, so that
a shutdown finds a connection in every state beside another. In the runs of
`PlatformPool`, `Collateral`, `PcsSend` and `PckSelection` a task runs once, so
a behaviour may end: deadlock is not checked there, nor in the runs of
`RefreshGate` where all calls may have returned, nor in `provisioning` and
`service`, where the server is not started for ever.

### What the violations show

* `refresh_stuck`: the entry of a run is removed by the request that led it. If
  its client hangs up before the result is sent, the entry stays without a
  sender, and later calls for the target loop for ever.
* `platform_queue`: two POSTs for one level share a queue row. The first to
  succeed deletes the row of the other, whose answer is then refused because
  the credentials have changed, and which leaves nothing in the queue.
* `pck_buckets`: `find_insert_index` does not count certificates it cannot
  compare with, so a certificate may come to stand before a higher one, and a
  platform that could use the higher one is served the lower one. The code
  follows Node in this; it is the contract document that promises more.

Some weaknesses show in what the passing runs assume or allow. FIFO order across
a restart needs a clock that is not set back (`steady`): the last stamp is memory
and starts at 0, so otherwise new records are stamped below the ones on disk and
go first. A leader of a refresh whose client hangs up between
the send and the removal leaves its result listed, and later calls answer it
without a run: the exception in `SharesUnlessLeft`. A refused PUT of collateral
keeps the documents it had written. No writer of a document compares issue dates
(`cache.rs:1574`, `1601`), so a refresh from another PCCS, or an answer that was
long under way, may replace a newer document by an older one. A seed is loaded at
every start, and each time the GET rows and documents it has go back to its own
record, whatever was fetched since (`SeedKeepsWhatItFinds`); such a row is served
although its certificate is not in the pool, until the pool is replaced (`left`
in `ServedFromCurrentPool`). A seed whose write failed is not noticed
(`skipped` in `RowsKnown`). An imported database may bring several default
policies for an FMSPC, and keeps them until the server sets one (`chosen` in
`PoliciesKept`). `config import` empties the file before it writes it: a server
started in between runs with fewer options than it was given, and `FailsClosed`
says that this locks people out and lets nobody in, unless the command line has
`--dev-tokens`: the dev token then takes the place of a hash that the file has
lost. The 413 for a body on a route without one comes from a layer outside the
one that sets `Cache-Control` and has no `no-store`, although `src/README.md:269`
promises it for every status but 200; `KeptOnlyIfPublic` does not ask for it,
since caches keep no 413 by themselves.

## Fairness

`SingleFlight`, `RefreshGate` and `PcsSend` have a `FairSpec` with weak fairness of the
steps a task takes by itself. The runtime polls tasks that can run; mutexes are
granted in order of arrival (tokio's `Mutex` is fair, and the queues are
explicit in the models, as is the semaphore's); an upstream attempt ends within `REQUEST_TIMEOUT`, and
attempts are bounded in number (`pcs.rs`). Nothing is assumed of clients, of
the scheduler's next run or of the outcome of a fetch. In `Service` only the
steps of the shutdown are fair: the grace period is a timer, and what `run` does
after it waits for nothing without one. Handlers, clients and signals are not.

## Proofs

TLAPS checks the theorems for every value of the constants that satisfies the
`ASSUME`s of the module. Every safety property of a passing run is the subject
of one; the inductive invariants were checked by TLC on the instance of the run
before they were proved.

**ReadThroughStoreProofs.** `TypeCorrect` and `IndexNeverDrifts` are by one
induction: `IndexConsistent` is inductive with the type invariant, given that
the victims of a put are rows of other keys. `IndexIsFifo` needs more: while
`steady`, stamps on disk lie below the next stamp, and equal stamps occur in
legacy rows only, in fetch order. `RunIsFifo` needs only that stamps handed out
since the open are at most `last`, and holds whatever the clock does.
`StoreImplementsFifoCache` uses both: the initial state and, while `steady`,
every step map to `FifoCache` with `age <- wrote`, because the rows before all
others in the index are the oldest-written records. `SteadyStoreIsFifoCache` is
the refinement of the whole specification, for a clock that stays `steady`.

**SingleFlightProofs.** The inductive invariant says that a request past the
lock is at the head of the queue of the lock it keeps alive, that requests of
one key keep the same lock alive and it is the one listed, that queues hold no
request twice, and that no other task writes the record or the memory of a key
whose lock is held, apart from evictions, drops and the sweep.

**RefreshProofs**, on `RefreshGate`. A leader is listed (`OneLeaderPerTarget`)
is inductive with the types. An entry of the table belongs to a leader in
progress or to one whose client hung up; that is the strengthening behind
`SharesUnlessLeft`: a call answers a result of a run that was over when it began
only if that run's leader left before it could remove its entry.

**RefreshProofs**, on `Collateral` (the two modules share no name, so that one
module can be about both). What holds of a task (`TaskOK`) survives any step of another (`Apart`): such a step changes a
document only by adding it to those stored since the task asked. So it is enough
to look at a task's own steps. A registration under way has stored nothing and
holds exactly the answers it got (`StagedOK`, with `HoldsOK`: no task asks for a
document while it still holds an answer for it), so its one write makes it
`Registered`, and the fill that may follow touches no TCB info. A GET or a fill asked for something missing (`MissingOK`). For a refresh, each
document cached at its beginning is dealt with, waited for, or still ahead in
the loop it is in or a later one (`RefreshOK`), and stays cached, so that the
failure of a cached root CA CRL cannot pass for the tolerated one of a missing
CRL. Assumed is that `Nothing` is neither a task nor an issue
(`NothingAssumption`), and that the standard TCB info is one of the TCB infos,
which are no documents of another kind (`TcbsAssumption`).

**PlatformPoolProofs.** For any tasks, levels and credentials, with `None` no
credential (`CredsAssumption`) and the certificates found at the start those of no
task (`StrayAssumption`). `RowsStayCoherent`: `RowsMatchPool` is inductive with
the types, with the fact that a platform nobody knows has no certificates, and
with which task can be where (`PlaceOK`). No task adds to `left`, so the rows a
seed left out of step are the only exception for good.
`OnlyRegistrationChangesCredentials` adds `CredentialsOK`: a refresh fetches with
what it saw, a GET too unless it saw nothing, and the check under
`platform_lock` compares what was seen with what is there. `RefetchesAreSpaced`
adds `RefetchOK`: the GET that may re-fetch holds the lock, and the mark it was
measured against stands until it sets its own, which needs that no mark lies in
the future. `LevelsAreKept` and `ServesCurrentPool` are about single steps, from
the same invariant.

**PckSelectionProofs.** For any number of components, levels and certificates.
`SortSound` rests on what the binary search has compared so far: the pivot is
not higher than the level left of its range and is higher than the level at the
range's end, while the levels before it already fall; sliding the pivot in
touches just these neighbours, so transitivity of incomparability, which does
not hold, is never needed. `HigherFirst` needs that every certificate lies in
the first bucket whose level it reaches, and that reaching is transitive.
`BestBucketChosen` adds that every certificate of the pool lies in some bucket
and what the walk has passed over when it ends. `BestIsChosen` adds
`DescendInv`: when all certificates of the pool can be compared,
`find_insert_index` skips nothing it should count, so the bucket of a level
descends, and the first usable certificate the walk meets is a highest one. The
run `pck_buckets` shows that this fails when they cannot. The assumptions are
that SVNs are integers and the bounds naturals.

**ProvisioningProofs**, on the imports. For any importers and any contents of
the source, of which it is assumed only that tables are finite.
`ImportsAsSpecified`: the composition implements the imports alone, so what
follows is about `IntelImport`. The invariant has three parts for each importer:
how complete its directory is at each step, in the page cache and on disk; that
what has the name of the destination is whole in both, so that a power loss,
which mixes the two, leaves it whole; and that what was read is what was hashed
as long as the source is still what was hashed, which the second hash turns into
a fact. `PublicationSafe` and `PublishedNeverTouched` follow from it.
`FaithfulImport` adds what `Convertible` has checked: the prefixes keep the
kinds apart, one row per canonical key makes the maps from rows to records
injective, so the numbers of records are those of rows; and the row of a raw
level is made from the same platform and certificate as its pool.

**ProvisioningProofs**, on seeds and policies. `SeedInv` goes together with the
invariant of the imports, because a server may start on what one published. It
says which records a database may hold under which keys (`DbShape`), that the
pool of a certificate is there when the loader comes to its row (`RowDueOK`),
and that a PUT that is about to write holds `appraisal_lock` and has the list
there is (`LockOK`). `RowsAlwaysKnown` then holds as long as no write of the
loader was skipped; `PoliciesAlwaysKept` because a list is only ever replaced by
one that keeps its policies; `SeedOnlyAdds` because every item of a seed is
merged into the pool or the list it finds, and a row or document is written only
as the item has it. Assumed is what the loader and the schema of the
body establish: a document of a seed goes under the key of its kind
(`SeedAssumption`), and a policy is a default or not (`BodiesAssumption`).

**PcsSendProofs.** For any number of calls, permits and attempts. The number of
throttled answers is the number of throttled outcomes in `heard`, a call that
goes on has an attempt left and has had fewer throttled answers than allowed,
and `again` says whether its last answer was a throttled one. With that the
metric is the number of throttled answers, less one while the last of them is
`Pending`: not yet followed by an attempt. Permits are counted by the set of
calls in flight, which each step leaves alone, adds to or takes from.

**ServiceProofs.** For any clients, requests, command lines and files. Most of
it is about operators: the hash a layered configuration ends up with (`HashOf`)
is that of a layer that named one, or of a dev token the operator asked for, so
a token that verifies is granted (`VerifiedIsGranted`); an answer that may be
kept is one of a handler of collateral (`PublicAnswer`), and every answer on the
path of the proxy says no-store (`NrasAnswer`). The invariant carries them to
every state: the configuration is the one its layers mean from the moment it was
read (`ConfigOK`, which is `ConfigurationStands`), a request in a handler has
passed the layers (`HandledOK`), an answer is what `Answer` gives
(`AnsweredOK`), and there are no connections before the listener, after the
exit, or once the loop has ended by itself (`QuietOK`), which is what
`OnlyGraceCutsOff` needs.

Type correctness is proved for every component with state, so the runs do not
check it again (`Service` and `SeedStore` state theirs as a part of the
invariant).

Only model-checked: the liveness properties `EveryRequestEnds`,
`AnsweredUnlessLeft`, `EveryCallEnds` and `ShutdownEnds`, since the prover has
no fairness and no `ENABLED`. The three violations are counterexamples and have
no theorem.

## Not modelled

* Parsing and formatting of URLs, headers, DER and JSON, and the spelling of
  parameters: a request or a document is valid or not, and has the fields a
  later step compares.
* The clamping of an OCSP answer's lifetime: an answer expires within the
  maximum lifetime, at any moment of it.
* Metrics other than the gauge of requests in flight and the count of throttled
  retries: nothing reads them back. Headers that only inform.
* Hashing: CityHash128 and SHA are taken to be injective.
* Several requests at a time on one HTTP/2 connection: handlers share nothing by
  being on one connection.
* Version 3 requests, which LAZY refuses before any fetch.
* The load generator, a benchmark client.

## Plan

1. `OcspExpiry`: the clamping of an OCSP answer's lifetime, as operators against
   a reference definition, with the bounds `SingleFlight` assumes as a theorem.
2. The steps of the liveness arguments that are safety: that a queue of
   `SingleFlight` or `PcsSend` moves up, that each attempt uses one up.
3. What `PckSelection` still promises when certificates cannot be compared: how
   far below the best the choice can be.
