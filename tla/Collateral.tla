----------------------------- MODULE Collateral -----------------------------
(***************************************************************************)
(* Quote verification collateral (cache.rs, store.rs): TCB infos, enclave  *)
(* identities, CRLs.  A document is one record under one key.  It is       *)
(* written by                                                              *)
(*                                                                         *)
(*   get       a GET that missed, under the key lock of the document       *)
(*   register  a platform's certificates were fetched; its TCB infos go    *)
(*             out in one batch with the pool (store_pckcerts)             *)
(*   fill      fill_qv_collateral after a POST /platforms                  *)
(*   refresh   refresh_collateral, one run at a time (see RefreshGate)     *)
(*   put       PUT /platformcollateral                                     *)
(*                                                                         *)
(* and only GETs know of the key locks.  A document is one of its issues.  *)
(* No task compares them: the upstream may be another PCCS, which answers  *)
(* from its own cache with any issue, and a PUT brings any.  A record is   *)
(* written when the answer has come in, however long ago it was made.  An  *)
(* upstream is configured and the version is 4; the URIs of the cached     *)
(* CRLs are valid ones (a refresh skips the others).  The memory of        *)
(* failures behind the key locks is in SingleFlight: here a GET may find   *)
(* one at any time.                                                        *)
(***************************************************************************)
EXTENDS Integers, Sequences, FiniteSets

CONSTANTS
    Jobs,        \* tasks, each run once
    Nothing,     \* no task, no document
    PckCrls,     \* the CRLs of the two PCK CAs
    Tcbs,        \* SGX TCB infos of one FMSPC
    Standard,    \* the one of them a registration cannot do without
    Identities,  \* enclave identities
    Roots,       \* the root CA CRL
    Crls,        \* CRLs by URI
    CacheModes,  \* cache modes the service may be started in
    Issues       \* issues of a document

ASSUME NothingAssumption == Nothing \notin Jobs \cup Issues
ASSUME TcbsAssumption ==
    Standard \in Tcbs /\ Tcbs \cap (PckCrls \cup Identities \cup Roots \cup Crls) = {}

Docs == PckCrls \cup Tcbs \cup Identities \cup Roots \cup Crls

VARIABLES
    cacheMode, \* CacheMode of the process
    doc,       \* doc[d]: the issue in the store, or Nothing
    lock,      \* lock[d]: the GET that holds its key lock, or Nothing
    kind,      \* what a task is
    at,        \* where it is
    cur,       \* the document it deals with
    todo,      \* documents left in the loop it is in
    stage,     \* refresh: the loop it is in
    had,       \* refresh: was the document cached when it asked for it?
    sent,      \* sent[j][d]: the issue a task has been sent and not stored, or Nothing
    outcome,   \* history: what the upstream made of its request for d ...
    brought,   \* history: ... and the issue it answered with
    wrote,     \* history: documents a task has stored
    since,     \* history: documents others have stored since it asked for them
    present    \* history: documents cached when a refresh began

loop == <<todo, stage, had>>
heard == <<outcome, brought>>
history == <<outcome, brought, wrote, since, present>>
docVars == <<cacheMode, doc, lock, kind, at, cur, todo, stage, had, sent,
             outcome, brought, wrote, since, present>>

Kinds == {"none", "get", "register", "fill", "refresh", "put"}
DocPoints ==
    {"new", "wait", "next", "asked", "answered", "publish", "pools", "done", "error", "gone"}
Ended == {"done", "error", "gone"}

-----------------------------------------------------------------------------
MoveTo(j, p) == at' = [at EXCEPT ![j] = p]
Become(j, k) == kind' = [kind EXCEPT ![j] = k]

\* Documents S are stored by task j, as they are in f.
Put(j, S, f) ==
    /\ doc' = [d \in Docs |-> IF d \in S THEN f[d] ELSE doc[d]]
    /\ wrote' = [wrote EXCEPT ![j] = @ \cup S]
    /\ since' = [k \in Jobs |-> IF k = j THEN since[k] ELSE since[k] \cup S]

\* A request for document d goes out.
Ask(j, d) ==
    /\ MoveTo(j, "asked")
    /\ cur' = [cur EXCEPT ![j] = d]
    /\ had' = [had EXCEPT ![j] = doc[d] # Nothing]
    /\ since' = [since EXCEPT ![j] = @ \ {d}]

\* The key lock goes with the guard.
Unlock(j) == lock' = [d \in Docs |-> IF lock[d] = j THEN Nothing ELSE lock[d]]

DocInit ==
    /\ cacheMode \in CacheModes
    /\ doc \in [Docs -> Issues \cup {Nothing}]
    /\ lock = [d \in Docs |-> Nothing]
    /\ kind = [j \in Jobs |-> "none"]
    /\ at = [j \in Jobs |-> "new"]
    /\ cur = [j \in Jobs |-> Nothing]
    /\ todo = [j \in Jobs |-> {}]
    /\ stage = [j \in Jobs |-> 0]
    /\ had = [j \in Jobs |-> FALSE]
    /\ sent = [j \in Jobs |-> [d \in Docs |-> Nothing]]
    /\ outcome = [j \in Jobs |-> [d \in Docs |-> "none"]]
    /\ brought = [j \in Jobs |-> [d \in Docs |-> Nothing]]
    /\ wrote = [j \in Jobs |-> {}]
    /\ since = [j \in Jobs |-> {}]
    /\ present = [j \in Jobs |-> {}]

-----------------------------------------------------------------------------
\* get_tcb, get_identity, get_pckcrl, get_rootcacrl, get_crl up to the key lock.
Get(j, d) ==
    /\ at[j] = "new"
    /\ Become(j, "get")
    /\ cur' = [cur EXCEPT ![j] = d]
    /\ MoveTo(j, IF doc[d] # Nothing THEN "done" ELSE IF cacheMode # "LAZY" THEN "error" ELSE "wait")
    /\ UNCHANGED <<cacheMode, doc, lock, loop, sent, history>>

\* Variant: no second look under the key lock.
NeverFound(d) == FALSE

\* The second look.
FoundLocked(d) == doc[d] # Nothing

\* Under the key lock: a hit after all, a failure remembered, or the request.
GetLocked(j) ==
    /\ at[j] = "wait" /\ lock[cur[j]] = Nothing
    /\ \/ FoundLocked(cur[j]) /\ MoveTo(j, "done") /\ UNCHANGED <<lock, cur, had, since>>
       \/ MoveTo(j, "error") /\ UNCHANGED <<lock, cur, had, since>>
       \/ /\ ~FoundLocked(cur[j])
          /\ lock' = [lock EXCEPT ![cur[j]] = j]
          /\ Ask(j, cur[j])
    /\ UNCHANGED <<cacheMode, doc, kind, todo, stage, sent, heard, wrote, present>>

\* fill_pckcert has the certificates: fetch_tcb_infos.
Register(j) ==
    /\ at[j] = "new" /\ cacheMode # "OFFLINE"
    /\ Become(j, "register")
    /\ MoveTo(j, "next")
    /\ todo' = [todo EXCEPT ![j] = Tcbs]
    /\ UNCHANGED <<cacheMode, doc, lock, cur, stage, had, sent, history>>

\* fill_qv_collateral, for a platform that is cached or has just been filled.
StartFill(j) ==
    /\ Become(j, "fill")
    /\ MoveTo(j, "next")
    /\ todo' = [todo EXCEPT ![j] = PckCrls \cup Identities \cup Roots]

Fill(j) ==
    /\ at[j] = "new" /\ cacheMode # "OFFLINE"
    /\ StartFill(j)
    /\ UNCHANGED <<cacheMode, doc, lock, cur, stage, had, sent, history>>

\* refresh_collateral, under the refresh lock.
Refresh(j) ==
    /\ at[j] = "new" /\ cacheMode # "OFFLINE"
    /\ \A k \in Jobs : kind[k] = "refresh" => at[k] \in Ended
    /\ Become(j, "refresh")
    /\ MoveTo(j, "next")
    /\ present' = [present EXCEPT ![j] = {d \in Docs : doc[d] # Nothing}]
    /\ UNCHANGED <<cacheMode, doc, lock, cur, loop, sent, heard, wrote, since>>

\* put_platform_collateral, for a body that passes its schema: any documents of any issue
\* (one for all: documents of different keys are not compared), a CRL by URI only with the
\* root CA CRL it is a copy of.
StartPut(j, S, n) ==
    /\ at[j] = "new" /\ (S \cap Crls = {} \/ Roots \subseteq S)
    /\ Become(j, "put")
    /\ MoveTo(j, "next")
    /\ todo' = [todo EXCEPT ![j] = S]
    /\ sent' = [sent EXCEPT ![j] = [d \in Docs |-> IF d \in S THEN n ELSE Nothing]]
    /\ UNCHANGED <<cacheMode, doc, lock, cur, stage, had, history>>

-----------------------------------------------------------------------------
\* The order in which a refresh and a fill go through the documents, and a PUT.
Stages == <<PckCrls, Tcbs, Identities, Roots, Crls>>
PutStages == <<Tcbs, Identities, PckCrls, Roots, Crls>>

\* The documents of S whose turn it is: they come stage by stage.
FirstOf(stages, S) ==
    {d \in S : \E n \in 1..5 : d \in stages[n] /\ \A m \in 1..n - 1 : S \cap stages[m] = {}}

\* fetch_tcb_infos: the next TCB info, or on to the publication.
RegisterNext(j) ==
    /\ at[j] = "next" /\ kind[j] = "register"
    /\ \/ \E d \in todo[j] : Ask(j, d) /\ todo' = [todo EXCEPT ![j] = @ \ {d}]
       \/ /\ todo[j] = {}
          /\ MoveTo(j, IF /\ outcome[j][Standard] \in {"ok", "unchained"}
                          /\ sent[j] # [d \in Docs |-> Nothing]
                       THEN "publish" ELSE "error")
          /\ UNCHANGED <<cur, todo, had, since>>
    /\ UNCHANGED <<cacheMode, doc, lock, kind, stage, sent, heard, wrote, present>>

\* The next document that is missing.
FillNext(j) ==
    /\ at[j] = "next" /\ kind[j] = "fill"
    /\ \/ \E d \in FirstOf(Stages, todo[j]) :
              /\ todo' = [todo EXCEPT ![j] = @ \ {d}]
              /\ \/ doc[d] # Nothing /\ UNCHANGED <<at, cur, had, since>>
                 \/ doc[d] = Nothing /\ Ask(j, d)
       \/ todo[j] = {} /\ MoveTo(j, "done") /\ UNCHANGED <<cur, todo, had, since>>
    /\ UNCHANGED <<cacheMode, doc, lock, kind, stage, sent, heard, wrote, present>>

\* What a loop of a refresh goes over: cached documents, except that
\* identities and the root CA CRL are asked for whether cached or not.
Scanned(n) == {d \in Stages[n] : n \in {3, 4} \/ doc[d] # Nothing}

RefreshNext(j) ==
    /\ at[j] = "next" /\ kind[j] = "refresh"
    /\ \/ \E d \in todo[j] :
              /\ todo' = [todo EXCEPT ![j] = @ \ {d}]
              /\ Ask(j, d)
              /\ UNCHANGED stage
       \/ /\ todo[j] = {} /\ stage[j] < 5
          /\ stage' = [stage EXCEPT ![j] = @ + 1]
          /\ todo' = [todo EXCEPT ![j] = Scanned(stage[j] + 1)]
          /\ UNCHANGED <<at, cur, had, since>>
       \/ /\ todo[j] = {} /\ stage[j] = 5
          /\ MoveTo(j, "done")
          /\ UNCHANGED <<cur, loop, since>>
    /\ UNCHANGED <<cacheMode, doc, lock, kind, sent, heard, wrote, present>>

\* PUT: TCB infos, identities and CRLs are written one by one, to the first
\* that the database refuses ...
PutNext(j) ==
    /\ at[j] = "next" /\ kind[j] = "put"
    /\ \/ \E d \in FirstOf(PutStages, todo[j]) :
              /\ todo' = [todo EXCEPT ![j] = @ \ {d}]
              /\ Put(j, {d}, sent[j])
              /\ UNCHANGED at
       \/ todo[j] # {} /\ MoveTo(j, "error") /\ UNCHANGED <<doc, wrote, since, todo>>
       \/ todo[j] = {} /\ MoveTo(j, "pools") /\ UNCHANGED <<doc, wrote, since, todo>>
    /\ UNCHANGED <<cacheMode, lock, kind, cur, stage, had, sent, heard, present>>

\* ... and then the pools in a batch, unless a certificate is refused.
PutPools(j) ==
    /\ at[j] = "pools"
    /\ \E p \in {"done", "error"} : MoveTo(j, p)
    /\ UNCHANGED <<cacheMode, doc, lock, kind, cur, loop, sent, history>>

-----------------------------------------------------------------------------
Heard(j, o) == outcome' = [outcome EXCEPT ![j][cur[j]] = o]

\* Issue n comes in answer to the request of task j.
Brings(j, n) ==
    /\ at[j] = "asked"
    /\ Heard(j, "ok")
    /\ brought' = [brought EXCEPT ![j][cur[j]] = n]
    /\ sent' = [sent EXCEPT ![j][cur[j]] = n]

\* Variant: a registration stores each TCB info when it comes.
AnswersUnstaged(j, n) ==
    /\ Brings(j, n)
    /\ IF kind[j] = "register"
       THEN MoveTo(j, "next") /\ Put(j, {cur[j]}, [d \in Docs |-> n])
       ELSE MoveTo(j, "answered") /\ UNCHANGED <<doc, wrote, since>>
    /\ UNCHANGED <<cacheMode, lock, kind, cur, loop, present>>

\* The upstream makes its answer; a registration keeps it back (fetch_tcb_infos).
Answers(j, n) ==
    /\ Brings(j, n)
    /\ MoveTo(j, IF kind[j] = "register" THEN "next" ELSE "answered")
    /\ UNCHANGED <<cacheMode, doc, lock, kind, cur, loop, wrote, since, present>>

\* An answer without its issuer chain is passed on and not kept (cacheable).
AnswersUnchained(j) ==
    /\ at[j] = "asked" /\ cur[j] \in PckCrls \cup Tcbs \cup Identities
    /\ Heard(j, "unchained")
    /\ MoveTo(j, IF kind[j] = "get" THEN "done" ELSE "next")
    /\ Unlock(j)
    /\ UNCHANGED <<cacheMode, doc, kind, cur, loop, sent, brought, wrote, since, present>>

\* Variant: a refresh goes on after any failure.
ToleratesAll(j) == kind[j] # "get"

(***************************************************************************)
(* Does a task go on after a failed request?  A refresh only when it was   *)
(* for an identity, or for a root CA CRL that is not cached.               *)
(***************************************************************************)
Tolerates(j) ==
    \/ kind[j] \in {"register", "fill"}
    \/ kind[j] = "refresh" /\ (cur[j] \in Identities \/ (cur[j] \in Roots /\ ~had[j]))

AnswerFails(j) ==
    /\ at[j] = "asked"
    /\ Heard(j, "failed")
    /\ MoveTo(j, IF Tolerates(j) THEN "next" ELSE "error")
    /\ Unlock(j)
    /\ UNCHANGED <<cacheMode, doc, kind, cur, loop, sent, brought, wrote, since, present>>

\* The answer is in: the record is written.
Store(j) ==
    /\ at[j] = "answered"
    /\ Put(j, {cur[j]}, sent[j])
    /\ sent' = [sent EXCEPT ![j][cur[j]] = Nothing]
    /\ MoveTo(j, IF kind[j] = "get" THEN "done" ELSE "next")
    /\ Unlock(j)
    /\ UNCHANGED <<cacheMode, kind, cur, loop, heard, present>>

\* The database refuses the record; a fill does not mind.
StoreFails(j) ==
    /\ at[j] = "answered"
    /\ sent' = [sent EXCEPT ![j][cur[j]] = Nothing]
    /\ MoveTo(j, IF kind[j] = "fill" THEN "next" ELSE "error")
    /\ Unlock(j)
    /\ UNCHANGED <<cacheMode, doc, kind, cur, loop, history>>

\* The pool and the TCB infos of a registration in one batch; a POST goes on.
RegisterPublish(j) ==
    /\ at[j] = "publish"
    /\ Put(j, {d \in Docs : sent[j][d] # Nothing}, sent[j])
    /\ sent' = [sent EXCEPT ![j] = [d \in Docs |-> Nothing]]
    /\ StartFill(j) \/ (MoveTo(j, "done") /\ UNCHANGED <<kind, todo>>)
    /\ UNCHANGED <<cacheMode, lock, cur, stage, had, heard, present>>

\* A TCB info does not fit the certificates, or the publication is refused.
RegisterRefused(j) ==
    /\ at[j] = "publish"
    /\ MoveTo(j, "error")
    /\ UNCHANGED <<cacheMode, doc, lock, kind, cur, loop, sent, history>>

\* The client hangs up.
Abandon(j) ==
    /\ at[j] \in {"wait", "asked", "answered"}
    /\ MoveTo(j, "gone")
    /\ Unlock(j)
    /\ UNCHANGED <<cacheMode, doc, kind, cur, loop, sent, history>>

-----------------------------------------------------------------------------
Arrive(j) ==
    \/ \E d \in Docs : Get(j, d)
    \/ Register(j) \/ Fill(j) \/ Refresh(j)
    \/ \E S \in SUBSET Docs, n \in Issues : StartPut(j, S, n)

Proceed(j) ==
    \/ GetLocked(j)
    \/ RegisterNext(j) \/ FillNext(j) \/ RefreshNext(j) \/ PutNext(j) \/ PutPools(j)
    \/ \E n \in Issues : Answers(j, n)
    \/ AnswersUnchained(j) \/ AnswerFails(j)
    \/ Store(j) \/ StoreFails(j) \/ RegisterPublish(j) \/ RegisterRefused(j)

DocNext == \E j \in Jobs : Arrive(j) \/ Proceed(j) \/ Abandon(j)

DocSpec == DocInit /\ [][DocNext]_docVars

-----------------------------------------------------------------------------
\* Type invariant.
DocTypeOK ==
    /\ cacheMode \in CacheModes
    /\ doc \in [Docs -> Issues \cup {Nothing}]
    /\ lock \in [Docs -> Jobs \cup {Nothing}]
    /\ kind \in [Jobs -> Kinds]
    /\ at \in [Jobs -> DocPoints]
    /\ cur \in [Jobs -> Docs \cup {Nothing}]
    /\ todo \in [Jobs -> SUBSET Docs]
    /\ stage \in [Jobs -> 0..5]
    /\ had \in [Jobs -> BOOLEAN]
    /\ sent \in [Jobs -> [Docs -> Issues \cup {Nothing}]]
    /\ wrote \in [Jobs -> SUBSET Docs]
    /\ since \in [Jobs -> SUBSET Docs]

\* Task j stores document d.
Writes(j, d) == d \in wrote'[j] \ wrote[j]

(***************************************************************************)
(* A GET and a fill fetch what is missing: they replace a cached document  *)
(* only if another task stored it after their request went out, since      *)
(* nothing but GETs of one document excludes one another (key_lock,        *)
(* fill_qv_collateral).                                                    *)
(***************************************************************************)
FillsOnlyMissing ==
    [][\A j \in Jobs, d \in Docs :
          Writes(j, d) /\ kind[j] \in {"get", "fill"} /\ doc[d] # Nothing => d \in since[j]]_docVars

\* What the upstream answered task j with is in the store, unless another has stored since.
Kept(j, d) == d \in wrote[j] /\ (doc[d] = brought[j][d] \/ d \in since[j])

(***************************************************************************)
(* A registration is all or nothing: until it succeeds it leaves no TCB    *)
(* info behind, whichever request fails, whatever is refused and whenever  *)
(* the client hangs up; and one that succeeds had the standard TCB info    *)
(* answered and has stored every one the upstream sent it (fetch_tcb_infos *)
(* and replace_platform_certs_after_fetch, "leaving the old pool and       *)
(* success keys coherent").                                                *)
(***************************************************************************)
RegistersAllOrNothing ==
    \A j \in Jobs : kind[j] \in {"register", "fill"} /\ outcome[j][Standard] # "none" =>
        \/ kind[j] = "register" /\ at[j] # "done" /\ wrote[j] = {}
        \/ /\ outcome[j][Standard] # "failed"
           /\ \A d \in Tcbs : outcome[j][d] = "ok" => Kept(j, d)

(***************************************************************************)
(* When a refresh answers success, every document that was cached when it  *)
(* began has been asked for; each was answered, but an identity may have   *)
(* failed; and an answer with its chain was stored and is what the store   *)
(* has, unless another task has stored the document since                  *)
(* (refresh_collateral: "a failed CRL refresh is a 503", "tolerates        *)
(* missing collateral").                                                   *)
(***************************************************************************)
RefreshOkCoversAll ==
    \A j \in Jobs : kind[j] = "refresh" /\ at[j] = "done" =>
        \A d \in present[j] :
            /\ outcome[j][d] \in {"ok", "unchained"} \/ (d \in Identities /\ outcome[j][d] = "failed")
            /\ outcome[j][d] = "ok" => Kept(j, d)
=============================================================================
