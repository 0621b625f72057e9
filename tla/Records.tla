------------------------------ MODULE Records ------------------------------
(***************************************************************************)
(* The database as the rest of the store sees it: one JSON record per key  *)
(* (store.rs), and the keys themselves (keys.rs).                          *)
(*                                                                         *)
(* A key is the prefix of its kind with the canonical fields it is hashed  *)
(* from; hash128 is taken to be injective, as the code does.  The names    *)
(* that go into a key compare without regard to case, so they are given    *)
(* here by their canonical spelling.  A raw TCB level, (cpu_svn, pce_svn), *)
(* is one value.                                                           *)
(***************************************************************************)
EXTENDS Integers, FiniteSets

-----------------------------------------------------------------------------
(* keys.rs *)

pckcert(qeid, pceid, raw) == <<"pckcert", qeid, pceid, raw>>
platform(qeid, pceid) == <<"platform", qeid, pceid>>
preg(qeid, pceid, raw) == <<"preg", qeid, pceid, raw>>
tcb(prod, version, fmspc, update) == <<"tcb", prod, version, fmspc, update>>
identity(name, version, update) == <<"identity", name, version, update>>
pckcrl(ca) == <<"pckcrl", ca>>
rootcacrl == <<"rootcacrl">>
crl(uri) == <<"crl", uri>>
appraisal(fmspc) == <<"appraisal", fmspc>>

prod_name(prodType) == IF prodType = 1 THEN "tdx" ELSE "sgx"
identity_name(enclaveId) ==
    CASE enclaveId = 2 -> "qve" [] enclaveId = 3 -> "tdqe" [] OTHER -> "qe"

-----------------------------------------------------------------------------
(* The records of the platforms and of the policies (store.rs). *)

PckCertRecord(cert, tcbm, ppid) == [cert |-> cert, tcbm |-> tcbm, ppid |-> ppid]

\* Nothing known of a platform yet: Default for PlatformPool.
EmptyPool == [ppid |-> "", fmspc |-> "", ca |-> "", chain |-> <<>>, certs |-> {}, raws |-> {}]

PlatformCert(tcbm, cert) == [tcbm |-> tcbm, cert |-> cert]
RawTcb(raw, tcbm) == [raw |-> raw, tcbm |-> tcbm]

\* A policy; its id is the SHA-384 of its text, so the text stands for both.
AppraisalPolicy(policy, type, isDefault) ==
    [policy |-> policy, type |-> type, isDefault |-> isDefault]

-----------------------------------------------------------------------------
(* get_json, put_json: a database is a function from keys to records. *)

EmptyDb == [k \in {} |-> 0]

Has(db, k) == k \in DOMAIN db

Get(db, k, default) == IF Has(db, k) THEN db[k] ELSE default

Put(db, k, record) == [x \in DOMAIN db \cup {k} |-> IF x = k THEN record ELSE db[x]]

\* The database with every record of `batch' written into it.
PutAll(db, batch) ==
    [x \in DOMAIN db \cup DOMAIN batch |-> IF x \in DOMAIN batch THEN batch[x] ELSE db[x]]

\* The keys of one kind (scan_prefix).
KeysOf(db, prefix) == {k \in DOMAIN db : k[1] = prefix}
=============================================================================
