---------------------------- MODULE IntelConvert ----------------------------
(***************************************************************************)
(* What the import makes of an Intel PCCS database (intel_import.rs):      *)
(* read_snapshot, convert, convert_platforms, convert_collateral and       *)
(* convert_queue_and_policies, as operators on a snapshot.                 *)
(*                                                                         *)
(* A snapshot `s' is a record with one field per table, a set of rows.     *)
(* The code goes through the rows one by one and gives up at the first it  *)
(* cannot take, so the outcome does not depend on their order.             *)
(*                                                                         *)
(* Text columns are [name, form]: `name' is the canonical spelling, `form' *)
(* tells apart the spellings of a name and says whether the text has the   *)
(* shape its column asks for.  Intel's tables are keyed by the text as it  *)
(* is spelled, this store by the name.                                     *)
(***************************************************************************)
EXTENDS Records

Tables == {"pcs_version", "platforms", "pck_cert", "platform_tcbs", "pcs_certificates",
           "pck_certchain", "fmspc_tcbs", "enclave_identities", "pck_crl", "crl_cache",
           "platforms_registered", "appraisal_policies"}

-----------------------------------------------------------------------------
(* Columns *)

\* row.text, hex_field, qeid: the shape of a text, and its canonical form.
Upper(text) == text.name
WellFormed(text) == text.form # "bad"
Blank(text) == text.name = ""

\* ca: only the two CAs there are.
CaOk(text) == Upper(text) \in {"PLATFORM", "PROCESSOR"}

\* platform_key
PlatformKeyOk(row) == WellFormed(row.qe) /\ ~Blank(row.qe) /\ WellFormed(row.pce)
PlatformKey(row) == <<Upper(row.qe), Upper(row.pce)>>

\* credentials: no PPID, or one of 384 bytes (`ppid' stands for PPID and manifest).
CredentialsOk(row) == row.ppid # "short"

\* version, update
VersionOk(row) == row.version \in {3, 4}
UpdateOk(row) == row.update \in {"STANDARD", "EARLY"}

\* signed_document: JSON with a signature that is not empty.
SignedDocument(doc) == doc.signed

\* der_crl: parses to the last byte.
DerCrl(bytes) == bytes # "" /\ bytes # "garbage"

\* BTreeMap::insert(..).is_some(), Snapshot::add: a second row for a key is refused.
NoDuplicates(rows, Key(_)) == \A r, q \in rows : r # q => Key(r) # Key(q)

-----------------------------------------------------------------------------
(***************************************************************************)
(* read_snapshot: all tables are there, with the columns they should have  *)
(* and no others, no unknown table holds rows, and the one version row     *)
(* says 5/4.                                                               *)
(***************************************************************************)
SchemaOk(s) ==
    /\ Tables \subseteq s.schema.tables
    /\ s.schema.oddColumns = {}
    /\ s.schema.unknownRows \subseteq {"umzug"}

VersionRowOk(s) == \E v \in s.pcs_version :
    /\ s.pcs_version = {v}
    /\ v.id = 1 /\ v.db = 5 /\ v.api = 4

-----------------------------------------------------------------------------
(* convert: the certificates the chains are made of, and the TCB infos. *)

CertificatesOk(s) ==
    /\ \A c \in s.pcs_certificates : c.id \in 1 .. 4 /\ c.pem
    /\ LET Id(c) == c.id IN NoDuplicates(s.pcs_certificates, Id)

CertificateIds(s) == {c.id : c \in s.pcs_certificates}

\* chain: the root is 1 and the issuer the one its role asks for; both are joined.
ExpectedIssuer(role, ca) ==
    IF role = "signing" THEN 3 ELSE IF ca = "PROCESSOR" THEN 2 ELSE 4

ChainOk(s, row, role, ca) ==
    /\ row.root = 1
    /\ row.issuer = ExpectedIssuer(role, ca)
    /\ {row.root, row.issuer} \subseteq CertificateIds(s)

Chain(row) == <<row.issuer, row.root>>

TcbKey(row) == tcb(prod_name(row.type), row.version, Upper(row.fmspc), row.update)

TcbInfoOk(s, row) ==
    /\ SignedDocument(row.doc)
    /\ row.type \in {0, 1}
    /\ WellFormed(row.fmspc) /\ VersionOk(row) /\ UpdateOk(row)
    /\ Upper(row.doc.fmspc) = Upper(row.fmspc)
    /\ \/ row.doc.id = IF row.type = 0 THEN "SGX" ELSE "TDX"
       \/ row.version = 3 /\ row.type = 0 /\ row.doc.id = "none"
    /\ ChainOk(s, row, "signing", "")

TcbRecords(s) ==
    [k \in {TcbKey(r) : r \in s.fmspc_tcbs} |->
        LET r == CHOOSE r \in s.fmspc_tcbs : TcbKey(r) = k
        IN  [doc |-> r.doc, chain |-> Chain(r)]]

-----------------------------------------------------------------------------
(* convert_platforms *)

ChainsOk(s) ==
    /\ \A r \in s.pck_certchain : CaOk(r.ca) /\ ChainOk(s, r, "intermediate", Upper(r.ca))
    /\ LET Ca(r) == Upper(r.ca) IN NoDuplicates(s.pck_certchain, Ca)

\* chains.get(&ca), or an empty chain.
ChainOf(s, ca) ==
    IF \E r \in s.pck_certchain : Upper(r.ca) = ca
    THEN Chain(CHOOSE r \in s.pck_certchain : Upper(r.ca) = ca)
    ELSE << >>

PlatformsOk(s) ==
    /\ \A r \in s.platforms :
           /\ PlatformKeyOk(r) /\ CredentialsOk(r)
           /\ Blank(r.fmspc) \/ WellFormed(r.fmspc)
           /\ Blank(r.ca) \/ CaOk(r.ca)
    /\ NoDuplicates(s.platforms, PlatformKey)

RowsOf(rows, key) == {r \in rows : PlatformKey(r) = key}

\* A certificate belongs to the platform of its row and to the level of its row.
PckCertOk(s, r) ==
    /\ PlatformKeyOk(r) /\ WellFormed(r.tcbm) /\ r.cert.parses
    /\ \E p \in RowsOf(s.platforms, PlatformKey(r)) :
           /\ r.cert.pce = Upper(p.pce)
           /\ r.cert.fmspc = Upper(p.fmspc)
           /\ r.cert.ca = Upper(p.ca)
           /\ ChainOf(s, Upper(p.ca)) # << >>
    /\ r.cert.level = Upper(r.tcbm)

PckCertsOk(s) ==
    /\ \A r \in s.pck_cert : PckCertOk(s, r)
    /\ \A r, q \in s.pck_cert : PlatformKey(r) = PlatformKey(q) => r.cert.ppid = q.cert.ppid
    /\ LET Level(r) == <<PlatformKey(r), Upper(r.tcbm)>> IN NoDuplicates(s.pck_cert, Level)

\* The certificate a raw level points to: pool.certs.iter().find(..).
CertsFor(s, row) ==
    {c \in RowsOf(s.pck_cert, PlatformKey(row)) : Upper(c.tcbm) = Upper(row.tcbm)}

\* Variant: a raw level that is there already is taken a second time.
RawTcbsTwice(s) ==
    \A r \in s.platform_tcbs :
        /\ PlatformKeyOk(r) /\ WellFormed(r.raw) /\ WellFormed(r.tcbm)
        /\ RowsOf(s.platforms, PlatformKey(r)) # {}
        /\ CertsFor(s, r) # {}

RawTcbsOk(s) ==
    /\ \A r \in s.platform_tcbs :
           /\ PlatformKeyOk(r) /\ WellFormed(r.raw) /\ WellFormed(r.tcbm)
           /\ RowsOf(s.platforms, PlatformKey(r)) # {}
           /\ CertsFor(s, r) # {}
    /\ LET Level(r) == <<PlatformKey(r), Upper(r.raw)>> IN NoDuplicates(s.platform_tcbs, Level)

RawKey(row) == pckcert(Upper(row.qe), Upper(row.pce), Upper(row.raw))

GetRows(s) ==
    [k \in {RawKey(r) : r \in s.platform_tcbs} |->
        LET r == CHOOSE r \in s.platform_tcbs : RawKey(r) = k
            p == CHOOSE p \in s.platforms : PlatformKey(p) = PlatformKey(r)
            c == CHOOSE c \in CertsFor(s, r) : TRUE
        IN  PckCertRecord(c.cert, Upper(r.tcbm), p.ppid)]

PoolKey(row) == platform(Upper(row.qe), Upper(row.pce))

Pools(s) ==
    [k \in {PoolKey(r) : r \in s.platforms} |->
        LET p == CHOOSE p \in s.platforms : PoolKey(p) = k
        IN  [ppid |-> p.ppid, fmspc |-> Upper(p.fmspc), ca |-> Upper(p.ca),
             chain |-> ChainOf(s, Upper(p.ca)),
             certs |-> {PlatformCert(Upper(c.tcbm), c.cert) :
                            c \in RowsOf(s.pck_cert, PlatformKey(p))},
             raws |-> {RawTcb(Upper(r.raw), Upper(r.tcbm)) :
                            r \in RowsOf(s.platform_tcbs, PlatformKey(p))}]]

-----------------------------------------------------------------------------
(* convert_collateral *)

IdentityKey(row) == identity(identity_name(row.id), row.version, row.update)

IdentitiesOk(s) ==
    /\ \A r \in s.enclave_identities :
           /\ r.id \in 1 .. 3
           /\ SignedDocument(r.doc)
           /\ r.doc.id = CASE r.id = 1 -> "QE" [] r.id = 2 -> "QVE" [] OTHER -> "TD_QE"
           /\ VersionOk(r) /\ UpdateOk(r)
           /\ ChainOk(s, r, "signing", "")
    /\ NoDuplicates(s.enclave_identities, IdentityKey)

Identities(s) ==
    [k \in {IdentityKey(r) : r \in s.enclave_identities} |->
        LET r == CHOOSE r \in s.enclave_identities : IdentityKey(r) = k
        IN  [doc |-> r.doc, chain |-> Chain(r)]]

\* Only the root certificate may carry a CRL.
RootCrlOk(s) ==
    \A c \in s.pcs_certificates : c.crl # "" => c.id = 1 /\ DerCrl(c.crl)

RootCrl(s) ==
    [k \in {rootcacrl : c \in {c \in s.pcs_certificates : c.crl # ""}} |->
        (CHOOSE c \in s.pcs_certificates : c.crl # "").crl]

PckCrlsOk(s) ==
    /\ \A r \in s.pck_crl :
           CaOk(r.ca) /\ DerCrl(r.crl) /\ ChainOk(s, r, "intermediate", Upper(r.ca))
    /\ LET Ca(r) == Upper(r.ca) IN NoDuplicates(s.pck_crl, Ca)

PckCrls(s) ==
    [k \in {pckcrl(Upper(r.ca)) : r \in s.pck_crl} |->
        LET r == CHOOSE r \in s.pck_crl : pckcrl(Upper(r.ca)) = k
        IN  [crl |-> r.crl, chain |-> Chain(r)]]

CrlCacheOk(s) ==
    /\ \A r \in s.crl_cache : WellFormed(r.uri) /\ DerCrl(r.crl)
    /\ LET Uri(r) == Upper(r.uri) IN NoDuplicates(s.crl_cache, Uri)

CrlCache(s) ==
    [k \in {crl(Upper(r.uri)) : r \in s.crl_cache} |->
        (CHOOSE r \in s.crl_cache : crl(Upper(r.uri)) = k).crl]

-----------------------------------------------------------------------------
(* convert_queue_and_policies *)

\* A PCESVN is four hex digits, or decimal in rows that are not NEW, or empty.
SvnOk(row) ==
    \/ row.svn \in {"hex", "empty"}
    \/ row.svn = "decimal" /\ row.state \in {1, 9}

QueueKey(row) == preg(Upper(row.qe), Upper(row.pce), Upper(row.raw))

QueueOk(s) ==
    /\ \A r \in s.platforms_registered :
           /\ PlatformKeyOk(r) /\ CredentialsOk(r)
           /\ r.state \in {0, 1, 9}
           /\ WellFormed(r.raw) /\ SvnOk(r)
    /\ NoDuplicates(s.platforms_registered, QueueKey)

Queue(s) ==
    [k \in {QueueKey(r) : r \in s.platforms_registered} |->
        LET r == CHOOSE r \in s.platforms_registered : QueueKey(r) = k
        IN  [ppid |-> r.ppid, state |-> r.state]]

\* The id of a policy is the hash of its text, in whatever case it is spelled.
PoliciesOk(s) ==
    /\ \A r \in s.appraisal_policies :
           /\ r.policy # ""
           /\ WellFormed(r.id) /\ Upper(r.id) = r.policy
           /\ r.type \in 0 .. 2
           /\ r.isDefault \in {0, 1}
           /\ WellFormed(r.fmspc)
    /\ LET Id(r) == <<Upper(r.fmspc), Upper(r.id)>> IN NoDuplicates(s.appraisal_policies, Id)

Policies(s) ==
    [k \in {appraisal(Upper(r.fmspc)) : r \in s.appraisal_policies} |->
        {AppraisalPolicy(r.policy, r.type, r.isDefault = 1) :
            r \in {q \in s.appraisal_policies : appraisal(Upper(q.fmspc)) = k}}]

-----------------------------------------------------------------------------
(* convert: the whole of it. *)

Convertible(s) ==
    /\ CertificatesOk(s)
    /\ \A r \in s.fmspc_tcbs : TcbInfoOk(s, r)
    /\ NoDuplicates(s.fmspc_tcbs, TcbKey)
    /\ ChainsOk(s) /\ PlatformsOk(s) /\ PckCertsOk(s) /\ RawTcbsOk(s)
    /\ IdentitiesOk(s) /\ RootCrlOk(s) /\ PckCrlsOk(s) /\ CrlCacheOk(s)
    /\ QueueOk(s) /\ PoliciesOk(s)

\* snapshot.entries once convert has returned.
Entries(s) ==
    PutAll(TcbRecords(s), PutAll(GetRows(s), PutAll(Pools(s), PutAll(Identities(s),
    PutAll(RootCrl(s), PutAll(PckCrls(s), PutAll(CrlCache(s),
    PutAll(Queue(s), Policies(s)))))))))
=============================================================================
