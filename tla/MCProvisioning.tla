--------------------------- MODULE MCProvisioning ---------------------------
(***************************************************************************)
(* An instance of Provisioning.  The sources are a snapshot the import     *)
(* takes (`base'), the same with one table changed the ways the code looks *)
(* at, and three more it takes: `ppids', `defaults' and `v3'.              *)
(***************************************************************************)
EXTENDS Provisioning, TLC

CONSTANTS base, ppids, defaults, v3, schema, columns, unknown, version, pem, ids, tcbdoc,
          tcbtwice, chain, chaintwice, platform2, qe, ppid, orphan, certlevel, mixed,
          certtwice, rawless, rawtwice, qetwice, iddoc, nonroot, rootcrl, crltwice,
          uri, uritwice, svn, queuetwice, hash, policytwice, seeded

\* Imports are interchangeable, and so are requests.
Symmetry == Permutations(Importers) \cup Permutations(Tasks)

Name(n) == [name |-> n, form |-> "upper"]
Lower(n) == [name |-> n, form |-> "lower"]
Bad(n) == [name |-> n, form |-> "bad"]

Pem(id, crlOf) == [id |-> id, pem |-> TRUE, crl |-> crlOf]
Sgx(f) == [signed |-> TRUE, fmspc |-> f, id |-> "SGX"]
Tcb == [fmspc |-> Name("F1"), type |-> 0, version |-> 4, update |-> "STANDARD",
        doc |-> Sgx(Name("F1")), root |-> 1, issuer |-> 3]
Cert(level, owner) == [parses |-> TRUE, pce |-> "P1", fmspc |-> "F1", ca |-> "PLATFORM",
                       level |-> level, ppid |-> owner]
Pck(q, t) == [qe |-> q, pce |-> Name("P1"), tcbm |-> Name(t), cert |-> Cert(t, "x")]
Plat(q) == [qe |-> q, pce |-> Name("P1"), ppid |-> "x", fmspc |-> Lower("F1"),
            ca |-> Name("PLATFORM")]
Raw(r, t) == [qe |-> Name("Q1"), pce |-> Name("P1"), raw |-> r, tcbm |-> Name(t)]
ChainRow == [ca |-> Name("PLATFORM"), root |-> 1, issuer |-> 4]
Identity == [id |-> 1, version |-> 4, update |-> "STANDARD", root |-> 1, issuer |-> 3,
             doc |-> [signed |-> TRUE, id |-> "QE"]]
PckCrl == [ca |-> Name("PLATFORM"), crl |-> "der", root |-> 1, issuer |-> 4]
Crl(u) == [uri |-> u, crl |-> "der"]
Queued(r) == [qe |-> Name("Q1"), pce |-> Name("P1"), raw |-> r, svn |-> "hex",
              ppid |-> "x", state |-> 0]
Policy(i, p, d) == [id |-> i, policy |-> p, type |-> 0, isDefault |-> d, fmspc |-> Lower("F1")]

Base == [
    schema |-> [tables |-> Tables, oddColumns |-> {}, unknownRows |-> {}],
    pcs_version |-> {[id |-> 1, db |-> 5, api |-> 4]},
    pcs_certificates |-> {Pem(1, "der"), Pem(2, ""), Pem(3, ""), Pem(4, "")},
    fmspc_tcbs |-> {Tcb}, pck_certchain |-> {ChainRow},
    platforms |-> {Plat(Lower("Q1"))},
    pck_cert |-> {Pck(Name("Q1"), "T1"), Pck(Name("Q1"), "T2")},
    platform_tcbs |-> {Raw(Lower("R1"), "T1"), Raw(Name("R2"), "T1")},
    enclave_identities |-> {Identity}, pck_crl |-> {PckCrl},
    crl_cache |-> {Crl(Name("U1"))}, platforms_registered |-> {Queued(Name("R1"))},
    appraisal_policies |-> {Policy(Lower("A"), "A", 1)}]

MCContent == [c \in Sources |->
    CASE c = base -> Base
      [] c = defaults -> [Base EXCEPT !.appraisal_policies = {Policy(Lower("A"), "A", 1), Policy(Name("B"), "B", 1)}]
      [] c = ppids -> [Base EXCEPT !.platforms = {[Plat(Name("Q1")) EXCEPT !.ppid = ""]},
                                   !.platforms_registered = {[Queued(Name("1")) EXCEPT !.svn = "decimal", !.state = 9]}]
      [] c = v3 -> [Base EXCEPT !.fmspc_tcbs = {[Tcb EXCEPT !.version = 3, !.doc.id = "none"]}]
      [] c = schema -> [Base EXCEPT !.schema.tables = Tables \ {"crl_cache"}]
      [] c = columns -> [Base EXCEPT !.schema.oddColumns = {"platforms"}]
      [] c = unknown -> [Base EXCEPT !.schema.unknownRows = {"umzug", "tdx_modules"}]
      [] c = version -> [Base EXCEPT !.pcs_version = {[id |-> 1, db |-> 4, api |-> 4]}]
      [] c = pem -> [Base EXCEPT !.pcs_certificates = @ \cup {[Pem(2, "") EXCEPT !.pem = FALSE]}]
      [] c = ids -> [Base EXCEPT !.pcs_certificates = @ \cup {Pem(2, "der")}]
      [] c = tcbdoc -> [Base EXCEPT !.fmspc_tcbs = {[Tcb EXCEPT !.type = 1]}]
      [] c = tcbtwice -> [Base EXCEPT !.fmspc_tcbs = {Tcb, [Tcb EXCEPT !.fmspc = Lower("F1")]}]
      [] c = chain -> [Base EXCEPT !.pck_certchain = {[ChainRow EXCEPT !.issuer = 2]}]
      [] c = chaintwice -> [Base EXCEPT !.pck_certchain = {ChainRow, [ChainRow EXCEPT !.ca = Lower("PLATFORM")]}]
      [] c = platform2 -> [Base EXCEPT !.platforms = @ \cup {Plat(Name("Q1"))}]
      [] c = qe -> [Base EXCEPT !.platforms = @ \cup {Plat(Bad("Q2"))}]
      [] c = ppid -> [Base EXCEPT !.platforms = {[Plat(Name("Q1")) EXCEPT !.ppid = "short"]}]
      [] c = orphan -> [Base EXCEPT !.pck_cert = @ \cup {Pck(Name("Q2"), "T1")}]
      [] c = certlevel -> [Base EXCEPT !.pck_cert = @ \cup {[Pck(Name("Q1"), "T3") EXCEPT !.cert.level = "T1"]}]
      [] c = mixed -> [Base EXCEPT !.pck_cert = @ \cup {[Pck(Name("Q1"), "T3") EXCEPT !.cert.ppid = "y"]}]
      [] c = certtwice -> [Base EXCEPT !.pck_cert = @ \cup {[Pck(Lower("Q1"), "T1") EXCEPT !.tcbm = Lower("T1")]}]
      [] c = rawless -> [Base EXCEPT !.platform_tcbs = @ \cup {Raw(Name("R3"), "T3")}]
      [] c = rawtwice -> [Base EXCEPT !.platform_tcbs = @ \cup {Raw(Name("R1"), "T2")}]
      [] c = qetwice -> [Base EXCEPT !.platform_tcbs = @ \cup {[Raw(Name("R1"), "T2") EXCEPT !.qe = Lower("Q1")]}]
      [] c = iddoc -> [Base EXCEPT !.enclave_identities = {[Identity EXCEPT !.id = 3]}]
      [] c = nonroot -> [Base EXCEPT !.pcs_certificates = (@ \ {Pem(2, "")}) \cup {Pem(2, "der")}]
      [] c = rootcrl -> [Base EXCEPT !.pcs_certificates = (@ \ {Pem(1, "der")}) \cup {Pem(1, "garbage")}]
      [] c = crltwice -> [Base EXCEPT !.pck_crl = {PckCrl, [PckCrl EXCEPT !.ca = Lower("PLATFORM")]}]
      [] c = uri -> [Base EXCEPT !.crl_cache = @ \cup {Crl(Bad("U2"))}]
      [] c = uritwice -> [Base EXCEPT !.crl_cache = @ \cup {Crl(Lower("U1"))}]
      [] c = svn -> [Base EXCEPT !.platforms_registered = {[Queued(Name("1")) EXCEPT !.svn = "decimal"]}]
      [] c = queuetwice -> [Base EXCEPT !.platforms_registered = @ \cup {Queued(Lower("R1"))}]
      [] c = hash -> [Base EXCEPT !.appraisal_policies = {Policy(Lower("B"), "A", 1)}]
      [] c = policytwice -> [Base EXCEPT !.appraisal_policies = @ \cup {Policy(Name("A"), "A", 0)}]]

\* Q1 is in the imported sources too, with other certificates; Q2 is not.
MCSeed == [
    pckcerts |-> <<[kind |-> "pckcert", names |-> {"Q1", "P1", "R1"}, qeid |-> "Q1", pceid |-> "P1",
                    raw |-> "R1", tcbm |-> "T1", cert |-> seeded, ppid |-> "x",
                    fmspc |-> "F1", ca |-> "PLATFORM", chain |-> <<4, 1>>],
                   [kind |-> "pckcert", names |-> {"Q2", "P1", ""}]>>,
    platforms |-> <<[kind |-> "platform", names |-> {"Q1", "P1"}, qeid |-> "Q1", pceid |-> "P1",
                     ppid |-> "y", fmspc |-> "F1", raw |-> "R3"]>>,
    docs |-> <<[kind |-> "doc", names |-> {"F1"}, key |-> tcb("sgx", 4, "F1", "STANDARD"),
                record |-> [doc |-> Sgx(Name("F1")), chain |-> << >>]]>>,
    policies |-> <<[kind |-> "policy", names |-> {"F1", "S"}, fmspc |-> "F1", policy |-> "S",
                    isDefault |-> TRUE]>>]

MCBodies == [fmspc : {"F1"}, policy : {"A", "C"}, type : {1}, isDefault : {TRUE}, valid : {TRUE}]
            \cup [fmspc : {"F1"}, policy : {"C"}, type : {1}, isDefault : {FALSE}, valid : BOOLEAN]
=============================================================================
