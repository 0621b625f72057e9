---------------------------- MODULE Provisioning ----------------------------
(***************************************************************************)
(* How a database comes to be: it is imported (IntelImport) or new, the    *)
(* server opens it and loads the seed over it, serves, is killed and is    *)
(* started again (SeedStore).  The operator starts the server once the     *)
(* imports have ended; RocksDB's lock keeps everybody else out then.       *)
(***************************************************************************)
EXTENDS IntelImport, SeedStore

VARIABLE opened   \* the server has opened the database

vars == <<ivars, svars, opened>>

Init == ImportInit /\ SeedInit /\ opened = FALSE

Importing == ~opened /\ ImportNext /\ UNCHANGED <<svars, opened>>

Open(records) ==
    /\ ~opened /\ opened' = TRUE
    /\ db' = records
    /\ UNCHANGED <<ivars, server, todo, rowDue, starts, chosen, skipped, putting>>

\* What the server does depends on the records alone, so it is started in one of the
\* states of the imports that lead to them: the others never ran.
Alone(others) == source.past = {} /\ \A j \in others : pc[j] = "start"

\* Store::open on what an import has published.
OpenImported(i) ==
    /\ pc[i] = "ok" /\ Alone(Importers \ {i})
    /\ Open(Entries(Content[read[i]]))

\* With create_if_missing, where nothing was imported (sidecars: no import can be).
OpenNew == ~DestinationTaken /\ source.sidecars /\ Alone(Importers) /\ Open(EmptyDb)

Serving == opened /\ SeedNext /\ UNCHANGED <<ivars, opened>>

Next ==
    \/ Importing
    \/ OpenNew \/ \E i \in Importers : OpenImported(i)
    \/ Serving

Spec == Init /\ [][Next]_vars

-----------------------------------------------------------------------------
\* What the rows and the pools of a database say of each other.
RowsMatchPools(records) ==
    /\ \A k \in KeysOf(records, "pckcert") :
           LET pool == records[platform(k[2], k[3])]
           IN  /\ RawTcb(k[4], records[k].tcbm) \in pool.raws
               /\ PlatformCert(records[k].tcbm, records[k].cert) \in pool.certs
               /\ records[k].ppid = pool.ppid
    /\ \A k \in KeysOf(records, "platform") : \A r \in records[k].raws :
           Has(records, pckcert(k[2], k[3], r.raw))

\* How many records, certificates, levels and policies stand for the rows of a snapshot.
NothingMerged(s, records) ==
    LET pools == KeysOf(records, "platform")
        lists == KeysOf(records, "appraisal")
        Members == UNION {{<<k, c>> : c \in records[k].certs} : k \in pools}
        Policied == UNION {{<<k, p>> : p \in records[k]} : k \in lists}
    IN  /\ Cardinality(pools) = Cardinality(s.platforms)
        /\ Cardinality(KeysOf(records, "pckcert")) = Cardinality(s.platform_tcbs)
        /\ Cardinality(KeysOf(records, "tcb")) = Cardinality(s.fmspc_tcbs)
        /\ Cardinality(KeysOf(records, "identity")) = Cardinality(s.enclave_identities)
        /\ Cardinality(KeysOf(records, "pckcrl")) = Cardinality(s.pck_crl)
        /\ Cardinality(KeysOf(records, "crl")) = Cardinality(s.crl_cache)
        /\ Cardinality(KeysOf(records, "preg")) = Cardinality(s.platforms_registered)
        /\ Cardinality(Members) = Cardinality(s.pck_cert)
        /\ Cardinality(Policied) = Cardinality(s.appraisal_policies)

(***************************************************************************)
(* What is published is the source whose hash the report gives, row by     *)
(* row: no two rows of the source, spelled differently, have become one    *)
(* record, and the rows and pools it writes agree as the server would have *)
(* left them (import_intel, convert).                                      *)
(***************************************************************************)
ImportedFaithfully ==
    \A i \in Importers : dir[i].name = "dest" =>
        /\ read[i] = hashed[i]
        /\ LET s == Content[read[i]]
           IN  RowsMatchPools(Entries(s)) /\ NothingMerged(s, Entries(s))
=============================================================================
