------------------------- MODULE ProvisioningProofs -------------------------
(***************************************************************************)
(* Theorems about Provisioning, for any number of importers and any        *)
(* contents of the source: first that what Convertible has checked makes   *)
(* the entries faithful to the rows of a snapshot, then the publication,   *)
(* then what the server does with the database: the seed and the policies. *)
(***************************************************************************)
EXTENDS Provisioning, FiniteSetTheorems, TLAPS

-----------------------------------------------------------------------------
(* The entries by kind *)

LEMMA PutAllAt ==
  ASSUME NEW f, NEW g
  PROVE  /\ DOMAIN PutAll(f, g) = DOMAIN f \cup DOMAIN g
         /\ \A x \in DOMAIN g : PutAll(f, g)[x] = g[x]
         /\ \A x \in DOMAIN f \ DOMAIN g : PutAll(f, g)[x] = f[x]
BY DEF PutAll

\* The keys each part of the conversion writes, and that their prefixes tell them apart.
LEMMA Prefixes ==
  ASSUME NEW s
  PROVE  /\ DOMAIN TcbRecords(s) = {TcbKey(r) : r \in s.fmspc_tcbs}
         /\ DOMAIN GetRows(s) = {RawKey(r) : r \in s.platform_tcbs}
         /\ DOMAIN Pools(s) = {PoolKey(r) : r \in s.platforms}
         /\ DOMAIN Identities(s) = {IdentityKey(r) : r \in s.enclave_identities}
         /\ DOMAIN RootCrl(s) \subseteq {rootcacrl}
         /\ DOMAIN PckCrls(s) = {pckcrl(Upper(r.ca)) : r \in s.pck_crl}
         /\ DOMAIN CrlCache(s) = {crl(Upper(r.uri)) : r \in s.crl_cache}
         /\ DOMAIN Queue(s) = {QueueKey(r) : r \in s.platforms_registered}
         /\ DOMAIN Policies(s) = {appraisal(Upper(r.fmspc)) : r \in s.appraisal_policies}
         /\ \A k \in DOMAIN TcbRecords(s) : k[1] = "tcb"
         /\ \A k \in DOMAIN GetRows(s) : k[1] = "pckcert"
         /\ \A k \in DOMAIN Pools(s) : k[1] = "platform"
         /\ \A k \in DOMAIN Identities(s) : k[1] = "identity"
         /\ \A k \in DOMAIN RootCrl(s) : k[1] = "rootcacrl"
         /\ \A k \in DOMAIN PckCrls(s) : k[1] = "pckcrl"
         /\ \A k \in DOMAIN CrlCache(s) : k[1] = "crl"
         /\ \A k \in DOMAIN Queue(s) : k[1] = "preg"
         /\ \A k \in DOMAIN Policies(s) : k[1] = "appraisal"
<1>1. /\ DOMAIN TcbRecords(s) = {TcbKey(r) : r \in s.fmspc_tcbs}
      /\ \A k \in DOMAIN TcbRecords(s) : k[1] = "tcb"
  BY DEF TcbRecords, TcbKey, tcb
<1>2. /\ DOMAIN GetRows(s) = {RawKey(r) : r \in s.platform_tcbs}
      /\ \A k \in DOMAIN GetRows(s) : k[1] = "pckcert"
  BY DEF GetRows, RawKey, pckcert
<1>3. /\ DOMAIN Pools(s) = {PoolKey(r) : r \in s.platforms}
      /\ \A k \in DOMAIN Pools(s) : k[1] = "platform"
  BY DEF Pools, PoolKey, platform
<1>4. /\ DOMAIN Identities(s) = {IdentityKey(r) : r \in s.enclave_identities}
      /\ \A k \in DOMAIN Identities(s) : k[1] = "identity"
  BY DEF Identities, IdentityKey, identity
<1>5. /\ DOMAIN RootCrl(s) \subseteq {rootcacrl}
      /\ \A k \in DOMAIN RootCrl(s) : k[1] = "rootcacrl"
  <2>1. DOMAIN RootCrl(s) = {rootcacrl : c \in {c \in s.pcs_certificates : c.crl # ""}}
    BY DEF RootCrl
  <2>2. DOMAIN RootCrl(s) \subseteq {rootcacrl}
    BY <2>1
  <2>3. rootcacrl[1] = "rootcacrl"
    BY DEF rootcacrl
  <2> QED
    BY <2>2, <2>3
<1>6. /\ DOMAIN PckCrls(s) = {pckcrl(Upper(r.ca)) : r \in s.pck_crl}
      /\ \A k \in DOMAIN PckCrls(s) : k[1] = "pckcrl"
  BY DEF PckCrls, pckcrl
<1>7. /\ DOMAIN CrlCache(s) = {crl(Upper(r.uri)) : r \in s.crl_cache}
      /\ \A k \in DOMAIN CrlCache(s) : k[1] = "crl"
  BY DEF CrlCache, crl
<1>8. /\ DOMAIN Queue(s) = {QueueKey(r) : r \in s.platforms_registered}
      /\ \A k \in DOMAIN Queue(s) : k[1] = "preg"
  BY DEF Queue, QueueKey, preg
<1>9. /\ DOMAIN Policies(s) = {appraisal(Upper(r.fmspc)) : r \in s.appraisal_policies}
      /\ \A k \in DOMAIN Policies(s) : k[1] = "appraisal"
  BY DEF Policies, appraisal
<1> QED
  BY <1>1, <1>2, <1>3, <1>4, <1>5, <1>6, <1>7, <1>8, <1>9

\* Entries puts the parts side by side.
LEMMA EntriesByKind ==
  ASSUME NEW s
  PROVE  /\ KeysOf(Entries(s), "tcb") = DOMAIN TcbRecords(s)
         /\ KeysOf(Entries(s), "pckcert") = DOMAIN GetRows(s)
         /\ KeysOf(Entries(s), "platform") = DOMAIN Pools(s)
         /\ KeysOf(Entries(s), "identity") = DOMAIN Identities(s)
         /\ KeysOf(Entries(s), "pckcrl") = DOMAIN PckCrls(s)
         /\ KeysOf(Entries(s), "crl") = DOMAIN CrlCache(s)
         /\ KeysOf(Entries(s), "preg") = DOMAIN Queue(s)
         /\ KeysOf(Entries(s), "appraisal") = DOMAIN Policies(s)
         /\ \A k \in DOMAIN GetRows(s) : k \in DOMAIN Entries(s) /\ Entries(s)[k] = GetRows(s)[k]
         /\ \A k \in DOMAIN Pools(s) : k \in DOMAIN Entries(s) /\ Entries(s)[k] = Pools(s)[k]
         /\ \A k \in DOMAIN Policies(s) : Entries(s)[k] = Policies(s)[k]
<1> DEFINE e8 == PutAll(Queue(s), Policies(s))
           e7 == PutAll(CrlCache(s), e8)
           e6 == PutAll(PckCrls(s), e7)
           e5 == PutAll(RootCrl(s), e6)
           e4 == PutAll(Identities(s), e5)
           e3 == PutAll(Pools(s), e4)
           e2 == PutAll(GetRows(s), e3)
<1>1. Entries(s) = PutAll(TcbRecords(s), e2)
  BY DEF Entries
<1>8. /\ DOMAIN e8 = DOMAIN Queue(s) \cup DOMAIN Policies(s)
      /\ \A k \in DOMAIN Policies(s) : e8[k] = Policies(s)[k]
  BY PutAllAt, Zenon
<1>7. /\ DOMAIN e7 = DOMAIN CrlCache(s) \cup DOMAIN e8
      /\ \A k \in DOMAIN e8 : e7[k] = e8[k]
  BY PutAllAt, Zenon
<1>6. /\ DOMAIN e6 = DOMAIN PckCrls(s) \cup DOMAIN e7
      /\ \A k \in DOMAIN e7 : e6[k] = e7[k]
  BY PutAllAt, Zenon
<1>5. /\ DOMAIN e5 = DOMAIN RootCrl(s) \cup DOMAIN e6
      /\ \A k \in DOMAIN e6 : e5[k] = e6[k]
  BY PutAllAt, Zenon
<1>4. /\ DOMAIN e4 = DOMAIN Identities(s) \cup DOMAIN e5
      /\ \A k \in DOMAIN e5 : e4[k] = e5[k]
  BY PutAllAt, Zenon
<1>3. /\ DOMAIN e3 = DOMAIN Pools(s) \cup DOMAIN e4
      /\ \A k \in DOMAIN e4 : e3[k] = e4[k]
      /\ \A k \in DOMAIN Pools(s) \ DOMAIN e4 : e3[k] = Pools(s)[k]
  BY PutAllAt, Zenon
<1>2. /\ DOMAIN e2 = DOMAIN GetRows(s) \cup DOMAIN e3
      /\ \A k \in DOMAIN e3 : e2[k] = e3[k]
      /\ \A k \in DOMAIN GetRows(s) \ DOMAIN e3 : e2[k] = GetRows(s)[k]
  BY PutAllAt, Zenon
<1> HIDE DEF e2, e3, e4, e5, e6, e7, e8
<1>9. /\ DOMAIN Entries(s) = DOMAIN TcbRecords(s) \cup DOMAIN e2
      /\ \A k \in DOMAIN e2 : Entries(s)[k] = e2[k]
  <2>1. /\ DOMAIN PutAll(TcbRecords(s), e2) = DOMAIN TcbRecords(s) \cup DOMAIN e2
        /\ \A k \in DOMAIN e2 : PutAll(TcbRecords(s), e2)[k] = e2[k]
    BY PutAllAt
  <2> QED
    BY <1>1, <2>1
<1>10. DOMAIN Entries(s) = DOMAIN TcbRecords(s) \cup DOMAIN GetRows(s) \cup DOMAIN Pools(s)
          \cup DOMAIN Identities(s) \cup DOMAIN RootCrl(s) \cup DOMAIN PckCrls(s)
          \cup DOMAIN CrlCache(s) \cup DOMAIN Queue(s) \cup DOMAIN Policies(s)
  BY <1>2, <1>3, <1>4, <1>5, <1>6, <1>7, <1>8, <1>9
<1>11. \A k \in DOMAIN GetRows(s) : k \notin DOMAIN e3
  BY <1>3, <1>4, <1>5, <1>6, <1>7, <1>8, Prefixes
<1>12. \A k \in DOMAIN Pools(s) : k \notin DOMAIN e4
  BY <1>4, <1>5, <1>6, <1>7, <1>8, Prefixes
<1>13. \A k \in DOMAIN GetRows(s) : k \in DOMAIN Entries(s) /\ Entries(s)[k] = GetRows(s)[k]
  BY <1>2, <1>9, <1>11
<1>14. \A k \in DOMAIN Pools(s) : k \in DOMAIN Entries(s) /\ Entries(s)[k] = Pools(s)[k]
  BY <1>2, <1>3, <1>9, <1>12
<1>15. \A k \in DOMAIN Policies(s) : Entries(s)[k] = Policies(s)[k]
  BY <1>2, <1>3, <1>4, <1>5, <1>6, <1>7, <1>8, <1>9
<1>16. /\ KeysOf(Entries(s), "tcb") = DOMAIN TcbRecords(s)
       /\ KeysOf(Entries(s), "pckcert") = DOMAIN GetRows(s)
       /\ KeysOf(Entries(s), "platform") = DOMAIN Pools(s)
       /\ KeysOf(Entries(s), "identity") = DOMAIN Identities(s)
       /\ KeysOf(Entries(s), "pckcrl") = DOMAIN PckCrls(s)
       /\ KeysOf(Entries(s), "crl") = DOMAIN CrlCache(s)
       /\ KeysOf(Entries(s), "preg") = DOMAIN Queue(s)
       /\ KeysOf(Entries(s), "appraisal") = DOMAIN Policies(s)
  BY <1>10, Prefixes DEF KeysOf
<1> QED
  BY <1>13, <1>14, <1>15, <1>16

-----------------------------------------------------------------------------
(* Pools and rows *)

\* A key says which platform, and which raw level of it.
LEMMA Keys ==
  ASSUME NEW r, NEW q
  PROVE  /\ PoolKey(r) = PoolKey(q) <=> PlatformKey(r) = PlatformKey(q)
         /\ RawKey(r) = RawKey(q) <=> PlatformKey(r) = PlatformKey(q) /\ Upper(r.raw) = Upper(q.raw)
         /\ RawKey(r)[4] = Upper(r.raw)
         /\ platform(RawKey(r)[2], RawKey(r)[3]) = PoolKey(r)
         /\ pckcert(PoolKey(r)[2], PoolKey(r)[3], Upper(q.raw)) = RawKey(q)
                <=> PlatformKey(r) = PlatformKey(q)
BY DEF PoolKey, RawKey, PlatformKey, platform, pckcert

\* One row per platform, so the pool is made from it.
LEMMA PoolAt ==
  ASSUME NEW s, PlatformsOk(s), NEW p \in s.platforms
  PROVE  /\ Pools(s)[PoolKey(p)].ppid = p.ppid
         /\ Pools(s)[PoolKey(p)].certs = {PlatformCert(Upper(c.tcbm), c.cert) :
                                              c \in RowsOf(s.pck_cert, PlatformKey(p))}
         /\ Pools(s)[PoolKey(p)].raws = {RawTcb(Upper(r.raw), Upper(r.tcbm)) :
                                              r \in RowsOf(s.platform_tcbs, PlatformKey(p))}
<1>1. \A r, q \in s.platforms : r # q => PlatformKey(r) # PlatformKey(q)
  BY DEF PlatformsOk, NoDuplicates
<1>2. (CHOOSE q \in s.platforms : PoolKey(q) = PoolKey(p)) = p
  BY <1>1, Keys
<1>3. PoolKey(p) \in {PoolKey(r) : r \in s.platforms}
  OBVIOUS
<1> QED
  BY <1>2, <1>3 DEF Pools

\* One row per raw level, so GET's row is made from it and a certificate of its level.
LEMMA RowAt ==
  ASSUME NEW s, PlatformsOk(s), RawTcbsOk(s), NEW r \in s.platform_tcbs
  PROVE  \E p \in s.platforms : \E c \in CertsFor(s, r) :
             /\ PlatformKey(p) = PlatformKey(r)
             /\ GetRows(s)[RawKey(r)] = PckCertRecord(c.cert, Upper(r.tcbm), p.ppid)
<1>1. \A x, y \in s.platform_tcbs :
          x # y => <<PlatformKey(x), Upper(x.raw)>> # <<PlatformKey(y), Upper(y.raw)>>
  BY DEF RawTcbsOk, NoDuplicates
<1>2. (CHOOSE q \in s.platform_tcbs : RawKey(q) = RawKey(r)) = r
  BY <1>1, Keys
<1> DEFINE p0 == CHOOSE p \in s.platforms : PlatformKey(p) = PlatformKey(r)
           c0 == CHOOSE c \in CertsFor(s, r) : TRUE
<1>3. p0 \in s.platforms /\ PlatformKey(p0) = PlatformKey(r)
  BY DEF RawTcbsOk, RowsOf
<1>4. c0 \in CertsFor(s, r)
  BY DEF RawTcbsOk
<1>5. RawKey(r) \in {RawKey(q) : q \in s.platform_tcbs}
  OBVIOUS
<1>6. GetRows(s)[RawKey(r)] = PckCertRecord(c0.cert, Upper(r.tcbm), p0.ppid)
  BY <1>2, <1>5 DEF GetRows
<1> QED
  BY <1>3, <1>4, <1>6

LEMMA RowsAndPoolsAgree ==
  ASSUME NEW s, PlatformsOk(s), RawTcbsOk(s)
  PROVE  RowsMatchPools(Entries(s))
<1>a. /\ KeysOf(Entries(s), "pckcert") = {RawKey(r) : r \in s.platform_tcbs}
      /\ KeysOf(Entries(s), "platform") = {PoolKey(r) : r \in s.platforms}
  <2>1. /\ DOMAIN GetRows(s) = {RawKey(r) : r \in s.platform_tcbs}
        /\ DOMAIN Pools(s) = {PoolKey(r) : r \in s.platforms}
    BY Prefixes, Zenon
  <2>2. /\ KeysOf(Entries(s), "pckcert") = DOMAIN GetRows(s)
        /\ KeysOf(Entries(s), "platform") = DOMAIN Pools(s)
    BY EntriesByKind, Zenon
  <2> QED
    BY <2>1, <2>2, Zenon
<1>b. /\ \A r \in s.platform_tcbs :
             RawKey(r) \in DOMAIN Entries(s) /\ Entries(s)[RawKey(r)] = GetRows(s)[RawKey(r)]
      /\ \A p \in s.platforms : Entries(s)[PoolKey(p)] = Pools(s)[PoolKey(p)]
  <2>1. /\ \A k \in KeysOf(Entries(s), "pckcert") :
               k \in DOMAIN Entries(s) /\ Entries(s)[k] = GetRows(s)[k]
        /\ \A k \in KeysOf(Entries(s), "platform") : Entries(s)[k] = Pools(s)[k]
    BY EntriesByKind, Zenon
  <2> QED
    BY <1>a, <2>1, Zenon
<1>1. ASSUME NEW k \in KeysOf(Entries(s), "pckcert")
      PROVE  LET pool == Entries(s)[platform(k[2], k[3])]
             IN  /\ RawTcb(k[4], Entries(s)[k].tcbm) \in pool.raws
                 /\ PlatformCert(Entries(s)[k].tcbm, Entries(s)[k].cert) \in pool.certs
                 /\ Entries(s)[k].ppid = pool.ppid
  <2>1. PICK r \in s.platform_tcbs : k = RawKey(r)
    BY <1>a
  <2>2. PICK p \in s.platforms : \E c \in CertsFor(s, r) :
            /\ PlatformKey(p) = PlatformKey(r)
            /\ GetRows(s)[k] = PckCertRecord(c.cert, Upper(r.tcbm), p.ppid)
    BY <2>1, RowAt
  <2>3. PICK c \in CertsFor(s, r) :
            /\ PlatformKey(p) = PlatformKey(r)
            /\ GetRows(s)[k] = PckCertRecord(c.cert, Upper(r.tcbm), p.ppid)
    BY <2>2
  <2>4. platform(k[2], k[3]) = PoolKey(p) /\ k[4] = Upper(r.raw)
    BY <2>1, <2>3, Keys
  <2>5. Entries(s)[PoolKey(p)] = Pools(s)[PoolKey(p)]
    BY <1>b
  <2>6. Entries(s)[k] = GetRows(s)[k]
    BY <1>b, <2>1
  <2>7. /\ r \in RowsOf(s.platform_tcbs, PlatformKey(p))
        /\ c \in RowsOf(s.pck_cert, PlatformKey(p)) /\ Upper(c.tcbm) = Upper(r.tcbm)
    BY <2>3 DEF RowsOf, CertsFor
  <2>8. /\ Entries(s)[k].tcbm = Upper(r.tcbm) /\ Entries(s)[k].cert = c.cert
        /\ Entries(s)[k].ppid = p.ppid
    BY <2>3, <2>6 DEF PckCertRecord
  <2>9. /\ RawTcb(k[4], Entries(s)[k].tcbm) \in Pools(s)[PoolKey(p)].raws
        /\ PlatformCert(Entries(s)[k].tcbm, Entries(s)[k].cert) \in Pools(s)[PoolKey(p)].certs
        /\ Entries(s)[k].ppid = Pools(s)[PoolKey(p)].ppid
    BY <2>4, <2>7, <2>8, PoolAt
  <2> QED
    BY <2>4, <2>5, <2>9
<1>2. ASSUME NEW k \in KeysOf(Entries(s), "platform"), NEW x \in Entries(s)[k].raws
      PROVE  Has(Entries(s), pckcert(k[2], k[3], x.raw))
  <2>1. PICK p \in s.platforms : k = PoolKey(p)
    BY <1>a
  <2>2. x \in Pools(s)[PoolKey(p)].raws
    BY <1>b, <2>1
  <2>3. PICK q \in RowsOf(s.platform_tcbs, PlatformKey(p)) :
            x = RawTcb(Upper(q.raw), Upper(q.tcbm))
    BY <2>2, PoolAt
  <2>4. q \in s.platform_tcbs /\ PlatformKey(q) = PlatformKey(p) /\ x.raw = Upper(q.raw)
    BY <2>3 DEF RowsOf, RawTcb
  <2>5. pckcert(k[2], k[3], x.raw) = RawKey(q)
    BY <2>1, <2>4, Keys
  <2> QED
    BY <1>b, <2>4, <2>5 DEF Has
<1> QED
  BY <1>1, <1>2 DEF RowsMatchPools

-----------------------------------------------------------------------------
(* No two rows become one record *)

LEMMA Renaming ==
  ASSUME NEW S, IsFiniteSet(S), NEW T, NEW f \in [S -> T],
         \A x, y \in S : f[x] = f[y] => x = y,
         \A t \in T : \E x \in S : f[x] = t
  PROVE  Cardinality(T) = Cardinality(S)
<1>1. f \in Bijection(S, T)
  BY DEF Bijection, Injection, Surjection, IsInjective
<1> QED
  BY <1>1, FS_Bijection DEF ExistsBijection

LEMMA NothingIsMerged ==
  ASSUME NEW s, \A t \in Tables : IsFiniteSet(s[t]), Convertible(s)
  PROVE  NothingMerged(s, Entries(s))
<1>0. \A p \in s.platforms : Entries(s)[PoolKey(p)] = Pools(s)[PoolKey(p)]
  <2>1. \A k \in DOMAIN Pools(s) : Entries(s)[k] = Pools(s)[k]
    BY EntriesByKind, Zenon
  <2>2. DOMAIN Pools(s) = {PoolKey(r) : r \in s.platforms}
    BY Prefixes, Zenon
  <2> QED
    BY <2>1, <2>2
<1>1. Cardinality(KeysOf(Entries(s), "platform")) = Cardinality(s.platforms)
  <2> DEFINE f == [r \in s.platforms |-> PoolKey(r)]
             T == {PoolKey(r) : r \in s.platforms}
  <2>1. KeysOf(Entries(s), "platform") = T
    BY EntriesByKind, Prefixes, Zenon
  <2>2. IsFiniteSet(s.platforms)
    BY DEF Tables
  <2>3. \A r, q \in s.platforms : f[r] = f[q] => r = q
    BY Keys DEF Convertible, PlatformsOk, NoDuplicates
  <2>4. f \in [s.platforms -> T] /\ \A t \in T : \E r \in s.platforms : f[r] = t
    OBVIOUS
  <2> HIDE DEF f, T
  <2> QED
    BY <2>1, <2>2, <2>3, <2>4, Renaming
<1>2. Cardinality(KeysOf(Entries(s), "pckcert")) = Cardinality(s.platform_tcbs)
  <2> DEFINE f == [r \in s.platform_tcbs |-> RawKey(r)]
             T == {RawKey(r) : r \in s.platform_tcbs}
  <2>1. KeysOf(Entries(s), "pckcert") = T
    BY EntriesByKind, Prefixes, Zenon
  <2>2. IsFiniteSet(s.platform_tcbs)
    BY DEF Tables
  <2>3. \A r, q \in s.platform_tcbs : f[r] = f[q] => r = q
    BY Keys DEF Convertible, RawTcbsOk, NoDuplicates
  <2>4. f \in [s.platform_tcbs -> T] /\ \A t \in T : \E r \in s.platform_tcbs : f[r] = t
    OBVIOUS
  <2> HIDE DEF f, T
  <2> QED
    BY <2>1, <2>2, <2>3, <2>4, Renaming
<1>3. Cardinality(KeysOf(Entries(s), "tcb")) = Cardinality(s.fmspc_tcbs)
  <2> DEFINE f == [r \in s.fmspc_tcbs |-> TcbKey(r)]
             T == {TcbKey(r) : r \in s.fmspc_tcbs}
  <2>1. KeysOf(Entries(s), "tcb") = T
    BY EntriesByKind, Prefixes, Zenon
  <2>2. IsFiniteSet(s.fmspc_tcbs)
    BY DEF Tables
  <2>3. \A r, q \in s.fmspc_tcbs : f[r] = f[q] => r = q
    BY DEF Convertible, NoDuplicates
  <2>4. f \in [s.fmspc_tcbs -> T] /\ \A t \in T : \E r \in s.fmspc_tcbs : f[r] = t
    OBVIOUS
  <2> HIDE DEF f, T
  <2> QED
    BY <2>1, <2>2, <2>3, <2>4, Renaming
<1>4. Cardinality(KeysOf(Entries(s), "identity")) = Cardinality(s.enclave_identities)
  <2> DEFINE f == [r \in s.enclave_identities |-> IdentityKey(r)]
             T == {IdentityKey(r) : r \in s.enclave_identities}
  <2>1. KeysOf(Entries(s), "identity") = T
    BY EntriesByKind, Prefixes, Zenon
  <2>2. IsFiniteSet(s.enclave_identities)
    BY DEF Tables
  <2>3. \A r, q \in s.enclave_identities : f[r] = f[q] => r = q
    BY DEF Convertible, IdentitiesOk, NoDuplicates
  <2>4. f \in [s.enclave_identities -> T] /\ \A t \in T : \E r \in s.enclave_identities : f[r] = t
    OBVIOUS
  <2> HIDE DEF f, T
  <2> QED
    BY <2>1, <2>2, <2>3, <2>4, Renaming
<1>5. Cardinality(KeysOf(Entries(s), "pckcrl")) = Cardinality(s.pck_crl)
  <2> DEFINE f == [r \in s.pck_crl |-> pckcrl(Upper(r.ca))]
             T == {pckcrl(Upper(r.ca)) : r \in s.pck_crl}
  <2>1. KeysOf(Entries(s), "pckcrl") = T
    BY EntriesByKind, Prefixes, Zenon
  <2>2. IsFiniteSet(s.pck_crl)
    BY DEF Tables
  <2>3. \A r, q \in s.pck_crl : f[r] = f[q] => r = q
    BY DEF Convertible, PckCrlsOk, NoDuplicates, pckcrl
  <2>4. f \in [s.pck_crl -> T] /\ \A t \in T : \E r \in s.pck_crl : f[r] = t
    OBVIOUS
  <2> HIDE DEF f, T
  <2> QED
    BY <2>1, <2>2, <2>3, <2>4, Renaming
<1>6. Cardinality(KeysOf(Entries(s), "crl")) = Cardinality(s.crl_cache)
  <2> DEFINE f == [r \in s.crl_cache |-> crl(Upper(r.uri))]
             T == {crl(Upper(r.uri)) : r \in s.crl_cache}
  <2>1. KeysOf(Entries(s), "crl") = T
    BY EntriesByKind, Prefixes, Zenon
  <2>2. IsFiniteSet(s.crl_cache)
    BY DEF Tables
  <2>3. \A r, q \in s.crl_cache : f[r] = f[q] => r = q
    BY DEF Convertible, CrlCacheOk, NoDuplicates, crl
  <2>4. f \in [s.crl_cache -> T] /\ \A t \in T : \E r \in s.crl_cache : f[r] = t
    OBVIOUS
  <2> HIDE DEF f, T
  <2> QED
    BY <2>1, <2>2, <2>3, <2>4, Renaming
<1>7. Cardinality(KeysOf(Entries(s), "preg")) = Cardinality(s.platforms_registered)
  <2> DEFINE f == [r \in s.platforms_registered |-> QueueKey(r)]
             T == {QueueKey(r) : r \in s.platforms_registered}
  <2>1. KeysOf(Entries(s), "preg") = T
    BY EntriesByKind, Prefixes, Zenon
  <2>2. IsFiniteSet(s.platforms_registered)
    BY DEF Tables
  <2>3. \A r, q \in s.platforms_registered : f[r] = f[q] => r = q
    BY DEF Convertible, QueueOk, NoDuplicates
  <2>4. f \in [s.platforms_registered -> T] /\ \A t \in T : \E r \in s.platforms_registered : f[r] = t
    OBVIOUS
  <2> HIDE DEF f, T
  <2> QED
    BY <2>1, <2>2, <2>3, <2>4, Renaming
<1> DEFINE pools == KeysOf(Entries(s), "platform")
           lists == KeysOf(Entries(s), "appraisal")
           Members == UNION {{<<k, c>> : c \in Entries(s)[k].certs} : k \in pools}
           Policied == UNION {{<<k, p>> : p \in Entries(s)[k]} : k \in lists}
<1>8. Cardinality(Members) = Cardinality(s.pck_cert)
  <2> DEFINE f == [r \in s.pck_cert |-> <<PoolKey(r), PlatformCert(Upper(r.tcbm), r.cert)>>]
  <2>1. pools = {PoolKey(p) : p \in s.platforms}
    BY EntriesByKind, Prefixes, Zenon
  <2>2. IsFiniteSet(s.pck_cert)
    BY DEF Tables
  <2>3. \A r, q \in s.pck_cert : f[r] = f[q] => r = q
    <3>1. \A r, q \in s.pck_cert :
              r # q => <<PlatformKey(r), Upper(r.tcbm)>> # <<PlatformKey(q), Upper(q.tcbm)>>
      BY DEF Convertible, PckCertsOk, NoDuplicates
    <3>2. SUFFICES ASSUME NEW r \in s.pck_cert, NEW q \in s.pck_cert, f[r] = f[q]
                   PROVE  r = q
      OBVIOUS
    <3>3. PoolKey(r) = PoolKey(q) /\ Upper(r.tcbm) = Upper(q.tcbm)
      BY <3>2 DEF PlatformCert
    <3>4. PlatformKey(r) = PlatformKey(q)
      BY <3>3, Keys
    <3> QED
      BY <3>1, <3>3, <3>4
  <2>4. \A p \in s.platforms : Entries(s)[PoolKey(p)].certs =
            {PlatformCert(Upper(c.tcbm), c.cert) : c \in RowsOf(s.pck_cert, PlatformKey(p))}
    BY <1>0, PoolAt DEF Convertible
  <2>5. ASSUME NEW r \in s.pck_cert PROVE f[r] \in Members
    <3>1. PICK p \in s.platforms : PlatformKey(p) = PlatformKey(r)
      BY DEF Convertible, PckCertsOk, PckCertOk, RowsOf
    <3>2. PoolKey(r) = PoolKey(p) /\ r \in RowsOf(s.pck_cert, PlatformKey(p))
      BY <3>1, Keys DEF RowsOf
    <3>3. PlatformCert(Upper(r.tcbm), r.cert) \in Entries(s)[PoolKey(r)].certs
      BY <2>4, <3>2
    <3>4. PoolKey(r) \in pools
      BY <2>1, <3>2
    <3> QED
      BY <3>3, <3>4
  <2>6. ASSUME NEW m \in Members PROVE \E r \in s.pck_cert : f[r] = m
    <3>1. PICK k \in pools : \E c \in Entries(s)[k].certs : m = <<k, c>>
      OBVIOUS
    <3>2. PICK p \in s.platforms : k = PoolKey(p)
      BY <2>1
    <3>3. PICK r \in RowsOf(s.pck_cert, PlatformKey(p)) :
              m = <<k, PlatformCert(Upper(r.tcbm), r.cert)>>
      BY <2>4, <3>1, <3>2
    <3>4. r \in s.pck_cert /\ PoolKey(r) = k
      BY <3>2, Keys DEF RowsOf
    <3> QED
      BY <3>3, <3>4
  <2>7. f \in [s.pck_cert -> Members]
    BY <2>5
  <2> HIDE DEF f, Members
  <2> QED
    BY <2>2, <2>3, <2>6, <2>7, Renaming
<1>9. Cardinality(Policied) = Cardinality(s.appraisal_policies)
  <2> DEFINE f == [r \in s.appraisal_policies |->
                      <<appraisal(Upper(r.fmspc)),
                        AppraisalPolicy(r.policy, r.type, r.isDefault = 1)>>]
  <2>1. lists = {appraisal(Upper(r.fmspc)) : r \in s.appraisal_policies}
    BY EntriesByKind, Prefixes, Zenon
  <2>2. IsFiniteSet(s.appraisal_policies)
    BY DEF Tables
  <2>3. ASSUME NEW r \in s.appraisal_policies, NEW q \in s.appraisal_policies, f[r] = f[q]
        PROVE  r = q
    <3>1. Upper(r.fmspc) = Upper(q.fmspc) /\ r.policy = q.policy
      BY <2>3 DEF appraisal, AppraisalPolicy
    <3>2. Upper(r.id) = r.policy /\ Upper(q.id) = q.policy
      BY DEF Convertible, PoliciesOk
    <3>3. r # q => <<Upper(r.fmspc), Upper(r.id)>> # <<Upper(q.fmspc), Upper(q.id)>>
      BY DEF Convertible, PoliciesOk, NoDuplicates
    <3> QED
      BY <3>1, <3>2, <3>3
  <2>4. \A k \in lists : Entries(s)[k] =
            {AppraisalPolicy(r.policy, r.type, r.isDefault = 1) :
                r \in {q \in s.appraisal_policies : appraisal(Upper(q.fmspc)) = k}}
    <3>1. \A k \in lists : Entries(s)[k] = Policies(s)[k]
      BY EntriesByKind, Zenon
    <3> QED
      BY <2>1, <3>1 DEF Policies
  <2>5. ASSUME NEW r \in s.appraisal_policies PROVE f[r] \in Policied
    <3>1. appraisal(Upper(r.fmspc)) \in lists
      BY <2>1
    <3>2. AppraisalPolicy(r.policy, r.type, r.isDefault = 1)
              \in Entries(s)[appraisal(Upper(r.fmspc))]
      BY <2>4, <3>1
    <3> QED
      BY <3>1, <3>2
  <2>6. ASSUME NEW m \in Policied PROVE \E r \in s.appraisal_policies : f[r] = m
    <3>1. PICK k \in lists : \E p \in Entries(s)[k] : m = <<k, p>>
      OBVIOUS
    <3>2. PICK r \in s.appraisal_policies :
              /\ appraisal(Upper(r.fmspc)) = k
              /\ m = <<k, AppraisalPolicy(r.policy, r.type, r.isDefault = 1)>>
      BY <2>4, <3>1
    <3> QED
      BY <3>2
  <2>7. f \in [s.appraisal_policies -> Policied]
    BY <2>5
  <2> HIDE DEF f, Policied
  <2> QED
    BY <2>2, <2>3, <2>6, <2>7, Renaming
<1> QED
  BY <1>1, <1>2, <1>3, <1>4, <1>5, <1>6, <1>7, <1>8, <1>9 DEF NothingMerged

-----------------------------------------------------------------------------
(* The inductive invariant of the imports *)

Past(i, stages) == pc[i] \in stages

\* How far the directory of an importer is, given the step it takes next.
StageOK(i) ==
    /\ Past(i, Before \cup {"refused"}) => dir[i] = Absent /\ disk[i] = Absent
    /\ Past(i, Staging) => dir[i].name = "staging"
    /\ Past(i, Staging \ {"write"}) => dir[i].db = "full" /\ disk[i].db = "full"
    /\ Past(i, {"sync_report", "sync_staging", "rename"}) => dir[i].report = "full"
    /\ Past(i, {"sync_staging", "rename"}) => dir[i].flushed
    /\ Past(i, {"rename"}) => disk[i].report = "full" /\ disk[i].flushed
    /\ Past(i, {"sync_parent", "ok"}) => dir[i].name = "dest"

\* What is published is whole, in the page cache and on disk; only its name may be
\* missing there.
DestOK(i) ==
    /\ dir[i].name = "dest" =>
           /\ Whole(dir[i]) /\ Whole(disk[i]) /\ disk[i].flushed = dir[i].flushed
           /\ Past(i, {"sync_parent", "cleanup", "ok", "failed", "killed"})
    /\ disk[i].name = "dest" => dir[i] = disk[i]
    /\ pc[i] = "ok" => disk[i].name = "dest"

\* A snapshot that read_snapshot and convert take.
Accepted(c) == c \in Sources /\ SchemaOk(Content[c]) /\ VersionRowOk(Content[c]) /\ Convertible(Content[c])

\* What was read is what was hashed if the file still is what it was.
ReadOK(i) ==
    /\ Past(i, {"read", "convert", "rehash"}) =>
           hashed[i] \in source.past \cup {source.content}
    /\ Past(i, {"convert", "rehash"}) =>
           /\ read[i] \in Sources
           /\ SchemaOk(Content[read[i]]) /\ VersionRowOk(Content[read[i]])
           /\ hashed[i] = source.content => read[i] = hashed[i]
    /\ Past(i, {"rehash"}) => Convertible(Content[read[i]])
    /\ Past(i, {"stage", "sync_parent", "ok"} \cup Staging) \/ dir[i].name = "dest" =>
           read[i] = hashed[i] /\ Accepted(read[i])

ImporterOK(i) == StageOK(i) /\ DestOK(i) /\ ReadOK(i)

ImportInv == ImportTypeOK /\ \A i \in Importers : ImporterOK(i)

IVars(i) == <<pc[i], hashed[i], read[i], dir[i], disk[i]>>

\* What an importer is sure of depends on its own state and on the source.
LEMMA Frame ==
  ASSUME NEW i \in Importers, ImporterOK(i), UNCHANGED source, UNCHANGED IVars(i)
  PROVE  ImporterOK(i)'
BY DEF ImporterOK, StageOK, DestOK, ReadOK, Past, IVars

\* One importer's step that leaves the others and the source alone.
LEMMA StepInv ==
  ASSUME ImportInv, ImportTypeOK', NEW i \in Importers, UNCHANGED source,
         \A j \in Importers \ {i} : UNCHANGED IVars(j),
         ImporterOK(i)'
  PROVE  ImportInv'
<1>1. \A j \in Importers : ImporterOK(j)'
  BY Frame DEF ImportInv
<1> QED
  BY <1>1 DEF ImportInv

LEMMA InitInv ==
  ASSUME ImportInit
  PROVE  ImportInv
<1>1. ImportTypeOK
  BY DEF ImportInit, ImportTypeOK, Directory, Parts, Absent, Steps, Before
<1>2. \A i \in Importers : ImporterOK(i)
  BY DEF ImportInit, ImporterOK, StageOK, DestOK, ReadOK, Past, Before, Staging, Absent
<1> QED
  BY <1>1, <1>2 DEF ImportInv

\* A refusal before the staging directory was made.
LEMMA RefuseInv ==
  ASSUME ImportInv, NEW i \in Importers, pc[i] \in Before, Refuse(i)
  PROVE  ImportInv'
<1>1. ImportTypeOK'
  BY DEF ImportInv, ImportTypeOK, Refuse, Forget, Goto, Ends
<1>2. dir[i] = Absent /\ disk[i] = Absent
  BY DEF ImportInv, ImporterOK, StageOK, Past
<1>3. ImporterOK(i)'
  BY <1>2 DEF ImportInv, ImportTypeOK, Refuse, Forget, Goto, ImporterOK, StageOK, DestOK,
              ReadOK, Past, Before, Staging, Absent
<1>4. \A j \in Importers \ {i} : UNCHANGED IVars(j)
  BY DEF ImportInv, ImportTypeOK, Refuse, Forget, Goto, IVars
<1> QED
  BY <1>1, <1>3, <1>4, StepInv DEF Refuse

\* A step to the next point that changes nothing else.
LEMMA ContinueInv ==
  ASSUME ImportInv, NEW i \in Importers, NEW p \in Steps \cup Ends, Continue(i, p),
         ImporterOK(i)'
  PROVE  ImportInv'
<1>1. ImportTypeOK'
  BY DEF ImportInv, ImportTypeOK, Continue, Goto
<1>2. \A j \in Importers \ {i} : UNCHANGED IVars(j)
  BY DEF ImportInv, ImportTypeOK, Continue, Goto, IVars
<1> QED
  BY <1>1, <1>2, StepInv DEF Continue

\* import_intel up to the second hash.
LEMMA ReadingInv ==
  ASSUME ImportInv, NEW i \in Importers,
         \/ Begin(i) \/ HashSource(i) \/ ReadSnapshot(i) \/ Convert(i) \/ Rehash(i)
         \/ SourceUnreadable(i) \/ MakeStagingFails(i)
  PROVE  ImportInv'
<1>0. pc[i] \in Before
  BY DEF Begin, HashSource, ReadSnapshot, Convert, Rehash, SourceUnreadable,
         MakeStagingFails, Before
<1>1. CASE Refuse(i)
  BY <1>0, <1>1, RefuseInv
<1>2. dir[i] = Absent /\ disk[i] = Absent
  BY <1>0 DEF ImportInv, ImporterOK, StageOK, Past
<1>3. CASE Begin(i) /\ Continue(i, "hash")
  <2>1. ImporterOK(i)'
    BY <1>2, <1>3 DEF ImportInv, ImportTypeOK, Continue, Goto, ImporterOK, StageOK, DestOK,
                      ReadOK, Past, Before, Staging, Absent
  <2> QED
    BY <1>3, <2>1, ContinueInv DEF Steps, Before
<1>4. CASE HashSource(i)
  <2>1. ImportTypeOK'
    BY <1>4 DEF ImportInv, ImportTypeOK, HashSource, Goto, Steps, Before
  <2>2. ImporterOK(i)'
    BY <1>2, <1>4 DEF ImportInv, ImportTypeOK, HashSource, Goto, ImporterOK, StageOK, DestOK,
                      ReadOK, Past, Before, Staging, Absent
  <2>3. \A j \in Importers \ {i} : UNCHANGED IVars(j)
    BY <1>4 DEF ImportInv, ImportTypeOK, HashSource, Goto, IVars
  <2> QED
    BY <1>4, <2>1, <2>2, <2>3, StepInv DEF HashSource
<1>5. CASE ReadSnapshot(i) /\ ~Refuse(i)
  <2>1. /\ pc[i] = "read"
        /\ SchemaOk(Content[source.content]) /\ VersionRowOk(Content[source.content])
        /\ read' = [read EXCEPT ![i] = source.content]
        /\ pc' = [pc EXCEPT ![i] = "convert"]
        /\ UNCHANGED <<source, foreign, hashed, dir, disk>>
    BY <1>5 DEF ReadSnapshot, Goto
  <2>2. ImportTypeOK'
    BY <2>1 DEF ImportInv, ImportTypeOK, Steps, Before
  <2>3. ImporterOK(i)'
    BY <1>2, <2>1 DEF ImportInv, ImportTypeOK, ImporterOK, StageOK, DestOK,
                      ReadOK, Past, Before, Staging, Absent
  <2>4. \A j \in Importers \ {i} : UNCHANGED IVars(j)
    BY <2>1 DEF ImportInv, ImportTypeOK, IVars
  <2> QED
    BY <2>1, <2>2, <2>3, <2>4, StepInv
<1>6. CASE Convert(i) /\ ~Refuse(i)
  <2>1. pc[i] = "convert" /\ Convertible(Content[read[i]]) /\ Continue(i, "rehash")
    BY <1>6 DEF Convert
  <2>2. ImporterOK(i)'
    BY <1>2, <2>1 DEF ImportInv, ImportTypeOK, Continue, Goto, ImporterOK, StageOK, DestOK,
                      ReadOK, Past, Before, Staging, Absent
  <2> QED
    BY <2>1, <2>2, ContinueInv DEF Steps, Before
<1>7. CASE Rehash(i) /\ ~Refuse(i)
  <2>1. pc[i] = "rehash" /\ source.content = hashed[i] /\ Continue(i, "stage")
    BY <1>7 DEF Rehash, SourceUnchanged
  <2>2. read[i] = hashed[i] /\ Accepted(read[i])
    BY <2>1 DEF ImportInv, ImporterOK, ReadOK, Past, Accepted
  <2>3. ImporterOK(i)'
    BY <1>2, <2>1, <2>2 DEF ImportInv, ImportTypeOK, Continue, Goto, ImporterOK, StageOK,
                            DestOK, ReadOK, Past, Before, Staging, Absent
  <2> QED
    BY <2>1, <2>3, ContinueInv DEF Steps, Before
<1> QED
  BY <1>1, <1>3, <1>4, <1>5, <1>6, <1>7 DEF Begin, SourceUnreadable, MakeStagingFails

\* The name of a directory is set, its report, or both marks of a sync.
LEMMA NameType ==
  ASSUME NEW f \in [Importers -> Directory], NEW i \in Importers,
         NEW n \in {"none", "staging", "dest"}
  PROVE  [f EXCEPT ![i].name = n] \in [Importers -> Directory]
BY DEF Directory

LEMMA WrittenType ==
  ASSUME NEW d \in Directory
  PROVE  [d EXCEPT !.db = "full"] \in Directory
BY DEF Directory, Parts

LEMMA ReportType ==
  ASSUME NEW f \in [Importers -> Directory], NEW i \in Importers, NEW r \in Parts
  PROVE  [f EXCEPT ![i].report = r] \in [Importers -> Directory]
BY DEF Directory

LEMMA SyncedType ==
  ASSUME NEW f \in [Importers -> Directory], NEW i \in Importers, NEW r \in Parts,
         NEW b \in BOOLEAN
  PROVE  [f EXCEPT ![i].report = r, ![i].flushed = b] \in [Importers -> Directory]
BY DEF Directory

LEMMA LeftoverType ==
  ASSUME NEW f \in [Importers -> Directory], NEW i \in Importers
  PROVE  [f EXCEPT ![i].db = "part", ![i].report = "none"] \in [Importers -> Directory]
BY DEF Directory, Parts

\* publish_with up to the rename, and the kill of an importer.
LEMMA StagingInv ==
  ASSUME ImportInv, NEW i \in Importers,
         \/ MakeStaging(i) \/ WriteDb(i) \/ Verify(i) \/ WriteReport(i) \/ SyncReport(i)
         \/ SyncStaging(i) \/ Rename(i) \/ Fail(i) \/ CleanUp(i) \/ Kill(i)
  PROVE  ImportInv'
<1> USE DEF ImportInv, ImportTypeOK
<1>1. CASE MakeStaging(i)
  <2>1. ImportTypeOK'
    BY <1>1 DEF MakeStaging, Goto, Steps, Staging, Directory
  <2>2. ImporterOK(i)'
    BY <1>1 DEF MakeStaging, Goto, ImporterOK, StageOK, DestOK, ReadOK, Past, Before,
                Staging, Absent
  <2> QED
    BY <1>1, <2>1, <2>2, StepInv DEF MakeStaging, Goto, IVars
<1>2. CASE WriteDb(i)
  <2>1. ImportTypeOK'
    <3>1. dir' \in [Importers -> Directory]
      BY <1>2, WrittenType DEF WriteDb
    <3>2. disk' \in [Importers -> Directory]
      BY <1>2, WrittenType DEF WriteDb
    <3>3. pc' \in [Importers -> Steps \cup Ends]
      BY <1>2 DEF WriteDb, Goto, Steps, Staging, Ends
    <3> QED
      BY <1>2, <3>1, <3>2, <3>3 DEF WriteDb
  <2>2. ImporterOK(i)'
    BY <1>2 DEF WriteDb, Goto, ImporterOK, StageOK, DestOK, ReadOK, Past, Before,
                Staging, Directory
  <2> QED
    BY <1>2, <2>1, <2>2, StepInv DEF WriteDb, Goto, IVars
<1>3. CASE Verify(i)
  <2>1. ImporterOK(i)'
    BY <1>3 DEF Verify, Continue, Goto, ImporterOK, StageOK, DestOK, ReadOK, Past, Before,
                Staging
  <2> QED
    BY <1>3, <2>1, ContinueInv DEF Verify, Steps, Staging
<1>4. CASE WriteReport(i)
  <2>1. ImportTypeOK'
    BY <1>4 DEF WriteReport, Goto, Steps, Staging, Directory, Parts
  <2>2. ImporterOK(i)'
    BY <1>4 DEF WriteReport, Goto, ImporterOK, StageOK, DestOK, ReadOK, Past, Before,
                Staging, Directory
  <2> QED
    BY <1>4, <2>1, <2>2, StepInv DEF WriteReport, Goto, IVars
<1>5. CASE SyncReport(i)
  <2>1. ImportTypeOK'
    BY <1>5 DEF SyncReport, Goto, Steps, Staging, Directory
  <2>2. ImporterOK(i)'
    BY <1>5 DEF SyncReport, Goto, ImporterOK, StageOK, DestOK, ReadOK, Past, Before,
                Staging, Directory
  <2> QED
    BY <1>5, <2>1, <2>2, StepInv DEF SyncReport, Goto, IVars
<1>6. CASE SyncStaging(i)
  <2>1. ImportTypeOK'
    <3>1. dir' \in [Importers -> Directory]
      BY <1>6 DEF SyncStaging, NamesOnDisk, Directory, Parts, Absent
    <3>2. disk' \in [Importers -> Directory]
      <4>1. dir[i].report \in Parts /\ dir[i].flushed \in BOOLEAN
        BY DEF Directory
      <4>2. (IF dir[i].flushed THEN dir[i].report ELSE "part") \in Parts
        BY <4>1 DEF Parts
      <4> QED
        BY <1>6, <4>1, <4>2, SyncedType DEF SyncStaging, NamesOnDisk
    <3>3. pc' \in [Importers -> Steps \cup Ends]
      BY <1>6 DEF SyncStaging, NamesOnDisk, Goto, Steps, Staging, Ends
    <3> QED
      BY <1>6, <3>1, <3>2, <3>3 DEF SyncStaging
  <2>2. ImporterOK(i)'
    BY <1>6 DEF SyncStaging, NamesOnDisk, Goto, ImporterOK, StageOK, DestOK, ReadOK, Past,
                Before, Staging, Directory
  <2> QED
    BY <1>6, <2>1, <2>2, StepInv DEF SyncStaging, NamesOnDisk, Goto, IVars
<1>7. CASE Rename(i)
  <2>1. ImportTypeOK'
    <3>1. dir' \in [Importers -> Directory]
      <4>1. [dir EXCEPT ![i].name = "dest"] \in [Importers -> Directory]
        BY NameType
      <4> QED
        BY <1>7, <4>1 DEF Rename, RenameNoReplace
    <3>2. disk' \in [Importers -> Directory]
      BY <1>7 DEF Rename, RenameNoReplace, Directory, Parts
    <3>3. pc' \in [Importers -> Steps \cup Ends]
      BY <1>7 DEF Rename, RenameNoReplace, Goto, Steps, Staging, Ends
    <3> QED
      BY <1>7, <3>1, <3>2, <3>3 DEF Rename, RenameNoReplace
  <2>2. ImporterOK(i)'
    BY <1>7 DEF Rename, RenameNoReplace, Goto, ImporterOK, StageOK, DestOK, ReadOK, Past,
                Before, Staging, Directory, Whole
  <2> QED
    BY <1>7, <2>1, <2>2, StepInv DEF Rename, RenameNoReplace, Goto, IVars
<1>8. CASE Fail(i)
  <2>1. ImportTypeOK'
    <3>1. dir' \in [Importers -> Directory]
      <4>1. dir[i].report \in Parts
        BY DEF Directory
      <4>2. (IF pc[i] = "report" THEN "part" ELSE dir[i].report) \in Parts
        BY <4>1 DEF Parts
      <4> QED
        BY <1>8, <4>2, ReportType DEF Fail
    <3>2. disk' \in [Importers -> Directory]
      BY <1>8 DEF Fail, Directory, Parts
    <3>3. pc' \in [Importers -> Steps \cup Ends]
      BY <1>8 DEF Fail, Goto, Steps, Staging, Ends
    <3> QED
      BY <1>8, <3>1, <3>2, <3>3 DEF Fail
  <2>2. ImporterOK(i)'
    BY <1>8 DEF Fail, Goto, ImporterOK, StageOK, DestOK, ReadOK, Past,
                Before, Staging, Directory, Whole
  <2> QED
    BY <1>8, <2>1, <2>2, StepInv DEF Fail, Goto, IVars
<1>9. CASE CleanUp(i)
  <2>1. ImportTypeOK'
    <3>1. dir' \in [Importers -> Directory]
      <4>1. CASE dir' = [dir EXCEPT ![i] = Absent]
        BY <4>1 DEF Directory, Parts, Absent
      <4>2. CASE dir' = [dir EXCEPT ![i].db = "part", ![i].report = "none"]
        BY <4>2, LeftoverType
      <4> QED
        BY <1>9, <4>1, <4>2 DEF CleanUp
    <3>2. disk' \in [Importers -> Directory]
      BY <1>9 DEF CleanUp, Directory, Parts
    <3>3. pc' \in [Importers -> Steps \cup Ends]
      BY <1>9 DEF CleanUp, Goto, Steps, Staging, Ends
    <3> QED
      BY <1>9, <3>1, <3>2, <3>3 DEF CleanUp
  <2>2. ImporterOK(i)'
    BY <1>9 DEF CleanUp, Removable, Goto, ImporterOK, StageOK, DestOK, ReadOK, Past,
                Before, Staging, Directory, Absent
  <2> QED
    BY <1>9, <2>1, <2>2, StepInv DEF CleanUp, Goto, IVars
<1>10. CASE Kill(i)
  <2>1. ImporterOK(i)'
    BY <1>10 DEF Kill, Continue, Goto, ImporterOK, StageOK, DestOK, ReadOK, Past, Before,
                 Staging
  <2> QED
    BY <1>10, <2>1, ContinueInv DEF Kill, Ends
<1> QED
  BY <1>1, <1>2, <1>3, <1>4, <1>5, <1>6, <1>7, <1>8, <1>9, <1>10

\* A directory is its four parts.
LEMMA SameDirectory ==
  ASSUME NEW d \in Directory, NEW e \in Directory, d.name = e.name, d.db = e.db,
         d.report = e.report, d.flushed = e.flushed
  PROVE  d = e
BY DEF Directory

\* fsync of the parent puts the names of all directories on disk.
LEMMA SyncParentInv ==
  ASSUME ImportInv, NEW i \in Importers, SyncParent(i)
  PROVE  ImportInv'
<1> USE DEF ImportInv, ImportTypeOK
<1>1. /\ pc[i] = "sync_parent" /\ pc' = [pc EXCEPT ![i] = "ok"]
      /\ disk' = [j \in Importers |-> [disk[j] EXCEPT !.name = dir[j].name]]
      /\ UNCHANGED <<source, foreign, hashed, read, dir>>
  BY DEF SyncParent, Goto
<1>2. ImportTypeOK'
  <2>1. disk' \in [Importers -> Directory]
    BY <1>1 DEF Directory
  <2>2. pc' \in [Importers -> Steps \cup Ends]
    BY <1>1 DEF Ends
  <2> QED
    BY <1>1, <2>1, <2>2
<1>3. ASSUME NEW j \in Importers PROVE ImporterOK(j)'
  <2>1. /\ disk'[j].name = dir[j].name /\ disk'[j].db = disk[j].db
        /\ disk'[j].report = disk[j].report /\ disk'[j].flushed = disk[j].flushed
    BY <1>1 DEF Directory
  <2>2. dir[j] \in Directory /\ disk'[j] \in Directory /\ dir'[j] = dir[j]
    BY <1>1, <1>2
  <2>3. StageOK(j)'
    <3>1. CASE j = i
      BY <1>1, <3>1 DEF ImporterOK, StageOK, Past, Before, Staging
    <3>2. CASE j # i /\ pc[j] \in Before \cup {"refused"}
      <4>1. dir[j] = Absent /\ disk[j] = Absent
        BY <3>2 DEF ImporterOK, StageOK, Past
      <4>2. disk'[j] = Absent
        BY <1>1, <4>1 DEF Absent
      <4> QED
        BY <1>1, <3>2, <4>1, <4>2 DEF StageOK, Past, Before, Staging
    <3>3. CASE j # i /\ pc[j] \notin Before \cup {"refused"}
      BY <1>1, <2>1, <3>3 DEF ImporterOK, StageOK, Past
    <3> QED
      BY <3>1, <3>2, <3>3
  <2>4. DestOK(j)'
    <3>1. ImporterOK(j)
      OBVIOUS
    <3>2. dir[j].name = "dest" => dir[j] = disk'[j]
      <4>1. SUFFICES ASSUME dir[j].name = "dest" PROVE dir[j] = disk'[j]
        OBVIOUS
      <4>2. dir[j].db = disk'[j].db /\ dir[j].report = disk'[j].report
        BY <2>1, <3>1, <4>1 DEF ImporterOK, DestOK, Whole
      <4>3. dir[j].name = disk'[j].name /\ dir[j].flushed = disk'[j].flushed
        BY <2>1, <3>1, <4>1 DEF ImporterOK, DestOK
      <4> QED
        BY <2>2, <4>2, <4>3, SameDirectory
    <3> QED
      BY <1>1, <2>1, <2>2, <3>1, <3>2 DEF ImporterOK, StageOK, DestOK, Whole, Past
  <2>5. ReadOK(j)'
    BY <1>1 DEF ImporterOK, StageOK, ReadOK, Past, Staging
  <2> QED
    BY <2>3, <2>4, <2>5 DEF ImporterOK
<1> QED
  BY <1>2, <1>3

\* After a power loss what is left of a published directory is whole, whatever its name.
LEMMA PowerLossInv ==
  ASSUME ImportInv, PowerLoss
  PROVE  ImportInv'
<1> USE DEF ImportInv, ImportTypeOK
<1>1. /\ \A i \in Importers : dir'[i] \in Remains(i)
      /\ dir' \in [Importers -> UNION {Remains(i) : i \in Importers}]
      /\ disk' = dir'
      /\ pc' = [i \in Importers |-> IF Running(i) THEN "killed" ELSE pc[i]]
      /\ UNCHANGED <<source, foreign, hashed, read>>
  BY DEF PowerLoss
<1>2. ASSUME NEW i \in Importers
      PROVE  /\ dir'[i] \in Directory
             /\ dir'[i].name \in {disk[i].name, dir[i].name, "staging"}
             /\ dir'[i].name = "staging" => dir[i].name = "dest" \/ "staging" \in {disk[i].name, dir[i].name}
             /\ disk[i].name = dir[i].name => dir'[i].name = dir[i].name
             /\ dir'[i].db \in {disk[i].db, dir[i].db}
             /\ dir'[i].report \in {disk[i].report, dir[i].report}
             /\ dir'[i].flushed = disk[i].flushed
  <2>1. dir[i] \in Directory /\ disk[i] \in Directory /\ dir'[i] \in Remains(i)
    BY <1>1
  <2> QED
    BY <2>1 DEF Remains, Directory
<1>3. ImportTypeOK'
  <2>1. dir' \in [Importers -> Directory]
    BY <1>1, <1>2
  <2>2. pc' \in [Importers -> Steps \cup Ends]
    BY <1>1 DEF Ends
  <2> QED
    BY <1>1, <2>1, <2>2
<1>4. ASSUME NEW i \in Importers PROVE ImporterOK(i)'
  <2>0. ImporterOK(i) /\ dir[i] \in Directory /\ disk[i] \in Directory /\ dir'[i] \in Directory
    BY <1>2
  <2>1. dir[i] = disk[i] => dir'[i] = dir[i]
    BY <1>2, <2>0, SameDirectory
  <2>2. pc'[i] \in {"start", "ok", "refused", "failed", "killed"}
    BY <1>1, <2>0 DEF Running, Steps, Ends
  <2>3. pc[i] = pc'[i] \/ pc'[i] = "killed"
    BY <1>1
  <2>4. StageOK(i)'
    BY <1>1, <2>0, <2>1, <2>2, <2>3 DEF ImporterOK, StageOK, DestOK, Past, Before, Staging
  <2>5. dir'[i].name = "dest" =>
            /\ dir[i].name = "dest" /\ Whole(dir'[i])
            /\ pc[i] \in {"sync_parent", "cleanup", "ok", "failed", "killed"}
    BY <1>2, <2>0 DEF ImporterOK, DestOK, Whole, Past
  <2>6. DestOK(i)'
    BY <1>1, <2>0, <2>1, <2>2, <2>3, <2>5 DEF ImporterOK, DestOK, StageOK, Past, Whole
  <2>7. ReadOK(i)'
    BY <1>1, <2>0, <2>2, <2>3, <2>5 DEF ImporterOK, ReadOK, Past, Staging
  <2> QED
    BY <2>4, <2>6, <2>7 DEF ImporterOK
<1> QED
  BY <1>3, <1>4

\* A content that is new was hashed by nobody.
LEMMA AroundInv ==
  ASSUME ImportInv, ChangeSource \/ TakeDestination
  PROVE  ImportInv'
<1> USE DEF ImportInv, ImportTypeOK
<1>1. CASE ChangeSource
  <2>1. PICK c \in Rewrites \ (source.past \cup {source.content}) :
            source' = [source EXCEPT !.content = c, !.past = @ \cup {source.content}]
    BY <1>1 DEF ChangeSource
  <2>2. /\ source'.content = c /\ source'.past = source.past \cup {source.content}
        /\ UNCHANGED <<foreign, pc, hashed, read, dir, disk>>
    BY <1>1, <2>1 DEF ChangeSource
  <2>3. ImportTypeOK'
    BY <2>1, <2>2, SourcesAssumption
  <2>4. \A i \in Importers : ImporterOK(i)'
    BY <2>1, <2>2 DEF ImporterOK, StageOK, DestOK, ReadOK, Past
  <2> QED
    BY <2>3, <2>4
<1>2. CASE TakeDestination
  BY <1>2, Frame DEF TakeDestination, IVars
<1> QED
  BY <1>1, <1>2

LEMMA NextInv ==
  ASSUME ImportInv, [ImportNext]_ivars
  PROVE  ImportInv'
<1>1. CASE UNCHANGED ivars
  BY <1>1, Frame DEF ivars, IVars, ImportInv, ImportTypeOK
<1>2. ASSUME NEW i \in Importers, ImportStep(i) PROVE ImportInv'
  BY <1>2, ReadingInv, StagingInv, SyncParentInv DEF ImportStep
<1> QED
  BY <1>1, <1>2, PowerLossInv, AroundInv DEF ImportNext

-----------------------------------------------------------------------------
(* Theorems *)

(***************************************************************************)
(* The life of a database is, in its first part, what import_intel does:   *)
(* opening it and serving from it touch no import.                         *)
(***************************************************************************)
THEOREM ImportsAsSpecified == Spec => ImportSpec
<1>1. Init => ImportInit
  BY DEF Init
<1>2. [Next]_vars => [ImportNext]_ivars
  BY DEF Next, vars, Importing, OpenNew, OpenImported, Open, Serving
<1> QED
  BY <1>1, <1>2, PTL DEF Spec, ImportSpec

\* The inductive invariant holds throughout.
LEMMA ImportInvariant == ImportSpec => []ImportInv
<1>1. ImportInit => ImportInv
  BY InitInv
<1>2. ImportInv /\ [ImportNext]_ivars => ImportInv'
  BY NextInv
<1> QED
  BY <1>1, <1>2, PTL DEF ImportSpec

(***************************************************************************)
(* The variables of the imports keep their types (import_intel,            *)
(* publish_with).                                                          *)
(***************************************************************************)
THEOREM ImportTypesCorrect == Spec => []ImportTypeOK
<1>1. ImportInv => ImportTypeOK
  BY DEF ImportInv
<1> QED
  BY <1>1, ImportsAsSpecified, ImportInvariant, PTL

(***************************************************************************)
(* What stands at the destination is whole, and a reported success is      *)
(* durable, for any number of importers, failures, kills and power losses  *)
(* (publish_with).                                                         *)
(***************************************************************************)
THEOREM PublicationSafe == Spec => []PublicationDurable
<1>1. ImportInv => PublicationDurable
  BY DEF ImportInv, ImporterOK, StageOK, DestOK, PublicationDurable, Past
<1> QED
  BY <1>1, ImportsAsSpecified, ImportInvariant, PTL

(***************************************************************************)
(* No step of an importer replaces, changes or removes what stands at the  *)
(* destination (publish_directory, the clean-up of publish_with).          *)
(***************************************************************************)
THEOREM PublishedNeverTouched == Spec => PublishedStays
<1> DEFINE Stays == /\ foreign => foreign'
                    /\ \A i \in Importers :
                           dir[i].name = "dest"
                           /\ (\E j \in Importers : pc'[j] \notin {pc[j], "killed"})
                               => dir'[i] = dir[i]
<1>1. ImportInv /\ [ImportNext]_ivars => [Stays]_ivars
  <2> SUFFICES ASSUME ImportInv, ImportNext PROVE Stays
    OBVIOUS
  <2>1. ASSUME NEW j \in Importers, ImportStep(j) PROVE Stays
    <3>1. foreign' = foreign
      BY <2>1 DEF ImportStep, Begin, HashSource, ReadSnapshot, Convert, Rehash,
                  SourceUnreadable, MakeStaging, MakeStagingFails, WriteDb, Verify,
                  WriteReport, SyncReport, SyncStaging, Rename, RenameNoReplace, SyncParent,
                  Fail, CleanUp, Kill, Refuse, Continue
    <3>2. ASSUME NEW i \in Importers, dir[i].name = "dest" PROVE dir'[i] = dir[i]
      <4>1. pc[i] \in {"sync_parent", "cleanup", "ok", "failed", "killed"}
        BY <3>2 DEF ImportInv, ImporterOK, DestOK, Past
      <4>2. i = j => pc[j] \notin Before \cup Staging
        BY <4>1 DEF Before, Staging
      <4>3. CASE UNCHANGED dir
        BY <4>3
      <4>4. CASE i # j
        BY <2>1, <4>4 DEF ImportInv, ImportTypeOK, ImportStep, Begin, HashSource,
                          ReadSnapshot, Convert, Rehash, SourceUnreadable, MakeStaging,
                          MakeStagingFails, WriteDb, Verify, WriteReport, SyncReport,
                          SyncStaging, Rename, RenameNoReplace, SyncParent, Fail, CleanUp,
                          Kill, Refuse, Continue
      <4>5. CASE i = j /\ Fail(j)
        BY <4>1, <4>5, SameDirectory DEF ImportInv, ImportTypeOK, Fail, Directory
      <4>6. CASE i = j /\ CleanUp(j)
        BY <3>2, <4>6 DEF CleanUp, Removable
      <4> QED
        BY <2>1, <4>2, <4>3, <4>4, <4>5, <4>6
           DEF ImportStep, Begin, HashSource, ReadSnapshot, Convert, Rehash,
               SourceUnreadable, MakeStaging, MakeStagingFails, WriteDb, Verify, WriteReport,
               SyncReport, SyncStaging, Rename, SyncParent, Kill, Refuse, Continue, Before,
               Staging
    <3> QED
      BY <3>1, <3>2
  <2>2. CASE PowerLoss
    <3>1. pc' = [i \in Importers |-> IF Running(i) THEN "killed" ELSE pc[i]] /\ foreign' = foreign
      BY <2>2 DEF PowerLoss
    <3>2. ~\E j \in Importers : pc'[j] \notin {pc[j], "killed"}
      BY <3>1
    <3> QED
      BY <3>1, <3>2
  <2>3. CASE ChangeSource \/ TakeDestination
    <3>1. dir' = dir
      BY <2>3 DEF ChangeSource, TakeDestination
    <3>2. foreign' = foreign \/ foreign' = TRUE
      BY <2>3 DEF ChangeSource, TakeDestination
    <3>3. foreign => foreign'
      BY <3>2, Zenon
    <3> QED
      BY <3>1, <3>3
  <2> QED
    BY <2>1, <2>2, <2>3 DEF ImportNext
<1> QED
  BY <1>1, ImportsAsSpecified, ImportInvariant, PTL DEF ImportSpec, PublishedStays

(***************************************************************************)
(* For every snapshot: what is published is the source of the reported     *)
(* hash, its rows and pools agree, and no two rows have become one record  *)
(* (import_intel, convert).                                                *)
(***************************************************************************)
THEOREM FaithfulImport == Spec => []ImportedFaithfully
<1>1. ImportInv => ImportedFaithfully
  <2> SUFFICES ASSUME ImportInv, NEW i \in Importers, dir[i].name = "dest"
               PROVE  /\ read[i] = hashed[i]
                      /\ RowsMatchPools(Entries(Content[read[i]]))
                      /\ NothingMerged(Content[read[i]], Entries(Content[read[i]]))
    BY DEF ImportedFaithfully
  <2>1. read[i] = hashed[i] /\ Accepted(read[i])
    BY DEF ImportInv, ImporterOK, ReadOK
  <2>2. Convertible(Content[read[i]]) /\ \A t \in Tables : IsFiniteSet(Content[read[i]][t])
    BY <2>1, ContentAssumption DEF Accepted
  <2>3. RowsMatchPools(Entries(Content[read[i]]))
    BY <2>2, RowsAndPoolsAgree DEF Convertible
  <2>4. NothingMerged(Content[read[i]], Entries(Content[read[i]]))
    BY <2>2, NothingIsMerged
  <2> QED
    BY <2>1, <2>3, <2>4
<1> QED
  BY <1>1, ImportsAsSpecified, ImportInvariant, PTL

-----------------------------------------------------------------------------
(* The records of a database *)

Pool(ppid, fmspc, ca, chain, certs, raws) ==
    [ppid |-> ppid, fmspc |-> fmspc, ca |-> ca, chain |-> chain, certs |-> certs, raws |-> raws]

IsPool(p) == \E ppid, fmspc, ca, chain, certs, raws : p = Pool(ppid, fmspc, ca, chain, certs, raws)

IsPolicy(p) == p = AppraisalPolicy(p.policy, p.type, p.isDefault) /\ p.isDefault \in BOOLEAN

\* Pools and lists of policies are where they belong.
DbShape(d) ==
    /\ \A k \in KeysOf(d, "platform") : k = platform(k[2], k[3]) /\ IsPool(d[k])
    /\ \A k \in KeysOf(d, "appraisal") : \A p \in d[k] : IsPolicy(p)

\* The pool of the platform knows the raw level.
Knows(d, qeid, pceid, raw) ==
    /\ Has(d, platform(qeid, pceid))
    /\ \E r \in d[platform(qeid, pceid)].raws : r.raw = raw

RowsKnownIn(d) == \A k \in KeysOf(d, "pckcert") : Knows(d, k[2], k[3], k[4])

\* A later pool, and a later database, knows the levels an earlier one did.
KnowsLevels(old, new) == \A r \in old.raws : \E s \in new.raws : s.raw = r.raw

KnowsMore(d, e) ==
    \A k \in KeysOf(d, "platform") : Has(e, k) /\ KnowsLevels(d[k], e[k])

LEMMA PutAt ==
  ASSUME NEW d, NEW k, NEW record
  PROVE  /\ DOMAIN Put(d, k, record) = DOMAIN d \cup {k}
         /\ Put(d, k, record)[k] = record
         /\ \A x \in DOMAIN d \ {k} : Put(d, k, record)[x] = d[x]
         /\ \A prefix \in {"platform", "pckcert", "appraisal"} :
                /\ k[1] = prefix => KeysOf(Put(d, k, record), prefix) = KeysOf(d, prefix) \cup {k}
                /\ k[1] # prefix => KeysOf(Put(d, k, record), prefix) = KeysOf(d, prefix)
BY DEF Put, KeysOf

LEMMA KeyPrefixes ==
  ASSUME NEW a, NEW b, NEW c
  PROVE  /\ platform(a, b)[1] = "platform" /\ platform(a, b)[2] = a /\ platform(a, b)[3] = b
         /\ pckcert(a, b, c)[1] = "pckcert" /\ pckcert(a, b, c)[2] = a
         /\ pckcert(a, b, c)[3] = b /\ pckcert(a, b, c)[4] = c
         /\ appraisal(a)[1] = "appraisal" /\ appraisal(a)[2] = a
BY DEF platform, pckcert, appraisal

LEMMA KnowsStays ==
  ASSUME NEW d, NEW e, KnowsMore(d, e), NEW q, NEW p, NEW raw, Knows(d, q, p, raw)
  PROVE  Knows(e, q, p, raw)
<1>1. platform(q, p) \in KeysOf(d, "platform")
  BY KeyPrefixes DEF Knows, Has, KeysOf
<1> QED
  BY <1>1 DEF KnowsMore, KnowsLevels, Knows

\* Records that are neither pools, rows nor policies.
LEMMA PutOther ==
  ASSUME NEW d, DbShape(d), NEW k, NEW record, k[1] \notin {"platform", "pckcert", "appraisal"}
  PROVE  LET e == Put(d, k, record)
         IN  /\ DbShape(e) /\ KnowsMore(d, e)
             /\ KeysOf(e, "platform") = KeysOf(d, "platform")
             /\ \A x \in KeysOf(d, "platform") : e[x] = d[x]
             /\ KeysOf(e, "pckcert") = KeysOf(d, "pckcert")
             /\ \A f : Get(e, appraisal(f), {}) = Get(d, appraisal(f), {})
<1> DEFINE e == Put(d, k, record)
<1>1. /\ DOMAIN e = DOMAIN d \cup {k}
      /\ \A x \in DOMAIN d \ {k} : e[x] = d[x]
      /\ \A prefix \in {"platform", "pckcert", "appraisal"} :
             /\ k[1] = prefix => KeysOf(e, prefix) = KeysOf(d, prefix) \cup {k}
             /\ k[1] # prefix => KeysOf(e, prefix) = KeysOf(d, prefix)
  BY DEF Put, KeysOf, e
<1> HIDE DEF e
<1>2. /\ KeysOf(e, "platform") = KeysOf(d, "platform")
      /\ KeysOf(e, "pckcert") = KeysOf(d, "pckcert")
      /\ KeysOf(e, "appraisal") = KeysOf(d, "appraisal")
  BY <1>1
<1>3. \A x \in KeysOf(d, "platform") \cup KeysOf(d, "appraisal") : x \in DOMAIN e /\ e[x] = d[x]
  BY <1>1 DEF KeysOf
<1>4. \A f : Get(e, appraisal(f), {}) = Get(d, appraisal(f), {})
  BY <1>1, KeyPrefixes DEF Get, Has
<1>5. DbShape(e) /\ KnowsMore(d, e)
  BY <1>2, <1>3 DEF DbShape, KnowsMore, KnowsLevels, Has
<1> QED
  BY <1>2, <1>3, <1>4, <1>5 DEF e

\* A pool that has grown.
LEMMA PutPool ==
  ASSUME NEW d, DbShape(d), NEW q, NEW p, NEW pool, IsPool(pool),
         Has(d, platform(q, p)) => KnowsLevels(d[platform(q, p)], pool)
  PROVE  LET e == Put(d, platform(q, p), pool)
         IN  /\ DbShape(e) /\ KnowsMore(d, e)
             /\ KeysOf(e, "pckcert") = KeysOf(d, "pckcert")
             /\ \A x \in KeysOf(d, "platform") \ {platform(q, p)} : Has(e, x) /\ e[x] = d[x]
             /\ Has(e, platform(q, p)) /\ e[platform(q, p)] = pool
             /\ \A f : Get(e, appraisal(f), {}) = Get(d, appraisal(f), {})
<1> DEFINE k == platform(q, p)
           e == Put(d, k, pool)
<1>0. k[1] = "platform" /\ k = platform(k[2], k[3]) /\ \A f : appraisal(f)[1] = "appraisal"
  BY KeyPrefixes
<1>a. Has(d, k) => KnowsLevels(d[k], pool)
  OBVIOUS
<1>1. /\ DOMAIN e = DOMAIN d \cup {k}
      /\ e[k] = pool
      /\ \A x \in DOMAIN d \ {k} : e[x] = d[x]
      /\ \A prefix \in {"platform", "pckcert", "appraisal"} :
             /\ k[1] = prefix => KeysOf(e, prefix) = KeysOf(d, prefix) \cup {k}
             /\ k[1] # prefix => KeysOf(e, prefix) = KeysOf(d, prefix)
  BY DEF Put, KeysOf, e
<1> HIDE DEF e, k
<1>2. /\ KeysOf(e, "platform") = KeysOf(d, "platform") \cup {k}
      /\ KeysOf(e, "pckcert") = KeysOf(d, "pckcert")
      /\ KeysOf(e, "appraisal") = KeysOf(d, "appraisal")
  BY <1>0, <1>1
<1>3. /\ \A x \in KeysOf(d, "platform") : x # k => Has(e, x) /\ e[x] = d[x]
      /\ \A x \in KeysOf(d, "appraisal") : e[x] = d[x]
  BY <1>0, <1>1 DEF KeysOf, Has
<1>4. \A f : Get(e, appraisal(f), {}) = Get(d, appraisal(f), {})
  BY <1>0, <1>1 DEF Get, Has
<1>5. DbShape(e)
  BY <1>0, <1>1, <1>2, <1>3 DEF DbShape
<1>6. KnowsMore(d, e)
  BY <1>a, <1>1, <1>3 DEF KnowsMore, KnowsLevels, Has, KeysOf
<1>7. Has(e, k) /\ e[k] = pool
  BY <1>1 DEF Has
<1> QED
  BY <1>2, <1>3, <1>4, <1>5, <1>6, <1>7 DEF e, k

\* A row for a level the pool knows.
LEMMA PutRow ==
  ASSUME NEW d, DbShape(d), RowsKnownIn(d), NEW q, NEW p, NEW raw, NEW record, Knows(d, q, p, raw)
  PROVE  RowsKnownIn(Put(d, pckcert(q, p, raw), record))
<1> DEFINE k == pckcert(q, p, raw)
           e == Put(d, k, record)
<1>0. k[1] = "pckcert" /\ k[2] = q /\ k[3] = p /\ k[4] = raw
  BY KeyPrefixes
<1>1. /\ DOMAIN e = DOMAIN d \cup {k}
      /\ \A x \in DOMAIN d \ {k} : e[x] = d[x]
      /\ \A prefix \in {"platform", "pckcert", "appraisal"} :
             /\ k[1] = prefix => KeysOf(e, prefix) = KeysOf(d, prefix) \cup {k}
             /\ k[1] # prefix => KeysOf(e, prefix) = KeysOf(d, prefix)
  BY DEF Put, KeysOf, e
<1> HIDE DEF e, k
<1>2. KeysOf(e, "pckcert") = KeysOf(d, "pckcert") \cup {k}
  BY <1>0, <1>1
<1>3. KnowsMore(d, e)
  BY <1>0, <1>1 DEF KnowsMore, KnowsLevels, KeysOf, Has
<1>4. \A x \in KeysOf(e, "pckcert") : Knows(d, x[2], x[3], x[4])
  BY <1>0, <1>2 DEF RowsKnownIn
<1>5. RowsKnownIn(e)
  BY <1>3, <1>4, KnowsStays DEF RowsKnownIn
<1> QED
  BY <1>5 DEF e, k

\* It changes no pool and no list.
LEMMA PutRowShape ==
  ASSUME NEW d, DbShape(d), NEW q, NEW p, NEW raw, NEW record
  PROVE  LET e == Put(d, pckcert(q, p, raw), record)
         IN  /\ DbShape(e)
             /\ \A x \in KeysOf(d, "platform") : Has(e, x) /\ e[x] = d[x]
             /\ \A f : Get(e, appraisal(f), {}) = Get(d, appraisal(f), {})
<1> DEFINE k == pckcert(q, p, raw)
           e == Put(d, k, record)
<1>0. k[1] = "pckcert" /\ \A f : appraisal(f)[1] = "appraisal"
  BY KeyPrefixes
<1>1. /\ DOMAIN e = DOMAIN d \cup {k}
      /\ \A x \in DOMAIN d \ {k} : e[x] = d[x]
      /\ \A prefix \in {"platform", "pckcert", "appraisal"} :
             /\ k[1] = prefix => KeysOf(e, prefix) = KeysOf(d, prefix) \cup {k}
             /\ k[1] # prefix => KeysOf(e, prefix) = KeysOf(d, prefix)
  BY DEF Put, KeysOf, e
<1> HIDE DEF e, k
<1>2. /\ KeysOf(e, "platform") = KeysOf(d, "platform")
      /\ KeysOf(e, "appraisal") = KeysOf(d, "appraisal")
  BY <1>0, <1>1
<1>3. \A x \in KeysOf(d, "platform") \cup KeysOf(d, "appraisal") : Has(e, x) /\ e[x] = d[x]
  BY <1>0, <1>1 DEF KeysOf, Has
<1>4. \A f : Get(e, appraisal(f), {}) = Get(d, appraisal(f), {})
  BY <1>0, <1>1 DEF Get, Has
<1>5. DbShape(e)
  BY <1>2, <1>3 DEF DbShape
<1> QED
  BY <1>3, <1>4, <1>5 DEF e, k

-----------------------------------------------------------------------------
(* The lists of policies *)

\* What a policy put into a list leaves of the others, and that defaults are unseated.
LEMMA UpsertList ==
  ASSUME NEW policies, \A p \in policies : IsPolicy(p), NEW policy, NEW type,
         NEW isDefault \in BOOLEAN
  PROVE  LET new == Upsert(policies, policy, type, isDefault)
         IN  /\ \A p \in new : IsPolicy(p)
             /\ \E p \in new : p.policy = policy
             /\ \A p \in policies : \E q \in new : q.policy = p.policy
             /\ isDefault => \A p, q \in new : p.isDefault /\ q.isDefault => p = q
             /\ ~isDefault => \A p \in new : p.isDefault => p \in policies
<1> DEFINE Kept == {q \in policies : q.policy # policy}
           Seat(p) == [p EXCEPT !.isDefault = @ /\ ~isDefault]
           mine == AppraisalPolicy(policy, type, isDefault)
           new == {Seat(p) : p \in Kept} \cup {mine}
<1>1. Upsert(policies, policy, type, isDefault) = new
  BY DEF Upsert
<1>2. mine.policy = policy /\ mine.isDefault = isDefault /\ IsPolicy(mine)
  BY DEF AppraisalPolicy, IsPolicy
<1>3. ASSUME NEW p \in Kept
      PROVE  /\ IsPolicy(Seat(p)) /\ Seat(p).policy = p.policy
             /\ isDefault => ~Seat(p).isDefault
             /\ ~isDefault => Seat(p) = p
  <2>1. p = [policy |-> p.policy, type |-> p.type, isDefault |-> p.isDefault]
        /\ p.isDefault \in BOOLEAN
    BY DEF IsPolicy, AppraisalPolicy
  <2>2. Seat(p) = [policy |-> p.policy, type |-> p.type, isDefault |-> p.isDefault /\ ~isDefault]
    BY <2>1
  <2>3. /\ Seat(p).policy = p.policy /\ Seat(p).type = p.type
        /\ Seat(p).isDefault = (p.isDefault /\ ~isDefault)
    BY <2>2
  <2> HIDE DEF Seat
  <2>4. (p.isDefault /\ ~isDefault) \in BOOLEAN
    OBVIOUS
  <2>5. IsPolicy(Seat(p))
    BY <2>2, <2>3, <2>4 DEF IsPolicy, AppraisalPolicy
  <2>6. ~isDefault => (p.isDefault /\ ~isDefault) = p.isDefault
    BY <2>1
  <2> QED
    BY <2>1, <2>2, <2>3, <2>5, <2>6
<1> HIDE DEF Seat, mine
<1>4. \A p \in new : IsPolicy(p)
  BY <1>2, <1>3
<1>5. mine \in new
  OBVIOUS
<1>6. \A p \in policies : \E q \in new : q.policy = p.policy
  <2> SUFFICES ASSUME NEW p \in policies PROVE \E q \in new : q.policy = p.policy
    OBVIOUS
  <2>1. CASE p.policy = policy
    BY <1>2, <1>5, <2>1
  <2>2. CASE p.policy # policy
    <3>1. p \in Kept /\ Seat(p) \in new
      BY <2>2
    <3> QED
      BY <1>3, <3>1
  <2> QED
    BY <2>1, <2>2
<1>7. isDefault => \A p, q \in new : p.isDefault /\ q.isDefault => p = q
  BY <1>3
<1>8. ~isDefault => \A p \in new : p.isDefault => p \in policies
  BY <1>2, <1>3
<1> HIDE DEF new
<1> QED
  BY <1>1, <1>2, <1>4, <1>5, <1>6, <1>7, <1>8

Listed(d, fmspc, policy) == \E p \in Get(d, appraisal(fmspc), {}) : p.policy = policy

OneDefault(d, fmspc) ==
    \A p, q \in Get(d, appraisal(fmspc), {}) : p.isDefault /\ q.isDefault => p = q

PoliciesIn(d, listed, decided) ==
    /\ \A a \in listed : Listed(d, a[1], a[2])
    /\ \A f \in decided : OneDefault(d, f)

LEMMA SameLists ==
  ASSUME NEW d, NEW e, \A f : Get(e, appraisal(f), {}) = Get(d, appraisal(f), {}),
         NEW listed, NEW decided, PoliciesIn(d, listed, decided)
  PROVE  PoliciesIn(e, listed, decided)
BY DEF PoliciesIn, Listed, OneDefault

\* A list that is written.
LEMMA PutList ==
  ASSUME NEW d, DbShape(d), NEW f, NEW new, \A p \in new : IsPolicy(p),
         NEW e, e = Put(d, appraisal(f), new)
  PROVE  /\ DbShape(e) /\ KnowsMore(d, e)
         /\ \A x \in KeysOf(d, "platform") : Has(e, x) /\ e[x] = d[x]
         /\ KeysOf(e, "pckcert") = KeysOf(d, "pckcert")
         /\ Get(e, appraisal(f), {}) = new
         /\ \A g : g # f => Get(e, appraisal(g), {}) = Get(d, appraisal(g), {})
<1> DEFINE k == appraisal(f)
<1>1. k[1] = "appraisal" /\ \A g : appraisal(g)[1] = "appraisal" /\ (appraisal(g) = k <=> g = f)
  BY DEF appraisal
<1>2. e = Put(d, k, new)
  OBVIOUS
<1> HIDE DEF k
<1>3. /\ DOMAIN e = DOMAIN d \cup {k}
      /\ e[k] = new
      /\ \A x \in DOMAIN d \ {k} : e[x] = d[x]
      /\ \A prefix \in {"platform", "pckcert", "appraisal"} :
             /\ k[1] = prefix => KeysOf(e, prefix) = KeysOf(d, prefix) \cup {k}
             /\ k[1] # prefix => KeysOf(e, prefix) = KeysOf(d, prefix)
  BY <1>2 DEF Put, KeysOf
<1>4. /\ KeysOf(e, "platform") = KeysOf(d, "platform")
      /\ KeysOf(e, "pckcert") = KeysOf(d, "pckcert")
      /\ KeysOf(e, "appraisal") = KeysOf(d, "appraisal") \cup {k}
  BY <1>1, <1>3
<1>5. /\ \A x \in KeysOf(d, "platform") : Has(e, x) /\ e[x] = d[x]
      /\ \A x \in KeysOf(d, "appraisal") \ {k} : e[x] = d[x]
  BY <1>1, <1>3 DEF KeysOf, Has
<1>6. DbShape(e) /\ KnowsMore(d, e)
  BY <1>3, <1>4, <1>5 DEF DbShape, KnowsMore, KnowsLevels
<1>7. Get(e, k, {}) = new /\ \A g : g # f => Get(e, appraisal(g), {}) = Get(d, appraisal(g), {})
  BY <1>1, <1>3 DEF Get, Has
<1> QED
  BY <1>4, <1>5, <1>6, <1>7 DEF k

\* Pools and rows are as they were.
SameServed(d, e) ==
    /\ DbShape(e) /\ KnowsMore(d, e)
    /\ \A x \in KeysOf(d, "platform") : Has(e, x) /\ e[x] = d[x]
    /\ KeysOf(e, "pckcert") = KeysOf(d, "pckcert")

\* upsert_appraisal_policy_raw on the list as it is.
LEMMA PutPolicyList ==
  ASSUME NEW d, DbShape(d), NEW f, NEW policy, NEW type, NEW isDefault,
         isDefault \in {TRUE, FALSE}, NEW e,
         e = Put(d, appraisal(f), Upsert(Get(d, appraisal(f), {}), policy, type, isDefault))
  PROVE  /\ SameServed(d, e)
         /\ \A listed, decided : PoliciesIn(d, listed, decided) =>
                PoliciesIn(e, listed \cup {<<f, policy>>},
                           IF isDefault = TRUE THEN decided \cup {f} ELSE decided)
<1> DEFINE k == appraisal(f)
           old == Get(d, k, {})
           new == Upsert(old, policy, type, isDefault)
<1>0. \A p \in old : IsPolicy(p)
  <2>1. k[1] = "appraisal"
    BY KeyPrefixes
  <2> QED
    BY <2>1 DEF DbShape, Get, Has, KeysOf
<1>1. e = Put(d, k, new) /\ isDefault \in BOOLEAN
  OBVIOUS
<1> HIDE DEF old
<1>2. /\ \A p \in new : IsPolicy(p)
      /\ \E p \in new : p.policy = policy
      /\ \A p \in old : \E q \in new : q.policy = p.policy
      /\ isDefault => \A p, q \in new : p.isDefault /\ q.isDefault => p = q
      /\ ~isDefault => \A p \in new : p.isDefault => p \in old
  BY <1>0, <1>1, UpsertList
<1> HIDE DEF new
<1>3. /\ DbShape(e) /\ KnowsMore(d, e)
      /\ \A x \in KeysOf(d, "platform") : Has(e, x) /\ e[x] = d[x]
      /\ KeysOf(e, "pckcert") = KeysOf(d, "pckcert")
      /\ Get(e, appraisal(f), {}) = new
      /\ \A g : g # f => Get(e, appraisal(g), {}) = Get(d, appraisal(g), {})
  BY <1>1, <1>2, PutList
<1>7. Get(e, k, {}) = new /\ \A g : g # f => Get(e, appraisal(g), {}) = Get(d, appraisal(g), {})
  BY <1>3
<1> HIDE DEF k
<1> SUFFICES ASSUME NEW listed, NEW decided, PoliciesIn(d, listed, decided)
             PROVE  PoliciesIn(e, listed \cup {<<f, policy>>},
                               IF isDefault = TRUE THEN decided \cup {f} ELSE decided)
  BY <1>3 DEF SameServed
<1>8. ASSUME NEW a \in listed \cup {<<f, policy>>} PROVE Listed(e, a[1], a[2])
  <2>1. CASE a[1] = f
    <3>1. Get(e, appraisal(a[1]), {}) = new
      BY <1>7, <2>1 DEF k
    <3>2. CASE a \in listed
      <4>1. \E p \in old : p.policy = a[2]
        BY <2>1, <3>2 DEF PoliciesIn, Listed, k, old
      <4> QED
        BY <1>2, <3>1, <4>1 DEF Listed
    <3>3. CASE a = <<f, policy>>
      BY <1>2, <3>1, <3>3 DEF Listed
    <3> QED
      BY <3>2, <3>3
  <2>2. CASE a[1] # f
    <3>1. a \in listed
      BY <2>2
    <3>2. Get(e, appraisal(a[1]), {}) = Get(d, appraisal(a[1]), {})
      BY <1>7, <2>2
    <3> QED
      BY <3>1, <3>2 DEF PoliciesIn, Listed
  <2> QED
    BY <2>1, <2>2
<1>9. ASSUME NEW g \in IF isDefault = TRUE THEN decided \cup {f} ELSE decided PROVE OneDefault(e, g)
  <2>1. CASE g = f
    <3>1. Get(e, appraisal(g), {}) = new
      BY <1>7, <2>1 DEF k
    <3>2. CASE isDefault
      BY <1>2, <3>1, <3>2 DEF OneDefault
    <3>3. CASE ~isDefault
      <4>1. \A p, q \in old : p.isDefault /\ q.isDefault => p = q
        BY <2>1, <3>3 DEF PoliciesIn, OneDefault, k, old
      <4> QED
        BY <1>2, <3>1, <3>3, <4>1 DEF OneDefault
    <3> QED
      BY <3>2, <3>3
  <2>2. CASE g # f
    <3>1. g \in decided
      BY <2>2
    <3>2. Get(e, appraisal(g), {}) = Get(d, appraisal(g), {})
      BY <1>7, <2>2
    <3> QED
      BY <3>1, <3>2 DEF PoliciesIn, OneDefault
  <2> QED
    BY <2>1, <2>2
<1>10. PoliciesIn(e, listed \cup {<<f, policy>>}, IF isDefault = TRUE THEN decided \cup {f} ELSE decided)
  BY <1>8, <1>9 DEF PoliciesIn
<1> QED
  BY <1>10

-----------------------------------------------------------------------------
(* What the loader makes of a pool *)

LEMMA PoolsToStart ==
  ASSUME NEW item
  PROVE  IsPool(SeededPool(item)) /\ IsPool(EmptyPool)
<1>1. EmptyPool = Pool("", "", "", <<>>, {}, {})
  BY DEF EmptyPool, Pool
<1> DEFINE seeded == SeededPool(item)
<1>2. /\ seeded.ppid = item.ppid /\ seeded.fmspc = item.fmspc /\ seeded.ca = item.ca
      /\ seeded.chain = item.chain /\ seeded.certs = {} /\ seeded.raws = {}
      /\ DOMAIN seeded = {"ppid", "fmspc", "ca", "chain", "certs", "raws"}
      /\ seeded = [field \in DOMAIN seeded |-> seeded[field]]
  BY DEF SeededPool, EmptyPool
<1> HIDE DEF seeded
<1>3. seeded = Pool(item.ppid, item.fmspc, item.ca, item.chain, {}, {})
  BY <1>2 DEF Pool
<1> QED
  BY <1>1, <1>3 DEF IsPool, seeded

LEMMA WithCert ==
  ASSUME NEW pool, IsPool(pool), NEW item
  PROVE  LET new == PoolWithCert(pool, item)
         IN  /\ IsPool(new)
             /\ pool.certs \subseteq new.certs /\ pool.raws \subseteq new.raws
             /\ new.ppid = pool.ppid
             /\ \E r \in new.raws : r.raw = item.raw
<1>1. PICK ppid, fmspc, ca, chain, certs, raws : pool = Pool(ppid, fmspc, ca, chain, certs, raws)
  BY DEF IsPool
<1> DEFINE moreCerts == IF item.tcbm = "" \/ \E x \in certs : x.tcbm = item.tcbm THEN certs
                        ELSE certs \cup {PlatformCert(item.tcbm, item.cert)}
           moreRaws == IF \E x \in raws : x.raw = item.raw THEN raws
                       ELSE raws \cup {RawTcb(item.raw, item.tcbm)}
<1>2. pool.certs = certs /\ pool.raws = raws /\ pool.ppid = ppid
  BY <1>1 DEF Pool
<1>3. PoolWithCert(pool, item) = Pool(ppid, fmspc, ca, chain, moreCerts, moreRaws)
  <2>1. PoolWithCert(pool, item) = [pool EXCEPT !.certs = moreCerts, !.raws = moreRaws]
    BY <1>2 DEF PoolWithCert
  <2> HIDE DEF moreCerts, moreRaws
  <2> QED
    BY <1>1, <2>1 DEF Pool
<1>4. certs \subseteq moreCerts /\ raws \subseteq moreRaws
  OBVIOUS
<1>5. \E x \in moreRaws : x.raw = item.raw
  <2>1. RawTcb(item.raw, item.tcbm).raw = item.raw
    BY DEF RawTcb
  <2> QED
    BY <2>1
<1> HIDE DEF moreCerts, moreRaws
<1>6. /\ Pool(ppid, fmspc, ca, chain, moreCerts, moreRaws).certs = moreCerts
      /\ Pool(ppid, fmspc, ca, chain, moreCerts, moreRaws).raws = moreRaws
      /\ Pool(ppid, fmspc, ca, chain, moreCerts, moreRaws).ppid = ppid
  BY DEF Pool
<1> QED
  BY <1>2, <1>3, <1>4, <1>5, <1>6 DEF IsPool

LEMMA WithPlatform ==
  ASSUME NEW pool, IsPool(pool), NEW item
  PROVE  LET new == PoolWithPlatform(pool, item)
         IN  /\ IsPool(new)
             /\ new.certs = pool.certs /\ pool.raws \subseteq new.raws
             /\ pool.ppid \in {"", new.ppid}
<1>1. PICK ppid, fmspc, ca, chain, certs, raws : pool = Pool(ppid, fmspc, ca, chain, certs, raws)
  BY DEF IsPool
<1> DEFINE newPpid == IF ppid = "" THEN item.ppid ELSE ppid
           newFmspc == IF fmspc = "" THEN item.fmspc ELSE fmspc
           moreRaws == IF item.raw = "" \/ \E x \in raws : x.raw = item.raw THEN raws
                       ELSE raws \cup {RawTcb(item.raw, "")}
<1>2. pool.certs = certs /\ pool.raws = raws /\ pool.ppid = ppid /\ pool.fmspc = fmspc
  BY <1>1 DEF Pool
<1>3. PoolWithPlatform(pool, item) = Pool(newPpid, newFmspc, ca, chain, certs, moreRaws)
  <2>1. PoolWithPlatform(pool, item) =
          [pool EXCEPT !.ppid = newPpid, !.fmspc = newFmspc, !.raws = moreRaws]
    BY <1>2 DEF PoolWithPlatform
  <2> HIDE DEF newPpid, newFmspc, moreRaws
  <2> QED
    BY <1>1, <2>1 DEF Pool
<1>4. ppid \in {"", newPpid} /\ raws \subseteq moreRaws
  OBVIOUS
<1> HIDE DEF newPpid, newFmspc, moreRaws
<1>5. /\ Pool(newPpid, newFmspc, ca, chain, certs, moreRaws).certs = certs
      /\ Pool(newPpid, newFmspc, ca, chain, certs, moreRaws).raws = moreRaws
      /\ Pool(newPpid, newFmspc, ca, chain, certs, moreRaws).ppid = newPpid
  BY DEF Pool
<1> QED
  BY <1>2, <1>3, <1>4, <1>5 DEF IsPool

\* What convert leaves for the server to open.
LEMMA ImportedDb ==
  ASSUME NEW s, Convertible(s)
  PROVE  DbShape(Entries(s)) /\ RowsKnownIn(Entries(s))
<1> DEFINE e == Entries(s)
<1>1. PlatformsOk(s) /\ RawTcbsOk(s)
  BY DEF Convertible
<1>2. /\ KeysOf(e, "pckcert") = DOMAIN GetRows(s)
      /\ KeysOf(e, "platform") = DOMAIN Pools(s)
      /\ KeysOf(e, "appraisal") = DOMAIN Policies(s)
      /\ \A k \in DOMAIN Pools(s) : k \in DOMAIN e /\ e[k] = Pools(s)[k]
      /\ \A k \in DOMAIN Policies(s) : e[k] = Policies(s)[k]
  BY EntriesByKind, Zenon
<1>3. RowsMatchPools(e)
  BY <1>1, RowsAndPoolsAgree
<1> HIDE DEF e
<1>4. ASSUME NEW k \in KeysOf(e, "platform") PROVE k = platform(k[2], k[3]) /\ IsPool(e[k])
  <2>1. e[k] = Pools(s)[k] /\ k \in {PoolKey(r) : r \in s.platforms}
    BY <1>2 DEF Pools
  <2>2. IsPool(Pools(s)[k])
    BY <2>1 DEF Pools, IsPool, Pool
  <2>3. k = platform(k[2], k[3])
    BY <2>1 DEF PoolKey, platform
  <2> QED
    BY <2>1, <2>2, <2>3
<1>5. ASSUME NEW k \in KeysOf(e, "appraisal"), NEW p \in e[k] PROVE IsPolicy(p)
  <2>1. e[k] = Policies(s)[k] /\ k \in {appraisal(Upper(r.fmspc)) : r \in s.appraisal_policies}
    BY <1>2 DEF Policies
  <2>2. PICK r \in s.appraisal_policies : p = AppraisalPolicy(r.policy, r.type, r.isDefault = 1)
    BY <2>1 DEF Policies
  <2>3. (r.isDefault = 1) \in BOOLEAN
    OBVIOUS
  <2> QED
    BY <2>2, <2>3 DEF IsPolicy, AppraisalPolicy
<1>6. ASSUME NEW k \in KeysOf(e, "pckcert") PROVE Knows(e, k[2], k[3], k[4])
  <2>1. RawTcb(k[4], e[k].tcbm) \in e[platform(k[2], k[3])].raws
    BY <1>3 DEF RowsMatchPools
  <2>2. PICK r \in s.platform_tcbs : k = RawKey(r)
    BY <1>2 DEF GetRows
  <2>3. PICK p \in s.platforms : PlatformKey(p) = PlatformKey(r)
    BY <1>1 DEF RawTcbsOk, RowsOf
  <2>4. platform(k[2], k[3]) = PoolKey(p)
    BY <2>2, <2>3, Keys
  <2>5. PoolKey(p) \in DOMAIN Pools(s)
    BY DEF Pools
  <2>6. RawTcb(k[4], e[k].tcbm).raw = k[4]
    BY DEF RawTcb
  <2> QED
    BY <1>2, <2>1, <2>4, <2>5, <2>6 DEF Knows, Has
<1> QED
  BY <1>4, <1>5, <1>6 DEF DbShape, RowsKnownIn, e

-----------------------------------------------------------------------------
(* The inductive invariant of the server *)

LoaderTypes ==
    /\ server \in {"down", "loading", "up"}
    /\ rowDue \in BOOLEAN /\ skipped \in BOOLEAN /\ opened \in BOOLEAN
    /\ todo \in Seq(SeedItems)
    /\ body \in [Tasks -> Bodies \cup {NoBody}]
    /\ list = [t \in Tasks |-> list[t]]
    /\ rowDue => server = "loading" /\ todo # << >>

\* Nothing is served from a database that is not open.
ClosedOK == ~opened => server = "down" /\ acked = {} /\ chosen = {}

\* While the row of an item is due, its pool is there and knows the level.
RowDueOK == rowDue /\ ~skipped => Knows(db, Item.qeid, Item.pceid, Item.raw)

\* Who puts a policy holds the lock, and the list he read is the list there is.
LockOK ==
    \A t \in Tasks : body[t] # NoBody =>
        /\ server = "up" /\ holder = t
        /\ list[t] = Get(db, appraisal(body[t].fmspc), {})

SeedInv ==
    /\ LoaderTypes /\ ClosedOK
    /\ DbShape(db)
    /\ ~skipped => RowsKnownIn(db)
    /\ RowDueOK
    /\ PoliciesIn(db, acked, chosen)
    /\ LockOK

\* What a step of the loader leaves of the database.
Keeps ==
    server = "loading" => \A k \in DOMAIN db : Has(db', k) /\ KeptAs(k, db[k], db'[k])

LEMMA KeptAsItIs ==
  ASSUME NEW k, NEW record
  PROVE  KeptAs(k, record, record)
BY DEF KeptAs

LEMMA NothingWritten ==
  ASSUME UNCHANGED db
  PROVE  Keeps
BY KeptAsItIs DEF Keeps, Has

\* One record is written, as the loader may write it.
LEMMA OneWritten ==
  ASSUME NEW k, NEW record, db' = Put(db, k, record), Has(db, k) => KeptAs(k, db[k], record)
  PROVE  Keeps
<1> SUFFICES ASSUME NEW x \in DOMAIN db PROVE Has(db', x) /\ KeptAs(x, db[x], db'[x])
  BY DEF Keeps
<1>1. DOMAIN db' = DOMAIN db \cup {k} /\ db'[x] = IF x = k THEN record ELSE db[x]
  BY DEF Put
<1>2. CASE x = k
  BY <1>1, <1>2 DEF Has
<1>3. CASE x # k
  <2>1. db'[x] = db[x] /\ Has(db', x)
    BY <1>1, <1>3 DEF Has
  <2> QED
    BY <2>1, KeptAsItIs
<1> QED
  BY <1>2, <1>3

LEMMA SeedInitInv ==
  ASSUME SeedInit, opened = FALSE
  PROVE  SeedInv
<1>0. list = [t \in Tasks |-> list[t]] /\ todo \in Seq(SeedItems)
  BY DEF SeedInit
<1>1. LoaderTypes /\ ClosedOK /\ RowDueOK /\ LockOK
  BY <1>0 DEF SeedInit, LoaderTypes, ClosedOK, RowDueOK, LockOK
<1>2. \A prefix : KeysOf(db, prefix) = {}
  BY DEF SeedInit, EmptyDb, KeysOf
<1>3. DbShape(db) /\ RowsKnownIn(db)
  BY <1>2 DEF DbShape, RowsKnownIn
<1>4. PoliciesIn(db, acked, chosen)
  BY DEF SeedInit, PoliciesIn
<1> QED
  BY <1>1, <1>3, <1>4 DEF SeedInv

\* A database is opened: an imported one, or none.
LEMMA OpenInv ==
  ASSUME SeedInv, NEW records, DbShape(records), RowsKnownIn(records), Open(records)
  PROVE  SeedInv'
<1>1. /\ ~opened /\ opened' = TRUE /\ db' = records
      /\ UNCHANGED <<server, todo, rowDue, chosen, skipped, holder, body, list, acked>>
  BY DEF Open, putting
<1>2. LoaderTypes' /\ ClosedOK'
  BY <1>1 DEF SeedInv, LoaderTypes, ClosedOK
<1>3. server = "down" /\ acked = {} /\ chosen = {} /\ ~rowDue
  BY <1>1 DEF SeedInv, LoaderTypes, ClosedOK
<1>4. RowDueOK' /\ LockOK'
  BY <1>1, <1>3 DEF SeedInv, LockOK, RowDueOK
<1>5. PoliciesIn(db', acked', chosen')
  BY <1>1, <1>3 DEF PoliciesIn
<1> QED
  BY <1>1, <1>2, <1>4, <1>5 DEF SeedInv

-----------------------------------------------------------------------------
(* Its steps *)

\* The first item of the seed, and what is left when it is done.
LEMMA ItemFacts ==
  ASSUME LoaderTypes, todo # << >>
  PROVE  Item \in SeedItems /\ Tail(todo) \in Seq(SeedItems)
BY DEF LoaderTypes, Item

\* While the seed is loaded no policy is put.
LEMMA LoadingIdle ==
  ASSUME LockOK, server = "loading"
  PROVE  \A t \in Tasks : body[t] = NoBody
BY DEF LockOK

\* A step that is done with an item and has written e, or nothing.
LEMMA ItemDoneInv ==
  ASSUME SeedInv, server = "loading", todo # << >>, opened' = TRUE, ItemDone,
         UNCHANGED <<server, putting>>,
         skipped' \in BOOLEAN, skipped => skipped',
         DbShape(db'), ~skipped' => RowsKnownIn(db'), PoliciesIn(db', acked, chosen')
  PROVE  SeedInv'
<1>1. /\ todo' = Tail(todo) /\ rowDue' = FALSE
      /\ server' = server /\ holder' = holder /\ body' = body
      /\ list' = list /\ acked' = acked
  BY DEF ItemDone, putting
<1>2. LoaderTypes' /\ ClosedOK'
  <2>1. LoaderTypes /\ Tail(todo) \in Seq(SeedItems)
    BY ItemFacts DEF SeedInv
  <2>2. todo' \in Seq(SeedItems) /\ rowDue' \in BOOLEAN /\ ~rowDue'
    BY <1>1, <2>1
  <2>3. server' \in {"down", "loading", "up"}
    BY <1>1, <2>1 DEF LoaderTypes
  <2>4. body' \in [Tasks -> Bodies \cup {NoBody}]
    BY <1>1, <2>1 DEF LoaderTypes
  <2>5. list' = [t \in Tasks |-> list'[t]]
    BY <1>1, <2>1, Zenon DEF LoaderTypes
  <2> QED
    BY <2>2, <2>3, <2>4, <2>5 DEF LoaderTypes, ClosedOK
<1>3. RowDueOK' /\ LockOK'
  BY <1>1, LoadingIdle DEF SeedInv, RowDueOK, LockOK
<1> QED
  BY <1>1, <1>2, <1>3 DEF SeedInv

LEMMA PassOverInv ==
  ASSUME SeedInv, opened' = TRUE, PassOver
  PROVE  SeedInv' /\ Keeps
<1>1. UNCHANGED <<db, skipped, chosen>>
  BY DEF PassOver
<1>2. SeedInv'
  BY <1>1, ItemDoneInv DEF PassOver, SeedInv, LoaderTypes
<1> QED
  BY <1>1, <1>2, NothingWritten

LEMMA LoadDocumentInv ==
  ASSUME SeedInv, opened' = TRUE, LoadDocument
  PROVE  SeedInv' /\ Keeps
<1>1. /\ server = "loading" /\ todo # << >> /\ Item.kind = "doc" /\ ItemDone
      /\ UNCHANGED <<server, chosen, putting>>
  BY DEF LoadDocument, Loading
<1>2. Item.key[1] \notin {"platform", "pckcert", "appraisal"}
  BY <1>1, ItemFacts, SeedAssumption DEF SeedInv
<1>3. CASE skipped' = TRUE /\ UNCHANGED db
  <2>1. SeedInv'
    BY <1>1, <1>3, ItemDoneInv DEF SeedInv
  <2> QED
    BY <1>3, <2>1, NothingWritten
<1>4. CASE db' = Put(db, Item.key, Item.record) /\ UNCHANGED skipped
  <2>1. /\ DbShape(db') /\ KnowsMore(db, db')
        /\ KeysOf(db', "platform") = KeysOf(db, "platform")
        /\ \A x \in KeysOf(db, "platform") : db'[x] = db[x]
        /\ KeysOf(db', "pckcert") = KeysOf(db, "pckcert")
        /\ \A f : Get(db', appraisal(f), {}) = Get(db, appraisal(f), {})
    <3> DEFINE k == Item.key
    <3> HIDE DEF k
    <3>1. LET e == Put(db, k, Item.record)
          IN  /\ DbShape(e) /\ KnowsMore(db, e)
              /\ KeysOf(e, "platform") = KeysOf(db, "platform")
              /\ \A x \in KeysOf(db, "platform") : e[x] = db[x]
              /\ KeysOf(e, "pckcert") = KeysOf(db, "pckcert")
              /\ \A f : Get(e, appraisal(f), {}) = Get(db, appraisal(f), {})
      BY <1>2, PutOther DEF SeedInv, k
    <3> QED
      BY <1>4, <3>1 DEF k
  <2>2. PoliciesIn(db', acked, chosen)
    BY <2>1, SameLists DEF SeedInv
  <2>3. ~skipped' => RowsKnownIn(db')
    BY <1>4, <2>1, KnowsStays DEF SeedInv, RowsKnownIn
  <2>4. SeedInv'
    BY <1>1, <1>4, <2>1, <2>2, <2>3, ItemDoneInv DEF SeedInv, LoaderTypes
  <2>5. Keeps
    <3>1. Item \in SeedItems /\ ~Incomplete(Item)
      BY <1>1, ItemFacts DEF SeedInv, LoadDocument, Loading
    <3>2. SeedHas(Item.key, Item.record)
      BY <1>1, <3>1 DEF SeedHas
    <3>3. ASSUME NEW old PROVE KeptAs(Item.key, old, Item.record)
      BY <1>2, <3>2 DEF KeptAs
    <3> QED
      BY <1>4, <3>3, OneWritten
  <2> QED
    BY <2>4, <2>5
<1> QED
  BY <1>3, <1>4 DEF LoadDocument, Write

LEMMA LoadPolicyInv ==
  ASSUME SeedInv, opened' = TRUE, LoadPolicy
  PROVE  SeedInv' /\ Keeps
<1>1. /\ server = "loading" /\ todo # << >> /\ Item.kind = "policy" /\ ItemDone
      /\ UNCHANGED <<server, putting>>
      /\ chosen' = IF Item.isDefault /\ ~skipped' THEN chosen \cup {Item.fmspc} ELSE chosen
  BY DEF LoadPolicy, Loading
<1>2. Item.isDefault \in BOOLEAN
  BY <1>1, ItemFacts, SeedAssumption DEF SeedInv
<1>3. CASE skipped' = TRUE /\ UNCHANGED db
  <2>1. SeedInv'
    BY <1>1, <1>3, ItemDoneInv DEF SeedInv
  <2> QED
    BY <1>3, <2>1, NothingWritten
<1>4. CASE /\ db' = Put(db, appraisal(Item.fmspc),
                        Upsert(Get(db, appraisal(Item.fmspc), {}), Item.policy, 0, Item.isDefault))
           /\ UNCHANGED skipped
  <2> DEFINE decided == IF Item.isDefault = TRUE THEN chosen \cup {Item.fmspc} ELSE chosen
  <2>1. /\ DbShape(db') /\ KnowsMore(db, db')
        /\ \A x \in KeysOf(db, "platform") : Has(db', x) /\ db'[x] = db[x]
        /\ KeysOf(db', "pckcert") = KeysOf(db, "pckcert")
        /\ PoliciesIn(db', acked \cup {<<Item.fmspc, Item.policy>>}, decided)
    <3> DEFINE f == Item.fmspc
               policy == Item.policy
               default == Item.isDefault
               type == 0
    <3>1. db' = Put(db, appraisal(f), Upsert(Get(db, appraisal(f), {}), policy, type, default))
      BY <1>4
    <3>2. DbShape(db) /\ PoliciesIn(db, acked, chosen) /\ default \in {TRUE, FALSE}
      BY <1>2 DEF SeedInv
    <3> HIDE DEF f, policy, default, type
    <3>3. SameServed(db, db')
      BY <3>1, <3>2, PutPolicyList
    <3>4. PoliciesIn(db', acked \cup {<<f, policy>>}, IF default = TRUE THEN chosen \cup {f} ELSE chosen)
      BY <3>1, <3>2, PutPolicyList
    <3> QED
      BY <3>3, <3>4 DEF SameServed, f, policy, default
  <2>2. PoliciesIn(db', acked, chosen')
    BY <1>1, <2>1 DEF PoliciesIn
  <2>3. ~skipped' => RowsKnownIn(db')
    BY <1>4, <2>1, KnowsStays DEF SeedInv, RowsKnownIn
  <2>4. SeedInv'
    BY <1>1, <1>4, <2>1, <2>2, <2>3, ItemDoneInv DEF SeedInv, LoaderTypes
  <2>5. Keeps
    <3> DEFINE k == appraisal(Item.fmspc)
               new == Upsert(Get(db, k, {}), Item.policy, 0, Item.isDefault)
    <3>1. k[1] = "appraisal"
      BY KeyPrefixes
    <3>2. Has(db, k) => Get(db, k, {}) = db[k]
      BY DEF Get
    <3>3. Has(db, k) => \A p \in db[k] : \E q \in new : q.policy = p.policy
      <4> HIDE DEF k
      <4>1. Has(db, k) => \A p \in db[k] : IsPolicy(p)
        BY <3>1 DEF SeedInv, DbShape, KeysOf, Has
      <4> QED
        BY <1>2, <3>2, <4>1, UpsertList
    <3> HIDE DEF k, new
    <3>4. Has(db, k) => KeptAs(k, db[k], new)
      BY <3>1, <3>3 DEF KeptAs
    <3>5. db' = Put(db, k, new)
      BY <1>4 DEF k, new
    <3> QED
      BY <3>4, <3>5, OneWritten
  <2> QED
    BY <2>4, <2>5
<1> QED
  BY <1>3, <1>4 DEF LoadPolicy, Write

\* A pool that is written over what there was of it.
Grows(d, k, pool) ==
    Has(d, k) => /\ d[k].certs \subseteq pool.certs
                 /\ d[k].raws \subseteq pool.raws
                 /\ d[k].ppid \in {"", pool.ppid}

ListsKept(d, e) == \A f : Get(e, appraisal(f), {}) = Get(d, appraisal(f), {})

LEMMA GrownKept ==
  ASSUME NEW q, NEW p, NEW pool, Grows(db, platform(q, p), pool)
  PROVE  Has(db, platform(q, p)) => KeptAs(platform(q, p), db[platform(q, p)], pool)
<1>1. platform(q, p)[1] = "platform"
  BY KeyPrefixes
<1> QED
  BY <1>1 DEF Grows, KeptAs

LEMMA PoolGrows ==
  ASSUME NEW d, DbShape(d), NEW q, NEW p, NEW pool, IsPool(pool), Grows(d, platform(q, p), pool),
         NEW e, e = Put(d, platform(q, p), pool)
  PROVE  /\ DbShape(e) /\ ListsKept(d, e)
         /\ RowsKnownIn(d) => RowsKnownIn(e)
         /\ Has(e, platform(q, p)) /\ e[platform(q, p)] = pool
<1> DEFINE k == platform(q, p)
<1>1. /\ DbShape(e) /\ KnowsMore(d, e)
      /\ KeysOf(e, "pckcert") = KeysOf(d, "pckcert")
      /\ \A x \in KeysOf(d, "platform") \ {k} : Has(e, x) /\ e[x] = d[x]
      /\ Has(e, k) /\ e[k] = pool
      /\ \A f : Get(e, appraisal(f), {}) = Get(d, appraisal(f), {})
  <2>1. Has(d, platform(q, p)) => KnowsLevels(d[platform(q, p)], pool)
    BY DEF Grows, KnowsLevels
  <2>2. LET g == Put(d, platform(q, p), pool)
        IN  /\ DbShape(g) /\ KnowsMore(d, g)
            /\ KeysOf(g, "pckcert") = KeysOf(d, "pckcert")
            /\ \A x \in KeysOf(d, "platform") \ {platform(q, p)} : Has(g, x) /\ g[x] = d[x]
            /\ Has(g, platform(q, p)) /\ g[platform(q, p)] = pool
            /\ \A f : Get(g, appraisal(f), {}) = Get(d, appraisal(f), {})
    BY <2>1, PutPool
  <2> QED
    BY <2>2
<1> HIDE DEF k
<1>2. RowsKnownIn(d) => RowsKnownIn(e)
  BY <1>1, KnowsStays DEF RowsKnownIn
<1> QED
  BY <1>1, <1>2 DEF ListsKept, k

\* What the loader finds of a pool, or starts with.
LEMMA FoundPool ==
  ASSUME NEW d, DbShape(d), NEW q, NEW p, NEW fresh, IsPool(fresh),
         NEW old, old = Get(d, platform(q, p), fresh),
         NEW pool, old.certs \subseteq pool.certs, old.raws \subseteq pool.raws,
         old.ppid \in {"", pool.ppid}
  PROVE  Grows(d, platform(q, p), pool)
BY DEF Grows, Get

LEMMA FoundIsPool ==
  ASSUME NEW d, DbShape(d), NEW q, NEW p, NEW fresh, IsPool(fresh)
  PROVE  IsPool(Get(d, platform(q, p), fresh))
<1>1. platform(q, p)[1] = "platform"
  BY KeyPrefixes
<1> QED
  BY <1>1 DEF DbShape, Get, Has, KeysOf

\* A step that has written the pool of an item, or has failed to, and leaves its row due.
LEMMA PoolDoneInv ==
  ASSUME SeedInv, server = "loading", todo # << >>, opened' = TRUE, rowDue' = TRUE,
         UNCHANGED <<todo, server, putting>>,
         skipped' \in BOOLEAN,
         DbShape(db'), ~skipped' => RowsKnownIn(db'), PoliciesIn(db', acked, chosen'),
         ~skipped' => Knows(db', Item.qeid, Item.pceid, Item.raw)
  PROVE  SeedInv'
<1>1. /\ todo' = todo /\ server' = server /\ holder' = holder /\ body' = body
      /\ list' = list /\ acked' = acked
  BY DEF putting
<1>2. LoaderTypes' /\ ClosedOK'
  <2>1. LoaderTypes
    BY DEF SeedInv
  <2>2. todo' \in Seq(SeedItems) /\ todo' # << >> /\ server' = "loading"
    BY <1>1, <2>1 DEF LoaderTypes
  <2>3. body' \in [Tasks -> Bodies \cup {NoBody}]
    BY <1>1, <2>1 DEF LoaderTypes
  <2>4. list' = [t \in Tasks |-> list'[t]]
    BY <1>1, <2>1, Zenon DEF LoaderTypes
  <2> QED
    BY <2>2, <2>3, <2>4 DEF LoaderTypes, ClosedOK
<1>3. RowDueOK'
  BY <1>1 DEF RowDueOK, Item
<1>4. LockOK'
  BY <1>1, LoadingIdle DEF SeedInv, LockOK
<1> QED
  BY <1>1, <1>2, <1>3, <1>4 DEF SeedInv

LEMMA LoadPlatformInv ==
  ASSUME SeedInv, opened' = TRUE, LoadPlatform
  PROVE  SeedInv' /\ Keeps
<1> DEFINE q == Item.qeid
           p == Item.pceid
           old == Get(db, platform(q, p), EmptyPool)
           pool == PoolWithPlatform(old, Item)
<1>1. /\ server = "loading" /\ todo # << >> /\ ItemDone
      /\ UNCHANGED <<server, chosen, putting>>
  BY DEF LoadPlatform, Loading
<1>2. CASE skipped' = TRUE /\ UNCHANGED db
  <2>1. SeedInv'
    BY <1>1, <1>2, ItemDoneInv DEF SeedInv
  <2> QED
    BY <1>2, <2>1, NothingWritten
<1>3. CASE db' = Put(db, platform(q, p), pool) /\ UNCHANGED skipped
  <2>1. IsPool(EmptyPool) /\ DbShape(db)
    BY PoolsToStart DEF SeedInv
  <2>2. IsPool(old)
    <3> HIDE DEF q, p
    <3> QED
      BY <2>1, FoundIsPool
  <2> HIDE DEF old
  <2>3. /\ IsPool(pool) /\ pool.certs = old.certs /\ old.raws \subseteq pool.raws
        /\ old.ppid \in {"", pool.ppid}
    BY <2>2, WithPlatform
  <2> HIDE DEF q, p, pool
  <2>4. Grows(db, platform(q, p), pool)
    BY <2>1, <2>3, FoundPool DEF old
  <2>5. /\ DbShape(db') /\ ListsKept(db, db')
        /\ RowsKnownIn(db) => RowsKnownIn(db')
    <3>1. db' = Put(db, platform(q, p), pool) /\ IsPool(pool) /\ DbShape(db)
      BY <1>3, <2>1, <2>3
    <3> QED
      BY <2>4, <3>1, PoolGrows
  <2>6. PoliciesIn(db', acked, chosen')
    BY <1>1, <2>5, SameLists DEF SeedInv, ListsKept
  <2>7. SeedInv'
    BY <1>1, <1>3, <2>5, <2>6, ItemDoneInv DEF SeedInv, LoaderTypes
  <2>8. Keeps
    BY <1>3, <2>4, GrownKept, OneWritten
  <2> QED
    BY <2>7, <2>8
<1> QED
  BY <1>2, <1>3 DEF LoadPlatform, Write

LEMMA LoadPckcertInv ==
  ASSUME SeedInv, opened' = TRUE, LoadPckcert
  PROVE  SeedInv' /\ Keeps
<1> DEFINE q == Item.qeid
           p == Item.pceid
           raw == Item.raw
           fresh == SeededPool(Item)
           old == Get(db, platform(q, p), fresh)
           pool == PoolWithCert(old, Item)
           row == PckCertRecord(Item.cert, Item.tcbm, Item.ppid)
<1>1. /\ server = "loading" /\ todo # << >>
      /\ server' = server /\ chosen' = chosen /\ UNCHANGED putting
  BY DEF LoadPckcert, Loading
<1>2. CASE rowDue
  <2>1. ItemDone
    BY <1>2 DEF LoadPckcert
  <2>2. CASE skipped' = TRUE /\ UNCHANGED db
    <3>1. SeedInv'
      BY <1>1, <2>1, <2>2, ItemDoneInv DEF SeedInv
    <3> QED
      BY <2>2, <3>1, NothingWritten
  <2>3. CASE db' = Put(db, pckcert(q, p, raw), row) /\ UNCHANGED skipped
    <3>1. DbShape(db) /\ (~skipped => RowsKnownIn(db) /\ Knows(db, q, p, raw))
      BY <1>2 DEF SeedInv, RowDueOK
    <3> HIDE DEF q, p, raw, row
    <3>2. /\ DbShape(Put(db, pckcert(q, p, raw), row))
          /\ \A x \in KeysOf(db, "platform") :
                 /\ Has(Put(db, pckcert(q, p, raw), row), x)
                 /\ Put(db, pckcert(q, p, raw), row)[x] = db[x]
          /\ \A f : Get(Put(db, pckcert(q, p, raw), row), appraisal(f), {}) = Get(db, appraisal(f), {})
      BY <3>1, PutRowShape
    <3>3. /\ DbShape(db')
          /\ \A x \in KeysOf(db, "platform") : Has(db', x) /\ db'[x] = db[x]
          /\ \A f : Get(db', appraisal(f), {}) = Get(db, appraisal(f), {})
      BY <2>3, <3>2
    <3>4. ~skipped' => RowsKnownIn(db')
      BY <2>3, <3>1, PutRow
    <3>5. PoliciesIn(db', acked, chosen')
      BY <1>1, <3>3, SameLists DEF SeedInv
    <3>6. SeedInv'
      BY <1>1, <2>1, <2>3, <3>3, <3>4, <3>5, ItemDoneInv DEF SeedInv, LoaderTypes
    <3>7. Keeps
      <4>1. Item \in SeedItems /\ ~Incomplete(Item) /\ Item.kind = "pckcert"
        BY <1>1, ItemFacts DEF SeedInv, LoadPckcert, Loading
      <4>2. SeedHas(pckcert(q, p, raw), row)
        BY <4>1 DEF SeedHas, q, p, raw, row
      <4>3. pckcert(q, p, raw)[1] = "pckcert"
        BY KeyPrefixes
      <4>4. ASSUME NEW before PROVE KeptAs(pckcert(q, p, raw), before, row)
        BY <4>2, <4>3 DEF KeptAs
      <4> QED
        BY <2>3, <4>4, OneWritten
    <3> QED
      BY <3>6, <3>7
  <2> QED
    BY <1>2, <2>2, <2>3 DEF LoadPckcert, Write, RowsTurn
<1>3. CASE ~rowDue
  <2>1. rowDue' = TRUE /\ todo' = todo
    BY <1>3 DEF LoadPckcert
  <2>2. CASE skipped' = TRUE /\ UNCHANGED db
    <3>1. SeedInv'
      BY <1>1, <2>1, <2>2, PoolDoneInv DEF SeedInv
    <3> QED
      BY <2>2, <3>1, NothingWritten
  <2>3. CASE db' = Put(db, platform(q, p), pool) /\ UNCHANGED skipped
    <3>1. IsPool(fresh) /\ DbShape(db)
      BY PoolsToStart DEF SeedInv
    <3>2. IsPool(old)
      <4> HIDE DEF q, p, fresh
      <4> QED
        BY <3>1, FoundIsPool
    <3> HIDE DEF old
    <3>3. /\ IsPool(pool) /\ old.certs \subseteq pool.certs /\ old.raws \subseteq pool.raws
          /\ pool.ppid = old.ppid /\ \E r \in pool.raws : r.raw = Item.raw
      BY <3>2, WithCert
    <3> HIDE DEF q, p, pool, fresh
    <3>4. Grows(db, platform(q, p), pool)
      BY <3>1, <3>3, FoundPool DEF old
    <3>5. /\ DbShape(db') /\ ListsKept(db, db')
          /\ RowsKnownIn(db) => RowsKnownIn(db')
          /\ Has(db', platform(q, p)) /\ db'[platform(q, p)] = pool
      BY <2>3, <3>1, <3>3, <3>4, PoolGrows
    <3>6. Knows(db', Item.qeid, Item.pceid, Item.raw)
      BY <3>3, <3>5 DEF Knows, q, p
    <3>7. PoliciesIn(db', acked, chosen')
      BY <1>1, <3>5, SameLists DEF SeedInv, ListsKept
    <3>8. SeedInv'
      BY <1>1, <2>1, <2>3, <3>5, <3>6, <3>7, PoolDoneInv DEF SeedInv, LoaderTypes
    <3>9. Keeps
      BY <2>3, <3>4, GrownKept, OneWritten
    <3> QED
      BY <3>8, <3>9
  <2> QED
    BY <1>3, <2>2, <2>3 DEF LoadPckcert, Write, RowsTurn
<1> QED
  BY <1>2, <1>3

LEMMA StartInv ==
  ASSUME SeedInv, opened' = TRUE, Start
  PROVE  SeedInv' /\ Keeps
<1>1. /\ server = "down" /\ server' = "loading" /\ todo' = Items /\ rowDue' = FALSE
      /\ db' = db /\ chosen' = chosen /\ skipped' = skipped /\ holder' = holder
      /\ body' = body /\ list' = list /\ acked' = acked
  BY DEF Start, putting
<1>2. LoaderTypes' /\ ClosedOK'
  BY <1>1, SeedAssumption DEF SeedInv, LoaderTypes, ClosedOK
<1>3. RowDueOK' /\ LockOK'
  BY <1>1 DEF SeedInv, RowDueOK, LockOK
<1>4. SeedInv'
  BY <1>1, <1>2, <1>3 DEF SeedInv
<1> QED
  BY <1>1, <1>4 DEF Keeps

LEMMA ServeInv ==
  ASSUME SeedInv, opened' = TRUE, Serve
  PROVE  SeedInv' /\ Keeps
<1>1. /\ server = "loading" /\ todo = << >> /\ server' = "up" /\ todo' = todo
      /\ rowDue' = rowDue
      /\ db' = db /\ chosen' = chosen /\ skipped' = skipped /\ holder' = holder
      /\ body' = body /\ list' = list /\ acked' = acked
  BY DEF Serve, putting
<1>2. LoaderTypes' /\ ClosedOK' /\ ~rowDue
  BY <1>1 DEF SeedInv, LoaderTypes, ClosedOK
<1>3. RowDueOK' /\ LockOK'
  BY <1>1, <1>2, LoadingIdle DEF SeedInv, RowDueOK, LockOK
<1>4. SeedInv'
  BY <1>1, <1>2, <1>3 DEF SeedInv
<1> QED
  BY <1>1, <1>4, NothingWritten

LEMMA StopInv ==
  ASSUME SeedInv, opened' = TRUE, Stop
  PROVE  SeedInv' /\ Keeps
<1>1. /\ server' = "down" /\ todo' = << >> /\ rowDue' = FALSE
      /\ db' = db /\ chosen' = chosen /\ skipped' = skipped /\ acked' = acked
      /\ body' = [t \in Tasks |-> NoBody] /\ list' = [t \in Tasks |-> {}]
  BY DEF Stop
<1>2. todo' \in Seq(SeedItems) /\ list' = [t \in Tasks |-> list'[t]]
  BY <1>1
<1>3. LoaderTypes' /\ ClosedOK'
  BY <1>1, <1>2 DEF SeedInv, LoaderTypes, ClosedOK
<1>4. RowDueOK' /\ LockOK'
  BY <1>1 DEF RowDueOK, LockOK
<1>5. SeedInv'
  BY <1>1, <1>3, <1>4 DEF SeedInv
<1> QED
  BY <1>1, <1>5, NothingWritten

\* The lock is free: nobody puts a policy, and the one who comes reads the list.
LEMMA PutPolicyInv ==
  ASSUME SeedInv, opened' = TRUE, NEW t \in Tasks, PutPolicy(t)
  PROVE  SeedInv' /\ Keeps
<1>1. PICK b \in Bodies :
        /\ body' = [body EXCEPT ![t] = b]
        /\ list' = [list EXCEPT ![t] = Get(db, appraisal(b.fmspc), {})]
  BY DEF PutPolicy
<1>2. /\ server = "up" /\ holder = NoTask /\ holder' = t
      /\ server' = server /\ todo' = todo /\ rowDue' = rowDue
      /\ db' = db /\ chosen' = chosen /\ skipped' = skipped /\ acked' = acked
  BY DEF PutPolicy, CanLock
<1>3. LoaderTypes /\ LockOK
  BY DEF SeedInv
<1>4. \A u \in Tasks : body[u] = NoBody
  BY <1>2, <1>3, NoTaskAssumption DEF LockOK
<1>5. body' \in [Tasks -> Bodies \cup {NoBody}]
  BY <1>1, <1>3 DEF LoaderTypes
<1>6. /\ DOMAIN list = Tasks
      /\ list' = [u \in Tasks |-> list'[u]]
      /\ list'[t] = Get(db, appraisal(b.fmspc), {})
  <2>1. DOMAIN list = Tasks
    BY <1>3 DEF LoaderTypes
  <2> QED
    BY <1>1, <2>1
<1>7. LoaderTypes' /\ ClosedOK'
  BY <1>2, <1>3, <1>5, <1>6 DEF LoaderTypes, ClosedOK
<1>8. RowDueOK'
  BY <1>2, <1>3 DEF RowDueOK, LoaderTypes
<1>9. LockOK'
  <2>1. DOMAIN body = Tasks
    BY <1>3 DEF LoaderTypes
  <2>2. body'[t] = b /\ \A u \in Tasks : u # t => body'[u] = NoBody
    BY <1>1, <1>4, <2>1
  <2> QED
    BY <1>2, <1>6, <2>2 DEF LockOK
<1>10. SeedInv'
  BY <1>2, <1>7, <1>8, <1>9 DEF SeedInv
<1> QED
  BY <1>2, <1>10 DEF Keeps

\* The list that is written holds what the list there is holds: it is the one he read.
LEMMA WritePolicyInv ==
  ASSUME SeedInv, opened' = TRUE, NEW t \in Tasks, WritePolicy(t)
  PROVE  SeedInv' /\ Keeps
<1> DEFINE b == body[t]
<1>1. /\ server = "up" /\ b # NoBody
      /\ server' = server /\ todo' = todo /\ rowDue' = rowDue /\ skipped' = skipped
      /\ body' = [body EXCEPT ![t] = NoBody] /\ list' = [list EXCEPT ![t] = {}]
  BY DEF WritePolicy
<1>2. LoaderTypes /\ LockOK /\ DbShape(db) /\ PoliciesIn(db, acked, chosen)
  BY DEF SeedInv
<1>3. holder = t /\ list[t] = Get(db, appraisal(b.fmspc), {})
  BY <1>1, <1>2 DEF LockOK
<1>4. b \in Bodies /\ b.isDefault \in {TRUE, FALSE}
  BY <1>1, <1>2, BodiesAssumption DEF LoaderTypes
<1>5. body' \in [Tasks -> Bodies \cup {NoBody}] /\ \A u \in Tasks : body'[u] = NoBody
  <2>1. body \in [Tasks -> Bodies \cup {NoBody}]
    BY <1>2 DEF LoaderTypes
  <2>2. \A u \in Tasks : u # t => body[u] = NoBody
    BY <1>2, <1>3 DEF LockOK
  <2> QED
    BY <1>1, <2>1, <2>2
<1>6. list' = [u \in Tasks |-> list'[u]]
  <2>1. DOMAIN list = Tasks
    BY <1>2 DEF LoaderTypes
  <2> QED
    BY <1>1, <2>1
<1>7. LoaderTypes' /\ ClosedOK' /\ RowDueOK' /\ LockOK'
  <2>1. LoaderTypes' /\ ClosedOK'
    BY <1>1, <1>2, <1>5, <1>6 DEF LoaderTypes, ClosedOK
  <2>2. ~rowDue'
    BY <1>1, <1>2 DEF LoaderTypes
  <2> QED
    BY <1>5, <2>1, <2>2 DEF RowDueOK, LockOK
<1>8. DbShape(db') /\ (~skipped' => RowsKnownIn(db')) /\ PoliciesIn(db', acked', chosen')
  <2>1. CASE UNCHANGED <<db, acked, chosen>>
    BY <1>1, <2>1 DEF SeedInv
  <2>2. CASE /\ db' = Put(db, appraisal(b.fmspc), Upsert(list[t], b.policy, b.type, b.isDefault))
             /\ acked' = acked \cup {<<b.fmspc, b.policy>>}
             /\ chosen' = IF b.isDefault THEN chosen \cup {b.fmspc} ELSE chosen
    <3> DEFINE f == b.fmspc
               policy == b.policy
               type == b.type
               default == b.isDefault
    <3>1. db' = Put(db, appraisal(f), Upsert(Get(db, appraisal(f), {}), policy, type, default))
      BY <1>3, <2>2
    <3>2. acked' = acked \cup {<<f, policy>>} /\ default \in {TRUE, FALSE}
      BY <1>4, <2>2
    <3>3. chosen' = IF default = TRUE THEN chosen \cup {f} ELSE chosen
      BY <1>4, <2>2
    <3> HIDE DEF f, policy, type, default
    <3>4. SameServed(db, db')
      BY <1>2, <3>1, <3>2, PutPolicyList
    <3>5. PoliciesIn(db', acked', chosen')
      <4>1. PoliciesIn(db', acked \cup {<<f, policy>>},
                       IF default = TRUE THEN chosen \cup {f} ELSE chosen)
        BY <1>2, <3>1, <3>2, PutPolicyList
      <4> QED
        BY <3>2, <3>3, <4>1
    <3>6. ~skipped' => RowsKnownIn(db')
      BY <1>1, <3>4, KnowsStays DEF SeedInv, RowsKnownIn, SameServed
    <3> QED
      BY <3>4, <3>5, <3>6 DEF SameServed
  <2> QED
    BY <2>1, <2>2 DEF WritePolicy
<1>9. SeedInv'
  BY <1>7, <1>8 DEF SeedInv
<1> QED
  BY <1>1, <1>9 DEF Keeps

\* Rows for levels a pool knows.
LEMMA PutRows ==
  ASSUME NEW d, DbShape(d), NEW q, NEW p, Has(d, platform(q, p)),
         NEW raws, raws \subseteq d[platform(q, p)].raws,
         NEW rows, DOMAIN rows = {pckcert(q, p, r.raw) : r \in raws},
         NEW e, e = PutAll(d, rows)
  PROVE  /\ DbShape(e) /\ ListsKept(d, e)
         /\ RowsKnownIn(d) => RowsKnownIn(e)
<1>1. /\ DOMAIN e = DOMAIN d \cup DOMAIN rows
      /\ \A x \in DOMAIN d : x \notin DOMAIN rows => e[x] = d[x]
  BY PutAllAt
<1>2. \A x \in DOMAIN rows : /\ x[1] = "pckcert" /\ x[2] = q /\ x[3] = p
                             /\ \E r \in raws : x[4] = r.raw
  BY KeyPrefixes
<1>3. \A prefix \in {"platform", "appraisal"} :
          /\ KeysOf(e, prefix) = KeysOf(d, prefix)
          /\ \A x \in KeysOf(d, prefix) : x \in DOMAIN e /\ e[x] = d[x]
  BY <1>1, <1>2 DEF KeysOf
<1>4. DbShape(e) /\ KnowsMore(d, e)
  BY <1>3 DEF DbShape, KnowsMore, KnowsLevels, Has
<1>5. ListsKept(d, e)
  BY <1>1, <1>2, KeyPrefixes DEF ListsKept, Get, Has
<1>6. ASSUME RowsKnownIn(d), NEW x \in KeysOf(e, "pckcert")
      PROVE  Knows(d, x[2], x[3], x[4])
  <2>1. CASE x \in DOMAIN rows
    BY <1>2, <2>1 DEF Knows
  <2>2. CASE x \notin DOMAIN rows
    BY <1>1, <1>6, <2>2 DEF RowsKnownIn, KeysOf
  <2> QED
    BY <2>1, <2>2
<1>7. RowsKnownIn(d) => RowsKnownIn(e)
  BY <1>4, <1>6, KnowsStays DEF RowsKnownIn
<1> QED
  BY <1>4, <1>5, <1>7

LEMMA RefetchInv ==
  ASSUME SeedInv, opened' = TRUE, NEW k, Refetch(k)
  PROVE  SeedInv' /\ Keeps
<1> DEFINE q == k[2]
           p == k[3]
           fresh == {PlatformCert(c.tcbm, Renewed) : c \in db[k].certs}
           known == {r.raw : r \in db[k].raws}
           Levels(selected) == {RawTcb(x, selected[x].tcbm) : x \in DOMAIN selected}
           NewPool(selected) == [db[k] EXCEPT !.certs = fresh, !.raws = Levels(selected)]
           Rows(selected) ==
               [y \in {pckcert(q, p, x) : x \in DOMAIN selected} |->
                   PckCertRecord(selected[y[4]].cert, selected[y[4]].tcbm, NewPool(selected).ppid)]
<1>1. /\ server = "up" /\ k \in KeysOf(db, "platform")
      /\ server' = server /\ todo' = todo /\ rowDue' = rowDue /\ skipped' = skipped
      /\ chosen' = chosen /\ holder' = holder /\ body' = body /\ list' = list /\ acked' = acked
  BY DEF Refetch, putting
<1>2. DbShape(db) /\ LoaderTypes /\ LockOK
  BY DEF SeedInv
<1>3. k = platform(q, p) /\ IsPool(db[k]) /\ Has(db, platform(q, p))
  BY <1>1, <1>2 DEF DbShape, KeysOf, Has
<1>a. PICK selected \in [known -> fresh] :
          db' = PutAll(Put(db, k, NewPool(selected)), Rows(selected))
  BY DEF Refetch
<1> DEFINE raws == Levels(selected)
           pool == NewPool(selected)
           rows == Rows(selected)
           d == Put(db, platform(q, p), pool)
<1>4. db' = PutAll(d, rows)
  BY <1>3, <1>a
<1>5. IsPool(pool) /\ pool.raws = raws /\ KnowsLevels(db[k], pool)
  <2>1. PICK ppid, fmspc, ca, chain, certs, levels :
            db[k] = Pool(ppid, fmspc, ca, chain, certs, levels)
    BY <1>3 DEF IsPool
  <2>2. \A r \in db[k].raws : \E s \in raws : s.raw = r.raw
    <3> SUFFICES ASSUME NEW r \in db[k].raws PROVE \E s \in raws : s.raw = r.raw
      OBVIOUS
    <3>1. r.raw \in DOMAIN selected
      OBVIOUS
    <3>2. RawTcb(r.raw, selected[r.raw].tcbm) \in raws
      BY <3>1
    <3> QED
      BY <3>2 DEF RawTcb
  <2> HIDE DEF fresh, raws
  <2>3. pool = Pool(ppid, fmspc, ca, chain, fresh, raws)
    <3> DEFINE old == db[k]
    <3>1. pool = [old EXCEPT !.certs = fresh, !.raws = raws]
      BY DEF raws
    <3>2. old = Pool(ppid, fmspc, ca, chain, certs, levels)
      BY <2>1
    <3> HIDE DEF pool, old
    <3> QED
      BY <3>1, <3>2 DEF Pool
  <2>4. Pool(ppid, fmspc, ca, chain, fresh, raws).raws = raws
    BY DEF Pool
  <2> HIDE DEF pool
  <2> QED
    BY <2>2, <2>3, <2>4 DEF IsPool, KnowsLevels
<1>6. DOMAIN rows = {pckcert(q, p, r.raw) : r \in raws}
  <2>1. DOMAIN rows = {pckcert(q, p, x) : x \in DOMAIN selected}
    OBVIOUS
  <2>2. \A x : RawTcb(x, selected[x].tcbm).raw = x
    BY DEF RawTcb
  <2>3. {pckcert(q, p, r.raw) : r \in raws}
        = {pckcert(q, p, RawTcb(x, selected[x].tcbm).raw) : x \in DOMAIN selected}
    OBVIOUS
  <2> HIDE DEF rows, raws, q, p
  <2> QED
    BY <2>1, <2>2, <2>3
<1> HIDE DEF rows, raws, pool, q, p, known, fresh
<1>7. /\ DbShape(d) /\ KnowsMore(db, d)
      /\ KeysOf(d, "pckcert") = KeysOf(db, "pckcert")
      /\ Has(d, platform(q, p)) /\ d[platform(q, p)] = pool
      /\ \A f : Get(d, appraisal(f), {}) = Get(db, appraisal(f), {})
  <2>1. KnowsLevels(db[platform(q, p)], pool)
    BY <1>3, <1>5
  <2> QED
    BY <1>2, <1>5, <2>1, PutPool
<1>8. RowsKnownIn(db) => RowsKnownIn(d)
  BY <1>7, KnowsStays DEF RowsKnownIn
<1> HIDE DEF d
<1>9. /\ DbShape(db') /\ ListsKept(d, db')
      /\ RowsKnownIn(d) => RowsKnownIn(db')
  <2>1. raws \subseteq d[platform(q, p)].raws
    BY <1>5, <1>7
  <2> QED
    BY <1>4, <1>6, <1>7, <2>1, PutRows
<1>10. \A f : Get(db', appraisal(f), {}) = Get(db, appraisal(f), {})
  BY <1>7, <1>9 DEF ListsKept
<1>11. PoliciesIn(db', acked', chosen')
  BY <1>1, <1>10, SameLists DEF SeedInv
<1>12. LoaderTypes' /\ ClosedOK' /\ RowDueOK'
  <2>1. LoaderTypes' /\ ClosedOK'
    BY <1>1, <1>2 DEF LoaderTypes, ClosedOK
  <2>2. ~rowDue'
    BY <1>1, <1>2 DEF LoaderTypes
  <2> QED
    BY <2>1, <2>2 DEF RowDueOK
<1>13. LockOK'
  BY <1>1, <1>2, <1>10 DEF LockOK
<1>14. SeedInv'
  BY <1>1, <1>8, <1>9, <1>11, <1>12, <1>13 DEF SeedInv
<1> QED
  BY <1>1, <1>14 DEF Keeps

-----------------------------------------------------------------------------
(* What is proved of the server *)

\* The records an import has published are as the server needs them.
LEMMA OpenedInv ==
  ASSUME SeedInv, ImportInv, OpenNew \/ \E i \in Importers : OpenImported(i)
  PROVE  SeedInv' /\ Keeps
<1>1. PICK records : DbShape(records) /\ RowsKnownIn(records) /\ Open(records)
  <2>1. CASE OpenNew
    <3>1. \A prefix : KeysOf(EmptyDb, prefix) = {}
      BY DEF EmptyDb, KeysOf
    <3>2. DbShape(EmptyDb) /\ RowsKnownIn(EmptyDb)
      BY <3>1 DEF DbShape, RowsKnownIn
    <3> QED
      BY <2>1, <3>2 DEF OpenNew
  <2>2. CASE \E i \in Importers : OpenImported(i)
    <3>1. PICK i \in Importers : pc[i] = "ok" /\ Open(Entries(Content[read[i]]))
      BY <2>2 DEF OpenImported
    <3>2. Convertible(Content[read[i]])
      BY <3>1 DEF ImportInv, ImporterOK, ReadOK, Past, Accepted
    <3> DEFINE s == Content[read[i]]
    <3> HIDE DEF s
    <3>3. DbShape(Entries(s)) /\ RowsKnownIn(Entries(s))
      BY <3>2, ImportedDb DEF s
    <3> QED
      BY <3>1, <3>3 DEF s
  <2> QED
    BY <2>1, <2>2
<1>2. SeedInv'
  BY <1>1, OpenInv
<1>3. server = "down"
  BY <1>1 DEF Open, SeedInv, ClosedOK
<1> QED
  BY <1>2, <1>3 DEF Keeps

LEMMA ServerInv ==
  ASSUME SeedInv, ImportInv, [Next]_vars
  PROVE  SeedInv' /\ Keeps
<1>1. ASSUME UNCHANGED <<svars, opened>> PROVE SeedInv' /\ Keeps
  <2>1. /\ db' = db /\ server' = server /\ todo' = todo /\ rowDue' = rowDue
        /\ holder' = holder /\ body' = body /\ list' = list /\ acked' = acked
        /\ chosen' = chosen /\ skipped' = skipped /\ opened' = opened
    BY <1>1 DEF svars
  <2>2. LoaderTypes' /\ ClosedOK' /\ RowDueOK' /\ LockOK'
    BY <2>1 DEF SeedInv, LoaderTypes, ClosedOK, RowDueOK, LockOK, Item
  <2>3. SeedInv'
    BY <2>1, <2>2 DEF SeedInv
  <2> QED
    BY <2>1, <2>3, NothingWritten
<1>2. CASE Importing
  BY <1>1, <1>2 DEF Importing
<1>3. CASE OpenNew \/ \E i \in Importers : OpenImported(i)
  BY <1>3, OpenedInv
<1>4. CASE Serving
  <2>1. SeedNext /\ opened' = TRUE
    BY <1>4 DEF Serving, SeedInv, LoaderTypes
  <2> QED
    BY <2>1, StartInv, PassOverInv, LoadPckcertInv, LoadPlatformInv, LoadDocumentInv,
       LoadPolicyInv, ServeInv, StopInv, PutPolicyInv, WritePolicyInv, RefetchInv DEF SeedNext
<1>5. CASE UNCHANGED vars
  BY <1>1, <1>5 DEF vars
<1> QED
  BY <1>2, <1>3, <1>4, <1>5 DEF Next

LEMMA ServerInvariant == Spec => [](SeedInv /\ ImportInv)
<1>1. Init => SeedInv
  BY SeedInitInv DEF Init
<1>2. SeedInv /\ ImportInv /\ [Next]_vars => SeedInv'
  BY ServerInv
<1> QED
  BY <1>1, <1>2, ImportsAsSpecified, ImportInvariant, PTL DEF Spec

(***************************************************************************)
(* A row that GET /pckcert serves is for a level its pool knows, whether   *)
(* the database was imported or new, however often the server was killed   *)
(* while it loaded the seed and whatever was refreshed since, as long as   *)
(* no write of the loader failed (upsert_pckcert_from_json: the pool       *)
(* before the row).                                                        *)
(***************************************************************************)
THEOREM RowsAlwaysKnown == Spec => []RowsKnown
<1>1. SeedInv => RowsKnown
  BY DEF SeedInv, RowsKnownIn, RowsKnown, Knows
<1> QED
  BY <1>1, ServerInvariant, PTL

(***************************************************************************)
(* A policy whose PUT was answered stays in the list of its FMSPC, and an  *)
(* FMSPC the server has set a default for has at most one, whatever other  *)
(* PUTs, restarts and seeds do (put_appraisal_policy under appraisal_lock).*)
(***************************************************************************)
THEOREM PoliciesAlwaysKept == Spec => []PoliciesKept
<1>1. ASSUME SeedInv PROVE PoliciesKept
  <2>1. PoliciesIn(db, acked, chosen)
    BY <1>1 DEF SeedInv
  <2>2. \A a \in acked : \E p \in Get(db, appraisal(a[1]), {}) : p.policy = a[2]
    BY <2>1 DEF PoliciesIn, Listed
  <2>3. ASSUME NEW f \in chosen PROVE Cardinality(DefaultPolicies(f)) <= 1
    <3>1. \A p, q \in DefaultPolicies(f) : p = q
      BY <2>1 DEF PoliciesIn, OneDefault, DefaultPolicies
    <3>2. CASE DefaultPolicies(f) = {}
      BY <3>2, FS_EmptySet
    <3>3. CASE DefaultPolicies(f) # {}
      <4>1. PICK p \in DefaultPolicies(f) : TRUE
        BY <3>3
      <4>2. DefaultPolicies(f) = {p}
        BY <3>1, <4>1
      <4> QED
        BY <4>2, FS_Singleton
    <3> QED
      BY <3>2, <3>3
  <2> QED
    BY <2>2, <2>3 DEF PoliciesKept
<1> QED
  BY <1>1, ServerInvariant, PTL

(***************************************************************************)
(* Loading the seed over a database in use merges the pools (no platform,  *)
(* certificate, level or credentials go) and the lists of policies, and    *)
(* leaves every other record as it is or as the seed itself has it for     *)
(* that key: a served row goes back to the seed's certificate, never to    *)
(* anything else (load_seed_value and the upserts it calls).               *)
(***************************************************************************)
THEOREM SeedOnlyAdds == Spec => SeedKeepsWhatItFinds
<1>1. SeedInv /\ ImportInv /\ [Next]_vars =>
          [server = "loading" =>
               \A k \in DOMAIN db : Has(db', k) /\ KeptAs(k, db[k], db'[k])]_svars
  BY ServerInv DEF Keeps
<1> QED
  BY <1>1, ServerInvariant, PTL DEF Spec, SeedKeepsWhatItFinds
=============================================================================
