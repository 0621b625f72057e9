CONSTANTS
    Importers = {i1, i2}
    Sources = {base, ppids, defaults, v3, schema, columns, unknown, version, pem, ids, tcbdoc, tcbtwice, chain, chaintwice, platform2, qe, ppid, orphan, certlevel, mixed, certtwice, rawless, rawtwice, qetwice, iddoc, nonroot, rootcrl, crltwice, uri, uritwice, svn, queuetwice, hash, policytwice}
    base = base
    ppids = ppids
    defaults = defaults
    v3 = v3
    schema = schema
    columns = columns
    unknown = unknown
    version = version
    pem = pem
    ids = ids
    tcbdoc = tcbdoc
    tcbtwice = tcbtwice
    chain = chain
    chaintwice = chaintwice
    platform2 = platform2
    qe = qe
    ppid = ppid
    orphan = orphan
    certlevel = certlevel
    mixed = mixed
    certtwice = certtwice
    rawless = rawless
    rawtwice = rawtwice
    qetwice = qetwice
    iddoc = iddoc
    nonroot = nonroot
    rootcrl = rootcrl
    crltwice = crltwice
    uri = uri
    uritwice = uritwice
    svn = svn
    queuetwice = queuetwice
    hash = hash
    policytwice = policytwice
    Content <- MCContent
    NoSource = NoSource
    Rewrites = {base, ppids}
    MaxChanges = 1
    Seed <- MCSeed
    Tasks = {t1, t2}
    Bodies <- MCBodies
    NoTask = NoTask
    Renewed = Renewed
    seeded = seeded
    MaxStarts = 2
SPECIFICATION Spec
SYMMETRY Symmetry
INVARIANTS PublicationDurable ImportedFaithfully RowsKnown PoliciesKept
PROPERTIES PublishedStays SeedKeepsWhatItFinds
CHECK_DEADLOCK FALSE
