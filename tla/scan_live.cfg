SPECIFICATION FairSpec
CONSTANTS
    m1 = m1
    m2 = m2
    c1 = c1
    c2 = c2
    t1 = t1
    t2 = t2
    Mints <- WideMints
    Txs <- WideTxs
    MintOf <- WideMintOf
    CreateTx <- WideCreateTx
    DevBuys <- OnlyM1
    TicksPerSecond = 1
    Age = 1
    MaxTime = 3
    CollectFor = 1
    MaxMints = 2
    Sweeps = 2
    TxLimit = 1
    Slack = 1
    MinPct = 98
    NoState <- NoTx
    None = None
INVARIANTS
    AuditedRowIsLatest
    TapeFromFirstDecision
PROPERTIES
    EveryLaunchDecided
    ScanFinishes
