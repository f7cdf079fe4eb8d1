SPECIFICATION Spec
CONSTANTS
    m1 = m1
    m2 = m2
    c1 = c1
    c2 = c2
    t1 = t1
    t2 = t2
    Mints <- DeepMints
    Txs <- DeepTxs
    MintOf <- DeepMintOf
    CreateTx <- DeepCreateTx
    DevBuys <- OnlyM1
    TicksPerSecond = 2
    Age = 2
    MaxTime = 4
    CollectFor = 2
    MaxMints = 1
    Sweeps = 3
    TxLimit = 3
    Slack = 1
    MinPct = 60
    NoState <- NoTx
    None = None
SYMMETRY Symmetry
INVARIANTS
    ObservedByBoundary
