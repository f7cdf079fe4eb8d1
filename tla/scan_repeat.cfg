SPECIFICATION Spec
CONSTANTS
    m1 = m1
    m2 = m2
    c1 = c1
    c2 = c2
    t1 = t1
    t2 = t2
    Mints <- DeepMints
    Txs <- DeepTxs
    MintOf <- DeepMintOf
    CreateTx <- DeepCreateTx
    DevBuys <- OnlyM1
    TicksPerSecond = 1
    Age = 1
    MaxTime = 2
    CollectFor = 1
    MaxMints = 2
    Sweeps = 1
    TxLimit = 3
    Slack = 1
    MinPct = 60
    NoState <- OnlyT2
    None = None
PROPERTIES
    ActionImmutable
