SPECIFICATION Spec
CONSTANTS
    BPS = 20
    DocumentedFees <- SomeFees
    SolMints = {"absent", "sol"}
    Absent = "absent"
    Body = 254
    NonHuman = {"system"}
    Dust = 1
    Age = 3
    Half = 1
    Bin = 1
    LastBin = 2
    Nominal = 2
    SizeUnit = 10
    Fast = 1
    None = None
    Mints = {"A", "B"}
    Txs <- SomeTxs
    LaunchSig <- Launched
    Creator <- Creators
    InitialBuy <- Initial
    Repeats = {"A"}
    Collect = 3
    MaxMints = 2
    MaxClock = 6
    Ticket = 10
    Levels = {0, 1, 2}
    Thresholds <- Ranks
    Hash <- Hashes
    MaxCandidates = 1
    RandomControls = 1
    WatchAudit = 1
    RejectAudit = 1
    NearMisses = 1
\* The run is over.
CHECK_DEADLOCK FALSE
INVARIANTS
    PopulationComplete
    PackagedTapeIsInput
    ControlsIgnoreScores
    DiagnosticsConsistent
    StreamAgreesWithFetch
    TailReadsWritten
PROPERTY
    ActionImmutable
