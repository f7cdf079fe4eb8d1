SPECIFICATION Spec
CONSTANTS
    ScanRuns = {1, 2}
    OutcomeRuns = {3}
    MaxAttempts = 2
    MaxJobs = 4
    RowKinds <- FourKinds
    Scanners <- BothScanners
    Horizons <- TwoHorizons
    MaxRows = 1
    MaxTime = 2
    MaxKills = 1
    None = None
\* The runs are used up.
CHECK_DEADLOCK FALSE
INVARIANTS
    PushOnHead
    OutcomeOfMaturedRow
    BoardBacked
PROPERTIES
    EvidenceAppendOnly
