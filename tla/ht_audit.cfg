SPECIFICATION Spec
CONSTANTS
    f1 = f1
    none = none
    MaxSigs = 3
    Forked = {f1}
    Cut = 0
    Limit = 1
    MaxPages = 3
    MaxTxs = 1
    Sweeps = 2
    MinPercent = 50
    None = none
\* The audit ends (AuditEnds).
CHECK_DEADLOCK FALSE
INVARIANTS
    TypeOK
    ValidCoversWindow
    AuditedConfirmed
    NoPartialCredit
PROPERTIES
    AuditEnds
