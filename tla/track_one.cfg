SPECIFICATION Spec
CONSTANTS
    BPS = 20
    DocumentedFees <- FlatFees
    SolMints = {"none", "sol"}
    Txs <- SomeTxs
    MaxChain = 4
    Entries <- Quotes3
    MinFee = 1
    Scored = 3
    End = 5
    Lookback = 1
    Slack = 1
    Limit = 1
    MaxPages = 3
    MaxTxs = 2
    EntryNetwork = 1
    ExitNetwork = 1
    Targets = {2, 3}
    None = None
\* The row is done.
CHECK_DEADLOCK FALSE
INVARIANTS
    CompleteCoversWindow
    LabelOrderFree
    ExecutableStricter
