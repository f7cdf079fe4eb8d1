SPECIFICATION Spec
CONSTANTS
    BPS = 20
    DocumentedFees <- FlatFees
    SolMints = {"none", "sol"}
    Events <- SmallEvents
    Budgets = {1, 2, 5, 24}
    MaxSpent = 50
\* The budget is spent.
CHECK_DEADLOCK FALSE
INVARIANTS
    NoFreeMoney
PROPERTIES
    BudgetCoversFees
