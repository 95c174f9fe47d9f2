SPECIFICATION Spec
CONSTANTS
    None = None
    Malformed = Malformed
    Chars <- MCChars
    Agent = "agent"
    AgentPermission = "active"
    ChainId = "xpr"
    MaxRules = 2
    RuleNames = {"listed", "any"}
    Transactions <- MCTransactions
    Rows <- MCRows
    RowsOf <- MCRowsOf
INVARIANTS
    ProvidersOnlyNarrow
CHECK_DEADLOCK FALSE
