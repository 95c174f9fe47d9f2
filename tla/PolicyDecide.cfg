SPECIFICATION Spec
CONSTANTS
    None = None
    Malformed = Malformed
    Chars <- MCChars
    Agent = "agent"
    AgentPermission = "active"
    ChainId = "xpr"
    MaxRules = 3
    RuleNames = {"small", "listed", "any", "vote", "rated", "nomallory", "embedded", "strange", "flagged", "bothread"}
    Transactions <- MCTransactions
    Rows <- MCRows
    RowsOf <- MCRowsOf
INVARIANTS
    TypeOK
    FailedReadsOnlyRefuse
    BatchIsItsParts
    CapIsForTheSum
    DenyWinsAnywhere
    NothingLeftUnasked
CHECK_DEADLOCK FALSE
