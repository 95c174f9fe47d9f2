SPECIFICATION Spec
CONSTANTS
    c1 = c1
    c2 = c2
    NoEntry = NoEntry
    NoReply = NoReply
    Accounts = {"bot"}
    Existing = {"bot"}
    Agents = {"bot"}
    Permissions = {"perm"}
    Policies = {"look", "pay"}
    Valid = {"look", "pay"}
    Financial = {"pay"}
    MaxVersion = 1
    MaxRevisions = 3
    FinancialMs = 1
    NonFinancialMs = 2
    Strict = TRUE
    GraceMs = 0
    Calls = {c1, c2}
    StaleNodes = FALSE
    MaxLatency = 1
    MaxClock = 0
PROPERTIES
    DisableIsNotUndone
