SPECIFICATION FairSpec
CONSTANTS
    c1 = c1
    c2 = c2
    NoEntry = NoEntry
    NoReply = NoReply
    Accounts = {"bot"}
    Existing = {"bot"}
    Agents = {"bot"}
    Permissions = {"perm"}
    Policies = {"look", "pay", "garbled"}
    Valid = {"look", "pay"}
    Financial = {"pay"}
    MaxVersion = 2
    MaxRevisions = 2
    FinancialMs = 0
    NonFinancialMs = 1
    Strict = TRUE
    GraceMs = 0
    Calls = {c1, c2}
    StaleNodes = FALSE
    MaxLatency = 1
    MaxClock = 2
INVARIANTS
    ServedIsRecent
PROPERTIES
    CacheConverges
