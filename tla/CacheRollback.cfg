SPECIFICATION Spec
CONSTANTS
    c1 = c1
    c2 = c2
    NoEntry = NoEntry
    NoReply = NoReply
    Accounts = {"bot", "owner"}
    Existing = {"bot", "owner"}
    Agents = {"bot"}
    Permissions = {"perm"}
    Policies = {"look", "garbled"}
    Valid = {"look"}
    Financial = {}
    MaxVersion = 2
    MaxRevisions = 3
    FinancialMs = 0
    NonFinancialMs = 0
    Strict = FALSE
    GraceMs = 1
    Calls = {c1, c2}
    StaleNodes = TRUE
    MaxLatency = 1
    MaxClock = 1
SYMMETRY Symmetry
INVARIANTS
    TypeOK
    VersionNamesPolicy
PROPERTIES
    ServedNeverRollsBack
