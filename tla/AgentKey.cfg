SPECIFICATION KeySpec
CONSTANTS
    s1 = s1
    s2 = s2
    c1 = c1
    c2 = c2
    OldKey = OldKey
    Nobody = Nobody
    MaxFaults = 2
    BuysRam = TRUE
    Sessions = {s1, s2}
    Faults = {"read", "disk", "crash", "late", "reuse", "custom", "rotate", "edit", "replace"}
    Checks = {c1, c2}
    FreshnessMs = 2
    NegativeMs = 1
    MaxLatency = 1
    HeadLag = 1
    MaxClock = 3
    MaxAttempts = 3
SYMMETRY Symmetry
INVARIANTS
    KeyTypeOK
    ActiveKeyIsOnChain
    KeyKept
    CompanionAgreesWithCli
    AuthorizedIsRecent
CHECK_DEADLOCK FALSE
