SPECIFICATION Spec
CONSTANTS
    s1 = s1
    s2 = s2
    s3 = s3
    OldKey = OldKey
    Nobody = Nobody
    BuysRam = TRUE
    MaxFaults = 1
    Sessions = {s1, s2, s3}
    Faults = {"late"}
SYMMETRY Symmetry
INVARIANTS
    KeyNotLost
CHECK_DEADLOCK FALSE
