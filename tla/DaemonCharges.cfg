SPECIFICATION Spec
CONSTANTS
    q1 = q1
    q2 = q2
    q3 = q3
    NoLine = NoLine
    NoTx = NoTx
    Agents = {"seller", "bot"}
    Capabilities <- MCCapabilities
    BroadcasterWired = TRUE
    Requests = {q1, q2, q3}
    Lines <- MCReplays
    Txs <- MCTxs
    LimitedTxs = {"pay"}
    Actor <- MCActor
    Envelopes = {"e1", "e2"}
    Nonces = {"n1", "n2"}
    MaxEntries = 1
    Cap = 1
    MaxTtl = 2
    MaxSkew = 1
    Faults = {"journal"}
    MaxBoots = 2
    MaxClock = 3
SYMMETRY Symmetry
INVARIANTS
    TypeOK
    LandableIsCharged
    LandedWithinCap
    NoReplay
PROPERTY LedgerImplemented
