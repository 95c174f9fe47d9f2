SPECIFICATION AllSpec
CONSTANTS
    NoLine = NoLine
    NoTx = NoTx
    Agents = {"seller"}
    Capabilities <- MCCapabilities
    BroadcasterWired = TRUE
    Requests = {"c1", "c2"}
    Turns = {"t1"}
    ChatTools <- MCChatTools
    McpTools <- MCMcpTools
    Ttl = 2
    MaxToolRounds = 1
    Lines <- MCLines
    Txs = {"pay", "ping"}
    LimitedTxs = {"pay"}
    Actor <- MCActor
    Envelopes = {"e1"}
    Nonces = {"c1", "c2"}
    MaxEntries = 2
    Cap = 1
    MaxTtl = 2
    MaxSkew = 1
    Faults = {"audit"}
    MaxBoots = 2
    MaxClock = 0
CHECK_DEADLOCK FALSE
INVARIANTS
    TurnsTypeOK
    ToolResultIsTrue
    LogTellsTheSameStory
    TamperEvident
PROPERTIES
    EveryTurnEnds
    EveryLineAnswered
    ReservationsSettle
