SPECIFICATION AuthoringSpec
CONSTANTS
    None = None
    Malformed = Malformed
    Chars <- MCChars
    Agent = "agent"
    AgentPermission = "active"
    ChainId = "xpr"
    Defaults <- MCDefaults
    Palette <- MCPalette
    Heights <- MCHeights
    Settings <- MCSettings
    Routes <- MCRoutes
    MatchPaths <- MCMatchPaths
    FieldPaths <- MCFieldPaths
    MatchOrder <- MCMatchOrder
    slug <- MCSlug
    Rounded <- MCRounded
    Documents <- MCDocuments
    Samples <- MCSamples
    Evidences <- MCEvidences
    MaxUnits = 1000
    DocumentNames = {"listed", "barred", "between", "closed", "tiny", "thirds"}
    NewNodes = {"booland", "boolor", "aggregate", "inlist", "decision"}
    MaxEdits = 2
INVARIANTS GraphOK RoundTrip DaemonAccepts  
CHECK_DEADLOCK FALSE
