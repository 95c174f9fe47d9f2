SPECIFICATION Spec
CONSTANTS
    None = None
    Malformed = Malformed
    Chars <- MCChars
    Agent = "agent"
    AgentPermission = "active"
    ChainId = "xpr"
    Accounts = {"author", "heir", "agent", "other"}
    Existing = {"author", "heir", "agent", "other"}
    Agents = {"agent", "other"}
    Permissions = {"active"}
    Author = "author"
    Heir = "heir"
    Defaults <- MCDefaults
    Palette = {}
    Heights = {3}
    Settings <- MCFewSettings
    Routes = {}
    MatchPaths <- MCMatchPaths
    FieldPaths <- MCFieldPaths
    MatchOrder <- MCMatchOrder
    slug <- MCSlug
    Rounded <- MCRounded
    Documents <- MCDocuments
    Policies <- MCDocuments
    Samples <- MCSamples
    Evidences <- MCEvidences
    MaxUnits = 1000
    DocumentNames = {}
    NewNodes = {}
    Initially <- MCInitially
    Written <- MCWritten
    First = "tiny"
    Second = "closed"
    Other = "between"
    Touched = {"agent"}
    MaxVersion = 3
    MaxRevisions = 3
    MaxEdits = 1
    MaxWrites = 2
PROPERTIES PushReplacesWhatWasRead QuietLeaveLosesNothing
CHECK_DEADLOCK FALSE
