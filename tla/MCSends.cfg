SPECIFICATION Spec
CONSTANTS
    c1 = c1
    e1 = e1
    e2 = e2
    Keys = {"k", "l"}
    Collections = {c1}
    Environments = {e1, e2}
    EnvCollection <- TheEnvCollection
    None = None
    Global = "global"
    Workspace = "workspace"
    Mask = "mask"
    Drafts <- TheDrafts
    PreScripts <- ThePreScripts
    PostScripts <- ThePostScripts
    Edits <- TheEdits
    InitialRows <- TheRows
    Retentions <- TheRetentions
    MaxSends = 2
    MaxEffort = 7
    MaxClock = 1
    RequestsIn <- TheRequests
    CollectionName <- TheNames
    Names = {"api"}
    Iterations = {0, 2}
    Rows = {0, 1}
    MaxParallel = 2
INVARIANTS
    SecretsStayOutOfHistory
    ResultsAreAligned
    OneWaveAtATime
PROPERTIES
    WritesAreRead
    OnlyScriptedKeysChange
    RetentionKeepsTheNewest
CHECK_DEADLOCK FALSE
