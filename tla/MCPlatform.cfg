CONSTANTS
    People = {x1, x2}
    Calls = {q1, q2}
    MaxFailures = 1
    MaxTokens = 2
    MaxDecisions = 2
    NoRow = NoRow
    SpaceIds = {a1}
    Changes = {x1, x2}
    Keys = {k1, k2}
    RecordIds = {r1}
    Links = {l1}
    Emails = {e1, e2}
    Teammates = {e1}
    IsDev = TRUE
    MaxKeys = 1
    Callers = {q1, q2}
    Missing = Missing
    Gone = Gone
    Connections = {c1}
    Runs = {q1, q2}
    MaxIssued = 3
    NoToken = NoToken
    NoRun = NoRun
    Messages = {x1, x2}
    Instances = {i1}
    Handlers = {q1, q2}
    MaxSeen = 1
    HistoryLimit = 1
    MaxDeliveries = 2
    MaxFaults = 1
    Dm = Dm
    Nothing = Nothing
    AccountIds = {"p1", "p2"}
    Owners = {x1, x2}
    Serving = {q1, q2}
    Workspace = Workspace
    System = System
    Unknown = Unknown
    n1 = n1
    n2 = n2
    Blank = Blank
    AppSpecs <- MCAppSpecs
    SeedBatches <- MCSeedBatches
    Typed <- MCTyped
    Numerals = {}
    MAX_SEED_RECORDS = 2
    MaxStored = 3
    Tenants = {"w1", "w2"}
    NameRank <- MCNameRank
    TeamBounds <- MCTeamBounds
    PageSize = 1
    DayHours = 2
    WindowLength = 1
    MaxPeople = 3
    MaxRuns = 1
    MaxMoment = 2
    BugIds = {"b1"}
    Triages = {q1, q2}
    NoBug = NoBug
    MaxStamps = 4
SYMMETRY MCSymmetry
CONSTRAINTS MCUnraced MCFewTroubles MCSettled MCUndisturbed MCCurrent MCRemembered MCOneTouched MCModest
SPECIFICATION PlatformSpec
INVARIANTS
    PlatformTypeOK
    LockOutNeedsOverlap
    DecisionsStand
    AuthorityEnds
    TrialOnce
    SpacesKeepWork
    LinkUsedUp
    ConnectionsHold
    
    SuperAdminTellsTheTruth
CHECK_DEADLOCK FALSE
