CONSTANTS
    r1 = r1
    r2 = r2
    x1 = x1
    x2 = x2
    ann = ann
    bob = bob
    Runs <- MCRuns
    Costs = {1, 3}
    Refs = {}
    NoRef = NoRef
    NewGrants <- MCNewGrants
    MaxGrants = 3
    MaxTime = 3
    Inputs <- MCInputs
    Charges <- MCCharges
    Cards = {k1}
    Clicks = {c1, c2, c3}
    Users = {ann, bob}
    RequesterOf <- MCRequesterOf
    AiRuns = {x1, x2}
    ConfirmVia <- MCConfirmVia
    ToolCalls = {"read", "write", "agreed"}
    Changing = {"write", "agreed"}
    Confirmed = {"agreed"}
    Batches <- MCBatches
    MaxTurns = 2
    MAX_TRUNCATED_RETRIES = 1
    MaxWindows = 1
    NoCall = NoCall
    Turns = {"t1", "t2", "t3"}
    ThreadsSpoken = {"main", "side"}
    ThreadOf <- MCThreadOf
    BranchOf <- MCBranchOf
    NoThread = NoThread
    Apps = {a1}
    AppActions = {1, 2, 3}
    SERVER_ROUTE_THRESHOLD = 0
    MAX_ACTIONS_PER_APP = 2
    MaxLosses = 1
    AppsInOrder <- MCAppsInOrder
    Surfaces <- MCSurfaces
    BaseName <- MCBaseName
    MAX_TOOL_NAME_LENGTH = 2
    MAX_CANDIDATE_TOOLS = 4
    MAX_BRIDGED_TOOLS = 3
    ROUTE_THRESHOLD = 1
    JobIds = {"j1"}
    NoJob = "NoJob"
    NewSpends <- MCSpends
    DayLength = 2
    MAX_RANGE = 2
    TOP = 2
    MaxInstant = 3
    MaxMetered = 2
    Servers = {r1, r2}
    Requests = {q1}
    Periods = {2}
    Day = 3
    MaxClock = 4
    MaxCrashes = 1
    Absent = Absent
    Nobody = Nobody
    RuleIds = {u1}
    RuleKinds <- MCRuleKinds
    MaxActionsPerRun = 2
    DailyActionCap = 3
    MaxBreaches = 2
    FactKeys = {"f1", "f2"}
    Statements = {"short", "long"}
    Length <- MCLength
    PROMPT_BUDGET = 2
    Rememberers = {r1, r2}
    MaxWrites = 3
    NoFact = NoFact
    Hits = {"h1", "h2", "h3", "h4", "h5"}
    LIMIT = 2
    OldGrants = {1, 2, 3}
    Tenant = {"w1", "w2"}
    FACTOR = 4
    MaxUsed = 4
SYMMETRY MCSymmetry
CONSTRAINT MCNoneSlipped
SPECIFICATION AgentSpec
INVARIANTS
    AgentTypeOK
    OverdrawNeedsOvertaking
    LedgerAddsUp
    PlanKeepsPromises
    UncontestedDecidedOnce
    RequesterDecides
    CardTellsTheTruth
    ChangesAreConsented
    RunsAreMetered
    NudgedOnce
    ToolsetAgrees
    ReportAddsUp
    CapsHold
    FactsStand
    ChangesAreAuthorised
    AuditTellsTheTruth
PROPERTIES
    BalanceClimbsOnlyByGrant
    ExpiredCreditsStayUnspent
    AppsStayAttached
CHECK_DEADLOCK FALSE
