CONSTANTS
    Runs = {}
    Costs = {1}
    Refs <- MCRefs
    NoRef = NoRef
    NewGrants = {}
    MaxGrants = 7
    MaxTime = 2
    Sessions = {}
    Subs = {s1}
    MaxPeriod = 1
    MaxVersion = 2
    MaxFailures = 0
    Handlers = {h1}
    PackCredits = 1
    PlanCredits = 2
    PeriodLength = 1
    SeatCounts = {5}
    FREE_SEATS = 4
    SEAT_BONUS_CREDITS = 1
    SEAT_BONUS_CAP = 2
SPECIFICATION BillingSpec
INVARIANTS
    MirrorAgrees
CHECK_DEADLOCK FALSE
