CONSTANTS
    Servers = {s1, s2}
    Requests = {q1}
    Periods = {1, 2}
    Day = 3
    MaxClock = 3
    MaxCrashes = 1
    Absent = Absent
    Nobody = Nobody
    TaskIds = {t1}
    MaxEdits = 1
    Runs = {}
    Costs = {1}
    Refs <- MCRefs
    NoRef = NoRef
    NewGrants = {}
    MaxGrants = 7
    MaxTime = 2
    Sessions = {c1}
    Subs = {b1}
    MaxPeriod = 1
    MaxVersion = 2
    MaxFailures = 1
    Handlers = {h1}
    PackCredits = 1
    PlanCredits = 2
    PeriodLength = 1
    SeatCounts = {5}
    FREE_SEATS = 4
    SEAT_BONUS_CREDITS = 1
    SEAT_BONUS_CAP = 2
SPECIFICATION Spec
INVARIANTS
    TasksTypeOK
    TaskRunsAreWanted
    TaskIntentKept
PROPERTIES
    DueTasksRun
    PaymentsAreCredited
CHECK_DEADLOCK FALSE
