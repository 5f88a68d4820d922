CONSTANTS
    Servers = {s1, s2}
    Requests = {q1}
    Periods = {2}
    Day = 3
    MaxClock = 4
    MaxCrashes = 1
    Absent = Absent
    Nobody = Nobody
    ExportIds = {x1}
    Resolution = 2
    Window = 3
    MaxRowsPerRun = 2
    MaxCopies = 2
    Accounts = {a1, a2}
    Readings <- MCReadings
    NotMeasured = NotMeasured
    Runs = {}
    Costs = {1}
    Refs <- MCRefs
    NoRef = NoRef
    NewGrants = {}
    MaxGrants = 7
    MaxTime = 2
    Sessions = {c1}
    Subs = {b1}
    MaxPeriod = 2
    MaxVersion = 2
    MaxFailures = 1
    Handlers = {s1, s2}
    PackCredits = 1
    PlanCredits = 2
    PeriodLength = 1
    SeatCounts = {5}
    FREE_SEATS = 4
    SEAT_BONUS_CREDITS = 1
    SEAT_BONUS_CAP = 2
CONSTRAINT MCFewPayments
SYMMETRY MCSymmetry
SPECIFICATION Spec
INVARIANTS
    AutomationTypeOK
    ExportedExactlyOnce
    AlertsAreToldOnce
    AckedMeansCredited
    RenewalIsAtomic
PROPERTIES
    CreditsAtMostOnce
CHECK_DEADLOCK FALSE
