CONSTANTS
    Servers = {s1}
    Requests = {q1}
    Periods = {2}
    Day = 3
    MaxClock = 5
    MaxCrashes = 0
    Absent = Absent
    Nobody = Nobody
    ExportIds = {x1}
    Resolution = 2
    Window = 3
    MaxRowsPerRun = 2
    MaxCopies = 2
SPECIFICATION ExportsSpec
INVARIANT HistoryOnce
CHECK_DEADLOCK FALSE
