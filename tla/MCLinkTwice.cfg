CONSTANTS
    SpaceIds = {a1}
    Changes = {x1}
    Keys = {k1}
    RecordIds = {r1}
    Links = {l1}
    Emails = {e1}
    Teammates = {e1}
    IsDev = FALSE
    MaxKeys = 1
    Callers = {q1, q2}
    Missing = Missing
    Gone = Gone
SPECIFICATION SpacesSpec
INVARIANT LinkRedeemedOnce
CHECK_DEADLOCK FALSE
