CONSTANTS
    People = {x1, x2}
    Calls = {q1, q2}
    MaxFailures = 0
    MaxTokens = 2
    MaxDecisions = 2
    NoRow = NoRow
SPECIFICATION AccountsSpec
INVARIANT NeverLockedOut
CHECK_DEADLOCK FALSE
