CONSTANTS
    r1 = r1
    r2 = r2
    Runs <- MCRuns
    Costs = {1, 3}
    Refs = {}
    NoRef = NoRef
    NewGrants <- MCNewGrants
    MaxGrants = 3
    MaxTime = 3
SYMMETRY MCSymmetry
SPECIFICATION LedgerSpec
INVARIANT NoOverdraw
CHECK_DEADLOCK FALSE
