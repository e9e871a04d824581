CONSTANTS
    l1 = l1
    l2 = l2
    r1 = r1
    r2 = r2
    Launches <- TwoLaunches
    Runs <- TwoRuns
    Polled <- OnePolled
    Cells = 1
    StaleAfter = 0
    None = None
SPECIFICATION Spec
INVARIANT OomVerdictTruthful
CHECK_DEADLOCK FALSE
