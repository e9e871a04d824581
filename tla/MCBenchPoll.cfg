CONSTANTS
    l1 = l1
    l2 = l2
    r1 = r1
    r2 = r2
    Launches <- TwoLaunches
    Runs <- OneRun
    Polled <- OnePolled
    Cells = 1
    StaleAfter = 0
    None = None
SPECIFICATION FairSpec
PROPERTY PollingEndsUnlessTorn
PROPERTY ImplementsOutcome
CHECK_DEADLOCK FALSE
