CONSTANTS
    i1 = i1
    i2 = i2
    d1 = d1
    d2 = d2
    d3 = d3
    warm = warm
    main = main
    Images <- TwoImages
    Digests <- ThreeDigests
    Cells <- TwoCells
    WarmCells <- WarmUp
    Batches = 2
    NoRecord <- WithoutRecord
    BadRecords <- BadWarmRecord
    BadRaw <- BadMainRaw
    RetagAt <- BetweenImports
    MaxFaults = 1
    None = None
SPECIFICATION FairSpec
INVARIANT TypeOK
INVARIANT MarkedIsComplete
INVARIANT SummariesComeFirst
PROPERTY BucketGrowsAsAsked
PROPERTY ImportConverges
CHECK_DEADLOCK FALSE
