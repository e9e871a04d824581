CONSTANTS
    i1 = i1
    i2 = i2
    d1 = d1
    d2 = d2
    d3 = d3
    warm = warm
    main = main
    Images <- OneImage
    Digests <- TwoDigests
    Cells <- TwoCells
    WarmCells <- WarmUp
    Batches = 1
    NoRecord <- NoneBad
    BadRecords <- NoneBad
    BadRaw <- NoneBad
    RetagAt <- Places
    MaxFaults = 0
    None = None
SPECIFICATION Spec
INVARIANT AlreadyImportedIsTrue
CHECK_DEADLOCK FALSE
