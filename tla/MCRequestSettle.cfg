CONSTANTS
    c1 = c1
    c2 = c2
    Channels <- OneChannel
    PerChannel = 3
    Timeout = 2
SPECIFICATION FairSpec
PROPERTY RequestsSettle
CHECK_DEADLOCK FALSE
