CONSTANTS
    c1 = c1
    c2 = c2
    Channels <- TwoChannels
    PerChannel = 2
    Timeout = 2
SPECIFICATION Spec
SYMMETRY ChannelSymmetry
INVARIANT TypeOK
INVARIANT DeadlinePerUnanswered
INVARIANT NoTimerOutlivesChannel
INVARIANT NoOverdueRequest
INVARIANT ExpiredStreamIsReset
PROPERTY ImplementsContract
CHECK_DEADLOCK FALSE
