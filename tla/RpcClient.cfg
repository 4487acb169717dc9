SPECIFICATION FairSpec
CONSTANTS
    c1 = c1
    c2 = c2
    i1 = i1
    i2 = i2
    NoCall = NoCall
    NoId = NoId
    Unset = Unset
    Calls <- TwoCalls
    Ids <- TwoIds
    Drawn <- OneEach
    Kinds <- BothKinds
    Default = 1
    Options <- Timeouts
    SharedDefaults = FALSE
INVARIANTS
    TypeOK
    PendingExact
    TimerFollowsFetch
    ValueIsEarned
    NoDeadlineIsKept
PROPERTIES
    SilentAfterAbort
    CancelEndsTask
    CallsSettle
CHECK_DEADLOCK FALSE
