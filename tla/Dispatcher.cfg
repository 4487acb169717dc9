SPECIFICATION Spec
CONSTANTS
    c1 = c1
    c2 = c2
    i1 = i1
    i2 = i2
    NoCall = NoCall
    NoId = NoId
    Calls <- TwoCalls
    Ids <- OneId
    Tools <- AllTools
    MaxAge = 2
    TTL = 1
    RuntimeLimit = TRUE
    MayStop = TRUE
    ReleasedIdsReused = FALSE
INVARIANTS
    TypeOK
    NoLostTask
    SignalAndStatusAgree
    GuardArmedWhileWaiting
    CleanupAfterEnd
    StreamsStayHome
PROPERTIES
    ResultsKept
    ImplementsContract
SYMMETRY CallSymmetry
