SPECIFICATION Spec
CONSTANTS
    c1 = c1
    c2 = c2
    i1 = i1
    i2 = i2
    NoCall = NoCall
    NoId = NoId
    Calls <- TwoCalls
    Ids <- OneId
    Tools <- DuplicatedTools
    MaxAge = 2
    TTL = 1
    RuntimeLimit = FALSE
    MayStop = FALSE
    ReleasedIdsReused = FALSE
INVARIANTS
    DuplicateNeverRuns
