SPECIFICATION FairSpec
CONSTANTS
    sync = sync
    stream = stream
    short = short
    None = None
    Requests <- Mixed
    MaxTokens <- Limits
    Streaming = {stream}
    WithTools = {short}
    MaxWaiting = 2
    SafetyCap = 4
    TokenBound = 5
INVARIANTS
    CancelFindsLive
    BlocksReturned
    TokensBounded
PROPERTIES
    SyncReturns
    CancelEnds
CHECK_DEADLOCK FALSE
