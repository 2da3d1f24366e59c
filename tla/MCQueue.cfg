SPECIFICATION MCSpec
CONSTANTS
    Owner = owner
    Producers = {p1, p2}
    NoThread = nobody
    MSG_ID_QUIT = 1
    MaxMessages = 4
    MessageIds <- MCMessageIds
    Filters <- MCFilters
    NS = 3
    Wrap = 16
    Timeouts <- MCTimeouts
    Starts <- MCStarts
    MaxTicks = 6
    SetsBack = TRUE
    MaxTime = 4
    MaxCalls = 5
    MaxBacks = 2
INVARIANTS NoLostWakeup NoneLostNoneTwice WaitsItsTime
PROPERTIES MailboxSpec FramesFollow
