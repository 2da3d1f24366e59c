SPECIFICATION MCSpec
CONSTANTS
    c1 = c1
    c2 = c2
    h1 = h1
    h2 = h2
    ClientHandle <- MCClientHandle
    Clients = {c1, c2}
    Workers = {w1, w2}
    CommandWorkers = {w2}
    Creator = c1
    Joiners = {c1}
    Handles = {h1, h2, h3, h4}
    Nobody = nobody
    MaxPosts = 2
    OsFails = TRUE
    RegisteredExit = FALSE
    QuitFirst = TRUE
    left = left
    right = right
    far = far
    Senders = {left, right, far}
    Sends <- MCSends
    MessageIds = {3, 4}
    QUIT = 1
    STOP = 2
    NoMessage = none
    MaxSends = 3
    MaxQuits = 1
    MaxStops = 1
INVARIANTS JoinedHasHandled RegistryExact SendIsTruthful
PROPERTIES MutexStays CallsReturn
CHECK_DEADLOCK FALSE
