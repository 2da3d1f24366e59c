SPECIFICATION MCSpec
CONSTANTS
    s1 = s1
    s2 = s2
    c1 = c1
    c2 = c2
    Clients = {c1, c2}
    Sockets = {s1, s2}
    Fds = {1, 2}
    Reused = FALSE
    MaxCalls = 3
    MaxArrivals = 1
    MaxOpens = 1
    Watched = TRUE
    Room = 2
    MaxSize = 3
    MaxTime = 1
    MaxBytes = 4
INVARIANTS ServedIsAddedNotRemoved StopComesFirst StreamInOrder
PROPERTIES CalledWithData EverythingReturns
CHECK_DEADLOCK FALSE
