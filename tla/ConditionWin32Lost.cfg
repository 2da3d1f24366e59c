SPECIFICATION FairSpec
CONSTANTS
    Waiters = {w1, w2}
    Signallers = {s1}
    MaxSignals = 0
    MaxBroadcasts = 2
PROPERTY BroadcastWakesAll
CHECK_DEADLOCK FALSE
