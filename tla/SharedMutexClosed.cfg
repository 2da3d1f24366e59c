SPECIFICATION MCSpec
CONSTANTS
    t1 = t1
    t2 = t2
    t3 = t3
    m1 = m1
    m2 = m2
    Threads = {t1, t2, t3}
    MaxSets = 3
    Waiters = {w1, w2, w3}
    Signallers = {s1}
    MaxSignals = 2
    MaxBroadcasts = 2
    Object <- MCObject
    Objects = {m1, m2}
    Semaphores = {n1, n2, n3}
    Nobody = none
    MaxDepth = 2
    LockExisting = FALSE
    CloseInUse = TRUE
    Holders = {p1, p2, p3}
    Pointees = {o1, o2}
    Nil = nil
    UnguardedLocks = FALSE
INVARIANT MutualExclusion
