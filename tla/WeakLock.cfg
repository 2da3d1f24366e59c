SPECIFICATION Spec
CONSTANTS
    Threads = {t1, t2}
    Objects = {o1, o2}
    Nil = nil
    UnguardedLocks = TRUE
INVARIANT InUseIsAlive
CHECK_DEADLOCK FALSE
