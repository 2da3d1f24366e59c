SPECIFICATION MCSpec
CONSTANTS
    t1 = t1
    t2 = t2
    MaxValues = 3
    Blocks = {b1, b2, b3}
    Sites = {1, 2}
    Threads = {0, 7}
    Width = 3
    Sizes = {2}
    null = null
SYMMETRY Symmetry
INVARIANTS RoundTrip LeaksExact
PROPERTIES TreeExact
CHECK_DEADLOCK FALSE
