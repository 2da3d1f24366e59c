SPECIFICATION MCSpec
CONSTANTS
    k1 = k1
    k2 = k2
    k3 = k3
    k4 = k4
    v1 = v1
    Keys = {k1, k2, k3, k4}
    Values = {v1, v2}
    Hash <- MCHash
    Sizes = {1, 2, 3}
    Sections = {g1, g2}
    g1 = g1
    SectionHash <- MCSectionHash
    SectionSize = 2
    EntryKeys = {k1, k2}
    EntryHash <- MCEntryHash
    KeySize = 2
    Unset = unset
    Ids = {s1, s2}
    s1 = s1
    ByteValues = {0, 1}
    MaxBytes = 2
    Wrap = 16
    null = null
    FileIds = {f1, f2}
    MaxFile = 2
    Directions = {"READ_WRITE"}
    Packed = {"READ", "WRITE"}
    buf_sz = 2
    FileSizes = {0, 1, 3}
    Partial = FALSE
    MaxSize = 5
    Root = outer
    Tests = {t1, t2}
    SuiteTests <- MCSuiteTests
    outer = outer
    inner = inner
    t1 = t1
    t2 = t2
SYMMETRY Symmetry
INVARIANTS AllKeysOnce CopiesExactly CountsExact
PROPERTIES MapSpec EntriesMatch MemoryExact FilesExact
CHECK_DEADLOCK FALSE
