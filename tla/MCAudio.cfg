SPECIFICATION MCSpec
CONSTANTS
    single = single
    multi = multi
    d1 = d1
    d2 = d2
    Clients = {c1, c2}
    SoundData = {d1, d2}
    Sounds = {single, multi}
    Multitracks = {multi}
    Tracks <- MCTracks
    Late = TRUE
    Throws = TRUE
    MaxRequests = 2
    long = long
    short = short
    wide = wide
    TaskData = {long, short, wide}
    TaskBytes <- MCTaskBytes
    Wanted <- MCWanted
    MaxSources = 2
    PerSource = 2
    TaskRequests = 4
    a = a
    b = b
    e = e
    x = x
    SequenceData = {a, b, e, x}
    Length <- MCLength
    Format <- MCFormat
    Sizes = {2, 3}
    MaxSounds = 3
INVARIANT NothingLost
PROPERTIES AnswersExact NothingSkipped OneAfterTheOther EverythingEnds
CHECK_DEADLOCK FALSE
