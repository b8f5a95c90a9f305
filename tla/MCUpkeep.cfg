SPECIFICATION MCSpec
CONSTANTS
    Backends = {"b1", "b2", "b3"}
    Threads = {"t1", "t2"}
    PoolSize = 1
    MaxPools = 2
    Atoms = {"a1", "a2"}
    Candidates = {"c1"}
    Events = {"e1"}
    MaxRows = 1
    MaxPages = 2
    Disk = {0, 4, 8}
    Margin = 1
    SoftLimit = 2
    HardLimits = {3, 99}
    NoLimit = 99
    MinWal = 2
    Budget = 1
    Pages = {"p", "q", "r"}
    Hopeless = {"p"}
    Limit = 2
    MaxMarks = 2
    Facts = {"a2"}
    Docs = {"d1", "d2"}
    Blank = "empty"
    Reviewers = {"r1", "r2"}
    Contradicts <- MCContradicts
    Repeats <- MCRepeats
    MaxAtoms = 1
    BatchSize = 1
    MaxAttempts = 2
    MaxDocEdits = 1
    Users = {"u1", "u2"}
    MaxSpawns = 2
    MaxCalls = 2
    Paths = {"p1", "p2"}
    Pollers = {"s1"}
    Requests = {}
    Kinds = {"text", "binary", "locked"}
    MaxFileEdits = 2
    MaxStops = 1
CHECK_DEADLOCK FALSE
INVARIANTS SharedByAll ReviewIsTrue
PROPERTIES EveryOperationEnds NothingUsedIsCollected ExpiredIsCollected SpaceComesBack NothingIsLeftBehind ReviewEnds
