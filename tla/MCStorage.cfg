SPECIFICATION Spec
CONSTANTS
    Openers = {"o1", "o2"}
    Rows = {1, 2}
    Files <- MCFiles
    MaxCrashes = 2
    Tenants = {"n1", "n2"}
    OldTabs = {"raw", "meta"}
    OldIds = {1}
    Backup <- MCBackup
    MaxPurges = 1
    Legacies <- MCLegacies
    Words = {"a", "b", "x", "atoms", "episodes", "meta"}
    Prefixes <- MCPrefixes
    RowIds = {"r1"}
    MaxPlans = 2
    Calls = {c1, c2}
    Blocks = {k1, k2}
    Fields = {"f1"}
    MaxId = 5
    MaxMessages = 4
    Tables = {"nodes", "raw", "candidates", "atoms", "entities", "pages", "active", "journal", "meta", "episodes", "digests"}
    Namespaces = {n1, n2}
    PairedIds = {i1, i2}
    Texts = {t1, t2}
    HostTimes = {1, 2}
    MaxCalls = 4
    n1 = n1
    n2 = n2
    i1 = i1
    i2 = i2
    t1 = t1
    t2 = t2
SYMMETRY Symmetry
CHECK_DEADLOCK FALSE
INVARIANTS SqliteOpensWhole PostgresOpensWhole AtomsSearchable AllOrNothing CheckpointsRead SameRows SameAnswers
PROPERTIES RowsSurvive PruneKeepsHistory
