SPECIFICATION MCSpec
CONSTANTS
    Atoms = {"a1", "a2"}
    Entities = {"p1", "p2"}
    Events = {"e1", "e2", "e3"}
    Queries = {"byName", "that"}
    Entity <- MCEntity
    Evidence <- MCEvidence
    Named <- MCNamed
    Pronoun <- MCPronoun
    Found <- MCFound
    Current = {}
    Vector = FALSE
    Similar <- MCSimilar
    Cost <- MCCost
    Total = 10
    Limit = 3
    PerEntity = 1
    Keep = 1
    Ttl = 1
    MaxEntries = 1
    RawPolicies = {"fallback", "always"}
    MaxTime = 1
    Names = {"n1", "n2"}
    PackedEntities = {"e1"}
    PackedAtoms = {"a1"}
    PackedPages = {}
    Owner <- MCOwner
    MaxPacks = 2
    MergedEntities = {"e1", "e2"}
    CuratedEntities = {"e1"}
    Texts = {1, 3}
    Near <- MCNear
    Opposite <- MCNear
    MergedRanks = {0}
    CuratedRanks = {0, 1}
    MaxMerged = 3
    MaxCurated = 2
    MaxCount = 2
    Creators = {"c1"}
    Approvers = {"a1"}
    Replacers = {"p1"}
    Retirers = {"d1"}
    Consolidators = {"s1"}
    Mergers = {"g1"}
    Fallbacks = {"f1"}
    Paths = {"p1"}
    Pollers = {"s1"}
    Requests = {"s2"}
    Kinds = {"text", "binary", "locked"}
    MaxFileEdits = 3
    MaxStops = 1
CHECK_DEADLOCK FALSE
INVARIANTS RefutedStaysOut AnswerIsFit AdoptedMeansImported SupersessionEnds UnchangedIsCurrent
