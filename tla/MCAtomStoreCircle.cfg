SPECIFICATION Spec
CONSTANTS
    s1 = s1
    s2 = s2
    Near <- ParaphraseNear
    Opposite <- NegationOpposite
    Entities = {e1, e2}
    Texts = {1}
    Ranks = {0}
    MaxAtoms = 2
    MaxCount = 2
    Creators = {}
    Workers = {}
    Approvers = {}
    Replacers = {}
    Retirers = {}
    Consolidators = {s1}
    Mergers = {g1}
    Fallbacks = {f1}
CHECK_DEADLOCK FALSE
INVARIANT SupersessionEnds
