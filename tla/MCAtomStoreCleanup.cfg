SPECIFICATION Spec
CONSTANTS
    s1 = s1
    s2 = s2
    Near <- ParaphraseNear
    Opposite <- NegationOpposite
    Entities = {e1}
    Texts = {1, 2}
    Ranks = {0, 1}
    MaxAtoms = 4
    MaxCount = 2
    Creators = {c1}
    Workers = {w1}
    Approvers = {}
    Replacers = {p1}
    Retirers = {}
    Consolidators = {s1, s2}
    Mergers = {}
    Fallbacks = {}
CHECK_DEADLOCK FALSE
SYMMETRY Symmetry
INVARIANTS SuccessorOutranks
