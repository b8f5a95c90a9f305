SPECIFICATION Spec
CONSTANTS
    s1 = s1
    s2 = s2
    Near <- ParaphraseNear
    Opposite <- NegationOpposite
    Entities = {e1}
    Texts = {1, 2, 3}
    Ranks = {0}
    MaxAtoms = 4
    MaxCount = 2
    Creators = {c1}
    Workers = {w1}
    Approvers = {a1}
    Replacers = {s1, s2}
    Retirers = {}
    Consolidators = {}
    Mergers = {}
    Fallbacks = {}
CHECK_DEADLOCK FALSE
SYMMETRY Symmetry
INVARIANTS CountIsExact LeavesAreLive
PROPERTIES SuccessorIsFinal
