SPECIFICATION Spec
CONSTANTS
    MaxCands = 2
    Procs = {p, q}
    Batch = 2
    StaleDays = 1
    Threshold = 1
    user = user
    ann = ann
    Nobody = nobody
    Placeholder = user
    Scenes <- MCScenes
INVARIANTS
    PromotionHolds
    DecidedOnce
PROPERTIES
    OpenIsDecided
