SPECIFICATION Spec
CONSTANTS
    r1 = r1
    r2 = r2
    c1 = c1
    c2 = c2
    Events = {1, 2}
    Runtimes = {r1, r2}
    Calls = {c1, c2}
    Home <- HomeOfCalls
    MaxDrops = 2
CHECK_DEADLOCK FALSE
INVARIANT NothingIsSkipped
PROPERTY EveryEventIsExtracted
