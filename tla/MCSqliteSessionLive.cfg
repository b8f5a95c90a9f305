SPECIFICATION Spec
CONSTANTS
    Calls = {c1, c2}
    Blocks = {k1, k2}
    LiveSweep = TRUE
CHECK_DEADLOCK FALSE
INVARIANT AllOrNothing
