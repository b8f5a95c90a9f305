SPECIFICATION Spec
CONSTANTS
    Fields = {"f1", "f2"}
    MaxId = 5
    MaxMessages = 4
    LiveTraffic = TRUE
CHECK_DEADLOCK FALSE
INVARIANT TranscriptKept
