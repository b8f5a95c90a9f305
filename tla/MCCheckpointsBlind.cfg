SPECIFICATION Spec
CONSTANTS
    Fields = {"f1"}
    MaxId = 4
    MaxMessages = 4
    LiveTraffic = FALSE
CHECK_DEADLOCK FALSE
INVARIANT ConversationOutlivesPrune
