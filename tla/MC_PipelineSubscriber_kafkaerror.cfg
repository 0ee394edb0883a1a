\* A failing Kafka admin call, and no failing status replies.
CONSTANTS
    p1 = p1
    p2 = p2
    Pids <- MCPids
    StepLists <- MCValidStepLists
    RetryCountMax = 3
    MaxUpdates = 4
    KafkaMayFail = TRUE
    ReplyMayFail = FALSE

SPECIFICATION Spec
SYMMETRY MCSymmetry
INVARIANT SubscriberStopsOnlyOnOutage
CHECK_DEADLOCK FALSE
