\* No Kafka or reply failures, and a pipeline whose step names a source
\* without a dot: parseSource gives it the empty topic name, which Kafka's
\* admin client refuses.
CONSTANTS
    p1 = p1
    p2 = p2
    Pids <- MCPids
    StepLists <- MCStepLists
    RetryCountMax = 3
    MaxUpdates = 4
    KafkaMayFail = FALSE
    ReplyMayFail = FALSE

SPECIFICATION Spec
SYMMETRY MCSymmetry
INVARIANT SubscriberStopsOnlyOnOutage
CHECK_DEADLOCK FALSE
