\* No Kafka or reply failures: the violation needs only updates and
\* stream failures the scheduler side can produce.
CONSTANTS
    p1 = p1
    p2 = p2
    Pids <- MCPids
    StepLists <- MCValidStepLists
    RetryCountMax = 3
    MaxUpdates = 4
    KafkaMayFail = FALSE
    ReplyMayFail = FALSE

SPECIFICATION Spec
SYMMETRY MCSymmetry
INVARIANT EveryUpdateAnswered
CHECK_DEADLOCK FALSE
