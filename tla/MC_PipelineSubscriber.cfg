\* Two pipeline ids, a short update budget, and every failure the code can
\* meet: a failing Kafka admin call and failing status replies.
CONSTANTS
    p1 = p1
    p2 = p2
    Pids <- MCPids
    StepLists <- MCStepLists
    RetryCountMax = 3
    MaxUpdates = 4
    KafkaMayFail = TRUE
    ReplyMayFail = TRUE

SPECIFICATION Spec
SYMMETRY MCSymmetry
INVARIANT TypeOK
INVARIANT NoOrphanTopology
INVARIANT TopicsExistForRunningTopologies
CHECK_DEADLOCK FALSE
