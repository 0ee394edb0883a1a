\* Every failure the code handles (Subscribe, store writes, Schedule) and
\* every load outcome, one Sync at a time.
CONSTANTS
    s1 = s1
    s2 = s2
    m1 = m1
    Servers <- MCServers
    Models <- MCModels
    Idxs <- MCIdxs
    MaxVersion = 2
    MaxConns = 2
    MaxSyncs = 1
    NoConn = NoConn
    NoServer = NoServer
    LoadOutcomes = {"LOADED", "LOAD_FAILED", "LOAD_FAIL_MEMORY"}
    SubscribeMayFail = TRUE
    ReconnectBeforeCleanup = FALSE
    StoreMayFail = TRUE
    RemoveMayFail = TRUE
    ScheduleMayFail = TRUE
SPECIFICATION Spec
SYMMETRY MCSymmetry
CHECK_DEADLOCK FALSE
PROPERTY ImplementsReplicaState
