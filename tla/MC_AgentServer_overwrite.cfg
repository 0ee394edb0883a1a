CONSTANTS
    s1 = s1
    s2 = s2
    m1 = m1
    Servers <- MCServers
    Models <- MCModels
    Idxs <- MCIdxs
    MaxVersion = 2
    MaxConns = 2
    MaxSyncs = 1
    NoConn = NoConn
    NoServer = NoServer
    LoadOutcomes = {"LOADED"}
    SubscribeMayFail = TRUE
    ReconnectBeforeCleanup = FALSE
    StoreMayFail = FALSE
    RemoveMayFail = FALSE
    ScheduleMayFail = FALSE
SPECIFICATION Spec
SYMMETRY MCSymmetry
CHECK_DEADLOCK FALSE
INVARIANT LoadingMeansPending
