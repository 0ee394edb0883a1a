CONSTANTS
    s1 = s1
    s2 = s2
    m1 = m1
    Servers <- MCServers
    Models <- MCModels
    Idxs <- MCIdxs
    MaxVersion = 2
    MaxConns = 2
    MaxSyncs = 2
    NoConn = NoConn
    NoServer = NoServer
    LoadOutcomes = {"LOADED"}
    SubscribeMayFail = TRUE
    ReconnectBeforeCleanup = FALSE
    StoreMayFail = TRUE
    RemoveMayFail = TRUE
    ScheduleMayFail = FALSE
SPECIFICATION Spec
SYMMETRY MCSymmetry
INVARIANT TypeOK
INVARIANT CommandPrecedesProgress
PROPERTY ImplementsReplicaState
CHECK_DEADLOCK FALSE
