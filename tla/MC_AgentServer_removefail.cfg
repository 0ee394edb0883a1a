\* A failing RemoveServerReplica (and failing Loading writes), one Sync at
\* a time, no other failure.
CONSTANTS
    s1 = s1
    s2 = s2
    m1 = m1
    Servers <- MCServers
    Models <- MCModels
    Idxs <- MCIdxs
    MaxVersion = 2
    MaxConns = 2
    MaxSyncs = 1
    NoConn = NoConn
    NoServer = NoServer
    LoadOutcomes = {"LOADED"}
    SubscribeMayFail = FALSE
    ReconnectBeforeCleanup = FALSE
    StoreMayFail = FALSE
    RemoveMayFail = TRUE
    ScheduleMayFail = FALSE
SPECIFICATION Spec
PROPERTY RequestEventuallyCommanded
CHECK_DEADLOCK FALSE
