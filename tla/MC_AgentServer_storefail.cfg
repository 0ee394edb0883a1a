\* Failing Loading writes, one Sync at a time, one version (no deployment
\* can race the Sync).
CONSTANTS
    s1 = s1
    s2 = s2
    m1 = m1
    Servers <- MCServers
    Models <- MCModels
    Idxs <- MCIdxs
    MaxVersion = 1
    MaxConns = 1
    MaxSyncs = 1
    NoConn = NoConn
    NoServer = NoServer
    LoadOutcomes = {"LOADED"}
    SubscribeMayFail = FALSE
    ReconnectBeforeCleanup = FALSE
    StoreMayFail = TRUE
    RemoveMayFail = FALSE
    ScheduleMayFail = FALSE
SPECIFICATION Spec
SYMMETRY MCSymmetry
CHECK_DEADLOCK FALSE
PROPERTY LoadSentOnlyWhenNeeded
