\* The liveness bounds with a failing syncMessage (AddServerReplica or
\* ScheduleFailedModels): Subscribe returns the error and leaves its
\* registry entry and the store's replica behind.
CONSTANTS
    s1 = s1
    s2 = s2
    m1 = m1
    Servers <- MCServers
    Models <- MCModels
    Idxs <- MCIdxs
    MaxVersion = 2
    MaxConns = 2
    MaxSyncs = 1
    NoConn = NoConn
    NoServer = NoServer
    LoadOutcomes = {"LOADED"}
    SubscribeMayFail = TRUE
    ReconnectBeforeCleanup = FALSE
    StoreMayFail = FALSE
    RemoveMayFail = FALSE
    ScheduleMayFail = TRUE
SPECIFICATION Spec
PROPERTY RequestEventuallyCommanded
CHECK_DEADLOCK FALSE
