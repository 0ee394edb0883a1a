\* One Sync at a time, two versions (so superseded versions are unloaded),
\* every load outcome, failing syncMessage and Schedule calls.  No
\* symmetry: the run checks liveness.
CONSTANTS
    s1 = s1
    s2 = s2
    m1 = m1
    Servers <- MCServers
    Models <- MCModels
    Idxs <- MCIdxs
    MaxVersion = 2
    MaxConns = 2
    MaxSyncs = 1
    NoConn = NoConn
    NoServer = NoServer
    LoadOutcomes = {"LOADED", "LOAD_FAILED", "LOAD_FAIL_MEMORY"}
    SubscribeMayFail = TRUE
    ReconnectBeforeCleanup = FALSE
    StoreMayFail = FALSE
    RemoveMayFail = FALSE
    ScheduleMayFail = TRUE
SPECIFICATION Spec
PROPERTY ImplementsReplicaState
PROPERTY DisconnectEventuallyHandled
CHECK_DEADLOCK FALSE
