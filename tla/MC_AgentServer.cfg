\* Two concurrent Syncs, one version per model, and every failure the code
\* handles: Subscribe, store reads and writes, RemoveServerReplica and
\* Schedule; agents may reconnect before their old stream's cleanup and
\* report every load outcome.
CONSTANTS
    s1 = s1
    s2 = s2
    m1 = m1
    Servers <- MCServers
    Models <- MCModels
    Idxs <- MCIdxs
    MaxVersion = 1
    MaxConns = 2
    MaxSyncs = 2
    NoConn = NoConn
    NoServer = NoServer
    LoadOutcomes = {"LOADED", "LOAD_FAILED", "LOAD_FAIL_MEMORY"}
    SubscribeMayFail = TRUE
    ReconnectBeforeCleanup = TRUE
    StoreMayFail = TRUE
    RemoveMayFail = TRUE
    ScheduleMayFail = TRUE
SPECIFICATION Spec
SYMMETRY MCSymmetry
INVARIANT TypeOK
INVARIANT CommandPrecedesProgress
CHECK_DEADLOCK FALSE
