\* Clients of every build connect, crash, are refused and come back; the host
\* accepts only the first and issues two cycles.
SPECIFICATION Spec
CONSTANTS
    ServerVersions <- Versions
    ClientBuilds <- AllBuilds
    Requests <- AllRequests
    MaxConnect = 2
    MaxCycle = 2
INVARIANTS TypeOK Agreement InStep FailsOnlyOnLoss
PROPERTIES CycleReturns ConnectReturns HostEndReleases FeedSpec
CHECK_DEADLOCK FALSE
