SPECIFICATION Spec
CHECK_DEADLOCK FALSE
CONSTANTS
    a1 = a1
    a2 = a2
    rotate1 = rotate1
    rotate2 = rotate2
    clusterA = clusterA
    Runner = {rotate1, rotate2}
    Rotator = {rotate1, rotate2}
    Host = {a1, a2}
    Cluster = {clusterA}
    NoFSID = NoFSID
    Value = {v1, v2}
    NoValue = NoValue
    KeysChange = FALSE
    MaxGeneration = 2
    MaxAttempts = 3
    MaxFaults = 1
    Coordination = "none"
    Credentials <- MCCredentials
    StandardIds <- MCStandardIds
    HostOf <- MCHostOf
    ClusterOf <- MCClusterOf
INVARIANTS
    ArchivedBeforeActive
    OfferedIdentitiesWork
    NeverAheadOfArchives
PROPERTIES
    KeepsPromise
