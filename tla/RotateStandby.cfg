SPECIFICATION Spec
CONSTANTS
    a1 = a1
    a2 = a2
    rotate1 = rotate1
    rotate2 = rotate2
    clusterA = clusterA
    Runner = {a2, rotate1}
    Rotator = {rotate1}
    Host = {a1, a2}
    Cluster = {clusterA}
    NoFSID = NoFSID
    Value = {v1}
    NoValue = NoValue
    KeysChange = FALSE
    MaxGeneration = 1
    MaxAttempts = 1
    MaxFaults = 1
    Coordination = "active-manager"
    Credentials <- MCCredentials
    StandardIds <- MCStandardIds
    HostOf <- MCHostOf
    ClusterOf <- MCClusterOf
INVARIANTS
    ArchivedBeforeActive
