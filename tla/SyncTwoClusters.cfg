SPECIFICATION Spec
CONSTANTS
    a1 = a1
    a2 = a2
    b1 = b1
    clusterA = clusterA
    clusterB = clusterB
    Runner = {a1, b1}
    Host = {a1, b1}
    Cluster = {clusterA, clusterB}
    NoFSID = NoFSID
    Value = {v1, v2}
    NoValue = NoValue
    MaxGeneration = 0
    ServiceGeneration = 0
    Modes = {"sync", "dry-run", "check"}
    MaxFaults = 1
    Coordination = "none"
    Credentials <- MCCredentials
    StandardIds <- MCStandardIds
    HostOf <- MCHostOf
    ClusterOf <- MCClusterOf
INVARIANTS
    SharedGeneration
PROPERTIES
    TakeoverOnlyByCreate
    NilMeansPublished
