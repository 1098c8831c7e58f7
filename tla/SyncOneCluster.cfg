SPECIFICATION Spec
CONSTANTS
    a1 = a1
    a2 = a2
    b1 = b1
    clusterA = clusterA
    clusterB = clusterB
    Runner = {a1, a2}
    Host = {a1, a2}
    Cluster = {clusterA}
    NoFSID = NoFSID
    Value = {v1, v2}
    NoValue = NoValue
    MaxGeneration = 0
    ServiceGeneration = 0
    Modes = {"sync"}
    MaxFaults = 2
    Coordination = "active-manager"
    Credentials <- MCCredentials
    StandardIds <- MCStandardIds
    HostOf <- MCHostOf
    ClusterOf <- MCClusterOf
INVARIANTS
    TypeOK
    SharedGeneration
PROPERTIES
    UpdatesReplaceWhatTheyRead
    Converges
