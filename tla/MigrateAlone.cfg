SPECIFICATION Spec
CONSTANTS
    x1 = x1
    x2 = x2
    Migrator = {x1}
    Daemons <- OneTwice
    RookEntity = {"client.csi-rbd-node", "client.healthchecker"}
    Polls = 2
    SessionsCut = FALSE
    MaxRuns = 2
    MaxFaults = 2
INVARIANTS
    TypeOK
    SecureWhenDone
PROPERTIES
    KeepsDaemonsWorking
    EveryRunEnds
CHECK_DEADLOCK FALSE
