SPECIFICATION Spec
CONSTANTS
    x1 = x1
    x2 = x2
    Migrator = {x1}
    Daemons <- OneDaemon
    RookEntity = {"client.healthchecker"}
    Polls = 2
    SessionsCut = TRUE
    MaxRuns = 1
    MaxFaults = 1
INVARIANTS
    DaemonKeepsAcceptedKey
CHECK_DEADLOCK FALSE
