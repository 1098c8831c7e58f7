SPECIFICATION Spec
CONSTANTS
    x1 = x1
    x2 = x2
    Migrator = {x1, x2}
    Daemons <- TwoDaemons
    RookEntity = {"client.healthchecker"}
    Polls = 2
    SessionsCut = TRUE
    MaxRuns = 3
    MaxFaults = 1
INVARIANTS
    SecureWhenDone
    InsecureDaemonsWork
PROPERTIES
    LaterDaemonsWait
CHECK_DEADLOCK FALSE
