SPECIFICATION Spec
CONSTANTS
    Server = {"vault", "https://vault", "https://bao", "http://vault"}
    Absolute = {"https://vault", "https://bao", "http://vault"}
    PlainHTTP = {"http://vault"}
    Text = {"pve1", "team", "shell", "ca.pem"}
    Written <- Configs
    Environment <- Environments
    Rotation = {r1, r2}
    MaxGeneration = 3
    MaxEdits = 1
INVARIANTS
    TypeOK
    LoadsEverywhere
    ServicesFollow
PROPERTIES
    SetFieldsSurvive
SYMMETRY Rotations
CHECK_DEADLOCK FALSE
