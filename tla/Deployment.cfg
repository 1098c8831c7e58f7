SPECIFICATION Spec
CONSTANTS
    plain = plain
    withRGW = withRGW
    Content = {plain, withRGW}
    Nothing = Nothing
    Partial = Partial
    Local = plain
    Installer = {i1, i2}
    Reader = {service, b1}
    User = {1, 2, 3}
    RGWUser = {2}
    StandardUser = {1}
    Key = {k1}
    NoKey = NoKey
    Bootstrapper = {b1}
    Wanted <- MCWanted
    MaxFaults = 2
INVARIANTS
    TypeOK
    ReportedMeansInstalled
    PartialIsExplained
    DoneMeansComplete
PROPERTIES
    UsersAreLeftAlone
    SharedIsFollowed
    BootstrapCompletes
