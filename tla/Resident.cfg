SPECIFICATION Spec
CONSTANTS
    alice = alice
    bob = bob
    static = static
    Section = {alice, bob, static}
    StaticSection = {static}
    IdentityOf <- MCIdentityOf
    NoSection = NoSection
    NoIdentity = NoIdentity
    Token = {t1, t2}
    NoToken = NoToken
    FileToken = FileToken
    Lease = {0, 5, 10}
    Timeout = 2
    Interval = 1
INVARIANTS
    TypeOK
    TokenBelongsToSection
    OneLoginPerTurn
    CacheIsLive
    SignalIsKept
PROPERTIES
    DeniedForAReason
    KeepsPolling
    StopsWhenTold
