CONSTANTS
    Builds = {b1, b2}
    LeaseTicks = 3
    MaxLag = 1
    None = None
SPECIFICATION FairSpec
INVARIANTS
    TypeOK
    ResolvedIsRegistered
    RegisteredIsComplete
    PublicationStands
PROPERTIES
    NoEarlyTakeover
    AbandonsOwnClaim
    EveryBuildEnds
    ImplementsRegistry
