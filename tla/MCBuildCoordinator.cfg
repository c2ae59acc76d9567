CONSTANTS
    Keys = {k1, k2}
    Builds = {b1, b2}
    Clients = {c1}
    Foreign = {x1}
    None = None
SPECIFICATION FairSpec
INVARIANTS
    TypeOK
    ActiveBuildKeepsRecord
PROPERTIES
    AcceptedBuildIsFound
    BuildsAndWaitersFinish
