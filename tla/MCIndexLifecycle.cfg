CONSTANTS
    Ops = {o1, o2, o3}
    Names = {n1}
    Sources = {s1}
    Retention = 1
    None = None
SPECIFICATION Spec
SYMMETRY Symmetry
INVARIANTS
    TypeOK
    PublishedComplete
    QueryReadsWithinRetention
PROPERTIES
    NoSnapshotLost
