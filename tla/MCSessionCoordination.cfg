CONSTANTS
    Names = {n1, n2}
    Builders = {b1, b2}
    Sweepers = {s1}
    Inodes = {i1, i2, i3}
    Roots = {r1, r2}
    None = None
SPECIFICATION Spec
INVARIANTS
    TypeOK
    LeaseExclusion
    SweepProtectsBuilds
    NoSelfDeadlock
PROPERTY
    ImplementsLeaseTable
