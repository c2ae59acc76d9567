CONSTANTS
    Keys = {k1}
    Builds = {b1, b2}
    Clients = {c1}
    Foreign = {x1}
    None = None
SPECIFICATION Spec
INVARIANT LatestFailureRetained
