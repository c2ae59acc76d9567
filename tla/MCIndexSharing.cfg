CONSTANTS
    Ops = {o1, o2}
    Names = {n1, n2}
    Sources = {s1}
    Retention = 1
    None = None
SPECIFICATION Spec
SYMMETRY Symmetry
PROPERTIES
    ReachableStays
