CONSTANTS
    Ops = {o1, o2}
    Names = {n1}
    Sources = {s1, s2}
    Retention = 1
    None = None
SPECIFICATION Spec
PROPERTIES
    DropsVerifiedSource
