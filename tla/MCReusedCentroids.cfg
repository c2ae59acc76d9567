CONSTANTS
    Ops = {o1, o2}
    Names = {n1}
    Sources = {s1}
    Retention = 1
    None = None
SPECIFICATION Spec
SYMMETRY Symmetry
ACTION_CONSTRAINT PromptOperations
INVARIANTS
    CentroidsRetained
