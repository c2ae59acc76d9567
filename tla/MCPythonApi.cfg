SPECIFICATION Spec
CONSTANTS
    a1 = a1
    a2 = a2
    b1 = b1
    b2 = b2
    g = g
    s = s
    ffi = ffi
    none = none
    Vars = {a1, a2}
    OptionSessions = {b1}
    MaxObjects = 2
    Char = "c"
    Other = "d"
    Handles = {a1, a2}
    Frames = {"f"}
    TableNames = {"t"}
    MaxStates = 2
    MaxLists = 2
    MaxProviders = 2
    MaxTemps = 1
    Threads = {a1, a2}
    Sessions = {g, s}
    Strict = {s}
    Global = g
    PythonFns = {b1, b2}
    FfiFns = {ffi}
    NoFn = none
    NoCtx = none
    MaxMessages = 1
    Items <- ThreeItems
    MaxValue = 2
    FrameRows = 2
    MaxOps = 2
    Publishers = {a1, a2}
    MaxAttempts = 3
    PublicationEdits = 1
    ModelFiles = {"tokenizer", "onnx"}
    SourceRows = 2
    MaxRuns = 3
    BuildEdits = 2
    Callables <- Objects
    Explicit = "named"
    Inner = "inner"
    MaxHandles = 2
    PartitionRows = 4
SYMMETRY Symmetry
INVARIANTS
    TypeOK
    ShippedAsAllowed
    MeansWhatIsWritten
    EvaluatedAsDeclared
    PublishedAsRequested

    
CHECK_DEADLOCK FALSE
