SPECIFICATION Spec
CONSTANTS
    Queries = {"q1", "q2", "q3", "q4"}
    MaxActive = 1
    MaxQueued = 2
    Readers = {"r1", "r2"}
    Keys = {"a", "b", "wide"}
    Charge <- PageBytes
    Capacities = {0, 1, 2}
    MaxBuffers = 5
    Tasks = {"build", "status"}
    Callers = {"maintain"}
    Sections <- CallSections
    WorkerThreads = 2
    Tables <- TableNames
    Indexes <- IndexNames
INVARIANTS
    TypeOK
    SlotsCounted
    PagesAccounted
    CallsUnderstood
PROPERTIES
    PressureIsFair
    WaitsEnd
