SPECIFICATION Spec
CONSTANTS
    t1 = t1
    t2 = t2
    embedded = embedded
    remote = remote
    MaxBatches = 3
    WireCap = 3
    Threads = {t1, t2}
    Closers = {t1}
    ThreadCalls = 3
    Callers = {embedded, remote}
    Remote = {remote}
    TableNames = {1, 2}
    PageSize = 1
    TableCalls = 2
    TableRestarts = 1
    IndexCalls = 2
    IndexEvents = 1
INVARIANTS
    TypeOK
    ResultsWhole
    AnswersHold
PROPERTIES
    NothingReplaced
    SlotReleased
    CallsEnd
CHECK_DEADLOCK FALSE
