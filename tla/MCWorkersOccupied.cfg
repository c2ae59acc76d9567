SPECIFICATION Spec
CONSTANTS
    build = build
    search = search
    status = status
    maintain = maintain
    drop = drop
    Tasks = {build, search, status}
    Callers = {maintain}
    Sections <- MCSections
    Workers = 2
INVARIANT HolderFindsWorker
