SPECIFICATION PageSpec
CONSTANTS
    j1 = j1
    e1 = e1
    e2 = e2
    p1 = p1
    q1 = q1
    Jobs = {j1}
    Executors = {e1, e2}
    Readers = {q1}
    PageLimit = 2
    MaxTotal = 2
    Messages = {"reported"}
    NoMessage = "none"
    NoFile = NoFile
    BatchSize = 2
    MaxRows = 3
    Patchers = {p1}
    Faults = {"delete", "crash", "db_error", "lost_commit"}
INVARIANTS CompletedIffImported PagesAreWhole StatusAnnouncesRows
PROPERTIES ImplementsLifecycle
CHECK_DEADLOCK FALSE
