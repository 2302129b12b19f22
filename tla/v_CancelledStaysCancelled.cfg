SPECIFICATION ExecSpec
CONSTANTS
    j1 = j1
    e1 = e1
    e2 = e2
    Jobs = {j1}
    Executors = {e1, e2}
    MaxTotal = 1
    Messages = {"reported"}
    NoMessage = "none"
    NoFile = NoFile
    BatchSize = 2
    MaxRows = 3
    p1 = p1
    Patchers = {p1}
    Faults = {}
PROPERTY CancelledStaysCancelled
CHECK_DEADLOCK FALSE
