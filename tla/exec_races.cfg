SPECIFICATION ExecSpec
CONSTANTS
    j1 = j1
    e1 = e1
    e2 = e2
    Jobs = {j1}
    Executors = {e1, e2}
    MaxTotal = 1
    Messages = {"reported"}
    NoMessage = "none"
    NoFile = NoFile
    BatchSize = 2
    MaxRows = 3
    p1 = p1
    p2 = p2
    Patchers = {p1, p2}
    Faults = {"delete", "crash"}
INVARIANTS CountersWithinTotal TimestampsFollowStatus
INVARIANTS AllOrNothing SingleImporter CountersMatchRecords NoOrphans OkMeansImported
PROPERTIES ImportStartsFresh FailureOnlyOverRunning IssuesOnlyWithFailure
SYMMETRY Symmetry
CHECK_DEADLOCK FALSE
