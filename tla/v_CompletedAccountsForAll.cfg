SPECIFICATION Spec
CONSTANTS
    j1 = j1
    p1 = p1
    p2 = p2
    Jobs = {j1}
    Patchers = {p1, p2}
    MaxTotal = 3
    Messages = {"reported"}
    NoMessage = "none"
INVARIANT CompletedAccountsForAll
CHECK_DEADLOCK FALSE
