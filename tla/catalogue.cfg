SPECIFICATION Spec
CONSTANTS
    q1 = q1
    q2 = q2
    q3 = q3
    a = a
    x = x
    d = d
    v = v
    u = u
    n = n
    m = m
    Requests = {q1, q2, q3}
    Seeds = {a, x, d}
    Initial <- SomeEntries
    Slugs = {v, u}
    Names = {n, m}
    Null = Null
    Absent = Absent
INVARIANTS DeletedMeansGone
PROPERTIES ImplementsTree
SYMMETRY Symmetry
CHECK_DEADLOCK FALSE
