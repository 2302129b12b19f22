SPECIFICATION Spec
CONSTANTS
    c1 = c1
    c2 = c2
    o1 = o1
    Bootstrap = bootstrap
    Companies = {c1, c2}
    Organizations = {o1}
    Listings = {"listing", "other"}
    Absent = Absent
    NoOrg = NoOrg
    NoRun = NoRun
INVARIANTS DatabaseFollowsVersion
PROPERTIES KeepsOrRefuses
SYMMETRY Symmetry
CHECK_DEADLOCK FALSE
