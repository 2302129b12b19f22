SPECIFICATION Spec
CONSTANTS
    c1 = c1
    c2 = c2
    e1 = e1
    e2 = e2
    o1 = o1
    o2 = o2
    o3 = o3
    Null = Null
    Creators = {c1, c2}
    Editors = {e1, e2}
    Tenants = {o1, o2, o3}
    Organizations = {o1, o2}
    Payloads <- MCPayloads
    Patches <- MCPatches
    Faults = {"db_error", "lost_commit"}
SYMMETRY Symmetry
INVARIANTS UniqueCompanies PatchesKept DeletedIsGone SomeRequestMoves
PROPERTIES TenantIsolation
