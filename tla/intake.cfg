SPECIFICATION IntakeSpec
CONSTANTS
    u1 = u1
    u2 = u2
    c1 = c1
    c2 = c2
    s1 = s1
    s2 = s2
    k1 = k1
    k2 = k2
    Uploads = {u1, u2}
    Checksums = {s1, s2}
    Creators = {c1, c2}
    Keys = {k1, k2}
    NoUpload = NoUpload
    Faults = {"delete", "crash", "db_error", "lost_commit", "disk_error"}
SYMMETRY Symmetry
INVARIANTS UniqueChecksums CreatedMeansStored OrphanOnlyAfterCrash DanglingOnlyAfterError ConflictHasWinner
INVARIANTS OneJobPerKey JobKeepsItsFile
CHECK_DEADLOCK FALSE
