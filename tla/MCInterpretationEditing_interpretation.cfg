\* Two sessions whose workflow moves overlap; a crash, a failing write or an unreadable index at any step.
SPECIFICATION Spec
CONSTANTS
    s1 = s1
    s2 = s2
    Sessions = {s1, s2}
    Ids = {i1, i2}
    Marks = {m1, m2}
    Gone = Gone
    Revisions = {r1, r2}
    NoRevision = NoRevision
    Missing = Missing
    RoleOf <- MCRoleOf
    HistoryLimit = 2
    EventLimit = 2
    MaxCalls = 5
    MaxTime = 1
    MaxFaults = 1
    Overlapping = {"move", "restore"}
INVARIANTS TypeOK TrailUnbroken IndexNearlyTruthful
PROPERTIES DocumentSpec
CHECK_DEADLOCK FALSE
SYMMETRY NameSymmetry
