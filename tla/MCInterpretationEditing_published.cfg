\* One call after the other, nothing fails.
SPECIFICATION Spec
CONSTANTS
    s1 = s1
    s2 = s2
    Sessions = {s1, s2}
    Ids = {i1, i2}
    Marks = {m1}
    Gone = Gone
    Revisions = {r1, r2}
    NoRevision = NoRevision
    Missing = Missing
    RoleOf <- MCRoleOf
    HistoryLimit = 1
    EventLimit = 2
    MaxCalls = 5
    MaxTime = 1
    MaxFaults = 0
    Overlapping = {}
INVARIANT PublishedRevisionExists
CHECK_DEADLOCK FALSE
SYMMETRY NameSymmetry
