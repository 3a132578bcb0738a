\* Activation asks for a production decision that is not for a final report.
SPECIFICATION Spec
CONSTANTS
    p1 = p1
    e1 = e1
    e2 = e2
    k1 = k1
    tech = tech
    gov = gov
    Packages = {p1}
    NoPackage = NoPackage
    Envelopes = {e1}
    Reviewers = {tech, gov}
    Sessions = {s1}
    Marks = {0}
    MaxTime = 1
    Dates = {1}
    MaxReviews <- MCMaxReviews
    MaxRevocations = 1
    Rights <- MCRights
    Registry <- MCRegistry
    Signed <- MCSigned
    RoleOf <- MCRoleOf
INVARIANT ActiveWasPromoted
CHECK_DEADLOCK FALSE
