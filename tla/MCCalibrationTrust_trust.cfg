\* One session works on one package over two seconds; reviews, revocations and
\* signatures come at any moment.
SPECIFICATION Spec
CONSTANTS
    p1 = p1
    e1 = e1
    e2 = e2
    k1 = k1
    tech = tech
    gov = gov
    Packages = {p1}
    NoPackage = NoPackage
    Envelopes = {e1, e2}
    Reviewers = {tech, gov}
    Sessions = {s1}
    Marks = {0}
    MaxTime = 1
    Dates = {1}
    MaxReviews <- MCMaxReviews
    MaxRevocations = 1
    Rights <- MCRights
    Registry <- MCRegistry
    Signed <- MCSigned
    RoleOf <- MCRoleOf
INVARIANTS TypeOK NoStandingObstacle ChainOfPromotions
CHECK_DEADLOCK FALSE
