\* The user leaves the project, and returns to a new manager, while the worker
\* goes on.
SPECIFICATION FairSpec
CONSTANTS
    Signatures = {a, b}
    NoSignature = NoSignature
    NoJob = NoJob
    NoStore = NoStore
    MaxSubmitted = 2
    MaxSnapshots = 1
    MaxReports = 1
    MaxReopens = 2
    MaxRollbacks = 0
INVARIANT TypeOK
PROPERTY JobSettles
CHECK_DEADLOCK FALSE
