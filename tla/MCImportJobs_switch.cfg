\* One browser tab, one job, a change of workspace while it runs.
CONSTANTS
    Managers = {m1, m2}
    MaxOpen = 1
    Files = {f1}
    NoJob = NoJob
    MaxSubmitted = 1
    MaxJobs = 1
    KeepLatest = 1
    MaxCrashes = 0
    MaxFailures = 0
SPECIFICATION Spec
PROPERTY CleanupSparesActive
CHECK_DEADLOCK FALSE
