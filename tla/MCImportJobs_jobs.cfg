\* Managers one after the other: jobs beside restarts, changes of workspace,
\* trimming, retries, cleanup and a call that raises.
CONSTANTS
    Managers = {m1}
    MaxOpen = 1
    Files = {f1, f2}
    NoJob = NoJob
    MaxSubmitted = 2
    MaxJobs = 1
    KeepLatest = 1
    MaxCrashes = 1
    MaxFailures = 1
SPECIFICATION FairSpec
INVARIANTS TypeOK HistoryTruthful InterruptedIsOver RunningCancelStops
PROPERTIES LedgerSpec SourcesProtected JobEnds
CHECK_DEADLOCK FALSE
