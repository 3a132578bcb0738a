\* Three exports on one worker; a dispatch that fails restores an older copy of
\* the session state.
SPECIFICATION Spec
CONSTANTS
    Signatures = {a, b}
    NoSignature = NoSignature
    NoJob = NoJob
    NoStore = NoStore
    MaxSubmitted = 3
    MaxSnapshots = 3
    MaxReports = 1
    MaxReopens = 0
    MaxRollbacks = 1
SYMMETRY Symmetric
INVARIANTS CancelWins OneRunPerRequest ResultsClaimable
PROPERTIES EndIsFinal ResultsHandedOver
CHECK_DEADLOCK FALSE
