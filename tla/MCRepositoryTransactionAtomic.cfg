\* One session, two crashes, recovery before anything else: the promise holds.
CONSTANTS
    f1 = f1  f2 = f2  c1 = c1  c2 = c2
    Files = {f1, f2}
    Contents = {c1, c2}
    Absent = Absent
    Batches <- MCBatches
    Sessions = {s1}
    Main = s1
    TxnIds = {t1, t2}
    NoTxn = NoTxn
    NoJournal = NoJournal
    MaxFaults = 2
    LazyRecovery = FALSE
    RecoveryFaults = FALSE
    LatePublishFault = FALSE
SPECIFICATION Spec
INVARIANTS TypeOK UndoInformation IInv
PROPERTIES AllOrNothing UndoOnlyOwnWork OutcomeTruthful
