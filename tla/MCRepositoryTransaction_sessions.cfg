\* Two sessions, every fault: the interleavings that break atomicity still end.
CONSTANTS
    f1 = f1  f2 = f2  c1 = c1  c2 = c2
    Files = {f1}
    Contents = {c1}
    Absent = Absent
    Batches <- OneBatch
    Sessions = {s1, s2}
    TxnIds = {t1, t2}
    NoTxn = NoTxn
    NoJournal = NoJournal
    MaxFaults = 1
    LazyRecovery = TRUE
    RecoveryFaults = TRUE
    LatePublishFault = TRUE
SPECIFICATION FairSpec
PROPERTY CommitEnds
