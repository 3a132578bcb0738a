\* Two operations, other changes between them, one failing write or crash.
SPECIFICATION Spec
CONSTANTS
    t1 = t1
    t2 = t2
    t3 = t3
    Types = {t1, t2, t3}
    Defaults = {t1, t2}
    Files = {f1, f2}
    Marks = {m1, m2}
    Operations = {o1, o2}
    NoFile = NoFile
    JournalLimit = 1
    MaxChanges = 1
    MaxFaults = 1
INVARIANTS TypeOK JournalBacked
PROPERTIES DeletedUnused FailureAtomic UndoExact
SYMMETRY Symmetry
CHECK_DEADLOCK FALSE
