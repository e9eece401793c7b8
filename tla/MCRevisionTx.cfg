SPECIFICATION Spec
CONSTANTS
    f1 = f1
    f2 = f2
    c1 = c1
    c2 = c2
    c3 = c3
    c4 = c4
    d1 = d1
    Files = {f1, f2}
    Creates = {c1, c2, c3, c4}
    Deletes = {d1}
    FileOf <- MCFileOf
    Backends = {"sqlite", "postgres"}
    Limits = {0, 1, 2}
    Faults = TRUE
INVARIANTS
    TypeOK
    SequenceUnique
    Contiguous
PROPERTIES
    ImplementsLog
    EveryCallReturns
CHECK_DEADLOCK FALSE
