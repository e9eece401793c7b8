SPECIFICATION Spec
CONSTANTS
    n = n
    N = N
    u1 = u1
    u2 = u2
    f1 = f1
    f2 = f2
    a = a
    b = b
    r4 = r4
    x = x
    r1 = r1
    r2 = r2
    r3 = r3
    Requests = {r1, r2}
    Users = {u1}
    FileIds = {f1, f2}
    Names = {n, N}
    NoName = NoName
    Fold <- MCFold
    Contents = {a, x}
    NoContent = NoContent
    Binary = {x}
    FilesPerUser = 2
    RevisionsPerFile = 1
    InFlight = 2
    Faults = FALSE
SYMMETRY Symmetry
INVARIANTS
    DeletedWithRevisions
CHECK_DEADLOCK FALSE
