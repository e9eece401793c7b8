SPECIFICATION Spec
CONSTANTS
    n = n
    N = N
    u1 = u1
    u2 = u2
    f1 = f1
    f2 = f2
    a = a
    b = b
    r4 = r4
    x = x
    r1 = r1
    r2 = r2
    r3 = r3
    Requests = {r1, r2, r3, r4}
    Users = {u1}
    FileIds = {f1, f2}
    Names = {n, N}
    NoName = NoName
    Fold <- MCFold
    Contents = {a, b, x}
    NoContent = NoContent
    Binary = {x}
    FilesPerUser = 1
    RevisionsPerFile = 2
    InFlight = 1
    Faults = FALSE
SYMMETRY Symmetry
INVARIANTS
    AsDocumented
PROPERTIES
    ContentUpdateKeepsMetadata
CHECK_DEADLOCK FALSE
