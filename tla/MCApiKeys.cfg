SPECIFICATION Spec
CONSTANTS
    Sessions = {s1, s2, s3}
    Requests = {r1}
    Users = {u1, u2}
    Names = {ci, cd}
    TTLs = {0, 1}
    Backends = {"sqlite", "postgres"}
    MaxKeys = 1
    MaxTime = 3
    MaxMinted = 3
    Faults = TRUE
SYMMETRY Symmetry
INVARIANTS
    TypeOK
    KeyLimit
    RemovedStaysRemoved
    ExpiredStaysOut
PROPERTIES
    RemovesWhatWasAsked
CHECK_DEADLOCK FALSE
