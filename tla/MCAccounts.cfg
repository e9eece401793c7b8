SPECIFICATION Spec
CONSTANTS
    k1 = k1
    k2 = k2
    Sessions = {s1, s2, s3}
    Fingerprints = {k1, k2}
    UserIds = {u1, u2, u3}
    NoUser = NoUser
    Backends = {"sqlite", "postgres"}
    AllowLists <- MCAllowLists
    Faults = TRUE
INVARIANTS
    TypeOK
    WholeAccounts
    SameKeySameUser
    RefusedCanRetry
PROPERTIES
    AccountsStay
    EveryConnectionAnswered
CHECK_DEADLOCK FALSE
