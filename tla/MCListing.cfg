SPECIFICATION Spec
CONSTANTS
    Backends = {"sqlite", "postgres"}
    Kinds = {"files", "revisions"}
    PageSizes = {1, 2}
    Retained = 3
    MaxKey = 5
INVARIANTS
    TypeOK
    KeysetDescends
    NothingSkipped
    DriftIsBounded
    QuietListingExact
CHECK_DEADLOCK FALSE
