SPECIFICATION Spec
CONSTANTS
    f1 = f1
    f2 = f2
    Files = {f1, f2}
    NoFile = NoFile
    Ids = {1, 2}
    KeyLimit = 2
    Faults = TRUE
    Starts <- MCStarts
    MaxFlight = 3
    MaxHasty = 1
    MaxElsewhere = 1
VIEW Shape
CONSTRAINTS
    Followed
    Separate
SYMMETRY Symmetry
INVARIANTS
    TypeOK
    PanicOnlyWhenRushed
    ActsOnChosen
    CaughtUp
PROPERTIES
    DeletedOnSecondX
    PublishedByConsent
CHECK_DEADLOCK FALSE
