SPECIFICATION Spec
CONSTANTS
    Width = 3
    Units = {1, 2}
    Numbers = {1, 4, 5}
    MaxTerms = 3
    MaxVersion = 3
    Limits = {0, 1, 2}
    Second = 2
    MaxTime = 2
    MaxLinks = 1
    Magic = {2}
INVARIANTS
    TypeOK
    OutsiderSawPublic
    CountCoversContent
    LinkAsPromised
    AnswersAreTrue
CONSTRAINTS
    Answering
    Linked
CHECK_DEADLOCK FALSE
