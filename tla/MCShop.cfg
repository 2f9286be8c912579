CONSTANTS
    None = None
    Blank = Blank
    Junk = Junk
    Unreadable = Unreadable
    NotUnicode = NotUnicode
    m1 = m1
    m2 = m2
    b1 = b1
    b2 = b2
    b3 = b3
    DefaultId = b3
    DefaultPrice = 6
    DefaultCap = 4
    MaxAmount = 200
    Whole = 4
    PerRate = 10
    BytesPerToken = 4
    MaxTime = 2
    Models <- MCModels
    Ids <- MCIds
    Environments <- AllEnvironments
    Forms <- MCForms
SPECIFICATION Spec
INVARIANTS
    TypeOK
    RouteIsUnambiguous
    OrderIsImmaterial
    CoverageAgrees
    NothingIsInert
    PricesAreExact
    PayableIsNeverFree
PROPERTY
    SameBodySamePrice
CHECK_DEADLOCK FALSE
