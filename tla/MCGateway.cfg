CONSTANTS
    None = None
    Malformed = Malformed
    base = base
    solana = solana
    pFull = pFull
    pSolana = pSolana
    Requests = {r1, r2}
    Options <- MCOptions
    Payments <- MCPayments
    Quotes <- MCQuotes
    Accepted <- MCAccepted
    Forms <- MCForms
    Window <- MCWindow
    Reserve = 1
    FacilitatorTimeout = 2
    HeadTimeout = 2
    ModelRatesRequired = TRUE
SPECIFICATION Spec
INVARIANTS
    TypeOK
    SettlesInsideWindow
    ChargesAreRightful
    ServedIsPaidFor
    BooksAreTrue
    BlameIsEarned
    AnswerIsBounded
PROPERTIES
    RecordedOnceSettledOnce
    ImplementsTollBooth
    EveryRequestIsRecorded
