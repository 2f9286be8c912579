CONSTANTS
    None = None
    Malformed = Malformed
    base = base
    solana = solana
    pBase = pBase
    pSolana = pSolana
    Requests = {r1, r2}
    Options <- MCOptions
    Payments <- MCPayments
    Quotes <- MCQuotes
    Accepted <- MCAccepted
    Forms <- MCForms
    Window <- MCWindow
    Reserve = 1
    FacilitatorTimeout = 1
    HeadTimeout = 1
    ModelRatesRequired = FALSE
    Heard <- MCHeard
    Capacity = 1
    Faults = {"write", "panic"}
SPECIFICATION BooksSpec
INVARIANT
    StreamIsHonest
PROPERTY
    EveryRequestIsTold
CHECK_DEADLOCK FALSE
