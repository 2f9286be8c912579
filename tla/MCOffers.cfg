SPECIFICATION Spec
CONSTANTS
    Base = Base
    Solana1 = Solana1
    Stellar = Stellar
    Usdc = Usdc
    Eurc = Eurc
    Alice = Alice
    Bob = Bob
    Blank = Blank
    Junk = Junk
    Missing = Missing
    NoExtra = NoExtra
    NotObject = NotObject
    None = None
    Evm <- MCEvm
    Solana <- MCSolana
    OtherNetworks <- MCOther
    Assets <- MCAssets
    Payees <- MCPayees
    Amounts <- MCAmounts
    Extras <- MCExtras
    Written <- MCWritten
    Tampered <- MCTampered
    Window = 11
    Reserve = 10
    MaxEntries = 2
    MaxReprices = 1
INVARIANTS
    PaymentsMatchOffers
    ChallengesCanBeMet
PROPERTY PayersGetThrough
CHECK_DEADLOCK FALSE
