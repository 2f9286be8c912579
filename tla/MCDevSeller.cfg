SPECIFICATION Spec
CONSTANTS
    Sepolia = Sepolia
    Base = Base
    Devnet = Devnet
    Usdc = Usdc
    Alice = Alice
    Bob = Bob
    Shop = Shop
    TokenA = TokenA
    TokenB = TokenB
    PlaceholderNetwork = PlaceholderNetwork
    PlaceholderAddress = PlaceholderAddress
    ForeignAddress = ForeignAddress
    Unset = Unset
    NotUnicode = NotUnicode
    Blank = Blank
    Junk = Junk
    One = One
    Number = Number
    None = None
    Stranger = Stranger
    NotVerified = NotVerified
    EvmTestnets = {Sepolia}
    OtherTestnets = {Devnet}
    Mainnets = {Base}
    Addresses <- MCAddresses
    Domains <- MCDomains
    OptionSets <- MCOptionSets
    Environments <- MCEnvironments
    Payers = {Alice, Bob}
    Nonces = {1}
    MaxU64 = 3
    MaxU128 = 3
    Amounts = {0, 1, 3, 5}
    Times = {0, 1, 2, 3, 5}
    MaxTime = 2
    DefaultDelay = 1
    MaxRequests = 2
INVARIANTS
    DiffersFromTheChainAsSaid
    StartsSafely
PROPERTY EveryRequestIsAnswered
CHECK_DEADLOCK FALSE
