SPECIFICATION Spec
CONSTANTS
    Sepolia = Sepolia
    Base = Base
    Short = Short
    Placeholder = Placeholder
    Blank = Blank
    One = One
    Unset = Unset
    NotUnicode = NotUnicode
    Testnets <- MCTestnets
    ShortNames <- MCShortNames
    Networks <- MCNetworks
    Entries <- MCEntries
    MaxOptions = 2
    MaxEntries = 2
    MaxEdits = 2
INVARIANTS
    ArmedByName
    GuidanceIsTrue
PROPERTY OperatorConverges
CHECK_DEADLOCK FALSE
