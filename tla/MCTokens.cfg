SPECIFICATION Spec
CONSTANTS
    K1 = K1
    K2 = K2
    OldFile = OldFile
    NewFile = NewFile
    OldAgain = OldAgain
    Missing = Missing
    Garbage = Garbage
    Idp = Idp
    OtherIdp = OtherIdp
    Us = Us
    Them = Them
    Old = Old
    New = New
    Unset = Unset
    Blank = Blank
    Junk = Junk
    NotUnicode = NotUnicode
    None = None
    Null = Null
    Absent = Absent
    NotAKey = NotAKey
    KeyPairs = {Old, New}
    Encodings = {1, 2}
    Kids <- MCKids
    Files <- MCFiles
    Issuers <- MCIssuers
    Audiences <- MCAudiences
    Environments <- MCEnvironments
    Disk <- MCDisk
    Tokens <- MCTokens
    MaxKeys = 2
    Life = 2
    Leeway = 1
    Skew = 1
    MaxTime = 5
    MaxIssued = 2
INVARIANTS
    VerdictsAreTrue
    StartIsWhole
    RotationIsClean
PROPERTY RotationCompletes
CHECK_DEADLOCK FALSE
