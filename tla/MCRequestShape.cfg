SPECIFICATION Spec
CONSTANTS
    A = A
    B = B
    Null = Null
    Wrong = Wrong
    Broken = Broken
    Cut = Cut
    Undecodable = Undecodable
    None = None
    Models = {A, B}
    Cap = 2
    Fields <- MCFields
    MaxFields = 3
INVARIANTS
    PaidWorkIsBounded
    ReadForWhatItSays
CHECK_DEADLOCK FALSE
