CONSTANTS
    None = None
    Events = {e1, e2, e3, e4}
    Capacity = 2
    Faults = {"write", "panic"}
SPECIFICATION Spec
INVARIANTS
    TypeOK
    EveryDropIsAccountedFor
    StreamFollowsTheQueue
    NothingIsLeftBehind
PROPERTY
    EveryDropIsReported
CHECK_DEADLOCK FALSE
