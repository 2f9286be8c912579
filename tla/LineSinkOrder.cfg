CONSTANTS
    None = None
    Events = {e1, e2, e3, e4}
    Capacity = 1
    Faults = {}
SPECIFICATION Spec
INVARIANTS
    DropsPrecedeLaterEvents
CHECK_DEADLOCK FALSE
