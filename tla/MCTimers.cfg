\* One timer that is kept alive, one that comes and goes.
SPECIFICATION FairSpec
CONSTANTS
    Entry = {e1, e2}
    KeepAlive = {e1}
    Trigger = {1, 2}
    Idle = 2
    MaxWork = 2
    Late = 5
    None = None
INVARIANTS
    KeepsPhase
    NeverLate
PROPERTIES
    RegisteredFires
    CloseEndsLoop
CHECK_DEADLOCK FALSE
