\* Three checks, so that the walk has a first, a middle and a last node; a
\* test, and a call from a check in it, on both threads.
SPECIFICATION Spec
CONSTANTS
    Thread = {t1, t2}
    Check = {k1, k2, k3}
    Nobody = nobody
    Ring = ring
    MaxCalls = 3
    MaxDepth = 2
    Quiescent = TRUE
    SelfRemoval = FALSE
    CheckControls = FALSE
INVARIANTS
    TestIsExact
    NoCheckIsLost
PROPERTIES
    CallsReturn
CHECK_DEADLOCK FALSE
