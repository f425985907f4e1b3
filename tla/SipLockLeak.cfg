\* A call for which there is no module.
SPECIFICATION Spec
CONSTANTS
    Thread = {t1, t2}
    Module = {m1, m2}
    Session = {s1, s2}
    Addr = {a1, a2}
    Nobody = nobody
    None = none
    MaxLeaks = 1
    SelfRemoval = FALSE
    LateRemoval = FALSE
SYMMETRY Symmetry
INVARIANT
    LockIsReturned
CHECK_DEADLOCK FALSE
