\* Two threads, modules, invite sessions and addresses for them;
\* each thread leaves asip_ua_call with the lock once at most.
SPECIFICATION Spec
CONSTANTS
    Thread = {t1, t2}
    Module = {m1, m2}
    Session = {s1, s2}
    Addr = {a1, a2}
    Nobody = nobody
    None = none
    MaxLeaks = 1
    SelfRemoval = FALSE
    LateRemoval = FALSE
SYMMETRY Symmetry
INVARIANTS
    ModuleOfCallLives
    ListHoldsModules
CHECK_DEADLOCK FALSE
