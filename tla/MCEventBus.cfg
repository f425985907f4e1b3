\* Two threads that start up to three calls each, nested up to three deep.
\* The event is called with the SIP lock held, handlers enter sections of the
\* core lock only and remove no running handler, and it is destroyed when idle.
SPECIFICATION FairSpec
CONSTANTS
    Thread = {t1, t2}
    h1 = h1
    h2 = h2
    h3 = h3
    Handler <- MCHandler
    Initial <- MCInitial
    Nobody = nobody
    Ring = ring
    MaxCalls = 3
    MaxDepth = 3
    CallingLocks = {"sip"}
    HandlerLocks = {"core"}
    SelfRemoval = FALSE
    IdleDestroy = TRUE
INVARIANTS
    NoCallAfterClear
    SendRunsEachOnce

    
CHECK_DEADLOCK FALSE
