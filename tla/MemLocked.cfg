\* The library built with ACORE_MEM_LOCK, three clients and callers that
\* unregister quietly: releases race with releases and with the unregistering.
SPECIFICATION FairSpec
CONSTANTS
    Client = {c1, c2, c3}
    Owner = owner
    Nobody = nobody
    MemLock = TRUE
    Quiescent = TRUE
INVARIANTS
    NoStaleBlock
    NoLostUpdate
PROPERTIES
    UnregisterCompletes
    ImplementsSharedObject
CHECK_DEADLOCK FALSE
