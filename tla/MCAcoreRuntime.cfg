\* Two APIs, three clones: both APIs can be held, doomed and re-registered
\* independently, and one API can have several clones out when it is given up.
SPECIFICATION FairSpec
CONSTANTS
    Api = {wav, stdio}
    Handle = {h1, h2, h3}
INVARIANTS
    TypeOK
    RefCountsHandles
    NoClearWhileHeld
PROPERTIES
    UnregisteredIsCleared
    ImplementsSharedObject
