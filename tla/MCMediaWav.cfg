\* Two ports of any direction while the module and then the media system are
\* closed; up to three calls of the module's API, enough to use up the two
\* references that the module takes on itself.
SPECIFICATION FairSpec
CONSTANTS
    Port = {p1, p2}
    MaxApi = 3
    MediaLast = TRUE
INVARIANTS
    Accounts
    NothingFreedInUse
PROPERTIES
    ClosedIsFreed
CHECK_DEADLOCK FALSE
