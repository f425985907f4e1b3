\* One module beside core and three commands: a module that comes with the
\* first, keeps a second, goes with the last, and comes again.
SPECIFICATION Spec
CONSTANTS
    Thread = {t1, t2}
    Name = {m}
    Command = {a, b, c}
    Elem = {e1, e2}
    core = core
    help = help
    None = none
    MaxCalls = 5
    MaxDepth = 2
    OneWriter = TRUE
    Quiescent = TRUE
SYMMETRY Symmetry
INVARIANTS
    OnlyLiveIsUsed
    CommandsAreFound
CHECK_DEADLOCK FALSE
