\* Two accounts, so that one can get a client that another has left, and one be
\* inserted while the other is looked for, and two clients: a new registration
\* while the old one is still out.
SPECIFICATION Spec
CONSTANTS
    UA = {u1, u2}
    Client = {c1, c2}
    Ring = Ring
    None = None
    MaxMisses = 1
    InSections = TRUE
SYMMETRY Symmetry
INVARIANTS
    ClientsMatchAccounts
    AccountsAreFound

    
CHECK_DEADLOCK FALSE
