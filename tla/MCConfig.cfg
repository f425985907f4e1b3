\* All files of up to four lines: two contexts besides core, in every order and
\* with every mark, one key and two values.
SPECIFICATION Spec
CONSTANTS
    Context = {core, a, b}
    Core = core
    Key = {k}
    Value = {v, w}
    None = None
    Bang = Bang
    MaxLines = 4
INVARIANTS
    ReadsAsWritten
    PatternsAreFlat
CHECK_DEADLOCK FALSE
