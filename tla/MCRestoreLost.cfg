\* The window alone: a comment on an exit in mid-restore.
SPECIFICATION Spec
CONSTANTS
    a = a
    b = b
    c = c
    d = d
    Paths = {a, b, c, d}
    NoPath = NoPath
    Encrypted = {b, d}
    Crashed <- CrashedWith
    MaxOpens = 6
    MaxTabs = 3
    MaxAsks = 1
    MaxRuns = 1
CHECK_DEADLOCK FALSE
INVARIANTS FullSessionOfferedAgain
