\* The window alone: a comment on the password prompt's claim of the restore slot.
SPECIFICATION Spec
CONSTANTS
    a = a
    b = b
    c = c
    d = d
    Paths = {a, b, c, d}
    NoPath = NoPath
    Encrypted = {b, d}
    Crashed <- CrashedWith
    MaxOpens = 6
    MaxTabs = 3
    MaxAsks = 1
    MaxRuns = 1
CHECK_DEADLOCK FALSE
INVARIANTS PromptHoldsItsSlot
