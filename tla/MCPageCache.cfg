\* Three pixmaps and three display lists of three pages, room for two in each
\* tier; against a budget of 4, one size of which two fit and one that is
\* larger than the whole budget.  Two workers, and three escrows: the search
\* session's and two more.
\* A family of contexts ends when its tab is closed.
CHECK_DEADLOCK FALSE
SPECIFICATION SharedSpec
CONSTANTS
    Pages = {1, 2, 3}
    Scales = {1}
    Pixmaps = {p1, p2, p3}
    Lists = {d1, d2, d3}
    ByteSizes = {2, 5}
    L1Capacity = 2
    L1Budget = 4
    L2Capacity = 2
    MaxHeld = 1
    Shown = {{1}}
    Workers = {w1, w2}
    Escrows = {e1, e2, e3}
    Ui = Ui
    Cache = Cache
    NoEscrow = NoEscrow
SYMMETRY BothSymmetry
CONSTRAINT OneTier
INVARIANTS CacheSound PinHolds FamilySound
PROPERTIES KeepsMostRecent
