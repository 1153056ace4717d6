\* The window: two documents of a crashed session, one asked for besides, one
\* process.  The tabs: three.  The pane: three pages, two rows and room for two
\* bitmaps, three requests and two scrolls, hides or moves.  The canvas parts,
\* and what the print dialog may return: see the module.
CONSTANTS
    d1 = d1
    d2 = d2
    d3 = d3
    d4 = d4
    Paths = {d1, d2, d3, d4}
    NoPath = NoPath
    Encrypted = {d2, d4}
    Crashed <- CrashedWith
    MaxOpens = 6
    MaxTabs = 3
    MaxAsks = 1
    MaxRuns = 1
    TabIds = {1, 2, 3}
    SelPages = {1, 2}
    NoSel = NoSel
    Rows = 2
    ThumbCap = 2
    MaxAsked = 3
    MaxScenes = 2
    PageCount = 3
    NPages = 3
    Asks <- PrintAsks
    All = All
    Gap = 4
    PageH <- StripPages
    Zooms = {1, 2}
    Heights = {16, 22}
    Step = 14
    L1Capacity = 3
    L1Budget = 24
    MaxSeq = 3
    MaxEpoch = 2
    Off = Off
SPECIFICATION DeskSpec
\* The window's part ends with the last process, the others' at their bounds.
CHECK_DEADLOCK FALSE
INVARIANTS
    RestoreInOrder
    CanvasHoldsActive
    GestureWhole
    ShowsThePage
    LandsWhereAsked
    BitmapsExact
    VisibleServed
    TilesServed
    PrintSettled
PROPERTIES
    FileStaysWhole
    MarkerTellsTruth
    RestoreEnds
    StaleHeals
    KeepsReadersPlace
    StripPasses
