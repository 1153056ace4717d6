\* The comment on checkpoint A, against the L1 hit's late cancel.
SPECIFICATION SafeSpec
CONSTANTS
    Pages = {1}
    Scales = {1, 2}
    ByteSizes = {1}
    L1Capacity = 1
    L1Budget = 100
    L2Capacity = 1
    Workers = {w1}
    Pixmaps <- Ids2
    Lists <- Ids2
    MaxRequests = 2
    Kinds <- WithText
INVARIANTS CancelStillAnswered
