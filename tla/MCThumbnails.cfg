\* Two workers, two requests, thumbnails and page renders between them, with
\* no room for a display list in the cache.
SPECIFICATION TSpec
CONSTANTS
    Pages = {1}
    Scales = {1, 2}
    ByteSizes = {1}
    L1Capacity = 1
    L1Budget = 100
    L2Capacity = 0
    Workers = {w1, w2}
    Pixmaps <- Ids2
    Lists <- Ids2
    MaxRequests = 2
    Kinds <- Both
INVARIANTS CallbacksCounted
PROPERTIES TeardownFinishes
