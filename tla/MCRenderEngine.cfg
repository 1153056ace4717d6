\* Two workers, two requests on one page: a visible render that asks for
\* the page's text, a prefetch in the other polarity and a thumbnail, with
\* room for one entry in each cache tier.
SPECIFICATION SafeSpec
CONSTANTS
    Pages = {1}
    Scales = {1, 2}
    ByteSizes = {1}
    L1Capacity = 1
    L1Budget = 100
    L2Capacity = 1
    Workers = {w1, w2}
    Pixmaps <- Ids2
    Lists <- Ids2
    MaxRequests = 2
    Kinds <- OnePage
SYMMETRY WorkerSymmetry
INVARIANTS EngineTypeOK AnswersFaithful NullIsExplained
PROPERTIES FinishesOnce
