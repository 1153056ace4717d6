\* Three pages and two generations, then the destructor.  From page 2 the scan
\* goes 2, 0, 1: blocks land in an empty list, in front and in the middle.
SPECIFICATION Spec
CONSTANTS
    PageCount = 3
    Queries <- Words
    Found <- Counts
    Fragile = {1}
    StartPages = {2}
    MaxEpoch = 2
INVARIANTS HitsWhole PendingExact
PROPERTIES CursorKeepsHit SearchEnds
