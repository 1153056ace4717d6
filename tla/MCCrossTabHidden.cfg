\* One tab, one search, and F6 before the tab is closed.
CONSTANTS
    v1 = v1
    v2 = v2
    q1 = q1
    q2 = q2
    NoQuery = none
    Views = {v1, v2}
    Queries = {q1, q2}
    Occurs <- MCOccurs
    PageCount = 2
    MaxOpens = 2
    MaxSearches = 1
SPECIFICATION Spec
INVARIANT RecordsOpen
