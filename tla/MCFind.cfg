\* All tabs: two at a time, three ever, and two searches of the panel or the
\* find bar, the second superseding the first or following a tab's close.
\* The bar: one text that is no regular expression, two tabs.  The posts: two
\* workers, two pages, two queries or clears.  The launches: two starts, with a
\* file or without, a list of two, one more file that a window's reader opens.
\* The layouts: two tabs of a book of three pages, two zooms and two heights, two
\* moves of the reader; a layout switch or a tab switch is no move.
CONSTANTS
    v1 = v1
    v2 = v2
    q1 = q1
    q2 = q2
    NoQuery = none
    Views = {v1, v2}
    Queries = {q1, q2}
    Occurs <- MCOccurs
    PageCount = 2
    MaxOpens = 3
    MaxSearches = 2
    Texts = {"", "(b"}
    BadTexts = {"(b"}
    FindTabs = {1, 2}
    Workers = {w1, w2}
    UIThread = UIThread
    DocPages = {1, 2}
    MaxEvents = 2
    f1 = f1
    f3 = f3
    Starts = {p1, p2}
    NoFile = NoFile
    Args = {f1, NoFile}
    Files = {f2}
    Listed <- ListedLast
    kMaxEntries = 2
    MaxAsks = 1
    t1 = t1
    t2 = t2
    Docs = {t1, t2}
    PageH <- Book
    Strippable = {t1, t2}
    FitZoom <- BookFits
    Zooms = {1, 2}
    Heights = {16, 22}
    Hits <- BookHits
    Gap = 4
    Margin = 2
    Step = 14
    MaxMoves = 2
SPECIFICATION FindAllSpec
SYMMETRY Addresses
INVARIANTS
    ResultsFaithful
    NoUseAfterClose
    
    PostsArrive
    LaunchesSound
    StripInStep
PROPERTY PlaceKept
