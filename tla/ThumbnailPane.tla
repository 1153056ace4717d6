--------------------------- MODULE ThumbnailPane ---------------------------
(***************************************************************************)
(* The thumbnail pane of one tab (ui/ThumbnailPane.cpp), its cache of      *)
(* bitmaps (core/ThumbCache.cpp) and its record of the requests in flight  *)
(* (ui/detail/ThumbRequests.hpp).                                          *)
(*                                                                         *)
(* A row asks for its thumbnail when Windows has it drawn and the cache    *)
(* does not hold it, unless a request for its page is recorded already.  A *)
(* worker posts the answer: a bitmap, a failure, or the notice that the    *)
(* request was cancelled while queued, by the pane or by a render of the   *)
(* canvas on the same engine.  A row is drawn again only when something    *)
(* marks it, so a notice that is wrongly ignored leaves a blank tile.      *)
(*                                                                         *)
(* The list control's own scroll is any move of its first row: the model's *)
(* scroll position follows it only roughly, having a pitch of its own.     *)
(***************************************************************************)
EXTENDS Naturals, FiniteSets, SequencesExt, Filter

CONSTANTS
    Rows,          \* bound: rows that fit into the pane
    ThumbCap,      \* capacity of the cache (64 in ensure_thumb_pane)
    PageCount,     \* pages of the document
    MaxAsked,      \* bound: requests made
    MaxScenes      \* bound: scrolls, hides and the like by the reader

ASSUME PaneConstants == PageCount \in Nat \ {0} /\ ThumbCap \in Nat \ {0}

VARIABLES
    pane_shown,    \* the list window is visible
    top_row,       \* the list's first row
    current,       \* the page framed as the current one
    cache,         \* the pages with a bitmap, the most recent first
    renders,       \* pending_renders_: the request recorded for a page, or 0
    last_id,
    jobs,          \* requests the renderer has not answered
    posts,         \* the answers posted to the list window
    dirty,         \* visible rows Windows will have drawn
    blank,         \* visible rows drawn as a placeholder
    failed,        \* pages whose last answer was a failure
    overtaken,     \* pages whose record an older answer dropped
    scenes

thumbVars == <<pane_shown, top_row, current, cache, renders, last_id, jobs, posts,
               dirty, blank, failed, overtaken, scenes>>

AllPages == 1..PageCount
VisibleFrom(t) == {p \in AllPages : p >= t /\ p < t + Rows}
VisibleRows == IF pane_shown THEN VisibleFrom(top_row) ELSE {}

\* ListView_RedrawItems: only a visible row is ever drawn.
Redrawn(ps) == dirty \cup (ps \cap VisibleRows)

-----------------------------------------------------------------------------
(* ThumbCache: recency is the order of the sequence.                       *)

Cached == ToSet(cache)

InFront(p) == <<p>> \o Only(cache, Cached \ {p})

get(p) == InFront(p)

\* Fault: a bitmap is put in front without making room.
put_NoRoom(p) == InFront(p)

put(p) ==
    IF p \in Cached THEN InFront(p)
    ELSE <<p>> \o SubSeq(cache, 1, IF Len(cache) < ThumbCap THEN Len(cache) ELSE ThumbCap - 1)

-----------------------------------------------------------------------------
(* ThumbRequests.                                                          *)

NothingPending == [p \in AllPages |-> 0]

\* Fault: a notice forgets the page's request, whichever it is of.
on_canceled_AnyId(p, id) ==
    [record |-> [renders EXCEPT ![p] = 0], redraw |-> renders[p] \in {0, id}]

\* Fault: only the notice of the recorded request has the row drawn again,
\* and a page with nothing recorded is taken as answered.
on_canceled_OnlyRecorded(p, id) ==
    [record |-> IF renders[p] = id THEN [renders EXCEPT ![p] = 0] ELSE renders,
     redraw |-> FALSE]

on_canceled(p, id) ==
    [record |-> IF renders[p] = id THEN [renders EXCEPT ![p] = 0] ELSE renders,
     redraw |-> renders[p] \in {0, id}]

cancel_in_flight ==
    /\ jobs' = {IF j.state = "queued" THEN [j EXCEPT !.state = "cancelled"] ELSE j : j \in jobs}
    /\ renders' = NothingPending

-----------------------------------------------------------------------------
(* What Windows sends.                                                     *)

\* WM_DRAWITEM of a marked row: from the cache, or a placeholder and a request.
DrawRow(p) ==
    /\ p \in dirty
    /\ dirty' = dirty \ {p}
    /\ \/ /\ p \in Cached
          /\ cache' = get(p) /\ blank' = blank \ {p}
          /\ UNCHANGED <<renders, last_id, jobs>>
       \/ /\ p \notin Cached
          /\ blank' = blank \cup {p}
          /\ \/ /\ renders[p] # 0
                /\ UNCHANGED <<renders, last_id, jobs>>
             \/ /\ renders[p] = 0 /\ last_id < MaxAsked
                /\ last_id' = last_id + 1
                /\ renders' = [renders EXCEPT ![p] = last_id']
                /\ jobs' = jobs \cup {[page |-> p, id |-> last_id', state |-> "queued"]}
          /\ UNCHANGED cache
    /\ UNCHANGED <<pane_shown, top_row, current, posts, failed, overtaken, scenes>>

Scene == scenes < MaxScenes /\ scenes' = scenes + 1

\* WM_VSCROLL and WM_MOUSEWHEEL invalidate the list and let it scroll.
Scrolled(t) ==
    /\ pane_shown /\ t # top_row /\ Scene
    /\ top_row' = t /\ dirty' = VisibleFrom(t) /\ blank' = {}
    /\ UNCHANGED <<pane_shown, current, cache, renders, last_id, jobs, posts, failed, overtaken>>

\* show and hide; a hidden list gets no WM_DRAWITEM and is painted whole when
\* it is shown.  Hiding cancels what is queued.
Hide ==
    /\ pane_shown /\ Scene
    /\ pane_shown' = FALSE /\ dirty' = {} /\ blank' = {}
    /\ cancel_in_flight
    /\ UNCHANGED <<top_row, current, cache, last_id, posts, failed, overtaken>>

Show ==
    /\ ~pane_shown /\ Scene
    /\ pane_shown' = TRUE /\ dirty' = VisibleFrom(top_row) /\ blank' = {}
    /\ UNCHANGED <<top_row, current, cache, renders, last_id, jobs, posts, failed, overtaken>>

\* The tab is come back to: on_tab_switch counts the pages again, which starts
\* over from the first row with an empty cache, and shows the pane.
SwitchedTo ==
    /\ ~pane_shown /\ Scene
    /\ cancel_in_flight
    /\ cache' = <<>>
    /\ pane_shown' = TRUE /\ top_row' = 1 /\ dirty' = VisibleFrom(1) /\ blank' = {}
    /\ UNCHANGED <<current, last_id, posts, failed, overtaken>>

\* A DPI change empties the cache and has every row measured and drawn again.
on_dpi_changed ==
    /\ Scene
    /\ cache' = <<>>
    /\ cancel_in_flight
    /\ dirty' = VisibleRows /\ blank' = {}
    /\ UNCHANGED <<pane_shown, top_row, current, last_id, posts, failed, overtaken>>

\* The canvas turned to page p: the two framed rows are drawn again, and the
\* list scrolls to p when the model holds it to be out of view.
set_current_page(p) ==
    /\ p # current /\ Scene
    /\ current' = p
    /\ \/ top_row' = top_row /\ dirty' = Redrawn({current, p}) /\ UNCHANGED blank
       \/ /\ p \notin VisibleFrom(top_row)
          /\ \E t \in AllPages : p \in VisibleFrom(t) /\ top_row' = t
          /\ dirty' = (IF pane_shown THEN VisibleFrom(top_row') ELSE {}) /\ blank' = {}
    /\ UNCHANGED <<pane_shown, cache, renders, last_id, jobs, posts, failed, overtaken>>

\* kick_render cancels the thumbnails queued on the shared engine.
Kicked ==
    /\ \E j \in jobs : j.state = "queued"
    /\ Scene
    /\ jobs' = {IF j.state = "queued" THEN [j EXCEPT !.state = "cancelled"] ELSE j : j \in jobs}
    /\ UNCHANGED <<pane_shown, top_row, current, cache, renders, last_id, posts, dirty, blank,
                   failed, overtaken>>

-----------------------------------------------------------------------------
(* The workers, and the answers as the list window gets them.              *)

Begins ==
    \E j \in jobs :
        /\ j.state = "queued"
        /\ jobs' = (jobs \ {j}) \cup {[j EXCEPT !.state = "running"]}
        /\ UNCHANGED <<pane_shown, top_row, current, cache, renders, last_id, posts, dirty, blank,
                       failed, overtaken, scenes>>

Answers ==
    \E j \in jobs :
        /\ j.state # "queued"
        /\ jobs' = jobs \ {j}
        /\ \E kind \in IF j.state = "cancelled" THEN {"cancelled"} ELSE {"bitmap", "failed"} :
              posts' = Append(posts, [kind |-> kind, page |-> j.page, id |-> j.id])
        /\ UNCHANGED <<pane_shown, top_row, current, cache, renders, last_id, dirty, blank,
                       failed, overtaken, scenes>>

\* The record of a newer request goes with the answer of an older one.
Overtakes(m) == renders[m.page] \notin {0, m.id}

\* Fault: a bitmap is cached and its row left for the next paint.
THUMB_READY_NoRedraw(m) ==
    /\ m.kind # "cancelled"
    /\ renders' = [renders EXCEPT ![m.page] = 0]
    /\ overtaken' = IF Overtakes(m) THEN overtaken \cup {m.page} ELSE overtaken
    /\ failed' = IF m.kind = "failed" THEN failed \cup {m.page} ELSE failed \ {m.page}
    /\ cache' = IF m.kind = "bitmap" THEN put(m.page) ELSE cache
    /\ dirty' = dirty

\* WM_USER_THUMB_READY: the page's record is dropped whoever answered; a bitmap
\* is cached and its row drawn, a failure leaves the placeholder.
THUMB_READY(m) ==
    /\ m.kind # "cancelled"
    /\ renders' = [renders EXCEPT ![m.page] = 0]
    /\ overtaken' = IF Overtakes(m) THEN overtaken \cup {m.page} ELSE overtaken
    /\ failed' = IF m.kind = "failed" THEN failed \cup {m.page} ELSE failed \ {m.page}
    /\ cache' = IF m.kind = "bitmap" THEN put(m.page) ELSE cache
    /\ dirty' = IF m.kind = "bitmap" THEN Redrawn({m.page}) ELSE dirty

THUMB_CANCELED(m) ==
    /\ m.kind = "cancelled"
    /\ renders' = on_canceled(m.page, m.id).record
    /\ dirty' = IF on_canceled(m.page, m.id).redraw THEN Redrawn({m.page}) ELSE dirty
    /\ UNCHANGED <<cache, failed, overtaken>>

Handled ==
    /\ posts # <<>>
    /\ posts' = Tail(posts)
    /\ \/ THUMB_READY(Head(posts))
       \/ THUMB_CANCELED(Head(posts))
    /\ UNCHANGED <<pane_shown, top_row, current, last_id, jobs, blank, scenes>>

-----------------------------------------------------------------------------
\* toggle_thumbs or a first tab switch made the pane and shows it.
PaneInit ==
    /\ pane_shown = TRUE /\ top_row = 1 /\ current = 1 /\ cache = <<>>
    /\ renders = NothingPending /\ last_id = 0 /\ jobs = {} /\ posts = <<>>
    /\ dirty = VisibleFrom(1) /\ blank = {} /\ failed = {}
    /\ overtaken = {} /\ scenes = 0

PaneWork == (\E p \in AllPages : DrawRow(p)) \/ Begins \/ Answers \/ Handled

PaneNext ==
    \/ PaneWork
    \/ \E t \in AllPages : Scrolled(t)
    \/ Hide \/ Show \/ SwitchedTo \/ on_dpi_changed \/ Kicked
    \/ \E p \in AllPages : set_current_page(p)

PaneSpec == PaneInit /\ [][PaneNext]_thumbVars

-----------------------------------------------------------------------------
(* Properties.                                                             *)

Asked(p) == \E j \in jobs : j.page = p
Told(p) == \E i \in DOMAIN posts : posts[i].page = p

\* A tile shown as a placeholder is waiting for something: it is about to be
\* drawn, its page is with a worker or in a posted answer, or its last answer
\* was a failure (ThumbnailPane.cpp:745 and :749).  A cancelled request of a row
\* the reader can see is asked for again, whatever became of the record since.
RowServed ==
    \A p \in VisibleRows \cap blank : p \in dirty \cup failed \/ Asked(p) \/ Told(p)

\* A recorded request is one that will be answered: the record never keeps a
\* page from being asked for again (ThumbRequests.hpp:24).
RecordBacked ==
    \A p \in AllPages : renders[p] # 0 =>
        \/ \E j \in jobs : j.page = p /\ j.id = renders[p]
        \/ \E i \in DOMAIN posts : posts[i].page = p /\ posts[i].id = renders[p]

\* The cache is within its capacity and holds a page once (ThumbCache.cpp:16).
CacheBounded == Len(cache) <= ThumbCap /\ IsInjective(cache)

\* No notice of a cancel, however late, makes a page wait twice in the queue
\* (ThumbRequests.hpp:7): the only second request is one made after the answer
\* to an older one dropped the record of the first.
NoPair ==
    \A p \in AllPages \ overtaken :
        Cardinality({j \in jobs : j.page = p /\ j.state = "queued"}) <= 1

TilesServed == RowServed /\ RecordBacked /\ CacheBounded /\ NoPair
=============================================================================
