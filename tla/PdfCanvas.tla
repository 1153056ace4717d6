----------------------------- MODULE PdfCanvas -----------------------------
(***************************************************************************)
(* src/src/ui/PdfCanvas.cpp in its paged layouts, with the parts of        *)
(* DocumentView (page, zoom) and MainWindow (kick_render, navigate_click,  *)
(* on_tab_switch, the view commands) that drive it.                        *)
(*                                                                         *)
(* Everything here runs on the UI thread: an action is one message, and    *)
(* the functions it calls are operators from canvas to canvas, composed in *)
(* the order of the code.  The render engine answers each request at most  *)
(* once and in any order: with a pixmap, with none, or -- when the post    *)
(* could not be made -- not at all.                                        *)
(*                                                                         *)
(* Lengths are integers in one vertical unit; pan_x is left out.           *)
(***************************************************************************)
EXTENDS Integers, FiniteSets

CONSTANTS
    Docs,           \* the open documents, one per tab
    PageCount,      \* Docs -> number of pages
    PageH,          \* page -> its height at zoom 1 (even)
    FitOf,          \* page -> the zoom that fits it to the whole width
    Zooms,          \* the zoom presets
    Heights,        \* the heights the canvas can be given (even)
    Hits,           \* search hits: [page, mid], mid the quad's centre at zoom 1
    PanStep,        \* what an arrow key moves
    WheelStep,      \* what a notch moves
    MaxSeq          \* bound: submission batches

NoDoc == "no document"
NoPage == -1
NoBitmap == [h |-> 0, epoch |-> 0, page |-> NoPage, seq |-> 0]
NoAnchor == [kind |-> "None", hit |-> NoPage]
HalfQuad == 1       \* half a hit's height
HitMargin == 1      \* kHitMarginDip

CanvasConstants ==
    /\ PageCount \in [Docs -> Nat \ {0}]
    /\ NoDoc \notin Docs
    /\ \A h \in Hits : h.page \in Nat
    /\ {PanStep, WheelStep, MaxSeq} \subseteq Nat \ {0}

VARIABLE
    c   \* PdfCanvas::Impl, the documents' pages and zooms, and the requests

Init ==
    c = [view |-> NoDoc, epoch |-> 0, next_seq |-> 0,
         anchor |-> NoAnchor, anchor_seq |-> 0, applied |-> FALSE,
         left_failed |-> 0, right_failed |-> 0, flip |-> 0,
         bitmap |-> NoBitmap, right |-> NoBitmap,
         pan |-> 0, dual |-> FALSE, held |-> NoPage,
         rt |-> FALSE, vh |-> CHOOSE h \in Heights : TRUE,
         \* DocumentView and Tab
         page |-> [d \in Docs |-> 0], pct |-> [d \in Docs |-> FitOf[0]],
         fit |-> [d \in Docs |-> TRUE], spread |-> [d \in Docs |-> FALSE],
         saved |-> [d \in Docs |-> 0],
         \* requests not answered yet
         inflight |-> {},
         \* history: where the last navigation asked to be, whether the batch
         \* that answers it has all come, whether one of its answers is lost
         goal |-> NoAnchor, landed |-> FALSE, lost |-> FALSE]

Least(a, b) == IF a < b THEN a ELSE b
Most(a, b) == IF a > b THEN a ELSE b

-----------------------------------------------------------------------------
(* ui/PdfCanvasLayout.hpp                                                  *)

dual_page_compute_left(page, n) == IF page <= 0 \/ n <= 0 THEN 0 ELSE page - ((page - 1) % 2)

dual_page_compute_right(left, n) == IF left <= 0 \/ left + 1 >= n THEN NoPage ELSE left + 1

dual_page_step_next_left(left, n) == Least(IF left <= 0 THEN 1 ELSE left + 2, n - 1)

dual_page_step_prev_left(left) == IF left <= 1 THEN 0 ELSE left - 2

canonical_page(page, n, dual) == IF dual THEN dual_page_compute_left(page, n) ELSE page

Total(s) == PageCount[s.view]
CurrentPage(s) == s.page[s.view]
Pct(s) == s.pct[s.view]
LeftPage(s) == canonical_page(CurrentPage(s), Total(s), s.dual)
RightPage(s) == IF s.dual THEN dual_page_compute_right(LeftPage(s), Total(s)) ELSE NoPage

-----------------------------------------------------------------------------
(* ui/detail/ViewportMath.hpp, ScrollMath.hpp                              *)

clamp_pan(pan, content, vh) ==
    IF content <= vh THEN 0 ELSE Least(Most(pan, vh - content), 0)

\* place_bitmap's y: centred when the page fits, else at the top.
place_y(h, vh) == IF h > vh THEN 0 ELSE (vh - h) \div 2

pan_y_centring_quad(centre, top, content, vh) ==
    clamp_pan(vh \div 2 - centre - top, content, vh)

quad_fully_visible(top, bottom, vh) == top >= HitMargin /\ bottom <= vh - HitMargin

apply_wheel(pan, content, vh, step) ==
    IF \/ content <= vh
       \/ step < 0 /\ pan <= vh - content
       \/ step > 0 /\ pan >= 0
    THEN [pan |-> pan, flip |-> IF step < 0 THEN "Next" ELSE "Prev"]
    ELSE [pan |-> clamp_pan(pan + step, content, vh), flip |-> "None"]

-----------------------------------------------------------------------------
(* What is on screen                                                       *)

bitmap_is_stale(s) ==
    /\ s.bitmap # NoBitmap
    /\ s.bitmap.epoch # s.epoch \/ s.bitmap.page # LeftPage(s)

own_bitmap(s) == s.bitmap # NoBitmap /\ ~bitmap_is_stale(s)

own_right_bitmap(s) ==
    /\ s.right # NoBitmap
    /\ RightPage(s) # NoPage
    /\ s.right.epoch = s.epoch /\ s.right.page = RightPage(s)

spread_landed(s) ==
    /\ own_bitmap(s)
    /\ RightPage(s) = NoPage \/ own_right_bitmap(s) \/ s.right_failed = s.next_seq

newest_batch_failed(s) ==
    /\ s.next_seq # 0 /\ s.left_failed = s.next_seq
    /\ RightPage(s) = NoPage \/ s.right_failed = s.next_seq

\* The height of `page` as shown, 0 when it is not.
shown_page_height(s, page) ==
    IF page = LeftPage(s) /\ own_bitmap(s) THEN s.bitmap.h
    ELSE IF page = RightPage(s) /\ own_right_bitmap(s) THEN s.right.h ELSE 0

\* The height of the painted union, 0 when there is nothing to measure.
content_extent(s) ==
    LET right_alone == s.bitmap = NoBitmap /\ s.dual
                       /\ s.left_failed = s.next_seq /\ own_right_bitmap(s)
        shown == (IF s.bitmap # NoBitmap THEN {s.bitmap.h} ELSE {})
                 \cup (IF right_alone \/ (s.dual /\ s.bitmap # NoBitmap /\ s.right # NoBitmap)
                       THEN {s.right.h} ELSE {})
        tops == {place_y(h, s.vh) : h \in shown}
        ends == {place_y(h, s.vh) + h : h \in shown}
    IN IF ~s.rt \/ shown = {} THEN 0
       ELSE (CHOOSE e \in ends : \A x \in ends : e >= x)
            - (CHOOSE t \in tops : \A x \in tops : t <= x)

pan_y_for_hit(s, h) ==
    LET page_h == shown_page_height(s, h.page) IN
    IF content_extent(s) = 0 \/ page_h = 0 THEN s.pan
    ELSE pan_y_centring_quad(h.mid * Pct(s), place_y(page_h, s.vh), content_extent(s), s.vh)

-----------------------------------------------------------------------------
(* The pending anchor (ui/detail/PageAnchor.hpp) and the pan               *)

Top == [kind |-> "Top", hit |-> NoPage]
Bottom == [kind |-> "Bottom", hit |-> NoPage]
Hit(h) == [kind |-> "Hit", hit |-> h]

\* A hit in a spread names its page; another anchor lets the held page go.
HeldPage(s, a) ==
    IF a.kind = "Hit" /\ s.dual THEN a.hit.page
    ELSE IF a.kind # "None" THEN NoPage ELSE s.held

set_pending_anchor(s, a) ==
    [s EXCEPT !.anchor = a, !.applied = FALSE, !.held = HeldPage(s, a),
              !.goal = a, !.landed = FALSE]

Retire(s) == IF s.applied THEN [s EXCEPT !.anchor = NoAnchor, !.applied = FALSE] ELSE s

\* Opens a submission batch and binds the pending anchor to it.
next_render_seq(s) ==
    [Retire(s) EXCEPT !.next_seq = s.next_seq + 1, !.anchor_seq = s.next_seq + 1,
                      !.goal = IF s.landed THEN NoAnchor ELSE s.goal,
                      !.landed = FALSE, !.lost = FALSE]

take(s, seq) == IF seq = s.anchor_seq THEN s.anchor ELSE NoAnchor

\* Fault: the extent counts as the pair's as soon as one half is there.
ExtentFinal_AnyHalf(s) == TRUE

ExtentFinal(s) == ~s.dual \/ (spread_landed(s) /\ s.bitmap.seq = s.next_seq)

\* Top, Bottom and Hit place the page; None keeps the reader's pan, clamped
\* once the whole pair can be measured.
apply_anchor(s, a) ==
    LET extent == content_extent(s)
        pan == CASE a.kind = "Top" -> 0
                 [] a.kind = "Bottom" -> s.vh - extent
                 [] a.kind = "Hit" -> pan_y_for_hit(s, a.hit)
                 [] OTHER -> s.pan
        unmeasured == \/ extent = 0
                      \/ a.kind = "Hit" /\ shown_page_height(s, a.hit.page) = 0
                      \/ a.kind = "None" /\ ~ExtentFinal(s)
    IN IF unmeasured THEN s
       ELSE [s EXCEPT !.pan = clamp_pan(pan, extent, s.vh),
                      !.applied = @ \/ a.kind = "Top"
                                    \/ (a.kind \in {"Bottom", "Hit"} /\ ExtentFinal(s))]

place_anchor(s, seq) == apply_anchor(s, take(s, seq))

InFlight(s) == {r \in s.inflight : r.seq = s.next_seq}

EndsAnchor(s) == s.left_failed = s.next_seq

\* A move of the reader ends the wait of an anchor for a failed left half, and
\* (history) what the last navigation asked, once all its answers are in.
reader_pan_y(s, y) ==
    LET moved == IF y # s.pan /\ EndsAnchor(s)
                 THEN [set_pending_anchor(s, NoAnchor) EXCEPT !.goal = s.goal]
                 ELSE s
        ended == y # s.pan /\ \/ s.left_failed = s.next_seq
                              \/ /\ InFlight(s) = {} /\ ~s.lost
                                 /\ s.goal.kind = "Hit" =>
                                        shown_page_height(s, s.goal.hit.page) # 0
    IN [moved EXCEPT !.pan = y, !.goal = IF ended THEN NoAnchor ELSE @]

-----------------------------------------------------------------------------
(* The document's page and zoom                                            *)

\* DocumentView::set_viewport: a spread's slot fits at the least zoom.
Refit(s) ==
    IF s.fit[s.view]
    THEN [s EXCEPT !.pct[s.view] =
              IF s.dual THEN CHOOSE z \in Zooms : \A y \in Zooms : z <= y
                        ELSE FitOf[CurrentPage(s)]]
    ELSE s

change_current_page(s, page) ==
    LET to == Least(Most(page, 0), Total(s) - 1)
    IN IF to = CurrentPage(s) THEN s ELSE Refit([s EXCEPT !.page[s.view] = to])

apply_viewport(s) ==
    LET snapped == IF s.dual THEN change_current_page(s, LeftPage(s)) ELSE s
    IN Refit([snapped EXCEPT !.right = IF snapped.dual /\ RightPage(snapped) = NoPage
                                          THEN NoBitmap ELSE @])

\* The requests of the newest batch, one per half.
request_render(s, slot, page) ==
    [epoch |-> s.epoch, seq |-> s.next_seq, page |-> page, slot |-> slot,
     h |-> PageH[page] * Pct(s)]

submit(s) ==
    [s EXCEPT !.inflight = @ \cup {request_render(s, "Left", LeftPage(s))}
                \cup (IF RightPage(s) = NoPage THEN {}
                      ELSE {request_render(s, "Right", RightPage(s))})]

\* MainWindow::kick_render.
kick_render(s, page) ==
    LET b == next_render_seq(s)
        snapped == IF b.dual THEN change_current_page(b, dual_page_compute_left(page, Total(b)))
                   ELSE b
    IN submit(apply_viewport(snapped))

resubmit_current_page(s) ==
    IF s.view = NoDoc THEN s
    ELSE submit(IF s.dual THEN apply_viewport(next_render_seq(s)) ELSE next_render_seq(s))

\* A target in the pair on screen keeps the held page (#211).
navigate_to_page(s, target, a) ==
    LET same_pair == s.dual /\ dual_page_compute_left(target, Total(s)) = LeftPage(s)
        anchored == [set_pending_anchor(s, a) EXCEPT !.held = IF same_pair THEN s.held ELSE @]
        moved == next_render_seq(change_current_page(anchored, target))
    IN IF target = CurrentPage(s) THEN s
       ELSE IF s.dual
            THEN submit(apply_viewport([moved EXCEPT !.bitmap = NoBitmap, !.right = NoBitmap]))
            ELSE submit(moved)

-----------------------------------------------------------------------------
(* The canvas's own state                                                  *)

discard_render_target(s) == [s EXCEPT !.bitmap = NoBitmap, !.right = NoBitmap, !.rt = FALSE]

set_view(s, d) ==
    [s EXCEPT !.held = IF d # s.view THEN NoPage ELSE @,
              !.view = d, !.epoch = s.epoch + 1,
              !.right = NoBitmap, !.anchor = NoAnchor, !.applied = FALSE,
              !.goal = NoAnchor, !.landed = FALSE, !.flip = 0,
              !.bitmap = IF d = NoDoc THEN NoBitmap ELSE @]

set_dual_page(s, on) ==
    IF s.dual = on THEN s
    ELSE [s EXCEPT !.dual = on, !.right = NoBitmap, !.pan = 0, !.held = NoPage]

right_half_failed(s, seq) ==
    LET f == [s EXCEPT !.right_failed = seq]
        g == IF own_right_bitmap(f) THEN f ELSE [f EXCEPT !.right = NoBitmap]
    IN IF g.bitmap.seq = seq THEN place_anchor(g, seq) ELSE g

\* Fault: a left half that fails after the right one came does not place it.
left_half_failed_NoPlacing(s, seq) ==
    LET f == [s EXCEPT !.left_failed = seq]
    IN IF own_bitmap(f) THEN f ELSE [f EXCEPT !.bitmap = NoBitmap]

left_half_failed(s, seq) ==
    LET f == [s EXCEPT !.left_failed = seq]
        g == IF own_bitmap(f) THEN f ELSE [f EXCEPT !.bitmap = NoBitmap]
    IN IF own_right_bitmap(g) THEN place_anchor(g, seq) ELSE g

half_failed(s, r) ==
    IF r.slot = "Right" THEN right_half_failed(s, r.seq) ELSE left_half_failed(s, r.seq)

-----------------------------------------------------------------------------
(* WM_USER_RENDER_DONE and WM_USER_RENDER_DONE_RIGHT                       *)

\* Fault: a completion of a superseded batch is taken.
accept_completion_AnySeq(s, r) ==
    /\ r.epoch = s.epoch
    /\ IF r.slot = "Left" THEN r.page = LeftPage(s) ELSE r.page = RightPage(s)

accept_completion(s, r) ==
    /\ r.epoch = s.epoch
    /\ r.seq >= s.next_seq
    /\ IF r.slot = "Left" THEN r.page = LeftPage(s) ELSE r.page = RightPage(s)

\* Fault: only a pixmap releases the wheel.
ReleasesWheel_NotOnFailure(s) == s

\* A failure answers a pending flip.
ReleasesWheel(s) == [s EXCEPT !.flip = 0]

Answer(s, r) == [s EXCEPT !.inflight = @ \ {r}]

\* History: this batch's left half has come, and the pair's right page is on
\* screen, does not exist or will not come.
PairMeasured(s) ==
    /\ s.bitmap.seq = s.next_seq
    /\ RightPage(s) # NoPage => own_right_bitmap(s) \/ s.right_failed = s.next_seq

\* History: the navigation has landed once what it is measured against is in.
Lands(s) ==
    [s EXCEPT !.landed =
        \/ @
        \/ /\ s.goal.kind = "Top" /\ content_extent(s) # 0
           /\ \/ s.next_seq \in {s.bitmap.seq, s.right.seq}
              \/ s.next_seq = s.left_failed /\ own_right_bitmap(s)
        \/ /\ PairMeasured(s)
           /\ s.goal.kind = "Hit" => shown_page_height(s, s.goal.hit.page) # 0]

Adopt(s, r) ==
    LET bmp == [h |-> r.h, epoch |-> r.epoch, page |-> r.page, seq |-> r.seq]
        shown == IF r.slot = "Right" THEN [s EXCEPT !.right = bmp] ELSE [s EXCEPT !.bitmap = bmp]
    IN [place_anchor(shown, r.seq) EXCEPT !.flip = 0]

\* A pixmap.  The target may not be made again after a loss, CreateBitmap may
\* find the device lost, and may fail for this pixmap alone.
RenderDone(r) ==
    LET s == Answer(c, r) IN
    IF ~accept_completion(s, r) THEN c' = s
    ELSE \/ c' = Lands(Adopt([s EXCEPT !.rt = TRUE], r))
         \/ ~s.rt /\ c' = [s EXCEPT !.lost = TRUE]
         \/ /\ s.next_seq < MaxSeq
            /\ c' = resubmit_current_page(discard_render_target(s))
         \/ c' = Lands(ReleasesWheel(half_failed([s EXCEPT !.rt = TRUE], r)))

\* No pixmap.  The worker may not have been able to say whose failure it is.
RenderFailed(r) ==
    LET s == ReleasesWheel(Answer(c, r))
    IN \/ c' = IF accept_completion(s, r) THEN Lands(half_failed(s, r)) ELSE s
       \/ c' = [s EXCEPT !.lost = @ \/ r.seq = s.next_seq]

\* A pixmap whose post failed: the worker dropped it.
PostFails(r) == c' = [Answer(c, r) EXCEPT !.lost = @ \/ r.seq = c.next_seq]

-----------------------------------------------------------------------------
(* The reader and the window                                               *)

Open == c.view # NoDoc

MayKick == c.next_seq < MaxSeq

\* MainWindow::on_tab_switch; choosing the tab on screen comes here too.
ActivateTab(d) ==
    /\ MayKick
    /\ LET s == IF Open THEN [c EXCEPT !.saved[c.view] = c.pan] ELSE c
           v == set_dual_page(set_view(s, d), s.spread[d])
       IN c' = kick_render([v EXCEPT !.pan = s.saved[d]], s.page[d])

\* The last tab closes; a document opened later starts at its first page.
CloseTabs ==
    /\ Open
    /\ c' = [set_dual_page(set_view(c, NoDoc), FALSE) EXCEPT
                !.pan = 0, !.page = [d \in Docs |-> 0], !.pct = [d \in Docs |-> FitOf[0]],
                !.fit = [d \in Docs |-> TRUE], !.spread = [d \in Docs |-> FALSE],
                !.saved = [d \in Docs |-> 0]]

\* IDM_VIEW_DUAL_PAGE.
ToggleSpread ==
    /\ Open /\ MayKick
    /\ LET on == ~c.spread[c.view]
           s == set_dual_page([c EXCEPT !.spread[c.view] = on], on)
       IN c' = kick_render(IF on THEN change_current_page(s, LeftPage(s)) ELSE s, CurrentPage(s))

\* IDM_ZOOM_IN / OUT kick; Ctrl + the wheel resubmits.
Zoom(z) ==
    /\ Open /\ MayKick /\ z # Pct(c)
    /\ LET s == [c EXCEPT !.pct[c.view] = z, !.fit[c.view] = FALSE]
       IN c' = kick_render(s, CurrentPage(c)) \/ c' = resubmit_current_page(s)

\* IDM_ZOOM_RESET.
ZoomReset ==
    /\ Open /\ MayKick
    /\ c' = kick_render(Refit([c EXCEPT !.fit[c.view] = TRUE]), CurrentPage(c))

\* MainWindow::navigate_click: outline, thumbnails, page box.  A click on the
\* other page of the pair on screen moves nothing.
navigate_click(page) ==
    /\ Open /\ MayKick /\ page # CurrentPage(c)
    /\ LET s == change_current_page(c, page)
       IN c' = kick_render(IF canonical_page(page, Total(c), c.dual) = LeftPage(c) THEN s
                           ELSE set_pending_anchor(s, Top), page)

\* scroll_into_view: a hit that is fully visible drops the pending anchor, one
\* that is not is scrolled to at once and anchored.
scroll_into_view(s, h) ==
    LET view_page == canonical_page(h.page, Total(s), s.dual)
        page_moved == view_page # LeftPage(s)
        moved == change_current_page(s, view_page)
        page_h == shown_page_height(moved, h.page)
        origin == place_y(page_h, moved.vh) + moved.pan
        anchored == set_pending_anchor(moved, Hit(h))
    IN IF page_moved \/ ~s.rt \/ page_h = 0 THEN anchored
       ELSE IF quad_fully_visible(origin + (h.mid - HalfQuad) * Pct(moved),
                                  origin + (h.mid + HalfQuad) * Pct(moved), moved.vh)
            THEN set_pending_anchor(moved, NoAnchor)
            ELSE [anchored EXCEPT !.pan = pan_y_for_hit(anchored, h)]

\* MainWindow::on_find_next and its siblings.
Find(h) ==
    /\ Open /\ MayKick /\ h.page < Total(c)
    /\ LET s == scroll_into_view(c, h) IN c' = kick_render(s, CurrentPage(s))

scroll_to_top(s) ==
    IF content_extent(s) = 0 THEN s ELSE reader_pan_y(s, clamp_pan(0, content_extent(s), s.vh))

\* on_key_down: PgDn, PgUp, Home and End.
PageKey(key) ==
    LET last == Total(c) - 1
        target == CASE key = "PgDn" -> IF c.dual THEN dual_page_step_next_left(LeftPage(c), Total(c))
                                       ELSE Least(CurrentPage(c) + 1, last)
                    [] key = "PgUp" -> IF c.dual THEN dual_page_step_prev_left(LeftPage(c))
                                       ELSE Most(CurrentPage(c) - 1, 0)
                    [] key = "Home" -> 0
                    [] key = "End" -> last
    IN /\ MayKick
       /\ c' = IF key \in {"Home", "End"} /\ target = CurrentPage(c) THEN scroll_to_top(c)
               ELSE navigate_to_page(c, target, Top)

\* pan_by: the arrow keys and the hand tool.
Pan(dy) ==
    /\ ~bitmap_is_stale(c) /\ content_extent(c) # 0
    /\ c' = reader_pan_y(c, clamp_pan(c.pan + dy, content_extent(c), c.vh))

FlipPending(s) == s.flip # 0 /\ s.flip = s.next_seq

\* Fault: with nothing to measure the notch counts as a page that fits.
Measured_Always(s) == TRUE

Measured(s) == content_extent(s) # 0 \/ newest_batch_failed(s)

WheelTarget(s, flip) ==
    IF s.dual
    THEN dual_page_compute_left(
             IF flip = "Next" THEN dual_page_step_next_left(LeftPage(s), Total(s))
             ELSE dual_page_step_prev_left(LeftPage(s)), Total(s))
    ELSE IF flip = "Next" THEN Least(CurrentPage(s) + 1, Total(s) - 1)
         ELSE Most(CurrentPage(s) - 1, 0)

\* on_wheel_scroll, for one whole notch: scroll, or turn the page at its edge.
Wheel(step) ==
    /\ Open /\ MayKick
    /\ ~FlipPending(c) /\ ~bitmap_is_stale(c) /\ Measured(c)
    /\ LET s == [c EXCEPT !.rt = TRUE]
           r == apply_wheel(s.pan, content_extent(c), s.vh, step)
           n == navigate_to_page(s, WheelTarget(s, r.flip), IF r.flip = "Next" THEN Top ELSE Bottom)
       IN c' = IF r.flip = "None" THEN reader_pan_y(s, r.pan)
               ELSE IF WheelTarget(s, r.flip) = LeftPage(s) THEN s
               ELSE [n EXCEPT !.flip = n.next_seq]

\* on_size under MainWindow::on_layout, then the Layout kick; the target may be
\* lost as it is resized, and is discarded when the DPI changes.
Resize(h) ==
    /\ Open /\ c.next_seq + 1 < MaxSeq
    /\ LET s == [c EXCEPT !.vh = h] IN
       \/ h # c.vh /\ c' = kick_render(s, CurrentPage(s))
       \/ s.rt /\ c' = kick_render(resubmit_current_page(discard_render_target(s)), CurrentPage(s))
       \/ c' = kick_render(discard_render_target(s), CurrentPage(s))

\* on_paint makes the target; EndDraw may find the device lost.
Paint ==
    \/ ~c.rt /\ c' = [c EXCEPT !.rt = TRUE]
    \/ c.rt /\ MayKick /\ c' = resubmit_current_page(discard_render_target(c))

ReaderStep ==
    /\ Open
    /\ \/ \E k \in {"PgDn", "PgUp", "Home", "End"} : PageKey(k)
       \/ \E dy \in {PanStep, -PanStep} : Pan(dy)
       \/ \E step \in {WheelStep, -WheelStep} : Wheel(step)
       \/ \E h \in Hits : Find(h)
       \/ \E p \in 0..(Total(c) - 1) : navigate_click(p)

Next ==
    \/ \E r \in c.inflight : RenderDone(r) \/ RenderFailed(r) \/ PostFails(r)
    \/ ReaderStep
    \/ \E d \in Docs : ActivateTab(d)
    \/ CloseTabs \/ ToggleSpread
    \/ (\E z \in Zooms : Zoom(z)) \/ ZoomReset
    \/ \E h \in Heights : Resize(h)
    \/ Paint

Spec == Init /\ [][Next]_c

-----------------------------------------------------------------------------
(* Properties                                                              *)

\* Every render of the newest batch has been answered.
Settled == Open /\ c.next_seq > 0 /\ InFlight(c) = {} /\ ~c.lost

\* What a half shows once its render is answered: its page at the document's
\* zoom; after a failure, that page's former render or nothing.
HalfShown(bmp, page, failed_seq) ==
    IF page = NoPage THEN bmp = NoBitmap
    ELSE /\ bmp = NoBitmap => failed_seq = c.next_seq
         /\ bmp # NoBitmap => bmp.epoch = c.epoch /\ bmp.page = page
         /\ failed_seq # c.next_seq => bmp.h = PageH[page] * Pct(c)

\* In whatever order the renders of former pages, zooms, layouts and documents
\* are answered, the canvas ends with the pages it is on, at their zoom: no
\* half of an outgoing pair, no superseded scale.
ShowsThePage ==
    Settled =>
        /\ HalfShown(c.bitmap, LeftPage(c), c.left_failed)
        /\ HalfShown(c.right, RightPage(c), c.right_failed)

Ideal ==
    CASE c.goal.kind = "Top" -> 0
      [] c.goal.kind = "Bottom" -> clamp_pan(c.vh - content_extent(c), content_extent(c), c.vh)
      [] c.goal.kind = "Hit" -> pan_y_for_hit(c, c.goal.hit)

\* A navigation ends at the place it named, whichever half comes first, fails,
\* or is asked for again before it came.
LandsWhereAsked ==
    /\ Settled /\ c.goal.kind # "None" /\ c.next_seq \in {c.bitmap.seq, c.right.seq}
    /\ c.goal.kind = "Hit" => shown_page_height(c, c.goal.hit.page) # 0
    => c.pan = Ideal

\* What an answer may do to the pan, and a notch to the page.
PanByAnswer ==
    (c'.inflight \subseteq c.inflight /\ c'.inflight # c.inflight /\ c.goal.kind = "None"
       /\ c'.pan # c.pan)
    => /\ PairMeasured(c')
       /\ c'.pan = clamp_pan(c.pan, content_extent(c'), c'.vh)

PageByNotch ==
    c'.flip # c.flip /\ c'.flip # 0
    => own_bitmap(c) \/ own_right_bitmap(c) \/ newest_batch_failed(c)

\* With no navigation under way a render's answer moves the reader only by the
\* clamp, and not before the whole pair can be measured (#171).
KeepsReadersPlace == [][PanByAnswer]_c

\* The wheel is held back only while the page it turned to is on its way.
WheelReleased == FlipPending(c) => InFlight(c) # {} \/ c.lost
=============================================================================
