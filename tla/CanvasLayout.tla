---------------------------- MODULE CanvasLayout ----------------------------
(***************************************************************************)
(* Where the reader is, across the three layouts of the canvas: the layout *)
(* switches of PdfCanvasStrip.cpp, the tab switch and the view commands of *)
(* MainWindow.cpp, and the strip's scroll bar.                             *)
(*                                                                         *)
(* An action is one message of the UI thread; functions of the code are    *)
(* operators from canvas to canvas.  Renders are left out (PdfCanvas,      *)
(* PdfCanvasStrip): of a paged page's bitmap only its landing remains.  A  *)
(* page has the same fit as every other page.                              *)
(***************************************************************************)
EXTENDS StripViewport

CONSTANTS
    Docs,           \* the open tabs
    PageH,          \* a document's pages -> height at zoom 1
    Strippable,     \* the documents of a format the strip shows
    FitZoom,        \* layout -> the zoom that fits the width
    Zooms,          \* the zoom presets
    Heights,        \* the heights the canvas can be given
    Hits,           \* search hits: [page, from, to] at zoom 1
    Margin,         \* kHitMarginDip
    Step,           \* what a wheel notch, a key or the hand tool scrolls
    MaxMoves        \* bound: moves of the reader or the window

NoPlace == [zoom |-> 0, vp_h |-> 0, y |-> 0]
NoHit == [page |-> NoPage, from |-> 0, to |-> 0]
NoAnchor == [kind |-> "None", hit |-> NoHit]
TopAnchor == [kind |-> "Top", hit |-> NoHit]
HitAnchor(hit) == [kind |-> "Hit", hit |-> hit]

ASSUME LayoutConstants ==
    /\ Cardinality(DOMAIN PageH) \in Nat \ {0}
    /\ PageH \in [0..(Cardinality(DOMAIN PageH) - 1) -> Nat \ {0}]
    /\ Zooms \subseteq Nat \ {0} /\ Heights \subseteq Nat \ {0}
    /\ FitZoom \in [{"Single", "Spread", "Strip"} -> Zooms]
    /\ Strippable \subseteq Docs /\ {Gap, Step} \subseteq Nat \ {0}
    \* a hit lies on its page
    /\ Hits \subseteq [page : DOMAIN PageH, from : Nat, to : Nat]
    /\ \A hit \in Hits : hit.from <= hit.to /\ hit.to <= PageH[hit.page]

VARIABLE
    cv   \* the canvas, the tabs and the view preference

LayoutInit ==
    \E d \in Docs, h \in Heights :
    cv = [view |-> d, layout |-> "Single", pref |-> FALSE, vp_h |-> h,
          sv |-> NewViewport(h), pan |-> 0, held |-> NoPage, landing |-> NoAnchor,
          thumb_drag_live |-> FALSE, thumb_drag_dead |-> FALSE,
          \* DocumentView and Tab
          tab |-> [t \in Docs |-> [page |-> 0, zoom |-> FitZoom.Single, fit |-> TRUE,
                                   spread |-> FALSE, pan |-> 0, strip_state |-> NoState]],
          \* history: the layout a thumb drag began on, the page a carry brought
          \* out of the strip or a hit landed on, that of a hit sent in this
          \* layout, where each tab was left in the strip
          drag |-> <<>>, came |-> NoPage, sent |-> NoPage, left |-> [t \in Docs |-> NoPlace],
          moves |-> 0]

Total == Cardinality(DOMAIN PageH)
Tab(s) == s.tab[s.view]
CurrentPage(s) == Tab(s).page
ZoomPct(s) == Tab(s).zoom
HeightOf(s, p) == IF p = NoPage THEN 0 ELSE PageH[p] * ZoomPct(s)
SetPage(s, p) == [s EXCEPT !.tab[s.view].page = p]
strip_active(s) == s.layout = "Strip" /\ has_layout(s.sv)

dual_page_compute_left(p) == IF p <= 0 THEN 0 ELSE p - ((p - 1) % 2)
dual_page_compute_right(left) == IF left <= 0 \/ left + 1 >= Total THEN NoPage ELSE left + 1

\* A move of the reader or the window ends what the history remembers.
Moved(s) == [s EXCEPT !.came = NoPage, !.sent = NoPage, !.moves = @ + 1]

canon(s, p) == IF s.layout = "Spread" THEN dual_page_compute_left(p) ELSE p

\* spread_vertical_for: the pair of the left page `left`, at the view's zoom.
spread_vertical_for(s, left) ==
    LET right == dual_page_compute_right(left)
    IN spread_vertical(HeightOf(s, left), IF right = NoPage THEN -1 ELSE HeightOf(s, right), s.vp_h)

\* The height of what a paged layout paints.
Content(s) ==
    IF s.layout = "Spread" THEN spread_vertical_for(s, canon(s, CurrentPage(s))).union_h
    ELSE HeightOf(s, CurrentPage(s))

-----------------------------------------------------------------------------
(* Refits, and the kick                                                    *)

apply_viewport(s) ==
    LET t == SetPage(s, canon(s, CurrentPage(s)))
    IN [t EXCEPT !.tab[s.view].zoom = IF Tab(s).fit THEN FitZoom[s.layout] ELSE @]

\* Fault: the view takes the strip's page before it is derived anew.
strip_after_change_PageFirst(s) ==
    IF strip_active(s) THEN SetPage([s EXCEPT !.sv = recompute_current(@)], s.sv.current) ELSE s

strip_after_change(s) ==
    IF strip_active(s)
    THEN LET sv == recompute_current(s.sv) IN SetPage([s EXCEPT !.sv = sv], sv.current)
    ELSE s

\* Fault: a re-layout leaves the drag of the thumb alone.
strip_end_thumb_drag_Never(s) == s

strip_end_thumb_drag(s) == [s EXCEPT !.thumb_drag_dead = @ \/ s.thumb_drag_live]

strip_kick(s, reason) ==
    LET built_here == ~has_layout(s.sv)
        relayouts == reason # "Navigate"
        sv == IF built_here THEN build(s.sv, PageH, ZoomPct(s))
              ELSE IF relayouts THEN relayout(s.sv, PageH, ZoomPct(s)) ELSE s.sv
        placed == IF reason = "TabSwitch" /\ Tab(s).strip_state # NoState
                  THEN restore_saved(sv, Tab(s).strip_state)
                  ELSE IF built_here THEN navigate(sv, CurrentPage(s)) ELSE sv
        t == strip_after_change([s EXCEPT !.sv = placed])
    IN IF relayouts THEN strip_end_thumb_drag(t) ELSE t

\* The reasons are Layout, Zoom, Navigate, TabSwitch and Spread.
kick_render(s, reason) ==
    IF s.layout = "Strip"
    THEN LET t == IF reason \in {"Layout", "TabSwitch", "Spread"} THEN apply_viewport(s) ELSE s
         IN strip_kick([t EXCEPT !.sv = set_viewport(@, s.vp_h)], reason)
    ELSE apply_viewport(s)

-----------------------------------------------------------------------------
(* Layout switches                                                         *)

\* Fault: out of a spread, the page the reader was carried to is forgotten.
capture_layout_carry_NotHeld(s) ==
    LET cur == CurrentPage(s)
        left == dual_page_compute_left(cur)
        right == dual_page_compute_right(left)
    IN IF s.layout = "Strip"
       THEN IF has_layout(s.sv) THEN carry(s.sv) ELSE [page |-> cur, offset |-> 0]
       ELSE IF s.layout = "Spread"
       THEN carry_from_spread(left, right, s.pan, spread_vertical_for(s, left),
                              HeightOf(s, left), HeightOf(s, right))
       ELSE carry_from_paged_single(cur, s.pan, HeightOf(s, cur), s.vp_h)

\* [page, offset] of the reader in the outgoing layout.  A turn that has not
\* landed says nothing about the right page.
capture_layout_carry(s) ==
    LET cur == CurrentPage(s)
        left == dual_page_compute_left(cur)
        pair_right == dual_page_compute_right(left)
        right == IF s.landing # NoAnchor THEN NoPage ELSE pair_right
        at == spread_vertical_for(s, left)
    IN IF s.layout = "Strip"
       THEN IF has_layout(s.sv) THEN carry(s.sv) ELSE [page |-> cur, offset |-> 0]
       ELSE IF s.layout = "Single"
       THEN carry_from_paged_single(cur, s.pan, HeightOf(s, cur), s.vp_h)
       ELSE IF s.held # NoPage
       THEN carry_from_spread_held(s.held, left, right, s.pan, at, HeightOf(s, left),
                                   HeightOf(s, pair_right))
       ELSE carry_from_spread(left, right, s.pan, at, HeightOf(s, left), HeightOf(s, right))

\* `s` is already in the new layout.
apply_layout_carry(s, carried, zoom_before) ==
    LET t == apply_viewport(SetPage(s, canon(s, carried.page)))
        at == [carried EXCEPT !.offset = (@ * ZoomPct(t)) \div zoom_before]
        left == dual_page_compute_left(at.page)
        pair == spread_vertical_for(t, left)
        strip == build(set_viewport(t.sv, t.vp_h), PageH, ZoomPct(t))
    IN IF t.layout = "Strip" THEN [t EXCEPT !.sv = apply_carry(strip, at)]
       ELSE IF t.layout = "Spread"
       THEN [t EXCEPT !.held = at.page,
                      !.pan = spread_pan_y_for(at, spread_page_top(pair, at.page, left),
                                               pair.union_h, t.vp_h)]
       ELSE [t EXCEPT !.pan = paged_pan_y_for(at, HeightOf(t, at.page), t.vp_h)]

set_dual_page(s, on) ==
    IF (s.layout = "Spread") = on THEN s
    ELSE [s EXCEPT !.layout = IF on THEN "Spread" ELSE "Single", !.pan = 0, !.held = NoPage]

switch_layout(s, next, carries) ==
    LET dual_changes == (s.layout = "Spread") # (next = "Spread")
        t == [s EXCEPT !.layout = next, !.landing = NoAnchor, !.sv = reset(@),
                       !.thumb_drag_live = @ /\ next # "Strip",
                       !.thumb_drag_dead = next # "Strip" /\ (@ \/ s.thumb_drag_live),
                       !.pan = IF dual_changes THEN 0 ELSE @,
                       !.held = IF dual_changes THEN NoPage ELSE @,
                       !.drag = <<>>]
    IN IF carries THEN apply_layout_carry(t, capture_layout_carry(s), ZoomPct(s)) ELSE t

effective_layout(s) ==
    IF Tab(s).spread THEN "Spread"
    ELSE IF s.pref /\ s.view \in Strippable THEN "Strip" ELSE "Single"

apply_effective_layout(s, carries) ==
    LET target == effective_layout(s)
    IN IF target # s.layout /\ "Strip" \in {target, s.layout}
       THEN switch_layout(s, target, carries)
       ELSE set_dual_page(s, target = "Spread")

\* IDM_VIEW_DUAL_PAGE and IDM_VIEW_CONTINUOUS, after they set the flags.  In the
\* history a carry out of the strip is remembered while the reader stays put.
ChangeLayout(s) ==
    \E t \in {apply_effective_layout(s, TRUE)} :
       cv' = kick_render([t EXCEPT !.came =
                              IF s.layout = "Strip" /\ t.layout # "Strip"
                              THEN capture_layout_carry(s).page ELSE NoPage,
                                   !.sent = NoPage], "Spread")

ToggleSpread == ChangeLayout([cv EXCEPT !.tab[cv.view].spread = ~@])

\* From a spread the menu item turns the strip on, whatever it was.
ToggleContinuous ==
    /\ cv.view \in Strippable
    /\ ChangeLayout([cv EXCEPT !.pref = Tab(cv).spread \/ ~@, !.tab[cv.view].spread = FALSE])

-----------------------------------------------------------------------------
(* Tab switches                                                            *)

\* Fault: a tab left in a paged layout keeps an older place in the strip.
LeaveTab_KeepsState(s) ==
    [s EXCEPT !.tab[s.view].pan = IF s.layout = "Strip" THEN 0 ELSE s.pan,
              !.tab[s.view].strip_state = IF strip_active(s) THEN save(s.sv) ELSE @,
              !.left[s.view] = IF strip_active(s)
                               THEN [zoom |-> ZoomPct(s), vp_h |-> s.vp_h, y |-> s.sv.y]
                               ELSE NoPlace]

\* on_tab_switch snapshots the outgoing tab.
LeaveTab(s) ==
    [s EXCEPT !.tab[s.view].pan = IF s.layout = "Strip" THEN 0 ELSE s.pan,
              !.tab[s.view].strip_state = IF strip_active(s) THEN save(s.sv) ELSE NoState,
              !.left[s.view] = IF strip_active(s)
                               THEN [zoom |-> ZoomPct(s), vp_h |-> s.vp_h, y |-> s.sv.y]
                               ELSE NoPlace]

set_view(s, d) ==
    IF s.layout = "Strip"
    THEN IF d = s.view THEN s
         ELSE strip_end_thumb_drag([s EXCEPT !.view = d, !.sv = reset(@), !.held = NoPage,
                                             !.landing = NoAnchor])
    ELSE [s EXCEPT !.view = d, !.landing = NoAnchor, !.held = IF d = s.view THEN @ ELSE NoPage]

\* Choosing the tab on screen counts, and only kicks.
on_tab_switch(d) ==
    \E t \in {apply_effective_layout(set_view(LeaveTab(cv), d), FALSE)} :
       cv' = kick_render([t EXCEPT !.pan = Tab(t).pan, !.came = NoPage, !.sent = NoPage],
                         IF d = cv.view THEN "Navigate" ELSE "TabSwitch")

-----------------------------------------------------------------------------
(* The reader                                                              *)

\* The wheel, the arrows, PgUp and PgDn; in a paged layout a pan of what landed.
Scroll(dy) ==
    IF strip_active(cv) THEN cv' = strip_after_change(Moved([cv EXCEPT !.sv = scroll_by(@, dy)]))
    ELSE /\ cv.landing = NoAnchor
         /\ cv' = Moved([cv EXCEPT !.pan = clamp_paged(@ - dy, Content(cv), cv.vp_h)])

HomeKey == strip_active(cv) /\ cv' = strip_after_change(Moved([cv EXCEPT !.sv = pin_at(@, 0, 0)]))

EndKey ==
    /\ strip_active(cv)
    /\ cv' = strip_after_change(
                Moved([cv EXCEPT !.sv = pin_at(@, total_height(cv.sv.layout), Total - 1)]))

navigate_click(p) ==
    IF strip_active(cv)
    THEN cv' = kick_render(strip_after_change(Moved([cv EXCEPT !.sv = navigate(@, p)])), "Navigate")
    ELSE LET view_moves == canon(cv, p) # canon(cv, CurrentPage(cv))
         IN /\ p # CurrentPage(cv)
            /\ cv' = kick_render(
                   SetPage([Moved(cv) EXCEPT !.landing = IF view_moves THEN TopAnchor ELSE @,
                                             !.held = IF view_moves THEN NoPage ELSE @], p),
                   "Navigate")

\* Where a hit puts the pan, and whether it is in view already.
QuadTop(s, hit) ==
    (IF s.layout = "Spread"
     THEN spread_page_top(spread_vertical_for(s, canon(s, hit.page)), hit.page, canon(s, hit.page))
     ELSE Centred(HeightOf(s, hit.page), s.vp_h)) + hit.from * ZoomPct(s)

pan_y_for_hit(s, hit) ==
    LET half == ((hit.to - hit.from) * ZoomPct(s)) \div 2
    IN clamp_paged(s.vp_h \div 2 - QuadTop(s, hit) - half, Content(s), s.vp_h)

quad_fully_visible(s, hit) ==
    LET y == QuadTop(s, hit) + s.pan
    IN y >= Margin /\ y + (hit.to - hit.from) * ZoomPct(s) <= s.vp_h - Margin

\* A hit on the page shown is placed at once, another when its page lands.  In a
\* spread a hit names its page.
scroll_into_view(hit) ==
    LET moves == canon(cv, hit.page) # canon(cv, CurrentPage(cv))
        s == Moved(SetPage(cv, canon(cv, hit.page)))
        Sent == [s EXCEPT !.landing = HitAnchor(hit), !.sent = hit.page,
                          !.held = IF cv.layout = "Spread" THEN hit.page ELSE NoPage]
    IN IF strip_active(cv)
       THEN cv' = strip_after_change(Moved([cv EXCEPT !.sv = scroll_hit_into_view(@, hit, Margin)]))
       ELSE \/ cv' = kick_render(Sent, "Navigate")
            \/ /\ ~moves /\ cv.landing = NoAnchor
               /\ cv' = kick_render(IF quad_fully_visible(s, hit) THEN s
                                    ELSE [Sent EXCEPT !.pan = pan_y_for_hit(s, hit)], "Navigate")

\* A paged page's bitmap lands: the pan goes where the anchor wants it.
PagedLands ==
    /\ cv.layout # "Strip"
    /\ cv' = [cv EXCEPT !.landing = NoAnchor,
                        !.pan = CASE cv.landing.kind = "Top" -> 0
                                [] cv.landing.kind = "Hit" -> pan_y_for_hit(cv, cv.landing.hit)
                                [] OTHER -> clamp_paged(@, Content(cv), cv.vp_h),
                        !.came = IF cv.sent # NoPage THEN cv.sent ELSE @, !.sent = NoPage]

Zoom(z) ==
    /\ z # ZoomPct(cv)
    /\ cv' = kick_render(Moved([cv EXCEPT !.tab[cv.view].zoom = z, !.tab[cv.view].fit = FALSE]), "Zoom")

\* IDM_ZOOM_RESET.
ZoomReset ==
    cv' = kick_render(Moved([cv EXCEPT !.tab[cv.view].fit = TRUE,
                                       !.tab[cv.view].zoom = FitZoom[cv.layout]]), "Zoom")

on_size(s) ==
    IF s.layout = "Strip"
    THEN strip_end_thumb_drag(strip_after_change([s EXCEPT !.sv = set_viewport(@, s.vp_h)]))
    ELSE s

\* The canvas gets a new height: WM_SIZE, and the kick of on_layout.
Resize(h) == h # cv.vp_h /\ cv' = kick_render(on_size(Moved([cv EXCEPT !.vp_h = h])), "Layout")

-----------------------------------------------------------------------------
(* The thumb of the scroll bar                                             *)

LayoutNow(s) == <<s.sv.layout, s.sv.vp_h>>

\* SB_THUMBTRACK.  A drag in progress holds the thumb until SB_ENDSCROLL.
Track(pos) ==
    /\ strip_active(cv)
    /\ LET s == [cv EXCEPT !.thumb_drag_live = TRUE,
                           !.drag = IF @ = <<>> THEN LayoutNow(cv) ELSE @]
           y == strip_scroll_from_pos(pos, cv.sv.layout, cv.sv.vp_h)
       IN cv' = IF cv.thumb_drag_dead THEN s
                ELSE strip_after_change(Moved([s EXCEPT !.sv = scroll_to(@, y)]))

\* SB_ENDSCROLL to the strip.
EndScroll ==
    /\ strip_active(cv) /\ cv.drag # <<>>
    /\ cv' = [cv EXCEPT !.thumb_drag_live = FALSE, !.thumb_drag_dead = FALSE, !.drag = <<>>]

LayoutNext ==
    /\ \/ ToggleSpread \/ ToggleContinuous
       \/ \E d \in Docs : on_tab_switch(d)
       \/ \E dy \in {Step, -Step} : Scroll(dy)
       \/ HomeKey \/ EndKey
       \/ \E p \in DOMAIN PageH : navigate_click(p)
       \/ \E hit \in Hits : scroll_into_view(hit)
       \/ PagedLands
       \/ \E z \in Zooms : Zoom(z)
       \/ ZoomReset
       \/ \E h \in Heights : Resize(h)
       \/ \E pos \in {0, 9, 1000} : Track(pos)
       \/ EndScroll
    /\ cv'.moves <= MaxMoves

LayoutSpec == LayoutInit /\ [][LayoutNext]_cv

-----------------------------------------------------------------------------
(* Properties                                                              *)

\* The track positions of a thumb drag are numbers of the layout it began on: one
\* that outlives a zoom, a resize or a tab switch moves nothing any more.
ThumbOfThisLayout ==
    strip_active(cv) /\ cv.thumb_drag_live /\ ~cv.thumb_drag_dead => cv.drag = LayoutNow(cv)

\* In the strip the view's page is the strip's, and unless a navigation pinned it
\* it is the one the scroll position shows, after every kind of message.
PageFollowsScroll ==
    strip_active(cv) =>
        /\ CurrentPage(cv) = cv.sv.current
        /\ cv.sv.pinned \/ cv.sv.current = derive_current_page(cv.sv.layout, cv.sv.y, cv.sv.vp_h)

\* The thumb of a drag and the current page go with the layout on screen.
StripInStep == ThumbOfThisLayout /\ PageFollowsScroll

\* A reader carried out of the strip to a page, or sent to a hit on it, and who
\* did not move since, is carried back to that page: the right half of a spread
\* and a page that the zoom of the other layout moved included.
EntersWhereItCame ==
    cv.came # NoPage /\ cv.layout # "Strip" /\ cv'.layout = "Strip" /\ cv'.view = cv.view
    => cv'.sv.current = cv.came

\* A tab comes back to the strip where it was last left there, to the DIP when the
\* zoom and the window are the same; a tab that was last left in a paged layout
\* comes back at its page, never at an older place of the strip.
ComesBack ==
    cv'.view # cv.view /\ strip_active(cv') =>
      LET was == cv.left[cv'.view] IN
      /\ was = NoPlace => cv'.sv.current = cv.tab[cv'.view].page
      /\ was # NoPlace /\ was.zoom = ZoomPct(cv') /\ was.vp_h = cv'.vp_h => cv'.sv.y = was.y

\* What a layout switch and a tab switch do to the reader's place
\* (apply_layout_carry, on_tab_switch).
PlaceKept == [][EntersWhereItCame /\ ComesBack]_cv
=============================================================================
