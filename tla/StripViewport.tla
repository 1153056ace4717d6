--------------------------- MODULE StripViewport ---------------------------
(***************************************************************************)
(* ui/detail/StripViewport.hpp: the strip's layout, scroll offset, current *)
(* page and navigation pin, as a record and its operations.  The           *)
(* horizontal pan is left out.                                             *)
(***************************************************************************)
EXTENDS StripGeometry

NoLayout == [zoom |-> 0, tops |-> <<>>, heights |-> <<>>, total |-> 0]
NoState == [kind |-> "None", page |-> NoPage, fraction |-> <<0, 1>>]

NewViewport(h) ==
    [layout |-> NoLayout, vp_h |-> h, y |-> 0, current |-> 0, pinned |-> FALSE, travel |-> "Down"]

reset(sv) == NewViewport(sv.vp_h)

build(sv, pages, zoom) == [reset(sv) EXCEPT !.layout = StripLayout(pages, zoom)]

has_layout(sv) == sv.layout # NoLayout

\* Page `a` comes before `b` in visible_by_area.
BeforeByArea(sv, a, b) ==
    LET area(p) == shown_height(sv.layout, p, sv.y, sv.vp_h)
    IN /\ a # b /\ b # sv.current
       /\ a = sv.current \/ area(a) > area(b) \/ (area(a) = area(b) /\ a < b)

\* The viewport-top point stays put across a change of zoom.
relayout(sv, pages, zoom) ==
    LET next == StripLayout(pages, zoom)
    IN IF ~has_layout(sv) \/ zoom = sv.layout.zoom THEN sv
       ELSE [sv EXCEPT !.layout = next,
                       !.y = relayout_scroll(position_at(sv.layout, sv.y), next, sv.vp_h)]

set_viewport(sv, h) ==
    [sv EXCEPT !.vp_h = h,
               !.y = IF has_layout(sv) THEN clamp_strip_scroll(@, sv.layout, h) ELSE @]

move_to(sv, y) ==
    LET target == clamp_strip_scroll(y, sv.layout, sv.vp_h)
    IN [sv EXCEPT !.y = target,
                  !.travel = IF target > sv.y THEN "Down" ELSE IF target < sv.y THEN "Up" ELSE @]

\* Scroll input ends the navigation pin.
scroll_to(sv, y) == move_to([sv EXCEPT !.pinned = FALSE], y)

scroll_by(sv, dy) == scroll_to(sv, sv.y + dy)

\* CurrentPageTracker::navigate.
pin_page(sv, p) == [sv EXCEPT !.current = p, !.pinned = TRUE]

navigate(sv, p) == pin_page(move_to(sv, anchor(sv.layout, p)), p)

pin_at(sv, y, p) == pin_page(move_to(sv, y), p)

\* A hit [page, from, to] in its page's points; `margin` is the hit margin.
scroll_hit_into_view(sv, hit, margin) ==
    LET q_top == top(sv.layout, hit.page) + hit.from * sv.layout.zoom
        q_bottom == top(sv.layout, hit.page) + hit.to * sv.layout.zoom
        fully_visible == q_top - sv.y >= margin /\ q_bottom - sv.y <= sv.vp_h - margin
    IN pin_page(IF fully_visible THEN sv ELSE move_to(sv, (q_top + q_bottom) \div 2 - sv.vp_h \div 2),
                hit.page)

recompute_current(sv) ==
    [sv EXCEPT !.current = IF sv.pinned THEN @ ELSE derive_current_page(sv.layout, sv.y, sv.vp_h)]

carry(sv) == carry_from_strip(sv.layout, sv.current, sv.y)

apply_carry(sv, at) ==
    pin_page([sv EXCEPT !.y = strip_scroll_for(sv.layout, at, sv.vp_h)], at.page)

save(sv) == position_at(sv.layout, sv.y)

restore_saved(sv, at) ==
    [sv EXCEPT !.y = relayout_scroll(at, sv.layout, sv.vp_h), !.current = 0, !.pinned = FALSE]
=============================================================================
