--------------------------- MODULE StripGeometry ---------------------------
(***************************************************************************)
(* The pure arithmetic of the continuous strip: ui/detail/StripLayout.hpp, *)
(* StripScroll.hpp, StripScrollbar.hpp, StripCarry.hpp and prefetch_range  *)
(* of StripSchedule.hpp.                                                   *)
(*                                                                         *)
(* A length is an integer number of half DIPs, so that the code's half-DIP *)
(* thresholds and whole-DIP scroll bar units keep their meaning; the       *)
(* fraction of a StripPos is a pair <<above, whole>>.  A range of pages is *)
(* the set of its pages.                                                   *)
(***************************************************************************)
EXTENDS Integers, FiniteSetsExt

CONSTANT Gap        \* kStripGapDip

Dip == 2
NoPage == -1
Lesser(a, b) == IF a < b THEN a ELSE b
Greater(a, b) == IF a > b THEN a ELSE b
Clamped(x, lo, hi) == Greater(lo, Lesser(x, hi))

-----------------------------------------------------------------------------
(* StripLayout                                                             *)

\* `pages` is a function from 0..n-1 to heights at zoom 1.
StripLayout(pages, zoom) ==
    LET n == Cardinality(DOMAIN pages)
        t[p \in 0..n] == IF p = 0 THEN Gap ELSE t[p - 1] + pages[p - 1] * zoom + Gap
    IN [zoom |-> zoom, tops |-> [p \in 0..(n - 1) |-> t[p]],
        heights |-> [p \in 0..(n - 1) |-> pages[p] * zoom], total |-> IF n = 0 THEN 0 ELSE t[n]]

PagesOf(l) == DOMAIN l.tops
page_count(l) == Cardinality(PagesOf(l))
height(l, p) == l.heights[p]
top(l, p) == l.tops[p]
bottom(l, p) == top(l, p) + height(l, p)
anchor(l, p) == top(l, p) - Gap
total_height(l) == l.total

visible_pages(l, y0, y1) == {p \in PagesOf(l) : top(l, p) < y1 /\ bottom(l, p) > y0 /\ y0 < y1}

position_at(l, y) ==
    LET at == Clamped(y, 0, total_height(l) - 1)
        above == {p \in PagesOf(l) : top(l, p) <= at}
        p == Max(above)
    IN IF above = {} THEN [kind |-> "InGapAfter", page |-> NoPage, fraction |-> <<at, Gap>>]
       ELSE IF at < bottom(l, p)
            THEN [kind |-> "InPage", page |-> p, fraction |-> <<at - top(l, p), height(l, p)>>]
            ELSE [kind |-> "InGapAfter", page |-> p, fraction |-> <<at - bottom(l, p), Gap>>]

y_of(l, pos) ==
    LET part(whole) == (pos.fraction[1] * whole) \div pos.fraction[2]
    IN IF pos.kind = "InPage" THEN top(l, pos.page) + part(height(l, pos.page))
       ELSE IF pos.page = NoPage THEN part(Gap)
       ELSE bottom(l, pos.page) + part(Gap)

-----------------------------------------------------------------------------
(* StripScroll                                                             *)

max_scroll(l, vp_h) == Greater(0, total_height(l) - vp_h)

clamp_strip_scroll(y, l, vp_h) == Clamped(y, 0, max_scroll(l, vp_h))

relayout_scroll(top_point, next, vp_h) == clamp_strip_scroll(y_of(next, top_point), next, vp_h)

shown_height(l, p, y, vp_h) == Lesser(bottom(l, p), y + vp_h) - Greater(top(l, p), y)

\* Rules 1 and 2 need a strip a DIP taller than the viewport.
derive_current_page(l, y, vp_h) ==
    LET n == page_count(l)
        tall == total_height(l) - vp_h >= Dip
        r == visible_pages(l, y, y + vp_h)
    IN IF tall /\ 2 * (y - (total_height(l) - vp_h)) >= -Dip THEN n - 1
       ELSE IF tall /\ 2 * y <= Dip THEN 0
       ELSE IF r = {} THEN Clamped(position_at(l, y).page, 0, n - 1)
       ELSE Min({p \in r : \A q \in r :
                      shown_height(l, p, y, vp_h) >= shown_height(l, q, y, vp_h)})

\* One viewport ahead in the travel direction, without the visible pages.
prefetch_range(l, y, vp_h, travel) ==
    (IF travel = "Down" THEN visible_pages(l, y + vp_h, y + 2 * vp_h)
     ELSE visible_pages(l, y - vp_h, y))
    \ visible_pages(l, y, y + vp_h)

-----------------------------------------------------------------------------
(* StripScrollbar: whole DIPs                                              *)

scrollbar_round(v) == IF v <= 0 THEN 0 ELSE (v + Dip \div 2) \div Dip

scrollbar_max(total) == Greater(0, scrollbar_round(total) - 1)

scrollbar_largest(most, page) == Greater(0, most - page + 1)

LargestPos(l, vp_h) ==
    scrollbar_largest(scrollbar_max(total_height(l)), scrollbar_round(vp_h))

strip_scroll_pos(l, vp_h, y) ==
    LET end == total_height(l) - vp_h
    IN IF end >= Dip /\ 2 * (y - end) >= -Dip THEN LargestPos(l, vp_h)
       ELSE Clamped(scrollbar_round(y), 0, LargestPos(l, vp_h))

strip_scroll_from_pos(pos, l, vp_h) ==
    IF pos >= LargestPos(l, vp_h) THEN max_scroll(l, vp_h)
    ELSE IF pos <= 0 THEN 0 ELSE Lesser(pos * Dip, max_scroll(l, vp_h))

-----------------------------------------------------------------------------
(* StripCarry: the reader's place as [page, offset] across layouts         *)

carry_offset(raw, hi) == IF hi <= 0 THEN 0 ELSE Clamped(raw, 0, hi)

clamp_paged(pan, content, vp_h) ==
    IF content <= vp_h THEN 0 ELSE Clamped(pan, vp_h - content, 0)

Centred(h, slot_h) == IF h <= slot_h THEN (slot_h - h) \div 2 ELSE 0

carry_from_paged_single(page, pan_y, page_h, vp_h) ==
    [page |-> page, offset |-> carry_offset(-pan_y - Centred(page_h, vp_h), page_h)]

carry_from_strip(l, page, y) ==
    [page |-> page, offset |-> carry_offset(y - top(l, page), height(l, page))]

strip_scroll_for(l, at, vp_h) ==
    clamp_strip_scroll(IF at.offset = 0 THEN anchor(l, at.page) ELSE top(l, at.page) + at.offset,
                       l, vp_h)

paged_pan_y_for(at, page_h, vp_h) == clamp_paged(-at.offset, page_h, vp_h)

\* A spread's painted union, right_h negative when there is no right page.
spread_vertical(left_h, right_h, slot_h) ==
    LET tops == {Centred(left_h, slot_h)}
                \cup (IF right_h >= 0 THEN {Centred(right_h, slot_h)} ELSE {})
        ends == {Centred(left_h, slot_h) + left_h}
                \cup (IF right_h >= 0 THEN {Centred(right_h, slot_h) + right_h} ELSE {})
        union_h == Max(ends) - Min(tops)
        base == IF union_h > slot_h THEN -Min(tops) ELSE 0
    IN [union_h |-> union_h, left_top |-> Centred(left_h, slot_h) + base,
        right_top |-> IF right_h >= 0 THEN Centred(right_h, slot_h) + base ELSE 0]

spread_page_top(sv, page, left) == IF page = left THEN sv.left_top ELSE sv.right_top

spread_pan_y_for(at, page_top, union_h, vp_h) ==
    clamp_paged(-(page_top + at.offset), union_h, vp_h)

carry_from_spread(left, right, pan_y, sv, left_h, right_h) ==
    IF right # NoPage /\ -pan_y >= sv.left_top + left_h
    THEN [page |-> right, offset |-> carry_offset(-pan_y - sv.right_top, right_h)]
    ELSE [page |-> left, offset |-> carry_offset(-pan_y - sv.left_top, left_h)]

\* Half a DIP of slack: the pan went through a float.
carry_from_spread_held(held, left, right, pan_y, sv, left_h, right_h) ==
    LET held_h == IF held = left THEN left_h ELSE right_h
        held_top == spread_page_top(sv, held, left)
    IN IF -pan_y <= held_top + held_h + Dip \div 2
       THEN [page |-> held, offset |-> carry_offset(-pan_y - held_top, held_h)]
       ELSE carry_from_spread(left, right, pan_y, sv, left_h, right_h)
=============================================================================
