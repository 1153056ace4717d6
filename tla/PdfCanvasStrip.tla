-------------------------- MODULE PdfCanvasStrip ---------------------------
(***************************************************************************)
(* src/src/ui/PdfCanvasStrip.cpp with ui/detail/StripSchedule.hpp and      *)
(* StripCompletion.hpp: which pages the continuous strip asks the render   *)
(* engine for, what it keeps of the answers, and what it drops.            *)
(*                                                                         *)
(* As in PdfCanvas an action is one message of the UI thread and the       *)
(* functions it calls are operators from canvas to canvas.  The documents  *)
(* that come and go have the same pages and zoom; where a layout switch    *)
(* puts the reader is in CanvasLayout.  The queued thumbnails a pass       *)
(* cancels are left out.                                                   *)
(***************************************************************************)
EXTENDS StripViewport

CONSTANTS
    PageH,          \* page -> its height at zoom 1
    Zooms,          \* the zoom presets
    Heights,        \* the heights the canvas can be given
    Step,           \* what a wheel notch or a key scrolls
    L1Capacity,     \* l1_capacity()
    L1Budget,       \* l1_budget_bytes()
    MaxSeq,         \* bound: strip requests
    MaxEpoch        \* bound: view and layout switches

NoPar == [zoom |-> 0, inv |-> FALSE]

ASSUME StripConstants ==
    /\ Cardinality(DOMAIN PageH) \in Nat
    /\ PageH \in [0..(Cardinality(DOMAIN PageH) - 1) -> Nat \ {0}]
    /\ Zooms \subseteq Nat \ {0} /\ Zooms # {}
    /\ Heights \subseteq Nat \ {0} /\ Heights # {}
    /\ {Gap, Step, L1Capacity, L1Budget, MaxSeq, MaxEpoch} \subseteq Nat \ {0}

VARIABLE
    c   \* PdfCanvas::Impl's strip side, the view's zoom and polarity, the requests

StripInit ==
    c = [strip |-> FALSE, epoch |-> 0, next_seq |-> 0, rt |-> FALSE,
         sv |-> NewViewport(CHOOSE h \in Heights : TRUE),
         zoom |-> CHOOSE z \in Zooms : TRUE, inv |-> FALSE,
         \* StripRenderState, PageBitmapSet
         slots |-> <<>>, bitmaps |-> <<>>, last |-> NoPar,
         \* requests not answered yet
         reqs |-> {},
         \* history: requests that get no answer, pages that found no target
         lost |-> {}, bare |-> {}]

Params(s) == [zoom |-> s.zoom, inv |-> s.inv]

strip_active(s) == s.strip /\ has_layout(s.sv)

-----------------------------------------------------------------------------
(* StripSchedule: a page's slot                                            *)

NoneSlot == [kind |-> "None", seq |-> 0, priority |-> 0, par |-> NoPar, stale |-> NoPar]
ReadySlot(par) == [NoneSlot EXCEPT !.kind = "Ready", !.par = par]
FailedSlot(slot) == [NoneSlot EXCEPT !.kind = "Failed", !.priority = slot.priority]

SlotAt(s, p) == IF p \in DOMAIN s.slots THEN s.slots[p] ELSE NoneSlot

is_stale(slot, par) == slot.kind = "Ready" /\ slot.par # par

slot_holds_bitmap(slot) ==
    slot.kind = "Ready" \/ (slot.kind = "Pending" /\ slot.stale # NoPar)

cancel_transition(slot) ==
    IF slot.kind # "Pending" THEN slot
    ELSE IF slot.stale # NoPar THEN ReadySlot(slot.stale) ELSE NoneSlot

\* Stores true to the flags of these pages' requests.
Flag(s, pages) ==
    [s EXCEPT !.reqs = {IF \E p \in pages : SlotAt(s, p).kind = "Pending"
                                            /\ SlotAt(s, p).seq = r.seq
                        THEN [r EXCEPT !.flag = TRUE] ELSE r : r \in s.reqs}]

Flagged(s, slot) == \E r \in s.reqs : r.seq = slot.seq /\ r.flag

swept(s, p) == SlotAt(s, p).kind = "Pending" /\ Flagged(s, SlotAt(s, p))

AfterSweep(s, p) == IF swept(s, p) THEN cancel_transition(SlotAt(s, p)) ELSE SlotAt(s, p)

\* The viewport's pages in sight, within reach, and next in the travel direction.
visible(sv) == visible_pages(sv.layout, sv.y, sv.y + sv.vp_h)
retain(sv) == visible_pages(sv.layout, sv.y - sv.vp_h, sv.y + 2 * sv.vp_h)
prefetch(sv) == prefetch_range(sv.layout, sv.y, sv.vp_h, sv.travel)

\* What a pass is given, besides the slots.
ScheduleInput(s) ==
    [visible |-> visible(s.sv), prefetch |-> prefetch(s.sv), retain |-> retain(s.sv),
     par |-> Params(s)]

\* Fault: every failed page in view is tried again by the next pass.
fail_resets_AnyFailure(in, p, slot) == slot.kind = "Failed"

\* A P0 failure is forgotten outside V, a P1 failure as the page enters it.
fail_resets(in, p, slot) ==
    slot.kind = "Failed" /\ (p \in in.visible) = (slot.priority # 0)

\* The state the submit rules judge.
effective(s, in) ==
    [p \in DOMAIN s.slots \cup in.retain |->
        LET slot == AfterSweep(s, p) IN IF fail_resets(in, p, slot) THEN NoneSlot ELSE slot]

\* Fault: a prefetched page that scrolls into view is not asked for again.
Promoted_Never(in, p, slot) == FALSE

Promoted(in, p, slot) == p \in in.visible /\ slot.kind = "Pending" /\ slot.priority # 0

SubmitsP0(in, eff) ==
    {p \in in.visible : \/ eff[p].kind = "None" \/ is_stale(eff[p], in.par)
                        \/ Promoted(in, p, eff[p])}

bytes_of(s, p) == PageH[p] * s.zoom * s.zoom

resident(slot) == slot.kind \in {"Pending", "Ready"}

\* Fault: pages of P already resident are not counted against L1.
Residents_Ignored(in, eff) == {}

Residents(in, eff) == {p \in in.prefetch : resident(eff[p])}

\* P lies above V when the reader travels up; its nearest page comes first.
Nearer(in, a, b) ==
    IF \E v \in in.visible, q \in in.prefetch : q < v THEN a > b ELSE a < b

\* The nearest pages of P that fit in L1 beside V and the resident ones.
SubmitsP1(s, in, eff) ==
    LET BytesOf(ps) == MapThenSumSet(LAMBDA p : bytes_of(s, p), ps)
        taken == in.visible \cup Residents(in, eff)
        free == {p \in in.prefetch : eff[p].kind = "None"}
        UpTo(p) == {q \in free : q = p \/ Nearer(in, q, p)}
    IN {p \in free : /\ Cardinality(UpTo(p)) + Cardinality(taken) <= L1Capacity
                     /\ BytesOf(UpTo(p)) + BytesOf(taken) <= L1Budget}

\* The canvas keeps a page's bitmap exactly while its slot holds one.
Prune(s) ==
    [s EXCEPT !.bitmaps =
        [p \in {q \in DOMAIN s.bitmaps : slot_holds_bitmap(SlotAt(s, q))} |-> s.bitmaps[p]]]

\* StripRenderState::run_pass: sweep, release, fail_reset, cancel, submit.  The
\* requests are numbered in order: V by area, then P nearest first.
run_pass(s) ==
    LET in == ScheduleInput(s)
        eff == effective(s, in)
        p0 == SubmitsP0(in, eff)
        p1 == SubmitsP1(s, in, eff)
        kept == DOMAIN s.slots \cap in.retain
        outside(p) == eff[p].kind = "Pending" /\ p \notin in.visible \cup in.prefetch
        cancel == {p \in kept : outside(p) \/ Promoted(in, p, eff[p])}
        base(p) == IF p \in cancel THEN cancel_transition(eff[p]) ELSE eff[p]
        place(p) == IF p \in p0 THEN Cardinality({q \in p0 : q = p \/ BeforeByArea(s.sv, q, p)})
                    ELSE Cardinality(p0) + Cardinality({q \in p1 : q = p \/ Nearer(in, q, p)})
        submitted(p) ==
            [kind |-> "Pending", seq |-> s.next_seq + place(p),
             priority |-> IF p \in p0 THEN 0 ELSE 1, par |-> in.par,
             stale |-> IF base(p).kind = "Ready" THEN base(p).par ELSE NoPar]
        asked == {[epoch |-> s.epoch, page |-> p, seq |-> s.next_seq + place(p), par |-> in.par,
                   flag |-> FALSE] : p \in p0 \cup p1}
    IN [Flag(s, cancel \cup (DOMAIN s.slots \ kept)) EXCEPT
            !.slots = [p \in kept \cup p0 \cup p1 |->
                         IF p \in p0 \cup p1 THEN submitted(p) ELSE base(p)],
            !.reqs = @ \cup asked, !.next_seq = s.next_seq + Cardinality(p0 \cup p1),
            !.bare = {}]

\* Every Pending request is cancelled, every failure forgotten.
change_render_params(s) ==
    [Flag(s, DOMAIN s.slots) EXCEPT
        !.slots = [p \in DOMAIN s.slots |->
                     IF s.slots[p].kind = "Failed" THEN NoneSlot ELSE cancel_transition(s.slots[p])]]

drop_bitmaps(s) ==
    [s EXCEPT !.slots = [p \in DOMAIN s.slots |->
                           IF s.slots[p].kind = "Ready" THEN NoneSlot
                           ELSE [s.slots[p] EXCEPT !.stale = NoPar]],
              !.bitmaps = <<>>]

\* PageBitmapSet::clear.
clear(s) ==
    [Flag(s, DOMAIN s.slots) EXCEPT !.slots = <<>>, !.bitmaps = <<>>, !.last = NoPar, !.bare = {}]

strip_reschedule(s) ==
    LET changed == s.last # Params(s)
        t == IF changed THEN [change_render_params(s) EXCEPT !.last = Params(s)] ELSE s
    IN IF strip_active(s) THEN Prune(run_pass(t)) ELSE s

\* A text-only request has a seq of its own and never a slot.
request_text(s) ==
    [s EXCEPT !.next_seq = @ + 1,
              !.reqs = @ \cup {[epoch |-> s.epoch, page |-> s.sv.current, seq |-> s.next_seq + 1,
                                par |-> Params(s), flag |-> FALSE]}]

strip_after_change(s) ==
    IF strip_active(s) THEN strip_reschedule([s EXCEPT !.sv = recompute_current(@)]) ELSE s

-----------------------------------------------------------------------------
(* Kicks, and the target                                                   *)

\* strip_kick for a kick that refits, relayouts or restyles: one that finds no
\* layout builds it and goes to the view's page.
strip_kick(s, page) ==
    strip_after_change(
        [s EXCEPT !.sv = IF has_layout(@) THEN relayout(@, PageH, s.zoom)
                         ELSE navigate(build(@, PageH, s.zoom), page)])

resubmit_current_page(s) ==
    strip_after_change([s EXCEPT !.sv = relayout(@, PageH, s.zoom)])

discard_render_target(s) == drop_bitmaps([s EXCEPT !.rt = FALSE])

-----------------------------------------------------------------------------
(* WM_USER_STRIP_DONE                                                      *)

\* Fault: a completion is matched by its page and epoch alone.
Matches_AnySeq(s, r) == r.epoch = s.epoch /\ SlotAt(s, r.page).kind = "Pending"

\* Rules 1 and 2 of classify_strip_completion.
Matches(s, r) ==
    /\ r.epoch = s.epoch
    /\ SlotAt(s, r.page).kind = "Pending" /\ SlotAt(s, r.page).seq = r.seq

SetSlot(s, p, slot) == Prune([s EXCEPT !.slots[p] = slot])

\* Rule 3, Ok.
Adopt(s, r) ==
    [s EXCEPT !.rt = TRUE, !.slots[r.page] = ReadySlot(s.slots[r.page].par),
              !.bitmaps = [p \in DOMAIN s.bitmaps \cup {r.page} |->
                  IF p = r.page THEN [epoch |-> r.epoch, par |-> r.par] ELSE s.bitmaps[p]]]

strip_on_done(r) ==
    LET s == [c EXCEPT !.reqs = @ \ {r}]
        pending == SlotAt(s, r.page)
    IN IF ~Matches(s, r) THEN c' = s
       ELSE \* a pixmap: a bitmap (the current page's text may be asked for next),
            \* no target, a target lost, a bitmap refused
            \/ c' = Adopt(s, r)
            \/ r.page = s.sv.current /\ c' = request_text(Adopt(s, r))
            \/ ~s.rt /\ c' = [SetSlot(s, r.page, NoneSlot) EXCEPT !.bare = @ \cup {r.page}]
            \/ c' = strip_reschedule(discard_render_target(SetSlot(s, r.page, NoneSlot)))
            \/ c' = [SetSlot(s, r.page, FailedSlot(pending)) EXCEPT !.rt = TRUE]
            \* none: rule 4, rule 5
            \/ r.flag /\ c' = strip_reschedule(SetSlot(s, r.page, cancel_transition(pending)))
            \/ c' = SetSlot(s, r.page, FailedSlot(pending))

\* The post fails, or a worker finds the request cancelled after an L1 hit.
NoAnswer(r) ==
    c' = [c EXCEPT !.reqs = @ \ {r},
                   !.lost = IF Matches(c, r) THEN @ \cup {r.seq} ELSE @]

-----------------------------------------------------------------------------
(* The reader and the window                                               *)

\* An input of the strip: the move, the pass, and perhaps a text request for a
\* page that became current.
After(sv) ==
    \E t \in {strip_after_change([c EXCEPT !.sv = sv])} :
       \/ c' = t
       \/ t.sv.current # c.sv.current /\ c' = request_text(t)

\* The wheel, the scroll bar, the arrow keys, PgUp and PgDn, the hand tool.
Scroll(dy) == strip_active(c) /\ After(scroll_by(c.sv, dy))

\* Outline, thumbnails, page box, a search hit; Home and End.
strip_navigate(p) == strip_active(c) /\ After(navigate(c.sv, p))

Zoom(z) == c.strip /\ z # c.zoom /\ c' = resubmit_current_page([c EXCEPT !.zoom = z])

FlagPrefetch(s) == Flag(s, {p \in DOMAIN s.slots : s.slots[p].priority # 0})

\* IDM_VIEW_INVERT: the view flags every queued prefetch, and the kick restyles.
Invert ==
    /\ c.strip
    /\ c' = strip_after_change(change_render_params(FlagPrefetch([c EXCEPT !.inv = ~@])))

\* Choosing the tab on screen flags its prefetch; the kick only reschedules.
SameTab == strip_active(c) /\ c' = strip_after_change(FlagPrefetch(c))

Emptied(s) == [clear(s) EXCEPT !.sv = reset(@), !.epoch = @ + 1]

\* set_view to another document, or switch_layout into the strip, and the kick.
EnterStrip(p) ==
    /\ c.epoch < MaxEpoch
    /\ c' = strip_kick([Emptied(c) EXCEPT !.strip = TRUE], p)

\* switch_layout to a paged layout, or the last tab closes.
LeaveStrip == c.strip /\ c.epoch < MaxEpoch /\ c' = [Emptied(c) EXCEPT !.strip = FALSE]

\* on_size; the target may be lost as it is resized.
on_size(h) ==
    /\ c.strip
    /\ \E s \in (IF h # c.sv.vp_h THEN {c} ELSE {})
                 \cup (IF c.rt THEN {resubmit_current_page(discard_render_target(c))} ELSE {}) :
          c' = strip_after_change([s EXCEPT !.sv = set_viewport(@, h)])

\* strip_paint makes the target; EndDraw may find the device lost, and a change
\* of DPI discards it before its kick.
strip_paint ==
    /\ c.strip
    /\ \/ ~c.rt /\ c' = [c EXCEPT !.rt = TRUE]
       \/ c.rt /\ c' = resubmit_current_page(discard_render_target(c))

StripNext ==
    /\ \/ \E r \in c.reqs : strip_on_done(r) \/ NoAnswer(r)
       \/ \E dy \in {Step, -Step} : Scroll(dy)
       \/ \E p \in DOMAIN PageH : strip_navigate(p)
       \/ \E z \in Zooms : Zoom(z)
       \/ Invert \/ SameTab \/ LeaveStrip
       \/ \E p \in DOMAIN PageH : EnterStrip(p)
       \/ \E h \in Heights : on_size(h)
       \/ strip_paint
    /\ c'.next_seq <= MaxSeq

StripSpec == StripInit /\ [][StripNext]_c

-----------------------------------------------------------------------------
(* Properties                                                              *)

\* The strip paints a page's bitmap exactly where its slot says there is one,
\* and it is this view's, rendered at the parameters the slot names: a page is
\* never drawn at natural size from a render of another zoom, polarity, layout
\* or document.
BitmapsExact ==
    /\ DOMAIN c.bitmaps = {p \in DOMAIN c.slots : slot_holds_bitmap(c.slots[p])}
    /\ \A p \in DOMAIN c.bitmaps :
          c.bitmaps[p] = [epoch |-> c.epoch,
                          par |-> IF c.slots[p].kind = "Ready" THEN c.slots[p].par
                                  ELSE c.slots[p].stale]

\* No page on screen is forgotten: it is up to date, its own P0 render at the
\* view's parameters is on its way (or will never be answered), its P0 render
\* failed, or it waits for a target until the next change.
VisibleServed ==
    strip_active(c) =>
        \A p \in visible(c.sv) :
            LET slot == SlotAt(c, p) IN
            \/ slot = ReadySlot(Params(c))
            \/ /\ slot.kind = "Pending" /\ slot.priority = 0 /\ slot.par = Params(c)
               /\ \/ slot.seq \in c.lost
                  \/ \E r \in c.reqs : r.seq = slot.seq /\ r.epoch = c.epoch /\ ~r.flag
            \/ slot.kind = "Failed" /\ slot.priority = 0
            \/ slot.kind = "None" /\ p \in c.bare

\* What a step may do to a failed page, and what a pass may hold.
FailureStays ==
    \A p \in DOMAIN c.slots :
      /\ c.slots[p].kind = "Failed" /\ c.slots[p].priority = 0
      /\ c'.epoch = c.epoch /\ c'.last = c.last /\ strip_active(c')
      /\ p \in visible(c.sv) \cap visible(c'.sv)
      => SlotAt(c', p) = c.slots[p]

PassFits ==
    strip_active(c') =>
      LET kept == visible(c'.sv) \cup {p \in prefetch(c'.sv) : resident(SlotAt(c', p))}
      IN /\ DOMAIN c'.slots \subseteq retain(c'.sv)
         /\ (/\ c'.sv.vp_h = c.sv.vp_h
             /\ \E p \in DOMAIN c'.slots : c'.slots[p].priority = 1 /\ c'.slots[p].seq > c.next_seq)
            => /\ Cardinality(kept) <= L1Capacity
               /\ MapThenSumSet(LAMBDA p : bytes_of(c', p), kept) <= L1Budget

\* What any step does, strip_on_done and the passes (StripSchedule) most of all:
\* a page that failed on screen is not asked for again while it stays there at
\* the same parameters, so no completion can start a loop of renders; what the
\* strip holds stays within a viewport of the reader; and a pass that prefetches
\* leaves room in L1 for every page on screen and every page it holds ahead (a
\* resize that loses the target makes two passes, at two heights).
StripPasses == [][FailureStays /\ PassFits]_c
=============================================================================
