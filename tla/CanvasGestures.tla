-------------------------- MODULE CanvasGestures --------------------------
(***************************************************************************)
(* The mouse on the page canvas: text selection and panning                *)
(* (ui/PdfCanvas.cpp:703-1014, ui/detail/SelectionDrag.hpp).               *)
(*                                                                         *)
(* One gesture owns the mouse at a time, and takes the mouse capture.      *)
(* Windows may refuse the capture or hand it to another window, so that    *)
(* the button's release never comes: such a gesture is stale, and the next *)
(* press or move ends it.  A press is a single, double or triple click     *)
(* according to the ones before it; Windows pairs presses on its own, and  *)
(* the counter makes up for the pairs it forms across a pan.               *)
(*                                                                         *)
(* A selection is the page it is on and its granularity (1 characters,     *)
(* 2 words, 3 lines); which text it covers is left out.                    *)
(***************************************************************************)
EXTENDS Naturals

CONSTANTS
    SelPages,      \* pages a press may fall on
    NoSel          \* no selection

VARIABLES
    gesture,       \* kind, owner, mode and moved of GestureState
    live,          \* live_selection, or NoSel
    sel,           \* the view's selection, or NoSel
    captured,      \* the canvas holds the mouse capture
    held,          \* the buttons that are down
    clicks,        \* ClickCounter: last_count, restart, shifted
    armed,         \* Windows would call the next quick left press a double
    run,           \* clicks in quick succession, up to 4
    broken,        \* the last press was no click
    layout,        \* "page", "spread" or "strip"
    page           \* the current page

gestureVars == <<gesture, live, sel, captured, held, clicks, armed, run, broken, layout, page>>

NoGesture == [kind |-> "none", owner |-> "left", mode |-> 1, moved |-> FALSE]
Selection(p, m) == [page |-> p, mode |-> m]

ASSUME GestureConstants == \A p \in SelPages, m \in 1..3 : Selection(p, m) # NoSel

GesturesInit ==
    /\ gesture = NoGesture /\ live = NoSel /\ sel = NoSel /\ captured = FALSE /\ held = {}
    /\ clicks = [last |-> 0, restart |-> FALSE, shifted |-> FALSE]
    /\ armed = FALSE /\ run = 0 /\ broken = TRUE
    /\ layout \in {"page", "strip"} /\ page \in SelPages

-----------------------------------------------------------------------------
(* ClickCounter.                                                           *)

\* Fault: after a press that was no click Windows' pairs are trusted again.
press_Unshifted(double, quick) ==
    LET count == CASE double /\ clicks.restart -> 1
                   [] double -> 2
                   [] ~double /\ quick /\ clicks.last = 2 -> 3
                   [] OTHER -> 1
    IN  [last |-> count, restart |-> FALSE, shifted |-> FALSE]

\* A press, as Windows reports it, and whether it is near the one before it in
\* time and place.
press(double, quick) ==
    LET count == CASE double /\ clicks.restart -> 1
                   [] double /\ ~clicks.restart /\ clicks.shifted /\ clicks.last = 2 -> 3
                   [] double /\ ~clicks.restart /\ ~(clicks.shifted /\ clicks.last = 2) -> 2
                   [] ~double /\ quick /\ clicks.last = 2 -> 3
                   [] ~double /\ quick /\ clicks.last # 2 /\ clicks.shifted -> 2
                   [] OTHER -> 1
        behind == \/ double /\ clicks.restart
                  \/ ~double /\ quick /\ clicks.last # 2 /\ clicks.shifted
    IN  [last |-> count, restart |-> FALSE, shifted |-> behind]

forget(c) == [c EXCEPT !.last = 0, !.restart = TRUE, !.shifted = FALSE]

-----------------------------------------------------------------------------
(* Ending a gesture, seen as what is left of it.                           *)

Stale == gesture.kind # "none" /\ ~captured

\* Fault: a gesture is ended and the capture kept.
CaptureAfterCancel_Kept == captured

CaptureAfterCancel == FALSE

\* cancel_gesture ends it before it lets go of the capture, whose notice comes
\* back and finds nothing.
cancel_gesture ==
    /\ gesture' = NoGesture
    /\ IF gesture.kind = "none" THEN UNCHANGED <<live, captured>>
       ELSE live' = NoSel /\ captured' = CaptureAfterCancel

\* commit_live_selection: text without a character is no selection.
Committed == IF live = NoSel THEN {sel} ELSE {live, NoSel}

-----------------------------------------------------------------------------
(* Left button.                                                            *)

\* What a left press at a place begins: a pan with Space held, a selection on
\* the page under the pointer.  SetCapture may not take.
begin_pan_gesture(owner) ==
    /\ gesture' = [NoGesture EXCEPT !.kind = "panning", !.owner = owner]
    /\ live' = NoSel
    /\ captured' \in BOOLEAN
    /\ UNCHANGED sel

begin_selection(p, mode) ==
    /\ gesture' = [NoGesture EXCEPT !.kind = "selecting", !.mode = mode]
    /\ live' = Selection(p, mode)
    /\ captured' \in BOOLEAN
    /\ sel' \in IF mode = 1 THEN {NoSel} ELSE {NoSel, Selection(p, mode)}

\* The press is in a gap of the strip, in a spread, or on a page whose bitmap
\* or text is not there.
SelectsNothing(mode) ==
    /\ gesture' = NoGesture /\ live' = NoSel
    /\ captured' = IF Stale THEN CaptureAfterCancel ELSE captured
    /\ sel' = IF layout = "strip" /\ mode = 1 THEN NoSel ELSE sel
SelectsNowhere ==
    /\ gesture' = NoGesture /\ live' = NoSel
    /\ captured' = IF Stale THEN CaptureAfterCancel ELSE captured
    /\ UNCHANGED sel

\* Fault: a gesture that lost its capture still owns the mouse.
Refused_EvenStale == gesture.kind # "none"

Refused == gesture.kind # "none" /\ captured

LeftDown(quick, space) ==
    /\ "left" \notin held /\ held' = held \cup {"left"}
    /\ LET double  == armed /\ quick
           counted == press(double, quick)
       IN  /\ armed' = ~double
           /\ run' = IF broken \/ ~quick THEN 1 ELSE IF run < 4 THEN run + 1 ELSE 4
           /\ \/ /\ Refused
                 /\ clicks' = forget(counted) /\ broken' = TRUE
                 /\ UNCHANGED <<gesture, live, sel, captured>>
              \/ /\ ~Refused /\ space
                 /\ clicks' = forget(counted) /\ broken' = TRUE
                 /\ begin_pan_gesture("left")
              \/ /\ ~Refused /\ ~space
                 /\ clicks' = counted /\ broken' = FALSE
                 /\ \/ SelectsNothing(counted.last)
                    \/ SelectsNowhere
                    \/ \E p \in SelPages :
                          /\ layout = "strip" \/ (layout = "page" /\ p = page)
                          /\ begin_selection(p, counted.last)
    /\ UNCHANGED <<layout, page>>

\* The release is decided by where the pointer ended and before the capture is
\* let go of, whose notice would cancel the drag.
ReleasedSel(moved) ==
    CASE gesture.kind = "panning" -> {sel}
      [] gesture.kind = "selecting" /\ gesture.mode = 1 /\ ~moved -> {NoSel}
      [] OTHER -> Committed

\* on_left_button_up and on_middle_button_up.
ButtonUp(button, far) ==
    /\ button \in held /\ held' = held \ {button}
    /\ \/ /\ Stale /\ cancel_gesture /\ UNCHANGED sel
       \/ /\ ~Stale /\ gesture.kind # "none" /\ gesture.owner = button
          /\ sel' \in ReleasedSel(gesture.moved \/ far)
          /\ gesture' = NoGesture /\ live' = NoSel /\ captured' = FALSE
       \/ /\ ~Stale /\ (gesture.kind = "none" \/ gesture.owner # button)
          /\ UNCHANGED <<gesture, live, sel, captured>>
    /\ UNCHANGED <<clicks, armed, run, broken, layout, page>>

\* A button let go of over another window, which no capture brought here.
ReleasedElsewhere(button) ==
    /\ button \in held /\ ~captured
    /\ held' = held \ {button}
    /\ UNCHANGED <<gesture, live, sel, captured, clicks, armed, run, broken, layout, page>>

on_mouse_move(far) ==
    /\ gesture.kind # "none"
    /\ IF Stale THEN cancel_gesture
       ELSE /\ gesture' = [gesture EXCEPT !.moved = @ \/ (far /\ gesture.kind = "selecting")]
            /\ UNCHANGED <<live, captured>>
    /\ UNCHANGED <<sel, held, clicks, armed, run, broken, layout, page>>

-----------------------------------------------------------------------------
(* The other buttons, and what takes a gesture away.                       *)

on_middle_button_down ==
    /\ "middle" \notin held /\ held' = held \cup {"middle"}
    /\ clicks' = forget(clicks) /\ broken' = TRUE /\ armed' = FALSE
    /\ \/ /\ gesture.kind = "selecting" /\ captured
          /\ cancel_gesture /\ UNCHANGED sel
       \/ /\ gesture.kind = "panning" /\ captured
          /\ UNCHANGED <<gesture, live, sel, captured>>
       \/ /\ gesture.kind = "none" \/ Stale
          /\ begin_pan_gesture("middle")
    /\ UNCHANGED <<run, layout, page>>

RightDown ==
    /\ clicks' = forget(clicks) /\ broken' = TRUE /\ armed' = FALSE
    /\ IF gesture.kind = "selecting" THEN cancel_gesture
       ELSE UNCHANGED <<gesture, live, captured>>
    /\ UNCHANGED <<sel, held, run, layout, page>>

\* WM_CAPTURECHANGED: another window took the capture.
CaptureTaken ==
    /\ captured /\ captured' = FALSE
    /\ gesture' = NoGesture /\ live' = NoSel
    /\ UNCHANGED <<sel, held, clicks, armed, run, broken, layout, page>>

\* Fault: the drag goes on when the page changes under it.
GestureSurvives_PageChange == layout \in {"page", "strip"}

GestureSurvives == layout = "strip"

\* change_current_page by a key, a link or another window's command; in the
\* strip the page is derived from the scroll, and a drag keeps its own page.
PageChanged(p) ==
    /\ p # page /\ page' = p
    /\ IF GestureSurvives THEN UNCHANGED <<gesture, live, captured>> ELSE cancel_gesture
    /\ UNCHANGED <<sel, held, clicks, armed, run, broken, layout>>

\* switch_layout and set_dual_page.
LayoutChanged(l) ==
    /\ l # layout /\ layout' = l
    /\ cancel_gesture
    /\ UNCHANGED <<sel, held, clicks, armed, run, broken, page>>

\* set_view: the other tab's view has its own selection.
ViewChanged ==
    /\ cancel_gesture
    /\ sel' \in {NoSel} \cup {Selection(p, 1) : p \in SelPages}
    /\ UNCHANGED <<held, clicks, armed, run, broken, layout, page>>

\* Ctrl+A, which a live gesture that holds the capture refuses.
select_all ==
    /\ layout # "spread" /\ (gesture.kind = "none" \/ ~captured)
    /\ IF Stale THEN cancel_gesture ELSE UNCHANGED <<gesture, live, captured>>
    /\ sel' = Selection(page, 1)
    /\ UNCHANGED <<held, clicks, armed, run, broken, layout, page>>

GesturesNext ==
    \/ \E quick, space \in BOOLEAN : LeftDown(quick, space)
    \/ \E b \in {"left", "middle"}, far \in BOOLEAN : ButtonUp(b, far)
    \/ \E b \in {"left", "middle"} : ReleasedElsewhere(b)
    \/ \E far \in BOOLEAN : on_mouse_move(far)
    \/ on_middle_button_down \/ RightDown \/ CaptureTaken
    \/ \E p \in SelPages : PageChanged(p)
    \/ \E l \in {"page", "spread", "strip"} : LayoutChanged(l)
    \/ ViewChanged \/ select_all

GesturesSpec == GesturesInit /\ [][GesturesNext]_gestureVars

-----------------------------------------------------------------------------
(* Properties.                                                             *)

\* A live selection is a selection being dragged, on the page that is shown; the
\* canvas holds the mouse only for a gesture, or no other window would get it
\* (PdfCanvas.cpp:754).  And presses in quick succession count one, two and three,
\* whatever came before them: a press that panned, was refused or was of another
\* button starts the count again, although Windows pairs it with the next
\* (SelectionDrag.hpp:44).
GestureWhole ==
    /\ (live # NoSel) <=> (gesture.kind = "selecting")
    /\ captured => gesture.kind # "none"
    /\ live # NoSel => layout = "strip" \/ (layout = "page" /\ live.page = page)
    /\ ~broken /\ run \in 1..3 => clicks.last = run

\* No press is lost to a gesture that is over for the reader: one whose
\* capture is gone never outlives the next press (PdfCanvas.cpp:765).
StaleHeals ==
    [][(Stale /\ gesture.owner \notin held /\ held' \ held # {})
         => gesture'.kind = "none" \/ gesture'.owner \in held']_gestureVars
=============================================================================
