---------------------------- MODULE Desk_proofs ----------------------------
(***************************************************************************)
(* What surrounds the pages, for any documents, tabs, pages and processes. *)
(*                                                                         *)
(* The mouse on the tab strip and on the canvas: the canvas holds the      *)
(* active tab's view (CanvasHoldsActive), a selection, its gesture and the *)
(* capture belong together (GestureWhole) and a gesture without its        *)
(* capture never outlives a press (StaleHeals).                            *)
(*                                                                         *)
(* The disk: a start finds a whole session (FileStaysWhole) and a marker   *)
(* that tells how the last process ended (MarkerTellsTruth), wherever it   *)
(* died.                                                                   *)
(*                                                                         *)
(* The chain that restores a session: it waits for one document of its own *)
(* and brings the tabs in the order of the file (RestoreInOrder), whatever *)
(* is opened, closed, refused or asked for beside it.                      *)
(*                                                                         *)
(* A print job: it is settled once, holds the pages that were asked for and*)
(* leaves nothing behind (PrintSettled), whichever of its calls fails and  *)
(* whatever its pumps dispatch.                                            *)
(*                                                                         *)
(* The thumbnails: a tile in sight has its bitmap or a live request for it *)
(* (TilesServed), however the answers and the scrolling cross.             *)
(*                                                                         *)
(* The continuous strip: a page is drawn from a bitmap made for it as it   *)
(* is shown (BitmapsExact), no page on screen is forgotten (VisibleServed),*)
(* and a pass repeats no failure and fits in L1 (StripPasses).             *)
(***************************************************************************)
EXTENDS MainWindow, TabManager, CanvasGestures, ThumbnailPane, PrintJob, PdfCanvasStrip,
        DataTheorems

-----------------------------------------------------------------------------
(* The tabs.                                                               *)

\* The active index names a tab, unless there is none.
ListTypeOK(l) ==
    /\ l = [tabs |-> l.tabs, active |-> l.active]
    /\ l.tabs \in Seq(TabIds)
    /\ l.active \in 0..Len(l.tabs)
    /\ l.active = 0 <=> Len(l.tabs) = 0

TabsInv == ListTypeOK(list) /\ CanvasHoldsActive

\* Closing a tab leaves a list whose active tab is the one it was, unless that
\* is the one that goes.
LEMMA CloseKeepsActive ==
    ASSUME NEW l, ListTypeOK(l), NEW i \in DOMAIN l.tabs
    PROVE  /\ ListTypeOK(remove(l, i))
           /\ ~close_changes_active_tab(l, i) => ActiveOf(remove(l, i)) = ActiveOf(l)
<1> DEFINE left == RemoveAt(l.tabs, i)
           next == CASE l.active > i -> l.active - 1
                     [] l.active = i /\ i > Len(left) -> Len(left)
                     [] OTHER -> l.active
<1>1. /\ Len(l.tabs) \in Nat /\ i \in 1..Len(l.tabs)
      /\ l.tabs \in Seq(TabIds) /\ l.active \in 1..Len(l.tabs)
  BY LenProperties DEF ListTypeOK
<1>2. /\ left \in Seq(TabIds) /\ Len(left) = Len(l.tabs) - 1
      /\ \A j \in 1..Len(l.tabs) - 1 :
            left[j] = IF j < i THEN l.tabs[j] ELSE l.tabs[j + 1]
  BY <1>1, RemoveAtKeepsRest
<1>3. remove(l, i) = [tabs |-> left, active |-> next]
  BY DEF remove
<1> HIDE DEF left
<1>4. /\ next \in 0..Len(left) /\ (next = 0 <=> Len(left) = 0)
      /\ l.active # i => next # 0 /\ left[next] = l.tabs[l.active]
  <2>1. CASE l.active > i
    <3>1. next = l.active - 1 /\ l.active - 1 \in 1..Len(l.tabs) - 1
      BY <1>1, <2>1
    <3>2. left[l.active - 1] = l.tabs[l.active]
      BY <1>1, <1>2, <2>1, <3>1
    <3>3. QED
      BY <1>1, <1>2, <2>1, <3>1, <3>2
  <2>2. CASE l.active = i
    BY <1>1, <1>2, <2>2
  <2>3. CASE l.active < i
    <3>1. next = l.active /\ l.active \in 1..Len(l.tabs) - 1
      BY <1>1, <2>3
    <3>2. QED
      BY <1>1, <1>2, <2>3, <3>1
  <2>4. QED
    BY <1>1, <2>1, <2>2, <2>3
<1> HIDE DEF next
<1>5. QED
  BY <1>1, <1>2, <1>3, <1>4 DEF ListTypeOK, ActiveOf, active_tab, close_changes_active_tab

\* A step that closes a tab keeps the list and what the canvas holds.
LEMMA CloseTabKeeps ==
    ASSUME TabsInv, NEW i \in DOMAIN list.tabs, close_tab(i)
    PROVE  ListTypeOK(list)' /\ bound' = ActiveOf(list')
<1>1. ListTypeOK(list) /\ bound = ActiveOf(list)
  BY DEF TabsInv, CanvasHoldsActive
<1>2. /\ ListTypeOK(remove(list, i))
      /\ ~close_changes_active_tab(list, i) => ActiveOf(remove(list, i)) = ActiveOf(list)
  BY <1>1, CloseKeepsActive
<1>3. QED
  BY <1>1, <1>2 DEF close_tab, Rebinds, ListTypeOK

\* Without tabs and presses the invariant holds.
THEOREM TabsInitial == TabsInit => TabsInv
  BY EmptySeq DEF TabsInit, TabsInv, ListTypeOK, NoTabs, CanvasHoldsActive, ActiveOf

\* Opening, closing, switching and the mouse keep it.
THEOREM TabsStep == TabsInv /\ [TabsNext]_tabsVars => TabsInv'
<1> SUFFICES ASSUME TabsInv, [TabsNext]_tabsVars
             PROVE  TabsInv'
  OBVIOUS
<1> USE DEF TabsInv
<1>len. Len(list.tabs) \in Nat /\ DOMAIN list.tabs = 1..Len(list.tabs)
  BY LenProperties DEF ListTypeOK
<1>1. ASSUME NEW id \in TabIds, Opened(id) PROVE TabsInv'
  <2>1. /\ Append(list.tabs, id) \in Seq(TabIds)
        /\ Len(Append(list.tabs, id)) = Len(list.tabs) + 1
        /\ Append(list.tabs, id)[Len(list.tabs) + 1] = id
    BY <1>len, AppendProperties DEF ListTypeOK
  <2>2. ListTypeOK(list)' /\ bound' = ActiveOf(list')
    BY <1>1, <1>len, <2>1 DEF Opened, add_tab, ListTypeOK, ActiveOf, active_tab
  <2>3. QED
    BY <1>1, <2>2 DEF Opened, CanvasHoldsActive
<1>2. CASE CloseActive
  <2>1. list.active \in DOMAIN list.tabs
    BY <1>2, <1>len DEF CloseActive, ListTypeOK
  <2>2. QED
    BY <1>2, <2>1, CloseTabKeeps DEF CloseActive, CanvasHoldsActive
<1>3. ASSUME NEW i \in Targets, Switched(i) PROVE TabsInv'
  <2>1. i \in 1..Len(list.tabs)
    BY <1>len DEF Targets, next_tab_index, prev_tab_index, ListTypeOK
  <2>2. ListTypeOK(list)' /\ bound' = ActiveOf(list')
    BY <1>3, <1>len, <2>1 DEF Switched, set_active, ListTypeOK, ActiveOf, active_tab
  <2>3. QED
    BY <1>3, <2>2 DEF Switched, CanvasHoldsActive
<1>4. ASSUME NEW i \in Hits, MiddleDown(i) PROVE TabsInv'
  BY <1>4 DEF MiddleDown, CanvasHoldsActive, ListTypeOK, ActiveOf, active_tab
<1>5. ASSUME NEW i \in Hits, MiddleUp(i) PROVE TabsInv'
  BY <1>5, CloseTabKeeps DEF MiddleUp, ReleaseCapture, CanvasHoldsActive, Hits, ListTypeOK, ActiveOf, active_tab
<1>6. ASSUME NEW i \in DOMAIN list.tabs, CloseButtonDown(i) PROVE TabsInv'
  BY <1>6, <1>len DEF CloseButtonDown, CanvasHoldsActive, ListTypeOK, ActiveOf, active_tab
<1>7. ASSUME NEW i \in Hits, NEW onButton \in BOOLEAN, CloseButtonUp(i, onButton) PROVE TabsInv'
  BY <1>7, CloseTabKeeps DEF CloseButtonUp, ReleaseCapture, CanvasHoldsActive, Hits, ListTypeOK, ActiveOf, active_tab
<1>8. CASE CaptureLost
  BY <1>8 DEF CaptureLost, WM_CAPTURECHANGED, CanvasHoldsActive, ListTypeOK, ActiveOf, active_tab
<1>9. CASE UNCHANGED tabsVars
  BY <1>9 DEF tabsVars, CanvasHoldsActive, ListTypeOK, ActiveOf, active_tab
<1>10. QED
  BY <1>1, <1>2, <1>3, <1>4, <1>5, <1>6, <1>7, <1>8, <1>9 DEF TabsNext

\* However tabs are opened, closed and switched between, by commands and by
\* presses that span them, the canvas holds the active tab's view.
THEOREM CanvasAlwaysActive == TabsSpec => []CanvasHoldsActive
<1>1. TabsInv => CanvasHoldsActive
  BY DEF TabsInv
<1>2. QED
  BY TabsInitial, TabsStep, <1>1, PTL DEF TabsSpec

-----------------------------------------------------------------------------
(* The canvas.                                                             *)

GestureKinds == {"none", "panning", "selecting"}

GesturesTypeOK ==
    /\ gesture \in [kind : GestureKinds, owner : {"left", "middle"}, mode : 1..3, moved : BOOLEAN]
    /\ live \in {NoSel} \cup {Selection(p, m) : p \in SelPages, m \in 1..3}
    /\ captured \in BOOLEAN /\ armed \in BOOLEAN /\ broken \in BOOLEAN
    /\ clicks \in [last : 0..3, restart : BOOLEAN, shifted : BOOLEAN]
    /\ run \in 0..4
    /\ layout \in {"page", "spread", "strip"}

\* Where Windows' pairs and the counter's stand: in step, or one press apart
\* after a press that was no click.  Then the count of a run is its length.
ClickInv ==
    /\ broken => clicks.last = 0 /\ ~clicks.shifted /\ (armed => clicks.restart)
    /\ ~broken => /\ ~clicks.restart /\ run \in 1..4
                  /\ run \in 1..3 => clicks.last = run
                  /\ run = 1 => (armed <=> ~clicks.shifted)
                  /\ run = 2 => (armed <=> clicks.shifted)
                  /\ run = 3 => ~clicks.shifted

\* A selection, its gesture, the capture and the layout.
DragInv ==
    /\ (live # NoSel) <=> (gesture.kind = "selecting")
    /\ captured => gesture.kind # "none"
    /\ live # NoSel => layout = "strip" \/ (layout = "page" /\ live.page = page)

GesturesInv == GesturesTypeOK /\ ClickInv /\ DragInv

clickVars == <<clicks, armed, run, broken>>

\* The counter after a press of the left button that was a click.
LEMMA ClickCounts ==
    ASSUME GesturesTypeOK, ClickInv, NEW quick \in BOOLEAN
    PROVE  LET counted == press(armed /\ quick, quick)
           IN  /\ counted \in [last : 1..3, restart : BOOLEAN, shifted : BOOLEAN] /\ ~counted.restart
               /\ broken \/ ~quick => counted.last = 1 /\ (~(armed /\ quick) <=> ~counted.shifted)
               /\ ~broken /\ quick /\ run = 1 =>
                     counted.last = 2 /\ (~(armed /\ quick) <=> counted.shifted)
               /\ ~broken /\ quick /\ run = 2 => counted.last = 3 /\ ~counted.shifted
  BY DEF GesturesTypeOK, ClickInv, press

\* A press keeps the count, whether it is a click or not.
LEMMA LeftDownCounts ==
    ASSUME GesturesTypeOK, ClickInv, NEW quick \in BOOLEAN, NEW space \in BOOLEAN,
           LeftDown(quick, space)
    PROVE  /\ ClickInv'
           /\ armed' \in BOOLEAN /\ broken' \in BOOLEAN /\ run' \in 0..4
           /\ clicks' \in [last : 0..3, restart : BOOLEAN, shifted : BOOLEAN]
<1> DEFINE double  == armed /\ quick
           counted == press(double, quick)
<1>1. /\ armed' = ~double
      /\ run' = IF broken \/ ~quick THEN 1 ELSE IF run < 4 THEN run + 1 ELSE 4
      /\ \/ clicks' = forget(counted) /\ broken' = TRUE
         \/ clicks' = counted /\ broken' = FALSE
  BY DEF LeftDown
<1>2. /\ counted \in [last : 1..3, restart : BOOLEAN, shifted : BOOLEAN] /\ ~counted.restart
      /\ broken \/ ~quick => counted.last = 1 /\ (~double <=> ~counted.shifted)
      /\ ~broken /\ quick /\ run = 1 => counted.last = 2 /\ (~double <=> counted.shifted)
      /\ ~broken /\ quick /\ run = 2 => counted.last = 3 /\ ~counted.shifted
  BY ClickCounts
<1>3. armed \in BOOLEAN /\ broken \in BOOLEAN /\ run \in 0..4
      /\ (~broken => run \in 1..4)
  BY DEF GesturesTypeOK, ClickInv
<1>4. run' \in 1..4 /\ armed' \in BOOLEAN /\ broken' \in BOOLEAN
  <2>1. run' \in 1..4
    BY <1>1, <1>3
  <2>2. armed' \in BOOLEAN /\ broken' \in BOOLEAN
    BY <1>1, Zenon
  <2>3. QED
    BY <2>1, <2>2
<1> HIDE DEF counted
<1>5. CASE clicks' = forget(counted) /\ broken' = TRUE
  <2>1. clicks' = [last |-> 0, restart |-> TRUE, shifted |-> FALSE]
    BY <1>2, <1>5 DEF forget
  <2>2. QED
    BY <1>4, <1>5, <2>1 DEF ClickInv
<1>6. CASE clicks' = counted /\ broken' = FALSE
  <2>1. clicks' \in [last : 0..3, restart : BOOLEAN, shifted : BOOLEAN] /\ ~clicks'.restart
    <3>1. counted \in [last : 0..3, restart : BOOLEAN, shifted : BOOLEAN] /\ ~counted.restart
      BY <1>2
    <3>2. QED
      BY <1>6, <3>1, Zenon
  <2>2. /\ run' = 1 => clicks'.last = 1 /\ (armed' <=> ~clicks'.shifted)
        /\ run' = 2 => clicks'.last = 2 /\ (armed' <=> clicks'.shifted)
        /\ run' = 3 => clicks'.last = 3 /\ ~clicks'.shifted
    <3>1. /\ run' = 1 => counted.last = 1 /\ (~double <=> ~counted.shifted)
          /\ run' = 2 => counted.last = 2 /\ (~double <=> counted.shifted)
          /\ run' = 3 => counted.last = 3 /\ ~counted.shifted
      <4>1. CASE broken \/ ~quick
        BY <1>1, <1>2, <4>1
      <4>2. CASE ~broken /\ quick
        BY <1>1, <1>2, <1>3, <4>2
      <4>3. QED
        BY <4>1, <4>2
    <3>2. QED
      BY <1>1, <1>6, <3>1, Zenon
  <2>3. QED
    BY <1>4, <1>6, <2>1, <2>2 DEF ClickInv
<1>7. QED
  BY <1>1, <1>5, <1>6

\* A press of another button starts the count again.
LEMMA ForgetCounts ==
    ASSUME GesturesTypeOK, clicks' = forget(clicks), broken' = TRUE, armed' = FALSE, run' = run
    PROVE  /\ ClickInv'
           /\ armed' \in BOOLEAN /\ broken' \in BOOLEAN /\ run' \in 0..4
           /\ clicks' \in [last : 0..3, restart : BOOLEAN, shifted : BOOLEAN]
<1> clicks \in [last : 0..3, restart : BOOLEAN, shifted : BOOLEAN] /\ run \in 0..4
  BY DEF GesturesTypeOK
<1>1. clicks' = [last |-> 0, restart |-> TRUE, shifted |-> FALSE]
  BY DEF forget
<1>2. /\ clicks' \in [last : 0..3, restart : BOOLEAN, shifted : BOOLEAN]
      /\ clicks'.last = 0 /\ ~clicks'.shifted
  BY <1>1
<1>3. armed' \in BOOLEAN /\ broken' \in BOOLEAN /\ ~armed' /\ broken' /\ run' \in 0..4
  BY Zenon
<1>4. QED
  BY <1>2, <1>3 DEF ClickInv

\* Nothing is pressed.
LEMMA ClicksUnchanged ==
    ASSUME GesturesTypeOK, ClickInv, UNCHANGED clickVars
    PROVE  /\ ClickInv'
           /\ armed' \in BOOLEAN /\ broken' \in BOOLEAN /\ run' \in 0..4
           /\ clicks' \in [last : 0..3, restart : BOOLEAN, shifted : BOOLEAN]
  BY DEF GesturesTypeOK, ClickInv, clickVars

\* What is proved of each action that begins, moves or ends a drag.
DragTypeOK ==
    /\ gesture \in [kind : GestureKinds, owner : {"left", "middle"}, mode : 1..3, moved : BOOLEAN]
    /\ live \in {NoSel} \cup {Selection(p, m) : p \in SelPages, m \in 1..3}
    /\ captured \in BOOLEAN
    /\ layout \in {"page", "spread", "strip"}

\* Without a selection: only a pan may hold the capture.
LEMMA NoSelectionLives ==
    ASSUME gesture' \in [kind : {"none", "panning"}, owner : {"left", "middle"}, mode : 1..3, moved : BOOLEAN],
           live' = NoSel, captured' \in BOOLEAN, captured' => gesture'.kind # "none",
           layout' \in {"page", "spread", "strip"}
    PROVE  DragTypeOK' /\ DragInv'
<1>1. /\ gesture' \in [kind : GestureKinds, owner : {"left", "middle"}, mode : 1..3, moved : BOOLEAN]
      /\ gesture'.kind # "selecting"
  BY DEF GestureKinds
<1>2. live' \in {NoSel} \cup {Selection(p, m) : p \in SelPages, m \in 1..3}
  OBVIOUS
<1>3. QED
  BY <1>1, <1>2 DEF DragTypeOK, DragInv

\* Without a gesture nothing is selected or captured.
LEMMA NothingHeld ==
    ASSUME gesture' = NoGesture, live' = NoSel, captured' = FALSE,
           layout' \in {"page", "spread", "strip"}
    PROVE  DragTypeOK' /\ DragInv' /\ gesture'.kind = "none"
<1>1. NoGesture \in [kind : {"none", "panning"}, owner : {"left", "middle"}, mode : 1..3, moved : BOOLEAN]
      /\ NoGesture.kind = "none"
  BY DEF NoGesture
<1>2. captured' \in BOOLEAN /\ ~captured'
  OBVIOUS
<1>3. QED
  BY <1>1, <1>2, NoSelectionLives

\* cancel_gesture leaves nothing behind, wherever the page and the layout go.
LEMMA CancelKeeps ==
    ASSUME GesturesInv, cancel_gesture, layout' \in {"page", "spread", "strip"}
    PROVE  DragTypeOK' /\ DragInv' /\ gesture'.kind = "none"
<1>1. gesture' = NoGesture
  BY DEF cancel_gesture
<1>2. captured \in BOOLEAN /\ (captured => gesture.kind # "none") /\ (gesture.kind = "none" => live = NoSel)
  BY DEF GesturesInv, GesturesTypeOK, DragInv
<1>3. live' = NoSel /\ captured' = FALSE
  <2>1. CASE gesture.kind = "none"
    BY <1>2, <2>1 DEF cancel_gesture
  <2>2. CASE gesture.kind # "none"
    BY <2>2 DEF cancel_gesture, CaptureAfterCancel
  <2>3. QED
    BY <2>1, <2>2
<1>4. QED
  BY <1>1, <1>3, NothingHeld

\* A pan begins.
LEMMA PanBegins ==
    ASSUME NEW owner \in {"left", "middle"}, begin_pan_gesture(owner),
           layout' \in {"page", "spread", "strip"}
    PROVE  DragTypeOK' /\ DragInv' /\ gesture'.owner = owner
<1>1. gesture' = [kind |-> "panning", owner |-> owner, mode |-> 1, moved |-> FALSE]
  BY DEF begin_pan_gesture, NoGesture
<1>2. live' = NoSel /\ captured' \in BOOLEAN
  BY DEF begin_pan_gesture
<1>3. /\ gesture' \in [kind : {"none", "panning"}, owner : {"left", "middle"}, mode : 1..3, moved : BOOLEAN]
      /\ gesture'.kind # "none" /\ gesture'.owner = owner
  BY <1>1
<1>4. QED
  BY <1>2, <1>3, NoSelectionLives

\* A selection begins on the page that is shown, or anywhere in the strip.
LEMMA SelectionBegins ==
    ASSUME NEW p \in SelPages, NEW mode \in 1..3, begin_selection(p, mode),
           layout \in {"page", "spread", "strip"}, UNCHANGED <<layout, page>>,
           layout = "strip" \/ (layout = "page" /\ p = page)
    PROVE  DragTypeOK' /\ DragInv' /\ gesture'.owner = "left"
<1>1. /\ gesture' = [kind |-> "selecting", owner |-> "left", mode |-> mode, moved |-> FALSE]
      /\ live' = Selection(p, mode) /\ captured' \in BOOLEAN
  BY DEF begin_selection, NoGesture
<1>2. live' # NoSel /\ live'.page = p
  BY <1>1, GestureConstants DEF Selection
<1>3. QED
  BY <1>1, <1>2 DEF GestureKinds, DragTypeOK, DragInv

\* Neither the gesture nor what it rests on changes.
LEMMA DragUnchanged ==
    ASSUME GesturesInv, UNCHANGED <<gesture, live, captured, layout, page>>
    PROVE  DragTypeOK' /\ DragInv'
  BY DEF GesturesInv, GesturesTypeOK, DragTypeOK, DragInv

\* A press of the left button is refused, pans, selects, or does neither.
LEMMA LeftDownDrags ==
    ASSUME GesturesInv, NEW quick \in BOOLEAN, NEW space \in BOOLEAN, LeftDown(quick, space)
    PROVE  /\ DragTypeOK' /\ DragInv'
           /\ Stale => gesture'.kind = "none" \/ gesture'.owner = "left"
           /\ "left" \in held'
<1> DEFINE counted == press(armed /\ quick, quick)
<1>1. UNCHANGED <<layout, page>> /\ "left" \in held' /\ layout \in {"page", "spread", "strip"}
  BY DEF LeftDown, GesturesInv, GesturesTypeOK
<1>2. counted.last \in 1..3
  BY ClickCounts DEF GesturesInv
<1> HIDE DEF counted
<1>3. \/ Refused /\ UNCHANGED <<gesture, live, sel, captured>>
      \/ begin_pan_gesture("left")
      \/ ~Refused /\ SelectsNothing(counted.last)
      \/ ~Refused /\ SelectsNowhere
      \/ \E p \in SelPages : /\ layout = "strip" \/ (layout = "page" /\ p = page)
                             /\ begin_selection(p, counted.last)
  BY DEF LeftDown, counted
<1>4. CASE Refused /\ UNCHANGED <<gesture, live, sel, captured>>
  BY <1>1, <1>4, DragUnchanged DEF Stale, Refused
<1>5. CASE begin_pan_gesture("left")
  BY <1>1, <1>5, PanBegins
<1>6. CASE ~Refused /\ (SelectsNothing(counted.last) \/ SelectsNowhere)
  <2>1. captured = FALSE
    BY <1>6 DEF Refused, GesturesInv, GesturesTypeOK, DragInv
  <2>2. gesture' = NoGesture /\ live' = NoSel /\ captured' = FALSE
    BY <1>6, <2>1 DEF SelectsNothing, SelectsNowhere, CaptureAfterCancel
  <2>3. QED
    BY <1>1, <2>2, NothingHeld
<1>7. ASSUME NEW p \in SelPages, begin_selection(p, counted.last),
             layout = "strip" \/ (layout = "page" /\ p = page)
      PROVE  DragTypeOK' /\ DragInv' /\ gesture'.owner = "left"
  BY <1>1, <1>2, <1>7, SelectionBegins
<1>8. QED
  BY <1>1, <1>3, <1>4, <1>5, <1>6, <1>7

\* The two halves of the invariant, together.
LEMMA DragAndClicks ==
    ASSUME DragTypeOK', DragInv', ClickInv',
           armed' \in BOOLEAN, broken' \in BOOLEAN, run' \in 0..4,
           clicks' \in [last : 0..3, restart : BOOLEAN, shifted : BOOLEAN]
    PROVE  GesturesInv'
  BY DEF GesturesInv, GesturesTypeOK, DragTypeOK

\* Before the first press nothing is dragged, held or counted.
THEOREM GesturesInitial == GesturesInit => GesturesInv
<1> SUFFICES ASSUME GesturesInit PROVE GesturesInv
  OBVIOUS
<1>1. GesturesTypeOK
  <2>1. gesture \in [kind : GestureKinds, owner : {"left", "middle"}, mode : 1..3, moved : BOOLEAN]
    <3>1. NoGesture \in [kind : GestureKinds, owner : {"left", "middle"}, mode : 1..3, moved : BOOLEAN]
      BY DEF NoGesture, GestureKinds
    <3>2. QED
      BY <3>1 DEF GesturesInit
  <2>2. live = NoSel /\ layout \in {"page", "spread", "strip"} /\ run \in 0..4
    BY DEF GesturesInit
  <2>3. captured \in BOOLEAN /\ armed \in BOOLEAN /\ broken \in BOOLEAN
    BY Zenon DEF GesturesInit
  <2>4. clicks \in [last : 0..3, restart : BOOLEAN, shifted : BOOLEAN]
    BY DEF GesturesInit
  <2>5. QED
    BY <2>1, <2>2, <2>3, <2>4 DEF GesturesTypeOK
<1>2. ClickInv
  BY DEF GesturesInit, ClickInv
<1>3. DragInv
  <2>1. NoGesture.kind = "none"
    BY DEF NoGesture
  <2>2. QED
    BY <2>1 DEF GesturesInit, DragInv
<1>4. QED
  BY <1>1, <1>2, <1>3 DEF GesturesInv

\* A gesture whose capture is gone does not outlive a press.
HealsStale ==
    Stale /\ gesture.owner \notin held /\ held' \ held # {}
        => gesture'.kind = "none" \/ gesture'.owner \in held'

\* Every action of the mouse, the capture and the view keeps the invariant, and
\* heals a stale gesture.
THEOREM GesturesStep ==
    GesturesInv /\ [GesturesNext]_gestureVars => GesturesInv' /\ HealsStale
<1> SUFFICES ASSUME GesturesInv, [GesturesNext]_gestureVars
             PROVE  GesturesInv' /\ HealsStale
  OBVIOUS
<1>types. GesturesTypeOK /\ ClickInv /\ DragInv /\ layout \in {"page", "spread", "strip"}
  BY DEF GesturesInv, GesturesTypeOK
<1>quiet. held' \subseteq held => HealsStale
  BY DEF HealsStale
<1>1. ASSUME NEW quick \in BOOLEAN, NEW space \in BOOLEAN, LeftDown(quick, space)
      PROVE  GesturesInv' /\ HealsStale
  <2>1. GesturesInv'
    BY <1>types, <1>1, LeftDownCounts, LeftDownDrags, DragAndClicks
  <2>2. HealsStale
    BY <1>1, LeftDownDrags DEF HealsStale
  <2>3. QED
    BY <2>1, <2>2
<1>2. ASSUME NEW b \in {"left", "middle"}, NEW far \in BOOLEAN, ButtonUp(b, far)
      PROVE  GesturesInv' /\ HealsStale
  <2>1. held' \subseteq held /\ UNCHANGED clickVars /\ UNCHANGED <<layout, page>>
    BY <1>2 DEF ButtonUp, clickVars
  <2>2. \/ cancel_gesture
        \/ gesture' = NoGesture /\ live' = NoSel /\ captured' = FALSE
        \/ UNCHANGED <<gesture, live, captured>>
    BY <1>2 DEF ButtonUp
  <2>3. CASE gesture' = NoGesture /\ live' = NoSel /\ captured' = FALSE
    <3>1. DragTypeOK' /\ DragInv'
      BY <1>types, <2>1, <2>3, NothingHeld
    <3>2. QED
      BY <1>types, <1>quiet, <2>1, <3>1, ClicksUnchanged, DragAndClicks
  <2>4. QED
    BY <1>types, <1>quiet, <2>1, <2>2, <2>3, CancelKeeps, DragUnchanged, ClicksUnchanged, DragAndClicks
<1>3. ASSUME NEW b \in {"left", "middle"}, ReleasedElsewhere(b)
      PROVE  GesturesInv' /\ HealsStale
  BY <1>3, <1>types, <1>quiet, DragUnchanged, ClicksUnchanged, DragAndClicks
     DEF ReleasedElsewhere, clickVars
<1>4. ASSUME NEW far \in BOOLEAN, on_mouse_move(far)
      PROVE  GesturesInv' /\ HealsStale
  <2>1. held' \subseteq held /\ UNCHANGED clickVars /\ UNCHANGED <<layout, page>>
    BY <1>4 DEF on_mouse_move, clickVars
  <2>2. CASE Stale
    BY <1>4, <1>types, <1>quiet, <2>1, <2>2, CancelKeeps, ClicksUnchanged, DragAndClicks
       DEF on_mouse_move
  <2>3. CASE ~Stale
    <3>1. /\ gesture' = [gesture EXCEPT !.moved = @ \/ (far /\ gesture.kind = "selecting")]
          /\ UNCHANGED <<live, captured>>
      BY <1>4, <2>3 DEF on_mouse_move
    <3>2. /\ gesture'.kind = gesture.kind
          /\ gesture' \in [kind : GestureKinds, owner : {"left", "middle"}, mode : 1..3, moved : BOOLEAN]
      BY <1>types, <3>1 DEF GesturesTypeOK
    <3>3. DragTypeOK' /\ DragInv'
      BY <1>types, <2>1, <3>1, <3>2 DEF GesturesTypeOK, DragTypeOK, DragInv
    <3>4. QED
      BY <1>types, <1>quiet, <2>1, <3>3, ClicksUnchanged, DragAndClicks
  <2>4. QED
    BY <2>2, <2>3
<1>5. CASE on_middle_button_down
  <2>1. /\ clicks' = forget(clicks) /\ broken' = TRUE /\ armed' = FALSE /\ run' = run
        /\ UNCHANGED <<layout, page>> /\ "middle" \in held'
    BY <1>5 DEF on_middle_button_down
  <2>2. /\ DragTypeOK' /\ DragInv'
        /\ Stale => gesture'.owner = "middle"
    <3>1. CASE gesture.kind = "selecting" /\ captured /\ cancel_gesture
      BY <1>types, <2>1, <3>1, CancelKeeps DEF Stale
    <3>2. CASE gesture.kind = "panning" /\ captured /\ UNCHANGED <<gesture, live, sel, captured>>
      BY <2>1, <3>2, DragUnchanged DEF Stale
    <3>3. CASE begin_pan_gesture("middle")
      BY <1>types, <2>1, <3>3, PanBegins
    <3>4. QED
      BY <1>5, <3>1, <3>2, <3>3 DEF on_middle_button_down
  <2>3. GesturesInv'
    BY <1>types, <2>1, <2>2, ForgetCounts, DragAndClicks
  <2>4. QED
    BY <2>1, <2>2, <2>3 DEF HealsStale
<1>6. CASE RightDown
  <2>1. /\ clicks' = forget(clicks) /\ broken' = TRUE /\ armed' = FALSE /\ run' = run
        /\ UNCHANGED <<layout, page, held>>
        /\ cancel_gesture \/ UNCHANGED <<gesture, live, captured>>
    BY <1>6 DEF RightDown
  <2>2. DragTypeOK' /\ DragInv'
    BY <1>types, <2>1, CancelKeeps, DragUnchanged
  <2>3. QED
    BY <1>types, <1>quiet, <2>1, <2>2, ForgetCounts, DragAndClicks
<1>7. CASE CaptureTaken
  <2>1. /\ gesture' = NoGesture /\ live' = NoSel /\ captured' = FALSE
        /\ UNCHANGED <<layout, page, held>> /\ UNCHANGED clickVars
    BY <1>7 DEF CaptureTaken, clickVars
  <2>2. DragTypeOK' /\ DragInv'
    BY <1>types, <2>1, NothingHeld
  <2>3. QED
    BY <1>types, <1>quiet, <2>1, <2>2, ClicksUnchanged, DragAndClicks
<1>8. ASSUME NEW p \in SelPages, PageChanged(p)
      PROVE  GesturesInv' /\ HealsStale
  <2>1. UNCHANGED <<layout, held>> /\ UNCHANGED clickVars
    BY <1>8 DEF PageChanged, clickVars
  <2>2. CASE layout = "strip" /\ UNCHANGED <<gesture, live, captured>>
    <3>1. DragTypeOK' /\ DragInv'
      BY <1>types, <2>1, <2>2 DEF GesturesTypeOK, DragTypeOK, DragInv
    <3>2. QED
      BY <1>types, <1>quiet, <2>1, <3>1, ClicksUnchanged, DragAndClicks
  <2>3. CASE cancel_gesture
    BY <1>types, <1>quiet, <2>1, <2>3, CancelKeeps, ClicksUnchanged, DragAndClicks
  <2>4. QED
    BY <1>8, <2>2, <2>3 DEF PageChanged, GestureSurvives
<1>9. ASSUME NEW l \in {"page", "spread", "strip"}, LayoutChanged(l)
      PROVE  GesturesInv' /\ HealsStale
  <2>1. cancel_gesture /\ layout' = l /\ UNCHANGED held /\ UNCHANGED clickVars
    BY <1>9 DEF LayoutChanged, clickVars
  <2>2. QED
    BY <1>types, <1>quiet, <2>1, CancelKeeps, ClicksUnchanged, DragAndClicks
<1>10. CASE ViewChanged
  <2>1. cancel_gesture /\ UNCHANGED <<layout, held>> /\ UNCHANGED clickVars
    BY <1>10 DEF ViewChanged, clickVars
  <2>2. QED
    BY <1>types, <1>quiet, <2>1, CancelKeeps, ClicksUnchanged, DragAndClicks
<1>11. CASE select_all
  <2>1. /\ cancel_gesture \/ UNCHANGED <<gesture, live, captured>>
        /\ UNCHANGED <<layout, page, held>> /\ UNCHANGED clickVars
    BY <1>11 DEF select_all, clickVars
  <2>2. DragTypeOK' /\ DragInv'
    BY <1>types, <2>1, CancelKeeps, DragUnchanged
  <2>3. QED
    BY <1>types, <1>quiet, <2>1, <2>2, ClicksUnchanged, DragAndClicks
<1>12. CASE UNCHANGED gestureVars
  <2>1. UNCHANGED <<gesture, live, captured, layout, page>> /\ UNCHANGED held /\ UNCHANGED clickVars
    BY <1>12 DEF gestureVars, clickVars
  <2>2. QED
    BY <1>types, <1>quiet, <2>1, DragUnchanged, ClicksUnchanged, DragAndClicks
<1>13. QED
  BY <1>1, <1>2, <1>3, <1>4, <1>5, <1>6, <1>7, <1>8, <1>9, <1>10, <1>11, <1>12 DEF GesturesNext

\* Whatever presses, releases, page, layout and tab changes meet, and whoever
\* takes the capture away, a selection, its gesture and the capture belong
\* together, and clicks are counted.
THEOREM GesturesAlwaysWhole == GesturesSpec => []GestureWhole
<1>1. GesturesInv => GestureWhole
  BY DEF GesturesInv, ClickInv, DragInv, GestureWhole
<1>2. QED
  BY GesturesInitial, GesturesStep, <1>1, PTL DEF GesturesSpec

\* No press is lost to a gesture that is over for the reader.
THEOREM StaleAlwaysHeals == GesturesSpec => StaleHeals
<1>1. GesturesInv /\ [GesturesNext]_gestureVars => [HealsStale]_gestureVars
  BY GesturesStep
<1>2. QED
  BY GesturesInitial, GesturesStep, <1>1, PTL DEF GesturesSpec, StaleHeals, HealsStale

-----------------------------------------------------------------------------
(* The inductive invariant.                                                *)

Stages == {"none", "probe", "copy", "write", "replace", "saved", "refused"}

SavingTypeOK ==
    /\ saving = [stage |-> saving.stage, what |-> saving.what, why |-> saving.why]
    /\ saving.stage \in Stages

\* A save is of the tabs as they are, since no message is taken during it, and
\* none is begun while the chain runs.
SavesWhatIs == saving.stage # "none" => saving.what = capture_session /\ ~restoring

\* Past the copy, a version-1 file is in its copy; at the end, the file is what
\* was to be saved.
CopyFirst ==
    /\ saving.stage \in {"write", "replace"} /\ file.version = 1 => bak = file
    /\ saving.stage = "saved" => file = saving.what

\* Without a process nothing is saved or restored.
NoneAtRest == ~up => saving.stage = "none" /\ ~restoring

SaveInv == SavingTypeOK /\ SavesWhatIs /\ CopyFirst /\ NoneAtRest

-----------------------------------------------------------------------------
(* The two action properties, of one step.                                 *)

FileStep == file' # file => file' = saving.what /\ (file.version = 1 => bak = file)

MarkerStep ==
    /\ marker /\ ~marker' => file = capture_session
    /\ restoring /\ restoring' => UNCHANGED <<file, marker>>

StepsWell == SaveInv' /\ FileStep /\ MarkerStep

\* No save is in progress.
LEMMA NotSavingFields == NotSaving.stage = "none" /\ NotSaving = [stage |-> "none", what |-> NoFile, why |-> "none"]
  BY DEF NotSaving

\* What is saved depends on the tabs alone.
LEMMA CaptureOfTabs == tabs' = tabs => capture_session' = capture_session
  BY Zenon DEF capture_session

\* Most handlers run between saves and leave the disk alone.
LEMMA QuietKeeps ==
    ASSUME SaveInv, Dispatching, UNCHANGED <<up, disk, saving>>
    PROVE  StepsWell
<1>1. saving.stage = "none" /\ saving' = saving /\ up /\ up'
  BY NotSavingFields DEF Dispatching
<1>2. file' = file /\ bak' = bak /\ marker' = marker
  BY DEF disk
<1>3. SaveInv'
  BY <1>1 DEF SaveInv, SavingTypeOK, SavesWhatIs, CopyFirst, NoneAtRest, Stages
<1>4. QED
  BY <1>2, <1>3 DEF StepsWell, FileStep, MarkerStep

\* The end of a process, wherever it was.
LEMMA EndKeeps ==
    ASSUME SaveInv, up' = FALSE, Forgotten, UNCHANGED <<file, bak>>,
           marker /\ ~marker' => file = capture_session
    PROVE  StepsWell
<1>1. saving' = NotSaving /\ restoring' = FALSE
  BY DEF Forgotten
<1>2. SaveInv'
  BY <1>1, NotSavingFields DEF SaveInv, SavingTypeOK, SavesWhatIs, CopyFirst, NoneAtRest, Stages
<1>3. QED
  BY <1>1, <1>2 DEF StepsWell, FileStep, MarkerStep

\* A save begins, of the tabs there are.
LEMMA BeginKeeps ==
    ASSUME SaveInv, Dispatching, ~restoring, NEW why, BeginSave(capture_session, why),
           UNCHANGED <<up, tabs, restoring, disk>>
    PROVE  StepsWell
<1>1. /\ saving' = [stage |-> "probe", what |-> capture_session, why |-> why]
      /\ up' /\ ~restoring'
  BY DEF BeginSave, Dispatching
<1>2. file' = file /\ bak' = bak /\ marker' = marker
  BY DEF disk
<1>3. SaveInv'
  BY <1>1, CaptureOfTabs DEF SaveInv, SavingTypeOK, SavesWhatIs, CopyFirst, NoneAtRest, Stages
<1>4. QED
  BY <1>2, <1>3 DEF StepsWell, FileStep, MarkerStep

\* The steps on the disk.
LEMMA SaveProceedsKeeps ==
    ASSUME SaveInv, SaveProceeds
    PROVE  StepsWell
<1>1. /\ up /\ up' = up /\ tabs' = tabs /\ restoring' = restoring
      /\ SaveStep
  BY DEF SaveProceeds, memory, restore
<1>2. saving.stage # "none" /\ saving.what = capture_session /\ ~restoring
  BY <1>1 DEF SaveStep, SaveProbe, SaveCopy, SaveWrite, SaveReplace, SaveInv, SavesWhatIs
<1>3. capture_session' = capture_session
  BY <1>1, CaptureOfTabs
<1>4. /\ SavingTypeOK' /\ saving'.what = saving.what
      /\ CopyFirst' /\ FileStep /\ marker' = marker
  <2>1. CASE SaveProbe
    <3>1. PICK probe \in Probes :
             saving' = [saving EXCEPT !.stage = CASE Inspects(probe) -> "write"
                                                  [] probe = "Yes" -> "copy"
                                                  [] OTHER -> "refused"]
      BY <2>1 DEF SaveProbe
    <3>2. /\ saving'.what = saving.what
          /\ saving' = [stage |-> saving'.stage, what |-> saving'.what, why |-> saving'.why]
          /\ saving'.stage = IF probe = "No" THEN "write" ELSE IF probe = "Yes" THEN "copy" ELSE "refused"
      BY <3>1 DEF Inspects, SaveInv, SavingTypeOK
    <3>3. probe = "No" => file.version # 1
      BY DEF Probes, NoFile
    <3>4. file' = file /\ bak' = bak /\ marker' = marker
      BY <2>1 DEF SaveProbe, disk
    <3>5. QED
      BY <3>2, <3>3, <3>4 DEF SavingTypeOK, Stages, CopyFirst, FileStep
  <2>2. CASE SaveCopy
    <3>1. /\ file' = file /\ marker' = marker
          /\ \/ bak' = file /\ saving' = [saving EXCEPT !.stage = "write"]
             \/ saving' = [saving EXCEPT !.stage = "refused"]
      BY <2>2 DEF SaveCopy
    <3>2. /\ saving'.what = saving.what
          /\ saving' = [stage |-> saving'.stage, what |-> saving'.what, why |-> saving'.why]
          /\ saving'.stage \in {"write", "refused"}
          /\ saving'.stage = "write" => bak' = file
      BY <3>1 DEF SaveInv, SavingTypeOK
    <3>3. QED
      BY <3>1, <3>2 DEF SavingTypeOK, Stages, CopyFirst, FileStep
  <2>3. CASE SaveWrite
    <3>1. /\ file' = file /\ bak' = bak /\ marker' = marker /\ saving.stage = "write"
          /\ \/ saving' = [saving EXCEPT !.stage = "replace"]
             \/ saving' = [saving EXCEPT !.stage = "refused"]
      BY <2>3 DEF SaveWrite, disk
    <3>2. /\ saving'.what = saving.what
          /\ saving' = [stage |-> saving'.stage, what |-> saving'.what, why |-> saving'.why]
          /\ saving'.stage \in {"replace", "refused"}
      BY <3>1 DEF SaveInv, SavingTypeOK
    <3>3. QED
      BY <3>1, <3>2 DEF SaveInv, SavingTypeOK, Stages, CopyFirst, FileStep
  <2>4. CASE SaveReplace
    <3>1. /\ bak' = bak /\ marker' = marker /\ saving.stage = "replace"
          /\ \/ file' = saving.what /\ saving' = [saving EXCEPT !.stage = "saved"]
             \/ file' = file /\ saving' = [saving EXCEPT !.stage = "refused"]
      BY <2>4 DEF SaveReplace
    <3>2. /\ saving'.what = saving.what
          /\ saving' = [stage |-> saving'.stage, what |-> saving'.what, why |-> saving'.why]
          /\ saving'.stage \in {"saved", "refused"}
          /\ saving'.stage = "saved" => file' = saving.what
      BY <3>1 DEF SaveInv, SavingTypeOK
    <3>3. QED
      BY <3>1, <3>2 DEF SaveInv, SavingTypeOK, Stages, CopyFirst, FileStep
  <2>5. QED
    BY <1>1, <2>1, <2>2, <2>3, <2>4 DEF SaveStep
<1>5. SavesWhatIs' /\ NoneAtRest'
  BY <1>1, <1>2, <1>3, <1>4 DEF SavesWhatIs, NoneAtRest
<1>6. QED
  BY <1>1, <1>2, <1>4, <1>5 DEF StepsWell, SaveInv, MarkerStep

-----------------------------------------------------------------------------

\* A start finds no process, save or chain.
THEOREM SaveInitial == Init => SaveInv
  BY NotSavingFields DEF Init, SaveInv, SavingTypeOK, SavesWhatIs, CopyFirst, NoneAtRest, Stages

\* Every handler, step of a save, end and start keeps the invariant and does what
\* the two properties ask of a step.
THEOREM SaveInductive == SaveInv /\ [Next]_vars => StepsWell
<1> SUFFICES ASSUME SaveInv, [Next]_vars
             PROVE  StepsWell
  OBVIOUS
<1>1. ASSUME NEW id \in 1..MaxOpens, OpenEnds(id) PROVE StepsWell
  BY <1>1, QuietKeeps DEF OpenEnds
<1>2. CASE Answer
  BY <1>2, QuietKeeps DEF Answer, Top, PasswordRefused, PasswordAccepted, PasswordThenThrow,
                          BoxDismissed, OfferDeclined, OfferAccepted
<1>3. ASSUME NEW p \in Paths, AskedHere(p) \/ Forwarded(p) PROVE StepsWell
  BY <1>3, QuietKeeps DEF AskedHere, Forwarded, open_tab_async
<1>4. ASSUME NEW i \in DOMAIN tabs.tabs, on_tab_close_request(i) \/ on_tab_switch(i) PROVE StepsWell
  BY <1>4, QuietKeeps DEF on_tab_close_request, on_tab_switch
<1>5. CASE PageTurned \/ WindowMoved
  BY <1>5, QuietKeeps DEF PageTurned, WindowMoved
<1>6. CASE WM_TIMER
  <2>1. Dispatching /\ UNCHANGED <<up, tabs, restoring, disk>>
    BY <1>6 DEF WM_TIMER, restore
  <2>2. CASE TimerSaves
    BY <1>6, <2>1, <2>2, BeginKeeps DEF WM_TIMER, TimerSaves
  <2>3. CASE ~TimerSaves
    BY <1>6, <2>1, <2>3, QuietKeeps DEF WM_TIMER
  <2>4. QED
    BY <2>2, <2>3
<1>7. CASE on_clean_exit
  <2>1. Dispatching /\ UNCHANGED disk
    BY <1>7 DEF on_clean_exit
  <2>2. CASE ExitSaves
    <3>1. /\ BeginSave(capture_session, "exit") /\ ~restoring
          /\ UNCHANGED <<up, tabs, restoring, disk>>
      BY <1>7, <2>1, <2>2 DEF on_clean_exit, ExitSaves, restore
    <3>2. QED
      BY <2>1, <3>1, BeginKeeps
  <2>3. CASE ~ExitSaves
    <3>1. up' = FALSE /\ Forgotten /\ UNCHANGED <<file, bak>> /\ marker' = marker
      BY <1>7, <2>1, <2>3 DEF on_clean_exit, disk
    <3>2. QED
      BY <3>1, EndKeeps
  <2>4. QED
    BY <2>2, <2>3
<1>8. CASE SaveProceeds
  BY <1>8, SaveProceedsKeeps
<1>9. CASE SaveReturns
  <2>1. /\ up /\ saving.stage \in {"saved", "refused"} /\ UNCHANGED <<file, bak>>
        /\ marker' = MarkerAfter(saving.why)
    BY <1>9 DEF SaveReturns, SaveEnded
  <2>2. ~restoring /\ saving.what = capture_session
    BY <2>1 DEF SaveInv, SavesWhatIs
  <2>3. marker /\ ~marker' => file = capture_session
    BY <2>1, <2>2 DEF MarkerAfter, SaveInv, CopyFirst
  <2>4. CASE saving.why = "exit"
    BY <1>9, <2>1, <2>3, <2>4, EndKeeps DEF SaveReturns
  <2>5. CASE saving.why # "exit"
    <3>1. saving' = NotSaving /\ up' = up /\ restoring' = restoring
      BY <1>9, <2>5 DEF SaveReturns, memory, restore
    <3>2. SaveInv'
      BY <2>1, <3>1, NotSavingFields
         DEF SaveInv, SavingTypeOK, SavesWhatIs, CopyFirst, NoneAtRest, Stages
    <3>3. QED
      BY <2>1, <2>2, <2>3, <3>1, <3>2 DEF StepsWell, FileStep, MarkerStep
  <2>6. QED
    BY <2>4, <2>5
<1>10. CASE Crash
  BY <1>10, EndKeeps DEF Crash, disk
<1>11. ASSUME NEW cli \in Paths \cup {NoPath}, NEW gone \in SUBSET Paths, Start(cli, gone)
       PROVE  StepsWell
  <2>1. /\ ~up /\ up' = TRUE /\ marker' = TRUE
        /\ UNCHANGED <<tabs, restoring, file, bak, saving>>
    BY <1>11 DEF Start
  <2>2. saving.stage = "none" /\ ~restoring
    BY <2>1 DEF SaveInv, NoneAtRest
  <2>3. SaveInv'
    BY <2>1, <2>2 DEF SaveInv, SavingTypeOK, SavesWhatIs, CopyFirst, NoneAtRest, Stages
  <2>4. QED
    BY <2>1, <2>2, <2>3 DEF StepsWell, FileStep, MarkerStep
<1>12. CASE UNCHANGED vars
  <2>1. /\ up' = up /\ tabs' = tabs /\ restoring' = restoring /\ saving' = saving
        /\ file' = file /\ bak' = bak /\ marker' = marker
    BY <1>12 DEF vars, memory, restore, disk
  <2>2. SaveInv'
    BY <2>1, CaptureOfTabs DEF SaveInv, SavingTypeOK, SavesWhatIs, CopyFirst, NoneAtRest
  <2>3. QED
    BY <2>1, <2>2 DEF StepsWell, FileStep, MarkerStep
<1>13. QED
  BY <1>1, <1>2, <1>3, <1>4, <1>5, <1>6, <1>7, <1>8, <1>9, <1>10, <1>11, <1>12 DEF Next

\* A process that dies in a save leaves the old session or the new, and the
\* version-1 file goes only when it is in its copy.
THEOREM FileAlwaysWhole == Spec => FileStaysWhole
<1>1. SaveInv /\ [Next]_vars => SaveInv'
  BY SaveInductive DEF StepsWell
<1>2. SaveInv /\ [Next]_vars => [FileStep]_vars
  BY SaveInductive DEF StepsWell
<1>3. QED
  BY SaveInitial, <1>1, <1>2, PTL DEF Spec, FileStaysWhole, FileStep

\* The marker goes only when the tabs are in the file, and neither is touched
\* while the chain runs.
THEOREM MarkerAlwaysTrue == Spec => MarkerTellsTruth
<1>1. SaveInv /\ [Next]_vars => SaveInv'
  BY SaveInductive DEF StepsWell
<1>2. SaveInv /\ [Next]_vars => [MarkerStep]_vars
  BY SaveInductive DEF StepsWell
<1>3. QED
  BY SaveInitial, <1>1, <1>2, PTL DEF Spec, MarkerTellsTruth, MarkerStep


-----------------------------------------------------------------------------
(* The chain that restores a session.                                      *)

\* A sequence, of whatever its members are.
IsList(s) == s \in Seq(ToSet(s))

IsTab(t) == t = [path |-> t.path, page |-> t.page, slot |-> t.slot]
IsTabs(l) == l = [tabs |-> l.tabs, active |-> l.active] /\ \A i \in DOMAIN l.tabs : IsTab(l.tabs[i])

Lists ==
    /\ IsTabs(tabs) /\ IsList(tabs.tabs) /\ IsList(modals) /\ IsList(queue)
    /\ saving = [stage |-> saving.stage, what |-> saving.what, why |-> saving.why]
    /\ IsList(file.list.tabs) /\ IsList(saving.what.list.tabs)

\* Nothing is left of a process.
Empty ==
    ~up => /\ tabs.tabs = <<>> /\ opens = {} /\ modals = <<>>
           /\ ~restoring /\ queue = <<>> /\ ~foul

\* The chain is at a slot of its queue, and an offer comes before it.
ChainAt ==
    /\ restoring => index \in DOMAIN queue /\ pending = queue[index].path
    /\ (\E i \in DOMAIN modals : modals[i].kind = "offer") =>
          /\ ~restoring /\ queue # <<>>
          /\ ~foul => \A i \in DOMAIN tabs.tabs : SlotOf(i) = 0

\* An open that is a reader's, of a document the chain is not to bring; a
\* dialog that is not about one of the chain's.
Foreign(o) == o.slot = 0 /\ \A n \in DOMAIN queue : queue[n].path # o.path
Aside(m) == m.kind = "prompt" => Foreign(m.open) /\ ~m.mine

Own(o) == o.slot = index /\ o.path = pending

\* The chain has one document on its way, which a worker opens or a prompt
\* is about.
Opening(o) ==
    /\ Own(o) /\ \A q \in opens \ {o} : Foreign(q)
    /\ \A i \in DOMAIN modals : Aside(modals[i])

Prompting(k) ==
    /\ modals[k].kind = "prompt" /\ modals[k].mine /\ Own(modals[k].open)
    /\ \A q \in opens : Foreign(q)
    /\ \A i \in DOMAIN modals \ {k} : Aside(modals[i])

OnTheWay ==
    IF restoring THEN (\E o \in opens : Opening(o)) \/ \E k \in DOMAIN modals : Prompting(k)
    ELSE (\A o \in opens : Foreign(o)) /\ \A i \in DOMAIN modals : Aside(modals[i])

\* What the chain has brought stands in the order of the queue.
InOrder(ts) ==
    \A i \in DOMAIN ts :
      /\ ts[i].slot \in Nat
      /\ ts[i].slot # 0 =>
           /\ restoring => ts[i].slot < index /\ ts[i].page = queue[ts[i].slot].page
           /\ \A k \in 1..(i - 1) : ts[k].slot < ts[i].slot

ChainInv ==
    /\ Lists /\ Empty /\ ChainAt
    /\ ~foul => OnTheWay /\ InOrder(tabs.tabs)

-----------------------------------------------------------------------------
(* Lists.                                                                  *)

\* A sequence is a list, whatever set it was known to be over.
LEMMA ListOf ==
    ASSUME NEW S, NEW s \in Seq(S)
    PROVE  IsList(s) /\ Len(s) \in Nat /\ DOMAIN s = 1..Len(s)
<1>1. Len(s) \in Nat /\ DOMAIN s = 1..Len(s) /\ s = [i \in 1..Len(s) |-> s[i]]
  OBVIOUS
<1>2. \A i \in 1..Len(s) : s[i] \in ToSet(s)
  BY <1>1 DEF ToSet
<1>3. s \in Seq(ToSet(s))
  BY <1>1, <1>2, IsASeq
<1> QED
  BY <1>1, <1>3 DEF IsList

\* A function on the same indices.
LEMMA ListSame ==
    ASSUME NEW s, IsList(s), NEW t, t = [i \in DOMAIN s |-> t[i]]
    PROVE  IsList(t) /\ Len(s) \in Nat /\ DOMAIN s = 1..Len(s) /\ DOMAIN t = 1..Len(s)
<1>1. Len(s) \in Nat /\ DOMAIN s = 1..Len(s)
  BY ListOf DEF IsList
<1>2. DOMAIN t = 1..Len(s) /\ t = [i \in 1..Len(s) |-> t[i]]
  BY <1>1
<1>3. \A i \in 1..Len(s) : t[i] \in ToSet(t)
  BY <1>2 DEF ToSet
<1>4. t \in Seq(ToSet(t))
  BY <1>1, <1>2, <1>3, IsASeq
<1> QED
  BY <1>1, <1>2, <1>4 DEF IsList

\* What Append, Front and RemoveAt leave, index by index.
LEMMA ListAppend ==
    ASSUME NEW s, IsList(s), NEW x
    PROVE  /\ IsList(Append(s, x))
           /\ Len(s) \in Nat /\ DOMAIN s = 1..Len(s) /\ DOMAIN Append(s, x) = 1..Len(s) + 1
           /\ \A i \in DOMAIN s : i \in DOMAIN Append(s, x) /\ Append(s, x)[i] = s[i]
           /\ Append(s, x)[Len(s) + 1] = x /\ Len(s) + 1 \in DOMAIN Append(s, x)
           /\ \A i \in DOMAIN Append(s, x) : i \in DOMAIN s \/ i = Len(s) + 1
           /\ Len(s) + 1 \notin DOMAIN s
<1> DEFINE S == ToSet(s) \cup {x}
           t == Append(s, x)
<1>1. s \in Seq(ToSet(s)) /\ Len(s) \in Nat /\ DOMAIN s = 1..Len(s)
  BY ListOf DEF IsList
<1>2. s \in Seq(S) /\ x \in S
  BY <1>1, SeqMonotonic
<1> HIDE DEF S
<1>3. /\ t \in Seq(S) /\ DOMAIN t = 1..Len(s) + 1
      /\ \A i \in 1..Len(s) : t[i] = s[i]
      /\ t[Len(s) + 1] = x
  BY <1>2, AppendProperties
<1>4. IsList(t)
  BY <1>3, ListOf
<1>5. /\ \A i \in 1..Len(s) : i \in 1..Len(s) + 1
      /\ Len(s) + 1 \in 1..Len(s) + 1 /\ Len(s) + 1 \notin 1..Len(s)
      /\ \A i \in 1..Len(s) + 1 : i \in 1..Len(s) \/ i = Len(s) + 1
  BY <1>1
<1> QED
  BY <1>1, <1>3, <1>4, <1>5

LEMMA ListFront ==
    ASSUME NEW s, IsList(s), s # <<>>
    PROVE  /\ IsList(Front(s))
           /\ Len(s) \in DOMAIN s /\ Last(s) = s[Len(s)]
           /\ \A i \in DOMAIN Front(s) : i \in DOMAIN s \ {Len(s)} /\ Front(s)[i] = s[i]
           /\ \A i \in DOMAIN s \ {Len(s)} : i \in DOMAIN Front(s)
<1>1. s \in Seq(ToSet(s)) /\ Len(s) \in Nat /\ DOMAIN s = 1..Len(s)
  BY ListOf DEF IsList
<1>2. Len(s) # 0
  BY <1>1, EmptySeq
<1>3. PICK f : f = Front(s)
  OBVIOUS
<1>4. /\ f \in Seq(ToSet(s)) /\ Len(f) = Len(s) - 1
      /\ \A i \in 1..Len(s) - 1 : f[i] = s[i]
  <2>1. \A i \in 1..Len(s) - 1 : s[i] \in ToSet(s)
    BY <1>1 DEF ToSet
  <2>2. f = SubSeq(s, 1, Len(s) - 1)
    BY <1>3 DEF Front
  <2> QED
    BY <1>1, <1>2, <2>1, <2>2, SubSeqProperties
<1>5. IsList(f) /\ DOMAIN f = 1..Len(s) - 1
  BY <1>1, <1>2, <1>4, ListOf
<1>6. /\ \A i \in 1..Len(s) - 1 : i \in 1..Len(s) /\ i # Len(s)
      /\ \A i \in 1..Len(s) : i # Len(s) => i \in 1..Len(s) - 1
      /\ Len(s) \in 1..Len(s)
  <2>1. PICK n \in Nat \ {0} : n = Len(s)
    BY <1>1, <1>2
  <2>2. /\ \A i \in 1..n - 1 : i \in 1..n /\ i # n
        /\ \A i \in 1..n : i # n => i \in 1..n - 1
        /\ n \in 1..n
    OBVIOUS
  <2> QED
    BY ONLY <2>1, <2>2
<1> QED
  BY <1>1, <1>3, <1>4, <1>5, <1>6 DEF Last

LEMMA ListRemove ==
    ASSUME NEW s, IsList(s), NEW n \in DOMAIN s
    PROVE  /\ IsList(RemoveAt(s, n)) /\ n \in Nat
           /\ \A i \in DOMAIN RemoveAt(s, n) :
                /\ i \in Nat /\ i >= 1
                /\ IF i < n THEN i \in DOMAIN s /\ RemoveAt(s, n)[i] = s[i]
                   ELSE i + 1 \in DOMAIN s /\ RemoveAt(s, n)[i] = s[i + 1]
<1>1. s \in Seq(ToSet(s)) /\ Len(s) \in Nat /\ DOMAIN s = 1..Len(s)
  BY ListOf DEF IsList
<1>2. PICK r : r = RemoveAt(s, n)
  OBVIOUS
<1>3. /\ r \in Seq(ToSet(s)) /\ Len(r) = Len(s) - 1
      /\ \A i \in 1..Len(s) - 1 : r[i] = IF i < n THEN s[i] ELSE s[i + 1]
  BY <1>1, <1>2, RemoveAtKeepsRest
<1>4. IsList(r) /\ DOMAIN r = 1..Len(s) - 1
  BY <1>3, ListOf
<1>5. \A i \in 1..Len(s) - 1 : i \in Nat /\ i >= 1 /\ i \in 1..Len(s) /\ i + 1 \in 1..Len(s)
  BY <1>1
<1> QED
  BY <1>1, <1>2, <1>3, <1>4, <1>5

\* No tabs, no slots, no dialogs.
LEMMA EmptyList == IsList(<<>>) /\ DOMAIN <<>> = {} /\ IsList(NoTabs.tabs) /\ NoTabs.tabs = <<>>
  BY EmptySeq DEF IsList, NoTabs

-----------------------------------------------------------------------------
(* The document on its way.                                                *)

\* A chain's own document is no other's.
LEMMA OwnIsNotForeign ==
    ASSUME ChainAt, restoring, NEW o, Own(o)
    PROVE  ~Foreign(o)
<1>1. index \in DOMAIN queue /\ queue[index].path = o.path
  BY DEF ChainAt, Own
<1> QED
  BY <1>1 DEF Foreign

\* Readers' documents come and go, and dialogs with them.
Apart(os, ms) ==
    /\ \A o \in os : o \in opens \/ Foreign(o)
    /\ \A o \in opens : o \in os \/ Foreign(o)
    /\ \A i \in DOMAIN ms : (i \in DOMAIN modals /\ ms[i] = modals[i]) \/ Aside(ms[i])
    /\ \A i \in DOMAIN modals : (i \in DOMAIN ms /\ ms[i] = modals[i]) \/ Aside(modals[i])

\* They leave the chain waiting for its own.
LEMMA OthersComeAndGo ==
    ASSUME ChainAt, OnTheWay, UNCHANGED restore, Apart(opens', modals')
    PROVE  OnTheWay'
<1>0. /\ \A o \in opens' : o \in opens \/ Foreign(o)
      /\ \A o \in opens : o \in opens' \/ Foreign(o)
      /\ \A i \in DOMAIN modals' : (i \in DOMAIN modals /\ modals'[i] = modals[i]) \/ Aside(modals'[i])
      /\ \A i \in DOMAIN modals : (i \in DOMAIN modals' /\ modals'[i] = modals[i]) \/ Aside(modals[i])
  BY DEF Apart
<1>1. restoring' = restoring /\ index' = index /\ pending' = pending /\ queue' = queue
  BY DEF restore
<1>2. CASE ~restoring
  <2>1. (\A o \in opens' : Foreign(o)) /\ \A i \in DOMAIN modals' : Aside(modals'[i])
    BY <1>0, <1>2 DEF OnTheWay
  <2> QED
    BY <1>1, <1>2, <2>1 DEF OnTheWay, Foreign, Aside
<1>3. ASSUME restoring, NEW o \in opens, Opening(o) PROVE OnTheWay'
  <2>1. o \in opens'
    BY <1>0, <1>3, OwnIsNotForeign DEF Opening
  <2>2. (\A q \in opens' \ {o} : Foreign(q)) /\ \A i \in DOMAIN modals' : Aside(modals'[i])
    BY <1>0, <1>3 DEF Opening
  <2>3. Opening(o)'
    BY <1>1, <1>3, <2>2 DEF Opening, Own, Foreign, Aside
  <2> QED
    BY <1>1, <1>3, <2>1, <2>3 DEF OnTheWay
<1>4. ASSUME restoring, NEW k \in DOMAIN modals, Prompting(k) PROVE OnTheWay'
  <2>1. ~Aside(modals[k])
    BY <1>4 DEF Prompting, Aside
  <2>2. k \in DOMAIN modals' /\ modals'[k] = modals[k]
    BY <1>0, <2>1
  <2>3. (\A q \in opens' : Foreign(q)) /\ \A i \in DOMAIN modals' \ {k} : Aside(modals'[i])
    BY <1>0, <1>4 DEF Prompting
  <2>4. Prompting(k)'
    BY <1>1, <1>4, <2>2, <2>3 DEF Prompting, Own, Foreign, Aside
  <2> QED
    BY <1>1, <1>4, <2>2, <2>4 DEF OnTheWay
<1> QED
  BY <1>2, <1>3, <1>4 DEF OnTheWay

\* Nothing of the chain's is on its way: the one it had is dealt with.
NoneOfIts(os, ms) == (\A o \in os : Foreign(o)) /\ \A i \in DOMAIN ms : Aside(ms[i])

\* An open of the document the chain waits for is its own.
LEMMA OwnOpens ==
    ASSUME ChainAt, OnTheWay, restoring, NEW o \in opens, o.path = pending
    PROVE  NoneOfIts(opens \ {o}, modals) /\ o.slot = index
<1>1. ~Foreign(o)
  BY DEF ChainAt, Foreign
<1>2. PICK q \in opens : Opening(q)
  BY <1>1 DEF OnTheWay, Prompting
<1>3. q = o
  BY <1>1, <1>2 DEF Opening
<1> QED
  BY <1>2, <1>3 DEF Opening, NoneOfIts, Own

\* Any other, whatever its slot, is a reader's.
LEMMA OthersAreForeign ==
    ASSUME ChainAt, OnTheWay, NEW o \in opens, restoring => o.path # pending
    PROVE  Foreign(o)
BY DEF OnTheWay, Opening, Prompting, Own

\* So it is with the prompts.
LEMMA OwnPrompts ==
    ASSUME ChainAt, OnTheWay, NEW k \in DOMAIN modals, modals[k].kind = "prompt"
    PROVE  /\ modals[k].mine => /\ restoring /\ Own(modals[k].open)
                                /\ \A q \in opens : Foreign(q)
                                /\ \A i \in DOMAIN modals \ {k} : Aside(modals[i])
           /\ ~modals[k].mine => Aside(modals[k])
<1>1. modals[k].mine <=> ~Aside(modals[k])
  BY OwnIsNotForeign DEF OnTheWay, Opening, Prompting, Aside
<1> QED
  BY <1>1 DEF OnTheWay, Opening, Prompting, Aside

-----------------------------------------------------------------------------
(* The next slot.                                                          *)

\* What the chain has brought when its slot is dealt with.
Stands(ts) ==
    \A i \in DOMAIN ts :
      /\ ts[i].slot \in Nat
      /\ ts[i].slot # 0 =>
           /\ ts[i].slot <= index /\ ts[i].page = queue[ts[i].slot].page
           /\ \A k \in 1..(i - 1) : ts[k].slot < ts[i].slot

\* What a worker is started for.
LEMMA InFlightIs ==
    ASSUME NEW ps, NEW s
    PROVE  \A o \in InFlight(ps, s) : o.path \in ps /\ o.slot = s
BY DEF InFlight

LEMMA OneInFlight ==
    ASSUME NEW p, NEW s
    PROVE  \E x : InFlight({p}, s) = {x} /\ x.path = p /\ x.slot = s
<1>1. PICK i : \A q : InFlight({q}, s) = {[id |-> i, path |-> q, slot |-> s]}
  BY Zenon DEF InFlight
<1>2. PICK x : x = [id |-> i, path |-> p, slot |-> s]
  OBVIOUS
<1> QED
  BY <1>1, <1>2

\* The chain is at its next slot, with the document on its way, or at its end.
Goes(l, os) ==
    /\ IsTabs(tabs') /\ tabs'.tabs = l.tabs /\ IsList(queue')
    /\ restoring' => /\ queue' = queue /\ index' = index + 1
                     /\ index' \in DOMAIN queue /\ pending' = queue[index'].path
                     /\ \E x : x.slot = index' /\ x.path = pending' /\ opens' = os \cup {x}
    /\ ~restoring' => queue' = <<>> /\ \A o \in opens' : o \in os \/ o.slot = 0

\* restore_open_next, whether it goes on or finishes.
LEMMA NextSlot ==
    ASSUME ChainAt, IsList(queue), restoring, NEW l, IsTabs(l), NEW os, restore_open_next(l, os)
    PROVE  Goes(l, os)
<1>1. Len(queue) \in Nat /\ DOMAIN queue = 1..Len(queue) /\ index \in DOMAIN queue
  BY ListOf DEF ChainAt, IsList
<1>2. CASE index >= Len(queue)
  <2>1. restore_finish(l, os)
    BY <1>2 DEF restore_open_next
  <2>2. \E i : tabs' = [l EXCEPT !.active = i]
    BY <2>1 DEF restore_finish, ByPath, set_active
  <2>3. IsTabs(tabs') /\ tabs'.tabs = l.tabs
    BY <2>2 DEF IsTabs
  <2>4. restoring' = FALSE /\ queue' = <<>> /\ opens' = os \cup InFlight({deferred} \ {NoPath}, 0)
    BY <2>1 DEF restore_finish, open_deferred
  <2>5. \A o \in opens' : o \in os \/ o.slot = 0
    BY <2>4, InFlightIs
  <2> QED
    BY <2>3, <2>4, <2>5, EmptyList DEF Goes
<1>3. CASE ~(index >= Len(queue))
  <2>1. /\ tabs' = l /\ index' = index + 1 /\ pending' = queue[index + 1].path
        /\ opens' = os \cup InFlight({queue[index + 1].path}, index + 1)
        /\ restoring' = restoring /\ queue' = queue
    BY <1>3 DEF restore_open_next
  <2>2. index + 1 \in DOMAIN queue
    BY <1>1, <1>3
  <2>3. PICK n, p : n = index + 1 /\ p = queue[index + 1].path
    OBVIOUS
  <2>4. PICK x : InFlight({p}, n) = {x} /\ x.path = p /\ x.slot = n
    BY ONLY OneInFlight, ZenonT(40)
  <2>5. \E y : y.slot = index' /\ y.path = pending' /\ opens' = os \cup {y}
    BY ONLY <2>1, <2>3, <2>4
  <2> QED
    BY <2>1, <2>2, <2>5 DEF Goes, IsTabs
<1> QED
  BY <1>2, <1>3

\* Nothing else of the chain's being on its way, that keeps the order.
LEMMA NextInOrder ==
    ASSUME ChainAt, IsList(queue), restoring, NEW l, NEW os, Goes(l, os),
           NoneOfIts(os, modals'), Stands(l.tabs)
    PROVE  OnTheWay' /\ InOrder(tabs.tabs)'
<1>1. Len(queue) \in Nat /\ DOMAIN queue = 1..Len(queue) /\ index \in DOMAIN queue /\ index \in Nat
  BY ListOf DEF ChainAt, IsList
<1>2. tabs'.tabs = l.tabs
  BY DEF Goes
<1>3. CASE restoring'
  <2>1. /\ queue' = queue /\ index' = index + 1
        /\ index' \in DOMAIN queue /\ pending' = queue[index'].path
    BY <1>3 DEF Goes
  <2>2. PICK x : x.slot = index' /\ x.path = pending' /\ opens' = os \cup {x}
    BY <1>3 DEF Goes
  <2>3. \A q \in opens' \ {x} : Foreign(q)
    BY <2>2 DEF NoneOfIts
  <2>4. \A i \in DOMAIN modals' : Aside(modals'[i])
    BY DEF NoneOfIts
  <2>5. Opening(x)'
    BY <2>1, <2>2, <2>3, <2>4 DEF Opening, Own, Foreign, Aside
  <2>6. OnTheWay'
    BY <1>3, <2>2, <2>5 DEF OnTheWay
  <2>7. ASSUME NEW i \in DOMAIN l.tabs, l.tabs[i].slot # 0
        PROVE  /\ l.tabs[i].slot < index' /\ l.tabs[i].page = queue'[l.tabs[i].slot].page
               /\ \A k \in 1..(i - 1) : l.tabs[k].slot < l.tabs[i].slot
    BY <1>1, <2>1, <2>7 DEF Stands
  <2> QED
    BY <1>2, <2>6, <2>7 DEF InOrder, Stands
<1>4. CASE ~restoring'
  <2>1. queue' = <<>> /\ \A o \in opens' : o \in os \/ o.slot = 0
    BY <1>4 DEF Goes
  <2>2. \A o \in opens' : o.slot = 0
    BY <2>1 DEF NoneOfIts, Foreign
  <2>3. \A i \in DOMAIN modals' : modals'[i].kind = "prompt" => modals'[i].open.slot = 0 /\ ~modals'[i].mine
    BY DEF NoneOfIts, Aside, Foreign
  <2>4. OnTheWay'
    BY <1>4, <2>1, <2>2, <2>3, EmptyList DEF OnTheWay, Foreign, Aside
  <2>5. InOrder(tabs.tabs)'
    BY <1>2, <1>4 DEF InOrder, Stands
  <2> QED
    BY <2>4, <2>5
<1> QED
  BY <1>3, <1>4

-----------------------------------------------------------------------------
(* A tab that comes, a document that does not.                             *)

\* What the rest of an action must leave for the chain to be in order.
Onward ==
    /\ IsTabs(tabs') /\ IsList(tabs'.tabs) /\ IsList(queue')
    /\ ChainAt'
    /\ ~foul' => OnTheWay' /\ InOrder(tabs.tabs)'

\* What the invariant says of the chain.
Chain ==
    /\ IsTabs(tabs) /\ IsList(tabs.tabs) /\ IsList(queue) /\ IsList(modals)
    /\ ChainAt
    /\ ~foul => OnTheWay /\ InOrder(tabs.tabs)

NoNewOffer(ms) ==
    \A i \in DOMAIN ms : ms[i].kind = "offer" => \E j \in DOMAIN modals : modals[j].kind = "offer"

\* A slot dealt with, in tabs and queue and all.
LEMMA SlotDone ==
    ASSUME Chain, restoring, NEW l, IsTabs(l), IsList(l.tabs), NEW os, restore_open_next(l, os),
           NoNewOffer(modals'), ~foul' => NoneOfIts(os, modals') /\ Stands(l.tabs)
    PROVE  Onward
<1>1. Goes(l, os)
  BY NextSlot DEF Chain
<1>2. IsTabs(tabs') /\ tabs'.tabs = l.tabs /\ IsList(queue')
  BY <1>1 DEF Goes
<1>3. ~foul' => OnTheWay' /\ InOrder(tabs.tabs)'
  BY <1>1, NextInOrder DEF Chain
<1>4. \A i \in DOMAIN modals' : modals'[i].kind # "offer"
  BY DEF Chain, ChainAt, NoNewOffer
<1>5. restoring' => index' \in DOMAIN queue' /\ pending' = queue'[index'].path
  BY <1>1 DEF Goes
<1>6. ChainAt'
  BY <1>4, <1>5 DEF ChainAt
<1> QED
  BY <1>2, <1>3, <1>6 DEF Onward

\* Before a slot is dealt with, all it has brought stands.
LEMMA SoFarStands ==
    ASSUME Chain, ~foul, restoring
    PROVE  Stands(tabs.tabs)
<1>1. index \in Nat
  BY ListOf DEF Chain, ChainAt, IsList
<1> QED
  BY <1>1 DEF Chain, InOrder, Stands

\* A document that cannot be restored ends its slot.
LEMMA SlotFails ==
    ASSUME Chain, NEW os, restore_on_tab_failed(os), restoring,
           NoNewOffer(modals'), ~foul' => ~foul /\ NoneOfIts(os, modals')
    PROVE  Onward
<1>1. restore_open_next(tabs, os)
  BY DEF restore_on_tab_failed
<1> QED
  BY <1>1, SlotDone, SoFarStands DEF Chain

\* The chain waits on, with one tab more or less, or none.
LEMMA WaitsOn ==
    ASSUME Chain, UNCHANGED restore, IsTabs(tabs'), IsList(tabs'.tabs), NoNewOffer(modals'),
           ~foul' => ~foul /\ Apart(opens', modals') /\ InOrder(tabs'.tabs),
           ~foul' /\ (\E j \in DOMAIN modals : modals[j].kind = "offer")
             => \A i \in DOMAIN tabs'.tabs : tabs'.tabs[i].slot = 0
    PROVE  Onward
<1>1. restoring' = restoring /\ index' = index /\ pending' = pending /\ queue' = queue
  BY DEF restore
<1>2. ChainAt'
  <2>1. restoring' => index' \in DOMAIN queue' /\ pending' = queue'[index'].path
    BY <1>1 DEF Chain, ChainAt
  <2>2. ASSUME NEW i \in DOMAIN modals', modals'[i].kind = "offer"
        PROVE  ~restoring' /\ queue' # <<>> /\ (~foul' => \A k \in DOMAIN tabs'.tabs : tabs'.tabs[k].slot = 0)
    BY <1>1, <2>2 DEF Chain, ChainAt, NoNewOffer
  <2> QED
    BY <2>1, <2>2 DEF ChainAt, SlotOf
<1>3. ~foul' => OnTheWay'
  BY OthersComeAndGo DEF Chain
<1>4. ~foul' => InOrder(tabs.tabs)'
  BY <1>1 DEF InOrder
<1> QED
  BY <1>1, <1>2, <1>3, <1>4 DEF Onward, Chain

\* A reader's tab goes last.
LEMMA OneMoreTab ==
    ASSUME Chain, NEW t, t.slot = 0, ~foul
    PROVE  /\ InOrder(Append(tabs.tabs, t))
           /\ (\E j \in DOMAIN modals : modals[j].kind = "offer")
                => \A i \in DOMAIN Append(tabs.tabs, t) : Append(tabs.tabs, t)[i].slot = 0
<1>1. PICK s : s = tabs.tabs
  OBVIOUS
<1>2. PICK r : r = Append(tabs.tabs, t)
  OBVIOUS
<1>3. /\ Len(s) \in Nat /\ DOMAIN s = 1..Len(s)
      /\ \A i \in DOMAIN s : i \in DOMAIN r /\ r[i] = s[i]
      /\ r[Len(s) + 1] = t
      /\ \A i \in DOMAIN r : i \in DOMAIN s \/ i = Len(s) + 1
  BY <1>1, <1>2, ListAppend DEF Chain
<1>4. InOrder(s)
  BY <1>1 DEF Chain
<1>5. \A i \in DOMAIN s : \A k \in 1..(i - 1) : k \in DOMAIN s
  BY <1>3
<1>6. InOrder(r)
  BY <1>3, <1>4, <1>5 DEF InOrder
<1>7. (\E j \in DOMAIN modals : modals[j].kind = "offer") => \A i \in DOMAIN r : r[i].slot = 0
  BY <1>1, <1>3 DEF Chain, ChainAt, SlotOf
<1> QED
  BY <1>2, <1>6, <1>7

\* The chain's own goes last too, at its saved page.
Arrived(o) == [path |-> o.path, page |-> 0, slot |-> o.slot]
Placed(o) == [add_tab(tabs, Arrived(o)) EXCEPT !.tabs[add_tab(tabs, Arrived(o)).active].page = queue[index].page]

LEMMA OwnTab ==
    ASSUME Chain, NEW o
    PROVE  /\ IsTabs(Placed(o)) /\ IsList(Placed(o).tabs)
           /\ ~foul /\ restoring /\ Own(o) => Stands(Placed(o).tabs)
<1>1. PICK s : s = tabs.tabs
  OBVIOUS
<1>2. PICK r : r = Append(s, Arrived(o))
  OBVIOUS
<1>3. /\ IsList(r) /\ Len(s) \in Nat /\ DOMAIN s = 1..Len(s) /\ DOMAIN r = 1..Len(s) + 1
      /\ \A i \in DOMAIN s : i \in DOMAIN r /\ r[i] = s[i]
      /\ r[Len(s) + 1] = Arrived(o) /\ Len(s) + 1 \in DOMAIN r
      /\ \A i \in DOMAIN r : i \in DOMAIN s \/ i = Len(s) + 1
      /\ Len(s) + 1 \notin DOMAIN s
  BY <1>1, <1>2, ListAppend DEF Chain
<1>4. PICK p : p = queue[index].page
  OBVIOUS
<1>5. PICK n : n = Len(s) + 1
  OBVIOUS
<1>6. PICK q : q = [r EXCEPT ![n].page = p]
  OBVIOUS
<1>7. Placed(o) = [tabs |-> q, active |-> n]
  <2>1. PICK a : a = add_tab(tabs, Arrived(o))
    OBVIOUS
  <2>2. a = [tabs |-> r, active |-> n]
    BY <1>1, <1>2, <1>5, <2>1 DEF add_tab
  <2>3. Placed(o) = [a EXCEPT !.tabs[a.active].page = p]
    BY <1>4, <2>1 DEF Placed
  <2>4. [a EXCEPT !.tabs[n].page = p] = [tabs |-> q, active |-> n]
    BY <1>6, <2>2
  <2> QED
    BY <2>2, <2>3, <2>4
<1>8. Placed(o) = [tabs |-> Placed(o).tabs, active |-> Placed(o).active] /\ Placed(o).tabs = q
  BY <1>7
<1>9. /\ q = [i \in DOMAIN r |-> q[i]] /\ DOMAIN q = DOMAIN r
      /\ \A i \in DOMAIN s : q[i] = s[i]
      /\ q[n] = [r[n] EXCEPT !.page = p]
  BY <1>3, <1>5, <1>6
<1>10. q[n] = [path |-> o.path, page |-> p, slot |-> o.slot]
  BY <1>3, <1>5, <1>9 DEF Arrived
<1>13. \A i \in DOMAIN q : IsTab(q[i])
  <2>1. \A i \in DOMAIN s : IsTab(s[i])
    BY <1>1 DEF Chain, IsTabs
  <2>2. IsTab(q[n])
    BY <1>10 DEF IsTab
  <2> QED
    BY <1>3, <1>5, <1>9, <2>1, <2>2
<1>14. IsTabs(Placed(o))
  BY <1>8, <1>13 DEF IsTabs
<1>11. IsList(q)
  BY <1>3, <1>9, ListSame
<1>12. ASSUME ~foul, restoring, Own(o) PROVE Stands(q)
  <2>1. index \in Nat /\ o.slot = index
    BY <1>12, ListOf DEF Chain, ChainAt, IsList, Own
  <2>2. InOrder(s)
    BY <1>1, <1>12 DEF Chain
  <2>3. \A i \in DOMAIN s : \A k \in 1..(i - 1) : k \in DOMAIN s
    BY <1>3
  <2>4. \A k \in 1..(n - 1) : k \in DOMAIN s
    BY <1>3, <1>5
  <2>5. \A i \in DOMAIN s : s[i].slot \in Nat /\ s[i].slot <= index
    BY <1>12, <2>1, <2>2 DEF InOrder
  <2>6. index # 0 => \A i \in DOMAIN s : s[i].slot < index
    BY <1>12, <2>1, <2>2 DEF InOrder
  <2>7. ASSUME NEW i \in DOMAIN s, s[i].slot # 0
        PROVE  /\ s[i].slot <= index /\ s[i].page = queue[s[i].slot].page
               /\ \A k \in 1..(i - 1) : q[k].slot < s[i].slot
    BY <1>9, <1>12, <2>2, <2>3, <2>5, <2>7 DEF InOrder
  <2>8. /\ q[n].slot = index /\ q[n].page = queue[index].page
        /\ index # 0 => \A k \in 1..(n - 1) : q[k].slot < index
    BY <1>4, <1>9, <1>10, <2>1, <2>4, <2>6
  <2>9. \A i \in DOMAIN q : i \in DOMAIN s \/ i = n
    BY <1>3, <1>5, <1>9
  <2>10. ASSUME NEW i \in DOMAIN q, q[i].slot # 0
         PROVE  /\ q[i].slot <= index /\ q[i].page = queue[q[i].slot].page
                /\ \A k \in 1..(i - 1) : q[k].slot < q[i].slot
    <3>1. CASE i \in DOMAIN s
      <4>1. q[i] = s[i]
        BY <1>9, <3>1
      <4> QED
        BY <2>7, <2>10, <3>1, <4>1
    <3>2. CASE i = n
      <4>1. q[i].slot = index /\ index # 0 /\ index <= index
        BY <2>1, <2>8, <2>10, <3>2
      <4> QED
        BY <2>8, <3>2, <4>1
    <3> QED
      BY <2>9, <3>1, <3>2
  <2>11. \A i \in DOMAIN q : q[i].slot \in Nat
    <3>1. ASSUME NEW i \in DOMAIN s PROVE q[i].slot \in Nat
      BY <1>9, <2>5
    <3>2. q[n].slot \in Nat
      BY <2>1, <2>8
    <3> QED
      BY <2>9, <3>1, <3>2
  <2> QED
    BY <2>10, <2>11 DEF Stands
<1> QED
  BY <1>8, <1>11, <1>12, <1>14

\* TabArrives, of the chain's document or of another.
LEMMA Arrives ==
    ASSUME Chain, NEW o, NEW mine, NEW os, TabArrives(o, mine, os), NoNewOffer(modals'),
           ~foul' => /\ ~foul
                     /\ IF mine /\ ConsumesSlot(o.path) THEN Own(o) /\ NoneOfIts(os, modals')
                        ELSE Foreign(o) /\ Apart(os, modals')
    PROVE  Onward
<1>1. CASE mine /\ ConsumesSlot(o.path)
  <2>1. restoring /\ restore_open_next(Placed(o), os)
    BY <1>1 DEF TabArrives, ConsumesSlot, Placed, Arrived
  <2>2. ~foul' => NoneOfIts(os, modals') /\ Stands(Placed(o).tabs)
    BY <1>1, <2>1, OwnTab
  <2> QED
    BY <2>1, <2>2, OwnTab, SlotDone
<1>2. CASE ~(mine /\ ConsumesSlot(o.path))
  <2>1. tabs' = add_tab(tabs, Arrived(o)) /\ opens' = os /\ UNCHANGED restore
    BY <1>2 DEF TabArrives, Arrived
  <2>2. tabs' = [tabs |-> tabs'.tabs, active |-> tabs'.active] /\ tabs'.tabs = Append(tabs.tabs, Arrived(o))
    BY <2>1 DEF add_tab
  <2>3. IsList(tabs'.tabs)
    BY <2>2, ListAppend DEF Chain
  <2>4. ~foul' => ~foul /\ Foreign(o) /\ Apart(opens', modals')
    BY <1>2, <2>1
  <2>5. ~foul' => Arrived(o).slot = 0
    BY <2>4 DEF Foreign, Arrived
  <2>6. ~foul' => InOrder(tabs'.tabs)
    BY <2>2, <2>4, <2>5, OneMoreTab
  <2>7. ~foul' /\ (\E j \in DOMAIN modals : modals[j].kind = "offer")
             => \A i \in DOMAIN tabs'.tabs : tabs'.tabs[i].slot = 0
    BY <2>2, <2>4, <2>5, OneMoreTab
  <2>8. IsTabs(tabs')
    <3>1. IsTab(Arrived(o)) /\ \A i \in DOMAIN tabs.tabs : IsTab(tabs.tabs[i])
      BY DEF Chain, IsTabs, IsTab, Arrived
    <3>2. PICK s, t : s = tabs.tabs /\ t = Arrived(o)
      OBVIOUS
    <3>3. \A i \in DOMAIN Append(s, t) : IsTab(Append(s, t)[i])
      BY <3>1, <3>2, ListAppend DEF Chain
    <3> QED
      BY <2>2, <3>2, <3>3 DEF IsTabs
  <2> QED
    BY <2>1, <2>3, <2>4, <2>6, <2>7, <2>8, WaitsOn
<1> QED
  BY <1>1, <1>2

-----------------------------------------------------------------------------
(* The actions.                                                            *)

\* The invariant, without what the chain has nothing to do with.
LEMMA InvChain == ChainInv => Chain
BY DEF ChainInv, Chain, Lists

\* An action of a running process that does not touch the file.
LEMMA Carried ==
    ASSUME ChainInv, Onward, IsList(modals'), up', UNCHANGED <<file, saving>>
    PROVE  ChainInv'
<1>1. Lists'
  BY DEF ChainInv, Lists, Onward
<1> QED
  BY <1>1 DEF ChainInv, Onward, Empty

\* One more dialog, which is none of the chain's.
LEMMA OneMoreDialog ==
    ASSUME Chain, NEW m, m.kind # "offer", NEW ms, ms = Append(modals, m)
    PROVE  /\ NoNewOffer(ms) /\ IsList(ms)
           /\ Aside(m) => \A o : Foreign(o) => Apart(opens \ {o}, ms)
<1>1. /\ IsList(ms) /\ Len(modals) \in Nat /\ DOMAIN modals = 1..Len(modals)
      /\ \A i \in DOMAIN modals : i \in DOMAIN ms /\ ms[i] = modals[i]
      /\ ms[Len(modals) + 1] = m
      /\ \A i \in DOMAIN ms : i \in DOMAIN modals \/ i = Len(modals) + 1
  BY ListAppend DEF Chain
<1>2. NoNewOffer(ms)
  BY <1>1 DEF NoNewOffer
<1>3. ASSUME Aside(m), NEW o, Foreign(o) PROVE Apart(opens \ {o}, ms)
  BY <1>1, <1>3 DEF Apart
<1> QED
  BY <1>1, <1>2, <1>3

\* A document of a reader's that has come leaves the chain alone.
LEMMA SameDialogs ==
    /\ NoNewOffer(modals)
    /\ \A o : Foreign(o) => Apart(opens \ {o}, modals)
BY DEF NoNewOffer, Apart

\* A box about a reader's document.
LEMMA Boxed ==
    ASSUME Chain, NEW o, ShowsBox(opens \ {o}), foul' = foul, ~foul => Foreign(o)
    PROVE  Onward /\ IsList(modals')
<1>1. PICK m : m = [kind |-> "box"]
  OBVIOUS
<1>2. m.kind # "offer" /\ Aside(m)
  BY <1>1 DEF Aside
<1>3. modals' = Append(modals, m) /\ opens' = opens \ {o} /\ tabs' = tabs /\ UNCHANGED restore
  BY <1>1 DEF ShowsBox
<1>4. NoNewOffer(modals') /\ IsList(modals') /\ (~foul => Apart(opens', modals'))
  BY <1>2, <1>3, OneMoreDialog
<1>5. ~foul' => ~foul /\ Apart(opens', modals') /\ InOrder(tabs'.tabs)
  BY <1>3, <1>4 DEF Chain
<1>6. ~foul' /\ (\E j \in DOMAIN modals : modals[j].kind = "offer")
             => \A i \in DOMAIN tabs'.tabs : tabs'.tabs[i].slot = 0
  BY <1>3 DEF Chain, ChainAt, SlotOf
<1>7. IsTabs(tabs') /\ IsList(tabs'.tabs)
  BY <1>3 DEF Chain
<1> QED
  BY <1>3, <1>4, <1>5, <1>6, <1>7, WaitsOn

\* The code's tests tell the chain's document from the others.
LEMMA TheChainsOwn ==
    ASSUME Chain, ~foul, NEW o \in opens
    PROVE  /\ restoring /\ o.path = pending => Own(o) /\ NoneOfIts(opens \ {o}, modals)
           /\ ~(restoring /\ o.path = pending) => Foreign(o)
           /\ restoring /\ o.slot = index => o.path = pending
<1>1. restoring => index # 0
  BY ListOf DEF Chain, ChainAt, IsList
<1>2. ChainAt /\ OnTheWay
  BY DEF Chain
<1>3. restoring /\ o.path = pending => Own(o) /\ NoneOfIts(opens \ {o}, modals)
  BY <1>2, OwnOpens DEF Own
<1>4. ~(restoring /\ o.path = pending) => Foreign(o)
  BY <1>2, OthersAreForeign
<1> QED
  BY <1>1, <1>3, <1>4 DEF Foreign

\* What a worker may post, one by one.
LEMMA ArrivedInOrder ==
    ASSUME Chain, NEW o \in opens, WM_USER_OPEN_OK(o)
    PROVE  Onward /\ IsList(modals')
<1>1. TabArrives(o, TRUE, opens \ {o}) /\ modals' = modals /\ foul' = foul
  BY DEF WM_USER_OPEN_OK
<1>2. restoring /\ o.path = pending <=> ConsumesSlot(o.path)
  BY ListOf DEF Chain, ChainAt, IsList, ConsumesSlot
<1>3. ~foul => IF ConsumesSlot(o.path) THEN Own(o) /\ NoneOfIts(opens \ {o}, modals)
               ELSE Foreign(o) /\ Apart(opens \ {o}, modals)
  BY <1>2, TheChainsOwn, SameDialogs
<1> QED
  BY <1>1, <1>3, Arrives, SameDialogs DEF Chain

LEMMA FailedInOrder ==
    ASSUME Chain, NEW o \in opens, WM_USER_OPEN_FAILED(o)
    PROVE  Onward /\ IsList(modals')
<1>1. CASE restoring /\ o.path = pending
  <2>1. restore_on_tab_failed(opens \ {o}) /\ modals' = modals /\ foul' = foul
    BY <1>1 DEF WM_USER_OPEN_FAILED
  <2> QED
    BY <1>1, <2>1, TheChainsOwn, SameDialogs, SlotFails DEF Chain
<1>2. CASE ~(restoring /\ o.path = pending)
  <2>1. ShowsBox(opens \ {o}) /\ foul' = foul
    BY <1>2 DEF WM_USER_OPEN_FAILED
  <2> QED
    BY <1>2, <2>1, TheChainsOwn, Boxed
<1> QED
  BY <1>1, <1>2

LEMMA UnnamedInOrder ==
    ASSUME Chain, NEW o \in opens, WM_USER_OPEN_FAILED_unnamed(o)
    PROVE  Onward /\ IsList(modals')
<1>1. CASE restoring
  <2>1. /\ restore_on_tab_failed(opens \ {o}) /\ modals' = modals
        /\ ~foul' => ~foul /\ o.slot = index
    BY <1>1 DEF WM_USER_OPEN_FAILED_unnamed
  <2>2. ~foul' => ~foul /\ NoneOfIts(opens \ {o}, modals')
    BY <1>1, <2>1, TheChainsOwn
  <2> QED
    BY <1>1, <2>1, <2>2, SameDialogs, SlotFails DEF Chain
<1>2. CASE ~restoring
  <2>1. ShowsBox(opens \ {o}) /\ foul' = foul
    BY <1>2 DEF WM_USER_OPEN_FAILED_unnamed
  <2> QED
    BY <1>2, <2>1, TheChainsOwn, Boxed
<1> QED
  BY <1>1, <1>2

LEMMA PromptInOrder ==
    ASSUME Chain, NEW o \in opens, WM_USER_PASSWORD_PROMPT(o)
    PROVE  Onward /\ IsList(modals')
<1>1. PICK m : m = [kind |-> "prompt", open |-> o, mine |-> IsRestoreTab(o)]
  OBVIOUS
<1>2. PICK ms : ms = Append(modals, m)
  OBVIOUS
<1>3. modals' = ms /\ opens' = opens \ {o} /\ tabs' = tabs /\ foul' = foul /\ UNCHANGED restore
  BY <1>1, <1>2 DEF WM_USER_PASSWORD_PROMPT
<1>4. m.kind # "offer" /\ m.kind = "prompt" /\ m.open = o
  BY <1>1
<1>5. m.mine <=> restoring /\ o.path = pending
  BY <1>1 DEF IsRestoreTab
<1>6. NoNewOffer(ms) /\ IsList(ms) /\ (Aside(m) => \A x : Foreign(x) => Apart(opens \ {x}, ms))
  BY <1>2, <1>4, OneMoreDialog
<1>7. /\ IsTabs(tabs') /\ IsList(tabs'.tabs) /\ (~foul => InOrder(tabs'.tabs))
      /\ ~foul' /\ (\E j \in DOMAIN modals : modals[j].kind = "offer")
             => \A i \in DOMAIN tabs'.tabs : tabs'.tabs[i].slot = 0
  BY <1>3 DEF Chain, ChainAt, SlotOf
<1>8. CASE foul \/ ~m.mine
  <2>1. ~foul' => ~foul /\ Apart(opens', modals') /\ InOrder(tabs'.tabs)
    BY <1>3, <1>4, <1>5, <1>6, <1>7, <1>8, TheChainsOwn DEF Aside
  <2> QED
    BY <1>3, <1>6, <1>7, <2>1, WaitsOn
<1>9. CASE ~foul /\ m.mine
  <2>1. restoring' = restoring /\ index' = index /\ pending' = pending /\ queue' = queue
    BY <1>3 DEF restore
  <2>2. restoring /\ Own(o) /\ NoneOfIts(opens \ {o}, modals)
    BY <1>5, <1>9, TheChainsOwn
  <2>3. PICK k : /\ k \in DOMAIN ms /\ ms[k] = m
                 /\ \A i \in DOMAIN ms \ {k} : i \in DOMAIN modals /\ ms[i] = modals[i]
    BY <1>2, ListAppend DEF Chain
  <2>4. (\A i \in DOMAIN ms \ {k} : Aside(ms[i])) /\ \A q \in opens' : Foreign(q)
    BY <1>3, <2>2, <2>3 DEF NoneOfIts
  <2>5. Prompting(k)'
    BY <1>3, <1>4, <1>9, <2>1, <2>2, <2>3, <2>4 DEF Prompting, Own, Foreign, Aside
  <2>6. OnTheWay'
    BY <1>3, <2>1, <2>2, <2>3, <2>5 DEF OnTheWay
  <2>7. InOrder(tabs.tabs)'
    BY <1>3, <1>7, <1>9, <2>1 DEF InOrder
  <2>8. ChainAt'
    BY <1>3, <1>6, <2>1, <2>2 DEF Chain, ChainAt, NoNewOffer
  <2> QED
    BY <1>3, <1>7, <2>1, <1>6, <2>6, <2>7, <2>8 DEF Onward, Chain
<1> QED
  BY <1>3, <1>6, <1>8, <1>9

\* Any of them.
LEMMA OpenEndsInOrder ==
    ASSUME ChainInv, NEW id \in 1..MaxOpens, OpenEnds(id)
    PROVE  ChainInv'
<1>1. PICK o \in opens : \/ WM_USER_OPEN_OK(o)
                         \/ WM_USER_OPEN_FAILED(o)
                         \/ WM_USER_OPEN_FAILED_unnamed(o)
                         \/ WM_USER_PASSWORD_PROMPT(o)
  BY DEF OpenEnds
<1>2. up' /\ UNCHANGED <<file, saving>>
  BY DEF OpenEnds, Dispatching, disk
<1>3. Onward /\ IsList(modals')
  BY <1>1, InvChain, ArrivedInOrder, FailedInOrder, UnnamedInOrder, PromptInOrder
<1> QED
  BY <1>2, <1>3, Carried

-----------------------------------------------------------------------------
(* Answers.                                                                *)

\* The last dialog ends, and may leave a box behind.
LEMMA TopGone ==
    ASSUME Chain, modals # <<>>, NEW m, m.kind = "box", NEW ms,
           ms = Front(modals) \/ ms = Append(Front(modals), m)
    PROVE  /\ IsList(ms) /\ NoNewOffer(ms)
           /\ Aside(Last(modals)) => Apart(opens, ms)
           /\ Last(modals).kind = "prompt" /\ ~foul =>
                /\ ~Last(modals).mine => Foreign(Last(modals).open) /\ Apart(opens, ms)
                /\ Last(modals).mine => restoring /\ Own(Last(modals).open) /\ NoneOfIts(opens, ms)
<1>1. PICK k : k = Len(modals)
  OBVIOUS
<1>2. PICK f : f = Front(modals)
  OBVIOUS
<1>3. /\ IsList(f) /\ k \in DOMAIN modals /\ Last(modals) = modals[k]
      /\ \A i \in DOMAIN f : i \in DOMAIN modals \ {k} /\ f[i] = modals[i]
      /\ \A i \in DOMAIN modals \ {k} : i \in DOMAIN f
  BY <1>1, <1>2, ListFront DEF Chain
<1>4. m.kind # "offer" /\ Aside(m)
  BY DEF Aside
<1>5. /\ IsList(ms)
      /\ \A i \in DOMAIN ms : (i \in DOMAIN modals \ {k} /\ ms[i] = modals[i])
                                \/ (ms[i].kind # "offer" /\ Aside(ms[i]))
      /\ \A i \in DOMAIN modals \ {k} : i \in DOMAIN ms /\ ms[i] = modals[i]
  <2>1. CASE ms = f
    BY <1>3, <2>1
  <2>2. CASE ms = Append(f, m)
    <3>1. /\ IsList(ms)
          /\ \A i \in DOMAIN f : i \in DOMAIN ms /\ ms[i] = f[i]
          /\ \A i \in DOMAIN ms : i \in DOMAIN f \/ ms[i] = m
      BY <1>3, <2>2, ListAppend
    <3> QED
      BY <1>3, <1>4, <3>1
  <2> QED
    BY <1>2, <2>1, <2>2
<1>6. NoNewOffer(ms)
  BY <1>5 DEF NoNewOffer
<1>7. Aside(modals[k]) => Apart(opens, ms)
  BY <1>5 DEF Apart
<1>8. ASSUME modals[k].kind = "prompt", ~foul
      PROVE  /\ ~modals[k].mine => Foreign(modals[k].open) /\ Apart(opens, ms)
             /\ modals[k].mine => restoring /\ Own(modals[k].open) /\ NoneOfIts(opens, ms)
  <2>1. ChainAt /\ OnTheWay
    BY <1>8 DEF Chain
  <2>2. /\ modals[k].mine => /\ restoring /\ Own(modals[k].open)
                             /\ \A q \in opens : Foreign(q)
                             /\ \A i \in DOMAIN modals \ {k} : Aside(modals[i])
        /\ ~modals[k].mine => Aside(modals[k])
    BY <1>3, <1>8, <2>1, OwnPrompts
  <2>3. ~modals[k].mine => Foreign(modals[k].open)
    BY <1>8, <2>2 DEF Aside
  <2>4. modals[k].mine => NoneOfIts(opens, ms)
    BY <1>5, <2>2 DEF NoneOfIts
  <2> QED
    BY <1>7, <2>2, <2>3, <2>4
<1> QED
  BY <1>3, <1>5, <1>6, <1>7, <1>8

\* The tabs as they are, and the chain where it was.
LEMMA NothingMoves ==
    ASSUME Chain, UNCHANGED <<tabs, restore>>, foul' = foul, NoNewOffer(modals'), ~foul => Apart(opens', modals')
    PROVE  Onward
<1>1. tabs' = tabs /\ UNCHANGED restore
  OBVIOUS
<1>2. ~foul' => ~foul /\ Apart(opens', modals') /\ InOrder(tabs'.tabs)
  BY <1>1 DEF Chain
<1>3. ~foul' /\ (\E j \in DOMAIN modals : modals[j].kind = "offer")
             => \A i \in DOMAIN tabs'.tabs : tabs'.tabs[i].slot = 0
  BY <1>1 DEF Chain, ChainAt, SlotOf
<1>4. IsTabs(tabs') /\ IsList(tabs'.tabs)
  BY <1>1 DEF Chain
<1> QED
  BY <1>1, <1>2, <1>3, <1>4, WaitsOn

\* A prompt that ends without a tab.
LEMMA PromptEnds ==
    ASSUME Chain, modals # <<>>, Last(modals).kind = "prompt", foul' = foul,
           modals' = Front(modals) \/ modals' = Append(Front(modals), [kind |-> "box"]),
           IF Last(modals).mine THEN restore_on_tab_failed(opens)
           ELSE UNCHANGED <<opens, tabs, restore, timer, deferred>>
    PROVE  Onward /\ IsList(modals')
<1>1. PICK b : b = [kind |-> "box"]
  OBVIOUS
<1>2. b.kind = "box"
  BY <1>1
<1>3. /\ IsList(modals') /\ NoNewOffer(modals')
      /\ ~foul => /\ ~Last(modals).mine => Apart(opens, modals')
                  /\ Last(modals).mine => restoring /\ NoneOfIts(opens, modals')
  BY <1>1, <1>2, TopGone
<1>4. CASE Last(modals).mine /\ restoring
  BY <1>3, <1>4, SlotFails
<1>5. CASE ~(Last(modals).mine /\ restoring)
  <2>1. UNCHANGED <<opens, tabs, restore>>
    BY <1>5 DEF restore_on_tab_failed
  <2> QED
    BY <1>3, <1>5, <2>1, NothingMoves
<1> QED
  BY <1>3, <1>4, <1>5

\* What a reader may answer, one by one.
LEMMA RefusedInOrder ==
    ASSUME ChainInv, PasswordRefused
    PROVE  ChainInv'
<1>1. /\ modals # <<>> /\ Last(modals).kind = "prompt" /\ foul' = foul
      /\ up' /\ UNCHANGED <<file, saving>>
  BY DEF PasswordRefused, Top, Dispatching, disk
<1>2. /\ modals' = Front(modals) \/ modals' = Append(Front(modals), [kind |-> "box"])
      /\ IF Last(modals).mine THEN restore_on_tab_failed(opens)
         ELSE UNCHANGED <<opens, tabs, restore, timer, deferred>>
  BY Zenon DEF PasswordRefused
<1> QED
  BY <1>1, <1>2, InvChain, PromptEnds, Carried

LEMMA ThrowInOrder ==
    ASSUME ChainInv, PasswordThenThrow
    PROVE  ChainInv'
<1>1. /\ modals # <<>> /\ Last(modals).kind = "prompt" /\ foul' = foul
      /\ up' /\ UNCHANGED <<file, saving>>
  BY DEF PasswordThenThrow, Top, Dispatching, disk
<1>2. /\ modals' = Front(modals) \/ modals' = Append(Front(modals), [kind |-> "box"])
      /\ IF Last(modals).mine THEN restore_on_tab_failed(opens)
         ELSE UNCHANGED <<opens, tabs, restore, timer, deferred>>
  BY Zenon DEF PasswordThenThrow
<1> QED
  BY <1>1, <1>2, InvChain, PromptEnds, Carried

LEMMA AcceptedInOrder ==
    ASSUME ChainInv, PasswordAccepted
    PROVE  ChainInv'
<1>1. /\ modals # <<>> /\ Last(modals).kind = "prompt" /\ foul' = foul
      /\ up' /\ UNCHANGED <<file, saving>>
      /\ TabArrives(Last(modals).open, Last(modals).mine, opens)
      /\ modals' = Front(modals)
  BY DEF PasswordAccepted, Top, Dispatching, disk
<1>2. PICK b : b = [kind |-> "box"]
  OBVIOUS
<1>3. Chain /\ b.kind = "box"
  BY <1>2, InvChain
<1>4. /\ IsList(modals') /\ NoNewOffer(modals')
      /\ ~foul => /\ ~Last(modals).mine => Foreign(Last(modals).open) /\ Apart(opens, modals')
                  /\ Last(modals).mine => restoring /\ Own(Last(modals).open) /\ NoneOfIts(opens, modals')
  BY <1>1, <1>3, TopGone
<1>5. restoring /\ Own(Last(modals).open) => ConsumesSlot(Last(modals).open.path)
  BY <1>3, ListOf DEF Chain, ChainAt, IsList, Own, ConsumesSlot
<1>6. Onward
  BY <1>1, <1>3, <1>4, <1>5, Arrives
<1> QED
  BY <1>1, <1>4, <1>6, Carried

LEMMA DismissedInOrder ==
    ASSUME ChainInv, BoxDismissed
    PROVE  ChainInv'
<1>1. /\ modals # <<>> /\ Last(modals).kind = "box" /\ foul' = foul
      /\ up' /\ UNCHANGED <<file, saving>> /\ UNCHANGED <<tabs, restore>> /\ opens' = opens
      /\ modals' = Front(modals)
  BY DEF BoxDismissed, Top, Dispatching, disk
<1>2. PICK b : b = [kind |-> "box"]
  OBVIOUS
<1>3. Chain /\ b.kind = "box" /\ Aside(Last(modals))
  BY <1>1, <1>2, InvChain DEF Aside
<1>4. IsList(modals') /\ NoNewOffer(modals') /\ Apart(opens, modals')
  BY <1>1, <1>3, TopGone
<1> QED
  BY <1>1, <1>3, <1>4, NothingMoves, Carried

LEMMA DeclinedInOrder ==
    ASSUME ChainInv, OfferDeclined
    PROVE  ChainInv'
<1>1. /\ modals # <<>> /\ Last(modals).kind = "offer" /\ foul' = foul
      /\ up' /\ UNCHANGED <<file, saving>> /\ tabs' = tabs
      /\ modals' = <<>> /\ queue' = <<>> /\ restoring' = restoring
      /\ opens' = opens \cup InFlight({deferred} \ {NoPath}, 0)
  BY DEF OfferDeclined, Top, Dispatching, disk, open_deferred
<1>2. Chain
  BY InvChain
<1>3. ~restoring
  BY <1>1, <1>2, ListFront DEF Chain, ChainAt
<1>4. IsList(modals') /\ IsList(queue') /\ DOMAIN modals' = {} /\ DOMAIN queue' = {}
  BY <1>1, EmptyList
<1>5. ChainAt'
  BY <1>1, <1>3, <1>4 DEF ChainAt
<1>6. ASSUME ~foul PROVE OnTheWay' /\ InOrder(tabs.tabs)'
  <2>1. \A o \in opens' : o.slot = 0
    BY <1>1, <1>2, <1>3, <1>6, InFlightIs DEF Chain, OnTheWay, Foreign
  <2>2. OnTheWay'
    BY <1>1, <1>3, <1>4, <2>1 DEF OnTheWay, Foreign
  <2>3. InOrder(tabs.tabs)'
    BY <1>1, <1>2, <1>3, <1>6 DEF Chain, InOrder
  <2> QED
    BY <2>2, <2>3
<1>7. Onward
  BY <1>1, <1>2, <1>4, <1>5, <1>6 DEF Onward, Chain
<1> QED
  BY <1>1, <1>4, <1>7, Carried

LEMMA AgreedInOrder ==
    ASSUME ChainInv, OfferAccepted
    PROVE  ChainInv'
<1>1. /\ modals # <<>> /\ Last(modals).kind = "offer" /\ foul' = foul
      /\ up' /\ UNCHANGED <<file, saving>> /\ tabs' = tabs
      /\ modals' = <<>> /\ queue' = queue
      /\ restoring' = TRUE /\ index' = 1 /\ pending' = queue[1].path
      /\ opens' = opens \cup InFlight({queue[1].path}, 1)
  BY DEF OfferAccepted, Top, Dispatching, disk
<1>2. Chain
  BY InvChain
<1>3. /\ ~restoring /\ queue # <<>>
      /\ ~foul => \A i \in DOMAIN tabs.tabs : tabs.tabs[i].slot = 0
  BY <1>1, <1>2, ListFront DEF Chain, ChainAt, SlotOf
<1>4. 1 \in DOMAIN queue
  BY <1>2, <1>3, ListOf, EmptySeq DEF Chain, IsList
<1>5. IsList(modals') /\ DOMAIN modals' = {}
  BY <1>1, EmptyList
<1>6. ChainAt'
  BY <1>1, <1>4, <1>5 DEF ChainAt
<1>7. ASSUME ~foul PROVE OnTheWay'
  <2>1. PICK n, p : n = 1 /\ p = queue[1].path
    OBVIOUS
  <2>2. PICK x : InFlight({p}, n) = {x} /\ x.path = p /\ x.slot = n
    BY ONLY OneInFlight, ZenonT(40)
  <2>3. x.slot = index' /\ x.path = pending' /\ opens' = opens \cup {x}
    BY ONLY <1>1, <2>1, <2>2
  <2>4. \A q \in opens : Foreign(q)
    BY <1>2, <1>3, <1>7 DEF Chain, OnTheWay
  <2>5. Opening(x)'
    BY <1>1, <1>5, <2>3, <2>4 DEF Opening, Own, Foreign
  <2> QED
    BY <1>1, <2>3, <2>5 DEF OnTheWay
<1>8. ~foul => InOrder(tabs.tabs)'
  BY <1>1, <1>3 DEF InOrder
<1>9. Onward
  BY <1>1, <1>2, <1>6, <1>7, <1>8 DEF Onward, Chain
<1> QED
  BY <1>1, <1>5, <1>9, Carried

\* Any of them.
LEMMA AnswersInOrder ==
    ASSUME ChainInv, Answer
    PROVE  ChainInv'
BY RefusedInOrder, ThrowInOrder, AcceptedInOrder, DismissedInOrder, DeclinedInOrder, AgreedInOrder DEF Answer

-----------------------------------------------------------------------------
(* The reader, the file, and the life of the process.                      *)

\* The chain stays as it is, and the dialogs.
LEMMA Left ==
    ASSUME ChainInv, up', UNCHANGED <<modals, restore, file>>,
           saving' = [stage |-> saving'.stage, what |-> saving'.what, why |-> saving'.why],
           IsList(saving'.what.list.tabs),
           IsTabs(tabs'), IsList(tabs'.tabs),
           ~foul' => ~foul /\ Apart(opens', modals) /\ InOrder(tabs'.tabs),
           ~foul' /\ (\A i \in DOMAIN tabs.tabs : tabs.tabs[i].slot = 0)
             => \A i \in DOMAIN tabs'.tabs : tabs'.tabs[i].slot = 0
    PROVE  ChainInv'
<1>1. Chain
  BY InvChain
<1>2. UNCHANGED restore /\ modals' = modals /\ file' = file
  OBVIOUS
<1>3. ~foul' /\ (\E j \in DOMAIN modals : modals[j].kind = "offer")
             => \A i \in DOMAIN tabs'.tabs : tabs'.tabs[i].slot = 0
  BY <1>1 DEF Chain, ChainAt, SlotOf
<1>4. Onward
  BY <1>1, <1>2, <1>3, SameDialogs, WaitsOn
<1>5. Lists'
  BY <1>1, <1>2, <1>4 DEF ChainInv, Chain, Lists, Onward
<1> QED
  BY <1>4, <1>5 DEF ChainInv, Onward, Empty

\* The save in progress, when a step leaves it.
LEMMA SavingSame ==
    ASSUME ChainInv
    PROVE  /\ saving = [stage |-> saving.stage, what |-> saving.what, why |-> saving.why]
           /\ IsList(saving.what.list.tabs)
BY DEF ChainInv, Lists

\* A document asked for, from here or by a second process.
LEMMA AskedInOrder ==
    ASSUME ChainInv, NEW p \in Paths, open_tab_async(p)
    PROVE  ChainInv'
<1>1. /\ up' /\ UNCHANGED <<modals, restore, file>> /\ saving' = saving /\ tabs' = tabs
      /\ opens' = opens \cup InFlight({p}, 0)
      /\ foul' = (foul \/ \E n \in DOMAIN queue : queue[n].path = p)
  BY DEF open_tab_async, Dispatching, disk
<1>2. PICK x : InFlight({p}, 0) = {x} /\ x.path = p /\ x.slot = 0
  BY ONLY OneInFlight, ZenonT(40)
<1>3. ~foul' => ~foul /\ Foreign(x)
  BY <1>1, <1>2 DEF Foreign
<1>4. ~foul' => Apart(opens', modals)
  BY <1>1, <1>2, <1>3 DEF Apart
<1>5. IsTabs(tabs') /\ IsList(tabs'.tabs) /\ (~foul => InOrder(tabs'.tabs))
  BY <1>1, InvChain DEF Chain
<1> QED
  BY <1>1, <1>3, <1>4, <1>5, SavingSame, Left

\* A tab that goes leaves the others in their order.
LEMMA FewerInOrder ==
    ASSUME Chain, NEW n \in DOMAIN tabs.tabs
    PROVE  /\ IsList(RemoveAt(tabs.tabs, n))
           /\ \A i \in DOMAIN RemoveAt(tabs.tabs, n) : IsTab(RemoveAt(tabs.tabs, n)[i])
           /\ InOrder(tabs.tabs) => InOrder(RemoveAt(tabs.tabs, n))
           /\ (\A i \in DOMAIN tabs.tabs : tabs.tabs[i].slot = 0)
                => \A i \in DOMAIN RemoveAt(tabs.tabs, n) : RemoveAt(tabs.tabs, n)[i].slot = 0
<1>1. PICK s : s = tabs.tabs
  OBVIOUS
<1>2. PICK r : r = RemoveAt(s, n)
  OBVIOUS
<1>3. /\ IsList(r) /\ n \in Nat /\ IsList(s)
      /\ \A i \in DOMAIN r :
           /\ i \in Nat /\ i >= 1
           /\ IF i < n THEN i \in DOMAIN s /\ r[i] = s[i] ELSE i + 1 \in DOMAIN s /\ r[i] = s[i + 1]
  BY <1>1, <1>2, ListRemove DEF Chain
<1>4. \A i \in DOMAIN r : \A k \in 1..(i - 1) : k \in DOMAIN r
  BY <1>3, ListOf DEF IsList
<1>5. ASSUME InOrder(s), NEW i \in DOMAIN r
      PROVE  /\ r[i].slot \in Nat
             /\ r[i].slot # 0 =>
                  /\ restoring => r[i].slot < index /\ r[i].page = queue[r[i].slot].page
                  /\ \A k \in 1..(i - 1) : r[k].slot < r[i].slot
  <2>1. PICK j \in DOMAIN s : /\ j = IF i < n THEN i ELSE i + 1
                              /\ r[i] = s[j]
    BY <1>3
  <2>2. ASSUME NEW k \in 1..(i - 1)
        PROVE  \E l \in 1..(j - 1) : r[k] = s[l]
    <3>1. k \in DOMAIN r /\ i \in Nat /\ k \in Nat /\ k >= 1 /\ k < i
      BY <1>3, <1>4
    <3>2. CASE k < n
      <4>1. r[k] = s[k] /\ k \in 1..(j - 1)
        BY <1>3, <2>1, <3>1, <3>2
      <4> QED
        BY <4>1
    <3>3. CASE ~(k < n)
      <4>1. r[k] = s[k + 1] /\ k + 1 \in 1..(j - 1)
        BY <1>3, <2>1, <3>1, <3>3
      <4> QED
        BY <4>1
    <3> QED
      BY <3>2, <3>3
  <2>3. /\ s[j].slot \in Nat
        /\ s[j].slot # 0 =>
             /\ restoring => s[j].slot < index /\ s[j].page = queue[s[j].slot].page
             /\ \A l \in 1..(j - 1) : s[l].slot < s[j].slot
    BY <1>5 DEF InOrder
  <2> QED
    BY <2>1, <2>2, <2>3
<1>6. InOrder(s) => InOrder(r)
  BY <1>5 DEF InOrder
<1>7. (\A i \in DOMAIN s : s[i].slot = 0) => \A i \in DOMAIN r : r[i].slot = 0
  BY <1>3
<1>8. \A i \in DOMAIN s : IsTab(s[i])
  BY <1>1 DEF Chain, IsTabs
<1>9. \A i \in DOMAIN r : IsTab(r[i])
  BY <1>3, <1>8
<1> QED
  BY <1>1, <1>2, <1>3, <1>6, <1>7, <1>9

\* So does a step that opens nothing.
LEMMA SameOpens == Apart(opens, modals)
BY DEF Apart

\* Closing and switching.
LEMMA ClosedInOrder ==
    ASSUME ChainInv, NEW n \in DOMAIN tabs.tabs, on_tab_close_request(n)
    PROVE  ChainInv'
<1>1. /\ up' /\ UNCHANGED <<modals, restore, file>> /\ saving' = saving /\ opens' = opens
      /\ foul' = foul /\ tabs' = remove(tabs, n)
  BY DEF on_tab_close_request, Dispatching, disk, schedule_session_save
<1>2. tabs' = [tabs |-> tabs'.tabs, active |-> tabs'.active] /\ tabs'.tabs = RemoveAt(tabs.tabs, n)
  BY <1>1 DEF remove
<1>3. Chain
  BY InvChain
<1>4. /\ IsList(tabs'.tabs)
      /\ ~foul => InOrder(tabs'.tabs)
      /\ (\A i \in DOMAIN tabs.tabs : tabs.tabs[i].slot = 0)
           => \A i \in DOMAIN tabs'.tabs : tabs'.tabs[i].slot = 0
  BY <1>2, <1>3, FewerInOrder DEF Chain
<1>5. IsTabs(tabs')
  BY <1>2, <1>3, FewerInOrder DEF IsTabs
<1> QED
  BY <1>1, <1>4, <1>5, SavingSame, SameOpens, Left

LEMMA SwitchedInOrder ==
    ASSUME ChainInv, NEW n \in DOMAIN tabs.tabs, on_tab_switch(n)
    PROVE  ChainInv'
<1>1. /\ up' /\ UNCHANGED <<modals, restore, file>> /\ saving' = saving /\ opens' = opens
      /\ foul' = foul /\ tabs' = set_active(tabs, n)
  BY DEF on_tab_switch, Dispatching, disk, schedule_session_save
<1>2. Chain
  BY InvChain
<1>3. IsTabs(tabs') /\ tabs'.tabs = tabs.tabs
  BY <1>1, <1>2 DEF Chain, set_active, IsTabs
<1> QED
  BY <1>1, <1>2, <1>3, SavingSame, SameOpens, Left DEF Chain

\* A tab no longer counts as the chain's when the reader turns its page.
LEMMA TurnedInOrder ==
    ASSUME ChainInv, PageTurned
    PROVE  ChainInv'
<1>1. /\ up' /\ UNCHANGED <<modals, restore, file>> /\ saving' = saving /\ opens' = opens
      /\ foul' = foul
      /\ tabs' = [tabs EXCEPT !.tabs[tabs.active] = [@ EXCEPT !.page = 0, !.slot = 0]]
  BY DEF PageTurned, Dispatching, disk, schedule_session_save
<1>2. Chain
  BY InvChain
<1>3. PICK s, a : s = tabs.tabs /\ a = tabs.active
  OBVIOUS
<1>4. PICK t : t = [s[a] EXCEPT !.page = 0, !.slot = 0]
  OBVIOUS
<1>5. PICK r : r = [s EXCEPT ![a] = t]
  OBVIOUS
<1>6. tabs = [tabs |-> s, active |-> a] /\ IsList(s)
  BY <1>2, <1>3 DEF Chain, IsTabs
<1>7. tabs' = [tabs |-> r, active |-> a]
  BY <1>1, <1>3, <1>4, <1>5, <1>6
<1>8. tabs' = [tabs |-> tabs'.tabs, active |-> tabs'.active] /\ tabs'.tabs = r
  BY <1>7
<1>9. /\ r = [i \in DOMAIN s |-> r[i]] /\ DOMAIN r = DOMAIN s
      /\ \A i \in DOMAIN s : r[i] = IF i = a THEN t ELSE s[i]
  BY <1>5
<1>10. IsList(r) /\ DOMAIN s = 1..Len(s) /\ Len(s) \in Nat
  BY <1>6, <1>9, ListSame
<1>11. \A i \in DOMAIN s : IsTab(s[i])
  BY <1>2, <1>3 DEF Chain, IsTabs
<1>12. a \in DOMAIN s => t = [path |-> s[a].path, page |-> 0, slot |-> 0]
  <2>1. a \in DOMAIN s => s[a] = [path |-> s[a].path, page |-> s[a].page, slot |-> s[a].slot]
    BY <1>11 DEF IsTab
  <2> QED
    BY <1>4, <2>1
<1>13. \A i \in DOMAIN r : IsTab(r[i])
  BY <1>9, <1>11, <1>12 DEF IsTab
<1>14. IsTabs(tabs')
  BY <1>8, <1>13 DEF IsTabs
<1>15. a \in DOMAIN s => t.slot = 0
  BY <1>12
<1>16. ASSUME InOrder(s) PROVE InOrder(r)
  <2>1. ASSUME NEW i \in DOMAIN s
        PROVE  (r[i].slot = s[i].slot /\ r[i].page = s[i].page) \/ r[i].slot = 0
    BY <1>9, <1>15
  <2>2. \A i \in DOMAIN s : \A k \in 1..(i - 1) : k \in DOMAIN s
    BY <1>10
  <2>3. \A i \in DOMAIN s : s[i].slot \in Nat
    BY <1>16 DEF InOrder
  <2>4. ASSUME NEW i \in DOMAIN s, r[i].slot # 0, NEW k \in 1..(i - 1)
        PROVE  r[k].slot < r[i].slot
    <3>1. r[i].slot = s[i].slot /\ s[k].slot < s[i].slot /\ s[i].slot \in Nat /\ s[i].slot # 0
      BY <1>16, <2>1, <2>4 DEF InOrder
    <3>2. k \in DOMAIN s
      BY <2>2
    <3>3. r[k].slot = s[k].slot \/ r[k].slot = 0
      BY <2>1, <3>2
    <3> QED
      BY <3>1, <3>3
  <2>5. ASSUME NEW i \in DOMAIN s, r[i].slot # 0, restoring
        PROVE  r[i].slot < index /\ r[i].page = queue[r[i].slot].page
    BY <1>16, <2>1, <2>5 DEF InOrder
  <2>6. \A i \in DOMAIN s : r[i].slot \in Nat
    BY <2>1, <2>3
  <2> QED
    BY <1>9, <2>4, <2>5, <2>6 DEF InOrder
<1>17. (\A i \in DOMAIN s : s[i].slot = 0) => \A i \in DOMAIN r : r[i].slot = 0
  BY <1>9, <1>15
<1>18. ~foul => InOrder(s)
  BY <1>2, <1>3 DEF Chain
<1> QED
  BY <1>1, <1>3, <1>8, <1>10, <1>14, <1>16, <1>17, <1>18, SavingSame, SameOpens, Left

\* Moved or resized.
LEMMA MovedInOrder ==
    ASSUME ChainInv, WindowMoved
    PROVE  ChainInv'
<1>1. /\ up' /\ UNCHANGED <<modals, restore, file>> /\ saving' = saving /\ opens' = opens
      /\ foul' = foul /\ tabs' = tabs
  BY DEF WindowMoved, Dispatching, disk
<1> QED
  BY <1>1, InvChain, SavingSame, SameOpens, Left DEF Chain

\* A save takes the tabs as they stand.
LEMMA CaptureIsList ==
    ASSUME ChainInv
    PROVE  IsList(capture_session.list.tabs)
<1>1. PICK s, a : s = tabs.tabs /\ a = tabs.active
  OBVIOUS
<1>2. tabs = [tabs |-> s, active |-> a] /\ IsList(s)
  BY <1>1 DEF ChainInv, Lists, IsTabs
<1>3. PICK r : r = [i \in DOMAIN s |-> [path |-> s[i].path, page |-> s[i].page, slot |-> 0]]
  OBVIOUS
<1>4. capture_session = [version |-> 2, list |-> [tabs |-> r, active |-> a]]
  <2>1. tabs.tabs = s
    BY <1>1
  <2>2. capture_session = Session([tabs EXCEPT !.tabs = r])
    BY <1>3, <2>1 DEF capture_session
  <2>3. [tabs EXCEPT !.tabs = r] = [tabs |-> r, active |-> a]
    BY <1>2
  <2> QED
    BY <2>2, <2>3 DEF Session
<1>5. r = [i \in DOMAIN s |-> r[i]]
  BY <1>3
<1>6. IsList(r)
  BY <1>2, <1>5, ListSame
<1> QED
  BY <1>4, <1>6

\* A save as it begins.
LEMMA BegunSave ==
    ASSUME ChainInv, NEW why, BeginSave(capture_session, why)
    PROVE  /\ saving' = [stage |-> saving'.stage, what |-> saving'.what, why |-> saving'.why]
           /\ IsList(saving'.what.list.tabs)
<1>1. PICK caught : caught = capture_session
  OBVIOUS
<1>2. saving' = [stage |-> "probe", what |-> caught, why |-> why]
  BY <1>1 DEF BeginSave
<1> QED
  BY <1>1, <1>2, CaptureIsList

\* The timer, the exit and the steps of a save.
LEMMA TimerInOrder ==
    ASSUME ChainInv, WM_TIMER
    PROVE  ChainInv'
<1>1. /\ up' /\ UNCHANGED <<modals, restore, file>> /\ opens' = opens
      /\ foul' = foul /\ tabs' = tabs
      /\ BeginSave(capture_session, "timer") \/ saving' = saving
  BY DEF WM_TIMER, Dispatching, disk
<1> QED
  BY <1>1, InvChain, SavingSame, BegunSave, SameOpens, Left DEF Chain

\* What a process leaves when it ends.
LEMMA NothingLeft ==
    ASSUME Forgotten, ~up', IsList(file'.list.tabs)
    PROVE  ChainInv'
<1>1. /\ tabs' = NoTabs /\ modals' = <<>> /\ queue' = <<>> /\ opens' = {} /\ ~restoring' /\ ~foul'
      /\ saving' = NotSaving
  BY DEF Forgotten
<1>2. saving' = [stage |-> "none", what |-> NoFile, why |-> "none"] /\ NoFile = [version |-> 0, list |-> NoTabs]
  BY <1>1 DEF NotSaving, NoFile
<1>3. NoTabs = [tabs |-> <<>>, active |-> 0]
  BY DEF NoTabs
<1>4. /\ IsList(tabs'.tabs) /\ DOMAIN tabs'.tabs = {} /\ tabs'.tabs = <<>>
      /\ IsList(modals') /\ DOMAIN modals' = {} /\ IsList(queue') /\ DOMAIN queue' = {}
      /\ IsList(saving'.what.list.tabs)
  BY <1>1, <1>2, EmptyList
<1>5. IsTabs(tabs')
  BY <1>1, <1>3, <1>4 DEF IsTabs
<1>6. saving' = [stage |-> saving'.stage, what |-> saving'.what, why |-> saving'.why]
  BY <1>2
<1>7. Lists'
  BY <1>4, <1>5, <1>6 DEF Lists
<1>8. OnTheWay'
  BY <1>1, <1>4 DEF OnTheWay
<1> QED
  BY <1>1, <1>4, <1>7, <1>8 DEF ChainInv, Empty, ChainAt, InOrder

LEMMA ExitInOrder ==
    ASSUME ChainInv, on_clean_exit
    PROVE  ChainInv'
<1>1. up /\ file' = file
  BY DEF on_clean_exit, Dispatching, disk
<1>2. CASE ExitSaves
  <2>1. /\ up' /\ UNCHANGED <<modals, restore, file>> /\ opens' = opens
        /\ foul' = foul /\ tabs' = tabs
        /\ BeginSave(capture_session, "exit")
    BY <1>1, <1>2 DEF on_clean_exit
  <2> QED
    BY <2>1, InvChain, BegunSave, SameOpens, Left DEF Chain
<1>3. CASE ~ExitSaves
  <2>1. Forgotten /\ ~up'
    BY <1>3 DEF on_clean_exit
  <2> QED
    BY <1>1, <2>1, NothingLeft DEF ChainInv, Lists
<1> QED
  BY <1>2, <1>3

LEMMA SaveInOrder ==
    ASSUME ChainInv, SaveProceeds
    PROVE  ChainInv'
<1>1. up /\ UNCHANGED memory /\ SaveStep
  BY DEF SaveProceeds
<1>2. up' = up /\ modals' = modals /\ UNCHANGED restore /\ opens' = opens /\ foul' = foul /\ tabs' = tabs
  BY <1>1 DEF memory
<1>3. /\ \E stage : saving' = [saving EXCEPT !.stage = stage]
      /\ file' = file \/ file' = saving.what
  BY <1>1 DEF SaveStep, SaveProbe, SaveCopy, SaveWrite, SaveReplace, disk
<1>4. PICK stage : saving' = [saving EXCEPT !.stage = stage]
  BY <1>3
<1>5. PICK w, y : saving' = [stage |-> stage, what |-> w, why |-> y] /\ w = saving.what
  BY <1>4, SavingSame
<1>6. /\ saving' = [stage |-> saving'.stage, what |-> saving'.what, why |-> saving'.why]
      /\ IsList(saving'.what.list.tabs) /\ IsList(file'.list.tabs)
  BY <1>3, <1>5, SavingSame DEF ChainInv, Lists
<1>7. /\ restoring' = restoring /\ queue' = queue /\ index' = index /\ pending' = pending
  BY <1>2 DEF restore
<1>8. Lists'
  BY <1>2, <1>6, <1>7 DEF ChainInv, Lists
<1>9. Empty'
  BY <1>1, <1>2 DEF Empty
<1>10. ChainAt'
  BY <1>2, <1>7 DEF ChainInv, ChainAt, SlotOf
<1>11. ~foul' => OnTheWay'
  BY <1>2, SameOpens, OthersComeAndGo DEF ChainInv
<1>12. ~foul' => InOrder(tabs.tabs)'
  BY <1>2, <1>7 DEF ChainInv, InOrder
<1> QED
  BY <1>8, <1>9, <1>10, <1>11, <1>12 DEF ChainInv

LEMMA ReturnInOrder ==
    ASSUME ChainInv, SaveReturns
    PROVE  ChainInv'
<1>1. up /\ file' = file
  BY DEF SaveReturns
<1>2. CASE saving.why = "exit"
  BY <1>1, <1>2, NothingLeft DEF SaveReturns, ChainInv, Lists
<1>3. CASE saving.why # "exit"
  <2>1. saving' = NotSaving /\ UNCHANGED memory
    BY <1>3 DEF SaveReturns
  <2>2. /\ up' = up /\ UNCHANGED <<modals, restore, file>> /\ opens' = opens
        /\ foul' = foul /\ tabs' = tabs
    BY <1>1, <2>1 DEF memory
  <2>3. saving' = [stage |-> "none", what |-> NoFile, why |-> "none"] /\ NoFile = [version |-> 0, list |-> NoTabs]
    BY <2>1 DEF NotSaving, NoFile
  <2>4. /\ saving' = [stage |-> saving'.stage, what |-> saving'.what, why |-> saving'.why]
        /\ IsList(saving'.what.list.tabs)
    BY <2>3, EmptyList
  <2> QED
    BY <1>1, <2>2, <2>4, InvChain, SameOpens, Left DEF Chain
<1> QED
  BY <1>2, <1>3

\* A process killed.
LEMMA CrashInOrder ==
    ASSUME ChainInv, Crash
    PROVE  ChainInv'
BY NothingLeft DEF Crash, disk, ChainInv, Lists

\* What is offered is in the order of the file.
LEMMA StartInOrder ==
    ASSUME ChainInv, NEW cli, NEW gone, Start(cli, gone)
    PROVE  ChainInv'
<1>1. /\ ~up /\ up' /\ maybe_offer_restore(marker, cli, gone)
      /\ UNCHANGED <<tabs, restoring, index, pending, foul, file, bak, saving>>
  BY DEF Start
<1>2. /\ tabs.tabs = <<>> /\ opens = {} /\ modals = <<>> /\ ~restoring /\ queue = <<>> /\ ~foul
  BY <1>1 DEF ChainInv, Empty
<1>3. PICK found : found = load_session.tabs
  OBVIOUS
<1>4. PICK left : left = Only(found, {t \in ToSet(found) : t.path \notin gone})
  OBVIOUS
<1>5. IsList(found)
  BY <1>3, EmptyList DEF load_session, ChainInv, Lists, Torn, NoTabs
<1>6. IsList(left)
  BY <1>4, <1>5, OnlyIs, ListOf DEF IsList
<1>7. \/ modals' = <<[kind |-> "offer"]>> /\ queue' = left /\ left # <<>> /\ opens' = opens
      \/ opens' = InFlight({cli} \ {NoPath}, 0) /\ modals' = modals /\ queue' = queue
  BY <1>1, <1>3, <1>4 DEF maybe_offer_restore
<1>8. tabs' = tabs /\ ~restoring' /\ ~foul' /\ file' = file /\ saving' = saving
  BY <1>1, <1>2
<1>9. DOMAIN tabs'.tabs = {} /\ IsList(tabs'.tabs)
  BY <1>2, <1>8, EmptyList
<1>10. PICK m : m = [kind |-> "offer"]
  OBVIOUS
<1>11. CASE modals' = <<[kind |-> "offer"]>> /\ queue' = left /\ left # <<>> /\ opens' = opens
  <2>1. modals' = <<m>> /\ m.kind = "offer"
    BY <1>10, <1>11
  <2>2. modals' \in Seq({m}) /\ DOMAIN modals' = {1} /\ modals'[1] = m
    BY <2>1
  <2>3. IsList(modals')
    BY <2>2, ListOf
  <2>4. Lists'
    BY <1>6, <1>8, <1>9, <1>11, <2>3 DEF ChainInv, Lists
  <2>5. ChainAt'
    BY <1>8, <1>9, <1>11 DEF ChainAt, SlotOf
  <2>6. OnTheWay'
    BY <1>2, <1>8, <1>11, <2>1, <2>2 DEF OnTheWay, Aside
  <2> QED
    BY <1>1, <1>8, <1>9, <2>4, <2>5, <2>6 DEF ChainInv, Empty, InOrder
<1>12. CASE opens' = InFlight({cli} \ {NoPath}, 0) /\ modals' = modals /\ queue' = queue
  <2>1. DOMAIN modals' = {} /\ DOMAIN queue' = {}
    BY <1>2, <1>12, EmptyList
  <2>2. Lists'
    BY <1>8, <1>12 DEF ChainInv, Lists
  <2>3. ChainAt'
    BY <1>8, <2>1 DEF ChainAt
  <2>4. \A o \in opens' : o.slot = 0
    BY <1>12, InFlightIs
  <2>5. OnTheWay'
    BY <1>8, <2>1, <2>4 DEF OnTheWay, Foreign
  <2> QED
    BY <1>1, <1>8, <1>9, <2>2, <2>3, <2>5 DEF ChainInv, Empty, InOrder
<1> QED
  BY <1>7, <1>11, <1>12

\* The invariant holds at the start, and every step keeps it.
LEMMA ChainInit == Init => ChainInv
<1> SUFFICES ASSUME Init PROVE ChainInv
  OBVIOUS
<1>1. /\ ~up /\ tabs = NoTabs /\ modals = <<>> /\ queue = <<>> /\ opens = {} /\ ~restoring /\ ~foul
      /\ saving = NotSaving
  BY DEF Init
<1>2. saving = [stage |-> "none", what |-> NoFile, why |-> "none"] /\ NoFile = [version |-> 0, list |-> NoTabs]
  BY <1>1 DEF NotSaving, NoFile
<1>3. NoTabs = [tabs |-> <<>>, active |-> 0]
  BY DEF NoTabs
<1>4. /\ IsList(tabs.tabs) /\ DOMAIN tabs.tabs = {} /\ tabs.tabs = <<>>
      /\ IsList(modals) /\ DOMAIN modals = {} /\ IsList(queue) /\ DOMAIN queue = {}
      /\ IsList(saving.what.list.tabs)
  BY <1>1, <1>2, EmptyList
<1>5. IsTabs(tabs)
  BY <1>1, <1>3, <1>4 DEF IsTabs
<1>6. IsList(file.list.tabs)
  <2>1. IsList(Crashed)
    BY CrashedAssumption, ListOf
  <2>2. file.list.tabs = Crashed \/ file.list.tabs = <<>>
    BY <1>2, <1>3 DEF Init
  <2> QED
    BY <2>1, <2>2, EmptyList
<1>7. Lists
  BY <1>2, <1>4, <1>5, <1>6 DEF Lists
<1>8. OnTheWay
  BY <1>1, <1>4 DEF OnTheWay
<1> QED
  BY <1>1, <1>4, <1>7, <1>8 DEF ChainInv, Empty, ChainAt, InOrder

LEMMA ChainNext == ChainInv /\ [Next]_vars => ChainInv'
<1> SUFFICES ASSUME ChainInv, [Next]_vars PROVE ChainInv'
  OBVIOUS
<1>1. ASSUME NEW id \in 1..MaxOpens, OpenEnds(id) PROVE ChainInv'
  BY <1>1, OpenEndsInOrder
<1>2. CASE Answer
  BY <1>2, AnswersInOrder
<1>3. ASSUME NEW p \in Paths, AskedHere(p) \/ Forwarded(p) PROVE ChainInv'
  BY <1>3, AskedInOrder DEF AskedHere, Forwarded
<1>4. ASSUME NEW i \in DOMAIN tabs.tabs, on_tab_close_request(i) \/ on_tab_switch(i) PROVE ChainInv'
  BY <1>4, ClosedInOrder, SwitchedInOrder
<1>5. CASE PageTurned
  BY <1>5, TurnedInOrder
<1>6. CASE WindowMoved
  BY <1>6, MovedInOrder
<1>7. CASE WM_TIMER
  BY <1>7, TimerInOrder
<1>8. CASE on_clean_exit
  BY <1>8, ExitInOrder
<1>9. CASE SaveProceeds
  BY <1>9, SaveInOrder
<1>10. CASE SaveReturns
  BY <1>10, ReturnInOrder
<1>11. CASE Crash
  BY <1>11, CrashInOrder
<1>12. ASSUME NEW cli \in Paths \cup {NoPath}, NEW gone \in {{}} \cup {{p} : p \in Paths}, Start(cli, gone)
       PROVE  ChainInv'
  BY <1>12, StartInOrder
<1>13. CASE UNCHANGED vars
  <2>1. /\ UNCHANGED restore /\ modals' = modals /\ opens' = opens /\ foul' = foul /\ tabs' = tabs
        /\ up' = up /\ file' = file /\ saving' = saving
    BY <1>13 DEF vars, memory, disk
  <2>2. restoring' = restoring /\ queue' = queue /\ index' = index /\ pending' = pending
    BY <2>1 DEF restore
  <2>3. Lists' /\ Empty' /\ ChainAt'
    BY <2>1, <2>2 DEF ChainInv, Lists, Empty, ChainAt, SlotOf
  <2>4. ~foul' => OnTheWay'
    BY <2>1, SameOpens, OthersComeAndGo DEF ChainInv
  <2>5. ~foul' => InOrder(tabs.tabs)'
    BY <2>1, <2>2 DEF ChainInv, InOrder
  <2> QED
    BY <2>3, <2>4, <2>5 DEF ChainInv
<1> QED
  BY <1>1, <1>2, <1>3, <1>4, <1>5, <1>6, <1>7, <1>8, <1>9, <1>10, <1>11, <1>12, <1>13 DEF Next

\* What the chain has on its way is one document, and nothing is for another
\* of its slots.
LEMMA OneOfIts ==
    ASSUME ChainInv, ~foul, restoring
    PROVE  /\ Cardinality(OwnOf(index)) = 1
           /\ \A n \in DOMAIN queue \ {index} : OwnOf(n) = {}
<1>1. ChainAt /\ OnTheWay /\ index \in DOMAIN queue
  BY DEF ChainInv, ChainAt
<1>2. \A n \in DOMAIN queue : n # 0
  BY ListOf DEF ChainInv, Lists, IsList
<1>3. PICK x : /\ x.slot = index
               /\ \A o \in opens : o = x \/ o.slot = 0
               /\ \A i \in DOMAIN modals : modals[i].kind = "prompt" => modals[i].open = x \/ modals[i].open.slot = 0
               /\ x \in opens \/ \E k \in DOMAIN modals : modals[k].kind = "prompt" /\ modals[k].open = x
  <2>1. ASSUME NEW o \in opens, Opening(o)
        PROVE  /\ o.slot = index
               /\ \A q \in opens : q = o \/ q.slot = 0
               /\ \A i \in DOMAIN modals : modals[i].kind = "prompt" => modals[i].open.slot = 0
    BY <2>1 DEF Opening, Own, Aside, Foreign
  <2>2. ASSUME NEW k \in DOMAIN modals, Prompting(k)
        PROVE  /\ modals[k].kind = "prompt" /\ modals[k].open.slot = index
               /\ \A q \in opens : q.slot = 0
               /\ \A i \in DOMAIN modals : i = k \/ (modals[i].kind = "prompt" => modals[i].open.slot = 0)
    BY <2>2 DEF Prompting, Own, Aside, Foreign
  <2> QED
    BY <1>1, <2>1, <2>2 DEF OnTheWay
<1>4. OwnOf(index) = {x}
  BY <1>1, <1>2, <1>3 DEF OwnOf
<1>5. \A n \in DOMAIN queue \ {index} : OwnOf(n) = {}
  BY <1>2, <1>3 DEF OwnOf
<1> QED
  BY <1>4, <1>5, FS_Singleton

\* And it says more than the property.
LEMMA ChainGivesOrder == ChainInv => RestoreInOrder
<1> SUFFICES ASSUME ChainInv, ~foul PROVE RestoreInOrder
  BY DEF RestoreInOrder
<1>1. InOrder(tabs.tabs)
  BY DEF ChainInv
<1> QED
  BY <1>1, OneOfIts DEF RestoreInOrder, InOrder, SlotOf

\* RestoreInOrder, of every window: whatever a reader asks for, refuses or
\* closes while a session is restored.
THEOREM RestoredInOrder == Spec => []RestoreInOrder
<1>1. Spec => []ChainInv
  BY ChainInit, ChainNext, PTL DEF Spec
<1> QED
  BY <1>1, ChainGivesOrder, PTL

-----------------------------------------------------------------------------
(* The pages of a print job.                                               *)

PageNumbers == 0 .. NPages - 1

\* Where a sequence has p, and whether a range names it.
PlacesOf(s, p) == {i \in DOMAIN s : s[i] = p}
Names(r, p)    == 0 < r.from /\ r.from <= p + 1 /\ p + 1 <= r.to

\* s has p so many times.
Holds(s, p, n) == IsFiniteSet(PlacesOf(s, p)) /\ Cardinality(PlacesOf(s, p)) = n

LEMMA EmptyHasNone == \A p : PlacesOf(<<>>, p) = {}
<1>1. DOMAIN <<>> = {}
  OBVIOUS
<1> QED
  BY <1>1 DEF PlacesOf

LEMMA HoldsNone == \A s, p : PlacesOf(s, p) = {} => Holds(s, p, 0)
<1> SUFFICES ASSUME NEW s, NEW p, PlacesOf(s, p) = {} PROVE Holds(s, p, 0)
  OBVIOUS
<1>1. IsFiniteSet({}) /\ Cardinality({}) = 0
  BY FS_EmptySet
<1> QED
  BY <1>1 DEF Holds

LEMMA HoldsOnce == \A s, p, i : PlacesOf(s, p) = {i} => Holds(s, p, 1)
<1> SUFFICES ASSUME NEW s, NEW p, NEW i, PlacesOf(s, p) = {i} PROVE Holds(s, p, 1)
  OBVIOUS
<1>1. IsFiniteSet({i}) /\ Cardinality({i}) = 1
  BY FS_Singleton
<1> QED
  BY <1>1 DEF Holds

\* A concatenation has what its parts have.
LEMMA HoldsBoth ==
    ASSUME NEW X, NEW s \in Seq(X), NEW t \in Seq(X), NEW p, NEW m \in Nat, NEW n \in Nat,
           Holds(s, p, m), Holds(t, p, n)
    PROVE  Holds(s \o t, p, m + n)
<1> DEFINE A == PlacesOf(s, p)
           B == PlacesOf(t, p)
           C == {i \in Len(s) + 1 .. Len(s) + Len(t) : t[i - Len(s)] = p}
           f == [i \in B |-> i + Len(s)]
<1>1. Len(s) \in Nat /\ Len(t) \in Nat /\ DOMAIN s = 1..Len(s) /\ DOMAIN t = 1..Len(t)
  OBVIOUS
<1>2. /\ Len(s \o t) = Len(s) + Len(t) /\ DOMAIN (s \o t) = 1..(Len(s) + Len(t))
      /\ \A i \in 1..(Len(s) + Len(t)) : (s \o t)[i] = IF i <= Len(s) THEN s[i] ELSE t[i - Len(s)]
  OBVIOUS
<1>3. PlacesOf(s \o t, p) = A \cup C
  BY <1>1, <1>2 DEF PlacesOf
<1>4. A \cap C = {}
  BY <1>1 DEF PlacesOf
<1>5. f \in Bijection(B, C)
  <2>1. B \subseteq 1..Len(t)
    BY <1>1 DEF PlacesOf
  <2>2. f \in [B -> C]
    BY <1>1, <2>1 DEF PlacesOf
  <2>3. \A i, k \in B : f[i] = f[k] => i = k
    BY <1>1, <2>1
  <2>4. ASSUME NEW z \in C PROVE \E b \in B : f[b] = z
    <3>1. z - Len(s) \in 1..Len(t) /\ t[z - Len(s)] = p
      BY <1>1
    <3>2. z - Len(s) \in B
      BY <1>1, <3>1 DEF PlacesOf
    <3>3. f[z - Len(s)] = z
      BY <1>1, <3>2
    <3> QED
      BY <3>2, <3>3
  <2> QED
    BY <2>2, <2>3, <2>4 DEF Bijection, Injection, Surjection, IsInjective
<1>6. IsFiniteSet(B) /\ Cardinality(B) = n /\ IsFiniteSet(A) /\ Cardinality(A) = m
  BY DEF Holds
<1>7. IsFiniteSet(C) /\ Cardinality(C) = n
  <2>1. ExistsBijection(B, C)
    BY <1>5 DEF ExistsBijection
  <2> QED
    BY <1>6, <2>1, FS_Bijection
<1> HIDE DEF A, B, C
<1>8. IsFiniteSet(A \cup C) /\ Cardinality(A \cup C) = m + n
  <2>1. IsFiniteSet(A \cup C)
        /\ Cardinality(A \cup C) = Cardinality(A) + Cardinality(C) - Cardinality(A \cap C)
    BY <1>6, <1>7, FS_Union
  <2>2. Cardinality(A \cap C) = 0
    BY <1>4, FS_EmptySet
  <2> QED
    BY <1>6, <1>7, <2>1, <2>2
<1> QED
  BY <1>3, <1>8 DEF Holds

\* A range gives each page it names once, and no other.
LEMMA RangeHolds ==
    ASSUME NEW r \in [from : Nat, to : Nat], NEW p \in PageNumbers
    PROVE  RangePages(r) \in Seq(PageNumbers) /\ Holds(RangePages(r), p, IF Names(r, p) THEN 1 ELSE 0)
<1> DEFINE last == IF r.to > NPages THEN NPages ELSE r.to
           skip == r.from = 0 \/ r.to = 0 \/ r.from > r.to \/ r.from > NPages
<1>1. NPages \in Nat /\ r.from \in Nat /\ r.to \in Nat /\ p \in Nat /\ p < NPages /\ last \in Nat
      /\ last <= NPages
  BY PrintConstants DEF PageNumbers
<1>2. CASE skip
  <2>1. RangePages(r) = <<>>
    BY <1>2 DEF RangePages
  <2>2. PlacesOf(<<>>, p) = {}
    BY EmptyHasNone
  <2>3. ~Names(r, p)
    BY <1>1, <1>2 DEF Names
  <2>4. <<>> \in Seq(PageNumbers) /\ Holds(<<>>, p, 0)
    BY <2>2, HoldsNone
  <2> QED
    BY <2>1, <2>3, <2>4
<1>3. CASE ~skip
  <2>1. RangePages(r) = [i \in 1 .. last - r.from + 1 |-> r.from + i - 2]
    BY <1>3 DEF RangePages
  <2>2. last - r.from + 1 \in Nat /\ r.from # 0
    BY <1>1, <1>3
  <2>3. \A i \in 1 .. last - r.from + 1 : r.from + i - 2 \in PageNumbers
    BY <1>1, <2>2 DEF PageNumbers
  <2>4. RangePages(r) \in Seq(PageNumbers)
    <3> DEFINE n == last - r.from + 1
               nth(i) == r.from + i - 2
    <3>1. n \in Nat /\ \A i \in 1 .. n : nth(i) \in PageNumbers
      BY <2>2, <2>3
    <3>2. RangePages(r) = [i \in 1 .. n |-> nth(i)]
      BY <2>1
    <3> HIDE DEF n, nth
    <3> QED
      BY <3>1, <3>2, IsASeq
  <2>5. CASE Names(r, p)
    <3>1. p - r.from + 2 \in 1 .. last - r.from + 1
      BY <1>1, <2>2, <2>5 DEF Names
    <3>2. PlacesOf(RangePages(r), p) = {p - r.from + 2}
      <4> DEFINE n == last - r.from + 1
                 k == p - r.from + 2
      <4>1. n \in Nat /\ k \in 1 .. n /\ \A i \in 1 .. n : r.from + i - 2 = p <=> i = k
        BY <1>1, <2>2, <3>1
      <4>2. DOMAIN RangePages(r) = 1 .. n /\ \A i \in 1 .. n : RangePages(r)[i] = r.from + i - 2
        BY <2>1
      <4> HIDE DEF n, k
      <4>3. PlacesOf(RangePages(r), p) = {k}
        BY <4>1, <4>2 DEF PlacesOf
      <4> QED
        BY <4>3 DEF k
    <3>3. Holds(RangePages(r), p, 1)
      BY <3>2, HoldsOnce
    <3> QED
      BY <2>4, <2>5, <3>3
  <2>6. CASE ~Names(r, p)
    <3>1. PlacesOf(RangePages(r), p) = {}
      BY <1>1, <2>1, <2>2, <2>6 DEF PlacesOf, Names
    <3>2. Holds(RangePages(r), p, 0)
      BY <3>1, HoldsNone
    <3> QED
      BY <2>4, <2>6, <3>2
  <2> QED
    BY <2>5, <2>6
<1> QED
  BY <1>2, <1>3

\* The ranges up to the n-th that name p.
Naming(ranges, p, n) == {i \in 1..n : Names(ranges[i], p)}

\* A list of ranges gives each page once for each range that names it.
LEMMA RangesHold ==
    ASSUME NEW ranges \in Seq([from : Nat, to : Nat]), NEW p \in PageNumbers
    PROVE  LET s == [i \in DOMAIN ranges |-> RangePages(ranges[i])]
           IN  /\ FlattenSeq(s) \in Seq(PageNumbers)
               /\ Holds(FlattenSeq(s), p, Cardinality(Naming(ranges, p, Len(ranges))))
<1> DEFINE s == [i \in DOMAIN ranges |-> RangePages(ranges[i])]
<1>1. Len(ranges) \in Nat /\ DOMAIN ranges = 1..Len(ranges)
      /\ \A i \in 1..Len(ranges) : ranges[i] \in [from : Nat, to : Nat]
  <2> DEFINE R == [from : Nat, to : Nat]
  <2>1. ranges \in Seq(R)
    OBVIOUS
  <2> HIDE DEF R, s
  <2>2. Len(ranges) \in Nat /\ DOMAIN ranges = 1..Len(ranges) /\ \A i \in 1..Len(ranges) : ranges[i] \in R
    BY <2>1, ElementOfSeq
  <2> QED
    BY <2>2 DEF R
<1>2. \A i \in 1..Len(ranges) : s[i] = RangePages(ranges[i]) /\ s[i] \in Seq(PageNumbers)
  BY <1>1, RangeHolds
<1>3. s \in Seq(Seq(PageNumbers)) /\ Len(s) = Len(ranges)
  <2>1. s = [i \in 1..Len(ranges) |-> s[i]]
    BY <1>1
  <2> HIDE DEF s
  <2>2. s \in Seq(Seq(PageNumbers))
    BY <1>1, <1>2, <2>1, IsASeq
  <2> QED
    BY <1>1, <2>1, <2>2
<1> HIDE DEF s
<1>4. PICK f : FlattenedBy(s, f)
  BY <1>3, FlattenSteps
<1> DEFINE Good(n) == /\ f[n] \in Seq(PageNumbers) /\ IsFiniteSet(Naming(ranges, p, n))
                      /\ Holds(f[n], p, Cardinality(Naming(ranges, p, n)))
           N == {n \in Nat : n <= Len(ranges) => Good(n)}
<1>5. Good(0)
  <2>1. f[0] = <<>>
    BY <1>4 DEF FlattenedBy
  <2>2. PlacesOf(f[0], p) = {} /\ Naming(ranges, p, 0) = {}
    <3>2. PlacesOf(f[0], p) = {}
      BY <2>1, EmptyHasNone
    <3>3. \A i : i \notin 1..0
      OBVIOUS
    <3>4. \A i : i \notin Naming(ranges, p, 0)
      BY <3>3, Zenon DEF Naming
    <3> QED
      BY <3>2, <3>4, Zenon
  <2>3. f[0] \in Seq(PageNumbers)
    BY <2>1
  <2>4. IsFiniteSet(Naming(ranges, p, 0)) /\ Cardinality(Naming(ranges, p, 0)) = 0
    BY <2>2, FS_EmptySet
  <2>5. Holds(f[0], p, 0)
    BY <2>2, HoldsNone
  <2> QED
    BY <2>3, <2>4, <2>5
<1>6. ASSUME NEW n \in Nat, n + 1 <= Len(ranges), Good(n) PROVE Good(n + 1)
  <2>1. n + 1 \in 1..Len(ranges) /\ (n + 1) - 1 = n
    <3>1. Len(ranges) \in Nat /\ n + 1 <= Len(ranges)
      BY <1>1, <1>6
    <3> QED
      BY ONLY <3>1, n \in Nat
  <2>2. f[n + 1] = f[n] \o s[n + 1]
    BY <1>3, <1>4, <2>1 DEF FlattenedBy
  <2>3. s[n + 1] \in Seq(PageNumbers)
        /\ Holds(s[n + 1], p, IF Names(ranges[n + 1], p) THEN 1 ELSE 0)
    BY <1>1, <1>2, <2>1, RangeHolds
  <2>4. Cardinality(Naming(ranges, p, n)) \in Nat
    BY <1>6, FS_CardinalityType
  <2>5. Holds(f[n + 1], p, Cardinality(Naming(ranges, p, n))
                           + IF Names(ranges[n + 1], p) THEN 1 ELSE 0)
    BY <1>6, <2>2, <2>3, <2>4, HoldsBoth
  <2>6. /\ IsFiniteSet(Naming(ranges, p, n + 1))
        /\ Cardinality(Naming(ranges, p, n + 1))
           = Cardinality(Naming(ranges, p, n)) + IF Names(ranges[n + 1], p) THEN 1 ELSE 0
    <3>1. CASE Names(ranges[n + 1], p)
      <4>1. Naming(ranges, p, n + 1) = Naming(ranges, p, n) \cup {n + 1}
        BY <3>1 DEF Naming
      <4>2. n + 1 \notin Naming(ranges, p, n)
        BY DEF Naming
      <4> QED
        BY <1>6, <3>1, <4>1, <4>2, FS_AddElement
    <3>2. CASE ~Names(ranges[n + 1], p)
      <4>1. Naming(ranges, p, n + 1) = Naming(ranges, p, n)
        BY <3>2 DEF Naming
      <4> QED
        BY <1>6, <2>4, <3>2, <4>1
    <3> QED
      BY <3>1, <3>2
  <2>7. f[n + 1] \in Seq(PageNumbers)
    BY <1>6, <2>2, <2>3, ConcatProperties
  <2> QED
    BY <2>5, <2>6, <2>7
<1> HIDE DEF Good
<1>7. 0 \in N
  BY <1>5
<1>8. ASSUME NEW n \in Nat, n \in N PROVE n + 1 \in N
  BY <1>1, <1>6, <1>8
<1> HIDE DEF N
<1>9. Nat \subseteq N
  BY <1>7, <1>8, NatSetInduction
<1>10. Good(Len(ranges))
  BY <1>1, <1>9 DEF N
<1>11. FlattenSeq(s) = f[Len(ranges)]
  BY <1>3, <1>4 DEF FlattenedBy
<1> QED
  BY <1>10, <1>11 DEF Good, s
-----------------------------------------------------------------------------
(* A print job.                                                            *)

PrintPlaces == {"config", "dialog", "start", "progress", "loop", "pump", "page", "size", "render",
                "blit", "end", "done", "exit", "returned", "box", "callback"}

Jobs == [at : PrintPlaces, then : PrintPlaces, asked_for : Asks \cup {All},
         pages : Seq(PageNumbers), sent : Seq(PageNumbers),
         spool : {"none", "open", "aborted", "ended"}, settled : Nat,
         flag : {"dead", "clear", "set"}, active : BOOLEAN, dlg : BOOLEAN, main : BOOLEAN,
         enabled : BOOLEAN, quit : BOOLEAN, ok : BOOLEAN, cancelled : BOOLEAN, late : Nat,
         told : BOOLEAN]

\* A job is open from StartDoc to the first call that ends it, and for as long
\* abort_proc has a flag to read.
OpenPlaces == {"progress", "loop", "pump", "page", "size", "render", "blit", "end", "done", "callback"}

JobOpen ==
    /\ job.at \in OpenPlaces <=> job.spool = "open"
    /\ job.spool = "open" => job.active /\ job.flag # "dead"
    /\ job.at \in {"config", "dialog", "start"} => job.spool = "none"
    /\ job.at = "box" => job.then = "exit"
    /\ job.at = "callback" => job.then \in {"page", "blit", "end"}
    /\ job.settled = IF job.spool \in {"none", "open"} THEN 0 ELSE 1
    /\ job.spool = "ended" => job.at \in {"exit", "returned"}
    /\ job.ok <=> job.spool = "ended"

\* In the page loop there is a page left, and after it there is none unless the
\* job was cancelled.
AtPage == job.at \in {"pump", "page", "size", "render", "blit", "end", "callback"}

PagesSent ==
    /\ Len(job.sent) <= Len(job.pages)
    /\ \A i \in 1 .. Len(job.sent) : job.sent[i] = job.pages[i]
    /\ AtPage => Len(job.sent) < Len(job.pages)
    /\ job.at = "done" /\ job.flag # "set" => Len(job.sent) = Len(job.pages)
    /\ job.spool = "ended" => job.sent = job.pages /\ ~job.cancelled
    /\ job.spool = "none" => job.sent = <<>>
    /\ job.spool # "none" \/ job.at = "start" => job.pages = ParsePageRanges(job.asked_for)

\* A cancel is in the flag, or a WM_QUIT is about to put it there: the pump that
\* dispatched it finds it before the next page.
CancelSeen ==
    /\ job.cancelled /\ job.spool = "open" =>
          job.flag = "set" \/ (job.quit /\ job.at \in {"pump", "callback"})
    /\ job.spool = "none" => ~job.cancelled
    /\ job.late # 0 => job.late = 1 /\ job.cancelled
    /\ job.at \in {"pump", "page"} \/ (job.at = "callback" /\ job.then = "page") => job.late = 0

\* The main window takes input, or the dialog that took it from it is there.
InputGiven == job.main => job.enabled \/ job.dlg

PrintInv == job \in Jobs /\ JobOpen /\ PagesSent /\ CancelSeen /\ LeavesNothing /\ InputGiven

\* What a step leaves alone.
SamePages(s, t)  == t.asked_for = s.asked_for /\ t.pages = s.pages /\ t.sent = s.sent
SameSpool(s, t)  == t.spool = s.spool /\ t.settled = s.settled /\ t.ok = s.ok
SameFlag(s, t)   == t.flag = s.flag /\ t.active = s.active /\ t.cancelled = s.cancelled /\ t.late = s.late
SameWindow(s, t) == t.dlg = s.dlg /\ t.main = s.main /\ t.enabled = s.enabled
SameQuit(s, t)   == t.quit = s.quit /\ t.told = s.told

LEMMA GotoIs ==
    ASSUME NEW s \in Jobs, NEW x \in PrintPlaces
    PROVE  /\ Goto(s, x) \in Jobs /\ Goto(s, x).at = x /\ Goto(s, x).then = s.then
           /\ SamePages(s, Goto(s, x)) /\ SameSpool(s, Goto(s, x)) /\ SameFlag(s, Goto(s, x))
           /\ SameWindow(s, Goto(s, x)) /\ SameQuit(s, Goto(s, x))
BY DEF Jobs, Goto, SamePages, SameSpool, SameFlag, SameWindow, SameQuit

LEMMA BoxIs ==
    ASSUME NEW s \in Jobs, NEW x \in PrintPlaces
    PROVE  LET t == ShowError(s, x)
           IN  /\ t \in Jobs /\ t.at = "box" /\ t.then = x
               /\ SamePages(s, t) /\ SameSpool(s, t) /\ SameFlag(s, t)
               /\ SameWindow(s, t) /\ SameQuit(s, t)
<1>1. "box" \in PrintPlaces
  BY DEF PrintPlaces
<1> QED
  BY <1>1 DEF Jobs, ShowError, SamePages, SameSpool, SameFlag, SameWindow, SameQuit

LEMMA AbortIs ==
    ASSUME NEW s \in Jobs
    PROVE  LET t == AbortDoc(s)
           IN  /\ t \in Jobs /\ t.at = s.at /\ t.then = s.then
               /\ t.spool = "aborted" /\ t.settled = s.settled + 1 /\ t.ok = s.ok
               /\ SamePages(s, t) /\ SameFlag(s, t) /\ SameWindow(s, t) /\ SameQuit(s, t)
<1>1. s.settled \in Nat /\ s.settled + 1 \in Nat
  BY DEF Jobs
<1>2. AbortDoc(s) = [s EXCEPT !.spool = "aborted", !.settled = s.settled + 1]
  BY DEF AbortDoc
<1> QED
  BY <1>1, <1>2 DEF Jobs, SamePages, SameFlag, SameWindow, SameQuit

LEMMA FailIs ==
    ASSUME NEW s \in Jobs
    PROVE  LET t == Fail(s)
           IN  /\ t \in Jobs /\ t.at = "box" /\ t.then = "exit"
               /\ t.spool = "aborted" /\ t.settled = s.settled + 1 /\ t.ok = s.ok
               /\ SamePages(s, t) /\ SameFlag(s, t) /\ SameWindow(s, t) /\ SameQuit(s, t)
<1>1. "exit" \in PrintPlaces
  BY DEF PrintPlaces
<1> QED
  BY <1>1, AbortIs, BoxIs DEF Fail, SamePages, SameSpool, SameFlag, SameWindow, SameQuit

LEMMA PrintInitInv == PrintInit => PrintInv
<1> SUFFICES ASSUME PrintInit PROVE PrintInv
  OBVIOUS
<1>1. <<>> \in Seq(PageNumbers) /\ Len(<<>>) = 0
  OBVIOUS
<1>2. job \in Jobs
  BY <1>1 DEF PrintInit, Jobs, PrintPlaces
<1>3. JobOpen /\ CancelSeen /\ LeavesNothing /\ InputGiven
  BY DEF PrintInit, JobOpen, OpenPlaces, CancelSeen, LeavesNothing, InputGiven
<1>4. PagesSent
  BY <1>1 DEF PrintInit, PagesSent, AtPage
<1> QED
  BY <1>2, <1>3, <1>4 DEF PrintInv

-----------------------------------------------------------------------------
(* Every step of a job keeps its invariant.                                *)

\* A failing call of the page loop ends the job.
LEMMA FailKeeps ==
    ASSUME PrintInv, job.spool = "open", job' = Fail(job)
    PROVE  PrintInv'
<1> USE DEF PrintInv
<1>1. /\ job' \in Jobs /\ job'.at = "box" /\ job'.then = "exit"
      /\ job'.spool = "aborted" /\ job'.settled = job.settled + 1 /\ job'.ok = job.ok
      /\ SamePages(job, job') /\ SameFlag(job, job') /\ SameWindow(job, job') /\ SameQuit(job, job')
  BY FailIs
<1>2. JobOpen'
  BY <1>1 DEF JobOpen, OpenPlaces
<1>3. PagesSent'
  BY <1>1 DEF PagesSent, AtPage, SamePages
<1>4. CancelSeen'
  BY <1>1 DEF CancelSeen, SameFlag
<1>5. LeavesNothing' /\ InputGiven'
  BY <1>1 DEF LeavesNothing, InputGiven, SameWindow, SameFlag, SameQuit
<1> QED
  BY <1>1, <1>2, <1>3, <1>4, <1>5

LEMMA ConfigKeeps ==
    ASSUME PrintInv, Config
    PROVE  PrintInv'
<1> USE DEF PrintInv
<1>1. PICK x \in {"exit", "dialog"} : job' = Goto(job, x)
  BY DEF Config
<1>2. /\ job' \in Jobs /\ job'.at = x
      /\ SamePages(job, job') /\ SameSpool(job, job') /\ SameFlag(job, job')
      /\ SameWindow(job, job') /\ SameQuit(job, job')
  BY <1>1, GotoIs DEF PrintPlaces
<1>3. JobOpen'
  BY <1>2 DEF Config, JobOpen, OpenPlaces, SameSpool
<1>4. PagesSent'
  BY <1>2 DEF Config, JobOpen, PagesSent, AtPage, SamePages, SameSpool
<1>5. CancelSeen'
  BY <1>2 DEF Config, JobOpen, CancelSeen, SameFlag, SameSpool
<1>6. LeavesNothing' /\ InputGiven'
  BY <1>2 DEF LeavesNothing, InputGiven, SameWindow, SameFlag, SameQuit
<1> QED
  BY <1>2, <1>3, <1>4, <1>5, <1>6

\* A move inside the open job.
LEMMA TurnKeeps ==
    ASSUME PrintInv, job.spool = "open", NEW x \in OpenPlaces, x # "callback", job' = Goto(job, x),
           x \in {"pump", "page", "size", "render", "blit", "end"} => Len(job.sent) < Len(job.pages),
           x = "done" => job.flag = "set" \/ Len(job.sent) = Len(job.pages),
           job.cancelled => job.flag = "set" \/ (job.quit /\ x = "pump"),
           x \in {"pump", "page"} => job.late = 0
    PROVE  PrintInv'
<1> USE DEF PrintInv
<1>1. x \in PrintPlaces
  BY DEF OpenPlaces, PrintPlaces
<1>2. /\ job' \in Jobs /\ job'.at = x
      /\ SamePages(job, job') /\ SameSpool(job, job') /\ SameFlag(job, job')
      /\ SameWindow(job, job') /\ SameQuit(job, job')
  BY <1>1, GotoIs
<1>3. JobOpen'
  BY <1>2 DEF JobOpen, OpenPlaces, SameSpool, SameFlag
<1>4. PagesSent'
  BY <1>2 DEF PagesSent, AtPage, OpenPlaces, SamePages, SameSpool, SameFlag
<1>5. CancelSeen'
  BY <1>2 DEF CancelSeen, SameFlag, SameSpool, SameQuit
<1>6. LeavesNothing' /\ InputGiven'
  BY <1>2 DEF LeavesNothing, InputGiven, OpenPlaces, SameWindow, SameFlag, SameQuit
<1> QED
  BY <1>2, <1>3, <1>4, <1>5, <1>6

\* What the invariant says in the loop.
LEMMA InTheLoop ==
    ASSUME PrintInv
    PROVE  /\ job.at \in {"loop", "pump", "page", "size", "render", "blit", "end", "done", "progress",
                          "callback"} => job.spool = "open" /\ job.at # "box" /\ job.flag \in {"clear", "set"}
           /\ job.at \in {"pump", "page", "size", "render", "blit", "end", "callback"} =>
                 Len(job.sent) < Len(job.pages)
           /\ job.at \in {"loop", "page", "size", "render", "blit", "end", "done", "progress"}
              /\ job.cancelled => job.flag = "set"
BY DEF PrintInv, JobOpen, OpenPlaces, PagesSent, AtPage, CancelSeen, Jobs

LEMMA PlainStepsKeep ==
    ASSUME PrintInv, UsableSize \/ RenderPage \/ Blit
    PROVE  PrintInv'
<1>1. PICK x \in {"render", "blit", "end"} :
        job.at \in {"size", "render", "blit"} /\ (job' = Fail(job) \/ job' = Goto(job, x))
  BY DEF UsableSize, RenderPage, Blit
<1>2. /\ job.spool = "open" /\ job.at # "box" /\ x \in OpenPlaces
      /\ Len(job.sent) < Len(job.pages) /\ (job.cancelled => job.flag = "set")
  BY <1>1, InTheLoop DEF OpenPlaces
<1> QED
  BY <1>1, <1>2, FailKeeps, TurnKeeps

LEMMA NextPageKeeps ==
    ASSUME PrintInv, NextPage
    PROVE  PrintInv'
<1>1. job.at = "loop" /\ job.spool = "open" /\ (job.cancelled => job.flag = "set")
  BY InTheLoop DEF NextPage
<1>2. Len(job.sent) \in Nat /\ Len(job.pages) \in Nat /\ Len(job.sent) <= Len(job.pages)
  BY DEF PrintInv, Jobs, PagesSent
<1>3. job.late = 0 \/ job.flag = "set"
  BY <1>1 DEF PrintInv, CancelSeen
<1>4. CASE job.flag = "set" \/ Len(job.sent) = Len(job.pages)
  <2>1. job' = Goto(job, "done") /\ "done" \in OpenPlaces
    BY <1>4 DEF NextPage, OpenPlaces
  <2> QED
    BY <1>1, <1>4, <2>1, TurnKeeps
<1>5. CASE ~(job.flag = "set" \/ Len(job.sent) = Len(job.pages))
  <2>1. job' = Goto(job, "pump") /\ "pump" \in OpenPlaces
    BY <1>5 DEF NextPage, OpenPlaces
  <2>2. Len(job.sent) < Len(job.pages)
    BY <1>2, <1>5
  <2> QED
    BY <1>1, <1>3, <1>5, <2>1, <2>2, TurnKeeps
<1> QED
  BY <1>4, <1>5

LEMMA StartPageKeeps ==
    ASSUME PrintInv, StartPage
    PROVE  PrintInv'
<1> USE DEF PrintInv
<1>1. /\ job.at = "page" /\ job.spool = "open" /\ job.at # "box"
      /\ Len(job.sent) < Len(job.pages) /\ (job.cancelled => job.flag = "set") /\ job.late = 0
      /\ job.cancelled \in BOOLEAN
  BY InTheLoop DEF StartPage, CancelSeen, Jobs
<1>2. CASE job' = Fail(job)
  BY <1>1, <1>2, FailKeeps
<1>3. CASE job' # Fail(job)
  <2> DEFINE n == IF job.cancelled THEN 1 ELSE 0
             s == [job EXCEPT !.late = n]
  <2>1. job' = Goto(s, "size")
    BY <1>1, <1>3 DEF StartPage
  <2>2. n \in Nat /\ (n # 0 => n = 1 /\ job.cancelled)
    OBVIOUS
  <2> HIDE DEF n
  <2>3. /\ s \in Jobs /\ s.late = n /\ s.at = job.at /\ s.then = job.then
        /\ SamePages(job, s) /\ SameSpool(job, s) /\ SameWindow(job, s) /\ SameQuit(job, s)
        /\ s.flag = job.flag /\ s.active = job.active /\ s.cancelled = job.cancelled
    BY <2>2 DEF Jobs, SamePages, SameSpool, SameWindow, SameQuit
  <2> HIDE DEF s
  <2>4. /\ job' \in Jobs /\ job'.at = "size" /\ SamePages(s, job') /\ SameSpool(s, job')
        /\ SameFlag(s, job') /\ SameWindow(s, job') /\ SameQuit(s, job')
    BY <2>1, <2>3, GotoIs DEF PrintPlaces
  <2>5. JobOpen'
    BY <1>1, <2>3, <2>4 DEF JobOpen, OpenPlaces, SameSpool, SameFlag
  <2>6. PagesSent'
    BY <1>1, <2>3, <2>4 DEF PagesSent, AtPage, SamePages, SameSpool, SameFlag
  <2>7. CancelSeen'
    BY <1>1, <2>2, <2>3, <2>4 DEF CancelSeen, SameFlag, SameSpool, SameQuit
  <2>8. LeavesNothing' /\ InputGiven'
    BY <1>1, <2>3, <2>4 DEF LeavesNothing, InputGiven, SameWindow, SameFlag, SameQuit
  <2> QED
    BY <2>4, <2>5, <2>6, <2>7, <2>8
<1> QED
  BY <1>2, <1>3

LEMMA EndPageKeeps ==
    ASSUME PrintInv, EndPage
    PROVE  PrintInv'
<1> USE DEF PrintInv
<1>1. /\ job.at = "end" /\ job.spool = "open" /\ job.at # "box"
      /\ Len(job.sent) < Len(job.pages) /\ (job.cancelled => job.flag = "set")
  BY InTheLoop DEF EndPage
<1>2. CASE job' = Fail(job)
  BY <1>1, <1>2, FailKeeps
<1>3. CASE job' # Fail(job)
  <2> DEFINE next == job.pages[Len(job.sent) + 1]
             more == Append(job.sent, next)
             s == [job EXCEPT !.sent = more]
  <2>1. job' = Goto(s, "loop")
    BY <1>3 DEF EndPage
  <2>2. /\ job.sent \in Seq(PageNumbers) /\ job.pages \in Seq(PageNumbers)
        /\ Len(job.sent) \in Nat /\ Len(job.pages) \in Nat
    BY DEF Jobs
  <2>3. next \in PageNumbers
    <3>1. Len(job.sent) + 1 \in 1..Len(job.pages)
      BY <1>1, <2>2
    <3> QED
      BY <2>2, <3>1, ElementOfSeq
  <2>4. /\ more \in Seq(PageNumbers) /\ Len(more) = Len(job.sent) + 1
        /\ \A i \in 1..Len(job.sent) : more[i] = job.sent[i]
        /\ more[Len(job.sent) + 1] = next
    BY <2>2, <2>3
  <2> HIDE DEF more
  <2>5. /\ s \in Jobs /\ s.sent = more /\ s.at = job.at /\ s.then = job.then
        /\ s.asked_for = job.asked_for /\ s.pages = job.pages
        /\ SameFlag(job, s) /\ SameSpool(job, s) /\ SameWindow(job, s) /\ SameQuit(job, s)
    BY <2>4 DEF Jobs, SameFlag, SameSpool, SameWindow, SameQuit
  <2> HIDE DEF s
  <2>6. /\ job' \in Jobs /\ job'.at = "loop" /\ SamePages(s, job') /\ SameSpool(s, job')
        /\ SameFlag(s, job') /\ SameWindow(s, job') /\ SameQuit(s, job')
    BY <2>1, <2>5, GotoIs DEF PrintPlaces
  <2>7. JobOpen'
    BY <1>1, <2>5, <2>6 DEF JobOpen, OpenPlaces, SameSpool, SameFlag
  <2>8. PagesSent'
    <3>1. \A i \in 1..Len(more) : more[i] = job.pages[i]
      <4> SUFFICES ASSUME NEW i \in 1..Len(more) PROVE more[i] = job.pages[i]
        OBVIOUS
      <4>1. i \in 1..Len(job.sent) \/ i = Len(job.sent) + 1
        BY <2>2, <2>4
      <4> QED
        BY <2>4, <4>1 DEF PagesSent
    <3>2. Len(more) <= Len(job.pages)
      BY <1>1, <2>2, <2>4
    <3> QED
      BY <1>1, <2>5, <2>6, <3>1, <3>2 DEF PagesSent, AtPage, SamePages, SameSpool, SameFlag
  <2>9. CancelSeen'
    BY <1>1, <2>5, <2>6 DEF CancelSeen, SameFlag, SameSpool, SameQuit
  <2>10. LeavesNothing' /\ InputGiven'
    BY <1>1, <2>5, <2>6 DEF LeavesNothing, InputGiven, SameWindow, SameFlag, SameQuit
  <2> QED
    BY <2>6, <2>7, <2>8, <2>9, <2>10
<1> QED
  BY <1>2, <1>3

\* A message box before the job, or after it.
LEMMA BoxKeeps ==
    ASSUME PrintInv, NEW s \in Jobs, s.spool \in {"none", "aborted"},
           SameSpool(job, s), SameWindow(job, s), SameQuit(job, s),
           s.active = job.active, s.cancelled = job.cancelled, s.late = job.late,
           s.flag # "dead" \/ s.flag = job.flag, s.sent = job.sent,
           s.spool = "none" => s.sent = <<>>,
           s.spool # "none" => s.pages = job.pages /\ s.asked_for = job.asked_for,
           job' = ShowError(s, "exit")
    PROVE  PrintInv'
<1> USE DEF PrintInv
<1>1. /\ job' \in Jobs /\ job'.at = "box" /\ job'.then = "exit"
      /\ SamePages(s, job') /\ SameSpool(s, job') /\ SameFlag(s, job')
      /\ SameWindow(s, job') /\ SameQuit(s, job')
  BY BoxIs DEF PrintPlaces
<1>2. JobOpen'
  BY <1>1 DEF JobOpen, OpenPlaces, SameSpool
<1>3. PagesSent'
  <2>1. CASE s.spool = "none"
    <3>1. job'.sent = <<>> /\ Len(job'.sent) = 0 /\ job'.pages \in Seq(PageNumbers)
      BY <1>1, <2>1 DEF SamePages, Jobs
    <3>2. Len(job'.pages) \in Nat
      BY <3>1
    <3> QED
      BY <1>1, <2>1, <3>1, <3>2 DEF PagesSent, AtPage, SameSpool
  <2>2. CASE s.spool # "none"
    BY <1>1, <2>2 DEF PagesSent, AtPage, SamePages, SameSpool
  <2> QED
    BY <2>1, <2>2
<1>4. CancelSeen'
  BY <1>1 DEF CancelSeen, SameFlag, SameSpool
<1>5. LeavesNothing' /\ InputGiven'
  BY <1>1 DEF LeavesNothing, InputGiven, SameWindow, SameFlag, SameQuit
<1> QED
  BY <1>1, <1>2, <1>3, <1>4, <1>5

\* The pages of any choice in the dialog are pages of the document.
LEMMA ParsedPages ==
    ASSUME NEW a \in Asks
    PROVE  ParsePageRanges(a) \in Seq(PageNumbers)
<1>1. NPages \in Nat /\ NPages # 0 /\ 0 \in PageNumbers
  BY PrintConstants DEF PageNumbers
<1>2. CASE a = All
  <2>1. ParsePageRanges(a) = [i \in 1 .. NPages |-> i - 1]
    BY <1>2 DEF ParsePageRanges
  <2>2. \A i \in 1 .. NPages : i - 1 \in PageNumbers
    BY <1>1 DEF PageNumbers
  <2> QED
    BY <1>1, <2>1, <2>2, IsASeq
<1>3. CASE a # All
  <2>1. a \in Seq([from : Nat, to : Nat])
    BY <1>3, PrintConstants
  <2>2. FlattenSeq([i \in DOMAIN a |-> RangePages(a[i])]) \in Seq(PageNumbers)
    BY <1>1, <2>1, RangesHold
  <2> QED
    BY <1>3, <2>2 DEF ParsePageRanges
<1> QED
  BY <1>2, <1>3

LEMMA DialogKeeps ==
    ASSUME PrintInv, Dialog
    PROVE  PrintInv'
<1> USE DEF PrintInv
<1>1. job.at = "dialog" /\ job.spool = "none" /\ job.sent = <<>>
  BY DEF Dialog, JobOpen, PagesSent
<1>2. SamePages(job, job) /\ SameSpool(job, job) /\ SameFlag(job, job) /\ SameWindow(job, job)
      /\ SameQuit(job, job)
  BY DEF SamePages, SameSpool, SameFlag, SameWindow, SameQuit
<1>3. CASE job' = ShowError(job, "exit")
  BY <1>1, <1>2, <1>3, BoxKeeps
<1>4. CASE job' = Goto(job, "exit")
  <2>1. /\ job' \in Jobs /\ job'.at = "exit"
        /\ SamePages(job, job') /\ SameSpool(job, job') /\ SameFlag(job, job')
        /\ SameWindow(job, job') /\ SameQuit(job, job')
    BY <1>4, GotoIs DEF PrintPlaces
  <2>2. JobOpen'
    BY <1>1, <2>1 DEF JobOpen, OpenPlaces, SameSpool
  <2>3. PagesSent'
    BY <1>1, <2>1 DEF PagesSent, AtPage, SamePages, SameSpool
  <2>4. CancelSeen'
    BY <1>1, <2>1 DEF CancelSeen, SameFlag, SameSpool
  <2>5. LeavesNothing' /\ InputGiven'
    BY <2>1 DEF LeavesNothing, InputGiven, SameWindow, SameFlag, SameQuit
  <2> QED
    BY <2>1, <2>2, <2>3, <2>4, <2>5
<1>5. ASSUME NEW a \in Asks, NEW pages, pages = ParsePageRanges(a), NEW s,
             s = [job EXCEPT !.asked_for = a, !.pages = pages],
             job' = IF pages = <<>> THEN ShowError(s, "exit") ELSE Goto(s, "start")
      PROVE  PrintInv'
  <2>1. pages \in Seq(PageNumbers)
    BY <1>5, ParsedPages
  <2>2. /\ s \in Jobs /\ s.asked_for = a /\ s.pages = pages /\ s.sent = job.sent
        /\ s.at = job.at /\ s.then = job.then
        /\ SameFlag(job, s) /\ SameSpool(job, s) /\ SameWindow(job, s) /\ SameQuit(job, s)
    BY <1>5, <2>1 DEF Jobs, SameFlag, SameSpool, SameWindow, SameQuit
  <2>3. CASE pages = <<>>
    <3>1. job' = ShowError(s, "exit")
      BY <1>5, <2>3
    <3> QED
      BY <1>1, <2>2, <3>1, BoxKeeps DEF SameFlag, SameSpool
  <2>4. CASE pages # <<>>
    <3>1. job' = Goto(s, "start")
      BY <1>5, <2>4
    <3>2. /\ job' \in Jobs /\ job'.at = "start"
          /\ SamePages(s, job') /\ SameSpool(s, job') /\ SameFlag(s, job')
          /\ SameWindow(s, job') /\ SameQuit(s, job')
      BY <2>2, <3>1, GotoIs DEF PrintPlaces
    <3>3. JobOpen'
      BY <1>1, <2>2, <3>2 DEF JobOpen, OpenPlaces, SameSpool
    <3>4. PagesSent'
      <4>1. job'.pages = pages /\ job'.asked_for = a /\ job'.sent = <<>> /\ job'.spool = "none"
        BY <1>1, <2>2, <3>2 DEF SamePages, SameSpool
      <4>2. Len(job'.sent) = 0 /\ Len(job'.pages) \in Nat
        BY <2>1, <4>1
      <4> QED
        BY <1>5, <3>2, <4>1, <4>2 DEF PagesSent, AtPage
    <3>5. CancelSeen'
      BY <1>1, <2>2, <3>2 DEF CancelSeen, SameFlag, SameSpool
    <3>6. LeavesNothing' /\ InputGiven'
      BY <2>2, <3>2 DEF LeavesNothing, InputGiven, SameWindow, SameFlag, SameQuit
    <3> QED
      BY <3>2, <3>3, <3>4, <3>5, <3>6
  <2> QED
    BY <2>3, <2>4
<1> QED
  BY <1>3, <1>4, <1>5 DEF Dialog

LEMMA StartDocKeeps ==
    ASSUME PrintInv, StartDoc
    PROVE  PrintInv'
<1> USE DEF PrintInv
<1>1. /\ job.at = "start" /\ job.spool = "none" /\ job.sent = <<>> /\ ~job.cancelled
      /\ job.pages = ParsePageRanges(job.asked_for)
  BY DEF StartDoc, JobOpen, PagesSent, CancelSeen
<1>2. PICK s : /\ s = [job EXCEPT !.flag = "clear"]
               /\ job' = ShowError(s, "exit")
                  \/ job' = Goto([s EXCEPT !.spool = "open", !.active = TRUE], "progress")
  BY DEF StartDoc
<1>3. /\ s \in Jobs /\ s.flag = "clear" /\ s.at = job.at /\ s.then = job.then
      /\ s.active = job.active /\ s.cancelled = job.cancelled /\ s.late = job.late
      /\ SamePages(job, s) /\ SameSpool(job, s) /\ SameWindow(job, s) /\ SameQuit(job, s)
  BY <1>2 DEF Jobs, SamePages, SameSpool, SameWindow, SameQuit
<1>4. CASE job' = ShowError(s, "exit")
  BY <1>1, <1>3, <1>4, BoxKeeps DEF SamePages, SameSpool
<1>5. CASE job' = Goto([s EXCEPT !.spool = "open", !.active = TRUE], "progress")
  <2>1. PICK t : t = [s EXCEPT !.spool = "open", !.active = TRUE]
    OBVIOUS
  <2>2. /\ t \in Jobs /\ t.spool = "open" /\ t.active = TRUE /\ t.flag = s.flag
        /\ t.settled = s.settled /\ t.ok = s.ok /\ t.cancelled = s.cancelled /\ t.late = s.late
        /\ SamePages(s, t) /\ SameWindow(s, t) /\ SameQuit(s, t)
    BY <1>3, <2>1 DEF Jobs, SamePages, SameWindow, SameQuit
  <2>3. /\ job' \in Jobs /\ job'.at = "progress"
        /\ SamePages(t, job') /\ SameSpool(t, job') /\ SameFlag(t, job')
        /\ SameWindow(t, job') /\ SameQuit(t, job')
    BY <1>5, <2>1, <2>2, GotoIs DEF PrintPlaces
  <2>4. JobOpen'
    BY <1>1, <1>3, <2>2, <2>3 DEF JobOpen, OpenPlaces, SameSpool, SameFlag
  <2>5. PagesSent'
    <3>1. /\ job'.pages = job.pages /\ job'.sent = <<>> /\ job'.asked_for = job.asked_for
          /\ job'.spool = "open"
      BY <1>1, <1>3, <2>2, <2>3 DEF SamePages, SameSpool
    <3>2. Len(job'.sent) = 0 /\ Len(job'.pages) \in Nat
      BY <2>3, <3>1 DEF Jobs
    <3> QED
      BY <1>1, <2>3, <3>1, <3>2 DEF PagesSent, AtPage
  <2>6. CancelSeen'
    BY <1>1, <1>3, <2>2, <2>3 DEF CancelSeen, SameFlag, SameSpool
  <2>7. LeavesNothing' /\ InputGiven'
    BY <1>3, <2>2, <2>3 DEF LeavesNothing, InputGiven, SameWindow, SameFlag, SameQuit
  <2> QED
    BY <2>3, <2>4, <2>5, <2>6, <2>7
<1> QED
  BY <1>2, <1>4, <1>5

LEMMA ProgressKeeps ==
    ASSUME PrintInv, Progress
    PROVE  PrintInv'
<1> USE DEF PrintInv
<1>1. job.at = "progress" /\ job.spool = "open" /\ job.flag \in {"clear", "set"}
      /\ (job.cancelled => job.flag = "set")
  BY InTheLoop DEF Progress
<1>2. CASE job' = Fail(job)
  BY <1>1, <1>2, FailKeeps
<1>3. CASE job' # Fail(job)
  <2>1. PICK s : s = [job EXCEPT !.dlg = TRUE, !.enabled = FALSE]
    OBVIOUS
  <2>2. /\ s \in Jobs /\ s.dlg = TRUE /\ s.main = job.main
        /\ SamePages(job, s) /\ SameSpool(job, s) /\ SameFlag(job, s) /\ SameQuit(job, s)
    BY <2>1 DEF Jobs, SamePages, SameSpool, SameFlag, SameQuit
  <2>3. /\ job' \in Jobs /\ job'.at = "loop"
        /\ SamePages(s, job') /\ SameSpool(s, job') /\ SameFlag(s, job')
        /\ SameWindow(s, job') /\ SameQuit(s, job')
    BY <1>3, <2>1, <2>2, GotoIs DEF Progress, PrintPlaces
  <2>4. JobOpen'
    BY <1>1, <2>2, <2>3 DEF JobOpen, OpenPlaces, SameSpool, SameFlag
  <2>5. PagesSent'
    BY <1>1, <2>2, <2>3 DEF PagesSent, AtPage, SamePages, SameSpool, SameFlag
  <2>6. CancelSeen'
    BY <1>1, <2>2, <2>3 DEF CancelSeen, SameFlag, SameSpool
  <2>7. LeavesNothing' /\ InputGiven'
    BY <1>1, <2>2, <2>3 DEF LeavesNothing, InputGiven, SameWindow, SameFlag, SameQuit
  <2> QED
    BY <2>3, <2>4, <2>5, <2>6, <2>7
<1> QED
  BY <1>2, <1>3

\* The job is over, and the destructors are next.
LEMMA ExitKeeps ==
    ASSUME PrintInv, NEW s \in Jobs, s.spool # "open", job' = Goto(s, "exit"),
           s.settled = (IF s.spool = "none" THEN 0 ELSE 1), s.ok <=> s.spool = "ended",
           SamePages(job, s), SameFlag(job, s), SameWindow(job, s), SameQuit(job, s),
           s.spool = "ended" => s.sent = s.pages /\ ~s.cancelled,
           s.spool = "none" <=> job.spool = "none"
    PROVE  PrintInv'
<1> USE DEF PrintInv
<1>1. /\ job' \in Jobs /\ job'.at = "exit"
      /\ SamePages(s, job') /\ SameSpool(s, job') /\ SameFlag(s, job')
      /\ SameWindow(s, job') /\ SameQuit(s, job')
  BY GotoIs DEF PrintPlaces
<1>2. JobOpen'
  BY <1>1 DEF JobOpen, OpenPlaces, SameSpool, Jobs
<1>3. PagesSent'
  BY <1>1 DEF PagesSent, AtPage, SamePages, SameSpool, SameFlag
<1>4. CancelSeen'
  BY <1>1 DEF CancelSeen, SameFlag, SameSpool
<1>5. LeavesNothing' /\ InputGiven'
  BY <1>1 DEF LeavesNothing, InputGiven, SameWindow, SameFlag, SameQuit
<1> QED
  BY <1>1, <1>2, <1>3, <1>4, <1>5

LEMMA DoneKeeps ==
    ASSUME PrintInv, Done
    PROVE  PrintInv'
<1> USE DEF PrintInv
<1>1. job.at = "done" /\ job.spool = "open" /\ job.settled = 0 /\ (job.ok <=> FALSE)
      /\ (job.cancelled => job.flag = "set")
  BY InTheLoop DEF Done, JobOpen
<1>2. CASE job.flag = "set"
  <2>1. job' = Goto(AbortDoc(job), "exit")
    BY <1>2 DEF Done
  <2>2. PICK s : s = AbortDoc(job)
    OBVIOUS
  <2>3. /\ s \in Jobs /\ s.spool = "aborted" /\ s.settled = 1 /\ s.ok = job.ok
        /\ SamePages(job, s) /\ SameFlag(job, s) /\ SameWindow(job, s) /\ SameQuit(job, s)
    BY <1>1, <2>2, AbortIs
  <2> QED
    BY <1>1, <2>1, <2>2, <2>3, ExitKeeps
<1>3. CASE job.flag # "set"
  <2>1. job' = Goto([EndDoc(job) EXCEPT !.ok = TRUE], "exit")
    BY <1>3 DEF Done
  <2>2. PICK t : t = EndDoc(job)
    OBVIOUS
  <2>3. PICK s : s = [t EXCEPT !.ok = TRUE]
    OBVIOUS
  <2>4. t = [job EXCEPT !.spool = "ended", !.settled = 1]
    BY <1>1, <2>2 DEF EndDoc
  <2>5. /\ t \in Jobs /\ t.spool = "ended" /\ t.settled = 1
        /\ SamePages(job, t) /\ SameFlag(job, t) /\ SameWindow(job, t) /\ SameQuit(job, t)
    BY <2>4 DEF Jobs, SamePages, SameFlag, SameWindow, SameQuit
  <2>6. /\ s \in Jobs /\ s.spool = "ended" /\ s.settled = 1 /\ s.ok = TRUE
        /\ SamePages(job, s) /\ SameFlag(job, s) /\ SameWindow(job, s) /\ SameQuit(job, s)
    BY <2>3, <2>5 DEF Jobs, SamePages, SameFlag, SameWindow, SameQuit
  <2>7. job.sent = job.pages
    <3>1. /\ job.sent \in Seq(PageNumbers) /\ job.pages \in Seq(PageNumbers)
          /\ Len(job.sent) = Len(job.pages)
          /\ \A i \in 1 .. Len(job.sent) : job.sent[i] = job.pages[i]
      BY <1>1, <1>3 DEF Jobs, PagesSent
    <3> QED
      BY <3>1, SeqEqual
  <2>8. s.sent = s.pages /\ ~s.cancelled
    BY <1>1, <1>3, <2>6, <2>7 DEF SamePages, SameFlag
  <2> QED
    BY <1>1, <2>1, <2>2, <2>3, <2>6, <2>8, ExitKeeps
<1> QED
  BY <1>2, <1>3

LEMMA ReturnKeeps ==
    ASSUME PrintInv, Exit
    PROVE  PrintInv'
<1> USE DEF PrintInv
<1>1. job.at = "exit" /\ job.spool # "open"
  BY DEF Exit, JobOpen, OpenPlaces
<1>2. PICK e \in BOOLEAN : (e <=> job.enabled \/ job.dlg) /\
        job' = [job EXCEPT !.at = "returned", !.enabled = e, !.dlg = FALSE, !.active = FALSE,
                           !.flag = "dead"]
  BY DEF Exit
<1>3. /\ job' \in Jobs /\ job'.at = "returned" /\ job'.enabled = e /\ ~job'.dlg /\ ~job'.active
      /\ job'.main = job.main /\ job'.cancelled = job.cancelled /\ job'.late = job.late
      /\ SamePages(job, job') /\ SameSpool(job, job') /\ SameQuit(job, job')
  <2>1. "returned" \in PrintPlaces
    BY DEF PrintPlaces
  <2>2. PICK s : s = [job EXCEPT !.at = "returned", !.enabled = e, !.dlg = FALSE]
    OBVIOUS
  <2>3. job' = [s EXCEPT !.active = FALSE, !.flag = "dead"]
    BY <1>2, <2>2
  <2>4. /\ s \in Jobs /\ s.at = "returned" /\ s.enabled = e /\ ~s.dlg
        /\ s.main = job.main /\ s.cancelled = job.cancelled /\ s.late = job.late
        /\ SamePages(job, s) /\ SameSpool(job, s) /\ SameQuit(job, s)
    BY <2>1, <2>2 DEF Jobs, SamePages, SameSpool, SameQuit
  <2> QED
    BY <2>3, <2>4 DEF Jobs, SamePages, SameSpool, SameQuit
<1>4. JobOpen'
  BY <1>1, <1>3 DEF JobOpen, OpenPlaces, SameSpool
<1>5. PagesSent'
  BY <1>1, <1>3 DEF PagesSent, AtPage, SamePages, SameSpool
<1>6. CancelSeen'
  BY <1>1, <1>3 DEF CancelSeen, SameSpool
<1>7. LeavesNothing' /\ InputGiven'
  BY <1>2, <1>3 DEF LeavesNothing, InputGiven, SameQuit
<1> QED
  BY <1>3, <1>4, <1>5, <1>6, <1>7

LEMMA AbortProcKeeps ==
    ASSUME PrintInv, AbortProc
    PROVE  PrintInv'
<1> USE DEF PrintInv
<1>1. /\ job.at \in {"page", "blit", "end"} /\ job.spool = "open" /\ (job.cancelled => job.flag = "set")
      /\ Len(job.sent) < Len(job.pages)
  BY InTheLoop DEF AbortProc
<1>2. job' = [job EXCEPT !.at = "callback", !.then = job.at]
  BY DEF AbortProc
<1>3. /\ job' \in Jobs /\ job'.at = "callback" /\ job'.then = job.at
      /\ SamePages(job, job') /\ SameSpool(job, job') /\ SameFlag(job, job')
      /\ SameWindow(job, job') /\ SameQuit(job, job')
  BY <1>1, <1>2 DEF Jobs, PrintPlaces, SamePages, SameSpool, SameFlag, SameWindow, SameQuit
<1>4. JobOpen'
  BY <1>1, <1>3 DEF JobOpen, OpenPlaces, SameSpool, SameFlag
<1>5. PagesSent'
  BY <1>1, <1>3 DEF PagesSent, AtPage, SamePages, SameSpool, SameFlag
<1>6. CancelSeen'
  BY <1>1, <1>3 DEF CancelSeen, SameFlag, SameSpool
<1>7. LeavesNothing' /\ InputGiven'
  BY <1>3 DEF LeavesNothing, InputGiven, SameWindow, SameFlag, SameQuit
<1> QED
  BY <1>3, <1>4, <1>5, <1>6, <1>7

LEMMA CancelledKeeps ==
    ASSUME PrintInv, Cancel
    PROVE  PrintInv'
<1> USE DEF PrintInv
<1>1. job.at \in {"pump", "callback", "box"} /\ job.dlg
  BY DEF Cancel, Pumping
<1>2. PICK x \in BOOLEAN : (x <=> job.cancelled \/ job.spool = "open") /\
        job' = [job EXCEPT !.flag = "set", !.cancelled = x]
  BY DEF Cancel
<1>3. /\ job' \in Jobs /\ job'.at = job.at /\ job'.then = job.then /\ job'.flag = "set"
      /\ job'.cancelled = x /\ job'.active = job.active /\ job'.late = job.late
      /\ SamePages(job, job') /\ SameSpool(job, job') /\ SameWindow(job, job') /\ SameQuit(job, job')
  BY <1>2 DEF Jobs, SamePages, SameSpool, SameWindow, SameQuit
<1>4. JobOpen'
  BY <1>3 DEF JobOpen, OpenPlaces, SameSpool
<1>5. PagesSent'
  <2>1. job.spool # "ended"
    BY <1>1 DEF JobOpen
  <2> QED
    BY <1>1, <1>3, <2>1 DEF PagesSent, AtPage, SamePages, SameSpool
<1>6. CancelSeen'
  BY <1>2, <1>3 DEF CancelSeen, SameSpool
<1>7. LeavesNothing' /\ InputGiven'
  BY <1>1, <1>3 DEF LeavesNothing, InputGiven, SameWindow, SameQuit
<1> QED
  BY <1>3, <1>4, <1>5, <1>6, <1>7

LEMMA CloseMainKeeps ==
    ASSUME PrintInv, CloseMain
    PROVE  PrintInv'
<1> USE DEF PrintInv
<1>1. job.at \in {"pump", "callback", "box"} /\ (job.at = "box" <=> job.spool # "open")
  BY DEF CloseMain, Pumping, JobOpen, OpenPlaces
<1>2. PICK x \in BOOLEAN : (x <=> job.cancelled \/ job.spool = "open") /\
        job' = [job EXCEPT !.main = FALSE, !.dlg = FALSE, !.quit = TRUE, !.told = TRUE, !.cancelled = x]
  BY DEF CloseMain
<1>3. /\ job' \in Jobs /\ job'.at = job.at /\ job'.then = job.then /\ job'.flag = job.flag
      /\ job'.cancelled = x /\ job'.active = job.active /\ job'.late = job.late
      /\ ~job'.main /\ ~job'.dlg /\ job'.quit /\ job'.told
      /\ SamePages(job, job') /\ SameSpool(job, job')
  <2>1. PICK s : s = [job EXCEPT !.main = FALSE, !.dlg = FALSE]
    OBVIOUS
  <2>2. job' = [s EXCEPT !.quit = TRUE, !.told = TRUE, !.cancelled = x]
    BY <1>2, <2>1
  <2>3. /\ s \in Jobs /\ s.at = job.at /\ s.then = job.then /\ s.flag = job.flag
        /\ s.active = job.active /\ s.late = job.late /\ ~s.main /\ ~s.dlg
        /\ SamePages(job, s) /\ SameSpool(job, s)
    BY <2>1 DEF Jobs, SamePages, SameSpool
  <2> QED
    BY <2>2, <2>3 DEF Jobs, SamePages, SameSpool
<1>4. JobOpen'
  BY <1>3 DEF JobOpen, OpenPlaces, SameSpool
<1>5. PagesSent'
  <2>1. job.spool # "ended"
    BY <1>1 DEF JobOpen
  <2> QED
    BY <1>1, <1>3, <2>1 DEF PagesSent, AtPage, SamePages, SameSpool
<1>6. CancelSeen'
  BY <1>1, <1>2, <1>3 DEF CancelSeen, SameSpool
<1>7. LeavesNothing' /\ InputGiven'
  BY <1>1, <1>3 DEF LeavesNothing, InputGiven
<1> QED
  BY <1>3, <1>4, <1>5, <1>6, <1>7


LEMMA PumpQuitKeeps ==
    ASSUME PrintInv, PumpQuit
    PROVE  PrintInv'
<1> USE DEF PrintInv
<1>1. /\ job.at \in {"pump", "callback"} /\ job.quit /\ job.spool = "open" /\ job.active
      /\ Len(job.sent) < Len(job.pages)
  BY InTheLoop DEF PumpQuit, JobOpen
<1>2. PICK s : s = [job EXCEPT !.quit = TRUE, !.flag = "set"] /\ job' = Resume(s)
  BY DEF PumpQuit
<1>3. /\ s \in Jobs /\ s.at = job.at /\ s.then = job.then /\ s.flag = "set" /\ s.quit = TRUE
      /\ s.active = job.active /\ s.cancelled = job.cancelled /\ s.late = job.late
      /\ s.told = job.told
      /\ SamePages(job, s) /\ SameSpool(job, s) /\ SameWindow(job, s)
  BY <1>2 DEF Jobs, SamePages, SameSpool, SameWindow
<1>4. CASE job.at = "pump"
  <2>1. job' = Goto(s, "page")
    BY <1>2, <1>3, <1>4 DEF Resume
  <2>2. /\ job' \in Jobs /\ job'.at = "page" /\ SamePages(s, job') /\ SameSpool(s, job')
        /\ SameFlag(s, job') /\ SameWindow(s, job') /\ SameQuit(s, job')
    BY <1>3, <2>1, GotoIs DEF PrintPlaces
  <2>3. JobOpen'
    BY <1>1, <1>3, <2>2 DEF JobOpen, OpenPlaces, SameSpool, SameFlag
  <2>4. PagesSent'
    BY <1>1, <1>3, <2>2 DEF PagesSent, AtPage, SamePages, SameSpool, SameFlag
  <2>5. CancelSeen'
    BY <1>1, <1>3, <1>4, <2>2 DEF CancelSeen, SameFlag, SameSpool
  <2>6. LeavesNothing' /\ InputGiven'
    BY <1>1, <1>3, <2>2 DEF LeavesNothing, InputGiven, SameWindow, SameFlag, SameQuit
  <2> QED
    BY <2>2, <2>3, <2>4, <2>5, <2>6
<1>5. CASE job.at = "callback"
  <2>1. job' = Fail(s)
    BY <1>2, <1>3, <1>5 DEF Resume
  <2>2. /\ job' \in Jobs /\ job'.at = "box" /\ job'.then = "exit"
        /\ job'.spool = "aborted" /\ job'.settled = s.settled + 1 /\ job'.ok = s.ok
        /\ SamePages(s, job') /\ SameFlag(s, job') /\ SameWindow(s, job') /\ SameQuit(s, job')
    BY <1>3, <2>1, FailIs
  <2>3. JobOpen'
    BY <1>1, <1>3, <2>2 DEF JobOpen, OpenPlaces, SameSpool
  <2>4. PagesSent'
    BY <1>1, <1>3, <2>2 DEF PagesSent, AtPage, SamePages, SameSpool
  <2>5. CancelSeen'
    BY <1>1, <1>3, <2>2 DEF CancelSeen, SameFlag
  <2>6. LeavesNothing' /\ InputGiven'
    BY <1>1, <1>3, <2>2 DEF LeavesNothing, InputGiven, SameWindow, SameFlag, SameQuit
  <2> QED
    BY <2>2, <2>3, <2>4, <2>5, <2>6
<1> QED
  BY <1>1, <1>4, <1>5

LEMMA PumpEndsKeeps ==
    ASSUME PrintInv, PumpEnds
    PROVE  PrintInv'
<1>1. /\ job.at \in {"pump", "callback", "box"} /\ (job.at = "box" \/ ~job.quit)
      /\ job' = Resume(job)
  BY DEF PumpEnds, Pumping
<1>2. CASE job.at = "pump"
  <2>1. job' = Goto(job, "page") /\ "page" \in OpenPlaces
    BY <1>1, <1>2 DEF Resume, OpenPlaces
  <2>2. /\ job.spool = "open" /\ Len(job.sent) < Len(job.pages) /\ job.late = 0
        /\ (job.cancelled => job.flag = "set")
    BY <1>1, <1>2, InTheLoop DEF PrintInv, CancelSeen
  <2> QED
    BY <2>1, <2>2, TurnKeeps
<1>3. CASE job.at = "callback"
  <2>1. /\ job.spool = "open" /\ Len(job.sent) < Len(job.pages) /\ job.flag \in {"clear", "set"}
        /\ job.then \in {"page", "blit", "end"} /\ (job.then = "page" => job.late = 0)
        /\ (job.cancelled => job.flag = "set")
    BY <1>1, <1>3, InTheLoop DEF PrintInv, JobOpen, CancelSeen
  <2>2. CASE job.flag = "set"
    <3>1. job' = Fail(job)
      BY <1>1, <1>3, <2>2 DEF Resume
    <3> QED
      BY <2>1, <3>1, FailKeeps
  <2>3. CASE job.flag = "clear"
    <3>1. job' = Goto(job, job.then) /\ job.then \in OpenPlaces
      BY <1>1, <1>3, <2>1, <2>3 DEF Resume, OpenPlaces
    <3> QED
      BY <2>1, <2>3, <3>1, TurnKeeps
  <2> QED
    BY <2>1, <2>2, <2>3
<1>4. CASE job.at = "box"
  <2>1. /\ job \in Jobs /\ job.then = "exit" /\ job.spool \in {"none", "aborted"}
        /\ job.settled = (IF job.spool = "none" THEN 0 ELSE 1) /\ (job.ok <=> job.spool = "ended")
    BY <1>4 DEF PrintInv, JobOpen, OpenPlaces, Jobs
  <2>2. job' = Goto(job, "exit")
    BY <1>1, <1>4, <2>1 DEF Resume
  <2>3. SamePages(job, job) /\ SameFlag(job, job) /\ SameWindow(job, job) /\ SameQuit(job, job)
    BY DEF SamePages, SameFlag, SameWindow, SameQuit
  <2> QED
    BY <2>1, <2>2, <2>3, ExitKeeps
<1> QED
  BY <1>1, <1>2, <1>3, <1>4

LEMMA PrintStepKeeps ==
    ASSUME PrintInv, [PrintNext]_job
    PROVE  PrintInv'
<1>1. CASE UNCHANGED job
  BY <1>1 DEF PrintInv, JobOpen, PagesSent, AtPage, CancelSeen, LeavesNothing, InputGiven
<1>2. CASE PrintNext
  BY <1>2, ConfigKeeps, DialogKeeps, StartDocKeeps, ProgressKeeps, NextPageKeeps, StartPageKeeps,
     PlainStepsKeep, EndPageKeeps, DoneKeeps, ReturnKeeps, AbortProcKeeps, CancelledKeeps,
     CloseMainKeeps, PumpQuitKeeps, PumpEndsKeeps DEF PrintNext
<1> QED
  BY <1>1, <1>2

\* The pages of an answer, counted against the ranges it names.
LEMMA PagesCounted ==
    ASSUME NEW a \in Asks \cup {All}, NEW p \in PageNumbers
    PROVE  LET ranges == IF a = All THEN <<PageRange(1, NPages)>> ELSE a
           IN  Cardinality(PlacesOf(ParsePageRanges(a), p))
               = Cardinality({i \in DOMAIN ranges : Names(ranges[i], p)})
<1>1. NPages \in Nat /\ p \in Nat /\ p < NPages
  BY PrintConstants DEF PageNumbers
<1>2. CASE a = All
  <2> DEFINE one == <<PageRange(1, NPages)>>
  <2>1. ParsePageRanges(a) = [i \in 1 .. NPages |-> i - 1]
    BY <1>2 DEF ParsePageRanges
  <2>2. PlacesOf(ParsePageRanges(a), p) = {p + 1}
    BY <1>1, <2>1 DEF PlacesOf
  <2>3. DOMAIN one = {1} /\ one[1].from = 1 /\ one[1].to = NPages
    BY DEF PageRange
  <2> HIDE DEF one
  <2>4. {i \in DOMAIN one : Names(one[i], p)} = {1}
    BY <1>1, <2>3 DEF Names
  <2>5. Cardinality({p + 1}) = 1 /\ Cardinality({1}) = 1
    BY FS_Singleton
  <2> QED
    BY <1>2, <2>2, <2>4, <2>5 DEF one
<1>3. CASE a # All
  <2> DEFINE R == [from : Nat, to : Nat]
  <2>1. a \in Seq(R)
    BY <1>3, PrintConstants
  <2>2. Holds(FlattenSeq([i \in DOMAIN a |-> RangePages(a[i])]), p, Cardinality(Naming(a, p, Len(a))))
    BY <2>1, RangesHold
  <2>3. ParsePageRanges(a) = FlattenSeq([i \in DOMAIN a |-> RangePages(a[i])])
    BY <1>3 DEF ParsePageRanges
  <2>4. DOMAIN a = 1..Len(a)
    <3> HIDE DEF R
    <3> QED
      BY <2>1, ElementOfSeq
  <2>5. Naming(a, p, Len(a)) = {i \in DOMAIN a : Names(a[i], p)}
    BY <2>4 DEF Naming
  <2> QED
    BY <1>3, <2>2, <2>3, <2>5 DEF Holds
<1> QED
  BY <1>2, <1>3

LEMMA InvPagesAsked == PrintInv => PagesAsked
<1> SUFFICES ASSUME PrintInv, job.spool # "none" PROVE
      LET ranges == IF job.asked_for = All THEN <<PageRange(1, NPages)>> ELSE job.asked_for
          names(r, p) == 0 < r.from /\ r.from <= p + 1 /\ p + 1 <= r.to
      IN  /\ ToSet(job.pages) \subseteq 0 .. NPages - 1
          /\ \A p \in 0 .. NPages - 1 :
                Cardinality({i \in DOMAIN job.pages : job.pages[i] = p})
                = Cardinality({i \in DOMAIN ranges : names(ranges[i], p)})
          /\ IsPrefix(job.sent, job.pages)
  BY DEF PagesAsked
<1>1. /\ job.asked_for \in Asks \cup {All} /\ job.pages = ParsePageRanges(job.asked_for)
      /\ job.pages \in Seq(PageNumbers) /\ job.sent \in Seq(PageNumbers)
      /\ Len(job.sent) <= Len(job.pages)
      /\ \A i \in 1 .. Len(job.sent) : job.sent[i] = job.pages[i]
  BY DEF PrintInv, PagesSent, Jobs
<1>2. ToSet(job.pages) \subseteq PageNumbers
  BY <1>1, ElementOfSeq DEF ToSet
<1>3. IsPrefix(job.sent, job.pages)
  <2>1. Len(job.sent) \in Nat /\ Len(job.pages) \in Nat
    BY <1>1
  <2>2. SubSeq(job.sent, 1, Len(job.sent)) = SubSeq(job.pages, 1, Len(job.sent))
    BY <1>1, <2>1, IsASeq
  <2> QED
    BY <1>1, <2>2 DEF IsPrefix
<1>4. \A p \in PageNumbers :
        LET ranges == IF job.asked_for = All THEN <<PageRange(1, NPages)>> ELSE job.asked_for
        IN  Cardinality(PlacesOf(job.pages, p)) = Cardinality({i \in DOMAIN ranges : Names(ranges[i], p)})
  BY <1>1, PagesCounted
<1> QED
  BY <1>2, <1>3, <1>4 DEF PlacesOf, Names, PageNumbers

(* A print job is settled once whatever fails and whatever its pumps       *)
(* dispatch: it is ended only when each page asked for was sent, in order, *)
(* and nobody had cancelled; after a cancel at most the page whose pump    *)
(* dispatched it begins; and run leaves the main window enabled, no dialog *)
(* or pointer behind, and every WM_QUIT where it was (PrintJob::run).      *)
THEOREM PrintAlwaysSettled == PrintSpec => []PrintSettled
<1>1. PrintInv => PrintSettled
  <2> SUFFICES ASSUME PrintInv PROVE PrintSettled
    OBVIOUS
  <2>1. EndedOnce
    BY DEF PrintInv, EndedOnce, JobOpen, PagesSent, OpenPlaces
  <2>2. CancelStops
    BY DEF PrintInv, CancelStops, CancelSeen
  <2>3. LeavesNothing /\ PagesAsked
    BY InvPagesAsked DEF PrintInv
  <2> QED
    BY <2>1, <2>2, <2>3 DEF PrintSettled
<1>2. PrintInv /\ [PrintNext]_job => PrintInv'
  BY PrintStepKeeps
<1> QED
  BY <1>1, <1>2, PrintInitInv, PTL DEF PrintSpec

-----------------------------------------------------------------------------
(* The thumbnails.                                                         *)

PaneJobs  == [page : AllPages, id : Nat \ {0}, state : {"queued", "cancelled", "running"}]
PanePosts == [kind : {"cancelled", "bitmap", "failed"}, page : AllPages, id : Nat \ {0}]

PaneTypes ==
    /\ cache \in Seq(AllPages) /\ renders \in [AllPages -> Nat] /\ last_id \in Nat
    /\ jobs \subseteq PaneJobs /\ posts \in Seq(PanePosts)

\* A request is with a worker or in an answer, and under a number of its own.
OwnIds ==
    /\ \A j \in jobs : j.id <= last_id /\ \A k \in jobs : j.id = k.id => j = k
    /\ \A i \in DOMAIN posts : posts[i].id <= last_id /\ \A j \in jobs : posts[i].id # j.id

\* The record of a page is that of its queued request, unless an older answer
\* dropped it.
QueuedRecorded ==
    \A j \in jobs : j.state = "queued" /\ j.page \notin overtaken => renders[j.page] = j.id

PaneInv == PaneTypes /\ RowServed /\ RecordBacked /\ CacheBounded /\ OwnIds /\ QueuedRecorded

LEMMA PaneStart == PaneInit => PaneInv
<1> SUFFICES ASSUME PaneInit PROVE PaneInv
  OBVIOUS
<1>1. PaneTypes
  BY DEF PaneInit, PaneTypes, NothingPending
<1>2. RowServed /\ RecordBacked
  BY DEF PaneInit, RowServed, RecordBacked, NothingPending
<1>3. CacheBounded
  BY PaneConstants DEF PaneInit, CacheBounded, IsInjective
<1>4. OwnIds /\ QueuedRecorded
  BY DEF PaneInit, OwnIds, QueuedRecorded
<1> QED
  BY <1>1, <1>2, <1>3, <1>4 DEF PaneInv

\* No two requests of one page are queued, however late a notice comes.
LEMMA PaneNoPair == PaneInv => NoPair
<1> SUFFICES ASSUME PaneInv, NEW p \in AllPages \ overtaken
             PROVE  Cardinality({j \in jobs : j.page = p /\ j.state = "queued"}) <= 1
  BY DEF NoPair
<1> DEFINE Q == {j \in jobs : j.page = p /\ j.state = "queued"}
<1>1. \A j, k \in Q : j = k
  BY DEF PaneInv, QueuedRecorded, OwnIds
<1>2. Q = {} \/ \E j : Q = {j}
  BY <1>1
<1> HIDE DEF Q
<1>3. CASE Q = {}
  <2>1. Cardinality(Q) = 0
    BY <1>3, FS_EmptySet
  <2> QED
    BY <2>1 DEF Q
<1>4. CASE \E j : Q = {j}
  <2>1. PICK j : Q = {j}
    BY <1>4
  <2>2. Cardinality(Q) = 1
    BY <2>1, FS_Singleton
  <2> QED
    BY <2>2 DEF Q
<1> QED
  BY <1>2, <1>3, <1>4

\* The bitmap of a page drawn, or of one that came.
LEMMA PutKeeps ==
    ASSUME PaneInv, NEW p \in AllPages
    PROVE  /\ put(p) \in Seq(AllPages) /\ Len(put(p)) <= ThumbCap /\ IsInjective(put(p))
           /\ p \in Cached => get(p) = put(p)
<1>1. /\ cache \in Seq(AllPages) /\ Len(cache) <= ThumbCap /\ IsInjective(cache)
      /\ Len(cache) \in Nat /\ ThumbCap \in Nat \ {0}
  BY PaneConstants DEF PaneInv, PaneTypes, CacheBounded
<1>2. CASE p \in Cached
  <2> DEFINE rest == Only(cache, Cached \ {p})
  <2>1. /\ rest \in Seq(AllPages) /\ IsInjective(rest)
        /\ ToSet(rest) = ToSet(cache) \cap (Cached \ {p})
    BY <1>1, OnlyIs
  <2>2. p \in ToSet(cache) \ (Cached \ {p})
    BY <1>2 DEF Cached
  <2>3. Len(rest) < Len(cache) /\ Len(rest) \in Nat
    BY <1>1, <2>1, <2>2, OnlyShorter
  <2>4. p \notin ToSet(rest)
    BY <2>1
  <2> HIDE DEF rest
  <2>5. /\ <<p>> \o rest \in Seq(AllPages) /\ Len(<<p>> \o rest) = Len(rest) + 1
        /\ IsInjective(<<p>> \o rest)
    BY <2>1, <2>4, InFrontOf
  <2>6. put(p) = <<p>> \o rest /\ get(p) = put(p)
    BY <1>2 DEF put, get, InFront, rest
  <2> QED
    BY <1>1, <2>3, <2>5, <2>6
<1>3. CASE p \notin Cached
  <2> DEFINE n == IF Len(cache) < ThumbCap THEN Len(cache) ELSE ThumbCap - 1
             front == SubSeq(cache, 1, n)
  <2>1. n \in 0..Len(cache) /\ n + 1 <= ThumbCap
    BY <1>1
  <2> HIDE DEF n
  <2>2. /\ front \in Seq(AllPages) /\ Len(front) = n /\ IsInjective(front)
        /\ ToSet(front) \subseteq ToSet(cache)
    BY <1>1, <2>1, FirstOnes
  <2>3. p \notin ToSet(front)
    BY <1>3, <2>2 DEF Cached
  <2> HIDE DEF front
  <2>4. /\ <<p>> \o front \in Seq(AllPages) /\ Len(<<p>> \o front) = Len(front) + 1
        /\ IsInjective(<<p>> \o front)
    BY <2>2, <2>3, InFrontOf
  <2>5. put(p) = <<p>> \o front
    BY <1>3 DEF put, front, n
  <2> QED
    BY <1>3, <2>1, <2>2, <2>4, <2>5
<1> QED
  BY <1>2, <1>3

\* A step that keeps requests, records and answers need only see to the rows.
LEMMA RowsOnly ==
    ASSUME PaneInv, UNCHANGED <<cache, renders, last_id, jobs, posts, overtaken>>, RowServed'
    PROVE  PaneInv'
BY DEF PaneInv, PaneTypes, RecordBacked, CacheBounded, OwnIds, QueuedRecorded

\* Every queued request is cancelled, on the spot or by the engine.
Cancelled == {IF j.state = "queued" THEN [j EXCEPT !.state = "cancelled"] ELSE j : j \in jobs}

LEMMA CancelledAre ==
    ASSUME PaneInv, jobs' = Cancelled, UNCHANGED <<posts, last_id>>
    PROVE  /\ jobs' \subseteq PaneJobs /\ OwnIds'
           /\ \A j \in jobs : \E k \in jobs' : k.page = j.page /\ k.id = j.id
           /\ \A k \in jobs' : k.state # "queued"
<1> DEFINE past(j) == IF j.state = "queued" THEN [j EXCEPT !.state = "cancelled"] ELSE j
<1>1. \A j \in PaneJobs : /\ past(j) \in PaneJobs /\ past(j).page = j.page /\ past(j).id = j.id
                          /\ past(j).state # "queued"
  BY DEF PaneJobs
<1>2. jobs' = {past(j) : j \in jobs}
  BY DEF Cancelled
<1>3. jobs \subseteq PaneJobs
  BY DEF PaneInv, PaneTypes
<1> HIDE DEF past
<1>4. \A k \in jobs' : \E j \in jobs : k = past(j) /\ k.id = j.id
  BY <1>1, <1>2, <1>3
<1>5. OwnIds'
  <2>1. \A j, k \in jobs' : j.id <= last_id /\ (j.id = k.id => j = k)
    BY <1>4 DEF PaneInv, OwnIds
  <2>2. \A i \in DOMAIN posts : posts[i].id <= last_id /\ \A j \in jobs' : posts[i].id # j.id
    BY <1>4 DEF PaneInv, OwnIds
  <2> QED
    BY <2>1, <2>2 DEF OwnIds
<1> QED
  BY <1>1, <1>2, <1>3, <1>5

LEMMA DropKeeps ==
    ASSUME PaneInv, jobs' = Cancelled, UNCHANGED <<posts, last_id, overtaken>>, RowServed',
           renders' \in {renders, NothingPending}, cache' \in {cache, <<>>}
    PROVE  PaneInv'
<1>1. /\ jobs' \subseteq PaneJobs /\ OwnIds'
      /\ \A j \in jobs : \E k \in jobs' : k.page = j.page /\ k.id = j.id
      /\ \A k \in jobs' : k.state # "queued"
  BY CancelledAre
<1>2. PaneTypes'
  <2>1. NothingPending \in [AllPages -> Nat] /\ <<>> \in Seq(AllPages)
    BY DEF NothingPending
  <2>2. renders' \in [AllPages -> Nat] /\ cache' \in Seq(AllPages)
    BY <2>1 DEF PaneInv, PaneTypes
  <2> QED
    BY <1>1, <2>2 DEF PaneInv, PaneTypes
<1>3. RecordBacked'
  <2>1. CASE renders' = NothingPending
    BY <2>1 DEF RecordBacked, NothingPending
  <2>2. CASE renders' = renders
    BY <1>1, <2>2 DEF PaneInv, RecordBacked
  <2> QED
    BY <2>1, <2>2
<1>4. CacheBounded'
  BY PaneConstants DEF PaneInv, CacheBounded, IsInjective
<1>5. QueuedRecorded'
  BY <1>1 DEF QueuedRecorded
<1> QED
  BY <1>1, <1>2, <1>3, <1>4, <1>5 DEF PaneInv

LEMMA DrawRowKeeps == ASSUME PaneInv, NEW p \in AllPages, DrawRow(p) PROVE PaneInv'
<1>1. UNCHANGED <<pane_shown, top_row, posts, failed, overtaken>> /\ dirty' = dirty \ {p}
  BY DEF DrawRow
<1>2. VisibleRows' = VisibleRows
  BY <1>1 DEF VisibleRows, VisibleFrom
<1>3. CASE p \in Cached /\ cache' = get(p) /\ blank' = blank \ {p} /\ UNCHANGED <<renders, last_id, jobs>>
  <2>1. cache' \in Seq(AllPages) /\ CacheBounded'
    BY <1>3, PutKeeps DEF CacheBounded
  <2>2. PaneTypes' /\ OwnIds' /\ RecordBacked' /\ QueuedRecorded'
    BY <1>1, <1>3, <2>1 DEF PaneInv, PaneTypes, OwnIds, RecordBacked, QueuedRecorded
  <2>3. RowServed'
    BY <1>1, <1>2, <1>3 DEF PaneInv, RowServed, Asked, Told
  <2> QED
    BY <2>1, <2>2, <2>3 DEF PaneInv
<1>4. CASE /\ renders[p] # 0 /\ blank' = blank \cup {p} /\ UNCHANGED <<renders, last_id, jobs, cache>>
  <2>1. PaneTypes' /\ OwnIds' /\ RecordBacked' /\ QueuedRecorded' /\ CacheBounded'
    BY <1>1, <1>4 DEF PaneInv, PaneTypes, OwnIds, RecordBacked, QueuedRecorded, CacheBounded
  <2>2. Asked(p) \/ Told(p)
    BY <1>4 DEF PaneInv, RecordBacked, Asked, Told
  <2>3. RowServed'
    BY <1>1, <1>2, <1>4, <2>2 DEF PaneInv, RowServed, Asked, Told
  <2> QED
    BY <2>1, <2>3 DEF PaneInv
<1>5. CASE /\ renders[p] = 0 /\ last_id' = last_id + 1 /\ blank' = blank \cup {p}
           /\ renders' = [renders EXCEPT ![p] = last_id']
           /\ jobs' = jobs \cup {[page |-> p, id |-> last_id', state |-> "queued"]}
           /\ UNCHANGED cache
  <2> DEFINE new == [page |-> p, id |-> last_id', state |-> "queued"]
  <2>1. /\ new \in PaneJobs /\ new.page = p /\ new.id = last_id + 1 /\ new.state = "queued"
        /\ last_id \in Nat /\ last_id' \in Nat
    BY <1>5 DEF PaneInv, PaneTypes, PaneJobs
  <2>2. jobs' = jobs \cup {new}
    BY <1>5
  <2> HIDE DEF new
  <2>3. /\ renders' \in [AllPages -> Nat] /\ renders'[p] = new.id
        /\ \A q \in AllPages \ {p} : renders'[q] = renders[q]
    BY <1>5, <2>1 DEF PaneInv, PaneTypes
  <2>4. PaneTypes' /\ CacheBounded'
    BY <1>1, <1>5, <2>1, <2>2, <2>3 DEF PaneInv, PaneTypes, CacheBounded
  <2>5. \A j \in jobs : j \in PaneJobs /\ j.id \in Nat /\ j.id # 0 /\ j.page \in AllPages
    BY DEF PaneInv, PaneTypes, PaneJobs
  <2>6. \A i \in DOMAIN posts : posts[i].id \in Nat
    <3>1. \A i \in DOMAIN posts : posts[i] \in PanePosts
      BY DEF PaneInv, PaneTypes
    <3> QED
      BY <3>1 DEF PanePosts
  <2>7. OwnIds'
    <3>1. \A j \in jobs' : j.id <= last_id' /\ \A k \in jobs' : j.id = k.id => j = k
      BY <1>5, <2>1, <2>2, <2>5 DEF PaneInv, OwnIds
    <3>2. \A i \in DOMAIN posts : posts[i].id <= last_id' /\ \A j \in jobs' : posts[i].id # j.id
      BY <2>1, <2>2, <2>6, <1>5 DEF PaneInv, OwnIds
    <3> QED
      BY <1>1, <3>1, <3>2 DEF OwnIds
  <2>8. RecordBacked'
    BY <1>1, <2>1, <2>2, <2>3 DEF PaneInv, RecordBacked
  <2>9. QueuedRecorded'
    <3> SUFFICES ASSUME NEW j \in jobs', j.state = "queued", j.page \notin overtaken
                 PROVE  renders'[j.page] = j.id
      BY <1>1 DEF QueuedRecorded
    <3>1. CASE j = new
      BY <2>1, <2>3, <3>1
    <3>2. CASE j \in jobs
      <4>1. renders[j.page] = j.id /\ j.id # 0 /\ j.page \in AllPages
        BY <2>5, <3>2 DEF PaneInv, QueuedRecorded
      <4> QED
        BY <1>5, <2>3, <4>1
    <3> QED
      BY <2>2, <3>1, <3>2
  <2>10. RowServed'
    <3>1. Asked(p)' /\ \A q : Asked(q) => Asked(q)'
      BY <2>1, <2>2 DEF Asked
    <3>2. \A q : Told(q) => Told(q)'
      BY <1>1 DEF Told
    <3> QED
      BY <1>1, <1>2, <1>5, <3>1, <3>2 DEF PaneInv, RowServed
  <2> QED
    BY <2>4, <2>7, <2>8, <2>9, <2>10 DEF PaneInv
<1> QED
  BY <1>3, <1>4, <1>5 DEF DrawRow

LEMMA KickedKeeps == ASSUME PaneInv, Kicked PROVE PaneInv'
<1>1. jobs' = Cancelled /\ UNCHANGED <<pane_shown, top_row, cache, renders, last_id, posts, dirty, blank, failed, overtaken>>
  BY DEF Kicked, Cancelled
<1>2. \A j \in jobs : \E k \in jobs' : k.page = j.page
  BY <1>1, CancelledAre
<1>3. RowServed'
  BY <1>1, <1>2 DEF PaneInv, RowServed, Asked, Told, VisibleRows, VisibleFrom
<1> QED
  BY <1>1, <1>3, DropKeeps

\* A worker takes a request.
LEMMA BeginsKeeps == ASSUME PaneInv, Begins PROVE PaneInv'
<1>1. PICK j \in jobs : /\ j.state = "queued" /\ jobs' = (jobs \ {j}) \cup {[j EXCEPT !.state = "running"]}
                        /\ UNCHANGED <<pane_shown, top_row, cache, renders, last_id, posts, dirty, blank,
                                       failed, overtaken>>
  BY DEF Begins
<1> DEFINE now == [j EXCEPT !.state = "running"]
<1>2. /\ now \in PaneJobs /\ now.page = j.page /\ now.id = j.id /\ now.state = "running"
      /\ jobs \subseteq PaneJobs
  BY <1>1 DEF PaneInv, PaneTypes, PaneJobs
<1>3. jobs' = (jobs \ {j}) \cup {now}
  BY <1>1
<1> HIDE DEF now
<1>4. PaneTypes' /\ CacheBounded'
  BY <1>1, <1>2, <1>3 DEF PaneInv, PaneTypes, CacheBounded
<1>5. OwnIds'
  BY <1>1, <1>2, <1>3 DEF PaneInv, OwnIds
<1>6. RecordBacked'
  BY <1>1, <1>2, <1>3 DEF PaneInv, RecordBacked
<1>7. QueuedRecorded'
  BY <1>1, <1>2, <1>3 DEF PaneInv, QueuedRecorded
<1>8. RowServed'
  BY <1>1, <1>2, <1>3 DEF PaneInv, RowServed, Asked, Told, VisibleRows, VisibleFrom
<1> QED
  BY <1>4, <1>5, <1>6, <1>7, <1>8 DEF PaneInv

\* A request becomes an answer.
LEMMA AnswersKeeps == ASSUME PaneInv, Answers PROVE PaneInv'
<1>1. PICK j \in jobs :
        /\ j.state # "queued" /\ jobs' = jobs \ {j}
        /\ \E kind \in {"cancelled", "bitmap", "failed"} :
              posts' = Append(posts, [kind |-> kind, page |-> j.page, id |-> j.id])
        /\ UNCHANGED <<pane_shown, top_row, cache, renders, last_id, dirty, blank, failed, overtaken>>
  BY DEF Answers
<1>2. j \in PaneJobs /\ j.page \in AllPages /\ j.id \in Nat \ {0} /\ j.id <= last_id /\ posts \in Seq(PanePosts)
  BY DEF PaneInv, PaneTypes, PaneJobs, OwnIds
<1>3. PICK m \in PanePosts : posts' = Append(posts, m) /\ m.page = j.page /\ m.id = j.id
  <2>1. PICK kind \in {"cancelled", "bitmap", "failed"} :
          posts' = Append(posts, [kind |-> kind, page |-> j.page, id |-> j.id])
    BY <1>1
  <2> QED
    BY <1>2, <2>1 DEF PanePosts
<1>4. /\ posts' \in Seq(PanePosts) /\ Len(posts) \in Nat
      /\ DOMAIN posts = 1..Len(posts) /\ DOMAIN posts' = 1..Len(posts) + 1
      /\ \A i \in 1..Len(posts) : posts'[i] = posts[i]
      /\ posts'[Len(posts) + 1] = m
  BY <1>2, <1>3, AppendProperties
<1>5. \A i \in DOMAIN posts' : (i \in DOMAIN posts /\ posts'[i] = posts[i]) \/ posts'[i] = m
  BY <1>4
<1>6. /\ \A i \in DOMAIN posts : i \in DOMAIN posts' /\ posts'[i] = posts[i]
      /\ \E i \in DOMAIN posts' : posts'[i] = m
  BY <1>4
<1>7. PaneTypes' /\ CacheBounded'
  BY <1>1, <1>4 DEF PaneInv, PaneTypes, CacheBounded
<1>8. OwnIds'
  <2>1. \A i \in DOMAIN posts' : posts'[i].id <= last_id /\ \A k \in jobs' : posts'[i].id # k.id
    BY <1>1, <1>2, <1>3, <1>5 DEF PaneInv, OwnIds
  <2> QED
    BY <1>1, <2>1 DEF PaneInv, OwnIds
<1>9. RecordBacked'
  BY <1>1, <1>3, <1>6 DEF PaneInv, RecordBacked
<1>10. QueuedRecorded'
  BY <1>1 DEF PaneInv, QueuedRecorded
<1>11. RowServed'
  <2>1. \A p : Asked(p) \/ Told(p) => Asked(p)' \/ Told(p)'
    BY <1>1, <1>3, <1>6 DEF Asked, Told
  <2> QED
    BY <1>1, <2>1 DEF PaneInv, RowServed, VisibleRows, VisibleFrom
<1> QED
  BY <1>7, <1>8, <1>9, <1>10, <1>11 DEF PaneInv

\* The list window takes an answer.
LEMMA HandledKeeps == ASSUME PaneInv, Handled PROVE PaneInv'
<1> DEFINE m == Head(posts)
<1>1. /\ posts # <<>> /\ posts' = Tail(posts) /\ (THUMB_READY(m) \/ THUMB_CANCELED(m))
      /\ UNCHANGED <<pane_shown, top_row, last_id, jobs, blank>>
  BY DEF Handled
<1>2. posts \in Seq(PanePosts)
  BY DEF PaneInv, PaneTypes
<1>3. /\ m \in PanePosts /\ 1 \in DOMAIN posts /\ posts[1] = m
      /\ posts' \in Seq(PanePosts) /\ Len(posts) \in Nat /\ Len(posts') = Len(posts) - 1
      /\ \A i \in 1..Len(posts) - 1 : posts'[i] = posts[i + 1]
  BY <1>1, <1>2, HeadTailProperties
<1>4. m.page \in AllPages /\ m.id \in Nat /\ m.id # 0
  BY <1>3 DEF PanePosts
<1> HIDE DEF m
<1>5. /\ \A i \in DOMAIN posts : posts[i] = m \/ \E k \in DOMAIN posts' : posts'[k] = posts[i]
      /\ \A k \in DOMAIN posts' : \E i \in DOMAIN posts : posts'[k] = posts[i]
  <2>1. \A i \in 1..Len(posts) : i = 1 \/ (i - 1 \in 1..Len(posts) - 1 /\ posts'[i - 1] = posts[i])
    BY <1>3
  <2>2. \A k \in 1..Len(posts) - 1 : k + 1 \in 1..Len(posts)
    BY <1>3
  <2>3. DOMAIN posts = 1..Len(posts) /\ DOMAIN posts' = 1..Len(posts) - 1
    BY <1>2, <1>3
  <2> QED
    BY <1>3, <2>1, <2>2, <2>3
<1>6. OwnIds'
  BY <1>1, <1>5 DEF PaneInv, OwnIds
<1>7. VisibleRows' = VisibleRows
  BY <1>1 DEF VisibleRows, VisibleFrom
<1>8. renders' \in [AllPages -> Nat] /\ \A p \in AllPages \ {m.page} : renders'[p] = renders[p]
  <2>1. renders' = renders \/ renders' = [renders EXCEPT ![m.page] = 0]
    BY <1>1 DEF THUMB_READY, THUMB_CANCELED, on_canceled
  <2>2. renders \in [AllPages -> Nat]
    BY DEF PaneInv, PaneTypes
  <2> QED
    BY <1>4, <2>1, <2>2
<1>9. renders'[m.page] = 0 \/ (renders'[m.page] = renders[m.page] /\ renders[m.page] # m.id)
  BY <1>1, <1>4 DEF PaneInv, PaneTypes, THUMB_READY, THUMB_CANCELED, on_canceled
<1>10. RecordBacked'
  <2> SUFFICES ASSUME NEW p \in AllPages, renders'[p] # 0
               PROVE  \/ \E j \in jobs' : j.page = p /\ j.id = renders'[p]
                      \/ \E i \in DOMAIN posts' : posts'[i].page = p /\ posts'[i].id = renders'[p]
    BY DEF RecordBacked
  <2>1. renders'[p] = renders[p] /\ (p = m.page => renders[p] # m.id)
    BY <1>8, <1>9
  <2> QED
    BY <1>1, <1>5, <2>1 DEF PaneInv, RecordBacked
<1>11. CASE THUMB_READY(m)
  <2>1. /\ renders'[m.page] = 0
        /\ overtaken' = IF Overtakes(m) THEN overtaken \cup {m.page} ELSE overtaken
        /\ failed' = IF m.kind = "failed" THEN failed \cup {m.page} ELSE failed \ {m.page}
        /\ cache' = (IF m.kind = "bitmap" THEN put(m.page) ELSE cache)
        /\ dirty' = (IF m.kind = "bitmap" THEN Redrawn({m.page}) ELSE dirty)
        /\ m.kind \in {"bitmap", "failed"}
    BY <1>3, <1>4, <1>11 DEF THUMB_READY, PaneInv, PaneTypes, PanePosts
  <2>2. cache' \in Seq(AllPages) /\ CacheBounded'
    BY <1>4, <2>1, PutKeeps DEF PaneInv, PaneTypes, CacheBounded
  <2>3. PaneTypes'
    BY <1>1, <1>3, <1>8, <2>2 DEF PaneInv, PaneTypes
  <2>4. QueuedRecorded'
    <3> SUFFICES ASSUME NEW j \in jobs, j.state = "queued", j.page \notin overtaken'
                 PROVE  renders'[j.page] = j.id
      BY <1>1 DEF QueuedRecorded
    <3>1. j.page \notin overtaken /\ renders[j.page] = j.id /\ j.page \in AllPages /\ j.id # 0
      BY <2>1 DEF PaneInv, QueuedRecorded, PaneTypes, PaneJobs
    <3>2. CASE j.page = m.page
      <4>1. m.id # j.id
        BY <1>3 DEF PaneInv, OwnIds
      <4>2. Overtakes(m)
        BY <3>1, <3>2, <4>1 DEF Overtakes
      <4> QED
        BY <2>1, <3>2, <4>2
    <3>3. CASE j.page # m.page
      BY <1>8, <3>1, <3>3
    <3> QED
      BY <3>2, <3>3
  <2>5. RowServed'
    <3> SUFFICES ASSUME NEW p \in VisibleRows \cap blank, p \notin dirty' \cup failed', ~Asked(p)'
                 PROVE  Told(p)'
      BY <1>1, <1>7 DEF RowServed
    <3>1. p # m.page
      BY <2>1 DEF Redrawn
    <3>2. p \notin dirty \cup failed /\ ~Asked(p)
      BY <1>1, <2>1, <3>1 DEF Redrawn, Asked
    <3>3. Told(p)
      BY <3>2 DEF PaneInv, RowServed
    <3> QED
      BY <1>5, <3>1, <3>3 DEF Told
  <2> QED
    BY <1>6, <1>10, <2>2, <2>3, <2>4, <2>5 DEF PaneInv
<1>12. CASE THUMB_CANCELED(m)
  <2>1. /\ UNCHANGED <<cache, failed, overtaken>>
        /\ renders[m.page] \in {0, m.id} => dirty' = Redrawn({m.page})
        /\ renders[m.page] \notin {0, m.id} => dirty' = dirty
        /\ renders'[m.page] = IF renders[m.page] = m.id THEN 0 ELSE renders[m.page]
    BY <1>4, <1>12 DEF THUMB_CANCELED, on_canceled, PaneInv, PaneTypes
  <2>2. PaneTypes' /\ CacheBounded'
    BY <1>1, <1>3, <1>8, <2>1 DEF PaneInv, PaneTypes, CacheBounded
  <2>3. QueuedRecorded'
    <3> SUFFICES ASSUME NEW j \in jobs, j.state = "queued", j.page \notin overtaken
                 PROVE  renders'[j.page] = j.id
      BY <1>1, <2>1 DEF QueuedRecorded
    <3>1. renders[j.page] = j.id /\ j.page \in AllPages /\ m.id # j.id
      BY <1>3 DEF PaneInv, QueuedRecorded, PaneTypes, PaneJobs, OwnIds
    <3> QED
      BY <1>8, <2>1, <3>1
  <2>4. RowServed'
    <3> SUFFICES ASSUME NEW p \in VisibleRows \cap blank, p \notin dirty' \cup failed
                 PROVE  Asked(p)' \/ Told(p)'
      BY <1>1, <1>7, <2>1 DEF RowServed
    <3>1. p \notin dirty \cup failed
      BY <2>1 DEF Redrawn
    <3>2. CASE p # m.page
      <4>1. Asked(p) \/ Told(p)
        BY <3>1 DEF PaneInv, RowServed
      <4> QED
        BY <1>1, <1>5, <3>2, <4>1 DEF Asked, Told
    <3>3. CASE p = m.page
      <4>1. renders[p] \notin {0, m.id}
        BY <2>1, <3>3 DEF Redrawn
      <4>2. \/ \E j \in jobs : j.page = p /\ j.id = renders[p]
            \/ \E i \in DOMAIN posts : posts[i].page = p /\ posts[i].id = renders[p]
        BY <1>4, <3>3, <4>1 DEF PaneInv, RecordBacked
      <4> QED
        BY <1>1, <1>5, <4>1, <4>2 DEF Asked, Told
    <3> QED
      BY <3>2, <3>3
  <2> QED
    BY <1>6, <1>10, <2>2, <2>3, <2>4 DEF PaneInv
<1> QED
  BY <1>1, <1>11, <1>12

\* What the reader does to the pane.
LEMMA ScenesKeep ==
    ASSUME PaneInv,
           \/ \E t \in AllPages : Scrolled(t)
           \/ Hide \/ Show \/ SwitchedTo \/ on_dpi_changed
           \/ \E p \in AllPages : set_current_page(p)
    PROVE  PaneInv'
<1>1. CASE (\E t \in AllPages : Scrolled(t)) \/ Show
  <2>1. UNCHANGED <<cache, renders, last_id, jobs, posts, overtaken>> /\ blank' = {}
    BY <1>1 DEF Scrolled, Show
  <2> QED
    BY <2>1, RowsOnly DEF RowServed
<1>2. CASE Hide \/ SwitchedTo \/ on_dpi_changed
  <2>1. /\ jobs' = Cancelled /\ renders' = NothingPending /\ cache' \in {cache, <<>>}
        /\ UNCHANGED <<posts, last_id, overtaken>> /\ blank' = {}
    BY <1>2 DEF Hide, SwitchedTo, on_dpi_changed, cancel_in_flight, Cancelled
  <2> QED
    BY <2>1, DropKeeps DEF RowServed
<1>3. ASSUME NEW p \in AllPages, set_current_page(p) PROVE PaneInv'
  <2>1. UNCHANGED <<pane_shown, cache, renders, last_id, jobs, posts, failed, overtaken>>
    BY <1>3 DEF set_current_page
  <2>2. CASE top_row' = top_row /\ dirty' = Redrawn({current, p}) /\ UNCHANGED blank
    <3>1. RowServed'
      BY <2>1, <2>2 DEF PaneInv, RowServed, Redrawn, Asked, Told, VisibleRows, VisibleFrom
    <3> QED
      BY <2>1, <3>1, RowsOnly
  <2>3. CASE blank' = {}
    BY <2>1, <2>3, RowsOnly DEF RowServed
  <2> QED
    BY <1>3, <2>2, <2>3 DEF set_current_page
<1> QED
  BY <1>1, <1>2, <1>3

\* The pane of a document of any length, with a cache of any size, whatever
\* the reader scrolls, hides and turns and in whatever order the engine answers:
\* a placeholder the reader sees is waiting for something or has failed, a
\* record never outlives its request, the cache is within its bound, and no late
\* notice makes a page wait twice (ThumbnailPane.cpp, ThumbRequests.hpp).
THEOREM TilesAlwaysServed == PaneSpec => []TilesServed
<1>1. PaneInv /\ [PaneNext]_thumbVars => PaneInv'
  <2> SUFFICES ASSUME PaneInv, [PaneNext]_thumbVars PROVE PaneInv'
    OBVIOUS
  <2>1. CASE PaneWork
    BY <2>1, DrawRowKeeps, BeginsKeeps, AnswersKeeps, HandledKeeps DEF PaneWork
  <2>2. CASE UNCHANGED thumbVars
    <3>1. RowServed'
      BY <2>2 DEF PaneInv, RowServed, thumbVars, Asked, Told, VisibleRows, VisibleFrom
    <3> QED
      BY <2>2, <3>1, RowsOnly DEF thumbVars
  <2> QED
    BY <2>1, <2>2, KickedKeeps, ScenesKeep DEF PaneNext
<1>2. PaneInv => TilesServed
  BY PaneNoPair DEF PaneInv, TilesServed
<1> QED
  BY <1>1, <1>2, PaneStart, PTL DEF PaneSpec

-----------------------------------------------------------------------------
(* The continuous strip.                                                   *)
(*                                                                         *)
(* A slot says what its page waits for or shows; the requests, the bitmaps *)
(* and the view are elsewhere.  The invariant ties them together: numbers  *)
(* (Numbered), bitmaps (BitmapsHeld, OnlyHeld), the pages on screen        *)
(* (Served), and the place of the viewport in its layout (StripPlaced),    *)
(* without which a relayout could bring another page on screen.            *)

\* The parameters a page can be rendered at; NoPar is none of them.
Pars == [zoom : Zooms, inv : BOOLEAN]
Pages == DOMAIN PageH

IsViewport(sv) == DOMAIN sv = {"layout", "vp_h", "y", "current", "pinned", "travel"}

\* A layout of the document's pages, at one of the presets.
LayoutOK(l) ==
    /\ l.zoom \in Zooms
    /\ l.tops \in [Pages -> Int] /\ l.heights \in [Pages -> Nat \ {0}] /\ l.total \in Int

\* A viewport, with a layout or before it has one.
ViewportOK(sv) ==
    /\ IsViewport(sv)
    /\ sv.y \in Int /\ sv.vp_h \in Nat \ {0}
    /\ sv.layout = NoLayout \/ LayoutOK(sv.layout)

\* The four kinds of slot and what each carries.
SlotOK(slot) ==
    \/ slot = NoneSlot
    \/ slot = ReadySlot(slot.par) /\ slot.par \in Pars
    \/ slot = FailedSlot(slot) /\ slot.priority \in {0, 1}
    \/ /\ slot = [kind |-> "Pending", seq |-> slot.seq, priority |-> slot.priority,
                  par |-> slot.par, stale |-> slot.stale]
       /\ slot.seq \in Nat /\ slot.priority \in {0, 1}
       /\ slot.par \in Pars /\ slot.stale \in Pars \cup {NoPar}

\* A request, as the engine was given it.
ReqOK(r) ==
    /\ DOMAIN r = {"epoch", "page", "seq", "par", "flag"}
    /\ r.seq \in Nat /\ r.flag \in BOOLEAN

\* The fields of the strip.
IsStrip(s) ==
    DOMAIN s = {"strip", "epoch", "next_seq", "rt", "sv", "zoom", "inv", "slots", "bitmaps", "last",
                "reqs", "lost", "bare"}

\* Its types.
StripTypes(s) ==
    /\ IsStrip(s)
    /\ s.strip \in BOOLEAN /\ s.inv \in BOOLEAN /\ s.rt \in BOOLEAN
    /\ s.next_seq \in Nat /\ s.zoom \in Zooms /\ s.epoch \in Nat
    /\ ViewportOK(s.sv)
    /\ s.slots = [p \in DOMAIN s.slots |-> s.slots[p]]
    /\ \A p \in DOMAIN s.slots : SlotOK(s.slots[p])
    /\ s.bitmaps = [p \in DOMAIN s.bitmaps |-> s.bitmaps[p]]
    /\ \A r \in s.reqs : ReqOK(r)

PendingAt(s, p) == p \in DOMAIN s.slots /\ s.slots[p].kind = "Pending"

\* Requests have numbers of their own, and a slot that waits has the number of
\* the request that was made for its page, unless its answer is lost.
Numbered(s) ==
    /\ \A r \in s.reqs : r.seq <= s.next_seq
    /\ \A q, r \in s.reqs : q.seq = r.seq => q = r
    /\ \A p \in DOMAIN s.slots : PendingAt(s, p) =>
         /\ s.slots[p].seq <= s.next_seq
         /\ s.slots[p].par = s.last
         /\ s.slots[p].seq \in s.lost \/ \E r \in s.reqs : r.seq = s.slots[p].seq
         /\ \A r \in s.reqs : r.seq = s.slots[p].seq =>
               r.page = p /\ r.epoch = s.epoch /\ r.par = s.slots[p].par
    /\ \A p, q \in DOMAIN s.slots :
         PendingAt(s, p) /\ PendingAt(s, q) /\ s.slots[p].seq = s.slots[q].seq => p = q

\* The parameters of the bitmap that a slot holds.
ShownPar(slot) == IF slot.kind = "Ready" THEN slot.par ELSE slot.stale

\* The bitmap of a slot that holds one is there, and is that one.
BitmapsHeld(s) ==
    \A p \in DOMAIN s.slots : slot_holds_bitmap(s.slots[p]) =>
        p \in DOMAIN s.bitmaps /\ s.bitmaps[p] = [epoch |-> s.epoch, par |-> ShownPar(s.slots[p])]

\* No bitmap is kept that no slot holds.
OnlyHeld(s) ==
    \A p \in DOMAIN s.bitmaps : p \in DOMAIN s.slots /\ slot_holds_bitmap(s.slots[p])

\* A page in view is drawn, asked for at priority 0, failed, or has no target.
PageServed(s, p) ==
    LET slot == SlotAt(s, p) IN
    \/ slot = ReadySlot(Params(s))
    \/ /\ slot.kind = "Pending" /\ slot.priority = 0 /\ slot.par = Params(s)
       /\ \/ slot.seq \in s.lost
          \/ \E r \in s.reqs : r.seq = slot.seq /\ r.epoch = s.epoch /\ ~r.flag
    \/ slot.kind = "Failed" /\ slot.priority = 0
    \/ slot.kind = "None" /\ p \in s.bare

\* While a strip is shown its slots are for the view's parameters, and no page
\* in view is forgotten.
Served(s) ==
    strip_active(s) => s.last = Params(s) /\ \A p \in visible(s.sv) : PageServed(s, p)

Sound(s) == StripTypes(s) /\ Numbered(s) /\ BitmapsHeld(s)

-----------------------------------------------------------------------------
(* The layout and the viewport are numbers.                                *)

\* The pages are numbered from 0, and there are finitely many.
LEMMA PagesAre ==
    /\ Cardinality(Pages) \in Nat /\ Pages = 0..(Cardinality(Pages) - 1)
    /\ IsFiniteSet(Pages)
    /\ \A p \in Pages : p \in Int /\ PageH[p] \in Nat \ {0}
<1>1. /\ Cardinality(Pages) \in Nat /\ PageH \in [0..(Cardinality(Pages) - 1) -> Nat \ {0}]
  BY StripConstants DEF Pages
<1>2. Pages = 0..(Cardinality(Pages) - 1)
  BY <1>1 DEF Pages
<1>3. IsFiniteSet(Pages)
  BY <1>1, <1>2, FS_Interval
<1> QED
  BY <1>1, <1>2, <1>3

\* The offsets a layout is made of, page by page.
TopsFrom(g, zoom) ==
    [p \in 0..Cardinality(Pages) |-> IF p = 0 THEN Gap ELSE g[p - 1] + PageH[p - 1] * zoom + Gap]

\* The function that StripLayout chooses its offsets from is there.
LEMMA TopsExist ==
    ASSUME NEW zoom \in Zooms
    PROVE  \E f : /\ f = TopsFrom(f, zoom)
                  /\ StripLayout(PageH, zoom) =
                        [zoom |-> zoom, tops |-> [p \in Pages |-> f[p]],
                         heights |-> [p \in Pages |-> PageH[p] * zoom],
                         total |-> IF Cardinality(Pages) = 0 THEN 0 ELSE f[Cardinality(Pages)]]
<1> DEFINE n == Cardinality(Pages)
           Good(g, m) == \A i \in 0..n : i <= m => g[i] = TopsFrom(g, zoom)[i]
           N == {m \in Nat : \E g : Good(g, m)}
<1>0. n \in Nat
  BY PagesAre
<1> HIDE DEF n
<1>1. 0 \in N
  <2>1. Good(TopsFrom(<<>>, zoom), 0)
    BY <1>0 DEF TopsFrom, n
  <2> QED
    BY <2>1
<1>2. ASSUME NEW m \in Nat, m \in N
      PROVE  m + 1 \in N
  <2>1. PICK g : Good(g, m)
    BY <1>2
  <2>2. ASSUME NEW i \in 0..n, i <= m + 1
        PROVE  TopsFrom(g, zoom)[i] = TopsFrom(TopsFrom(g, zoom), zoom)[i]
    <3>1. CASE i = 0
      BY <1>0, <3>1 DEF TopsFrom, n
    <3>2. CASE i # 0
      <4>1. i - 1 \in 0..n /\ i - 1 <= m
        BY <1>0, <2>2, <3>2
      <4>2. g[i - 1] = TopsFrom(g, zoom)[i - 1]
        BY <2>1, <4>1
      <4> QED
        BY <4>2, <3>2 DEF TopsFrom, n
    <3> QED
      BY <3>1, <3>2
  <2>3. Good(TopsFrom(g, zoom), m + 1)
    BY <2>2
  <2> HIDE DEF Good
  <2> QED
    BY <2>3
<1>3. n \in N
  <2> HIDE DEF N
  <2> QED
    BY <1>0, <1>1, <1>2, NatSetInduction
<1>4. PICK g : Good(g, n)
  BY <1>3
<1>5. TopsFrom(g, zoom) = TopsFrom(TopsFrom(g, zoom), zoom)
  <2>1. \A i \in 0..n : i # 0 => i - 1 \in 0..n /\ g[i - 1] = TopsFrom(g, zoom)[i - 1]
    BY <1>0, <1>4
  <2> QED
    BY <2>1 DEF TopsFrom, n
<1>6. \E f : f = TopsFrom(f, zoom)
  BY <1>5
<1> DEFINE f == CHOOSE h : h = TopsFrom(h, zoom)
<1>7. f = TopsFrom(f, zoom)
  BY <1>6
<1>8. StripLayout(PageH, zoom) =
        [zoom |-> zoom, tops |-> [p \in Pages |-> f[p]],
         heights |-> [p \in Pages |-> PageH[p] * zoom],
         total |-> IF Cardinality(Pages) = 0 THEN 0 ELSE f[Cardinality(Pages)]]
  BY PagesAre DEF StripLayout, TopsFrom, Pages
<1> QED
  BY <1>7, <1>8

\* A layout for pages of positive heights is made of numbers.
LEMMA LayoutTyped ==
    ASSUME NEW zoom \in Zooms
    PROVE  LayoutOK(StripLayout(PageH, zoom)) /\ StripLayout(PageH, zoom) # NoLayout
<1> DEFINE n == Cardinality(Pages)
<1>1. PICK f : /\ f = TopsFrom(f, zoom)
               /\ StripLayout(PageH, zoom) =
                        [zoom |-> zoom, tops |-> [p \in Pages |-> f[p]],
                         heights |-> [p \in Pages |-> PageH[p] * zoom],
                         total |-> IF Cardinality(Pages) = 0 THEN 0 ELSE f[Cardinality(Pages)]]
  BY TopsExist
<1>2. n \in Nat /\ Pages = 0..(n - 1) /\ zoom \in Nat \ {0} /\ Gap \in Nat
  BY PagesAre, StripConstants
<1>3. f[0] = Gap /\ \A i \in 1..n : f[i] = f[i - 1] + PageH[i - 1] * zoom + Gap
  BY <1>1, <1>2 DEF TopsFrom
<1>4. \A p \in Pages : PageH[p] * zoom \in Nat \ {0}
  BY PagesAre, <1>2
<1> DEFINE N == {i \in Nat : i <= n => f[i] \in Int}
<1>5. \A i \in Nat : i \in N
  <2>1. 0 \in N
    BY <1>2, <1>3
  <2>2. ASSUME NEW i \in Nat, i \in N PROVE i + 1 \in N
    <3>1. CASE i + 1 <= n
      <4>1. i \in Pages /\ i + 1 \in 1..n /\ (i + 1) - 1 = i /\ f[i] \in Int
        BY <1>2, <2>2, <3>1
      <4>2. f[i + 1] = f[i] + PageH[i] * zoom + Gap
        BY <1>3, <4>1
      <4> QED
        BY <4>1, <4>2, <1>4, <1>2
    <3> QED
      BY <3>1
  <2> HIDE DEF N
  <2> QED
    BY <2>1, <2>2, NatSetInduction
<1>6. f[n] \in Int /\ \A p \in Pages : f[p] \in Int
  BY <1>2, <1>5
<1>7. LayoutOK(StripLayout(PageH, zoom))
  BY <1>1, <1>2, <1>4, <1>6 DEF LayoutOK
<1>8. StripLayout(PageH, zoom) # NoLayout
  BY <1>1, <1>2 DEF NoLayout
<1> QED
  BY <1>7, <1>8

\* A scroll position stays a number, clamped.
LEMMA ClampIsInt ==
    ASSUME NEW x \in Int, NEW l, LayoutOK(l), NEW h \in Int
    PROVE  clamp_strip_scroll(x, l, h) \in Int
BY DEF LayoutOK, clamp_strip_scroll, Clamped, max_scroll, Greater, Lesser, total_height

\* What move_to makes of a viewport, wherever it is sent.
LEMMA MovesOK ==
    ASSUME NEW sv, ViewportOK(sv), sv.layout # NoLayout, NEW y \in Int
    PROVE  LET t == move_to(sv, y) IN ViewportOK(t) /\ t.layout = sv.layout /\ t.vp_h = sv.vp_h
<1> DEFINE t == move_to(sv, y)
           to == clamp_strip_scroll(y, sv.layout, sv.vp_h)
           way == IF to > sv.y THEN "Down" ELSE IF to < sv.y THEN "Up" ELSE sv.travel
<1>1. to \in Int
  <2>1. LayoutOK(sv.layout) /\ sv.vp_h \in Int
    BY DEF ViewportOK
  <2> QED
    BY <2>1, ClampIsInt
<1>2. t = [sv EXCEPT !.y = to, !.travel = way]
  BY DEF move_to
<1> HIDE DEF to, t, way
<1>3. IsViewport(t) /\ t.layout = sv.layout /\ t.vp_h = sv.vp_h /\ t.y = to
  BY <1>2 DEF ViewportOK, IsViewport
<1>4. ViewportOK(t)
  BY <1>1, <1>3 DEF ViewportOK
<1> QED
  BY <1>3, <1>4 DEF t

\* Pinning a page moves nothing.
LEMMA PinsOK ==
    ASSUME NEW sv, ViewportOK(sv), NEW p
    PROVE  LET t == pin_page(sv, p) IN ViewportOK(t) /\ t.layout = sv.layout /\ t.vp_h = sv.vp_h
<1>1. LET t == pin_page(sv, p)
      IN IsViewport(t) /\ t.layout = sv.layout /\ t.vp_h = sv.vp_h /\ t.y = sv.y
  BY DEF ViewportOK, IsViewport, pin_page
<1> QED
  BY <1>1 DEF ViewportOK

\* navigate keeps the layout and the viewport's height.
LEMMA NavigateOK ==
    ASSUME NEW sv, ViewportOK(sv), sv.layout # NoLayout, NEW p \in Pages
    PROVE  /\ ViewportOK(navigate(sv, p))
           /\ navigate(sv, p).layout = sv.layout /\ navigate(sv, p).vp_h = sv.vp_h
<1>1. anchor(sv.layout, p) \in Int
  <2>1. LayoutOK(sv.layout)
    BY DEF ViewportOK
  <2>2. sv.layout.tops \in [Pages -> Int]
    BY <2>1 DEF LayoutOK
  <2>3. Gap \in Int
    BY StripConstants
  <2> QED
    BY <2>2, <2>3 DEF anchor, top
<1>2. /\ ViewportOK(move_to(sv, anchor(sv.layout, p)))
      /\ move_to(sv, anchor(sv.layout, p)).layout = sv.layout
      /\ move_to(sv, anchor(sv.layout, p)).vp_h = sv.vp_h
  BY <1>1, MovesOK
<1> QED
  BY <1>2, PinsOK DEF navigate

\* So does scroll_by.
LEMMA ScrollOK ==
    ASSUME NEW sv, ViewportOK(sv), sv.layout # NoLayout, NEW dy \in Int
    PROVE  /\ ViewportOK(scroll_by(sv, dy))
           /\ scroll_by(sv, dy).layout = sv.layout /\ scroll_by(sv, dy).vp_h = sv.vp_h
<1> DEFINE free == [sv EXCEPT !.pinned = FALSE]
<1>1. IsViewport(free) /\ free.layout = sv.layout /\ free.vp_h = sv.vp_h /\ free.y = sv.y
  BY DEF ViewportOK, IsViewport
<1>2. scroll_by(sv, dy) = move_to(free, sv.y + dy)
  BY DEF scroll_by, scroll_to
<1> HIDE DEF free
<1>3. ViewportOK(free) /\ sv.y + dy \in Int
  BY <1>1 DEF ViewportOK
<1> QED
  BY <1>1, <1>2, <1>3, MovesOK

\* Two viewports that show the same.
SameLook(a, b) == a.layout = b.layout /\ a.vp_h = b.vp_h /\ a.y = b.y /\ a.travel = b.travel

\* A new current page moves nothing either.
LEMMA CurrentOK ==
    ASSUME NEW sv, ViewportOK(sv)
    PROVE  LET t == recompute_current(sv) IN ViewportOK(t) /\ SameLook(t, sv)
<1> DEFINE at == IF sv.pinned THEN sv.current ELSE derive_current_page(sv.layout, sv.y, sv.vp_h)
           t == recompute_current(sv)
<1>1. t = [sv EXCEPT !.current = at]
  BY DEF recompute_current
<1> HIDE DEF at, t
<1>2. IsViewport(t) /\ SameLook(t, sv)
  BY <1>1 DEF ViewportOK, IsViewport, SameLook
<1>3. ViewportOK(t)
  BY <1>2 DEF ViewportOK, SameLook
<1> QED
  BY <1>2, <1>3 DEF t

\* A viewport of another height has the layout it had.
LEMMA ResizeOK ==
    ASSUME NEW sv, ViewportOK(sv), NEW h \in Heights
    PROVE  ViewportOK(set_viewport(sv, h)) /\ set_viewport(sv, h).layout = sv.layout
<1> DEFINE y == IF sv.layout # NoLayout THEN clamp_strip_scroll(sv.y, sv.layout, h) ELSE sv.y
           t == set_viewport(sv, h)
<1>1. h \in Nat \ {0} /\ h \in Int
  BY StripConstants
<1>2. y \in Int
  BY <1>1, ClampIsInt DEF ViewportOK
<1>3. t = [sv EXCEPT !.vp_h = h, !.y = y]
  BY DEF set_viewport, has_layout
<1> HIDE DEF y, t
<1>4. IsViewport(t) /\ t.layout = sv.layout /\ t.vp_h = h /\ t.y = y
  BY <1>3 DEF ViewportOK, IsViewport
<1>5. ViewportOK(t)
  BY <1>1, <1>2, <1>4 DEF ViewportOK
<1> QED
  BY <1>4, <1>5 DEF t

\* A new viewport has no layout.
LEMMA NewOK ==
    ASSUME NEW h \in Nat \ {0}
    PROVE  /\ ViewportOK(NewViewport(h))
           /\ NewViewport(h).layout = NoLayout /\ NewViewport(h).vp_h = h
BY DEF NewViewport, ViewportOK, IsViewport

\* A build gives it one.
LEMMA BuildOK ==
    ASSUME NEW sv, ViewportOK(sv), NEW zoom \in Zooms
    PROVE  LET t == build(sv, PageH, zoom)
           IN ViewportOK(t) /\ t.layout # NoLayout /\ t.vp_h = sv.vp_h
<1> DEFINE l == StripLayout(PageH, zoom)
           s == NewViewport(sv.vp_h)
           t == build(sv, PageH, zoom)
<1>1. LayoutOK(l) /\ l # NoLayout
  BY LayoutTyped
<1>2. t = [s EXCEPT !.layout = l]
  BY DEF build, reset
<1>3. ViewportOK(s) /\ s.vp_h = sv.vp_h
  BY NewOK DEF ViewportOK
<1> HIDE DEF l, s, t
<1>4. IsViewport(t) /\ t.layout = l /\ t.vp_h = sv.vp_h /\ t.y = s.y
  BY <1>2, <1>3 DEF ViewportOK, IsViewport
<1>5. ViewportOK(t)
  BY <1>1, <1>3, <1>4 DEF ViewportOK
<1> QED
  BY <1>1, <1>4, <1>5 DEF t

\* The last page of some of them.
LEMMA LastAbove ==
    ASSUME NEW S, S \subseteq Pages, S # {}
    PROVE  Max(S) \in S /\ \A p \in S : Max(S) >= p
<1> DEFINE n == Cardinality(Pages)
           N == {m \in Nat : m <= n => \/ \E p \in S : \A q \in S : p >= q
                                       \/ \A p \in S : p < n - m}
<1>1. n \in Nat /\ Pages = 0..(n - 1)
  BY PagesAre
<1> HIDE DEF n
<1>2. 0 \in N
  BY <1>1
<1>3. ASSUME NEW m \in Nat, m \in N PROVE m + 1 \in N
  <2> SUFFICES ASSUME m + 1 <= n, \A p \in S : p < n - m
               PROVE  \/ \E p \in S : \A q \in S : p >= q
                      \/ \A p \in S : p < n - (m + 1)
    BY <1>3, <1>1
  <2>0. \A p \in S : p \in Int /\ p <= n - (m + 1)
    BY <1>1
  <2>1. CASE n - (m + 1) \in S
    BY <2>0, <2>1
  <2>2. CASE n - (m + 1) \notin S
    BY <1>1, <2>0, <2>2
  <2> QED
    BY <2>1, <2>2
<1>4. n \in N
  <2> HIDE DEF N
  <2> QED
    BY <1>1, <1>2, <1>3, NatSetInduction
<1>5. \E p \in S : \A q \in S : p >= q
  <2>1. PICK p : p \in S
    OBVIOUS
  <2> QED
    BY <1>1, <1>4, <2>1
<1> QED
  BY <1>5 DEF Max

\* A point of one layout lies somewhere in another.
LEMMA PointIsInt ==
    ASSUME NEW l, LayoutOK(l), NEW next, LayoutOK(next), NEW y \in Int
    PROVE  y_of(next, position_at(l, y)) \in Int
<1> DEFINE at == Clamped(y, 0, total_height(l) - 1)
           above == {p \in PagesOf(l) : top(l, p) <= at}
           last == Max(above)
           pos == position_at(l, y)
<1>1. at \in Int /\ PagesOf(l) = Pages /\ above \subseteq Pages
  BY DEF LayoutOK, Clamped, Greater, Lesser, total_height, PagesOf
<1>2. above # {} => last \in Pages
  BY <1>1, LastAbove
<1>3. Gap \in Nat \ {0}
  BY StripConstants
<1> HIDE DEF at, last
<1>4. CASE above = {}
  <2>1. pos = [kind |-> "InGapAfter", page |-> NoPage, fraction |-> <<at, Gap>>]
    BY <1>4 DEF position_at, at
  <2>2. y_of(next, pos) = (at * Gap) \div Gap
    BY <2>1 DEF y_of
  <2> QED
    BY <2>2, <1>3, <1>1
<1>5. CASE above # {} /\ at < bottom(l, last)
  <2>1. pos = [kind |-> "InPage", page |-> last, fraction |-> <<at - top(l, last), height(l, last)>>]
    BY <1>5 DEF position_at, at, last
  <2>2. y_of(next, pos)
        = top(next, last) + ((at - top(l, last)) * height(next, last)) \div height(l, last)
    BY <2>1 DEF y_of
  <2>3. /\ top(next, last) \in Int /\ top(l, last) \in Int
        /\ height(next, last) \in Int /\ height(l, last) \in Nat \ {0}
    BY <1>2, <1>5 DEF LayoutOK, top, height
  <2>4. (at - top(l, last)) * height(next, last) \in Int
    BY <2>3, <1>1
  <2> QED
    BY <2>2, <2>3, <2>4
<1>6. CASE above # {} /\ ~(at < bottom(l, last))
  <2>1. pos = [kind |-> "InGapAfter", page |-> last, fraction |-> <<at - bottom(l, last), Gap>>]
    BY <1>6 DEF position_at, at, last
  <2>2. last # NoPage
    BY <1>2, <1>6, PagesAre DEF NoPage
  <2>3. y_of(next, pos) = bottom(next, last) + ((at - bottom(l, last)) * Gap) \div Gap
    BY <2>1, <2>2 DEF y_of
  <2>4. bottom(next, last) \in Int /\ bottom(l, last) \in Int
    BY <1>2, <1>6 DEF LayoutOK, top, height, bottom
  <2>5. (at - bottom(l, last)) * Gap \in Int
    BY <2>4, <1>1, <1>3
  <2> QED
    BY <2>3, <2>4, <2>5, <1>3
<1> QED
  BY <1>4, <1>5, <1>6

\* A relayout leaves a layout where there was one.
LEMMA RelayoutOK ==
    ASSUME NEW sv, ViewportOK(sv), NEW zoom \in Zooms
    PROVE  LET t == relayout(sv, PageH, zoom)
           IN ViewportOK(t) /\ (sv.layout # NoLayout => t.layout # NoLayout) /\ t.vp_h = sv.vp_h
<1> DEFINE next == StripLayout(PageH, zoom)
           y == y_of(next, position_at(sv.layout, sv.y))
           to == clamp_strip_scroll(y, next, sv.vp_h)
           t == relayout(sv, PageH, zoom)
<1>1. CASE ~has_layout(sv) \/ zoom = sv.layout.zoom
  BY <1>1 DEF relayout
<1>2. CASE ~(~has_layout(sv) \/ zoom = sv.layout.zoom)
  <2>1. LayoutOK(sv.layout) /\ LayoutOK(next) /\ next # NoLayout /\ sv.y \in Int /\ sv.vp_h \in Int
    BY <1>2, LayoutTyped DEF ViewportOK, has_layout
  <2>2. y \in Int
    BY <2>1, PointIsInt
  <2>3. to \in Int
    <3> HIDE DEF y, next
    <3> QED
      BY <2>1, <2>2, ClampIsInt
  <2>4. t = [sv EXCEPT !.layout = next, !.y = to]
    BY <1>2 DEF relayout, relayout_scroll
  <2> HIDE DEF to, next, t
  <2>5. IsViewport(t) /\ t.layout = next /\ t.vp_h = sv.vp_h /\ t.y = to
    BY <2>4 DEF ViewportOK, IsViewport
  <2>6. ViewportOK(t)
    BY <2>1, <2>3, <2>5 DEF ViewportOK
  <2> QED
    BY <2>1, <2>5, <2>6 DEF t
<1> QED
  BY <1>1, <1>2

\* The pages of a pass lie in what it keeps.
LEMMA PassPages ==
    ASSUME NEW sv, ViewportOK(sv), sv.layout # NoLayout
    PROVE  /\ visible(sv) \subseteq retain(sv) /\ prefetch(sv) \subseteq retain(sv)
           /\ retain(sv) \subseteq Pages
           /\ visible(sv) \cap prefetch(sv) = {}
<1>1. /\ LayoutOK(sv.layout) /\ sv.y \in Int /\ sv.vp_h \in Nat \ {0}
  BY DEF ViewportOK
<1>2. \A p \in Pages : top(sv.layout, p) \in Int /\ bottom(sv.layout, p) \in Int
  BY <1>1 DEF LayoutOK, top, bottom, height
<1>3. PagesOf(sv.layout) = Pages
  BY <1>1 DEF LayoutOK, PagesOf
<1> QED
  BY <1>1, <1>2, <1>3 DEF visible, retain, prefetch, prefetch_range, visible_pages

-----------------------------------------------------------------------------
(* A page's slot.                                                          *)

\* What a view renders its pages at.
LEMMA ParsReal == \A s : s.zoom \in Zooms /\ s.inv \in BOOLEAN => Params(s) \in Pars
BY DEF Params, Pars

\* No page is rendered at NoPar.
LEMMA NoParIsNone == NoPar \notin Pars
BY StripConstants DEF NoPar, Pars

\* The slots that the strip makes, and which of them hold a bitmap.
LEMMA SlotKinds ==
    /\ SlotOK(NoneSlot) /\ NoneSlot.kind = "None" /\ ~slot_holds_bitmap(NoneSlot)
    /\ \A par \in Pars : /\ SlotOK(ReadySlot(par)) /\ ReadySlot(par).kind = "Ready"
                         /\ ReadySlot(par).par = par /\ slot_holds_bitmap(ReadySlot(par))
    /\ \A slot : slot.priority \in {0, 1} =>
          /\ SlotOK(FailedSlot(slot)) /\ FailedSlot(slot).kind = "Failed"
          /\ FailedSlot(slot).priority = slot.priority /\ ~slot_holds_bitmap(FailedSlot(slot))
<1>1. SlotOK(NoneSlot) /\ NoneSlot.kind = "None" /\ ~slot_holds_bitmap(NoneSlot)
  BY DEF SlotOK, NoneSlot, slot_holds_bitmap
<1>2. ASSUME NEW par \in Pars
      PROVE  /\ SlotOK(ReadySlot(par)) /\ ReadySlot(par).kind = "Ready"
             /\ ReadySlot(par).par = par /\ slot_holds_bitmap(ReadySlot(par))
  <2>1. ReadySlot(par).par = par /\ ReadySlot(par).kind = "Ready"
    BY DEF ReadySlot, NoneSlot
  <2> QED
    BY <2>1 DEF SlotOK, slot_holds_bitmap
<1>3. ASSUME NEW slot, slot.priority \in {0, 1}
      PROVE  /\ SlotOK(FailedSlot(slot)) /\ FailedSlot(slot).kind = "Failed"
             /\ FailedSlot(slot).priority = slot.priority /\ ~slot_holds_bitmap(FailedSlot(slot))
  <2>1. /\ FailedSlot(slot).kind = "Failed" /\ FailedSlot(slot).priority = slot.priority
        /\ FailedSlot(FailedSlot(slot)) = FailedSlot(slot)
    BY DEF FailedSlot, NoneSlot
  <2> QED
    BY <2>1, <1>3 DEF SlotOK, slot_holds_bitmap
<1> QED
  BY <1>1, <1>2, <1>3

\* What is known of a slot by its kind.
LEMMA SlotShapes ==
    ASSUME NEW slot, SlotOK(slot)
    PROVE  /\ slot.kind \in {"None", "Ready", "Failed", "Pending"}
           /\ slot.kind = "None" => slot = NoneSlot
           /\ slot.kind = "Ready" => slot = ReadySlot(slot.par) /\ slot.par \in Pars
           /\ slot.kind = "Failed" => slot = FailedSlot(slot) /\ slot.priority \in {0, 1}
           /\ slot.kind = "Pending" =>
                 /\ slot.seq \in Nat /\ slot.priority \in {0, 1}
                 /\ slot.par \in Pars /\ slot.stale \in Pars \cup {NoPar}
           /\ slot_holds_bitmap(slot) => ShownPar(slot) \in Pars
<1>1. CASE slot = NoneSlot
  BY <1>1 DEF NoneSlot, slot_holds_bitmap
<1>2. CASE slot = ReadySlot(slot.par) /\ slot.par \in Pars
  <2>1. slot.kind = "Ready"
    BY <1>2, SlotKinds
  <2> QED
    BY <1>2, <2>1 DEF slot_holds_bitmap, ShownPar
<1>3. CASE slot = FailedSlot(slot) /\ slot.priority \in {0, 1}
  <2>1. slot.kind = "Failed" /\ ~slot_holds_bitmap(slot)
    BY <1>3, SlotKinds
  <2> QED
    BY <1>3, <2>1
<1>4. CASE /\ slot = [kind |-> "Pending", seq |-> slot.seq, priority |-> slot.priority,
                      par |-> slot.par, stale |-> slot.stale]
           /\ slot.seq \in Nat /\ slot.priority \in {0, 1}
           /\ slot.par \in Pars /\ slot.stale \in Pars \cup {NoPar}
  <2>1. slot.kind = "Pending"
    BY <1>4
  <2> QED
    BY <1>4, <2>1 DEF slot_holds_bitmap, ShownPar
<1> QED
  BY <1>1, <1>2, <1>3, <1>4 DEF SlotOK

\* A cancelled page shows what it showed.
LEMMA CancelShows ==
    ASSUME NEW slot, SlotOK(slot)
    PROVE  LET t == cancel_transition(slot)
           IN /\ SlotOK(t) /\ t.kind # "Pending"
              /\ slot_holds_bitmap(t) <=> slot_holds_bitmap(slot)
              /\ slot_holds_bitmap(t) => ShownPar(t) = ShownPar(slot)
              /\ slot.kind # "Pending" => t = slot
              /\ slot.kind = "Pending" => t.kind \in {"None", "Ready"}
<1>1. CASE slot.kind # "Pending"
  BY <1>1 DEF cancel_transition
<1>2. CASE slot.kind = "Pending" /\ slot.stale # NoPar
  <2>1. slot.stale \in Pars
    BY <1>2, SlotShapes
  <2>2. cancel_transition(slot) = ReadySlot(slot.stale)
    BY <1>2 DEF cancel_transition
  <2> QED
    BY <1>2, <2>1, <2>2, SlotKinds DEF slot_holds_bitmap, ShownPar
<1>3. CASE slot.kind = "Pending" /\ slot.stale = NoPar
  <2>1. cancel_transition(slot) = NoneSlot
    BY <1>3 DEF cancel_transition
  <2> QED
    BY <1>3, <2>1, SlotKinds DEF slot_holds_bitmap
<1> QED
  BY <1>1, <1>2, <1>3

-----------------------------------------------------------------------------
(* Flags.                                                                  *)

\* The view, and what else a flag leaves alone.
SameView(s, t) ==
    t.strip = s.strip /\ t.epoch = s.epoch /\ t.sv = s.sv /\ t.zoom = s.zoom /\ t.inv = s.inv

SameSlots(s, t) ==
    /\ t.slots = s.slots /\ t.bitmaps = s.bitmaps /\ t.last = s.last /\ t.bare = s.bare
    /\ t.next_seq = s.next_seq /\ t.rt = s.rt /\ t.lost = s.lost

Hit(s, pages, r) == \E p \in pages : SlotAt(s, p).kind = "Pending" /\ SlotAt(s, p).seq = r.seq

FlagOf(s, pages, r) == IF Hit(s, pages, r) THEN [r EXCEPT !.flag = TRUE] ELSE r

\* `q` is the request `r`, its flag aside.
Like(q, r) == q.seq = r.seq /\ q.page = r.page /\ q.epoch = r.epoch /\ q.par = r.par

\* A flag changes nothing of a request but its flag.
LEMMA FlagOne ==
    ASSUME NEW s, NEW pages, NEW r, ReqOK(r)
    PROVE  LET q == FlagOf(s, pages, r)
           IN ReqOK(q) /\ Like(q, r) /\ (q.flag <=> r.flag \/ Hit(s, pages, r))
<1>1. CASE Hit(s, pages, r)
  BY <1>1 DEF FlagOf, ReqOK, Like
<1>2. CASE ~Hit(s, pages, r)
  BY <1>2 DEF FlagOf, ReqOK, Like
<1> QED
  BY <1>1, <1>2

\* What Flag leaves of a strip.
LEMMA FlagIs ==
    ASSUME NEW s, StripTypes(s), NEW pages
    PROVE  LET t == Flag(s, pages)
           IN /\ IsStrip(t) /\ SameView(s, t) /\ SameSlots(s, t)
              /\ t.reqs = {FlagOf(s, pages, r) : r \in s.reqs}
<1>1. Flag(s, pages) = [s EXCEPT !.reqs = {FlagOf(s, pages, r) : r \in s.reqs}]
  BY DEF Flag, FlagOf, Hit
<1> DEFINE R == {FlagOf(s, pages, r) : r \in s.reqs}
<1> HIDE DEF R
<1> QED
  BY <1>1 DEF StripTypes, IsStrip, SameView, SameSlots, R

\* Requests that differ from the numbered ones in their flags.
LEMMA FlagSound ==
    ASSUME NEW s, StripTypes(s), NEW pages
    PROVE  LET t == Flag(s, pages)
           IN /\ StripTypes(t)
              /\ Numbered(s) => Numbered(t)
              /\ BitmapsHeld(s) => BitmapsHeld(t)
              /\ OnlyHeld(s) => OnlyHeld(t)
<1> DEFINE t == Flag(s, pages)
<1>1. /\ IsStrip(t) /\ SameView(s, t) /\ SameSlots(s, t)
      /\ t.reqs = {FlagOf(s, pages, r) : r \in s.reqs}
  BY FlagIs
<1> HIDE DEF t
<1>2. \A r \in s.reqs : ReqOK(r)
  BY DEF StripTypes
<1>3. \A q \in t.reqs : \E r \in s.reqs : q = FlagOf(s, pages, r) /\ Like(q, r) /\ ReqOK(q)
  BY <1>1, <1>2, FlagOne
<1>4. \A r \in s.reqs : \E q \in t.reqs : Like(q, r)
  BY <1>1, <1>2, FlagOne
<1>5. StripTypes(t)
  BY <1>1, <1>3 DEF StripTypes, SameView, SameSlots
<1>6. ASSUME Numbered(s) PROVE Numbered(t)
  <2>1. \A r \in t.reqs : r.seq <= t.next_seq
    BY <1>1, <1>3, <1>6 DEF Numbered, SameSlots, Like
  <2>2. \A q, r \in t.reqs : q.seq = r.seq => q = r
    BY <1>3, <1>6 DEF Numbered, Like
  <2>3. \A p : PendingAt(t, p) <=> PendingAt(s, p)
    BY <1>1 DEF PendingAt, SameSlots
  <2>4. ASSUME NEW p \in DOMAIN t.slots, PendingAt(t, p)
        PROVE  /\ t.slots[p].seq <= t.next_seq
               /\ t.slots[p].par = t.last
               /\ t.slots[p].seq \in t.lost \/ \E r \in t.reqs : r.seq = t.slots[p].seq
               /\ \A r \in t.reqs : r.seq = t.slots[p].seq =>
                     r.page = p /\ r.epoch = t.epoch /\ r.par = t.slots[p].par
    <3>1. t.slots = s.slots /\ t.next_seq = s.next_seq /\ t.last = s.last /\ t.lost = s.lost
          /\ t.epoch = s.epoch /\ p \in DOMAIN s.slots /\ PendingAt(s, p)
      BY <1>1, <2>3, <2>4 DEF SameSlots, SameView
    <3>2. /\ s.slots[p].seq <= s.next_seq
          /\ s.slots[p].par = s.last
          /\ s.slots[p].seq \in s.lost \/ \E r \in s.reqs : r.seq = s.slots[p].seq
          /\ \A r \in s.reqs : r.seq = s.slots[p].seq =>
                r.page = p /\ r.epoch = s.epoch /\ r.par = s.slots[p].par
      BY <3>1, <1>6 DEF Numbered
    <3>3. s.slots[p].seq \in s.lost \/ \E r \in t.reqs : r.seq = s.slots[p].seq
      BY <3>2, <1>4 DEF Like
    <3>4. ASSUME NEW q \in t.reqs, q.seq = s.slots[p].seq
          PROVE  q.page = p /\ q.epoch = s.epoch /\ q.par = s.slots[p].par
      BY <1>3, <3>2, <3>4 DEF Like
    <3> QED
      BY <3>1, <3>2, <3>3, <3>4
  <2>5. \A p, q \in DOMAIN t.slots :
          PendingAt(t, p) /\ PendingAt(t, q) /\ t.slots[p].seq = t.slots[q].seq => p = q
    <3>1. t.slots = s.slots
      BY <1>1 DEF SameSlots
    <3> QED
      BY <3>1, <2>3, <1>6 DEF Numbered
  <2> QED
    BY <2>1, <2>2, <2>4, <2>5 DEF Numbered
<1>7. (BitmapsHeld(s) => BitmapsHeld(t)) /\ (OnlyHeld(s) => OnlyHeld(t))
  <2>1. t.slots = s.slots /\ t.bitmaps = s.bitmaps /\ t.epoch = s.epoch
    BY <1>1 DEF SameSlots, SameView
  <2> QED
    BY <2>1 DEF BitmapsHeld, OnlyHeld
<1> QED
  BY <1>5, <1>6, <1>7 DEF t

-----------------------------------------------------------------------------
(* New parameters, a lost target, a new view.                              *)

\* What a change of parameters makes of a slot.
Restyled(slot) == IF slot.kind = "Failed" THEN NoneSlot ELSE cancel_transition(slot)

\* No request, no failure, and the bitmap that it had.
LEMMA RestyledIs ==
    ASSUME NEW slot, SlotOK(slot)
    PROVE  LET t == Restyled(slot)
           IN /\ SlotOK(t) /\ t.kind \in {"None", "Ready"}
              /\ slot_holds_bitmap(t) <=> slot_holds_bitmap(slot)
              /\ slot_holds_bitmap(t) => ShownPar(t) = ShownPar(slot)
<1>1. CASE slot.kind = "Failed"
  <2>1. Restyled(slot) = NoneSlot
    BY <1>1 DEF Restyled
  <2>2. ~slot_holds_bitmap(slot)
    BY <1>1 DEF slot_holds_bitmap
  <2> QED
    BY <2>1, <2>2, SlotKinds
<1>2. CASE slot.kind # "Failed"
  <2>1. Restyled(slot) = cancel_transition(slot)
    BY <1>2 DEF Restyled
  <2> QED
    BY <1>2, <2>1, CancelShows, SlotShapes
<1> QED
  BY <1>1, <1>2

\* No request is left in a slot, and every bitmap is where it was.
LEMMA RestyleSound ==
    ASSUME NEW s, Sound(s)
    PROVE  LET t == change_render_params(s)
           IN /\ Sound(t) /\ SameView(s, t)
              /\ t.last = s.last /\ t.bare = s.bare /\ t.rt = s.rt /\ t.lost = s.lost
              /\ t.next_seq = s.next_seq
              /\ DOMAIN t.slots = DOMAIN s.slots
              /\ \A p \in DOMAIN t.slots : t.slots[p].kind \in {"None", "Ready"}
              /\ OnlyHeld(s) => OnlyHeld(t)
<1> DEFINE f == Flag(s, DOMAIN s.slots)
           slots == [p \in DOMAIN s.slots |-> Restyled(s.slots[p])]
           t == change_render_params(s)
<1>1. t = [f EXCEPT !.slots = slots]
  BY DEF change_render_params, Restyled
<1>2. /\ IsStrip(f) /\ SameView(s, f) /\ SameSlots(s, f)
      /\ StripTypes(f) /\ Numbered(f)
  BY FlagIs, FlagSound DEF Sound
<1> HIDE DEF f, t
<1>3. /\ IsStrip(t) /\ SameView(s, t) /\ t.bitmaps = s.bitmaps /\ t.last = s.last /\ t.bare = s.bare
      /\ t.rt = s.rt /\ t.next_seq = s.next_seq /\ t.lost = s.lost /\ t.reqs = f.reqs
      /\ t.slots = slots
  <2> HIDE DEF slots
  <2> QED
    BY <1>1, <1>2 DEF IsStrip, SameView, SameSlots
<1>4. \A p \in DOMAIN s.slots : SlotOK(s.slots[p])
  BY DEF Sound, StripTypes
<1>5. DOMAIN t.slots = DOMAIN s.slots /\ \A p \in DOMAIN t.slots : t.slots[p] = Restyled(s.slots[p])
  BY <1>3
<1>6. \A p \in DOMAIN t.slots : /\ SlotOK(t.slots[p]) /\ t.slots[p].kind \in {"None", "Ready"}
                                /\ slot_holds_bitmap(t.slots[p]) <=> slot_holds_bitmap(s.slots[p])
                                /\ slot_holds_bitmap(t.slots[p]) =>
                                      ShownPar(t.slots[p]) = ShownPar(s.slots[p])
  BY <1>4, <1>5, RestyledIs
<1>7. StripTypes(t)
  <2>1. StripTypes(s) /\ \A r \in t.reqs : ReqOK(r)
    BY <1>2, <1>3 DEF Sound, StripTypes
  <2>2. t.slots = [p \in DOMAIN t.slots |-> t.slots[p]]
    BY <1>3
  <2> QED
    BY <1>3, <1>6, <2>1, <2>2 DEF StripTypes, SameView
<1>8. Numbered(t)
  <2>1. \A p \in DOMAIN t.slots : ~PendingAt(t, p)
    BY <1>6 DEF PendingAt
  <2>2. t.reqs = f.reqs /\ t.next_seq = f.next_seq
    BY <1>2, <1>3 DEF SameSlots
  <2> QED
    BY <2>1, <2>2, <1>2 DEF Numbered
<1>9. BitmapsHeld(t) /\ (OnlyHeld(s) => OnlyHeld(t))
  <2>1. BitmapsHeld(s) /\ t.bitmaps = s.bitmaps /\ t.epoch = s.epoch
    BY <1>3 DEF Sound, SameView
  <2> QED
    BY <2>1, <1>5, <1>6 DEF BitmapsHeld, OnlyHeld
<1> QED
  BY <1>3, <1>5, <1>6, <1>7, <1>8, <1>9 DEF t, Sound

\* Requests answered or lost, and pages that do not wait any more.
LEMMA StillNumbered ==
    ASSUME NEW s, Numbered(s), NEW t,
           t.reqs \subseteq s.reqs, t.epoch = s.epoch, t.next_seq = s.next_seq, t.last = s.last,
           s.lost \subseteq t.lost,
           \A p \in DOMAIN t.slots : PendingAt(t, p) =>
              PendingAt(s, p) /\ t.slots[p].seq = s.slots[p].seq /\ t.slots[p].par = s.slots[p].par,
           \A p \in DOMAIN t.slots : PendingAt(t, p) =>
              \A r \in s.reqs \ t.reqs : r.seq = t.slots[p].seq => r.seq \in t.lost
    PROVE  Numbered(t)
<1>1. ASSUME NEW p \in DOMAIN t.slots, PendingAt(t, p)
      PROVE  /\ t.slots[p].seq <= t.next_seq
             /\ t.slots[p].par = t.last
             /\ t.slots[p].seq \in t.lost \/ \E r \in t.reqs : r.seq = t.slots[p].seq
             /\ \A r \in t.reqs : r.seq = t.slots[p].seq =>
                   r.page = p /\ r.epoch = t.epoch /\ r.par = t.slots[p].par
  <2>1. /\ p \in DOMAIN s.slots /\ PendingAt(s, p)
        /\ t.slots[p].seq = s.slots[p].seq /\ t.slots[p].par = s.slots[p].par
    BY <1>1 DEF PendingAt
  <2>2. /\ s.slots[p].seq <= s.next_seq
        /\ s.slots[p].par = s.last
        /\ s.slots[p].seq \in s.lost \/ \E r \in s.reqs : r.seq = s.slots[p].seq
        /\ \A r \in s.reqs : r.seq = s.slots[p].seq =>
              r.page = p /\ r.epoch = s.epoch /\ r.par = s.slots[p].par
    BY <2>1 DEF Numbered
  <2>3. \A r \in s.reqs \ t.reqs : r.seq = t.slots[p].seq => r.seq \in t.lost
    BY <1>1
  <2> QED
    BY <2>1, <2>2, <2>3
<1>2. \A p, q \in DOMAIN t.slots :
        PendingAt(t, p) /\ PendingAt(t, q) /\ t.slots[p].seq = t.slots[q].seq => p = q
  BY DEF Numbered, PendingAt
<1>3. /\ \A r \in t.reqs : r.seq <= t.next_seq
      /\ \A q, r \in t.reqs : q.seq = r.seq => q = r
  BY DEF Numbered
<1> QED
  BY <1>1, <1>2, <1>3 DEF Numbered

Dropped(slot) == IF slot.kind = "Ready" THEN NoneSlot ELSE [slot EXCEPT !.stale = NoPar]

\* No bitmap, and the request that it had.
LEMMA DroppedIs ==
    ASSUME NEW slot, SlotOK(slot)
    PROVE  LET t == Dropped(slot)
           IN /\ SlotOK(t) /\ ~slot_holds_bitmap(t)
              /\ t.kind = "Pending" <=> slot.kind = "Pending"
              /\ slot.kind = "Pending" => t.seq = slot.seq /\ t.par = slot.par
              /\ slot.kind = "Failed" => t = slot
<1>1. CASE slot = NoneSlot
  BY <1>1 DEF Dropped, NoneSlot, SlotOK, slot_holds_bitmap
<1>2. CASE slot = ReadySlot(slot.par) /\ slot.par \in Pars
  <2>1. slot.kind = "Ready"
    BY <1>2, SlotKinds
  <2>2. Dropped(slot) = NoneSlot
    BY <2>1 DEF Dropped
  <2> QED
    BY <2>1, <2>2, SlotKinds
<1>3. CASE slot = FailedSlot(slot) /\ slot.priority \in {0, 1}
  <2>1. slot.kind = "Failed" /\ slot.stale = NoPar
    BY <1>3 DEF FailedSlot, NoneSlot
  <2>2. Dropped(slot) = slot
    BY <1>3, <2>1 DEF Dropped, FailedSlot, NoneSlot
  <2> QED
    BY <2>1, <2>2 DEF slot_holds_bitmap
<1>4. CASE /\ slot = [kind |-> "Pending", seq |-> slot.seq, priority |-> slot.priority,
                      par |-> slot.par, stale |-> slot.stale]
           /\ slot.seq \in Nat /\ slot.priority \in {0, 1}
           /\ slot.par \in Pars /\ slot.stale \in Pars \cup {NoPar}
  <2>1. Dropped(slot) = [kind |-> "Pending", seq |-> slot.seq, priority |-> slot.priority,
                         par |-> slot.par, stale |-> NoPar]
    BY <1>4 DEF Dropped
  <2> QED
    BY <1>4, <2>1 DEF SlotOK, slot_holds_bitmap
<1> QED
  BY <1>1, <1>2, <1>3, <1>4 DEF SlotOK

\* A discarded target takes every bitmap with it, and the slots know.
LEMMA DiscardSound ==
    ASSUME NEW s, Sound(s)
    PROVE  LET t == discard_render_target(s)
           IN /\ Sound(t) /\ OnlyHeld(t) /\ SameView(s, t)
              /\ t.last = s.last /\ t.next_seq = s.next_seq
              /\ DOMAIN t.slots = DOMAIN s.slots
              /\ \A p \in DOMAIN s.slots : s.slots[p].kind = "Failed" => t.slots[p] = s.slots[p]
<1> DEFINE slots == [p \in DOMAIN s.slots |-> Dropped(s.slots[p])]
           t == discard_render_target(s)
           u == [s EXCEPT !.rt = FALSE]
<1>1. StripTypes(s) /\ IsStrip(s)
  BY DEF Sound, StripTypes
<1>2. /\ IsStrip(u) /\ SameView(s, u) /\ u.slots = s.slots /\ u.last = s.last /\ u.bare = s.bare
      /\ u.rt = FALSE /\ u.next_seq = s.next_seq /\ u.lost = s.lost /\ u.reqs = s.reqs
  BY <1>1 DEF IsStrip, SameView
<1>3. t = drop_bitmaps(u)
  BY DEF discard_render_target
<1>4. t = [u EXCEPT !.slots = slots, !.bitmaps = <<>>]
  <2> HIDE DEF u
  <2>1. slots = [p \in DOMAIN u.slots |->
                   IF u.slots[p].kind = "Ready" THEN NoneSlot ELSE [u.slots[p] EXCEPT !.stale = NoPar]]
    BY <1>2 DEF Dropped
  <2> QED
    BY <1>3, <2>1 DEF drop_bitmaps
<1> HIDE DEF t, u
<1>5. /\ IsStrip(t) /\ SameView(s, t) /\ t.slots = slots /\ t.last = s.last /\ t.bare = s.bare
      /\ t.rt = FALSE /\ t.next_seq = s.next_seq /\ t.lost = s.lost /\ t.reqs = s.reqs
      /\ t.bitmaps = <<>>
  <2> HIDE DEF slots
  <2> QED
    BY <1>4, <1>2 DEF IsStrip, SameView
<1>6. DOMAIN t.slots = DOMAIN s.slots /\ \A p \in DOMAIN t.slots : t.slots[p] = Dropped(s.slots[p])
  BY <1>5
<1>7. \A p \in DOMAIN s.slots : SlotOK(s.slots[p])
  BY <1>1 DEF StripTypes
<1>8. \A p \in DOMAIN t.slots :
        /\ SlotOK(t.slots[p]) /\ ~slot_holds_bitmap(t.slots[p])
        /\ t.slots[p].kind = "Pending" <=> s.slots[p].kind = "Pending"
        /\ s.slots[p].kind = "Pending" =>
              t.slots[p].seq = s.slots[p].seq /\ t.slots[p].par = s.slots[p].par
        /\ s.slots[p].kind = "Failed" => t.slots[p] = s.slots[p]
  BY <1>6, <1>7, DroppedIs
<1>9. StripTypes(t)
  <2>1. t.slots = [p \in DOMAIN t.slots |-> t.slots[p]]
    BY <1>5
  <2>2. t.bitmaps = [p \in DOMAIN t.bitmaps |-> t.bitmaps[p]]
    BY <1>5
  <2> QED
    BY <1>1, <1>5, <1>8, <2>1, <2>2 DEF StripTypes, SameView
<1>10. Numbered(t)
  <2>1. /\ Numbered(s) /\ t.epoch = s.epoch /\ t.next_seq = s.next_seq /\ t.last = s.last
        /\ t.lost = s.lost /\ t.reqs = s.reqs
    BY <1>5 DEF Sound, SameView
  <2>2. \A p \in DOMAIN t.slots : PendingAt(t, p) =>
          PendingAt(s, p) /\ t.slots[p].seq = s.slots[p].seq /\ t.slots[p].par = s.slots[p].par
    BY <1>6, <1>8 DEF PendingAt
  <2> QED
    BY <2>1, <2>2, StillNumbered
<1>11. BitmapsHeld(t) /\ OnlyHeld(t)
  <2>1. DOMAIN t.bitmaps = {}
    BY <1>5
  <2> QED
    BY <2>1, <1>8 DEF BitmapsHeld, OnlyHeld
<1> QED
  BY <1>5, <1>6, <1>8, <1>9, <1>10, <1>11 DEF t, Sound

\* A view that goes leaves no slot and no bitmap.
LEMMA ClearSound ==
    ASSUME NEW s, Sound(s)
    PROVE  LET t == clear(s)
           IN /\ Sound(t) /\ OnlyHeld(t) /\ SameView(s, t) /\ t.slots = <<>> /\ t.bitmaps = <<>>
              /\ t.next_seq = s.next_seq
<1> DEFINE f == Flag(s, DOMAIN s.slots)
           t == clear(s)
<1>1. t = [f EXCEPT !.slots = <<>>, !.bitmaps = <<>>, !.last = NoPar, !.bare = {}]
  BY DEF clear
<1>2. IsStrip(f) /\ SameView(s, f) /\ SameSlots(s, f) /\ StripTypes(f) /\ Numbered(f)
  BY FlagIs, FlagSound DEF Sound
<1> HIDE DEF f, t
<1>3. /\ IsStrip(t) /\ SameView(s, t) /\ t.slots = <<>> /\ t.bitmaps = <<>> /\ t.last = NoPar
      /\ t.rt = s.rt /\ t.next_seq = s.next_seq /\ t.lost = s.lost /\ t.reqs = f.reqs
  BY <1>1, <1>2 DEF IsStrip, SameView, SameSlots
<1>4. DOMAIN t.slots = {} /\ DOMAIN t.bitmaps = {}
  BY <1>3
<1>5. StripTypes(t)
  <2>1. StripTypes(s) /\ \A r \in t.reqs : ReqOK(r)
    BY <1>2, <1>3 DEF Sound, StripTypes
  <2>2. t.slots = [p \in DOMAIN t.slots |-> t.slots[p]]
    BY <1>3
  <2>3. t.bitmaps = [p \in DOMAIN t.bitmaps |-> t.bitmaps[p]]
    BY <1>3
  <2> QED
    BY <1>3, <1>4, <2>1, <2>2, <2>3 DEF StripTypes, SameView
<1>6. Numbered(t)
  <2>1. t.reqs = f.reqs /\ t.next_seq = f.next_seq
    BY <1>2, <1>3 DEF SameSlots
  <2> QED
    BY <2>1, <1>2, <1>4 DEF Numbered
<1>7. BitmapsHeld(t) /\ OnlyHeld(t)
  BY <1>4 DEF BitmapsHeld, OnlyHeld
<1> QED
  BY <1>3, <1>5, <1>6, <1>7 DEF t, Sound

\* What a prune leaves is what the slots hold.
LEMMA PruneSound ==
    ASSUME NEW s, Sound(s)
    PROVE  LET t == Prune(s)
           IN /\ Sound(t) /\ OnlyHeld(t) /\ SameView(s, t)
              /\ t.slots = s.slots /\ t.last = s.last /\ t.bare = s.bare /\ t.rt = s.rt
              /\ t.next_seq = s.next_seq /\ t.lost = s.lost /\ t.reqs = s.reqs
<1> DEFINE left == {q \in DOMAIN s.bitmaps : slot_holds_bitmap(SlotAt(s, q))}
           bitmaps == [p \in left |-> s.bitmaps[p]]
           t == Prune(s)
<1>1. t = [s EXCEPT !.bitmaps = bitmaps]
  BY DEF Prune
<1>2. StripTypes(s) /\ IsStrip(s)
  BY DEF Sound, StripTypes
<1>3. DOMAIN bitmaps = left /\ \A p \in left : bitmaps[p] = s.bitmaps[p]
  OBVIOUS
<1>4. bitmaps = [p \in DOMAIN bitmaps |-> bitmaps[p]]
  OBVIOUS
<1> HIDE DEF t, bitmaps
<1>5. /\ IsStrip(t) /\ SameView(s, t)
      /\ t.slots = s.slots /\ t.last = s.last /\ t.bare = s.bare /\ t.rt = s.rt
      /\ t.next_seq = s.next_seq /\ t.lost = s.lost /\ t.reqs = s.reqs /\ t.bitmaps = bitmaps
  BY <1>1, <1>2 DEF IsStrip, SameView
<1>6. StripTypes(t)
  BY <1>2, <1>4, <1>5 DEF StripTypes, SameView
<1>7. Numbered(t)
  <2>1. /\ Numbered(s) /\ t.epoch = s.epoch /\ t.slots = s.slots /\ t.last = s.last
        /\ t.next_seq = s.next_seq /\ t.lost = s.lost /\ t.reqs = s.reqs
    BY <1>5 DEF Sound, SameView
  <2> QED
    BY <2>1 DEF Numbered, PendingAt
<1>8. \A p \in DOMAIN s.bitmaps : p \in left <=> p \in DOMAIN s.slots /\ slot_holds_bitmap(s.slots[p])
  BY SlotKinds DEF SlotAt
<1>9. left \subseteq DOMAIN s.bitmaps
  OBVIOUS
<1> HIDE DEF left
<1>10. BitmapsHeld(t) /\ OnlyHeld(t)
  <2>1. BitmapsHeld(s) /\ t.slots = s.slots /\ t.epoch = s.epoch /\ t.bitmaps = bitmaps
    BY <1>5 DEF Sound, SameView
  <2> QED
    BY <2>1, <1>3, <1>8, <1>9 DEF BitmapsHeld, OnlyHeld
<1> QED
  BY <1>5, <1>6, <1>7, <1>10 DEF t, Sound

\* A move of the viewport.
LEMMA MoveSound ==
    ASSUME NEW s, Sound(s), NEW sv, ViewportOK(sv)
    PROVE  LET t == [s EXCEPT !.sv = sv]
           IN /\ Sound(t) /\ (OnlyHeld(s) => OnlyHeld(t)) /\ SameSlots(s, t) /\ t.reqs = s.reqs
              /\ t.strip = s.strip /\ t.epoch = s.epoch /\ t.zoom = s.zoom /\ t.inv = s.inv
              /\ t.sv = sv
<1> DEFINE t == [s EXCEPT !.sv = sv]
<1>1. StripTypes(s) /\ IsStrip(s)
  BY DEF Sound, StripTypes
<1>2. /\ IsStrip(t) /\ SameSlots(s, t) /\ t.reqs = s.reqs
      /\ t.strip = s.strip /\ t.epoch = s.epoch /\ t.zoom = s.zoom /\ t.inv = s.inv /\ t.sv = sv
  BY <1>1 DEF IsStrip, SameSlots
<1> HIDE DEF t
<1>3. StripTypes(t)
  BY <1>1, <1>2 DEF StripTypes, SameSlots
<1>4. Numbered(t) /\ BitmapsHeld(t) /\ (OnlyHeld(s) => OnlyHeld(t))
  BY <1>2 DEF Sound, Numbered, BitmapsHeld, OnlyHeld, PendingAt, SameSlots
<1> QED
  BY <1>2, <1>3, <1>4 DEF t, Sound

\* The view's zoom, its polarity and the strip itself are not told to the slots.
LEMMA ViewSound ==
    ASSUME NEW s, Sound(s), NEW t, IsStrip(t), SameSlots(s, t), t.reqs = s.reqs,
           t.epoch = s.epoch, t.sv = s.sv,
           t.zoom \in Zooms, t.inv \in BOOLEAN, t.strip \in BOOLEAN
    PROVE  Sound(t) /\ (OnlyHeld(s) => OnlyHeld(t))
<1>1. StripTypes(s)
  BY DEF Sound
<1>2. StripTypes(t)
  BY <1>1 DEF StripTypes, SameSlots
<1>3. Numbered(t) /\ BitmapsHeld(t) /\ (OnlyHeld(s) => OnlyHeld(t))
  BY DEF Sound, Numbered, BitmapsHeld, OnlyHeld, PendingAt, SameSlots
<1> QED
  BY <1>2, <1>3 DEF Sound

\* A text-only request gets a number of its own and no slot.
LEMMA TextSound ==
    ASSUME NEW s, Sound(s)
    PROVE  LET t == request_text(s)
           IN /\ Sound(t) /\ (OnlyHeld(s) => OnlyHeld(t)) /\ SameView(s, t)
              /\ t.slots = s.slots /\ t.last = s.last /\ t.bare = s.bare /\ t.lost = s.lost
              /\ s.reqs \subseteq t.reqs
<1> DEFINE new == [epoch |-> s.epoch, page |-> s.sv.current, seq |-> s.next_seq + 1,
                   par |-> Params(s), flag |-> FALSE]
           t == request_text(s)
<1>1. t = [s EXCEPT !.next_seq = s.next_seq + 1, !.reqs = s.reqs \cup {new}]
  BY DEF request_text
<1>2. StripTypes(s) /\ IsStrip(s) /\ s.next_seq \in Nat
  BY DEF Sound, StripTypes
<1>3. ReqOK(new) /\ new.seq = s.next_seq + 1
  BY <1>2 DEF ReqOK
<1> HIDE DEF t, new
<1>4. /\ IsStrip(t) /\ SameView(s, t)
      /\ t.slots = s.slots /\ t.last = s.last /\ t.bare = s.bare /\ t.rt = s.rt
      /\ t.lost = s.lost /\ t.bitmaps = s.bitmaps
      /\ t.next_seq = s.next_seq + 1 /\ t.reqs = s.reqs \cup {new}
  BY <1>1, <1>2 DEF IsStrip, SameView
<1>5. StripTypes(t)
  BY <1>2, <1>3, <1>4 DEF StripTypes, SameView
<1>6. Numbered(t)
  <2>1. Numbered(s) /\ t.epoch = s.epoch
    BY <1>4 DEF Sound, SameView
  <2>2. \A r \in s.reqs : r.seq \in Nat /\ r.seq <= s.next_seq
    BY <1>2, <2>1 DEF Numbered, StripTypes, ReqOK
  <2>3. \A r \in t.reqs : r.seq <= t.next_seq
    BY <1>2, <1>3, <1>4, <2>2
  <2>4. \A q, r \in t.reqs : q.seq = r.seq => q = r
    <3>1. \A r \in s.reqs : r.seq # new.seq
      BY <1>2, <1>3, <2>2
    <3>2. \A q, r \in s.reqs : q.seq = r.seq => q = r
      BY <2>1 DEF Numbered
    <3> QED
      BY <1>4, <3>1, <3>2
  <2>5. ASSUME NEW p \in DOMAIN t.slots, PendingAt(t, p)
        PROVE  /\ t.slots[p].seq <= t.next_seq
               /\ t.slots[p].par = t.last
               /\ t.slots[p].seq \in t.lost \/ \E r \in t.reqs : r.seq = t.slots[p].seq
               /\ \A r \in t.reqs : r.seq = t.slots[p].seq =>
                     r.page = p /\ r.epoch = t.epoch /\ r.par = t.slots[p].par
    <3>1. p \in DOMAIN s.slots /\ PendingAt(s, p) /\ SlotOK(s.slots[p]) /\ s.slots[p].kind = "Pending"
      BY <1>2, <1>4, <2>5 DEF PendingAt, StripTypes
    <3>2. /\ s.slots[p].seq <= s.next_seq
          /\ s.slots[p].par = s.last
          /\ s.slots[p].seq \in s.lost \/ \E r \in s.reqs : r.seq = s.slots[p].seq
          /\ \A r \in s.reqs : r.seq = s.slots[p].seq =>
                r.page = p /\ r.epoch = s.epoch /\ r.par = s.slots[p].par
      BY <3>1, <2>1 DEF Numbered
    <3>3. s.slots[p].seq \in Nat
      BY <3>1, SlotShapes
    <3>4. s.slots[p].seq # new.seq /\ s.slots[p].seq <= s.next_seq + 1
      BY <1>2, <1>3, <3>2, <3>3
    <3> QED
      BY <1>4, <2>1, <3>2, <3>4
  <2>6. \A p, q \in DOMAIN t.slots :
          PendingAt(t, p) /\ PendingAt(t, q) /\ t.slots[p].seq = t.slots[q].seq => p = q
    BY <1>4, <2>1 DEF Numbered, PendingAt
  <2> QED
    BY <2>3, <2>4, <2>5, <2>6 DEF Numbered
<1>7. BitmapsHeld(t) /\ (OnlyHeld(s) => OnlyHeld(t))
  <2>1. BitmapsHeld(s) /\ t.slots = s.slots /\ t.bitmaps = s.bitmaps /\ t.epoch = s.epoch
    BY <1>4 DEF Sound, SameView
  <2> QED
    BY <2>1 DEF BitmapsHeld, OnlyHeld
<1> QED
  BY <1>4, <1>5, <1>6, <1>7 DEF t, Sound

-----------------------------------------------------------------------------
(* The numbers of a pass.                                                  *)

Rank(S, R, p) == Cardinality({q \in S : q = p \/ <<q, p>> \in R})

\* The places of the members of a finite set in a strict total order are
\* different numbers from 1 to the size of the set.
LEMMA RanksDiffer ==
    ASSUME NEW S, IsFiniteSet(S), NEW R,
           \A p \in S : <<p, p>> \notin R,
           \A p, q \in S : p # q => <<p, q>> \in R \/ <<q, p>> \in R,
           \A p, q, r \in S : <<p, q>> \in R /\ <<q, r>> \in R => <<p, r>> \in R
    PROVE  /\ \A p \in S : Rank(S, R, p) \in 1..Cardinality(S)
           /\ \A p, q \in S : Rank(S, R, p) = Rank(S, R, q) => p = q
<1> DEFINE U(p) == {q \in S : q = p \/ <<q, p>> \in R}
<1>1. ASSUME NEW p \in S
      PROVE  Rank(S, R, p) \in 1..Cardinality(S) /\ IsFiniteSet(U(p))
  <2>1. U(p) \subseteq S /\ p \in U(p)
    OBVIOUS
  <2>2. IsFiniteSet(U(p)) /\ Cardinality(U(p)) <= Cardinality(S)
    BY <2>1, FS_Subset
  <2>3. Cardinality(U(p)) \in Nat /\ Cardinality(S) \in Nat
    BY <2>2, FS_CardinalityType
  <2>4. Cardinality(U(p)) # 0
    BY <2>1, <2>2, FS_EmptySet
  <2> QED
    BY <2>2, <2>3, <2>4 DEF Rank
<1>2. ASSUME NEW p \in S, NEW q \in S, <<p, q>> \in R
      PROVE  Rank(S, R, p) # Rank(S, R, q)
  <2>1. U(p) \subseteq U(q) /\ q \in U(q) /\ q \notin U(p)
    <3>1. ASSUME NEW x \in U(p) PROVE x \in U(q)
      BY <1>2, <3>1
    <3>2. <<q, p>> \notin R /\ q # p
      BY <1>2
    <3> QED
      BY <3>1, <3>2
  <2>2. IsFiniteSet(U(q)) /\ IsFiniteSet(U(p))
    BY <1>1
  <2> HIDE DEF U
  <2>3. U(p) # U(q)
    BY <2>1
  <2>4. Cardinality(U(p)) # Cardinality(U(q))
    BY <2>1, <2>2, <2>3, FS_Subset
  <2> QED
    BY <2>4 DEF Rank, U
<1>3. ASSUME NEW p \in S, NEW q \in S, Rank(S, R, p) = Rank(S, R, q) PROVE p = q
  <2> SUFFICES ASSUME p # q PROVE FALSE
    OBVIOUS
  <2>1. CASE <<p, q>> \in R
    BY <1>2, <1>3, <2>1
  <2>2. CASE <<q, p>> \in R
    <3>1. Rank(S, R, q) # Rank(S, R, p)
      BY <1>2, <2>2
    <3> QED
      BY <3>1, <1>3
  <2> QED
    BY <2>1, <2>2
<1> QED
  BY <1>1, <1>3

AreaOrder(sv, S) == {x \in S \X S : BeforeByArea(sv, x[1], x[2])}

\* V has an order: the current page, then by area, then by number.
LEMMA ByArea ==
    ASSUME NEW sv, ViewportOK(sv), sv.layout # NoLayout, NEW S, S \subseteq Pages
    PROVE  /\ \A p \in S : <<p, p>> \notin AreaOrder(sv, S)
           /\ \A p, q \in S : p # q => <<p, q>> \in AreaOrder(sv, S) \/ <<q, p>> \in AreaOrder(sv, S)
           /\ \A p, q, r \in S : <<p, q>> \in AreaOrder(sv, S) /\ <<q, r>> \in AreaOrder(sv, S)
                                 => <<p, r>> \in AreaOrder(sv, S)
<1> DEFINE area(p) == shown_height(sv.layout, p, sv.y, sv.vp_h)
           k == sv.current
<1>1. LayoutOK(sv.layout) /\ sv.y \in Int /\ sv.vp_h \in Int
  BY DEF ViewportOK
<1>2. \A p \in S : top(sv.layout, p) \in Int /\ bottom(sv.layout, p) \in Int /\ p \in Int
  BY <1>1, PagesAre DEF LayoutOK, top, bottom, height
<1>3. \A p \in S : area(p) \in Int /\ p \in Int
  BY <1>1, <1>2 DEF shown_height, Lesser, Greater
<1>4. \A p, q \in S : <<p, q>> \in AreaOrder(sv, S) <=>
        /\ p # q /\ q # k
        /\ p = k \/ area(p) > area(q) \/ (area(p) = area(q) /\ p < q)
  BY DEF AreaOrder, BeforeByArea
<1> HIDE DEF area, k
<1>5. \A p \in S : <<p, p>> \notin AreaOrder(sv, S)
  BY <1>4
<1>6. ASSUME NEW p \in S, NEW q \in S, p # q
      PROVE  <<p, q>> \in AreaOrder(sv, S) \/ <<q, p>> \in AreaOrder(sv, S)
  BY <1>3, <1>4, <1>6
<1>7. ASSUME NEW p \in S, NEW q \in S, NEW r \in S,
             <<p, q>> \in AreaOrder(sv, S), <<q, r>> \in AreaOrder(sv, S)
      PROVE  <<p, r>> \in AreaOrder(sv, S)
  <2>1. /\ p # q /\ q # k /\ r # k /\ q # r
        /\ p = k \/ area(p) > area(q) \/ (area(p) = area(q) /\ p < q)
        /\ area(q) > area(r) \/ (area(q) = area(r) /\ q < r)
    BY <1>4, <1>7
  <2>2. p # r
    BY <1>3, <2>1
  <2>3. p = k \/ area(p) > area(r) \/ (area(p) = area(r) /\ p < r)
    BY <1>3, <2>1
  <2> QED
    BY <1>4, <2>1, <2>2, <2>3
<1> QED
  BY <1>5, <1>6, <1>7

NearOrder(in, S) == {x \in S \X S : Nearer(in, x[1], x[2])}

\* P has one too: away from the reader.
LEMMA ByDistance ==
    ASSUME NEW in, NEW S, S \subseteq Pages
    PROVE  /\ \A p \in S : <<p, p>> \notin NearOrder(in, S)
           /\ \A p, q \in S : p # q => <<p, q>> \in NearOrder(in, S) \/ <<q, p>> \in NearOrder(in, S)
           /\ \A p, q, r \in S : <<p, q>> \in NearOrder(in, S) /\ <<q, r>> \in NearOrder(in, S)
                                 => <<p, r>> \in NearOrder(in, S)
<1> DEFINE under == \E v \in in.visible, q \in in.prefetch : q < v
<1>1. \A p \in S : p \in Int
  BY PagesAre
<1>2. \A p, q \in S : <<p, q>> \in NearOrder(in, S) <=> IF under THEN p > q ELSE p < q
  BY DEF NearOrder, Nearer
<1> HIDE DEF under
<1> QED
  BY <1>1, <1>2

-----------------------------------------------------------------------------
(* The parts of a pass.                                                    *)

\* The slots as the pass sees them, what it asks for at each priority, the slots
\* it keeps, those it cancels, and what it makes of them.
PassEff(s) == effective(s, ScheduleInput(s))
PassP0(s) == SubmitsP0(ScheduleInput(s), PassEff(s))
PassP1(s) == SubmitsP1(s, ScheduleInput(s), PassEff(s))
PassKept(s) == DOMAIN s.slots \cap retain(s.sv)
PassOutside(s, p) ==
    PassEff(s)[p].kind = "Pending" /\ p \notin visible(s.sv) \cup prefetch(s.sv)
PassCancel(s) ==
    {p \in PassKept(s) : PassOutside(s, p) \/ Promoted(ScheduleInput(s), p, PassEff(s)[p])}
PassBase(s, p) == IF p \in PassCancel(s) THEN cancel_transition(PassEff(s)[p]) ELSE PassEff(s)[p]
PassPlace(s, p) ==
    IF p \in PassP0(s) THEN Cardinality({q \in PassP0(s) : q = p \/ BeforeByArea(s.sv, q, p)})
    ELSE Cardinality(PassP0(s))
         + Cardinality({q \in PassP1(s) : q = p \/ Nearer(ScheduleInput(s), q, p)})
PassSubmitted(s, p) ==
    [kind |-> "Pending", seq |-> s.next_seq + PassPlace(s, p),
     priority |-> IF p \in PassP0(s) THEN 0 ELSE 1, par |-> Params(s),
     stale |-> IF PassBase(s, p).kind = "Ready" THEN PassBase(s, p).par ELSE NoPar]
PassRequest(s, p) ==
    [epoch |-> s.epoch, page |-> p, seq |-> s.next_seq + PassPlace(s, p), par |-> Params(s),
     flag |-> FALSE]
PassAsked(s) == {PassRequest(s, p) : p \in PassP0(s) \cup PassP1(s)}
PassSlots(s) ==
    [p \in PassKept(s) \cup PassP0(s) \cup PassP1(s) |->
        IF p \in PassP0(s) \cup PassP1(s) THEN PassSubmitted(s, p) ELSE PassBase(s, p)]
PassFlagged(s) == PassCancel(s) \cup (DOMAIN s.slots \ PassKept(s))

\* run_pass, part by part.
LEMMA RunPassIs ==
    ASSUME NEW s
    PROVE  run_pass(s) =
             [Flag(s, PassFlagged(s)) EXCEPT
                !.slots = PassSlots(s), !.reqs = @ \cup PassAsked(s),
                !.next_seq = s.next_seq + Cardinality(PassP0(s) \cup PassP1(s)), !.bare = {}]
BY DEF run_pass, PassEff, PassP0, PassP1, PassKept, PassOutside, PassCancel, PassBase, PassPlace,
       PassSubmitted, PassRequest, PassAsked, PassSlots, PassFlagged, ScheduleInput

\* What a pass starts from.
PassReady(s) == Sound(s) /\ strip_active(s) /\ s.last = Params(s)

\* Where the sets of a pass lie.
LEMMA PassSets ==
    ASSUME NEW s, PassReady(s)
    PROVE  /\ visible(s.sv) \subseteq retain(s.sv) /\ prefetch(s.sv) \subseteq retain(s.sv)
           /\ retain(s.sv) \subseteq Pages
           /\ visible(s.sv) \cap prefetch(s.sv) = {}
           /\ PassP0(s) \subseteq visible(s.sv) /\ PassP1(s) \subseteq prefetch(s.sv)
           /\ PassKept(s) \subseteq DOMAIN s.slots /\ PassKept(s) \subseteq retain(s.sv)
           /\ PassCancel(s) \subseteq PassKept(s)
           /\ IsFiniteSet(PassP0(s)) /\ IsFiniteSet(PassP1(s))
           /\ ViewportOK(s.sv) /\ s.sv.layout # NoLayout
           /\ s.next_seq \in Nat /\ Params(s) \in Pars
<1>1. ViewportOK(s.sv) /\ s.sv.layout # NoLayout /\ s.next_seq \in Nat /\ Params(s) \in Pars
  BY ParsReal DEF PassReady, Sound, StripTypes, strip_active, has_layout
<1>2. /\ visible(s.sv) \subseteq retain(s.sv) /\ prefetch(s.sv) \subseteq retain(s.sv)
      /\ retain(s.sv) \subseteq Pages
      /\ visible(s.sv) \cap prefetch(s.sv) = {}
  BY <1>1, PassPages
<1>3. PassP0(s) \subseteq visible(s.sv) /\ PassP1(s) \subseteq prefetch(s.sv)
  BY DEF PassP0, PassP1, SubmitsP0, SubmitsP1, ScheduleInput
<1>4. /\ PassKept(s) \subseteq DOMAIN s.slots /\ PassKept(s) \subseteq retain(s.sv)
      /\ PassCancel(s) \subseteq PassKept(s)
  BY DEF PassKept, PassCancel
<1>5. IsFiniteSet(PassP0(s)) /\ IsFiniteSet(PassP1(s))
  <2>1. PassP0(s) \subseteq Pages /\ PassP1(s) \subseteq Pages
    BY <1>2, <1>3
  <2> QED
    BY <2>1, PagesAre, FS_Subset
<1> QED
  BY <1>1, <1>2, <1>3, <1>4, <1>5

\* The numbers that a pass gives out.
LEMMA PassPlaces ==
    ASSUME NEW s, PassReady(s)
    PROVE  LET n == Cardinality(PassP0(s) \cup PassP1(s))
               all == PassP0(s) \cup PassP1(s)
           IN /\ n \in Nat
              /\ \A p \in all : PassPlace(s, p) \in 1..n
              /\ \A p, q \in all : PassPlace(s, p) = PassPlace(s, q) => p = q
<1> DEFINE P0 == PassP0(s)
           P1 == PassP1(s)
           sv == s.sv
           in == ScheduleInput(s)
           R0 == AreaOrder(sv, P0)
           R1 == NearOrder(in, P1)
<1>1. /\ P0 \subseteq Pages /\ P1 \subseteq Pages /\ P0 \cap P1 = {}
      /\ IsFiniteSet(P0) /\ IsFiniteSet(P1) /\ ViewportOK(sv) /\ sv.layout # NoLayout
  BY PassSets
<1>2. Cardinality(P0) \in Nat /\ Cardinality(P1) \in Nat
      /\ Cardinality(P0 \cup P1) = Cardinality(P0) + Cardinality(P1)
  <2> HIDE DEF P0, P1
  <2>1. Cardinality(P0) \in Nat /\ Cardinality(P1) \in Nat
    BY <1>1, FS_CardinalityType
  <2>2. Cardinality(P0 \cup P1) = Cardinality(P0) + Cardinality(P1) - Cardinality(P0 \cap P1)
    BY <1>1, FS_Union
  <2>3. Cardinality(P0 \cap P1) = 0
    BY <1>1, FS_EmptySet
  <2> QED
    BY <2>1, <2>2, <2>3
<1>3. \A p \in P0 : PassPlace(s, p) = Rank(P0, R0, p)
  BY DEF PassPlace, Rank, AreaOrder
<1>4. \A p \in P1 : PassPlace(s, p) = Cardinality(P0) + Rank(P1, R1, p)
  BY <1>1 DEF PassPlace, Rank, NearOrder
<1> HIDE DEF P0, P1, sv, in
<1>5. /\ \A p \in P0 : Rank(P0, R0, p) \in 1..Cardinality(P0)
      /\ \A p, q \in P0 : Rank(P0, R0, p) = Rank(P0, R0, q) => p = q
  <2>1. /\ \A p \in P0 : <<p, p>> \notin R0
        /\ \A p, q \in P0 : p # q => <<p, q>> \in R0 \/ <<q, p>> \in R0
        /\ \A p, q, r \in P0 : <<p, q>> \in R0 /\ <<q, r>> \in R0 => <<p, r>> \in R0
    BY <1>1, ByArea
  <2> HIDE DEF R0
  <2> QED
    BY <1>1, <2>1, RanksDiffer
<1>6. /\ \A p \in P1 : Rank(P1, R1, p) \in 1..Cardinality(P1)
      /\ \A p, q \in P1 : Rank(P1, R1, p) = Rank(P1, R1, q) => p = q
  <2>1. /\ \A p \in P1 : <<p, p>> \notin R1
        /\ \A p, q \in P1 : p # q => <<p, q>> \in R1 \/ <<q, p>> \in R1
        /\ \A p, q, r \in P1 : <<p, q>> \in R1 /\ <<q, r>> \in R1 => <<p, r>> \in R1
    BY <1>1, ByDistance
  <2> HIDE DEF R1
  <2> QED
    BY <1>1, <2>1, RanksDiffer
<1> HIDE DEF R0, R1
<1>7. \A p \in P0 : PassPlace(s, p) \in 1..Cardinality(P0)
  BY <1>3, <1>5
<1>8. \A p \in P1 : PassPlace(s, p) \in Cardinality(P0) + 1..Cardinality(P0) + Cardinality(P1)
  BY <1>2, <1>4, <1>6
<1>9. \A p, q \in P0 \cup P1 : PassPlace(s, p) = PassPlace(s, q) => p = q
  <2>1. \A p, q \in P0 : PassPlace(s, p) = PassPlace(s, q) => p = q
    BY <1>3, <1>5
  <2>2. \A p, q \in P1 : PassPlace(s, p) = PassPlace(s, q) => p = q
    BY <1>2, <1>4, <1>6
  <2>3. \A p \in P0, q \in P1 : PassPlace(s, p) # PassPlace(s, q)
    BY <1>2, <1>7, <1>8
  <2> QED
    BY <2>1, <2>2, <2>3
<1>10. \A p \in P0 \cup P1 : PassPlace(s, p) \in 1..Cardinality(P0 \cup P1)
  BY <1>2, <1>7, <1>8
<1> QED
  BY <1>2, <1>9, <1>10 DEF P0, P1

\* A page as the submit rules see it.
LEMMA EffIs ==
    ASSUME NEW s, PassReady(s), NEW p \in DOMAIN s.slots \cup retain(s.sv)
    PROVE  LET slot == SlotAt(s, p)
               e == PassEff(s)[p]
           IN /\ SlotOK(e)
              /\ slot_holds_bitmap(e) => slot_holds_bitmap(slot) /\ ShownPar(e) = ShownPar(slot)
              /\ e.kind = "Pending" => PendingAt(s, p) /\ e = slot /\ ~Flagged(s, slot)
              /\ e.kind = "Failed" /\ p \in visible(s.sv) => e.priority = 0
              /\ slot.kind = "Failed" /\ slot.priority = 0 /\ p \in visible(s.sv) => e = slot
              /\ p \notin DOMAIN s.slots => e = NoneSlot
<1> DEFINE slot == SlotAt(s, p)
           a == AfterSweep(s, p)
           e == PassEff(s)[p]
<1>1. e = IF fail_resets(ScheduleInput(s), p, a) THEN NoneSlot ELSE a
  BY DEF PassEff, effective, ScheduleInput
<1>2. SlotOK(slot) /\ (p \notin DOMAIN s.slots => slot = NoneSlot)
  BY SlotKinds DEF SlotAt, PassReady, Sound, StripTypes
<1>3. a = IF slot.kind = "Pending" /\ Flagged(s, slot) THEN cancel_transition(slot) ELSE slot
  BY DEF AfterSweep, swept
<1>4. fail_resets(ScheduleInput(s), p, a) <=>
        a.kind = "Failed" /\ (p \in visible(s.sv) <=> a.priority # 0)
  BY DEF fail_resets, ScheduleInput
<1>5. slot.kind = "Pending" => p \in DOMAIN s.slots /\ PendingAt(s, p)
  BY <1>2, SlotKinds DEF PendingAt, SlotAt
<1> HIDE DEF slot, a, e
<1>6. /\ SlotOK(a)
      /\ slot_holds_bitmap(a) => slot_holds_bitmap(slot) /\ ShownPar(a) = ShownPar(slot)
      /\ a.kind = "Pending" => a = slot /\ ~Flagged(s, slot)
      /\ slot.kind # "Pending" => a = slot
  BY <1>2, <1>3, CancelShows
<1>7. CASE fail_resets(ScheduleInput(s), p, a)
  <2>1. e = NoneSlot /\ a.kind = "Failed" /\ (p \in visible(s.sv) <=> a.priority # 0)
    BY <1>1, <1>4, <1>7
  <2>2. slot.kind = "Failed" /\ slot.priority = 0 /\ p \in visible(s.sv) => FALSE
    BY <1>6, <2>1
  <2> QED
    BY <2>1, <2>2, SlotKinds DEF slot, e
<1>8. CASE ~fail_resets(ScheduleInput(s), p, a)
  <2>1. e = a /\ ~(a.kind = "Failed" /\ (p \in visible(s.sv) <=> a.priority # 0))
    BY <1>1, <1>4, <1>8
  <2>2. e.kind = "Failed" /\ p \in visible(s.sv) => e.priority = 0
    BY <2>1
  <2>3. p \notin DOMAIN s.slots => e = NoneSlot
    BY <1>2, <1>6, <2>1, SlotKinds
  <2> QED
    BY <1>5, <1>6, <2>1, <2>2, <2>3 DEF slot, e
<1> QED
  BY <1>7, <1>8

\* A page as the pass leaves it where it asks for nothing.
LEMMA BaseIs ==
    ASSUME NEW s, PassReady(s), NEW p \in DOMAIN s.slots \cup retain(s.sv)
    PROVE  LET slot == SlotAt(s, p)
               b == PassBase(s, p)
           IN /\ SlotOK(b)
              /\ slot_holds_bitmap(b) => slot_holds_bitmap(slot) /\ ShownPar(b) = ShownPar(slot)
              /\ b.kind = "Pending" => PendingAt(s, p) /\ b = slot /\ p \notin PassCancel(s)
              /\ p \in PassP0(s) \cup PassP1(s) => b.kind # "Pending"
<1> DEFINE e == PassEff(s)[p]
           b == PassBase(s, p)
<1>1. /\ SlotOK(e)
      /\ slot_holds_bitmap(e) => slot_holds_bitmap(SlotAt(s, p)) /\ ShownPar(e) = ShownPar(SlotAt(s, p))
      /\ e.kind = "Pending" => PendingAt(s, p) /\ e = SlotAt(s, p)
  BY EffIs
<1>2. b = IF p \in PassCancel(s) THEN cancel_transition(e) ELSE e
  BY DEF PassBase
<1>3. ASSUME p \in PassP0(s) \cup PassP1(s), e.kind = "Pending" PROVE p \in PassCancel(s)
  <2>1. p \in PassP0(s)
    <3>1. p \in PassP1(s) => e.kind = "None"
      BY DEF PassP1, SubmitsP1
    <3> QED
      BY <1>3, <3>1
  <2>2. Promoted(ScheduleInput(s), p, e)
    BY <1>3, <2>1 DEF PassP0, SubmitsP0, is_stale
  <2>3. p \in PassKept(s)
    BY <1>1, <1>3, <2>1, PassSets DEF PassKept, PendingAt
  <2> QED
    BY <2>2, <2>3 DEF PassCancel
<1> HIDE DEF e, b
<1>4. CASE p \in PassCancel(s)
  <2>1. b = cancel_transition(e)
    BY <1>2, <1>4
  <2>2. /\ SlotOK(b) /\ b.kind # "Pending"
        /\ slot_holds_bitmap(b) => slot_holds_bitmap(e) /\ ShownPar(b) = ShownPar(e)
    BY <1>1, <2>1, CancelShows
  <2> QED
    BY <1>1, <2>2 DEF b
<1>5. CASE p \notin PassCancel(s)
  <2>1. b = e
    BY <1>2, <1>5
  <2> QED
    BY <1>1, <1>3, <1>5, <2>1 DEF b
<1> QED
  BY <1>4, <1>5

\* A request of a pass.
LEMMA SubmittedIs ==
    ASSUME NEW s, PassReady(s), NEW p \in PassP0(s) \cup PassP1(s)
    PROVE  LET t == PassSubmitted(s, p)
               slot == SlotAt(s, p)
           IN /\ SlotOK(t) /\ t.kind = "Pending" /\ t.par = Params(s)
              /\ t.seq = s.next_seq + PassPlace(s, p)
              /\ p \in PassP0(s) => t.priority = 0
              /\ slot_holds_bitmap(t) => slot_holds_bitmap(slot) /\ ShownPar(t) = ShownPar(slot)
<1> DEFINE t == PassSubmitted(s, p)
           b == PassBase(s, p)
           stale == IF b.kind = "Ready" THEN b.par ELSE NoPar
           seq == s.next_seq + PassPlace(s, p)
           prio == IF p \in PassP0(s) THEN 0 ELSE 1
<1>1. p \in DOMAIN s.slots \cup retain(s.sv) /\ s.next_seq \in Nat /\ Params(s) \in Pars
  BY PassSets
<1>2. /\ SlotOK(b)
      /\ slot_holds_bitmap(b) => slot_holds_bitmap(SlotAt(s, p)) /\ ShownPar(b) = ShownPar(SlotAt(s, p))
  BY <1>1, BaseIs
<1>3. PassPlace(s, p) \in Nat
  <2> DEFINE n == Cardinality(PassP0(s) \cup PassP1(s))
  <2>1. n \in Nat /\ PassPlace(s, p) \in 1..n
    BY PassPlaces
  <2> HIDE DEF n
  <2> QED
    BY <2>1
<1>4. t = [kind |-> "Pending", seq |-> seq, priority |-> prio, par |-> Params(s), stale |-> stale]
  BY DEF PassSubmitted
<1>5. stale \in Pars \cup {NoPar} /\ (stale # NoPar => b.kind = "Ready" /\ stale = b.par)
  BY <1>2, SlotShapes
<1>6. seq \in Nat /\ prio \in {0, 1} /\ (p \in PassP0(s) => prio = 0)
  BY <1>1, <1>3
<1> HIDE DEF t, b, stale, seq, prio
<1>7. /\ t.kind = "Pending" /\ t.par = Params(s) /\ t.seq = seq /\ t.priority = prio
      /\ t.stale = stale
  BY <1>4
<1>8. SlotOK(t)
  BY <1>1, <1>4, <1>5, <1>6, <1>7 DEF SlotOK
<1>9. ASSUME slot_holds_bitmap(t)
      PROVE  slot_holds_bitmap(SlotAt(s, p)) /\ ShownPar(t) = ShownPar(SlotAt(s, p))
  <2>1. stale # NoPar
    BY <1>7, <1>9 DEF slot_holds_bitmap
  <2>2. slot_holds_bitmap(b) /\ ShownPar(b) = stale
    BY <1>5, <2>1 DEF slot_holds_bitmap, ShownPar
  <2>3. ShownPar(t) = stale
    BY <1>7 DEF ShownPar
  <2> QED
    BY <1>2, <2>2, <2>3
<1> QED
  BY <1>6, <1>7, <1>8, <1>9 DEF t, seq

\* What a pass makes of a strip.
LEMMA PassFields ==
    ASSUME NEW s, PassReady(s)
    PROVE  LET t == run_pass(s)
               f == Flag(s, PassFlagged(s))
           IN /\ IsStrip(t) /\ SameView(s, t) /\ t.slots = PassSlots(s) /\ t.bitmaps = s.bitmaps
              /\ t.last = s.last /\ t.rt = s.rt /\ t.lost = s.lost
              /\ t.next_seq = s.next_seq + Cardinality(PassP0(s) \cup PassP1(s))
              /\ t.reqs = f.reqs \cup PassAsked(s)
<1> DEFINE f == Flag(s, PassFlagged(s))
           t == run_pass(s)
           seq == s.next_seq + Cardinality(PassP0(s) \cup PassP1(s))
<1>1. IsStrip(f) /\ SameView(s, f) /\ SameSlots(s, f)
  BY FlagIs DEF PassReady, Sound
<1>2. t = [f EXCEPT !.slots = PassSlots(s), !.reqs = f.reqs \cup PassAsked(s), !.next_seq = seq,
                    !.bare = {}]
  BY RunPassIs
<1> HIDE DEF f, t, seq
<1>3. /\ IsStrip(t) /\ SameView(s, t) /\ t.slots = PassSlots(s) /\ t.bitmaps = s.bitmaps
      /\ t.last = s.last /\ t.rt = s.rt /\ t.lost = s.lost
      /\ t.next_seq = seq /\ t.reqs = f.reqs \cup PassAsked(s)
  BY <1>1, <1>2 DEF IsStrip, SameView, SameSlots
<1> QED
  BY <1>3 DEF f, t, seq

\* The slots after a pass: asked for now, or as they were.
LEMMA PassSlotsAre ==
    ASSUME NEW s, PassReady(s)
    PROVE  LET slots == PassSlots(s)
               all == PassP0(s) \cup PassP1(s)
           IN /\ DOMAIN slots = PassKept(s) \cup all
              /\ slots = [p \in DOMAIN slots |-> slots[p]]
              /\ \A p \in all : slots[p] = PassSubmitted(s, p)
              /\ \A p \in PassKept(s) \ all : slots[p] = PassBase(s, p)
              /\ \A p \in DOMAIN slots :
                    /\ SlotOK(slots[p])
                    /\ slot_holds_bitmap(slots[p]) =>
                          slot_holds_bitmap(SlotAt(s, p)) /\ ShownPar(slots[p]) = ShownPar(SlotAt(s, p))
                    /\ slots[p].kind = "Pending" /\ p \notin all =>
                          /\ p \in PassKept(s) \ PassCancel(s) /\ PendingAt(s, p)
                          /\ slots[p] = s.slots[p]
<1> DEFINE slots == PassSlots(s)
           all == PassP0(s) \cup PassP1(s)
<1>1. /\ DOMAIN slots = PassKept(s) \cup all
      /\ slots = [p \in DOMAIN slots |-> slots[p]]
      /\ \A p \in all : slots[p] = PassSubmitted(s, p)
      /\ \A p \in PassKept(s) \ all : slots[p] = PassBase(s, p)
  BY DEF PassSlots
<1>2. DOMAIN slots \subseteq DOMAIN s.slots \cup retain(s.sv)
  BY <1>1, PassSets
<1>3. ASSUME NEW p \in DOMAIN slots
      PROVE  /\ SlotOK(slots[p])
             /\ slot_holds_bitmap(slots[p]) =>
                   slot_holds_bitmap(SlotAt(s, p)) /\ ShownPar(slots[p]) = ShownPar(SlotAt(s, p))
             /\ slots[p].kind = "Pending" /\ p \notin all =>
                   /\ p \in PassKept(s) \ PassCancel(s) /\ PendingAt(s, p)
                   /\ slots[p] = s.slots[p]
  <2>1. CASE p \in all
    BY <1>1, <2>1, SubmittedIs
  <2>2. CASE p \notin all
    <3>1. slots[p] = PassBase(s, p) /\ p \in PassKept(s) /\ p \in DOMAIN s.slots \cup retain(s.sv)
      BY <1>1, <1>2, <2>2
    <3>2. /\ SlotOK(PassBase(s, p))
          /\ slot_holds_bitmap(PassBase(s, p)) =>
               slot_holds_bitmap(SlotAt(s, p)) /\ ShownPar(PassBase(s, p)) = ShownPar(SlotAt(s, p))
          /\ PassBase(s, p).kind = "Pending" =>
               PendingAt(s, p) /\ PassBase(s, p) = SlotAt(s, p) /\ p \notin PassCancel(s)
      BY <3>1, BaseIs
    <3>3. PendingAt(s, p) => SlotAt(s, p) = s.slots[p]
      BY DEF PendingAt, SlotAt
    <3> QED
      BY <3>1, <3>2, <3>3
  <2> QED
    BY <2>1, <2>2
<1> QED
  BY <1>1, <1>3

\* The requests of a pass, one for each page that it asks for.
LEMMA PassRequests ==
    ASSUME NEW s, PassReady(s)
    PROVE  LET all == PassP0(s) \cup PassP1(s)
           IN /\ \A r \in PassAsked(s) : \E p \in all : r = PassRequest(s, p)
              /\ \A p \in all :
                    LET r == PassRequest(s, p)
                    IN /\ r \in PassAsked(s) /\ ReqOK(r) /\ r.page = p /\ r.epoch = s.epoch
                       /\ r.par = Params(s) /\ r.seq = s.next_seq + PassPlace(s, p) /\ r.flag = FALSE
                       /\ r.seq \in s.next_seq + 1..s.next_seq + Cardinality(all)
<1> DEFINE all == PassP0(s) \cup PassP1(s)
<1>1. ASSUME NEW p \in all
      PROVE  LET r == PassRequest(s, p)
             IN /\ r \in PassAsked(s) /\ ReqOK(r) /\ r.page = p /\ r.epoch = s.epoch
                /\ r.par = Params(s) /\ r.seq = s.next_seq + PassPlace(s, p) /\ r.flag = FALSE
                /\ r.seq \in s.next_seq + 1..s.next_seq + Cardinality(all)
  <2> DEFINE seq == s.next_seq + PassPlace(s, p)
             r == PassRequest(s, p)
  <2>1. /\ PassPlace(s, p) \in 1..Cardinality(all) /\ Cardinality(all) \in Nat
        /\ s.next_seq \in Nat
    BY PassPlaces, PassSets
  <2>2. seq \in Nat /\ seq \in s.next_seq + 1..s.next_seq + Cardinality(all)
    <3> HIDE DEF all
    <3> QED
      BY <2>1
  <2>3. r = [epoch |-> s.epoch, page |-> p, seq |-> seq, par |-> Params(s), flag |-> FALSE]
    BY DEF PassRequest
  <2>4. r \in PassAsked(s)
    BY DEF PassAsked
  <2> HIDE DEF seq, r, all
  <2>5. ReqOK(r) /\ r.page = p /\ r.epoch = s.epoch /\ r.par = Params(s) /\ r.seq = seq /\ r.flag = FALSE
    BY <2>2, <2>3 DEF ReqOK
  <2> QED
    BY <2>2, <2>4, <2>5 DEF r, seq, all
<1>2. \A r \in PassAsked(s) : \E p \in all : r = PassRequest(s, p)
  BY DEF PassAsked
<1> QED
  BY <1>1, <1>2

\* The numbers stay different: the new ones are larger than any before.
LEMMA PassNumbered ==
    ASSUME NEW s, PassReady(s)
    PROVE  Numbered(run_pass(s))
<1> DEFINE t == run_pass(s)
           f == Flag(s, PassFlagged(s))
           all == PassP0(s) \cup PassP1(s)
           n == Cardinality(all)
<1>1. /\ IsStrip(t) /\ SameView(s, t) /\ t.slots = PassSlots(s)
      /\ t.last = s.last /\ t.lost = s.lost
      /\ t.next_seq = s.next_seq + n /\ t.reqs = f.reqs \cup PassAsked(s)
  BY PassFields
<1>2. Numbered(f) /\ SameView(s, f) /\ SameSlots(s, f) /\ StripTypes(f)
  BY FlagIs, FlagSound DEF PassReady, Sound
<1>3. s.next_seq \in Nat /\ n \in Nat /\ s.last = Params(s)
  BY PassSets, PassPlaces DEF PassReady
<1>4. /\ \A p \in all : PassPlace(s, p) \in 1..n
      /\ \A p, q \in all : PassPlace(s, p) = PassPlace(s, q) => p = q
  BY PassPlaces
<1>5. /\ \A r \in PassAsked(s) : \E p \in all : r = PassRequest(s, p)
      /\ \A p \in all :
            LET r == PassRequest(s, p)
            IN /\ r \in PassAsked(s) /\ ReqOK(r) /\ r.page = p /\ r.epoch = s.epoch
               /\ r.par = Params(s) /\ r.seq = s.next_seq + PassPlace(s, p) /\ r.flag = FALSE
               /\ r.seq \in s.next_seq + 1..s.next_seq + n
  BY PassRequests
<1>6. /\ DOMAIN t.slots = PassKept(s) \cup all
      /\ \A p \in all : t.slots[p] = PassSubmitted(s, p)
      /\ \A p \in DOMAIN t.slots :
            t.slots[p].kind = "Pending" /\ p \notin all =>
               PendingAt(s, p) /\ t.slots[p] = s.slots[p]
  <2> DEFINE slots == PassSlots(s)
  <2>1. /\ DOMAIN slots = PassKept(s) \cup all
        /\ \A p \in all : slots[p] = PassSubmitted(s, p)
        /\ \A p \in DOMAIN slots :
              slots[p].kind = "Pending" /\ p \notin all =>
                 PendingAt(s, p) /\ slots[p] = s.slots[p]
    BY PassSlotsAre
  <2> HIDE DEF t, slots, all, n
  <2>2. t.slots = slots
    BY <1>1 DEF slots
  <2> QED
    BY <2>1, <2>2
<1>7. \A p \in all : /\ t.slots[p].kind = "Pending" /\ t.slots[p].par = Params(s)
                     /\ t.slots[p].seq = s.next_seq + PassPlace(s, p)
  BY <1>6, SubmittedIs
<1> HIDE DEF t, f, all, n
<1>8. \A r \in f.reqs : r.seq \in Nat /\ r.seq <= s.next_seq
  BY <1>2 DEF Numbered, SameSlots, StripTypes, ReqOK
<1>9. \A r \in PassAsked(s) : r.seq \in Nat /\ r.seq > s.next_seq /\ r.seq <= s.next_seq + n
  BY <1>3, <1>5
<1>10. ASSUME NEW p \in DOMAIN t.slots, PendingAt(t, p), p \notin all
       PROVE  /\ p \in DOMAIN f.slots /\ PendingAt(f, p) /\ t.slots[p] = f.slots[p]
              /\ t.slots[p].seq \in Nat /\ t.slots[p].seq <= s.next_seq
  <2>1. PendingAt(s, p) /\ t.slots[p] = s.slots[p] /\ f.slots = s.slots
    BY <1>2, <1>6, <1>10 DEF PendingAt, SameSlots
  <2>2. p \in DOMAIN f.slots /\ PendingAt(f, p) /\ SlotOK(f.slots[p])
    BY <1>2, <2>1 DEF PendingAt, StripTypes
  <2>3. f.slots[p].seq \in Nat
    BY <2>2, SlotShapes DEF PendingAt
  <2>4. f.slots[p].seq <= f.next_seq /\ f.next_seq = s.next_seq
    BY <1>2, <2>2 DEF Numbered, SameSlots
  <2> QED
    BY <2>1, <2>2, <2>3, <2>4
<1>11. \A r \in t.reqs : r.seq <= t.next_seq
  BY <1>1, <1>3, <1>8, <1>9
<1>12. \A q, r \in t.reqs : q.seq = r.seq => q = r
  <2>1. \A q, r \in f.reqs : q.seq = r.seq => q = r
    BY <1>2 DEF Numbered
  <2>2. ASSUME NEW q \in PassAsked(s), NEW r \in PassAsked(s), q.seq = r.seq PROVE q = r
    <3>1. PICK a \in all : q = PassRequest(s, a)
      BY <1>5
    <3>2. PICK b \in all : r = PassRequest(s, b)
      BY <1>5
    <3>3. s.next_seq + PassPlace(s, a) = s.next_seq + PassPlace(s, b)
      BY <1>5, <2>2, <3>1, <3>2
    <3>4. PassPlace(s, a) = PassPlace(s, b)
      BY <1>3, <1>4, <3>3
    <3> QED
      BY <1>4, <3>1, <3>2, <3>4
  <2>3. \A q \in f.reqs, r \in PassAsked(s) : q.seq # r.seq
    BY <1>3, <1>8, <1>9
  <2> QED
    BY <1>1, <2>1, <2>2, <2>3
<1>13. ASSUME NEW p \in DOMAIN t.slots, PendingAt(t, p)
       PROVE  /\ t.slots[p].seq <= t.next_seq
              /\ t.slots[p].par = t.last
              /\ t.slots[p].seq \in t.lost \/ \E r \in t.reqs : r.seq = t.slots[p].seq
              /\ \A r \in t.reqs : r.seq = t.slots[p].seq =>
                    r.page = p /\ r.epoch = t.epoch /\ r.par = t.slots[p].par
  <2>1. CASE p \in all
    <3>1. t.slots[p].seq = PassRequest(s, p).seq /\ t.slots[p].par = s.last
      BY <1>3, <1>5, <1>7, <2>1
    <3>2. PassRequest(s, p) \in t.reqs
      BY <1>1, <1>5, <2>1
    <3>3. \A r \in t.reqs : r.seq = t.slots[p].seq => r = PassRequest(s, p)
      BY <1>12, <3>1, <3>2
    <3>4. /\ PassRequest(s, p).page = p /\ PassRequest(s, p).epoch = t.epoch
          /\ PassRequest(s, p).par = t.slots[p].par
      BY <1>1, <1>5, <1>7, <2>1 DEF SameView
    <3>5. PassRequest(s, p).seq <= t.next_seq
      BY <1>11, <3>2
    <3> QED
      BY <1>1, <3>1, <3>2, <3>3, <3>4, <3>5
  <2>2. CASE p \notin all
    <3>1. /\ p \in DOMAIN f.slots /\ PendingAt(f, p) /\ t.slots[p] = f.slots[p]
          /\ t.slots[p].seq \in Nat /\ t.slots[p].seq <= s.next_seq
      BY <1>10, <1>13, <2>2
    <3>2. /\ f.slots[p].par = f.last
          /\ f.slots[p].seq \in f.lost \/ \E r \in f.reqs : r.seq = f.slots[p].seq
          /\ \A r \in f.reqs : r.seq = f.slots[p].seq =>
                r.page = p /\ r.epoch = f.epoch /\ r.par = f.slots[p].par
      BY <1>2, <3>1 DEF Numbered
    <3>3. f.last = t.last /\ f.lost = t.lost /\ f.epoch = t.epoch
      BY <1>1, <1>2 DEF SameSlots, SameView
    <3>4. \A r \in PassAsked(s) : r.seq # t.slots[p].seq
      BY <1>3, <1>9, <3>1
    <3>5. t.slots[p].seq <= t.next_seq
      BY <1>1, <1>3, <3>1
    <3> QED
      BY <1>1, <3>1, <3>2, <3>3, <3>4, <3>5
  <2> QED
    BY <2>1, <2>2
<1>14. ASSUME NEW p \in DOMAIN t.slots, NEW q \in DOMAIN t.slots,
              PendingAt(t, p), PendingAt(t, q), t.slots[p].seq = t.slots[q].seq
       PROVE  p = q
  <2>1. CASE p \in all /\ q \in all
    <3>1. s.next_seq + PassPlace(s, p) = s.next_seq + PassPlace(s, q)
      BY <1>7, <1>14, <2>1
    <3>2. PassPlace(s, p) = PassPlace(s, q)
      BY <1>3, <1>4, <2>1, <3>1
    <3> QED
      BY <1>4, <2>1, <3>2
  <2>2. CASE p \notin all /\ q \notin all
    BY <1>2, <1>10, <1>14, <2>2 DEF Numbered
  <2>3. \A x \in all : t.slots[x].seq > s.next_seq
    BY <1>3, <1>4, <1>7
  <2>4. CASE p \in all /\ q \notin all
    <3>1. t.slots[q].seq \in Nat /\ t.slots[q].seq <= s.next_seq
      BY <1>10, <1>14, <2>4
    <3> QED
      BY <1>3, <1>14, <2>3, <2>4, <3>1
  <2>5. CASE p \notin all /\ q \in all
    <3>1. t.slots[p].seq \in Nat /\ t.slots[p].seq <= s.next_seq
      BY <1>10, <1>14, <2>5
    <3> QED
      BY <1>3, <1>14, <2>3, <2>5, <3>1
  <2> QED
    BY <2>1, <2>2, <2>4, <2>5
<1>15. Numbered(t)
  BY <1>11, <1>12, <1>13, <1>14 DEF Numbered
<1> QED
  BY <1>15 DEF t

\* A pass keeps numbers, slots and bitmaps in agreement, in what it retains.
LEMMA PassSound ==
    ASSUME NEW s, PassReady(s)
    PROVE  Sound(run_pass(s)) /\ DOMAIN run_pass(s).slots \subseteq retain(s.sv)
<1> DEFINE t == run_pass(s)
           f == Flag(s, PassFlagged(s))
           slots == PassSlots(s)
           n == Cardinality(PassP0(s) \cup PassP1(s))
<1>1. /\ IsStrip(t) /\ SameView(s, t) /\ t.slots = slots /\ t.bitmaps = s.bitmaps
      /\ t.last = s.last /\ t.rt = s.rt /\ t.lost = s.lost
      /\ t.next_seq = s.next_seq + n /\ t.reqs = f.reqs \cup PassAsked(s)
  BY PassFields
<1>2. StripTypes(s) /\ StripTypes(f) /\ BitmapsHeld(s)
  BY FlagSound DEF PassReady, Sound
<1>3. /\ DOMAIN slots = PassKept(s) \cup (PassP0(s) \cup PassP1(s))
      /\ slots = [p \in DOMAIN slots |-> slots[p]]
      /\ \A p \in DOMAIN slots :
            /\ SlotOK(slots[p])
            /\ slot_holds_bitmap(slots[p]) =>
                  slot_holds_bitmap(SlotAt(s, p)) /\ ShownPar(slots[p]) = ShownPar(SlotAt(s, p))
  BY PassSlotsAre
<1>4. \A r \in PassAsked(s) : ReqOK(r)
  BY PassRequests
<1>5. n \in Nat /\ s.next_seq \in Nat
  BY PassPlaces, PassSets
<1>6. DOMAIN slots \subseteq retain(s.sv)
  BY <1>3, PassSets
<1> HIDE DEF t, f, slots, n
<1>7. StripTypes(t)
  <2>1. \A r \in t.reqs : ReqOK(r)
    BY <1>1, <1>2, <1>4 DEF StripTypes
  <2>2. t.next_seq \in Nat
    BY <1>1, <1>5
  <2> QED
    BY <1>1, <1>2, <1>3, <2>1, <2>2 DEF StripTypes, SameView
<1>8. BitmapsHeld(t)
  <2> SUFFICES ASSUME NEW p \in DOMAIN t.slots, slot_holds_bitmap(t.slots[p])
               PROVE  /\ p \in DOMAIN t.bitmaps
                      /\ t.bitmaps[p] = [epoch |-> t.epoch, par |-> ShownPar(t.slots[p])]
    BY DEF BitmapsHeld
  <2>1. slot_holds_bitmap(SlotAt(s, p)) /\ ShownPar(t.slots[p]) = ShownPar(SlotAt(s, p))
    BY <1>1, <1>3
  <2>2. p \in DOMAIN s.slots /\ SlotAt(s, p) = s.slots[p]
    BY <2>1, SlotKinds DEF SlotAt
  <2>3. p \in DOMAIN s.bitmaps /\ s.bitmaps[p] = [epoch |-> s.epoch, par |-> ShownPar(s.slots[p])]
    BY <1>2, <2>1, <2>2 DEF BitmapsHeld
  <2> QED
    BY <1>1, <2>1, <2>2, <2>3 DEF SameView
<1>9. Numbered(t)
  BY PassNumbered DEF t
<1>10. DOMAIN t.slots \subseteq retain(s.sv)
  BY <1>1, <1>6
<1> QED
  BY <1>7, <1>8, <1>9, <1>10 DEF t, Sound

\* A page in view where a pass leaves it: the heart of VisibleServed.
LEMMA PassServes ==
    ASSUME NEW s, PassReady(s), NEW p \in visible(s.sv)
    PROVE  LET t == run_pass(s)
           IN /\ PageServed(t, p) /\ SlotAt(t, p).kind # "None"
              /\ SlotAt(s, p).kind = "Failed" /\ SlotAt(s, p).priority = 0 =>
                    p \in DOMAIN t.slots /\ SlotAt(t, p) = SlotAt(s, p)
<1> DEFINE t == run_pass(s)
           f == Flag(s, PassFlagged(s))
           all == PassP0(s) \cup PassP1(s)
           n == Cardinality(all)
           slots == PassSlots(s)
           e == PassEff(s)[p]
           in == ScheduleInput(s)
<1>1. /\ SameView(s, t) /\ t.slots = slots /\ t.lost = s.lost /\ t.reqs = f.reqs \cup PassAsked(s)
  BY PassFields
<1>2. /\ DOMAIN slots = PassKept(s) \cup all
      /\ \A q \in all : slots[q] = PassSubmitted(s, q)
      /\ \A q \in PassKept(s) \ all : slots[q] = PassBase(s, q)
  BY PassSlotsAre
<1>3. /\ p \in DOMAIN s.slots \cup retain(s.sv) /\ p \notin prefetch(s.sv) /\ p \in retain(s.sv)
      /\ p \notin PassP1(s)
  BY PassSets
<1>4. /\ SlotOK(e)
      /\ e.kind = "Pending" => PendingAt(s, p) /\ e = SlotAt(s, p) /\ ~Flagged(s, SlotAt(s, p))
      /\ e.kind = "Failed" => e.priority = 0
      /\ SlotAt(s, p).kind = "Failed" /\ SlotAt(s, p).priority = 0 => e = SlotAt(s, p)
      /\ p \notin DOMAIN s.slots => e = NoneSlot
  BY <1>3, EffIs
<1>5. Params(t) = Params(s)
  BY <1>1 DEF Params, SameView
<1>6. p \in PassP0(s) <=> e.kind = "None" \/ is_stale(e, Params(s)) \/ Promoted(in, p, e)
  BY DEF PassP0, SubmitsP0, ScheduleInput
<1>7. Promoted(in, p, e) <=> e.kind = "Pending" /\ e.priority # 0
  BY DEF Promoted, ScheduleInput
<1>8. p \in PassCancel(s) => Promoted(in, p, e)
  BY DEF PassCancel, PassOutside
<1>9. CASE p \in PassP0(s)
  <2>1. /\ PassSubmitted(s, p).kind = "Pending" /\ PassSubmitted(s, p).par = Params(s)
        /\ PassSubmitted(s, p).seq = s.next_seq + PassPlace(s, p)
        /\ PassSubmitted(s, p).priority = 0
    BY <1>9, SubmittedIs
  <2>2. LET r == PassRequest(s, p)
        IN /\ r \in PassAsked(s) /\ r.epoch = s.epoch /\ r.flag = FALSE
           /\ r.seq = s.next_seq + PassPlace(s, p)
    BY <1>9 DEF PassAsked, PassRequest
  <2>3. p \in DOMAIN slots /\ slots[p] = PassSubmitted(s, p)
    BY <1>2, <1>9
  <2> HIDE DEF t, f, slots, all, n, e, in
  <2>4. SlotAt(t, p) = PassSubmitted(s, p)
    BY <1>1, <2>3 DEF SlotAt
  <2>5. PassRequest(s, p) \in t.reqs /\ t.epoch = s.epoch
    BY <1>1, <2>2 DEF SameView
  <2>6. PageServed(t, p)
    BY <1>5, <2>1, <2>2, <2>4, <2>5 DEF PageServed
  <2>7. ~(SlotAt(s, p).kind = "Failed" /\ SlotAt(s, p).priority = 0)
    BY <1>4, <1>6, <1>7, <1>9 DEF is_stale
  <2> QED
    BY <2>1, <2>4, <2>6, <2>7 DEF t
<1>10. CASE p \notin PassP0(s)
  <2>1. e.kind # "None" /\ ~is_stale(e, Params(s)) /\ ~Promoted(in, p, e) /\ p \notin PassCancel(s)
    BY <1>6, <1>8, <1>10
  <2>2. p \in DOMAIN s.slots
    BY <1>4, <2>1, SlotKinds
  <2>3. p \in PassKept(s) \ all
    BY <1>3, <1>10, <2>2 DEF PassKept
  <2>4. PassBase(s, p) = e
    BY <2>1 DEF PassBase
  <2>5. p \in DOMAIN slots /\ slots[p] = e
    BY <1>2, <2>3, <2>4
  <2> HIDE DEF t, slots, all, n, e, in
  <2>6. SlotAt(t, p) = e /\ p \in DOMAIN t.slots
    BY <1>1, <2>5 DEF SlotAt
  <2>7. CASE e.kind = "Ready"
    <3>1. e = ReadySlot(e.par) /\ e.par = Params(s)
      BY <1>4, <2>1, <2>7, SlotShapes DEF is_stale
    <3>2. PageServed(t, p)
      BY <1>5, <2>6, <3>1 DEF PageServed
    <3>3. SlotAt(s, p).kind = "Failed" /\ SlotAt(s, p).priority = 0 => FALSE
      BY <1>4, <2>7
    <3> QED
      BY <2>1, <2>6, <3>2, <3>3 DEF t
  <2>8. CASE e.kind = "Failed"
    BY <1>4, <2>6, <2>8 DEF PageServed, t
  <2>9. CASE e.kind = "Pending"
    <3>1. /\ PendingAt(s, p) /\ e = SlotAt(s, p) /\ ~Flagged(s, e) /\ e = s.slots[p]
          /\ e.priority = 0
      BY <1>4, <1>7, <2>1, <2>9, SlotShapes DEF PendingAt, SlotAt
    <3>2. Numbered(s) /\ StripTypes(s) /\ s.last = Params(s)
      BY DEF PassReady, Sound
    <3>3. /\ e.par = Params(s)
          /\ e.seq \in s.lost \/ \E r \in s.reqs : r.seq = e.seq
          /\ \A r \in s.reqs : r.seq = e.seq => r.epoch = s.epoch
      BY <2>2, <3>1, <3>2 DEF Numbered
    <3>4. e.seq \in t.lost \/ \E r \in t.reqs : r.seq = e.seq /\ r.epoch = t.epoch /\ ~r.flag
      <4>1. CASE e.seq \in s.lost
        BY <1>1, <4>1
      <4>2. CASE \E r \in s.reqs : r.seq = e.seq
        <5>1. PICK r \in s.reqs : r.seq = e.seq
          BY <4>2
        <5>2. ReqOK(r) /\ ~r.flag
          BY <3>1, <3>2, <5>1 DEF Flagged, StripTypes, ReqOK
        <5>3. ~Hit(s, PassFlagged(s), r)
          <6> SUFFICES ASSUME NEW q \in PassFlagged(s), SlotAt(s, q).kind = "Pending",
                              SlotAt(s, q).seq = r.seq
                       PROVE  FALSE
            BY DEF Hit
          <6>1. q \in DOMAIN s.slots /\ PendingAt(s, q) /\ SlotAt(s, q) = s.slots[q]
            BY PassSets DEF PassFlagged, PendingAt, SlotAt
          <6>2. q = p
            BY <2>2, <3>1, <3>2, <5>1, <6>1 DEF Numbered
          <6> QED
            BY <2>1, <2>3, <6>2 DEF PassFlagged
        <5>4. FlagOf(s, PassFlagged(s), r) = r
          BY <5>3 DEF FlagOf
        <5>5. FlagOf(s, PassFlagged(s), r) \in f.reqs
          BY <3>2, FlagIs DEF f
        <5>6. r \in t.reqs /\ r.epoch = t.epoch
          BY <1>1, <3>3, <5>1, <5>4, <5>5 DEF SameView
        <5> QED
          BY <5>1, <5>2, <5>6
      <4> QED
        BY <3>3, <4>1, <4>2
    <3>5. PageServed(t, p)
      BY <1>5, <2>6, <2>9, <3>1, <3>3, <3>4 DEF PageServed
    <3>6. SlotAt(s, p).kind # "Failed"
      BY <2>9, <3>1
    <3> QED
      BY <2>6, <2>9, <3>5, <3>6 DEF t
  <2> QED
    BY <1>4, <2>1, <2>7, <2>8, <2>9, SlotShapes
<1> QED
  BY <1>9, <1>10

\* `t` has the failures of `s` that are in view.
KeepsFailed(s, t) ==
    \A p \in DOMAIN s.slots :
        s.slots[p].kind = "Failed" /\ s.slots[p].priority = 0 /\ p \in visible(t.sv)
        => SlotAt(t, p) = s.slots[p]

\* What the pass of a kick starts from.
Restarted(s) ==
    IF s.last # Params(s) THEN [change_render_params(s) EXCEPT !.last = Params(s)] ELSE s

\* Where the parameters changed, no page waits for the old ones.
LEMMA RestartSound ==
    ASSUME NEW s, Sound(s), strip_active(s)
    PROVE  LET u == Restarted(s)
           IN /\ PassReady(u) /\ SameView(s, u) /\ (s.last = Params(s) => u = s)
              /\ s.last # Params(s) => \A p \in DOMAIN u.slots : ~PendingAt(u, p)
<1> DEFINE u == Restarted(s)
<1>1. CASE s.last = Params(s)
  BY <1>1 DEF Restarted, PassReady, SameView
<1>2. CASE s.last # Params(s)
  <2> DEFINE v == change_render_params(s)
  <2>1. /\ Sound(v) /\ SameView(s, v)
        /\ \A p \in DOMAIN v.slots : v.slots[p].kind \in {"None", "Ready"}
    BY RestyleSound
  <2> HIDE DEF v
  <2>2. u = [v EXCEPT !.last = Params(s)]
    BY <1>2 DEF v, Restarted
  <2>3. IsStrip(v)
    BY <2>1 DEF Sound, StripTypes
  <2> HIDE DEF u
  <2>4. /\ IsStrip(u) /\ SameView(v, u) /\ u.last = Params(s) /\ u.slots = v.slots
        /\ u.bitmaps = v.bitmaps /\ u.reqs = v.reqs /\ u.next_seq = v.next_seq
        /\ u.lost = v.lost /\ u.rt = v.rt
    BY <2>2, <2>3 DEF IsStrip, SameView
  <2>5. StripTypes(u)
    BY <2>1, <2>4 DEF Sound, StripTypes, SameView
  <2>6. Numbered(u)
    <3>1. \A p \in DOMAIN u.slots : ~PendingAt(u, p)
      BY <2>1, <2>4 DEF PendingAt
    <3>2. Numbered(v) /\ u.reqs = v.reqs /\ u.next_seq = v.next_seq
      BY <2>1, <2>4 DEF Sound
    <3> QED
      BY <3>1, <3>2 DEF Numbered
  <2>7. BitmapsHeld(u)
    BY <2>1, <2>4 DEF Sound, BitmapsHeld, SameView
  <2>8. SameView(s, u) /\ Params(u) = Params(s) /\ strip_active(u)
    BY <2>1, <2>4 DEF SameView, Params, strip_active
  <2>9. \A p \in DOMAIN u.slots : ~PendingAt(u, p)
    BY <2>1, <2>4 DEF PendingAt
  <2>10. PassReady(u)
    BY <2>4, <2>5, <2>6, <2>7, <2>8 DEF PassReady, Sound
  <2> QED
    BY <1>2, <2>8, <2>9, <2>10 DEF u
<1> QED
  BY <1>1, <1>2

\* A pass and the prune after it: whatever was found before, the pages in view
\* are served.
LEMMA RescheduleSound ==
    ASSUME NEW s, Sound(s)
    PROVE  LET t == strip_reschedule(s)
           IN /\ Sound(t) /\ SameView(s, t) /\ Served(t)
              /\ strip_active(s) \/ OnlyHeld(s) => OnlyHeld(t)
              /\ strip_active(s) => DOMAIN t.slots \subseteq retain(t.sv)
              /\ s.last = Params(s) => KeepsFailed(s, t)
<1> DEFINE t == strip_reschedule(s)
<1>1. CASE ~strip_active(s)
  <2>1. t = s
    BY <1>1 DEF strip_reschedule
  <2>2. KeepsFailed(s, s)
    BY DEF KeepsFailed, SlotAt
  <2> QED
    BY <1>1, <2>1, <2>2 DEF Served, SameView
<1>2. CASE strip_active(s)
  <2> DEFINE u == Restarted(s)
  <2>1. t = Prune(run_pass(u))
    BY <1>2 DEF strip_reschedule, Restarted
  <2>2. PassReady(u) /\ SameView(s, u) /\ (s.last = Params(s) => u = s)
    BY <1>2, RestartSound
  <2> HIDE DEF u
  <2> DEFINE w == run_pass(u)
  <2>3. Sound(w) /\ DOMAIN w.slots \subseteq retain(u.sv)
    BY <2>2, PassSound
  <2>4. SameView(u, w) /\ w.last = u.last
    BY <2>2, PassFields
  <2>5. \A p \in visible(u.sv) :
          /\ PageServed(w, p)
          /\ SlotAt(u, p).kind = "Failed" /\ SlotAt(u, p).priority = 0 => SlotAt(w, p) = SlotAt(u, p)
    BY <2>2, PassServes
  <2>6. t = Prune(w)
    BY <2>1
  <2> HIDE DEF w, t
  <2>7. /\ Sound(t) /\ OnlyHeld(t) /\ SameView(w, t)
        /\ t.slots = w.slots /\ t.last = w.last /\ t.bare = w.bare /\ t.lost = w.lost
        /\ t.reqs = w.reqs
    BY <2>3, <2>6, PruneSound
  <2>8. SameView(s, t) /\ t.sv = u.sv
    BY <2>2, <2>4, <2>7 DEF SameView
  <2>9. t.last = Params(t)
    BY <2>2, <2>4, <2>7 DEF PassReady, SameView, Params
  <2>10. Served(t)
    <3>1. ASSUME NEW p \in visible(t.sv) PROVE PageServed(t, p)
      <4>1. PageServed(w, p)
        BY <2>5, <2>8
      <4>2. SlotAt(t, p) = SlotAt(w, p) /\ Params(t) = Params(w) /\ t.epoch = w.epoch
        BY <2>7 DEF SlotAt, Params, SameView
      <4> QED
        BY <2>7, <4>1, <4>2 DEF PageServed
    <3> QED
      BY <2>9, <3>1 DEF Served
  <2>11. s.last = Params(s) => KeepsFailed(s, t)
    <3> SUFFICES ASSUME s.last = Params(s), NEW p \in DOMAIN s.slots,
                        s.slots[p].kind = "Failed", s.slots[p].priority = 0, p \in visible(t.sv)
                 PROVE  SlotAt(t, p) = s.slots[p]
      BY DEF KeepsFailed
    <3>1. SlotAt(u, p) = s.slots[p] /\ p \in visible(u.sv)
      BY <2>2, <2>8 DEF SlotAt
    <3>2. SlotAt(w, p) = s.slots[p]
      BY <2>5, <3>1
    <3> QED
      BY <2>7, <3>2 DEF SlotAt
  <2>12. DOMAIN t.slots \subseteq retain(t.sv)
    BY <2>3, <2>7, <2>8
  <2> QED
    BY <2>7, <2>8, <2>10, <2>11, <2>12 DEF t
<1> QED
  BY <1>1, <1>2

\* The same after a move: the current page first, then the pass.
LEMMA ChangeSound ==
    ASSUME NEW s, Sound(s)
    PROVE  LET t == strip_after_change(s)
           IN /\ Sound(t) /\ Served(t)
              /\ strip_active(s) \/ OnlyHeld(s) => OnlyHeld(t)
              /\ strip_active(s) => DOMAIN t.slots \subseteq retain(t.sv)
              /\ s.last = Params(s) => KeepsFailed(s, t)
              /\ t.strip = s.strip /\ t.epoch = s.epoch /\ t.zoom = s.zoom /\ t.inv = s.inv
              /\ SameLook(t.sv, s.sv)
<1> DEFINE t == strip_after_change(s)
<1>1. CASE ~strip_active(s)
  <2>1. t = s
    BY <1>1 DEF strip_after_change
  <2>2. KeepsFailed(s, s) /\ SameLook(s.sv, s.sv)
    BY DEF KeepsFailed, SlotAt, SameLook
  <2>3. Served(s)
    BY <1>1 DEF Served
  <2> QED
    BY <1>1, <2>1, <2>2, <2>3
<1>2. CASE strip_active(s)
  <2> DEFINE sv == recompute_current(s.sv)
             u == [s EXCEPT !.sv = sv]
  <2>1. t = strip_reschedule(u)
    BY <1>2 DEF strip_after_change
  <2>2. ViewportOK(sv) /\ SameLook(sv, s.sv)
    BY CurrentOK DEF Sound, StripTypes
  <2> HIDE DEF sv
  <2>3. /\ Sound(u) /\ (OnlyHeld(s) => OnlyHeld(u)) /\ SameSlots(s, u)
        /\ u.strip = s.strip /\ u.epoch = s.epoch /\ u.zoom = s.zoom /\ u.inv = s.inv
        /\ u.sv = sv
    BY <2>2, MoveSound
  <2> HIDE DEF u, t
  <2>4. /\ Sound(t) /\ SameView(u, t) /\ Served(t)
        /\ strip_active(u) \/ OnlyHeld(u) => OnlyHeld(t)
        /\ strip_active(u) => DOMAIN t.slots \subseteq retain(t.sv)
        /\ u.last = Params(u) => KeepsFailed(u, t)
    BY <2>1, <2>3, RescheduleSound
  <2>5. strip_active(u)
    BY <1>2, <2>2, <2>3 DEF strip_active, has_layout, SameLook
  <2>6. s.last = Params(s) => KeepsFailed(s, t)
    <3>1. u.last = s.last /\ Params(u) = Params(s) /\ u.slots = s.slots
      BY <2>3 DEF SameSlots, Params
    <3> QED
      BY <2>4, <3>1 DEF KeepsFailed
  <2> QED
    BY <2>2, <2>3, <2>4, <2>5, <2>6 DEF SameView, t
<1> QED
  BY <1>1, <1>2

\* A viewport at the zoom of its view, inside its strip.
InPlace(sv, zoom) ==
    sv.layout # NoLayout =>
        sv.layout.zoom = zoom /\ sv.y = clamp_strip_scroll(sv.y, sv.layout, sv.vp_h)

\* Clamping is done once.
LEMMA ClampedOnce ==
    ASSUME NEW x \in Int, NEW l, LayoutOK(l), NEW h \in Int
    PROVE  clamp_strip_scroll(clamp_strip_scroll(x, l, h), l, h) = clamp_strip_scroll(x, l, h)
BY DEF LayoutOK, clamp_strip_scroll, Clamped, max_scroll, Greater, Lesser, total_height

\* Wherever a strip is sent, it ends inside.
LEMMA MovesInPlace ==
    ASSUME NEW sv, ViewportOK(sv), sv.layout # NoLayout, NEW y \in Int, NEW zoom,
           sv.layout.zoom = zoom
    PROVE  InPlace(move_to(sv, y), zoom)
<1> DEFINE t == move_to(sv, y)
           to == clamp_strip_scroll(y, sv.layout, sv.vp_h)
           way == IF to > sv.y THEN "Down" ELSE IF to < sv.y THEN "Up" ELSE sv.travel
<1>1. clamp_strip_scroll(to, sv.layout, sv.vp_h) = to
  <2>1. LayoutOK(sv.layout) /\ sv.vp_h \in Int
    BY DEF ViewportOK
  <2> QED
    BY <2>1, ClampedOnce
<1>2. t = [sv EXCEPT !.y = to, !.travel = way]
  BY DEF move_to
<1> HIDE DEF to, t, way
<1>3. t.layout = sv.layout /\ t.vp_h = sv.vp_h /\ t.y = to
  BY <1>2 DEF ViewportOK, IsViewport
<1>4. InPlace(t, zoom)
  BY <1>1, <1>3 DEF InPlace
<1> QED
  BY <1>4 DEF t

\* A pin stays inside.
LEMMA PinsInPlace ==
    ASSUME NEW sv, ViewportOK(sv), NEW p, NEW zoom, InPlace(sv, zoom)
    PROVE  InPlace(pin_page(sv, p), zoom)
<1>1. LET t == pin_page(sv, p) IN t.layout = sv.layout /\ t.vp_h = sv.vp_h /\ t.y = sv.y
  BY DEF ViewportOK, IsViewport, pin_page
<1> QED
  BY <1>1 DEF InPlace

\* A jump to a page ends inside.
LEMMA NavigateInPlace ==
    ASSUME NEW sv, ViewportOK(sv), sv.layout # NoLayout, NEW p \in Pages, NEW zoom,
           sv.layout.zoom = zoom
    PROVE  InPlace(navigate(sv, p), zoom)
<1>1. anchor(sv.layout, p) \in Int
  <2>1. LayoutOK(sv.layout)
    BY DEF ViewportOK
  <2>2. sv.layout.tops \in [Pages -> Int]
    BY <2>1 DEF LayoutOK
  <2>3. Gap \in Int
    BY StripConstants
  <2> QED
    BY <2>2, <2>3 DEF anchor, top
<1>2. ViewportOK(move_to(sv, anchor(sv.layout, p))) /\ InPlace(move_to(sv, anchor(sv.layout, p)), zoom)
  BY <1>1, MovesOK, MovesInPlace
<1> QED
  BY <1>2, PinsInPlace DEF navigate

\* So does a scroll.
LEMMA ScrollInPlace ==
    ASSUME NEW sv, ViewportOK(sv), sv.layout # NoLayout, NEW dy \in Int, NEW zoom,
           sv.layout.zoom = zoom
    PROVE  InPlace(scroll_by(sv, dy), zoom)
<1> DEFINE free == [sv EXCEPT !.pinned = FALSE]
<1>1. IsViewport(free) /\ free.layout = sv.layout /\ free.vp_h = sv.vp_h /\ free.y = sv.y
  BY DEF ViewportOK, IsViewport
<1>2. scroll_by(sv, dy) = move_to(free, sv.y + dy)
  BY DEF scroll_by, scroll_to
<1> HIDE DEF free
<1>3. ViewportOK(free) /\ sv.y + dy \in Int
  BY <1>1 DEF ViewportOK
<1> QED
  BY <1>1, <1>2, <1>3, MovesInPlace

\* And a resize.
LEMMA ResizeInPlace ==
    ASSUME NEW sv, ViewportOK(sv), NEW h \in Heights, NEW zoom, InPlace(sv, zoom)
    PROVE  /\ InPlace(set_viewport(sv, h), zoom)
           /\ h = sv.vp_h => SameLook(set_viewport(sv, h), sv)
<1> DEFINE y == IF sv.layout # NoLayout THEN clamp_strip_scroll(sv.y, sv.layout, h) ELSE sv.y
           t == set_viewport(sv, h)
<1>1. h \in Int
  BY StripConstants
<1>2. sv.layout # NoLayout => clamp_strip_scroll(y, sv.layout, h) = y
  BY <1>1, ClampedOnce DEF ViewportOK
<1>3. t = [sv EXCEPT !.vp_h = h, !.y = y]
  BY DEF set_viewport, has_layout
<1>4. h = sv.vp_h => y = sv.y
  BY DEF InPlace
<1> HIDE DEF y, t
<1>5. t.layout = sv.layout /\ t.vp_h = h /\ t.y = y /\ t.travel = sv.travel
  BY <1>3 DEF ViewportOK, IsViewport
<1>6. InPlace(t, zoom)
  BY <1>2, <1>5 DEF InPlace
<1>7. h = sv.vp_h => SameLook(t, sv)
  BY <1>4, <1>5 DEF SameLook
<1> QED
  BY <1>6, <1>7 DEF t

\* A relayout ends inside, and for the zoom that it had it moves nothing.
LEMMA RelayoutInPlace ==
    ASSUME NEW sv, ViewportOK(sv), NEW zoom \in Zooms, NEW old, InPlace(sv, old)
    PROVE  /\ InPlace(relayout(sv, PageH, zoom), zoom)
           /\ old = zoom => relayout(sv, PageH, zoom) = sv
<1> DEFINE t == relayout(sv, PageH, zoom)
           next == StripLayout(PageH, zoom)
           y == relayout_scroll(position_at(sv.layout, sv.y), next, sv.vp_h)
<1>1. CASE sv.layout = NoLayout \/ zoom = sv.layout.zoom
  <2>1. t = sv
    BY <1>1 DEF relayout, has_layout
  <2> QED
    BY <1>1, <2>1 DEF InPlace
<1>2. CASE sv.layout # NoLayout /\ zoom # sv.layout.zoom
  <2>1. t = [sv EXCEPT !.layout = next, !.y = y]
    BY <1>2 DEF relayout, has_layout
  <2>2. LayoutOK(next) /\ next # NoLayout /\ next.zoom = zoom
    BY LayoutTyped DEF StripLayout
  <2>3. clamp_strip_scroll(y, next, sv.vp_h) = y
    <3>1. LayoutOK(sv.layout) /\ sv.y \in Int /\ sv.vp_h \in Int
      BY <1>2 DEF ViewportOK
    <3>2. y_of(next, position_at(sv.layout, sv.y)) \in Int
      BY <2>2, <3>1, PointIsInt
    <3> QED
      BY <2>2, <3>1, <3>2, ClampedOnce DEF relayout_scroll
  <2> HIDE DEF t, next, y
  <2>4. t.layout = next /\ t.vp_h = sv.vp_h /\ t.y = y
    BY <2>1 DEF ViewportOK, IsViewport
  <2>5. InPlace(t, zoom)
    BY <2>2, <2>3, <2>4 DEF InPlace
  <2>6. old # zoom
    BY <1>2 DEF InPlace
  <2> QED
    BY <2>5, <2>6 DEF t
<1> QED
  BY <1>1, <1>2

\* What looks the same is as much inside.
LEMMA CurrentInPlace ==
    ASSUME NEW a, NEW b, SameLook(a, b), NEW zoom, InPlace(b, zoom)
    PROVE  InPlace(a, zoom)
BY DEF SameLook, InPlace

-----------------------------------------------------------------------------
(* Answers.                                                                *)

\* Nothing but the marks of the target and of the pages without one changes.
LEMMA MarkSound ==
    ASSUME NEW s, Sound(s), NEW t, IsStrip(t), SameView(s, t),
           t.slots = s.slots, t.bitmaps = s.bitmaps, t.last = s.last, t.reqs = s.reqs,
           t.next_seq = s.next_seq, t.lost = s.lost, t.rt \in BOOLEAN
    PROVE  Sound(t) /\ (OnlyHeld(s) => OnlyHeld(t))
<1>1. StripTypes(t)
  BY DEF Sound, StripTypes, SameView
<1>2. Numbered(t)
  BY DEF Sound, Numbered, PendingAt, SameView
<1>3. BitmapsHeld(t)
  BY DEF Sound, BitmapsHeld, SameView
<1>4. OnlyHeld(s) => OnlyHeld(t)
  BY DEF OnlyHeld
<1> QED
  BY <1>1, <1>2, <1>3, <1>4 DEF Sound

\* More requests, more pages without a target: who was served still is.
LEMMA ServedStill ==
    ASSUME NEW s, Served(s), NEW t, SameView(s, t), t.slots = s.slots, t.last = s.last,
           s.reqs \subseteq t.reqs, s.lost \subseteq t.lost, s.bare \subseteq t.bare
    PROVE  Served(t)
<1> SUFFICES ASSUME strip_active(t)
             PROVE  t.last = Params(t) /\ \A p \in visible(t.sv) : PageServed(t, p)
  BY DEF Served
<1>1. Params(t) = Params(s) /\ strip_active(s) /\ t.epoch = s.epoch /\ t.sv = s.sv
  BY DEF SameView, Params, strip_active
<1>2. s.last = Params(s) /\ \A p \in visible(s.sv) : PageServed(s, p)
  BY <1>1 DEF Served
<1>3. ASSUME NEW p \in visible(t.sv)
      PROVE  PageServed(t, p)
  <2>1. PageServed(s, p) /\ SlotAt(t, p) = SlotAt(s, p)
    BY <1>1, <1>2 DEF SlotAt
  <2> QED
    BY <1>1, <2>1 DEF PageServed
<1> QED
  BY <1>1, <1>2, <1>3

\* A request that no slot waits for is nobody's.
LEMMA NobodysRequest ==
    ASSUME NEW s, Sound(s), NEW r \in s.reqs, ~Matches(s, r)
    PROVE  \A p \in DOMAIN s.slots : PendingAt(s, p) => s.slots[p].seq # r.seq
<1> SUFFICES ASSUME NEW p \in DOMAIN s.slots, PendingAt(s, p), s.slots[p].seq = r.seq
             PROVE  FALSE
  OBVIOUS
<1>1. r.page = p /\ r.epoch = s.epoch
  BY DEF Sound, Numbered
<1>2. SlotAt(s, r.page) = s.slots[p]
  BY <1>1 DEF SlotAt
<1> QED
  BY <1>1, <1>2 DEF Matches, PendingAt

\* It goes, whatever becomes of it.
LEMMA GoneSound ==
    ASSUME NEW s, Sound(s), NEW r \in s.reqs, ~Matches(s, r),
           NEW t, IsStrip(t), SameView(s, t), SameSlots(s, t), t.reqs = s.reqs \ {r}
    PROVE  /\ Sound(t) /\ (OnlyHeld(s) => OnlyHeld(t)) /\ (Served(s) => Served(t))
<1>1. \A p \in DOMAIN s.slots : PendingAt(s, p) => s.slots[p].seq # r.seq
  BY NobodysRequest
<1>2. StripTypes(t)
  BY DEF Sound, StripTypes, SameView, SameSlots
<1>3. Numbered(t)
  <2>1. \A p \in DOMAIN t.slots : PendingAt(t, p) => PendingAt(s, p) /\ t.slots[p] = s.slots[p]
    BY DEF PendingAt, SameSlots
  <2> QED
    BY <1>1, <2>1, StillNumbered DEF Sound, SameView, SameSlots
<1>4. BitmapsHeld(t) /\ (OnlyHeld(s) => OnlyHeld(t))
  BY DEF Sound, BitmapsHeld, OnlyHeld, SameView, SameSlots
<1>5. ASSUME Served(s), strip_active(t)
      PROVE  t.last = Params(t) /\ \A p \in visible(t.sv) : PageServed(t, p)
  <2>1. Params(t) = Params(s) /\ strip_active(s) /\ t.epoch = s.epoch /\ t.sv = s.sv
    BY <1>5 DEF SameView, Params, strip_active
  <2>2. s.last = Params(s) /\ \A p \in visible(s.sv) : PageServed(s, p)
    BY <1>5, <2>1 DEF Served
  <2>3. ASSUME NEW p \in visible(t.sv)
        PROVE  PageServed(t, p)
    <3>1. PageServed(s, p) /\ SlotAt(t, p) = SlotAt(s, p)
      BY <2>1, <2>2 DEF SlotAt, SameSlots
    <3>2. SlotAt(s, p).kind = "Pending" => SlotAt(s, p).seq # r.seq
      BY <1>1, SlotKinds DEF SlotAt, PendingAt
    <3> QED
      BY <2>1, <3>1, <3>2 DEF PageServed, SameSlots
  <2> QED
    BY <2>1, <2>2, <2>3 DEF SameSlots
<1> QED
  BY <1>2, <1>3, <1>4, <1>5 DEF Sound, Served

\* What a step that answers `r`, which the slot of its page waits for, does.
Settles(s, r, slot, t) ==
    /\ IsStrip(t) /\ SameView(s, t) /\ t.reqs = s.reqs \ {r} /\ t.last = s.last
    /\ t.next_seq = s.next_seq /\ s.lost \subseteq t.lost /\ t.rt \in BOOLEAN
    /\ t.slots = [s.slots EXCEPT ![r.page] = slot]

\* A request that matches is the one that the slot of its page waits for.
LEMMA MatchedIs ==
    ASSUME NEW s, Sound(s), NEW r \in s.reqs, Matches(s, r)
    PROVE  /\ r.page \in DOMAIN s.slots /\ PendingAt(s, r.page) /\ s.slots[r.page].seq = r.seq
           /\ SlotAt(s, r.page) = s.slots[r.page] /\ SlotOK(s.slots[r.page])
           /\ r.epoch = s.epoch /\ r.par = s.slots[r.page].par /\ r.par = s.last /\ r.par \in Pars
           /\ s.slots = [p \in DOMAIN s.slots |-> s.slots[p]]
<1>1. SlotAt(s, r.page).kind = "Pending" /\ SlotAt(s, r.page).seq = r.seq /\ r.epoch = s.epoch
  BY DEF Matches
<1>2. r.page \in DOMAIN s.slots /\ SlotAt(s, r.page) = s.slots[r.page]
  BY <1>1, SlotKinds DEF SlotAt
<1>3. PendingAt(s, r.page)
  BY <1>1, <1>2 DEF PendingAt
<1>4. SlotOK(s.slots[r.page]) /\ s.slots = [p \in DOMAIN s.slots |-> s.slots[p]]
  BY <1>2 DEF Sound, StripTypes
<1>5. r.par = s.slots[r.page].par /\ s.slots[r.page].par = s.last
  BY <1>1, <1>2, <1>3 DEF Sound, Numbered
<1>6. s.slots[r.page].par \in Pars
  BY <1>1, <1>2, <1>4, SlotShapes
<1> QED
  BY <1>1, <1>2, <1>3, <1>4, <1>5, <1>6

\* The other pages are where they were.
LEMMA SettledSlots ==
    ASSUME NEW s, Sound(s), NEW r \in s.reqs, Matches(s, r), NEW slot, NEW t,
           Settles(s, r, slot, t)
    PROVE  /\ DOMAIN t.slots = DOMAIN s.slots /\ t.slots[r.page] = slot
           /\ t.slots = [p \in DOMAIN t.slots |-> t.slots[p]]
           /\ \A p \in DOMAIN s.slots \ {r.page} : t.slots[p] = s.slots[p]
<1>1. r.page \in DOMAIN s.slots /\ s.slots = [p \in DOMAIN s.slots |-> s.slots[p]]
  BY MatchedIs
<1>2. t.slots = [s.slots EXCEPT ![r.page] = slot]
  BY DEF Settles
<1> QED
  BY <1>1, <1>2

\* A slot that takes its answer keeps the strip sound, if the bitmaps follow it.
LEMMA SettleSound ==
    ASSUME NEW s, Sound(s), NEW r \in s.reqs, Matches(s, r),
           NEW slot, SlotOK(slot), slot.kind # "Pending", NEW t, Settles(s, r, slot, t),
           t.bitmaps = [p \in DOMAIN t.bitmaps |-> t.bitmaps[p]],
           \A p \in DOMAIN s.bitmaps \ {r.page} :
              p \in DOMAIN t.bitmaps /\ t.bitmaps[p] = s.bitmaps[p],
           slot_holds_bitmap(slot) =>
              /\ r.page \in DOMAIN t.bitmaps
              /\ t.bitmaps[r.page] = [epoch |-> s.epoch, par |-> ShownPar(slot)]
    PROVE  Sound(t)
<1>1. /\ DOMAIN t.slots = DOMAIN s.slots /\ t.slots[r.page] = slot
      /\ t.slots = [p \in DOMAIN t.slots |-> t.slots[p]]
      /\ \A p \in DOMAIN s.slots \ {r.page} : t.slots[p] = s.slots[p]
  BY SettledSlots
<1>2. /\ IsStrip(t) /\ SameView(s, t) /\ t.reqs = s.reqs \ {r} /\ t.last = s.last
      /\ t.next_seq = s.next_seq /\ s.lost \subseteq t.lost /\ t.rt \in BOOLEAN
  BY DEF Settles
<1>3. StripTypes(t)
  <2>1. \A p \in DOMAIN t.slots : SlotOK(t.slots[p])
    BY <1>1 DEF Sound, StripTypes
  <2>2. \A q \in t.reqs : ReqOK(q)
    BY <1>2 DEF Sound, StripTypes
  <2> QED
    BY <1>1, <1>2, <2>1, <2>2 DEF Sound, StripTypes, SameView
<1>4. Numbered(t)
  <2>1. \A p \in DOMAIN t.slots : PendingAt(t, p) =>
           p # r.page /\ PendingAt(s, p) /\ t.slots[p] = s.slots[p]
    BY <1>1 DEF PendingAt
  <2>2. \A p \in DOMAIN t.slots : PendingAt(t, p) => t.slots[p].seq # r.seq
    BY <1>1, <2>1, MatchedIs DEF Sound, Numbered
  <2> QED
    BY <1>2, <2>1, <2>2, StillNumbered DEF Sound, SameView
<1>5. BitmapsHeld(t)
  <2> SUFFICES ASSUME NEW p \in DOMAIN t.slots, slot_holds_bitmap(t.slots[p])
               PROVE  /\ p \in DOMAIN t.bitmaps
                      /\ t.bitmaps[p] = [epoch |-> t.epoch, par |-> ShownPar(t.slots[p])]
    BY DEF BitmapsHeld
  <2>1. t.epoch = s.epoch
    BY <1>2 DEF SameView
  <2>2. CASE p = r.page
    BY <1>1, <2>1, <2>2
  <2>3. CASE p # r.page
    <3>1. p \in DOMAIN s.slots /\ t.slots[p] = s.slots[p]
      BY <1>1, <2>3
    <3>2. p \in DOMAIN s.bitmaps /\ s.bitmaps[p] = [epoch |-> s.epoch, par |-> ShownPar(s.slots[p])]
      BY <3>1 DEF Sound, BitmapsHeld
    <3> QED
      BY <2>1, <2>3, <3>1, <3>2
  <2> QED
    BY <2>2, <2>3
<1> QED
  BY <1>3, <1>4, <1>5 DEF Sound

\* The page of the answer is served again: drawn at the parameters it was asked
\* at, failed with its priority, or waiting for a target.
LEMMA SettleServes ==
    ASSUME NEW s, Sound(s), Served(s), NEW r \in s.reqs, Matches(s, r),
           NEW slot, NEW t, Settles(s, r, slot, t), s.bare \subseteq t.bare,
           \/ slot = ReadySlot(s.slots[r.page].par)
           \/ slot = FailedSlot(s.slots[r.page])
           \/ slot = NoneSlot /\ r.page \in t.bare
    PROVE  Served(t)
<1> SUFFICES ASSUME strip_active(t)
             PROVE  t.last = Params(t) /\ \A p \in visible(t.sv) : PageServed(t, p)
  BY DEF Served
<1>1. /\ DOMAIN t.slots = DOMAIN s.slots /\ t.slots[r.page] = slot
      /\ t.slots = [p \in DOMAIN t.slots |-> t.slots[p]]
      /\ \A p \in DOMAIN s.slots \ {r.page} : t.slots[p] = s.slots[p]
  BY SettledSlots
<1>2. /\ SameView(s, t) /\ t.reqs = s.reqs \ {r} /\ t.last = s.last /\ s.lost \subseteq t.lost
  BY DEF Settles
<1>3. Params(t) = Params(s) /\ strip_active(s) /\ t.epoch = s.epoch /\ t.sv = s.sv
  BY <1>2 DEF SameView, Params, strip_active
<1>4. s.last = Params(s) /\ \A p \in visible(s.sv) : PageServed(s, p)
  BY <1>3 DEF Served
<1>5. /\ r.page \in DOMAIN s.slots /\ PendingAt(s, r.page) /\ s.slots[r.page].seq = r.seq
      /\ SlotAt(s, r.page) = s.slots[r.page] /\ SlotOK(s.slots[r.page])
      /\ r.epoch = s.epoch /\ r.par = s.slots[r.page].par /\ r.par = s.last /\ r.par \in Pars
      /\ s.slots = [p \in DOMAIN s.slots |-> s.slots[p]]
  BY MatchedIs
<1>6. ASSUME NEW p \in visible(t.sv), p # r.page
      PROVE  PageServed(t, p)
  <2>1. PageServed(s, p) /\ SlotAt(t, p) = SlotAt(s, p)
    BY <1>1, <1>3, <1>4, <1>6 DEF SlotAt
  <2>2. SlotAt(s, p).kind = "Pending" => SlotAt(s, p).seq # r.seq
    <3> SUFFICES ASSUME SlotAt(s, p).kind = "Pending", SlotAt(s, p).seq = r.seq
                 PROVE  FALSE
      OBVIOUS
    <3>1. p \in DOMAIN s.slots /\ SlotAt(s, p) = s.slots[p]
      BY SlotKinds DEF SlotAt
    <3>2. PendingAt(s, p)
      BY <3>1 DEF PendingAt
    <3> QED
      BY <1>5, <1>6, <3>1, <3>2 DEF Sound, Numbered
  <2> QED
    BY <1>2, <1>3, <2>1, <2>2 DEF PageServed
<1>7. ASSUME r.page \in visible(t.sv)
      PROVE  PageServed(t, r.page)
  <2>1. SlotAt(t, r.page) = slot
    BY <1>1, <1>5 DEF SlotAt
  <2>2. CASE slot = ReadySlot(s.slots[r.page].par)
    BY <1>3, <1>4, <1>5, <2>1, <2>2 DEF PageServed
  <2>3. CASE slot = FailedSlot(s.slots[r.page])
    <3>1. s.slots[r.page].kind = "Pending" /\ PageServed(s, r.page)
      BY <1>3, <1>4, <1>5, <1>7 DEF PendingAt
    <3>2. s.slots[r.page].priority = 0
      <4>1. ReadySlot(Params(s)).kind = "Ready"
        BY DEF ReadySlot, NoneSlot
      <4> QED
        BY <1>5, <3>1, <4>1 DEF PageServed
    <3>3. slot.kind = "Failed" /\ slot.priority = 0
      BY <2>3, <3>2, SlotKinds
    <3> QED
      BY <2>1, <3>3 DEF PageServed
  <2>4. CASE slot = NoneSlot /\ r.page \in t.bare
    BY <2>1, <2>4, SlotKinds DEF PageServed
  <2> QED
    BY <2>2, <2>3, <2>4
<1> QED
  BY <1>2, <1>3, <1>4, <1>6, <1>7

-----------------------------------------------------------------------------
(* What a pass holds.                                                      *)

\* The bitmaps of a view's pages, weighed.
LeafBytes(s) == [p \in Pages |-> [bytes |-> bytes_of(s, p)]]

BytesOf(s, S) == MapThenSumSet(LAMBDA p : bytes_of(s, p), S)

BytesFrom(s, S, g) ==
    [T \in SUBSET S |-> IF T = {} THEN 0 ELSE bytes_of(s, First(T)) + g[T \ {First(T)}]]

\* The bytes of a pass are a sum of DataTheorems.
LEMMA BytesAre ==
    ASSUME NEW s, NEW S, S \subseteq Pages
    PROVE  BytesOf(s, S) = BytesIn(LeafBytes(s), S)
<1> DEFINE map == LeafBytes(s)
           h == CHOOSE f : f = BytesFrom(s, S, f)
<1>1. IsFiniteSet(S)
  BY PagesAre, FS_Subset
<1>2. PICK g : g = SumFrom(map, S, g) /\ BytesIn(map, S) = g[S]
  BY <1>1, SumExists
<1>3. ASSUME NEW f PROVE SumFrom(map, S, f) = BytesFrom(s, S, f)
  <2>1. \A T \in SUBSET S : T # {} => First(T) \in T /\ map[First(T)].bytes = bytes_of(s, First(T))
    BY DEF LeafBytes, First
  <2> QED
    BY <2>1 DEF SumFrom, BytesFrom
<1>4. h = BytesFrom(s, S, h)
  BY <1>2, <1>3
<1>5. BytesOf(s, S) = h[S]
  BY DEF BytesOf, BytesFrom, MapThenSumSet, MapThenFoldSet, First
<1> HIDE DEF map, h
<1>6. h = SumFrom(map, S, h) /\ g = SumFrom(map, S, g)
  BY <1>2, <1>3, <1>4
<1>7. g[S] = h[S]
  BY <1>1, <1>6, SumAgrees
<1> QED
  BY <1>2, <1>5, <1>7 DEF map

\* The bytes of a set of pages add up, in whatever order.
LEMMA BytesWeigh ==
    ASSUME NEW s, s.zoom \in Zooms, NEW S, S \subseteq Pages
    PROVE  Weighed(LeafBytes(s), S)
<1>1. s.zoom \in Nat /\ IsFiniteSet(S)
  BY StripConstants, PagesAre, FS_Subset
<1>2. ASSUME NEW p \in S PROVE LeafBytes(s)[p].bytes \in Nat
  <2>1. PageH[p] \in Nat /\ LeafBytes(s)[p].bytes = bytes_of(s, p)
    BY PagesAre DEF LeafBytes
  <2>2. \A a, b \in Nat : a * b * b \in Nat
    OBVIOUS
  <2> QED
    BY <1>1, <2>1, <2>2 DEF bytes_of
<1> QED
  BY <1>1, <1>2 DEF Weighed

\* Fewer pages, fewer bytes; and two sets together weigh no more than each.
LEMMA BytesFewer ==
    ASSUME NEW s, s.zoom \in Zooms, NEW S, S \subseteq Pages, NEW T, T \subseteq S
    PROVE  BytesOf(s, T) <= BytesOf(s, S) /\ BytesOf(s, T) \in Nat /\ BytesOf(s, S) \in Nat
<1>1. Weighed(LeafBytes(s), S) /\ T \in SUBSET S
  BY BytesWeigh
<1>2. LET m == LeafBytes(s)
      IN /\ BytesIn(m, S) = BytesIn(m, S \ T) + BytesIn(m, T)
         /\ BytesIn(m, S) \in Nat /\ BytesIn(m, S \ T) \in Nat /\ BytesIn(m, T) \in Nat
  BY <1>1, SumSplit
<1>3. BytesOf(s, S) = BytesIn(LeafBytes(s), S) /\ BytesOf(s, T) = BytesIn(LeafBytes(s), T)
  BY BytesAre
<1> QED
  BY <1>2, <1>3

\* Two sets weigh at most what each of them does.
LEMMA BytesTogether ==
    ASSUME NEW s, s.zoom \in Zooms, NEW A, A \subseteq Pages, NEW B, B \subseteq Pages
    PROVE  BytesOf(s, A \cup B) <= BytesOf(s, A) + BytesOf(s, B)
<1> DEFINE m == LeafBytes(s)
           both == A \cup B
<1>1. Weighed(m, both) /\ A \in SUBSET both /\ both \subseteq Pages
  BY BytesWeigh
<1>2. /\ BytesIn(m, both) = BytesIn(m, both \ A) + BytesIn(m, A)
      /\ BytesIn(m, both) \in Nat /\ BytesIn(m, both \ A) \in Nat /\ BytesIn(m, A) \in Nat
  BY <1>1, SumSplit
<1>3. both \ A \subseteq B /\ both \ A \subseteq Pages
  OBVIOUS
<1>4. BytesOf(s, both \ A) <= BytesOf(s, B) /\ BytesOf(s, B) \in Nat
  BY <1>3, BytesFewer
<1>5. /\ BytesOf(s, both) = BytesIn(m, both) /\ BytesOf(s, A) = BytesIn(m, A)
      /\ BytesOf(s, both \ A) = BytesIn(m, both \ A)
  BY <1>1, <1>3, BytesAre
<1> HIDE DEF m, both
<1>6. BytesOf(s, both) <= BytesOf(s, A) + BytesOf(s, B)
  BY <1>2, <1>4, <1>5
<1> QED
  BY <1>6 DEF both

\* The pages in view and those that it holds ahead.
Ahead(s) == {p \in prefetch(s.sv) : resident(SlotAt(s, p))}
Holding(s) == visible(s.sv) \cup Ahead(s)

\* What it holds fits in L1.
Fits(s) ==
    Cardinality(Holding(s)) <= L1Capacity /\ BytesOf(s, Holding(s)) <= L1Budget

\* Where less is held, it fits too.
LEMMA HoldsLess ==
    ASSUME NEW s, s.zoom \in Zooms, Fits(s), Holding(s) \subseteq Pages, NEW t, t.zoom = s.zoom,
           Holding(t) \subseteq Holding(s)
    PROVE  Fits(t)
<1>1. IsFiniteSet(Holding(s))
  BY PagesAre, FS_Subset
<1>2. Cardinality(Holding(t)) <= Cardinality(Holding(s)) /\ IsFiniteSet(Holding(t))
  BY <1>1, FS_Subset
<1>3. BytesOf(s, Holding(t)) <= BytesOf(s, Holding(s)) /\ BytesOf(s, Holding(t)) \in Nat
      /\ BytesOf(s, Holding(s)) \in Nat
  BY BytesFewer
<1>4. LeafBytes(t) = LeafBytes(s)
  BY DEF LeafBytes, bytes_of
<1>5. BytesOf(t, Holding(t)) = BytesOf(s, Holding(t))
  BY <1>4, BytesAre
<1>6. Cardinality(Holding(t)) \in Nat /\ Cardinality(Holding(s)) \in Nat
  BY <1>1, <1>2, FS_CardinalityType
<1>7. L1Capacity \in Nat /\ L1Budget \in Nat
  BY StripConstants
<1> QED
  BY <1>2, <1>3, <1>5, <1>6, <1>7 DEF Fits

\* The pages that a pass may ask for ahead, those as near as `p` and those held.
FreeAhead(s) == {p \in prefetch(s.sv) : PassEff(s)[p].kind = "None"}
AsNear(s, p) == {q \in FreeAhead(s) : q = p \/ Nearer(ScheduleInput(s), q, p)}
HeldAhead(s) == {p \in prefetch(s.sv) : resident(PassEff(s)[p])}
Taken(s) == visible(s.sv) \cup HeldAhead(s)

\* What a pass asks for ahead: the nearest, as many as fit beside what is held.
LEMMA P1Is ==
    ASSUME NEW s
    PROVE  PassP1(s) = {p \in FreeAhead(s) :
                          /\ Cardinality(AsNear(s, p)) + Cardinality(Taken(s)) <= L1Capacity
                          /\ BytesOf(s, AsNear(s, p)) + BytesOf(s, Taken(s)) <= L1Budget}
BY DEF PassP1, SubmitsP1, FreeAhead, AsNear, Taken, HeldAhead, Residents, BytesOf, ScheduleInput

\* Of some pages, one is the first.
LEMMA FirstBelow ==
    ASSUME NEW S, S \subseteq Pages, S # {}
    PROVE  \E p \in S : \A q \in S : p <= q
<1> DEFINE n == Cardinality(Pages)
           T == {n - 1 - p : p \in S}
<1>1. n \in Nat /\ Pages = 0..(n - 1)
  BY PagesAre
<1> HIDE DEF n
<1>2. T \subseteq Pages /\ T # {}
  <2>1. \A p \in S : p \in 0..(n - 1) /\ n - 1 - p \in Pages
    BY <1>1
  <2> QED
    BY <2>1
<1>3. PICK p \in S : \A q \in S : n - 1 - p >= n - 1 - q
  <2>1. Max(T) \in T /\ \A x \in T : Max(T) >= x
    BY <1>2, LastAbove
  <2>2. PICK p \in S : Max(T) = n - 1 - p
    BY <2>1
  <2>3. \A q \in S : n - 1 - q \in T
    OBVIOUS
  <2> QED
    BY <2>1, <2>2, <2>3
<1>4. \A q \in S : p \in Int /\ q \in Int /\ p <= q
  BY <1>1, <1>3
<1> QED
  BY <1>4

\* Of the pages ahead that a pass asks for, one is the farthest.
LEMMA Farthest ==
    ASSUME NEW in, NEW S, S \subseteq Pages, S # {}
    PROVE  \E m \in S : \A q \in S : q = m \/ Nearer(in, q, m)
<1>1. \A p \in S : p \in Int
  BY PagesAre
<1>2. CASE \E v \in in.visible, q \in in.prefetch : q < v
  <2>1. PICK m \in S : \A q \in S : m <= q
    BY FirstBelow
  <2>2. \A q \in S : q = m \/ q > m
    BY <1>1, <2>1
  <2> QED
    BY <1>2, <2>2 DEF Nearer
<1>3. CASE ~\E v \in in.visible, q \in in.prefetch : q < v
  <2>1. Max(S) \in S /\ \A q \in S : Max(S) >= q
    BY LastAbove
  <2>2. \A q \in S : q = Max(S) \/ q < Max(S)
    BY <1>1, <2>1
  <2> QED
    BY <1>3, <2>1, <2>2 DEF Nearer
<1> QED
  BY <1>2, <1>3

\* A page that is held after a pass was asked for by it, or held before.
LEMMA HeldWas ==
    ASSUME NEW s, PassReady(s), NEW p \in prefetch(s.sv), resident(SlotAt(run_pass(s), p)),
           p \notin PassP1(s)
    PROVE  p \in HeldAhead(s) /\ p \in Ahead(s)
<1> DEFINE t == run_pass(s)
           e == PassEff(s)[p]
           all == PassP0(s) \cup PassP1(s)
<1>1. t.slots = PassSlots(s)
  BY PassFields
<1>2. /\ DOMAIN PassSlots(s) = PassKept(s) \cup all
      /\ \A q \in PassKept(s) \ all : PassSlots(s)[q] = PassBase(s, q)
  BY PassSlotsAre
<1>3. p \notin all /\ p \in retain(s.sv) /\ p \notin visible(s.sv)
  BY PassSets
<1>4. p \in PassKept(s) /\ SlotAt(t, p) = PassBase(s, p)
  <2>1. NoneSlot.kind = "None"
    BY SlotKinds
  <2>2. p \in DOMAIN t.slots
    BY <2>1 DEF SlotAt, resident
  <2> QED
    BY <1>1, <1>2, <1>3, <2>2 DEF SlotAt
<1>5. p \notin PassCancel(s)
  BY <1>3 DEF PassCancel, PassOutside, Promoted, ScheduleInput
<1>6. resident(e)
  BY <1>4, <1>5 DEF PassBase
<1>7. SlotAt(s, p).kind = "Failed" => ~resident(e)
  <2>1. /\ AfterSweep(s, p) = IF swept(s, p) THEN cancel_transition(SlotAt(s, p)) ELSE SlotAt(s, p)
        /\ e = IF fail_resets(ScheduleInput(s), p, AfterSweep(s, p)) THEN NoneSlot ELSE AfterSweep(s, p)
    BY <1>3 DEF AfterSweep, PassEff, effective, ScheduleInput
  <2>2. SlotAt(s, p).kind = "Failed" => AfterSweep(s, p) = SlotAt(s, p)
    BY <2>1 DEF swept
  <2> QED
    BY <2>1, <2>2, SlotKinds DEF resident
<1>8. SlotAt(s, p).kind = "None" => ~resident(e)
  <2>1. /\ AfterSweep(s, p) = IF swept(s, p) THEN cancel_transition(SlotAt(s, p)) ELSE SlotAt(s, p)
        /\ e = IF fail_resets(ScheduleInput(s), p, AfterSweep(s, p)) THEN NoneSlot ELSE AfterSweep(s, p)
    BY <1>3 DEF AfterSweep, PassEff, effective, ScheduleInput
  <2>2. SlotAt(s, p).kind = "None" => AfterSweep(s, p) = SlotAt(s, p)
    BY <2>1 DEF swept
  <2> QED
    BY <2>1, <2>2, SlotKinds DEF resident
<1>9. SlotAt(s, p).kind \in {"None", "Ready", "Failed", "Pending"}
  <2>1. SlotOK(SlotAt(s, p))
    BY SlotKinds DEF SlotAt, PassReady, Sound, StripTypes
  <2> QED
    BY <2>1, SlotShapes
<1>10. resident(SlotAt(s, p))
  BY <1>6, <1>7, <1>8, <1>9 DEF resident
<1> QED
  BY <1>6, <1>10 DEF HeldAhead, Ahead

\* A pass that asks for a page ahead leaves room for every page it holds; one
\* that does not holds no page ahead that was not held.
LEMMA PassHolds ==
    ASSUME NEW s, PassReady(s)
    PROVE  LET t == run_pass(s)
           IN /\ PassP1(s) # {} => Fits(t)
              /\ PassP1(s) = {} => Holding(t) \subseteq Holding(s)
              /\ Holding(t) \subseteq Pages
<1> DEFINE t == run_pass(s)
<1>1. t.sv = s.sv /\ t.zoom = s.zoom
  BY PassFields DEF SameView
<1>2. /\ visible(s.sv) \subseteq Pages /\ prefetch(s.sv) \subseteq Pages
      /\ PassP1(s) \subseteq prefetch(s.sv)
  BY PassSets
<1>3. \A p \in Ahead(t) : p \in prefetch(s.sv) /\ (p \notin PassP1(s) => p \in HeldAhead(s) /\ p \in Ahead(s))
  BY <1>1, HeldWas DEF Ahead
<1> HIDE DEF t
<1>4. PassP1(s) = {} => Holding(t) \subseteq Holding(s)
  BY <1>1, <1>3 DEF Holding
<1>5. Holding(t) \subseteq Pages
  BY <1>1, <1>2, <1>3 DEF Holding
<1>6. ASSUME PassP1(s) # {}
      PROVE  Fits(t)
  <2>1. PICK m \in PassP1(s) : \A q \in PassP1(s) : q = m \/ Nearer(ScheduleInput(s), q, m)
    <3>1. PassP1(s) \subseteq Pages
      BY <1>2
    <3> QED
      BY <1>6, <3>1, Farthest
  <2>2. /\ m \in FreeAhead(s) /\ PassP1(s) \subseteq FreeAhead(s)
        /\ Cardinality(AsNear(s, m)) + Cardinality(Taken(s)) <= L1Capacity
        /\ BytesOf(s, AsNear(s, m)) + BytesOf(s, Taken(s)) <= L1Budget
    BY P1Is
  <2>3. PassP1(s) \subseteq AsNear(s, m)
    BY <2>1, <2>2 DEF AsNear
  <2>4. AsNear(s, m) \subseteq Pages /\ Taken(s) \subseteq Pages
    BY <1>2 DEF AsNear, FreeAhead, Taken, HeldAhead
  <2>5. Holding(t) \subseteq AsNear(s, m) \cup Taken(s)
    BY <1>1, <1>3, <2>3 DEF Holding, Taken
  <2> DEFINE A == AsNear(s, m)
             B == Taken(s)
             both == A \cup B
  <2>6. IsFiniteSet(A) /\ IsFiniteSet(B)
    BY <2>4, PagesAre, FS_Subset
  <2>7. s.zoom \in Zooms
    BY DEF PassReady, Sound, StripTypes
  <2>8. LeafBytes(t) = LeafBytes(s)
    BY <1>1 DEF LeafBytes, bytes_of
  <2>9. BytesOf(t, Holding(t)) = BytesOf(s, Holding(t))
    BY <1>5, <2>8, BytesAre
  <2> HIDE DEF A, B
  <2>10. IsFiniteSet(both) /\ both \subseteq Pages
    BY <2>4, <2>6, FS_Union DEF A, B
  <2>11. /\ Cardinality(both) = Cardinality(A) + Cardinality(B) - Cardinality(A \cap B)
    BY <2>6, FS_Union
  <2>12. /\ Cardinality(A) \in Nat /\ Cardinality(B) \in Nat /\ Cardinality(both) \in Nat
         /\ Cardinality(A \cap B) \in Nat
    <3>1. IsFiniteSet(A \cap B)
      BY <2>6, FS_Intersection
    <3> QED
      BY <2>6, <2>10, <3>1, FS_CardinalityType
  <2>13. Cardinality(Holding(t)) <= Cardinality(both) /\ Cardinality(Holding(t)) \in Nat
    <3>1. IsFiniteSet(Holding(t)) /\ Cardinality(Holding(t)) <= Cardinality(both)
      BY <2>5, <2>10, FS_Subset DEF A, B
    <3> QED
      BY <3>1, FS_CardinalityType
  <2>14. /\ BytesOf(s, Holding(t)) <= BytesOf(s, both) /\ BytesOf(s, Holding(t)) \in Nat
         /\ BytesOf(s, both) \in Nat
    BY <2>5, <2>7, <2>10, BytesFewer DEF A, B
  <2>15. BytesOf(s, both) <= BytesOf(s, A) + BytesOf(s, B)
    BY <2>4, <2>7, BytesTogether DEF A, B
  <2>16. BytesOf(s, A) \in Nat /\ BytesOf(s, B) \in Nat
    BY <2>4, <2>7, BytesFewer DEF A, B
  <2>17. L1Capacity \in Nat /\ L1Budget \in Nat
    BY StripConstants
  <2> HIDE DEF both
  <2>18. Cardinality(A) + Cardinality(B) <= L1Capacity /\ BytesOf(s, A) + BytesOf(s, B) <= L1Budget
    BY <2>2 DEF A, B
  <2>19. Cardinality(Holding(t)) <= L1Capacity
    BY <2>11, <2>12, <2>13, <2>17, <2>18
  <2>20. BytesOf(s, Holding(t)) <= L1Budget
    BY <2>14, <2>15, <2>16, <2>17, <2>18
  <2> QED
    BY <2>9, <2>19, <2>20 DEF Fits
<1> QED
  BY <1>4, <1>5, <1>6 DEF t

\* A page that a pass since the request `n` asked for ahead.
AskedAhead(s, n) == \E p \in DOMAIN s.slots : s.slots[p].priority = 1 /\ s.slots[p].seq > n

\* A slot with a new number waits for its answer.
LEMMA AskedWaits ==
    ASSUME NEW s, Sound(s), NEW n \in Nat, NEW p \in DOMAIN s.slots, s.slots[p].seq > n
    PROVE  PendingAt(s, p) /\ n < s.next_seq
<1>1. SlotOK(s.slots[p]) /\ s.next_seq \in Nat
  BY DEF Sound, StripTypes
<1>2. s.slots[p].kind = "Pending"
  <2>1. ~(0 > n) /\ NoneSlot.seq = 0 /\ (\A x : ReadySlot(x).seq = 0 /\ FailedSlot(x).seq = 0)
    BY DEF NoneSlot, ReadySlot, FailedSlot
  <2> QED
    BY <1>1, <2>1, SlotShapes
<1>3. PendingAt(s, p)
  BY <1>2 DEF PendingAt
<1>4. s.slots[p].seq <= s.next_seq /\ s.slots[p].seq \in Nat
  BY <1>1, <1>2, <1>3, SlotShapes DEF Sound, Numbered
<1> QED
  BY <1>1, <1>3, <1>4

\* With no new number, nothing was asked for.
LEMMA NothingAsked ==
    ASSUME NEW s, Sound(s), NEW n \in Nat, s.next_seq <= n
    PROVE  ~AskedAhead(s, n)
<1> SUFFICES ASSUME NEW p \in DOMAIN s.slots, s.slots[p].seq > n PROVE FALSE
  BY DEF AskedAhead
<1>1. n < s.next_seq /\ s.next_seq \in Nat
  BY AskedWaits DEF Sound, StripTypes
<1> QED
  BY <1>1

\* What a pass asks for ahead, it counts.
LEMMA PassAsks ==
    ASSUME NEW s, PassReady(s), NEW n \in Nat, AskedAhead(run_pass(s), n), PassP1(s) = {}
    PROVE  AskedAhead(s, n)
<1> DEFINE t == run_pass(s)
           all == PassP0(s) \cup PassP1(s)
<1>1. Sound(t) /\ t.slots = PassSlots(s)
  BY PassSound, PassFields
<1>2. PICK p \in DOMAIN t.slots : t.slots[p].priority = 1 /\ t.slots[p].seq > n
  BY DEF AskedAhead
<1>3. PendingAt(t, p)
  BY <1>1, <1>2, AskedWaits
<1>4. p \notin all
  <2> SUFFICES ASSUME p \in PassP0(s) PROVE FALSE
    OBVIOUS
  <2>1. PassSlots(s)[p] = PassSubmitted(s, p)
    BY PassSlotsAre
  <2>2. PassSubmitted(s, p).priority = 0
    BY SubmittedIs
  <2> QED
    BY <1>1, <1>2, <2>1, <2>2
<1>5. p \in DOMAIN s.slots /\ t.slots[p] = s.slots[p]
  <2>1. PassSlots(s)[p].kind = "Pending" /\ p \in DOMAIN PassSlots(s)
    BY <1>1, <1>3 DEF PendingAt
  <2>2. PendingAt(s, p) /\ PassSlots(s)[p] = s.slots[p]
    BY <1>4, <2>1, PassSlotsAre
  <2> QED
    BY <1>1, <2>2 DEF PendingAt
<1> QED
  BY <1>2, <1>5 DEF AskedAhead

\* The pass of a kick: if it asks for a page ahead, everything fits; if a page
\* ahead was asked for just before, it holds no more than was held then.
LEMMA RescheduleFits ==
    ASSUME NEW s, Sound(s), strip_active(s), NEW n \in Nat, AskedAhead(strip_reschedule(s), n)
    PROVE  LET t == strip_reschedule(s)
           IN Fits(t) \/ (AskedAhead(s, n) /\ Holding(t) \subseteq Holding(s))
<1> DEFINE t == strip_reschedule(s)
           u == Restarted(s)
           w == run_pass(u)
<1>1. t = Prune(w)
  BY DEF strip_reschedule, Restarted
<1>2. /\ PassReady(u) /\ SameView(s, u) /\ (s.last = Params(s) => u = s)
      /\ s.last # Params(s) => \A p \in DOMAIN u.slots : ~PendingAt(u, p)
  BY RestartSound
<1>3. Sound(u)
  BY <1>2 DEF PassReady
<1> HIDE DEF u
<1>4. /\ PassP1(u) # {} => Fits(w)
      /\ PassP1(u) = {} => Holding(w) \subseteq Holding(u)
  BY <1>2, PassHolds
<1>5. PassP1(u) = {} /\ AskedAhead(w, n) => AskedAhead(u, n)
  BY <1>2, PassAsks
<1>6. Sound(w)
  BY <1>2, PassSound
<1> HIDE DEF w
<1>7. t.slots = w.slots /\ SameView(w, t)
  BY <1>1, <1>6, PruneSound
<1> HIDE DEF t
<1>8. Holding(t) = Holding(w) /\ LeafBytes(t) = LeafBytes(w) /\ AskedAhead(w, n)
  <2>1. AskedAhead(t, n)
    BY DEF t
  <2> QED
    BY <1>7, <2>1 DEF Holding, Ahead, SlotAt, SameView, LeafBytes, bytes_of, AskedAhead
<1>9. CASE PassP1(u) # {}
  <2>1. Fits(w) /\ Holding(w) \subseteq Pages
    BY <1>2, <1>4, <1>9, PassHolds DEF w
  <2>2. BytesOf(t, Holding(t)) = BytesOf(w, Holding(w))
    BY <1>8, <2>1, BytesAre
  <2> QED
    BY <1>8, <2>1, <2>2 DEF Fits, t
<1>10. CASE PassP1(u) = {}
  <2>1. AskedAhead(u, n)
    BY <1>5, <1>8, <1>10
  <2>2. u = s
    <3>1. PICK p \in DOMAIN u.slots : u.slots[p].seq > n
      BY <2>1 DEF AskedAhead
    <3>2. PendingAt(u, p)
      BY <1>3, <3>1, AskedWaits
    <3> QED
      BY <1>2, <3>2
  <2> QED
    BY <1>4, <1>8, <1>10, <2>1, <2>2 DEF t
<1> QED
  BY <1>9, <1>10

\* So after a change of the viewport.
LEMMA ChangeFits ==
    ASSUME NEW s, Sound(s), strip_active(s), NEW n \in Nat, AskedAhead(strip_after_change(s), n)
    PROVE  LET t == strip_after_change(s)
           IN Fits(t) \/ (AskedAhead(s, n) /\ Holding(t) \subseteq Holding(s))
<1> DEFINE sv == recompute_current(s.sv)
           u == [s EXCEPT !.sv = sv]
           t == strip_after_change(s)
<1>1. t = strip_reschedule(u)
  BY DEF strip_after_change
<1>2. ViewportOK(sv) /\ SameLook(sv, s.sv)
  BY CurrentOK DEF Sound, StripTypes
<1> HIDE DEF sv
<1>3. Sound(u) /\ SameSlots(s, u) /\ u.sv = sv /\ u.strip = s.strip
  BY <1>2, MoveSound
<1> HIDE DEF u, t
<1>4. strip_active(u)
  BY <1>2, <1>3 DEF strip_active, has_layout, SameLook
<1>5. Fits(t) \/ (AskedAhead(u, n) /\ Holding(t) \subseteq Holding(u))
  <2>1. AskedAhead(t, n)
    BY DEF t
  <2> QED
    BY <1>1, <1>3, <1>4, <2>1, RescheduleFits
<1>6. Holding(u) = Holding(s) /\ (AskedAhead(u, n) <=> AskedAhead(s, n))
  <2>1. visible(u.sv) = visible(s.sv) /\ prefetch(u.sv) = prefetch(s.sv)
    BY <1>2, <1>3 DEF visible, prefetch, SameLook
  <2>2. u.slots = s.slots
    BY <1>3 DEF SameSlots
  <2> QED
    BY <2>1, <2>2 DEF Holding, Ahead, SlotAt, AskedAhead
<1> QED
  BY <1>5, <1>6 DEF t

-----------------------------------------------------------------------------
(* The steps.                                                              *)

\* The strip is inside its layout, and so are its slots.
StripPlaced(s) ==
    /\ InPlace(s.sv, s.zoom)
    /\ strip_active(s) => DOMAIN s.slots \subseteq retain(s.sv)

\* The inductive invariant of the strip.
StripSound(s) == Sound(s) /\ OnlyHeld(s) /\ Served(s) /\ StripPlaced(s)

\* FailureStays and PassFits, of any two states.
Stays(s, t) ==
    \A p \in DOMAIN s.slots :
      /\ s.slots[p].kind = "Failed" /\ s.slots[p].priority = 0
      /\ t.epoch = s.epoch /\ t.last = s.last /\ strip_active(t)
      /\ p \in visible(s.sv) \cap visible(t.sv)
      => SlotAt(t, p) = s.slots[p]

FitsAfter(s, t) ==
    strip_active(t) =>
      /\ DOMAIN t.slots \subseteq retain(t.sv)
      /\ t.sv.vp_h = s.sv.vp_h /\ AskedAhead(t, s.next_seq) => Fits(t)

StepSound(s, t) == StripSound(t) /\ Stays(s, t) /\ FitsAfter(s, t)

\* What a kick may start from, `s` being the state of the strip at the input.
KickFrom(s, u) ==
    /\ Sound(u) /\ OnlyHeld(u) /\ InPlace(u.sv, u.zoom)
    /\ u.last = Params(u) => Stays(s, u)
    /\ u.next_seq <= s.next_seq
    /\ u.epoch = s.epoch => u.last = s.last

\* Whatever kicked it, a pass leaves the strip as it should be.
LEMMA PassStep ==
    ASSUME NEW s, StripSound(s), NEW u, KickFrom(s, u), NEW t,
           Sound(t), Served(t), OnlyHeld(t),
           strip_active(u) => DOMAIN t.slots \subseteq retain(t.sv),
           u.last = Params(u) => KeepsFailed(u, t),
           t.strip = u.strip, t.epoch = u.epoch, t.zoom = u.zoom, t.inv = u.inv,
           SameLook(t.sv, u.sv),
           strip_active(u) /\ AskedAhead(t, s.next_seq) => Fits(t) \/ AskedAhead(u, s.next_seq)
    PROVE  StepSound(s, t)
<1>1. strip_active(t) <=> strip_active(u)
  BY DEF strip_active, has_layout, SameLook
<1>2. visible(t.sv) = visible(u.sv) /\ Params(t) = Params(u)
  BY DEF SameLook, visible, Params
<1>3. StripPlaced(t)
  BY <1>1, CurrentInPlace DEF StripPlaced, KickFrom
<1>4. Stays(s, t)
  <2> SUFFICES ASSUME NEW p \in DOMAIN s.slots,
                      s.slots[p].kind = "Failed", s.slots[p].priority = 0,
                      t.epoch = s.epoch, t.last = s.last, strip_active(t),
                      p \in visible(s.sv) \cap visible(t.sv)
               PROVE  SlotAt(t, p) = s.slots[p]
    BY DEF Stays
  <2>1. u.last = s.last /\ u.last = Params(u)
    BY <1>2 DEF KickFrom, Served
  <2>2. SlotAt(u, p) = s.slots[p]
    BY <1>1, <1>2, <2>1 DEF KickFrom, Stays
  <2>3. p \in DOMAIN u.slots /\ u.slots[p] = s.slots[p]
    BY <2>2, SlotKinds DEF SlotAt
  <2>4. KeepsFailed(u, t)
    BY <2>1
  <2> QED
    BY <2>3, <2>4 DEF KeepsFailed
<1>5. FitsAfter(s, t)
  <2>1. ~AskedAhead(u, s.next_seq)
    <3>1. s.next_seq \in Nat
      BY DEF StripSound, Sound, StripTypes
    <3> QED
      BY <3>1, NothingAsked DEF KickFrom
  <2> QED
    BY <1>1, <2>1 DEF FitsAfter
<1> QED
  BY <1>3, <1>4, <1>5 DEF StepSound, StripSound

\* The kick of strip_reschedule is such a pass.
LEMMA RescheduleStep ==
    ASSUME NEW s, StripSound(s), NEW u, KickFrom(s, u)
    PROVE  StepSound(s, strip_reschedule(u))
<1> DEFINE t == strip_reschedule(u)
<1>1. Sound(u) /\ OnlyHeld(u) /\ s.next_seq \in Nat
  BY DEF KickFrom, StripSound, Sound, StripTypes
<1>2. /\ Sound(t) /\ SameView(u, t) /\ Served(t) /\ OnlyHeld(t)
      /\ strip_active(u) => DOMAIN t.slots \subseteq retain(t.sv)
      /\ u.last = Params(u) => KeepsFailed(u, t)
  BY <1>1, RescheduleSound
<1>3. strip_active(u) /\ AskedAhead(t, s.next_seq) => Fits(t) \/ AskedAhead(u, s.next_seq)
  BY <1>1, RescheduleFits
<1> HIDE DEF t
<1>4. t.strip = u.strip /\ t.epoch = u.epoch /\ t.zoom = u.zoom /\ t.inv = u.inv /\ SameLook(t.sv, u.sv)
  BY <1>2 DEF SameView, SameLook
<1>5. StepSound(s, t)
  BY <1>2, <1>3, <1>4, PassStep
<1> QED
  BY <1>5 DEF t

\* So is that of strip_after_change.
LEMMA ChangeStep ==
    ASSUME NEW s, StripSound(s), NEW u, KickFrom(s, u)
    PROVE  StepSound(s, strip_after_change(u))
<1> DEFINE t == strip_after_change(u)
<1>1. Sound(u) /\ OnlyHeld(u) /\ s.next_seq \in Nat
  BY DEF KickFrom, StripSound, Sound, StripTypes
<1>2. /\ Sound(t) /\ Served(t) /\ OnlyHeld(t)
      /\ strip_active(u) => DOMAIN t.slots \subseteq retain(t.sv)
      /\ u.last = Params(u) => KeepsFailed(u, t)
      /\ t.strip = u.strip /\ t.epoch = u.epoch /\ t.zoom = u.zoom /\ t.inv = u.inv
      /\ SameLook(t.sv, u.sv)
  BY <1>1, ChangeSound
<1>3. strip_active(u) /\ AskedAhead(t, s.next_seq) => Fits(t) \/ AskedAhead(u, s.next_seq)
  BY <1>1, ChangeFits
<1> HIDE DEF t
<1>4. StepSound(s, t)
  BY <1>2, <1>3, PassStep
<1> QED
  BY <1>4 DEF t

\* A text request after the step.
LEMMA TextStep ==
    ASSUME NEW s, NEW t, StepSound(s, t)
    PROVE  StepSound(s, request_text(t))
<1> DEFINE u == request_text(t)
<1>1. Sound(t) /\ OnlyHeld(t) /\ Served(t) /\ StripPlaced(t) /\ Stays(s, t) /\ FitsAfter(s, t)
  BY DEF StepSound, StripSound
<1>2. /\ Sound(u) /\ OnlyHeld(u) /\ SameView(t, u)
      /\ u.slots = t.slots /\ u.last = t.last /\ u.bare = t.bare /\ u.lost = t.lost
      /\ t.reqs \subseteq u.reqs
  BY <1>1, TextSound
<1> HIDE DEF u
<1>3. Served(u)
  BY <1>1, <1>2, ServedStill
<1>4. strip_active(u) <=> strip_active(t)
  BY <1>2 DEF SameView, strip_active
<1>5. StripPlaced(u)
  BY <1>1, <1>2, <1>4 DEF StripPlaced, SameView
<1>6. Stays(s, u)
  <2>1. \A p : SlotAt(u, p) = SlotAt(t, p)
    BY <1>2 DEF SlotAt
  <2> QED
    BY <1>1, <1>2, <1>4, <2>1 DEF Stays, SameView
<1>7. FitsAfter(s, u)
  <2>1. /\ AskedAhead(u, s.next_seq) <=> AskedAhead(t, s.next_seq)
        /\ Holding(u) = Holding(t)
    BY <1>2 DEF AskedAhead, Holding, Ahead, SlotAt, SameView
  <2>2. ASSUME strip_active(t), Fits(t) PROVE Fits(u)
    <3>1. ViewportOK(t.sv) /\ t.sv.layout # NoLayout
      BY <1>1, <2>2 DEF Sound, StripTypes, strip_active, has_layout
    <3>2. Holding(t) \subseteq Pages /\ t.zoom \in Zooms /\ u.zoom = t.zoom
      BY <1>1, <1>2, <3>1, PassPages DEF Holding, Ahead, Sound, StripTypes, SameView
    <3> QED
      BY <2>1, <2>2, <3>2, HoldsLess
  <2> QED
    BY <1>1, <1>2, <1>4, <2>1, <2>2 DEF FitsAfter, SameView
<1> QED
  BY <1>2, <1>3, <1>5, <1>6, <1>7 DEF StepSound, StripSound, u

\* A step that leaves the slots alone, or empties them.
LEMMA QuietStep ==
    ASSUME NEW s, StripSound(s), NEW t, StripSound(t), t.next_seq = s.next_seq,
           \/ t.slots = s.slots
           \/ t.epoch # s.epoch
    PROVE  StepSound(s, t)
<1>1. s.next_seq \in Nat /\ Sound(t)
  BY DEF StripSound, Sound, StripTypes
<1>2. ~AskedAhead(t, s.next_seq)
  BY <1>1, NothingAsked
<1>3. Stays(s, t)
  BY DEF Stays, SlotAt
<1>4. FitsAfter(s, t)
  BY <1>2 DEF FitsAfter, StripSound, StripPlaced
<1> QED
  BY <1>3, <1>4 DEF StepSound

\* The state that an answer finds: the request is gone from the queue.
Answered(s, r) == [s EXCEPT !.reqs = @ \ {r}]

\* The answer is taken off the requests, and nothing else happens.
LEMMA AnsweredIs ==
    ASSUME NEW s, Sound(s), NEW r
    PROVE  LET t == Answered(s, r)
           IN /\ IsStrip(t) /\ SameView(s, t) /\ SameSlots(s, t) /\ t.reqs = s.reqs \ {r}
              /\ Matches(t, r) <=> Matches(s, r)
              /\ SlotAt(t, r.page) = SlotAt(s, r.page)
<1> DEFINE t == Answered(s, r)
<1>1. IsStrip(t) /\ SameView(s, t) /\ SameSlots(s, t) /\ t.reqs = s.reqs \ {r}
  BY DEF Answered, Sound, StripTypes, IsStrip, SameView, SameSlots
<1> HIDE DEF t
<1>2. SlotAt(t, r.page) = SlotAt(s, r.page)
  BY <1>1 DEF SlotAt, SameSlots
<1>3. Matches(t, r) <=> Matches(s, r)
  BY <1>1, <1>2 DEF Matches, SameView
<1> QED
  BY <1>1, <1>2, <1>3 DEF t

\* An answer that no slot waits for.
LEMMA UnmatchedStep ==
    ASSUME NEW s, StripSound(s), NEW r \in s.reqs, ~Matches(s, r)
    PROVE  StepSound(s, Answered(s, r))
<1> DEFINE t == Answered(s, r)
<1>1. IsStrip(t) /\ SameView(s, t) /\ SameSlots(s, t) /\ t.reqs = s.reqs \ {r}
  BY AnsweredIs DEF StripSound
<1> HIDE DEF t
<1>2. Sound(t) /\ OnlyHeld(t) /\ Served(t)
  BY <1>1, GoneSound DEF StripSound
<1>3. StripPlaced(t)
  BY <1>1 DEF StripSound, StripPlaced, SameView, SameSlots, strip_active
<1>4. StepSound(s, t)
  BY <1>1, <1>2, <1>3, QuietStep DEF StripSound, SameSlots
<1> QED
  BY <1>4 DEF t

\* The slot of the page takes the answer, and the bitmaps follow it.
LEMMA SetSlotSound ==
    ASSUME NEW s, Sound(s), NEW r \in s.reqs, Matches(s, r),
           NEW slot, SlotOK(slot), slot.kind # "Pending",
           slot_holds_bitmap(slot) =>
              /\ slot_holds_bitmap(s.slots[r.page])
              /\ ShownPar(slot) = ShownPar(s.slots[r.page])
    PROVE  LET t == SetSlot(Answered(s, r), r.page, slot)
           IN /\ Sound(t) /\ OnlyHeld(t) /\ Settles(s, r, slot, t)
              /\ t.bare = s.bare /\ t.rt = s.rt
<1> DEFINE v == Answered(s, r)
           u == [v EXCEPT !.slots[r.page] = slot]
           t == SetSlot(v, r.page, slot)
<1>1. IsStrip(v) /\ SameView(s, v) /\ SameSlots(s, v) /\ v.reqs = s.reqs \ {r}
  BY AnsweredIs
<1>2. t = Prune(u)
  BY DEF SetSlot
<1> HIDE DEF v, t
<1>3. /\ IsStrip(u) /\ SameView(v, u) /\ u.slots = [v.slots EXCEPT ![r.page] = slot]
      /\ u.bitmaps = v.bitmaps /\ u.last = v.last /\ u.reqs = v.reqs /\ u.bare = v.bare
      /\ u.rt = v.rt /\ u.lost = v.lost /\ u.next_seq = v.next_seq
  BY <1>1 DEF IsStrip, SameView
<1> HIDE DEF u
<1>4. s.rt \in BOOLEAN /\ s.bitmaps = [p \in DOMAIN s.bitmaps |-> s.bitmaps[p]]
  BY DEF Sound, StripTypes
<1>5. Settles(s, r, slot, u)
  BY <1>1, <1>3, <1>4 DEF Settles, SameView, SameSlots
<1>6. u.bitmaps = s.bitmaps
  BY <1>1, <1>3 DEF SameSlots
<1>7. slot_holds_bitmap(slot) =>
        /\ r.page \in DOMAIN u.bitmaps
        /\ u.bitmaps[r.page] = [epoch |-> s.epoch, par |-> ShownPar(slot)]
  <2>1. r.page \in DOMAIN s.slots
    BY MatchedIs
  <2> QED
    BY <1>6, <2>1 DEF Sound, BitmapsHeld
<1>8. Sound(u)
  BY <1>4, <1>5, <1>6, <1>7, SettleSound
<1>9. /\ Sound(t) /\ OnlyHeld(t) /\ SameView(u, t)
      /\ t.slots = u.slots /\ t.last = u.last /\ t.bare = u.bare /\ t.rt = u.rt
      /\ t.next_seq = u.next_seq /\ t.lost = u.lost /\ t.reqs = u.reqs
  BY <1>2, <1>8, PruneSound
<1>10. IsStrip(t)
  BY <1>9 DEF Sound, StripTypes
<1>11. Settles(s, r, slot, t)
  BY <1>5, <1>9, <1>10 DEF Settles, SameView
<1>12. t.bare = s.bare /\ t.rt = s.rt
  BY <1>1, <1>3, <1>9 DEF SameSlots
<1> QED
  BY <1>9, <1>11, <1>12 DEF t, v

\* What an answer leaves alone, if the strip is still itself after it.
LEMMA SettleStays ==
    ASSUME NEW s, StripSound(s), NEW r \in s.reqs, Matches(s, r), NEW slot, NEW t,
           Settles(s, r, slot, t)
    PROVE  StripPlaced(t) /\ Stays(s, t)
<1>1. /\ DOMAIN t.slots = DOMAIN s.slots
      /\ t.slots = [p \in DOMAIN t.slots |-> t.slots[p]]
      /\ \A p \in DOMAIN s.slots \ {r.page} : t.slots[p] = s.slots[p]
  BY SettledSlots DEF StripSound
<1>2. SameView(s, t)
  BY DEF Settles
<1>3. StripPlaced(t)
  BY <1>1, <1>2 DEF StripSound, StripPlaced, SameView, strip_active
<1>4. s.slots[r.page].kind = "Pending"
  BY MatchedIs DEF StripSound, PendingAt
<1>5. Stays(s, t)
  <2> SUFFICES ASSUME NEW p \in DOMAIN s.slots, s.slots[p].kind = "Failed"
               PROVE  SlotAt(t, p) = s.slots[p]
    BY DEF Stays
  <2>1. p # r.page
    BY <1>4
  <2> QED
    BY <1>1, <2>1 DEF SlotAt
<1> QED
  BY <1>3, <1>5

\* A step that settles a slot is a step of a sound strip.
LEMMA SettleStep ==
    ASSUME NEW s, StripSound(s), NEW r \in s.reqs, Matches(s, r), NEW slot, NEW t,
           Settles(s, r, slot, t), Sound(t), OnlyHeld(t), s.bare \subseteq t.bare,
           \/ slot = ReadySlot(s.slots[r.page].par)
           \/ slot = FailedSlot(s.slots[r.page])
           \/ slot = NoneSlot /\ r.page \in t.bare
    PROVE  StepSound(s, t)
<1>1. StripPlaced(t) /\ Stays(s, t)
  BY SettleStays
<1>2. Served(t)
  BY SettleServes DEF StripSound
<1>3. ~AskedAhead(t, s.next_seq)
  <2>1. s.next_seq \in Nat /\ t.next_seq = s.next_seq
    BY DEF StripSound, Sound, StripTypes, Settles
  <2> QED
    BY <2>1, NothingAsked
<1>4. FitsAfter(s, t)
  BY <1>1, <1>3 DEF FitsAfter, StripPlaced
<1> QED
  BY <1>1, <1>2, <1>4 DEF StepSound, StripSound

\* A page that no slot of a pass waits for any more asks for a pass of its own.
LEMMA SettleKicks ==
    ASSUME NEW s, StripSound(s), NEW r \in s.reqs, Matches(s, r), NEW slot, NEW t,
           Settles(s, r, slot, t), Sound(t), OnlyHeld(t)
    PROVE  KickFrom(s, t)
<1>1. StripPlaced(t) /\ Stays(s, t)
  BY SettleStays
<1>2. s.next_seq \in Nat /\ t.next_seq = s.next_seq /\ t.last = s.last
  BY DEF StripSound, Sound, StripTypes, Settles
<1> QED
  BY <1>1, <1>2 DEF KickFrom, StripPlaced

\* A target that goes takes no failure with it.
LEMMA DiscardKicks ==
    ASSUME NEW s, NEW u, KickFrom(s, u)
    PROVE  KickFrom(s, discard_render_target(u))
<1> DEFINE t == discard_render_target(u)
<1>1. /\ Sound(t) /\ OnlyHeld(t) /\ SameView(u, t)
      /\ t.last = u.last /\ t.next_seq = u.next_seq
      /\ DOMAIN t.slots = DOMAIN u.slots
      /\ \A p \in DOMAIN u.slots : u.slots[p].kind = "Failed" => t.slots[p] = u.slots[p]
  BY DiscardSound DEF KickFrom
<1> HIDE DEF t
<1>2. InPlace(t.sv, t.zoom) /\ t.next_seq <= s.next_seq /\ (t.epoch = s.epoch => t.last = s.last)
  BY <1>1 DEF KickFrom, SameView
<1>3. t.last = Params(t) => Stays(s, t)
  <2> SUFFICES ASSUME t.last = Params(t), NEW p \in DOMAIN s.slots,
                      s.slots[p].kind = "Failed", s.slots[p].priority = 0,
                      t.epoch = s.epoch, t.last = s.last, strip_active(t),
                      p \in visible(s.sv) \cap visible(t.sv)
               PROVE  SlotAt(t, p) = s.slots[p]
    BY DEF Stays
  <2>1. /\ strip_active(u) /\ u.epoch = s.epoch /\ u.last = s.last /\ p \in visible(u.sv)
        /\ u.last = Params(u)
    BY <1>1 DEF strip_active, SameView, Params
  <2>2. SlotAt(u, p) = s.slots[p]
    BY <2>1 DEF KickFrom, Stays
  <2>3. p \in DOMAIN u.slots /\ u.slots[p] = s.slots[p]
    BY <2>2, SlotKinds DEF SlotAt
  <2> QED
    BY <1>1, <2>3 DEF SlotAt
<1>4. KickFrom(s, t)
  BY <1>1, <1>2, <1>3 DEF KickFrom
<1> QED
  BY <1>4 DEF t

\* Rule 3 of a completion: the page is drawn from this bitmap from now on.
LEMMA AdoptStep ==
    ASSUME NEW s, StripSound(s), NEW r \in s.reqs, Matches(s, r)
    PROVE  StepSound(s, Adopt(Answered(s, r), r))
<1> DEFINE v == Answered(s, r)
           t == Adopt(v, r)
           slot == ReadySlot(s.slots[r.page].par)
           map == [p \in DOMAIN s.bitmaps \cup {r.page} |->
                     IF p = r.page THEN [epoch |-> r.epoch, par |-> r.par] ELSE s.bitmaps[p]]
<1>1. IsStrip(v) /\ SameView(s, v) /\ SameSlots(s, v) /\ v.reqs = s.reqs \ {r}
  BY AnsweredIs DEF StripSound
<1>2. /\ r.page \in DOMAIN s.slots /\ PendingAt(s, r.page) /\ SlotOK(s.slots[r.page])
      /\ r.epoch = s.epoch /\ r.par = s.slots[r.page].par /\ r.par \in Pars
      /\ s.slots = [p \in DOMAIN s.slots |-> s.slots[p]]
  BY MatchedIs DEF StripSound
<1>3. t = [v EXCEPT !.rt = TRUE, !.slots[r.page] = slot, !.bitmaps = map]
  BY <1>1 DEF Adopt, SameSlots
<1>4. map = [p \in DOMAIN map |-> map[p]] /\ DOMAIN map = DOMAIN s.bitmaps \cup {r.page}
      /\ map[r.page] = [epoch |-> s.epoch, par |-> r.par]
      /\ \A p \in DOMAIN s.bitmaps \ {r.page} : map[p] = s.bitmaps[p]
  BY <1>2
<1>5. SlotOK(slot) /\ slot.kind = "Ready" /\ slot_holds_bitmap(slot) /\ ShownPar(slot) = r.par
  BY <1>2, SlotKinds DEF ShownPar
<1> HIDE DEF v, slot, map, t
<1>6. /\ IsStrip(t) /\ SameView(v, t) /\ t.slots = [v.slots EXCEPT ![r.page] = slot]
      /\ t.bitmaps = map /\ t.last = v.last /\ t.reqs = v.reqs /\ t.bare = v.bare
      /\ t.rt = TRUE /\ t.lost = v.lost /\ t.next_seq = v.next_seq
  BY <1>1, <1>3 DEF IsStrip, SameView
<1>7. Settles(s, r, slot, t) /\ t.bare = s.bare
  BY <1>1, <1>6 DEF Settles, SameView, SameSlots
<1>8. Sound(t)
  BY <1>4, <1>5, <1>6, <1>7, SettleSound DEF StripSound
<1>9. OnlyHeld(t)
  <2>1. /\ DOMAIN t.slots = DOMAIN s.slots /\ t.slots[r.page] = slot
        /\ t.slots = [p \in DOMAIN t.slots |-> t.slots[p]]
        /\ \A p \in DOMAIN s.slots \ {r.page} : t.slots[p] = s.slots[p]
    BY <1>7, SettledSlots DEF StripSound
  <2> SUFFICES ASSUME NEW p \in DOMAIN t.bitmaps
               PROVE  p \in DOMAIN t.slots /\ slot_holds_bitmap(t.slots[p])
    BY DEF OnlyHeld
  <2>2. CASE p = r.page
    BY <1>2, <1>5, <2>1, <2>2
  <2>3. CASE p # r.page
    <3>1. p \in DOMAIN s.slots /\ slot_holds_bitmap(s.slots[p])
      BY <1>4, <1>6, <2>3 DEF StripSound, OnlyHeld
    <3> QED
      BY <2>1, <2>3, <3>1
  <2> QED
    BY <2>2, <2>3
<1>10. StepSound(s, t)
  <2>1. slot = ReadySlot(s.slots[r.page].par)
    BY DEF slot
  <2> QED
    BY <1>7, <1>8, <1>9, <2>1, SettleStep
<1> QED
  BY <1>10 DEF t, v

\* The request failed, or its bitmap did.
LEMMA FailStep ==
    ASSUME NEW s, StripSound(s), NEW r \in s.reqs, Matches(s, r), NEW rt \in BOOLEAN
    PROVE  LET t == SetSlot(Answered(s, r), r.page, FailedSlot(s.slots[r.page]))
           IN StepSound(s, t) /\ StepSound(s, [t EXCEPT !.rt = rt])
<1> DEFINE slot == FailedSlot(s.slots[r.page])
           t == SetSlot(Answered(s, r), r.page, slot)
           u == [t EXCEPT !.rt = rt]
<1>1. SlotOK(s.slots[r.page]) /\ s.slots[r.page].kind = "Pending"
  BY MatchedIs DEF StripSound, PendingAt
<1>2. s.slots[r.page].priority \in {0, 1}
  BY <1>1, SlotShapes
<1>3. SlotOK(slot) /\ slot.kind # "Pending" /\ ~slot_holds_bitmap(slot)
  BY <1>2, SlotKinds
<1> HIDE DEF slot
<1>4. Sound(t) /\ OnlyHeld(t) /\ Settles(s, r, slot, t) /\ t.bare = s.bare
  BY <1>3, SetSlotSound DEF StripSound
<1> HIDE DEF t
<1>5. /\ IsStrip(u) /\ SameView(t, u) /\ u.slots = t.slots /\ u.bitmaps = t.bitmaps
      /\ u.last = t.last /\ u.reqs = t.reqs /\ u.next_seq = t.next_seq /\ u.lost = t.lost
      /\ u.rt \in BOOLEAN /\ u.bare = t.bare
  BY <1>4 DEF Sound, StripTypes, IsStrip, SameView
<1> HIDE DEF u
<1>6. Sound(u) /\ OnlyHeld(u)
  BY <1>4, <1>5, MarkSound
<1>7. Settles(s, r, slot, u)
  BY <1>4, <1>5 DEF Settles, SameView
<1>8. slot = FailedSlot(s.slots[r.page])
  BY DEF slot
<1>9. StepSound(s, t) /\ StepSound(s, u)
  BY <1>4, <1>5, <1>6, <1>7, <1>8, SettleStep
<1> QED
  BY <1>9 DEF t, u, slot

\* The answer found no target: the page waits for one.
LEMMA BareStep ==
    ASSUME NEW s, StripSound(s), NEW r \in s.reqs, Matches(s, r)
    PROVE  StepSound(s, [SetSlot(Answered(s, r), r.page, NoneSlot) EXCEPT !.bare = @ \cup {r.page}])
<1> DEFINE t == SetSlot(Answered(s, r), r.page, NoneSlot)
           u == [t EXCEPT !.bare = @ \cup {r.page}]
<1>1. Sound(t) /\ OnlyHeld(t) /\ Settles(s, r, NoneSlot, t) /\ t.bare = s.bare
  <2>1. SlotOK(NoneSlot) /\ NoneSlot.kind # "Pending" /\ ~slot_holds_bitmap(NoneSlot)
    BY SlotKinds
  <2> QED
    BY <2>1, SetSlotSound DEF StripSound
<1> HIDE DEF t
<1>2. /\ IsStrip(u) /\ SameView(t, u) /\ u.slots = t.slots /\ u.bitmaps = t.bitmaps
      /\ u.last = t.last /\ u.reqs = t.reqs /\ u.next_seq = t.next_seq /\ u.lost = t.lost
      /\ u.rt = t.rt /\ u.bare = t.bare \cup {r.page}
  BY <1>1 DEF Sound, StripTypes, IsStrip, SameView
<1> HIDE DEF u
<1>3. Sound(u) /\ OnlyHeld(u)
  <2>1. u.rt \in BOOLEAN
    BY <1>1, <1>2 DEF Sound, StripTypes
  <2> QED
    BY <1>1, <1>2, <2>1, MarkSound
<1>4. Settles(s, r, NoneSlot, u)
  BY <1>1, <1>2 DEF Settles, SameView
<1>5. StepSound(s, u)
  BY <1>1, <1>2, <1>3, <1>4, SettleStep
<1> QED
  BY <1>5 DEF t, u

\* The target was lost under the answer, or the render was cancelled: the page
\* is given up, and a pass asks for it again.
LEMMA RetryStep ==
    ASSUME NEW s, StripSound(s), NEW r \in s.reqs, Matches(s, r)
    PROVE  LET v == Answered(s, r)
           IN /\ StepSound(s, strip_reschedule(discard_render_target(SetSlot(v, r.page, NoneSlot))))
              /\ StepSound(s, strip_reschedule(SetSlot(v, r.page, cancel_transition(s.slots[r.page]))))
<1> DEFINE v == Answered(s, r)
           slot == cancel_transition(s.slots[r.page])
<1>1. /\ SlotOK(slot) /\ slot.kind # "Pending"
      /\ slot_holds_bitmap(slot) =>
            slot_holds_bitmap(s.slots[r.page]) /\ ShownPar(slot) = ShownPar(s.slots[r.page])
  BY MatchedIs, CancelShows DEF StripSound
<1>2. SlotOK(NoneSlot) /\ NoneSlot.kind # "Pending" /\ ~slot_holds_bitmap(NoneSlot)
  BY SlotKinds
<1> HIDE DEF slot
<1>3. LET t == SetSlot(v, r.page, slot) IN Sound(t) /\ OnlyHeld(t) /\ Settles(s, r, slot, t)
  BY <1>1, SetSlotSound DEF StripSound
<1>4. LET t == SetSlot(v, r.page, NoneSlot) IN Sound(t) /\ OnlyHeld(t) /\ Settles(s, r, NoneSlot, t)
  BY <1>2, SetSlotSound DEF StripSound
<1> HIDE DEF v
<1>5. KickFrom(s, SetSlot(v, r.page, slot)) /\ KickFrom(s, SetSlot(v, r.page, NoneSlot))
  BY <1>3, <1>4, SettleKicks
<1>6. KickFrom(s, discard_render_target(SetSlot(v, r.page, NoneSlot)))
  BY <1>5, DiscardKicks
<1>7. StepSound(s, strip_reschedule(SetSlot(v, r.page, slot)))
  BY <1>5, RescheduleStep
<1>8. StepSound(s, strip_reschedule(discard_render_target(SetSlot(v, r.page, NoneSlot))))
  BY <1>6, RescheduleStep
<1> QED
  BY <1>7, <1>8 DEF v, slot

\* An answer, whichever of the rules it meets.
LEMMA DoneStep ==
    ASSUME StripSound(c), NEW r \in c.reqs, strip_on_done(r)
    PROVE  StepSound(c, c')
<1> DEFINE v == Answered(c, r)
<1>1. (Matches(v, r) <=> Matches(c, r)) /\ SlotAt(v, r.page) = SlotAt(c, r.page)
  BY AnsweredIs DEF StripSound
<1>2. v = [c EXCEPT !.reqs = @ \ {r}]
  BY DEF Answered
<1> HIDE DEF v
<1>3. CASE ~Matches(c, r)
  <2>1. c' = v
    BY <1>1, <1>2, <1>3 DEF strip_on_done
  <2> QED
    BY <1>3, <2>1, UnmatchedStep DEF v
<1>4. CASE Matches(c, r)
  <2> DEFINE was == c.slots[r.page]
  <2>1. SlotAt(v, r.page) = was
    BY <1>1, <1>4, MatchedIs DEF StripSound
  <2> HIDE DEF was
  <2>2. \/ c' = Adopt(v, r)
        \/ c' = request_text(Adopt(v, r))
        \/ c' = [SetSlot(v, r.page, NoneSlot) EXCEPT !.bare = @ \cup {r.page}]
        \/ c' = strip_reschedule(discard_render_target(SetSlot(v, r.page, NoneSlot)))
        \/ c' = [SetSlot(v, r.page, FailedSlot(was)) EXCEPT !.rt = TRUE]
        \/ c' = strip_reschedule(SetSlot(v, r.page, cancel_transition(was)))
        \/ c' = SetSlot(v, r.page, FailedSlot(was))
    BY <1>1, <1>2, <1>4, <2>1 DEF strip_on_done
  <2>3. StepSound(c, Adopt(v, r)) /\ StepSound(c, request_text(Adopt(v, r)))
    BY <1>4, AdoptStep, TextStep DEF v
  <2>4. StepSound(c, [SetSlot(v, r.page, NoneSlot) EXCEPT !.bare = @ \cup {r.page}])
    BY <1>4, BareStep DEF v
  <2>5. /\ StepSound(c, strip_reschedule(discard_render_target(SetSlot(v, r.page, NoneSlot))))
        /\ StepSound(c, strip_reschedule(SetSlot(v, r.page, cancel_transition(was))))
    BY <1>4, RetryStep DEF v, was
  <2>6. /\ StepSound(c, SetSlot(v, r.page, FailedSlot(was)))
        /\ StepSound(c, [SetSlot(v, r.page, FailedSlot(was)) EXCEPT !.rt = TRUE])
    BY <1>4, FailStep DEF v, was
  <2> QED
    BY <2>2, <2>3, <2>4, <2>5, <2>6
<1> QED
  BY <1>3, <1>4

\* A request that gets no answer is lost, and its page waits for it.
LEMMA NoAnswerStep ==
    ASSUME StripSound(c), NEW r \in c.reqs, NoAnswer(r)
    PROVE  StepSound(c, c')
<1> DEFINE t == [c EXCEPT !.reqs = @ \ {r},
                          !.lost = IF Matches(c, r) THEN @ \cup {r.seq} ELSE @]
<1>1. c' = t
  BY DEF NoAnswer
<1>2. CASE ~Matches(c, r)
  <2>1. IsStrip(c)
    BY DEF StripSound, Sound, StripTypes
  <2>2. IsStrip(t) /\ SameView(c, t) /\ SameSlots(c, t) /\ t.reqs = c.reqs \ {r}
    BY <1>2, <2>1 DEF IsStrip, SameView, SameSlots
  <2> HIDE DEF t
  <2>3. Sound(t) /\ OnlyHeld(t) /\ Served(t)
    BY <1>2, <2>2, GoneSound DEF StripSound
  <2>4. StripPlaced(t)
    BY <2>2 DEF StripSound, StripPlaced, SameView, SameSlots, strip_active
  <2>5. StepSound(c, t)
    BY <2>2, <2>3, <2>4, QuietStep DEF StripSound, SameSlots
  <2> QED
    BY <1>1, <2>5
<1>3. CASE Matches(c, r)
  <2>1. IsStrip(c)
    BY DEF StripSound, Sound, StripTypes
  <2>2. /\ IsStrip(t) /\ SameView(c, t) /\ t.slots = c.slots /\ t.bitmaps = c.bitmaps
        /\ t.last = c.last /\ t.bare = c.bare /\ t.next_seq = c.next_seq /\ t.rt = c.rt
        /\ t.reqs = c.reqs \ {r} /\ t.lost = c.lost \cup {r.seq}
    BY <1>3, <2>1 DEF IsStrip, SameView
  <2> HIDE DEF t
  <2>3. StripTypes(t)
    BY <2>2 DEF StripSound, Sound, StripTypes, SameView
  <2>4. Numbered(t)
    <3>1. \A p \in DOMAIN t.slots : PendingAt(t, p) => PendingAt(c, p) /\ t.slots[p] = c.slots[p]
      BY <2>2 DEF PendingAt
    <3>2. \A q \in c.reqs \ t.reqs : q.seq \in t.lost
      BY <2>2
    <3> QED
      BY <2>2, <3>1, <3>2, StillNumbered DEF StripSound, Sound, SameView
  <2>5. BitmapsHeld(t) /\ OnlyHeld(t)
    BY <2>2 DEF StripSound, Sound, BitmapsHeld, OnlyHeld, SameView
  <2>6. Served(t)
    <3> SUFFICES ASSUME strip_active(t)
                 PROVE  t.last = Params(t) /\ \A p \in visible(t.sv) : PageServed(t, p)
      BY DEF Served
    <3>1. Params(t) = Params(c) /\ strip_active(c) /\ t.epoch = c.epoch /\ t.sv = c.sv
      BY <2>2 DEF SameView, Params, strip_active
    <3>2. c.last = Params(c) /\ \A p \in visible(c.sv) : PageServed(c, p)
      BY <3>1 DEF StripSound, Served
    <3>3. ASSUME NEW p \in visible(t.sv)
          PROVE  PageServed(t, p)
      <4>1. PageServed(c, p) /\ SlotAt(t, p) = SlotAt(c, p)
        BY <2>2, <3>1, <3>2 DEF SlotAt
      <4> QED
        BY <2>2, <3>1, <4>1 DEF PageServed
    <3> QED
      BY <2>2, <3>1, <3>2, <3>3
  <2>7. StripPlaced(t)
    BY <2>2 DEF StripSound, StripPlaced, SameView, strip_active
  <2>8. StepSound(c, t)
    BY <2>2, <2>3, <2>4, <2>5, <2>6, <2>7, QuietStep DEF StripSound, Sound
  <2> QED
    BY <1>1, <2>8
<1> QED
  BY <1>2, <1>3

\* A kick that comes with the slots as they were.
LEMMA QuietKick ==
    ASSUME NEW s, StripSound(s), NEW u, Sound(u), OnlyHeld(u), InPlace(u.sv, u.zoom),
           u.slots = s.slots, u.next_seq = s.next_seq, u.last = s.last
    PROVE  KickFrom(s, u)
<1>1. s.next_seq \in Nat
  BY DEF StripSound, Sound, StripTypes
<1>2. Stays(s, u)
  BY DEF Stays, SlotAt
<1> QED
  BY <1>1, <1>2 DEF KickFrom

\* A move of the reader.
LEMMA AfterStep ==
    ASSUME StripSound(c), NEW sv, ViewportOK(sv), InPlace(sv, c.zoom), After(sv)
    PROVE  StepSound(c, c')
<1> DEFINE u == [c EXCEPT !.sv = sv]
<1>1. /\ Sound(u) /\ OnlyHeld(u) /\ SameSlots(c, u) /\ u.sv = sv /\ u.zoom = c.zoom
  BY MoveSound DEF StripSound
<1>2. c' = strip_after_change(u) \/ c' = request_text(strip_after_change(u))
  BY DEF After
<1> HIDE DEF u
<1>3. KickFrom(c, u)
  BY <1>1, QuietKick DEF SameSlots
<1>4. StepSound(c, strip_after_change(u))
  BY <1>3, ChangeStep
<1> QED
  BY <1>2, <1>4, TextStep

\* An active strip has a layout at the view's zoom.
LEMMA ActiveIs ==
    ASSUME NEW s, StripSound(s), strip_active(s)
    PROVE  /\ ViewportOK(s.sv) /\ s.sv.layout # NoLayout /\ s.sv.layout.zoom = s.zoom
           /\ s.zoom \in Zooms
BY DEF StripSound, Sound, StripTypes, StripPlaced, InPlace, strip_active, has_layout

\* A scroll.
LEMMA ScrollStep ==
    ASSUME StripSound(c), NEW dy \in {Step, -Step}, Scroll(dy)
    PROVE  StepSound(c, c')
<1>1. strip_active(c) /\ After(scroll_by(c.sv, dy))
  BY DEF Scroll
<1>2. dy \in Int
  BY StripConstants
<1>3. ViewportOK(scroll_by(c.sv, dy)) /\ InPlace(scroll_by(c.sv, dy), c.zoom)
  BY <1>1, <1>2, ActiveIs, ScrollOK, ScrollInPlace
<1> QED
  BY <1>1, <1>3, AfterStep

\* A jump to a page.
LEMMA NavigateStep ==
    ASSUME StripSound(c), NEW p \in DOMAIN PageH, strip_navigate(p)
    PROVE  StepSound(c, c')
<1>1. strip_active(c) /\ After(navigate(c.sv, p))
  BY DEF strip_navigate
<1>2. p \in Pages
  BY DEF Pages
<1>3. ViewportOK(navigate(c.sv, p)) /\ InPlace(navigate(c.sv, p), c.zoom)
  BY <1>1, <1>2, ActiveIs, NavigateOK, NavigateInPlace
<1> QED
  BY <1>1, <1>3, AfterStep

\* A kick whose layout is made again for the view's zoom.
LEMMA ResubmitKick ==
    ASSUME NEW s, StripSound(s), NEW u, Sound(u), OnlyHeld(u), InPlace(u.sv, s.zoom), u.sv = s.sv,
           u.last = Params(u) => Stays(s, u), u.next_seq <= s.next_seq,
           u.epoch = s.epoch => u.last = s.last
    PROVE  /\ KickFrom(s, [u EXCEPT !.sv = relayout(@, PageH, u.zoom)])
           /\ StepSound(s, resubmit_current_page(u))
<1> DEFINE sv == relayout(u.sv, PageH, u.zoom)
           v == [u EXCEPT !.sv = sv]
<1>1. u.zoom \in Zooms /\ ViewportOK(u.sv) /\ s.zoom \in Zooms
  BY DEF StripSound, Sound, StripTypes
<1>2. /\ ViewportOK(sv) /\ InPlace(sv, u.zoom)
      /\ (u.sv.layout # NoLayout => sv.layout # NoLayout)
      /\ s.zoom = u.zoom => sv = u.sv
  BY <1>1, RelayoutOK, RelayoutInPlace
<1>3. u.sv.layout = NoLayout => sv = u.sv
  BY DEF relayout, has_layout
<1> HIDE DEF sv
<1>4. /\ Sound(v) /\ OnlyHeld(v) /\ SameSlots(u, v) /\ v.sv = sv
      /\ v.strip = u.strip /\ v.epoch = u.epoch /\ v.zoom = u.zoom /\ v.inv = u.inv
  BY <1>2, MoveSound
<1>5. resubmit_current_page(u) = strip_after_change(v)
  BY DEF resubmit_current_page, v, sv
<1>6. v = [u EXCEPT !.sv = relayout(@, PageH, u.zoom)]
  BY DEF v, sv
<1> HIDE DEF v
<1>7. v.last = Params(v) => Stays(s, v)
  <2> SUFFICES ASSUME v.last = Params(v), NEW p \in DOMAIN s.slots,
                      s.slots[p].kind = "Failed", s.slots[p].priority = 0,
                      v.epoch = s.epoch, v.last = s.last, strip_active(v),
                      p \in visible(s.sv) \cap visible(v.sv)
               PROVE  SlotAt(v, p) = s.slots[p]
    BY DEF Stays
  <2>1. u.last = Params(u) /\ u.epoch = s.epoch /\ u.last = s.last
    BY <1>4 DEF SameSlots, Params
  <2>2. strip_active(u)
    BY <1>3, <1>4 DEF strip_active, has_layout
  <2>3. SlotAt(u, p) = s.slots[p]
    BY <2>1, <2>2 DEF Stays
  <2> QED
    BY <1>4, <2>3 DEF SlotAt, SameSlots
<1>8. KickFrom(s, v)
  BY <1>2, <1>4, <1>7 DEF KickFrom, SameSlots
<1>9. StepSound(s, strip_after_change(v))
  BY <1>8, ChangeStep
<1> QED
  BY <1>5, <1>6, <1>8, <1>9

\* A zoom.
LEMMA ZoomStep ==
    ASSUME StripSound(c), NEW z \in Zooms, Zoom(z)
    PROVE  StepSound(c, c')
<1> DEFINE u == [c EXCEPT !.zoom = z]
<1>1. IsStrip(c) /\ c.inv \in BOOLEAN /\ c.strip \in BOOLEAN /\ c.next_seq \in Nat
  BY DEF StripSound, Sound, StripTypes
<1>2. /\ IsStrip(u) /\ SameSlots(c, u) /\ u.reqs = c.reqs /\ u.epoch = c.epoch /\ u.sv = c.sv
      /\ u.zoom = z /\ u.inv = c.inv /\ u.strip = c.strip
  BY <1>1 DEF IsStrip, SameSlots
<1>3. c' = resubmit_current_page(u)
  BY DEF Zoom
<1> HIDE DEF u
<1>4. Sound(u) /\ OnlyHeld(u)
  BY <1>1, <1>2, ViewSound DEF StripSound
<1>5. InPlace(u.sv, c.zoom) /\ u.last = c.last /\ u.next_seq = c.next_seq
  BY <1>2 DEF StripSound, StripPlaced, SameSlots
<1>6. Stays(c, u)
  BY <1>2 DEF Stays, SlotAt, SameSlots
<1>7. u.next_seq <= c.next_seq /\ u.sv = c.sv
  BY <1>1, <1>2, <1>5
<1>8. StepSound(c, resubmit_current_page(u))
  BY <1>4, <1>5, <1>6, <1>7, ResubmitKick
<1> QED
  BY <1>3, <1>8

\* An inversion.
LEMMA InvertStep ==
    ASSUME StripSound(c), Invert
    PROVE  StepSound(c, c')
<1> DEFINE s == [c EXCEPT !.inv = ~@]
           f == FlagPrefetch(s)
           u == change_render_params(f)
<1>1. IsStrip(c) /\ c.zoom \in Zooms /\ c.strip \in BOOLEAN /\ c.next_seq \in Nat /\ c.inv \in BOOLEAN
  BY DEF StripSound, Sound, StripTypes
<1>2. /\ IsStrip(s) /\ SameSlots(c, s) /\ s.reqs = c.reqs /\ s.epoch = c.epoch /\ s.sv = c.sv
      /\ s.zoom = c.zoom /\ s.inv = ~c.inv /\ s.strip = c.strip
  BY <1>1 DEF IsStrip, SameSlots
<1>3. c' = strip_after_change(u)
  BY DEF Invert
<1> HIDE DEF s
<1>4. Sound(s) /\ OnlyHeld(s)
  <2>1. s.inv \in BOOLEAN
    BY <1>1, <1>2
  <2> QED
    BY <1>1, <1>2, <2>1, ViewSound DEF StripSound
<1>5. Sound(f) /\ OnlyHeld(f) /\ SameView(s, f) /\ SameSlots(s, f)
  <2>1. StripTypes(s) /\ Numbered(s) /\ BitmapsHeld(s)
    BY <1>4 DEF Sound
  <2>2. f = Flag(s, {p \in DOMAIN s.slots : s.slots[p].priority # 0})
    BY DEF FlagPrefetch
  <2> HIDE DEF f
  <2> QED
    BY <1>4, <2>1, <2>2, FlagIs, FlagSound DEF Sound
<1> HIDE DEF f
<1>6. Sound(u) /\ OnlyHeld(u) /\ SameView(f, u) /\ u.last = f.last /\ u.next_seq = f.next_seq
  BY <1>5, RestyleSound
<1> HIDE DEF u
<1>7. /\ u.last = c.last /\ u.next_seq = c.next_seq /\ u.sv = c.sv /\ u.zoom = c.zoom
      /\ u.inv = ~c.inv /\ u.strip = c.strip
  BY <1>2, <1>5, <1>6 DEF SameView, SameSlots
<1>8. u.last = Params(u) => ~strip_active(u)
  <2> SUFFICES ASSUME u.last = Params(u), strip_active(u) PROVE FALSE
    OBVIOUS
  <2>1. strip_active(c)
    BY <1>7 DEF strip_active
  <2>2. c.last = Params(c)
    BY <2>1 DEF StripSound, Served
  <2>3. Params(u).inv = Params(c).inv
    BY <1>7, <2>2
  <2> QED
    BY <1>1, <1>7, <2>3 DEF Params
<1>9. KickFrom(c, u)
  BY <1>1, <1>6, <1>7, <1>8 DEF KickFrom, Stays, StripSound, StripPlaced
<1> QED
  BY <1>3, <1>9, ChangeStep

\* The same tab, activated again: its strip starts anew.
LEMMA SameTabStep ==
    ASSUME StripSound(c), SameTab
    PROVE  StepSound(c, c')
<1> DEFINE f == FlagPrefetch(c)
<1>1. c' = strip_after_change(f)
  BY DEF SameTab
<1>2. Sound(f) /\ OnlyHeld(f) /\ SameView(c, f) /\ SameSlots(c, f)
  <2>1. StripTypes(c) /\ Numbered(c) /\ BitmapsHeld(c) /\ OnlyHeld(c)
    BY DEF StripSound, Sound
  <2>2. f = Flag(c, {p \in DOMAIN c.slots : c.slots[p].priority # 0})
    BY DEF FlagPrefetch
  <2> HIDE DEF f
  <2> QED
    BY <2>1, <2>2, FlagIs, FlagSound DEF Sound
<1> HIDE DEF f
<1>3. KickFrom(c, f)
  BY <1>2, QuietKick DEF StripSound, StripPlaced, SameView, SameSlots
<1> QED
  BY <1>1, <1>3, ChangeStep

\* The view's strip goes: nothing of it is in the next one.
LEMMA EmptiedSound ==
    ASSUME NEW s, StripSound(s), NEW b \in BOOLEAN
    PROVE  LET t == [Emptied(s) EXCEPT !.strip = b]
           IN /\ Sound(t) /\ OnlyHeld(t) /\ t.epoch = s.epoch + 1 /\ t.epoch # s.epoch
              /\ t.next_seq = s.next_seq /\ t.zoom = s.zoom /\ t.strip = b
              /\ t.sv = reset(s.sv) /\ t.sv.layout = NoLayout /\ ViewportOK(t.sv)
<1> DEFINE v == clear(s)
           u == Emptied(s)
           t == [u EXCEPT !.strip = b]
<1>1. /\ Sound(v) /\ SameView(s, v) /\ v.slots = <<>> /\ v.bitmaps = <<>> /\ v.next_seq = s.next_seq
  BY ClearSound DEF StripSound
<1>2. u = [v EXCEPT !.sv = reset(@), !.epoch = @ + 1]
  BY DEF Emptied
<1> HIDE DEF v, u
<1>3. IsStrip(v) /\ v.epoch \in Nat /\ ViewportOK(v.sv)
  BY <1>1 DEF Sound, StripTypes
<1>4. /\ IsStrip(t) /\ t.strip = b /\ t.epoch = s.epoch + 1 /\ t.sv = reset(s.sv) /\ t.zoom = s.zoom
      /\ t.inv = s.inv /\ t.slots = <<>> /\ t.bitmaps = <<>> /\ t.next_seq = s.next_seq
      /\ t.last = v.last /\ t.reqs = v.reqs /\ t.lost = v.lost /\ t.rt = v.rt
  BY <1>1, <1>2, <1>3 DEF IsStrip, SameView
<1> HIDE DEF t
<1>5. s.epoch \in Nat /\ ViewportOK(s.sv) /\ s.sv.vp_h \in Nat \ {0}
  BY DEF StripSound, Sound, StripTypes, ViewportOK
<1>6. ViewportOK(t.sv) /\ t.sv.layout = NoLayout
  BY <1>4, <1>5, NewOK DEF reset
<1>7. DOMAIN t.slots = {} /\ DOMAIN t.bitmaps = {}
  BY <1>4
<1>8. StripTypes(t)
  <2>1. /\ t.slots = [p \in DOMAIN t.slots |-> t.slots[p]]
        /\ t.bitmaps = [p \in DOMAIN t.bitmaps |-> t.bitmaps[p]]
    BY <1>1, <1>4 DEF Sound, StripTypes
  <2> QED
    BY <1>1, <1>4, <1>5, <1>6, <1>7, <2>1 DEF Sound, StripTypes, SameView
<1>9. Numbered(t)
  BY <1>1, <1>4, <1>7 DEF Sound, Numbered
<1>10. BitmapsHeld(t) /\ OnlyHeld(t)
  BY <1>7 DEF BitmapsHeld, OnlyHeld
<1> QED
  BY <1>4, <1>5, <1>6, <1>8, <1>9, <1>10 DEF t, u, Sound

\* A switch to the continuous layout.
LEMMA EnterStep ==
    ASSUME StripSound(c), NEW p \in DOMAIN PageH, EnterStrip(p)
    PROVE  StepSound(c, c')
<1> DEFINE s == [Emptied(c) EXCEPT !.strip = TRUE]
           built == build(s.sv, PageH, s.zoom)
           sv == navigate(built, p)
           u == [s EXCEPT !.sv = sv]
<1>1. /\ Sound(s) /\ OnlyHeld(s) /\ s.epoch # c.epoch /\ s.next_seq = c.next_seq /\ s.zoom = c.zoom
      /\ s.sv.layout = NoLayout /\ ViewportOK(s.sv)
  BY EmptiedSound
<1>2. c' = strip_kick(s, p)
  BY DEF EnterStrip
<1> HIDE DEF s
<1>3. c' = strip_after_change(u)
  BY <1>1, <1>2 DEF strip_kick, has_layout
<1>4. s.zoom \in Zooms /\ p \in Pages /\ c.next_seq \in Nat
  BY <1>1 DEF Sound, StripTypes, Pages
<1>5. ViewportOK(built) /\ built.layout # NoLayout
  BY <1>1, <1>4, BuildOK
<1>6. built.layout.zoom = s.zoom
  <2>1. IsViewport(reset(s.sv))
    BY DEF reset, NewViewport, IsViewport
  <2>2. built.layout = StripLayout(PageH, s.zoom)
    BY <2>1 DEF build, IsViewport
  <2> QED
    BY <2>2 DEF StripLayout
<1> HIDE DEF built
<1>7. ViewportOK(sv) /\ InPlace(sv, s.zoom)
  BY <1>4, <1>5, <1>6, NavigateOK, NavigateInPlace
<1> HIDE DEF sv
<1>8. /\ Sound(u) /\ OnlyHeld(u) /\ SameSlots(s, u) /\ u.sv = sv /\ u.epoch = s.epoch
      /\ u.zoom = s.zoom
  BY <1>1, <1>7, MoveSound
<1> HIDE DEF u
<1>9. Stays(c, u)
  BY <1>1, <1>8 DEF Stays
<1>10. KickFrom(c, u)
  BY <1>1, <1>4, <1>7, <1>8, <1>9 DEF KickFrom, SameSlots
<1> QED
  BY <1>3, <1>10, ChangeStep

\* A switch back to the single page.
LEMMA LeaveStep ==
    ASSUME StripSound(c), LeaveStrip
    PROVE  StepSound(c, c')
<1> DEFINE t == [Emptied(c) EXCEPT !.strip = FALSE]
<1>1. /\ Sound(t) /\ OnlyHeld(t) /\ t.epoch # c.epoch /\ t.next_seq = c.next_seq
      /\ t.sv.layout = NoLayout /\ t.strip = FALSE
  BY EmptiedSound
<1>2. c' = t
  BY DEF LeaveStrip
<1> HIDE DEF t
<1>3. StripSound(t)
  BY <1>1 DEF StripSound, Served, StripPlaced, InPlace, strip_active
<1> QED
  BY <1>1, <1>2, <1>3, QuietStep

\* The target is lost, or the DPI changes: a pass on the same view.
LEMMA LostTargetStep ==
    ASSUME NEW s, StripSound(s)
    PROVE  LET t == resubmit_current_page(discard_render_target(s))
           IN /\ StepSound(s, t) /\ SameLook(t.sv, s.sv)
              /\ t.strip = s.strip /\ t.epoch = s.epoch /\ t.zoom = s.zoom /\ t.inv = s.inv
<1> DEFINE u == discard_render_target(s)
           t == resubmit_current_page(u)
<1>1. /\ Sound(u) /\ OnlyHeld(u) /\ SameView(s, u) /\ u.last = s.last /\ u.next_seq = s.next_seq
  BY DiscardSound DEF StripSound
<1>2. KickFrom(s, s) /\ s.next_seq \in Nat
  BY QuietKick DEF StripSound, StripPlaced, Sound, StripTypes
<1>3. KickFrom(s, u)
  BY <1>2, DiscardKicks
<1> HIDE DEF u
<1>4. InPlace(u.sv, s.zoom) /\ u.sv = s.sv /\ u.zoom = s.zoom
  BY <1>1 DEF StripSound, StripPlaced, SameView
<1>5. StepSound(s, t)
  <2>1. u.next_seq <= s.next_seq /\ (u.last = Params(u) => Stays(s, u))
        /\ (u.epoch = s.epoch => u.last = s.last)
    BY <1>3 DEF KickFrom
  <2> QED
    BY <1>1, <1>4, <2>1, ResubmitKick
<1> DEFINE v == [u EXCEPT !.sv = relayout(@, PageH, u.zoom)]
<1>6. relayout(u.sv, PageH, u.zoom) = u.sv
  <2>1. u.zoom \in Zooms /\ ViewportOK(u.sv)
    BY <1>1 DEF Sound, StripTypes
  <2> QED
    BY <1>4, <2>1, RelayoutInPlace
<1>7. Sound(v) /\ v.sv = s.sv /\ SameView(s, v)
  <2>1. ViewportOK(u.sv) /\ v = [u EXCEPT !.sv = u.sv]
    BY <1>1, <1>6 DEF Sound, StripTypes
  <2> HIDE DEF v
  <2>2. /\ Sound(v) /\ v.strip = u.strip /\ v.epoch = u.epoch /\ v.zoom = u.zoom /\ v.inv = u.inv
        /\ v.sv = u.sv
    BY <1>1, <2>1, MoveSound
  <2> QED
    BY <1>1, <2>2 DEF SameView
<1>8. t = strip_after_change(v)
  BY DEF resubmit_current_page
<1> HIDE DEF v, t
<1>9. t.strip = v.strip /\ t.epoch = v.epoch /\ t.zoom = v.zoom /\ t.inv = v.inv /\ SameLook(t.sv, v.sv)
  BY <1>7, <1>8, ChangeSound
<1> QED
  BY <1>5, <1>7, <1>9 DEF SameView, t, u

\* A paint, whose target may be lost.
LEMMA PaintStep ==
    ASSUME StripSound(c), strip_paint
    PROVE  StepSound(c, c')
<1>1. CASE c' = [c EXCEPT !.rt = TRUE]
  <2> DEFINE t == [c EXCEPT !.rt = TRUE]
  <2>1. IsStrip(c)
    BY DEF StripSound, Sound, StripTypes
  <2>2. /\ IsStrip(t) /\ SameView(c, t) /\ t.slots = c.slots /\ t.bitmaps = c.bitmaps
        /\ t.last = c.last /\ t.reqs = c.reqs /\ t.next_seq = c.next_seq /\ t.lost = c.lost
        /\ t.rt = TRUE /\ t.bare = c.bare
    BY <2>1 DEF IsStrip, SameView
  <2> HIDE DEF t
  <2>3. Sound(t) /\ OnlyHeld(t)
    BY <2>2, MarkSound DEF StripSound
  <2>4. Served(t)
    BY <2>2, ServedStill DEF StripSound
  <2>5. StripPlaced(t)
    BY <2>2 DEF StripSound, StripPlaced, SameView, strip_active
  <2>6. StepSound(c, t)
    BY <2>2, <2>3, <2>4, <2>5, QuietStep DEF StripSound
  <2> QED
    BY <1>1, <2>6 DEF t
<1>2. CASE c' = resubmit_current_page(discard_render_target(c))
  BY <1>2, LostTargetStep
<1> QED
  BY <1>1, <1>2 DEF strip_paint

\* A change of the viewport's height, the target intact.
LEMMA HeightKick ==
    ASSUME NEW s, StripSound(s), NEW h \in Heights
    PROVE  LET u == [s EXCEPT !.sv = set_viewport(@, h)]
           IN /\ KickFrom(s, u) /\ u.slots = s.slots /\ u.sv = set_viewport(s.sv, h)
              /\ u.strip = s.strip /\ u.epoch = s.epoch /\ u.zoom = s.zoom /\ u.inv = s.inv
              /\ u.sv.layout = s.sv.layout /\ u.sv.vp_h = h
              /\ h = s.sv.vp_h => SameLook(u.sv, s.sv)
<1> DEFINE sv == set_viewport(s.sv, h)
           u == [s EXCEPT !.sv = sv]
<1>1. ViewportOK(s.sv) /\ InPlace(s.sv, s.zoom)
  BY DEF StripSound, Sound, StripTypes, StripPlaced
<1>2. ViewportOK(sv) /\ InPlace(sv, s.zoom) /\ sv.layout = s.sv.layout
      /\ (h = s.sv.vp_h => SameLook(sv, s.sv))
  BY <1>1, ResizeOK, ResizeInPlace
<1>3. sv.vp_h = h
  BY <1>1 DEF set_viewport, ViewportOK, IsViewport
<1> HIDE DEF sv
<1>4. /\ Sound(u) /\ OnlyHeld(u) /\ SameSlots(s, u) /\ u.strip = s.strip /\ u.epoch = s.epoch
      /\ u.zoom = s.zoom /\ u.inv = s.inv /\ u.sv = sv
  BY <1>2, MoveSound DEF StripSound
<1> HIDE DEF u
<1>5. KickFrom(s, u)
  BY <1>2, <1>4, QuietKick DEF SameSlots
<1> QED
  BY <1>2, <1>3, <1>4, <1>5 DEF SameSlots, u, sv

\* Two passes at one resize: what the first keeps the second keeps, and the
\* second holds no more at the same height.
LEMMA TwoPasses ==
    ASSUME NEW s, StripSound(s), NEW m, StepSound(s, m), SameLook(m.sv, s.sv),
           m.strip = s.strip, m.epoch = s.epoch, m.zoom = s.zoom, m.inv = s.inv,
           NEW h \in Heights
    PROVE  StepSound(s, strip_after_change([m EXCEPT !.sv = set_viewport(@, h)]))
<1> DEFINE u == [m EXCEPT !.sv = set_viewport(@, h)]
           t == strip_after_change(u)
<1>1. StripSound(m) /\ Stays(s, m) /\ FitsAfter(s, m)
  BY DEF StepSound
<1>2. /\ KickFrom(m, u) /\ u.slots = m.slots
      /\ u.strip = m.strip /\ u.epoch = m.epoch /\ u.zoom = m.zoom /\ u.inv = m.inv
      /\ u.sv.layout = m.sv.layout /\ u.sv.vp_h = h
      /\ h = m.sv.vp_h => SameLook(u.sv, m.sv)
  BY <1>1, HeightKick
<1> HIDE DEF u
<1>3. Sound(u) /\ s.next_seq \in Nat
  BY <1>2 DEF KickFrom, StripSound, Sound, StripTypes
<1>4. StepSound(m, t)
  BY <1>1, <1>2, ChangeStep
<1>5. t.epoch = u.epoch /\ t.strip = u.strip /\ t.zoom = u.zoom /\ t.inv = u.inv /\ SameLook(t.sv, u.sv)
  BY <1>3, ChangeSound
<1>6. strip_active(u) /\ AskedAhead(t, s.next_seq) =>
         Fits(t) \/ (AskedAhead(u, s.next_seq) /\ Holding(t) \subseteq Holding(u))
  BY <1>3, ChangeFits
<1> HIDE DEF t
<1>7. strip_active(t) => strip_active(m) /\ strip_active(u)
  BY <1>2, <1>5 DEF strip_active, has_layout, SameLook
<1>8. StripSound(t) /\ Stays(m, t) /\ FitsAfter(m, t)
  BY <1>4 DEF StepSound
<1>9. Stays(s, t)
  <2> SUFFICES ASSUME NEW p \in DOMAIN s.slots,
                      s.slots[p].kind = "Failed", s.slots[p].priority = 0,
                      t.epoch = s.epoch, t.last = s.last, strip_active(t),
                      p \in visible(s.sv) \cap visible(t.sv)
               PROVE  SlotAt(t, p) = s.slots[p]
    BY DEF Stays
  <2>1. t.last = Params(t) /\ m.last = Params(m)
    BY <1>1, <1>7, <1>8 DEF StripSound, Served
  <2>2. Params(t) = Params(m)
    BY <1>2, <1>5 DEF Params
  <2>3. p \in visible(m.sv)
    BY DEF visible, SameLook
  <2>4. SlotAt(m, p) = s.slots[p]
    BY <1>1, <1>7, <2>1, <2>2, <2>3 DEF Stays
  <2>5. p \in DOMAIN m.slots /\ m.slots[p] = s.slots[p]
    BY <2>4, SlotKinds DEF SlotAt
  <2> QED
    BY <1>8, <2>1, <2>2, <2>3, <2>5 DEF Stays
<1>10. FitsAfter(s, t)
  <2> SUFFICES ASSUME strip_active(t), t.sv.vp_h = s.sv.vp_h, AskedAhead(t, s.next_seq)
               PROVE  Fits(t)
    BY <1>8 DEF FitsAfter
  <2>1. SameLook(u.sv, m.sv)
    BY <1>2, <1>5 DEF SameLook
  <2>2. Holding(u) = Holding(m) /\ (AskedAhead(u, s.next_seq) <=> AskedAhead(m, s.next_seq))
    <3>1. visible(u.sv) = visible(m.sv) /\ prefetch(u.sv) = prefetch(m.sv)
      BY <2>1 DEF visible, prefetch, SameLook
    <3> QED
      BY <1>2, <3>1 DEF Holding, Ahead, SlotAt, AskedAhead
  <2>3. CASE AskedAhead(m, s.next_seq) /\ Holding(t) \subseteq Holding(m)
    <3>1. Fits(m)
      BY <1>1, <1>7, <2>3 DEF FitsAfter, SameLook
    <3>2. Holding(m) \subseteq Pages /\ m.zoom \in Zooms /\ t.zoom = m.zoom
      <4>1. ViewportOK(m.sv) /\ m.sv.layout # NoLayout /\ m.zoom \in Zooms
        BY <1>1, <1>7, ActiveIs
      <4> QED
        BY <1>2, <1>5, <4>1, PassPages DEF Holding, Ahead
    <3> QED
      BY <2>3, <3>1, <3>2, HoldsLess
  <2> QED
    BY <1>6, <1>7, <2>2, <2>3
<1>11. StepSound(s, t)
  BY <1>8, <1>9, <1>10 DEF StepSound
<1> QED
  BY <1>11 DEF t, u

\* A resize, whose target may be lost too: one pass or two.
LEMMA SizeStep ==
    ASSUME StripSound(c), NEW h \in Heights, on_size(h)
    PROVE  StepSound(c, c')
<1> DEFINE m == resubmit_current_page(discard_render_target(c))
<1>1. \/ c' = strip_after_change([c EXCEPT !.sv = set_viewport(@, h)])
      \/ c' = strip_after_change([m EXCEPT !.sv = set_viewport(@, h)])
  BY DEF on_size
<1>2. StepSound(c, strip_after_change([c EXCEPT !.sv = set_viewport(@, h)]))
  BY HeightKick, ChangeStep
<1>3. /\ StepSound(c, m) /\ SameLook(m.sv, c.sv)
      /\ m.strip = c.strip /\ m.epoch = c.epoch /\ m.zoom = c.zoom /\ m.inv = c.inv
  BY LostTargetStep
<1> HIDE DEF m
<1>4. StepSound(c, strip_after_change([m EXCEPT !.sv = set_viewport(@, h)]))
  BY <1>3, TwoPasses
<1> QED
  BY <1>1, <1>2, <1>4

-----------------------------------------------------------------------------
(* The strip, always.                                                      *)

\* A new canvas has no strip, no slot and no request.
LEMMA StripStarts == StripInit => StripSound(c)
<1> SUFFICES ASSUME StripInit PROVE StripSound(c)
  OBVIOUS
<1>1. (CHOOSE h \in Heights : TRUE) \in Heights /\ (CHOOSE z \in Zooms : TRUE) \in Zooms
  BY StripConstants
<1>2. (CHOOSE h \in Heights : TRUE) \in Nat \ {0}
  BY <1>1, StripConstants
<1> DEFINE sv == NewViewport(CHOOSE h \in Heights : TRUE)
<1>3. ViewportOK(sv) /\ sv.layout = NoLayout
  BY <1>2, NewOK
<1> HIDE DEF sv
<1>4. /\ IsStrip(c) /\ c.strip = FALSE /\ c.epoch = 0 /\ c.next_seq = 0 /\ c.rt = FALSE
      /\ c.sv = sv /\ c.zoom \in Zooms /\ c.inv = FALSE
      /\ c.slots = <<>> /\ c.bitmaps = <<>> /\ c.reqs = {}
  BY <1>1 DEF StripInit, IsStrip, sv
<1>5. DOMAIN c.slots = {} /\ DOMAIN c.bitmaps = {}
  BY <1>4
<1>6. StripTypes(c)
  <2>1. <<>> = [p \in DOMAIN <<>> |-> <<>>[p]]
    OBVIOUS
  <2>2. /\ c.slots = [p \in DOMAIN c.slots |-> c.slots[p]]
        /\ c.bitmaps = [p \in DOMAIN c.bitmaps |-> c.bitmaps[p]]
    BY <1>4, <2>1, Zenon
  <2>3. (\A p \in DOMAIN c.slots : SlotOK(c.slots[p])) /\ (\A r \in c.reqs : ReqOK(r))
    BY <1>4, <1>5, Zenon
  <2>4. ViewportOK(c.sv)
    BY <1>3, <1>4, Zenon
  <2>5. /\ IsStrip(c)
        /\ c.strip \in BOOLEAN /\ c.inv \in BOOLEAN /\ c.rt \in BOOLEAN
        /\ c.next_seq \in Nat /\ c.zoom \in Zooms /\ c.epoch \in Nat
    <3>1. FALSE \in BOOLEAN /\ 0 \in Nat
      OBVIOUS
    <3> QED
      BY <3>1, <1>4, Zenon
  <2> QED
    BY <2>2, <2>3, <2>4, <2>5, Zenon DEF StripTypes
<1>7. Numbered(c) /\ BitmapsHeld(c) /\ OnlyHeld(c)
  BY <1>4, <1>5 DEF Numbered, BitmapsHeld, OnlyHeld
<1>8. Served(c) /\ StripPlaced(c)
  BY <1>3, <1>4 DEF Served, StripPlaced, InPlace, strip_active
<1> QED
  BY <1>6, <1>7, <1>8 DEF StripSound, Sound

\* One case for every action of StripNext.
LEMMA StripSteps == StripSound(c) /\ StripNext => StepSound(c, c')
<1> SUFFICES ASSUME StripSound(c), StripNext PROVE StepSound(c, c')
  OBVIOUS
<1>1. CASE \E r \in c.reqs : strip_on_done(r) \/ NoAnswer(r)
  BY <1>1, DoneStep, NoAnswerStep
<1>2. CASE \E dy \in {Step, -Step} : Scroll(dy)
  BY <1>2, ScrollStep
<1>3. CASE \E p \in DOMAIN PageH : strip_navigate(p)
  BY <1>3, NavigateStep
<1>4. CASE \E z \in Zooms : Zoom(z)
  BY <1>4, ZoomStep
<1>5. CASE Invert
  BY <1>5, InvertStep
<1>6. CASE SameTab
  BY <1>6, SameTabStep
<1>7. CASE LeaveStrip
  BY <1>7, LeaveStep
<1>8. CASE \E p \in DOMAIN PageH : EnterStrip(p)
  BY <1>8, EnterStep
<1>9. CASE \E h \in Heights : on_size(h)
  BY <1>9, SizeStep
<1>10. CASE strip_paint
  BY <1>10, PaintStep
<1> QED
  BY <1>1, <1>2, <1>3, <1>4, <1>5, <1>6, <1>7, <1>8, <1>9, <1>10 DEF StripNext

\* A step that changes nothing keeps what there is.
LEMMA StripStutters == StripSound(c) /\ UNCHANGED c => StripSound(c)' /\ FailureStays /\ PassFits
<1> SUFFICES ASSUME StripSound(c), c' = c PROVE StripSound(c') /\ FailureStays /\ PassFits
  OBVIOUS
<1>1. StripSound(c')
  OBVIOUS
<1>2. StepSound(c, c)
  BY QuietStep
<1>3. Stays(c, c') /\ FitsAfter(c, c')
  BY <1>2 DEF StepSound
<1>4. FailureStays
  BY <1>3 DEF Stays, FailureStays
<1>5. PassFits
  BY <1>3 DEF FitsAfter, PassFits, AskedAhead, Fits, Holding, Ahead, BytesOf
<1> QED
  BY <1>1, <1>4, <1>5

\* What StepSound says, in the words of the properties.
LEMMA StepKeeps == StepSound(c, c') => StripSound(c') /\ FailureStays /\ PassFits
<1> SUFFICES ASSUME StepSound(c, c') PROVE StripSound(c') /\ FailureStays /\ PassFits
  OBVIOUS
<1>3. StripSound(c') /\ Stays(c, c') /\ FitsAfter(c, c')
  BY DEF StepSound
<1>4. FailureStays
  BY <1>3 DEF Stays, FailureStays
<1>5. PassFits
  BY <1>3 DEF FitsAfter, PassFits, AskedAhead, Fits, Holding, Ahead, BytesOf
<1> QED
  BY <1>3, <1>4, <1>5

\* What a sound strip shows and serves.
LEMMA SoundShows == StripSound(c) => BitmapsExact /\ VisibleServed
<1> SUFFICES ASSUME StripSound(c) PROVE BitmapsExact /\ VisibleServed
  OBVIOUS
<1>1. BitmapsHeld(c) /\ OnlyHeld(c) /\ Served(c)
  BY DEF StripSound, Sound
<1>2. BitmapsExact
  <2>1. DOMAIN c.bitmaps = {p \in DOMAIN c.slots : slot_holds_bitmap(c.slots[p])}
    BY <1>1 DEF BitmapsHeld, OnlyHeld
  <2> QED
    BY <1>1, <2>1 DEF BitmapsHeld, BitmapsExact, ShownPar
<1>3. VisibleServed
  BY <1>1 DEF Served, PageServed, VisibleServed
<1> QED
  BY <1>2, <1>3

\* The invariant of the strip, for every sequence of inputs, answers and losses.
THEOREM StripIsSound == StripSpec => []StripSound(c)
<1>1. StripSound(c) /\ [StripNext]_c => StripSound(c)'
  BY StripSteps, StepKeeps, StripStutters
<1> QED
  BY <1>1, StripStarts, PTL DEF StripSpec

\* A page is never drawn at natural size from a render of another zoom,
\* polarity, layout or document.
THEOREM BitmapsAlwaysExact == StripSpec => []BitmapsExact
<1>1. StripSound(c) => BitmapsExact
  BY SoundShows
<1> QED
  BY <1>1, StripIsSound, PTL

\* No page on screen is forgotten.
THEOREM VisibleAlwaysServed == StripSpec => []VisibleServed
<1>1. StripSound(c) => VisibleServed
  BY SoundShows
<1> QED
  BY <1>1, StripIsSound, PTL

\* A page that failed on screen is not asked for again while it stays there,
\* and a pass that prefetches fits in L1.
THEOREM StripAlwaysPasses == StripSpec => StripPasses
<1>1. StripSound(c) /\ [StripNext]_c => [FailureStays /\ PassFits]_c
  BY StripSteps, StepKeeps
<1> QED
  BY <1>1, StripIsSound, PTL DEF StripSpec, StripPasses

=============================================================================
