------------------------------ MODULE FindBar ------------------------------
(***************************************************************************)
(* The find bar (ui/FindBar.cpp), the results panel's place beside it      *)
(* (ui/ResultsPanel.cpp) and the window's handlers for both                *)
(* (ui/MainWindow.cpp:2364).                                               *)
(*                                                                         *)
(* What the reader types runs after a pause, a regular expression only on  *)
(* Enter, and a query equal to the last one run is not run again.  Escape  *)
(* is one command for the page box, the panel and the bar, and goes to the *)
(* one that has the keyboard.  A session is here the query it holds; its   *)
(* scan is SearchSession's and the posts of it SearchPosts'.               *)
(***************************************************************************)
EXTENDS Naturals

CONSTANTS
    Texts,         \* what may be typed, "" among it
    BadTexts,      \* those that are no regular expression
    FindTabs       \* the tabs that may be active; 0 stands for none

EmptyQuery == [text |-> "", rx |-> FALSE, ww |-> FALSE]

VARIABLES
    bar,           \* shown, text, rx, ww, dirty, invalid, timer, last
    prefill,       \* MainWindow::last_find_query_
    find_tab,      \* the active tab
    holds,         \* the query each tab's session holds
    panel_shown,   \* the results panel is visible
    focus,         \* "canvas", "bar", "panel" or "box"
    stale          \* what ran last went to another tab, or was cleared

findVars == <<bar, prefill, find_tab, holds, panel_shown, focus, stale>>

FindInit ==
    /\ bar = [shown |-> FALSE, text |-> "", rx |-> FALSE, ww |-> FALSE,
              dirty |-> FALSE, invalid |-> FALSE, timer |-> FALSE, last |-> EmptyQuery]
    /\ prefill = "" /\ find_tab = 0 /\ holds = [t \in FindTabs |-> EmptyQuery]
    /\ panel_shown = FALSE /\ focus = "canvas" /\ stale = TRUE

-----------------------------------------------------------------------------
(* Running a query.                                                        *)

query_compiles(q) == q.rx => q.text \notin BadTexts

QueryOf(b) == [text |-> b.text, rx |-> b.rx, ww |-> b.ww]

\* Fault: the modes are left out of the comparison with the last query.
Repeats_TextOnly(b) == b.text = b.last.text

Repeats(b) == QueryOf(b) = b.last

\* fire_query_changed and the window's on_find_query_changed: a bad pattern is
\* flagged and the session keeps what it has.
fire_query_changed(b) ==
    IF Repeats(b) THEN
        bar' = b /\ UNCHANGED <<prefill, holds, stale>>
    ELSE
        LET q == QueryOf(b)
            good == query_compiles(q)
        IN  /\ bar' = [b EXCEPT !.last = q, !.invalid = find_tab # 0 /\ ~good]
            /\ prefill' = IF find_tab # 0 THEN b.text ELSE prefill
            /\ holds' = IF find_tab # 0 /\ good THEN [holds EXCEPT ![find_tab] = q] ELSE holds
            /\ stale' = (find_tab = 0)

-----------------------------------------------------------------------------
(* The reader at the bar.                                                  *)

\* WM_COMMAND EN_CHANGE, of typing or of SetWindowText.
EN_CHANGE(b) ==
    IF b.rx THEN [b EXCEPT !.invalid = FALSE, !.dirty = TRUE]
    ELSE [b EXCEPT !.invalid = FALSE, !.timer = TRUE]

Typed(t) ==
    /\ bar.shown /\ focus = "bar" /\ t # bar.text
    /\ bar' = EN_CHANGE([bar EXCEPT !.text = t])
    /\ UNCHANGED <<prefill, find_tab, holds, panel_shown, focus, stale>>

\* WM_TIMER, the pause being over.
Debounced ==
    /\ bar.timer
    /\ fire_query_changed([bar EXCEPT !.timer = FALSE])
    /\ UNCHANGED <<find_tab, panel_shown, focus>>

\* Match case and whole word run at once; they are one mode here.
WholeClicked ==
    /\ bar.shown
    /\ fire_query_changed([bar EXCEPT !.ww = ~@])
    /\ focus' = "bar"
    /\ UNCHANGED <<find_tab, panel_shown>>

\* Regex mode waits for Enter when it is turned on, and runs when turned off.
RegexClicked ==
    /\ bar.shown
    /\ LET b == [bar EXCEPT !.rx = ~@, !.dirty = ~bar.rx]
       IN  IF bar.rx THEN fire_query_changed(b)
           ELSE bar' = b /\ UNCHANGED <<prefill, holds, stale>>
    /\ focus' = "bar"
    /\ UNCHANGED <<find_tab, panel_shown>>

\* Enter in the box: a regular expression edited since it ran is run; else the
\* next hit is gone to, which asks nothing of the session.
Entered ==
    /\ bar.shown /\ focus = "bar"
    /\ bar.rx /\ bar.dirty
    /\ fire_query_changed([bar EXCEPT !.dirty = FALSE])
    /\ UNCHANGED <<find_tab, panel_shown, focus>>

\* IDM_FIND: show_or_focus writes the last query into the box, which is a
\* change like typing.
on_find_open ==
    /\ find_tab # 0
    /\ LET b == IF prefill = "" THEN bar ELSE EN_CHANGE([bar EXCEPT !.text = prefill])
       IN  bar' = [b EXCEPT !.shown = TRUE]
    /\ focus' = "bar"
    /\ UNCHANGED <<prefill, find_tab, holds, panel_shown, stale>>

\* Fault: the pause outlives the bar.
hide_KeepsTimer(b) == [b EXCEPT !.shown = FALSE, !.dirty = @ \/ b.rx]

hide(b) == [b EXCEPT !.shown = FALSE, !.timer = FALSE, !.dirty = @ \/ b.rx]

\* on_find_close clears the active tab's session and gives the canvas the keys.
on_find_close ==
    /\ bar' = hide(bar)
    /\ holds' = IF find_tab # 0 THEN [holds EXCEPT ![find_tab] = EmptyQuery] ELSE holds
    /\ focus' = "canvas"
    /\ stale' = TRUE
    /\ UNCHANGED <<prefill, find_tab, panel_shown>>

FindClosed == bar.shown /\ on_find_close

-----------------------------------------------------------------------------
(* The panel, the page box and the tabs.                                   *)

\* on_cross_tab_find, and on_toggle_results of a hidden panel.
PanelShown ==
    /\ find_tab # 0
    /\ panel_shown' = TRUE /\ focus' = "panel"
    /\ UNCHANGED <<bar, prefill, find_tab, holds, stale>>

\* Fault: hiding the panel is taken to move the keyboard off it.
FocusAfterToggle_Same == focus

FocusAfterToggle == IF focus = "panel" THEN "canvas" ELSE focus

\* on_toggle_results of a visible panel (F6).
PanelToggledOff ==
    /\ panel_shown
    /\ panel_shown' = FALSE /\ focus' = FocusAfterToggle
    /\ UNCHANGED <<bar, prefill, find_tab, holds, stale>>

on_results_close ==
    /\ panel_shown' = FALSE /\ focus' = "canvas"
    /\ UNCHANGED <<bar, prefill, find_tab, holds, stale>>

PanelClosed == panel_shown /\ on_results_close

\* IDM_FIND_CLOSE: whose Escape it is.
EscOwner ==
    CASE focus = "box" -> "box"
      [] focus = "panel" /\ panel_shown -> "panel"
      [] bar.shown -> "bar"
      [] OTHER -> "canvas"

Escape ==
    \/ EscOwner = "box" /\ focus' = "canvas"
         /\ UNCHANGED <<bar, prefill, find_tab, holds, panel_shown, stale>>
    \/ EscOwner = "panel" /\ on_results_close
    \/ EscOwner = "bar" /\ on_find_close

\* A click or Tab gives another visible control the keys.
Focused(f) ==
    /\ f # focus
    /\ f = "bar" => bar.shown
    /\ f = "panel" => panel_shown
    /\ focus' = f
    /\ UNCHANGED <<bar, prefill, find_tab, holds, panel_shown, stale>>

\* Another tab becomes active, or the last one was closed.  The bar stays.
TabSwitched(t) ==
    /\ t # find_tab
    /\ find_tab' = t
    /\ stale' = TRUE
    /\ UNCHANGED <<bar, prefill, holds, panel_shown, focus>>

FindNext ==
    \/ \E t \in Texts : Typed(t)
    \/ Debounced \/ WholeClicked \/ RegexClicked \/ Entered
    \/ on_find_open \/ FindClosed
    \/ PanelShown \/ PanelToggledOff \/ PanelClosed \/ Escape
    \/ \E f \in {"canvas", "bar", "panel", "box"} : Focused(f)
    \/ \E t \in FindTabs \cup {0} : TabSwitched(t)

FindSpec == FindInit /\ [][FindNext]_findVars

-----------------------------------------------------------------------------
(* Properties.                                                             *)

\* The keyboard is never with a control the reader cannot see
\* (MainWindow.cpp:2530), and a hidden bar runs nothing (FindBar.cpp:897).
KeysSeen ==
    /\ focus = "bar" => bar.shown
    /\ focus = "panel" => panel_shown
    /\ bar.timer => bar.shown

\* Until the reader goes to another tab or closes the bar, what the bar shows
\* is what the session was asked for, once the pause is over and no pattern
\* waits for Enter; a bad pattern leaves the previous results (FindBar.cpp:266,
\* :217).  No order of typing, mode clicks and timers leaves them apart, and the
\* keys never go where the reader cannot see them.
BarIsSearched ==
    /\ KeysSeen
    /\ (find_tab # 0 /\ ~stale /\ ~bar.timer /\ ~(bar.rx /\ bar.dirty)) =>
          /\ QueryOf(bar) = bar.last
          /\ query_compiles(bar.last) => holds[find_tab] = bar.last
=============================================================================
