----------------------------- MODULE TabManager -----------------------------
(***************************************************************************)
(* The strip of tabs (ui/TabManager.cpp): opening, closing and switching   *)
(* tabs by the mouse and by commands, and the canvas that on_tab_switch    *)
(* binds to the active tab's view.  A tab is a number here.                *)
(*                                                                         *)
(* A press of the middle button on a tab, or of the left one on its close  *)
(* button, is remembered as the index it hit and takes the mouse capture   *)
(* until the release; documents may open and commands close tabs between   *)
(* the two, and another window may take the capture away.                  *)
(***************************************************************************)
EXTENDS TabList, FiniteSets

CONSTANTS
    TabIds         \* bound: the tabs there may be at once

VARIABLES
    list,          \* the tabs and the active one
    bound,         \* the tab whose view the canvas holds, 0 for none
    pressed_tab,   \* index the middle button went down on, 0 for none
    pressed_close, \* index whose close button the left one went down on
    tab_capture    \* the strip has the mouse capture

tabsVars == <<list, bound, pressed_tab, pressed_close, tab_capture>>

TabsInit ==
    /\ list = NoTabs /\ bound = 0
    /\ pressed_tab = 0 /\ pressed_close = 0 /\ tab_capture = FALSE

-----------------------------------------------------------------------------
(* The list.                                                               *)

ActiveOf(l) == IF l.active = 0 THEN 0 ELSE active_tab(l)

\* add_tab makes the new tab active and says so.
Opened(id) ==
    /\ id \notin {list.tabs[i] : i \in DOMAIN list.tabs}
    /\ list' = add_tab(list, id)
    /\ bound' = id
    /\ UNCHANGED <<pressed_tab, pressed_close, tab_capture>>

\* Fault: on_switch is called when the active index changes.
Rebinds_OnIndex(i) == remove(list, i).active # list.active

Rebinds(i) == close_changes_active_tab(list, i)

close_tab(i) ==
    /\ list' = remove(list, i)
    /\ bound' = IF Rebinds(i) THEN ActiveOf(list') ELSE bound

\* Ctrl+W.
CloseActive ==
    /\ list.active # 0
    /\ close_tab(list.active)
    /\ UNCHANGED <<pressed_tab, pressed_close, tab_capture>>

\* A tab clicked, or reached by Ctrl+1..9, Ctrl+Tab and Ctrl+Shift+Tab.
Targets ==
    DOMAIN list.tabs
      \cup ({next_tab_index(list.active, Len(list.tabs)), prev_tab_index(list.active, Len(list.tabs))} \ {0})

Switched(i) ==
    /\ list' = set_active(list, i)
    /\ bound' = list.tabs[i]
    /\ UNCHANGED <<pressed_tab, pressed_close, tab_capture>>

-----------------------------------------------------------------------------
(* The mouse: i is the tab under it, 0 for none.  With the capture a       *)
(* button's release reaches the strip before its next press does.          *)

Hits == {0} \cup DOMAIN list.tabs

MiddleDown(i) ==
    /\ pressed_tab = 0
    /\ pressed_tab' = i
    /\ tab_capture' = (tab_capture \/ i # 0)
    /\ UNCHANGED <<list, bound, pressed_close>>

\* Letting the capture go ends whatever press had it.
ReleaseCapture == tab_capture' = FALSE /\ pressed_tab' = 0 /\ pressed_close' = 0

MiddleUp(i) ==
    /\ ReleaseCapture
    /\ IF pressed_tab # 0 /\ i = pressed_tab THEN close_tab(i) ELSE UNCHANGED <<list, bound>>

CloseButtonDown(i) ==
    /\ pressed_close = 0
    /\ pressed_close' = i
    /\ tab_capture' = TRUE
    /\ UNCHANGED <<list, bound, pressed_tab>>

\* onButton: the pointer is on the close button of tab i.
CloseButtonUp(i, onButton) ==
    /\ pressed_close # 0
    /\ ReleaseCapture
    /\ IF i = pressed_close /\ onButton THEN close_tab(i) ELSE UNCHANGED <<list, bound>>

\* Fault: the press outlives the capture.
WM_CAPTURECHANGED_KeepsPress == tab_capture' = FALSE /\ UNCHANGED <<pressed_tab, pressed_close>>

WM_CAPTURECHANGED == tab_capture' = FALSE /\ pressed_tab' = 0 /\ pressed_close' = 0

CaptureLost ==
    /\ tab_capture
    /\ WM_CAPTURECHANGED
    /\ UNCHANGED <<list, bound>>

-----------------------------------------------------------------------------

TabsNext ==
    \/ \E id \in TabIds : Opened(id)
    \/ CloseActive
    \/ \E i \in Targets : Switched(i)
    \/ \E i \in Hits : MiddleDown(i) \/ MiddleUp(i)
    \/ \E i \in DOMAIN list.tabs : CloseButtonDown(i)
    \/ \E i \in Hits, onButton \in BOOLEAN : CloseButtonUp(i, onButton)
    \/ CaptureLost

TabsSpec == TabsInit /\ [][TabsNext]_tabsVars

\* The canvas holds the active tab's view, which is never one already
\* destroyed: closing by command or by mouse, left or right of the active
\* tab, the index may stay while the tab changes and change while it stays.
\* And no press waits without the capture, so none can be completed by a
\* release that belongs to another.
CanvasHoldsActive ==
    /\ bound = ActiveOf(list)
    /\ tab_capture <=> (pressed_tab # 0 \/ pressed_close # 0)
=============================================================================
