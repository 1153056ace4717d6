------------------------------ MODULE TabList ------------------------------
(***************************************************************************)
(* The list of open tabs (core/TabList.cpp) as operators: the tabs in      *)
(* their order, and the index of the active one, 0 when none is open (the  *)
(* program counts from 0 and says -1).                                     *)
(***************************************************************************)
EXTENDS Integers, Sequences, SequencesExt

NoTabs == [tabs |-> <<>>, active |-> 0]

active_tab(list) == list.tabs[list.active]

\* TabManager::add_tab: the new tab goes last and becomes active.
add_tab(list, tab) == [tabs |-> Append(list.tabs, tab), active |-> Len(list.tabs) + 1]

set_active(list, i) == [list EXCEPT !.active = i]

\* Fault: the index is not moved when a tab before the active one goes.
remove_NoShift(list, i) ==
    LET left == RemoveAt(list.tabs, i)
    IN [tabs |-> left,
        active |-> IF list.active <= Len(left) THEN list.active ELSE Len(left)]

\* The right neighbour of an active tab that goes, or the last tab, takes
\* its place; an active tab further right keeps being the active one.
remove(list, i) ==
    LET left == RemoveAt(list.tabs, i)
    IN [tabs |-> left,
        active |-> CASE list.active > i -> list.active - 1
                     [] list.active = i /\ i > Len(left) -> Len(left)
                     [] OTHER -> list.active]

\* Closing changes which tab is active only when it closes the active one;
\* the index alone does not say so.
close_changes_active_tab(list, i) == list.active = i

next_tab_index(active, count) == IF count < 2 THEN 0 ELSE (active % count) + 1

prev_tab_index(active, count) ==
    IF count < 2 THEN 0 ELSE ((active - 2 + count) % count) + 1
=============================================================================
