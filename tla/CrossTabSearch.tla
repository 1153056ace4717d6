---------------------------- MODULE CrossTabSearch ----------------------------
(***************************************************************************)
(* The search across tabs of src/src/app/CrossTabSearch.cpp, with the main *)
(* window that drives it (src/src/ui/MainWindow.cpp) and the observers it  *)
(* chains onto the tabs' search sessions.                                  *)
(*                                                                         *)
(* A session is what SearchSession promises: it scans the pages of its     *)
(* query one task at a time, in any order here, drops the results of a     *)
(* superseded query and, once destroyed, has no task left.  An observer is *)
(* copied under the session's mutex and runs outside of it, on the worker  *)
(* of the session or, when a query is cleared, on the UI thread.           *)
(***************************************************************************)
EXTENDS Integers, Sequences, FiniteSets

CONSTANTS
    Views,        \* addresses of a DocumentView; the allocator reuses them
    Queries,      \* the queries that can be asked, the empty one apart
    NoQuery,      \* the empty query
    Occurs,       \* the <<query, page>> such that the page has a hit
    PageCount,    \* pages of every document
    MaxOpens,     \* bound on the tabs ever opened
    MaxSearches   \* bound on the queries of the panel and the find bar

Pages == 1..PageCount

ASSUME CrossTabConstants ==
    /\ PageCount \in Nat /\ MaxOpens \in Nat /\ MaxSearches \in Nat
    /\ NoQuery \notin Queries
    /\ Occurs \subseteq Queries \X Pages

UI == "ui"
ASSUME UINotAView == UI \notin Views

Agents     == Views \cup {UI}   \* a view stands for its session's worker too
Closed     == 0
NoDispatch == 0

VARIABLES
    \* the tabs and their sessions
    tab,       \* view -> the tab whose view it is, or Closed
    query, found, todo, on_update,
    \* the observer runs and scans under way
    job,
    \* CrossTabSearch::Impl
    hits, sentinel, tabs,
    \* the main window
    ui, visible,
    \* how much of the bounds is used
    opened, searches

session_vars == <<tab, query, found, todo, on_update>>
cross_vars   == <<hits, sentinel, tabs>>
counters     == <<opened, searches>>
vars == <<session_vars, job, cross_vars, ui, visible, counters>>

Open == {v \in Views : tab[v] # Closed}

\* MainWindow's own observer is the empty chain; a dispatch puts itself in
\* front of the chain it captured.
Plain == <<>>

NoJob   == [at |-> "none"]
Resting == [at |-> "idle"]
Lost    == [at |-> "undefined"]

Init ==
    /\ tab = [v \in Views |-> Closed]
    /\ query = [v \in Views |-> NoQuery]
    /\ found = [v \in Views |-> {}]
    /\ todo = [v \in Views |-> {}]
    /\ on_update = [v \in Views |-> Plain]
    /\ job = [a \in Agents |-> NoJob]
    /\ hits = {} /\ sentinel = NoDispatch /\ tabs = {}
    /\ ui = Resting /\ visible = FALSE
    /\ opened = 0 /\ searches = 0

-----------------------------------------------------------------------------
(* A session's worker                                                      *)

\* A task of the session is taken.
Scan(v) ==
    /\ job[v] = NoJob
    /\ \E p \in todo[v] :
        /\ todo' = [todo EXCEPT ![v] = @ \ {p}]
        /\ job' = [job EXCEPT ![v] = [at |-> "scanning", page |-> p]]
    /\ UNCHANGED <<tab, query, found, on_update, cross_vars, ui, visible, counters>>

\* The observer is called with the chain as it was copied: MainWindow's own
\* observer posts, and each dispatch in the chain may collect.
Calling(v, chain) ==
    IF chain = Plain THEN NoJob
    ELSE [at |-> "called", view |-> v, chain |-> Head(chain)]

\* The page's hits land and the observer is copied in one critical section.
Land(v) ==
    /\ job[v].at = "scanning"
    /\ found' = [found EXCEPT ![v] =
         @ \cup ({<<query[v], job[v].page>>} \cap Occurs)]
    /\ job' = [job EXCEPT ![v] = Calling(v, on_update[v])]
    /\ UNCHANGED <<tab, query, todo, on_update, cross_vars, ui, visible, counters>>

\* A task that was superseded while it scanned returns.
DropStale(v) ==
    /\ job[v].at = "stale"
    /\ job' = [job EXCEPT ![v] = NoJob]
    /\ UNCHANGED <<session_vars, cross_vars, ui, visible, counters>>

-----------------------------------------------------------------------------
(* The chained observer, on a worker or on the UI thread                   *)

\* An observer past its lock() holds a strong reference to its sentinel.
Held == {job[a].chain : a \in {b \in Agents : job[b].at \in {"reading", "publishing"}}}

Collecting(at, j, page, fresh) ==
    [at |-> at, view |-> j.view, chain |-> j.chain, page |-> page, fresh |-> fresh]

Lock(a) ==
    /\ job[a].at = "called"
    /\ job' = [job EXCEPT ![a] =
         IF job[a].chain = sentinel \/ job[a].chain \in Held
         THEN Collecting("reading", job[a], 1, {})
         ELSE NoJob]
    /\ UNCHANGED <<session_vars, cross_vars, ui, visible, counters>>

\* hits_for_page, a page at a time, each under the session's mutex.
Read(a) ==
    LET j == job[a] IN
    /\ j.at = "reading"
    /\ job' = [job EXCEPT ![a] =
         IF j.page \in Pages
         THEN Collecting("reading", j, j.page + 1,
                         j.fresh \cup {h \in found[j.view] : h[2] = j.page})
         ELSE Collecting("publishing", j, j.page, j.fresh)]
    /\ UNCHANGED <<session_vars, cross_vars, ui, visible, counters>>

\* Fault: the sentinel is not looked at again under the mutex.
StillLive_Always(d) == TRUE

StillLive(d) == sentinel = d

Publish(a) ==
    LET j == job[a] IN
    /\ j.at = "publishing"
    /\ hits' = IF StillLive(j.chain)
               THEN {h \in hits : h.view # j.view} \cup
                    {[view |-> j.view, state |-> j.chain, hit |-> f] : f \in j.fresh}
               ELSE hits
    /\ job' = [job EXCEPT ![a] = NoJob]
    /\ UNCHANGED <<session_vars, sentinel, tabs, ui, visible, counters>>

-----------------------------------------------------------------------------
(* SearchSession::set_query and the destructor, as CrossTabSearch sees them *)

\* What is queued goes, and what runs is superseded.
Superseded(v) == IF job[v].at = "scanning" THEN [at |-> "stale"] ELSE job[v]

set_query(v, q) ==
    /\ query' = [query EXCEPT ![v] = q]
    /\ found' = [found EXCEPT ![v] = {}]
    /\ todo' = [todo EXCEPT ![v] = IF q = NoQuery THEN {} ELSE Pages]
    /\ job' = [job EXCEPT ![v] = Superseded(v),
                          ![UI] = IF q = NoQuery \/ Pages = {}
                                  THEN Calling(v, on_update[v]) ELSE NoJob]

-----------------------------------------------------------------------------
(* The UI thread: clear and dispatch                                       *)

Restoring(detach, next) == [at |-> "restoring", detach |-> detach, next |-> next]

\* Under the mutex: the hits and the sentinel go, the records are taken out.
clear(next) ==
    /\ hits' = {} /\ sentinel' = NoDispatch /\ tabs' = {}
    /\ ui' = Restoring(tabs, next)

\* Fault: the observers that clear finds stay as they are.
Restored_Not(rec) == on_update[rec.view]

\* What clear puts back: what the record captured.
Restored(rec) == rec.prev_observer

\* A record is used by its address, whatever lives there now.  Behaviour is
\* undefined when nothing does, and the model ends there.
Restore ==
    /\ ui.at = "restoring"
    /\ \E rec \in ui.detach :
        IF tab[rec.view] = Closed
        THEN ui' = Lost /\ UNCHANGED on_update
        ELSE /\ on_update' = [on_update EXCEPT ![rec.view] = Restored(rec)]
             /\ ui' = Restoring(ui.detach \ {rec}, ui.next)
    /\ UNCHANGED <<tab, query, found, todo, job, cross_vars, visible, counters>>

\* clear returns, to the panel's close, the dispatch or the tab's close.
Cleared ==
    /\ ui.at = "restoring" /\ ui.detach = {}
    /\ ui' = ui.next
    /\ UNCHANGED <<session_vars, job, cross_vars, visible, counters>>

\* on_results_query: from the panel's edit box.
dispatch(q) ==
    /\ ui = Resting /\ visible /\ searches < MaxSearches
    /\ searches' = searches + 1
    /\ clear([at |-> "capturing", query |-> q])
    /\ UNCHANGED <<session_vars, job, visible, opened>>

Installing(q, left) == [at |-> "installing", query |-> q, left |-> left]

\* Phase 1: a record for each tab, and a sentinel of this dispatch.
Capture ==
    /\ ui.at = "capturing"
    /\ tabs' = {[view |-> v, tab |-> tab[v], prev_observer |-> on_update[v]] : v \in Open}
    /\ hits' = {} /\ sentinel' = searches
    /\ ui' = Installing(ui.query, tabs')
    /\ UNCHANGED <<session_vars, job, visible, counters>>

\* Phase 2, for each record: the chained observer, then the query.
Install ==
    /\ ui.at = "installing" /\ job[UI] = NoJob
    /\ \E rec \in ui.left :
        /\ on_update' = [on_update EXCEPT ![rec.view] = <<sentinel>> \o rec.prev_observer]
        /\ ui' = [at |-> "asking", query |-> ui.query, left |-> ui.left \ {rec}, view |-> rec.view]
    /\ UNCHANGED <<tab, query, found, todo, job, cross_vars, visible, counters>>

Ask ==
    /\ ui.at = "asking"
    /\ set_query(ui.view, ui.query)
    /\ ui' = Installing(ui.query, ui.left)
    /\ UNCHANGED <<tab, on_update, cross_vars, visible, counters>>

Dispatched ==
    /\ ui.at = "installing" /\ ui.left = {} /\ job[UI] = NoJob
    /\ ui' = Resting
    /\ UNCHANGED <<session_vars, job, cross_vars, visible, counters>>

-----------------------------------------------------------------------------
(* The UI thread: the main window                                          *)

\* A tab is opened with MainWindow's observer, at any free address.
OpenTab ==
    /\ ui = Resting /\ opened < MaxOpens
    /\ opened' = opened + 1
    /\ \E v \in Views \ Open : tab' = [tab EXCEPT ![v] = opened + 1]
    /\ UNCHANGED <<query, found, todo, on_update, job, cross_vars, ui, visible, searches>>

\* on_cross_tab_find, and F6 when the panel is hidden.
ShowPanel ==
    /\ ui = Resting /\ ~visible /\ Open # {}
    /\ visible' = TRUE
    /\ UNCHANGED <<session_vars, job, cross_vars, ui, counters>>

\* on_toggle_results, F6: the panel goes, the dispatch stays.
HidePanel ==
    /\ ui = Resting /\ visible
    /\ visible' = FALSE
    /\ UNCHANGED <<session_vars, job, cross_vars, ui, counters>>

\* on_results_close.
ClosePanel ==
    /\ ui = Resting /\ visible
    /\ visible' = FALSE
    /\ clear(Resting)
    /\ UNCHANGED <<session_vars, job, counters>>

\* The find bar on the active tab: on_find_query_changed and on_find_close.
Find(v, q) ==
    /\ ui = Resting /\ v \in Open /\ searches < MaxSearches
    /\ searches' = searches + 1
    /\ set_query(v, q)
    /\ ui' = [at |-> "finding"]
    /\ UNCHANGED <<tab, on_update, cross_vars, visible, opened>>

Found ==
    /\ ui.at = "finding" /\ job[UI] = NoJob
    /\ ui' = Resting
    /\ UNCHANGED <<session_vars, job, cross_vars, visible, counters>>

Closing(at, v) == [at |-> at, view |-> v]

\* on_tab_close_request.
CloseTab(v) ==
    /\ ui = Resting /\ v \in Open
    /\ IF visible THEN clear(Closing("closing", v))
                  ELSE ui' = Closing("closing", v) /\ UNCHANGED cross_vars
    /\ UNCHANGED <<session_vars, job, visible, counters>>

\* ~SearchSession: the tasks are superseded or discarded, ...
EndSession ==
    /\ ui.at = "closing"
    /\ todo' = [todo EXCEPT ![ui.view] = {}]
    /\ job' = [job EXCEPT ![ui.view] = Superseded(ui.view)]
    /\ ui' = Closing("draining", ui.view)
    /\ UNCHANGED <<tab, query, found, on_update, cross_vars, visible, counters>>

\* Fault: the session does not wait for its tasks.
Drained_Always(v) == TRUE

Drained(v) == job[v] = NoJob

\* ... and once the last has returned the view is gone.
Destroy ==
    /\ ui.at = "draining" /\ Drained(ui.view)
    /\ tab' = [tab EXCEPT ![ui.view] = Closed]
    /\ query' = [query EXCEPT ![ui.view] = NoQuery]
    /\ found' = [found EXCEPT ![ui.view] = {}]
    /\ on_update' = [on_update EXCEPT ![ui.view] = Plain]
    /\ ui' = Resting
    /\ UNCHANGED <<todo, job, cross_vars, visible, counters>>

-----------------------------------------------------------------------------

ObserverStep == \E a \in Agents : Lock(a) \/ Read(a) \/ Publish(a)

WorkerStep == \E v \in Views : Scan(v) \/ Land(v) \/ DropStale(v)

UIStep ==
    \/ Restore \/ Cleared \/ Capture \/ Install \/ Ask \/ Dispatched
    \/ Found \/ EndSession \/ Destroy

UICall ==
    \/ OpenTab \/ ShowPanel \/ HidePanel \/ ClosePanel
    \/ \E q \in Queries \cup {NoQuery} : dispatch(q)
    \/ \E v \in Views, q \in Queries \cup {NoQuery} : Find(v, q)
    \/ \E v \in Views : CloseTab(v)

\* Everyone waits for the next message.
Quiet == ui = Resting /\ \A a \in Agents : job[a] = NoJob /\ (a \in Views => todo[a] = {})
Wait == Quiet /\ UNCHANGED vars

\* Behaviour is undefined from here on.
Undefined == ui.at = "undefined" /\ UNCHANGED vars

Next ==
    \/ ui.at # "undefined" /\ (ObserverStep \/ WorkerStep \/ UIStep \/ UICall)
    \/ Wait
    \/ Undefined

Spec == Init /\ [][Next]_vars

-----------------------------------------------------------------------------
(* Properties                                                              *)

\* The record's view is still the tab's it was taken from.
Current(rec) == tab[rec.view] = rec.tab

\* Between two calls of the UI thread every open tab has MainWindow's observer,
\* with the live dispatch in front of it for the tabs it recorded and nothing
\* else: no dispatch nests in another, none outlives its clear, and the find
\* bar's counter never loses its observer.
ObserversExact ==
    ui = Resting =>
        \A v \in Open :
            on_update[v] = IF \E rec \in tabs : rec.view = v /\ Current(rec)
                           THEN <<sentinel>> ELSE Plain

\* Every hit in the list is of the live dispatch; and once the scans are over
\* the list has of each recorded tab what its session has, whatever was
\* superseded, and whichever observer was late.  (A query that the find bar
\* clears is excepted: its observer runs on the UI thread, and one that a
\* worker runs at the same time may publish after it.)
ListFaithful ==
    /\ \A h \in hits : h.state = sentinel
    /\ Quiet =>
         \A rec \in tabs :
            Current(rec) /\ query[rec.view] # NoQuery =>
                {h.hit : h \in {g \in hits : g.view = rec.view}} = found[rec.view]

\* The panel's list is the tabs' hits, and leaves their observers as they were.
ResultsFaithful == ObserversExact /\ ListFaithful

\* An observer never reads a view that is gone.
NoUseAfterClose ==
    \A a \in Agents : job[a].at \in {"called", "reading"} => job[a].view \in Open

\* "drop its sentinel and restore per-session observers BEFORE destroying the
\* tab" (MainWindow::on_tab_close_request, where the panel's visibility stands
\* for the dispatch): no record of the dispatch is of a tab that is gone.
RecordsOpen == \A rec \in tabs : Current(rec)
=============================================================================
