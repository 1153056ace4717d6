---------------------------- MODULE Find_proofs ----------------------------
(***************************************************************************)
(* The parts of searching that the reader sees, for any views, queries,    *)
(* documents and threads: the search of all tabs, the find bar, and the    *)
(* posts that bring the workers' results to the window; and the processes  *)
(* that share one window and its list of recent files.                     *)
(*                                                                         *)
(* An observer never reads a view that is gone, and with F6: the drain of  *)
(* ~SearchSession alone keeps it.  The panel's list comes right however    *)
(* the observers are late: as long as a view's hits are not in the list, a *)
(* scan of the view is to come or the live dispatch's observer is on its   *)
(* way with all there was to read.                                         *)
(*                                                                         *)
(* However processes start, forward, close and die, one at a time has the  *)
(* window, and the registry has its list, or the values that the save under*)
(* way has written of it (RegistryKept).                                   *)
(***************************************************************************)
EXTENDS CrossTabSearch, FindBar, SearchPosts, Launches, DataTheorems

-----------------------------------------------------------------------------
(* The search of all tabs: who runs where.                                 *)

Observing == {"called", "reading", "publishing"}

\* A session's worker runs tasks of an open tab, and observers of its own.
WorkersAtHome ==
    \A v \in Views :
        /\ job[v] # NoJob \/ todo[v] # {} => v \in Open
        /\ job[v].at \in Observing => job[v].view = v

\* The UI thread runs an observer inside a query of an open tab only.
UIAtHome ==
    job[UI].at \in Observing => job[UI].view \in Open /\ ui.at \in {"finding", "installing"}

\* What the UI thread has under way names open tabs; and past the discard of
\* a destructor nothing can start there.
CallsName ==
    /\ ui.at = "restoring" =>
         \/ ui.next.at \in {"idle", "capturing"}
         \/ ui.next.at = "closing" /\ ui.next.view \in Open
    /\ ui.at \in {"installing", "asking"} => \A rec \in ui.left : rec.view \in Open
    /\ ui.at \in {"asking", "closing", "draining"} => ui.view \in Open
    /\ ui.at = "draining" => todo[ui.view] = {}

Shape ==
    /\ DOMAIN job = Agents /\ DOMAIN tab = Views /\ DOMAIN todo = Views
    /\ opened \in Nat

Inv == Shape /\ WorkersAtHome /\ UIAtHome /\ CallsName

LEMMA InvInit == Init => Inv
BY UINotAView DEF Init, Inv, Shape, WorkersAtHome, UIAtHome, CallsName, NoJob, Resting,
      Observing, Agents

\* A step of a worker or an observer moves one job, without opening or closing
\* a tab: enough that the job stays at home.
LEMMA JobMoves ==
    ASSUME Inv, NEW a \in Agents, NEW j,
           job' = [job EXCEPT ![a] = j], job[a] # NoJob,
           j.at \in Observing => j.view = (IF a = UI THEN job[a].view ELSE a),
           a = UI => job[a].at \in Observing,
           UNCHANGED <<tab, todo, ui, opened>>
    PROVE  Inv'
<1>1. Shape'
  BY DEF Inv, Shape
<1>2. WorkersAtHome'
  BY UINotAView DEF Inv, Shape, WorkersAtHome, Open, Agents
<1>3. UIAtHome'
  BY UINotAView DEF Inv, Shape, UIAtHome, Open, Agents
<1>4. CallsName'
  BY DEF Inv, CallsName, Open
<1> QED
  BY <1>1, <1>2, <1>3, <1>4 DEF Inv

LEMMA ObserverMoves == ASSUME Inv, NEW a \in Agents, Lock(a) \/ Read(a) \/ Publish(a) PROVE Inv'
<1> DEFINE j == job'[a]
<1>1. job[a].at \in Observing
  BY DEF Lock, Read, Publish, Observing
<1>2. UNCHANGED <<tab, todo, ui, opened>>
  BY DEF Lock, Read, Publish, session_vars, counters
<1>3. job' = [job EXCEPT ![a] = j] /\ (j.at \in Observing => j.view = job[a].view)
  <2>1. CASE Lock(a)
    BY <2>1 DEF Inv, Shape, Lock, Collecting, NoJob, Observing
  <2>2. CASE Read(a)
    BY <2>2 DEF Inv, Shape, Read, Collecting
  <2>3. CASE Publish(a)
    BY <2>3 DEF Inv, Shape, Publish, NoJob, Observing
  <2> QED
    BY <2>1, <2>2, <2>3
<1>4. job[a].view = IF a = UI THEN job[a].view ELSE a
  BY <1>1 DEF Inv, WorkersAtHome, Agents
<1>5. job[a] # NoJob
  BY <1>1 DEF NoJob, Observing
<1> HIDE DEF j
<1> QED
  BY <1>1, <1>2, <1>3, <1>4, <1>5, JobMoves

LEMMA WorkerMoves == ASSUME Inv, NEW v \in Views, Scan(v) \/ Land(v) \/ DropStale(v) PROVE Inv'
<1>1. CASE Scan(v)
  <2>1. Shape'
    BY <1>1 DEF Inv, Shape, Scan, counters
  <2>2. WorkersAtHome'
    BY <1>1 DEF Inv, Shape, Scan, WorkersAtHome, Open, Agents, Observing
  <2>3. UIAtHome'
    BY <1>1, UINotAView DEF Inv, Shape, Scan, UIAtHome, Open, Agents, Observing
  <2>4. CallsName'
    BY <1>1 DEF Inv, Shape, Scan, CallsName, Open
  <2> QED
    BY <2>1, <2>2, <2>3, <2>4 DEF Inv
<1>2. CASE Land(v)
  <2>1. UNCHANGED <<tab, todo, ui, opened>> /\ job[v] # NoJob
    BY <1>2 DEF Land, counters, NoJob
  <2>2. Calling(v, on_update[v]).at \in Observing => Calling(v, on_update[v]).view = v
    BY DEF Calling, NoJob, Observing
  <2> QED
    BY <1>2, <2>1, <2>2, JobMoves, UINotAView DEF Land, Agents
<1>3. CASE DropStale(v)
  <2>1. UNCHANGED <<tab, todo, ui, opened>> /\ job[v] # NoJob
    BY <1>3 DEF DropStale, session_vars, counters, NoJob
  <2>2. NoJob.at \notin Observing
    BY DEF NoJob, Observing
  <2> QED
    BY <1>3, <2>1, <2>2, JobMoves, UINotAView DEF DropStale, Agents
<1> QED
  BY <1>1, <1>2, <1>3

\* set_query on an open tab, from a caller that waits for its observer.
LEMMA QueryMoves ==
    ASSUME Inv, NEW v \in Open, NEW q, set_query(v, q), CallsName',
           ui'.at \in {"finding", "installing"}, UNCHANGED <<tab, opened>>
    PROVE  Inv'
<1>1. Shape'
  BY DEF Inv, Shape, set_query
<1>2. \A w \in Views : job'[w] = job[w] \/ (w = v /\ job'[w].at = "stale")
  BY UINotAView DEF Inv, Shape, set_query, Superseded, Agents
<1>3. \A w \in Views : w # v => todo'[w] = todo[w]
  BY DEF Inv, Shape, set_query
<1>4. WorkersAtHome'
  BY <1>2, <1>3 DEF Inv, WorkersAtHome, Open, Observing
<1>5. job'[UI] = Calling(v, on_update[v]) \/ job'[UI] = NoJob
  BY UINotAView DEF Inv, Shape, set_query, Agents, Open
<1>6. UIAtHome'
  BY <1>5 DEF UIAtHome, Calling, NoJob, Observing, Open
<1> QED
  BY <1>1, <1>4, <1>6 DEF Inv

\* A step of the UI thread that touches no job and no queue.
LEMMA CallMoves ==
    ASSUME Inv, CallsName', UNCHANGED <<tab, todo, job, opened>>,
           job[UI].at \in Observing => ui'.at \in {"finding", "installing"}
    PROVE  Inv'
<1>1. Shape'
  BY DEF Inv, Shape
<1>2. WorkersAtHome'
  BY DEF Inv, WorkersAtHome, Open
<1>3. UIAtHome'
  BY DEF Inv, UIAtHome, Open, NoJob, Observing
<1> QED
  BY <1>1, <1>2, <1>3 DEF Inv

LEMMA UIMoves == ASSUME Inv, UIStep PROVE Inv'
<1> USE DEF Inv, CallsName, UIAtHome, Open
<1> DEFINE Quietly == UNCHANGED <<tab, todo, job, opened>>
                      /\ (job[UI].at \in Observing => ui'.at \in {"finding", "installing"})
<1>1. CASE Restore
  <2>1. Quietly
    BY <1>1 DEF Restore, counters
  <2>2. CallsName'
    BY <1>1 DEF Restore, Restoring, Lost, counters
  <2> QED
    BY <2>1, <2>2, CallMoves
<1>2. CASE Cleared
  <2>1. Quietly
    BY <1>2 DEF Cleared, session_vars, counters
  <2>2. CallsName'
    BY <1>2 DEF Cleared, session_vars
  <2> QED
    BY <2>1, <2>2, CallMoves
<1>3. CASE Capture
  <2>1. Quietly
    BY <1>3 DEF Capture, session_vars, counters
  <2>2. CallsName'
    BY <1>3 DEF Capture, session_vars, Installing
  <2> QED
    BY <2>1, <2>2, CallMoves
<1>4. CASE Install
  <2>1. Quietly
    BY <1>4 DEF Install, counters, NoJob, Observing
  <2>2. CallsName'
    BY <1>4 DEF Install, counters
  <2> QED
    BY <2>1, <2>2, CallMoves
<1>5. CASE Ask
  <2>1. ui.view \in Open /\ ui'.at = "installing" /\ UNCHANGED <<tab, opened>>
    BY <1>5 DEF Ask, Installing, counters
  <2>2. CallsName'
    BY <1>5 DEF Ask, Installing
  <2>3. set_query(ui.view, ui.query)
    BY <1>5 DEF Ask
  <2> HIDE DEF Inv, CallsName, UIAtHome, Open
  <2> QED
    BY <2>1, <2>2, <2>3, QueryMoves
<1>6. CASE Dispatched \/ Found
  <2>1. Quietly /\ ui' = Resting
    BY <1>6 DEF Dispatched, Found, session_vars, counters, NoJob, Observing
  <2>2. CallsName'
    BY <2>1 DEF Resting
  <2> QED
    BY <2>1, <2>2, CallMoves
<1>7. CASE EndSession
  <2>1. Shape'
    BY <1>7 DEF EndSession, Shape, counters
  <2>2. \A w \in Views : job'[w] = job[w] \/ (w = ui.view /\ job'[w].at = "stale")
    BY <1>7, UINotAView DEF EndSession, Shape, Superseded, Agents
  <2>3. WorkersAtHome'
    BY <1>7, <2>2 DEF EndSession, Shape, WorkersAtHome, Observing
  <2>4. UIAtHome'
    BY <1>7, UINotAView DEF EndSession, Shape, Agents, Observing, Closing
  <2>5. CallsName'
    BY <1>7 DEF EndSession, Closing, Shape
  <2> QED
    BY <2>1, <2>3, <2>4, <2>5
<1>8. CASE Destroy
  <2>1. Shape' /\ ui' = Resting
    BY <1>8 DEF Destroy, Shape, counters
  <2>2. \A w \in Views : tab'[w] # tab[w] => job[w] = NoJob /\ todo[w] = {}
    BY <1>8 DEF Destroy, Drained, Shape
  <2>3. WorkersAtHome'
    BY <1>8, <2>2 DEF Destroy, WorkersAtHome, NoJob
  <2>4. UIAtHome' /\ CallsName'
    BY <1>8, <2>1 DEF Destroy, Resting
  <2> QED
    BY <2>1, <2>3, <2>4
<1> QED
  BY <1>1, <1>2, <1>3, <1>4, <1>5, <1>6, <1>7, <1>8 DEF UIStep

LEMMA MessageMoves == ASSUME Inv, UICall PROVE Inv'
<1> DEFINE Quietly == UNCHANGED <<tab, todo, job, opened>> /\ job[UI].at \notin Observing
<1>0. ui = Resting /\ job[UI].at \notin Observing
  <2>1. ui = Resting
    BY DEF UICall, OpenTab, ShowPanel, HidePanel, ClosePanel, dispatch, Find, CloseTab
  <2> QED
    BY <2>1 DEF Inv, UIAtHome, Resting
<1>1. CASE OpenTab
  <2>1. Shape' /\ \A w \in Views : w \in Open => tab'[w] = tab[w]
    BY <1>1 DEF OpenTab, Inv, Shape, Open
  <2>2. UNCHANGED <<job, todo, ui>>
    BY <1>1 DEF OpenTab
  <2>3. WorkersAtHome'
    BY <2>1, <2>2 DEF Inv, WorkersAtHome, Open
  <2>4. UIAtHome' /\ CallsName'
    BY <1>0, <2>2 DEF UIAtHome, CallsName, Resting
  <2> QED
    BY <2>1, <2>3, <2>4 DEF Inv
<1>2. CASE ShowPanel \/ HidePanel
  <2>1. Quietly /\ ui' = ui
    BY <1>0, <1>2 DEF ShowPanel, HidePanel, session_vars, counters
  <2>2. CallsName'
    BY <1>0, <2>1 DEF CallsName, Resting
  <2> QED
    BY <2>1, <2>2, CallMoves
<1>3. CASE ClosePanel
  <2>1. Quietly
    BY <1>0, <1>3 DEF ClosePanel, session_vars, counters
  <2>2. CallsName'
    BY <1>3 DEF ClosePanel, clear, Restoring, Resting, CallsName
  <2> QED
    BY <2>1, <2>2, CallMoves
<1>4. CASE \E q \in Queries \cup {NoQuery} : dispatch(q)
  <2>1. Quietly
    BY <1>0, <1>4 DEF dispatch, session_vars
  <2>2. CallsName'
    BY <1>4 DEF dispatch, clear, Restoring, CallsName
  <2> QED
    BY <2>1, <2>2, CallMoves
<1>5. CASE \E v \in Views, q \in Queries \cup {NoQuery} : Find(v, q)
  <2>1. PICK v \in Open, q \in Queries \cup {NoQuery} : Find(v, q)
    BY <1>5 DEF Find
  <2>2. set_query(v, q) /\ UNCHANGED <<tab, opened>> /\ ui'.at = "finding"
    BY <2>1 DEF Find
  <2>3. CallsName'
    BY <2>2 DEF CallsName
  <2> QED
    BY <2>2, <2>3, QueryMoves
<1>6. CASE \E v \in Views : CloseTab(v)
  <2>1. PICK v \in Open : CloseTab(v)
    BY <1>6 DEF CloseTab
  <2>2. Quietly
    BY <1>0, <2>1 DEF CloseTab, session_vars, counters
  <2>3. ui' = Closing("closing", v) \/ ui' = Restoring(tabs, Closing("closing", v))
    BY <2>1 DEF CloseTab, clear
  <2>4. CallsName'
    BY <2>2, <2>3 DEF CallsName, Closing, Restoring, Open
  <2> QED
    BY <2>2, <2>4, CallMoves
<1> QED
  BY <1>1, <1>2, <1>3, <1>4, <1>5, <1>6 DEF UICall

LEMMA InvNext == Inv /\ [Next]_vars => Inv'
<1> SUFFICES ASSUME Inv, [Next]_vars PROVE Inv'
  OBVIOUS
<1>1. CASE ObserverStep
  BY <1>1, ObserverMoves DEF ObserverStep
<1>2. CASE WorkerStep
  BY <1>2, WorkerMoves DEF WorkerStep
<1>3. CASE UIStep \/ UICall
  BY <1>3, UIMoves, MessageMoves
<1>4. CASE UNCHANGED vars
  BY <1>4 DEF vars, session_vars, counters, Inv, Shape, WorkersAtHome, UIAtHome, CallsName, Open
<1> QED
  BY <1>1, <1>2, <1>3, <1>4 DEF Next, Wait, Undefined

LEMMA InvSafe == Inv => NoUseAfterClose
BY DEF Inv, WorkersAtHome, UIAtHome, NoUseAfterClose, Agents, Observing, NoJob

\* No observer, on any worker or on the UI thread, reads a view that is gone:
\* the session's drain covers the observers its tasks call, whether or not
\* the main window remembered to clear the dispatch.
THEOREM ObserversReadOpenViews == Spec => []NoUseAfterClose
<1>1. Spec => []Inv
  BY InvInit, InvNext, PTL DEF Spec
<1> QED
  BY <1>1, InvSafe, PTL

-----------------------------------------------------------------------------
(* The results of all tabs: the observers' chains and the list.            *)

Recorded(R, v) == \E rec \in R : rec.view = v /\ Current(rec)

\* A record is of a tab once opened, found with MainWindow's own observer.
RecordsRight(R) ==
    \A rec \in R : rec.view \in Views /\ rec.tab \in 1..opened /\ rec.prev_observer = Plain

Phases == {"idle", "restoring", "capturing", "installing", "asking", "finding", "closing",
           "draining", "undefined"}

\* The chains step by step: clear takes a dispatch off tab by tab, and only then
\* the next captures the tabs and puts itself on, tab by tab.
ChainsRight ==
    /\ DOMAIN on_update = Views /\ ui.at \in Phases
    /\ \A v \in Views : tab[v] \in 0..opened /\ (tab[v] = Closed => on_update[v] = Plain)
    /\ RecordsRight(tabs)
    /\ ui.at = "restoring" => RecordsRight(ui.detach)
    /\ ui.at \in {"restoring", "capturing", "undefined"} => tabs = {}
    /\ ui.at \in {"installing", "asking"} =>
         ui.left \subseteq tabs /\ \A v \in Open : Recorded(tabs, v)
    /\ \A v \in Open :
         /\ ui.at = "restoring" => Recorded(ui.detach, v) \/ on_update[v] = Plain
         /\ ui.at = "capturing" => on_update[v] = Plain
         /\ ui.at \in {"installing", "asking"} =>
              Recorded(ui.left, v) \/ on_update[v] = <<sentinel>>
         /\ ui.at \in {"idle", "finding", "closing", "draining"} =>
              on_update[v] = IF Recorded(tabs, v) THEN <<sentinel>> ELSE Plain

\* A step that leaves the chains and the UI thread alone.
LEMMA ChainsSame ==
    ASSUME ChainsRight, UNCHANGED <<tab, on_update, tabs, sentinel, ui, opened>>
    PROVE  ChainsRight'
BY DEF ChainsRight, RecordsRight, Recorded, Current, Open, Phases

\* clear, from a message of the main window.
LEMMA ChainsCleared ==
    ASSUME ChainsRight, NEW next, clear(next), ui = Resting, UNCHANGED <<tab, on_update, opened>>
    PROVE  ChainsRight'
BY DEF ChainsRight, RecordsRight, Recorded, Current, Open, clear, Restoring, Resting, Phases

\* The UI thread goes on to a step between two of its calls.
LEMMA ChainsRest ==
    ASSUME ChainsRight, UNCHANGED <<tab, on_update, opened, tabs, sentinel>>,
           ui.at \in {"idle", "finding", "closing", "draining"},
           ui'.at \in {"idle", "finding", "closing", "draining"}
    PROVE  ChainsRight'
BY DEF ChainsRight, RecordsRight, Recorded, Current, Open, Phases

LEMMA ChainsUIStep == ASSUME Inv, ChainsRight, UIStep PROVE ChainsRight'
<1> USE DEF Phases
<1>1. CASE Restore
  <2>1. /\ ui.at = "restoring" /\ tabs = {} /\ tabs' = {}
        /\ UNCHANGED <<tab, opened, sentinel>>
    BY <1>1 DEF Restore, cross_vars, counters, ChainsRight
  <2>2. CASE ui' = Lost /\ UNCHANGED on_update
    BY <2>1, <2>2 DEF Lost, ChainsRight, RecordsRight, Recorded, Current, Open
  <2>3. CASE \E rec \in ui.detach : /\ on_update' = [on_update EXCEPT ![rec.view] = Restored(rec)]
                                    /\ ui' = Restoring(ui.detach \ {rec}, ui.next)
    <3>1. PICK rec \in ui.detach : /\ on_update' = [on_update EXCEPT ![rec.view] = Restored(rec)]
                                   /\ ui' = Restoring(ui.detach \ {rec}, ui.next)
      BY <2>3
    <3>2. rec.view \in Views /\ Restored(rec) = Plain
      BY <2>1 DEF ChainsRight, RecordsRight, Restored
    <3>3. DOMAIN on_update' = Views /\ on_update'[rec.view] = Plain
          /\ \A v \in Views \ {rec.view} : on_update'[v] = on_update[v]
      BY <3>1, <3>2 DEF ChainsRight
    <3>4. ui'.at = "restoring" /\ ui'.detach = ui.detach \ {rec}
      BY <3>1 DEF Restoring
    <3>5. \A v \in Open' : Recorded(ui.detach \ {rec}, v)' \/ on_update'[v] = Plain
      <4> SUFFICES ASSUME NEW v \in Open, v # rec.view, Recorded(ui.detach, v)
                   PROVE  Recorded(ui.detach \ {rec}, v)'
        BY <2>1, <3>3 DEF Open, ChainsRight
      <4> QED
        BY <2>1, <3>4 DEF Recorded, Current
    <3> QED
      BY <2>1, <3>3, <3>4, <3>5 DEF ChainsRight, RecordsRight, Recorded, Current, Open
  <2> QED
    BY <1>1, <2>2, <2>3 DEF Restore
<1>2. CASE Cleared
  <2>1. /\ ui.at = "restoring" /\ ui.detach = {} /\ tabs = {} /\ ui' = ui.next
        /\ UNCHANGED <<tab, on_update, tabs, sentinel, opened>>
    BY <1>2 DEF Cleared, session_vars, cross_vars, counters, ChainsRight
  <2>2. ui'.at \in {"idle", "capturing", "closing"}
    BY <2>1 DEF Inv, CallsName
  <2> QED
    BY <2>1, <2>2 DEF ChainsRight, RecordsRight, Recorded, Current, Open
<1>3. CASE Capture
  <2>1. /\ ui.at = "capturing" /\ UNCHANGED <<tab, on_update, opened>>
        /\ tabs' = {[view |-> v, tab |-> tab[v], prev_observer |-> on_update[v]] : v \in Open}
        /\ ui'.at = "installing" /\ ui'.left = tabs'
    BY <1>3 DEF Capture, session_vars, counters, Installing
  <2>2. \A v \in Open : tab[v] \in 1..opened /\ on_update[v] = Plain
    BY <2>1 DEF ChainsRight, Open, Closed, Inv, Shape
  <2>3. RecordsRight(tabs)'
    BY <2>1, <2>2 DEF RecordsRight, Open
  <2>4. \A v \in Open' : Recorded(tabs, v)'
    <3> SUFFICES ASSUME NEW v \in Open
                 PROVE  \E rec \in tabs' : rec.view = v /\ Current(rec)'
      BY <2>1 DEF Open, Recorded
    <3>1. PICK r : r = [view |-> v, tab |-> tab[v], prev_observer |-> on_update[v]]
      OBVIOUS
    <3>2. tabs' = {[view |-> u, tab |-> tab[u], prev_observer |-> on_update[u]] : u \in Open}
      BY <2>1
    <3>3. r \in tabs'
      BY ONLY <3>1, <3>2, v \in Open, Zenon
    <3>4. r.view = v /\ Current(r)'
      BY <2>1, <3>1 DEF Current
    <3> QED
      BY <3>3, <3>4
  <2> QED
    BY <2>1, <2>2, <2>3, <2>4 DEF ChainsRight, Recorded, Current, Open
<1>4. CASE Install
  <2>1. PICK rec \in ui.left :
          /\ on_update' = [on_update EXCEPT ![rec.view] = <<sentinel>> \o rec.prev_observer]
          /\ ui' = [at |-> "asking", query |-> ui.query, left |-> ui.left \ {rec}, view |-> rec.view]
    BY <1>4 DEF Install
  <2>2. ui.at = "installing" /\ UNCHANGED <<tab, opened, tabs, sentinel>>
    BY <1>4 DEF Install, cross_vars, counters
  <2>3. rec \in tabs /\ rec.view \in Views /\ rec.view \in Open /\ rec.prev_observer = Plain
    BY <2>2 DEF ChainsRight, RecordsRight, Inv, CallsName
  <2>4. <<sentinel>> \o rec.prev_observer = <<sentinel>>
    BY <2>3 DEF Plain
  <2>5. DOMAIN on_update' = Views /\ on_update'[rec.view] = <<sentinel>>
        /\ \A v \in Views \ {rec.view} : on_update'[v] = on_update[v]
    BY <2>1, <2>3, <2>4 DEF ChainsRight
  <2>6. ui'.at = "asking" /\ ui'.left = ui.left \ {rec} /\ Open' = Open
    BY <2>1, <2>2 DEF Open
  <2>7. \A v \in Open' : Recorded(ui.left, v)' \/ on_update'[v] = <<sentinel>>'
    <3> SUFFICES ASSUME NEW v \in Open, v # rec.view, Recorded(ui.left, v)
                 PROVE  Recorded(ui.left, v)'
      BY <2>2, <2>5, <2>6 DEF ChainsRight, Open
    <3> QED
      BY <2>2, <2>6 DEF Recorded, Current
  <2>8. \A v \in Open' : Recorded(tabs, v)'
    BY <2>2, <2>6 DEF ChainsRight, Recorded, Current
  <2>9. RecordsRight(tabs)' /\ ui'.left \subseteq tabs'
    BY <2>2, <2>6 DEF ChainsRight, RecordsRight
  <2>10. \A v \in Views : tab'[v] \in 0..opened' /\ (tab'[v] = Closed => on_update'[v] = Plain)
    BY <2>2, <2>3, <2>5 DEF ChainsRight, Open
  <2> QED
    BY <2>5, <2>6, <2>7, <2>8, <2>9, <2>10 DEF ChainsRight
<1>5. CASE Ask
  <2>1. /\ ui.at = "asking" /\ ui'.at = "installing" /\ ui'.left = ui.left
        /\ UNCHANGED <<tab, on_update, tabs, sentinel, opened>>
    BY <1>5 DEF Ask, Installing, cross_vars, counters
  <2> QED
    BY <2>1 DEF ChainsRight, RecordsRight, Recorded, Current, Open
<1>6. CASE Dispatched
  <2>1. /\ ui.at = "installing" /\ ui.left = {} /\ ui'.at = "idle"
        /\ UNCHANGED <<tab, on_update, tabs, sentinel, opened>>
    BY <1>6 DEF Dispatched, session_vars, cross_vars, counters, Resting
  <2> QED
    BY <2>1 DEF ChainsRight, RecordsRight, Recorded, Current, Open
<1>7. CASE Found \/ EndSession
  <2>1. /\ UNCHANGED <<tab, on_update, opened, tabs, sentinel>>
        /\ ui.at \in {"finding", "closing"} /\ ui'.at \in {"idle", "draining"}
    BY <1>7 DEF Found, EndSession, session_vars, cross_vars, counters, Resting, Closing
  <2> QED
    BY <2>1, ChainsRest
<1>8. CASE Destroy
  <2>1. /\ ui.at = "draining" /\ ui'.at = "idle" /\ ui.view \in Views
        /\ tab' = [tab EXCEPT ![ui.view] = Closed]
        /\ on_update' = [on_update EXCEPT ![ui.view] = Plain]
        /\ UNCHANGED <<tabs, sentinel, opened>>
    BY <1>8 DEF Destroy, cross_vars, counters, Resting, Inv, CallsName, Open
  <2>2. /\ tab'[ui.view] = Closed /\ on_update'[ui.view] = Plain
        /\ \A v \in Views \ {ui.view} : tab'[v] = tab[v] /\ on_update'[v] = on_update[v]
        /\ DOMAIN on_update' = Views
    BY <2>1 DEF ChainsRight, Inv, Shape
  <2>3. \A v \in Views : tab'[v] \in 0..opened' /\ (tab'[v] = Closed => on_update'[v] = Plain)
    BY <2>1, <2>2 DEF ChainsRight, Closed, Inv, Shape
  <2>4. RecordsRight(tabs)'
    BY <2>1 DEF ChainsRight, RecordsRight
  <2>5. ASSUME NEW v \in Open'
        PROVE  v \in Open /\ v # ui.view /\ (Recorded(tabs, v)' <=> Recorded(tabs, v))
    <3>1. v \in Open /\ v # ui.view
      BY <2>2, <2>5 DEF Open
    <3> QED
      BY <2>1, <2>2, <3>1 DEF Recorded, Current, Open
  <2> QED
    BY <2>1, <2>2, <2>3, <2>4, <2>5 DEF ChainsRight, Open
<1> QED
  BY <1>1, <1>2, <1>3, <1>4, <1>5, <1>6, <1>7, <1>8 DEF UIStep

LEMMA ChainsUICall == ASSUME Inv, ChainsRight, UICall PROVE ChainsRight'
<1> USE DEF Phases
<1>1. CASE OpenTab
  <2>1. PICK v \in Views \ Open : tab' = [tab EXCEPT ![v] = opened + 1]
    BY <1>1 DEF OpenTab
  <2>2. /\ ui.at = "idle" /\ opened' = opened + 1 /\ opened \in Nat
        /\ UNCHANGED <<on_update, tabs, sentinel, ui>>
    BY <1>1 DEF OpenTab, cross_vars, Resting, Inv, Shape
  <2>3. tab'[v] = opened + 1 /\ \A u \in Views \ {v} : tab'[u] = tab[u]
    BY <2>1 DEF Inv, Shape
  <2>4. on_update[v] = Plain
    BY DEF ChainsRight, Open
  <2>5. \A u \in Views : tab'[u] \in 0..opened' /\ (tab'[u] = Closed => on_update'[u] = Plain)
    BY <2>2, <2>3, <2>4 DEF ChainsRight
  <2>6. RecordsRight(tabs)'
    BY <2>2 DEF ChainsRight, RecordsRight
  <2>7. ~Recorded(tabs, v)'
    BY <2>2, <2>3 DEF ChainsRight, RecordsRight, Recorded, Current
  <2>8. ASSUME NEW u \in Open', u # v
        PROVE  u \in Open /\ (Recorded(tabs, u)' <=> Recorded(tabs, u))
    BY <2>2, <2>3, <2>8 DEF Open, Recorded, Current
  <2>9. \A u \in Open' : on_update'[u] = (IF Recorded(tabs, u) THEN <<sentinel>> ELSE Plain)'
    BY <2>2, <2>4, <2>7, <2>8 DEF ChainsRight
  <2> QED
    BY <2>2, <2>5, <2>6, <2>9 DEF ChainsRight
<1>2. CASE ShowPanel \/ HidePanel
  <2>1. UNCHANGED <<tab, on_update, tabs, sentinel, ui, opened>>
    BY <1>2 DEF ShowPanel, HidePanel, session_vars, cross_vars, counters
  <2> QED
    BY <2>1, ChainsSame
<1>3. CASE ClosePanel \/ \E q \in Queries \cup {NoQuery} : dispatch(q)
  <2>1. PICK next : clear(next)
    BY <1>3 DEF ClosePanel, dispatch
  <2>2. ui = Resting /\ UNCHANGED <<tab, on_update, opened>>
    BY <1>3 DEF ClosePanel, dispatch, session_vars, counters
  <2> QED
    BY <2>1, <2>2, ChainsCleared
<1>4. CASE \E v \in Views, q \in Queries \cup {NoQuery} : Find(v, q)
  <2>1. /\ ui.at = "idle" /\ ui'.at = "finding"
        /\ UNCHANGED <<tab, on_update, opened, tabs, sentinel>>
    BY <1>4 DEF Find, cross_vars, Resting
  <2> QED
    BY <2>1, ChainsRest
<1>5. CASE \E v \in Views : CloseTab(v)
  <2>1. ui = Resting /\ UNCHANGED <<tab, on_update, opened>>
    BY <1>5 DEF CloseTab, session_vars, counters
  <2>2. \/ \E next : clear(next)
        \/ UNCHANGED cross_vars /\ ui'.at = "closing"
    BY <1>5 DEF CloseTab, Closing
  <2>3. CASE UNCHANGED cross_vars /\ ui'.at = "closing"
    BY <2>1, <2>3, ChainsRest DEF cross_vars, Resting
  <2> QED
    BY <2>1, <2>2, <2>3, ChainsCleared
<1> QED
  BY <1>1, <1>2, <1>3, <1>4, <1>5 DEF UICall

LEMMA ChainsNext == Inv /\ ChainsRight /\ [Next]_vars => ChainsRight'
<1> SUFFICES ASSUME Inv, ChainsRight, [Next]_vars PROVE ChainsRight'
  OBVIOUS
<1>1. CASE ObserverStep \/ WorkerStep \/ UNCHANGED vars
  <2>1. UNCHANGED <<tab, on_update, tabs, sentinel, ui, opened>>
    BY <1>1 DEF ObserverStep, Lock, Read, Publish, WorkerStep, Scan, Land, DropStale, vars,
                session_vars, cross_vars, counters
  <2> QED
    BY <2>1, ChainsSame
<1>2. CASE UIStep \/ UICall
  BY <1>2, ChainsUIStep, ChainsUICall
<1> QED
  BY <1>1, <1>2 DEF Next, Wait, Undefined

\* What is found and listed is what there is to find; the list is of the live
\* dispatch; and the UI thread itself runs an observer only for a query that
\* was cleared, or when there are no pages.
DataSound ==
    /\ DOMAIN query = Views /\ DOMAIN found = Views
    /\ \A v \in Views : found[v] \subseteq Occurs /\ todo[v] \subseteq Pages
    /\ \A h \in hits : h.hit \in Occurs /\ h.state = sentinel
    /\ \A v \in Views : job[v].at \in Observing \cup {"scanning"} => Pages # {}
    /\ \A a \in Agents :
         /\ job[a].at = "reading" => job[a].page \in Nat /\ job[a].page >= 1
         /\ job[a].at \in {"reading", "publishing"} => job[a].fresh \subseteq Occurs
    /\ job[UI].at \in Observing => query[job[UI].view] = NoQuery \/ Pages = {}

LEMMA DataInit == Init => ChainsRight /\ DataSound
<1> SUFFICES ASSUME Init PROVE ChainsRight /\ DataSound
  OBVIOUS
<1>1. ChainsRight
  BY DEF Init, ChainsRight, RecordsRight, Open, Resting, Closed, Phases
<1>2. \A a \in Agents : job[a].at = "none"
  BY DEF Init, NoJob
<1>3. UI \in Agents /\ Views \subseteq Agents
  BY DEF Agents
<1>4. DataSound
  BY <1>2, <1>3 DEF Init, DataSound, Observing
<1> QED
  BY <1>1, <1>4

\* One job moves, and keeps to what there is.
LEMMA DataJob ==
    ASSUME Inv, DataSound, NEW a \in Agents, NEW j, job' = [job EXCEPT ![a] = j],
           UNCHANGED <<query, todo, sentinel>>,
           DOMAIN found' = Views, \A v \in Views : found'[v] \subseteq Occurs,
           \A h \in hits' : h.hit \in Occurs /\ h.state = sentinel,
           j.at \in Observing \cup {"scanning"} =>
              Pages # {} \/ (a = UI /\ job[a].at \in Observing /\ j.view = job[a].view),
           a = UI /\ j.at \in Observing =>
              job[a].at \in Observing /\ j.view = job[a].view,
           j.at = "reading" => j.page \in Nat /\ j.page >= 1,
           j.at \in {"reading", "publishing"} => j.fresh \subseteq Occurs
    PROVE  DataSound'
<1>1. job'[a] = j /\ \A b \in Agents \ {a} : job'[b] = job[b]
  BY DEF Inv, Shape
<1>2. UI \in Agents /\ Views \subseteq Agents /\ UI \notin Views
  BY UINotAView DEF Agents
<1>3. \A v \in Views : job'[v].at \in Observing \cup {"scanning"} => Pages # {}
  BY <1>1, <1>2 DEF DataSound
<1>4. \A b \in Agents :
         /\ job'[b].at = "reading" => job'[b].page \in Nat /\ job'[b].page >= 1
         /\ job'[b].at \in {"reading", "publishing"} => job'[b].fresh \subseteq Occurs
  BY <1>1 DEF DataSound
<1>5. job'[UI].at \in Observing => query'[job'[UI].view] = NoQuery \/ Pages = {}
  BY <1>1, <1>2 DEF DataSound
<1> QED
  BY <1>3, <1>4, <1>5 DEF DataSound

LEMMA DataObserver ==
    ASSUME Inv, DataSound, NEW a \in Agents, Lock(a) \/ Read(a) \/ Publish(a)
    PROVE  DataSound'
<1>1. UNCHANGED <<query, todo, sentinel, found>> /\ job[a].at \in Observing
  BY DEF Lock, Read, Publish, session_vars, cross_vars, Observing
<1>2. DOMAIN found' = Views /\ \A v \in Views : found'[v] \subseteq Occurs
  BY <1>1 DEF DataSound
<1>3. a # UI => Pages # {}
  BY <1>1 DEF DataSound, Agents
<1>4. CASE Lock(a)
  <2> DEFINE j == IF job[a].chain = sentinel \/ job[a].chain \in Held
                  THEN Collecting("reading", job[a], 1, {}) ELSE NoJob
  <2>1. job' = [job EXCEPT ![a] = j] /\ hits' = hits
    BY <1>4 DEF Lock, cross_vars
  <2>2. /\ j.at \in {"reading", "none"}
        /\ j.at = "reading" => j.page = 1 /\ j.fresh = {} /\ j.view = job[a].view
    BY DEF Collecting, NoJob
  <2> HIDE DEF j
  <2>3. \A h \in hits' : h.hit \in Occurs /\ h.state = sentinel
    BY <1>1, <2>1 DEF DataSound
  <2>4. /\ j.at = "reading" => j.page \in Nat /\ j.page >= 1 /\ j.fresh \subseteq Occurs
        /\ j.at \in Observing \cup {"scanning"} => j.view = job[a].view
    BY <2>2 DEF Observing
  <2> QED
    BY <1>1, <1>2, <1>3, <2>1, <2>2, <2>3, <2>4, DataJob
<1>5. CASE Read(a)
  <2> DEFINE j == IF job[a].page \in Pages
                  THEN Collecting("reading", job[a], job[a].page + 1,
                         job[a].fresh \cup {h \in found[job[a].view] : h[2] = job[a].page})
                  ELSE Collecting("publishing", job[a], job[a].page, job[a].fresh)
  <2>1. job' = [job EXCEPT ![a] = j] /\ hits' = hits /\ job[a].at = "reading"
    BY <1>5 DEF Read, cross_vars
  <2>2. job[a].view \in Views
    BY <1>1 DEF Inv, WorkersAtHome, UIAtHome, Agents, Open
  <2>3. /\ j.at \in {"reading", "publishing"} /\ j.view = job[a].view
        /\ j.at = "reading" => j.page = job[a].page + 1
        /\ j.fresh \subseteq job[a].fresh \cup found[job[a].view]
    BY DEF Collecting
  <2>4. j.fresh \subseteq Occurs /\ job[a].page \in Nat /\ job[a].page >= 1
    BY <2>1, <2>2, <2>3 DEF DataSound
  <2> HIDE DEF j
  <2>5. \A h \in hits' : h.hit \in Occurs /\ h.state = sentinel
    BY <1>1, <2>1 DEF DataSound
  <2>6. /\ j.at = "reading" => j.page \in Nat /\ j.page >= 1
        /\ j.at \in Observing \cup {"scanning"} => j.view = job[a].view
    BY <2>3, <2>4 
  <2> QED
    BY <1>1, <1>2, <1>3, <2>1, <2>4, <2>5, <2>6, DataJob
<1>6. CASE Publish(a)
  <2>1. job' = [job EXCEPT ![a] = NoJob] /\ job[a].fresh \subseteq Occurs
    BY <1>6 DEF Publish, DataSound
  <2>2. \A h \in hits' : h.hit \in Occurs /\ h.state = sentinel
    BY <1>6, <2>1 DEF Publish, DataSound, StillLive
  <2>3. NoJob.at = "none"
    BY DEF NoJob
  <2> QED
    BY <1>1, <1>2, <2>1, <2>2, <2>3, DataJob DEF Observing
<1> QED
  BY <1>4, <1>5, <1>6

LEMMA DataWorker ==
    ASSUME Inv, DataSound, NEW v \in Views, Scan(v) \/ Land(v) \/ DropStale(v)
    PROVE  DataSound'
<1>1. v \in Agents /\ v # UI /\ UNCHANGED <<query, sentinel, hits>>
  BY UINotAView DEF Agents, Scan, Land, DropStale, session_vars, cross_vars
<1>2. \A h \in hits' : h.hit \in Occurs /\ h.state = sentinel
  BY <1>1 DEF DataSound
<1>3. CASE Scan(v)
  <2>1. PICK p \in todo[v] : /\ todo' = [todo EXCEPT ![v] = @ \ {p}]
                             /\ job' = [job EXCEPT ![v] = [at |-> "scanning", page |-> p]]
    BY <1>3 DEF Scan
  <2>2. Pages # {} /\ \A w \in Views : todo'[w] \subseteq Pages
    BY <2>1 DEF DataSound, Inv, Shape
  <2>3. job'[v].at = "scanning" /\ \A b \in Agents \ {v} : job'[b] = job[b]
    BY <1>1, <2>1 DEF Inv, Shape
  <2>4. UNCHANGED found
    BY <1>3 DEF Scan
  <2> QED
    BY <1>1, <2>2, <2>3, <2>4 DEF DataSound, Observing, Agents
<1>4. CASE Land(v)
  <2> DEFINE j == Calling(v, on_update[v])
  <2>1. /\ job' = [job EXCEPT ![v] = j] /\ todo' = todo /\ job[v].at = "scanning"
        /\ found' = [found EXCEPT ![v] = @ \cup ({<<query[v], job[v].page>>} \cap Occurs)]
    BY <1>4 DEF Land
  <2>2. DOMAIN found' = Views /\ \A w \in Views : found'[w] \subseteq Occurs
    BY <2>1 DEF DataSound
  <2>3. j.at \in {"none", "called"} /\ Pages # {}
    BY <2>1 DEF Calling, NoJob, DataSound
  <2> HIDE DEF j
  <2> QED
    BY <1>1, <1>2, <2>1, <2>2, <2>3, DataJob
<1>5. CASE DropStale(v)
  <2>1. /\ job' = [job EXCEPT ![v] = NoJob] /\ UNCHANGED <<todo, found>>
    BY <1>5 DEF DropStale, session_vars
  <2>2. NoJob.at = "none"
    BY DEF NoJob
  <2> QED
    BY <1>1, <1>2, <2>1, <2>2, DataJob DEF DataSound, Observing
<1> QED
  BY <1>3, <1>4, <1>5

LEMMA DataQuery ==
    ASSUME Inv, DataSound, NEW v \in Views, NEW q, set_query(v, q), UNCHANGED <<hits, sentinel>>
    PROVE  DataSound'
<1>1. /\ DOMAIN query' = Views /\ query'[v] = q
      /\ DOMAIN found' = Views /\ found'[v] = {} /\ \A w \in Views \ {v} : found'[w] = found[w]
      /\ todo'[v] \subseteq Pages /\ \A w \in Views \ {v} : todo'[w] = todo[w]
  BY DEF set_query, DataSound, Inv, Shape
<1>2. UI \in Agents /\ Views \subseteq Agents /\ UI \notin Views
  BY UINotAView DEF Agents
<1>3. /\ job'[v] = job[v] \/ job'[v].at = "stale"
      /\ \A w \in Views \ {v} : job'[w] = job[w]
      /\ job'[UI] = IF q = NoQuery \/ Pages = {} THEN Calling(v, on_update[v]) ELSE NoJob
  BY <1>2 DEF set_query, Superseded, Inv, Shape
<1>4. /\ job'[UI].at \in {"none", "called"}
      /\ job'[UI].at = "called" => job'[UI].view = v /\ (q = NoQuery \/ Pages = {})
  BY <1>3 DEF Calling, NoJob
<1>5. \A w \in Views : job'[w] = job[w] \/ job'[w].at = "stale"
  BY <1>3
<1>6. \A w \in Views : job'[w].at \in Observing \cup {"scanning"} => Pages # {}
  BY <1>5 DEF DataSound, Observing
<1>7. \A a \in Agents :
        /\ job'[a].at = "reading" => job'[a].page \in Nat /\ job'[a].page >= 1
        /\ job'[a].at \in {"reading", "publishing"} => job'[a].fresh \subseteq Occurs
  BY <1>4, <1>5 DEF DataSound, Agents
<1>8. job'[UI].at \in Observing => query'[job'[UI].view] = NoQuery \/ Pages = {}
  BY <1>1, <1>4 DEF Observing
<1>9. \A w \in Views : found'[w] \subseteq Occurs /\ todo'[w] \subseteq Pages
  BY <1>1 DEF DataSound
<1> QED
  BY <1>1, <1>6, <1>7, <1>8, <1>9 DEF DataSound

\* A step of the UI thread that asks nothing of a session.
LEMMA DataSame ==
    ASSUME DataSound, UNCHANGED <<query, found, todo, job>>,
           hits' = {} \/ (hits' = hits /\ sentinel' = sentinel)
    PROVE  DataSound'
BY DEF DataSound

LEMMA DataNext == Inv /\ DataSound /\ [Next]_vars => DataSound'
<1> SUFFICES ASSUME Inv, DataSound, [Next]_vars PROVE DataSound'
  OBVIOUS
<1>1. CASE ObserverStep \/ WorkerStep
  BY <1>1, DataObserver, DataWorker DEF ObserverStep, WorkerStep
<1>2. CASE Restore \/ Cleared \/ Capture \/ Install \/ Dispatched \/ Found \/ OpenTab
           \/ ShowPanel \/ HidePanel \/ ClosePanel \/ UNCHANGED vars
           \/ (\E q \in Queries \cup {NoQuery} : dispatch(q)) \/ \E v \in Views : CloseTab(v)
  <2>1. /\ UNCHANGED <<query, found, todo, job>>
        /\ hits' = {} \/ (hits' = hits /\ sentinel' = sentinel)
    BY <1>2 DEF Restore, Cleared, Capture, Install, Dispatched, Found, OpenTab, ShowPanel,
                HidePanel, ClosePanel, dispatch, CloseTab, clear, session_vars, cross_vars, vars
  <2> QED
    BY <2>1, DataSame
<1>3. CASE Ask
  BY <1>3, DataQuery DEF Ask, Inv, CallsName, Open, cross_vars
<1>4. CASE \E v \in Views, q \in Queries \cup {NoQuery} : Find(v, q)
  BY <1>4, DataQuery DEF Find, cross_vars
<1>5. CASE EndSession
  <2>1. /\ ui.view \in Views /\ UNCHANGED <<query, found, hits, sentinel>>
        /\ todo' = [todo EXCEPT ![ui.view] = {}]
        /\ job' = [job EXCEPT ![ui.view] = Superseded(ui.view)]
    BY <1>5 DEF EndSession, cross_vars, Inv, CallsName, Open
  <2>2. \A w \in Views : todo'[w] \subseteq Pages
    BY <2>1 DEF DataSound, Inv, Shape
  <2>3. job'[UI] = job[UI] /\ \A w \in Views : job'[w] = job[w] \/ job'[w].at = "stale"
    BY <2>1, UINotAView DEF Inv, Shape, Superseded, Agents
  <2> QED
    BY <2>1, <2>2, <2>3 DEF DataSound, Observing, Agents
<1>6. CASE Destroy
  <2>1. /\ ui.view \in Views /\ UNCHANGED <<todo, job, hits, sentinel>>
        /\ query' = [query EXCEPT ![ui.view] = NoQuery]
        /\ found' = [found EXCEPT ![ui.view] = {}]
    BY <1>6 DEF Destroy, cross_vars, Inv, CallsName, Open
  <2>2. /\ DOMAIN found' = Views /\ DOMAIN query' = Views
        /\ \A w \in Views : found'[w] \subseteq Occurs
        /\ \A w : query[w] = NoQuery /\ w \in Views => query'[w] = NoQuery
    BY <2>1 DEF DataSound
  <2>3. job[UI].at \in Observing => job[UI].view \in Views
    BY DEF Inv, UIAtHome, Open
  <2> QED
    BY <2>1, <2>2, <2>3 DEF DataSound
<1> QED
  BY <1>1, <1>2, <1>3, <1>4, <1>5, <1>6 DEF Next, Wait, Undefined, UIStep, UICall

\* What the list has of a view, and the views that the live dispatch has asked
\* and that are not on their way out.
Shown(v) == {h.hit : h \in {g \in hits : g.view = v}}

Asked(v) ==
    /\ Recorded(tabs, v)
    /\ ui.at \in {"installing", "asking"} => ~\E rec \in ui.left : rec.view = v
    /\ ui.at \in {"asking", "draining"} => ui.view # v

\* The list will have the view's hits: a scan is to come, whose observer reads
\* all pages again, or the live dispatch's observer has read so far what there
\* is to read.
Coming(v) ==
    \/ todo[v] # {}
    \/ job[v].at = "scanning"
    \/ job[v].at = "called" /\ job[v].chain = sentinel
    \/ /\ job[v].at = "reading" /\ job[v].chain = sentinel
       /\ job[v].fresh = {h \in found[v] : h[2] < job[v].page}
    \/ job[v].at = "publishing" /\ job[v].chain = sentinel /\ job[v].fresh = found[v]

\* The list has them, and nothing of the live dispatch is under way.
Here(v) ==
    /\ Shown(v) = found[v]
    /\ job[v].at \in Observing => job[v].chain # sentinel

ListCurrent == \A v \in Open : Asked(v) /\ query[v] # NoQuery => Coming(v) \/ Here(v)

\* Nothing of the view's moves, and it was asked already.
LEMMA ViewSame ==
    ASSUME ListCurrent, NEW v \in Open, Asked(v), query'[v] # NoQuery,
           query'[v] = query[v], found'[v] = found[v], todo'[v] = todo[v], job'[v] = job[v],
           sentinel' = sentinel, Shown(v)' = Shown(v)
    PROVE  (Coming(v) \/ Here(v))'
BY DEF ListCurrent, Coming, Here

\* Without pages there is nothing to be wrong about.
LEMMA NoPages ==
    ASSUME DataSound', Pages = {}, NEW v \in Views
    PROVE  Here(v)'
<1>1. Occurs = {}
  BY CrossTabConstants DEF CrossTabConstants
<1>2. hits' = {} /\ found'[v] = {}
  BY <1>1 DEF DataSound
<1>3. job'[v].at \notin Observing
  BY DEF DataSound
<1> QED
  BY <1>2, <1>3 DEF Here, Shown

\* A view that is asked has the live dispatch in front.
LEMMA AskedChain ==
    ASSUME ChainsRight, ui.at # "undefined", NEW v \in Open, Asked(v)
    PROVE  on_update[v] = <<sentinel>>
<1>1. Recorded(tabs, v) /\ tabs # {}
  BY DEF Asked, Recorded
<1>2. ui.at \in {"installing", "asking", "idle", "finding", "closing", "draining"}
  BY <1>1 DEF ChainsRight, Phases
<1>3. CASE ui.at \in {"installing", "asking"}
  <2>1. ~Recorded(ui.left, v)
    BY <1>3 DEF Asked, Recorded
  <2> QED
    BY <1>3, <2>1 DEF ChainsRight
<1> QED
  BY <1>1, <1>2, <1>3 DEF ChainsRight

\* A step of an observer or a worker, seen from a view that it is not of.
LEMMA ElseWhere ==
    ASSUME Inv, DataSound', ListCurrent, NEW a \in Agents, NEW j,
           job' = [job EXCEPT ![a] = j],
           UNCHANGED <<query, tab, tabs, sentinel, ui>>,
           NEW v \in Open, v # a, found'[v] = found[v], todo'[v] = todo[v],
           Shown(v)' = Shown(v), Asked(v)', query'[v] # NoQuery
    PROVE  (Coming(v) \/ Here(v))'
<1>1. job'[v] = job[v]
  BY DEF Inv, Shape, Open, Agents
<1>2. Asked(v)
  BY DEF Asked, Recorded, Current
<1> QED
  BY <1>1, <1>2, ViewSame

LEMMA ListObserver ==
    ASSUME Inv, ChainsRight, DataSound, DataSound', ListCurrent, NEW a \in Agents,
           Lock(a) \/ Read(a) \/ Publish(a)
    PROVE  ListCurrent'
<1>1. /\ UNCHANGED <<query, found, todo, tab, tabs, sentinel, ui>> /\ job[a].at \in Observing
      /\ \E j : job' = [job EXCEPT ![a] = j]
  BY DEF Lock, Read, Publish, session_vars, cross_vars, Observing
<1>2. job[a].view = IF a = UI THEN job[a].view ELSE a
  BY <1>1 DEF Inv, WorkersAtHome, Agents
<1>3. ASSUME NEW v \in Views, v # job[a].view
      PROVE  Shown(v)' = Shown(v)
  <2>1. CASE Publish(a)
    BY <2>1, <1>3 DEF Publish, Shown, StillLive
  <2>2. CASE Lock(a) \/ Read(a)
    BY <2>2 DEF Lock, Read, cross_vars, Shown
  <2> QED
    BY <2>1, <2>2
<1> SUFFICES ASSUME NEW v \in Open, Asked(v), query[v] # NoQuery
             PROVE  (Coming(v) \/ Here(v))'
  BY <1>1 DEF ListCurrent, Open, Asked, Recorded, Current
<1>4. v \in Views /\ v # UI /\ v \in Agents /\ (Asked(v))' /\ query'[v] # NoQuery
  BY <1>1, UINotAView DEF Open, Agents, Asked, Recorded, Current
<1>5. CASE a = UI
  <2>1. CASE v # job[a].view
    BY <1>1, <1>3, <1>4, <1>5, <2>1, ElseWhere
  <2>2. CASE v = job[a].view
    <3>1. Pages = {}
      BY <1>1, <1>5, <2>2 DEF DataSound
    <3> QED
      BY <1>4, <3>1, NoPages
  <2> QED
    BY <2>1, <2>2
<1>6. CASE a # UI /\ a # v
  BY <1>1, <1>2, <1>3, <1>4, <1>6, ElseWhere
<1>7. CASE a = v
  <2>0. todo[v] # {} => Coming(v)'
    BY <1>1 DEF Coming
  <2> SUFFICES ASSUME todo[v] = {} PROVE (Coming(v) \/ Here(v))'
    BY <2>0
  <2>1. Coming(v) \/ Here(v)
    BY DEF ListCurrent
  <2>2. found[v] \subseteq Occurs
    BY <1>4 DEF DataSound
  <2>3. \A h \in found[v] : h[2] \in 1..PageCount
    BY <2>2, CrossTabConstants DEF CrossTabConstants, Pages
  <2>4. PageCount \in Nat
    BY CrossTabConstants DEF CrossTabConstants
  <2>5. CASE Lock(v)
    <3>1. job[v].at = "called" /\ UNCHANGED hits
          /\ job'[v] = IF job[v].chain = sentinel \/ job[v].chain \in Held
                       THEN Collecting("reading", job[v], 1, {}) ELSE NoJob
      BY <1>4, <2>5 DEF Lock, cross_vars, Inv, Shape
    <3>2. CASE job[v].chain = sentinel
      <4>1. {h \in found[v] : h[2] < 1} = {}
        BY <2>3
      <4>2. /\ job'[v].at = "reading" /\ job'[v].chain = sentinel' /\ job'[v].page = 1
            /\ job'[v].fresh = {}
        BY <1>1, <3>1, <3>2 DEF Collecting
      <4>3. {h \in found'[v] : h[2] < job'[v].page} = {}
        BY <1>1, <4>1, <4>2
      <4> QED
        BY <4>2, <4>3 DEF Coming
    <3>3. CASE job[v].chain # sentinel
      <4>1. Here(v)
        BY <2>1, <3>1, <3>3 DEF Coming
      <4>2. job'[v].at \in Observing => job'[v].chain = job[v].chain
        BY <3>1 DEF Collecting, NoJob, Observing
      <4> QED
        BY <1>1, <3>1, <3>3, <4>1, <4>2 DEF Here, Shown
    <3> QED
      BY <3>2, <3>3
  <2>6. CASE Read(v)
    <3> DEFINE j == job[v]
               more == j.fresh \cup {h \in found[j.view] : h[2] = j.page}
    <3>1. /\ j.at = "reading" /\ UNCHANGED hits /\ j.view = v
          /\ job'[v] = IF j.page \in Pages THEN Collecting("reading", j, j.page + 1, more)
                       ELSE Collecting("publishing", j, j.page, j.fresh)
      BY <1>2, <1>4, <1>7, <2>6 DEF Read, cross_vars, Inv, Shape
    <3>2. job'[v].chain = j.chain /\ job'[v].at \in {"reading", "publishing"}
      BY <3>1 DEF Collecting
    <3>3. CASE Here(v)
      BY <1>1, <3>1, <3>2, <3>3 DEF Here, Shown, Observing
    <3>4. CASE Coming(v)
      <4>1. j.chain = sentinel /\ j.fresh = {h \in found[v] : h[2] < j.page}
        BY <3>1, <3>4 DEF Coming
      <4>2. j.page \in Nat /\ j.page >= 1
        BY <1>4, <3>1 DEF DataSound
      <4>3. CASE j.page \in Pages
        <5>1. job'[v].at = "reading" /\ job'[v].page = j.page + 1 /\ job'[v].fresh = more
          BY <3>1, <4>3 DEF Collecting
        <5>2. more = {h \in found[v] : h[2] < j.page + 1}
          <6>1. \A h \in found[v] : h[2] < j.page + 1 <=> h[2] < j.page \/ h[2] = j.page
            BY <2>3, <4>2
          <6> QED
            BY <3>1, <4>1, <6>1
        <5>3. job'[v].fresh = {h \in found'[v] : h[2] < job'[v].page}
          BY <1>1, <5>1, <5>2
        <5> QED
          BY <1>1, <3>2, <4>1, <5>1, <5>3 DEF Coming
      <4>4. CASE j.page \notin Pages
        <5>1. job'[v].at = "publishing" /\ job'[v].fresh = j.fresh
          BY <3>1, <4>4 DEF Collecting
        <5>2. \A h \in found[v] : h[2] < j.page
          BY <2>3, <2>4, <4>2, <4>4 DEF Pages
        <5>3. job'[v].fresh = found[v]
          BY <4>1, <5>1, <5>2
        <5> QED
          BY <1>1, <3>2, <4>1, <5>1, <5>3 DEF Coming
      <4> QED
        BY <4>3, <4>4
    <3> QED
      BY <2>1, <3>3, <3>4
  <2>7. CASE Publish(v)
    <3>1. job[v].at = "publishing" /\ job'[v] = NoJob /\ job[v].view = v
      BY <1>2, <1>4, <1>7, <2>7 DEF Publish, Inv, Shape
    <3>2. job'[v].at \notin Observing
      BY <3>1 DEF NoJob, Observing
    <3>3. CASE Here(v)
      <4>1. hits' = hits
        BY <2>7, <3>1, <3>3 DEF Here, Publish, StillLive, Observing
      <4> QED
        BY <1>1, <3>2, <3>3, <4>1 DEF Here, Shown
    <3>4. CASE Coming(v)
      <4>1. job[v].chain = sentinel /\ job[v].fresh = found[v]
        BY <3>1, <3>4 DEF Coming
      <4>2. hits' = {h \in hits : h.view # v} \cup
                    {[view |-> v, state |-> job[v].chain, hit |-> f] : f \in found[v]}
        BY <2>7, <3>1, <4>1 DEF Publish, StillLive
      <4>3. \A g \in hits' : g.view = v => g.hit \in found[v]
        BY <4>2
      <4>4. ASSUME NEW f \in found[v] PROVE \E g \in hits' : g.view = v /\ g.hit = f
        <5>1. PICK g : g = [view |-> v, state |-> job[v].chain, hit |-> f]
          OBVIOUS
        <5>2. g \in {[view |-> v, state |-> job[v].chain, hit |-> e] : e \in found[v]}
          BY <4>4, <5>1, Zenon
        <5>3. g \in hits' /\ g.view = v /\ g.hit = f
          BY <4>2, <5>1, <5>2
        <5> QED
          BY <5>3
      <4>5. Shown(v)' = found[v]
        BY <4>3, <4>4 DEF Shown
      <4> QED
        BY <1>1, <3>2, <4>5 DEF Here
    <3> QED
      BY <2>1, <3>3, <3>4
  <2> QED
    BY <1>7, <2>5, <2>6, <2>7
<1> QED
  BY <1>5, <1>6, <1>7

LEMMA ListWorker ==
    ASSUME Inv, ChainsRight, DataSound, DataSound', ListCurrent, ui.at # "undefined",
           NEW w \in Views, Scan(w) \/ Land(w) \/ DropStale(w)
    PROVE  ListCurrent'
<1>1. /\ UNCHANGED <<query, tab, tabs, sentinel, ui, hits>>
      /\ w \in Agents /\ (\E j : job' = [job EXCEPT ![w] = j])
      /\ \A v \in Views \ {w} : found'[v] = found[v] /\ todo'[v] = todo[v]
  BY DEF Scan, Land, DropStale, session_vars, cross_vars, Agents, Inv, Shape, DataSound
<1> SUFFICES ASSUME NEW v \in Open, Asked(v), query[v] # NoQuery
             PROVE  (Coming(v) \/ Here(v))'
  BY <1>1 DEF ListCurrent, Open, Asked, Recorded, Current
<1>2. v \in Views /\ (Asked(v))' /\ query'[v] # NoQuery /\ Shown(v)' = Shown(v)
  BY <1>1 DEF Open, Asked, Recorded, Current, Shown
<1>3. CASE v # w
  BY <1>1, <1>2, <1>3, ElseWhere
<1>4. CASE v = w /\ Scan(v)
  <2>1. job'[v].at = "scanning"
    BY <1>2, <1>4 DEF Scan, Inv, Shape, Agents
  <2> QED
    BY <2>1 DEF Coming
<1>5. CASE v = w /\ Land(v)
  <2>1. job'[v] = Calling(v, on_update[v])
    BY <1>2, <1>5 DEF Land, Inv, Shape, Agents
  <2>2. on_update[v] = <<sentinel>>
    BY AskedChain
  <2>3. job'[v].at = "called" /\ job'[v].chain = sentinel
    BY <2>1, <2>2 DEF Calling, Plain
  <2> QED
    BY <1>1, <2>3 DEF Coming
<1>6. CASE v = w /\ DropStale(v)
  <2>1. job[v].at = "stale" /\ job'[v] = NoJob /\ UNCHANGED <<found, todo>>
    BY <1>2, <1>6 DEF DropStale, session_vars, Inv, Shape, Agents
  <2>2. todo[v] # {} \/ Shown(v) = found[v]
    BY <2>1 DEF ListCurrent, Coming, Here
  <2>3. job'[v].at \notin Observing
    BY <2>1 DEF NoJob, Observing
  <2> QED
    BY <1>2, <2>1, <2>2, <2>3 DEF Coming, Here
<1> QED
  BY <1>3, <1>4, <1>5, <1>6

\* A query asked of a view leaves the others alone, and asks all pages of it.
LEMMA ListQuery ==
    ASSUME Inv, DataSound, DataSound', ListCurrent, NEW w \in Open, NEW q, set_query(w, q),
           UNCHANGED <<tab, tabs, sentinel, hits>>,
           \A v \in Open \ {w} : Asked(v)' => Asked(v)
    PROVE  ListCurrent'
<1> SUFFICES ASSUME NEW v \in Open, (Asked(v))', query'[v] # NoQuery
             PROVE  (Coming(v) \/ Here(v))'
  BY DEF ListCurrent, Open
<1>1. v \in Views /\ w \in Views /\ v # UI /\ v \in Agents /\ UI \in Agents
  BY UINotAView DEF Open, Agents
<1>2. CASE Pages = {}
  BY <1>1, <1>2, NoPages
<1>3. CASE v = w /\ Pages # {}
  <2>1. query'[v] = q /\ todo'[v] = IF q = NoQuery THEN {} ELSE Pages
    BY <1>1, <1>3 DEF set_query, Inv, Shape, DataSound
  <2> QED
    BY <1>3, <2>1 DEF Coming
<1>4. CASE v # w
  <2>1. query'[v] = query[v] /\ found'[v] = found[v] /\ todo'[v] = todo[v] /\ job'[v] = job[v]
    BY <1>1, <1>4 DEF set_query, Inv, Shape, DataSound
  <2>2. Asked(v) /\ Shown(v)' = Shown(v)
    BY <1>4 DEF Shown
  <2> QED
    BY <2>1, <2>2, ViewSame
<1> QED
  BY <1>2, <1>3, <1>4

\* The UI thread moves on, and no view is asked that was not.
LEMMA ListSame ==
    ASSUME ListCurrent, UNCHANGED <<query, found, todo, job, sentinel, hits>>,
           \A v \in Open' : Asked(v)' => v \in Open /\ Asked(v)
    PROVE  ListCurrent'
<1> SUFFICES ASSUME NEW v \in Open', (Asked(v))', query'[v] # NoQuery
             PROVE  (Coming(v) \/ Here(v))'
  BY DEF ListCurrent
<1>1. v \in Open /\ Asked(v) /\ Shown(v)' = Shown(v)
  BY DEF Shown
<1> QED
  BY <1>1, ViewSame

\* No view is asked.
LEMMA ListNone ==
    ASSUME \A v \in Open' : ~Asked(v)'
    PROVE  ListCurrent'
BY DEF ListCurrent

LEMMA ListUIStep ==
    ASSUME Inv, ChainsRight, DataSound, DataSound', ChainsRight', ListCurrent, UIStep
    PROVE  ListCurrent'
<1>1. CASE Restore \/ Cleared
  <2>1. tabs' = {} \/ (ui.at = "restoring" /\ tabs = {} /\ tabs' = tabs)
    BY <1>1 DEF Restore, Cleared, cross_vars, ChainsRight
  <2> QED
    BY <2>1, ListNone DEF Asked, Recorded
<1>2. CASE Capture
  <2>1. ui'.at = "installing" /\ ui'.left = tabs'
    BY <1>2 DEF Capture, Installing
  <2> QED
    BY <2>1, ListNone DEF Asked, Recorded
<1>3. CASE Install
  <2>1. PICK rec \in ui.left : ui' = [at |-> "asking", query |-> ui.query, left |-> ui.left \ {rec}, view |-> rec.view]
    BY <1>3 DEF Install
  <2>2. ui.at = "installing" /\ UNCHANGED <<tab, query, found, todo, job, tabs, sentinel, hits>>
    BY <1>3 DEF Install, cross_vars
  <2>3. ui'.at = "asking" /\ ui'.left = ui.left \ {rec} /\ ui'.view = rec.view
    BY <2>1
  <2>4. \A v \in Open' : Asked(v)' => v \in Open /\ Asked(v)
    <3> SUFFICES ASSUME NEW v \in Open', (Asked(v))'
                 PROVE  v \in Open /\ Asked(v)
      OBVIOUS
    <3>1. v # rec.view /\ ~\E r \in ui.left \ {rec} : r.view = v
      BY <2>3 DEF Asked
    <3> QED
      BY <2>2, <3>1 DEF Asked, Recorded, Current, Open
  <2> QED
    BY <2>2, <2>4, ListSame
<1>4. CASE Ask
  <2>1. /\ ui.at = "asking" /\ ui.view \in Open /\ set_query(ui.view, ui.query)
        /\ ui'.at = "installing" /\ ui'.left = ui.left
        /\ UNCHANGED <<tab, tabs, sentinel, hits>>
    BY <1>4 DEF Ask, Installing, cross_vars, Inv, CallsName
  <2>2. \A v \in Open \ {ui.view} : Asked(v)' => Asked(v)
    BY <2>1 DEF Asked, Recorded, Current
  <2> QED
    BY <2>1, <2>2, ListQuery
<1>5. CASE Dispatched \/ Found
  <2>1. /\ UNCHANGED <<tab, tabs, query, found, todo, job, sentinel, hits>>
        /\ (ui.at = "installing" /\ ui.left = {}) \/ ui.at = "finding"
    BY <1>5 DEF Dispatched, Found, session_vars, cross_vars
  <2>2. \A v \in Open' : Asked(v)' => v \in Open /\ Asked(v)
    BY <2>1 DEF Asked, Recorded, Current, Open
  <2> QED
    BY <2>1, <2>2, ListSame
<1>6. CASE EndSession
  <2>1. /\ ui.at = "closing" /\ ui.view \in Views
        /\ ui'.at = "draining" /\ ui'.view = ui.view
        /\ todo' = [todo EXCEPT ![ui.view] = {}]
        /\ job' = [job EXCEPT ![ui.view] = Superseded(ui.view)]
        /\ UNCHANGED <<tab, tabs, query, found, sentinel, hits>>
    BY <1>6 DEF EndSession, Closing, cross_vars, Inv, CallsName, Open
  <2> SUFFICES ASSUME NEW v \in Open, (Asked(v))', query'[v] # NoQuery
               PROVE  (Coming(v) \/ Here(v))'
    BY <2>1 DEF ListCurrent, Open
  <2>2. v # ui.view /\ Asked(v) /\ Shown(v)' = Shown(v)
    BY <2>1 DEF Asked, Recorded, Current, Shown
  <2>3. todo'[v] = todo[v] /\ job'[v] = job[v]
    BY <2>1, <2>2 DEF Inv, Shape, Open, Agents
  <2> QED
    BY <2>1, <2>2, <2>3, ViewSame
<1>7. CASE Destroy
  <2>1. /\ ui.at = "draining" /\ ui.view \in Views /\ ui' = Resting
        /\ tab' = [tab EXCEPT ![ui.view] = Closed]
        /\ query' = [query EXCEPT ![ui.view] = NoQuery]
        /\ found' = [found EXCEPT ![ui.view] = {}]
        /\ UNCHANGED <<tabs, todo, job, sentinel, hits>>
    BY <1>7 DEF Destroy, cross_vars, Inv, CallsName, Open
  <2> SUFFICES ASSUME NEW v \in Open', (Asked(v))', query'[v] # NoQuery
               PROVE  (Coming(v) \/ Here(v))'
    BY DEF ListCurrent
  <2>2. v # ui.view /\ v \in Open /\ tab'[v] = tab[v] /\ query'[v] = query[v] /\ found'[v] = found[v]
    BY <2>1 DEF Open, Inv, Shape, DataSound
  <2>3. Asked(v) /\ Shown(v)' = Shown(v)
    BY <2>1, <2>2 DEF Asked, Recorded, Current, Shown
  <2> QED
    BY <2>1, <2>2, <2>3, ViewSame
<1> QED
  BY <1>1, <1>2, <1>3, <1>4, <1>5, <1>6, <1>7 DEF UIStep

LEMMA ListUICall ==
    ASSUME Inv, ChainsRight, DataSound, DataSound', ListCurrent, UICall
    PROVE  ListCurrent'
<1>1. CASE OpenTab
  <2>1. PICK w \in Views \ Open : tab' = [tab EXCEPT ![w] = opened + 1]
    BY <1>1 DEF OpenTab
  <2>2. /\ opened \in Nat /\ ui.at = "idle"
        /\ UNCHANGED <<query, found, todo, job, tabs, sentinel, hits, ui>>
    BY <1>1 DEF OpenTab, cross_vars, Inv, Shape, Resting
  <2>3. tab'[w] = opened + 1 /\ \A u \in Views \ {w} : tab'[u] = tab[u]
    BY <2>1 DEF Inv, Shape
  <2>4. ~Recorded(tabs, w)'
    BY <2>2, <2>3 DEF ChainsRight, RecordsRight, Recorded, Current
  <2>5. \A v \in Open' : Asked(v)' => v \in Open /\ Asked(v)
    <3> SUFFICES ASSUME NEW v \in Open', (Asked(v))'
                 PROVE  v \in Open /\ Asked(v)
      OBVIOUS
    <3>1. v # w /\ v \in Views
      BY <2>4 DEF Asked, Open
    <3> QED
      BY <2>2, <2>3, <3>1 DEF Asked, Recorded, Current, Open
  <2> QED
    BY <2>2, <2>5, ListSame
<1>2. CASE ShowPanel \/ HidePanel
  <2>1. UNCHANGED <<tab, tabs, query, found, todo, job, sentinel, hits, ui>>
    BY <1>2 DEF ShowPanel, HidePanel, session_vars, cross_vars
  <2>2. \A v \in Open' : Asked(v)' => v \in Open /\ Asked(v)
    BY <2>1 DEF Asked, Recorded, Current, Open
  <2> QED
    BY <2>1, <2>2, ListSame
<1>3. CASE ClosePanel \/ (\E q \in Queries \cup {NoQuery} : dispatch(q))
  <2>1. tabs' = {}
    BY <1>3 DEF ClosePanel, dispatch, clear
  <2> QED
    BY <2>1, ListNone DEF Asked, Recorded
<1>4. CASE \E v \in Views, q \in Queries \cup {NoQuery} : Find(v, q)
  <2>1. PICK w \in Views, q \in Queries \cup {NoQuery} : Find(w, q)
    BY <1>4
  <2>2. /\ ui.at = "idle" /\ ui'.at = "finding" /\ w \in Open /\ set_query(w, q)
        /\ UNCHANGED <<tab, tabs, sentinel, hits>>
    BY <2>1 DEF Find, cross_vars, Resting
  <2>3. \A v \in Open \ {w} : Asked(v)' => Asked(v)
    BY <2>2 DEF Asked, Recorded, Current
  <2> QED
    BY <2>2, <2>3, ListQuery
<1>5. CASE \E v \in Views : CloseTab(v)
  <2>1. PICK w \in Views : CloseTab(w)
    BY <1>5
  <2>2. CASE visible
    <3>1. tabs' = {}
      BY <2>1, <2>2 DEF CloseTab, clear
    <3> QED
      BY <3>1, ListNone DEF Asked, Recorded
  <2>3. CASE ~visible
    <3>1. /\ UNCHANGED <<tab, tabs, query, found, todo, job, sentinel, hits>>
          /\ ui.at = "idle" /\ ui'.at = "closing"
      BY <2>1, <2>3 DEF CloseTab, session_vars, cross_vars, Resting, Closing
    <3>2. \A v \in Open' : Asked(v)' => v \in Open /\ Asked(v)
      BY <3>1 DEF Asked, Recorded, Current, Open
    <3> QED
      BY <3>1, <3>2, ListSame
  <2> QED
    BY <2>2, <2>3
<1> QED
  BY <1>1, <1>2, <1>3, <1>4, <1>5 DEF UICall

LEMMA ListNext ==
    Inv /\ ChainsRight /\ DataSound /\ ListCurrent /\ ChainsRight' /\ DataSound' /\ [Next]_vars
      => ListCurrent'
<1> SUFFICES ASSUME Inv, ChainsRight, DataSound, ListCurrent, ChainsRight', DataSound', [Next]_vars
             PROVE  ListCurrent'
  OBVIOUS
<1>1. CASE ObserverStep
  BY <1>1, ListObserver DEF ObserverStep
<1>2. CASE WorkerStep /\ ui.at # "undefined"
  BY <1>2, ListWorker DEF WorkerStep
<1>3. CASE UIStep \/ UICall
  BY <1>3, ListUIStep, ListUICall
<1>4. CASE UNCHANGED vars
  <2>1. UNCHANGED <<tab, tabs, query, found, todo, job, sentinel, hits, ui>>
    BY <1>4 DEF vars, session_vars, cross_vars
  <2>2. \A v \in Open' : Asked(v)' => v \in Open /\ Asked(v)
    BY <2>1 DEF Asked, Recorded, Current, Open
  <2> QED
    BY <2>1, <2>2, ListSame
<1> QED
  BY <1>1, <1>2, <1>3, <1>4 DEF Next, Wait, Undefined

\* However the scans, the observers, the panel, the find bar and the tabs'
\* closing interleave: between two calls every open tab has the main window's
\* observer and at most the live dispatch in front of it, and once the scans
\* are over the panel's list is the tabs' hits.
THEOREM ResultsAlwaysFaithful == Spec => []ResultsFaithful
<1>1. Init => ListCurrent
  BY DEF Init, ListCurrent, Open, Closed
<1>2. Spec => [](Inv /\ ChainsRight /\ DataSound /\ ListCurrent)
  BY InvInit, InvNext, DataInit, ChainsNext, DataNext, ListNext, <1>1, PTL DEF Spec
<1>3. Inv /\ ChainsRight /\ DataSound /\ ListCurrent => ResultsFaithful
  <2> SUFFICES ASSUME Inv, ChainsRight, DataSound, ListCurrent PROVE ResultsFaithful
    OBVIOUS
  <2>1. ObserversExact
    BY DEF ChainsRight, ObserversExact, Resting, Recorded
  <2>2. ASSUME Quiet, NEW rec \in tabs, Current(rec), query[rec.view] # NoQuery
        PROVE  {h.hit : h \in {g \in hits : g.view = rec.view}} = found[rec.view]
    <3>1. rec.view \in Open /\ Asked(rec.view)
      BY <2>2 DEF ChainsRight, RecordsRight, Current, Open, Closed, Asked, Recorded, Quiet, Resting
    <3>2. todo[rec.view] = {} /\ job[rec.view] = NoJob
      BY <2>2, <3>1 DEF Quiet, Open, Agents
    <3>3. Here(rec.view)
      BY <2>2, <3>1, <3>2 DEF ListCurrent, Coming, NoJob
    <3> QED
      BY <3>3 DEF Here, Shown
  <2>3. ListFaithful
    BY <2>2 DEF ListFaithful, DataSound
  <2> QED
    BY <2>1, <2>3 DEF ResultsFaithful
<1> QED
  BY <1>2, <1>3, PTL

-----------------------------------------------------------------------------
(* The find bar.                                                           *)

Typable == Texts \cup {""}
Query   == [text : Typable, rx : BOOLEAN, ww : BOOLEAN]
Bars    == [shown : BOOLEAN, text : Typable, rx : BOOLEAN, ww : BOOLEAN, dirty : BOOLEAN,
            invalid : BOOLEAN, timer : BOOLEAN, last : Query]

FindTypes ==
    /\ bar \in Bars /\ prefill \in Typable
    /\ find_tab \in FindTabs \cup {0} /\ holds \in [FindTabs -> Query]
    /\ focus \in {"canvas", "bar", "panel", "box"}

\* The session has the last query run from the moment it runs, whatever the
\* reader has typed since; only a pause or a pattern that waits for Enter keeps
\* the bar from being the last query run.
LastIsHeld(b, h, s) ==
    (find_tab # 0 /\ ~s) =>
        /\ query_compiles(b.last) => h[find_tab] = b.last
        /\ ~b.timer /\ ~(b.rx /\ b.dirty) => QueryOf(b) = b.last

FindInv == FindTypes /\ KeysSeen /\ LastIsHeld(bar, holds, stale)

LEMMA FindInvInit == FindInit => FindInv
<1> SUFFICES ASSUME FindInit PROVE FindInv
  OBVIOUS
<1>1. EmptyQuery \in Query
  BY DEF EmptyQuery, Query, Typable
<1>2. bar \in Bars /\ ~bar.timer
  BY <1>1 DEF FindInit, Bars, Typable
<1>3. FindTypes
  BY <1>1, <1>2 DEF FindInit, FindTypes, Typable
<1>4. KeysSeen /\ LastIsHeld(bar, holds, stale)
  BY <1>2 DEF FindInit, KeysSeen, LastIsHeld
<1> QED
  BY <1>3, <1>4 DEF FindInv

\* A run of the bar's query leaves the bar and the session together.
LEMMA FireKeeps ==
    ASSUME NEW b \in Bars, FindTypes, fire_query_changed(b), UNCHANGED find_tab,
           (find_tab # 0 /\ ~stale /\ query_compiles(b.last)) => holds[find_tab] = b.last
    PROVE  /\ bar' \in Bars /\ prefill' \in Typable /\ holds' \in [FindTabs -> Query]
           /\ bar'.shown = b.shown /\ bar'.timer = b.timer
           /\ LastIsHeld(bar, holds, stale)'
<1>1. QueryOf(b) \in Query /\ b.text \in Typable
  BY DEF QueryOf, Query, Bars
<1>2. CASE Repeats(b)
  BY <1>2 DEF fire_query_changed, Repeats, FindTypes, LastIsHeld, query_compiles, QueryOf
<1>3. CASE ~Repeats(b)
  <2> DEFINE q == QueryOf(b)
  <2>1. /\ bar' = [b EXCEPT !.last = q, !.invalid = find_tab # 0 /\ ~query_compiles(q)]
        /\ prefill' = (IF find_tab # 0 THEN b.text ELSE prefill)
        /\ holds' = IF find_tab # 0 /\ query_compiles(q) THEN [holds EXCEPT ![find_tab] = q]
                    ELSE holds
    BY <1>3 DEF fire_query_changed
  <2>2. /\ bar' \in Bars /\ bar'.last = q /\ bar'.shown = b.shown /\ bar'.timer = b.timer
        /\ QueryOf(bar') = q
    <3>1. query_compiles(q) \in BOOLEAN
      BY <1>1 DEF query_compiles, Query
    <3> QED
      BY <2>1, <1>1, <3>1 DEF Bars, QueryOf
  <2>3. holds' \in [FindTabs -> Query] /\ prefill' \in Typable
    BY <2>1, <1>1 DEF FindTypes
  <2>4. find_tab # 0 /\ query_compiles(q) => holds'[find_tab] = q
    BY <2>1 DEF FindTypes
  <2>5. LastIsHeld(bar, holds, stale)'
    BY <2>2, <2>4 DEF LastIsHeld, query_compiles
  <2> QED
    BY <2>2, <2>3, <2>5
<1> QED
  BY <1>2, <1>3

LEMMA FindInvNext == FindInv /\ [FindNext]_findVars => FindInv'
<1> SUFFICES ASSUME FindInv, [FindNext]_findVars PROVE FindInv'
  OBVIOUS
<1> USE DEF FindInv
<1>0. CASE UNCHANGED findVars
  BY <1>0 DEF findVars, FindTypes, KeysSeen, LastIsHeld, query_compiles
\* The steps that run the bar's query.
<1>1. ASSUME NEW b \in Bars, fire_query_changed(b), b.last = bar.last, b.timer => b.shown,
             bar.shown => b.shown, UNCHANGED <<find_tab, panel_shown>>,
             focus' = focus \/ (focus' = "bar" /\ b.shown)
      PROVE  FindInv'
  <2>1. (find_tab # 0 /\ ~stale /\ query_compiles(b.last)) => holds[find_tab] = b.last
    BY <1>1 DEF LastIsHeld
  <2>2. /\ bar' \in Bars /\ prefill' \in Typable /\ holds' \in [FindTabs -> Query]
        /\ bar'.shown = b.shown /\ bar'.timer = b.timer
        /\ LastIsHeld(bar, holds, stale)'
    BY <1>1, <2>1, FireKeeps
  <2>3. FindTypes'
    BY <1>1, <2>2 DEF FindTypes
  <2>4. KeysSeen'
    BY <1>1, <2>2 DEF KeysSeen
  <2> QED
    BY <2>2, <2>3, <2>4
<1>2. CASE Debounced
  <2> DEFINE b == [bar EXCEPT !.timer = FALSE]
  <2>1. b \in Bars /\ b.last = bar.last /\ ~b.timer /\ b.shown = bar.shown
    BY DEF FindTypes, Bars
  <2> QED
    BY <1>1, <1>2, <2>1 DEF Debounced
<1>3. CASE WholeClicked
  <2> DEFINE b == [bar EXCEPT !.ww = ~@]
  <2>1. b \in Bars /\ b.last = bar.last /\ b.timer = bar.timer /\ b.shown = bar.shown
    BY DEF FindTypes, Bars
  <2> QED
    BY <1>1, <1>3, <2>1 DEF WholeClicked, KeysSeen
<1>4. CASE RegexClicked
  <2> DEFINE b == [bar EXCEPT !.rx = ~@, !.dirty = ~bar.rx]
  <2>1. /\ b \in Bars /\ b.last = bar.last /\ b.timer = bar.timer /\ b.shown = bar.shown
        /\ b.rx = ~bar.rx /\ b.dirty = ~bar.rx
    BY DEF FindTypes, Bars
  <2>2. CASE bar.rx
    BY <1>1, <1>4, <2>1, <2>2 DEF RegexClicked, KeysSeen
  <2>3. CASE ~bar.rx
    BY <1>4, <2>1, <2>3 DEF RegexClicked, FindTypes, KeysSeen, LastIsHeld, query_compiles
  <2> QED
    BY <2>2, <2>3
<1>5. CASE Entered
  <2> DEFINE b == [bar EXCEPT !.dirty = FALSE]
  <2>1. b \in Bars /\ b.last = bar.last /\ b.timer = bar.timer /\ b.shown = bar.shown
    BY DEF FindTypes, Bars
  <2> QED
    BY <1>1, <1>5, <2>1 DEF Entered, KeysSeen
\* The steps that edit it: a change starts the pause or waits for Enter.
<1>6. ASSUME NEW t \in Typable
      PROVE  LET b == EN_CHANGE([bar EXCEPT !.text = t])
             IN  /\ b \in Bars /\ b.last = bar.last /\ b.shown = bar.shown
                 /\ (b.rx /\ b.dirty) \/ b.timer
  BY DEF EN_CHANGE, FindTypes, Bars
<1>7. ASSUME NEW t \in Texts, Typed(t) PROVE FindInv'
  <2> DEFINE b == EN_CHANGE([bar EXCEPT !.text = t])
  <2>1. b \in Bars /\ b.last = bar.last /\ b.shown = bar.shown /\ ((b.rx /\ b.dirty) \/ b.timer)
    BY <1>6 DEF Typable
  <2>2. bar' = b /\ bar.shown /\ UNCHANGED <<prefill, find_tab, holds, panel_shown, focus, stale>>
    BY <1>7 DEF Typed
  <2> HIDE DEF b
  <2> QED
    BY <2>1, <2>2 DEF FindTypes, KeysSeen, LastIsHeld, query_compiles
<1>8. CASE on_find_open
  <2> DEFINE b == IF prefill = "" THEN bar ELSE EN_CHANGE([bar EXCEPT !.text = prefill])
  <2>1. /\ b \in Bars /\ b.last = bar.last
        /\ b = bar \/ (b.rx /\ b.dirty) \/ b.timer
    BY <1>6 DEF FindTypes
  <2>2. /\ bar' = [b EXCEPT !.shown = TRUE] /\ focus' = "bar"
        /\ UNCHANGED <<prefill, find_tab, holds, panel_shown, stale>>
    BY <1>8 DEF on_find_open
  <2> HIDE DEF b
  <2>3. /\ bar' \in Bars /\ bar'.last = bar.last /\ bar'.shown /\ bar'.timer = b.timer
        /\ bar'.rx = b.rx /\ bar'.dirty = b.dirty /\ QueryOf(bar') = QueryOf(b)
    BY <2>1, <2>2 DEF Bars, QueryOf
  <2> QED
    BY <2>1, <2>2, <2>3 DEF FindTypes, KeysSeen, LastIsHeld, query_compiles
\* The steps that take the bar or the keys away.
<1>9. CASE on_find_close
  <2>1. bar' \in Bars /\ ~bar'.timer
    BY <1>9 DEF on_find_close, hide, FindTypes, Bars
  <2>2. EmptyQuery \in Query
    BY DEF EmptyQuery, Query, Typable
  <2>3. holds' \in [FindTabs -> Query]
    BY <1>9, <2>2 DEF on_find_close, FindTypes
  <2> QED
    BY <1>9, <2>1, <2>3 DEF on_find_close, FindTypes, KeysSeen, LastIsHeld
<1>10. CASE PanelShown \/ PanelToggledOff \/ on_results_close \/
            \E f \in {"canvas", "bar", "panel", "box"} : Focused(f)
  BY <1>10 DEF PanelShown, PanelToggledOff, on_results_close, Focused, FocusAfterToggle,
               FindTypes, KeysSeen, LastIsHeld, query_compiles
<1>11. CASE Escape
  <2>1. CASE on_results_close \/ on_find_close
    BY <2>1, <1>9, <1>10
  <2>2. CASE focus' = "canvas" /\ UNCHANGED <<bar, prefill, find_tab, holds, panel_shown, stale>>
    BY <2>2 DEF FindTypes, KeysSeen, LastIsHeld, query_compiles
  <2> QED
    BY <1>11, <2>1, <2>2 DEF Escape
<1>12. CASE \E t \in FindTabs \cup {0} : TabSwitched(t)
  BY <1>12 DEF TabSwitched, FindTypes, KeysSeen, LastIsHeld
<1> QED
  BY <1>0, <1>2, <1>3, <1>4, <1>5, <1>7, <1>8, <1>9, <1>10, <1>11, <1>12
  DEF FindNext, FindClosed, PanelClosed

\* Whatever the reader types, clicks and leaves, and in whatever order the
\* pauses end: what the bar shows is what the session was asked for, and the
\* keys are with a control that is seen.
THEOREM BarAlwaysSearched == FindSpec => []BarIsSearched
<1>1. FindInv => BarIsSearched
  BY DEF FindInv, LastIsHeld, BarIsSearched
<1> QED
  BY FindInvInit, FindInvNext, <1>1, PTL DEF FindSpec

-----------------------------------------------------------------------------
(* The posts.                                                              *)

\* The threads that have taken the gate and not yet posted or given up.
Posting == {a \in Actors : pc[a] \in {"post", "failed", "repost"}}

\* The gate is closed exactly when one thread is posting, one message is queued
\* or one message is being handled that has not yet reopened it: a closed gate
\* is the promise of a read to come.
GateExact ==
    /\ queued \in {0, 1} /\ handling \in 0..2
    /\ \A a, b \in Posting : a = b
    /\ Posting # {} => queued = 0 /\ handling # 1
    /\ queued = 1 => handling # 1
    /\ pending_ <=> Posting # {} \/ queued = 1 \/ handling = 1

PostInv == pending_ \in BOOLEAN /\ DOMAIN pc = Actors /\ GateExact /\ UpdateSeen

LEMMA PostInvInit == PostsInit => PostInv
<1> SUFFICES ASSUME PostsInit PROVE PostInv
  OBVIOUS
<1>1. Posting = {}
  BY DEF PostsInit, Posting
<1>2. GateExact
  BY <1>1 DEF PostsInit, GateExact
<1> QED
  BY <1>2 DEF PostsInit, PostInv, UpdateSeen

\* One thread moves in the poster; the window's side stays as it is.
Apart == UNCHANGED <<page_hits, remaining, handling, counter, painted, invalid, events>>

LEMMA PosterMoves ==
    ASSUME PostInv, NEW a \in Actors, Posts(a)
    PROVE  PostInv'
<1> USE DEF PostInv, GateExact
<1>1. CASE claim(a)
  <2>1. Apart /\ UNCHANGED <<queued, unsent>> /\ pending_' = TRUE /\ pc[a] = "claim"
        /\ pc' = [pc EXCEPT ![a] = IF pending_ THEN "idle" ELSE "post"]
    BY <1>1 DEF claim, Goto, Apart
  <2>2. Posting' = IF pending_ THEN Posting ELSE {a}
    BY <2>1 DEF Posting
  <2>3. GateExact'
    BY <2>1, <2>2 DEF Apart
  <2>4. UpdateSeen'
    BY <2>1, <2>2 DEF Apart, UpdateSeen, Posting
  <2> QED
    BY <2>1, <2>3, <2>4
<1>2. CASE post(a)
  <2>1. Apart /\ UNCHANGED <<pending_, unsent>> /\ pc[a] = "post"
        /\ \/ queued' = queued + 1 /\ pc' = [pc EXCEPT ![a] = "idle"]
           \/ queued' = queued /\ pc' = [pc EXCEPT ![a] = "failed"]
    BY <1>2 DEF post, Goto, Apart
  <2>2. Posting = {a}
    BY <2>1 DEF Posting
  <2>3. \/ queued' = 1 /\ Posting' = {}
        \/ queued' = 0 /\ Posting' = {a} /\ pc'[a] # "idle"
    BY <2>1, <2>2 DEF Posting
  <2>4. GateExact'
    BY <2>1, <2>2, <2>3 DEF Apart
  <2>5. UpdateSeen'
    BY <2>3 DEF UpdateSeen
  <2> QED
    BY <2>1, <2>4, <2>5
<1>3. CASE post_failed(a)
  <2>1. Apart /\ UNCHANGED <<queued, unsent>> /\ pc[a] = "failed" /\ pending_' = FALSE
        /\ pc' = [pc EXCEPT ![a] = "reclaim"]
    BY <1>3 DEF post_failed, Goto, Apart, AfterFailure
  <2>2. Posting = {a}
    BY <2>1 DEF Posting
  <2>3. Posting' = {} /\ pc'[a] # "idle"
    BY <2>1, <2>2 DEF Posting
  <2>4. GateExact'
    BY <2>1, <2>2, <2>3 DEF Apart
  <2>5. UpdateSeen'
    BY <2>3 DEF UpdateSeen
  <2> QED
    BY <2>1, <2>4, <2>5
<1>4. CASE reclaim(a)
  <2>1. Apart /\ UNCHANGED <<queued, unsent>> /\ pending_' = TRUE /\ pc[a] = "reclaim"
        /\ pc' = [pc EXCEPT ![a] = IF pending_ THEN "idle" ELSE "repost"]
    BY <1>4 DEF reclaim, Goto, Apart, MayRepost
  <2>2. Posting' = IF pending_ THEN Posting ELSE {a}
    BY <2>1 DEF Posting
  <2>3. GateExact'
    BY <2>1, <2>2 DEF Apart
  <2>4. UpdateSeen'
    BY <2>1, <2>2 DEF Apart, UpdateSeen, Posting
  <2> QED
    BY <2>1, <2>3, <2>4
<1>5. CASE repost(a)
  <2>1. Apart /\ pc[a] = "repost" /\ pc' = [pc EXCEPT ![a] = "idle"]
        /\ pending_' \in BOOLEAN
        /\ \/ queued' = queued + 1 /\ (pending_ => pending_')
           \/ queued' = queued /\ ~pending_' /\ unsent'
    BY <1>5 DEF repost, Goto, Apart
  <2>2. Posting = {a}
    BY <2>1 DEF Posting
  <2>3. Posting' = {}
    BY <2>1, <2>2 DEF Posting
  <2>6. queued = 0 /\ handling # 1 /\ pending_
    BY <2>2
  <2>4. GateExact'
    <3>1. (queued' = 1 /\ pending_') \/ (queued' = 0 /\ ~pending_')
      BY <2>1, <2>6
    <3> QED
      BY <2>1, <2>3, <2>6, <3>1 DEF Apart
  <2>5. UpdateSeen'
    BY <2>1, <2>6 DEF UpdateSeen
  <2> QED
    BY <2>1, <2>4, <2>5
<1> QED
  BY <1>1, <1>2, <1>3, <1>4, <1>5 DEF Posts

\* A thread that is not posting enters the poster, or none does.
LEMMA GateKept ==
    ASSUME GateExact, UNCHANGED <<queued, handling, pending_>>,
           DOMAIN pc = Actors,
           \/ pc' = pc
           \/ \E a \in Actors : pc[a] = "idle" /\ pc' = [pc EXCEPT ![a] = "claim"]
    PROVE  GateExact'
<1>1. Posting' = Posting
  BY DEF Posting
<1> QED
  BY <1>1 DEF GateExact

LEMMA PostInvNext == PostInv /\ [PostsNext]_postVars => PostInv'
<1> SUFFICES ASSUME PostInv, [PostsNext]_postVars PROVE PostInv'
  OBVIOUS
<1>1. CASE UNCHANGED postVars
  <2>1. Posting' = Posting
    BY <1>1 DEF postVars, Posting
  <2> QED
    BY <1>1, <2>1 DEF postVars, PostInv, GateExact, UpdateSeen
<1>2. ASSUME NEW w \in Workers, PageScanned(w) PROVE PostInv'
  <2>1. /\ pc[w] = "idle" /\ pc' = [pc EXCEPT ![w] = "claim"] /\ w \in Actors
        /\ UNCHANGED <<queued, handling, pending_>>
    BY <1>2 DEF PageScanned, Actors
  <2>2. GateExact'
    BY <2>1, GateKept DEF PostInv
  <2>3. UpdateSeen'
    BY <2>1 DEF PostInv, UpdateSeen
  <2> QED
    BY <2>1, <2>2, <2>3 DEF PostInv
<1>3. ASSUME NEW a \in Actors, Posts(a) PROVE PostInv'
  BY <1>3, PosterMoves
<1>4. CASE UpdateHandled
  <2>1. /\ \/ handling = 0 /\ queued > 0 /\ queued' = queued - 1 /\ handling' = 1
           \/ handling = 1 /\ handling' = 2 /\ queued' = queued
           \/ handling = 2 /\ handling' = 0 /\ queued' = queued
        /\ pending_' = (IF handling = 1 THEN FALSE ELSE pending_)
        /\ handling = 2 => /\ counter' = CounterOf(page_hits, remaining)
                           /\ invalid' = (invalid \/ page_hits # painted)
        /\ UNCHANGED <<page_hits, remaining, pc, painted>>
    BY <1>4 DEF UpdateHandled, UIFree, ReleaseStep
  <2>2. Posting' = Posting
    BY <2>1 DEF Posting
  <2>3. GateExact'
    BY <2>1, <2>2 DEF PostInv, GateExact
  <2>4. handling' = 0 => handling = 2
    BY <2>1
  <2>5. UpdateSeen'
    BY <2>1, <2>4 DEF UpdateSeen
  <2> QED
    BY <2>1, <2>3, <2>5 DEF PostInv
<1>5. CASE QueryChanged
  <2>1. GateExact'
    BY <1>5, GateKept DEF QueryChanged, PostInv
  <2> QED
    BY <1>5, <2>1 DEF QueryChanged, PostInv, UpdateSeen
<1>6. CASE QueryCleared
  <2>1. /\ pc[UIThread] = "idle" /\ pc' = [pc EXCEPT ![UIThread] = "claim"]
        /\ UNCHANGED <<queued, handling, pending_>> /\ UIThread \in Actors
    BY <1>6 DEF QueryCleared, UIFree, Actors
  <2>2. GateExact'
    BY <2>1, GateKept DEF PostInv
  <2> QED
    BY <2>1, <2>2 DEF PostInv, UpdateSeen
<1>7. CASE Painted
  <2>1. GateExact'
    BY <1>7, GateKept DEF Painted, PostInv
  <2> QED
    BY <1>7, <2>1 DEF Painted, PostInv, UpdateSeen
<1> QED
  BY <1>1, <1>2, <1>3, <1>4, <1>5, <1>6, <1>7 DEF PostsNext

\* However many threads post, whichever posts fail and whenever the window
\* reopens the gate: at most one message is queued, and no update of the
\* session stays unseen unless both posts of one failed.
THEOREM PostsAlwaysArrive == PostsSpec => []PostsArrive
<1>1. PostInv => PostsArrive
  BY DEF PostInv, GateExact, PostsArrive, OneMessage
<1> QED
  BY PostInvInit, PostInvNext, <1>1, PTL DEF PostsSpec

-----------------------------------------------------------------------------
(* The processes.                                                          *)

Names  == (Files \cup Args \cup UNION {ToSet(l) : l \in Listed}) \ {NoFile}
Lists  == {l \in Seq(Names) : Len(l) <= kMaxEntries}
Places == {"new", "first", "second", "forward", "sent", "loaded", "deferred", "up", "left",
           "unlocked", "gone"}
Saves  == [next : 0 .. kMaxEntries, then : Names \cup {NoFile}, from : Starts \cup {NoFile}]
Boxes  == [index : Nat, file : Names \cup {NoFile}]

Processes ==
    [at : Places, path : Names \cup {NoFile}, code : {"none", "0", "1"}, recent : Lists,
     job : {NoSave} \cup Saves, box : Boxes, opening : Nat, tabs : BOOLEAN, undone : Nat]

Registries == [count : 0 .. kMaxEntries, entry : [Slots -> Names \cup {NoFile}]]

LaunchTypes ==
    /\ procs \in [Starts -> Processes]
    /\ reg \in Registries

\* Who is past the gate, and has not left, holds the mutex.
MutexHeld == \A p \in Starts : Primary(p) => p \in locked

\* Saves and boxes are a window's, and a box shows its entry unless a file came.
InWindow ==
    \A p \in Starts :
        /\ Saving(p) => HasWindow(p)
        /\ procs[p].box # NoBox =>
              /\ HasWindow(p)
              /\ moved \/ /\ procs[p].box.index \in DOMAIN procs[p].recent
                          /\ procs[p].recent[procs[p].box.index] = procs[p].box.file

\* What r holds when a save of l is about to write the n-th value.
WrittenTo(r, l, n) ==
    /\ n > 0 => r.count = Len(l)
    /\ \A i \in Slots : i < n => r.entry[i] = IF i <= Len(l) THEN l[i] ELSE NoFile

HasList(p) == procs[p].at \in {"loaded", "deferred", "up"}

\* The registry has the window's list, or as much of it as a save has written;
\* with no save it is a whole list.
RegistryKept ==
    ~torn =>
        /\ \A p \in Starts :
              /\ IsInjective(procs[p].recent)
              /\ HasList(p) /\ ~Saving(p) => reg = Registry(procs[p].recent)
              /\ Saving(p) => WrittenTo(reg, procs[p].recent, procs[p].job.next)
        /\ (\A p \in Starts : ~Saving(p)) => \E l \in Lists : IsInjective(l) /\ reg = Registry(l)

LaunchInv ==
    /\ LaunchTypes /\ OnePrimary /\ MutexHeld /\ InWindow /\ RegistryKept
    /\ HandedOver /\ RemovesShown /\ TabsBeforeDispatcher

-----------------------------------------------------------------------------
(* The list.                                                               *)

LEMMA PushIs ==
    ASSUME NEW l \in Lists, NEW f \in Names
    PROVE  push(l, f) \in Lists /\ (IsInjective(l) => IsInjective(push(l, f)))
<1> DEFINE rest == Only(l, ToSet(l) \ {f})
           all  == <<f>> \o rest
<1>1. l \in Seq(Names) /\ Len(l) <= kMaxEntries /\ kMaxEntries \in Nat \ {0}
  BY LaunchConstants DEF Lists
<1>2. /\ rest \in Seq(Names) /\ f \notin ToSet(rest) /\ (IsInjective(l) => IsInjective(rest))
  <2>1. /\ rest \in Seq(Names) /\ ToSet(rest) = ToSet(l) \cap (ToSet(l) \ {f})
        /\ (IsInjective(l) => IsInjective(rest))
    BY <1>1, OnlyIs
  <2> QED
    BY <2>1
<1> HIDE DEF rest
<1>3. all \in Seq(Names) /\ (IsInjective(l) => IsInjective(all)) /\ Len(all) \in Nat
  <2>1. /\ all \in Seq(Names) /\ Len(all) = Len(rest) + 1
        /\ (IsInjective(rest) /\ f \notin ToSet(rest) => IsInjective(all))
    BY <1>2, InFrontOf
  <2> QED
    BY <1>2, <2>1
<1>4. push(l, f) = IF Len(all) > kMaxEntries THEN SubSeq(all, 1, kMaxEntries) ELSE all
  BY DEF push, rest
<1> HIDE DEF all
<1>5. CASE Len(all) > kMaxEntries
  <2>1. kMaxEntries \in 0..Len(all)
    BY <1>1, <1>3, <1>5
  <2>2. /\ SubSeq(all, 1, kMaxEntries) \in Seq(Names) /\ Len(SubSeq(all, 1, kMaxEntries)) = kMaxEntries
        /\ (IsInjective(all) => IsInjective(SubSeq(all, 1, kMaxEntries)))
    BY <1>3, <2>1, FirstOnes
  <2> QED
    BY <1>1, <1>3, <1>4, <1>5, <2>2 DEF Lists
<1>6. CASE ~(Len(all) > kMaxEntries)
  BY <1>1, <1>3, <1>4, <1>6 DEF Lists
<1> QED
  BY <1>5, <1>6

LEMMA RemoveIs ==
    ASSUME NEW l \in Lists, NEW i
    PROVE  remove(l, i) \in Lists /\ (IsInjective(l) => IsInjective(remove(l, i)))
<1>1. l \in Seq(Names) /\ Len(l) <= kMaxEntries /\ kMaxEntries \in Nat /\ Len(l) \in Nat
  BY LaunchConstants DEF Lists
<1>2. CASE i \in DOMAIN l
  <2> DEFINE t == RemoveAt(l, i)
  <2>1. i \in 1..Len(l)
    BY <1>1, <1>2
  <2>2. /\ t \in Seq(Names) /\ Len(t) = Len(l) - 1
        /\ \A k \in 1..Len(l) - 1 : t[k] = IF k < i THEN l[k] ELSE l[k + 1]
    BY <1>1, <2>1, RemoveAtKeepsRest
  <2>3. remove(l, i) = t
    BY <1>2 DEF remove
  <2> HIDE DEF t
  <2>4. ASSUME IsInjective(l) PROVE IsInjective(t)
    <3> SUFFICES ASSUME NEW a \in 1..Len(l) - 1, NEW b \in 1..Len(l) - 1, t[a] = t[b] PROVE a = b
      BY <1>1, <2>2 DEF IsInjective
    <3> DEFINE at(k) == IF k < i THEN k ELSE k + 1
    <3>1. at(a) \in 1..Len(l) /\ at(b) \in 1..Len(l) /\ l[at(a)] = l[at(b)]
      BY <1>1, <2>1, <2>2
    <3>2. at(a) = at(b)
      BY <1>1, <2>4, <3>1 DEF IsInjective
    <3> QED
      BY <1>1, <2>1, <3>2
  <2> QED
    BY <1>1, <2>2, <2>3, <2>4 DEF Lists
<1>3. CASE i \notin DOMAIN l
  BY <1>3 DEF remove
<1> QED
  BY <1>2, <1>3

\* What load reads, whatever the registry holds.
LEMMA LoadIs == ASSUME LaunchTypes PROVE load \in Lists
<1> DEFINE values == [i \in 1..reg.count |-> reg.entry[i]]
           keep   == ToSet(values) \ {NoFile}
<1>1. reg.count \in Nat /\ reg.count <= kMaxEntries /\ reg.entry \in [Slots -> Names \cup {NoFile}]
  BY LaunchConstants DEF LaunchTypes, Registries
<1>2. \A i \in 1..reg.count : reg.entry[i] \in Names \cup {NoFile}
  BY <1>1, LaunchConstants DEF Slots
<1>3. values \in Seq(Names \cup {NoFile}) /\ Len(values) = reg.count
  BY <1>1, <1>2, IsASeq
<1> HIDE DEF values
<1>4. /\ Only(values, keep) \in Seq(Names \cup {NoFile})
      /\ ToSet(Only(values, keep)) = ToSet(values) \cap keep
      /\ Len(Only(values, keep)) <= Len(values)
  BY <1>3, OnlyIs, OnlyShorter
<1>5. load = Only(values, keep)
  BY DEF load, values
<1> HIDE DEF keep
<1>6. \A i \in 1..Len(load) : load[i] \in Names
  <2>1. \A i \in 1..Len(load) : load[i] \in ToSet(load) /\ load[i] \in Names \cup {NoFile}
    BY <1>4, <1>5 DEF ToSet
  <2>2. NoFile \notin ToSet(load)
    BY <1>4, <1>5 DEF keep
  <2> QED
    BY <2>1, <2>2
<1>7. load \in Seq(Names)
  BY <1>4, <1>5, <1>6
<1> QED
  BY <1>1, <1>3, <1>4, <1>5, <1>7, LaunchConstants DEF Lists

\* It reads a whole list back.
LEMMA LoadsBack == ASSUME NEW l \in Lists, reg = Registry(l) PROVE load = l
<1>1. l \in Seq(Names) /\ Len(l) <= kMaxEntries /\ kMaxEntries \in Nat /\ Len(l) \in Nat
  BY LaunchConstants DEF Lists
<1>2. reg.count = Len(l) /\ \A i \in 1..Len(l) : reg.entry[i] = l[i]
  BY <1>1 DEF Registry, Slots
<1>3. [i \in 1..reg.count |-> reg.entry[i]] = l
  BY <1>1, <1>2
<1>4. \A i \in 1..Len(l) : l[i] \in ToSet(l) \ {NoFile}
  BY <1>1 DEF ToSet, Names
<1>5. load = Only(l, ToSet(l) \ {NoFile})
  BY <1>3 DEF load
<1>6. Only(l, ToSet(l) \ {NoFile}) = SubSeq(l, 1, Len(l))
  <2>1. 1 \in 1..Len(l) + 1 /\ Len(l) \in 0..Len(l)
    BY <1>1
  <2>2. \A i \in 1..Len(l) : l[i] \in ToSet(l) \ {NoFile} <=> i \in 1..Len(l)
    BY <1>4
  <2> QED
    BY <1>1, <2>1, <2>2, OnlyStretch
<1>7. SubSeq(l, 1, Len(l)) = l
  BY <1>1
<1> QED
  BY <1>5, <1>6, <1>7

-----------------------------------------------------------------------------
(* The steps.                                                              *)

LEMMA OneProcess ==
    ASSUME LaunchTypes, NEW p \in Starts, NEW r \in Processes, procs' = [procs EXCEPT ![p] = r]
    PROVE  /\ procs' \in [Starts -> Processes] /\ procs'[p] = r
           /\ \A q \in Starts \ {p} : procs'[q] = procs[q]
BY DEF LaunchTypes

\* A step of one process that leaves its list, its save and its box alone.
LEMMA QuietKeeps ==
    ASSUME LaunchInv, NEW p \in Starts, NEW r \in Processes, procs' = [procs EXCEPT ![p] = r],
           UNCHANGED <<reg, torn, moved, wrong>>,
           r.recent = procs[p].recent, r.job = procs[p].job, r.box = procs[p].box,
           r.at \in {"loaded", "deferred", "up"} => HasList(p),
           r.at \in {"first", "loaded", "deferred", "up", "left"} => Primary(p) /\ p \in locked',
           r.job # NoSave \/ r.box # NoBox => r.at \in {"deferred", "up"},
           \A q \in Starts \ {p} : q \in locked => q \in locked',
           taken \subseteq taken', r.code = "0" => p \in taken', "tab" \notin late'
    PROVE  LaunchInv'
<1>1. /\ procs' \in [Starts -> Processes] /\ procs'[p] = r
      /\ \A q \in Starts \ {p} : procs'[q] = procs[q]
  BY OneProcess DEF LaunchInv
<1>2. /\ \A q \in Starts : /\ procs'[q].recent = procs[q].recent /\ procs'[q].job = procs[q].job
                           /\ procs'[q].box = procs[q].box /\ (Saving(q)' <=> Saving(q))
      /\ \A q \in Starts : HasList(q)' => HasList(q)
      /\ \A q \in Starts : Primary(q)' => Primary(q) /\ (q \in locked => q \in locked')
  BY <1>1 DEF Saving, HasList, Primary
<1>3. LaunchTypes'
  BY <1>1 DEF LaunchInv, LaunchTypes
<1>4. OnePrimary' /\ MutexHeld'
  BY <1>1, <1>2 DEF LaunchInv, OnePrimary, MutexHeld
<1>5. InWindow'
  BY <1>1, <1>2 DEF LaunchInv, InWindow, HasWindow, Saving
<1>6. RegistryKept'
  BY <1>2 DEF LaunchInv, RegistryKept, WrittenTo
<1>7. HandedOver' /\ RemovesShown' /\ TabsBeforeDispatcher'
  BY <1>1 DEF LaunchInv, HandedOver, RemovesShown, TabsBeforeDispatcher
<1> QED
  BY <1>3, <1>4, <1>5, <1>6, <1>7 DEF LaunchInv

\* The one window is the only process with a list or a save.
LEMMA OnlyWindow ==
    ASSUME LaunchInv, NEW p \in Starts, Primary(p)
    PROVE  \A q \in Starts \ {p} : ~Primary(q) /\ ~HasList(q) /\ ~Saving(q)
BY DEF LaunchInv, OnePrimary, Primary, HasList, InWindow, HasWindow

\* The process r of the window p after a list changes: its save begins.
LEMMA SaveBegins ==
    ASSUME LaunchInv, NEW p \in Starts, NEW r \in Processes, procs' = [procs EXCEPT ![p] = r],
           HasWindow(p), r.at \in {"deferred", "up"}, r.code = procs[p].code,
           IsInjective(procs[p].recent) => IsInjective(r.recent),
           r.job # NoSave, r.job.next = 0, r.box = NoBox \/ moved', moved => moved',
           UNCHANGED <<reg, locked, torn, late>>, taken \subseteq taken', wrong' => moved' \/ torn'
    PROVE  LaunchInv'
<1>1. /\ procs' \in [Starts -> Processes] /\ procs'[p] = r
      /\ \A q \in Starts \ {p} : procs'[q] = procs[q]
  BY OneProcess DEF LaunchInv
<1>2. Primary(p) /\ \A q \in Starts \ {p} : ~Primary(q) /\ ~HasList(q) /\ ~Saving(q)
  BY OnlyWindow DEF HasWindow, Primary
<1>3. LaunchTypes'
  BY <1>1 DEF LaunchInv, LaunchTypes
<1>4. OnePrimary' /\ MutexHeld'
  BY <1>1, <1>2 DEF LaunchInv, OnePrimary, MutexHeld, Primary
<1>5. InWindow'
  BY <1>1 DEF LaunchInv, InWindow, HasWindow, Saving
<1>6. RegistryKept'
  <2>1. Saving(p)' /\ procs'[p].recent = r.recent /\ procs'[p].job.next = 0
    BY <1>1 DEF Saving
  <2>2. \A q \in Starts \ {p} : ~HasList(q)' /\ ~Saving(q)'
    BY <1>1, <1>2 DEF HasList, Saving
  <2>3. ~torn => \A q \in Starts : IsInjective(procs'[q].recent)
    BY <1>1 DEF LaunchInv, RegistryKept
  <2>4. WrittenTo(reg, r.recent, 0)
    BY LaunchConstants DEF WrittenTo, Slots
  <2>5. WrittenTo(reg', procs'[p].recent, procs'[p].job.next)
    BY <2>1, <2>4
  <2> QED
    BY <2>1, <2>2, <2>3, <2>5 DEF RegistryKept
<1>7. HandedOver' /\ RemovesShown' /\ TabsBeforeDispatcher'
  BY <1>1 DEF LaunchInv, HandedOver, RemovesShown, TabsBeforeDispatcher
<1> QED
  BY <1>3, <1>4, <1>5, <1>6, <1>7 DEF LaunchInv

LEMMA OpensKeeps ==
    ASSUME LaunchInv, NEW p \in Starts, NEW r \in Processes, NEW f \in Names,
           NEW from \in Starts \cup {NoFile}, Opens(p, r, f, from),
           HasWindow(p), r.at \in {"deferred", "up"}, r.code = procs[p].code,
           r.recent = procs[p].recent, r.box = procs[p].box,
           UNCHANGED <<reg, locked, torn, wrong, late>>, taken \subseteq taken'
    PROVE  LaunchInv'
<1> DEFINE j == [next |-> 0, then |-> f, from |-> from]
           r2 == [r EXCEPT !.recent = push(r.recent, f), !.job = j]
<1>1. j \in Saves /\ j # NoSave /\ j.next = 0
  BY LaunchConstants DEF Saves, NoSave
<1>2. procs' = [procs EXCEPT ![p] = r2] /\ moved' = (moved \/ r.box # NoBox)
  BY DEF Opens
<1>3. r.recent \in Lists
  BY DEF Processes
<1>4. push(r.recent, f) \in Lists /\ (IsInjective(r.recent) => IsInjective(push(r.recent, f)))
  BY <1>3, PushIs
<1> HIDE DEF j
<1>5. /\ r2 \in Processes /\ r2.at = r.at /\ r2.code = r.code /\ r2.box = r.box
      /\ r2.recent = push(r.recent, f) /\ r2.job = j
  BY <1>1, <1>4 DEF Processes
<1>6. wrong' => moved' \/ torn'
  BY <1>2 DEF LaunchInv, RemovesShown
<1> HIDE DEF r2
<1> QED
  BY <1>1, <1>2, <1>4, <1>5, <1>6, SaveBegins

\* What the invariant says of a process that is not a window's.
LEMMA OutsideWindow ==
    ASSUME LaunchInv, NEW p \in Starts, ~HasWindow(p)
    PROVE  /\ procs[p].job = NoSave /\ procs[p].box = NoBox
           /\ procs[p] \in Processes /\ (procs[p].code = "0" => p \in taken)
BY DEF LaunchInv, InWindow, Saving, LaunchTypes, HandedOver

LEMMA GoesKeeps ==
    ASSUME LaunchInv, NEW p \in Starts, NEW place \in Places, Goes(p, place),
           UNCHANGED <<reg, taken, torn, moved, wrong, late>>,
           procs[p].job = NoSave, procs[p].box = NoBox,
           place \in {"loaded", "deferred", "up"} => HasList(p),
           place \in {"first", "loaded", "deferred", "up", "left"} => Primary(p) /\ p \in locked',
           \A q \in Starts \ {p} : q \in locked => q \in locked'
    PROVE  LaunchInv'
<1> DEFINE r == [procs[p] EXCEPT !.at = place]
<1>1. procs' = [procs EXCEPT ![p] = r]
  BY DEF Goes
<1>2. procs[p] \in Processes /\ (procs[p].code = "0" => p \in taken) /\ "tab" \notin late
  BY DEF LaunchInv, LaunchTypes, HandedOver, TabsBeforeDispatcher
<1>3. /\ r \in Processes /\ r.at = place /\ r.recent = procs[p].recent
      /\ r.job = procs[p].job /\ r.box = procs[p].box /\ r.code = procs[p].code
  BY <1>2 DEF Processes
<1> HIDE DEF r
<1> QED
  BY <1>1, <1>2, <1>3, QuietKeeps

LEMMA StartsKeep ==
    ASSUME LaunchInv, NEW p \in Starts, NotFirst(p) \/ Forward(p) \/ Sent(p)
    PROVE  LaunchInv'
<1>1. /\ ~HasWindow(p) /\ procs[p].job = NoSave /\ procs[p].box = NoBox
      /\ procs[p] \in Processes /\ (procs[p].code = "0" => p \in taken)
  BY OutsideWindow DEF NotFirst, Forward, Sent, HasWindow
<1>2. "tab" \notin late
  BY DEF LaunchInv, TabsBeforeDispatcher
<1>3. ASSUME NEW code \in {"0", "1"}, Returned(p, code), code = "0" => p \in taken,
             UNCHANGED <<reg, locked, taken, torn, moved, wrong, late>>
      PROVE  LaunchInv'
  <2> DEFINE r == [procs[p] EXCEPT !.at = "gone", !.code = code]
  <2>1. procs' = [procs EXCEPT ![p] = r]
    BY <1>3 DEF Returned
  <2>2. /\ r \in Processes /\ r.at = "gone" /\ r.recent = procs[p].recent
        /\ r.job = procs[p].job /\ r.box = procs[p].box /\ r.code = code
    BY <1>1 DEF Processes, Places
  <2> HIDE DEF r
  <2> QED
    BY <1>1, <1>2, <1>3, <2>1, <2>2, QuietKeeps
<1>4. CASE NotFirst(p)
  BY <1>1, <1>4, GoesKeeps DEF NotFirst, Places
<1>5. CASE Forward(p)
  <2>1. CASE Goes(p, "sent")
    BY <1>1, <1>5, <2>1, GoesKeeps DEF Forward, Places
  <2>2. CASE NoTarget(p)
    BY <1>3, <1>5, <2>2 DEF Forward, NoTarget
  <2> QED
    BY <1>5, <2>1, <2>2 DEF Forward
<1>6. CASE Sent(p)
  BY <1>3, <1>6 DEF Sent
<1> QED
  BY <1>4, <1>5, <1>6

LEMMA GateKeeps ==
    ASSUME LaunchInv, NEW p \in Starts, Gate(p)
    PROVE  LaunchInv'
<1>1. /\ ~HasWindow(p) /\ procs[p].job = NoSave /\ procs[p].box = NoBox
      /\ procs[p] \in Processes /\ (procs[p].code = "0" => p \in taken)
  BY OutsideWindow DEF Gate, HasWindow
<1>2. "tab" \notin late
  BY DEF LaunchInv, TabsBeforeDispatcher
<1> DEFINE place == IF locked = {} THEN "first" ELSE "second"
<1>3. PICK f \in Args : procs' = [procs EXCEPT ![p] = [procs[p] EXCEPT !.at = place, !.path = f]]
  BY DEF Gate
<1> DEFINE r == [procs[p] EXCEPT !.at = place, !.path = f]
<1>4. /\ r \in Processes /\ r.at = place /\ r.recent = procs[p].recent
      /\ r.job = NoSave /\ r.box = NoBox /\ r.code = procs[p].code
  BY <1>1 DEF Processes, Places, Names
<1> HIDE DEF r
<1>5. /\ procs' = [procs EXCEPT ![p] = r] /\ locked' = locked \cup {p}
      /\ UNCHANGED <<reg, taken, torn, moved, wrong, late>>
  BY <1>3 DEF Gate, r
<1>6. CASE locked # {}
  BY <1>1, <1>2, <1>4, <1>5, <1>6, QuietKeeps
<1>7. CASE locked = {}
  <2>1. \A q \in Starts : ~Primary(q) /\ ~HasList(q) /\ ~Saving(q)
    BY <1>7 DEF LaunchInv, MutexHeld, Primary, HasList, InWindow, HasWindow
  <2>2. /\ procs' \in [Starts -> Processes] /\ procs'[p] = r /\ r.at = "first"
        /\ \A q \in Starts \ {p} : procs'[q] = procs[q]
    BY <1>4, <1>5, <1>7, OneProcess DEF LaunchInv
  <2>3. \A q \in Starts : ~HasList(q)' /\ ~Saving(q)' /\ procs'[q].recent = procs[q].recent
    BY <1>4, <2>1, <2>2 DEF HasList, Saving
  <2>4. LaunchTypes'
    BY <1>5, <2>2 DEF LaunchInv, LaunchTypes
  <2>5. OnePrimary' /\ MutexHeld'
    BY <1>5, <2>1, <2>2 DEF OnePrimary, MutexHeld, Primary
  <2>6. InWindow'
    <3>1. \A q \in Starts \ {p} : procs'[q].box # NoBox => FALSE
      BY <2>1, <2>2 DEF LaunchInv, InWindow, HasWindow, Primary
    <3> QED
      BY <1>4, <2>2, <2>3, <3>1 DEF InWindow
  <2>7. RegistryKept'
    BY <1>5, <2>1, <2>3 DEF LaunchInv, RegistryKept
  <2>8. HandedOver' /\ RemovesShown' /\ TabsBeforeDispatcher'
    BY <1>1, <1>4, <1>5, <2>2 DEF LaunchInv, HandedOver, RemovesShown, TabsBeforeDispatcher
  <2> QED
    BY <2>4, <2>5, <2>6, <2>7, <2>8 DEF LaunchInv
<1> QED
  BY <1>6, <1>7

\* The window's list is the registry's when it is loaded, for nobody is in a save.
LEMMA ConstructKeeps ==
    ASSUME LaunchInv, NEW p \in Starts, Construct(p)
    PROVE  LaunchInv'
<1>1. /\ ~HasWindow(p) /\ procs[p].job = NoSave /\ procs[p].box = NoBox
      /\ procs[p] \in Processes /\ (procs[p].code = "0" => p \in taken)
  BY OutsideWindow DEF Construct, HasWindow
<1>2. Primary(p) /\ p \in locked /\ load \in Lists
  BY LoadIs DEF LaunchInv, Construct, Primary, MutexHeld
<1>3. \A q \in Starts \ {p} : ~Primary(q) /\ ~HasList(q) /\ ~Saving(q)
  BY <1>2, OnlyWindow
<1> DEFINE r == [procs[p] EXCEPT !.recent = load, !.at = "loaded"]
<1>4. /\ r \in Processes /\ r.at = "loaded" /\ r.recent = load
      /\ r.job = NoSave /\ r.box = NoBox /\ r.code = procs[p].code
  BY <1>1, <1>2 DEF Processes, Places
<1>5. procs' = [procs EXCEPT ![p] = r] /\ UNCHANGED <<reg, locked, taken, torn, moved, wrong, late>>
  BY DEF Construct
<1> HIDE DEF r
<1>6. /\ procs' \in [Starts -> Processes] /\ procs'[p] = r
      /\ \A q \in Starts \ {p} : procs'[q] = procs[q]
  BY <1>4, <1>5, OneProcess DEF LaunchInv
<1>7. LaunchTypes'
  BY <1>5, <1>6 DEF LaunchInv, LaunchTypes
<1>8. OnePrimary' /\ MutexHeld'
  BY <1>2, <1>3, <1>5, <1>6 DEF LaunchInv, OnePrimary, MutexHeld, Primary
<1>9. InWindow'
  BY <1>4, <1>5, <1>6 DEF LaunchInv, InWindow, HasWindow, Saving
<1>10. RegistryKept'
  <2>1. ~Saving(p) /\ ~Saving(p)' /\ \A q \in Starts \ {p} : ~HasList(q)' /\ ~Saving(q)'
    BY <1>1, <1>3, <1>4, <1>6 DEF Saving, HasList
  <2>2. ~torn => \E l \in Lists : IsInjective(l) /\ reg = Registry(l)
    BY <1>3, <2>1 DEF LaunchInv, RegistryKept
  <2>3. ~torn => IsInjective(load) /\ reg = Registry(load)
    BY <2>2, LoadsBack
  <2>4. ~torn => \A q \in Starts : IsInjective(procs'[q].recent)
    BY <1>4, <1>6, <2>3 DEF LaunchInv, RegistryKept
  <2>5. ~torn => reg = Registry(procs'[p].recent)
    BY <1>4, <1>6, <2>3
  <2>6. reg' = reg /\ torn' = torn
    BY <1>5
  <2>7. ~torn => reg' = Registry(procs'[p].recent)
    BY <2>5, <2>6
  <2> QED
    BY <2>1, <2>2, <2>4, <2>6, <2>7 DEF RegistryKept
<1>11. HandedOver' /\ RemovesShown' /\ TabsBeforeDispatcher'
  BY <1>4, <1>5, <1>6 DEF LaunchInv, HandedOver, RemovesShown, TabsBeforeDispatcher
<1> QED
  BY <1>7, <1>8, <1>9, <1>10, <1>11 DEF LaunchInv

LEMMA WindowKeeps ==
    ASSUME LaunchInv, NEW p \in Starts,
           CreateWindow(p) \/ Close(p) \/ Leave(p)
    PROVE  LaunchInv'
<1>1. procs[p].job = NoSave /\ procs[p].box = NoBox
  BY OutsideWindow DEF CreateWindow, Close, Leave, Free, Pumps, Saving, HasWindow
<1>2. Primary(p) => p \in locked
  BY DEF LaunchInv, MutexHeld
<1>3. CASE CreateWindow(p)
  BY <1>1, <1>2, <1>3, GoesKeeps DEF CreateWindow, Places, HasList, Primary
<1>4. CASE Close(p)
  BY <1>1, <1>2, <1>4, GoesKeeps DEF Close, Free, Pumps, HasWindow, Places, HasList, Primary
<1>5. CASE Leave(p)
  BY <1>1, <1>5, GoesKeeps DEF Leave, Places
<1> QED
  BY <1>3, <1>4, <1>5

\* A window's process that opens a file, or has none to open.
LEMMA OpeningKeeps ==
    ASSUME LaunchInv, NEW p \in Starts,
           OpenDeferred(p) \/ AskOpen(p) \/ \E q \in Starts : on_copydata(q, p)
    PROVE  LaunchInv'
<1>1. /\ procs[p] \in Processes /\ HasWindow(p) /\ Primary(p) /\ p \in locked /\ HasList(p)
      /\ (procs[p].code = "0" => p \in taken) /\ "tab" \notin late
  BY DEF LaunchInv, LaunchTypes, HandedOver, TabsBeforeDispatcher, MutexHeld, OpenDeferred, AskOpen,
         on_copydata, Free, Pumps, HasWindow, Primary, HasList
<1>2. CASE OpenDeferred(p)
  <2> DEFINE r == [procs[p] EXCEPT !.at = "up", !.path = NoFile]
  <2>1. /\ r \in Processes /\ r.at = "up" /\ r.recent = procs[p].recent /\ r.job = procs[p].job
        /\ r.box = procs[p].box /\ r.code = procs[p].code
    BY <1>1 DEF Processes, Places
  <2>2. UNCHANGED <<reg, locked, taken, torn, wrong, late>>
    BY <1>2 DEF OpenDeferred
  <2>3. CASE procs[p].path # NoFile /\ Opens(p, r, procs[p].path, NoFile)
    <3>1. procs[p].path \in Names
      BY <1>1, <2>3 DEF Processes
    <3> HIDE DEF r
    <3> QED
      BY <1>1, <2>1, <2>2, <2>3, <3>1, OpensKeeps
  <2>4. CASE procs' = [procs EXCEPT ![p] = r] /\ UNCHANGED moved
    <3> HIDE DEF r
    <3> QED
      BY <1>1, <2>1, <2>2, <2>4, QuietKeeps
  <2> QED
    BY <1>2, <2>3, <2>4 DEF OpenDeferred
<1>3. CASE AskOpen(p)
  <2>1. PICK f \in Files : Opens(p, procs[p], f, NoFile)
    BY <1>3 DEF AskOpen
  <2>2. f \in Names
    BY LaunchConstants DEF Names
  <2>3. procs[p].at \in {"deferred", "up"} /\ UNCHANGED <<reg, locked, taken, torn, wrong, late>>
    BY <1>1, <1>3 DEF AskOpen, HasWindow
  <2> QED
    BY <1>1, <2>1, <2>2, <2>3, OpensKeeps
<1>4. ASSUME NEW q \in Starts, on_copydata(q, p) PROVE LaunchInv'
  <2>1. CASE procs[q].path = NoFile
    <3>1. taken \subseteq taken' /\ UNCHANGED <<procs, reg, locked, torn, moved, wrong, late>>
      BY <1>4, <2>1 DEF on_copydata
    <3>2. procs' = [procs EXCEPT ![p] = procs[p]]
      BY <3>1 DEF LaunchInv, LaunchTypes
    <3>3. procs[p].job # NoSave \/ procs[p].box # NoBox => procs[p].at \in {"deferred", "up"}
      BY <1>1 DEF HasWindow
    <3> QED
      BY <1>1, <3>1, <3>2, <3>3, QuietKeeps
  <2>2. CASE procs[q].path # NoFile
    <3>1. /\ Opens(p, procs[p], procs[q].path, q) /\ procs[p].at \in {"deferred", "up"}
          /\ UNCHANGED <<reg, locked, torn, wrong, late, taken>>
      BY <1>1, <1>4, <2>2 DEF on_copydata, HasWindow
    <3>2. procs[q].path \in Names
      BY <2>2 DEF LaunchInv, LaunchTypes, Processes
    <3> QED
      BY <1>1, <3>1, <3>2, OpensKeeps
  <2> QED
    BY <2>1, <2>2
<1> QED
  BY <1>2, <1>3, <1>4

\* The threads that open documents, and the members of a window that is gone.
LEMMA EndsKeep ==
    ASSUME LaunchInv, NEW p \in Starts, OpenEnds(p) \/ DestroyMember(p)
    PROVE  LaunchInv'
<1>1. /\ procs[p] \in Processes /\ (procs[p].code = "0" => p \in taken) /\ "tab" \notin late
      /\ (Primary(p) => p \in locked)
      /\ (procs[p].job # NoSave \/ procs[p].box # NoBox => procs[p].at \in {"deferred", "up"})
  BY DEF LaunchInv, LaunchTypes, HandedOver, TabsBeforeDispatcher, MutexHeld, InWindow, Saving,
         HasWindow
<1>2. UNCHANGED <<reg, locked, taken, torn, moved, wrong>>
  BY DEF OpenEnds, DestroyMember
<1>3. ASSUME NEW r \in Processes, procs' = [procs EXCEPT ![p] = r], "tab" \notin late',
             r.recent = procs[p].recent, r.job = procs[p].job, r.box = procs[p].box,
             r.at = procs[p].at, r.code = procs[p].code
      PROVE  LaunchInv'
  <2>1. r.at \in {"loaded", "deferred", "up"} => HasList(p)
    BY <1>3 DEF HasList
  <2>2. r.at \in {"first", "loaded", "deferred", "up", "left"} => Primary(p)
    BY <1>3 DEF Primary
  <2> QED
    BY <1>1, <1>2, <1>3, <2>1, <2>2, QuietKeeps
<1>4. CASE OpenEnds(p)
  <2> DEFINE r == [procs[p] EXCEPT !.opening = @ - 1]
             s == [r EXCEPT !.tabs = TRUE]
  <2>1. /\ r \in Processes /\ r.recent = procs[p].recent /\ r.job = procs[p].job
        /\ r.box = procs[p].box /\ r.at = procs[p].at /\ r.code = procs[p].code
    BY <1>1, <1>4 DEF OpenEnds, Processes
  <2>2. procs' = [procs EXCEPT ![p] = r] \/ procs' = [procs EXCEPT ![p] = s]
    BY <1>4 DEF OpenEnds
  <2>3. "tab" \notin late'
    BY <1>1, <1>4 DEF OpenEnds
  <2> HIDE DEF r
  <2>4. /\ s \in Processes /\ s.recent = procs[p].recent /\ s.job = procs[p].job
        /\ s.box = procs[p].box /\ s.at = procs[p].at /\ s.code = procs[p].code
    BY <2>1 DEF Processes
  <2> HIDE DEF s
  <2> QED
    BY <1>3, <2>1, <2>2, <2>3, <2>4
<1>5. CASE DestroyMember(p)
  <2> DEFINE r == [procs[p] EXCEPT !.undone = @ + 1]
             s == [r EXCEPT !.tabs = FALSE]
  <2>1. /\ r \in Processes /\ r.recent = procs[p].recent /\ r.job = procs[p].job
        /\ r.box = procs[p].box /\ r.at = procs[p].at /\ r.code = procs[p].code
        /\ r.undone = procs[p].undone + 1
    BY <1>1 DEF Processes
  <2>2. procs' = [procs EXCEPT ![p] = r] \/ procs' = [procs EXCEPT ![p] = s]
    BY <1>5 DEF DestroyMember
  <2>3. "tab" \notin late'
    <3>1. procs[p].undone \in Nat
      BY <1>1 DEF Processes
    <3>2. ASSUME Destroyed[r.undone] = "tabs_", Undone(p, "search_dispatcher_")
          PROVE  FALSE
      <4>1. PICK i \in 1..procs[p].undone : Destroyed[i] = "search_dispatcher_"
        BY <3>2 DEF Undone
      <4>2. procs[p].undone < 2
        BY <1>5 DEF DestroyMember, Destroyed
      <4>3. i = 1 /\ Destroyed[1] = "tabs_"
        BY <3>1, <4>1, <4>2 DEF Destroyed
      <4> QED
        BY <4>1, <4>3
    <3> QED
      BY <1>1, <1>5, <3>2 DEF DestroyMember
  <2> HIDE DEF r
  <2>4. /\ s \in Processes /\ s.recent = procs[p].recent /\ s.job = procs[p].job
        /\ s.box = procs[p].box /\ s.at = procs[p].at /\ s.code = procs[p].code
    BY <2>1 DEF Processes
  <2> HIDE DEF s
  <2> QED
    BY <1>3, <2>1, <2>2, <2>3, <2>4
<1> QED
  BY <1>4, <1>5

LEMMA ClickKeeps ==
    ASSUME LaunchInv, NEW p \in Starts, ClickRecent(p)
    PROVE  LaunchInv'
<1>1. /\ procs[p] \in Processes /\ HasWindow(p) /\ Primary(p) /\ p \in locked /\ HasList(p)
      /\ (procs[p].code = "0" => p \in taken) /\ "tab" \notin late
      /\ procs[p].job = NoSave /\ procs[p].box = NoBox
  BY DEF LaunchInv, LaunchTypes, HandedOver, TabsBeforeDispatcher, MutexHeld, ClickRecent,
         Free, Pumps, Saving, HasWindow, Primary, HasList
<1>2. UNCHANGED <<reg, locked, taken, torn, moved, wrong, late>>
  BY DEF ClickRecent
<1>3. PICK i \in DOMAIN procs[p].recent :
         \/ procs' = [procs EXCEPT ![p].opening = @ + 1]
         \/ procs' = [procs EXCEPT ![p].box = [index |-> i, file |-> procs[p].recent[i]]]
  BY DEF ClickRecent
<1>4. CASE procs' = [procs EXCEPT ![p].opening = @ + 1]
  <2> DEFINE r == [procs[p] EXCEPT !.opening = @ + 1]
  <2>1. /\ r \in Processes /\ r.recent = procs[p].recent /\ r.job = procs[p].job
        /\ r.box = procs[p].box /\ r.at = procs[p].at /\ r.code = procs[p].code
    BY <1>1 DEF Processes
  <2>2. procs' = [procs EXCEPT ![p] = r]
    BY <1>4
  <2> HIDE DEF r
  <2> QED
    BY <1>1, <1>2, <2>1, <2>2, QuietKeeps
<1>5. CASE procs' = [procs EXCEPT ![p].box = [index |-> i, file |-> procs[p].recent[i]]]
  <2> DEFINE b == [index |-> i, file |-> procs[p].recent[i]]
             r == [procs[p] EXCEPT !.box = b]
  <2>1. b \in Boxes
    <3>1. procs[p].recent \in Seq(Names)
      BY <1>1 DEF Processes, Lists
    <3> QED
      BY <3>1 DEF Boxes
  <2>2. /\ r \in Processes /\ r.recent = procs[p].recent /\ r.job = procs[p].job
        /\ r.box = b /\ r.at = procs[p].at /\ r.code = procs[p].code
    BY <1>1, <2>1 DEF Processes
  <2>3. procs' = [procs EXCEPT ![p] = r] /\ b.index = i /\ b.file = procs[p].recent[i]
    BY <1>5
  <2> HIDE DEF r, b
  <2>4. /\ procs' \in [Starts -> Processes] /\ procs'[p] = r
        /\ \A q \in Starts \ {p} : procs'[q] = procs[q]
    BY <2>2, <2>3, OneProcess DEF LaunchInv
  <2>5. \A q \in Starts : /\ procs'[q].recent = procs[q].recent /\ procs'[q].job = procs[q].job
                          /\ procs'[q].at = procs[q].at /\ procs'[q].code = procs[q].code
    BY <2>2, <2>4
  <2>6. LaunchTypes' /\ OnePrimary' /\ MutexHeld'
    BY <1>2, <2>4, <2>5 DEF LaunchInv, LaunchTypes, OnePrimary, MutexHeld, Primary
  <2>7. InWindow'
    BY <1>1, <1>2, <2>2, <2>3, <2>4, <2>5 DEF LaunchInv, InWindow, HasWindow, Saving
  <2>8. RegistryKept'
    BY <1>2, <2>5 DEF LaunchInv, RegistryKept, WrittenTo, Saving, HasList
  <2>9. HandedOver' /\ RemovesShown' /\ TabsBeforeDispatcher'
    BY <1>2, <2>5 DEF LaunchInv, HandedOver, RemovesShown, TabsBeforeDispatcher
  <2> QED
    BY <2>6, <2>7, <2>8, <2>9 DEF LaunchInv
<1> QED
  BY <1>3, <1>4, <1>5

LEMMA BoxKeeps ==
    ASSUME LaunchInv, NEW p \in Starts, BoxClosed(p)
    PROVE  LaunchInv'
<1>1. /\ procs[p] \in Processes /\ HasWindow(p) /\ procs[p].at \in {"deferred", "up"}
      /\ procs[p].recent \in Lists
  BY DEF LaunchInv, LaunchTypes, BoxClosed, Pumps, HasWindow, Processes
<1> DEFINE rest == remove(procs[p].recent, procs[p].box.index)
           j    == [NoSave EXCEPT !.next = 0]
           r    == [procs[p] EXCEPT !.recent = rest, !.box = NoBox, !.job = j]
<1>2. rest \in Lists /\ (IsInjective(procs[p].recent) => IsInjective(rest))
  BY <1>1, RemoveIs
<1>3. j \in Saves /\ j # NoSave /\ j.next = 0
  BY LaunchConstants DEF NoSave, Saves
<1>4. NoBox \in Boxes
  BY DEF NoBox, Boxes
<1>5. procs' = [procs EXCEPT ![p] = r] /\ UNCHANGED <<reg, locked, taken, torn, moved, late>>
  BY DEF BoxClosed
<1>6. wrong' => moved' \/ torn'
  <2> DEFINE b == procs[p].box
             other == b.index \in DOMAIN procs[p].recent /\ procs[p].recent[b.index] # b.file
  <2>1. other => moved
    BY DEF BoxClosed, LaunchInv, InWindow
  <2>2. wrong' = (wrong \/ other)
    BY DEF BoxClosed
  <2>3. wrong => moved \/ torn
    BY DEF LaunchInv, RemovesShown
  <2> HIDE DEF other
  <2> QED
    BY <1>5, <2>1, <2>2, <2>3
<1> HIDE DEF rest, j
<1>7. /\ r \in Processes /\ r.at = procs[p].at /\ r.recent = rest /\ r.job = j /\ r.box = NoBox
      /\ r.code = procs[p].code
  BY <1>1, <1>2, <1>3, <1>4 DEF Processes
<1> HIDE DEF r
<1> QED
  BY <1>1, <1>2, <1>3, <1>5, <1>6, <1>7, SaveBegins

-----------------------------------------------------------------------------
(* A save, value by value.                                                 *)

LEMMA WrittenIs ==
    ASSUME LaunchTypes, NEW l \in Lists, NEW i \in 0..kMaxEntries
    PROVE  Written(l, i) \in Registries
<1>1. /\ reg \in Registries /\ l \in Seq(Names) /\ Len(l) \in 0..kMaxEntries
      /\ \A k \in 1..Len(l) : l[k] \in Names
  BY LaunchConstants DEF LaunchTypes, Lists
<1>2. CASE i = 0
  BY <1>1, <1>2 DEF Written, Registries
<1>3. CASE i # 0
  <2> DEFINE v == IF i <= Len(l) THEN l[i] ELSE NoFile
  <2>1. i \in Slots /\ v \in Names \cup {NoFile}
    BY <1>1, <1>3, LaunchConstants DEF Slots
  <2>2. Written(l, i) = [reg EXCEPT !.entry = [reg.entry EXCEPT ![i] = v]]
    BY <1>1, <1>3 DEF Written, Registries
  <2> HIDE DEF v
  <2>3. [reg.entry EXCEPT ![i] = v] \in [Slots -> Names \cup {NoFile}]
    BY <1>1, <2>1 DEF Registries
  <2> QED
    BY <1>1, <2>2, <2>3 DEF Registries
<1> QED
  BY <1>2, <1>3

LEMMA WrittenNext ==
    ASSUME LaunchTypes, NEW l \in Lists, NEW i \in 0..kMaxEntries, WrittenTo(reg, l, i)
    PROVE  WrittenTo(Written(l, i), l, i + 1)
<1>1. /\ reg \in Registries /\ l \in Seq(Names) /\ Len(l) \in 0..kMaxEntries
  BY LaunchConstants DEF LaunchTypes, Lists
<1>2. kMaxEntries \in Nat
  BY LaunchConstants
<1>3. CASE i = 0
  BY <1>1, <1>2, <1>3 DEF Written, Registries, WrittenTo, Slots
<1>4. CASE i # 0
  <2> DEFINE w == Written(l, i)
  <2>1. i \in Slots
    BY <1>2, <1>4 DEF Slots
  <2>2. /\ w.count = reg.count
        /\ \A k \in Slots : w.entry[k] = IF k = i THEN IF i <= Len(l) THEN l[i] ELSE NoFile
                                                  ELSE reg.entry[k]
    BY <1>1, <1>4, <2>1 DEF Written, Registries
  <2> HIDE DEF w
  <2>3. w.count = Len(l)
    BY <1>4, <2>2 DEF WrittenTo
  <2>4. ASSUME NEW k \in Slots, k < i + 1
        PROVE  w.entry[k] = IF k <= Len(l) THEN l[k] ELSE NoFile
    <3>1. k \in Nat /\ (k = i \/ k < i)
      BY <1>2, <2>4 DEF Slots
    <3> QED
      BY <2>2, <2>4, <3>1 DEF WrittenTo
  <2>5. WrittenTo(w, l, i + 1)
    BY <2>3, <2>4 DEF WrittenTo
  <2> QED
    BY <2>5 DEF w
<1> QED
  BY <1>3, <1>4

LEMMA WrittenWhole ==
    ASSUME NEW r \in Registries, NEW l \in Lists, WrittenTo(r, l, kMaxEntries + 1)
    PROVE  r = Registry(l)
<1>1. r.count = Len(l)
  BY LaunchConstants DEF WrittenTo
<1>2. r.entry = [i \in Slots |-> IF i <= Len(l) THEN l[i] ELSE NoFile]
  <2>1. r.entry = [i \in Slots |-> r.entry[i]]
    BY DEF Registries
  <2>2. \A i \in Slots : r.entry[i] = IF i <= Len(l) THEN l[i] ELSE NoFile
    BY LaunchConstants DEF WrittenTo, Slots
  <2> QED
    BY <2>1, <2>2
<1>3. r = [count |-> r.count, entry |-> r.entry]
  BY DEF Registries
<1> QED
  BY <1>1, <1>2, <1>3 DEF Registry

LEMMA SaveKeeps ==
    ASSUME LaunchInv, NEW p \in Starts, Save(p)
    PROVE  LaunchInv'
<1> DEFINE i == procs[p].job.next
           l == procs[p].recent
<1>1. /\ procs[p] \in Processes /\ Saving(p) /\ HasWindow(p) /\ Primary(p) /\ p \in locked
      /\ l \in Lists /\ procs[p].job \in Saves /\ i \in 0..kMaxEntries
      /\ (procs[p].code = "0" => p \in taken)
  BY DEF LaunchInv, LaunchTypes, Save, HasWindow, Primary, Processes, InWindow, MutexHeld, Saves,
         Saving, HandedOver
<1>2. \A q \in Starts \ {p} : ~Primary(q) /\ ~HasList(q) /\ ~Saving(q)
  BY <1>1, OnlyWindow
<1>3. ASSUME NEW r \in Processes, procs' = [procs EXCEPT ![p] = r],
             r.at = procs[p].at, r.recent = l, r.box = procs[p].box, r.code = procs[p].code,
             reg' \in Registries, torn => torn',
             ~torn' => IF r.job = NoSave THEN reg' = Registry(l) ELSE WrittenTo(reg', l, r.job.next),
             taken \subseteq taken', UNCHANGED <<locked, moved, wrong, late>>
      PROVE  LaunchInv'
  <2>1. /\ procs' \in [Starts -> Processes] /\ procs'[p] = r
        /\ \A q \in Starts \ {p} : procs'[q] = procs[q]
    BY <1>3, OneProcess DEF LaunchInv
  <2>2. LaunchTypes'
    BY <1>3, <2>1 DEF LaunchTypes
  <2>3. OnePrimary' /\ MutexHeld'
    BY <1>3, <2>1 DEF LaunchInv, OnePrimary, MutexHeld, Primary
  <2>4. InWindow'
    BY <1>1, <1>3, <2>1 DEF LaunchInv, InWindow, HasWindow, Saving
  <2>5. RegistryKept'
    <3>1. \A q \in Starts \ {p} : ~HasList(q)' /\ ~Saving(q)'
      BY <1>2, <2>1 DEF HasList, Saving
    <3>2. /\ procs'[p].recent = l /\ procs'[p].job = r.job /\ (Saving(p)' <=> r.job # NoSave)
      BY <1>3, <2>1 DEF Saving
    <3>3. ~torn' => \A q \in Starts : IsInjective(procs'[q].recent)
      BY <1>3, <2>1, <3>2 DEF LaunchInv, RegistryKept
    <3> QED
      BY <1>1, <1>3, <3>1, <3>2, <3>3 DEF RegistryKept
  <2>6. HandedOver' /\ RemovesShown' /\ TabsBeforeDispatcher'
    BY <1>3, <2>1 DEF LaunchInv, HandedOver, RemovesShown, TabsBeforeDispatcher
  <2> QED
    BY <2>2, <2>3, <2>4, <2>5, <2>6 DEF LaunchInv
<1>4. UNCHANGED <<locked, moved, wrong, late>>
  BY DEF Save
<1>5. ASSUME SaveEnds(p), reg' \in Registries, torn => torn', ~torn' => reg' = Registry(l)
      PROVE  LaunchInv'
  <2> DEFINE n == IF procs[p].job.then = NoFile THEN procs[p].opening ELSE procs[p].opening + 1
             r == [procs[p] EXCEPT !.job = NoSave, !.opening = n]
  <2>1. procs' = [procs EXCEPT ![p] = r] /\ taken \subseteq taken'
    BY <1>5 DEF SaveEnds
  <2>2. n \in Nat
    BY <1>1 DEF Processes
  <2> HIDE DEF n
  <2>3. /\ r \in Processes /\ r.at = procs[p].at /\ r.recent = l /\ r.box = procs[p].box
        /\ r.code = procs[p].code /\ r.job = NoSave
    BY <1>1, <2>2 DEF Processes
  <2> HIDE DEF r
  <2> QED
    BY <1>3, <1>4, <1>5, <2>1, <2>3
<1>6. ASSUME reg' = Written(l, i), UNCHANGED torn,
             \/ i < kMaxEntries /\ procs' = [procs EXCEPT ![p].job.next = i + 1] /\ UNCHANGED taken
             \/ i >= kMaxEntries /\ SaveEnds(p)
      PROVE  LaunchInv'
  <2>1. Written(l, i) \in Registries
    BY <1>1, WrittenIs DEF LaunchInv
  <2>2. ~torn => WrittenTo(reg', l, i + 1)
    <3>1. ~torn => WrittenTo(reg, l, i)
      BY <1>1 DEF LaunchInv, RegistryKept
    <3> QED
      BY <1>1, <1>6, <3>1, WrittenNext DEF LaunchInv
  <2>3. CASE i < kMaxEntries /\ procs' = [procs EXCEPT ![p].job.next = i + 1] /\ UNCHANGED taken
    <3> DEFINE j == [procs[p].job EXCEPT !.next = i + 1]
               r == [procs[p] EXCEPT !.job = j]
    <3>1. procs' = [procs EXCEPT ![p] = r]
      BY <2>3
    <3>2. j \in Saves /\ j.next = i + 1 /\ j # NoSave
      <4>1. i \in Nat /\ kMaxEntries \in Nat /\ i < kMaxEntries /\ NoSave.next = -1
        BY <1>1, <2>3, LaunchConstants DEF NoSave
      <4>2. i + 1 \in 0..kMaxEntries /\ i + 1 # -1
        BY <4>1
      <4>3. j \in Saves /\ j.next = i + 1
        BY <1>1, <4>2 DEF Saves
      <4> QED
        BY <4>1, <4>2, <4>3
    <3> HIDE DEF j
    <3>3. /\ r \in Processes /\ r.at = procs[p].at /\ r.recent = l /\ r.box = procs[p].box
          /\ r.code = procs[p].code /\ r.job = j
      BY <1>1, <3>2 DEF Processes
    <3> HIDE DEF r
    <3>4. UNCHANGED taken
      BY <2>3
    <3> QED
      BY <1>3, <1>4, <1>6, <2>1, <2>2, <3>1, <3>2, <3>3, <3>4
  <2>4. CASE i >= kMaxEntries /\ SaveEnds(p)
    <3>1. i = kMaxEntries
      BY <1>1, <2>4, LaunchConstants
    <3>2. ~torn => reg' = Registry(l)
      BY <1>1, <1>6, <2>1, <2>2, <3>1, WrittenWhole
    <3> QED
      BY <1>5, <1>6, <2>1, <2>4, <3>2
  <2> QED
    BY <1>6, <2>3, <2>4
<1>7. CASE SaveEnds(p) /\ torn' = TRUE /\ UNCHANGED reg
  BY <1>5, <1>7 DEF LaunchInv, LaunchTypes
<1> QED
  BY <1>6, <1>7 DEF Save

-----------------------------------------------------------------------------
(* The end of a process, and all of them together.                         *)

LEMMA EndedKeeps ==
    ASSUME LaunchInv, NEW p \in Starts, End(p) \/ Die(p)
    PROVE  LaunchInv'
<1> DEFINE r == [NewProcess EXCEPT !.at = "gone", !.path = procs[p].path, !.code = procs[p].code]
<1>1. procs[p] \in Processes
  BY DEF LaunchInv, LaunchTypes
<1>2. /\ procs' = [procs EXCEPT ![p] = r] /\ locked' = locked \ {p}
      /\ UNCHANGED <<reg, taken, moved, wrong, late>>
      /\ (torn' <=> torn \/ Saving(p))
  <2>1. CASE End(p)
    <3>1. ~Saving(p)
      BY <2>1 DEF End, LaunchInv, InWindow, HasWindow
    <3> QED
      BY <2>1, <3>1 DEF End, Ended
  <2>2. CASE Die(p)
    BY <2>2 DEF Die, Ended
  <2> QED
    BY <2>1, <2>2
<1>3. <<>> \in Lists /\ IsInjective(<<>>) /\ NoBox \in Boxes
  BY LaunchConstants DEF Lists, IsInjective, NoBox, Boxes
<1>4. /\ r \in Processes /\ r.at = "gone" /\ r.recent = <<>> /\ r.job = NoSave
      /\ r.box = NoBox /\ r.code = procs[p].code
  BY <1>1, <1>3 DEF Processes, NewProcess, Places
<1> HIDE DEF r
<1>5. /\ procs' \in [Starts -> Processes] /\ procs'[p] = r
      /\ \A q \in Starts \ {p} : procs'[q] = procs[q]
  BY <1>2, <1>4, OneProcess DEF LaunchInv
<1>6. LaunchTypes'
  BY <1>2, <1>5 DEF LaunchInv, LaunchTypes
<1>7. OnePrimary' /\ MutexHeld'
  BY <1>2, <1>4, <1>5 DEF LaunchInv, OnePrimary, MutexHeld, Primary
<1>8. InWindow'
  BY <1>2, <1>4, <1>5 DEF LaunchInv, InWindow, HasWindow, Saving
<1>9. RegistryKept'
  <2>1. ~Saving(p)' /\ ~HasList(p)' /\ (torn' <=> torn \/ Saving(p)) /\ reg' = reg
    BY <1>2, <1>4, <1>5 DEF Saving, HasList
  <2>2. \A q \in Starts \ {p} : (Saving(q)' <=> Saving(q)) /\ (HasList(q)' <=> HasList(q))
    BY <1>5 DEF Saving, HasList
  <2> QED
    BY <1>3, <1>4, <1>5, <2>1, <2>2 DEF LaunchInv, RegistryKept
<1>10. HandedOver' /\ RemovesShown' /\ TabsBeforeDispatcher'
  BY <1>2, <1>4, <1>5 DEF LaunchInv, HandedOver, RemovesShown, TabsBeforeDispatcher
<1> QED
  BY <1>6, <1>7, <1>8, <1>9, <1>10 DEF LaunchInv

LEMMA LaunchStart == LaunchInit => LaunchInv
<1> SUFFICES ASSUME LaunchInit PROVE LaunchInv
  OBVIOUS
<1>1. PICK l \in Listed : reg = Registry(l)
  BY DEF LaunchInit
<1>2. l \in Lists /\ IsInjective(l)
  <2>1. l \in Seq(ToSet(l)) /\ NoFile \notin ToSet(l) /\ Len(l) <= kMaxEntries /\ IsInjective(l)
    BY LaunchConstants
  <2>2. ToSet(l) \subseteq Names
    BY <2>1 DEF Names
  <2> QED
    BY <2>1, <2>2 DEF Lists
<1>3. reg \in Registries
  <2>1. l \in Seq(Names) /\ Len(l) \in 0..kMaxEntries
    BY <1>2, LaunchConstants DEF Lists
  <2>2. \A i \in Slots : (IF i <= Len(l) THEN l[i] ELSE NoFile) \in Names \cup {NoFile}
    BY <2>1 DEF Slots
  <2> QED
    BY <1>1, <2>1, <2>2 DEF Registry, Registries
<1>4. <<>> \in Lists /\ IsInjective(<<>>) /\ NoBox \in Boxes
  BY LaunchConstants DEF Lists, IsInjective, NoBox, Boxes
<1>5. NewProcess \in Processes /\ \A p \in Starts : procs[p] = NewProcess
  BY <1>4 DEF NewProcess, Processes, Places, LaunchInit
<1>6. LaunchTypes
  BY <1>3, <1>5 DEF LaunchInit, LaunchTypes
<1>7. /\ NewProcess.at = "new" /\ NewProcess.code = "none" /\ NewProcess.job = NoSave
      /\ NewProcess.box = NoBox /\ NewProcess.recent = <<>>
  BY DEF NewProcess
<1>8. OnePrimary /\ MutexHeld /\ InWindow
  BY <1>5, <1>7 DEF OnePrimary, MutexHeld, InWindow, Primary, Saving
<1>9. RegistryKept
  BY <1>1, <1>2, <1>4, <1>5, <1>7 DEF RegistryKept, HasList, Saving
<1>10. HandedOver /\ RemovesShown /\ TabsBeforeDispatcher
  BY <1>5, <1>7 DEF LaunchInit, HandedOver, RemovesShown, TabsBeforeDispatcher
<1> QED
  BY <1>6, <1>8, <1>9, <1>10 DEF LaunchInv

LEMMA LaunchesKeep == LaunchInv /\ [LaunchNext]_launchVars => LaunchInv'
<1> SUFFICES ASSUME LaunchInv, [LaunchNext]_launchVars PROVE LaunchInv'
  OBVIOUS
<1>1. CASE UNCHANGED launchVars
  BY <1>1 DEF launchVars, LaunchInv, LaunchTypes, OnePrimary, Primary, MutexHeld, InWindow, Saving,
              HasWindow, RegistryKept, HasList, WrittenTo, HandedOver, RemovesShown,
              TabsBeforeDispatcher
<1>2. CASE LaunchNext
  <2> PICK p \in Starts :
        \/ Gate(p) \/ NotFirst(p) \/ Forward(p) \/ Sent(p) \/ \E q \in Starts : on_copydata(q, p)
        \/ Construct(p) \/ CreateWindow(p) \/ OpenDeferred(p) \/ AskOpen(p)
        \/ ClickRecent(p) \/ BoxClosed(p) \/ Save(p) \/ OpenEnds(p) \/ Close(p)
        \/ Leave(p) \/ DestroyMember(p) \/ End(p) \/ Die(p)
    BY <1>2 DEF LaunchNext
  <2> QED
    BY GateKeeps, StartsKeep, OpeningKeeps, ConstructKeeps, WindowKeeps, ClickKeeps, BoxKeeps,
       SaveKeeps, EndsKeep, EndedKeeps
<1> QED
  BY <1>1, <1>2

\* At most one process owns the window and writes the recent files, a start that
\* reports success has handed its file over, the registry has the window's list
\* unless a save was torn, a box removes the entry it showed unless a start's file
\* moved it, and no tab's view outlives the dispatcher: whatever processes start,
\* die or are closed in whatever order.
THEOREM LaunchesAlwaysSound == LaunchSpec => []LaunchesSound
<1>1. LaunchInv => LaunchesSound
  <2> SUFFICES ASSUME LaunchInv PROVE RecentKept
    BY DEF LaunchInv, LaunchesSound
  <2>1. ASSUME NEW p \in Starts, ~torn, HasList(p), ~Saving(p) PROVE procs[p].recent = load
    BY <2>1, LoadsBack DEF LaunchInv, LaunchTypes, Processes, RegistryKept
  <2>2. ASSUME NEW p \in Starts, ~torn
        PROVE  IsInjective(procs[p].recent) /\ Len(procs[p].recent) <= kMaxEntries
    BY <2>2 DEF LaunchInv, LaunchTypes, Processes, Lists, RegistryKept
  <2> QED
    BY <2>1, <2>2 DEF RecentKept, HasList
<1> QED
  BY <1>1, LaunchStart, LaunchesKeep, PTL DEF LaunchSpec
=============================================================================
