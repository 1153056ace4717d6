----------------------------- MODULE MainWindow -----------------------------
(***************************************************************************)
(* The main window over the life of its process (ui/MainWindow.cpp and     *)
(* main.cpp): documents opened by workers, the chain that restores a       *)
(* crashed session one tab at a time, and the saves of the session file.   *)
(*                                                                         *)
(* Everything runs on the window's thread, but a dialog (the restore       *)
(* offer, a password prompt, an error box) runs a message loop of its own  *)
(* inside the handler that shows it: workers' messages, the save timer,    *)
(* files forwarded by a second process and the end of the session are      *)
(* handled there.  `modals` is the stack of handlers so suspended; only    *)
(* the last can go on.                                                     *)
(*                                                                         *)
(* A tab is its path and its page (1 stands for the saved page, 0 for the  *)
(* first).  `slot` in a tab, an open or a prompt is the position in the    *)
(* restore queue it was issued for, 0 for a reader's own; the program does *)
(* not keep it.  Left out: the recent-files list, the window's placement.  *)
(***************************************************************************)
EXTENDS SessionStore, Filter, FiniteSets

CONSTANTS
    Paths,         \* the documents there are
    NoPath,        \* the empty path
    Encrypted,     \* those that ask for a password
    Crashed,       \* the tabs of the session first found on the disk
    MaxOpens,      \* bound: documents being opened at once
    MaxTabs,       \* bound: tabs and documents being opened
    MaxAsks,       \* bound: documents a reader or a second process asks for
    MaxRuns        \* bound: processes started

ASSUME PathsAssumption == NoPath \notin Paths /\ Encrypted \subseteq Paths
ASSUME CrashedAssumption == Crashed \in Seq([path : Paths, page : 0..1, slot : {0}])

VARIABLES
    up,            \* the process runs
    modals,        \* handlers suspended in a dialog
    tabs,          \* the list of open tabs
    opens,         \* documents on their way: workers, and messages posted
    restoring,     \* restoring_
    queue,         \* restore_queue_
    index,         \* restore_index_, 1 for the first slot
    pending,       \* restore_pending_path_
    timer,         \* the save timer is set
    deferred,      \* deferred_initial_path_
    asks,          \* documents asked for by a reader so far, for the bound
    offered,       \* the session offered at the start of this run
    foul,          \* a reader's open the chain cannot tell from its own
    owed,          \* the session an exit in mid-restore left to offer again
    runs           \* processes started so far, for the bound

restore == <<restoring, queue, index, pending>>
memory == <<up, modals, tabs, opens, restore, timer, deferred, asks, offered, foul>>
vars == <<disk, saving, memory, owed, runs>>

Forgotten ==
    /\ modals' = <<>> /\ tabs' = NoTabs /\ opens' = {}
    /\ restoring' = FALSE /\ queue' = <<>> /\ index' = 0 /\ pending' = NoPath
    /\ timer' = FALSE /\ deferred' = NoPath /\ asks' = 0
    /\ offered' = NoFile /\ foul' = FALSE /\ saving' = NotSaving

Init ==
    /\ up = FALSE /\ modals = <<>> /\ tabs = NoTabs /\ opens = {}
    /\ restoring = FALSE /\ queue = <<>> /\ index = 0 /\ pending = NoPath
    /\ timer = FALSE /\ deferred = NoPath /\ asks = 0
    /\ offered = NoFile /\ foul = FALSE /\ saving = NotSaving
    /\ owed = NoFile /\ bak \in {NoFile, Torn} /\ runs = 0
    /\ marker \in BOOLEAN
    /\ file \in {NoFile} \cup
         {[version |-> v, list |-> [tabs |-> Crashed, active |-> Len(Crashed)]] : v \in 1..2}

-----------------------------------------------------------------------------
(* Opening: a worker opens the document and posts what became of it.       *)

\* The window's loop, or a dialog's, takes the next message.
Dispatching == up /\ saving = NotSaving

InFlight(paths, slot) ==
    LET free == (1..MaxOpens) \ {o.id : o \in opens}
    IN {[id |-> CHOOSE i \in free : \A j \in free : i <= j, path |-> p, slot |-> slot] :
          p \in paths}

schedule_session_save == timer' = (timer \/ ~restoring)

\* capture_session: every tab here has a path, so none is left out.
capture_session ==
    Session([tabs EXCEPT !.tabs =
               [i \in DOMAIN @ |-> [path |-> @[i].path, page |-> @[i].page, slot |-> 0]]])

open_deferred(opens0) ==
    /\ deferred' = NoPath
    /\ opens' = opens0 \cup InFlight({deferred} \ {NoPath}, 0)

-----------------------------------------------------------------------------
(* Restoring: one document at a time, each issued when the one before it   *)
(* has come or failed.                                                     *)

ByPath(list, path) ==
    LET same == {i \in DOMAIN list.tabs : list.tabs[i].path = path}
    IN IF same = {} THEN set_active(list, IF list.tabs = <<>> THEN 0 ELSE 1)
       ELSE set_active(list, CHOOSE i \in same : \A j \in same : i <= j)

\* The saved-active document, or the first when it was left out of the queue.
restore_active_path ==
    LET wanted == active_tab(offered.list).path
    IN IF \E i \in DOMAIN queue : queue[i].path = wanted THEN wanted ELSE queue[1].path

restore_finish(list, opens0) ==
    /\ tabs' = ByPath(list, restore_active_path)
    /\ restoring' = FALSE /\ queue' = <<>> /\ pending' = NoPath /\ index' = index + 1
    /\ open_deferred(opens0)
    /\ timer' = TRUE

\* restore_open_next after ++restore_index_.
restore_open_next(list, opens0) ==
    IF index >= Len(queue) THEN restore_finish(list, opens0)
    ELSE /\ tabs' = list
         /\ index' = index + 1
         /\ pending' = queue[index + 1].path
         /\ opens' = opens0 \cup InFlight({queue[index + 1].path}, index + 1)
         /\ UNCHANGED <<restoring, queue, deferred, timer>>

\* Fault: any document that arrives is taken for the chain's own.
ConsumesSlot_AnyOpen(path) == restoring

\* restore_on_tab_ready's guard against a concurrent open.
ConsumesSlot(path) == restoring /\ index <= Len(queue) /\ path = pending

\* add_tab, then restore_on_tab_ready with the tab it made active.
TabArrives(o, mine, opens0) ==
    LET new == add_tab(tabs, [path |-> o.path, page |-> 0, slot |-> o.slot])
        placed == [new EXCEPT !.tabs[new.active].page = queue[index].page]
    IN IF mine /\ ConsumesSlot(o.path)
       THEN restore_open_next(placed, opens0)
       ELSE /\ tabs' = new
            /\ opens' = opens0
            /\ schedule_session_save
            /\ UNCHANGED <<restore, deferred>>

\* Fault: a document that cannot be restored leaves the chain where it is.
restore_on_tab_failed_Stops(opens0) ==
    opens' = opens0 /\ UNCHANGED <<tabs, restore, timer, deferred>>

\* Charged to the slot in hand, whichever open it was.
restore_on_tab_failed(opens0) ==
    IF restoring THEN restore_open_next(tabs, opens0)
    ELSE opens' = opens0 /\ UNCHANGED <<tabs, restore, timer, deferred>>

ShowsBox(opens0) ==
    /\ modals' = Append(modals, [kind |-> "box"])
    /\ opens' = opens0
    /\ UNCHANGED <<tabs, restore, timer, deferred>>

-----------------------------------------------------------------------------
(* What the workers post.                                                  *)

WM_USER_OPEN_OK(o) ==
    /\ o.path \notin Encrypted
    /\ TabArrives(o, TRUE, opens \ {o})
    /\ UNCHANGED <<modals, foul>>

\* The failed document is named.
WM_USER_OPEN_FAILED(o) ==
    IF restoring /\ o.path = pending
    THEN restore_on_tab_failed(opens \ {o}) /\ UNCHANGED <<modals, foul>>
    ELSE ShowsBox(opens \ {o}) /\ UNCHANGED foul

\* The view could not be built, or a message could not be posted: no name,
\* and a chain in progress takes the failure for its own.
WM_USER_OPEN_FAILED_unnamed(o) ==
    IF restoring
    THEN /\ restore_on_tab_failed(opens \ {o})
         /\ foul' = (foul \/ o.slot # index)
         /\ UNCHANGED modals
    ELSE ShowsBox(opens \ {o}) /\ UNCHANGED foul

\* Fault: whoever asked for the document, the prompt ends a slot.
IsRestoreTab_Any(o) == restoring

\* is_restore_tab, read before the prompt's own loop runs.
IsRestoreTab(o) == restoring /\ o.path = pending

WM_USER_PASSWORD_PROMPT(o) ==
    /\ o.path \in Encrypted
    /\ modals' = Append(modals, [kind |-> "prompt", open |-> o, mine |-> IsRestoreTab(o)])
    /\ opens' = opens \ {o}
    /\ UNCHANGED <<tabs, restore, timer, deferred, foul>>

OpenEnds(id) ==
    /\ Dispatching
    /\ \E o \in opens :
         /\ o.id = id
         /\ \/ WM_USER_OPEN_OK(o)
            \/ WM_USER_OPEN_FAILED(o)
            \/ WM_USER_OPEN_FAILED_unnamed(o)
            \/ WM_USER_PASSWORD_PROMPT(o)
    /\ UNCHANGED <<up, disk, saving, asks, offered, owed, runs>>

-----------------------------------------------------------------------------
(* What the reader answers in the last dialog.                             *)

Top(kind) == Dispatching /\ modals # <<>> /\ Last(modals).kind = kind

\* Three wrong passwords, or one cancelled prompt; only a reader's own
\* document says so in a box.
PasswordRefused ==
    /\ Top("prompt")
    /\ LET m == Last(modals)
       IN IF m.mine
          THEN restore_on_tab_failed(opens) /\ modals' = Front(modals)
          ELSE /\ modals' \in {Front(modals), Append(Front(modals), [kind |-> "box"])}
               /\ UNCHANGED <<opens, tabs, restore, timer, deferred>>
    /\ UNCHANGED <<up, foul, disk, saving, asks, offered, owed, runs>>

PasswordAccepted ==
    /\ Top("prompt")
    /\ TabArrives(Last(modals).open, Last(modals).mine, opens)
    /\ modals' = Front(modals)
    /\ UNCHANGED <<up, foul, disk, saving, asks, offered, owed, runs>>

\* The view could not be built from the authenticated document.
PasswordThenThrow ==
    /\ Top("prompt")
    /\ LET m == Last(modals)
       IN IF m.mine
          THEN restore_on_tab_failed(opens) /\ modals' = Front(modals)
          ELSE /\ modals' = Append(Front(modals), [kind |-> "box"])
               /\ UNCHANGED <<opens, tabs, restore, timer, deferred>>
    /\ UNCHANGED <<up, foul, disk, saving, asks, offered, owed, runs>>

BoxDismissed ==
    /\ Top("box")
    /\ modals' = Front(modals)
    /\ UNCHANGED <<up, tabs, opens, restore, timer, deferred, asks, offered, foul, disk, saving, owed, runs>>

OfferDeclined ==
    /\ Top("offer")
    /\ modals' = <<>> /\ queue' = <<>>
    /\ open_deferred(opens)
    /\ UNCHANGED <<up, tabs, restoring, index, pending, timer, asks, offered, foul, disk, saving, owed, runs>>

OfferAccepted ==
    /\ Top("offer")
    /\ modals' = <<>>
    /\ restoring' = TRUE /\ index' = 1 /\ pending' = queue[1].path
    /\ opens' = opens \cup InFlight({queue[1].path}, 1)
    /\ UNCHANGED <<up, tabs, queue, timer, deferred, asks, offered, foul, disk, saving, owed, runs>>

Answer ==
    \/ PasswordRefused \/ PasswordAccepted \/ PasswordThenThrow
    \/ BoxDismissed \/ OfferDeclined \/ OfferAccepted
-----------------------------------------------------------------------------
(* The reader, and the second process.                                     *)

Held == Len(tabs.tabs) + Cardinality(opens) + Len(SelectSeq(modals, LAMBDA m : m.kind = "prompt"))

\* A document asked for: MaxAsks and MaxTabs bound how many.
open_tab_async(p) ==
    /\ Dispatching /\ asks < MaxAsks /\ Held < MaxTabs
    /\ asks' = asks + 1
    /\ opens' = opens \cup InFlight({p}, 0)
    /\ foul' = (foul \/ \E n \in DOMAIN queue : queue[n].path = p)
    /\ UNCHANGED <<up, modals, tabs, restore, timer, deferred, offered, disk, saving, owed, runs>>

\* Dropped on the window or chosen in it: not while a dialog disables it.
AskedHere(p) == modals = <<>> /\ open_tab_async(p)

\* A second process finds this one and sends it its file, which is a message
\* a dialog's loop takes too (forward_to_running_instance, on_copydata).
Forwarded(p) == up /\ open_tab_async(p)

\* Closing and switching need the window itself, which a dialog disables.
on_tab_close_request(i) ==
    /\ Dispatching /\ modals = <<>>
    /\ tabs' = remove(tabs, i)
    /\ schedule_session_save
    /\ UNCHANGED <<up, modals, opens, restore, deferred, asks, offered, foul, disk, saving, owed, runs>>

on_tab_switch(i) ==
    /\ Dispatching /\ modals = <<>> /\ i # tabs.active
    /\ tabs' = set_active(tabs, i)
    /\ schedule_session_save
    /\ UNCHANGED <<up, modals, opens, restore, deferred, asks, offered, foul, disk, saving, owed, runs>>

\* Another page or zoom: the tab is no longer where the chain put it.
PageTurned ==
    /\ Dispatching /\ modals = <<>> /\ tabs.active # 0
    /\ active_tab(tabs).page = 1
    /\ tabs' = [tabs EXCEPT !.tabs[tabs.active] = [@ EXCEPT !.page = 0, !.slot = 0]]
    /\ schedule_session_save
    /\ UNCHANGED <<up, modals, opens, restore, deferred, asks, offered, foul, disk, saving, owed, runs>>

\* Moved or resized: WM_EXITSIZEMOVE, WM_SIZE.
WindowMoved ==
    /\ Dispatching /\ ~timer
    /\ schedule_session_save
    /\ UNCHANGED <<up, modals, tabs, opens, restore, deferred, asks, offered, foul, disk, saving, owed, runs>>

-----------------------------------------------------------------------------
(* Saving, and the end of the process.                                     *)

\* Fault: a save set before the chain began is made in the middle of it.
TimerSaves_InMidRestore == TRUE

TimerSaves == ~restoring

WM_TIMER ==
    /\ Dispatching /\ timer
    /\ timer' = FALSE
    /\ IF TimerSaves THEN BeginSave(capture_session, "timer") ELSE UNCHANGED saving
    /\ UNCHANGED <<up, modals, tabs, opens, restore, deferred, asks, offered, foul, disk, owed, runs>>

\* Fault: an exit in mid-restore saves what there is.
ExitSaves_InMidRestore == TRUE

ExitSaves == ~restoring

\* WM_DESTROY of a window no dialog disables, or WM_ENDSESSION at any time.
on_clean_exit ==
    /\ Dispatching
    /\ IF ExitSaves
       THEN /\ timer' = FALSE
            /\ BeginSave(capture_session, "exit")
            /\ UNCHANGED <<up, modals, tabs, opens, restore, deferred, asks, offered, foul, owed>>
       ELSE up' = FALSE /\ owed' = offered /\ Forgotten
    /\ UNCHANGED <<disk, runs>>

SaveProceeds ==
    /\ up
    /\ SaveStep
    /\ UNCHANGED <<memory, owed, runs>>

\* Fault: a refused save at the exit removes the marker all the same.
MarkerAfter_Always(why) == ~(why = "exit") /\ marker

\* Only a save that landed lets the exit remove the marker.
MarkerAfter(why) == ~(why = "exit" /\ saving.stage = "saved") /\ marker

SaveReturns ==
    /\ up /\ SaveEnded
    /\ marker' = MarkerAfter(saving.why)
    /\ IF saving.why = "exit" THEN up' = FALSE /\ Forgotten
       ELSE /\ saving' = NotSaving
            /\ UNCHANGED memory
    /\ UNCHANGED <<file, bak, owed, runs>>

\* The process is killed or faults, in mid-save too.
Crash ==
    /\ up
    /\ up' = FALSE /\ Forgotten
    /\ UNCHANGED <<disk, owed, runs>>

\* maybe_offer_restore(offer): what the file names and still exists is
\* offered; otherwise the file of the command line is opened.
maybe_offer_restore(offer, cli, gone) ==
    LET found == load_session.tabs
        left == Only(found, {t \in ToSet(found) : t.path \notin gone})
    IN IF offer /\ left # <<>>
       THEN /\ modals' = <<[kind |-> "offer"]>>
            /\ queue' = left
            /\ offered' = file
            /\ deferred' = cli
            /\ UNCHANGED opens
       ELSE /\ opens' = InFlight({cli} \ {NoPath}, 0)
            /\ UNCHANGED <<modals, queue, offered, deferred>>

\* wWinMain past the single-instance gate: the marker tells how the last
\* process ended and is set again; showing the window sets the save timer.
Start(cli, gone) ==
    /\ ~up /\ runs < MaxRuns
    /\ runs' = runs + 1
    /\ up' = TRUE /\ marker' = TRUE
    /\ timer' = TRUE
    /\ owed' = NoFile
    /\ maybe_offer_restore(marker, cli, gone)
    /\ asks' = IF cli = NoPath THEN 0 ELSE 1
    /\ asks' + Len(file.list.tabs) <= MaxTabs
    /\ UNCHANGED <<tabs, restoring, index, pending, foul, file, bak, saving>>

-----------------------------------------------------------------------------

Next ==
    \/ \E id \in 1..MaxOpens : OpenEnds(id)
    \/ Answer
    \/ \E p \in Paths : AskedHere(p) \/ Forwarded(p)
    \/ \E i \in DOMAIN tabs.tabs : on_tab_close_request(i) \/ on_tab_switch(i)
    \/ PageTurned \/ WindowMoved \/ WM_TIMER
    \/ on_clean_exit \/ SaveProceeds \/ SaveReturns \/ Crash
    \/ \E cli \in Paths \cup {NoPath}, gone \in {{}} \cup {{p} : p \in Paths} : Start(cli, gone)

\* Workers answer, the reader answers dialogs, a save returns.
Fairness ==
    /\ \A id \in 1..MaxOpens : WF_vars(OpenEnds(id))
    /\ WF_vars(Answer)
    /\ WF_vars(SaveProceeds) /\ WF_vars(SaveReturns)

Spec == Init /\ [][Next]_vars /\ Fairness

-----------------------------------------------------------------------------
(* Properties.                                                             *)

TypeOK ==
    /\ up \in BOOLEAN /\ restoring \in BOOLEAN /\ timer \in BOOLEAN
    /\ tabs.active \in 0..Len(tabs.tabs)
    /\ tabs.active = 0 <=> tabs.tabs = <<>>
    /\ restoring => index \in DOMAIN queue
    /\ ~up => saving = NotSaving /\ opens = {} /\ modals = <<>>

\* The opens and prompts issued by the chain for its slot n.
OwnOf(n) ==
    {o \in opens : o.slot = n}
      \cup {m.open : m \in {modals[i] : i \in {j \in DOMAIN modals : modals[j].kind = "prompt"
                                                      /\ modals[j].open.slot = n}}}

SlotOf(i) == tabs.tabs[i].slot

\* As long as no reader asks for a document the chain is to bring and no
\* open of a reader's fails without a name, the chain is a sequence:
\* it waits for one document of its own and for no other, whatever else is
\* opened, refused or closed meanwhile in its dialogs, and the tabs it has
\* brought stand in the order of the saved session, each at its saved page.
RestoreInOrder ==
    ~foul =>
      /\ restoring => /\ Cardinality(OwnOf(index)) = 1
                      /\ \A n \in DOMAIN queue \ {index} : OwnOf(n) = {}
      /\ \A i \in DOMAIN tabs.tabs : SlotOf(i) # 0 =>
           /\ restoring => SlotOf(i) < index /\ tabs.tabs[i].page = queue[SlotOf(i)].page
           /\ \A j \in 1..(i - 1) : SlotOf(j) < SlotOf(i)

\* session.json goes from one whole session to another: a process that dies
\* in a save leaves the old one or the new one.  A version-1 file, which an
\* older program could still read, is replaced only when its copy is there.
FileStaysWhole ==
    [][file' # file => /\ file' = saving.what
                       /\ file.version = 1 => bak = file]_vars

\* The marker goes only when the tabs of that moment are in the file; and
\* while the chain runs neither the file nor the marker is touched.
MarkerTellsTruth ==
    [][/\ marker /\ ~marker' => file = capture_session
       /\ restoring /\ restoring' => UNCHANGED <<file, marker>>]_vars

\* Workers and readers answering, a restore ends: no failure, prompt or
\* interfering open leaves the chain waiting for nothing.
RestoreEnds == restoring ~> ~restoring

\* is_restore_tab "is stable here" (MainWindow.cpp:2203): a prompt that took
\* the chain's slot for its own still holds that slot when it is answered.
PromptHoldsItsSlot ==
    \A i \in DOMAIN modals :
      modals[i].kind = "prompt" /\ modals[i].mine => restoring /\ modals[i].open.path = pending

\* "Leaving both intact means the next launch re-offers the FULL session"
\* (MainWindow.cpp:1062): after an exit in mid-restore the file still holds
\* the session that was being restored.
FullSessionOfferedAgain == owed # NoFile => file = owed
=============================================================================
