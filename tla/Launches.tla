------------------------------ MODULE Launches ------------------------------
(***************************************************************************)
(* The processes of one user's LitePDF, from wWinMain to their end, and    *)
(* the list of recent files they keep in the registry (src/src/main.cpp,   *)
(* app/SingleInstance.cpp, core/MruList.cpp and the parts of               *)
(* ui/MainWindow.cpp between them).  A start that finds the mutex sends its*)
(* file to the window of another process; one that gets it is the primary, *)
(* with a window, threads that open documents, and a dispatcher which the  *)
(* views of its tabs use until they are destroyed.                         *)
(*                                                                         *)
(* Of each process:                                                        *)
(*   at       where it is; path: the file it was started with, or NoFile   *)
(*   code     what a start that was not the first returned                 *)
(*   recent   its list in memory; job: the save it is in, with the value   *)
(*            that is written next, the file whose opening follows, and the*)
(*            start that sent it                                           *)
(*   box      the entry that a "File not found" box is about               *)
(*   opening  how many of its threads open a document; tabs: it has some   *)
(*   undone   how many of its members ~MainWindow has destroyed            *)
(*                                                                         *)
(* Left out: a CreateMutex that fails, where the code goes on without the  *)
(* gate, and a registry that takes some values of a save and not others.   *)
(***************************************************************************)
EXTENDS Naturals, Sequences, SequencesExt, FiniteSets, Filter

CONSTANTS
    Starts,
    NoFile,
    Args,           \* what a process may be started with: files, or NoFile
    Files,          \* the files the reader opens in the window
    Listed,         \* the lists that earlier processes may have left
    kMaxEntries, MaxAsks

VARIABLES
    procs,     \* the processes
    mail,      \* the starts' messages on their way to a window
    reg,       \* the list in the registry
    locked,    \* the processes with a handle of the mutex
    asks,      \* bound: what the reader opened
    \* histories
    taken,     \* the starts whose message a window handled
    torn,      \* a save was not done, or its process died in it
    moved,     \* a file came while a box was shown
    wrong,     \* a box removed another entry than it showed
    late       \* who used a dispatcher after its end: a tab, an opening thread

launchVars == <<procs, mail, reg, locked, asks, taken, torn, moved, wrong, late>>

ASSUME LaunchConstants ==
    /\ NoFile \notin Files \cup Starts
    /\ kMaxEntries \in Nat \ {0}
    /\ \A l \in Listed : /\ IsInjective(l) /\ Len(l) <= kMaxEntries
                          /\ NoFile \notin ToSet(l) /\ l \in Seq(ToSet(l))

Slots == 1 .. kMaxEntries
NoSave == [next |-> -1, then |-> NoFile, from |-> NoFile]
NoBox == [index |-> 0, file |-> NoFile]

NewProcess ==
    [at |-> "new", path |-> NoFile, code |-> "none", recent |-> <<>>, job |-> NoSave,
     box |-> NoBox, opening |-> 0, tabs |-> FALSE, undone |-> 0]

-----------------------------------------------------------------------------
(* MruList.                                                                *)

\* load: a value that is missing or empty is passed over.
load ==
    LET values == [i \in 1 .. reg.count |-> reg.entry[i]]
    IN  Only(values, ToSet(values) \ {NoFile})

\* Fault: a file opened again is listed twice.
push_Again(list, f) ==
    LET all == <<f>> \o list
    IN  IF Len(all) > kMaxEntries THEN SubSeq(all, 1, kMaxEntries) ELSE all

push(list, f) ==
    LET all == <<f>> \o Only(list, ToSet(list) \ {f})
    IN  IF Len(all) > kMaxEntries THEN SubSeq(all, 1, kMaxEntries) ELSE all

remove(list, i) == IF i \in DOMAIN list THEN RemoveAt(list, i) ELSE list

\* save writes the count (0) and then each entry, or deletes one past the end.
Written(list, i) ==
    IF i = 0 THEN [reg EXCEPT !.count = Len(list)]
             ELSE [reg EXCEPT !.entry[i] = IF i <= Len(list) THEN list[i] ELSE NoFile]

-----------------------------------------------------------------------------
Registry(list) ==
    [count |-> Len(list), entry |-> [i \in Slots |-> IF i <= Len(list) THEN list[i] ELSE NoFile]]

LaunchInit ==
    /\ procs = [p \in Starts |-> NewProcess] /\ mail = {}
    /\ \E list \in Listed : reg = Registry(list)
    /\ locked = {} /\ asks = 0
    /\ taken = {} /\ torn = FALSE /\ moved = FALSE /\ wrong = FALSE /\ late = {}

Saving(p)  == procs[p].job # NoSave
HasWindow(p) == procs[p].at \in {"deferred", "up"}

\* The thread of p's window takes messages: in its own loop, or in a box's.
Pumps(p) == HasWindow(p) /\ ~Saving(p)
Free(p)  == Pumps(p) /\ procs[p].box = NoBox

Goes(p, place) == procs' = [procs EXCEPT ![p].at = place]

\* The handlers that open a file, r being the process then: push, save, then
\* open_tab_async.
Opens(p, r, f, from) ==
    /\ procs' = [procs EXCEPT ![p] =
                    [r EXCEPT !.recent = push(r.recent, f),
                              !.job = [next |-> 0, then |-> f, from |-> from]]]
    /\ moved' = (moved \/ r.box # NoBox)

-----------------------------------------------------------------------------
(* wWinMain's gate, and a start that is not the first.                     *)

\* try_acquire_single_instance: the mutex is created, or is there.
Gate(p) ==
    /\ procs[p].at = "new"
    /\ \E f \in Args :
         procs' = [procs EXCEPT ![p] =
                    [@ EXCEPT !.at = IF locked = {} THEN "first" ELSE "second", !.path = f]]
    /\ locked' = locked \cup {p}
    /\ UNCHANGED <<mail, reg, asks, taken, torn, moved, wrong, late>>

\* It gives its own handle back,
NotFirst(p) ==
    /\ procs[p].at = "second" /\ Goes(p, "forward")
    /\ locked' = locked \ {p}
    /\ UNCHANGED <<mail, reg, asks, taken, torn, moved, wrong, late>>

Returned(p, code) == procs' = [procs EXCEPT ![p] = [@ EXCEPT !.at = "gone", !.code = code]]

\* Fault: no window is no failure.
NoTarget_Fine(p) == Returned(p, "0")
NoTarget(p) == Returned(p, "1")

\* and sends its file to whichever window FindWindow finds.
Forward(p) ==
    /\ procs[p].at = "forward"
    /\ \/ \E q \in Starts : /\ HasWindow(q) /\ Goes(p, "sent")
                            /\ mail' = mail \cup {[from |-> p, to |-> q]}
       \/ (\A q \in Starts : ~HasWindow(q)) /\ NoTarget(p) /\ UNCHANGED mail
    /\ UNCHANGED <<reg, locked, asks, taken, torn, moved, wrong, late>>

\* on_copydata, in the window's thread wherever that takes messages; a start
\* without a file brings the window to the front.
on_copydata(p, q) ==
    /\ [from |-> p, to |-> q] \in mail /\ Pumps(q)
    /\ mail' = mail \ {[from |-> p, to |-> q]}
    /\ \/ /\ procs[p].path = NoFile
          /\ taken' = taken \cup {p} /\ UNCHANGED <<procs, moved>>
       \/ /\ procs[p].path # NoFile
          /\ Opens(q, procs[q], procs[p].path, p) /\ UNCHANGED taken
    /\ UNCHANGED <<reg, locked, asks, torn, wrong, late>>

\* SendMessageTimeout returns: the handler has, or the window is gone, or three
\* seconds are over, and the message may then still be handled or not.
Sent(p) ==
    /\ procs[p].at = "sent"
    /\ \/ p \in taken /\ Returned(p, "0") /\ UNCHANGED mail
       \/ Returned(p, "1") /\ mail' \in {mail, {m \in mail : m.from # p}}
    /\ UNCHANGED <<reg, locked, asks, taken, torn, moved, wrong, late>>

-----------------------------------------------------------------------------
(* The primary's window.                                                   *)

\* MainWindow::MainWindow loads the list; run creates the window, or fails.
Construct(p) ==
    /\ procs[p].at = "first"
    /\ procs' = [procs EXCEPT ![p] = [@ EXCEPT !.recent = load, !.at = "loaded"]]
    /\ UNCHANGED <<mail, reg, locked, asks, taken, torn, moved, wrong, late>>

CreateWindow(p) ==
    /\ procs[p].at = "loaded"
    /\ Goes(p, "deferred") \/ Goes(p, "left")
    /\ UNCHANGED <<mail, reg, locked, asks, taken, torn, moved, wrong, late>>

\* open_deferred_initial_path, at once or when the session is restored, which is
\* noticed in whatever loop takes the message.
OpenDeferred(p) ==
    /\ procs[p].at = "deferred" /\ Pumps(p)
    /\ LET f == procs[p].path
           r == [procs[p] EXCEPT !.at = "up", !.path = NoFile]
       IN  \/ f = NoFile /\ procs' = [procs EXCEPT ![p] = r] /\ UNCHANGED moved
           \/ f # NoFile /\ Opens(p, r, f, NoFile)
    /\ UNCHANGED <<mail, reg, locked, asks, taken, torn, wrong, late>>

\* The dialog, or a file dropped on the window.
AskOpen(p) ==
    /\ Free(p) /\ asks < MaxAsks /\ asks' = asks + 1
    /\ \E f \in Files : Opens(p, procs[p], f, NoFile)
    /\ UNCHANGED <<mail, reg, locked, taken, torn, wrong, late>>

\* An entry of the recent files: opened without ranking it, or not found.
ClickRecent(p) ==
    /\ Free(p) /\ asks < MaxAsks /\ asks' = asks + 1
    /\ \E i \in DOMAIN procs[p].recent :
         \/ procs' = [procs EXCEPT ![p].opening = @ + 1]
         \/ procs' = [procs EXCEPT ![p].box = [index |-> i, file |-> procs[p].recent[i]]]
    /\ UNCHANGED <<mail, reg, locked, taken, torn, moved, wrong, late>>

\* The box is closed: its entry is removed, by the index it had when it opened.
BoxClosed(p) ==
    /\ Pumps(p) /\ procs[p].box # NoBox
    /\ LET recent == procs[p].recent
           box    == procs[p].box
       IN  /\ procs' = [procs EXCEPT ![p] =
                          [@ EXCEPT !.recent = remove(recent, box.index), !.box = NoBox,
                                    !.job = [NoSave EXCEPT !.next = 0]]]
           /\ wrong' = (wrong \/ (box.index \in DOMAIN recent /\ recent[box.index] # box.file))
    /\ UNCHANGED <<mail, reg, locked, asks, taken, torn, moved, late>>

\* A save is over, and the open begins.
SaveEnds(p) ==
    LET job == procs[p].job
    IN  /\ procs' = [procs EXCEPT ![p] =
                       [procs[p] EXCEPT !.job = NoSave,
                                        !.opening = IF job.then = NoFile THEN @ ELSE @ + 1]]
        /\ taken' = taken \cup ({job.from} \ {NoFile})

\* A value is written; after the last, or if there is no key, the save ends.
Save(p) ==
    /\ Saving(p)
    /\ LET i == procs[p].job.next
       IN  \/ /\ reg' = Written(procs[p].recent, i) /\ UNCHANGED torn
              /\ \/ i < kMaxEntries /\ procs' = [procs EXCEPT ![p].job.next = i + 1] /\ UNCHANGED taken
                 \/ i >= kMaxEntries /\ SaveEnds(p)
           \/ i = 0 /\ SaveEnds(p) /\ torn' = TRUE /\ UNCHANGED reg
    /\ UNCHANGED <<mail, locked, asks, moved, wrong, late>>

\* Fault: search_dispatcher_ is declared after tabs_.
Destroyed_DispatcherFirst == <<"search_dispatcher_", "tabs_">>

\* The members go in the order opposite to their declaration.
Destroyed == <<"tabs_", "search_dispatcher_">>

Undone(p, m) == \E i \in 1 .. procs[p].undone : Destroyed[i] = m

\* The thread of open_tab_async ends: in a tab; in nothing, having failed or with
\* its message lost with the window; or, no window taking it, it destroys the view
\* it made, whose session calls the dispatcher.
OpenEnds(p) ==
    /\ procs[p].opening > 0
    /\ LET r == [procs[p] EXCEPT !.opening = @ - 1]
       IN  \/ procs' = [procs EXCEPT ![p] = r] /\ UNCHANGED late
           \/ Pumps(p) /\ procs' = [procs EXCEPT ![p] = [r EXCEPT !.tabs = TRUE]] /\ UNCHANGED late
           \/ /\ ~HasWindow(p) /\ procs' = [procs EXCEPT ![p] = r]
              /\ late' = IF Undone(p, "search_dispatcher_") THEN late \cup {"open"} ELSE late
    /\ UNCHANGED <<mail, reg, locked, asks, taken, torn, moved, wrong>>

\* WM_DESTROY; what was sent to the window is not handled.
Close(p) ==
    /\ Free(p) /\ Goes(p, "left")
    /\ mail' = {m \in mail : m.to # p}
    /\ UNCHANGED <<reg, locked, asks, taken, torn, moved, wrong, late>>

-----------------------------------------------------------------------------
(* The end of a primary: the mutex, then ~MainWindow, then the process.    *)

Leave(p) ==
    /\ procs[p].at = "left" /\ Goes(p, "unlocked")
    /\ locked' = locked \ {p}
    /\ UNCHANGED <<mail, reg, asks, taken, torn, moved, wrong, late>>

DestroyMember(p) ==
    /\ procs[p].at = "unlocked" /\ procs[p].undone < Len(Destroyed)
    /\ LET r == [procs[p] EXCEPT !.undone = @ + 1]
       IN  \/ /\ Destroyed[r.undone] # "tabs_"
              /\ procs' = [procs EXCEPT ![p] = r] /\ UNCHANGED late
           \/ /\ Destroyed[r.undone] = "tabs_"
              /\ procs' = [procs EXCEPT ![p] = [r EXCEPT !.tabs = FALSE]]
              /\ late' = IF procs[p].tabs /\ Undone(p, "search_dispatcher_")
                         THEN late \cup {"tab"} ELSE late
    /\ UNCHANGED <<mail, reg, locked, asks, taken, torn, moved, wrong>>

Ended(p) ==
    /\ procs' = [procs EXCEPT ![p] =
                    [NewProcess EXCEPT !.at = "gone", !.path = procs[p].path, !.code = procs[p].code]]
    /\ mail' = {m \in mail : m.to # p} /\ locked' = locked \ {p}

End(p) ==
    /\ procs[p].at = "unlocked" /\ procs[p].undone = Len(Destroyed)
    /\ Ended(p)
    /\ UNCHANGED <<reg, asks, taken, torn, moved, wrong, late>>

\* The process dies, in a save or elsewhere; the system closes its handles.
Die(p) ==
    /\ procs[p].at \notin {"new", "gone"}
    /\ Ended(p)
    /\ torn' = (torn \/ Saving(p))
    /\ UNCHANGED <<reg, asks, taken, moved, wrong, late>>

LaunchNext ==
    \E p \in Starts :
        \/ Gate(p) \/ NotFirst(p) \/ Forward(p) \/ Sent(p) \/ \E q \in Starts : on_copydata(q, p)
        \/ Construct(p) \/ CreateWindow(p) \/ OpenDeferred(p) \/ AskOpen(p)
        \/ ClickRecent(p) \/ BoxClosed(p) \/ Save(p) \/ OpenEnds(p) \/ Close(p)
        \/ Leave(p) \/ DestroyMember(p) \/ End(p) \/ Die(p)

LaunchSpec == LaunchInit /\ [][LaunchNext]_launchVars

\* Every process has come and gone.
AllGone == (\A p \in Starts : procs[p].at = "gone") /\ UNCHANGED launchVars

-----------------------------------------------------------------------------
(* Properties.                                                             *)

Primary(p) == procs[p].at \in {"first", "loaded", "deferred", "up", "left"}

\* One process at a time is past the gate and has not left, so no two have a
\* window or write the list, whoever dies and whichever start still holds a
\* handle it got for nothing.
OnePrimary ==
    \A p, q \in Starts : Primary(p) /\ Primary(q) => p = q

\* A start that was not the first and reports success has had its file put in
\* the list and its opening begun, or a window brought to the front (main.cpp:51).
HandedOver ==
    \A p \in Starts : procs[p].code = "0" => p \in taken

\* Unless a save lost a value or its process, the list of the registry is that
\* of the window and of the next one; no file is in it twice, nor more than
\* there is room for.
RecentKept ==
    ~torn =>
        \A p \in Starts :
            /\ procs[p].at \in {"loaded", "deferred", "up"} /\ ~Saving(p) => procs[p].recent = load
            /\ IsInjective(procs[p].recent) /\ Len(procs[p].recent) <= kMaxEntries

\* The entry a box removes is the one it showed, unless another start's file
\* moved the entries while it was shown.
RemovesShown == wrong => moved \/ torn

\* The dispatcher outlives the views of the tabs (MainWindow.hpp:174).
TabsBeforeDispatcher == "tab" \notin late

LaunchesSound == OnePrimary /\ HandedOver /\ RecentKept /\ RemovesShown /\ TabsBeforeDispatcher

\* The dispatcher outlives whatever an opening thread makes (MainWindow.cpp:234).
DispatcherOutlivesOpens == "open" \notin late
=============================================================================
