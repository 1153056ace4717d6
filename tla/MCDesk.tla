------------------------------- MODULE MCDesk -------------------------------
(***************************************************************************)
(* The parts of the user interface that run on the UI thread alone, each   *)
(* by itself: the window that opens, restores and saves documents, the tab *)
(* strip, the mouse on the canvas, the paged canvas, the continuous strip, *)
(* the thumbnail pane and a print job.  A behaviour runs one part and      *)
(* leaves the others in an initial state.                                  *)
(***************************************************************************)
EXTENDS MainWindow, TabManager, CanvasGestures, ThumbnailPane, PrintJob, PdfCanvasStrip, TLC

CONSTANTS d1, d2, d3, d4, Off

VARIABLES
    part,          \* the part that runs
    screen         \* the canvas where it runs, or Off

-----------------------------------------------------------------------------
(* The instances.                                                          *)

\* Two documents in the session a crash left behind and two that are asked
\* for besides; one of each two is encrypted.
CrashedWith == <<[path |-> d2, page |-> 1, slot |-> 0], [path |-> d1, page |-> 1, slot |-> 0]>>

\* Three pages, the last of them high, and a document of a single page; a hit
\* on the right page of the spread.
Book     == {"book", "leaf"}
Counts   == [book |-> 3, leaf |-> 1]
BookH    == (0 :> 6) @@ (1 :> 6) @@ (2 :> 10)
BookFit  == (0 :> 1) @@ (1 :> 2) @@ (2 :> 2)
BookHits == {[page |-> 2, mid |-> 8]}

Canvas == INSTANCE PdfCanvas WITH
    c <- screen,
    Docs <- Book, PageCount <- Counts, PageH <- BookH, FitOf <- BookFit,
    Zooms <- {1, 2}, Heights <- {8, 12}, Hits <- BookHits,
    PanStep <- 6, WheelStep <- 6, MaxSeq <- 4

\* Three pages of which a small window shows one or two.
StripPages == (0 :> 8) @@ (1 :> 6) @@ (2 :> 12)

\* A document of three pages; ranges that overlap, pass its end, have a zero,
\* are the wrong way round, or name no page.
PrintAsks ==
    LET r(from, to) == [from |-> from, to |-> to]
    IN  {All, <<r(2, 9), r(1, 2)>>, <<r(0, 2), r(3, 3)>>, <<r(2, 1), r(1, 1)>>, <<r(4, 5)>>}

ASSUME Canvas!CanvasConstants

-----------------------------------------------------------------------------
(* The parts side by side.                                                 *)

\* The parts that may start in several ways, where they do not run.
AtRest ==
    /\ part # "window" => file = NoFile /\ bak = NoFile /\ ~marker
    /\ part # "gestures" => layout = "page" /\ page = 1

DeskInit ==
    /\ part \in {"window", "tabs", "gestures", "canvas", "strip", "pane", "print"}
    /\ Init /\ TabsInit /\ GesturesInit
    /\ AtRest
    /\ PaneInit /\ PrintInit /\ StripInit
    /\ \/ part = "canvas" /\ Canvas!Init
       \/ part # "canvas" /\ screen = Off

deskVars == <<part, vars, tabsVars, gestureVars, thumbVars, job, c, screen>>

DeskNext ==
    /\ UNCHANGED part
    /\ \/ part = "window" /\ Next /\ UNCHANGED <<tabsVars, gestureVars, thumbVars, job, c, screen>>
       \/ part = "tabs" /\ TabsNext /\ UNCHANGED <<vars, gestureVars, thumbVars, job, c, screen>>
       \/ part = "gestures" /\ GesturesNext /\ UNCHANGED <<vars, tabsVars, thumbVars, job, c, screen>>
       \/ part = "pane" /\ PaneNext /\ UNCHANGED <<vars, tabsVars, gestureVars, job, c, screen>>
       \/ part = "print" /\ PrintNext /\ UNCHANGED <<vars, tabsVars, gestureVars, thumbVars, c, screen>>
       \/ part = "strip" /\ StripNext /\ UNCHANGED <<vars, tabsVars, gestureVars, thumbVars, job, screen>>
       \/ part = "canvas" /\ Canvas!Next /\ UNCHANGED <<vars, tabsVars, gestureVars, thumbVars, job, c>>

\* The window's fairness asks nothing of a window that was never opened.
DeskSpec ==
    DeskInit
    /\ [][DeskNext]_deskVars
    /\ Fairness

-----------------------------------------------------------------------------
(* The properties of the paged canvas.                                     *)

ShowsThePage == part = "canvas" => Canvas!ShowsThePage
LandsWhereAsked == part = "canvas" => Canvas!LandsWhereAsked /\ Canvas!WheelReleased
KeepsReadersPlace == [][part = "canvas" => Canvas!PanByAnswer /\ Canvas!PageByNotch]_screen
=============================================================================
