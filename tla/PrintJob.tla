------------------------------ MODULE PrintJob ------------------------------
(***************************************************************************)
(* One call of PrintJob::run (src/src/printing/PrintJob.cpp): the scale    *)
(* dialog, the system's print dialog, the page loop with its progress      *)
(* dialog, and the end of the job.  All of it runs on the UI thread; what  *)
(* interleaves with the loop are the messages its two pumps dispatch, one  *)
(* in PrintProgressDlg::set_progress and one in abort_proc, which GDI calls*)
(* out of a printing call, and those of the nested loop of a message box.  *)
(*                                                                         *)
(* The state is one record, job:                                           *)
(*   at, then    where run is, and where it goes when a box is closed or   *)
(*               abort_proc returns                                        *)
(*   asked_for   the ranges of the print dialog, or All                    *)
(*   pages       the pages of the job; sent: those EndPage has accepted    *)
(*   spool       the job at the printer; settled: EndDoc and AbortDoc calls*)
(*   flag        the PrintAbortFlag on run's stack                         *)
(*   active      g_active_abort_flag points at it                          *)
(*   dlg         the progress dialog's window exists                       *)
(*   main        the main window exists; enabled: it takes input           *)
(*   quit        WM_QUIT waits in the queue                                *)
(*   ok          what run returned                                         *)
(* and three histories: cancelled, a cancel or a close was dispatched while*)
(* the job was open; late, the pages begun after that; told, WM_QUIT was   *)
(* ever posted.                                                            *)
(***************************************************************************)
EXTENDS Naturals, Sequences, SequencesExt, FiniteSets

CONSTANTS
    NPages,     \* Document::page_count; run returns at once for a document of none
    Asks,       \* what the print dialog may return: sequences of ranges
    All         \* the print dialog's "all pages"

VARIABLE job

PageRange(from, to) == [from |-> from, to |-> to]

ASSUME PrintConstants ==
    /\ NPages \in Nat \ {0}
    /\ \A a \in Asks : a = All \/ a \in Seq([from : Nat, to : Nat])

-----------------------------------------------------------------------------
(* parse_page_ranges: 1-based ranges to 0-based pages, in the order given. *)
(* A range with a zero or the wrong way round is dropped, one that passes  *)
(* the end is cut there.                                                   *)

RangePages(r) ==
    IF r.from = 0 \/ r.to = 0 \/ r.from > r.to \/ r.from > NPages
    THEN <<>>
    ELSE LET last == IF r.to > NPages THEN NPages ELSE r.to
         IN  [i \in 1 .. last - r.from + 1 |-> r.from + i - 2]

ParsePageRanges(ranges) ==
    IF ranges = All THEN [i \in 1 .. NPages |-> i - 1]
                    ELSE FlattenSeq([i \in DOMAIN ranges |-> RangePages(ranges[i])])

-----------------------------------------------------------------------------
PrintInit ==
    job = [at |-> "config", then |-> "config", asked_for |-> All, pages |-> <<>>, sent |-> <<>>,
           spool |-> "none", settled |-> 0, flag |-> "dead", active |-> FALSE,
           dlg |-> FALSE, main |-> TRUE, enabled |-> TRUE, quit |-> FALSE, ok |-> FALSE,
           cancelled |-> FALSE, late |-> 0, told |-> FALSE]

Goto(s, where) == [s EXCEPT !.at = where]

\* show_error: a message box over the main window, then on.
ShowError(s, then) == [s EXCEPT !.at = "box", !.then = then]

AbortDoc(s) == [s EXCEPT !.spool = "aborted", !.settled = @ + 1]
EndDoc(s)   == [s EXCEPT !.spool = "ended", !.settled = @ + 1]

\* AbortDoc and the message, as on every error of the page loop.
Fail(s) == ShowError(AbortDoc(s), "exit")

-----------------------------------------------------------------------------
(* Before the job.                                                         *)

\* PrintProgressDlg::show_config: cancelled, or a scale was picked.
Config ==
    /\ job.at = "config"
    /\ job' \in {Goto(job, "exit"), Goto(job, "dialog")}

\* PrintDlgEx: it fails, is cancelled, or returns a printer and the pages.
Dialog ==
    /\ job.at = "dialog"
    /\ \/ job' \in {ShowError(job, "exit"), Goto(job, "exit")}
       \/ \E a \in Asks :
             LET pages == ParsePageRanges(a)
                 s     == [job EXCEPT !.asked_for = a, !.pages = pages]
             IN  job' = IF pages = <<>> THEN ShowError(s, "exit") ELSE Goto(s, "start")

\* StartDoc, and once it worked the abort procedure and the guard of the flag.
StartDoc ==
    /\ job.at = "start"
    /\ LET s == [job EXCEPT !.flag = "clear"]
       IN  \/ job' = ShowError(s, "exit")
           \/ job' = Goto([s EXCEPT !.spool = "open", !.active = TRUE], "progress")

\* PrintProgressDlg::PrintProgressDlg: the dialog, and the main window disabled.
Progress ==
    /\ job.at = "progress"
    /\ \/ job' = Fail(job)
       \/ job' = Goto([job EXCEPT !.dlg = TRUE, !.enabled = FALSE], "loop")

-----------------------------------------------------------------------------
(* The page loop.                                                          *)

\* The number of pages begun is the number sent: the loop ends with a failure.
NextPage ==
    /\ job.at = "loop"
    /\ job' = IF job.flag = "set" \/ Len(job.sent) = Len(job.pages) THEN Goto(job, "done")
                                                            ELSE Goto(job, "pump")

\* StartPage; the page's size is read once it worked.
StartPage ==
    /\ job.at = "page"
    /\ \/ job' = Fail(job)
       \/ job' = Goto([job EXCEPT !.late = IF job.cancelled THEN @ + 1 ELSE @], "size")

\* usable_page_size: without a usable size the page ends the job.
UsableSize ==
    /\ job.at = "size"
    /\ job' \in {Fail(job), Goto(job, "render")}

\* Document::with_rendered_page: it fails, at the page or at its pixels, without
\* calling back; or it calls the blit with the pixels and holds doc_mutex.
RenderPage ==
    /\ job.at = "render"
    /\ job' \in {Fail(job), Goto(job, "blit")}

\* blit_bgra_to_hdc; a failed one fails the page.
Blit ==
    /\ job.at = "blit"
    /\ job' \in {Fail(job), Goto(job, "end")}

EndPage ==
    /\ job.at = "end"
    /\ job' \in {Fail(job), Goto([job EXCEPT !.sent = Append(@, job.pages[Len(@) + 1])], "loop")}

\* After the loop: a cancelled job is aborted, any other is ended.
Done ==
    /\ job.at = "done"
    /\ job' = IF job.flag = "set" THEN Goto(AbortDoc(job), "exit")
                              ELSE Goto([EndDoc(job) EXCEPT !.ok = TRUE], "exit")

\* The destructors: the progress dialog (which enables the main window, if its
\* own window is still there), the guard, the flag.
Exit ==
    /\ job.at = "exit"
    /\ job' = [job EXCEPT !.at = "returned",
                      !.enabled = @ \/ job.dlg, !.dlg = FALSE,
                      !.active = FALSE, !.flag = "dead"]

-----------------------------------------------------------------------------
(* What the pumps dispatch.                                                *)

\* GDI calls the abort procedure out of a printing call of the open job.
AbortProc ==
    /\ job.at \in {"page", "blit", "end"} /\ job.active
    /\ job' = [job EXCEPT !.at = "callback", !.then = job.at]

Pumping == job.at \in {"pump", "callback", "box"}

\* progress_dialog_proc: the Cancel button, or a close of the dialog.
Cancel ==
    /\ Pumping /\ job.dlg
    /\ job' = [job EXCEPT !.flag = "set", !.cancelled = @ \/ job.spool = "open"]

\* WM_CLOSE of the main window destroys it and the dialog it owns, and its
\* WM_DESTROY posts WM_QUIT.
CloseMain ==
    /\ Pumping /\ job.main
    /\ job' = [job EXCEPT !.main = FALSE, !.dlg = FALSE, !.quit = TRUE, !.told = TRUE,
                      !.cancelled = @ \/ job.spool = "open"]

\* Where a pump goes on: abort_proc's answer decides its call.
Resume(s) ==
    CASE s.at = "pump"                           -> Goto(s, "page")
      [] s.at = "callback" /\ s.flag = "set"     -> Fail(s)
      [] s.at = "callback" /\ s.flag = "clear"   -> Goto(s, s.then)
      [] s.at = "box"                            -> Goto(s, s.then)

\* Fault: the quit that was taken out of the queue is not posted again.
PumpQuit_Swallows ==
    /\ job.at \in {"pump", "callback"} /\ job.quit
    /\ job' = Resume([job EXCEPT !.quit = FALSE, !.flag = "set"])

\* A pump that finds WM_QUIT posts it again, asks for the abort and stops.
PumpQuit ==
    /\ job.at \in {"pump", "callback"} /\ job.quit
    /\ job' = Resume([job EXCEPT !.quit = TRUE, !.flag = "set"])

\* The queue is empty; or the box was answered (its own loop keeps WM_QUIT).
PumpEnds ==
    /\ Pumping /\ (job.at = "box" \/ ~job.quit)
    /\ job' = Resume(job)

PrintNext ==
    \/ Config \/ Dialog \/ StartDoc \/ Progress
    \/ NextPage \/ StartPage \/ UsableSize \/ RenderPage \/ Blit \/ EndPage \/ Done \/ Exit
    \/ AbortProc \/ Cancel \/ CloseMain \/ PumpQuit \/ PumpEnds

PrintSpec == PrintInit /\ [][PrintNext]_job

-----------------------------------------------------------------------------
(* Properties.                                                             *)

\* A job that was started is ended or aborted once, whichever of its calls
\* fails and whatever is dispatched meanwhile; it is ended only when each of its
\* pages was sent and nobody had cancelled, and run says so.
EndedOnce ==
    /\ job.settled = IF job.spool \in {"none", "open"} THEN 0 ELSE 1
    /\ job.spool = "ended" => job.sent = job.pages /\ ~job.cancelled
    /\ job.at = "returned" => job.spool # "open" /\ (job.ok <=> job.spool = "ended")

\* After a cancel, or a close of the window, no page begins but the one whose
\* pump dispatched it.
CancelStops == job.late <= 1

\* run leaves what it found: the window takes input again if it is still there,
\* no dialog and no pointer outlive the flag they write, and a WM_QUIT that came
\* during the job is still there for the message loop of the program.
LeavesNothing ==
    /\ job.dlg \/ job.active => job.flag # "dead"
    /\ job.at = "returned" => ~job.dlg /\ ~job.active /\ (job.main => job.enabled)
    /\ job.told => job.quit

\* The job holds each page of the document once for each range of the dialog
\* that names it, and no page the document has not.
PagesAsked ==
    LET ranges == IF job.asked_for = All THEN <<PageRange(1, NPages)>> ELSE job.asked_for
        names(r, p) == 0 < r.from /\ r.from <= p + 1 /\ p + 1 <= r.to
    IN  job.at \notin {"config", "dialog"} /\ job.spool # "none" =>
            /\ ToSet(job.pages) \subseteq 0 .. NPages - 1
            /\ \A p \in 0 .. NPages - 1 :
                  Cardinality({i \in DOMAIN job.pages : job.pages[i] = p})
                  = Cardinality({i \in DOMAIN ranges : names(ranges[i], p)})
            /\ IsPrefix(job.sent, job.pages)

PrintSettled == EndedOnce /\ CancelStops /\ LeavesNothing /\ PagesAsked
=============================================================================
