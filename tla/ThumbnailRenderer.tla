------------------------- MODULE ThumbnailRenderer -------------------------
(***************************************************************************)
(* src/src/core/ThumbnailRenderer.cpp on top of the engine it submits to:  *)
(* a count of its requests under way, what each callback reported, and a   *)
(* destructor that spins until the count is zero.  ~DocumentView destroys  *)
(* it before the engine, with the UI thread.                               *)
(*                                                                         *)
(* Every step is a step of RenderEngine; a worker's step on a thumbnail    *)
(* request also runs the callback that ThumbnailRenderer put there.        *)
(***************************************************************************)
EXTENDS RenderEngine

VARIABLES
    pending_tasks,  \* Impl::pending_tasks
    renderer,       \* "idle", "submitting", "draining" (the destructor), "gone"
    reported        \* what the pane's callback was told for each request

thumb_vars == <<pending_tasks, renderer, reported>>
tvars == <<vars, thumb_vars>>

TInit ==
    /\ Init
    /\ pending_tasks = 0
    /\ renderer = "idle"
    /\ reported = [r \in Ids |-> "none"]

IsThumb(w) == Req(w).bypass_cache

-----------------------------------------------------------------------------
(* The callback, on a worker                                               *)

\* A null pixmap is told apart by the request's own flag (#117).
Report(w) ==
    IF pix[w] # NoObj THEN "bitmap" ELSE IF job[w] \in canceled THEN "cancelled" ELSE "failed"

\* The pixmap is copied and dropped, and the pane's callback runs.
Callback(w) ==
    /\ OnComplete(w)
    /\ reported' = IF IsThumb(w) THEN [reported EXCEPT ![job[w]] = Report(w)] ELSE reported
    /\ UNCHANGED <<pending_tasks, renderer>>

\* Fault: a callback that was given no pixmap does not count down.
TasksLeft_NotOnNull(w) ==
    IF IsThumb(w) /\ answer[job[w]] = "pixmap" THEN pending_tasks - 1 ELSE pending_tasks

TasksLeft(w) == IF IsThumb(w) THEN pending_tasks - 1 ELSE pending_tasks

\* The callback's last statement, and the return to the worker's loop.
CallbackReturns(w) ==
    /\ CheckText(w)
    /\ pending_tasks' = TasksLeft(w)
    /\ UNCHANGED <<renderer, reported>>

TWorkerStep(w) ==
    \/ Callback(w)
    \/ CallbackReturns(w)
    \/ /\ \/ TakeRequest(w) \/ CheckpointA(w) \/ LookupL1(w) \/ LateCancel(w) \/ HitWanted(w)
          \/ LookupL2(w) \/ BuildList(w) \/ StoreList(w) \/ CheckpointB(w)
          \/ Rasterise(w) \/ StorePixmap(w) \/ CheckpointC(w)
          \/ BuildText(w) \/ DeliverText(w)
       /\ UNCHANGED thumb_vars

-----------------------------------------------------------------------------
(* The UI thread                                                           *)

\* D16: the request is counted before the engine can run it.
CountTask ==
    /\ renderer = "idle" /\ ui = "live" /\ Len(reqs) < MaxRequests
    /\ renderer' = "submitting"
    /\ pending_tasks' = pending_tasks + 1
    /\ UNCHANGED <<vars, reported>>

\* A thumbnail's request asks for no text.
SubmitThumb(k) ==
    /\ renderer = "submitting" /\ k.bypass_cache /\ ~k.text
    /\ Submit(k)
    /\ renderer' = "idle"
    /\ UNCHANGED <<pending_tasks, reported>>

\* Everything else the UI thread does while the view is open.
ViewStep ==
    /\ renderer = "idle"
    /\ \/ \E k \in Kinds : Submit(k) /\ ~k.bypass_cache
       \/ \E k \in Kinds : Background(k) /\ ~k.bypass_cache
       \/ \E r \in Ids : Cancel(r) \/ ConsumerDrops(r)
       \/ \E p \in {0, 2} : cancel_all_below_priority(p)
       \/ ForgetText \/ Foreground
       \/ SubmitReturns
    /\ UNCHANGED thumb_vars

\* ~DocumentView: the text is let go of, the pane cancels what is queued and
\* the renderer's destructor begins to spin.
CloseView ==
    /\ renderer = "idle" /\ ui = "live"
    /\ text_wanted' = NoPage
    /\ Flag(Below(2))
    /\ renderer' = "draining"
    /\ UNCHANGED <<cache_vars, reqs, q, stopping, worker_vars, out_vars, history, ui,
                   pending_tasks, reported>>

\* Fault: the destructor does not wait.
Drained_Always == TRUE

Drained == pending_tasks <= 0

RendererGone ==
    /\ renderer = "draining" /\ Drained
    /\ renderer' = "gone"
    /\ UNCHANGED <<vars, pending_tasks, reported>>

\* The engine goes next; pixmaps posted to the canvas are dropped when the
\* UI thread comes back to its messages.
CloseEngine ==
    /\ renderer = "gone"
    /\ \/ BeginShutdown \/ ShutdownNotifies \/ Destroy
       \/ ui = "gone" /\ \E r \in Ids : ConsumerDrops(r)
    /\ UNCHANGED thumb_vars

TFinished == renderer = "gone" /\ Finished /\ UNCHANGED thumb_vars

TNext ==
    \/ \E w \in Workers : TWorkerStep(w) \/ (SpuriousWakeup(w) /\ UNCHANGED thumb_vars)
    \/ CountTask
    \/ \E k \in Kinds : SubmitThumb(k)
    \/ ViewStep
    \/ CloseView
    \/ RendererGone
    \/ CloseEngine
    \/ TFinished

TFairness ==
    /\ \A w \in Workers : WF_tvars(TWorkerStep(w))
    /\ WF_tvars(SubmitReturns /\ UNCHANGED thumb_vars)
    /\ WF_tvars(RendererGone)
    /\ WF_tvars(CloseEngine)

TSafeSpec == TInit /\ [][TNext]_tvars
TSpec == TSafeSpec /\ TFairness

-----------------------------------------------------------------------------
(* Properties                                                              *)

\* The thumbnail requests whose callback has not returned.
Unreturned ==
    {r \in DOMAIN reqs : reqs[r].bypass_cache /\
        (r \in q \/ \E w \in Workers : job[w] = r)}

\* The count is the callbacks still to return, and the one being submitted:
\* lower, and the destructor frees what a callback is using; higher, and it
\* spins for ever with the UI thread.
TasksExact ==
    pending_tasks = Cardinality(Unreturned) + (IF renderer = "submitting" THEN 1 ELSE 0)

\* Once the destructor is through, no queued request and no worker holds a
\* callback into the freed Impl.
NoCallbackOutlives == renderer = "gone" => Unreturned = {}

\* (#117) A thumbnail reported as cancelled was cancelled while queued, and
\* is worth asking for again; one that failed to render is reported as
\* failed, or the pane would ask for it, and cancel it, without end.
CancelledMeansQueued ==
    \A r \in Ids :
        /\ reported[r] = "cancelled" => r \in cut \ begun
        /\ reported[r] = "failed" => r \in failed

\* The destructor's spin ends, whatever was queued when it began.
DrainEnds == renderer = "draining" ~> renderer = "gone"

\* The destructor waits for the callbacks, all of them and no more, and the
\* pane is told what became of each request.
CallbacksCounted == TasksExact /\ NoCallbackOutlives /\ CancelledMeansQueued

\* Both teardowns, the renderer's and then the engine's, come to their end with
\* every request finished.
TeardownFinishes == FinishesAll /\ DrainEnds
=============================================================================
