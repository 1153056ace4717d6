---------------------------- MODULE RenderEngine ----------------------------
(***************************************************************************)
(* The render worker pool of src/src/core/RenderEngine.cpp, its PageCache  *)
(* and the UI thread of one tab that submits to it, cancels and finally    *)
(* destroys it.                                                            *)
(*                                                                         *)
(* A worker's loop is split wherever another thread can come in between:   *)
(* at each acquisition of the queue mutex, each cache call (one critical   *)
(* section of the cache) and each read of the request's cancel flag.  The  *)
(* MuPDF work in between uses only the worker's own context and document.  *)
(* Atomics are read and written in one order for all threads.              *)
(*                                                                         *)
(* Request r is the r-th submitted, so its index is also QueuedRequest's   *)
(* seq, and its pixmap and its display list are the objects numbered r: a  *)
(* request makes at most one of each.                                      *)
(***************************************************************************)
EXTENDS PageCache

CONSTANTS
    Workers,
    MaxRequests,   \* bound on the submissions
    Kinds          \* the requests that are submitted: a set of Kind records

ASSUME EngineConstants ==
    /\ MaxRequests \in Nat
    /\ Pixmaps = 1..MaxRequests
    /\ Lists = 1..MaxRequests
    /\ Workers # {} /\ IsFiniteSet(Workers)

\* What of a RenderRequest decides its way: text is "on_text is set".  Every
\* caller outside the tests sets on_complete.
Kind == [page : Pages, scale : Scales, invert : BOOLEAN,
         priority : 0..3, bypass_cache : BOOLEAN, text : BOOLEAN]

ASSUME KindsAreRequests == Kinds \subseteq Kind

Ids    == 1..MaxRequests
NoObj  == 0
NoPage == -1

VARIABLES
    reqs,         \* the requests submitted, in order
    q,            \* Impl::q, by request
    canceled,     \* the requests whose cancel flag is set
    stopping,
    pc,           \* where each worker is in its loop
    job,          \* the request a worker has taken, or NoObj
    pix,          \* the pixmap a worker owns a reference of, or NoObj
    dlist,        \* the display list, likewise
    text_wanted,  \* the page whose text the view wants, or NoPage
    ui,           \* where the UI thread is
    shown,        \* the pixmap a callback took over and has not dropped yet
    answer,       \* history: what each request's on_complete got
    cut,          \* history: the requests flagged while still queued
    begun,        \* history: the requests that were rendered or looked up
    failed,       \* history: the requests whose MuPDF work failed
    texted        \* history: the requests whose on_text was called

queue_vars  == <<reqs, q, canceled, stopping, cut>>
worker_vars == <<pc, job, pix, dlist>>
out_vars    == <<shown, answer, texted>>
history     == <<begun, failed>>
ui_vars     == <<ui, text_wanted>>
vars == <<cache_vars, queue_vars, worker_vars, out_vars, history, ui_vars>>

Init ==
    /\ PageCacheInit
    /\ reqs = <<>> /\ q = {} /\ canceled = {} /\ stopping = FALSE
    /\ pc = [w \in Workers |-> "awake"]
    /\ job = [w \in Workers |-> NoObj]
    /\ pix = [w \in Workers |-> NoObj]
    /\ dlist = [w \in Workers |-> NoObj]
    /\ text_wanted = NoPage /\ ui = "live"
    /\ shown = [r \in Ids |-> NoObj]
    /\ answer = [r \in Ids |-> "none"]
    /\ cut = {} /\ begun = {} /\ failed = {} /\ texted = {}

Req(w) == reqs[job[w]]
Key(k) == [page |-> k.page, scale |-> k.scale, invert |-> k.invert]

\* Compare: the smaller priority first, then the earlier seq.
MoreUrgent(a, b) ==
    \/ reqs[a].priority < reqs[b].priority
    \/ reqs[a].priority = reqs[b].priority /\ a < b

Goto(w, l) == pc' = [pc EXCEPT ![w] = l]

\* Fault: the reference is not dropped.
DropOwn_Leaks(refs, o) == refs

\* The reference a worker owns is dropped, if it owns one.
DropOwn(refs, o) == IF o = NoObj THEN refs ELSE Drop(refs, {o})

\* continue: the next turn of the loop.
NextRequest(w) ==
    /\ Goto(w, "awake")
    /\ job' = [job EXCEPT ![w] = NoObj]
    /\ pix' = [pix EXCEPT ![w] = NoObj]

\* Faults: the flag of a request that a worker has taken is not looked at;
\* all requests share one flag.
CancelSeen_Never(w) == FALSE
CancelSeen_Shared(w) == canceled # {}

CancelSeen(w) == job[w] \in canceled

-----------------------------------------------------------------------------
(* A worker takes a request                                                *)

\* Faults: a worker leaves whatever is queued; it never leaves.
MayExit_AtOnce == stopping
MayExit_Never  == FALSE

MayExit == stopping /\ q = {}

\* Fault: the request is read from the heap and not popped.
Popped_Stays(r) == q

Popped(r) == q \ {r}

\* Under the queue mutex: the predicate of the wait, then exit or pop.
TakeRequest(w) ==
    /\ pc[w] = "awake"
    /\ \/ /\ MayExit
          /\ Goto(w, "exited")
          /\ UNCHANGED <<q, job>>
       \/ /\ q = {} /\ ~stopping
          /\ Goto(w, "asleep")
          /\ UNCHANGED <<q, job>>
       \/ \E r \in q :
            /\ \A o \in q \ {r} : MoreUrgent(r, o)
            /\ q' = Popped(r)
            /\ job' = [job EXCEPT ![w] = r]
            /\ Goto(w, "taken")
    /\ UNCHANGED <<cache_vars, reqs, canceled, stopping, cut, pix, dlist, out_vars, history, ui_vars>>

\* A condition variable may also wake with nothing to do.
SpuriousWakeup(w) ==
    /\ pc[w] = "asleep"
    /\ Goto(w, "awake")
    /\ UNCHANGED <<cache_vars, queue_vars, job, pix, dlist, out_vars, history, ui_vars>>

-----------------------------------------------------------------------------
(* The rendering pipeline                                                  *)

CheckpointA(w) ==
    /\ pc[w] = "taken"
    /\ \/ /\ CancelSeen(w)
          /\ Goto(w, "deliver")
          /\ UNCHANGED begun
       \/ /\ ~CancelSeen(w)
          /\ begun' = begun \cup {job[w]}
          /\ Goto(w, IF Req(w).bypass_cache THEN "build" ELSE "lookup")
    /\ UNCHANGED <<cache_vars, queue_vars, job, pix, dlist, out_vars, failed, ui_vars>>

LookupL1(w) ==
    /\ pc[w] = "lookup"
    /\ \/ /\ get_pixmap(Key(Req(w)))
          /\ pix' = [pix EXCEPT ![w] = l1_map[Key(Req(w))].pix]
          /\ Goto(w, "hit")
       \/ /\ ~l1_contains(Key(Req(w)))
          /\ Goto(w, "list")
          /\ UNCHANGED <<l1_vars, pix_vars, pix>>
    /\ UNCHANGED <<l2_vars, list_vars, queue_vars, job, dlist, out_vars, history, ui_vars>>

\* D3: a request whose cancellation is seen only after its L1 hit is let go
\* of: its on_complete is not called.
LateCancel(w) ==
    /\ pc[w] = "hit" /\ CancelSeen(w)
    /\ pix_refs' = DropOwn(pix_refs, pix[w])
    /\ answer' = [answer EXCEPT ![job[w]] = "skipped"]
    /\ NextRequest(w)
    /\ UNCHANGED <<l1_vars, image, l2_vars, list_vars, queue_vars, dlist, shown, texted, history, ui_vars>>

HitWanted(w) ==
    /\ pc[w] = "hit" /\ ~CancelSeen(w)
    /\ Goto(w, "deliver")
    /\ UNCHANGED <<cache_vars, queue_vars, job, pix, dlist, out_vars, history, ui_vars>>

LookupL2(w) ==
    /\ pc[w] = "list"
    /\ \/ /\ get_display_list(Req(w).page)
          /\ dlist' = [dlist EXCEPT ![w] = l2_map[Req(w).page]]
          /\ Goto(w, "checkB")
       \/ /\ Req(w).page \notin DOMAIN l2_map
          /\ Goto(w, "build")
          /\ UNCHANGED <<l2_vars, list_vars, dlist>>
    /\ UNCHANGED <<l1_vars, pix_vars, queue_vars, job, pix, out_vars, history, ui_vars>>

\* fz_load_page and fz_new_display_list_from_page, which may fail.
BuildList(w) ==
    LET r == job[w]
    IN  /\ pc[w] = "build"
        /\ \/ /\ failed' = failed \cup {r}
              /\ Goto(w, "checkB")
              /\ UNCHANGED <<list_vars, dlist>>
           \/ /\ dlist' = [dlist EXCEPT ![w] = r]
              /\ list_refs' = [list_refs EXCEPT ![r] = 1]
              /\ list_page' = [list_page EXCEPT ![r] = Req(w).page]
              /\ Goto(w, IF Req(w).bypass_cache THEN "checkB" ELSE "store_list")
              /\ UNCHANGED failed
        /\ UNCHANGED <<l1_vars, l2_vars, pix_vars, queue_vars, job, pix, out_vars, begun, ui_vars>>

\* Keep the list for this worker, give the first reference to L2.
StoreList(w) ==
    /\ pc[w] = "store_list"
    /\ put_display_list(Req(w).page, dlist[w], Keep(list_refs, dlist[w]))
    /\ Goto(w, "checkB")
    /\ UNCHANGED <<l1_vars, pix_vars, queue_vars, job, pix, dlist, out_vars, history, ui_vars>>

CheckpointB(w) ==
    /\ pc[w] = "checkB"
    /\ \/ /\ CancelSeen(w)
          /\ list_refs' = DropOwn(list_refs, dlist[w])
          /\ dlist' = [dlist EXCEPT ![w] = NoObj]
          /\ Goto(w, "deliver")
       \/ /\ ~CancelSeen(w)
          /\ Goto(w, IF dlist[w] = NoObj THEN "checkC" ELSE "raster")
          /\ UNCHANGED <<list_refs, dlist>>
    /\ UNCHANGED <<l1_vars, l2_vars, pix_vars, list_page, queue_vars, job, pix, out_vars, history, ui_vars>>

\* Fault: the pixmap is inverted only after it has been cached.
Rendered_Upright(k, d) ==
    [key |-> [page |-> list_page[d], scale |-> k.scale, invert |-> FALSE], bytes |-> 1]

\* A rendering shows the page its display list was made of, as the request
\* wants it, the inversion included; all have one size here.
Rendered(k, d) ==
    [key |-> [page |-> list_page[d], scale |-> k.scale, invert |-> k.invert], bytes |-> 1]

\* The rasterisation and the inversion, each of which may fail.
Rasterise(w) ==
    LET r == job[w]
    IN  /\ pc[w] = "raster"
        /\ list_refs' = DropOwn(list_refs, dlist[w])
        /\ dlist' = [dlist EXCEPT ![w] = NoObj]
        /\ \/ /\ failed' = failed \cup {r}
              /\ Goto(w, "checkC")
              /\ UNCHANGED <<pix, pix_vars>>
           \/ /\ pix' = [pix EXCEPT ![w] = r]
              /\ pix_refs' = [pix_refs EXCEPT ![r] = 1]
              /\ image' = [image EXCEPT ![r] = Rendered(Req(w), dlist[w])]
              /\ Goto(w, IF Req(w).bypass_cache THEN "checkC" ELSE "store")
              /\ UNCHANGED failed
        /\ UNCHANGED <<l1_vars, l2_vars, list_page, queue_vars, job, out_vars, begun, ui_vars>>

\* Keep the pixmap for the callback, give the first reference to L1.
StorePixmap(w) ==
    /\ pc[w] = "store"
    /\ put_pixmap(Key(Req(w)), pix[w], Keep(pix_refs, pix[w]))
    /\ Goto(w, "checkC")
    /\ UNCHANGED <<l2_vars, list_vars, queue_vars, job, pix, dlist, out_vars, history, ui_vars>>

CheckpointC(w) ==
    /\ pc[w] = "checkC"
    /\ \/ /\ CancelSeen(w)
          /\ pix_refs' = DropOwn(pix_refs, pix[w])
          /\ pix' = [pix EXCEPT ![w] = NoObj]
       \/ /\ ~CancelSeen(w)
          /\ UNCHANGED <<pix_refs, pix>>
    /\ Goto(w, "deliver")
    /\ UNCHANGED <<l1_vars, image, l2_vars, list_vars, queue_vars, job, dlist, out_vars, history, ui_vars>>

\* on_complete, on the worker: it takes over the pixmap.  A page render's is
\* posted to the UI thread or dropped (ConsumerDrops); a thumbnail's is
\* copied and dropped before the callback returns.
OnComplete(w) ==
    LET r == job[w]
    IN  /\ pc[w] = "deliver"
        /\ answer' = [answer EXCEPT ![r] = IF pix[w] = NoObj THEN "null" ELSE "pixmap"]
        /\ IF Req(w).bypass_cache
           THEN pix_refs' = DropOwn(pix_refs, pix[w]) /\ UNCHANGED shown
           ELSE shown' = [shown EXCEPT ![r] = pix[w]] /\ UNCHANGED pix_refs
        /\ pix' = [pix EXCEPT ![w] = NoObj]
        /\ Goto(w, "called")
    /\ UNCHANGED <<l1_vars, image, l2_vars, list_vars, queue_vars, job, dlist, texted, history, ui_vars>>

-----------------------------------------------------------------------------
(* maybe_deliver_text                                                      *)

\* Fault: text is offered whatever on_complete was given.
WantsText_Always(w) == Req(w).text

\* Text only after a pixmap.
WantsText(w) == Req(w).text /\ answer[job[w]] = "pixmap"

WaitingP0 == \E r \in q \ canceled : reqs[r].priority = 0

\* Rules 1 and 3, under the queue mutex.
CheckText(w) ==
    /\ pc[w] = "called"
    /\ \/ /\ WantsText(w) /\ ~stopping /\ ~WaitingP0
          /\ Goto(w, "wanted")
          /\ UNCHANGED <<job, pix>>
       \/ /\ ~WantsText(w) \/ stopping \/ WaitingP0
          /\ NextRequest(w)
    /\ UNCHANGED <<cache_vars, queue_vars, dlist, out_vars, history, ui_vars>>

StillWanted(w) == text_wanted = Req(w).page /\ ~CancelSeen(w)

\* Rules 2 and 4; then the build, and rule 1 again under the mutex.
BuildText(w) ==
    /\ \/ /\ pc[w] = "wanted" /\ StillWanted(w)
          /\ Goto(w, "built")
          /\ UNCHANGED <<job, pix>>
       \/ /\ pc[w] = "wanted" /\ ~StillWanted(w)
          /\ NextRequest(w)
       \/ /\ pc[w] = "built" /\ ~stopping
          /\ Goto(w, "recheck")
          /\ UNCHANGED <<job, pix>>
       \/ /\ pc[w] = "built" /\ stopping
          /\ NextRequest(w)
    /\ UNCHANGED <<cache_vars, queue_vars, dlist, out_vars, history, ui_vars>>

\* Rules 2 and 4 again; the page may also have no valid text.
DeliverText(w) ==
    /\ pc[w] = "recheck"
    /\ \/ StillWanted(w) /\ texted' = texted \cup {job[w]}
       \/ UNCHANGED texted
    /\ NextRequest(w)
    /\ UNCHANGED <<cache_vars, queue_vars, dlist, shown, answer, history, ui_vars>>

-----------------------------------------------------------------------------
(* The UI thread                                                           *)

\* submit, up to the unlock: the view says first which text it wants.
Submit(k) ==
    /\ ui = "live" /\ Len(reqs) < MaxRequests
    /\ reqs' = Append(reqs, k)
    /\ q' = q \cup {Len(reqs) + 1}
    /\ text_wanted' = IF k.text THEN k.page ELSE text_wanted
    /\ ui' = "notify_one"
    /\ UNCHANGED <<cache_vars, canceled, stopping, cut, worker_vars, out_vars, history>>

\* Faults: nobody is woken; one worker only is.
NotifyOne_Lost == pc' = pc
NotifyAll_One ==
    LET asleep == {w \in Workers : pc[w] = "asleep"}
    IN  IF asleep = {} THEN pc' = pc ELSE \E w \in asleep : Goto(w, "awake")

NotifyOne ==
    LET asleep == {w \in Workers : pc[w] = "asleep"}
    IN  IF asleep = {} THEN pc' = pc ELSE \E w \in asleep : Goto(w, "awake")

NotifyAll == pc' = [w \in Workers |-> IF pc[w] = "asleep" THEN "awake" ELSE pc[w]]

\* The end of submit, after the unlock.
SubmitReturns ==
    /\ ui = "notify_one"
    /\ NotifyOne
    /\ ui' = "live"
    /\ UNCHANGED <<cache_vars, queue_vars, job, pix, dlist, out_vars, history, text_wanted>>

\* Fault: the store goes to a copy of the flag.
Flag_OfCopy(S) == canceled' = canceled /\ cut' = cut \cup (S \cap q)

Flag(S) == canceled' = canceled \cup S /\ cut' = cut \cup (S \cap q)

\* cancel(token), or a store to the caller's own cancel_flag.  Thumbnails are
\* cancelled only by priority: ThumbnailRenderer keeps neither.
Cancel(r) ==
    /\ ui = "live" /\ r \in DOMAIN reqs \ canceled
    /\ ~reqs[r].bypass_cache
    /\ Flag({r})
    /\ UNCHANGED <<cache_vars, reqs, q, stopping, worker_vars, out_vars, history, ui_vars>>

\* Fault: every request of that priority is flagged, queued or not.
Below_Taken(p) == {r \in DOMAIN reqs : reqs[r].priority > p}

Below(p) == {r \in q : reqs[r].priority > p}

\* The loop over q, under the queue mutex.
cancel_all_below_priority(p) ==
    /\ ui = "live" /\ ~(Below(p) \subseteq canceled)
    /\ Flag(Below(p))
    /\ UNCHANGED <<cache_vars, reqs, q, stopping, worker_vars, out_vars, history, ui_vars>>

\* The view no longer wants any text (DocumentView: page change, text built).
ForgetText ==
    /\ ui = "live" /\ text_wanted # NoPage
    /\ text_wanted' = NoPage
    /\ UNCHANGED <<cache_vars, queue_vars, worker_vars, out_vars, history, ui>>

\* The tab leaves the screen showing k's page, and comes back.
Background(k) ==
    /\ ui = "live"
    /\ retain_l1_pages(k.scale, k.invert, {k.page})
    /\ UNCHANGED <<l2_vars, list_vars, queue_vars, worker_vars, out_vars, history, ui_vars>>
Foreground ==
    /\ ui = "live" /\ pin.on
    /\ release_l1_pin
    /\ UNCHANGED <<l2_vars, list_vars, queue_vars, worker_vars, out_vars, history, ui_vars>>

\* The owner of a delivered pixmap has drawn it, or never wanted it.
ConsumerDrops(r) ==
    /\ shown[r] # NoObj
    /\ pix_refs' = DropOwn(pix_refs, shown[r])
    /\ shown' = [shown EXCEPT ![r] = NoObj]
    /\ UNCHANGED <<l1_vars, image, l2_vars, list_vars, queue_vars, worker_vars, answer, texted, history, ui_vars>>

-----------------------------------------------------------------------------
(* The engine is destroyed, then the cache                                 *)

\* ~DocumentView lets go of the text first; begin_shutdown, up to the unlock.
BeginShutdown ==
    /\ ui = "live"
    /\ stopping' = TRUE
    /\ text_wanted' = NoPage
    /\ ui' = "notify_all"
    /\ UNCHANGED <<cache_vars, reqs, q, canceled, cut, worker_vars, out_vars, history>>

ShutdownNotifies ==
    /\ ui = "notify_all"
    /\ NotifyAll
    /\ ui' = "joining"
    /\ UNCHANGED <<cache_vars, queue_vars, job, pix, dlist, out_vars, history, text_wanted>>

AllJoined == \A w \in Workers : pc[w] = "exited"

\* Every worker is joined: the documents and contexts go, then the cache.
Destroy ==
    /\ ui = "joining" /\ AllJoined
    /\ clear
    /\ ui' = "gone"
    /\ UNCHANGED <<queue_vars, worker_vars, out_vars, history, text_wanted>>

-----------------------------------------------------------------------------

WorkerStep(w) ==
    \/ TakeRequest(w)
    \/ CheckpointA(w) \/ LookupL1(w) \/ LateCancel(w) \/ HitWanted(w)
    \/ LookupL2(w) \/ BuildList(w) \/ StoreList(w) \/ CheckpointB(w)
    \/ Rasterise(w) \/ StorePixmap(w) \/ CheckpointC(w) \/ OnComplete(w)
    \/ CheckText(w) \/ BuildText(w) \/ DeliverText(w)

UIStep ==
    \/ \E k \in Kinds : Submit(k) \/ Background(k)
    \/ SubmitReturns
    \/ \E r \in Ids : Cancel(r) \/ ConsumerDrops(r)
    \/ \E p \in {0, 2} : cancel_all_below_priority(p)
    \/ ForgetText
    \/ Foreground
    \/ BeginShutdown \/ ShutdownNotifies \/ Destroy

\* Nothing is left to do: a step that changes nothing.
Finished ==
    /\ ui = "gone" /\ \A r \in Ids : shown[r] = NoObj
    /\ UNCHANGED vars

Next ==
    \/ \E w \in Workers : WorkerStep(w) \/ SpuriousWakeup(w)
    \/ UIStep
    \/ Finished

SafeSpec == Init /\ [][Next]_vars

\* Worker threads run whenever they can, and the UI thread goes on with a
\* submit or a teardown it has begun; nothing makes it submit, cancel or
\* close, nor a condition variable wake by itself.
Fairness ==
    /\ \A w \in Workers : WF_vars(WorkerStep(w))
    /\ WF_vars(SubmitReturns)
    /\ WF_vars(ShutdownNotifies \/ Destroy)
    /\ \A r \in Ids : WF_vars(ConsumerDrops(r))

Spec == SafeSpec /\ Fairness
-----------------------------------------------------------------------------
(* Properties                                                              *)

Labels == {"awake", "asleep", "exited", "taken", "lookup", "hit", "list", "build",
           "store_list", "checkB", "raster", "store", "checkC", "deliver", "called",
           "wanted", "built", "recheck"}

\* Every variable of the engine keeps its type, and only submitted requests
\* are queued, cancelled or worked on.
EngineTypeOK ==
    /\ reqs \in Seq(Kinds) /\ Len(reqs) <= MaxRequests
    /\ q \subseteq DOMAIN reqs /\ canceled \subseteq DOMAIN reqs
    /\ cut \subseteq canceled /\ begun \subseteq DOMAIN reqs
    /\ failed \subseteq Ids /\ texted \subseteq Ids
    /\ stopping \in BOOLEAN
    /\ pc \in [Workers -> Labels]
    /\ job \in [Workers -> {NoObj} \cup DOMAIN reqs]
    /\ pix \in [Workers -> {NoObj} \cup Pixmaps]
    /\ dlist \in [Workers -> {NoObj} \cup Lists]
    /\ text_wanted \in Pages \cup {NoPage}
    /\ ui \in {"live", "notify_one", "notify_all", "joining", "gone"}
    /\ shown \in [Ids -> {NoObj} \cup Pixmaps]
    /\ answer \in [Ids -> {"none", "pixmap", "null", "skipped"}]

\* Between the cache, the workers and the callbacks, every reference of a
\* pixmap or a display list has one owner and every owner has one: whatever
\* way a request takes (hit, miss, cancelled at any checkpoint, failed,
\* refused by the cache) nothing leaks and nothing is freed in use.
RefsExact ==
    /\ \A p \in Pixmaps :
         pix_refs[p] = Cardinality({k \in DOMAIN l1_map : l1_map[k].pix = p})
                         + Cardinality({w \in Workers : pix[w] = p})
                         + Cardinality({r \in Ids : shown[r] = p})
    /\ \A d \in Lists :
         list_refs[d] = Cardinality({n \in DOMAIN l2_map : l2_map[n] = d})
                          + Cardinality({w \in Workers : dlist[w] = d})

\* A delivered pixmap shows the page, at the scale and in the polarity, that
\* its request asked for, however many requests for the same page ran side
\* by side and whichever of them filled the cache.
ShowsWhatWasAsked ==
    \A r \in Ids : shown[r] # NoObj =>
        pix_refs[shown[r]] > 0 /\ image[shown[r]].key = Key(reqs[r])

\* A submitted request is in one place: queued, with one worker that has not
\* finished it, or finished (its worker may still be busy with its text).
OnePlace ==
    \A r \in DOMAIN reqs :
        LET workers == {w \in Workers : job[w] = r}
        IN  \/ answer[r] = "none" /\ r \in q /\ workers = {}
            \/ answer[r] = "none" /\ r \notin q /\ \E w \in Workers : workers = {w}
            \/ answer[r] # "none" /\ r \notin q /\ \A v, w \in workers : v = w

\* on_complete is called at most once for a request, and never for one that
\* was let go of: its callback frees what a second call would use.
AnsweredOnce ==
    [][ \A w \in Workers : OnComplete(w) \/ LateCancel(w) => answer[job[w]] = "none" ]_vars

\* A null pixmap means the request was cancelled or its page could not be
\* rendered: a caller that was not told to give up never sees one otherwise.
NullIsExplained == \A r \in Ids : answer[r] = "null" => r \in canceled \cup failed

\* A request flagged while it is queued costs no work: no worker begins it,
\* nor looks it up (why a tab switch flags the queued prefetches).
CutNeverBegins == cut \cap begun = {}

\* (#98) A page's text is sent only after its pixmap was: a failed or
\* cancelled render has none, also when the flag changes while it runs.
TextFollowsPixmap == \A r \in texted : answer[r] = "pixmap"

\* What a request is given is what it asked for, at the cost of no reference
\* and of no work that was called off.
AnswersFaithful == RefsExact /\ ShowsWhatWasAsked /\ CutNeverBegins /\ TextFollowsPixmap

\* How RenderService's state reads off the engine's.
ServiceState ==
    [r \in Ids |-> IF r \notin DOMAIN reqs THEN "absent"
                   ELSE IF answer[r] = "none" THEN "waiting" ELSE answer[r]]
ServicePhase == IF ~stopping THEN "open" ELSE IF ui # "gone" THEN "closing" ELSE "closed"

Service == INSTANCE RenderService WITH
    Requests <- Ids, state <- ServiceState, withdrawn <- canceled, phase <- ServicePhase

\* The engine keeps RenderService's promise: each request finishes once, and
\* the engine is gone only when none waits, the queued ones included.
FinishesOnce == Service!SafeSpec

\* It also keeps it in time: every request finishes, before and during the
\* teardown, and ~RenderEngine returns: no wakeup of a submit or of the
\* shutdown is lost.
FinishesAll == Service!Spec

\* RenderEngine.cpp:171: "even on cancel, callback must fire (with nullptr)".
CancelStillAnswered == \A r \in Ids : answer[r] # "skipped"
=============================================================================
