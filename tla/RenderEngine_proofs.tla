------------------------ MODULE RenderEngine_proofs ------------------------
(***************************************************************************)
(* Theorems about RenderEngine, for any number of workers and requests and *)
(* any cache sizes.  Inv is the inductive invariant: beside the types it   *)
(* says where a request is (in the queue, with one worker, finished), what *)
(* a worker owns at each place of its loop, and what a teardown has        *)
(* already established.                                                    *)
(***************************************************************************)
EXTENDS ThumbnailRenderer, PageCache_proofs

Idle     == {"awake", "asleep", "exited"}
Working  == {"taken", "lookup", "hit", "list", "build", "store_list", "checkB",
             "raster", "store", "checkC", "deliver"}
Texting  == {"wanted", "built", "recheck"}

\* The cache stores objects of the allocator.
CacheObjects ==
    /\ \A k \in DOMAIN l1_map : l1_map[k].pix \in Pixmaps
    /\ \A n \in DOMAIN l2_map : l2_map[n] \in Lists

\* A worker has a request exactly while it is not between two of them, and
\* the request has been answered exactly from "called" on.
JobInv ==
    \A w \in Workers :
        /\ pc[w] \in Idle <=> job[w] = NoObj
        /\ pc[w] \in Working => answer[job[w]] = "none"
        /\ pc[w] \in Texting \cup {"called"} => answer[job[w]] # "none"
        /\ pc[w] \in Texting => answer[job[w]] = "pixmap"

\* A queued request is untouched: no worker has it, none has begun it.
QueueInv ==
    \A r \in q : answer[r] = "none" /\ r \notin begun /\ \A w \in Workers : job[w] # r

OwnerInv ==
    \A v, w \in Workers : job[v] = job[w] /\ job[v] # NoObj => v = w

\* An unanswered request is queued or a worker has it.
PlaceInv ==
    \A r \in DOMAIN reqs : answer[r] = "none" => r \in q \/ \E w \in Workers : job[w] = r

\* Nothing has been said of a request that is not submitted yet.
FreshInv ==
    \A r \in Ids \ DOMAIN reqs : answer[r] = "none"

\* A worker without a pixmap or a list has a reason.
ObjectInv ==
    \A w \in Workers :
        /\ pc[w] \in {"hit", "store"} => pix[w] # NoObj
        /\ pc[w] \in {"raster", "store_list"} => dlist[w] # NoObj
        /\ pc[w] = "checkB" /\ dlist[w] = NoObj => job[w] \in failed
        /\ pc[w] \in {"checkC", "deliver"} /\ pix[w] = NoObj => job[w] \in canceled \cup failed

\* A worker exits, and the engine is destroyed, only on an empty queue, and
\* nothing is queued from the shutdown on.
CloseInv ==
    /\ stopping <=> ui \in {"notify_all", "joining", "gone"}
    /\ \A w \in Workers : pc[w] = "exited" => stopping /\ q = {}
    /\ ui = "gone" => \A w \in Workers : pc[w] = "exited"

Inv ==
    /\ EngineTypeOK /\ CacheObjects
    /\ JobInv /\ QueueInv /\ OwnerInv /\ PlaceInv /\ FreshInv
    /\ ObjectInv /\ CloseInv
    /\ NullIsExplained /\ CutNeverBegins /\ TextFollowsPixmap

USE EngineConstants, KindsAreRequests, CacheConstants DEF Ids, NoObj, NoPage, Idle, Working, Texting

-----------------------------------------------------------------------------
(* What the cache's operations leave in it                                 *)

\* A put stores the caller's object, or keeps what was there.
LEMMA PutPixmapObjects ==
    ASSUME CacheObjects, NEW k, NEW p \in Pixmaps, NEW refs, put_pixmap(k, p, refs)
    PROVE  \A x \in DOMAIN l1_map' : l1_map'[x].pix \in Pixmaps
<1>1. CASE RefusePixmap(p, refs)
  BY <1>1 DEF RefusePixmap, CacheObjects
<1>2. CASE k \in DOMAIN l1_map /\ ReplacePixmap(k, p, refs)
  BY <1>2 DEF ReplacePixmap, CacheObjects, Without, Restrict
<1>3. CASE InsertPixmap(k, p, refs)
  BY <1>3 DEF InsertPixmap, CacheObjects
<1> QED
  BY <1>1, <1>2, <1>3 DEF put_pixmap

LEMMA PutListObjects ==
    ASSUME CacheObjects, NEW n, NEW d \in Lists, NEW refs, put_display_list(n, d, refs)
    PROVE  \A x \in DOMAIN l2_map' : l2_map'[x] \in Lists
<1>1. CASE RefuseList(d, refs)
  BY <1>1 DEF RefuseList, CacheObjects, l2_vars
<1>2. CASE n \in DOMAIN l2_map /\ ReplaceList(n, d, refs)
  BY <1>2 DEF ReplaceList, CacheObjects
<1>3. CASE InsertList(n, d, refs)
  BY <1>3 DEF InsertList, CacheObjects
<1> QED
  BY <1>1, <1>2, <1>3 DEF put_display_list
-----------------------------------------------------------------------------
(* Steps that leave the requests where they are                            *)

LEMMA SubmittedIds ==
    ASSUME EngineTypeOK
    PROVE  DOMAIN reqs \subseteq Ids /\ DOMAIN reqs = 1..Len(reqs) /\ Len(reqs) \in Nat
BY DEF EngineTypeOK

LEMMA HasJob ==
    ASSUME Inv, NEW w \in Workers, pc[w] \notin Idle
    PROVE  job[w] \in DOMAIN reqs /\ job[w] \in Ids /\ job[w] # NoObj
BY SubmittedIds DEF Inv, EngineTypeOK, JobInv

\* What Inv says of a request's place and of its history.
RequestInv ==
    /\ JobInv /\ QueueInv /\ OwnerInv /\ PlaceInv /\ FreshInv /\ CloseInv
    /\ NullIsExplained /\ CutNeverBegins /\ TextFollowsPixmap

SameQueue == UNCHANGED <<reqs, q, canceled, stopping, cut, ui>>

\* A worker moves on within the pipeline, or begins it: whatever it does to
\* the cache and to its objects, its request stays with it, unanswered.
LEMMA PipelineStep ==
    ASSUME Inv, NEW w \in Workers, pc[w] \in Working,
           NEW l \in Working, pc' = [pc EXCEPT ![w] = l], UNCHANGED <<job, answer, texted>>,
           SameQueue,
           failed \subseteq failed',
           begun' \subseteq begun \cup ({job[w]} \ canceled)
    PROVE  RequestInv'
<1>1. JobInv' /\ QueueInv' /\ OwnerInv' /\ PlaceInv' /\ FreshInv'
  BY DEF Inv, EngineTypeOK, JobInv, QueueInv, OwnerInv, PlaceInv, FreshInv, SameQueue
<1>2. CloseInv'
  BY DEF Inv, EngineTypeOK, CloseInv, SameQueue
<1>3. NullIsExplained' /\ CutNeverBegins' /\ TextFollowsPixmap'
  BY DEF Inv, EngineTypeOK, NullIsExplained, CutNeverBegins, TextFollowsPixmap, SameQueue
<1> QED
  BY <1>1, <1>2, <1>3 DEF RequestInv

\* A worker goes on with its request's text, or is done with the request.
LEMMA TextStep ==
    ASSUME Inv, NEW w \in Workers, pc[w] \in Texting \cup {"called"},
           \/ /\ answer[job[w]] = "pixmap" /\ UNCHANGED <<job, pix>>
              /\ \E l \in Texting : pc' = [pc EXCEPT ![w] = l]
           \/ NextRequest(w),
           texted' \subseteq texted \cup {r \in {job[w]} : answer[r] = "pixmap"},
           UNCHANGED <<answer, dlist, shown, text_wanted, begun, failed, l1_map, l2_map>>,
           SameQueue
    PROVE  Inv'
<1>1. job[w] \in DOMAIN reqs /\ job[w] \in Ids /\ job[w] # NoObj
  BY HasJob
<1>2. JobInv'
  <2>1. ASSUME answer[job[w]] = "pixmap", UNCHANGED job,
               NEW l \in Texting, pc' = [pc EXCEPT ![w] = l]
        PROVE  JobInv'
    BY <1>1, <2>1 DEF Inv, EngineTypeOK, JobInv
  <2>2. CASE NextRequest(w)
    BY <1>1, <2>2 DEF Inv, EngineTypeOK, JobInv, OwnerInv, NextRequest, Goto
  <2> QED
    BY <2>1, <2>2
<1>3. QueueInv' /\ OwnerInv' /\ PlaceInv' /\ FreshInv'
  BY <1>1 DEF Inv, EngineTypeOK, JobInv, QueueInv, OwnerInv, PlaceInv, FreshInv, SameQueue, NextRequest, Goto
<1>4. EngineTypeOK' /\ CacheObjects'
  BY <1>1 DEF Inv, EngineTypeOK, CacheObjects, Labels, SameQueue, NextRequest, Goto
<1>5. ObjectInv' /\ CloseInv'
  BY DEF Inv, EngineTypeOK, ObjectInv, CloseInv, SameQueue, NextRequest, Goto
<1>6. NullIsExplained' /\ CutNeverBegins' /\ TextFollowsPixmap'
  BY <1>1 DEF Inv, NullIsExplained, CutNeverBegins, TextFollowsPixmap, SameQueue
<1> QED
  BY <1>2, <1>3, <1>4, <1>5, <1>6 DEF Inv

\* The UI thread touches the cache, the text it wants or its own pixmaps.
LEMMA ViewStepKeepsInv ==
    ASSUME Inv, UNCHANGED <<worker_vars, history, answer, texted>>, SameQueue,
           CacheObjects',
           text_wanted' \in Pages \cup {NoPage},
           shown' \in [Ids -> {NoObj} \cup Pixmaps]
    PROVE  Inv'
<1>1. EngineTypeOK'
  BY DEF Inv, EngineTypeOK, Labels, SameQueue, worker_vars, history
<1>2. JobInv' /\ QueueInv' /\ OwnerInv' /\ PlaceInv' /\ FreshInv' /\ ObjectInv' /\ CloseInv'
  BY DEF Inv, JobInv, QueueInv, OwnerInv, PlaceInv, FreshInv, ObjectInv, CloseInv, SameQueue, worker_vars, history
<1>3. NullIsExplained' /\ CutNeverBegins' /\ TextFollowsPixmap'
  BY DEF Inv, NullIsExplained, CutNeverBegins, TextFollowsPixmap, SameQueue, history
<1> QED
  BY <1>1, <1>2, <1>3 DEF Inv

-----------------------------------------------------------------------------
(* The steps of a worker                                                   *)

LEMMA TakeRequest_Step ==
    ASSUME Inv, NEW w \in Workers, TakeRequest(w)
    PROVE  Inv'
<1>1. CASE pc' = [pc EXCEPT ![w] = "exited"] /\ MayExit /\ UNCHANGED <<q, job>>
  <2>1. EngineTypeOK' /\ CacheObjects'
    BY <1>1 DEF Inv, EngineTypeOK, CacheObjects, Labels, TakeRequest, cache_vars, l1_vars, l2_vars, out_vars, history, ui_vars
  <2>2. JobInv' /\ QueueInv' /\ OwnerInv' /\ PlaceInv' /\ FreshInv'
    BY <1>1 DEF Inv, EngineTypeOK, JobInv, QueueInv, OwnerInv, PlaceInv, FreshInv, TakeRequest, out_vars, history
  <2>3. ObjectInv' /\ CloseInv'
    BY <1>1 DEF Inv, EngineTypeOK, ObjectInv, CloseInv, MayExit, TakeRequest, history, ui_vars
  <2>4. NullIsExplained' /\ CutNeverBegins' /\ TextFollowsPixmap'
    BY <1>1 DEF Inv, NullIsExplained, CutNeverBegins, TextFollowsPixmap, TakeRequest, out_vars, history
  <2> QED
    BY <2>1, <2>2, <2>3, <2>4 DEF Inv
<1>2. CASE pc' = [pc EXCEPT ![w] = "asleep"] /\ UNCHANGED <<q, job>>
  <2>1. EngineTypeOK' /\ CacheObjects'
    BY <1>2 DEF Inv, EngineTypeOK, CacheObjects, Labels, TakeRequest, cache_vars, l1_vars, l2_vars, out_vars, history, ui_vars
  <2>2. JobInv' /\ QueueInv' /\ OwnerInv' /\ PlaceInv' /\ FreshInv'
    BY <1>2 DEF Inv, EngineTypeOK, JobInv, QueueInv, OwnerInv, PlaceInv, FreshInv, TakeRequest, out_vars, history
  <2>3. ObjectInv' /\ CloseInv'
    BY <1>2 DEF Inv, EngineTypeOK, ObjectInv, CloseInv, TakeRequest, history, ui_vars
  <2>4. NullIsExplained' /\ CutNeverBegins' /\ TextFollowsPixmap'
    BY <1>2 DEF Inv, NullIsExplained, CutNeverBegins, TextFollowsPixmap, TakeRequest, out_vars, history
  <2> QED
    BY <2>1, <2>2, <2>3, <2>4 DEF Inv
<1>3. ASSUME NEW r \in q, q' = q \ {r}, job' = [job EXCEPT ![w] = r], pc' = [pc EXCEPT ![w] = "taken"]
      PROVE  Inv'
  <2>1. r \in DOMAIN reqs /\ r # NoObj
    BY SubmittedIds DEF Inv, EngineTypeOK
  <2>2. EngineTypeOK' /\ CacheObjects'
    BY <1>3, <2>1 DEF Inv, EngineTypeOK, CacheObjects, Labels, TakeRequest, cache_vars, l1_vars, l2_vars, out_vars, history, ui_vars
  <2>3. JobInv' /\ QueueInv' /\ OwnerInv'
    BY <1>3, <2>1 DEF Inv, EngineTypeOK, JobInv, QueueInv, OwnerInv, TakeRequest, out_vars, history
  <2>4. PlaceInv' /\ FreshInv'
    BY <1>3, <2>1 DEF Inv, EngineTypeOK, JobInv, PlaceInv, FreshInv, TakeRequest, out_vars
  <2>5. ObjectInv' /\ CloseInv'
    BY <1>3 DEF Inv, EngineTypeOK, ObjectInv, CloseInv, TakeRequest, history, ui_vars
  <2>6. NullIsExplained' /\ CutNeverBegins' /\ TextFollowsPixmap'
    BY <1>3 DEF Inv, NullIsExplained, CutNeverBegins, TextFollowsPixmap, TakeRequest, out_vars, history
  <2> QED
    BY <2>2, <2>3, <2>4, <2>5, <2>6 DEF Inv
<1> QED
  BY <1>1, <1>2, <1>3 DEF TakeRequest, Goto, Popped

LEMMA CheckpointA_Step ==
    ASSUME Inv, NEW w \in Workers, CheckpointA(w)
    PROVE  Inv'
<1>1. job[w] \in DOMAIN reqs /\ job[w] \in Ids /\ job[w] # NoObj
  BY HasJob DEF CheckpointA
<1>2. RequestInv'
  BY PipelineStep DEF CheckpointA, CancelSeen, Goto, SameQueue, cache_vars, queue_vars, out_vars, history, ui_vars
<1>3. EngineTypeOK'
  BY <1>1 DEF Inv, EngineTypeOK, CacheObjects, ObjectInv, Labels, CheckpointA, CancelSeen, Goto, cache_vars, queue_vars, out_vars, history, ui_vars
<1>4. CacheObjects'
  BY DEF Inv, EngineTypeOK, ObjectInv, CacheObjects, CheckpointA, CancelSeen, Goto, cache_vars, l1_vars, l2_vars
<1>5. ObjectInv'
  BY <1>1 DEF Inv, EngineTypeOK, CacheObjects, ObjectInv, CheckpointA, CancelSeen, Goto, queue_vars, history
<1> QED
  BY <1>2, <1>3, <1>4, <1>5 DEF Inv, RequestInv

LEMMA LookupL1_Step ==
    ASSUME Inv, NEW w \in Workers, LookupL1(w)
    PROVE  Inv'
<1>1. job[w] \in DOMAIN reqs /\ job[w] \in Ids /\ job[w] # NoObj
  BY HasJob DEF LookupL1
<1>2. RequestInv'
  BY PipelineStep DEF LookupL1, get_pixmap, l1_contains, Goto, SameQueue, cache_vars, queue_vars, out_vars, history, ui_vars
<1>3. EngineTypeOK'
  BY <1>1 DEF Inv, EngineTypeOK, CacheObjects, ObjectInv, Labels, LookupL1, get_pixmap, l1_contains, Goto, cache_vars, queue_vars, out_vars, history, ui_vars
<1>4. CacheObjects'
  BY DEF Inv, EngineTypeOK, ObjectInv, CacheObjects, LookupL1, get_pixmap, l1_contains, Goto, cache_vars, l1_vars, l2_vars
<1>5. ObjectInv'
  BY <1>1 DEF Inv, EngineTypeOK, CacheObjects, ObjectInv, LookupL1, get_pixmap, l1_contains, Goto, queue_vars, history
<1> QED
  BY <1>2, <1>3, <1>4, <1>5 DEF Inv, RequestInv

LEMMA HitWanted_Step ==
    ASSUME Inv, NEW w \in Workers, HitWanted(w)
    PROVE  Inv'
<1>1. job[w] \in DOMAIN reqs /\ job[w] \in Ids /\ job[w] # NoObj
  BY HasJob DEF HitWanted
<1>2. RequestInv'
  BY PipelineStep DEF HitWanted, Goto, SameQueue, cache_vars, queue_vars, out_vars, history, ui_vars
<1>3. EngineTypeOK'
  BY <1>1 DEF Inv, EngineTypeOK, CacheObjects, ObjectInv, Labels, HitWanted, Goto, cache_vars, queue_vars, out_vars, history, ui_vars
<1>4. CacheObjects'
  BY DEF Inv, EngineTypeOK, ObjectInv, CacheObjects, HitWanted, Goto, cache_vars, l1_vars, l2_vars
<1>5. ObjectInv'
  BY <1>1 DEF Inv, EngineTypeOK, CacheObjects, ObjectInv, HitWanted, Goto, queue_vars, history
<1> QED
  BY <1>2, <1>3, <1>4, <1>5 DEF Inv, RequestInv

LEMMA LookupL2_Step ==
    ASSUME Inv, NEW w \in Workers, LookupL2(w)
    PROVE  Inv'
<1>1. job[w] \in DOMAIN reqs /\ job[w] \in Ids /\ job[w] # NoObj
  BY HasJob DEF LookupL2
<1>2. RequestInv'
  BY PipelineStep DEF LookupL2, get_display_list, Goto, SameQueue, cache_vars, queue_vars, out_vars, history, ui_vars
<1>3. EngineTypeOK'
  BY <1>1 DEF Inv, EngineTypeOK, CacheObjects, ObjectInv, Labels, LookupL2, get_display_list, Goto, cache_vars, queue_vars, out_vars, history, ui_vars
<1>4. CacheObjects'
  BY DEF Inv, EngineTypeOK, ObjectInv, CacheObjects, LookupL2, get_display_list, Goto, cache_vars, l1_vars, l2_vars
<1>5. ObjectInv'
  BY <1>1 DEF Inv, EngineTypeOK, CacheObjects, ObjectInv, LookupL2, get_display_list, Goto, queue_vars, history
<1> QED
  BY <1>2, <1>3, <1>4, <1>5 DEF Inv, RequestInv

LEMMA BuildList_Step ==
    ASSUME Inv, NEW w \in Workers, BuildList(w)
    PROVE  Inv'
<1>1. job[w] \in DOMAIN reqs /\ job[w] \in Ids /\ job[w] # NoObj
  BY HasJob DEF BuildList
<1>2. RequestInv'
  BY PipelineStep DEF BuildList, Goto, SameQueue, cache_vars, queue_vars, out_vars, history, ui_vars
<1>3. EngineTypeOK'
  BY <1>1 DEF Inv, EngineTypeOK, CacheObjects, ObjectInv, Labels, BuildList, Goto, cache_vars, queue_vars, out_vars, history, ui_vars
<1>4. CacheObjects'
  BY DEF Inv, EngineTypeOK, ObjectInv, CacheObjects, BuildList, Goto, cache_vars, l1_vars, l2_vars
<1>5. ObjectInv'
  BY <1>1 DEF Inv, EngineTypeOK, CacheObjects, ObjectInv, BuildList, Goto, queue_vars, history
<1> QED
  BY <1>2, <1>3, <1>4, <1>5 DEF Inv, RequestInv

LEMMA StoreList_Step ==
    ASSUME Inv, NEW w \in Workers, StoreList(w)
    PROVE  Inv'
<1>1. job[w] \in DOMAIN reqs /\ job[w] \in Ids /\ job[w] # NoObj
  BY HasJob DEF StoreList
<1>2. RequestInv'
  BY PipelineStep DEF StoreList, Goto, SameQueue, cache_vars, queue_vars, out_vars, history, ui_vars
<1>3. EngineTypeOK'
  BY <1>1 DEF Inv, EngineTypeOK, CacheObjects, ObjectInv, Labels, StoreList, Goto, cache_vars, queue_vars, out_vars, history, ui_vars
<1>4. CacheObjects'
  BY <1>1, PutListObjects DEF Inv, EngineTypeOK, ObjectInv, CacheObjects, StoreList, Goto, cache_vars, l1_vars, l2_vars
<1>5. ObjectInv'
  BY <1>1 DEF Inv, EngineTypeOK, CacheObjects, ObjectInv, StoreList, Goto, queue_vars, history
<1> QED
  BY <1>2, <1>3, <1>4, <1>5 DEF Inv, RequestInv

LEMMA CheckpointB_Step ==
    ASSUME Inv, NEW w \in Workers, CheckpointB(w)
    PROVE  Inv'
<1>1. job[w] \in DOMAIN reqs /\ job[w] \in Ids /\ job[w] # NoObj
  BY HasJob DEF CheckpointB
<1>2. RequestInv'
  BY PipelineStep DEF CheckpointB, CancelSeen, Goto, SameQueue, cache_vars, queue_vars, out_vars, history, ui_vars
<1>3. EngineTypeOK'
  BY <1>1 DEF Inv, EngineTypeOK, CacheObjects, ObjectInv, Labels, CheckpointB, CancelSeen, Goto, cache_vars, queue_vars, out_vars, history, ui_vars
<1>4. CacheObjects'
  BY DEF Inv, EngineTypeOK, ObjectInv, CacheObjects, CheckpointB, CancelSeen, Goto, cache_vars, l1_vars, l2_vars
<1>5. ObjectInv'
  BY <1>1 DEF Inv, EngineTypeOK, CacheObjects, ObjectInv, CheckpointB, CancelSeen, Goto, queue_vars, history
<1> QED
  BY <1>2, <1>3, <1>4, <1>5 DEF Inv, RequestInv

LEMMA Rasterise_Step ==
    ASSUME Inv, NEW w \in Workers, Rasterise(w)
    PROVE  Inv'
<1>1. job[w] \in DOMAIN reqs /\ job[w] \in Ids /\ job[w] # NoObj
  BY HasJob DEF Rasterise
<1>2. RequestInv'
  BY PipelineStep DEF Rasterise, Goto, SameQueue, cache_vars, queue_vars, out_vars, history, ui_vars
<1>3. EngineTypeOK'
  BY <1>1 DEF Inv, EngineTypeOK, CacheObjects, ObjectInv, Labels, Rasterise, Goto, cache_vars, queue_vars, out_vars, history, ui_vars
<1>4. CacheObjects'
  BY DEF Inv, EngineTypeOK, ObjectInv, CacheObjects, Rasterise, Goto, cache_vars, l1_vars, l2_vars
<1>5. ObjectInv'
  BY <1>1 DEF Inv, EngineTypeOK, CacheObjects, ObjectInv, Rasterise, Goto, queue_vars, history
<1> QED
  BY <1>2, <1>3, <1>4, <1>5 DEF Inv, RequestInv

LEMMA StorePixmap_Step ==
    ASSUME Inv, NEW w \in Workers, StorePixmap(w)
    PROVE  Inv'
<1>1. job[w] \in DOMAIN reqs /\ job[w] \in Ids /\ job[w] # NoObj
  BY HasJob DEF StorePixmap
<1>2. RequestInv'
  BY PipelineStep DEF StorePixmap, Goto, SameQueue, cache_vars, queue_vars, out_vars, history, ui_vars
<1>3. EngineTypeOK'
  BY <1>1 DEF Inv, EngineTypeOK, CacheObjects, ObjectInv, Labels, StorePixmap, Goto, cache_vars, queue_vars, out_vars, history, ui_vars
<1>4. CacheObjects'
  BY <1>1, PutPixmapObjects DEF Inv, EngineTypeOK, ObjectInv, CacheObjects, StorePixmap, Goto, cache_vars, l1_vars, l2_vars
<1>5. ObjectInv'
  BY <1>1 DEF Inv, EngineTypeOK, CacheObjects, ObjectInv, StorePixmap, Goto, queue_vars, history
<1> QED
  BY <1>2, <1>3, <1>4, <1>5 DEF Inv, RequestInv

LEMMA CheckpointC_Step ==
    ASSUME Inv, NEW w \in Workers, CheckpointC(w)
    PROVE  Inv'
<1>1. job[w] \in DOMAIN reqs /\ job[w] \in Ids /\ job[w] # NoObj
  BY HasJob DEF CheckpointC
<1>2. RequestInv'
  BY PipelineStep DEF CheckpointC, CancelSeen, Goto, SameQueue, cache_vars, queue_vars, out_vars, history, ui_vars
<1>3. EngineTypeOK'
  BY <1>1 DEF Inv, EngineTypeOK, CacheObjects, ObjectInv, Labels, CheckpointC, CancelSeen, Goto, cache_vars, queue_vars, out_vars, history, ui_vars
<1>4. CacheObjects'
  BY DEF Inv, EngineTypeOK, ObjectInv, CacheObjects, CheckpointC, CancelSeen, Goto, cache_vars, l1_vars, l2_vars
<1>5. ObjectInv'
  BY <1>1 DEF Inv, EngineTypeOK, CacheObjects, ObjectInv, CheckpointC, CancelSeen, Goto, queue_vars, history
<1> QED
  BY <1>2, <1>3, <1>4, <1>5 DEF Inv, RequestInv

LEMMA LateCancel_Step ==
    ASSUME Inv, NEW w \in Workers, LateCancel(w)
    PROVE  Inv'
<1>1. job[w] \in DOMAIN reqs /\ job[w] \in Ids /\ job[w] # NoObj
  BY HasJob DEF LateCancel
<1>2. EngineTypeOK' /\ CacheObjects'
  BY <1>1 DEF Inv, EngineTypeOK, CacheObjects, Labels, LateCancel, NextRequest, Goto, queue_vars, history, ui_vars, l1_vars, l2_vars
<1>3. JobInv' /\ QueueInv' /\ OwnerInv' /\ FreshInv'
  BY <1>1 DEF Inv, EngineTypeOK, JobInv, QueueInv, OwnerInv, FreshInv, LateCancel, NextRequest, Goto, queue_vars, history
<1>4. PlaceInv'
  BY <1>1 DEF Inv, EngineTypeOK, JobInv, PlaceInv, LateCancel, NextRequest, Goto, queue_vars
<1>5. ObjectInv' /\ CloseInv'
  BY DEF Inv, EngineTypeOK, ObjectInv, CloseInv, LateCancel, NextRequest, Goto, queue_vars, history, ui_vars
<1>6. NullIsExplained' /\ CutNeverBegins' /\ TextFollowsPixmap'
  BY <1>1 DEF Inv, EngineTypeOK, JobInv, NullIsExplained, CutNeverBegins, TextFollowsPixmap, LateCancel, queue_vars, history
<1> QED
  BY <1>2, <1>3, <1>4, <1>5, <1>6 DEF Inv

LEMMA OnComplete_Step ==
    ASSUME Inv, NEW w \in Workers, OnComplete(w)
    PROVE  Inv'
<1>1. job[w] \in DOMAIN reqs /\ job[w] \in Ids /\ job[w] # NoObj
  BY HasJob DEF OnComplete
<1>2. EngineTypeOK' /\ CacheObjects'
  BY <1>1 DEF Inv, EngineTypeOK, CacheObjects, Labels, OnComplete, Goto, queue_vars, history, ui_vars, l1_vars, l2_vars
<1>3. JobInv' /\ QueueInv' /\ OwnerInv' /\ PlaceInv' /\ FreshInv'
  BY <1>1 DEF Inv, EngineTypeOK, JobInv, QueueInv, OwnerInv, PlaceInv, FreshInv, OnComplete, Goto, queue_vars, history
<1>4. ObjectInv' /\ CloseInv'
  BY DEF Inv, EngineTypeOK, ObjectInv, CloseInv, OnComplete, Goto, queue_vars, history, ui_vars
<1>5. NullIsExplained' /\ CutNeverBegins' /\ TextFollowsPixmap'
  BY <1>1 DEF Inv, EngineTypeOK, JobInv, ObjectInv, NullIsExplained, CutNeverBegins, TextFollowsPixmap, OnComplete, queue_vars, history
<1> QED
  BY <1>2, <1>3, <1>4, <1>5 DEF Inv

LEMMA Text_Step ==
    ASSUME Inv, NEW w \in Workers, CheckText(w) \/ BuildText(w) \/ DeliverText(w)
    PROVE  Inv'
<1>1. CASE CheckText(w)
  BY <1>1, TextStep DEF CheckText, WantsText, Goto, SameQueue, cache_vars, l1_vars, l2_vars, queue_vars, out_vars, history, ui_vars
<1>2. CASE BuildText(w)
  <2>1. answer[job[w]] = "pixmap"
    BY <1>2 DEF Inv, JobInv, BuildText
  <2> QED
    BY <1>2, <2>1, TextStep DEF BuildText, Goto, SameQueue, cache_vars, l1_vars, l2_vars, queue_vars, out_vars, history, ui_vars
<1>3. CASE DeliverText(w)
  <2>1. answer[job[w]] = "pixmap"
    BY <1>3 DEF Inv, JobInv, DeliverText
  <2> QED
    BY <1>3, <2>1, TextStep DEF DeliverText, SameQueue, cache_vars, l1_vars, l2_vars, queue_vars, history, ui_vars
<1> QED
  BY <1>1, <1>2, <1>3

\* Workers falling asleep and waking up change nothing else.
LEMMA Wake_Step ==
    ASSUME Inv, pc' \in [Workers -> Labels],
           \A w \in Workers : pc'[w] = pc[w] \/ (pc[w] = "asleep" /\ pc'[w] = "awake"),
           UNCHANGED <<reqs, q, canceled, stopping, cut, job, pix, dlist, shown, answer,
                       texted, begun, failed, text_wanted, l1_map, l2_map>>,
           \/ ui' = ui
           \/ ui = "notify_one" /\ ui' = "live"
           \/ ui = "notify_all" /\ ui' = "joining"
    PROVE  Inv'
<1>1. EngineTypeOK' /\ CacheObjects'
  BY DEF Inv, EngineTypeOK, CacheObjects
<1>2. JobInv' /\ QueueInv' /\ OwnerInv' /\ PlaceInv' /\ FreshInv'
  BY DEF Inv, EngineTypeOK, JobInv, QueueInv, OwnerInv, PlaceInv, FreshInv, Labels
<1>3. ObjectInv' /\ CloseInv'
  BY DEF Inv, EngineTypeOK, ObjectInv, CloseInv, Labels
<1>4. NullIsExplained' /\ CutNeverBegins' /\ TextFollowsPixmap'
  BY DEF Inv, NullIsExplained, CutNeverBegins, TextFollowsPixmap
<1> QED
  BY <1>1, <1>2, <1>3, <1>4 DEF Inv

LEMMA WorkerStep_Step ==
    ASSUME Inv, NEW w \in Workers, WorkerStep(w) \/ SpuriousWakeup(w)
    PROVE  Inv'
<1>1. CASE SpuriousWakeup(w)
  <2>1. pc' \in [Workers -> Labels]
    BY <1>1 DEF Inv, EngineTypeOK, Labels, SpuriousWakeup, Goto
  <2> QED
    BY <1>1, <2>1, Wake_Step DEF Inv, EngineTypeOK, SpuriousWakeup, Goto, cache_vars, l1_vars, l2_vars, queue_vars, out_vars, history, ui_vars
<1>2. CASE WorkerStep(w)
  BY <1>2, TakeRequest_Step, CheckpointA_Step, LookupL1_Step, LateCancel_Step, HitWanted_Step,
     LookupL2_Step, BuildList_Step, StoreList_Step, CheckpointB_Step, Rasterise_Step,
     StorePixmap_Step, CheckpointC_Step, OnComplete_Step, Text_Step DEF WorkerStep
<1> QED
  BY <1>1, <1>2

-----------------------------------------------------------------------------
(* The steps of the UI thread                                              *)

LEMMA Submit_Step ==
    ASSUME Inv, NEW k \in Kinds, Submit(k)
    PROVE  Inv'
<1> DEFINE n == Len(reqs) + 1
<1>1. /\ n \in Ids /\ n \notin DOMAIN reqs /\ n # NoObj
      /\ DOMAIN reqs' = DOMAIN reqs \cup {n}
      /\ reqs' \in Seq(Kinds) /\ Len(reqs') <= MaxRequests
      /\ q' = q \cup {n}
  BY SubmittedIds DEF Inv, EngineTypeOK, Submit
<1>2. answer[n] = "none" /\ n \notin begun /\ \A w \in Workers : job[w] # n
  BY <1>1 DEF Inv, EngineTypeOK, FreshInv
<1> HIDE DEF n
<1>3. EngineTypeOK'
  BY <1>1 DEF Inv, EngineTypeOK, Labels, Submit, Kind, worker_vars, out_vars, history
<1>4. CacheObjects'
  BY DEF Inv, CacheObjects, Submit, cache_vars, l1_vars, l2_vars
<1>5. JobInv' /\ QueueInv' /\ OwnerInv' /\ PlaceInv' /\ FreshInv'
  BY <1>1, <1>2 DEF Inv, JobInv, QueueInv, OwnerInv, PlaceInv, FreshInv, Submit, worker_vars, out_vars, history
<1>6. ObjectInv' /\ CloseInv'
  BY DEF Inv, ObjectInv, CloseInv, Submit, worker_vars, history
<1>7. NullIsExplained' /\ CutNeverBegins' /\ TextFollowsPixmap'
  BY DEF Inv, NullIsExplained, CutNeverBegins, TextFollowsPixmap, Submit, out_vars, history
<1> QED
  BY <1>3, <1>4, <1>5, <1>6, <1>7 DEF Inv

\* Flags are only ever added, to submitted requests; a queued request has
\* not begun, so flagging it cannot come too late.
LEMMA Cancel_Step ==
    ASSUME Inv, NEW S \in SUBSET DOMAIN reqs, Flag(S),
           UNCHANGED <<cache_vars, reqs, q, stopping, worker_vars, out_vars, history, ui>>,
           text_wanted' \in Pages \cup {NoPage}
    PROVE  Inv'
<1>1. EngineTypeOK' /\ CacheObjects'
  BY DEF Inv, EngineTypeOK, CacheObjects, Labels, Flag, cache_vars, l1_vars, l2_vars, worker_vars, out_vars, history
<1>2. JobInv' /\ QueueInv' /\ OwnerInv' /\ PlaceInv' /\ FreshInv'
  BY DEF Inv, JobInv, QueueInv, OwnerInv, PlaceInv, FreshInv, worker_vars, out_vars, history
<1>3. ObjectInv' /\ CloseInv'
  BY DEF Inv, ObjectInv, CloseInv, Flag, worker_vars, history
<1>4. NullIsExplained' /\ CutNeverBegins' /\ TextFollowsPixmap'
  BY DEF Inv, QueueInv, NullIsExplained, CutNeverBegins, TextFollowsPixmap, Flag, out_vars, history
<1> QED
  BY <1>1, <1>2, <1>3, <1>4 DEF Inv

LEMMA View_Step ==
    ASSUME Inv,
           \/ ForgetText \/ Foreground
           \/ \E k \in Kinds : Background(k)
           \/ \E r \in Ids : ConsumerDrops(r)
    PROVE  Inv'
<1>1. CASE ForgetText
  BY <1>1, ViewStepKeepsInv DEF Inv, EngineTypeOK, CacheObjects, ForgetText, SameQueue, cache_vars, l1_vars, l2_vars, queue_vars, out_vars
<1>2. CASE Foreground
  BY <1>2, ViewStepKeepsInv DEF Inv, EngineTypeOK, CacheObjects, Foreground, release_l1_pin, SameQueue, l2_vars, queue_vars, out_vars, ui_vars
<1>3. ASSUME NEW k \in Kinds, Background(k)
      PROVE  Inv'
  <2>1. CacheObjects'
    BY <1>3 DEF Inv, CacheObjects, Background, retain_l1_pages, Without, Restrict, l2_vars
  <2> QED
    BY <1>3, <2>1, ViewStepKeepsInv DEF Inv, EngineTypeOK, Background, SameQueue, queue_vars, out_vars, ui_vars
<1>4. ASSUME NEW r \in Ids, ConsumerDrops(r)
      PROVE  Inv'
  BY <1>4, ViewStepKeepsInv DEF Inv, EngineTypeOK, CacheObjects, ConsumerDrops, SameQueue, l1_vars, l2_vars, queue_vars, ui_vars
<1> QED
  BY <1>1, <1>2, <1>3, <1>4

LEMMA BeginShutdown_Step ==
    ASSUME Inv, BeginShutdown
    PROVE  Inv'
<1>1. EngineTypeOK' /\ CacheObjects'
  BY DEF Inv, EngineTypeOK, CacheObjects, Labels, BeginShutdown, cache_vars, l1_vars, l2_vars, worker_vars, out_vars, history
<1>2. JobInv' /\ QueueInv' /\ OwnerInv' /\ PlaceInv' /\ FreshInv'
  BY DEF Inv, JobInv, QueueInv, OwnerInv, PlaceInv, FreshInv, BeginShutdown, worker_vars, out_vars, history
<1>3. ObjectInv' /\ CloseInv'
  BY DEF Inv, ObjectInv, CloseInv, BeginShutdown, worker_vars, history
<1>4. NullIsExplained' /\ CutNeverBegins' /\ TextFollowsPixmap'
  BY DEF Inv, NullIsExplained, CutNeverBegins, TextFollowsPixmap, BeginShutdown, out_vars, history
<1> QED
  BY <1>1, <1>2, <1>3, <1>4 DEF Inv

LEMMA Destroy_Step ==
    ASSUME Inv, Destroy
    PROVE  Inv'
<1>1. EngineTypeOK' /\ CacheObjects'
  BY DEF Inv, EngineTypeOK, CacheObjects, Labels, Destroy, clear, EmptyMap, queue_vars, worker_vars, out_vars, history
<1>2. JobInv' /\ QueueInv' /\ OwnerInv' /\ PlaceInv' /\ FreshInv'
  BY DEF Inv, JobInv, QueueInv, OwnerInv, PlaceInv, FreshInv, Destroy, queue_vars, worker_vars, out_vars, history
<1>3. ObjectInv' /\ CloseInv'
  BY DEF Inv, ObjectInv, CloseInv, Destroy, AllJoined, queue_vars, worker_vars, history
<1>4. NullIsExplained' /\ CutNeverBegins' /\ TextFollowsPixmap'
  BY DEF Inv, NullIsExplained, CutNeverBegins, TextFollowsPixmap, Destroy, queue_vars, out_vars, history
<1> QED
  BY <1>1, <1>2, <1>3, <1>4 DEF Inv

LEMMA UIStep_Step ==
    ASSUME Inv, UIStep
    PROVE  Inv'
<1>1. ASSUME NEW k \in Kinds, Submit(k)
      PROVE  Inv'
  BY <1>1, Submit_Step
<1>2. CASE SubmitReturns
  <2>1. /\ pc' \in [Workers -> Labels]
        /\ \A w \in Workers : pc'[w] = pc[w] \/ (pc[w] = "asleep" /\ pc'[w] = "awake")
    BY <1>2 DEF Inv, EngineTypeOK, Labels, SubmitReturns, NotifyOne, Goto
  <2> QED
    BY <1>2, <2>1, Wake_Step DEF SubmitReturns, cache_vars, l1_vars, l2_vars, queue_vars, out_vars, history
<1>3. CASE ShutdownNotifies
  <2>1. /\ pc' \in [Workers -> Labels]
        /\ \A w \in Workers : pc'[w] = pc[w] \/ (pc[w] = "asleep" /\ pc'[w] = "awake")
    BY <1>3 DEF Inv, EngineTypeOK, Labels, ShutdownNotifies, NotifyAll
  <2> QED
    BY <1>3, <2>1, Wake_Step DEF ShutdownNotifies, cache_vars, l1_vars, l2_vars, queue_vars, out_vars, history
<1>4. ASSUME NEW r \in Ids, Cancel(r)
      PROVE  Inv'
  BY <1>4, Cancel_Step DEF Cancel, ui_vars, Inv, EngineTypeOK
<1>5. ASSUME NEW p, cancel_all_below_priority(p)
      PROVE  Inv'
  <2>1. Below(p) \subseteq DOMAIN reqs
    BY DEF Inv, EngineTypeOK, Below
  <2> QED
    BY <1>5, <2>1, Cancel_Step DEF cancel_all_below_priority, ui_vars, Inv, EngineTypeOK
<1> QED
  BY <1>1, <1>2, <1>3, <1>4, <1>5, View_Step, BeginShutdown_Step, Destroy_Step DEF UIStep

-----------------------------------------------------------------------------
(* The theorems                                                            *)

LEMMA InitInv == Init => Inv
<1> SUFFICES ASSUME Init PROVE Inv
  OBVIOUS
<1>1. EngineTypeOK
  <2>1. reqs \in Seq(Kinds) /\ Len(reqs) <= MaxRequests /\ DOMAIN reqs = {}
    BY DEF Init
  <2>2. pc \in [Workers -> Labels]
    BY DEF Init, Labels
  <2>3. job \in [Workers -> {NoObj} \cup DOMAIN reqs]
    BY DEF Init
  <2>4. pix \in [Workers -> {NoObj} \cup Pixmaps] /\ dlist \in [Workers -> {NoObj} \cup Lists]
    BY DEF Init
  <2>5. /\ shown \in [Ids -> {NoObj} \cup Pixmaps]
        /\ answer \in [Ids -> {"none", "pixmap", "null", "skipped"}]
    BY DEF Init
  <2> QED
    BY <2>1, <2>2, <2>3, <2>4, <2>5 DEF Init, EngineTypeOK
<1>2. CacheObjects
  BY DEF Init, PageCacheInit, CacheObjects, EmptyMap
<1>3. JobInv /\ QueueInv /\ OwnerInv /\ PlaceInv /\ FreshInv /\ ObjectInv /\ CloseInv
  BY DEF Init, JobInv, QueueInv, OwnerInv, PlaceInv, FreshInv, ObjectInv, CloseInv
<1>4. NullIsExplained /\ CutNeverBegins /\ TextFollowsPixmap
  BY DEF Init, NullIsExplained, CutNeverBegins, TextFollowsPixmap
<1> QED
  BY <1>1, <1>2, <1>3, <1>4 DEF Inv

LEMMA NextInv == Inv /\ [Next]_vars => Inv'
<1> SUFFICES ASSUME Inv, [Next]_vars PROVE Inv'
  OBVIOUS
<1>1. CASE UNCHANGED vars
  <2>1. EngineTypeOK' /\ CacheObjects'
    BY <1>1 DEF Inv, EngineTypeOK, CacheObjects, vars, cache_vars, l1_vars, l2_vars, queue_vars, worker_vars, out_vars, history, ui_vars
  <2>2. JobInv' /\ QueueInv' /\ OwnerInv' /\ PlaceInv' /\ FreshInv' /\ ObjectInv' /\ CloseInv'
    BY <1>1 DEF Inv, JobInv, QueueInv, OwnerInv, PlaceInv, FreshInv, ObjectInv, CloseInv, vars, queue_vars, worker_vars, out_vars, history, ui_vars
  <2>3. NullIsExplained' /\ CutNeverBegins' /\ TextFollowsPixmap'
    BY <1>1 DEF Inv, NullIsExplained, CutNeverBegins, TextFollowsPixmap, vars, queue_vars, out_vars, history
  <2> QED
    BY <2>1, <2>2, <2>3 DEF Inv
<1>2. CASE \E w \in Workers : WorkerStep(w) \/ SpuriousWakeup(w)
  BY <1>2, WorkerStep_Step
<1>3. CASE UIStep
  BY <1>3, UIStep_Step
<1> QED
  BY <1>1, <1>2, <1>3 DEF Next, Finished

\* Inv holds in every reachable state.
THEOREM Invariance == SafeSpec => []Inv
BY InitInv, NextInv, PTL DEF SafeSpec

\* The engine's variables keep their types, and only submitted requests are
\* queued, flagged and worked on, for any number of workers.
THEOREM TypeCorrect == SafeSpec => []EngineTypeOK
<1>1. Inv => EngineTypeOK
  BY DEF Inv
<1> QED
  BY Invariance, <1>1, PTL

\* A submitted request is queued, with one worker, or finished.
THEOREM RequestsConserved == SafeSpec => []OnePlace
<1>1. Inv => OnePlace
  <2> SUFFICES ASSUME Inv, NEW r \in DOMAIN reqs
               PROVE  LET workers == {w \in Workers : job[w] = r}
                      IN  \/ answer[r] = "none" /\ r \in q /\ workers = {}
                          \/ answer[r] = "none" /\ r \notin q /\ \E w \in Workers : workers = {w}
                          \/ answer[r] # "none" /\ r \notin q /\ \A v, w \in workers : v = w
    BY DEF OnePlace
  <2> DEFINE workers == {w \in Workers : job[w] = r}
  <2>1. r # NoObj /\ \A v, w \in workers : v = w
    BY SubmittedIds DEF Inv, OwnerInv
  <2>2. r \in q => answer[r] = "none" /\ workers = {}
    BY DEF Inv, QueueInv
  <2>3. answer[r] = "none" /\ r \notin q => \E w \in Workers : workers = {w}
    BY <2>1 DEF Inv, PlaceInv
  <2> QED
    BY <2>1, <2>2, <2>3
<1> QED
  BY Invariance, <1>1, PTL

\* Null answers are explained, flagged requests that were queued cost no
\* work, and text follows its pixmap.
THEOREM HistoryCorrect == SafeSpec => [](NullIsExplained /\ CutNeverBegins /\ TextFollowsPixmap)
<1>1. Inv => NullIsExplained /\ CutNeverBegins /\ TextFollowsPixmap
  BY DEF Inv
<1> QED
  BY Invariance, <1>1, PTL

\* No request's on_complete is called a second time, nor after it was let
\* go of.
THEOREM CalledOnce == SafeSpec => AnsweredOnce
<1>1. Inv => \A w \in Workers : OnComplete(w) \/ LateCancel(w) => answer[job[w]] = "none"
  BY DEF Inv, JobInv, OnComplete, LateCancel
<1>2. Inv /\ [Next]_vars =>
        [\A w \in Workers : OnComplete(w) \/ LateCancel(w) => answer[job[w]] = "none"]_vars
  BY <1>1
<1> QED
  BY Invariance, <1>2, PTL DEF SafeSpec, AnsweredOnce

-----------------------------------------------------------------------------
(* The engine implements RenderService                                     *)

\* The service sees nothing of a step that finishes, submits and flags no
\* request and does not move the teardown along.
LEMMA ServiceStutters ==
    ASSUME UNCHANGED <<reqs, answer, canceled, stopping>>,
           ui' = ui \/ (ui # "gone" /\ ui' # "gone")
    PROVE  UNCHANGED Service!vars
BY DEF Service!vars, ServiceState, ServicePhase

LEMMA ServiceFinishes ==
    ASSUME Inv, NEW w \in Workers, pc[w] \in Working,
           NEW o \in Service!Outcome, o = "skipped" => job[w] \in canceled,
           answer' = [answer EXCEPT ![job[w]] = o],
           UNCHANGED <<reqs, canceled, stopping, ui>>
    PROVE  Service!Finish(job[w], o)
<1>1. job[w] \in DOMAIN reqs /\ job[w] \in Ids
  BY HasJob
<1>2. ServiceState[job[w]] = "waiting"
  BY <1>1 DEF Inv, JobInv, ServiceState
<1>3. ServiceState' = [ServiceState EXCEPT ![job[w]] = o]
  BY <1>1 DEF Inv, EngineTypeOK, ServiceState, Service!Outcome
<1> QED
  BY <1>2, <1>3 DEF Service!Finish, ServicePhase

LEMMA ServiceWorkerStep ==
    ASSUME Inv, NEW w \in Workers, WorkerStep(w) \/ SpuriousWakeup(w)
    PROVE  Service!Next \/ UNCHANGED Service!vars
<1>1. CASE LateCancel(w)
  <2>1. Service!Finish(job[w], "skipped") /\ job[w] \in Ids
    BY <1>1, ServiceFinishes, HasJob DEF LateCancel, CancelSeen, Service!Outcome, queue_vars, ui_vars
  <2> QED
    BY <2>1 DEF Service!Next, Service!Outcome
<1>2. CASE OnComplete(w)
  <2> DEFINE o == IF pix[w] = NoObj THEN "null" ELSE "pixmap"
  <2>1. Service!Finish(job[w], o) /\ job[w] \in Ids
    BY <1>2, ServiceFinishes, HasJob DEF OnComplete, Service!Outcome, queue_vars, ui_vars
  <2> QED
    BY <2>1 DEF Service!Next, Service!Outcome
<1>3. ASSUME WorkerStep(w) \/ SpuriousWakeup(w), ~LateCancel(w), ~OnComplete(w)
      PROVE  UNCHANGED <<reqs, answer, canceled, stopping, ui>>
  BY <1>3 DEF WorkerStep, SpuriousWakeup, TakeRequest, CheckpointA, LookupL1, HitWanted, LookupL2,
     BuildList, StoreList, CheckpointB, Rasterise, StorePixmap, CheckpointC, CheckText, BuildText,
     DeliverText, queue_vars, out_vars, ui_vars
<1> QED
  BY <1>1, <1>2, <1>3, ServiceStutters

LEMMA ServiceUIStep ==
    ASSUME Inv, UIStep
    PROVE  Service!Next \/ UNCHANGED Service!vars
<1>1. ASSUME NEW k \in Kinds, Submit(k)
      PROVE  Service!Next
  <2> DEFINE n == Len(reqs) + 1
  <2>1. n \in Ids /\ n \notin DOMAIN reqs /\ DOMAIN reqs' = DOMAIN reqs \cup {n}
    BY <1>1, SubmittedIds DEF Inv, EngineTypeOK, Submit
  <2>2. answer[n] = "none"
    BY <2>1 DEF Inv, FreshInv
  <2> HIDE DEF n
  <2>3. ServiceState' = [ServiceState EXCEPT ![n] = "waiting"] /\ ServiceState[n] = "absent"
    BY <1>1, <2>1, <2>2 DEF ServiceState, Submit, out_vars
  <2>4. ServicePhase = "open" /\ UNCHANGED <<ServicePhase, canceled>>
    BY <1>1 DEF Inv, CloseInv, ServicePhase, Submit
  <2>5. Service!Submit(n)
    BY <2>3, <2>4 DEF Service!Submit
  <2> QED
    BY <2>1, <2>5 DEF Service!Next
<1>2. ASSUME NEW S \in SUBSET DOMAIN reqs, Flag(S),
             UNCHANGED <<reqs, stopping, out_vars, ui_vars>>
      PROVE  Service!Next
  <2>1. S \subseteq Ids /\ \A r \in S : ServiceState[r] # "absent"
    BY SubmittedIds DEF Inv, EngineTypeOK, ServiceState
  <2>2. Service!Withdraw(S)
    BY <1>2, <2>1 DEF Service!Withdraw, ServiceState, ServicePhase, Flag, out_vars, ui_vars
  <2> QED
    BY <2>1, <2>2 DEF Service!Next
<1>3. ASSUME NEW r \in Ids, Cancel(r)
      PROVE  Service!Next
  BY <1>2, <1>3 DEF Cancel
<1>4. ASSUME NEW p, cancel_all_below_priority(p)
      PROVE  Service!Next
  <2>1. Below(p) \subseteq DOMAIN reqs
    BY DEF Inv, EngineTypeOK, Below
  <2> QED
    BY <1>2, <1>4, <2>1 DEF cancel_all_below_priority
<1>5. CASE BeginShutdown
  BY <1>5 DEF BeginShutdown, Inv, CloseInv, Service!Next, Service!BeginClose, ServiceState, ServicePhase, out_vars
<1>6. CASE Destroy
  <2>1. q = {} /\ stopping /\ \A w \in Workers : job[w] = NoObj
    BY <1>6 DEF Inv, JobInv, CloseInv, Destroy, AllJoined
  <2>2. \A r \in Ids : ServiceState[r] # "waiting"
    <3>1. ASSUME NEW r \in DOMAIN reqs
          PROVE  answer[r] # "none"
      <4>1. NoObj \notin DOMAIN reqs
        BY SubmittedIds DEF Inv, NoObj, Ids
      <4>2. r \notin q /\ \A w \in Workers : job[w] # r
        BY <2>1, <4>1
      <4> QED
        BY <4>2 DEF Inv, PlaceInv
    <3>2. ASSUME NEW r \in Ids
          PROVE  ServiceState[r] # "waiting"
      <4>1. answer[r] \in {"none", "pixmap", "null", "skipped"}
        BY DEF Inv, EngineTypeOK
      <4> QED
        BY <3>1, <4>1 DEF ServiceState
    <3> QED
      BY <3>2
  <2> QED
    BY <1>6, <2>1, <2>2 DEF Destroy, Service!Next, Service!EndClose, ServiceState, ServicePhase,
       queue_vars, out_vars
<1>7. CASE SubmitReturns \/ ShutdownNotifies \/ ForgetText \/ Foreground
  BY <1>7, ServiceStutters DEF SubmitReturns, ShutdownNotifies, ForgetText, Foreground,
     queue_vars, out_vars, ui_vars
<1>8. ASSUME NEW k \in Kinds, Background(k)
      PROVE  UNCHANGED Service!vars
  BY <1>8, ServiceStutters DEF Background, queue_vars, out_vars, ui_vars
<1>9. ASSUME NEW r \in Ids, ConsumerDrops(r)
      PROVE  UNCHANGED Service!vars
  BY <1>9, ServiceStutters DEF ConsumerDrops, queue_vars, ui_vars
<1> QED
  BY <1>1, <1>3, <1>4, <1>5, <1>6, <1>7, <1>8, <1>9 DEF UIStep

\* The engine implements the service: each request finishes once, only a
\* withdrawn one without a word, and the engine is gone only when none waits.
THEOREM ImplementsService == SafeSpec => FinishesOnce
<1>1. Init => Service!Init
  BY DEF Init, Service!Init, ServiceState, ServicePhase
<1>2. Inv /\ [Next]_vars => [Service!Next]_(Service!vars)
  <2> SUFFICES ASSUME Inv, [Next]_vars
               PROVE  Service!Next \/ UNCHANGED Service!vars
    OBVIOUS
  <2>1. CASE UNCHANGED vars
    BY <2>1, ServiceStutters DEF vars, queue_vars, out_vars, ui_vars
  <2> QED
    BY <2>1, ServiceWorkerStep, ServiceUIStep DEF Next, Finished
<1> QED
  BY Invariance, <1>1, <1>2, PTL DEF SafeSpec, FinishesOnce, Service!SafeSpec

-----------------------------------------------------------------------------
(* References: what the workers, the callbacks and the cache own.          *)

\* A worker may own a pixmap, or a list, at these places of its loop.
WithPixmap == {"hit", "store", "checkC", "deliver"}
WithList   == {"store_list", "checkB", "raster"}

\* Before these places are left, a request has made no pixmap, or no list.
BeforePixmap == {"taken", "lookup", "hit", "list", "build", "store_list", "checkB", "raster"}
BeforeList   == {"taken", "lookup", "hit", "list", "build"}

\* Request r is not submitted, is queued, or a worker has got no further than L.
NotPast(r, L) ==
    \/ r \notin DOMAIN reqs
    \/ r \in q
    \/ \E w \in Workers : job[w] = r /\ pc[w] \in L

PixmapTypes ==
    /\ pix_refs \in [Pixmaps -> Int]
    /\ DOMAIN image = Pixmaps
    /\ \A p \in Pixmaps : image[p].bytes \in Nat

PixmapsOwned ==
    \A p \in Pixmaps :
        pix_refs[p] = One(p, ObjectsIn(l1_map)) + Count(pix, Workers, p) + Count(shown, Ids, p)

\* Whoever has a pixmap has what it asked for.
PixmapsRight ==
    /\ \A k \in DOMAIN l1_map : image[l1_map[k].pix].key = k
    /\ \A w \in Workers : pix[w] # NoObj => pc[w] \in WithPixmap /\ image[pix[w]].key = Key(Req(w))
    /\ \A r \in Ids : shown[r] # NoObj =>
          r \in DOMAIN reqs /\ answer[r] # "none" /\ image[shown[r]].key = Key(reqs[r])

\* A pixmap that is not made yet has no owner, and a new one is not cached.
PixmapsNew ==
    /\ \A r \in Pixmaps : NotPast(r, BeforePixmap) => pix_refs[r] = 0
    /\ \A w \in Workers : pc[w] = "store" => pix[w] = job[w] /\ job[w] \notin ObjectsIn(l1_map)

PixmapInv == PixmapTypes /\ L1Sound /\ PixmapsOwned /\ PixmapsRight /\ PixmapsNew

ListTypes ==
    /\ list_refs \in [Lists -> Int]
    /\ DOMAIN list_page = Lists

ListsOwned ==
    \A d \in Lists : list_refs[d] = One(d, Range(l2_map)) + Count(dlist, Workers, d)

ListsRight ==
    /\ \A n \in DOMAIN l2_map : list_page[l2_map[n]] = n
    /\ \A w \in Workers : dlist[w] # NoObj => pc[w] \in WithList /\ list_page[dlist[w]] = Req(w).page

ListsNew ==
    /\ \A r \in Lists : NotPast(r, BeforeList) => list_refs[r] = 0
    /\ \A w \in Workers : pc[w] = "store_list" => dlist[w] = job[w] /\ job[w] \notin Range(l2_map)

ListInv == ListTypes /\ L2Sound /\ ListsOwned /\ ListsRight /\ ListsNew

HIDE EngineConstants
HIDE KindsAreRequests
HIDE CacheConstants
HIDE DEF Ids, NoObj, NoPage, Idle, Working, Texting

-----------------------------------------------------------------------------
(* Counting owners.                                                        *)

LEMMA DropOwnIs ==
    ASSUME NEW D, NEW refs \in [D -> Int], NoObj \notin D, NEW x
    PROVE  /\ DropOwn(refs, x) \in [D -> Int]
           /\ \A o \in D : DropOwn(refs, x)[o] = refs[o] - Same(o, x)
BY DEF DropOwn, Drop, Same

LEMMA FiniteOwners == IsFiniteSet(Workers) /\ IsFiniteSet(Ids) /\ NoObj \notin Pixmaps /\ NoObj \notin Lists
BY FS_Interval, EngineConstants DEF EngineConstants, Ids, NoObj

\* No owner of p is left out of its count.
LEMMA FreeHasNoOwner ==
    ASSUME PixmapInv, NEW p \in Pixmaps, pix_refs[p] = 0
    PROVE  /\ p \notin ObjectsIn(l1_map)
           /\ \A w \in Workers : pix[w] # p
           /\ \A r \in Ids : shown[r] # p
<1>1. /\ Count(pix, Workers, p) \in Nat /\ (Count(pix, Workers, p) = 0 <=> \A w \in Workers : pix[w] # p)
      /\ Count(shown, Ids, p) \in Nat /\ (Count(shown, Ids, p) = 0 <=> \A r \in Ids : shown[r] # p)
  BY CountNone, FiniteOwners
<1>2. 0 = One(p, ObjectsIn(l1_map)) + Count(pix, Workers, p) + Count(shown, Ids, p)
  BY DEF PixmapInv, PixmapsOwned
<1>3. /\ One(p, ObjectsIn(l1_map)) \in Nat
      /\ One(p, ObjectsIn(l1_map)) = 0 => p \notin ObjectsIn(l1_map)
  BY DEF One
<1>4. One(p, ObjectsIn(l1_map)) = 0 /\ Count(pix, Workers, p) = 0 /\ Count(shown, Ids, p) = 0
  BY <1>1, <1>2, <1>3
<1> QED
  BY <1>1, <1>3, <1>4

LEMMA FreeListHasNoOwner ==
    ASSUME ListInv, NEW d \in Lists, list_refs[d] = 0
    PROVE  d \notin Range(l2_map) /\ \A w \in Workers : dlist[w] # d
<1>1. Count(dlist, Workers, d) \in Nat /\ (Count(dlist, Workers, d) = 0 <=> \A w \in Workers : dlist[w] # d)
  BY CountNone, FiniteOwners
<1>2. 0 = One(d, Range(l2_map)) + Count(dlist, Workers, d)
  BY DEF ListInv, ListsOwned
<1> QED
  BY <1>1, <1>2 DEF One

-----------------------------------------------------------------------------
(* Steps that leave the pixmaps, or the lists, where they are.             *)

\* A worker goes on with its request, and whoever else moves stays outside L.
LEMMA NotPastKept ==
    ASSUME NEW L,
           DOMAIN reqs \subseteq DOMAIN reqs',
           \A r \in DOMAIN reqs' \ DOMAIN reqs : r \in q',
           \A r \in q' : r \in q \/ r \notin DOMAIN reqs,
           \A v \in Workers : pc'[v] \in L => \/ pc[v] \in L /\ job'[v] = job[v]
                                             \/ job'[v] \in q,
           NEW r, NotPast(r, L)'
    PROVE  NotPast(r, L)
BY DEF NotPast

\* The requests and whose they are stay as they are.
SameRequests ==
    /\ DOMAIN reqs \subseteq DOMAIN reqs'
    /\ \A r \in DOMAIN reqs : reqs'[r] = reqs[r] /\ (answer[r] # "none" => answer'[r] # "none")

LEMMA PixmapsStay ==
    ASSUME Inv, PixmapInv, SameRequests,
           UNCHANGED <<l1_lru, l1_map, l1_bytes, image, pix_refs, pix, shown>>,
           \A r \in Pixmaps : NotPast(r, BeforePixmap)' => NotPast(r, BeforePixmap),
           \A w \in Workers :
               /\ pix[w] # NoObj => pc'[w] \in WithPixmap /\ job'[w] = job[w] /\ job[w] \in DOMAIN reqs
               /\ pc'[w] = "store" => pc[w] = "store" /\ job'[w] = job[w]
    PROVE  PixmapInv'
<1>1. L1Sound' /\ ObjectsIn(l1_map)' = ObjectsIn(l1_map)
  BY L1Kept DEF PixmapInv
<1>2. PixmapTypes' /\ PixmapsOwned'
  BY <1>1 DEF PixmapInv, PixmapTypes, PixmapsOwned
<1>3. PixmapsRight'
  BY DEF PixmapInv, PixmapsRight, SameRequests, Req
<1>4. PixmapsNew'
  BY <1>1 DEF PixmapInv, PixmapsNew
<1> QED
  BY <1>1, <1>2, <1>3, <1>4 DEF PixmapInv

LEMMA ListsStay ==
    ASSUME Inv, ListInv, SameRequests,
           UNCHANGED <<l2_vars, list_vars, dlist>>,
           \A r \in Lists : NotPast(r, BeforeList)' => NotPast(r, BeforeList),
           \A w \in Workers :
               /\ dlist[w] # NoObj => pc'[w] \in WithList /\ job'[w] = job[w] /\ job[w] \in DOMAIN reqs
               /\ pc'[w] = "store_list" => pc[w] = "store_list" /\ job'[w] = job[w]
    PROVE  ListInv'
<1>1. L2Sound' /\ Range(l2_map)' = Range(l2_map)
  BY L2Kept DEF ListInv
<1>2. ListTypes' /\ ListsOwned'
  BY <1>1 DEF ListInv, ListTypes, ListsOwned, l2_vars, list_vars
<1>3. ListsRight'
  BY DEF ListInv, ListsRight, SameRequests, Req, l2_vars, list_vars
<1>4. ListsNew'
  BY <1>1 DEF ListInv, ListsNew, list_vars
<1> QED
  BY <1>1, <1>2, <1>3, <1>4 DEF ListInv

\* Worker w goes on to l, with the same request.
GoesOn(w, l) == pc' = [pc EXCEPT ![w] = l] /\ UNCHANGED <<reqs, q, job>>

\* Worker w goes on to l, with the same request, and touches no pixmap.
LEMMA PixmapsAside ==
    ASSUME Inv, PixmapInv, NEW w \in Workers, NEW l, GoesOn(w, l),
           UNCHANGED <<l1_lru, l1_map, l1_bytes, image, pix_refs, pix, shown, answer>>,
           l \in BeforePixmap => pc[w] \in BeforePixmap,
           pix[w] # NoObj => l \in WithPixmap,
           l # "store"
    PROVE  PixmapInv'
<1>1. SameRequests
  BY DEF SameRequests, GoesOn
<1>2. pc \in [Workers -> Labels] /\ job \in [Workers -> {NoObj} \cup DOMAIN reqs]
  BY DEF Inv, EngineTypeOK
<1>3. \A r \in Pixmaps : NotPast(r, BeforePixmap)' => NotPast(r, BeforePixmap)
  BY <1>2, NotPastKept DEF GoesOn
<1>4. ASSUME NEW v \in Workers
      PROVE  /\ pix[v] # NoObj => pc'[v] \in WithPixmap /\ job'[v] = job[v] /\ job[v] \in DOMAIN reqs
             /\ pc'[v] = "store" => pc[v] = "store" /\ job'[v] = job[v]
  <2>1. pix[v] # NoObj => pc[v] \in WithPixmap
    BY DEF PixmapInv, PixmapsRight
  <2>2. pix[v] # NoObj => job[v] \in DOMAIN reqs
    BY <2>1, HasJob DEF WithPixmap, Idle
  <2> QED
    BY <1>2, <2>1, <2>2 DEF GoesOn
<1> QED
  BY <1>1, <1>3, <1>4, PixmapsStay

LEMMA ListsAside ==
    ASSUME Inv, ListInv, NEW w \in Workers, NEW l, GoesOn(w, l),
           UNCHANGED <<l2_vars, list_vars, dlist>>,
           \A r \in DOMAIN reqs : answer[r] # "none" => answer'[r] # "none",
           l \in BeforeList => pc[w] \in BeforeList,
           dlist[w] # NoObj => l \in WithList,
           l # "store_list"
    PROVE  ListInv'
<1>1. SameRequests
  BY DEF SameRequests, GoesOn
<1>2. pc \in [Workers -> Labels] /\ job \in [Workers -> {NoObj} \cup DOMAIN reqs]
  BY DEF Inv, EngineTypeOK
<1>3. \A r \in Lists : NotPast(r, BeforeList)' => NotPast(r, BeforeList)
  BY <1>2, NotPastKept DEF GoesOn
<1>4. ASSUME NEW v \in Workers
      PROVE  /\ dlist[v] # NoObj => pc'[v] \in WithList /\ job'[v] = job[v] /\ job[v] \in DOMAIN reqs
             /\ pc'[v] = "store_list" => pc[v] = "store_list" /\ job'[v] = job[v]
  <2>1. dlist[v] # NoObj => pc[v] \in WithList
    BY DEF ListInv, ListsRight
  <2>2. dlist[v] # NoObj => job[v] \in DOMAIN reqs
    BY <2>1, HasJob DEF WithList, Idle
  <2> QED
    BY <1>2, <2>1, <2>2 DEF GoesOn
<1> QED
  BY <1>1, <1>3, <1>4, ListsStay

-----------------------------------------------------------------------------
(* Steps that take, keep or drop a pixmap.                                 *)

\* Worker w goes on with the same request; what it takes or leaves is right.
LEMMA PixmapsMove ==
    ASSUME Inv, PixmapInv, NEW w \in Workers, NEW l, GoesOn(w, l),
           job[w] \in DOMAIN reqs, job[w] # NoObj,
           PixmapTypes', L1Sound', PixmapsOwned', shown' = shown, UNCHANGED answer,
           \A k \in DOMAIN l1_map' : image'[l1_map'[k].pix].key = k,
           \A v \in Workers \ {w} : pix'[v] = pix[v] /\ (pix[v] # NoObj => image'[pix[v]] = image[pix[v]]),
           pix'[w] # NoObj => l \in WithPixmap /\ image'[pix'[w]].key = Key(Req(w)),
           \A r \in Ids : shown[r] # NoObj => image'[shown[r]] = image[shown[r]],
           \A r \in Pixmaps : pix_refs[r] = 0 => pix_refs'[r] = 0 \/ (r = job[w] /\ l \notin BeforePixmap),
           l \in BeforePixmap => pc[w] \in BeforePixmap,
           ObjectsIn(l1_map)' \subseteq ObjectsIn(l1_map) \cup {job[w]},
           l = "store" => pix'[w] = job[w] /\ job[w] \notin ObjectsIn(l1_map)'
    PROVE  PixmapInv'
<1>1. /\ pc \in [Workers -> Labels] /\ job \in [Workers -> {NoObj} \cup DOMAIN reqs]
      /\ pc'[w] = l /\ \A v \in Workers \ {w} : pc'[v] = pc[v]
  BY DEF Inv, EngineTypeOK, GoesOn
<1>2. PixmapsRight'
  <2>1. ASSUME NEW v \in Workers, pix'[v] # NoObj
        PROVE  pc'[v] \in WithPixmap /\ image'[pix'[v]].key = Key(Req(v)')
    <3>1. CASE v = w
      BY <1>1, <2>1, <3>1 DEF GoesOn, Req
    <3>2. CASE v # w
      BY <1>1, <2>1, <3>2 DEF PixmapInv, PixmapsRight, GoesOn, Req
    <3> QED
      BY <3>1, <3>2
  <2>2. ASSUME NEW r \in Ids, shown'[r] # NoObj
        PROVE  r \in DOMAIN reqs' /\ answer'[r] # "none" /\ image'[shown'[r]].key = Key(reqs'[r])
    BY <2>2 DEF PixmapInv, PixmapsRight, GoesOn
  <2> QED
    BY <2>1, <2>2 DEF PixmapsRight
<1>3. PixmapsNew'
  <2>1. ASSUME NEW r \in Pixmaps, NotPast(r, BeforePixmap)'
        PROVE  pix_refs'[r] = 0
    <3>1. NotPast(r, BeforePixmap)
      BY <1>1, <2>1, NotPastKept DEF GoesOn
    <3>2. pix_refs[r] = 0
      BY <3>1 DEF PixmapInv, PixmapsNew
    <3>3. ASSUME r = job[w], l \notin BeforePixmap
          PROVE  FALSE
      <4>1. r \in DOMAIN reqs /\ r \notin q
        BY <3>3, <1>1 DEF Inv, EngineTypeOK, QueueInv
      <4>2. PICK v \in Workers : job'[v] = r /\ pc'[v] \in BeforePixmap
        BY <2>1, <4>1 DEF NotPast, GoesOn
      <4>3. v = w
        BY <3>3, <4>2 DEF Inv, OwnerInv, GoesOn
      <4> QED
        BY <1>1, <3>3, <4>2, <4>3
    <3> QED
      BY <3>2, <3>3
  <2>2. ASSUME NEW v \in Workers, pc'[v] = "store"
        PROVE  pix'[v] = job'[v] /\ job'[v] \notin ObjectsIn(l1_map)'
    <3>1. CASE v = w
      BY <1>1, <2>2, <3>1 DEF GoesOn
    <3>2. CASE v # w
      <4>1. /\ pix'[v] = pix[v] /\ pc[v] = "store" /\ job'[v] = job[v]
            /\ pix[v] = job[v] /\ job[v] \notin ObjectsIn(l1_map)
        BY <1>1, <2>2, <3>2 DEF PixmapInv, PixmapsNew, GoesOn
      <4>2. job[v] # job[w]
        BY <3>2, <4>1, HasJob DEF Inv, OwnerInv, Idle
      <4> QED
        BY <4>1, <4>2
    <3> QED
      BY <3>1, <3>2
  <2> QED
    BY <2>1, <2>2 DEF PixmapsNew
<1> QED
  BY <1>2, <1>3 DEF PixmapInv

\* At most worker w, callback r and the cache change what they own of p.
LEMMA PixmapsOwnedMoves ==
    ASSUME PixmapsOwned, NEW w \in Workers, Moves(Workers, pix, pix', w),
           NEW r \in Ids, Moves(Ids, shown, shown', r),
           NEW p \in Pixmaps,
           pix_refs'[p] = pix_refs[p] + (One(p, ObjectsIn(l1_map)') - One(p, ObjectsIn(l1_map)))
                            + (Same(p, pix'[w]) - Same(p, pix[w]))
                            + (Same(p, shown'[r]) - Same(p, shown[r]))
    PROVE  pix_refs'[p] = One(p, ObjectsIn(l1_map)') + Count(pix', Workers, p) + Count(shown', Ids, p)
<1>1. /\ Count(pix', Workers, p) = Count(pix, Workers, p) - Same(p, pix[w]) + Same(p, pix'[w])
      /\ Count(pix, Workers, p) \in Nat
  BY CountMoves, FiniteOwners
<1>2. /\ Count(shown', Ids, p) = Count(shown, Ids, p) - Same(p, shown[r]) + Same(p, shown'[r])
      /\ Count(shown, Ids, p) \in Nat
  BY CountMoves, FiniteOwners
<1>3. pix_refs[p] = One(p, ObjectsIn(l1_map)) + Count(pix, Workers, p) + Count(shown, Ids, p)
  BY DEF PixmapsOwned
<1>4. /\ One(p, ObjectsIn(l1_map)) \in Int /\ One(p, ObjectsIn(l1_map)') \in Int
      /\ Same(p, pix[w]) \in Int /\ Same(p, pix'[w]) \in Int
      /\ Same(p, shown[r]) \in Int /\ Same(p, shown'[r]) \in Int
  BY DEF One, Same
<1> QED
  BY <1>1, <1>2, <1>3, <1>4

\* Worker w takes a pixmap and keeps it, or drops the one it has, or neither.
LEMMA PixmapsOwnedByWorker ==
    ASSUME Inv, PixmapInv, NEW w \in Workers, job[w] \in Ids,
           \E x : pix' = [pix EXCEPT ![w] = x],
           UNCHANGED <<l1_map, shown>>,
           pix_refs' \in [Pixmaps -> Int],
           \A p \in Pixmaps : pix_refs'[p] = pix_refs[p] + (Same(p, pix'[w]) - Same(p, pix[w]))
    PROVE  PixmapsOwned'
<1>1. Moves(Workers, pix, pix', w) /\ Moves(Ids, shown, shown', job[w])
  BY DEF Inv, EngineTypeOK, Moves
<1>2. ASSUME NEW p \in Pixmaps
      PROVE  pix_refs'[p] = One(p, ObjectsIn(l1_map)') + Count(pix', Workers, p) + Count(shown', Ids, p)
  <2>1. /\ pix_refs[p] \in Int /\ ObjectsIn(l1_map)' = ObjectsIn(l1_map) /\ shown' = shown
        /\ pix_refs'[p] = pix_refs[p] + (Same(p, pix'[w]) - Same(p, pix[w]))
    BY DEF PixmapInv, PixmapTypes
  <2>2. /\ Same(p, pix[w]) \in Int /\ Same(p, pix'[w]) \in Int /\ Same(p, shown[job[w]]) \in Int
        /\ One(p, ObjectsIn(l1_map)) \in Int
    BY DEF Same, One
  <2>3. pix_refs'[p] = pix_refs[p] + (One(p, ObjectsIn(l1_map)') - One(p, ObjectsIn(l1_map)))
                          + (Same(p, pix'[w]) - Same(p, pix[w]))
                          + (Same(p, shown'[job[w]]) - Same(p, shown[job[w]]))
    BY <2>1, <2>2
  <2> QED
    BY <1>1, <2>3, PixmapsOwnedMoves DEF PixmapInv
<1> QED
  BY <1>2 DEF PixmapsOwned

LEMMA LookupL1_Pixmaps ==
    ASSUME Inv, Inv', PixmapInv, NEW w \in Workers, LookupL1(w)
    PROVE  PixmapInv'
<1>1. CASE pc' = [pc EXCEPT ![w] = "list"] /\ UNCHANGED <<l1_vars, pix_vars, pix>>
  BY <1>1, PixmapsAside DEF LookupL1, GoesOn, queue_vars, out_vars, l1_vars, pix_vars, BeforePixmap, WithPixmap, PixmapInv, PixmapsRight
<1>2. CASE get_pixmap(Key(Req(w))) /\ pix' = [pix EXCEPT ![w] = l1_map[Key(Req(w))].pix] /\ Goto(w, "hit")
  <2>1. PICK p, k : p = l1_map[k].pix /\ k = Key(Req(w))
    OBVIOUS
  <2>2. /\ L1Sound' /\ k \in DOMAIN l1_map /\ l1_map' = l1_map /\ image' = image
        /\ pix_refs' = Keep(pix_refs, p) /\ pix' = [pix EXCEPT ![w] = p]
        /\ GoesOn(w, "hit") /\ shown' = shown /\ answer' = answer
        /\ pc[w] = "lookup"
    BY <1>2, <2>1, GetPixmapIs DEF PixmapInv, get_pixmap, LookupL1, GoesOn, Goto, queue_vars, out_vars
  <2>3. /\ p \in Pixmaps /\ p \in ObjectsIn(l1_map) /\ image[p].key = k
        /\ pix[w] = NoObj /\ DOMAIN pix = Workers
    BY <2>1, <2>2 DEF PixmapInv, PixmapsRight, L1Sound, Tier1, ObjectsIn, PixOf, WithPixmap, Inv, EngineTypeOK
  <2>4. /\ pix_refs' \in [Pixmaps -> Int]
        /\ \A o \in Pixmaps : pix_refs'[o] = pix_refs[o] + Same(o, p)
      <3>1. pix_refs \in [Pixmaps -> Int] /\ p \in Pixmaps /\ pix_refs' = Keep(pix_refs, p)
      BY <2>2, <2>3 DEF PixmapInv, PixmapTypes
    <3> QED
      BY <3>1, KeepIs
  <2>5. PixmapsOwned' /\ PixmapTypes'
    <3>1. \A o \in Pixmaps : Same(o, NoObj) = 0 /\ Same(o, p) \in Int /\ pix_refs[o] \in Int
      BY FiniteOwners DEF Same, PixmapInv, PixmapTypes
    <3>2. \A o \in Pixmaps : pix_refs'[o] = pix_refs[o] + (Same(o, pix'[w]) - Same(o, pix[w]))
      BY <2>2, <2>3, <2>4, <3>1
    <3>3. \E x : pix' = [pix EXCEPT ![w] = x]
      BY <2>2
    <3>4. job[w] \in Ids
      BY <2>2, HasJob DEF Idle
    <3> QED
      BY <2>2, <2>4, <3>2, <3>3, <3>4, PixmapsOwnedByWorker DEF PixmapInv, PixmapTypes
  <2>6. \A r \in Pixmaps : pix_refs[r] = 0 => pix_refs'[r] = 0
    <3>1. \A r \in Pixmaps : pix_refs[r] = 0 => r # p
      BY <2>3, FreeHasNoOwner
    <3> QED
      BY <3>1, <2>4 DEF Same, PixmapInv, PixmapTypes
  <2>7. \A x \in DOMAIN l1_map' : image'[l1_map'[x].pix].key = x
    BY <2>2 DEF PixmapInv, PixmapsRight
  <2> QED
    BY <2>1, <2>2, <2>3, <2>5, <2>6, <2>7, HasJob, PixmapsMove DEF WithPixmap, BeforePixmap, Idle
<1> QED
  BY <1>1, <1>2 DEF LookupL1, Goto

\* Worker w drops the pixmap it has, if any: its count says so.
LEMMA DropsOwn ==
    ASSUME PixmapTypes, NEW x, pix_refs' = DropOwn(pix_refs, x), image' = image
    PROVE  /\ PixmapTypes'
           /\ \A p \in Pixmaps : pix_refs'[p] = pix_refs[p] - Same(p, x)
<1>1. pix_refs \in [Pixmaps -> Int] /\ NoObj \notin Pixmaps
  BY FiniteOwners DEF PixmapTypes
<1> QED
  BY <1>1, DropOwnIs DEF PixmapTypes

LEMMA DropsItsPixmap ==
    ASSUME Inv, PixmapInv, NEW w \in Workers, job[w] \in Ids,
           pix_refs' = DropOwn(pix_refs, pix[w]), pix' = [pix EXCEPT ![w] = NoObj],
           UNCHANGED <<l1_map, image, shown>>
    PROVE  /\ PixmapTypes' /\ PixmapsOwned'
           /\ \A p \in Pixmaps : pix_refs[p] = 0 => pix_refs'[p] = 0
<1>1. /\ PixmapTypes'
      /\ \A p \in Pixmaps : pix_refs'[p] = pix_refs[p] - Same(p, pix[w])
  BY DropsOwn DEF PixmapInv
<1>2. pix'[w] = NoObj /\ \A p \in Pixmaps : Same(p, NoObj) = 0 /\ Same(p, pix[w]) \in Int /\ pix_refs[p] \in Int
  BY FiniteOwners DEF Same, PixmapInv, PixmapTypes, Inv, EngineTypeOK
<1>3. \A p \in Pixmaps : pix_refs'[p] = pix_refs[p] + (Same(p, pix'[w]) - Same(p, pix[w]))
  BY <1>1, <1>2
<1>4. PixmapsOwned'
  BY <1>1, <1>3, PixmapsOwnedByWorker DEF PixmapTypes
<1>5. \A p \in Pixmaps : pix_refs[p] = 0 => Same(p, pix[w]) = 0
  BY FreeHasNoOwner DEF Same
<1> QED
  BY <1>1, <1>2, <1>4, <1>5

LEMMA CheckpointC_Pixmaps ==
    ASSUME Inv, PixmapInv, NEW w \in Workers, CheckpointC(w)
    PROVE  PixmapInv'
<1>1. /\ job[w] \in DOMAIN reqs /\ job[w] \in Ids /\ job[w] # NoObj
      /\ GoesOn(w, "deliver") /\ UNCHANGED <<l1_lru, l1_map, l1_bytes, image, shown, answer>>
  BY HasJob DEF CheckpointC, GoesOn, Goto, queue_vars, out_vars, l1_vars, Idle
<1>2. CASE UNCHANGED <<pix_refs, pix>>
  BY <1>1, <1>2, PixmapsAside DEF WithPixmap, BeforePixmap
<1>3. CASE pix_refs' = DropOwn(pix_refs, pix[w]) /\ pix' = [pix EXCEPT ![w] = NoObj]
  <2>1. /\ PixmapTypes' /\ PixmapsOwned'
        /\ \A p \in Pixmaps : pix_refs[p] = 0 => pix_refs'[p] = 0
    BY <1>1, <1>3, DropsItsPixmap
  <2>2. L1Sound' /\ ObjectsIn(l1_map)' = ObjectsIn(l1_map)
    BY <1>1, L1Kept DEF PixmapInv
  <2>3. /\ pix'[w] = NoObj /\ \A v \in Workers \ {w} : pix'[v] = pix[v]
        /\ \A k \in DOMAIN l1_map' : image'[l1_map'[k].pix].key = k
    BY <1>1, <1>3 DEF Inv, EngineTypeOK, PixmapInv, PixmapsRight
  <2> QED
    BY <1>1, <2>1, <2>2, <2>3, PixmapsMove DEF BeforePixmap
<1> QED
  BY <1>2, <1>3 DEF CheckpointC

\* Worker w lets go of its request and of its pixmap.
LEMMA LateCancel_Pixmaps ==
    ASSUME Inv, PixmapInv, NEW w \in Workers, LateCancel(w)
    PROVE  PixmapInv'
<1>1. /\ job[w] \in DOMAIN reqs /\ job[w] \in Ids /\ job[w] # NoObj
      /\ UNCHANGED <<l1_lru, l1_map, l1_bytes, image, shown, reqs, q>>
      /\ pix_refs' = DropOwn(pix_refs, pix[w]) /\ pix' = [pix EXCEPT ![w] = NoObj]
      /\ pc' = [pc EXCEPT ![w] = "awake"] /\ job' = [job EXCEPT ![w] = NoObj]
      /\ answer' = [answer EXCEPT ![job[w]] = "skipped"]
  BY HasJob DEF LateCancel, NextRequest, Goto, queue_vars, l1_vars, Idle
<1>2. /\ PixmapTypes' /\ PixmapsOwned'
      /\ \A p \in Pixmaps : pix_refs[p] = 0 => pix_refs'[p] = 0
  BY <1>1, DropsItsPixmap
<1>3. L1Sound' /\ ObjectsIn(l1_map)' = ObjectsIn(l1_map)
  BY <1>1, L1Kept DEF PixmapInv
<1>4. /\ pix'[w] = NoObj /\ pc'[w] = "awake"
      /\ \A v \in Workers \ {w} : pix'[v] = pix[v] /\ pc'[v] = pc[v] /\ job'[v] = job[v]
      /\ \A r \in Ids : answer[r] # "none" => answer'[r] # "none"
  BY <1>1 DEF Inv, EngineTypeOK
<1>5. PixmapsRight'
  <2>1. ASSUME NEW v \in Workers, pix'[v] # NoObj
        PROVE  pc'[v] \in WithPixmap /\ image'[pix'[v]].key = Key(Req(v)')
    <3>1. v # w
      BY <1>4, <2>1
    <3> QED
      BY <1>1, <1>4, <2>1, <3>1 DEF PixmapInv, PixmapsRight, Req
  <2> QED
    BY <1>1, <1>4, <2>1 DEF PixmapsRight, PixmapInv
<1>6. PixmapsNew'
  <2>1. ASSUME NEW r \in Pixmaps, NotPast(r, BeforePixmap)'
        PROVE  pix_refs'[r] = 0
    <3>1. NotPast(r, BeforePixmap)
      BY <1>1, <1>4, <2>1 DEF NotPast, BeforePixmap
    <3> QED
      BY <1>2, <3>1 DEF PixmapInv, PixmapsNew
  <2>2. ASSUME NEW v \in Workers, pc'[v] = "store"
        PROVE  pix'[v] = job'[v] /\ job'[v] \notin ObjectsIn(l1_map)'
    <3>1. v # w
      BY <1>4, <2>2
    <3> QED
      BY <1>3, <1>4, <2>2, <3>1 DEF PixmapInv, PixmapsNew
  <2> QED
    BY <2>1, <2>2 DEF PixmapsNew
<1> QED
  BY <1>2, <1>3, <1>5, <1>6 DEF PixmapInv

\* on_complete takes over the pixmap, or drops it.
LEMMA OnComplete_Owned ==
    ASSUME Inv, PixmapInv, NEW w \in Workers, OnComplete(w)
    PROVE  /\ PixmapTypes' /\ PixmapsOwned'
           /\ \A p \in Pixmaps : pix_refs[p] = 0 => pix_refs'[p] = 0
<1>1. /\ job[w] \in DOMAIN reqs /\ job[w] \in Ids /\ job[w] # NoObj /\ answer[job[w]] = "none"
      /\ UNCHANGED <<l1_map, image>> /\ pix' = [pix EXCEPT ![w] = NoObj]
  BY HasJob DEF OnComplete, l1_vars, Idle, Inv, JobInv, Working
<1>2. CASE pix_refs' = DropOwn(pix_refs, pix[w]) /\ shown' = shown
  BY <1>1, <1>2, DropsItsPixmap
<1>3. CASE shown' = [shown EXCEPT ![job[w]] = pix[w]] /\ pix_refs' = pix_refs
  <2>1. shown[job[w]] = NoObj
    BY <1>1 DEF PixmapInv, PixmapsRight
  <2>2. /\ pix'[w] = NoObj /\ shown'[job[w]] = pix[w]
        /\ Moves(Workers, pix, pix', w) /\ Moves(Ids, shown, shown', job[w])
    BY <1>1, <1>3 DEF Inv, EngineTypeOK, Moves
  <2>3. ASSUME NEW p \in Pixmaps
        PROVE  pix_refs'[p] = One(p, ObjectsIn(l1_map)') + Count(pix', Workers, p) + Count(shown', Ids, p)
    <3>1. pix_refs[p] \in Int /\ ObjectsIn(l1_map)' = ObjectsIn(l1_map)
      BY <1>1 DEF PixmapInv, PixmapTypes
    <3>2. Same(p, pix[w]) \in Int /\ Same(p, NoObj) \in Int /\ One(p, ObjectsIn(l1_map)) \in Int
      BY DEF Same, One
    <3>3. pix_refs'[p] = pix_refs[p] + (One(p, ObjectsIn(l1_map)') - One(p, ObjectsIn(l1_map)))
                            + (Same(p, pix'[w]) - Same(p, pix[w]))
                            + (Same(p, shown'[job[w]]) - Same(p, shown[job[w]]))
      BY <1>3, <2>1, <2>2, <3>1, <3>2
    <3> QED
      BY <1>1, <2>2, <3>3, PixmapsOwnedMoves DEF PixmapInv
  <2>4. PixmapTypes'
    BY <1>1, <1>3 DEF PixmapInv, PixmapTypes
  <2> QED
    BY <1>3, <2>3, <2>4 DEF PixmapsOwned
<1> QED
  BY <1>1, <1>2, <1>3 DEF OnComplete

LEMMA OnComplete_Pixmaps ==
    ASSUME Inv, PixmapInv, NEW w \in Workers, OnComplete(w)
    PROVE  PixmapInv'
<1>1. /\ job[w] \in DOMAIN reqs /\ job[w] \in Ids /\ job[w] # NoObj /\ pc[w] = "deliver"
      /\ UNCHANGED <<l1_lru, l1_map, l1_bytes, image, reqs, q, job>> /\ pix' = [pix EXCEPT ![w] = NoObj]
      /\ pc' = [pc EXCEPT ![w] = "called"]
      /\ answer' = [answer EXCEPT ![job[w]] = IF pix[w] = NoObj THEN "null" ELSE "pixmap"]
      /\ shown' = shown \/ shown' = [shown EXCEPT ![job[w]] = pix[w]]
  BY HasJob DEF OnComplete, Goto, queue_vars, l1_vars, Idle
<1>2. /\ PixmapTypes' /\ PixmapsOwned'
      /\ \A p \in Pixmaps : pix_refs[p] = 0 => pix_refs'[p] = 0
  BY OnComplete_Owned
<1>3. L1Sound' /\ ObjectsIn(l1_map)' = ObjectsIn(l1_map)
  BY <1>1, L1Kept DEF PixmapInv
<1>4. /\ pix'[w] = NoObj /\ pc'[w] = "called"
      /\ \A v \in Workers \ {w} : pix'[v] = pix[v] /\ pc'[v] = pc[v]
      /\ \A r \in Ids : answer[r] # "none" => answer'[r] # "none"
      /\ answer'[job[w]] # "none"
      /\ \A r \in Ids : (r = job[w] /\ shown'[r] = pix[w]) \/ shown'[r] = shown[r]
  BY <1>1 DEF Inv, EngineTypeOK
<1>5. PixmapsRight'
  <2>1. ASSUME NEW v \in Workers, pix'[v] # NoObj
        PROVE  pc'[v] \in WithPixmap /\ image'[pix'[v]].key = Key(Req(v)')
    <3>1. v # w
      BY <1>4, <2>1
    <3> QED
      BY <1>1, <1>4, <2>1, <3>1 DEF PixmapInv, PixmapsRight, Req
  <2>2. ASSUME NEW r \in Ids, shown'[r] # NoObj
        PROVE  r \in DOMAIN reqs' /\ answer'[r] # "none" /\ image'[shown'[r]].key = Key(reqs'[r])
    <3>1. CASE r = job[w] /\ shown'[r] = pix[w]
      BY <1>1, <1>4, <2>2, <3>1 DEF PixmapInv, PixmapsRight, Req
    <3>2. CASE shown'[r] = shown[r]
      BY <1>1, <1>4, <2>2, <3>2 DEF PixmapInv, PixmapsRight
    <3> QED
      BY <1>4, <3>1, <3>2
  <2> QED
    BY <1>1, <1>4, <2>1, <2>2 DEF PixmapsRight, PixmapInv
<1>6. PixmapsNew'
  <2>1. ASSUME NEW r \in Pixmaps, NotPast(r, BeforePixmap)'
        PROVE  pix_refs'[r] = 0
    <3>1. NotPast(r, BeforePixmap)
      BY <1>1, <1>4, <2>1 DEF NotPast, BeforePixmap
    <3> QED
      BY <1>2, <3>1 DEF PixmapInv, PixmapsNew
  <2>2. ASSUME NEW v \in Workers, pc'[v] = "store"
        PROVE  pix'[v] = job'[v] /\ job'[v] \notin ObjectsIn(l1_map)'
    <3>1. v # w
      BY <1>4, <2>2
    <3> QED
      BY <1>1, <1>3, <1>4, <2>2, <3>1 DEF PixmapInv, PixmapsNew
  <2> QED
    BY <2>1, <2>2 DEF PixmapsNew
<1> QED
  BY <1>2, <1>3, <1>5, <1>6 DEF PixmapInv

\* A new pixmap is its worker's alone, and shows what the request asked for.
LEMMA Rasterise_Pixmaps ==
    ASSUME Inv, PixmapInv, ListInv, NEW w \in Workers, Rasterise(w)
    PROVE  PixmapInv'
<1>1. /\ job[w] \in DOMAIN reqs /\ job[w] \in Ids /\ job[w] # NoObj /\ pc[w] = "raster"
      /\ UNCHANGED <<l1_lru, l1_map, l1_bytes, shown, reqs, q, job, answer>>
  BY HasJob DEF Rasterise, queue_vars, l1_vars, out_vars, Idle
<1>2. CASE pc' = [pc EXCEPT ![w] = "checkC"] /\ UNCHANGED <<pix, pix_vars>>
  <2>1. GoesOn(w, "checkC")
    BY <1>1, <1>2 DEF GoesOn
  <2> QED
    BY <1>1, <1>2, <2>1, PixmapsAside DEF WithPixmap, BeforePixmap, pix_vars
<1>3. ASSUME NEW l \in {"checkC", "store"}, pc' = [pc EXCEPT ![w] = l],
             pix' = [pix EXCEPT ![w] = job[w]],
             pix_refs' = [pix_refs EXCEPT ![job[w]] = 1],
             image' = [image EXCEPT ![job[w]] = Rendered(Req(w), dlist[w])]
      PROVE  PixmapInv'
  <2> DEFINE r == job[w]
  <2>1. r \in Pixmaps /\ Key(Req(w)) = Rendered(Req(w), dlist[w]).key /\ Rendered(Req(w), dlist[w]).bytes \in Nat
    <3>1. dlist[w] # NoObj
      BY <1>1 DEF Inv, ObjectInv
    <3>2. list_page[dlist[w]] = Req(w).page
      BY <3>1 DEF ListInv, ListsRight
    <3> QED
      BY <1>1, <3>2, EngineConstants DEF EngineConstants, Ids, Key, Rendered
  <2>2. pix_refs[r] = 0
    <3>1. NotPast(r, BeforePixmap)
      BY <1>1 DEF NotPast, BeforePixmap
    <3> QED
      BY <2>1, <3>1 DEF PixmapInv, PixmapsNew
  <2>3. /\ r \notin ObjectsIn(l1_map)
        /\ \A v \in Workers : pix[v] # r
        /\ \A x \in Ids : shown[x] # r
    BY <2>1, <2>2, FreeHasNoOwner
  <2>4. pix[w] = NoObj
    BY <1>1 DEF PixmapInv, PixmapsRight, WithPixmap
  <2>5. /\ pix'[w] = r /\ \A v \in Workers \ {w} : pix'[v] = pix[v]
        /\ image'[r] = Rendered(Req(w), dlist[w]) /\ \A p \in Pixmaps \ {r} : image'[p] = image[p]
        /\ pix_refs'[r] = 1 /\ \A p \in Pixmaps \ {r} : pix_refs'[p] = pix_refs[p]
        /\ pix_refs' \in [Pixmaps -> Int] /\ DOMAIN image' = Pixmaps
    BY <1>3, <2>1 DEF Inv, EngineTypeOK, PixmapInv, PixmapTypes
  <2> HIDE DEF r
  <2>6. PixmapTypes'
    BY <2>1, <2>5 DEF PixmapInv, PixmapTypes
  <2>7. PixmapsOwned'
    <3>1. ASSUME NEW p \in Pixmaps
          PROVE  pix_refs'[p] = pix_refs[p] + (Same(p, pix'[w]) - Same(p, pix[w]))
      <4>1. pix_refs[p] \in Int /\ Same(p, NoObj) = 0
        BY FiniteOwners DEF PixmapInv, PixmapTypes, Same
      <4> QED
        BY <2>2, <2>4, <2>5, <4>1 DEF Same
    <3> QED
      BY <1>1, <1>3, <2>5, <3>1, PixmapsOwnedByWorker
  <2>8. L1Sound' /\ ObjectsIn(l1_map)' = ObjectsIn(l1_map)
    BY <1>1, L1Kept DEF PixmapInv
  <2>9. \A k \in DOMAIN l1_map' : image'[l1_map'[k].pix].key = k
    <3>1. ASSUME NEW k \in DOMAIN l1_map
          PROVE  image'[l1_map[k].pix].key = k
      <4>1. l1_map[k].pix \in Pixmaps /\ l1_map[k].pix \in ObjectsIn(l1_map)
        BY DEF PixmapInv, L1Sound, Tier1, ObjectsIn, PixOf
      <4>2. l1_map[k].pix # r /\ image[l1_map[k].pix].key = k
        BY <2>3, <4>1 DEF PixmapInv, PixmapsRight
      <4> QED
        BY <2>5, <4>1, <4>2
    <3> QED
      BY <1>1, <3>1
  <2>10. /\ \A v \in Workers \ {w} : pix[v] # NoObj => image'[pix[v]] = image[pix[v]]
         /\ \A x \in Ids : shown[x] # NoObj => image'[shown[x]] = image[shown[x]]
    BY <2>3, <2>5 DEF Inv, EngineTypeOK
  <2>11. GoesOn(w, l)
    BY <1>1, <1>3 DEF GoesOn
  <2>12. \A p \in Pixmaps : pix_refs[p] = 0 => pix_refs'[p] = 0 \/ (p = job[w] /\ l \notin BeforePixmap)
    BY <2>5 DEF BeforePixmap, r
  <2>13. l \in WithPixmap /\ l \notin BeforePixmap /\ pix'[w] = job[w] /\ image'[pix'[w]].key = Key(Req(w))
    BY <2>1, <2>5 DEF WithPixmap, BeforePixmap, r
  <2>14. job[w] \notin ObjectsIn(l1_map)'
    BY <2>3, <2>8 DEF r
  <2> QED
    BY <1>1, <2>5, <2>6, <2>7, <2>8, <2>9, <2>10, <2>11, <2>12, <2>13, <2>14, PixmapsMove
<1> QED
  BY <1>2, <1>3 DEF Rasterise, Goto

\* The cache takes the second reference of a new pixmap, or drops it.
LEMMA StorePixmap_Pixmaps ==
    ASSUME Inv, PixmapInv, NEW w \in Workers, StorePixmap(w)
    PROVE  PixmapInv'
<1>1. PICK p, k : p = pix[w] /\ k = Key(Req(w))
  OBVIOUS
<1>2. /\ job[w] \in DOMAIN reqs /\ job[w] \in Ids /\ job[w] # NoObj /\ pc[w] = "store"
      /\ GoesOn(w, "checkC") /\ UNCHANGED <<shown, pix, answer>>
      /\ put_pixmap(k, p, Keep(pix_refs, p))
  BY <1>1, HasJob DEF StorePixmap, GoesOn, Goto, queue_vars, out_vars, Idle
<1>3. /\ p = job[w] /\ p \in Pixmaps /\ p \notin ObjectsIn(l1_map)
      /\ image[p].key = k /\ image[p].bytes \in Nat
  BY <1>1, <1>2, EngineConstants DEF PixmapInv, PixmapsNew, PixmapsRight, PixmapTypes, EngineConstants, Ids
<1>4. PutDone(k, p, Keep(pix_refs, p)) /\ image' = image
  BY <1>2, <1>3, PutPixmapIs DEF PixmapInv
<1> DEFINE out == (ObjectsIn(l1_map) \cup {p}) \ ObjectsIn(l1_map)'
<1>5. /\ L1Sound' /\ pix_refs' = Drop(Keep(pix_refs, p), out)
      /\ ObjectsIn(l1_map)' \subseteq ObjectsIn(l1_map) \cup {p}
      /\ OldOr(k, p)
  BY <1>4 DEF PutDone
<1>6. \A o \in Pixmaps : One(o, {p}) - One(o, out) = One(o, ObjectsIn(l1_map)') - One(o, ObjectsIn(l1_map))
  BY <1>3, <1>5, PutKeepsCount
<1> HIDE DEF out
<1>7. /\ pix_refs' \in [Pixmaps -> Int]
      /\ \A o \in Pixmaps : pix_refs'[o] = pix_refs[o] + One(o, {p}) - One(o, out)
  <2>1. pix_refs \in [Pixmaps -> Int] /\ pix_refs' = Drop(Keep(pix_refs, p), out)
    BY <1>5 DEF PixmapInv, PixmapTypes
  <2>2. Delta(Pixmaps, pix_refs, Drop(Keep(pix_refs, p), out), {p}, out)
    BY <1>3, <2>1, KeepDropIs
  <2> QED
    BY <2>1, <2>2 DEF Delta
<1>8. \A o \in Pixmaps : pix_refs'[o] = pix_refs[o] + (One(o, ObjectsIn(l1_map)') - One(o, ObjectsIn(l1_map)))
  <2>1. \A o \in Pixmaps : pix_refs[o] \in Int /\ One(o, {p}) \in Int /\ One(o, out) \in Int
    BY DEF PixmapInv, PixmapTypes, One
  <2> QED
    BY <1>6, <1>7, <2>1
<1>9. PixmapsOwned'
  <2>1. ASSUME NEW o \in Pixmaps
        PROVE  pix_refs'[o] = One(o, ObjectsIn(l1_map)') + Count(pix', Workers, o) + Count(shown', Ids, o)
    <3>1. pix_refs[o] = One(o, ObjectsIn(l1_map)) + Count(pix, Workers, o) + Count(shown, Ids, o)
      BY DEF PixmapInv, PixmapsOwned
    <3>2. Count(pix, Workers, o) \in Nat /\ Count(shown, Ids, o) \in Nat
      BY CountNone, FiniteOwners
    <3>3. One(o, ObjectsIn(l1_map)) \in Int /\ One(o, ObjectsIn(l1_map)') \in Int
      BY DEF One
    <3>4. pix' = pix /\ shown' = shown
      BY <1>2
    <3> QED
      BY <1>8, <3>1, <3>2, <3>3, <3>4
  <2> QED
    BY <2>1 DEF PixmapsOwned
<1>10. PixmapTypes'
  BY <1>4, <1>7 DEF PixmapInv, PixmapTypes
<1>11. \A x \in DOMAIN l1_map' : image'[l1_map'[x].pix].key = x
  BY <1>3, <1>4, <1>5 DEF PixmapInv, PixmapsRight, OldOr
<1>12. \A r \in Pixmaps : pix_refs[r] = 0 => pix_refs'[r] = 0
  <2>1. ASSUME NEW r \in Pixmaps, pix_refs[r] = 0
        PROVE  pix_refs'[r] = 0
    <3>1. r \notin ObjectsIn(l1_map) /\ r # p
      BY <1>1, <2>1, FreeHasNoOwner
    <3>2. r \notin ObjectsIn(l1_map)'
      BY <1>5, <3>1
    <3>3. One(r, ObjectsIn(l1_map)') = 0 /\ One(r, ObjectsIn(l1_map)) = 0
      BY <3>1, <3>2 DEF One
    <3> QED
      BY <1>8, <2>1, <3>3
  <2> QED
    BY <2>1
<1>13. pix'[w] # NoObj => "checkC" \in WithPixmap /\ image'[pix'[w]].key = Key(Req(w))
  BY <1>1, <1>2, <1>3, <1>4 DEF WithPixmap
<1>14. "checkC" \notin BeforePixmap
  BY DEF BeforePixmap
<1> QED
  BY <1>2, <1>3, <1>4, <1>5, <1>9, <1>10, <1>11, <1>12, <1>13, <1>14, PixmapsMove

\* A purge of the cache: no worker and no callback loses its pixmap.
LEMMA Purge_Pixmaps ==
    ASSUME Inv, PixmapInv, PurgeDone, image' = image,
           UNCHANGED <<reqs, q, pc, job, pix, shown, answer>>
    PROVE  PixmapInv'
<1> DEFINE out == ObjectsIn(l1_map) \ ObjectsIn(l1_map)'
<1>1. /\ L1Sound' /\ pix_refs' = Drop(pix_refs, out)
      /\ ObjectsIn(l1_map)' \subseteq ObjectsIn(l1_map)
      /\ \A x \in DOMAIN l1_map' : x \in DOMAIN l1_map /\ l1_map'[x] = l1_map[x]
  BY DEF PurgeDone
<1>2. \A o \in Pixmaps : 0 - One(o, out) = One(o, ObjectsIn(l1_map)') - One(o, ObjectsIn(l1_map))
  BY <1>1, PurgeKeepsCount
<1> HIDE DEF out
<1>3. /\ pix_refs' \in [Pixmaps -> Int]
      /\ \A o \in Pixmaps : pix_refs'[o] = pix_refs[o] - One(o, out)
  <2>1. pix_refs \in [Pixmaps -> Int] /\ pix_refs' = Drop(pix_refs, out)
    BY <1>1 DEF PixmapInv, PixmapTypes
  <2> QED
    BY <2>1, DropIs
<1>4. \A o \in Pixmaps : pix_refs'[o] = pix_refs[o] + (One(o, ObjectsIn(l1_map)') - One(o, ObjectsIn(l1_map)))
  <2>1. \A o \in Pixmaps : pix_refs[o] \in Int /\ One(o, out) \in Int
    BY DEF PixmapInv, PixmapTypes, One
  <2> QED
    BY <1>2, <1>3, <2>1
<1>5. PixmapsOwned'
  <2>1. ASSUME NEW o \in Pixmaps
        PROVE  pix_refs'[o] = One(o, ObjectsIn(l1_map)') + Count(pix', Workers, o) + Count(shown', Ids, o)
    <3>1. pix_refs[o] = One(o, ObjectsIn(l1_map)) + Count(pix, Workers, o) + Count(shown, Ids, o)
      BY DEF PixmapInv, PixmapsOwned
    <3>2. Count(pix, Workers, o) \in Nat /\ Count(shown, Ids, o) \in Nat
      BY CountNone, FiniteOwners
    <3>3. One(o, ObjectsIn(l1_map)) \in Int /\ One(o, ObjectsIn(l1_map)') \in Int
      BY DEF One
    <3> QED
      BY <1>4, <3>1, <3>2, <3>3
  <2> QED
    BY <2>1 DEF PixmapsOwned
<1>6. PixmapTypes' /\ PixmapsRight'
  BY <1>1, <1>3 DEF PixmapInv, PixmapTypes, PixmapsRight, Req
<1>7. PixmapsNew'
  <2>1. ASSUME NEW r \in Pixmaps, NotPast(r, BeforePixmap)'
        PROVE  pix_refs'[r] = 0
    <3>1. pix_refs[r] = 0
      BY <2>1 DEF NotPast, PixmapInv, PixmapsNew
    <3>2. r \notin ObjectsIn(l1_map) /\ r \notin ObjectsIn(l1_map)'
      BY <1>1, <3>1, FreeHasNoOwner
    <3>3. One(r, ObjectsIn(l1_map)') = 0 /\ One(r, ObjectsIn(l1_map)) = 0
      BY <3>2 DEF One
    <3> QED
      BY <1>4, <3>1, <3>3
  <2> QED
    BY <1>1, <2>1 DEF PixmapInv, PixmapsNew
<1> QED
  BY <1>1, <1>5, <1>6, <1>7 DEF PixmapInv

\* The owner of a delivered pixmap drops it.
LEMMA ConsumerDrops_Pixmaps ==
    ASSUME Inv, PixmapInv, NEW r \in Ids, ConsumerDrops(r)
    PROVE  PixmapInv'
<1>1. /\ pix_refs' = DropOwn(pix_refs, shown[r]) /\ shown' = [shown EXCEPT ![r] = NoObj]
      /\ UNCHANGED <<l1_lru, l1_map, l1_bytes, image, reqs, q, pc, job, pix, answer>>
  BY DEF ConsumerDrops, l1_vars, queue_vars, worker_vars
<1>2. PixmapTypes' /\ \A p \in Pixmaps : pix_refs'[p] = pix_refs[p] - Same(p, shown[r])
  BY <1>1, DropsOwn DEF PixmapInv
<1>3. L1Sound' /\ ObjectsIn(l1_map)' = ObjectsIn(l1_map)
  BY <1>1, L1Kept DEF PixmapInv
<1>4. shown'[r] = NoObj /\ Moves(Ids, shown, shown', r)
  BY <1>1 DEF Inv, EngineTypeOK, Moves
<1>5. PixmapsOwned'
  <2>1. PICK w \in Workers : TRUE
    BY EngineConstants DEF EngineConstants
  <2>2. Moves(Workers, pix, pix', w) /\ pix'[w] = pix[w]
    BY <1>1 DEF Moves
  <2>3. ASSUME NEW p \in Pixmaps
        PROVE  pix_refs'[p] = One(p, ObjectsIn(l1_map)') + Count(pix', Workers, p) + Count(shown', Ids, p)
    <3>1. pix_refs[p] \in Int /\ Same(p, NoObj) = 0
      BY FiniteOwners DEF PixmapInv, PixmapTypes, Same
    <3>2. /\ Same(p, pix[w]) \in Int /\ Same(p, shown[r]) \in Int /\ One(p, ObjectsIn(l1_map)) \in Int
      BY DEF Same, One
    <3>3. pix_refs'[p] = pix_refs[p] + (One(p, ObjectsIn(l1_map)') - One(p, ObjectsIn(l1_map)))
                            + (Same(p, pix'[w]) - Same(p, pix[w]))
                            + (Same(p, shown'[r]) - Same(p, shown[r]))
      BY <1>2, <1>3, <1>4, <2>2, <3>1, <3>2
    <3> QED
      BY <1>4, <2>2, <3>3, PixmapsOwnedMoves DEF PixmapInv
  <2> QED
    BY <2>3 DEF PixmapsOwned
<1>6. PixmapsRight'
  BY <1>1, <1>4 DEF PixmapInv, PixmapsRight, Req, Moves
<1>7. PixmapsNew'
  <2>1. ASSUME NEW x \in Pixmaps, NotPast(x, BeforePixmap)'
        PROVE  pix_refs'[x] = 0
    <3>1. pix_refs[x] = 0
      BY <1>1, <2>1 DEF NotPast, PixmapInv, PixmapsNew
    <3>2. shown[r] # x
      BY <3>1, FreeHasNoOwner
    <3> QED
      BY <1>2, <3>1, <3>2 DEF Same
  <2> QED
    BY <1>1, <1>3, <2>1 DEF PixmapInv, PixmapsNew
<1> QED
  BY <1>2, <1>3, <1>5, <1>6, <1>7 DEF PixmapInv

-----------------------------------------------------------------------------
(* Steps that take, keep or drop a display list.                           *)

\* Worker w goes on with the same request; what it takes or leaves is right.
LEMMA ListsMove ==
    ASSUME Inv, ListInv, NEW w \in Workers, NEW l, GoesOn(w, l),
           job[w] \in DOMAIN reqs, job[w] # NoObj,
           ListTypes', L2Sound',
           \A d \in Lists :
               list_refs'[d] = list_refs[d] + (One(d, Range(l2_map)') - One(d, Range(l2_map)))
                                 + (Same(d, dlist'[w]) - Same(d, dlist[w])),
           \A n \in DOMAIN l2_map' : list_page'[l2_map'[n]] = n,
           \A v \in Workers \ {w} : dlist'[v] = dlist[v] /\ (dlist[v] # NoObj => list_page'[dlist[v]] = list_page[dlist[v]]),
           dlist'[w] # NoObj => l \in WithList /\ list_page'[dlist'[w]] = Req(w).page,
           \A d \in Lists : list_refs[d] = 0 => list_refs'[d] = 0 \/ (d = job[w] /\ l \notin BeforeList),
           l \in BeforeList => pc[w] \in BeforeList,
           Range(l2_map)' \subseteq Range(l2_map) \cup {job[w]},
           l = "store_list" => dlist'[w] = job[w] /\ job[w] \notin Range(l2_map)'
    PROVE  ListInv'
<1>1. /\ pc \in [Workers -> Labels] /\ job \in [Workers -> {NoObj} \cup DOMAIN reqs]
      /\ pc'[w] = l /\ \A v \in Workers \ {w} : pc'[v] = pc[v]
  BY DEF Inv, EngineTypeOK, GoesOn
<1>2. ListsRight'
  <2>1. ASSUME NEW v \in Workers, dlist'[v] # NoObj
        PROVE  pc'[v] \in WithList /\ list_page'[dlist'[v]] = Req(v)'.page
    <3>1. CASE v = w
      BY <1>1, <2>1, <3>1 DEF GoesOn, Req
    <3>2. CASE v # w
      BY <1>1, <2>1, <3>2 DEF ListInv, ListsRight, GoesOn, Req
    <3> QED
      BY <3>1, <3>2
  <2> QED
    BY <2>1 DEF ListsRight
<1>3. ListsNew'
  <2>1. ASSUME NEW d \in Lists, NotPast(d, BeforeList)'
        PROVE  list_refs'[d] = 0
    <3>1. NotPast(d, BeforeList)
      BY <1>1, <2>1, NotPastKept DEF GoesOn
    <3>2. list_refs[d] = 0
      BY <3>1 DEF ListInv, ListsNew
    <3>3. ASSUME d = job[w], l \notin BeforeList
          PROVE  FALSE
      <4>1. d \in DOMAIN reqs /\ d \notin q
        BY <3>3, <1>1 DEF Inv, EngineTypeOK, QueueInv
      <4>2. PICK v \in Workers : job'[v] = d /\ pc'[v] \in BeforeList
        BY <2>1, <4>1 DEF NotPast, GoesOn
      <4>3. v = w
        BY <3>3, <4>2 DEF Inv, OwnerInv, GoesOn
      <4> QED
        BY <1>1, <3>3, <4>2, <4>3
    <3> QED
      BY <3>2, <3>3
  <2>2. ASSUME NEW v \in Workers, pc'[v] = "store_list"
        PROVE  dlist'[v] = job'[v] /\ job'[v] \notin Range(l2_map)'
    <3>1. CASE v = w
      BY <1>1, <2>2, <3>1 DEF GoesOn
    <3>2. CASE v # w
      <4>1. /\ dlist'[v] = dlist[v] /\ pc[v] = "store_list" /\ job'[v] = job[v]
            /\ dlist[v] = job[v] /\ job[v] \notin Range(l2_map)
        BY <1>1, <2>2, <3>2 DEF ListInv, ListsNew, GoesOn
      <4>2. job[v] # job[w]
        BY <3>2, <4>1, HasJob DEF Inv, OwnerInv, Idle
      <4> QED
        BY <4>1, <4>2
    <3> QED
      BY <3>1, <3>2
  <2> QED
    BY <2>1, <2>2 DEF ListsNew
<1>4. ListsOwned'
  <2>1. Moves(Workers, dlist, dlist', w)
    BY DEF Moves
  <2>2. ASSUME NEW d \in Lists
        PROVE  list_refs'[d] = One(d, Range(l2_map)') + Count(dlist', Workers, d)
    <3>1. /\ Count(dlist', Workers, d) = Count(dlist, Workers, d) - Same(d, dlist[w]) + Same(d, dlist'[w])
          /\ Count(dlist, Workers, d) \in Nat
      BY <2>1, CountMoves, FiniteOwners
    <3>2. list_refs[d] = One(d, Range(l2_map)) + Count(dlist, Workers, d)
      BY DEF ListInv, ListsOwned
    <3>3. /\ One(d, Range(l2_map)) \in Int /\ One(d, Range(l2_map)') \in Int
          /\ Same(d, dlist[w]) \in Int /\ Same(d, dlist'[w]) \in Int
      BY DEF One, Same
    <3> QED
      BY <3>1, <3>2, <3>3
  <2> QED
    BY <2>2 DEF ListsOwned
<1> QED
  BY <1>2, <1>3, <1>4 DEF ListInv

LEMMA DropsItsList ==
    ASSUME Inv, ListInv, NEW w \in Workers,
           list_refs' = DropOwn(list_refs, dlist[w]), dlist' = [dlist EXCEPT ![w] = NoObj],
           UNCHANGED <<l2_vars, list_page>>,
           NEW l, GoesOn(w, l), job[w] \in DOMAIN reqs, job[w] # NoObj,
           l \notin BeforeList, l # "store_list"
    PROVE  ListInv'
<1>1. list_refs \in [Lists -> Int] /\ NoObj \notin Lists
  BY FiniteOwners DEF ListInv, ListTypes
<1>2. /\ list_refs' \in [Lists -> Int]
      /\ \A d \in Lists : list_refs'[d] = list_refs[d] - Same(d, dlist[w])
  BY <1>1, DropOwnIs
<1>3. L2Sound' /\ Range(l2_map)' = Range(l2_map) /\ l2_map' = l2_map
  BY L2Kept DEF ListInv, l2_vars
<1>4. dlist'[w] = NoObj /\ \A v \in Workers \ {w} : dlist'[v] = dlist[v]
  BY DEF Inv, EngineTypeOK
<1>5. ASSUME NEW d \in Lists
      PROVE  /\ list_refs'[d] = list_refs[d] + (One(d, Range(l2_map)') - One(d, Range(l2_map)))
                                  + (Same(d, dlist'[w]) - Same(d, dlist[w]))
             /\ list_refs[d] = 0 => list_refs'[d] = 0
  <2>1. /\ Same(d, NoObj) = 0 /\ Same(d, dlist[w]) \in Int /\ One(d, Range(l2_map)) \in Int
        /\ list_refs[d] \in Int
    BY <1>1 DEF Same, One
  <2>2. list_refs[d] = 0 => Same(d, dlist[w]) = 0
    BY FreeListHasNoOwner DEF Same
  <2> QED
    BY <1>2, <1>3, <1>4, <2>1, <2>2
<1>6. ListTypes'
  BY <1>2 DEF ListInv, ListTypes
<1>7. \A n \in DOMAIN l2_map' : list_page'[l2_map'[n]] = n
  BY <1>3 DEF ListInv, ListsRight
<1> QED
  BY <1>3, <1>4, <1>5, <1>6, <1>7, ListsMove

LEMMA LookupL2_Lists ==
    ASSUME Inv, ListInv, NEW w \in Workers, LookupL2(w)
    PROVE  ListInv'
<1>1. /\ job[w] \in DOMAIN reqs /\ job[w] \in Ids /\ job[w] # NoObj /\ pc[w] = "list"
      /\ UNCHANGED <<reqs, q, job, answer>>
  BY HasJob DEF LookupL2, queue_vars, out_vars, Idle
<1>2. dlist[w] = NoObj
  BY <1>1 DEF ListInv, ListsRight, WithList
<1>3. CASE pc' = [pc EXCEPT ![w] = "build"] /\ UNCHANGED <<l2_vars, list_vars, dlist>>
  <2>1. GoesOn(w, "build")
    BY <1>1, <1>3 DEF GoesOn
  <2> QED
    BY <1>1, <1>2, <1>3, <2>1, ListsAside DEF BeforeList, WithList
<1>4. CASE get_display_list(Req(w).page) /\ dlist' = [dlist EXCEPT ![w] = l2_map[Req(w).page]] /\ Goto(w, "checkB")
  <2>1. PICK d, n : d = l2_map[n] /\ n = Req(w).page
    OBVIOUS
  <2>2. /\ L2Sound' /\ n \in DOMAIN l2_map /\ l2_map' = l2_map /\ list_page' = list_page
        /\ list_refs' = Keep(list_refs, d) /\ dlist' = [dlist EXCEPT ![w] = d]
        /\ GoesOn(w, "checkB")
    BY <1>1, <1>4, <2>1, GetListIs DEF ListInv, get_display_list, GoesOn, Goto
  <2>3. d \in Lists /\ d \in Range(l2_map) /\ list_page[d] = n
    BY <2>1, <2>2 DEF ListInv, ListsRight, L2Sound, Tier2, Range
  <2>4. /\ list_refs' \in [Lists -> Int]
        /\ \A o \in Lists : list_refs'[o] = list_refs[o] + Same(o, d)
    <3>1. list_refs \in [Lists -> Int] /\ list_refs' = Keep(list_refs, d)
      BY <2>2 DEF ListInv, ListTypes
    <3> QED
      BY <2>3, <3>1, KeepIs
  <2>5. dlist'[w] = d /\ \A v \in Workers \ {w} : dlist'[v] = dlist[v]
    BY <2>2 DEF Inv, EngineTypeOK
  <2>6. ASSUME NEW o \in Lists
        PROVE  /\ list_refs'[o] = list_refs[o] + (One(o, Range(l2_map)') - One(o, Range(l2_map)))
                                    + (Same(o, dlist'[w]) - Same(o, dlist[w]))
               /\ list_refs[o] = 0 => list_refs'[o] = 0
    <3>1. /\ Same(o, NoObj) = 0 /\ Same(o, d) \in Int /\ One(o, Range(l2_map)) \in Int
          /\ list_refs[o] \in Int
      BY FiniteOwners DEF Same, One, ListInv, ListTypes
    <3>2. list_refs[o] = 0 => Same(o, d) = 0
      BY <2>3, FreeListHasNoOwner DEF Same
    <3> QED
      BY <1>2, <2>2, <2>4, <2>5, <3>1, <3>2
  <2>7. ListTypes' /\ \A x \in DOMAIN l2_map' : list_page'[l2_map'[x]] = x
    BY <2>2, <2>4 DEF ListInv, ListTypes, ListsRight
  <2>8. "checkB" \in WithList /\ "checkB" \notin BeforeList /\ list_page'[dlist'[w]] = Req(w).page
    BY <2>1, <2>2, <2>3, <2>5 DEF WithList, BeforeList
  <2> QED
    BY <1>1, <2>2, <2>5, <2>6, <2>7, <2>8, ListsMove
<1> QED
  BY <1>3, <1>4 DEF LookupL2, Goto

\* A new list is its worker's alone, and is of the page it asked for.
LEMMA BuildList_Lists ==
    ASSUME Inv, ListInv, NEW w \in Workers, BuildList(w)
    PROVE  ListInv'
<1>1. /\ job[w] \in DOMAIN reqs /\ job[w] \in Ids /\ job[w] # NoObj /\ pc[w] = "build"
      /\ UNCHANGED <<l2_lru, l2_map, reqs, q, job, answer>>
  BY HasJob DEF BuildList, queue_vars, l2_vars, out_vars, Idle
<1>2. dlist[w] = NoObj
  BY <1>1 DEF ListInv, ListsRight, WithList
<1>3. CASE pc' = [pc EXCEPT ![w] = "checkB"] /\ UNCHANGED <<list_vars, dlist>>
  <2>1. GoesOn(w, "checkB")
    BY <1>1, <1>3 DEF GoesOn
  <2> QED
    BY <1>1, <1>2, <1>3, <2>1, ListsAside DEF WithList, BeforeList, l2_vars
<1>4. ASSUME NEW l \in {"checkB", "store_list"}, pc' = [pc EXCEPT ![w] = l],
             dlist' = [dlist EXCEPT ![w] = job[w]],
             list_refs' = [list_refs EXCEPT ![job[w]] = 1],
             list_page' = [list_page EXCEPT ![job[w]] = Req(w).page]
      PROVE  ListInv'
  <2> DEFINE r == job[w]
  <2>1. r \in Lists
    BY <1>1, EngineConstants DEF EngineConstants, Ids
  <2>2. list_refs[r] = 0
    <3>1. NotPast(r, BeforeList)
      BY <1>1 DEF NotPast, BeforeList
    <3> QED
      BY <2>1, <3>1 DEF ListInv, ListsNew
  <2>3. r \notin Range(l2_map) /\ \A v \in Workers : dlist[v] # r
    BY <2>1, <2>2, FreeListHasNoOwner
  <2>4. /\ dlist'[w] = r /\ \A v \in Workers \ {w} : dlist'[v] = dlist[v]
        /\ list_page'[r] = Req(w).page /\ \A d \in Lists \ {r} : list_page'[d] = list_page[d]
        /\ list_refs'[r] = 1 /\ \A d \in Lists \ {r} : list_refs'[d] = list_refs[d]
        /\ list_refs' \in [Lists -> Int] /\ DOMAIN list_page' = Lists
    BY <1>4, <2>1 DEF Inv, EngineTypeOK, ListInv, ListTypes
  <2>5. L2Sound' /\ Range(l2_map)' = Range(l2_map) /\ l2_map' = l2_map
    BY <1>1, L2Kept DEF ListInv, l2_vars
  <2>6. l \in WithList /\ l \notin BeforeList /\ GoesOn(w, l)
    BY <1>1, <1>4 DEF WithList, BeforeList, GoesOn
  <2> HIDE DEF r
  <2>7. ListTypes'
    BY <2>4 DEF ListTypes
  <2>8. ASSUME NEW d \in Lists
        PROVE  list_refs'[d] = list_refs[d] + (One(d, Range(l2_map)') - One(d, Range(l2_map)))
                                 + (Same(d, dlist'[w]) - Same(d, dlist[w]))
    <3>1. /\ list_refs[d] \in Int /\ Same(d, NoObj) = 0 /\ One(d, Range(l2_map)) \in Int
          /\ One(d, Range(l2_map)') = One(d, Range(l2_map))
      BY <2>5, FiniteOwners DEF ListInv, ListTypes, Same, One
    <3> QED
      BY <1>2, <2>2, <2>4, <3>1 DEF Same
  <2>9. \A n \in DOMAIN l2_map' : list_page'[l2_map'[n]] = n
    <3>1. ASSUME NEW n \in DOMAIN l2_map
          PROVE  list_page'[l2_map[n]] = n
      <4>1. l2_map[n] \in Lists /\ l2_map[n] \in Range(l2_map)
        BY DEF ListInv, L2Sound, Tier2, Range
      <4>2. l2_map[n] # r /\ list_page[l2_map[n]] = n
        BY <2>3, <4>1 DEF ListInv, ListsRight
      <4> QED
        BY <2>4, <4>1, <4>2
    <3> QED
      BY <2>5, <3>1
  <2>10. \A v \in Workers \ {w} : dlist[v] # NoObj => list_page'[dlist[v]] = list_page[dlist[v]]
    BY <2>3, <2>4 DEF Inv, EngineTypeOK
  <2>11. \A d \in Lists : list_refs[d] = 0 => list_refs'[d] = 0 \/ (d = job[w] /\ l \notin BeforeList)
    BY <2>4, <2>6 DEF r
  <2>12. dlist'[w] = job[w] /\ list_page'[dlist'[w]] = Req(w).page /\ job[w] \notin Range(l2_map)'
    BY <2>3, <2>4, <2>5 DEF r
  <2>13. Range(l2_map)' \subseteq Range(l2_map) \cup {job[w]}
    BY <2>5
  <2> QED
    BY <1>1, <2>4, <2>5, <2>6, <2>7, <2>8, <2>9, <2>10, <2>11, <2>12, <2>13, ListsMove
<1> QED
  BY <1>3, <1>4 DEF BuildList, Goto

\* The cache takes the second reference of a new list, or drops it.
LEMMA StoreList_Lists ==
    ASSUME Inv, ListInv, NEW w \in Workers, StoreList(w)
    PROVE  ListInv'
<1>1. PICK d, n : d = dlist[w] /\ n = Req(w).page
  OBVIOUS
<1>2. /\ job[w] \in DOMAIN reqs /\ job[w] \in Ids /\ job[w] # NoObj /\ pc[w] = "store_list"
      /\ GoesOn(w, "checkB") /\ UNCHANGED <<dlist, answer>>
      /\ put_display_list(n, d, Keep(list_refs, d))
  BY <1>1, HasJob DEF StoreList, GoesOn, Goto, queue_vars, out_vars, Idle
<1>3. /\ d = job[w] /\ d \in Lists /\ d \notin Range(l2_map) /\ d # NoObj
      /\ list_page[d] = n
  BY <1>1, <1>2, EngineConstants DEF ListInv, ListsNew, ListsRight, ListTypes, EngineConstants, Ids
<1>4. PutListDone(n, d, Keep(list_refs, d)) /\ list_page' = list_page
  BY <1>2, <1>3, PutListIs DEF ListInv
<1> DEFINE out == (Range(l2_map) \cup {d}) \ Range(l2_map)'
<1>5. /\ L2Sound' /\ list_refs' = Drop(Keep(list_refs, d), out)
      /\ Range(l2_map)' \subseteq Range(l2_map) \cup {d}
      /\ \A x \in DOMAIN l2_map' : \/ x \in DOMAIN l2_map /\ l2_map'[x] = l2_map[x]
                                   \/ x = n /\ l2_map'[x] = d
  BY <1>4 DEF PutListDone
<1>6. \A o \in Lists : One(o, {d}) - One(o, out) = One(o, Range(l2_map)') - One(o, Range(l2_map))
  BY <1>3, <1>5, PutKeepsCount
<1> HIDE DEF out
<1>7. /\ list_refs' \in [Lists -> Int]
      /\ \A o \in Lists : list_refs'[o] = list_refs[o] + One(o, {d}) - One(o, out)
  <2>1. list_refs \in [Lists -> Int] /\ list_refs' = Drop(Keep(list_refs, d), out)
    BY <1>5 DEF ListInv, ListTypes
  <2>2. Delta(Lists, list_refs, Drop(Keep(list_refs, d), out), {d}, out)
    BY <1>3, <2>1, KeepDropIs
  <2> QED
    BY <2>1, <2>2 DEF Delta
<1>8. ASSUME NEW o \in Lists
      PROVE  /\ list_refs'[o] = list_refs[o] + (One(o, Range(l2_map)') - One(o, Range(l2_map)))
                                  + (Same(o, dlist'[w]) - Same(o, dlist[w]))
             /\ list_refs[o] = 0 => list_refs'[o] = 0
  <2>1. /\ list_refs[o] \in Int /\ One(o, {d}) \in Int /\ One(o, out) \in Int
        /\ One(o, Range(l2_map)') \in Int /\ One(o, Range(l2_map)) \in Int
        /\ Same(o, dlist'[w]) \in Int /\ Same(o, dlist[w]) = Same(o, dlist'[w])
    BY <1>2 DEF ListInv, ListTypes, One, Same
  <2>2. list_refs'[o] = list_refs[o] + (One(o, Range(l2_map)') - One(o, Range(l2_map)))
    BY <1>6, <1>7, <2>1
  <2>3. ASSUME list_refs[o] = 0 PROVE One(o, Range(l2_map)') = 0 /\ One(o, Range(l2_map)) = 0
    <3>1. o \notin Range(l2_map) /\ o # d
      BY <1>1, <2>3, FreeListHasNoOwner
    <3>2. o \notin Range(l2_map)'
      BY <1>5, <3>1
    <3> QED
      BY <3>1, <3>2 DEF One
  <2>4. Same(o, dlist'[w]) - Same(o, dlist[w]) = 0
    BY <2>1
  <2> QED
    BY <2>1, <2>2, <2>3, <2>4
<1>9. ListTypes'
  BY <1>4, <1>7 DEF ListInv, ListTypes
<1>10. \A x \in DOMAIN l2_map' : list_page'[l2_map'[x]] = x
  BY <1>3, <1>4, <1>5 DEF ListInv, ListsRight
<1>11. "checkB" \in WithList /\ "checkB" \notin BeforeList /\ list_page'[dlist'[w]] = Req(w).page
  BY <1>1, <1>2, <1>3, <1>4 DEF WithList, BeforeList
<1> QED
  BY <1>2, <1>3, <1>4, <1>5, <1>8, <1>9, <1>10, <1>11, ListsMove

LEMMA CheckpointB_Lists ==
    ASSUME Inv, ListInv, NEW w \in Workers, CheckpointB(w)
    PROVE  ListInv'
<1>1. /\ job[w] \in DOMAIN reqs /\ job[w] # NoObj /\ pc[w] = "checkB"
      /\ UNCHANGED <<l2_vars, list_page, reqs, q, job, answer>>
  BY HasJob DEF CheckpointB, queue_vars, out_vars, Idle
<1>2. CASE list_refs' = DropOwn(list_refs, dlist[w]) /\ dlist' = [dlist EXCEPT ![w] = NoObj] /\ Goto(w, "deliver")
  <2>1. GoesOn(w, "deliver")
    BY <1>1, <1>2 DEF GoesOn, Goto
  <2> QED
    BY <1>1, <1>2, <2>1, DropsItsList DEF BeforeList
<1>3. ASSUME NEW l \in {"checkC", "raster"}, Goto(w, l), UNCHANGED <<list_refs, dlist>>,
             dlist[w] # NoObj => l = "raster"
      PROVE  ListInv'
  <2>1. GoesOn(w, l)
    BY <1>1, <1>3 DEF GoesOn, Goto
  <2> QED
    BY <1>1, <1>3, <2>1, ListsAside DEF BeforeList, WithList, list_vars
<1> QED
  BY <1>2, <1>3 DEF CheckpointB

LEMMA Rasterise_Lists ==
    ASSUME Inv, ListInv, NEW w \in Workers, Rasterise(w)
    PROVE  ListInv'
<1>1. /\ job[w] \in DOMAIN reqs /\ job[w] # NoObj
      /\ UNCHANGED <<l2_vars, list_page, reqs, q, job>>
      /\ list_refs' = DropOwn(list_refs, dlist[w]) /\ dlist' = [dlist EXCEPT ![w] = NoObj]
  BY HasJob DEF Rasterise, queue_vars, out_vars, Idle
<1>2. PICK l \in {"checkC", "store"} : GoesOn(w, l)
  BY <1>1 DEF Rasterise, GoesOn, Goto
<1> QED
  BY <1>1, <1>2, DropsItsList DEF BeforeList

\* The destruction drops every list of the cache.
LEMMA Destroy_Lists ==
    ASSUME Inv, ListInv, Destroy
    PROVE  ListInv'
<1>1. /\ L2Sound' /\ Range(l2_map)' = {} /\ DOMAIN l2_map' = {}
      /\ list_refs' = Drop(list_refs, Range(l2_map)) /\ list_page' = list_page
      /\ UNCHANGED <<reqs, q, pc, job, dlist>>
  BY ClearLists DEF Destroy, clear, ListInv, queue_vars, worker_vars
<1>2. /\ list_refs' \in [Lists -> Int]
      /\ \A o \in Lists : list_refs'[o] = list_refs[o] - One(o, Range(l2_map))
  <2>1. list_refs \in [Lists -> Int]
    BY DEF ListInv, ListTypes
  <2> QED
    BY <1>1, <2>1, DropIs
<1>3. ListsOwned'
  <2>1. ASSUME NEW d \in Lists
        PROVE  list_refs'[d] = One(d, Range(l2_map)') + Count(dlist', Workers, d)
    <3>1. list_refs[d] = One(d, Range(l2_map)) + Count(dlist, Workers, d)
      BY DEF ListInv, ListsOwned
    <3>2. Count(dlist, Workers, d) \in Nat /\ dlist' = dlist
      BY <1>1, CountNone, FiniteOwners
    <3>3. One(d, Range(l2_map)) \in Int /\ One(d, Range(l2_map)') = 0
      BY <1>1 DEF One
    <3> QED
      BY <1>2, <3>1, <3>2, <3>3
  <2> QED
    BY <2>1 DEF ListsOwned
<1>4. ListTypes' /\ ListsRight'
  BY <1>1, <1>2 DEF ListInv, ListTypes, ListsRight, Req
<1>5. ListsNew'
  <2>1. ASSUME NEW r \in Lists, NotPast(r, BeforeList)'
        PROVE  list_refs'[r] = 0
    <3>1. list_refs[r] = 0
      BY <1>1, <2>1 DEF NotPast, ListInv, ListsNew
    <3>2. One(r, Range(l2_map)) = 0
      BY <3>1, FreeListHasNoOwner DEF One
    <3> QED
      BY <1>2, <3>1, <3>2
  <2> QED
    BY <1>1, <2>1 DEF ListInv, ListsNew
<1> QED
  BY <1>1, <1>3, <1>4, <1>5 DEF ListInv

-----------------------------------------------------------------------------
(* Every other step.                                                       *)

\* What a step that only moves control does to the objects: nothing.
ObjectsStay == UNCHANGED <<cache_vars, pix, dlist, shown>>

BothInv == PixmapInv /\ ListInv

\* A worker moves on in the pipeline, or to a request's text, with nothing.
LEMMA ControlSteps_Both ==
    ASSUME Inv, BothInv, NEW w \in Workers,
           CheckpointA(w) \/ HitWanted(w)
    PROVE  BothInv'
<1>1. UNCHANGED <<reqs, q, job, answer>> /\ ObjectsStay /\ pc[w] \in {"taken", "hit"}
  BY DEF CheckpointA, HitWanted, queue_vars, out_vars, ObjectsStay
<1>2. PICK l \in {"deliver", "build", "lookup"} : GoesOn(w, l) /\ (pc[w] = "hit" => l = "deliver")
  BY <1>1 DEF CheckpointA, HitWanted, GoesOn, Goto
<1>3. pix[w] # NoObj => pc[w] = "hit"
  BY <1>1 DEF BothInv, PixmapInv, PixmapsRight, WithPixmap
<1>4. dlist[w] = NoObj
  BY <1>1 DEF BothInv, ListInv, ListsRight, WithList
<1>5. /\ l \in BeforePixmap => pc[w] \in BeforePixmap
      /\ pix[w] # NoObj => l \in WithPixmap
      /\ l \in BeforeList => pc[w] \in BeforeList
      /\ l # "store" /\ l # "store_list"
  BY <1>1, <1>2, <1>3 DEF BeforePixmap, WithPixmap, BeforeList
<1>6. PixmapInv'
  BY <1>1, <1>2, <1>5, PixmapsAside DEF BothInv, ObjectsStay, cache_vars, l1_vars, pix_vars
<1>7. ListInv'
  BY <1>1, <1>2, <1>4, <1>5, ListsAside DEF BothInv, ObjectsStay, cache_vars, list_vars
<1> QED
  BY <1>6, <1>7 DEF BothInv

\* The pipeline's list steps leave the pixmaps, and its pixmap steps the lists.
LEMMA ListSteps_Pixmaps ==
    ASSUME Inv, BothInv, NEW w \in Workers,
           LookupL2(w) \/ BuildList(w) \/ StoreList(w) \/ CheckpointB(w)
    PROVE  PixmapInv'
<1>1. /\ UNCHANGED <<reqs, q, job, answer, pix, shown, l1_vars, pix_vars>>
      /\ pc[w] \in {"list", "build", "store_list", "checkB"}
  BY DEF LookupL2, BuildList, StoreList, CheckpointB, queue_vars, out_vars
<1>2. PICK l \in {"build", "checkB", "store_list", "deliver", "checkC", "raster"} : GoesOn(w, l)
  BY <1>1 DEF LookupL2, BuildList, StoreList, CheckpointB, GoesOn, Goto
<1>3. pix[w] = NoObj
  BY <1>1 DEF BothInv, PixmapInv, PixmapsRight, WithPixmap
<1>4. pc[w] \in BeforePixmap /\ l # "store"
  BY <1>1, <1>2 DEF BeforePixmap
<1> QED
  BY <1>1, <1>2, <1>3, <1>4, PixmapsAside DEF BothInv, l1_vars, pix_vars

LEMMA PixmapSteps_Lists ==
    ASSUME Inv, BothInv, NEW w \in Workers,
           LookupL1(w) \/ StorePixmap(w) \/ CheckpointC(w) \/ OnComplete(w)
    PROVE  ListInv'
<1>1. /\ UNCHANGED <<reqs, q, job, dlist, l2_vars, list_vars>>
      /\ pc[w] \in {"lookup", "store", "checkC", "deliver"}
  BY DEF LookupL1, StorePixmap, CheckpointC, OnComplete, queue_vars
<1>2. PICK l \in {"hit", "list", "checkC", "deliver", "called"} : GoesOn(w, l) /\ (l = "list" => pc[w] = "lookup")
                                                                 /\ (l = "hit" => pc[w] = "lookup")
  BY <1>1 DEF LookupL1, StorePixmap, CheckpointC, OnComplete, GoesOn, Goto
<1>3. dlist[w] = NoObj
  BY <1>1 DEF BothInv, ListInv, ListsRight, WithList
<1>4. l \in BeforeList => pc[w] \in BeforeList
  BY <1>2 DEF BeforeList
<1>5. \A r \in DOMAIN reqs : answer[r] # "none" => answer'[r] # "none"
  <2>1. answer' = answer \/ answer' = [answer EXCEPT ![job[w]] = IF pix[w] = NoObj THEN "null" ELSE "pixmap"]
    BY DEF LookupL1, StorePixmap, CheckpointC, OnComplete, out_vars
  <2>2. answer \in [Ids -> {"none", "pixmap", "null", "skipped"}] /\ DOMAIN reqs \subseteq Ids
    BY SubmittedIds DEF Inv, EngineTypeOK
  <2> QED
    BY <2>1, <2>2
<1> QED
  BY <1>1, <1>2, <1>3, <1>4, <1>5, ListsAside DEF BothInv

\* No object moves, and no request or worker comes back to its beginning.
LEMMA BothStay ==
    ASSUME Inv, BothInv, SameRequests, ObjectsStay,
           \A r \in Ids : NotPast(r, BeforePixmap)' => NotPast(r, BeforePixmap),
           \A r \in Ids : NotPast(r, BeforeList)' => NotPast(r, BeforeList),
           \A w \in Workers :
               /\ pc[w] \in WithPixmap \cup WithList => pc'[w] = pc[w] /\ job'[w] = job[w]
               /\ pc'[w] \in {"store", "store_list"} => pc[w] = pc'[w]
    PROVE  BothInv'
<1>1. \A w \in Workers : pc[w] \in WithPixmap \cup WithList => job[w] \in DOMAIN reqs
  BY HasJob DEF WithPixmap, WithList, Idle
<1>2. \A w \in Workers : /\ pix[w] # NoObj => pc[w] \in WithPixmap
                         /\ dlist[w] # NoObj => pc[w] \in WithList
  BY DEF BothInv, PixmapInv, PixmapsRight, ListInv, ListsRight
<1>3. Pixmaps = Ids /\ Lists = Ids
  BY EngineConstants DEF EngineConstants, Ids
<1>4. /\ "store" \in WithPixmap \cup WithList /\ "store_list" \in WithPixmap \cup WithList
  BY DEF WithPixmap, WithList
<1>5. PixmapInv'
  <2>1. UNCHANGED <<l1_lru, l1_map, l1_bytes, image, pix_refs, pix, shown>>
    BY DEF ObjectsStay, cache_vars, l1_vars, pix_vars
  <2>2. \A w \in Workers :
          /\ pix[w] # NoObj => pc'[w] \in WithPixmap /\ job'[w] = job[w] /\ job[w] \in DOMAIN reqs
          /\ pc'[w] = "store" => pc[w] = "store" /\ job'[w] = job[w]
    BY <1>1, <1>2, <1>4
  <2>3. \A r \in Pixmaps : NotPast(r, BeforePixmap)' => NotPast(r, BeforePixmap)
    BY <1>3
  <2> QED
    BY <2>1, <2>2, <2>3, PixmapsStay DEF BothInv
<1>6. ListInv'
  <2>1. UNCHANGED <<l2_vars, list_vars, dlist>>
    BY DEF ObjectsStay, cache_vars
  <2>2. \A w \in Workers :
          /\ dlist[w] # NoObj => pc'[w] \in WithList /\ job'[w] = job[w] /\ job[w] \in DOMAIN reqs
          /\ pc'[w] = "store_list" => pc[w] = "store_list" /\ job'[w] = job[w]
    BY <1>1, <1>2, <1>4
  <2>3. \A r \in Lists : NotPast(r, BeforeList)' => NotPast(r, BeforeList)
    BY <1>3
  <2> QED
    BY <2>1, <2>2, <2>3, ListsStay DEF BothInv
<1> QED
  BY <1>5, <1>6 DEF BothInv

\* A worker takes a request, falls asleep or exits, or is woken.
LEMMA TakeRequest_Both ==
    ASSUME Inv, BothInv, NEW w \in Workers, TakeRequest(w) \/ SpuriousWakeup(w)
    PROVE  BothInv'
<1>1. pc[w] \in Idle /\ reqs' = reqs /\ answer' = answer /\ UNCHANGED <<cache_vars, pix, dlist, shown>>
  BY DEF TakeRequest, SpuriousWakeup, queue_vars, out_vars, Idle
<1>2. PICK l \in {"awake", "asleep", "exited", "taken"} :
        /\ pc' = [pc EXCEPT ![w] = l]
        /\ \/ l # "taken" /\ UNCHANGED <<q, job>>
           \/ \E r \in q : q' = q \ {r} /\ job' = [job EXCEPT ![w] = r]
  BY DEF TakeRequest, SpuriousWakeup, Goto, queue_vars, Popped
<1>3. SameRequests /\ ObjectsStay
  BY <1>1 DEF SameRequests, ObjectsStay
<1>4. ASSUME NEW r \in Ids, NEW L \in {BeforePixmap, BeforeList}, NotPast(r, L)'
      PROVE  NotPast(r, L)
  <2>1. \A x \in Idle : x \notin L
    BY <1>4 DEF Idle, BeforePixmap, BeforeList
  <2>2. \A v \in Workers : pc'[v] \in L => (pc[v] \in L /\ job'[v] = job[v]) \/ job'[v] \in q
    BY <1>2, <2>1 DEF Inv, EngineTypeOK, Idle
  <2>3. \A x \in q' : x \in q
    BY <1>2
  <2> QED
    BY <1>1, <1>4, <2>2, <2>3 DEF NotPast
<1>5. \A v \in Workers :
         /\ pc[v] \in WithPixmap \cup WithList => pc'[v] = pc[v] /\ job'[v] = job[v]
         /\ pc'[v] \in {"store", "store_list"} => pc[v] = pc'[v]
  BY <1>1, <1>2 DEF Inv, EngineTypeOK, WithPixmap, WithList, Idle
<1> QED
  BY <1>3, <1>4, <1>5, BothStay

\* A worker goes on with its request's text, or is done with the request.
LEMMA TextSteps_Both ==
    ASSUME Inv, BothInv, NEW w \in Workers, CheckText(w) \/ BuildText(w) \/ DeliverText(w)
    PROVE  BothInv'
<1>1. /\ pc[w] \in {"called", "wanted", "built", "recheck"}
      /\ reqs' = reqs /\ q' = q /\ answer' = answer /\ UNCHANGED <<cache_vars, dlist, shown>>
      /\ pix' = pix \/ pix' = [pix EXCEPT ![w] = NoObj]
      /\ job' = job \/ job' = [job EXCEPT ![w] = NoObj]
      /\ \E l \in {"awake", "wanted", "built", "recheck"} : pc' = [pc EXCEPT ![w] = l]
  BY DEF CheckText, BuildText, DeliverText, NextRequest, Goto, queue_vars, out_vars
<1>2. pix' = pix
  <2>1. pix[w] = NoObj
    BY <1>1 DEF BothInv, PixmapInv, PixmapsRight, WithPixmap
  <2> QED
    BY <1>1, <2>1 DEF Inv, EngineTypeOK
<1>3. SameRequests /\ ObjectsStay
  BY <1>1, <1>2 DEF SameRequests, ObjectsStay
<1>4. /\ pc'[w] \in {"awake", "wanted", "built", "recheck"}
      /\ \A v \in Workers \ {w} : pc'[v] = pc[v] /\ job'[v] = job[v]
  BY <1>1 DEF Inv, EngineTypeOK
<1>5. ASSUME NEW r \in Ids, NEW L \in {BeforePixmap, BeforeList}, NotPast(r, L)'
      PROVE  NotPast(r, L)
  BY <1>1, <1>4, <1>5 DEF NotPast, BeforePixmap, BeforeList
<1>6. \A v \in Workers :
         /\ pc[v] \in WithPixmap \cup WithList => pc'[v] = pc[v] /\ job'[v] = job[v]
         /\ pc'[v] \in {"store", "store_list"} => pc[v] = pc'[v]
  BY <1>1, <1>4 DEF WithPixmap, WithList
<1> QED
  BY <1>3, <1>5, <1>6, BothStay

LEMMA LateCancel_Lists ==
    ASSUME Inv, BothInv, NEW w \in Workers, LateCancel(w)
    PROVE  ListInv'
<1>1. /\ reqs' = reqs /\ q' = q /\ UNCHANGED <<l2_vars, list_vars, dlist>> /\ pc[w] = "hit"
      /\ answer' = [answer EXCEPT ![job[w]] = "skipped"]
      /\ pc' = [pc EXCEPT ![w] = "awake"] /\ job' = [job EXCEPT ![w] = NoObj]
  BY DEF LateCancel, NextRequest, Goto, queue_vars
<1>2. /\ pc'[w] = "awake" /\ dlist[w] = NoObj
      /\ \A v \in Workers \ {w} : pc'[v] = pc[v] /\ job'[v] = job[v]
  BY <1>1 DEF BothInv, ListInv, ListsRight, WithList, Inv, EngineTypeOK
<1>3. SameRequests
  <2>1. answer \in [Ids -> {"none", "pixmap", "null", "skipped"}] /\ DOMAIN reqs \subseteq Ids
    BY SubmittedIds DEF Inv, EngineTypeOK
  <2> QED
    BY <1>1, <2>1 DEF SameRequests
<1>4. ASSUME NEW r \in Lists, NotPast(r, BeforeList)'
      PROVE  NotPast(r, BeforeList)
  BY <1>1, <1>2, <1>4 DEF NotPast, BeforeList
<1>5. ASSUME NEW v \in Workers
      PROVE  /\ dlist[v] # NoObj => pc'[v] \in WithList /\ job'[v] = job[v] /\ job[v] \in DOMAIN reqs
             /\ pc'[v] = "store_list" => pc[v] = "store_list" /\ job'[v] = job[v]
  <2>1. dlist[v] # NoObj => pc[v] \in WithList
    BY DEF BothInv, ListInv, ListsRight
  <2>2. dlist[v] # NoObj => job[v] \in DOMAIN reqs
    BY <2>1, HasJob DEF WithList, Idle
  <2> QED
    BY <1>2, <2>1, <2>2
<1> QED
  BY <1>1, <1>3, <1>4, <1>5, ListsStay DEF BothInv

LEMMA WorkerStep_Both ==
    ASSUME Inv, Inv', BothInv, NEW w \in Workers, WorkerStep(w) \/ SpuriousWakeup(w)
    PROVE  BothInv'
<1>1. CASE TakeRequest(w) \/ SpuriousWakeup(w)
  BY <1>1, TakeRequest_Both
<1>2. CASE CheckpointA(w) \/ HitWanted(w)
  BY <1>2, ControlSteps_Both
<1>3. CASE CheckText(w) \/ BuildText(w) \/ DeliverText(w)
  BY <1>3, TextSteps_Both
<1>4. CASE LookupL1(w)
  BY <1>4, LookupL1_Pixmaps, PixmapSteps_Lists DEF BothInv
<1>5. CASE LateCancel(w)
  BY <1>5, LateCancel_Pixmaps, LateCancel_Lists DEF BothInv
<1>6. CASE LookupL2(w)
  BY <1>6, LookupL2_Lists, ListSteps_Pixmaps DEF BothInv
<1>7. CASE BuildList(w)
  BY <1>7, BuildList_Lists, ListSteps_Pixmaps DEF BothInv
<1>8. CASE StoreList(w)
  BY <1>8, StoreList_Lists, ListSteps_Pixmaps DEF BothInv
<1>9. CASE CheckpointB(w)
  BY <1>9, CheckpointB_Lists, ListSteps_Pixmaps DEF BothInv
<1>10. CASE Rasterise(w)
  BY <1>10, Rasterise_Pixmaps, Rasterise_Lists DEF BothInv
<1>11. CASE StorePixmap(w)
  BY <1>11, StorePixmap_Pixmaps, PixmapSteps_Lists DEF BothInv
<1>12. CASE CheckpointC(w)
  BY <1>12, CheckpointC_Pixmaps, PixmapSteps_Lists DEF BothInv
<1>13. CASE OnComplete(w)
  BY <1>13, OnComplete_Pixmaps, PixmapSteps_Lists DEF BothInv
<1> QED
  BY <1>1, <1>2, <1>3, <1>4, <1>5, <1>6, <1>7, <1>8, <1>9, <1>10, <1>11, <1>12, <1>13 DEF WorkerStep

-----------------------------------------------------------------------------
(* The steps of the UI thread.                                             *)

LEMMA AppendIs ==
    ASSUME NEW S, NEW s \in Seq(S), NEW x \in S
    PROVE  DOMAIN Append(s, x) = 1..(Len(s) + 1) /\ \A i \in 1..Len(s) : Append(s, x)[i] = s[i]
OBVIOUS

\* Workers are where they were, or are woken, and old requests stay queued.
LEMMA UIStays ==
    ASSUME Inv, BothInv, ObjectsStay, job' = job, answer' = answer,
           \A w \in Workers : pc'[w] = pc[w] \/ (pc[w] = "asleep" /\ pc'[w] = "awake"),
           \/ reqs' = reqs /\ q' = q
           \/ \E k \in Kinds : reqs' = Append(reqs, k) /\ q' = q \cup {Len(reqs) + 1}
    PROVE  BothInv'
<1>1. /\ DOMAIN reqs \subseteq DOMAIN reqs'
      /\ \A r \in DOMAIN reqs : reqs'[r] = reqs[r]
      /\ \A r \in q' : r \in q \/ r \notin DOMAIN reqs
      /\ \A r \in q : r \in q'
  <2>1. CASE reqs' = reqs /\ q' = q
    BY <2>1
  <2>2. ASSUME NEW k \in Kinds, reqs' = Append(reqs, k), q' = q \cup {Len(reqs) + 1}
        PROVE  /\ DOMAIN reqs \subseteq DOMAIN reqs'
               /\ \A r \in DOMAIN reqs : reqs'[r] = reqs[r]
               /\ \A r \in q' : r \in q \/ r \notin DOMAIN reqs
               /\ \A r \in q : r \in q'
    <3>1. reqs \in Seq(Kinds) /\ DOMAIN reqs = 1..Len(reqs) /\ Len(reqs) \in Nat
      BY SubmittedIds DEF Inv, EngineTypeOK
    <3>2. DOMAIN reqs' = 1..(Len(reqs) + 1) /\ \A r \in 1..Len(reqs) : reqs'[r] = reqs[r]
      BY <2>2, <3>1, AppendIs
    <3>3. Len(reqs) + 1 \notin DOMAIN reqs /\ DOMAIN reqs \subseteq DOMAIN reqs'
      BY <3>1, <3>2
    <3>4. \A r \in DOMAIN reqs : reqs'[r] = reqs[r]
      BY <3>1, <3>2
    <3>5. q' = q \cup {Len(reqs) + 1}
      BY <2>2
    <3> QED
      BY ONLY <3>3, <3>4, <3>5
  <2> QED
    BY <2>1, <2>2
<1>2. SameRequests
  BY <1>1 DEF SameRequests
<1>3. ASSUME NEW r \in Ids, NEW L \in {BeforePixmap, BeforeList}, NotPast(r, L)'
      PROVE  NotPast(r, L)
  <2>1. "awake" \notin L
    BY <1>3 DEF BeforePixmap, BeforeList
  <2> QED
    BY <1>1, <1>3, <2>1 DEF NotPast
<1>4. \A w \in Workers :
         /\ pc[w] \in WithPixmap \cup WithList => pc'[w] = pc[w] /\ job'[w] = job[w]
         /\ pc'[w] \in {"store", "store_list"} => pc[w] = pc'[w]
  BY DEF WithPixmap, WithList
<1> QED
  BY <1>2, <1>3, <1>4, BothStay

LEMMA UIControl_Both ==
    ASSUME Inv, BothInv,
           \/ \E k \in Kinds : Submit(k)
           \/ SubmitReturns
           \/ \E r \in Ids : Cancel(r)
           \/ \E p \in {0, 2} : cancel_all_below_priority(p)
           \/ ForgetText
           \/ BeginShutdown \/ ShutdownNotifies
           \/ UNCHANGED vars
    PROVE  BothInv'
<1>1. CASE \E k \in Kinds : Submit(k)
  BY <1>1, UIStays DEF Submit, ObjectsStay, worker_vars, out_vars
<1>2. CASE SubmitReturns
  <2>1. /\ reqs' = reqs /\ q' = q /\ job' = job /\ answer' = answer /\ ObjectsStay
        /\ NotifyOne
    BY <1>2 DEF SubmitReturns, ObjectsStay, queue_vars, out_vars
  <2>2. \A w \in Workers : pc'[w] = pc[w] \/ (pc[w] = "asleep" /\ pc'[w] = "awake")
    <3>1. pc' = pc \/ \E w \in Workers : pc[w] = "asleep" /\ pc' = [pc EXCEPT ![w] = "awake"]
      BY <2>1 DEF NotifyOne, Goto
    <3> QED
      BY <3>1 DEF Inv, EngineTypeOK
  <2> QED
    BY <2>1, <2>2, UIStays
<1>3. CASE ShutdownNotifies
  <2>1. /\ reqs' = reqs /\ q' = q /\ job' = job /\ answer' = answer /\ ObjectsStay
        /\ NotifyAll
    BY <1>3 DEF ShutdownNotifies, ObjectsStay, queue_vars, out_vars
  <2>2. \A w \in Workers : pc'[w] = pc[w] \/ (pc[w] = "asleep" /\ pc'[w] = "awake")
    BY <2>1 DEF NotifyAll
  <2> QED
    BY <2>1, <2>2, UIStays
<1>4. CASE \/ \E r \in Ids : Cancel(r)
           \/ \E p \in {0, 2} : cancel_all_below_priority(p)
           \/ ForgetText \/ BeginShutdown
  BY <1>4, UIStays DEF Cancel, cancel_all_below_priority, ForgetText, BeginShutdown, ObjectsStay, queue_vars, worker_vars, out_vars
<1>5. CASE UNCHANGED vars
  BY <1>5, UIStays DEF vars, ObjectsStay, queue_vars, worker_vars, out_vars
<1> QED
  BY <1>1, <1>2, <1>3, <1>4, <1>5

\* The lists stay where they are, and so does everyone.
LEMMA ListsUntouched ==
    ASSUME Inv, ListInv, UNCHANGED <<l2_vars, list_vars, dlist, reqs, q, pc, job, answer>>
    PROVE  ListInv'
<1>1. SameRequests
  BY DEF SameRequests
<1>2. \A r \in Lists : NotPast(r, BeforeList)' => NotPast(r, BeforeList)
  BY DEF NotPast
<1>3. \A w \in Workers :
          /\ dlist[w] # NoObj => pc'[w] \in WithList /\ job'[w] = job[w] /\ job[w] \in DOMAIN reqs
          /\ pc'[w] = "store_list" => pc[w] = "store_list" /\ job'[w] = job[w]
  BY HasJob DEF ListInv, ListsRight, WithList, Idle
<1> QED
  BY <1>1, <1>2, <1>3, ListsStay

LEMMA UICache_Both ==
    ASSUME Inv, BothInv,
           \/ \E k \in Kinds : Background(k)
           \/ Foreground
           \/ \E r \in Ids : ConsumerDrops(r)
           \/ Destroy
    PROVE  BothInv'
<1>1. ASSUME NEW k \in Kinds, Background(k)
      PROVE  BothInv'
  <2>1. PurgeDone /\ image' = image
    BY <1>1, RetainIs DEF Background, BothInv, PixmapInv
  <2>2. UNCHANGED <<l2_vars, list_vars, dlist, reqs, q, pc, job, pix, shown, answer>>
    BY <1>1 DEF Background, queue_vars, worker_vars, out_vars
  <2> QED
    BY <2>1, <2>2, Purge_Pixmaps, ListsUntouched DEF BothInv
<1>2. CASE Foreground
  <2>1. UNCHANGED <<l2_vars, list_vars, dlist, reqs, q, pc, job, pix, shown, answer, l1_lru, l1_map, l1_bytes, image, pix_refs>>
    BY <1>2 DEF Foreground, release_l1_pin, queue_vars, worker_vars, out_vars, pix_vars
  <2>2. SameRequests /\ \A r \in Pixmaps : NotPast(r, BeforePixmap)' => NotPast(r, BeforePixmap)
    BY <2>1 DEF SameRequests, NotPast
  <2>3. \A w \in Workers :
            /\ pix[w] # NoObj => pc'[w] \in WithPixmap /\ job'[w] = job[w] /\ job[w] \in DOMAIN reqs
            /\ pc'[w] = "store" => pc[w] = "store" /\ job'[w] = job[w]
    BY <2>1, HasJob DEF BothInv, PixmapInv, PixmapsRight, WithPixmap, Idle
  <2> QED
    BY <2>1, <2>2, <2>3, PixmapsStay, ListsUntouched DEF BothInv
<1>3. ASSUME NEW r \in Ids, ConsumerDrops(r)
      PROVE  BothInv'
  <2>1. UNCHANGED <<l2_vars, list_vars, dlist, reqs, q, pc, job, answer>>
    BY <1>3 DEF ConsumerDrops, queue_vars, worker_vars
  <2> QED
    BY <1>3, <2>1, ConsumerDrops_Pixmaps, ListsUntouched DEF BothInv
<1>4. CASE Destroy
  <2>1. PurgeDone
    BY <1>4, ClearIs DEF Destroy, BothInv, PixmapInv
  <2>2. UNCHANGED <<image, reqs, q, pc, job, pix, shown, answer>>
    BY <1>4 DEF Destroy, clear, queue_vars, worker_vars, out_vars
  <2> QED
    BY <1>4, <2>1, <2>2, Purge_Pixmaps, Destroy_Lists DEF BothInv
<1> QED
  BY <1>1, <1>2, <1>3, <1>4

LEMMA InitBoth == Init => BothInv
<1> SUFFICES ASSUME Init PROVE BothInv
  OBVIOUS
<1>1. /\ L1Sound /\ ObjectsIn(l1_map) = {} /\ DOMAIN l1_map = {}
      /\ L2Sound /\ Range(l2_map) = {} /\ DOMAIN l2_map = {}
  BY L1Init, L2Init DEF Init
<1>2. /\ \A w \in Workers : pix[w] = NoObj /\ dlist[w] = NoObj /\ pc[w] = "awake"
      /\ \A r \in Ids : shown[r] = NoObj
  BY DEF Init
<1>3. /\ pix_refs = [p \in Pixmaps |-> 0] /\ list_refs = [d \in Lists |-> 0]
      /\ \A p \in Pixmaps : image[p].bytes \in Nat
      /\ DOMAIN image = Pixmaps /\ DOMAIN list_page = Lists
  BY DEF Init, PageCacheInit
<1>4. PixmapsOwned
  <2>1. ASSUME NEW p \in Pixmaps
        PROVE  pix_refs[p] = One(p, ObjectsIn(l1_map)) + Count(pix, Workers, p) + Count(shown, Ids, p)
    <3>1. Count(pix, Workers, p) = 0 /\ Count(shown, Ids, p) = 0
      BY <1>2, FiniteOwners, CountNone
    <3>2. One(p, ObjectsIn(l1_map)) = 0 /\ pix_refs[p] = 0
      BY <1>1, <1>3 DEF One
    <3> QED
      BY <3>1, <3>2
  <2> QED
    BY <2>1 DEF PixmapsOwned
<1>5. ListsOwned
  <2>1. ASSUME NEW d \in Lists
        PROVE  list_refs[d] = One(d, Range(l2_map)) + Count(dlist, Workers, d)
    <3>1. Count(dlist, Workers, d) = 0
      BY <1>2, FiniteOwners, CountNone
    <3>2. One(d, Range(l2_map)) = 0 /\ list_refs[d] = 0
      BY <1>1, <1>3 DEF One
    <3> QED
      BY <3>1, <3>2
  <2> QED
    BY <2>1 DEF ListsOwned
<1>6. PixmapTypes /\ PixmapsRight /\ PixmapsNew
  BY <1>1, <1>2, <1>3 DEF PixmapTypes, PixmapsRight, PixmapsNew
<1>7. ListTypes /\ ListsRight /\ ListsNew
  BY <1>1, <1>2, <1>3 DEF ListTypes, ListsRight, ListsNew
<1> QED
  BY <1>1, <1>4, <1>5, <1>6, <1>7 DEF BothInv, PixmapInv, ListInv

LEMMA NextBoth == Inv /\ BothInv /\ [Next]_vars => BothInv'
<1> SUFFICES ASSUME Inv, BothInv, [Next]_vars PROVE BothInv'
  OBVIOUS
<1>0. Inv'
  BY NextInv
<1>1. ASSUME NEW w \in Workers, WorkerStep(w) \/ SpuriousWakeup(w) PROVE BothInv'
  BY <1>0, <1>1, WorkerStep_Both
<1>2. CASE UIStep
  BY <1>2, UIControl_Both, UICache_Both DEF UIStep
<1>3. CASE Finished \/ UNCHANGED vars
  BY <1>3, UIControl_Both DEF Finished
<1> QED
  BY <1>1, <1>2, <1>3 DEF Next

\* One owner for each reference, and nobody shows what is not his.
LEMMA BothSay == Inv /\ BothInv => RefsExact /\ ShowsWhatWasAsked
<1> SUFFICES ASSUME Inv, BothInv PROVE RefsExact /\ ShowsWhatWasAsked
  OBVIOUS
<1>1. ASSUME NEW p \in Pixmaps
      PROVE  pix_refs[p] = Cardinality({k \in DOMAIN l1_map : l1_map[k].pix = p})
                             + Cardinality({w \in Workers : pix[w] = p})
                             + Cardinality({r \in Ids : shown[r] = p})
  <2>1. Cardinality({k \in DOMAIN l1_map : l1_map[k].pix = p}) = One(p, ObjectsIn(l1_map))
    BY EntriesOf1 DEF BothInv, PixmapInv
  <2>2. pix_refs[p] = One(p, ObjectsIn(l1_map)) + Count(pix, Workers, p) + Count(shown, Ids, p)
    BY DEF BothInv, PixmapInv, PixmapsOwned
  <2> QED
    BY <2>1, <2>2 DEF Count
<1>2. ASSUME NEW d \in Lists
      PROVE  list_refs[d] = Cardinality({n \in DOMAIN l2_map : l2_map[n] = d})
                              + Cardinality({w \in Workers : dlist[w] = d})
  <2>1. Cardinality({n \in DOMAIN l2_map : l2_map[n] = d}) = One(d, Range(l2_map))
    BY EntriesOf2 DEF BothInv, ListInv
  <2>2. list_refs[d] = One(d, Range(l2_map)) + Count(dlist, Workers, d)
    BY DEF BothInv, ListInv, ListsOwned
  <2> QED
    BY <2>1, <2>2 DEF Count
<1>3. ASSUME NEW r \in Ids, shown[r] # NoObj
      PROVE  pix_refs[shown[r]] > 0 /\ image[shown[r]].key = Key(reqs[r])
  <2>1. shown[r] \in Pixmaps
    BY <1>3 DEF Inv, EngineTypeOK
  <2>2. PICK p \in Pixmaps : p = shown[r]
    BY <2>1
  <2>3. Count(shown, Ids, p) \in Nat /\ Count(shown, Ids, p) # 0 /\ Count(pix, Workers, p) \in Nat
    BY <2>2, FiniteOwners, CountNone
  <2>4. One(p, ObjectsIn(l1_map)) \in Nat
    BY DEF One
  <2>5. pix_refs[p] = One(p, ObjectsIn(l1_map)) + Count(pix, Workers, p) + Count(shown, Ids, p)
    BY DEF BothInv, PixmapInv, PixmapsOwned
  <2> QED
    BY <1>3, <2>2, <2>3, <2>4, <2>5 DEF BothInv, PixmapInv, PixmapsRight
<1> QED
  BY <1>1, <1>2, <1>3 DEF RefsExact, ShowsWhatWasAsked

\* For any number of workers and requests and any cache sizes: every
\* reference of a pixmap or a display list has one owner and every owner has
\* one, what a callback was given shows what its request asked for, a request
\* called off in the queue costs no work, and text follows a pixmap.
THEOREM AnswersAlwaysFaithful == SafeSpec => []AnswersFaithful
<1>1. Inv /\ BothInv => AnswersFaithful
  BY BothSay DEF AnswersFaithful, Inv
<1> QED
  BY InitInv, NextInv, InitBoth, NextBoth, <1>1, PTL DEF SafeSpec

-----------------------------------------------------------------------------
(* The thumbnail renderer on the engine.                                   *)

\* Where a request that may use the cache, and a thumbnail's never, can be.
CachePlaces == {"lookup", "hit", "list", "store_list", "store"}

\* A thumbnail's request goes past the cache, wants no text and is cancelled
\* only while it is queued.
ThumbsPlain ==
    /\ \A r \in DOMAIN reqs : reqs[r].bypass_cache => ~reqs[r].text
    /\ \A w \in Workers : /\ pc[w] \in CachePlaces => ~Req(w).bypass_cache
                          /\ pc[w] \in {"wanted", "built", "recheck"} => Req(w).text
    /\ \A r \in canceled : reqs[r].bypass_cache => r \in cut

ThumbTypes ==
    /\ pending_tasks \in Int
    /\ renderer \in {"idle", "submitting", "draining", "gone"}
    /\ reported \in [Ids -> {"none", "bitmap", "cancelled", "failed"}]

ThumbInv == ThumbTypes /\ ThumbsPlain /\ CallbacksCounted

InHand(r) == r \in q \/ \E w \in Workers : job[w] = r

LEMMA UnreturnedIs ==
    ASSUME Inv
    PROVE  /\ IsFiniteSet(Unreturned) /\ Cardinality(Unreturned) \in Nat
           /\ \A r : r \in Unreturned <=> r \in DOMAIN reqs /\ reqs[r].bypass_cache /\ InHand(r)
<1>1. \A r : r \in Unreturned <=> r \in DOMAIN reqs /\ reqs[r].bypass_cache /\ InHand(r)
  BY DEF Unreturned, InHand
<1>2. Unreturned \subseteq Ids
  BY <1>1, SubmittedIds DEF Inv
<1> QED
  BY <1>1, <1>2, FiniteOwners, FS_Subset, FS_CardinalityType

\* A step of the view or of the renderer is the engine's, or leaves it alone.
LEMMA ThumbSteps ==
    ASSUME Inv, [TNext]_tvars
    PROVE  [Next]_vars \/ CloseView
<1>1. CASE \E w \in Workers : TWorkerStep(w) \/ (SpuriousWakeup(w) /\ UNCHANGED thumb_vars)
  BY <1>1 DEF TWorkerStep, Callback, CallbackReturns, WorkerStep, Next
<1>2. CASE CountTask \/ RendererGone \/ UNCHANGED tvars
  BY <1>2 DEF CountTask, RendererGone, tvars
<1>3. CASE \/ \E k \in Kinds : SubmitThumb(k)
           \/ ViewStep \/ CloseEngine \/ TFinished
  BY <1>3 DEF SubmitThumb, ViewStep, CloseEngine, TFinished, UIStep, Next
<1> QED
  BY <1>1, <1>2, <1>3 DEF TNext

LEMMA ThumbsKeepInv ==
    ASSUME Inv, [TNext]_tvars
    PROVE  Inv'
<1>1. CASE CloseView
  <2>1. Below(2) \subseteq DOMAIN reqs
    BY DEF Inv, EngineTypeOK, Below
  <2> QED
    BY <1>1, <2>1, Cancel_Step DEF CloseView
<1> QED
  BY <1>1, ThumbSteps, NextInv

\* What a step does that lets no callback return and submits nothing.
HandsKeep ==
    /\ reqs' = reqs
    /\ UNCHANGED <<pending_tasks, renderer>>
    /\ \A r \in DOMAIN reqs : reqs[r].bypass_cache => (InHand(r)' <=> InHand(r))

LEMMA HandsKept ==
    ASSUME Inv, Inv', TasksExact, NoCallbackOutlives, HandsKeep
    PROVE  TasksExact' /\ NoCallbackOutlives'
<1>1. \A r : r \in Unreturned' <=> r \in Unreturned
  <2>1. \A r : r \in Unreturned <=> r \in DOMAIN reqs /\ reqs[r].bypass_cache /\ InHand(r)
    BY UnreturnedIs
  <2>2. \A r : r \in Unreturned' <=> r \in DOMAIN reqs' /\ reqs'[r].bypass_cache /\ InHand(r)'
    BY DEF Unreturned, InHand
  <2> QED
    BY <2>1, <2>2 DEF HandsKeep
<1>2. Unreturned' = Unreturned
  BY <1>1
<1> QED
  BY <1>2 DEF TasksExact, NoCallbackOutlives, HandsKeep

\* A worker takes a queued request, or lets go of one that is no thumbnail.
LEMMA HandsMove ==
    ASSUME Inv, reqs' = reqs, UNCHANGED <<pending_tasks, renderer>>, NEW w \in Workers,
           \/ q' = q /\ job' = job
           \/ q' = q /\ job' = [job EXCEPT ![w] = NoObj] /\ (job[w] # NoObj => ~reqs[job[w]].bypass_cache)
           \/ job[w] = NoObj /\ \E r \in q : q' = q \ {r} /\ job' = [job EXCEPT ![w] = r]
    PROVE  HandsKeep
<1>1. job \in [Workers -> {NoObj} \cup DOMAIN reqs] /\ NoObj \notin DOMAIN reqs
  BY SubmittedIds DEF Inv, EngineTypeOK, NoObj, Ids
<1>2. CASE q' = q /\ job' = job
  BY <1>2 DEF HandsKeep, InHand
<1>3. CASE q' = q /\ job' = [job EXCEPT ![w] = NoObj] /\ (job[w] # NoObj => ~reqs[job[w]].bypass_cache)
  <2>1. \A v \in Workers : v # w => job'[v] = job[v]
    BY <1>1, <1>3
  <2>2. job'[w] = NoObj
    BY <1>1, <1>3
  <2>3. ASSUME NEW r \in DOMAIN reqs, reqs[r].bypass_cache
        PROVE  InHand(r)' <=> InHand(r)
    <3>1. r # NoObj /\ job[w] # r
      BY <1>1, <1>3, <2>3
    <3> QED
      BY <1>3, <2>1, <2>2, <3>1 DEF InHand
  <2> QED
    BY <2>3 DEF HandsKeep
<1>4. ASSUME job[w] = NoObj, NEW x \in q, q' = q \ {x}, job' = [job EXCEPT ![w] = x]
      PROVE  HandsKeep
  <2>1. job'[w] = x /\ \A v \in Workers : v # w => job'[v] = job[v]
    BY <1>1, <1>4
  <2>2. ASSUME NEW r \in DOMAIN reqs
        PROVE  InHand(r)' <=> InHand(r)
    BY <1>1, <1>4, <2>1, <2>2 DEF InHand
  <2> QED
    BY <2>2 DEF HandsKeep
<1> QED
  BY <1>2, <1>3, <1>4

LEMMA ThumbWorker_Plain ==
    ASSUME Inv, Inv', ThumbsPlain, NEW w \in Workers, WorkerStep(w) \/ SpuriousWakeup(w)
    PROVE  ThumbsPlain'
<1>1. /\ reqs' = reqs /\ canceled' = canceled /\ cut' = cut
      /\ \A v \in Workers \ {w} : pc'[v] = pc[v] /\ job'[v] = job[v]
  BY DEF Inv, EngineTypeOK, WorkerStep, SpuriousWakeup, TakeRequest, CheckpointA, LookupL1, LateCancel, HitWanted,
     LookupL2, BuildList, StoreList, CheckpointB, Rasterise, StorePixmap, CheckpointC, OnComplete,
     CheckText, BuildText, DeliverText, NextRequest, Goto, queue_vars
<1>2. pc'[w] \in CachePlaces => pc[w] \in CachePlaces \cup {"taken", "build", "raster"} /\ job'[w] = job[w]
                                  /\ (pc[w] \in {"taken", "build", "raster"} => ~Req(w).bypass_cache)
  BY DEF Inv, EngineTypeOK, WorkerStep, SpuriousWakeup, TakeRequest, CheckpointA, LookupL1, LateCancel, HitWanted,
     LookupL2, BuildList, StoreList, CheckpointB, Rasterise, StorePixmap, CheckpointC, OnComplete,
     CheckText, BuildText, DeliverText, NextRequest, Goto, CachePlaces
<1>3. pc'[w] \in {"wanted", "built", "recheck"} =>
         job'[w] = job[w] /\ (pc[w] \in {"wanted", "built", "recheck"} \/ Req(w).text)
  BY DEF Inv, EngineTypeOK, WorkerStep, SpuriousWakeup, TakeRequest, CheckpointA, LookupL1, LateCancel, HitWanted,
     LookupL2, BuildList, StoreList, CheckpointB, Rasterise, StorePixmap, CheckpointC, OnComplete,
     CheckText, BuildText, DeliverText, NextRequest, Goto, WantsText
<1>4. ASSUME NEW v \in Workers
      PROVE  /\ pc'[v] \in CachePlaces => ~Req(v)'.bypass_cache
             /\ pc'[v] \in {"wanted", "built", "recheck"} => Req(v)'.text
  <2>1. CASE v = w
    BY <1>1, <1>2, <1>3, <2>1 DEF ThumbsPlain, Req
  <2>2. CASE v # w
    BY <1>1, <2>2 DEF ThumbsPlain, Req
  <2> QED
    BY <2>1, <2>2
<1> QED
  BY <1>1, <1>4 DEF ThumbsPlain

LEMMA ThumbUI_Plain ==
    ASSUME Inv, ThumbsPlain, UIStep \/ CloseView \/ UNCHANGED vars,
           \A k \in Kinds : Submit(k) => (k.bypass_cache => ~k.text)
    PROVE  ThumbsPlain'
<1>1. /\ job' = job
      /\ \A w \in Workers : pc'[w] = pc[w] \/ pc'[w] = "awake"
      /\ \A w \in Workers : pc[w] \in CachePlaces \cup {"wanted", "built", "recheck"} => job[w] \in DOMAIN reqs
  <2>1. job' = job
    BY DEF UIStep, CloseView, Submit, Background, SubmitReturns, Cancel, ConsumerDrops,
       cancel_all_below_priority, ForgetText, Foreground, BeginShutdown, ShutdownNotifies, Destroy,
       worker_vars, vars
  <2>2. \A w \in Workers : pc'[w] = pc[w] \/ pc'[w] = "awake"
    BY DEF UIStep, CloseView, Submit, Background, SubmitReturns, Cancel, ConsumerDrops, NotifyOne, NotifyAll, Goto,
       cancel_all_below_priority, ForgetText, Foreground, BeginShutdown, ShutdownNotifies, Destroy,
       worker_vars, vars, Inv, EngineTypeOK
  <2> QED
    BY <2>1, <2>2, HasJob DEF CachePlaces, Idle
<1>2. /\ "awake" \notin CachePlaces /\ DOMAIN reqs = 1..Len(reqs) /\ Len(reqs) \in Nat
      /\ reqs \in Seq(Kinds) /\ canceled \subseteq DOMAIN reqs
  BY SubmittedIds DEF CachePlaces, Inv, EngineTypeOK
<1>3. ASSUME NEW k \in Kinds, Submit(k)
      PROVE  ThumbsPlain'
  <2>1. /\ DOMAIN reqs' = 1..(Len(reqs) + 1) /\ \A i \in 1..Len(reqs) : reqs'[i] = reqs[i]
        /\ reqs'[Len(reqs) + 1] = k
        /\ canceled' = canceled /\ cut' = cut /\ pc' = pc
    BY <1>2, <1>3, AppendIs DEF Submit, worker_vars
  <2>2. ASSUME NEW r \in DOMAIN reqs'
        PROVE  reqs'[r].bypass_cache => ~reqs'[r].text
    <3>1. CASE r = Len(reqs) + 1
      BY <1>3, <2>1, <3>1
    <3>2. CASE r # Len(reqs) + 1
      <4>1. r \in 1..Len(reqs)
        BY <1>2, <2>1, <3>2
      <4> QED
        BY <1>2, <2>1, <4>1 DEF ThumbsPlain
    <3> QED
      BY <3>1, <3>2
  <2>3. ASSUME NEW w \in Workers
        PROVE  /\ pc'[w] \in CachePlaces => ~Req(w)'.bypass_cache
               /\ pc'[w] \in {"wanted", "built", "recheck"} => Req(w)'.text
    BY <1>1, <1>2, <2>1 DEF ThumbsPlain, Req
  <2>4. \A r \in canceled' : reqs'[r].bypass_cache => r \in cut'
    BY <1>2, <2>1 DEF ThumbsPlain
  <2> QED
    BY <2>2, <2>3, <2>4 DEF ThumbsPlain
<1>4. ASSUME reqs' = reqs,
             \/ canceled' = canceled /\ cut' = cut
             \/ \E S : Flag(S) /\ \A r \in S : reqs[r].bypass_cache => r \in q
      PROVE  ThumbsPlain'
  <2>1. \A r \in canceled' : reqs[r].bypass_cache => r \in cut'
    BY <1>4 DEF Flag, ThumbsPlain
  <2> QED
    BY <1>1, <1>2, <1>4, <2>1 DEF ThumbsPlain, Req
<1>5. CASE ~\E k \in Kinds : Submit(k)
  <2>1. CASE CloseView \/ \E p \in {0, 2} : cancel_all_below_priority(p)
    BY <1>4, <2>1 DEF CloseView, cancel_all_below_priority, Below
  <2>2. CASE \E r \in Ids : Cancel(r)
    BY <1>4, <2>2 DEF Cancel
  <2>3. CASE \/ \E k \in Kinds : Background(k)
             \/ SubmitReturns \/ ForgetText \/ Foreground \/ BeginShutdown \/ ShutdownNotifies \/ Destroy
             \/ \E r \in Ids : ConsumerDrops(r)
             \/ UNCHANGED vars
    BY <1>4, <2>3 DEF Background, SubmitReturns, ConsumerDrops, ForgetText, Foreground, BeginShutdown,
       ShutdownNotifies, Destroy, queue_vars, vars
  <2> QED
    BY <1>5, <2>1, <2>2, <2>3 DEF UIStep
<1> QED
  BY <1>3, <1>5

\* What a worker's step, the callback's return aside, does to the counts.
LEMMA ThumbWorker_Counts ==
    ASSUME Inv, Inv', ThumbInv, NEW w \in Workers,
           TWorkerStep(w) \/ (SpuriousWakeup(w) /\ UNCHANGED thumb_vars),
           ~CallbackReturns(w)
    PROVE  TasksExact' /\ NoCallbackOutlives'
<1>1. reqs' = reqs /\ UNCHANGED <<pending_tasks, renderer>>
  BY DEF TWorkerStep, SpuriousWakeup, Callback, CallbackReturns, thumb_vars, TakeRequest, CheckpointA, LookupL1, LateCancel,
     HitWanted, LookupL2, BuildList, StoreList, CheckpointB, Rasterise, StorePixmap, CheckpointC, OnComplete,
     BuildText, DeliverText, queue_vars
<1>2. \/ q' = q /\ job' = job
      \/ q' = q /\ job' = [job EXCEPT ![w] = NoObj] /\ pc[w] \in {"hit", "wanted", "built", "recheck"}
      \/ pc[w] = "awake" /\ \E r \in q : q' = q \ {r} /\ job' = [job EXCEPT ![w] = r]
  BY DEF TWorkerStep, SpuriousWakeup, Callback, TakeRequest, CheckpointA, LookupL1, LateCancel, Popped,
     HitWanted, LookupL2, BuildList, StoreList, CheckpointB, Rasterise, StorePixmap, CheckpointC, OnComplete,
     BuildText, DeliverText, NextRequest, queue_vars
<1>3. pc[w] = "awake" => job[w] = NoObj
  BY DEF Inv, JobInv, Idle
<1>4. pc[w] \in {"hit", "wanted", "built", "recheck"} => ~reqs[job[w]].bypass_cache
  <2>1. pc[w] \in {"hit", "wanted", "built", "recheck"} => job[w] \in DOMAIN reqs
    BY HasJob DEF Idle
  <2> QED
    BY <2>1 DEF ThumbInv, ThumbsPlain, Req, CachePlaces
<1>5. HandsKeep
  BY <1>1, <1>2, <1>3, <1>4, HandsMove
<1> QED
  BY <1>5, HandsKept DEF ThumbInv, CallbacksCounted

\* A thumbnail's callback returns: one task less, and its request is out of hand.
LEMMA CallbackReturns_Counts ==
    ASSUME Inv, Inv', ThumbInv, NEW w \in Workers, CallbackReturns(w)
    PROVE  TasksExact' /\ NoCallbackOutlives'
<1>1. /\ reqs' = reqs /\ q' = q /\ renderer' = renderer /\ pending_tasks' = TasksLeft(w)
      /\ pc[w] = "called"
      /\ job' = job \/ job' = [job EXCEPT ![w] = NoObj]
      /\ ~Req(w).text => job' = [job EXCEPT ![w] = NoObj]
  BY DEF CallbackReturns, CheckText, WantsText, NextRequest, queue_vars
<1>2. job[w] \in DOMAIN reqs /\ job[w] # NoObj /\ job \in [Workers -> {NoObj} \cup DOMAIN reqs]
  BY <1>1, HasJob DEF Idle, Inv, EngineTypeOK
<1>3. CASE ~IsThumb(w)
  <2>1. HandsKeep
    BY <1>1, <1>2, <1>3, HandsMove DEF TasksLeft, IsThumb, Req
  <2> QED
    BY <2>1, HandsKept DEF ThumbInv, CallbacksCounted
<1>4. CASE IsThumb(w)
  <2>1. pending_tasks' = pending_tasks - 1 /\ reqs[job[w]].bypass_cache
    BY <1>1, <1>4 DEF TasksLeft, IsThumb, Req
  <2>2. job' = [job EXCEPT ![w] = NoObj]
    BY <1>1, <1>2, <2>1 DEF ThumbInv, ThumbsPlain, Req
  <2>3. job'[w] = NoObj /\ \A v \in Workers : v # w => job'[v] = job[v]
    BY <1>2, <2>2
  <2>4. job[w] \notin q /\ \A v \in Workers : job[v] = job[w] => v = w
    BY <1>2 DEF Inv, QueueInv, OwnerInv
  <2>5. \A r : r \in Unreturned <=> r \in DOMAIN reqs /\ reqs[r].bypass_cache /\ InHand(r)
    BY UnreturnedIs
  <2>6. \A r : r \in Unreturned' <=> r \in DOMAIN reqs' /\ reqs'[r].bypass_cache /\ InHand(r)'
    BY DEF Unreturned, InHand
  <2>7. ASSUME NEW r \in DOMAIN reqs
        PROVE  InHand(r)' <=> InHand(r) /\ r # job[w]
    <3>1. r # NoObj
      BY <2>7, SubmittedIds DEF Inv, Ids, NoObj
    <3> QED
      BY <1>1, <2>3, <2>4, <3>1 DEF InHand
  <2>8. InHand(job[w])
    BY DEF InHand
  <2>9. \A r : r \in Unreturned' <=> r \in Unreturned /\ r # job[w]
    BY <1>1, <2>5, <2>6, <2>7
  <2>10. Unreturned' = Unreturned \ {job[w]} /\ job[w] \in Unreturned
    BY <1>2, <2>1, <2>5, <2>8, <2>9
  <2>11. Cardinality(Unreturned') = Cardinality(Unreturned) - 1 /\ Cardinality(Unreturned) \in Nat
    BY <2>10, UnreturnedIs, FS_RemoveElement
  <2> QED
    BY <1>1, <2>1, <2>10, <2>11 DEF ThumbInv, ThumbTypes, CallbacksCounted, TasksExact, NoCallbackOutlives
<1> QED
  BY <1>3, <1>4

\* The submitted thumbnail is in the queue, and was counted before.
LEMMA SubmitThumb_Counts ==
    ASSUME Inv, Inv', ThumbInv, NEW k \in Kinds, SubmitThumb(k)
    PROVE  TasksExact' /\ NoCallbackOutlives'
<1>0. PICK n : n = Len(reqs) + 1
  OBVIOUS
<1>1. /\ reqs \in Seq(Kinds) /\ DOMAIN reqs = 1..Len(reqs) /\ Len(reqs) \in Nat
      /\ renderer = "submitting" /\ renderer' = "idle" /\ pending_tasks' = pending_tasks
      /\ reqs' = Append(reqs, k) /\ q' = q \cup {n} /\ job' = job /\ k.bypass_cache
  BY <1>0, SubmittedIds DEF Inv, EngineTypeOK, SubmitThumb, Submit, worker_vars
<1>2. /\ DOMAIN reqs' = 1..n /\ \A i \in 1..Len(reqs) : reqs'[i] = reqs[i]
      /\ reqs'[n] = k /\ n \notin DOMAIN reqs
  BY <1>0, <1>1, AppendIs
<1>3. \A r : r \in DOMAIN reqs' <=> r \in DOMAIN reqs \/ r = n
  BY <1>0, <1>1, <1>2
<1>4. \A r : r \in Unreturned <=> r \in DOMAIN reqs /\ reqs[r].bypass_cache /\ InHand(r)
  BY UnreturnedIs
<1>5. \A r : r \in Unreturned' <=> r \in DOMAIN reqs' /\ reqs'[r].bypass_cache /\ InHand(r)'
  BY DEF Unreturned, InHand
<1>6. \A r \in DOMAIN reqs : InHand(r)' <=> InHand(r)
  BY <1>1, <1>2 DEF InHand
<1>7. InHand(n)'
  BY <1>1 DEF InHand
<1>8. n \notin Unreturned /\ Unreturned' = Unreturned \cup {n}
  BY <1>1, <1>2, <1>3, <1>4, <1>5, <1>6, <1>7
<1>9. Cardinality(Unreturned') = Cardinality(Unreturned) + 1 /\ Cardinality(Unreturned) \in Nat
  BY <1>8, UnreturnedIs, FS_AddElement
<1> QED
  BY <1>1, <1>9 DEF ThumbInv, ThumbTypes, CallbacksCounted, TasksExact, NoCallbackOutlives

\* The rest of the UI thread's steps, the destructor's among them.
LEMMA ThumbUI_Counts ==
    ASSUME Inv, Inv', ThumbInv,
           CountTask \/ ViewStep \/ CloseView \/ RendererGone \/ CloseEngine \/ TFinished \/ UNCHANGED tvars
    PROVE  TasksExact' /\ NoCallbackOutlives'
<1>1. CASE ViewStep /\ \E k \in Kinds : Submit(k) /\ ~k.bypass_cache
  <2>1. PICK k \in Kinds : Submit(k) /\ ~k.bypass_cache
    BY <1>1
  <2> DEFINE n == Len(reqs) + 1
  <2>2. /\ reqs \in Seq(Kinds) /\ DOMAIN reqs = 1..Len(reqs) /\ Len(reqs) \in Nat
        /\ UNCHANGED <<renderer, pending_tasks>>
        /\ reqs' = Append(reqs, k) /\ q' = q \cup {n} /\ job' = job
    BY <1>1, <2>1, SubmittedIds DEF Inv, EngineTypeOK, ViewStep, Submit, worker_vars, thumb_vars
  <2>3. /\ DOMAIN reqs' = 1..n /\ \A i \in 1..Len(reqs) : reqs'[i] = reqs[i]
        /\ reqs'[n] = k /\ n \notin DOMAIN reqs
    BY <2>2, AppendIs
  <2>4. \A r : r \in DOMAIN reqs' <=> r \in DOMAIN reqs \/ r = n
    BY <2>2, <2>3
  <2> HIDE DEF n
  <2>5. \A r : r \in Unreturned <=> r \in DOMAIN reqs /\ reqs[r].bypass_cache /\ InHand(r)
    BY UnreturnedIs
  <2>6. \A r : r \in Unreturned' <=> r \in DOMAIN reqs' /\ reqs'[r].bypass_cache /\ InHand(r)'
    BY DEF Unreturned, InHand
  <2>7. \A r \in DOMAIN reqs : InHand(r)' <=> InHand(r)
    BY <2>2, <2>3 DEF InHand
  <2>8. Unreturned' = Unreturned
    BY <2>1, <2>2, <2>3, <2>4, <2>5, <2>6, <2>7
  <2> QED
    BY <2>2, <2>8 DEF ThumbInv, CallbacksCounted, TasksExact, NoCallbackOutlives
<1>2. PICK w \in Workers : TRUE
  BY EngineConstants DEF EngineConstants
<1>3. CASE ViewStep /\ ~\E k \in Kinds : Submit(k) /\ ~k.bypass_cache
  <2>1. reqs' = reqs /\ UNCHANGED <<pending_tasks, renderer, q, job>>
    BY <1>3 DEF ViewStep, Background, Cancel, ConsumerDrops, cancel_all_below_priority, ForgetText, Foreground,
       SubmitReturns, worker_vars, queue_vars, thumb_vars
  <2> QED
    BY <1>2, <2>1, HandsMove, HandsKept DEF ThumbInv, CallbacksCounted
<1>4. CASE CloseEngine \/ TFinished \/ UNCHANGED tvars
  <2>1. reqs' = reqs /\ UNCHANGED <<pending_tasks, renderer, q, job>>
    BY <1>4 DEF CloseEngine, TFinished, Finished, BeginShutdown, ShutdownNotifies, Destroy, ConsumerDrops,
       worker_vars, queue_vars, thumb_vars, vars, tvars
  <2> QED
    BY <1>2, <2>1, HandsMove, HandsKept DEF ThumbInv, CallbacksCounted
<1>5. ASSUME UNCHANGED <<reqs, q, job>>, CountTask \/ CloseView \/ RendererGone
      PROVE  TasksExact' /\ NoCallbackOutlives'
  <2>1. Unreturned' = Unreturned
    BY <1>5 DEF Unreturned
  <2>2. Cardinality(Unreturned) \in Nat /\ (Cardinality(Unreturned) = 0 <=> Unreturned = {})
    BY UnreturnedIs, FS_EmptySet
  <2> QED
    BY <1>5, <2>1, <2>2 DEF CountTask, CloseView, RendererGone, Drained, ThumbInv, ThumbTypes, CallbacksCounted,
       TasksExact, NoCallbackOutlives
<1>6. CountTask \/ CloseView \/ RendererGone => UNCHANGED <<reqs, q, job>>
  BY DEF CountTask, CloseView, RendererGone, vars, queue_vars, worker_vars
<1> QED
  BY <1>1, <1>3, <1>4, <1>5, <1>6

\* What was flagged, or has failed, stays so.
LEMMA HistoryGrows ==
    ASSUME Inv, [TNext]_tvars
    PROVE  cut \subseteq cut' /\ failed \subseteq failed'
<1>1. CASE CloseView
  BY <1>1 DEF CloseView, Flag, history
<1>2. ASSUME NEW w \in Workers, WorkerStep(w) \/ SpuriousWakeup(w)
      PROVE  cut \subseteq cut' /\ failed \subseteq failed'
  BY <1>2 DEF WorkerStep, SpuriousWakeup, TakeRequest, CheckpointA, LookupL1, LateCancel, HitWanted,
     LookupL2, BuildList, StoreList, CheckpointB, Rasterise, StorePixmap, CheckpointC, OnComplete,
     CheckText, BuildText, DeliverText, queue_vars, history
<1>3. CASE UIStep \/ UNCHANGED vars
  BY <1>3 DEF UIStep, Submit, Background, SubmitReturns, Cancel, ConsumerDrops, Flag,
     cancel_all_below_priority, ForgetText, Foreground, BeginShutdown, ShutdownNotifies, Destroy,
     history, queue_vars, vars
<1> QED
  BY <1>1, <1>2, <1>3, ThumbSteps DEF Next, Finished

\* (#117) What the pane is told of a request is what became of it.
LEMMA Reports ==
    ASSUME Inv, Inv', ThumbInv, [TNext]_tvars
    PROVE  CancelledMeansQueued' /\ reported' \in [Ids -> {"none", "bitmap", "cancelled", "failed"}]
<1>1. cut \subseteq cut' /\ failed \subseteq failed' /\ cut' \cap begun' = {}
  BY HistoryGrows DEF Inv, CutNeverBegins
<1>2. ASSUME NEW r \in Ids
      PROVE  /\ reported[r] = "cancelled" => r \in cut' \ begun'
             /\ reported[r] = "failed" => r \in failed'
  BY <1>1 DEF ThumbInv, CallbacksCounted, CancelledMeansQueued
<1>3. CASE reported' = reported
  BY <1>2, <1>3 DEF CancelledMeansQueued, ThumbInv, ThumbTypes
<1>4. ASSUME NEW w \in Workers, Callback(w), IsThumb(w)
      PROVE  CancelledMeansQueued' /\ reported' \in [Ids -> {"none", "bitmap", "cancelled", "failed"}]
  <2>1. /\ pc[w] = "deliver" /\ reported' = [reported EXCEPT ![job[w]] = Report(w)]
        /\ reqs[job[w]].bypass_cache
    BY <1>4 DEF Callback, OnComplete, IsThumb, Req
  <2>2. job[w] \in Ids
    BY <2>1, HasJob DEF Idle
  <2>3. Report(w) \in {"bitmap", "cancelled", "failed"}
    BY DEF Report
  <2>4. Report(w) = "cancelled" => job[w] \in cut
    BY <2>1 DEF Report, ThumbInv, ThumbsPlain
  <2>5. Report(w) = "failed" => job[w] \in failed
    BY <2>1 DEF Report, Inv, ObjectInv
  <2> QED
    BY <1>1, <1>2, <2>1, <2>2, <2>3, <2>4, <2>5 DEF CancelledMeansQueued, ThumbInv, ThumbTypes
<1>5. \/ reported' = reported
      \/ \E w \in Workers : Callback(w) /\ IsThumb(w)
  BY DEF TNext, TWorkerStep, Callback, CallbackReturns, CountTask, SubmitThumb, ViewStep, CloseView, RendererGone,
     CloseEngine, TFinished, thumb_vars, tvars
<1> QED
  BY <1>3, <1>4, <1>5

LEMMA InitThumbs == TInit => Inv /\ ThumbInv
<1> SUFFICES ASSUME TInit PROVE Inv /\ ThumbInv
  OBVIOUS
<1>1. Inv
  BY InitInv DEF TInit
<1>2. /\ reqs = <<>> /\ canceled = {} /\ \A w \in Workers : pc[w] = "awake"
      /\ pending_tasks = 0 /\ renderer = "idle" /\ reported = [r \in Ids |-> "none"]
  BY DEF TInit, Init
<1>3. Unreturned = {}
  BY <1>2 DEF Unreturned
<1>4. CallbacksCounted
  BY <1>2, <1>3, FS_EmptySet DEF CallbacksCounted, TasksExact, NoCallbackOutlives, CancelledMeansQueued
<1> QED
  BY <1>1, <1>2, <1>4 DEF ThumbInv, ThumbTypes, ThumbsPlain, CachePlaces

\* A step submits one request, or none.
LEMMA SubmitsOne ==
    ASSUME Inv, NEW k \in Kinds, Submit(k)
    PROVE  reqs' # reqs /\ \A n \in Kinds : Submit(n) => n = k
<1>1. reqs' = Append(reqs, k) /\ reqs \in Seq(Kinds)
  BY DEF Submit, Inv, EngineTypeOK
<1>2. Len(Append(reqs, k)) = Len(reqs) + 1 /\ Len(reqs) \in Nat
  BY <1>1
<1>3. ASSUME NEW n \in Kinds, Submit(n)
      PROVE  n = k
  <2>1. reqs' = Append(reqs, n)
    BY <1>3 DEF Submit
  <2>2. Append(reqs, k)[Len(reqs) + 1] = k /\ Append(reqs, n)[Len(reqs) + 1] = n
    BY <1>1, AppendProperties
  <2> QED
    BY <1>1, <2>1, <2>2
<1> QED
  BY <1>1, <1>2, <1>3

LEMMA NextThumbs == Inv /\ ThumbInv /\ [TNext]_tvars => Inv' /\ ThumbInv'
<1> SUFFICES ASSUME Inv, ThumbInv, [TNext]_tvars PROVE Inv' /\ ThumbInv'
  OBVIOUS
<1>1. Inv'
  BY ThumbsKeepInv
<1>2. TasksExact' /\ NoCallbackOutlives'
  BY <1>1, ThumbWorker_Counts, CallbackReturns_Counts, SubmitThumb_Counts, ThumbUI_Counts DEF TNext
<1>3. CancelledMeansQueued' /\ reported' \in [Ids -> {"none", "bitmap", "cancelled", "failed"}]
  BY <1>1, Reports
<1>4. ThumbsPlain'
  <2>1. ASSUME NEW w \in Workers, TWorkerStep(w) \/ SpuriousWakeup(w)
        PROVE  ThumbsPlain'
    <3>1. WorkerStep(w) \/ SpuriousWakeup(w)
      BY <2>1 DEF TWorkerStep, WorkerStep, Callback, CallbackReturns
    <3> QED
      BY <1>1, <3>1, ThumbWorker_Plain DEF ThumbInv
  <2>2. ASSUME NEW k \in Kinds, SubmitThumb(k)
        PROVE  ThumbsPlain'
    <3>1. Submit(k) /\ k.bypass_cache /\ ~k.text
      BY <2>2 DEF SubmitThumb
    <3>2. \A n \in Kinds : Submit(n) => (n.bypass_cache => ~n.text)
      BY <3>1, SubmitsOne
    <3> QED
      BY <3>1, <3>2, ThumbUI_Plain DEF ThumbInv, UIStep
  <2>3. ASSUME ViewStep, NEW k \in Kinds, Submit(k), ~k.bypass_cache
        PROVE  ThumbsPlain'
    <3>1. \A n \in Kinds : Submit(n) => (n.bypass_cache => ~n.text)
      BY <2>3, SubmitsOne
    <3> QED
      BY <2>3, <3>1, ThumbUI_Plain DEF ThumbInv, UIStep
  <2>4. CASE /\ \/ UIStep \/ CloseView \/ UNCHANGED vars
             /\ reqs' = reqs
    <3>1. \A n \in Kinds : ~Submit(n)
      BY <2>4, SubmitsOne
    <3> QED
      BY <2>4, <3>1, ThumbUI_Plain DEF ThumbInv
  <2>5. CASE CountTask \/ CloseView \/ RendererGone \/ CloseEngine \/ TFinished \/ UNCHANGED tvars
    <3>1. (UIStep \/ CloseView \/ UNCHANGED vars) /\ reqs' = reqs
      BY <2>5 DEF CountTask, CloseView, RendererGone, CloseEngine, TFinished, Finished, tvars, vars, UIStep,
         BeginShutdown, ShutdownNotifies, Destroy, ConsumerDrops, queue_vars
    <3> QED
      BY <2>4, <3>1
  <2>6. CASE ViewStep /\ ~\E k \in Kinds : Submit(k) /\ ~k.bypass_cache
    <3>1. UIStep /\ reqs' = reqs
      BY <2>6 DEF ViewStep, UIStep, Background, Cancel, ConsumerDrops, cancel_all_below_priority, ForgetText,
         Foreground, SubmitReturns, queue_vars
    <3> QED
      BY <2>4, <3>1
  <2> QED
    BY <2>1, <2>2, <2>3, <2>5, <2>6 DEF TNext
<1>5. pending_tasks' \in Int /\ renderer' \in {"idle", "submitting", "draining", "gone"}
  BY DEF ThumbInv, ThumbTypes, TNext, TWorkerStep, Callback, CallbackReturns, TasksLeft, CountTask, SubmitThumb, ViewStep,
     CloseView, RendererGone, CloseEngine, TFinished, thumb_vars, tvars
<1> QED
  BY <1>1, <1>2, <1>3, <1>4, <1>5 DEF ThumbInv, ThumbTypes, CallbacksCounted

\* For any number of workers and requests: the renderer's count is exactly the
\* callbacks that have not returned, so its destructor waits for all of them
\* and no more, and the pane is told of each request what became of it.
THEOREM CallbacksAlwaysCounted == TSafeSpec => []CallbacksCounted
<1>1. Inv /\ ThumbInv => CallbacksCounted
  BY DEF ThumbInv
<1> QED
  BY InitThumbs, NextThumbs, <1>1, PTL DEF TSafeSpec
=============================================================================
