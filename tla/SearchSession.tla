---------------------------- MODULE SearchSession ----------------------------
(***************************************************************************)
(* A tab's search of src/src/core/SearchSession.cpp: the UI thread that    *)
(* sets queries, walks the hits and destroys the session, and the tasks    *)
(* that scan a page each on the dispatcher's workers.                      *)
(*                                                                         *)
(* The dispatcher is SearchService, which SearchDispatcher implements: it  *)
(* runs one task of this session at a time, in the order of submission.    *)
(* A task is split at each acquisition of a mutex and each read of the     *)
(* epoch outside one, set_query and the destructor likewise.               *)
(***************************************************************************)
EXTENDS Integers, SequencesExt, FiniteSetsExt

CONSTANTS
    PageCount,     \* Document::page_count
    Queries,       \* the queries that can be asked, the empty one apart
    Found,         \* query -> page -> how often the query occurs there
    Fragile,       \* the pages whose reading may fail
    StartPages,    \* the pages that can be on screen when a query is set
    MaxEpoch       \* bound on the set_query calls

NoQuery == ""

ASSUME SessionConstants ==
    /\ PageCount \in Nat /\ MaxEpoch \in Nat
    /\ Found \in [Queries -> [0..PageCount - 1 -> Nat]]
    /\ Fragile \subseteq 0..PageCount - 1 /\ StartPages \subseteq 0..PageCount - 1
    /\ NoQuery \notin Queries

Pages  == 0..PageCount - 1
Epochs == 1..MaxEpoch
Tasks  == 1..MaxEpoch * PageCount
NoTask == 0

VARIABLES
    query, epoch, hits, cursor, origin_page, anchored, pages_remaining,
    pending_tasks,
    cookie,     \* the generation that gen.current_ belongs to, 0 before the first
    aborted,    \* the generations whose cookie is set
    task, fate, \* the dispatcher's
    plan,       \* what each submitted task captured: page, query, epoch
    at,         \* where the running task is
    found,      \* and what its scan returned
    ui,         \* where the UI thread is
    k,          \* set_query's loop counter
    discarded,  \* the count that discard returned
    landed,     \* history: the tasks whose results were taken
    broken,     \* history: the tasks whose page could not be read
    torn        \* history: the generations that lost a page to an exception

state_vars == <<query, hits, cursor, origin_page, anchored, pages_remaining>>
abort_vars == <<cookie, aborted>>
disp_vars  == <<task, fate, plan>>
task_vars  == <<at, found>>
ui_vars    == <<ui, k, discarded>>
history    == <<landed, broken, torn>>
vars == <<state_vars, epoch, pending_tasks, abort_vars, disp_vars, task_vars, ui_vars, history>>

me   == "session"
lane == 2
Disp == INSTANCE SearchService WITH Owners <- {me}, Lanes <- {lane}, open <- TRUE

Init ==
    /\ query = NoQuery /\ epoch = 0 /\ hits = <<>> /\ cursor = 0 /\ origin_page = 0
    /\ anchored = FALSE /\ pages_remaining = 0 /\ pending_tasks = 0
    /\ cookie = 0 /\ aborted = {}
    /\ Disp!Init /\ plan = <<>>
    /\ at = "none" /\ found = <<>>
    /\ ui = "idle" /\ k = 0 /\ discarded = 0
    /\ landed = {} /\ broken = {} /\ torn = {}

-----------------------------------------------------------------------------
(* A task, on a worker                                                     *)

Running == {t \in Tasks : fate[t] = "running"}
Hit(q, p, n) == [query |-> q, page |-> p, n |-> n]

\* All hits of a page, from the top.
AllHits(q, p) == [n \in 1..Found[q][p] |-> Hit(q, p, n)]

\* Fault: a task takes its generation for the current one whatever it reads.
StillCurrent_Always(t) == TRUE

StillCurrent(t) == plan[t].epoch = epoch

Start(t) ==
    /\ Disp!Start(t)
    /\ at' = "begun"
    /\ UNCHANGED <<state_vars, epoch, pending_tasks, abort_vars, plan, found, ui_vars, history>>

\* Epoch check #1, and #1b once the scan mutex is held.
CheckEpoch(t) ==
    /\ \/ at = "begun" /\ at' = IF StillCurrent(t) THEN "locked" ELSE "leaving"
       \/ at = "locked" /\ at' = IF StillCurrent(t) THEN "scanning" ELSE "leaving"
    /\ UNCHANGED <<state_vars, epoch, pending_tasks, abort_vars, disp_vars, found, ui_vars, history>>

\* page_hits_on: an abort may cut it short anywhere, a page that cannot be
\* read has no hits, and the hits may not find memory.
Scan(t) ==
    LET full == AllHits(plan[t].query, plan[t].page)
        some == IF plan[t].epoch \in aborted THEN 0..Len(full) ELSE {Len(full)}
    IN  /\ at = "scanning"
        /\ \/ /\ \E n \in some : found' = SubSeq(full, 1, n)
              /\ at' = "scanned"
              /\ UNCHANGED <<broken, torn>>
           \/ /\ plan[t].page \in Fragile
              /\ found' = <<>> /\ broken' = broken \cup {t}
              /\ at' = "scanned"
              /\ UNCHANGED torn
           \/ /\ torn' = torn \cup {plan[t].epoch}
              /\ at' = "leaving"
              /\ UNCHANGED <<found, broken>>
        /\ UNCHANGED <<state_vars, epoch, pending_tasks, abort_vars, disp_vars, ui_vars, landed>>

\* The index of the first hit after page p; of the first on p or after.
UpperBound(p) == Cardinality({i \in DOMAIN hits : hits[i].page <= p})
LowerBound(p) == Cardinality({i \in DOMAIN hits : hits[i].page < p})

\* Fault: hits inserted right at the cursor do not push it.
Shifted_Before(index, added) == IF anchored /\ index < cursor THEN cursor + added ELSE cursor

\* The cursor stays on its hit.
Shifted(index, added) == IF anchored /\ index <= cursor THEN cursor + added ELSE cursor

\* Fault: a page without hits is not counted.
Remaining_OfHits(added) == IF added = 0 THEN pages_remaining ELSE Max({pages_remaining - 1, 0})

Remaining(added) == Max({pages_remaining - 1, 0})

\* Under the state mutex: epoch check #2, and the page's hits as one block.
Land(t) ==
    LET index == UpperBound(plan[t].page) IN
    /\ at = "scanned"
    /\ \/ /\ ~StillCurrent(t)
          /\ at' = "leaving"
          /\ UNCHANGED <<hits, cursor, pages_remaining, landed>>
       \/ /\ StillCurrent(t)
          /\ hits' = SubSeq(hits, 1, index) \o found \o SubSeq(hits, index + 1, Len(hits))
          /\ cursor' = Shifted(index, Len(found))
          /\ pages_remaining' = Remaining(Len(found))
          /\ landed' = landed \cup {t}
          /\ at' = "notifying"
    /\ found' = <<>>
    /\ UNCHANGED <<query, origin_page, anchored, epoch, pending_tasks, abort_vars, disp_vars,
                   ui_vars, broken, torn>>

\* The observer posts to the UI thread and returns.
Notify ==
    /\ at = "notifying" /\ at' = "leaving"
    /\ UNCHANGED <<state_vars, epoch, pending_tasks, abort_vars, disp_vars, found, ui_vars, history>>

\* ~Guard, on every way out.
Leave ==
    /\ at = "leaving" /\ at' = "left"
    /\ pending_tasks' = pending_tasks - 1
    /\ UNCHANGED <<state_vars, epoch, abort_vars, disp_vars, found, ui_vars, history>>

Return(t) ==
    /\ at = "left" /\ at' = "none"
    /\ Disp!Finish(t)
    /\ UNCHANGED <<state_vars, epoch, pending_tasks, abort_vars, plan, found, ui_vars, history>>

-----------------------------------------------------------------------------
(* The UI thread: set_query                                                *)

\* The hits go and the epoch moves in one critical section.
Reset(q, start) ==
    /\ ui = "idle" /\ epoch < MaxEpoch
    /\ query' = q /\ hits' = <<>> /\ cursor' = 0
    /\ origin_page' = start /\ anchored' = FALSE /\ pages_remaining' = 0
    /\ epoch' = epoch + 1
    /\ ui' = "discard"
    /\ UNCHANGED <<pending_tasks, abort_vars, disp_vars, task_vars, k, discarded, history>>

Queued == {t \in Tasks : fate[t] = "queued"}

\* discard, in set_query and in the destructor.
Discard ==
    /\ \/ ui = "discard" /\ ui' = "uncount"
       \/ ui = "closing_discard" /\ ui' = "closing_uncount"
    /\ Disp!Discard(me)
    /\ discarded' = Cardinality(Queued)
    /\ UNCHANGED <<state_vars, epoch, pending_tasks, abort_vars, plan, task_vars, k, history>>

\* Fault: the discarded tasks stay counted.
Uncounted_None == pending_tasks

Uncounted == pending_tasks - discarded

Uncount ==
    /\ \/ ui = "uncount" /\ ui' = "abort"
       \/ ui = "closing_uncount" /\ ui' = "draining"
    /\ pending_tasks' = Uncounted
    /\ discarded' = 0
    /\ UNCHANGED <<state_vars, epoch, abort_vars, disp_vars, task_vars, k, history>>

\* begin_generation; the empty query, and a document without pages, end here.
BeginGeneration ==
    /\ ui = "abort"
    /\ aborted' = aborted \cup ({cookie} \ {0})
    /\ cookie' = epoch
    /\ ui' = IF query = NoQuery THEN "idle" ELSE "fill"
    /\ UNCHANGED <<state_vars, epoch, pending_tasks, disp_vars, task_vars, k, discarded, history>>

SetRemaining ==
    /\ ui = "fill"
    /\ pages_remaining' = PageCount
    /\ k' = 0
    /\ ui' = IF PageCount = 0 THEN "idle" ELSE "count"
    /\ UNCHANGED <<query, hits, cursor, origin_page, anchored, epoch, pending_tasks, abort_vars,
                   disp_vars, task_vars, discarded, history>>

\* A task is counted before the dispatcher can run it.
CountTask ==
    /\ ui = "count" /\ ui' = "submit"
    /\ pending_tasks' = pending_tasks + 1
    /\ UNCHANGED <<state_vars, epoch, abort_vars, disp_vars, task_vars, k, discarded, history>>

\* The start page first, then forward with wrap.
PageAt(n) == (origin_page + n) % PageCount

SubmitTask ==
    /\ ui = "submit"
    /\ Disp!Submit(me, lane)
    /\ plan' = Append(plan, [page |-> PageAt(k), query |-> query, epoch |-> epoch])
    /\ k' = k + 1
    /\ ui' = IF k + 1 < PageCount THEN "count" ELSE "idle"
    /\ UNCHANGED <<state_vars, epoch, pending_tasks, abort_vars, task_vars, discarded, history>>

\* submit throws: the rest of the generation is never submitted.
SubmitThrows ==
    /\ ui = "submit"
    /\ pending_tasks' = pending_tasks - 1
    /\ torn' = torn \cup {epoch}
    /\ ui' = "idle"
    /\ UNCHANGED <<state_vars, epoch, abort_vars, disp_vars, task_vars, k, discarded, landed, broken>>

-----------------------------------------------------------------------------
(* The UI thread: the cursor                                               *)

NoPage == -1

\* Where the first step goes: from the page on screen, or from the page the
\* scan began at.
FirstFrom(page) == LowerBound(IF page = NoPage THEN origin_page ELSE page)

MoveTo(i) ==
    /\ cursor' = i /\ anchored' = TRUE
    /\ UNCHANGED <<query, hits, origin_page, pages_remaining, epoch, pending_tasks, abort_vars,
                   disp_vars, task_vars, ui_vars, history>>

next(page) ==
    /\ ui = "idle" /\ hits # <<>>
    /\ MoveTo((IF anchored THEN cursor + 1 ELSE FirstFrom(page)) % Len(hits))

prev(page) ==
    /\ ui = "idle" /\ hits # <<>>
    /\ MoveTo(((IF anchored THEN cursor ELSE FirstFrom(page)) + Len(hits) - 1) % Len(hits))

\* Without hits it puts the cursor at 0, where it is then.
set_reference_page(page) ==
    /\ ui = "idle" /\ hits # <<>>
    /\ MoveTo(LowerBound(page) % Len(hits))

-----------------------------------------------------------------------------
(* The UI thread: the destructor                                           *)

Close ==
    /\ ui = "idle"
    /\ epoch' = epoch + 1
    /\ ui' = "closing"
    /\ UNCHANGED <<state_vars, pending_tasks, abort_vars, disp_vars, task_vars, k, discarded, history>>

AbortActive ==
    /\ ui = "closing" /\ ui' = "closing_discard"
    /\ aborted' = aborted \cup ({cookie} \ {0})
    /\ UNCHANGED <<state_vars, epoch, pending_tasks, cookie, disp_vars, task_vars, k, discarded, history>>

\* Fault: the destructor does not wait.
Drained_Always == TRUE

Drained == pending_tasks <= 0

\* The spin ends: the session's document, context and scan mutex go.
Destroy ==
    /\ ui = "draining" /\ Drained
    /\ ui' = "gone"
    /\ UNCHANGED <<state_vars, epoch, pending_tasks, abort_vars, disp_vars, task_vars, k, discarded, history>>

-----------------------------------------------------------------------------

TaskStep ==
    \/ \E t \in Tasks : Start(t)
    \/ \E t \in Running : CheckEpoch(t) \/ Scan(t) \/ Land(t) \/ Return(t)
    \/ Notify \/ Leave

\* What the UI thread does once it has called.
UIStep ==
    \/ Discard \/ Uncount \/ BeginGeneration \/ SetRemaining
    \/ CountTask \/ SubmitTask \/ SubmitThrows
    \/ AbortActive \/ Destroy

UICall ==
    \/ \E q \in Queries \cup {NoQuery}, start \in StartPages : Reset(q, start)
    \/ \E page \in Pages \cup {NoPage} : next(page) \/ prev(page)
    \/ \E page \in Pages : set_reference_page(page)
    \/ Close

\* The spin goes round; or the session is gone and the last task returned.
Spin == ui = "draining" /\ ~Drained /\ UNCHANGED vars
Done == ui = "gone" /\ Running = {} /\ UNCHANGED vars

Next == TaskStep \/ UIStep \/ UICall \/ Spin \/ Done

\* The dispatcher takes a queued task in the end (EveryTaskTaken), a scan
\* comes to its end and the UI thread finishes the call it is in.
Fairness == WF_vars(TaskStep) /\ WF_vars(UIStep)

Spec == Init /\ [][Next]_vars /\ Fairness

-----------------------------------------------------------------------------
(* Properties                                                              *)

\* The pages of the current generation whose scan was taken, and those of
\* them that could not be read.
PagesOf(S) == {plan[t].page : t \in {u \in S : plan[u].epoch = epoch}}

Block(p) == IF p \in PagesOf(landed) \ PagesOf(broken) THEN AllHits(query, p) ELSE <<>>

\* The hits are those of the current query and no other, whole pages in page
\* order, whichever order the pages came in and whatever was superseded or
\* cut short on the way; and a scan that says it is complete has every page.
HitsWhole ==
    ui \notin {"closing", "closing_discard", "closing_uncount", "draining", "gone"} =>
        /\ hits = FlattenSeq([i \in 1..PageCount |-> Block(i - 1)])
        /\ ui = "idle" /\ query # NoQuery =>
             pages_remaining = PageCount - Cardinality(PagesOf(landed))

\* The cursor is on a hit from the first step on, and the hits that come in
\* leave it on the hit it is on: "3 of 12" goes on meaning the hit on screen.
CursorKeepsHit ==
    [][ /\ anchored' => cursor' < Len(hits')
        /\ anchored /\ Len(hits') > Len(hits) => hits'[cursor' + 1] = hits[cursor + 1] ]_vars

Outstanding ==
    Cardinality(Queued) + (IF at \in {"none", "left"} THEN 0 ELSE 1)

\* pending_tasks is the tasks that will still count down, those discarded and
\* not yet taken back, and the one about to be submitted: so when the
\* destructor's spin ends no task is left that uses its document.
PendingExact ==
    /\ pending_tasks = Outstanding + discarded + (IF ui = "submit" THEN 1 ELSE 0)
    /\ ui = "gone" => Queued = {} /\ at \in {"none", "left"}

\* The spin ends.
DrainEnds == ui = "closing" ~> ui = "gone"

\* A scan that is not superseded, nor cut off by an exception, completes.
ScanCompletes ==
    \A e \in Epochs :
        ui = "fill" /\ epoch = e ~>
            epoch # e \/ e \in torn \/ (ui = "idle" /\ pages_remaining = 0)

\* A search ends, with its last page or with the session.
SearchEnds == ScanCompletes /\ DrainEnds
=============================================================================
