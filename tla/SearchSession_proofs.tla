------------------------ MODULE SearchSession_proofs ------------------------
(***************************************************************************)
(* A tab's search, for any document, queries and number of generations.    *)
(*                                                                         *)
(* The drain counter is exact: the destructor's spin ends when, and only   *)
(* when, no task is left that uses what the destructor frees.  That it     *)
(* stays exact when a generation is discarded needs to know that every     *)
(* queued task is this session's and is discarded at once; that a start    *)
(* takes exactly one, that the dispatcher runs one at a time.              *)
(*                                                                         *)
(* The hits are whole pages of the current query in page order.  A page's  *)
(* block is put in at the upper bound of its page; that this is where it   *)
(* belongs needs the list to be the concatenation of the blocks, a page    *)
(* to land once (a generation asks for no page twice) and a scan that      *)
(* lands not to have been cut short (only generations that are over are    *)
(* aborted).  And the cursor stays on its hit.                             *)
(***************************************************************************)
EXTENDS SearchSession, DataTheorems, FiniteSetTheorems, SequenceTheorems, TLAPS

Fates == {"absent", "queued", "running", "done", "discarded"}

\* The dispatcher's view: the tasks beyond the last submitted are absent, and
\* all are this session's.
Submitted ==
    /\ task \in Seq([owner : {me}, priority : {lane}])
    /\ DOMAIN task \subseteq Tasks
    /\ fate \in [Tasks -> Fates]
    /\ \A t \in Tasks : t > Len(task) => fate[t] = "absent"

\* at is where the one running task is.
OneRuns ==
    /\ at = "none" <=> Running = {}
    /\ \A t, u \in Running : t = u

\* discarded is the destructor's or set_query's, between two steps of theirs.
CountsFit ==
    /\ pending_tasks \in Int /\ discarded \in Nat
    /\ ui \notin {"uncount", "closing_uncount"} => discarded = 0
    /\ ui \in {"closing_uncount", "draining", "gone"} => Queued = {}

DrainInv == Submitted /\ OneRuns /\ CountsFit /\ PendingExact

LEMMA TaskRange == MaxEpoch * PageCount \in Int /\ \A t \in Tasks : t \in Int /\ t >= 1
<1>1. MaxEpoch * PageCount \in Int
  BY SessionConstants DEF SessionConstants
<1> QED
  BY <1>1 DEF Tasks

LEMMA QueuedFinite == IsFiniteSet(Queued) /\ Cardinality(Queued) \in Nat
<1>1. IsFiniteSet(Tasks)
  BY TaskRange, FS_Interval DEF Tasks
<1>2. Queued \subseteq Tasks
  BY DEF Queued
<1> QED
  BY <1>1, <1>2, FS_Subset, FS_CardinalityType

LEMMA OneOfMine ==
    ASSUME Submitted, NEW t \in Tasks, fate[t] # "absent"
    PROVE  t \in DOMAIN task /\ task[t].owner = me
<1>1. t \in Int /\ t >= 1
  BY TaskRange
<1>2. Len(task) \in Nat /\ DOMAIN task = 1..Len(task)
  BY DEF Submitted
<1>3. t <= Len(task)
  BY <1>1, <1>2 DEF Submitted
<1>4. t \in DOMAIN task
  BY <1>1, <1>2, <1>3
<1> DEFINE mine == [owner : {me}, priority : {lane}]
<1>5. task \in Seq(mine) /\ t \in 1..Len(task)
  BY <1>1, <1>2, <1>3 DEF Submitted
<1> HIDE DEF mine
<1>6. task[t] \in mine
  BY <1>5, ElementOfSeq
<1> QED
  BY <1>4, <1>6 DEF mine

\* A start takes one task out of the queue, when none runs.
LEMMA Started ==
    ASSUME DrainInv, NEW t \in Tasks, Start(t)
    PROVE  /\ Submitted' /\ Running = {} /\ Running' = {t}
           /\ Cardinality(Queued') = Cardinality(Queued) - 1
           /\ Queued' \subseteq Queued
<1>1. /\ fate[t] = "queued"
      /\ Disp!OwnedBy(task[t].owner, "running") = {}
      /\ fate' = [fate EXCEPT ![t] = "running"] /\ task' = task
  BY DEF Start, Disp!Start
<1>2. Running = {}
  <2> SUFFICES ASSUME NEW u \in Running PROVE FALSE
    OBVIOUS
  <2>1. u \in Tasks /\ fate[u] = "running"
    BY DEF Running
  <2>2. u \in DOMAIN task /\ task[u].owner = me /\ task[t].owner = me
    BY <1>1, <2>1, OneOfMine DEF DrainInv
  <2> QED
    BY <1>1, <2>1, <2>2 DEF Disp!OwnedBy
<1>3. Running' = {t} /\ Queued' = Queued \ {t} /\ t \in Queued
  BY <1>1, <1>2 DEF Running, Queued, DrainInv, Submitted
<1>4. Cardinality(Queued') = Cardinality(Queued) - 1
  BY <1>3, QueuedFinite, FS_RemoveElement
<1>5. Submitted'
  BY <1>1 DEF DrainInv, Submitted, Fates
<1> QED
  BY <1>2, <1>3, <1>4, <1>5

\* A submit adds one, whatever runs.
LEMMA Added ==
    ASSUME DrainInv, SubmitTask
    PROVE  /\ Submitted' /\ Running' = Running
           /\ Cardinality(Queued') = Cardinality(Queued) + 1
<1> DEFINE n == Len(task) + 1
<1>1. /\ n \in Tasks
      /\ task' = Append(task, [owner |-> me, priority |-> lane])
      /\ fate' = [fate EXCEPT ![n] = "queued"]
  BY DEF SubmitTask, Disp!Submit
<1>2. task \in Seq([owner : {me}, priority : {lane}]) /\ Len(task) \in Nat
  BY DEF DrainInv, Submitted
<1>3. fate[n] = "absent"
  BY <1>1, <1>2 DEF DrainInv, Submitted
<1>4. Queued' = Queued \cup {n} /\ n \notin Queued /\ Running' = Running
  BY <1>1, <1>3 DEF Queued, Running, DrainInv, Submitted
<1>5. Cardinality(Queued') = Cardinality(Queued) + 1
  BY <1>4, QueuedFinite, FS_AddElement
<1>6. Submitted'
  <2>1. task' \in Seq([owner : {me}, priority : {lane}]) /\ Len(task') = n
    BY <1>1, <1>2
  <2>4. DOMAIN task' = DOMAIN task \cup {n}
    BY <1>1, <1>2
  <2>2. fate' \in [Tasks -> Fates]
    BY <1>1 DEF DrainInv, Submitted, Fates
  <2>3. ASSUME NEW t \in Tasks, t > n PROVE fate'[t] = "absent"
    <3>1. t # n /\ t > Len(task)
      BY <1>2, <2>3, TaskRange
    <3> QED
      BY <1>1, <3>1 DEF DrainInv, Submitted
  <2> QED
    BY <1>1, <2>1, <2>2, <2>3, <2>4 DEF Submitted, DrainInv
<1> QED
  BY <1>4, <1>5, <1>6

\* A discard leaves nothing queued and what runs alone.
LEMMA Emptied ==
    ASSUME DrainInv, Discard
    PROVE  Submitted' /\ Running' = Running /\ Queued' = {}
<1>1. /\ task' = task
      /\ fate' = [t \in Tasks |-> IF t \in Disp!OwnedBy(me, "queued") THEN "discarded" ELSE fate[t]]
  BY DEF Discard, Disp!Discard
<1>2. Disp!OwnedBy(me, "queued") = Queued
  <2>1. ASSUME NEW t \in Queued PROVE t \in Disp!OwnedBy(me, "queued")
    <3>1. t \in Tasks /\ fate[t] = "queued"
      BY <2>1 DEF Queued
    <3> QED
      BY <3>1, OneOfMine DEF DrainInv, Disp!OwnedBy
  <2>2. ASSUME NEW t \in Disp!OwnedBy(me, "queued") PROVE t \in Queued
    <3>1. t \in DOMAIN task /\ fate[t] = "queued"
      BY <2>2 DEF Disp!OwnedBy
    <3>2. t \in Tasks
      BY <3>1 DEF DrainInv, Submitted
    <3> QED
      BY <3>1, <3>2 DEF Queued
  <2> QED
    BY <2>1, <2>2
<1>3. Submitted'
  BY <1>1, <1>2 DEF DrainInv, Submitted, Fates, Queued
<1> QED
  BY <1>1, <1>2, <1>3 DEF Queued, Running

\* What a step that leaves the dispatcher alone keeps.
LEMMA DispKept ==
    ASSUME UNCHANGED <<task, fate>>
    PROVE  /\ Submitted' <=> Submitted
           /\ Running' = Running /\ Queued' = Queued
           /\ Cardinality(Queued') = Cardinality(Queued)
BY DEF Submitted, Running, Queued

LEMMA DrainInit == Init => DrainInv
<1> SUFFICES ASSUME Init PROVE DrainInv
  OBVIOUS
<1>1. task = <<>> /\ fate = [t \in Tasks |-> "absent"]
  BY DEF Init, Disp!Init
<1>2. Running = {} /\ Queued = {}
  BY <1>1 DEF Running, Queued
<1>3. Cardinality({}) = 0
  BY FS_EmptySet
<1>4. Submitted
  BY <1>1 DEF Submitted, Fates
<1>5. at = "none" /\ ui = "idle" /\ pending_tasks = 0 /\ discarded = 0
  BY DEF Init
<1>6. OneRuns /\ CountsFit
  BY <1>2, <1>5 DEF OneRuns, CountsFit
<1>7. PendingExact
  BY <1>2, <1>3, <1>5 DEF PendingExact, Outstanding
<1> QED
  BY <1>4, <1>6, <1>7 DEF DrainInv

\* The running task's steps: it counts down once, when it leaves.
LEMMA TaskKeeps ==
    ASSUME DrainInv, TaskStep
    PROVE  DrainInv'
<1> USE QueuedFinite
<1>1. ASSUME NEW t \in Tasks, Start(t) PROVE DrainInv'
  <2>1. at = "none" /\ at' = "begun" /\ UNCHANGED <<ui, discarded, pending_tasks>>
    BY <1>1, Started DEF DrainInv, OneRuns, Start, ui_vars
  <2>2. ui \notin {"closing_uncount", "draining", "gone"}
    BY <1>1, Started DEF DrainInv, CountsFit, Start, Disp!Start, Queued
  <2> QED
    BY <1>1, <2>1, <2>2, Started DEF DrainInv, OneRuns, CountsFit, PendingExact, Outstanding
<1>2. ASSUME NEW t \in Running, CheckEpoch(t) \/ Scan(t) \/ Land(t) \/ Return(t) PROVE DrainInv'
  <2>1. CASE CheckEpoch(t) \/ Scan(t) \/ Land(t)
    <3>1. /\ UNCHANGED <<task, fate, ui, discarded, pending_tasks>>
          /\ at \notin {"none", "left"} /\ at' \notin {"none", "left"}
      BY <2>1 DEF CheckEpoch, Scan, Land, disp_vars, ui_vars
    <3> QED
      BY <3>1, DispKept DEF DrainInv, OneRuns, CountsFit, PendingExact, Outstanding
  <2>2. CASE Return(t)
    <3>1. /\ at = "left" /\ at' = "none" /\ UNCHANGED <<task, ui, discarded, pending_tasks>>
          /\ fate' = [fate EXCEPT ![t] = "done"]
      BY <2>2 DEF Return, Disp!Finish, ui_vars
    <3>2. Running' = {} /\ Queued' = Queued
      BY <1>2, <3>1 DEF DrainInv, OneRuns, Submitted, Running, Queued
    <3>3. Submitted'
      BY <1>2, <3>1 DEF DrainInv, Submitted, Fates, Running
    <3> QED
      BY <3>1, <3>2, <3>3 DEF DrainInv, OneRuns, CountsFit, PendingExact, Outstanding
  <2> QED
    BY <1>2, <2>1, <2>2
<1>3. CASE Notify \/ Leave
  <2>1. /\ UNCHANGED <<task, fate, ui, discarded>>
        /\ \/ at = "notifying" /\ at' = "leaving" /\ pending_tasks' = pending_tasks
           \/ at = "leaving" /\ at' = "left" /\ pending_tasks' = pending_tasks - 1
    BY <1>3 DEF Notify, Leave, disp_vars, ui_vars
  <2> QED
    BY <2>1, DispKept DEF DrainInv, OneRuns, CountsFit, PendingExact, Outstanding
<1> QED
  BY <1>1, <1>2, <1>3 DEF TaskStep

\* The steps of set_query and of the destructor.
LEMMA UIKeeps ==
    ASSUME DrainInv, UIStep
    PROVE  DrainInv'
<1> USE QueuedFinite
<1>1. CASE Discard
  <2>1. /\ UNCHANGED <<at, pending_tasks>> /\ discarded' = Cardinality(Queued)
        /\ \/ ui = "discard" /\ ui' = "uncount"
           \/ ui = "closing_discard" /\ ui' = "closing_uncount"
    BY <1>1 DEF Discard, task_vars
  <2>2. Cardinality({}) = 0
    BY FS_EmptySet
  <2> QED
    BY <1>1, <2>1, <2>2, Emptied DEF DrainInv, OneRuns, CountsFit, PendingExact, Outstanding
<1>2. CASE Uncount
  <2>1. /\ UNCHANGED <<task, fate, at>> /\ discarded' = 0
        /\ pending_tasks' = pending_tasks - discarded
        /\ \/ ui = "uncount" /\ ui' = "abort"
           \/ ui = "closing_uncount" /\ ui' = "draining"
    BY <1>2 DEF Uncount, Uncounted, disp_vars, task_vars
  <2> QED
    BY <2>1, DispKept DEF DrainInv, OneRuns, CountsFit, PendingExact, Outstanding
<1>3. CASE BeginGeneration \/ SetRemaining \/ AbortActive
  <2>1. /\ UNCHANGED <<task, fate, at, pending_tasks, discarded>>
        /\ ui \in {"abort", "fill", "closing"}
        /\ ui' \in {"idle", "fill", "count", "closing_discard"}
    BY <1>3 DEF BeginGeneration, SetRemaining, AbortActive, disp_vars, task_vars
  <2> QED
    BY <2>1, DispKept DEF DrainInv, OneRuns, CountsFit, PendingExact, Outstanding
<1>4. CASE CountTask \/ SubmitThrows
  <2>1. /\ UNCHANGED <<task, fate, at, discarded>>
        /\ \/ ui = "count" /\ ui' = "submit" /\ pending_tasks' = pending_tasks + 1
           \/ ui = "submit" /\ ui' = "idle" /\ pending_tasks' = pending_tasks - 1
    BY <1>4 DEF CountTask, SubmitThrows, disp_vars, task_vars
  <2> QED
    BY <2>1, DispKept DEF DrainInv, OneRuns, CountsFit, PendingExact, Outstanding
<1>5. CASE SubmitTask
  <2>1. /\ UNCHANGED <<at, pending_tasks, discarded>>
        /\ ui = "submit" /\ ui' \in {"count", "idle"}
    BY <1>5 DEF SubmitTask, task_vars
  <2> QED
    BY <1>5, <2>1, Added DEF DrainInv, OneRuns, CountsFit, PendingExact, Outstanding
<1>6. CASE Destroy
  <2>1. /\ UNCHANGED <<task, fate, at, pending_tasks, discarded>>
        /\ ui = "draining" /\ ui' = "gone" /\ pending_tasks <= 0
    BY <1>6 DEF Destroy, Drained, disp_vars, task_vars
  <2>2. at \in {"none", "left"}
    BY <2>1 DEF DrainInv, CountsFit, PendingExact, Outstanding
  <2> QED
    BY <2>1, <2>2, DispKept DEF DrainInv, OneRuns, CountsFit, PendingExact, Outstanding
<1> QED
  BY <1>1, <1>2, <1>3, <1>4, <1>5, <1>6 DEF UIStep

LEMMA CallKeeps ==
    ASSUME DrainInv, UICall
    PROVE  DrainInv'
<1>1. /\ UNCHANGED <<task, fate, at, pending_tasks, discarded>>
      /\ ui = "idle" /\ ui' \in {"idle", "discard", "closing"}
  BY DEF UICall, Reset, next, prev, set_reference_page, MoveTo, Close, disp_vars, task_vars, ui_vars
<1> QED
  BY <1>1, DispKept, QueuedFinite DEF DrainInv, OneRuns, CountsFit, PendingExact, Outstanding

LEMMA DrainNext == DrainInv /\ [Next]_vars => DrainInv'
<1> SUFFICES ASSUME DrainInv, [Next]_vars PROVE DrainInv'
  OBVIOUS
<1>1. CASE UNCHANGED vars
  <2>1. UNCHANGED <<task, fate, at, ui, pending_tasks, discarded>>
    BY <1>1 DEF vars, disp_vars, task_vars, ui_vars
  <2> QED
    BY <2>1, DispKept DEF DrainInv, OneRuns, CountsFit, PendingExact, Outstanding
<1> QED
  BY <1>1, TaskKeeps, UIKeeps, CallKeeps DEF Next, Spin, Done

\* The drain counter is exact in every state, and once the destructor is
\* through no task of the session is queued or running.
THEOREM DrainIsExact == Spec => []PendingExact
<1>1. DrainInv => PendingExact
  BY DEF DrainInv
<1> QED
  BY DrainInit, DrainNext, <1>1, PTL DEF Spec

-----------------------------------------------------------------------------
(* The hits.                                                               *)

Closing == {"closing", "closing_discard", "closing_uncount", "draining", "gone"}

PlanRecord == [page : Pages, query : Queries, epoch : Nat]

\* The tasks of the current generation.
Mine == {t \in 1..Len(plan) : plan[t].epoch = epoch}

PlansFit ==
    /\ epoch \in Nat /\ k \in Nat /\ origin_page \in Int
    /\ query \in Queries \cup {NoQuery}
    /\ plan \in Seq(PlanRecord) /\ Len(plan) = Len(task)
    /\ \A t \in 1..Len(plan) : plan[t].epoch <= epoch

\* The current generation asks for the current query, no page twice, and has
\* no task before set_query comes to submit.
GenerationFits ==
    /\ \A t \in Mine : plan[t].query = query
    /\ \A t, u \in Mine : plan[t].page = plan[u].page => t = u
    /\ ui \in {"discard", "uncount", "abort", "fill"} \cup Closing => Mine = {}
    /\ query = NoQuery => Mine = {}
    /\ ui \in {"fill", "count", "submit"} => query \in Queries
    /\ ui \in {"count", "submit"} =>
         /\ k < PageCount
         /\ \A t \in Mine : \E j \in 0..k - 1 : plan[t].page = PageAt(j)

\* A task lands, or finds its page broken, in its one run.
ScansOnce ==
    /\ landed \subseteq 1..Len(plan) /\ broken \subseteq 1..Len(plan)
    /\ \A t \in landed :
         fate[t] = "done" \/ (fate[t] = "running" /\ at \in {"notifying", "leaving", "left"})
    /\ \A t \in broken :
         fate[t] = "done" \/ (fate[t] = "running" /\ at \in {"scanned", "notifying", "leaving", "left"})

\* Only generations that are over are aborted.
AbortsPast ==
    /\ cookie \in Nat /\ cookie <= epoch
    /\ ui \in {"discard", "uncount", "abort"} \cup Closing => cookie < epoch
    /\ aborted \subseteq 0..epoch - 1

\* So a scan of the current generation found all there is.
FoundWhole ==
    at = "scanned" => \A t \in Running : t \in Mine =>
        found = IF t \in broken THEN <<>> ELSE AllHits(plan[t].query, plan[t].page)

Taken  == PagesOf(landed) \ PagesOf(broken)
Blocks == [i \in 1..PageCount |-> Block(i - 1)]

HitsFit == ui \notin Closing => hits = FlattenSeq(Blocks)

LeftFit ==
    ui \in {"idle", "count", "submit"} /\ query # NoQuery =>
        pages_remaining = PageCount - Cardinality(PagesOf(landed))

LEMMA PlanEntry ==
    ASSUME PlansFit, NEW t \in 1..Len(plan)
    PROVE  plan[t].page \in Pages /\ plan[t].query \in Queries /\ plan[t].epoch \in Nat
<1>1. plan[t] \in PlanRecord
  BY ElementOfSeq DEF PlansFit
<1> QED
  BY <1>1 DEF PlanRecord

\* What a task that was submitted is, the plan knows.
LEMMA TaskPlanned ==
    ASSUME Submitted, PlansFit, NEW t \in Tasks, fate[t] # "absent"
    PROVE  t \in 1..Len(plan)
<1>1. t \in DOMAIN task
  BY OneOfMine
<1> QED
  BY <1>1 DEF PlansFit, Submitted

LEMMA Division ==
    ASSUME NEW n \in Nat, n > 0, NEW x \in Int
    PROVE  \E q \in Int : x = n * q + (x % n)
<1>1. x \div n \in Int /\ x = n * (x \div n) + (x % n)
  OBVIOUS
<1> QED
  BY <1>1

\* Two pages of one round are different.
LEMMA PageAtOnce ==
    ASSUME PlansFit, NEW i \in Nat, NEW j \in Nat, i < j, j < PageCount
    PROVE  PageAt(i) # PageAt(j) /\ PageAt(j) \in Pages
<1> DEFINE x == origin_page + i
           y == origin_page + j
<1>1. PageCount \in Nat /\ PageCount > 0 /\ x \in Int /\ y \in Int /\ y - x = j - i
  BY SessionConstants DEF SessionConstants, PlansFit
<1>2. PICK a \in Int : x = PageCount * a + (x % PageCount)
  BY <1>1, Division
<1>3. PICK b \in Int : y = PageCount * b + (y % PageCount)
  BY <1>1, Division
<1>4. y % PageCount \in 0..PageCount - 1
  BY <1>1
<1>5. ASSUME x % PageCount = y % PageCount PROVE FALSE
  <2>1. PageCount * b - PageCount * a = j - i
    BY <1>1, <1>2, <1>3, <1>5
  <2>2. PageCount * (b - a) = PageCount * b - PageCount * a
    BY <1>1
  <2>3. PICK d \in Int : d = b - a
    OBVIOUS
  <2>4. PageCount * d = j - i /\ 0 < j - i /\ j - i < PageCount
    BY <1>1, <2>1, <2>2, <2>3
  <2>5. CASE d <= 0
    <3>1. PageCount * d <= 0
      BY <1>1, <2>5
    <3> QED
      BY <2>4, <3>1
  <2>6. CASE d >= 1
    <3>1. PageCount * d >= PageCount
      BY <1>1, <2>6
    <3> QED
      BY <1>1, <2>4, <3>1
  <2> QED
    BY <2>3, <2>5, <2>6
<1> QED
  BY <1>4, <1>5 DEF PageAt, Pages

\* What set_query and the destructor alone write.
PlanKept == UNCHANGED <<plan, task, epoch, query, origin_page, k>>

LEMMA PlanWriters ==
    ASSUME [Next]_vars, ~PlanKept
    PROVE  \/ \E q \in Queries \cup {NoQuery}, start \in StartPages : Reset(q, start)
           \/ Close \/ SetRemaining \/ SubmitTask
<1> USE DEF PlanKept, state_vars, disp_vars, ui_vars
<1>1. CASE UNCHANGED vars
  BY <1>1 DEF vars
<1>2. CASE TaskStep
  BY <1>2 DEF TaskStep, Start, CheckEpoch, Scan, Land, Return, Notify, Leave, Disp!Start, Disp!Finish
<1>3. CASE UIStep
  BY <1>3 DEF UIStep, Discard, Uncount, BeginGeneration, CountTask, SubmitThrows, AbortActive,
     Destroy, Disp!Discard
<1>4. CASE UICall
  BY <1>4 DEF UICall, next, prev, set_reference_page, MoveTo
<1>5. CASE Spin \/ Done
  BY <1>5 DEF Spin, Done, vars
<1> QED
  BY <1>1, <1>2, <1>3, <1>4, <1>5 DEF Next

LEMMA Planned ==
    ASSUME PlansFit, Submitted, SubmitTask, GenerationFits
    PROVE  /\ plan' \in Seq(PlanRecord) /\ Len(plan') = Len(plan) + 1 /\ Len(plan') = Len(task')
           /\ \A t \in 1..Len(plan) : plan'[t] = plan[t]
           /\ plan'[Len(plan) + 1] = [page |-> PageAt(k), query |-> query, epoch |-> epoch]
           /\ UNCHANGED <<epoch, query, origin_page>>
           /\ ui = "submit" /\ k' = k + 1
           /\ ui' = IF k + 1 < PageCount THEN "count" ELSE "idle"
<1> DEFINE new == [page |-> PageAt(k), query |-> query, epoch |-> epoch]
<1>1. /\ plan' = Append(plan, new) /\ ui = "submit" /\ k' = k + 1
      /\ task' = Append(task, [owner |-> me, priority |-> lane])
      /\ ui' = IF k + 1 < PageCount THEN "count" ELSE "idle"
      /\ UNCHANGED <<epoch, query, origin_page>>
  BY DEF SubmitTask, Disp!Submit, state_vars
<1>2. PageAt(k) \in Pages
  <2>1. k \in Nat /\ origin_page \in Int /\ k < PageCount /\ PageCount \in Nat
    BY <1>1, SessionConstants DEF SessionConstants, PlansFit, GenerationFits
  <2> QED
    BY <2>1 DEF PageAt, Pages
<1>3. new \in PlanRecord
  BY <1>1, <1>2 DEF PlanRecord, PlansFit, GenerationFits
<1>4. plan \in Seq(PlanRecord) /\ Len(plan) = Len(task) /\ task \in Seq([owner : {me}, priority : {lane}])
  BY DEF PlansFit, Submitted
<1> HIDE DEF new
<1>5. /\ plan' \in Seq(PlanRecord) /\ Len(plan') = Len(plan) + 1
      /\ \A t \in 1..Len(plan) : plan'[t] = plan[t]
      /\ plan'[Len(plan) + 1] = new
  BY ONLY <1>1, <1>3, <1>4, AppendProperties
<1>6. Len(task') = Len(task) + 1
  BY <1>1, <1>4
<1> QED
  BY <1>1, <1>4, <1>5, <1>6 DEF new

LEMMA PlansNext ==
    ASSUME PlansFit, Submitted, GenerationFits, [Next]_vars
    PROVE  PlansFit'
<1>1. CASE PlanKept
  BY <1>1 DEF PlanKept, PlansFit
<1>2. ASSUME NEW q \in Queries \cup {NoQuery}, NEW start \in StartPages, Reset(q, start)
      PROVE  PlansFit'
  <2>1. /\ UNCHANGED <<plan, task, k>> /\ query' = q /\ origin_page' = start /\ epoch' = epoch + 1
    BY <1>2 DEF Reset, disp_vars
  <2>2. start \in Int
    BY SessionConstants DEF SessionConstants
  <2>3. \A t \in 1..Len(plan) : plan[t].epoch <= epoch + 1
    BY PlanEntry DEF PlansFit
  <2> QED
    BY <2>1, <2>2, <2>3 DEF PlansFit
<1>3. CASE Close
  <2>1. UNCHANGED <<plan, task, k, query, origin_page>> /\ epoch' = epoch + 1
    BY <1>3 DEF Close, disp_vars, state_vars
  <2>3. \A t \in 1..Len(plan) : plan[t].epoch <= epoch + 1
    BY PlanEntry DEF PlansFit
  <2> QED
    BY <2>1, <2>3 DEF PlansFit
<1>4. CASE SetRemaining
  <2>1. UNCHANGED <<plan, task, epoch, query, origin_page>> /\ k' = 0
    BY <1>4 DEF SetRemaining, disp_vars
  <2> QED
    BY <2>1 DEF PlansFit
<1>5. CASE SubmitTask
  <2>1. \A t \in 1..Len(plan) + 1 : plan'[t].epoch <= epoch
    <3> SUFFICES ASSUME NEW t \in 1..Len(plan) + 1 PROVE plan'[t].epoch <= epoch
      OBVIOUS
    <3>1. CASE t \in 1..Len(plan)
      BY <1>5, <3>1, Planned DEF PlansFit
    <3>2. CASE t = Len(plan) + 1
      BY <1>5, <3>2, Planned DEF PlansFit
    <3>3. Len(plan) \in Nat
      BY DEF PlansFit
    <3> QED
      BY <3>1, <3>2, <3>3
  <2> QED
    BY <1>5, <2>1, Planned DEF PlansFit
<1> QED
  BY <1>1, <1>2, <1>3, <1>4, <1>5, PlanWriters

\* A generation that has just begun has no task.
LEMMA NoneYet ==
    ASSUME PlansFit, plan' = plan, epoch' = epoch + 1
    PROVE  Mine' = {}
<1> SUFFICES ASSUME NEW t \in 1..Len(plan) PROVE plan[t].epoch # epoch + 1
  BY DEF Mine
<1>1. plan[t].epoch <= epoch /\ plan[t].epoch \in Nat /\ epoch \in Nat
  BY PlanEntry DEF PlansFit
<1> QED
  BY <1>1

\* Where the UI thread can go while it leaves the plan alone.
LEMMA Moves ==
    ASSUME PlansFit, [Next]_vars, PlanKept
    PROVE  \/ ui' = ui
           \/ ui = "discard" /\ ui' = "uncount"
           \/ ui = "uncount" /\ ui' = "abort"
           \/ ui = "abort" /\ ui' = "idle"
           \/ ui = "abort" /\ ui' = "fill" /\ query # NoQuery
           \/ ui = "fill" /\ ui' = "idle"
           \/ ui = "fill" /\ ui' = "count" /\ PageCount # 0 /\ k' = 0
           \/ ui = "count" /\ ui' = "submit"
           \/ ui = "submit" /\ ui' = "idle"
           \/ ui \in Closing /\ ui' \in Closing
<1> USE DEF Closing, ui_vars
<1>1. CASE UNCHANGED vars
  BY <1>1 DEF vars
<1>2. CASE TaskStep
  BY <1>2 DEF TaskStep, Start, CheckEpoch, Scan, Land, Return, Notify, Leave
<1>3. CASE Discard \/ Uncount \/ BeginGeneration \/ CountTask \/ SubmitThrows \/ AbortActive \/ Destroy
  BY <1>3 DEF Discard, Uncount, BeginGeneration, CountTask, SubmitThrows, AbortActive, Destroy
<1>4. CASE SetRemaining
  BY <1>4 DEF SetRemaining
<1>5. CASE UICall
  <2>1. \/ \E q \in Queries \cup {NoQuery}, start \in StartPages : Reset(q, start)
        \/ Close \/ ui' = ui
    BY <1>5 DEF UICall, next, prev, set_reference_page, MoveTo
  <2> QED
    BY <2>1 DEF Reset, Close, PlanKept, PlansFit
<1>6. CASE Spin \/ Done
  BY <1>6 DEF Spin, Done, vars
<1>7. CASE SubmitTask
  <2>1. plan' = Append(plan, [page |-> PageAt(k), query |-> query, epoch |-> epoch])
    BY <1>7 DEF SubmitTask
  <2>2. plan' # plan
    BY <2>1 DEF PlansFit
  <2> QED
    BY <2>2 DEF PlanKept
<1> QED
  BY <1>1, <1>2, <1>3, <1>4, <1>5, <1>6, <1>7 DEF Next, UIStep

LEMMA GenerationNext ==
    ASSUME PlansFit, Submitted, GenerationFits, [Next]_vars
    PROVE  GenerationFits'
<1>0. NoQuery \notin Queries
  BY SessionConstants DEF SessionConstants
<1>1. CASE PlanKept
  <2>1. Mine' = Mine /\ UNCHANGED <<plan, query, k>> /\ \A j : PageAt(j)' = PageAt(j)
    BY <1>1 DEF PlanKept, Mine, PageAt
  <2>2. ui' \in {"discard", "uncount", "abort", "fill"} \cup Closing =>
          ui \in {"discard", "uncount", "abort", "fill"} \cup Closing
    BY <1>1, Moves DEF Closing
  <2>3. ui' = "fill" => query \in Queries
    BY <1>1, Moves DEF Closing, GenerationFits, PlansFit
  <2>4. ui' \in {"count", "submit"} =>
          \/ ui \in {"count", "submit"}
          \/ ui = "fill" /\ k' = 0 /\ PageCount # 0
    BY <1>1, Moves DEF Closing
  <2>5. PageCount \in Nat
    BY SessionConstants DEF SessionConstants
  <2> QED
    BY <2>1, <2>2, <2>3, <2>4, <2>5 DEF GenerationFits
<1>2. ASSUME NEW q \in Queries \cup {NoQuery}, NEW start \in StartPages, Reset(q, start)
      PROVE  GenerationFits'
  <2>1. Mine' = {} /\ ui' = "discard"
    BY <1>2, NoneYet DEF Reset, disp_vars
  <2> QED
    BY <2>1 DEF GenerationFits
<1>3. CASE Close
  <2>1. Mine' = {} /\ ui' = "closing"
    BY <1>3, NoneYet DEF Close, disp_vars
  <2> QED
    BY <2>1 DEF GenerationFits
<1>4. CASE SetRemaining
  <2>1. /\ UNCHANGED <<plan, epoch, query>> /\ k' = 0 /\ ui = "fill"
        /\ ui' = IF PageCount = 0 THEN "idle" ELSE "count"
    BY <1>4 DEF SetRemaining, disp_vars
  <2>2. Mine = {} /\ Mine' = {}
    BY <2>1 DEF Mine, GenerationFits
  <2>3. PageCount \in Nat
    BY SessionConstants DEF SessionConstants
  <2> QED
    BY <2>1, <2>2, <2>3 DEF GenerationFits, Closing
<1>5. CASE SubmitTask
  <2> DEFINE n == Len(plan) + 1
  <2>1. /\ \A t \in 1..Len(plan) : plan'[t] = plan[t]
        /\ plan'[n].page = PageAt(k) /\ plan'[n].query = query /\ plan'[n].epoch = epoch
        /\ Len(plan') = n /\ UNCHANGED <<epoch, query>>
        /\ ui = "submit" /\ k' = k + 1 /\ \A j : PageAt(j)' = PageAt(j)
        /\ ui' = IF k + 1 < PageCount THEN "count" ELSE "idle"
    BY <1>5, Planned DEF PageAt
  <2>2. n \in Int /\ n - 1 = Len(plan) /\ Len(plan) \in Nat
    BY DEF PlansFit
  <2> HIDE DEF n
  <2>3. Mine' = Mine \cup {n}
    BY <2>1, <2>2 DEF Mine
  <2>4. /\ k \in Nat /\ k < PageCount /\ query \in Queries
        /\ \A t \in Mine : \E j \in 0..k - 1 : plan[t].page = PageAt(j)
    BY <2>1 DEF GenerationFits, PlansFit
  <2>5. ASSUME NEW t \in Mine PROVE plan[t].page # PageAt(k)
    <3>1. PICK j \in 0..k - 1 : plan[t].page = PageAt(j)
      BY <2>4
    <3>2. j \in Nat /\ j < k
      BY <2>4
    <3> QED
      BY <2>4, <3>1, <3>2, PageAtOnce
  <2>6. \A t \in Mine : t # n /\ plan'[t] = plan[t]
    BY <2>1, <2>2 DEF Mine
  <2>7. \A t, u \in Mine' : plan'[t].page = plan'[u].page => t = u
    BY <2>1, <2>3, <2>5, <2>6 DEF GenerationFits
  <2>8. \A t \in Mine' : plan'[t].query = query
    BY <2>1, <2>3, <2>6 DEF GenerationFits
  <2>9. \A t \in Mine' : \E j \in 0..(k + 1) - 1 : plan'[t].page = PageAt(j)
    BY <2>1, <2>3, <2>4, <2>6
  <2> QED
    BY <1>0, <2>1, <2>4, <2>7, <2>8, <2>9 DEF GenerationFits, Closing
<1> QED
  BY <1>1, <1>2, <1>3, <1>4, <1>5, PlanWriters

LEMMA AbortsNext ==
    ASSUME PlansFit, AbortsPast, [Next]_vars
    PROVE  AbortsPast'
<1>0. epoch \in Nat
  BY DEF PlansFit
<1>1. CASE BeginGeneration
  <2>1. /\ aborted' \subseteq aborted \cup {cookie} /\ cookie' = epoch /\ epoch' = epoch
        /\ ui = "abort" /\ ui' \in {"idle", "fill"}
    BY <1>1 DEF BeginGeneration
  <2>2. cookie \in 0..epoch - 1 /\ aborted \subseteq 0..epoch - 1
    BY <1>0, <2>1 DEF AbortsPast
  <2>3. ui' \notin {"discard", "uncount", "abort"} \cup Closing
    BY <2>1 DEF Closing
  <2> QED
    BY <1>0, <2>1, <2>2, <2>3 DEF AbortsPast
<1>2. CASE AbortActive
  <2>1. /\ aborted' \subseteq aborted \cup {cookie} /\ UNCHANGED <<cookie, epoch>> /\ ui \in Closing
    BY <1>2 DEF AbortActive, Closing
  <2>2. cookie \in 0..epoch - 1 /\ aborted \subseteq 0..epoch - 1
    BY <1>0, <2>1 DEF AbortsPast
  <2> QED
    BY <1>0, <2>1, <2>2 DEF AbortsPast
<1>3. ASSUME NEW q \in Queries \cup {NoQuery}, NEW start \in StartPages, Reset(q, start)
      PROVE  AbortsPast'
  BY <1>3 DEF Reset, AbortsPast, abort_vars, PlansFit
<1>4. CASE Close
  BY <1>4 DEF Close, AbortsPast, abort_vars, PlansFit
<1>5. ASSUME UNCHANGED <<abort_vars, epoch>>,
             ui' \in {"discard", "uncount", "abort"} \cup Closing =>
               ui \in {"discard", "uncount", "abort"} \cup Closing
      PROVE  AbortsPast'
  BY <1>5 DEF AbortsPast, abort_vars
<1>6. CASE UNCHANGED vars
  BY <1>5, <1>6 DEF vars, ui_vars
<1>7. CASE TaskStep
  <2>1. UNCHANGED <<abort_vars, epoch, ui>>
    BY <1>7 DEF TaskStep, Start, CheckEpoch, Scan, Land, Return, Notify, Leave, ui_vars
  <2> QED
    BY <1>5, <2>1
<1>8. CASE Discard \/ Uncount \/ SetRemaining \/ CountTask \/ SubmitTask \/ SubmitThrows \/ Destroy
  <2>1. UNCHANGED <<abort_vars, epoch>>
    BY <1>8 DEF Discard, Uncount, SetRemaining, CountTask, SubmitTask, SubmitThrows, Destroy
  <2>2. ui' \in {"discard", "uncount", "abort"} \cup Closing =>
          ui \in {"discard", "uncount", "abort"} \cup Closing
    BY <1>8 DEF Discard, Uncount, SetRemaining, CountTask, SubmitTask, SubmitThrows, Destroy, Closing
  <2> QED
    BY <1>5, <2>1, <2>2
<1>9. CASE \/ \E page \in Pages \cup {NoPage} : next(page) \/ prev(page)
           \/ \E page \in Pages : set_reference_page(page)
  <2>1. UNCHANGED <<abort_vars, epoch, ui>>
    BY <1>9 DEF next, prev, set_reference_page, MoveTo, ui_vars
  <2> QED
    BY <1>5, <2>1
<1>10. CASE Spin \/ Done
  BY <1>6, <1>10 DEF Spin, Done
<1> QED
  BY <1>1, <1>2, <1>3, <1>4, <1>6, <1>7, <1>8, <1>9, <1>10 DEF Next, UIStep, UICall

\* The task that runs is the one at is about.
LEMMA TheRunning ==
    ASSUME DrainInv, PlansFit, NEW t \in Running
    PROVE  /\ t \in Tasks /\ fate[t] = "running" /\ t \in 1..Len(plan)
           /\ \A u \in Tasks : fate[u] = "running" => u = t
<1>1. t \in Tasks /\ fate[t] = "running"
  BY DEF Running
<1> QED
  BY <1>1, TaskPlanned DEF DrainInv, OneRuns, Running

LEMMA PlanTasks ==
    ASSUME DrainInv, PlansFit
    PROVE  1..Len(plan) \subseteq Tasks /\ Len(plan) \in Nat
<1>1. DOMAIN task = 1..Len(plan)
  BY DEF DrainInv, Submitted, PlansFit
<1> QED
  BY <1>1 DEF DrainInv, Submitted, PlansFit

LEMMA ScansNext ==
    ASSUME DrainInv, PlansFit, GenerationFits, ScansOnce, [Next]_vars
    PROVE  ScansOnce'
<1>0. \A t \in landed \cup broken : t \in Tasks /\ t \in 1..Len(plan)
  BY PlanTasks DEF ScansOnce
<1>1. ASSUME UNCHANGED <<plan, fate, at, landed, broken>> PROVE ScansOnce'
  BY <1>1 DEF ScansOnce
<1>2. ASSUME NEW t \in Tasks, Start(t) PROVE ScansOnce'
  <2>1. /\ UNCHANGED <<plan, landed, broken>> /\ fate[t] = "queued"
        /\ fate' = [fate EXCEPT ![t] = "running"]
    BY <1>2 DEF Start, Disp!Start, history
  <2>2. \A u \in landed \cup broken : fate[u] = "done"
    BY <1>0, <1>2, Started DEF Running, ScansOnce
  <2>3. \A u \in landed \cup broken : fate'[u] = "done"
    BY <1>0, <2>1, <2>2 DEF DrainInv, Submitted
  <2> QED
    BY <2>1, <2>3 DEF ScansOnce
<1>3. ASSUME NEW t \in Running, CheckEpoch(t) PROVE ScansOnce'
  <2>1. UNCHANGED <<plan, fate, landed, broken>> /\ at \in {"begun", "locked"}
    BY <1>3 DEF CheckEpoch, disp_vars, history
  <2> QED
    BY <2>1 DEF ScansOnce
<1>4. ASSUME NEW t \in Running, Scan(t) PROVE ScansOnce'
  <2>1. /\ UNCHANGED <<plan, fate, landed>> /\ at = "scanning"
        /\ \/ broken' = broken
           \/ broken' = broken \cup {t} /\ at' = "scanned"
    BY <1>4 DEF Scan, disp_vars
  <2> QED
    BY <2>1, TheRunning DEF ScansOnce
<1>5. ASSUME NEW t \in Running, Land(t) PROVE ScansOnce'
  <2>1. /\ UNCHANGED <<plan, fate, broken>> /\ at = "scanned" /\ at' \in {"leaving", "notifying"}
        /\ \/ landed' = landed
           \/ landed' = landed \cup {t}
    BY <1>5 DEF Land, disp_vars
  <2> QED
    BY <2>1, TheRunning DEF ScansOnce
<1>6. ASSUME NEW t \in Running, Return(t) PROVE ScansOnce'
  <2>1. /\ UNCHANGED <<plan, landed, broken>> /\ at = "left"
        /\ fate' = [fate EXCEPT ![t] = "done"]
    BY <1>6 DEF Return, Disp!Finish, history
  <2>2. \A u \in landed \cup broken : fate'[u] = "done"
    BY <1>0, <2>1, TheRunning DEF ScansOnce, DrainInv, Submitted
  <2> QED
    BY <2>1, <2>2 DEF ScansOnce
<1>7. CASE Notify \/ Leave
  <2>1. /\ UNCHANGED <<plan, fate, landed, broken>>
        /\ at \in {"notifying", "leaving"} /\ at' \in {"leaving", "left"}
    BY <1>7 DEF Notify, Leave, disp_vars, history
  <2> QED
    BY <2>1 DEF ScansOnce
<1>8. CASE Discard
  <2>1. /\ UNCHANGED <<plan, at, landed, broken>>
        /\ fate' = [t \in Tasks |-> IF t \in Disp!OwnedBy(me, "queued") THEN "discarded" ELSE fate[t]]
    BY <1>8 DEF Discard, Disp!Discard, task_vars, history
  <2>2. \A t \in landed \cup broken : fate'[t] = fate[t]
    BY <1>0, <2>1 DEF ScansOnce, Disp!OwnedBy
  <2> QED
    BY <2>1, <2>2 DEF ScansOnce
<1>9. CASE SubmitTask
  <2>1. /\ UNCHANGED <<at, landed, broken>> /\ fate' = [fate EXCEPT ![Len(plan) + 1] = "queued"]
    BY <1>9 DEF SubmitTask, Disp!Submit, task_vars, history, PlansFit
  <2>2. Len(plan') = Len(plan) + 1 /\ Len(plan) \in Nat
    BY <1>9, Planned DEF DrainInv, PlansFit
  <2>3. \A t \in landed \cup broken : fate'[t] = fate[t]
    BY <1>0, <2>1, <2>2 DEF DrainInv, Submitted
  <2> QED
    BY <2>1, <2>2, <2>3 DEF ScansOnce
<1>10. CASE Uncount \/ BeginGeneration \/ SetRemaining \/ CountTask \/ SubmitThrows \/ AbortActive \/ Destroy
  BY <1>1, <1>10 DEF Uncount, BeginGeneration, SetRemaining, CountTask, SubmitThrows, AbortActive,
     Destroy, disp_vars, task_vars, history
<1>11. CASE UICall
  BY <1>1, <1>11 DEF UICall, Reset, next, prev, set_reference_page, MoveTo, Close, disp_vars,
     task_vars, history
<1>12. CASE UNCHANGED vars \/ Spin \/ Done
  BY <1>1, <1>12 DEF Spin, Done, vars, disp_vars, task_vars, history
<1> QED
  BY <1>2, <1>3, <1>4, <1>5, <1>6, <1>7, <1>8, <1>9, <1>10, <1>11, <1>12 DEF Next, TaskStep, UIStep

-----------------------------------------------------------------------------
(* What a scan finds.                                                      *)

AHit == [query : Queries, page : Pages, n : Nat]

LEMMA HitsOfPage ==
    ASSUME NEW q \in Queries, NEW p \in Pages
    PROVE  /\ AllHits(q, p) \in Seq(AHit)
           /\ \A n \in 1..Len(AllHits(q, p)) : AllHits(q, p)[n].page = p
           /\ SubSeq(AllHits(q, p), 1, Len(AllHits(q, p))) = AllHits(q, p)
<1>1. Found[q][p] \in Nat
  BY SessionConstants DEF SessionConstants, Pages
<1>2. PICK c \in Nat : c = Found[q][p]
  BY <1>1
<1>3. \A n \in 1..c : Hit(q, p, n) \in AHit /\ Hit(q, p, n).page = p
  BY DEF Hit, AHit
<1>4. PICK s : s = AllHits(q, p)
  OBVIOUS
<1>5. s = [n \in 1..c |-> Hit(q, p, n)]
  BY <1>2, <1>4 DEF AllHits
<1>6. s \in Seq(AHit) /\ Len(s) = c
  BY <1>3, <1>5
<1>7. \A n \in 1..c : s[n].page = p
  BY <1>3, <1>5
<1>8. SubSeq(s, 1, Len(s)) = s
  BY <1>6
<1> QED
  BY <1>4, <1>6, <1>7, <1>8

LEMMA FoundNext ==
    ASSUME DrainInv, PlansFit, GenerationFits, ScansOnce, AbortsPast, FoundWhole, [Next]_vars
    PROVE  FoundWhole'
<1>1. ASSUME UNCHANGED <<at, found, broken>>, Running' \subseteq Running,
             \A t \in Running : t \in Mine' => t \in Mine /\ plan'[t] = plan[t]
      PROVE  FoundWhole'
  BY <1>1 DEF FoundWhole, AllHits, Hit
<1>2. ASSUME NEW t \in Running, Scan(t) PROVE FoundWhole'
  <2>1. /\ UNCHANGED <<plan, task, fate, epoch>> /\ at = "scanning"
    BY <1>2 DEF Scan, disp_vars
  <2>2. Running' = Running /\ Mine' = Mine
    BY <2>1 DEF Running, Mine
  <2>3. \A u \in Running : u = t
    BY DEF DrainInv, OneRuns
  <2>4. t \notin broken
    BY <2>1, TheRunning DEF ScansOnce
  <2>5. SUFFICES ASSUME at' = "scanned", t \in Mine
                 PROVE  found' = IF t \in broken' THEN <<>> ELSE AllHits(plan[t].query, plan[t].page)
    BY <2>1, <2>2, <2>3 DEF FoundWhole, AllHits, Hit
  <2>6. plan[t].epoch = epoch /\ plan[t].epoch \notin aborted /\ t \in 1..Len(plan)
    BY <2>5 DEF Mine, AbortsPast, PlansFit
  <2> DEFINE full == AllHits(plan[t].query, plan[t].page)
  <2>7. \/ found' = SubSeq(full, 1, Len(full)) /\ broken' = broken
        \/ found' = <<>> /\ broken' = broken \cup {t}
        \/ at' = "leaving"
    <3> HIDE DEF full
    <3> QED
      BY <1>2, <2>6 DEF Scan, full
  <2>8. SubSeq(full, 1, Len(full)) = full
    BY <2>6, PlanEntry, HitsOfPage
  <2> HIDE DEF full
  <2> QED
    BY <2>4, <2>5, <2>7, <2>8 DEF full
<1>3. CASE TaskStep /\ ~ \E t \in Running : Scan(t)
  <2>1. at' # "scanned"
    BY <1>3 DEF TaskStep, Start, CheckEpoch, Land, Return, Notify, Leave
  <2> QED
    BY <2>1 DEF FoundWhole
<1>4. ASSUME UNCHANGED <<at, found, broken, task, fate, plan, epoch>> PROVE FoundWhole'
  <2>1. Running' = Running /\ Mine' = Mine
    BY <1>4 DEF Running, Mine
  <2> QED
    BY <1>1, <1>4, <2>1
<1>5. CASE Discard
  <2>1. UNCHANGED <<at, found, broken, plan, epoch>>
    BY <1>5 DEF Discard, task_vars, history
  <2>2. Running' = Running /\ Mine' = Mine
    BY <1>5, <2>1, Emptied DEF Mine
  <2> QED
    BY <1>1, <2>1, <2>2
<1>6. CASE SubmitTask
  <2>1. UNCHANGED <<at, found, broken>> /\ Running' = Running
    BY <1>6, Added DEF SubmitTask, task_vars, history
  <2>2. \A t \in 1..Len(plan) : plan'[t] = plan[t] /\ (t \in Mine' => t \in Mine)
    BY <1>6, Planned DEF Mine, DrainInv
  <2> QED
    BY <1>1, <2>1, <2>2, TheRunning
<1>7. ASSUME NEW q \in Queries \cup {NoQuery}, NEW start \in StartPages, Reset(q, start)
      PROVE  FoundWhole'
  <2>1. UNCHANGED <<at, found, broken, fate>> /\ Mine' = {}
    BY <1>7, NoneYet DEF Reset, disp_vars, task_vars, history
  <2> QED
    BY <1>1, <2>1 DEF Running
<1>8. CASE Close
  <2>1. UNCHANGED <<at, found, broken, fate>> /\ Mine' = {}
    BY <1>8, NoneYet DEF Close, disp_vars, task_vars, history
  <2> QED
    BY <1>1, <2>1 DEF Running
<1>9. CASE Uncount \/ BeginGeneration \/ SetRemaining \/ CountTask \/ SubmitThrows \/ AbortActive \/ Destroy
  BY <1>4, <1>9 DEF Uncount, BeginGeneration, SetRemaining, CountTask, SubmitThrows, AbortActive,
     Destroy, disp_vars, task_vars, history
<1>10. CASE \/ \E page \in Pages \cup {NoPage} : next(page) \/ prev(page)
            \/ \E page \in Pages : set_reference_page(page)
  BY <1>4, <1>10 DEF next, prev, set_reference_page, MoveTo, disp_vars, task_vars, history
<1>11. CASE UNCHANGED vars \/ Spin \/ Done
  BY <1>4, <1>11 DEF Spin, Done, vars, disp_vars, task_vars, history
<1> QED
  BY <1>2, <1>3, <1>5, <1>6, <1>7, <1>8, <1>9, <1>10, <1>11 DEF Next, UIStep, UICall

-----------------------------------------------------------------------------
(* The hits, page by page.                                                 *)

LEMMA InMine ==
    ASSUME ScansOnce
    PROVE  /\ \A p : p \in PagesOf(landed) <=> \E t \in landed : t \in Mine /\ plan[t].page = p
           /\ \A p : p \in PagesOf(broken) <=> \E t \in broken : t \in Mine /\ plan[t].page = p
BY DEF ScansOnce, PagesOf, Mine

LEMMA BlocksAre ==
    ASSUME PlansFit, GenerationFits, ScansOnce
    PROVE  /\ Blocks \in Seq(Seq(AHit)) /\ Len(Blocks) = PageCount
           /\ \A i \in 1..PageCount : Blocks[i] = Block(i - 1)
           /\ \A i \in 1..PageCount : \A m \in 1..Len(Blocks[i]) : Blocks[i][m].page = i - 1
<1>1. PageCount \in Nat
  BY SessionConstants DEF SessionConstants
<1>2. ASSUME NEW p \in Pages
      PROVE  Block(p) \in Seq(AHit) /\ \A m \in 1..Len(Block(p)) : Block(p)[m].page = p
  <2>1. CASE p \in Taken
    <3>1. query \in Queries
      BY <2>1, InMine DEF Taken, GenerationFits, PlansFit
    <3>2. Block(p) = AllHits(query, p)
      BY <2>1 DEF Block, Taken
    <3> QED
      BY <3>1, <3>2, HitsOfPage
  <2>2. CASE p \notin Taken
    <3>1. Block(p) = <<>>
      BY <2>2 DEF Block, Taken
    <3> QED
      BY <3>1
  <2> QED
    BY <2>1, <2>2
<1>3. \A i \in 1..PageCount : i - 1 \in Pages /\ Blocks[i] = Block(i - 1)
  BY <1>1 DEF Blocks, Pages
<1>4. Blocks \in [1..PageCount -> Seq(AHit)]
  BY <1>2, <1>3 DEF Blocks
<1>5. Blocks \in Seq(Seq(AHit)) /\ Len(Blocks) = PageCount
  BY <1>1, <1>4
<1> QED
  BY <1>2, <1>3, <1>5

LEMMA SameBlocks ==
    ASSUME query' = query, Taken' = Taken
    PROVE  Blocks' = Blocks
BY DEF Blocks, Block, Taken, AllHits, Hit

\* Where page p goes, when l is what comes before it and r what comes after.
LEMMA BoundIs ==
    ASSUME NEW l \in Seq(AHit), NEW r \in Seq(AHit), NEW p \in Int, hits = l \o r,
           \A j \in 1..Len(l) : l[j].page <= p,
           \A j \in 1..Len(r) : r[j].page > p
    PROVE  /\ UpperBound(p) = Len(l) /\ Len(hits) = Len(l) + Len(r)
           /\ SubSeq(hits, 1, Len(l)) = l
           /\ SubSeq(hits, Len(l) + 1, Len(hits)) = r
<1>1. /\ hits \in Seq(AHit) /\ Len(hits) = Len(l) + Len(r)
      /\ \A i \in 1..Len(l) + Len(r) : hits[i] = IF i <= Len(l) THEN l[i] ELSE r[i - Len(l)]
  BY ConcatProperties
<1>2. Len(l) \in Nat /\ Len(r) \in Nat
  OBVIOUS
<1>3. \A j \in 1..Len(r) : r[j].page \in Int
  <2> SUFFICES ASSUME NEW j \in 1..Len(r) PROVE r[j].page \in Int
    OBVIOUS
  <2>1. r[j] \in AHit
    BY ElementOfSeq
  <2>2. PageCount \in Nat
    BY SessionConstants DEF SessionConstants
  <2> QED
    BY <2>1, <2>2 DEF AHit, Pages
<1>4. {i \in DOMAIN hits : hits[i].page <= p} = 1..Len(l)
  <2>1. DOMAIN hits = 1..Len(l) + Len(r)
    BY <1>1
  <2>2. ASSUME NEW i \in 1..Len(l) + Len(r), i <= Len(l) PROVE hits[i].page <= p /\ i \in 1..Len(l)
    BY <1>1, <1>2, <2>2
  <2>3. ASSUME NEW i \in 1..Len(l) + Len(r), ~(i <= Len(l)) PROVE ~(hits[i].page <= p)
    <3>1. PICK j : j = i - Len(l)
      OBVIOUS
    <3>2. j \in 1..Len(r)
      BY <1>2, <2>3, <3>1
    <3>3. hits[i] = r[j]
      BY <1>1, <2>3, <3>1
    <3>4. r[j].page \in Int /\ r[j].page > p
      BY <1>3, <3>2
    <3>5. ~(r[j].page <= p)
      BY <3>4
    <3> QED
      BY <3>3, <3>5
  <2>4. 1..Len(l) \subseteq 1..Len(l) + Len(r) /\ \A i \in 1..Len(l) : i <= Len(l)
    BY <1>2
  <2> QED
    BY <2>1, <2>2, <2>3, <2>4
<1>5. Cardinality(1..Len(l)) = Len(l)
  <2>1. PICK c \in Nat : c = Len(l)
    BY <1>2
  <2>2. Cardinality(1..c) = IF 1 > c THEN 0 ELSE c - 1 + 1
    BY FS_Interval
  <2>3. Cardinality(1..c) = c
    BY <2>2
  <2> QED
    BY <2>1, <2>3
<1>6. SubSeq(hits, 1, Len(l)) = l
  BY <1>1, <1>2, SubSeqProperties
<1>7. SubSeq(hits, Len(l) + 1, Len(hits)) = r
  BY <1>1, <1>2, SubSeqProperties
<1> QED
  BY <1>1, <1>4, <1>5, <1>6, <1>7 DEF UpperBound

\* What a page's hits are put between.
Inserts(l, r, b) ==
    /\ hits = l \o r /\ hits' = (l \o b) \o r
    /\ \A t \in Running : UpperBound(plan[t].page) = Len(l)

\* A page that lands.
LEMMA Landing ==
    ASSUME DrainInv, PlansFit, GenerationFits, ScansOnce, FoundWhole, HitsFit,
           NEW t \in Running, Land(t), StillCurrent(t)
    PROVE  /\ hits' = FlattenSeq(Blocks')
           /\ PagesOf(landed)' = PagesOf(landed) \cup {plan[t].page}
           /\ plan[t].page \notin PagesOf(landed) /\ plan[t].page \in Pages
           /\ ui \notin Closing
           /\ \E l, r \in Seq(AHit) : Inserts(l, r, found) /\ found \in Seq(AHit)
<1> DEFINE p == plan[t].page
           index == UpperBound(p)
<1>1. /\ at = "scanned" /\ landed' = landed \cup {t}
      /\ UNCHANGED <<plan, epoch, query, broken>>
      /\ hits' = SubSeq(hits, 1, index) \o found \o SubSeq(hits, index + 1, Len(hits))
  BY DEF Land, disp_vars
<1>2. /\ t \in Tasks /\ fate[t] = "running" /\ t \in 1..Len(plan)
      /\ \A u \in Running : u = t
  BY TheRunning DEF Running
<1>3. t \in Mine /\ t \notin landed
  BY <1>1, <1>2 DEF Mine, StillCurrent, ScansOnce
<1>4. p \in Pages /\ plan[t].query = query /\ query \in Queries /\ ui \notin Closing
  BY <1>2, <1>3, PlanEntry DEF GenerationFits
<1>5. p \notin PagesOf(landed)
  <2> SUFFICES ASSUME NEW u \in landed, u \in Mine, plan[u].page = p PROVE FALSE
    BY InMine
  <2>1. u = t
    BY <1>3 DEF GenerationFits
  <2> QED
    BY <1>3, <2>1
<1>6. PagesOf(broken)' = PagesOf(broken)
  BY <1>1 DEF PagesOf
<1>7. PagesOf(landed)' = PagesOf(landed) \cup {p}
  <2>1. plan[t].epoch = epoch
    BY <1>3 DEF Mine
  <2>2. {u \in landed' : plan[u].epoch = epoch} = {u \in landed : plan[u].epoch = epoch} \cup {t}
    BY <1>1, <2>1
  <2> QED
    BY <1>1, <2>2 DEF PagesOf
<1>8. p \in PagesOf(broken) <=> t \in broken
  <2>1. ASSUME NEW u \in broken, u \in Mine, plan[u].page = p PROVE t \in broken
    <3>1. u = t
      BY <1>3, <2>1 DEF GenerationFits
    <3> QED
      BY <3>1
  <2> QED
    BY <1>3, <2>1, InMine
<1>9. found = IF t \in broken THEN <<>> ELSE AllHits(query, p)
  BY <1>1, <1>3, <1>4 DEF FoundWhole
<1>10. found \in Seq(AHit)
  BY <1>4, <1>9, HitsOfPage
<1> HIDE DEF p, index
<1>11. p + 1 \in 1..PageCount /\ (p + 1) - 1 = p /\ p \in Int /\ PageCount \in Nat
  BY <1>4, SessionConstants DEF SessionConstants, Pages
<1>12. PICK s : s = Blocks
  OBVIOUS
<1>13. PICK s2 : s2 = Blocks'
  OBVIOUS
<1>14. /\ s \in Seq(Seq(AHit)) /\ Len(s) = PageCount
       /\ \A i \in 1..PageCount : s[i] = Block(i - 1)
       /\ \A i \in 1..PageCount : \A m \in 1..Len(s[i]) : s[i][m].page = i - 1
  BY ONLY <1>12, BlocksAre, PlansFit, GenerationFits, ScansOnce
<1>15. \A x : Block(x)' = IF x = p THEN found ELSE Block(x)
  BY <1>1, <1>4, <1>6, <1>7, <1>8, <1>9 DEF Block, AllHits, Hit
<1>16. Block(p) = <<>>
  BY <1>5 DEF Block
<1>17. s2 = [i \in 1..PageCount |-> IF i - 1 = p THEN found ELSE Block(i - 1)]
  BY <1>13, <1>15 DEF Blocks
<1>18. \A i \in 1..PageCount : s2[i] \in Seq(AHit) /\ (i # p + 1 => s2[i] = s[i])
  <2> SUFFICES ASSUME NEW i \in 1..PageCount
               PROVE  s2[i] \in Seq(AHit) /\ (i # p + 1 => s2[i] = s[i])
    OBVIOUS
  <2>1. s[i] \in Seq(AHit) /\ s[i] = Block(i - 1)
    BY <1>14, ElementOfSeq
  <2>2. i - 1 = p <=> i = p + 1
    BY <1>11
  <2> QED
    BY <1>10, <1>17, <2>1, <2>2
<1>19. /\ s2 \in Seq(Seq(AHit)) /\ Len(s2) = Len(s) /\ s2[p + 1] = found
       /\ s[p + 1] = <<>> /\ p + 1 \in 1..Len(s)
       /\ \A i \in 1..Len(s) : i # p + 1 => s2[i] = s[i]
  <2>1. s2 \in [1..PageCount -> Seq(AHit)]
    BY <1>17, <1>18
  <2>2. s2 \in Seq(Seq(AHit)) /\ Len(s2) = PageCount
    BY <1>11, <2>1
  <2> QED
    BY <1>11, <1>14, <1>16, <1>17, <1>18, <2>2
<1>20. PICK l, r \in Seq(AHit) : FlattenSplit(s, s2, found, p + 1, l, r)
  BY ONLY <1>10, <1>14, <1>19, FlattenInsert
<1>21. hits = l \o r /\ FlattenSeq(s2) = (l \o found) \o r
  BY <1>4, <1>12, <1>20 DEF FlattenSplit, HitsFit
<1>22. \A j \in 1..Len(l) : l[j].page <= p
  <2> SUFFICES ASSUME NEW j \in 1..Len(l) PROVE l[j].page <= p
    OBVIOUS
  <2>1. PICK i \in 1..(p + 1) - 1 : \E m \in 1..Len(s[i]) : l[j] = s[i][m]
    BY <1>20 DEF FlattenSplit, ComeFrom
  <2>2. i \in 1..PageCount /\ i - 1 <= p
    BY <1>11, <2>1
  <2> QED
    BY <1>14, <2>1, <2>2
<1>23. \A j \in 1..Len(r) : r[j].page > p
  <2> SUFFICES ASSUME NEW j \in 1..Len(r) PROVE r[j].page > p
    OBVIOUS
  <2>1. PICK i \in (p + 1) + 1..Len(s) : \E m \in 1..Len(s[i]) : r[j] = s[i][m]
    BY <1>20 DEF FlattenSplit, ComeFrom
  <2>2. i \in 1..PageCount /\ i - 1 > p
    BY <1>4, <1>11, <1>14, <2>1 DEF Pages
  <2> QED
    BY <1>14, <2>1, <2>2
<1>24. /\ UpperBound(p) = Len(l) /\ SubSeq(hits, 1, Len(l)) = l
       /\ SubSeq(hits, Len(l) + 1, Len(hits)) = r
  BY ONLY <1>11, <1>21, <1>22, <1>23, BoundIs
<1>25. hits' = (l \o found) \o r
  BY <1>1, <1>24 DEF index
<1>26. Inserts(l, r, found)
  BY <1>2, <1>21, <1>24, <1>25 DEF Inserts, p
<1> QED
  BY <1>4, <1>5, <1>7, <1>10, <1>13, <1>21, <1>25, <1>26 DEF p

\* What is done for the pages neither adds nor takes away.
LEMMA PagesKept ==
    ASSUME PlansFit, ScansOnce, UNCHANGED <<epoch, landed, broken>>,
           \A t \in 1..Len(plan) : plan'[t] = plan[t]
    PROVE  PagesOf(landed)' = PagesOf(landed) /\ Taken' = Taken
<1>1. \A t \in landed \cup broken : plan'[t] = plan[t]
  BY DEF ScansOnce
<1>2. PagesOf(landed)' = PagesOf(landed) /\ PagesOf(broken)' = PagesOf(broken)
  BY <1>1 DEF PagesOf
<1> QED
  BY <1>2 DEF Taken

\* A page that cannot be read was not taken yet.
LEMMA BrokenKeeps ==
    ASSUME DrainInv, PlansFit, GenerationFits, ScansOnce, NEW t \in Running, Scan(t)
    PROVE  PagesOf(landed)' = PagesOf(landed) /\ Taken' = Taken
<1>1. /\ UNCHANGED <<plan, epoch, landed>> /\ at = "scanning"
      /\ broken' = broken \/ broken' = broken \cup {t}
  BY DEF Scan, disp_vars
<1>2. CASE broken' = broken
  BY <1>1, <1>2, PagesKept
<1>3. CASE broken' = broken \cup {t}
  <2>1. /\ t \notin landed /\ t \in 1..Len(plan)
    BY <1>1, TheRunning DEF ScansOnce
  <2>2. PagesOf(landed)' = PagesOf(landed)
    BY <1>1 DEF PagesOf
  <2>3. CASE t \notin Mine
    <3>1. plan[t].epoch # epoch
      BY <2>1, <2>3 DEF Mine
    <3>2. PagesOf(broken)' = PagesOf(broken)
      BY <1>1, <1>3, <3>1 DEF PagesOf
    <3> QED
      BY <2>2, <3>2 DEF Taken
  <2>4. CASE t \in Mine
    <3>1. {u \in broken' : plan[u].epoch = epoch} = {u \in broken : plan[u].epoch = epoch} \cup {t}
      BY <1>3, <2>4 DEF Mine
    <3>2. PagesOf(broken)' = PagesOf(broken) \cup {plan[t].page}
      BY <1>1, <3>1 DEF PagesOf
    <3>3. plan[t].page \notin PagesOf(landed)
      <4> SUFFICES ASSUME NEW u \in landed, u \in Mine, plan[u].page = plan[t].page PROVE FALSE
        BY InMine
      <4>1. u = t
        BY <2>4 DEF GenerationFits
      <4> QED
        BY <2>1, <4>1
    <3> QED
      BY <2>2, <3>2, <3>3 DEF Taken
  <2> QED
    BY <2>3, <2>4
<1> QED
  BY <1>1, <1>2, <1>3

LEMMA NothingTaken ==
    ASSUME ScansOnce, Mine = {}
    PROVE  PagesOf(landed) = {} /\ PagesOf(broken) = {}
BY InMine

LEMMA NothingYet ==
    ASSUME PlansFit, ScansOnce, plan' = plan, epoch' = epoch + 1, UNCHANGED <<landed, broken>>
    PROVE  PagesOf(landed)' = {} /\ Taken' = {}
<1>1. Mine' = {}
  BY NoneYet
<1>2. \A t \in landed : plan'[t].epoch # epoch'
  BY <1>1 DEF Mine, ScansOnce
<1>3. PagesOf(landed)' = {}
  BY <1>2 DEF PagesOf
<1> QED
  BY <1>3 DEF Taken

\* No blocks, no hits.
LEMMA NoBlocks ==
    ASSUME NEW s, s = [i \in 1..PageCount |-> <<>>]
    PROVE  FlattenSeq(s) = <<>>
<1>1. PageCount \in Nat
  BY SessionConstants DEF SessionConstants
<1>2. s \in [1..PageCount -> Seq({})]
  OBVIOUS
<1>3. s \in Seq(Seq({})) /\ Len(s) = PageCount /\ \A i \in 1..Len(s) : s[i] = <<>>
  BY <1>1, <1>2
<1> QED
  BY ONLY <1>3, FlattenEmpty

HitsInv == DrainInv /\ PlansFit /\ GenerationFits /\ ScansOnce /\ AbortsPast /\ FoundWhole

\* What a step can do to the blocks.
LEMMA BlockSteps ==
    ASSUME HitsInv, HitsFit, [Next]_vars
    PROVE  \/ /\ Taken' = Taken /\ PagesOf(landed)' = PagesOf(landed)
              /\ UNCHANGED <<query, hits, epoch>> /\ UNCHANGED pages_remaining
              /\ ui' \notin Closing => ui \notin Closing
           \/ SetRemaining
           \/ \E t \in Running : Land(t) /\ StillCurrent(t)
           \/ \E q \in Queries \cup {NoQuery}, start \in StartPages : Reset(q, start)
           \/ Close
<1> USE DEF HitsInv, state_vars
<1>1. ASSUME UNCHANGED <<plan, epoch, landed, broken>>
      PROVE  Taken' = Taken /\ PagesOf(landed)' = PagesOf(landed)
  BY <1>1, PagesKept
<1>2. CASE TaskStep
  <2>1. CASE \E t \in Running : Land(t) /\ StillCurrent(t)
    BY <2>1
  <2>2. ASSUME NEW t \in Running, Land(t), ~StillCurrent(t)
        PROVE  UNCHANGED <<plan, epoch, landed, broken, query, hits, pages_remaining, ui>>
    BY <2>2 DEF Land, disp_vars, ui_vars
  <2>3. ASSUME NEW t \in Running, Scan(t)
        PROVE  /\ Taken' = Taken /\ PagesOf(landed)' = PagesOf(landed)
               /\ UNCHANGED <<query, hits, epoch, pages_remaining, ui>>
    <3>1. UNCHANGED <<query, hits, epoch, pages_remaining, ui>>
      BY <2>3 DEF Scan, ui_vars
    <3> QED
      BY <2>3, <3>1, BrokenKeeps
  <2>4. CASE \/ \E t \in Tasks : Start(t)
             \/ \E t \in Running : CheckEpoch(t) \/ Return(t)
             \/ Notify \/ Leave
    <3>1. UNCHANGED <<plan, epoch, landed, broken, query, hits, pages_remaining, ui>>
      BY <2>4 DEF Start, CheckEpoch, Return, Notify, Leave, disp_vars, ui_vars, history
    <3> QED
      BY <1>1, <3>1
  <2> QED
    BY <1>1, <1>2, <2>1, <2>2, <2>3, <2>4 DEF TaskStep
<1>3. CASE Discard \/ Uncount \/ BeginGeneration \/ CountTask \/ SubmitThrows \/ AbortActive \/ Destroy
  <2>1. UNCHANGED <<plan, epoch, landed, broken, query, hits, pages_remaining>>
    BY <1>3 DEF Discard, Uncount, BeginGeneration, CountTask, SubmitThrows, AbortActive, Destroy,
       disp_vars, history
  <2>2. ui' \notin Closing => ui \notin Closing
    BY <1>3 DEF Discard, Uncount, BeginGeneration, CountTask, SubmitThrows, AbortActive, Destroy, Closing
  <2> QED
    BY <1>1, <2>1, <2>2
<1>4. CASE SubmitTask
  <2>1. UNCHANGED <<epoch, landed, broken, query, hits, pages_remaining>> /\ ui = "submit"
    BY <1>4 DEF SubmitTask, history
  <2>2. \A t \in 1..Len(plan) : plan'[t] = plan[t]
    BY <1>4, Planned DEF DrainInv
  <2>3. Taken' = Taken /\ PagesOf(landed)' = PagesOf(landed)
    BY <2>1, <2>2, PagesKept
  <2> QED
    BY <2>1, <2>3 DEF Closing
<1>5. CASE \/ \E page \in Pages \cup {NoPage} : next(page) \/ prev(page)
           \/ \E page \in Pages : set_reference_page(page)
  <2>1. UNCHANGED <<plan, epoch, landed, broken, query, hits, pages_remaining, ui>>
    BY <1>5 DEF next, prev, set_reference_page, MoveTo, disp_vars, ui_vars, history
  <2> QED
    BY <1>1, <2>1
<1>6. CASE UNCHANGED vars \/ Spin \/ Done
  <2>1. UNCHANGED <<plan, epoch, landed, broken, query, hits, pages_remaining, ui>>
    BY <1>6 DEF Spin, Done, vars, disp_vars, ui_vars, history
  <2> QED
    BY <1>1, <2>1
<1> QED
  BY <1>2, <1>3, <1>4, <1>5, <1>6 DEF Next, UIStep, UICall

LEMMA HitsNext ==
    ASSUME HitsInv, HitsFit, [Next]_vars
    PROVE  HitsFit'
<1> USE DEF HitsInv
<1>1. ASSUME Taken' = Taken, UNCHANGED <<query, hits>>, ui' \notin Closing => ui \notin Closing
      PROVE  HitsFit'
  <2>1. Blocks' = Blocks
    BY <1>1, SameBlocks
  <2> QED
    BY <1>1, <2>1 DEF HitsFit
<1>2. CASE SetRemaining
  <2>1. UNCHANGED <<plan, epoch, landed, broken, query, hits>> /\ ui = "fill"
    BY <1>2 DEF SetRemaining, disp_vars, history
  <2>2. Taken' = Taken
    BY <2>1, PagesKept
  <2> QED
    BY <1>1, <2>1, <2>2 DEF Closing
<1>3. ASSUME NEW t \in Running, Land(t), StillCurrent(t) PROVE HitsFit'
  BY <1>3, Landing DEF HitsFit
<1>4. ASSUME NEW q \in Queries \cup {NoQuery}, NEW start \in StartPages, Reset(q, start)
      PROVE  HitsFit'
  <2>1. plan' = plan /\ epoch' = epoch + 1 /\ hits' = <<>> /\ UNCHANGED <<landed, broken>>
    BY <1>4 DEF Reset, disp_vars, history
  <2>2. Taken' = {}
    BY <2>1, NothingYet
  <2>3. PICK s : s = Blocks'
    OBVIOUS
  <2>4. s = [i \in 1..PageCount |-> <<>>]
    BY <2>2, <2>3 DEF Blocks, Block, Taken
  <2>5. FlattenSeq(s) = <<>>
    BY <2>4, NoBlocks
  <2> QED
    BY <2>1, <2>3, <2>5 DEF HitsFit
<1>5. CASE Close
  BY <1>5 DEF Close, HitsFit, Closing
<1> QED
  BY <1>1, <1>2, <1>3, <1>4, <1>5, BlockSteps

LEMMA LeftMoves ==
    ASSUME [Next]_vars, ui' \in {"idle", "count", "submit"}
    PROVE  \/ ui \in {"idle", "count", "submit"}
           \/ SetRemaining
           \/ query = NoQuery /\ query' = query
<1>1. CASE UNCHANGED vars \/ Spin \/ Done
  BY <1>1 DEF Spin, Done, vars, ui_vars
<1>2. CASE TaskStep
  BY <1>2 DEF TaskStep, Start, CheckEpoch, Scan, Land, Return, Notify, Leave, ui_vars
<1>3. CASE UIStep
  BY <1>3 DEF UIStep, Discard, Uncount, BeginGeneration, CountTask, SubmitTask, SubmitThrows,
     AbortActive, Destroy, state_vars
<1>4. CASE UICall
  BY <1>4 DEF UICall, Reset, next, prev, set_reference_page, MoveTo, Close, ui_vars
<1> QED
  BY <1>1, <1>2, <1>3, <1>4 DEF Next

LEMMA LandedFinite ==
    ASSUME PlansFit, ScansOnce
    PROVE  IsFiniteSet(PagesOf(landed)) /\ PagesOf(landed) \subseteq Pages
<1>1. PagesOf(landed) \subseteq Pages
  BY PlanEntry DEF PagesOf, ScansOnce
<1>2. IsFiniteSet(Pages)
  BY SessionConstants, FS_Interval DEF SessionConstants, Pages
<1> QED
  BY <1>1, <1>2, FS_Subset

LEMMA LeftNext ==
    ASSUME HitsInv, HitsFit, LeftFit, [Next]_vars
    PROVE  LeftFit'
<1> USE DEF HitsInv
<1> SUFFICES ASSUME ui' \in {"idle", "count", "submit"}, query' # NoQuery
             PROVE  pages_remaining' = PageCount - Cardinality(PagesOf(landed)')
  BY DEF LeftFit
<1>0. PageCount \in Nat
  BY SessionConstants DEF SessionConstants
<1>1. CASE SetRemaining
  <2>1. UNCHANGED <<plan, epoch, landed, broken>> /\ ui = "fill" /\ pages_remaining' = PageCount
    BY <1>1 DEF SetRemaining, disp_vars, history
  <2>2. PagesOf(landed)' = PagesOf(landed)
    BY <2>1, PagesKept
  <2>3. PagesOf(landed) = {}
    BY <2>1, NothingTaken DEF GenerationFits
  <2>4. Cardinality({}) = 0
    BY FS_EmptySet
  <2> QED
    BY <1>0, <2>1, <2>2, <2>3, <2>4
<1>2. ASSUME ~SetRemaining, PagesOf(landed)' = PagesOf(landed), UNCHANGED <<query, pages_remaining>>
      PROVE  pages_remaining' = PageCount - Cardinality(PagesOf(landed)')
  BY <1>2, LeftMoves DEF LeftFit
<1>3. ASSUME NEW t \in Running, Land(t), StillCurrent(t)
      PROVE  pages_remaining' = PageCount - Cardinality(PagesOf(landed)')
  <2>1. /\ pages_remaining' = Remaining(Len(found)) /\ UNCHANGED <<query, ui>>
    BY <1>3 DEF Land, ui_vars
  <2>2. /\ PagesOf(landed)' = PagesOf(landed) \cup {plan[t].page}
        /\ plan[t].page \notin PagesOf(landed) /\ plan[t].page \in Pages
    BY <1>3, Landing
  <2>3. pages_remaining = PageCount - Cardinality(PagesOf(landed))
    BY <2>1 DEF LeftFit
  <2>4. IsFiniteSet(PagesOf(landed)) /\ PagesOf(landed) \subseteq Pages
    BY LandedFinite
  <2>5. /\ Cardinality(PagesOf(landed)') = Cardinality(PagesOf(landed)) + 1
        /\ Cardinality(PagesOf(landed)) \in Nat
    BY <2>2, <2>4, FS_AddElement, FS_CardinalityType
  <2>6. Cardinality(PagesOf(landed)') <= PageCount
    <3>1. PagesOf(landed)' \subseteq Pages
      BY <2>2, <2>4
    <3>2. IsFiniteSet(Pages) /\ Cardinality(Pages) = PageCount
      BY <1>0, FS_Interval DEF Pages
    <3> QED
      BY <3>1, <3>2, FS_Subset
  <2>7. pages_remaining - 1 \in Int /\ pages_remaining - 1 >= 0
    BY <1>0, <2>3, <2>5, <2>6
  <2>8. PICK m : m = pages_remaining - 1
    OBVIOUS
  <2>9. Max({m, 0}) = m
    BY <2>7, <2>8 DEF Max
  <2> QED
    BY <1>0, <2>1, <2>3, <2>5, <2>7, <2>8, <2>9 DEF Remaining
<1>4. ASSUME NEW q \in Queries \cup {NoQuery}, NEW start \in StartPages, Reset(q, start)
      PROVE  FALSE
  BY <1>4 DEF Reset
<1>5. CASE Close
  BY <1>5 DEF Close
<1> QED
  BY <1>1, <1>2, <1>3, <1>4, <1>5, BlockSteps

WholeInv == HitsInv /\ HitsFit /\ LeftFit

LEMMA WholeInit == Init => WholeInv
<1> SUFFICES ASSUME Init PROVE WholeInv
  OBVIOUS
<1>1. /\ plan = <<>> /\ task = <<>> /\ landed = {} /\ broken = {} /\ query = NoQuery /\ epoch = 0
      /\ k = 0 /\ origin_page = 0 /\ ui = "idle" /\ cookie = 0 /\ aborted = {} /\ at = "none"
      /\ hits = <<>>
  BY DEF Init, Disp!Init
<1>2. PlansFit
  BY <1>1 DEF PlansFit
<1>3. Mine = {}
  BY <1>1 DEF Mine
<1>4. GenerationFits
  BY <1>1, <1>3 DEF GenerationFits, Closing
<1>5. ScansOnce
  BY <1>1 DEF ScansOnce
<1>6. AbortsPast
  BY <1>1 DEF AbortsPast, Closing
<1>7. FoundWhole
  BY <1>1 DEF FoundWhole
<1>8. HitsFit
  <2>1. PICK s : s = Blocks
    OBVIOUS
  <2>2. PagesOf(landed) = {}
    BY <1>3, <1>5, NothingTaken
  <2>3. s = [i \in 1..PageCount |-> <<>>]
    BY <2>1, <2>2 DEF Blocks, Block
  <2>4. FlattenSeq(s) = <<>>
    BY <2>3, NoBlocks
  <2> QED
    BY <1>1, <2>1, <2>4 DEF HitsFit
<1>9. LeftFit
  BY <1>1 DEF LeftFit
<1> QED
  BY <1>2, <1>4, <1>5, <1>6, <1>7, <1>8, <1>9, DrainInit DEF WholeInv, HitsInv

LEMMA WholeNext == WholeInv /\ [Next]_vars => WholeInv'
<1> SUFFICES ASSUME WholeInv, [Next]_vars PROVE WholeInv'
  OBVIOUS
<1>1. /\ HitsInv /\ HitsFit /\ LeftFit /\ DrainInv /\ PlansFit /\ GenerationFits /\ ScansOnce
      /\ AbortsPast /\ FoundWhole /\ Submitted
  BY DEF WholeInv, HitsInv, DrainInv
<1>2. HitsFit' /\ LeftFit'
  BY <1>1, HitsNext, LeftNext
<1>3. DrainInv'
  BY <1>1, DrainNext
<1>4. PlansFit' /\ GenerationFits'
  BY <1>1, PlansNext, GenerationNext
<1>5. ScansOnce' /\ AbortsPast' /\ FoundWhole'
  BY <1>1, ScansNext, AbortsNext, FoundNext
<1> QED
  BY <1>2, <1>3, <1>4, <1>5 DEF WholeInv, HitsInv

\* The hits are the current query's, whole pages in page order, whatever the
\* order the pages came in and whatever was superseded or cut short on the
\* way; and a scan that says it is complete has every page.
THEOREM HitsAlwaysWhole == Spec => []HitsWhole
<1>1. WholeInv => HitsWhole
  BY DEF WholeInv, HitsFit, LeftFit, HitsWhole, Blocks, Closing
<1> QED
  BY WholeInit, WholeNext, <1>1, PTL DEF Spec

-----------------------------------------------------------------------------
(* The cursor.                                                             *)

CursorFits ==
    /\ hits \in Seq(AHit) /\ cursor \in Nat
    /\ anchored => cursor < Len(hits)

\* What CursorKeepsHit says of a step.
CursorStep ==
    /\ anchored' => cursor' < Len(hits')
    /\ anchored /\ Len(hits') > Len(hits) => hits'[cursor' + 1] = hits[cursor + 1]

\* Hits put in move those behind them, and a cursor behind them moves along.
LEMMA StaysOn ==
    ASSUME NEW l \in Seq(AHit), NEW b \in Seq(AHit), NEW r \in Seq(AHit), NEW c \in Nat,
           c < Len(l \o r), NEW d, d = IF Len(l) <= c THEN c + Len(b) ELSE c
    PROVE  d \in Nat /\ d < Len((l \o b) \o r) /\ ((l \o b) \o r)[d + 1] = (l \o r)[c + 1]
<1>1. Len(l) \in Nat /\ Len(b) \in Nat /\ Len(r) \in Nat
  OBVIOUS
<1>2. /\ Len(l \o r) = Len(l) + Len(r)
      /\ \A i \in 1..Len(l) + Len(r) : (l \o r)[i] = IF i <= Len(l) THEN l[i] ELSE r[i - Len(l)]
  BY ConcatProperties
<1>3. /\ l \o b \in Seq(AHit) /\ Len(l \o b) = Len(l) + Len(b)
      /\ \A i \in 1..Len(l) + Len(b) : (l \o b)[i] = IF i <= Len(l) THEN l[i] ELSE b[i - Len(l)]
  BY ConcatProperties
<1>4. PICK u \in Seq(AHit) : u = l \o b
  BY <1>3
<1>5. /\ Len(u \o r) = Len(u) + Len(r)
      /\ \A i \in 1..Len(u) + Len(r) : (u \o r)[i] = IF i <= Len(u) THEN u[i] ELSE r[i - Len(u)]
  BY ConcatProperties
<1>6. Len(u) = Len(l) + Len(b)
  BY <1>3, <1>4
<1>7. CASE Len(l) <= c
  <2>1. d = c + Len(b) /\ d + 1 \in 1..Len(u) + Len(r) /\ ~(d + 1 <= Len(u)) /\ d + 1 - Len(u) = c + 1 - Len(l)
    <3>1. PICK x \in Nat, y \in Nat, z \in Nat : x = Len(l) /\ y = Len(b) /\ z = Len(r)
      BY <1>1
    <3>2. c < x + z /\ x <= c /\ d = c + y /\ Len(u) = x + y
      BY <1>2, <1>6, <1>7, <3>1
    <3>3. c + y + 1 \in 1..(x + y) + z /\ ~(c + y + 1 <= x + y) /\ c + y + 1 - (x + y) = c + 1 - x
      BY <3>2
    <3> QED
      BY <3>1, <3>2, <3>3
  <2>2. (u \o r)[d + 1] = r[c + 1 - Len(l)]
    <3>1. PICK n : n = d + 1
      OBVIOUS
    <3>2. (u \o r)[n] = r[n - Len(u)]
      <4>1. n \in 1..Len(u) + Len(r) /\ ~(n <= Len(u))
        BY <2>1, <3>1
      <4> QED
        BY ONLY <1>5, <4>1
    <3>3. n - Len(u) = c + 1 - Len(l)
      BY ONLY <2>1, <3>1
    <3>4. (u \o r)[n] = r[c + 1 - Len(l)]
      BY ONLY <3>2, <3>3
    <3> QED
      BY ONLY <3>1, <3>4
  <2>3. c + 1 \in 1..Len(l) + Len(r) /\ ~(c + 1 <= Len(l))
    BY <1>1, <1>2, <1>7
  <2>4. (l \o r)[c + 1] = r[c + 1 - Len(l)]
    BY <1>2, <2>3
  <2> QED
    BY <1>1, <1>2, <1>4, <1>5, <1>6, <2>1, <2>2, <2>4
<1>8. CASE ~(Len(l) <= c)
  <2>1. /\ d = c /\ c + 1 \in 1..Len(u) + Len(r) /\ c + 1 <= Len(u) /\ c + 1 <= Len(l)
        /\ c + 1 \in 1..Len(l) + Len(b) /\ c + 1 \in 1..Len(l) + Len(r)
    BY <1>1, <1>2, <1>6, <1>8
  <2>2. (u \o r)[c + 1] = l[c + 1] /\ (l \o r)[c + 1] = l[c + 1]
    BY <1>2, <1>3, <1>4, <1>5, <2>1
  <2> QED
    BY <1>1, <1>2, <1>4, <1>5, <1>6, <2>1, <2>2
<1> QED
  BY <1>7, <1>8

LEMMA BoundsNat ==
    ASSUME CursorFits, NEW p
    PROVE  LowerBound(p) \in Nat
<1> DEFINE S == {i \in DOMAIN hits : hits[i].page < p}
<1>1. DOMAIN hits = 1..Len(hits) /\ Len(hits) \in Nat
  BY DEF CursorFits
<1>2. IsFiniteSet(1..Len(hits))
  BY <1>1, FS_Interval
<1>3. S \subseteq 1..Len(hits)
  BY <1>1
<1>4. Cardinality(S) \in Nat
  <2> HIDE DEF S
  <2> QED
    BY <1>2, <1>3, FS_Subset, FS_CardinalityType
<1> QED
  BY <1>4 DEF LowerBound

\* A move of the cursor goes to a hit.
LEMMA MovesTo ==
    ASSUME CursorFits, hits # <<>>, NEW x \in Int, MoveTo(x % Len(hits))
    PROVE  CursorFits' /\ CursorStep
<1>1. /\ hits' = hits /\ cursor' = x % Len(hits) /\ anchored' = TRUE
  BY DEF MoveTo
<1>2. Len(hits) \in Nat /\ Len(hits) > 0
  BY DEF CursorFits
<1>3. x % Len(hits) \in 0..Len(hits) - 1
  BY <1>2
<1> QED
  BY <1>1, <1>2, <1>3 DEF CursorFits, CursorStep

LEMMA CursorNext ==
    ASSUME WholeInv, CursorFits, [Next]_vars
    PROVE  CursorFits' /\ CursorStep
<1> USE DEF state_vars
<1>0. Len(hits) \in Nat
  BY DEF CursorFits
<1>1. ASSUME UNCHANGED <<hits, cursor, anchored>> PROVE CursorFits' /\ CursorStep
  BY <1>0, <1>1 DEF CursorFits, CursorStep
<1>2. ASSUME NEW t \in Running, Land(t), StillCurrent(t) PROVE CursorFits' /\ CursorStep
  <2>1. PICK l, r \in Seq(AHit) : Inserts(l, r, found) /\ found \in Seq(AHit)
    BY <1>2, Landing DEF WholeInv, HitsInv
  <2>2. /\ hits = l \o r /\ hits' = (l \o found) \o r /\ anchored' = anchored
        /\ cursor' = Shifted(Len(l), Len(found))
    BY <1>2, <2>1 DEF Inserts, Land
  <2>3. hits' \in Seq(AHit)
    BY <2>1, <2>2
  <2>4. CASE anchored
    <3>1. cursor' = IF Len(l) <= cursor THEN cursor + Len(found) ELSE cursor
      BY <2>2, <2>4 DEF Shifted
    <3>2. cursor \in Nat /\ cursor < Len(l \o r)
      BY <2>2, <2>4 DEF CursorFits
    <3>3. /\ cursor' \in Nat /\ cursor' < Len((l \o found) \o r)
          /\ ((l \o found) \o r)[cursor' + 1] = (l \o r)[cursor + 1]
      BY ONLY <2>1, <3>1, <3>2, StaysOn
    <3> QED
      BY <2>2, <2>3, <3>3 DEF CursorFits, CursorStep
  <2>5. CASE ~anchored
    <3>1. cursor' = cursor
      BY <2>2, <2>5 DEF Shifted
    <3> QED
      BY <2>2, <2>3, <2>5, <3>1 DEF CursorFits, CursorStep
  <2> QED
    BY <2>4, <2>5 DEF CursorFits
<1>3. CASE TaskStep /\ ~ \E t \in Running : Land(t) /\ StillCurrent(t)
  BY <1>1, <1>3 DEF TaskStep, Start, CheckEpoch, Scan, Land, Return, Notify, Leave
<1>4. CASE UIStep
  BY <1>1, <1>4 DEF UIStep, Discard, Uncount, BeginGeneration, SetRemaining, CountTask, SubmitTask,
     SubmitThrows, AbortActive, Destroy
<1>5. ASSUME NEW q \in Queries \cup {NoQuery}, NEW start \in StartPages, Reset(q, start)
      PROVE  CursorFits' /\ CursorStep
  <2>1. hits' = <<>> /\ cursor' = 0 /\ ~anchored'
    BY <1>5 DEF Reset
  <2>2. CursorFits'
    BY <2>1 DEF CursorFits
  <2>3. ~(Len(hits') > Len(hits))
    BY <1>0, <2>1
  <2> QED
    BY <2>1, <2>2, <2>3 DEF CursorStep
<1>6. ASSUME NEW page, next(page) \/ prev(page) \/ set_reference_page(page)
      PROVE  CursorFits' /\ CursorStep
  <2>1. /\ hits # <<>>
        /\ \/ MoveTo((IF anchored THEN cursor + 1 ELSE FirstFrom(page)) % Len(hits))
           \/ MoveTo(((IF anchored THEN cursor ELSE FirstFrom(page)) + Len(hits) - 1) % Len(hits))
           \/ MoveTo(LowerBound(page) % Len(hits))
    BY <1>6 DEF next, prev, set_reference_page
  <2>2. FirstFrom(page) \in Nat /\ LowerBound(page) \in Nat
    BY BoundsNat DEF FirstFrom
  <2>3. /\ (IF anchored THEN cursor + 1 ELSE FirstFrom(page)) \in Int
        /\ (IF anchored THEN cursor ELSE FirstFrom(page)) + Len(hits) - 1 \in Int
        /\ LowerBound(page) \in Int
    BY <1>0, <2>2 DEF CursorFits
  <2> QED
    BY <2>1, <2>3, MovesTo
<1>7. CASE Close \/ Spin \/ Done \/ UNCHANGED vars
  BY <1>1, <1>7 DEF Close, Spin, Done, vars
<1> QED
  BY <1>2, <1>3, <1>4, <1>5, <1>6, <1>7 DEF Next, UICall

\* From the first step on the cursor is on a hit, and hits that come in leave
\* it on the hit it is on, wherever they go in.
THEOREM CursorAlwaysKeepsHit == Spec => CursorKeepsHit
<1>1. Init => CursorFits
  <2> SUFFICES ASSUME Init PROVE CursorFits
    OBVIOUS
  <2>1. hits = <<>> /\ cursor = 0 /\ ~anchored
    BY DEF Init
  <2> QED
    BY <2>1 DEF CursorFits
<1>2. WholeInv /\ CursorFits /\ [Next]_vars => CursorFits' /\ CursorStep
  BY CursorNext
<1>3. CursorStep => [ /\ anchored' => cursor' < Len(hits')
                      /\ anchored /\ Len(hits') > Len(hits) => hits'[cursor' + 1] = hits[cursor + 1] ]_vars
  BY DEF CursorStep
<1> QED
  BY WholeInit, WholeNext, <1>1, <1>2, <1>3, PTL DEF Spec, CursorKeepsHit
=============================================================================
