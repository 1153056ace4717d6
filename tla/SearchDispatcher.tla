-------------------------- MODULE SearchDispatcher --------------------------
(***************************************************************************)
(* ThreadPoolDispatcher of src/src/app/SearchDispatcher.cpp: its workers   *)
(* and the UI thread that constructs it, submits, discards and destroys    *)
(* it.  A worker's loop is split at each acquisition of m_ and around the  *)
(* task it runs; a notification is a step after the unlock, as in the      *)
(* code.  A task is its number in the order of submission; what it does    *)
(* when it runs is SearchSession's.                                        *)
(***************************************************************************)
EXTENDS Integers, SequencesExt, FiniteSetsExt

CONSTANTS
    Owners,      \* the identities of state_weak
    Lanes,       \* the priorities in use, a set of integers
    Workers,
    MaxTasks     \* bound on the submissions

ASSUME DispatcherConstants ==
    /\ Lanes \subseteq Int
    /\ MaxTasks \in Nat
    /\ Workers # {}
    /\ "none" \notin Owners

Tasks   == 1..MaxTasks
NoTask  == 0
NoOwner == "none"

VARIABLES
    task,        \* the tasks submitted, in order: owner and priority
    lanes,       \* lanes_, by priority; no lane is the empty sequence
    in_flight,
    queued,
    serve_seq,
    stop,
    pc,          \* where each worker is
    job,         \* the task a worker has popped and not released, or NoTask
    owner,       \* and whose it is, or NoOwner
    alive,       \* the owners that have not expired
    ui,          \* where the UI thread is
    fate,        \* history: what became of each task
    turn,        \* history: serve_seq when an owner was last served in a lane
    since        \* history: serve_seq when an owner last became ready in a lane

queue_vars  == <<task, lanes, in_flight, queued, serve_seq, stop>>
held_vars   == <<job, owner>>
vars == <<queue_vars, pc, held_vars, alive, ui, fate, turn, since>>

OwnerQueue == [owner : Owners, tasks : Seq(Tasks), last_served : 0..MaxTasks]

Init ==
    /\ task = <<>>
    /\ lanes = [p \in Lanes |-> <<>>]
    /\ in_flight = {} /\ queued = 0 /\ serve_seq = 0 /\ stop = FALSE
    /\ pc = [w \in Workers |-> "unborn"]
    /\ job = [w \in Workers |-> NoTask]
    /\ owner = [w \in Workers |-> NoOwner]
    /\ alive = Owners
    /\ ui = "spawning"
    /\ fate = [t \in Tasks |-> "absent"]
    /\ turn = [p \in Lanes |-> [o \in Owners |-> 0]]
    /\ since = [p \in Lanes |-> [o \in Owners |-> 0]]

Goto(w, l) == pc' = [pc EXCEPT ![w] = l]

Asleep == {w \in Workers : pc[w] = "asleep"}

\* Fault: with two workers, one of them is woken.
NotifyAll_One(S) ==
    IF S = {} THEN {pc} ELSE {[w \in Workers |-> IF w = v THEN "awake" ELSE pc[w]] : v \in S}

\* What pc may be after a notify_all that finds the workers of S asleep.
NotifyAll(S) == {[w \in Workers |-> IF w \in S THEN "awake" ELSE pc[w]]}

Ready(queue) == queue.tasks # <<>> /\ queue.owner \notin in_flight

\* An owner has work waiting in a lane and none of its tasks is running.
IsReady(p, o) == \E i \in DOMAIN lanes[p] : lanes[p][i].owner = o /\ Ready(lanes[p][i])

\* The history of turns, kept by every step.
Turns ==
    /\ turn' = [p \in Lanes |-> [o \in Owners |->
            IF \E w \in Workers : /\ job[w] = NoTask /\ job'[w] # NoTask
                                  /\ task[job'[w]] = [owner |-> o, priority |-> p]
            THEN serve_seq' ELSE turn[p][o]]]
    /\ since' = [p \in Lanes |-> [o \in Owners |->
            IF IsReady(p, o)' /\ ~IsReady(p, o) THEN serve_seq' ELSE since[p][o]]]

-----------------------------------------------------------------------------
(* Construction                                                            *)

\* One more worker thread starts; after the last the constructor returns.
Spawn(w) ==
    /\ ui = "spawning" /\ pc[w] = "unborn"
    /\ Goto(w, "awake")
    /\ ui' = IF \E v \in Workers \ {w} : pc[v] = "unborn" THEN "spawning" ELSE "open"
    /\ UNCHANGED <<queue_vars, held_vars, alive, fate>>

\* A thread cannot be created: those that run are stopped and joined.
SpawnFails ==
    /\ ui = "spawning"
    /\ stop' = TRUE
    /\ ui' = "notify_all"
    /\ UNCHANGED <<task, lanes, in_flight, queued, serve_seq, pc, held_vars, alive, fate>>

-----------------------------------------------------------------------------
(* The UI thread                                                           *)

\* Fault: a task goes in front of those that wait.
Added_InFront(queues, o, t) ==
    IF \E i \in DOMAIN queues : queues[i].owner = o
    THEN [i \in DOMAIN queues |->
            IF queues[i].owner = o THEN [queues[i] EXCEPT !.tasks = <<t>> \o @] ELSE queues[i]]
    ELSE Append(queues, [owner |-> o, tasks |-> <<t>>, last_served |-> 0])

\* The lane with task t at the end of its owner's queue, a new one at need.
Added(queues, o, t) ==
    IF \E i \in DOMAIN queues : queues[i].owner = o
    THEN [i \in DOMAIN queues |->
            IF queues[i].owner = o THEN [queues[i] EXCEPT !.tasks = Append(@, t)] ELSE queues[i]]
    ELSE Append(queues, [owner |-> o, tasks |-> <<t>>, last_served |-> 0])

\* Only a living owner submits.
Submit(o, p) ==
    LET t == Len(task) + 1 IN
    /\ ui = "open" /\ o \in alive
    /\ t \in Tasks
    /\ task' = Append(task, [owner |-> o, priority |-> p])
    /\ lanes' = [lanes EXCEPT ![p] = Added(@, o, t)]
    /\ queued' = queued + 1
    /\ fate' = [fate EXCEPT ![t] = "queued"]
    /\ ui' = "notify_one"
    /\ UNCHANGED <<in_flight, serve_seq, stop, pc, held_vars, alive>>

\* Fault: the notification goes to a worker that is not asleep.
NotifyOne_Lost == {pc}

NotifyOne ==
    IF Asleep = {} THEN {pc} ELSE {[pc EXCEPT ![w] = "awake"] : w \in Asleep}

SubmitReturns ==
    /\ ui = "notify_one"
    /\ pc' \in NotifyOne
    /\ ui' = "open"
    /\ UNCHANGED <<queue_vars, held_vars, alive, fate>>

\* The lane without the owner's queue: it has one at most (see QueuesKept).
Erased(queues, o) ==
    IF \E i \in DOMAIN queues : queues[i].owner = o
    THEN RemoveAt(queues, CHOOSE i \in DOMAIN queues : queues[i].owner = o)
    ELSE queues

\* A running owner's queue is kept, emptied: it carries last_served.
Emptied(queues, o) ==
    IF o \in in_flight
    THEN [i \in DOMAIN queues |->
            IF queues[i].owner = o THEN [queues[i] EXCEPT !.tasks = <<>>] ELSE queues[i]]
    ELSE Erased(queues, o)

\* The tasks in a lane's queues of owner o; of all owners.
TasksOf(queues, o) ==
    UNION {ToSet(queues[i].tasks) : i \in {j \in DOMAIN queues : queues[j].owner = o}}
QueuedIn(queues) == UNION {ToSet(queues[i].tasks) : i \in DOMAIN queues}

\* Fault: the count of what was removed is not taken back.
Discarded_NotCounted(gone) == 0

Discarded(gone) == Cardinality(gone)

discard(o) ==
    LET gone == UNION {TasksOf(lanes[p], o) : p \in Lanes} IN
    /\ ui = "open"
    /\ lanes' = [p \in Lanes |-> Emptied(lanes[p], o)]
    /\ queued' = queued - Discarded(gone)
    /\ fate' = [t \in Tasks |-> IF t \in gone THEN "discarded" ELSE fate[t]]
    /\ UNCHANGED <<task, in_flight, serve_seq, stop, pc, held_vars, alive, ui>>

\* The owner's last strong reference goes, on whichever thread.
Expire(o) ==
    /\ ui \notin {"spawning", "gone"}
    /\ o \in alive
    /\ alive' = alive \ {o}
    /\ UNCHANGED <<queue_vars, pc, held_vars, ui, fate>>

BeginStop ==
    /\ ui = "open"
    /\ stop' = TRUE
    /\ ui' = "notify_all"
    /\ UNCHANGED <<task, lanes, in_flight, queued, serve_seq, pc, held_vars, alive, fate>>

StopNotifies ==
    /\ ui = "notify_all"
    /\ pc' \in NotifyAll(Asleep)
    /\ ui' = "joining"
    /\ UNCHANGED <<queue_vars, held_vars, alive, fate>>

\* The destructor, or the constructor that failed, has joined its threads.
Joined ==
    /\ ui = "joining"
    /\ \A w \in Workers : pc[w] \in {"unborn", "exited"}
    /\ ui' = "gone"
    /\ UNCHANGED <<queue_vars, pc, held_vars, alive, fate>>

-----------------------------------------------------------------------------
(* A worker                                                                *)

\* Fault: an owner whose task is running is served again.
MayServe_Twice(queue) == queue.tasks # <<>>

MayServe(queue) == Ready(queue)

\* Fault: turns go by the order of the list.
GoesBefore_ListOrder(queues, i, j) == i < j

\* The least recently served first, then the order of the list.
GoesBefore(queues, i, j) ==
    \/ queues[i].last_served < queues[j].last_served
    \/ queues[i].last_served = queues[j].last_served /\ i < j

\* The queue that next_ready returns, as a lane and a position; none or one.
next_ready ==
    {at \in UNION {{p} \X DOMAIN lanes[p] : p \in Lanes} :
        LET p == at[1]  i == at[2] IN
        /\ MayServe(lanes[p][i])
        /\ \A l \in Lanes : l < p => \A j \in DOMAIN lanes[l] : ~MayServe(lanes[l][j])
        /\ \A j \in DOMAIN lanes[p] \ {i} :
              MayServe(lanes[p][j]) => GoesBefore(lanes[p], i, j)}

MayExit == stop /\ queued = 0

\* Under m_: the predicate of the wait, then exit or pop.
Take(w) ==
    /\ pc[w] = "awake"
    /\ \/ /\ MayExit
          /\ Goto(w, "exited")
          /\ UNCHANGED <<queue_vars, held_vars, fate>>
       \/ /\ ~MayExit /\ next_ready = {}
          /\ Goto(w, "asleep")
          /\ UNCHANGED <<queue_vars, held_vars, fate>>
       \/ /\ ~MayExit
          /\ \E at \in next_ready :
                LET p == at[1]  i == at[2]  t == Head(lanes[p][i].tasks) IN
                /\ job' = [job EXCEPT ![w] = t]
                /\ lanes' = [lanes EXCEPT ![p][i].tasks = Tail(@),
                                          ![p][i].last_served = serve_seq + 1]
                /\ owner' = [owner EXCEPT ![w] = lanes[p][i].owner]
                /\ in_flight' = in_flight \cup {lanes[p][i].owner}
                /\ fate' = [fate EXCEPT ![t] = "running"]
          /\ serve_seq' = serve_seq + 1
          /\ queued' = queued - 1
          /\ Goto(w, "popped")
          /\ UNCHANGED <<task, stop>>
    /\ UNCHANGED <<alive, ui>>

\* A condition variable may also wake with nothing to do.
SpuriousWakeup(w) ==
    /\ pc[w] = "asleep"
    /\ Goto(w, "awake")
    /\ UNCHANGED <<queue_vars, held_vars, alive, ui, fate>>

\* is_runnable: the task of an expired owner is passed over.
Check(w) ==
    /\ pc[w] = "popped"
    /\ Goto(w, IF task[job[w]].owner \in alive THEN "running" ELSE "release")
    /\ UNCHANGED <<queue_vars, held_vars, alive, ui, fate>>

\* The task returns or throws: the same to the pool.
RunEnds(w) ==
    /\ pc[w] = "running"
    /\ Goto(w, "release")
    /\ UNCHANGED <<queue_vars, held_vars, alive, ui, fate>>

\* Fault: queues emptied while their owner ran stay behind.
Swept_Not(queues, o) == queues

Swept(queues, o) ==
    IF \E i \in DOMAIN queues : queues[i].owner = o /\ queues[i].tasks = <<>>
    THEN Erased(queues, o)
    ELSE queues

Released(o) == in_flight \ {o}

\* ~Release: on every way out of the turn, whatever the task did.
release(w) ==
    /\ pc[w] = "release"
    /\ in_flight' = Released(owner[w])
    /\ lanes' = [p \in Lanes |-> Swept(lanes[p], owner[w])]
    /\ fate' = [fate EXCEPT ![job[w]] = "done"]
    /\ job' = [job EXCEPT ![w] = NoTask]
    /\ owner' = [owner EXCEPT ![w] = NoOwner]
    /\ Goto(w, "notify_all")
    /\ UNCHANGED <<task, queued, serve_seq, stop, alive, ui>>

ReleaseNotifies(w) ==
    /\ pc[w] = "notify_all"
    /\ \E after \in NotifyAll(Asleep) : pc' = [after EXCEPT ![w] = "awake"]
    /\ UNCHANGED <<queue_vars, held_vars, alive, ui, fate>>

-----------------------------------------------------------------------------

WorkerStep(w) == Take(w) \/ Check(w) \/ RunEnds(w) \/ release(w) \/ ReleaseNotifies(w)

\* What the UI thread does once it has begun.
UIReturns == SubmitReturns \/ StopNotifies \/ Joined

UICall ==
    \/ \E w \in Workers : Spawn(w)
    \/ SpawnFails
    \/ \E o \in Owners, p \in Lanes : Submit(o, p)
    \/ \E o \in Owners : discard(o)
    \/ BeginStop

Done == ui = "gone" /\ UNCHANGED vars

Step ==
    \/ \E w \in Workers : WorkerStep(w) \/ SpuriousWakeup(w)
    \/ UIReturns
    \/ UICall
    \/ \E o \in Owners : Expire(o)

Next == (Step /\ Turns) \/ Done

SafeSpec == Init /\ [][Next]_vars

\* Each thread goes on while it can; a task comes to its end.  Nothing makes
\* the UI thread call, nor an owner expire, nor a sleeper wake by itself.
Fairness ==
    /\ \A w \in Workers : WF_vars(WorkerStep(w) /\ Turns)
    /\ WF_vars(UIReturns /\ Turns)

Spec == SafeSpec /\ Fairness

-----------------------------------------------------------------------------
(* Properties                                                              *)

Places == {"unborn", "awake", "asleep", "popped", "running", "release", "notify_all", "exited"}

DispatcherTypeOK ==
    /\ task \in Seq([owner : Owners, priority : Lanes]) /\ Len(task) <= MaxTasks
    /\ \A p \in Lanes : lanes[p] \in Seq(OwnerQueue)
    /\ in_flight \subseteq Owners /\ queued \in 0..MaxTasks /\ serve_seq \in 0..MaxTasks
    /\ stop \in BOOLEAN
    /\ pc \in [Workers -> Places] /\ job \in [Workers -> Tasks \cup {NoTask}]
    /\ owner \in [Workers -> Owners \cup {NoOwner}]
    /\ alive \subseteq Owners
    /\ ui \in {"spawning", "open", "notify_one", "notify_all", "joining", "gone"}
    /\ fate \in [Tasks -> {"absent", "queued", "running", "done", "discarded"}]

\* No two workers have a task of one owner: what a session does in its tasks
\* never overlaps, in whatever lanes they were.
OneTaskPerOwner ==
    \A v, w \in Workers : v # w /\ owner[v] # NoOwner => owner[v] # owner[w]

\* An owner is in flight exactly while one of its tasks is out: else it would
\* never be served again, or served twice at once.
InFlightExact ==
    /\ in_flight = {owner[w] : w \in {v \in Workers : job[v] # NoTask}}
    /\ \A w \in Workers : job[w] # NoTask => owner[w] = task[job[w]].owner

PlacesOf(t) ==
    (UNION {{<<p, i>> : i \in {j \in DOMAIN lanes[p] : t \in ToSet(lanes[p][j].tasks)}} : p \in Lanes})
    \cup {w \in Workers : job[w] = t}

\* A task waits in one place, is with one worker, or is finished: never lost
\* between the lanes, never taken twice.  queued_ is what the lanes hold: a
\* worker leaves by it, so a wrong count would leave tasks undone or the join
\* waiting.
TasksConserved ==
    /\ \A t \in Tasks :
         Cardinality(PlacesOf(t)) = IF fate[t] \in {"queued", "running"} THEN 1 ELSE 0
    /\ queued = Cardinality(UNION {QueuedIn(lanes[p]) : p \in Lanes})

\* An owner has one queue in a lane, and it is empty only while the owner is
\* in flight, as the comment on lanes_ says: no queue is left behind for an
\* owner that is done.
QueuesKept ==
    \A p \in Lanes : \A i, j \in DOMAIN lanes[p] :
        /\ lanes[p][i].owner = lanes[p][j].owner => i = j
        /\ lanes[p][i].tasks = <<>> => lanes[p][i].owner \in in_flight

Served(w, p, o) ==
    job[w] = NoTask /\ job'[w] # NoTask /\ task[job'[w]] = [owner |-> o, priority |-> p]

\* The owner's queue was not erased since it was last served.
KeptSince(p, o) ==
    \E i \in DOMAIN lanes[p] : lanes[p][i].owner = o /\ lanes[p][i].last_served = turn[p][o]

\* An owner whose queue was kept does not take a second turn in a lane while
\* another has been ready there since before its first: the tabs' scans
\* advance by turns, however many pages each has queued.
TakesTurns ==
    [][\A p \in Lanes, o, b \in Owners :
          /\ \E w \in Workers : Served(w, p, b)
          /\ b # o /\ IsReady(p, o) /\ KeptSince(p, b) /\ turn[p][b] # 0
          => turn[p][b] <= since[p][o]]_vars

Service == INSTANCE SearchService WITH open <- ui # "gone"

\* Every task is started once or discarded, an owner's one at a time and in
\* order, and the pool is gone only when none is left; on the way it is in one
\* place and counted once.
ServesInOrder == Service!SafeSpec /\ []TasksConserved

\* A queued task is taken or discarded in the end: no wakeup is lost.
EveryTaskTaken == \A t \in Tasks : fate[t] = "queued" ~> fate[t] # "queued"

\* The destructor, or the constructor's roll-back, returns.
TeardownEnds == ui = "notify_all" ~> ui = "gone"

\* Every owner gets its turns and every task its end, and so does the pool.
ServedInTurn == TakesTurns /\ EveryTaskTaken /\ TeardownEnds
=============================================================================
