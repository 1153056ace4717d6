--------------------------- MODULE SearchService ---------------------------
(***************************************************************************)
(* What the search dispatcher promises to the sessions that submit to it   *)
(* (ISearchDispatcher and the ordering contract in                         *)
(* src/src/app/SearchDispatcher.hpp): a task is started once or discarded, *)
(* an owner's tasks one at a time and, in each lane, in the order they     *)
(* were submitted; and the pool is gone only when no task is left.         *)
(* Threads, queues and whose turn it is are not said here:                 *)
(* SearchDispatcher implements it, and SearchSession is built on it.       *)
(***************************************************************************)
EXTENDS Integers, Sequences

CONSTANTS Tasks, Owners, Lanes

VARIABLES
    task,    \* the tasks submitted, in order: owner and priority
    fate,    \* of each task
    open     \* tasks are still accepted

vars == <<task, fate, open>>

Init ==
    /\ task = <<>>
    /\ fate = [t \in Tasks |-> "absent"]
    /\ open = TRUE

Submit(o, p) ==
    /\ open
    /\ Len(task) + 1 \in Tasks
    /\ task' = Append(task, [owner |-> o, priority |-> p])
    /\ fate' = [fate EXCEPT ![Len(task) + 1] = "queued"]
    /\ open' = open

OwnedBy(o, f) == {t \in DOMAIN task : task[t].owner = o /\ fate[t] = f}

\* None of its owner's tasks runs, and none before it in its lane waits.
Start(t) ==
    /\ fate[t] = "queued"
    /\ OwnedBy(task[t].owner, "running") = {}
    /\ \A u \in OwnedBy(task[t].owner, "queued") : task[u].priority = task[t].priority => t <= u
    /\ fate' = [fate EXCEPT ![t] = "running"]
    /\ UNCHANGED task /\ open' = open

Finish(t) ==
    /\ fate[t] = "running"
    /\ fate' = [fate EXCEPT ![t] = "done"]
    /\ UNCHANGED task /\ open' = open

\* What waits is taken back; what was started goes on.
Discard(o) ==
    /\ open
    /\ fate' = [t \in Tasks |-> IF t \in OwnedBy(o, "queued") THEN "discarded" ELSE fate[t]]
    /\ UNCHANGED task /\ open' = open

Close ==
    /\ open
    /\ \A t \in Tasks : fate[t] \notin {"queued", "running"}
    /\ open' = FALSE
    /\ UNCHANGED <<task, fate>>

Next ==
    \/ \E t \in Tasks : Start(t) \/ Finish(t)
    \/ \E o \in Owners : Discard(o) \/ \E p \in Lanes : Submit(o, p)
    \/ Close

SafeSpec == Init /\ [][Next]_vars
=============================================================================
