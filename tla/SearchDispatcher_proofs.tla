---------------------- MODULE SearchDispatcher_proofs ----------------------
(***************************************************************************)
(* An owner's tasks never run at once, and the dispatcher keeps what       *)
(* SearchService promises, for any number of workers, owners, lanes and    *)
(* tasks.  Inv ties the places where the code keeps whose task is out:     *)
(* in_flight_, the worker's own copy of the owner, how far the worker has  *)
(* come with it, and the queue the task came from.  TasksInv ties what     *)
(* becomes of a task to where it is, keeps every queue in the order of     *)
(* submission, and says when a worker may be missing.                      *)
(***************************************************************************)
EXTENDS SearchDispatcher, FiniteSetTheorems, SequenceTheorems, TLAPS

Busy == {"popped", "running", "release"}

Queue    == [owner : Owners, tasks : Seq(Nat), last_served : Nat]
TaskKind == [owner : Owners, priority : Lanes]

TypeInv ==
    /\ task \in Seq(TaskKind)
    /\ lanes \in [Lanes -> Seq(Queue)]
    /\ serve_seq \in Nat
    /\ pc \in [Workers -> Places]
    /\ job \in [Workers -> Nat]
    /\ owner \in [Workers -> Owners \cup {NoOwner}]

OneQueue(queues) ==
    \A i, j \in DOMAIN queues : queues[i].owner = queues[j].owner => i = j

\* What a queue of lane p holds are its owner's tasks of that priority.
Belongs(queue, p) ==
    \A k \in DOMAIN queue.tasks :
        /\ queue.tasks[k] \in DOMAIN task
        /\ task[queue.tasks[k]] = [owner |-> queue.owner, priority |-> p]

LaneInv ==
    \A p \in Lanes :
        /\ OneQueue(lanes[p])
        /\ \A i \in DOMAIN lanes[p] :
              /\ Belongs(lanes[p][i], p)
              /\ lanes[p][i].tasks = <<>> => lanes[p][i].owner \in in_flight

\* A worker holds a task and its owner from the pop to the release.
HeldInv ==
    \A w \in Workers :
        /\ pc[w] \in Busy <=> owner[w] # NoOwner
        /\ pc[w] \in Busy <=> job[w] # NoTask
        /\ pc[w] \in Busy => job[w] \in DOMAIN task /\ task[job[w]].owner = owner[w]

FlightInv == in_flight = {owner[w] : w \in Workers} \ {NoOwner}

Inv == TypeInv /\ LaneInv /\ HeldInv /\ FlightInv /\ OneTaskPerOwner

-----------------------------------------------------------------------------
(* What the operations on a lane keep                                      *)

LEMMA RemoveAtProperties ==
    ASSUME NEW S, NEW s \in Seq(S), NEW n \in 1..Len(s)
    PROVE  /\ RemoveAt(s, n) \in Seq(S)
           /\ Len(RemoveAt(s, n)) = Len(s) - 1
           /\ \A i \in 1..Len(s) - 1 : RemoveAt(s, n)[i] = IF i < n THEN s[i] ELSE s[i + 1]
<1> DEFINE front == SubSeq(s, 1, n - 1)
           back  == SubSeq(s, n + 1, Len(s))
<1>1. Len(s) \in Nat /\ n \in Int
  OBVIOUS
<1>2. /\ front \in Seq(S) /\ Len(front) = n - 1
      /\ \A i \in 1..n - 1 : front[i] = s[i]
  <2>1. \A i \in 1..n - 1 : s[i] \in S
    BY <1>1
  <2>2. /\ front \in Seq(S)
        /\ Len(front) = IF 1 <= n - 1 THEN n - 1 - 1 + 1 ELSE 0
        /\ \A i \in 1..n - 1 - 1 + 1 : front[i] = s[1 + i - 1]
    BY <1>1, <2>1, SubSeqProperties
  <2> QED
    BY <1>1, <2>2
<1>3. /\ back \in Seq(S) /\ Len(back) = Len(s) - n
      /\ \A i \in 1..Len(s) - n : back[i] = s[n + i]
  <2>1. \A i \in n + 1..Len(s) : s[i] \in S
    BY <1>1
  <2>2. /\ back \in Seq(S)
        /\ Len(back) = IF n + 1 <= Len(s) THEN Len(s) - (n + 1) + 1 ELSE 0
        /\ \A i \in 1..Len(s) - (n + 1) + 1 : back[i] = s[n + 1 + i - 1]
    BY <1>1, <2>1, SubSeqProperties
  <2> QED
    BY <1>1, <2>2
<1> HIDE DEF front, back
<1>4. /\ front \o back \in Seq(S)
      /\ Len(front \o back) = Len(s) - 1
      /\ \A i \in 1..Len(s) - 1 :
            (front \o back)[i] = IF i <= n - 1 THEN front[i] ELSE back[i - (n - 1)]
  <2>1. /\ front \o back \in Seq(S)
        /\ Len(front \o back) = Len(front) + Len(back)
        /\ \A i \in 1..Len(front) + Len(back) :
              (front \o back)[i] = IF i <= Len(front) THEN front[i] ELSE back[i - Len(front)]
    BY <1>2, <1>3, ConcatProperties
  <2> QED
    BY <1>1, <1>2, <1>3, <2>1
<1>5. \A i \in 1..Len(s) - 1 : (front \o back)[i] = IF i < n THEN s[i] ELSE s[i + 1]
  <2>1. ASSUME NEW i \in 1..Len(s) - 1, i < n
        PROVE  (front \o back)[i] = s[i]
    BY <1>1, <1>2, <1>4, <2>1
  <2>2. ASSUME NEW i \in 1..Len(s) - 1, ~(i < n)
        PROVE  (front \o back)[i] = s[i + 1]
    <3>1. (front \o back)[i] = back[i - (n - 1)] /\ i - (n - 1) \in 1..Len(s) - n
      BY <1>1, <1>4, <2>2
    <3>2. n + (i - (n - 1)) = i + 1
      BY <1>1
    <3> QED
      BY <1>3, <3>1, <3>2
  <2> QED
    BY <2>1, <2>2
<1> QED
  BY <1>4, <1>5 DEF RemoveAt, front, back

LEMMA ErasedQueues ==
    ASSUME NEW queues \in Seq(Queue), OneQueue(queues), NEW o
    PROVE  /\ Erased(queues, o) \in Seq(Queue)
           /\ OneQueue(Erased(queues, o))
           /\ \A i \in DOMAIN Erased(queues, o) :
                 \E j \in DOMAIN queues : queues[j].owner # o /\ Erased(queues, o)[i] = queues[j]
<1>1. CASE ~\E i \in DOMAIN queues : queues[i].owner = o
  BY <1>1 DEF Erased
<1>2. CASE \E i \in DOMAIN queues : queues[i].owner = o
  <2> DEFINE n == CHOOSE i \in DOMAIN queues : queues[i].owner = o
             rest == RemoveAt(queues, n)
  <2>1. n \in 1..Len(queues) /\ queues[n].owner = o
    BY <1>2
  <2>2. /\ rest \in Seq(Queue) /\ Len(rest) = Len(queues) - 1
        /\ \A i \in 1..Len(queues) - 1 : rest[i] = IF i < n THEN queues[i] ELSE queues[i + 1]
    BY <2>1, RemoveAtProperties
  <2> HIDE DEF n, rest
  <2>3. DOMAIN rest = 1..Len(queues) - 1 /\ Len(queues) \in Nat /\ DOMAIN queues = 1..Len(queues)
    BY <2>2
  <2>4. \A j \in DOMAIN queues : j # n => queues[j].owner # o
    BY <2>1, <2>3 DEF OneQueue
  <2>5. OneQueue(rest)
    <3> SUFFICES ASSUME NEW i \in DOMAIN rest, NEW j \in DOMAIN rest,
                        rest[i].owner = rest[j].owner
                 PROVE  i = j
      BY DEF OneQueue
    <3> DEFINE from(k) == IF k < n THEN k ELSE k + 1
    <3>1. \A k \in DOMAIN rest : from(k) \in DOMAIN queues /\ rest[k] = queues[from(k)]
      BY <2>1, <2>2, <2>3
    <3>2. from(i) = from(j)
      BY <3>1 DEF OneQueue
    <3> QED
      BY <2>1, <2>3, <3>2
  <2>6. \A i \in DOMAIN rest :
           \E j \in DOMAIN queues : queues[j].owner # o /\ rest[i] = queues[j]
    BY <2>1, <2>2, <2>3, <2>4
  <2>7. Erased(queues, o) = rest
    BY <1>2 DEF Erased, rest, n
  <2> QED
    BY <2>2, <2>5, <2>6, <2>7
<1> QED
  BY <1>1, <1>2

LEMMA AddedQueues ==
    ASSUME NEW queues \in Seq(Queue), OneQueue(queues), NEW o \in Owners, NEW t \in Nat
    PROVE  /\ Added(queues, o, t) \in Seq(Queue)
           /\ OneQueue(Added(queues, o, t))
           /\ \A i \in DOMAIN Added(queues, o, t) :
                 LET queue == Added(queues, o, t)[i] IN
                 \/ \E j \in DOMAIN queues : queue = queues[j]
                 \/ /\ queue.owner = o /\ queue.tasks # <<>>
                    /\ \A k \in DOMAIN queue.tasks :
                          \/ queue.tasks[k] = t
                          \/ \E j \in DOMAIN queues :
                                /\ queues[j].owner = o
                                /\ \E n \in DOMAIN queues[j].tasks : queue.tasks[k] = queues[j].tasks[n]
<1> DEFINE after == Added(queues, o, t)
<1>0. Len(queues) \in Nat /\ DOMAIN queues = 1..Len(queues)
  OBVIOUS
<1>1. CASE \E i \in DOMAIN queues : queues[i].owner = o
  <2>1. after = [i \in DOMAIN queues |->
            IF queues[i].owner = o THEN [queues[i] EXCEPT !.tasks = Append(@, t)] ELSE queues[i]]
    BY <1>1 DEF Added
  <2> HIDE DEF after
  <2>2. \A i \in DOMAIN queues :
          /\ queues[i] \in Queue
          /\ Append(queues[i].tasks, t) \in Seq(Nat)
          /\ Append(queues[i].tasks, t) # <<>>
          /\ after[i] \in Queue /\ after[i].owner = queues[i].owner
    <3> SUFFICES ASSUME NEW i \in DOMAIN queues
                 PROVE  /\ queues[i] \in Queue
                        /\ Append(queues[i].tasks, t) \in Seq(Nat)
                        /\ Append(queues[i].tasks, t) # <<>>
                        /\ after[i] \in Queue /\ after[i].owner = queues[i].owner
      OBVIOUS
    <3>1. queues[i] \in Queue
      OBVIOUS
    <3>2. queues[i].tasks \in Seq(Nat)
      BY <3>1 DEF Queue
    <3>3. Append(queues[i].tasks, t) \in Seq(Nat) /\ Append(queues[i].tasks, t) # <<>>
      BY <3>2, AppendProperties
    <3>4. after[i] \in Queue /\ after[i].owner = queues[i].owner
      <4>1. CASE queues[i].owner = o
        <5>1. after[i] = [queues[i] EXCEPT !.tasks = Append(queues[i].tasks, t)]
          BY <2>1, <4>1
        <5> QED
          BY <3>1, <3>3, <5>1 DEF Queue
      <4>2. CASE queues[i].owner # o
        BY <2>1, <3>1, <4>2
      <4> QED
        BY <4>1, <4>2
    <3> QED
      BY <3>1, <3>3, <3>4
  <2>3. after \in Seq(Queue) /\ DOMAIN after = DOMAIN queues
    <3>1. DOMAIN after = 1..Len(queues) /\ after = [i \in 1..Len(queues) |-> after[i]]
      BY <1>0, <2>1
    <3> QED
      BY <1>0, <2>2, <3>1, IsASeq
  <2>4. OneQueue(after)
    BY <2>2, <2>3 DEF OneQueue
  <2>5. ASSUME NEW i \in DOMAIN queues, queues[i].owner = o
        PROVE  /\ after[i].tasks # <<>>
               /\ \A k \in DOMAIN after[i].tasks :
                     \/ after[i].tasks[k] = t
                     \/ \E n \in DOMAIN queues[i].tasks : after[i].tasks[k] = queues[i].tasks[n]
    <3>1. after[i].tasks = Append(queues[i].tasks, t) /\ queues[i].tasks \in Seq(Nat)
      BY <2>1, <2>2, <2>5 DEF Queue
    <3> QED
      BY <3>1, <2>2, <2>5
  <2>6. \A i \in DOMAIN queues : queues[i].owner # o => after[i] = queues[i]
    BY <2>1
  <2> QED
    BY <2>2, <2>3, <2>4, <2>5, <2>6 DEF after
<1>2. CASE ~\E i \in DOMAIN queues : queues[i].owner = o
  <2> DEFINE new == [owner |-> o, tasks |-> <<t>>, last_served |-> 0]
  <2>1. after = Append(queues, new) /\ new \in Queue
    BY <1>2 DEF Added, Queue
  <2>2. /\ after \in Seq(Queue) /\ DOMAIN after = 1..Len(queues) + 1
        /\ \A i \in DOMAIN queues : after[i] = queues[i]
        /\ after[Len(queues) + 1] = new
    BY <1>0, <2>1
  <2> HIDE DEF after
  <2>3. OneQueue(after)
    BY <1>0, <1>2, <2>2 DEF OneQueue
  <2>4. new.owner = o /\ new.tasks # <<>> /\ \A k \in DOMAIN new.tasks : new.tasks[k] = t
    OBVIOUS
  <2> HIDE DEF new
  <2>5. ASSUME NEW i \in DOMAIN after
        PROVE  \/ \E j \in DOMAIN queues : after[i] = queues[j]
               \/ /\ after[i].owner = o /\ after[i].tasks # <<>>
                  /\ \A k \in DOMAIN after[i].tasks : after[i].tasks[k] = t
    BY <1>0, <2>2, <2>4
  <2> QED
    BY <2>2, <2>3, <2>5 DEF after
<1> QED
  BY <1>1, <1>2

-----------------------------------------------------------------------------
(* Steps                                                                   *)

LEMMA NextReadyIs ==
    ASSUME TypeInv, LaneInv, NEW at \in next_ready
    PROVE  /\ at[1] \in Lanes /\ at[2] \in DOMAIN lanes[at[1]]
           /\ lanes[at[1]] \in Seq(Queue)
           /\ LET queue == lanes[at[1]][at[2]] IN
              /\ queue \in Queue /\ queue.tasks # <<>> /\ queue.owner \notin in_flight
              /\ Head(queue.tasks) \in DOMAIN task
              /\ task[Head(queue.tasks)] = [owner |-> queue.owner, priority |-> at[1]]
<1>1. PICK p \in Lanes : at \in {p} \X DOMAIN lanes[p]
  BY DEF next_ready
<1>2. at[1] \in Lanes /\ at[2] \in DOMAIN lanes[at[1]] /\ MayServe(lanes[at[1]][at[2]])
  BY <1>1 DEF next_ready
<1>3. lanes[at[1]] \in Seq(Queue) /\ lanes[at[1]][at[2]] \in Queue
  BY <1>2 DEF TypeInv
<1> DEFINE queue == lanes[at[1]][at[2]]
<1>4. queue.tasks \in Seq(Nat) /\ queue.tasks # <<>> /\ queue.owner \notin in_flight
  BY <1>2, <1>3 DEF MayServe, Ready, Queue
<1>5. 1 \in DOMAIN queue.tasks /\ Head(queue.tasks) = queue.tasks[1]
  BY <1>4
<1>6. Belongs(queue, at[1])
  BY <1>2 DEF LaneInv
<1> QED
  BY <1>2, <1>3, <1>4, <1>5, <1>6 DEF Belongs

\* The workers as they are: a step of the UI thread, or a notification.
LEMMA HeldStays ==
    ASSUME Inv, UNCHANGED <<held_vars, in_flight>>,
           \A w \in Workers : pc'[w] \in Busy <=> pc[w] \in Busy,
           \A t \in DOMAIN task : t \in DOMAIN task' /\ task'[t] = task[t]
    PROVE  HeldInv' /\ FlightInv' /\ OneTaskPerOwner'
BY DEF Inv, HeldInv, FlightInv, OneTaskPerOwner, held_vars, Busy

LEMMA LanesStay ==
    ASSUME Inv, UNCHANGED <<task, lanes, in_flight>>
    PROVE  LaneInv'
BY DEF Inv, LaneInv, OneQueue, Belongs

LEMMA SubmitStep ==
    ASSUME Inv, NEW o \in Owners, NEW p \in Lanes, Submit(o, p)
    PROVE  Inv'
<1> DEFINE t == Len(task) + 1
           new == [owner |-> o, priority |-> p]
<1>1. /\ task \in Seq(TaskKind) /\ new \in TaskKind /\ t \in Nat
      /\ task' = Append(task, new)
      /\ lanes' = [lanes EXCEPT ![p] = Added(lanes[p], o, t)]
      /\ UNCHANGED <<in_flight, serve_seq, pc, held_vars>>
  BY DEF Submit, Inv, TypeInv, TaskKind
<1>2. /\ task' \in Seq(TaskKind)
      /\ \A u \in DOMAIN task : u \in DOMAIN task' /\ task'[u] = task[u]
      /\ t \in DOMAIN task' /\ task'[t] = new
  BY <1>1, AppendProperties
<1> HIDE DEF t, new
<1>3. lanes[p] \in Seq(Queue) /\ OneQueue(lanes[p])
  BY DEF Inv, TypeInv, LaneInv
<1>4. /\ Added(lanes[p], o, t) \in Seq(Queue) /\ OneQueue(Added(lanes[p], o, t))
      /\ \A i \in DOMAIN Added(lanes[p], o, t) :
            LET queue == Added(lanes[p], o, t)[i] IN
            \/ \E j \in DOMAIN lanes[p] : queue = lanes[p][j]
            \/ /\ queue.owner = o /\ queue.tasks # <<>>
               /\ \A k \in DOMAIN queue.tasks :
                     \/ queue.tasks[k] = t
                     \/ \E j \in DOMAIN lanes[p] :
                           /\ lanes[p][j].owner = o
                           /\ \E n \in DOMAIN lanes[p][j].tasks : queue.tasks[k] = lanes[p][j].tasks[n]
  BY <1>1, <1>3, AddedQueues
<1>5. TypeInv'
  BY <1>1, <1>2, <1>4 DEF Inv, TypeInv, held_vars
<1>6. ASSUME NEW l \in Lanes
      PROVE  /\ OneQueue(lanes'[l])
             /\ \A i \in DOMAIN lanes'[l] :
                   /\ Belongs(lanes[l][i], l)'
                   /\ lanes'[l][i].tasks = <<>> => lanes'[l][i].owner \in in_flight'
  <2>1. CASE l # p
    <3>1. lanes'[l] = lanes[l]
      BY <1>1, <2>1 DEF Inv, TypeInv
    <3>2. \A i \in DOMAIN lanes[l] : Belongs(lanes[l][i], l)'
      BY <1>2, <3>1 DEF Inv, LaneInv, Belongs
    <3> QED
      BY <1>1, <3>1, <3>2 DEF Inv, LaneInv
  <2>2. CASE l = p
    <3>1. lanes'[l] = Added(lanes[p], o, t)
      BY <1>1, <2>2 DEF Inv, TypeInv
    <3>2. ASSUME NEW i \in DOMAIN lanes'[l], NEW j \in DOMAIN lanes[p], lanes'[l][i] = lanes[p][j]
          PROVE  /\ Belongs(lanes[l][i], l)'
                 /\ lanes'[l][i].tasks = <<>> => lanes'[l][i].owner \in in_flight'
      BY <1>1, <1>2, <2>2, <3>2 DEF Inv, LaneInv, Belongs
    <3>3. ASSUME NEW i \in DOMAIN lanes'[l], lanes'[l][i].owner = o, NEW k \in DOMAIN lanes'[l][i].tasks,
                 \/ lanes'[l][i].tasks[k] = t
                 \/ \E j \in DOMAIN lanes[p] :
                       /\ lanes[p][j].owner = o
                       /\ \E n \in DOMAIN lanes[p][j].tasks : lanes'[l][i].tasks[k] = lanes[p][j].tasks[n]
          PROVE  /\ lanes'[l][i].tasks[k] \in DOMAIN task'
                 /\ task'[lanes'[l][i].tasks[k]] = [owner |-> o, priority |-> p]
      BY <1>2, <3>3 DEF Inv, LaneInv, Belongs, new
    <3> QED
      BY <1>4, <2>2, <3>1, <3>2, <3>3 DEF Belongs
  <2> QED
    BY <2>1, <2>2
<1>7. LaneInv'
  BY <1>6 DEF LaneInv, OneQueue, Belongs
<1>8. HeldInv' /\ FlightInv' /\ OneTaskPerOwner'
  BY <1>1, <1>2, HeldStays
<1> QED
  BY <1>5, <1>7, <1>8 DEF Inv

LEMMA DiscardStep ==
    ASSUME Inv, NEW o \in Owners, discard(o)
    PROVE  Inv'
<1>1. /\ lanes' = [p \in Lanes |-> Emptied(lanes[p], o)]
      /\ UNCHANGED <<task, in_flight, serve_seq, pc, held_vars>>
  BY DEF discard
<1>2. ASSUME NEW p \in Lanes
      PROVE  /\ lanes'[p] \in Seq(Queue) /\ OneQueue(lanes'[p])
             /\ \A i \in DOMAIN lanes'[p] :
                   /\ Belongs(lanes'[p][i], p)
                   /\ lanes'[p][i].tasks = <<>> => lanes'[p][i].owner \in in_flight
  <2>1. /\ lanes[p] \in Seq(Queue) /\ OneQueue(lanes[p])
        /\ \A i \in DOMAIN lanes[p] :
              Belongs(lanes[p][i], p) /\ (lanes[p][i].tasks = <<>> => lanes[p][i].owner \in in_flight)
    BY DEF Inv, TypeInv, LaneInv
  <2>2. CASE o \in in_flight
    <3>1. lanes'[p] = [i \in DOMAIN lanes[p] |->
             IF lanes[p][i].owner = o THEN [lanes[p][i] EXCEPT !.tasks = <<>>] ELSE lanes[p][i]]
      BY <1>1, <2>2 DEF Emptied
    <3>2. Len(lanes[p]) \in Nat /\ DOMAIN lanes[p] = 1..Len(lanes[p])
      BY <2>1
    <3>3. ASSUME NEW i \in DOMAIN lanes[p]
          PROVE  /\ lanes'[p][i] \in Queue /\ lanes'[p][i].owner = lanes[p][i].owner
                 /\ \/ lanes'[p][i] = lanes[p][i]
                    \/ lanes'[p][i].tasks = <<>> /\ lanes'[p][i].owner = o
      <4>1. lanes[p][i] \in Queue /\ <<>> \in Seq(Nat)
        BY <2>1
      <4>2. CASE lanes[p][i].owner = o
        <5>1. lanes'[p][i] = [lanes[p][i] EXCEPT !.tasks = <<>>]
          BY <3>1, <4>2
        <5> QED
          BY <4>1, <4>2, <5>1 DEF Queue
      <4>3. CASE lanes[p][i].owner # o
        BY <3>1, <4>1, <4>3
      <4> QED
        BY <4>2, <4>3
    <3>4. DOMAIN lanes'[p] = DOMAIN lanes[p]
      BY <3>1
    <3>5. lanes'[p] \in Seq(Queue)
      <4>1. lanes'[p] = [i \in 1..Len(lanes[p]) |-> lanes'[p][i]]
        BY <3>1, <3>2
      <4> QED
        BY <3>2, <3>3, <4>1, IsASeq
    <3>6. OneQueue(lanes'[p])
      BY <2>1, <3>3, <3>4 DEF OneQueue
    <3>7. \A i \in DOMAIN lanes'[p] :
            Belongs(lanes'[p][i], p) /\ (lanes'[p][i].tasks = <<>> => lanes'[p][i].owner \in in_flight)
      BY <2>1, <2>2, <3>3, <3>4 DEF Belongs
    <3> QED
      BY <3>5, <3>6, <3>7
  <2>3. CASE o \notin in_flight
    <3>1. lanes'[p] = Erased(lanes[p], o)
      BY <1>1, <2>3 DEF Emptied
    <3> QED
      BY <2>1, <3>1, ErasedQueues
  <2> QED
    BY <2>2, <2>3
<1>3. TypeInv'
  BY <1>1, <1>2 DEF Inv, TypeInv, held_vars
<1>4. LaneInv'
  <2>1. \A p \in Lanes : \A i \in DOMAIN lanes'[p] : Belongs(lanes[p][i], p)'
    BY <1>1, <1>2 DEF Belongs
  <2>2. \A p \in Lanes : OneQueue(lanes[p])'
    BY <1>2 DEF OneQueue
  <2> QED
    BY <1>1, <1>2, <2>1, <2>2 DEF LaneInv
<1>5. HeldInv' /\ FlightInv' /\ OneTaskPerOwner'
  BY <1>1, HeldStays
<1> QED
  BY <1>3, <1>4, <1>5 DEF Inv

LEMMA TakeStep ==
    ASSUME Inv, NEW w \in Workers, Take(w)
    PROVE  Inv'
<1> USE DEF Inv
<1>1. CASE UNCHANGED <<queue_vars, held_vars>> /\ pc[w] = "awake" /\ \E l \in {"exited", "asleep"} : Goto(w, l)
  <2>1. UNCHANGED <<task, lanes, in_flight, serve_seq, held_vars>>
    BY <1>1 DEF queue_vars
  <2>2. TypeInv'
    BY <1>1, <2>1 DEF TypeInv, Goto, held_vars, Places
  <2>3. LaneInv'
    BY <2>1, LanesStay
  <2>4. \A v \in Workers : pc'[v] \in Busy <=> pc[v] \in Busy
    BY <1>1 DEF TypeInv, Goto, Busy
  <2> QED
    BY <2>1, <2>2, <2>3, <2>4, HeldStays
<1>2. ASSUME NEW at \in next_ready,
             LET p == at[1]  i == at[2]  t == Head(lanes[p][i].tasks) IN
             /\ job' = [job EXCEPT ![w] = t]
             /\ lanes' = [lanes EXCEPT ![p][i].tasks = Tail(@), ![p][i].last_served = serve_seq + 1]
             /\ owner' = [owner EXCEPT ![w] = lanes[p][i].owner]
             /\ in_flight' = in_flight \cup {lanes[p][i].owner},
             serve_seq' = serve_seq + 1, Goto(w, "popped"), UNCHANGED task, pc[w] = "awake"
      PROVE  Inv'
  <2> DEFINE p == at[1]
             i == at[2]
             queue == lanes[p][i]
             left == [queue EXCEPT !.tasks = Tail(queue.tasks), !.last_served = serve_seq + 1]
  <2>1. /\ p \in Lanes /\ i \in DOMAIN lanes[p] /\ lanes[p] \in Seq(Queue)
        /\ queue \in Queue /\ queue.tasks # <<>> /\ queue.owner \notin in_flight
        /\ Head(queue.tasks) \in DOMAIN task
        /\ task[Head(queue.tasks)] = [owner |-> queue.owner, priority |-> p]
    BY NextReadyIs
  <2>2. /\ job' = [job EXCEPT ![w] = Head(queue.tasks)]
        /\ lanes' = [lanes EXCEPT ![p] = [lanes[p] EXCEPT ![i] = left]]
        /\ owner' = [owner EXCEPT ![w] = queue.owner]
        /\ in_flight' = in_flight \cup {queue.owner}
    BY <1>2, <2>1 DEF TypeInv, Queue
  <2>3. queue.tasks \in Seq(Nat) /\ queue.owner \in Owners /\ queue.owner # NoOwner
    BY <2>1, DispatcherConstants DEF Queue, NoOwner
  <2>4. /\ left \in Queue /\ left.owner = queue.owner
        /\ left.tasks = Tail(queue.tasks)
        /\ \A k \in DOMAIN left.tasks : k + 1 \in DOMAIN queue.tasks /\ left.tasks[k] = queue.tasks[k + 1]
    <3>1. /\ Tail(queue.tasks) \in Seq(Nat) /\ Len(queue.tasks) \in Nat \ {0}
          /\ DOMAIN Tail(queue.tasks) = 1..Len(queue.tasks) - 1
          /\ \A k \in 1..Len(queue.tasks) - 1 : Tail(queue.tasks)[k] = queue.tasks[k + 1]
      <4>1. PICK s \in Seq(Nat) : s = queue.tasks
        BY <2>3
      <4>2. s # <<>>
        BY <2>1, <4>1
      <4>3. /\ Tail(s) \in Seq(Nat) /\ Len(s) \in Nat \ {0}
            /\ DOMAIN Tail(s) = 1..Len(s) - 1
            /\ \A k \in 1..Len(s) - 1 : Tail(s)[k] = s[k + 1]
        BY ONLY <4>2, HeadTailProperties
      <4> QED
        BY ONLY <4>1, <4>3
    <3>2. serve_seq + 1 \in Nat
      BY DEF TypeInv
    <3>3. left \in Queue /\ left.owner = queue.owner /\ left.tasks = Tail(queue.tasks)
      BY <2>1, <3>1, <3>2 DEF Queue
    <3>4. \A k \in DOMAIN left.tasks : k + 1 \in DOMAIN queue.tasks
      BY <3>1, <3>3
    <3> QED
      BY <3>1, <3>3, <3>4
  <2>5. Head(queue.tasks) \in Nat /\ Head(queue.tasks) # NoTask
    <3>1. PICK t : t = Head(queue.tasks)
      OBVIOUS
    <3>2. t \in DOMAIN task /\ task \in Seq(TaskKind)
      BY <2>1, <3>1 DEF TypeInv
    <3>3. t \in Nat /\ t >= 1
      BY ONLY <3>2
    <3> QED
      BY ONLY <3>1, <3>3 DEF NoTask
  <2> HIDE DEF p, i, queue, left
  <2>6. pc' = [pc EXCEPT ![w] = "popped"] /\ serve_seq' \in Nat /\ task' = task
    BY <1>2 DEF TypeInv, Goto
  <2>7. TypeInv'
    <3>1. [lanes[p] EXCEPT ![i] = left] \in Seq(Queue)
      BY <2>1, <2>4
    <3>2. lanes' \in [Lanes -> Seq(Queue)]
      BY <2>1, <2>2, <3>1 DEF TypeInv
    <3>3. job' \in [Workers -> Nat] /\ owner' \in [Workers -> Owners \cup {NoOwner}]
      BY <2>2, <2>3, <2>5 DEF TypeInv
    <3> QED
      BY <2>6, <3>2, <3>3 DEF TypeInv, Places
  <2>8. LaneInv'
    <3>1. ASSUME NEW l \in Lanes, l # p
          PROVE  lanes'[l] = lanes[l]
      BY <2>2, <3>1 DEF TypeInv
    <3>2. /\ DOMAIN lanes'[p] = DOMAIN lanes[p] /\ lanes'[p][i] = left
          /\ \A j \in DOMAIN lanes[p] : j # i => lanes'[p][j] = lanes[p][j]
      BY <2>1, <2>2 DEF TypeInv
    <3>3. lanes[p][i] = queue
      BY DEF queue, p, i
    <3>4. \A l \in Lanes : OneQueue(lanes[l])'
      BY <2>4, <3>1, <3>2, <3>3 DEF LaneInv, OneQueue
    <3>5. ASSUME NEW l \in Lanes, NEW j \in DOMAIN lanes'[l]
          PROVE  /\ Belongs(lanes[l][j], l)'
                 /\ lanes'[l][j].tasks = <<>> => lanes'[l][j].owner \in in_flight'
      <4>1. CASE l # p \/ j # i
        <5>1. j \in DOMAIN lanes[l] /\ lanes'[l][j] = lanes[l][j]
          BY <3>1, <3>2, <3>5, <4>1
        <5> QED
          BY <2>2, <2>6, <5>1 DEF LaneInv, Belongs
      <4>2. CASE l = p /\ j = i
        <5>1. lanes'[l][j] = left /\ Belongs(queue, p)
          BY <2>1, <3>2, <3>3, <4>2 DEF LaneInv
        <5>2. lanes'[l][j].owner \in in_flight'
          BY <2>2, <2>4, <5>1
        <5>3. Belongs(left, p)
          BY <2>4, <5>1 DEF Belongs
        <5>4. Belongs(lanes[l][j], l)'
          BY <2>6, <4>2, <5>1, <5>3 DEF Belongs
        <5> QED
          BY <5>2, <5>4
      <4> QED
        BY <4>1, <4>2
    <3> QED
      BY <3>4, <3>5 DEF LaneInv
  <2>9. HeldInv'
    BY <2>1, <2>2, <2>3, <2>5, <2>6 DEF TypeInv, HeldInv, Busy
  <2>10. FlightInv'
    <3>1. owner[w] = NoOwner
      BY <1>2 DEF HeldInv, Busy
    <3> QED
      BY <2>2, <2>3, <3>1 DEF TypeInv, FlightInv
  <2>11. OneTaskPerOwner'
    BY <2>1, <2>2, <2>3 DEF TypeInv, FlightInv, OneTaskPerOwner
  <2> QED
    BY <2>7, <2>8, <2>9, <2>10, <2>11
<1> QED
  BY <1>1, <1>2 DEF Take

LEMMA ReleaseStep ==
    ASSUME Inv, NEW w \in Workers, release(w)
    PROVE  Inv'
<1> DEFINE o == owner[w]
<1>1. /\ lanes' = [p \in Lanes |-> Swept(lanes[p], o)]
      /\ in_flight' = in_flight \ {o}
      /\ job' = [job EXCEPT ![w] = NoTask] /\ owner' = [owner EXCEPT ![w] = NoOwner]
      /\ pc' = [pc EXCEPT ![w] = "notify_all"] /\ pc[w] = "release"
      /\ UNCHANGED <<task, serve_seq>>
  BY DEF release, Released, Goto
<1> HIDE DEF o
<1>2. ASSUME NEW p \in Lanes
      PROVE  /\ lanes'[p] \in Seq(Queue) /\ OneQueue(lanes'[p])
             /\ \A i \in DOMAIN lanes'[p] :
                   /\ Belongs(lanes'[p][i], p)
                   /\ lanes'[p][i].tasks = <<>> => lanes'[p][i].owner \in in_flight'
  <2>1. /\ lanes[p] \in Seq(Queue) /\ OneQueue(lanes[p])
        /\ \A i \in DOMAIN lanes[p] :
              Belongs(lanes[p][i], p) /\ (lanes[p][i].tasks = <<>> => lanes[p][i].owner \in in_flight)
    BY DEF Inv, TypeInv, LaneInv
  <2>2. CASE \E i \in DOMAIN lanes[p] : lanes[p][i].owner = o /\ lanes[p][i].tasks = <<>>
    <3>1. lanes'[p] = Erased(lanes[p], o)
      BY <1>1, <2>2 DEF Swept
    <3>2. /\ Erased(lanes[p], o) \in Seq(Queue) /\ OneQueue(Erased(lanes[p], o))
          /\ \A i \in DOMAIN Erased(lanes[p], o) :
                \E j \in DOMAIN lanes[p] :
                   lanes[p][j].owner # o /\ Erased(lanes[p], o)[i] = lanes[p][j]
      BY <2>1, ErasedQueues
    <3> QED
      BY <1>1, <2>1, <3>1, <3>2
  <2>3. CASE ~\E i \in DOMAIN lanes[p] : lanes[p][i].owner = o /\ lanes[p][i].tasks = <<>>
    <3>1. lanes'[p] = lanes[p]
      BY <1>1, <2>3 DEF Swept
    <3> QED
      BY <1>1, <2>1, <2>3, <3>1
  <2> QED
    BY <2>2, <2>3
<1>3. TypeInv'
  BY <1>1, <1>2 DEF Inv, TypeInv, NoTask, Places
<1>4. LaneInv'
  <2>1. \A p \in Lanes : \A i \in DOMAIN lanes'[p] : Belongs(lanes[p][i], p)'
    <3> SUFFICES ASSUME NEW p \in Lanes, NEW i \in DOMAIN lanes'[p]
                 PROVE  Belongs(lanes[p][i], p)'
      OBVIOUS
    <3>1. Belongs(lanes'[p][i], p) /\ task' = task
      BY <1>1, <1>2
    <3> QED
      BY <3>1 DEF Belongs
  <2>2. \A p \in Lanes : OneQueue(lanes[p])'
    BY <1>2 DEF OneQueue
  <2> QED
    BY <1>2, <2>1, <2>2 DEF LaneInv
<1>5. o # NoOwner
  BY <1>1 DEF Inv, HeldInv, Busy, o
<1>6. HeldInv' /\ OneTaskPerOwner'
  BY <1>1 DEF Inv, TypeInv, HeldInv, OneTaskPerOwner, Busy
<1>7. FlightInv'
  <2>1. \A v \in Workers : v # w => owner[v] # o
    BY <1>5 DEF Inv, OneTaskPerOwner, o
  <2> QED
    BY <1>1, <1>5, <2>1 DEF Inv, TypeInv, FlightInv, o
<1> QED
  BY <1>3, <1>4, <1>6, <1>7 DEF Inv

-----------------------------------------------------------------------------
(* Theorems                                                                *)

LEMMA InitInv == Init => Inv
<1> SUFFICES ASSUME Init
             PROVE  Inv
  OBVIOUS
<1>1. TypeInv
  BY DEF Init, TypeInv, Places, NoTask
<1>2. LaneInv
  BY DEF Init, LaneInv, OneQueue
<1>3. HeldInv /\ FlightInv /\ OneTaskPerOwner
  BY DEF Init, HeldInv, FlightInv, OneTaskPerOwner, Busy
<1> QED
  BY <1>1, <1>2, <1>3 DEF Inv

LEMMA StepInv ==
    ASSUME Inv, [Next]_vars
    PROVE  Inv'
<1>1. ASSUME UNCHANGED <<task, lanes, in_flight, serve_seq, held_vars>>,
             pc' \in [Workers -> Places],
             \A w \in Workers : pc'[w] \in Busy <=> pc[w] \in Busy
      PROVE  Inv'
  <2>1. TypeInv'
    BY <1>1 DEF Inv, TypeInv, held_vars
  <2>2. LaneInv'
    BY <1>1, LanesStay
  <2>3. HeldInv' /\ FlightInv' /\ OneTaskPerOwner'
    BY <1>1, HeldStays
  <2> QED
    BY <2>1, <2>2, <2>3 DEF Inv
<1>2. ASSUME NEW w \in Workers, SpuriousWakeup(w) \/ Check(w) \/ RunEnds(w)
      PROVE  Inv'
  BY <1>1, <1>2 DEF SpuriousWakeup, Check, RunEnds, Goto, Inv, TypeInv, queue_vars, Busy, Places
<1>3. ASSUME NEW w \in Workers, ReleaseNotifies(w)
      PROVE  Inv'
  BY <1>1, <1>3 DEF ReleaseNotifies, NotifyAll, Asleep, Inv, TypeInv, queue_vars, Busy, Places
<1>4. ASSUME NEW w \in Workers, WorkerStep(w)
      PROVE  Inv'
  BY <1>2, <1>3, <1>4, TakeStep, ReleaseStep DEF WorkerStep
<1>5. CASE UIReturns
  <2>1. CASE SubmitReturns
    BY <1>1, <2>1 DEF SubmitReturns, NotifyOne, Asleep, Inv, TypeInv, queue_vars, Busy, Places
  <2>2. CASE StopNotifies
    BY <1>1, <2>2 DEF StopNotifies, NotifyAll, Asleep, Inv, TypeInv, queue_vars, Busy, Places
  <2>3. CASE Joined
    BY <1>1, <2>3 DEF Joined, Inv, TypeInv, queue_vars
  <2> QED
    BY <1>5, <2>1, <2>2, <2>3 DEF UIReturns
<1>6. ASSUME NEW w \in Workers, Spawn(w)
      PROVE  Inv'
  BY <1>1, <1>6 DEF Spawn, Goto, Inv, TypeInv, queue_vars, Busy, Places
<1>7. CASE SpawnFails \/ BeginStop \/ (\E o \in Owners : Expire(o)) \/ UNCHANGED vars
  BY <1>1, <1>7 DEF SpawnFails, BeginStop, Expire, vars, Inv, TypeInv, queue_vars
<1>8. ASSUME NEW o \in Owners, discard(o) \/ \E p \in Lanes : Submit(o, p)
      PROVE  Inv'
  BY <1>8, DiscardStep, SubmitStep
<1> QED
  BY <1>2, <1>4, <1>5, <1>6, <1>7, <1>8 DEF Next, Step, UICall, Done

THEOREM Invariance == SafeSpec => []Inv
<1>1. Init => Inv
  BY InitInv
<1>2. Inv /\ [Next]_vars => Inv'
  BY StepInv
<1> QED
  BY <1>1, <1>2, PTL DEF SafeSpec

\* Two workers never have tasks of one owner out at once: a session's scans,
\* which share a MuPDF context and document, never overlap.
THEOREM OwnersAlternate == SafeSpec => []OneTaskPerOwner
<1>1. Inv => OneTaskPerOwner
  BY DEF Inv
<1> QED
  BY <1>1, Invariance, PTL

\* An owner is barred from next_ready exactly while one of its tasks is out.
THEOREM FlightIsExact == SafeSpec => []InFlightExact
<1>1. Inv => InFlightExact
  <2> SUFFICES ASSUME Inv
               PROVE  InFlightExact
    OBVIOUS
  <2>1. \A w \in Workers : job[w] # NoTask <=> owner[w] # NoOwner
    BY DEF Inv, HeldInv
  <2>2. \A w \in Workers : job[w] # NoTask => owner[w] = task[job[w]].owner
    BY DEF Inv, HeldInv
  <2> QED
    BY <2>1, <2>2 DEF Inv, FlightInv, InFlightExact
<1> QED
  BY <1>1, Invariance, PTL

\* No lane has two queues of an owner, and an emptied one stays only while
\* its owner is in flight.
THEOREM LanesAreKept == SafeSpec => []QueuesKept
<1>1. Inv => QueuesKept
  BY DEF Inv, LaneInv, OneQueue, QueuesKept
<1> QED
  BY <1>1, Invariance, PTL

-----------------------------------------------------------------------------
(* What the sessions are promised.                                         *)

Fates == {"absent", "queued", "running", "done", "discarded"}

Queued == {t \in Tasks : fate[t] = "queued"}

Holds(queue, t) == \E k \in DOMAIN queue.tasks : queue.tasks[k] = t
Waits(queues, t) == \E i \in DOMAIN queues : Holds(queues[i], t)

\* In the order of submission, so that the first is the oldest.
Rising(s) == \A i, j \in DOMAIN s : i < j => s[i] < s[j]
AllRise(queues) == \A i \in DOMAIN queues : Rising(queues[i].tasks)

FateFits ==
    /\ Len(task) <= MaxTasks /\ fate \in [Tasks -> Fates]
    /\ \A t \in Tasks : fate[t] = "absent" <=> t > Len(task)

\* A task that waits is in a lane and one that runs is with a worker, and the
\* other way round.
WhereFits ==
    /\ \A t \in Tasks : fate[t] = "queued" <=> \E p \in Lanes : Waits(lanes[p], t)
    /\ \A t \in Tasks : fate[t] = "running" <=> \E w \in Workers : job[w] = t

CountFits == queued = Cardinality(Queued)

\* Nothing is submitted before there are workers nor once they stop, and a
\* worker leaves when nothing waits.
PoolFits ==
    /\ (ui = "spawning" \/ \E w \in Workers : pc[w] = "unborn") => task = <<>>
    /\ ui \in {"open", "notify_one"} => \A w \in Workers : pc[w] # "unborn"
    /\ stop => ui \in {"notify_all", "joining", "gone"}
    /\ \A w \in Workers : pc[w] = "exited" => stop /\ queued = 0

TasksInv == FateFits /\ WhereFits /\ (\A p \in Lanes : AllRise(lanes[p])) /\ CountFits /\ PoolFits

LEMMA TasksFinite ==
    /\ MaxTasks \in Nat /\ \A t \in Tasks : t \in Nat /\ t >= 1 /\ t <= MaxTasks
    /\ IsFiniteSet(Queued) /\ Cardinality(Queued) \in Nat
<1>1. MaxTasks \in Nat
  BY DispatcherConstants DEF DispatcherConstants
<1>2. IsFiniteSet(Tasks)
  BY <1>1, FS_Interval DEF Tasks
<1>3. Queued \subseteq Tasks
  BY DEF Queued
<1>4. IsFiniteSet(Queued) /\ Cardinality(Queued) \in Nat
  BY <1>2, <1>3, FS_Subset, FS_CardinalityType
<1>5. \A t \in Tasks : t \in Nat /\ t >= 1 /\ t <= MaxTasks
  BY <1>1 DEF Tasks
<1> QED
  BY <1>1, <1>4, <1>5

LEMMA TaskIs ==
    ASSUME Inv, FateFits
    PROVE  /\ Len(task) \in Nat /\ DOMAIN task = 1..Len(task) /\ DOMAIN task \subseteq Tasks
           /\ \A t \in Tasks : t \in DOMAIN task <=> fate[t] # "absent"
<1>1. Len(task) \in Nat /\ DOMAIN task = 1..Len(task)
  BY DEF Inv, TypeInv
<1>2. DOMAIN task \subseteq Tasks
  BY <1>1, TasksFinite DEF FateFits, Tasks
<1>3. ASSUME NEW t \in Tasks PROVE t \in DOMAIN task <=> fate[t] # "absent"
  <2>1. t \in Nat /\ t >= 1
    BY TasksFinite
  <2>2. t \in DOMAIN task <=> ~(t > Len(task))
    BY <1>1, <2>1
  <2> QED
    BY <2>2 DEF FateFits
<1> QED
  BY <1>1, <1>2, <1>3

\* What a lane holds is known by its owner and its priority.
LEMMA HeldIs ==
    ASSUME Inv, NEW p \in Lanes, NEW i \in DOMAIN lanes[p], NEW t, Holds(lanes[p][i], t)
    PROVE  t \in DOMAIN task /\ task[t].owner = lanes[p][i].owner /\ task[t].priority = p
<1>1. Belongs(lanes[p][i], p)
  BY DEF Inv, LaneInv
<1>2. PICK k \in DOMAIN lanes[p][i].tasks : lanes[p][i].tasks[k] = t
  BY DEF Holds
<1> QED
  BY <1>1, <1>2 DEF Belongs

LEMMA HeldOnce ==
    ASSUME Inv, NEW p \in Lanes, NEW i \in DOMAIN lanes[p], NEW q \in Lanes, NEW j \in DOMAIN lanes[q],
           NEW t, Holds(lanes[p][i], t), Holds(lanes[q][j], t)
    PROVE  p = q /\ i = j
<1>1. p = q /\ lanes[p][i].owner = lanes[q][j].owner
  BY HeldIs
<1>2. OneQueue(lanes[p])
  BY DEF Inv, LaneInv
<1> QED
  BY <1>1, <1>2 DEF OneQueue

\* A worker's task is its alone.
LEMMA JobOnce ==
    ASSUME Inv, NEW v \in Workers, NEW w \in Workers, job[v] = job[w], job[w] # NoTask
    PROVE  v = w
<1>1. owner[v] = task[job[v]].owner /\ owner[w] = task[job[w]].owner /\ owner[v] # NoOwner
  BY DEF Inv, HeldInv
<1> QED
  BY <1>1 DEF Inv, OneTaskPerOwner

LEMMA AddedHolds ==
    ASSUME NEW queues \in Seq(Queue), NEW o \in Owners, NEW t \in Nat, AllRise(queues),
           \A i \in DOMAIN queues : \A k \in DOMAIN queues[i].tasks : queues[i].tasks[k] < t
    PROVE  /\ AllRise(Added(queues, o, t))
           /\ \A u : Waits(Added(queues, o, t), u) <=> (u = t \/ Waits(queues, u))
<1> DEFINE after == Added(queues, o, t)
<1>0. Len(queues) \in Nat /\ DOMAIN queues = 1..Len(queues)
  OBVIOUS
<1>1. CASE \E i \in DOMAIN queues : queues[i].owner = o
  <2>1. after = [i \in DOMAIN queues |->
            IF queues[i].owner = o THEN [queues[i] EXCEPT !.tasks = Append(@, t)] ELSE queues[i]]
    BY <1>1 DEF Added
  <2> HIDE DEF after
  <2>2. ASSUME NEW i \in DOMAIN queues
        PROVE  /\ queues[i].owner # o => after[i] = queues[i]
               /\ queues[i].owner = o => after[i].tasks = Append(queues[i].tasks, t)
               /\ queues[i].tasks \in Seq(Nat)
    <3>1. queues[i] \in Queue
      OBVIOUS
    <3>2. queues[i].owner = o => after[i] = [queues[i] EXCEPT !.tasks = Append(queues[i].tasks, t)]
      BY <2>1
    <3>3. queues[i].owner # o => after[i] = queues[i]
      BY <2>1
    <3> QED
      BY <3>1, <3>2, <3>3 DEF Queue
  <2>3. ASSUME NEW i \in DOMAIN queues, queues[i].owner = o
        PROVE  Rising(after[i].tasks) /\ \A u : Holds(after[i], u) <=> (u = t \/ Holds(queues[i], u))
    <3>1. PICK s \in Seq(Nat) : s = queues[i].tasks
      BY <2>2
    <3>2. PICK s2 : s2 = after[i].tasks
      OBVIOUS
    <3>3. s2 = Append(s, t)
      BY <2>2, <2>3, <3>1, <3>2
    <3>4. Rising(s) /\ \A k \in DOMAIN s : s[k] < t
      BY <3>1 DEF AllRise
    <3>5. /\ Len(s) \in Nat /\ DOMAIN s = 1..Len(s) /\ DOMAIN s2 = 1..Len(s) + 1
          /\ \A k \in 1..Len(s) : s2[k] = s[k]
          /\ s2[Len(s) + 1] = t
      BY <3>3
    <3>6. Rising(s2)
      BY <3>4, <3>5 DEF Rising
    <3>7. \A u : (\E k \in DOMAIN s2 : s2[k] = u) <=> (u = t \/ \E k \in DOMAIN s : s[k] = u)
      <4>1. \A k \in DOMAIN s2 : k \in DOMAIN s \/ k = Len(s) + 1
        BY <3>5
      <4>2. \A k \in DOMAIN s : k \in DOMAIN s2
        BY <3>5
      <4>3. Len(s) + 1 \in DOMAIN s2
        BY <3>5
      <4> QED
        BY <3>5, <4>1, <4>2, <4>3
    <3> QED
      BY <3>1, <3>2, <3>6, <3>7 DEF Holds
  <2>4. DOMAIN after = DOMAIN queues
    BY <2>1
  <2>5. ASSUME NEW i \in DOMAIN queues, queues[i].owner # o
        PROVE  Rising(after[i].tasks) /\ \A u : Holds(after[i], u) <=> Holds(queues[i], u)
    BY <2>2, <2>5 DEF AllRise, Holds
  <2>6. AllRise(after)
    BY <2>3, <2>4, <2>5 DEF AllRise
  <2>7. \A u : Waits(after, u) <=> (u = t \/ Waits(queues, u))
    BY <1>1, <2>3, <2>4, <2>5 DEF Waits
  <2> QED
    BY <2>6, <2>7 DEF after
<1>2. CASE ~\E i \in DOMAIN queues : queues[i].owner = o
  <2> DEFINE new == [owner |-> o, tasks |-> <<t>>, last_served |-> 0]
  <2>1. after = Append(queues, new) /\ new \in Queue
    BY <1>2 DEF Added, Queue
  <2>2. Rising(new.tasks) /\ \A u : Holds(new, u) <=> u = t
    BY DEF Rising, Holds
  <2> HIDE DEF new
  <2>3. /\ DOMAIN after = 1..Len(queues) + 1
        /\ \A i \in DOMAIN queues : i \in DOMAIN after /\ after[i] = queues[i]
        /\ after[Len(queues) + 1] = new /\ Len(queues) + 1 \in DOMAIN after
        /\ \A i \in DOMAIN after : i \in DOMAIN queues \/ i = Len(queues) + 1
    BY <1>0, <2>1
  <2> HIDE DEF after
  <2>4. AllRise(after)
    BY <2>2, <2>3 DEF AllRise
  <2>5. \A u : Waits(after, u) <=> (u = t \/ Waits(queues, u))
    BY <2>2, <2>3 DEF Waits
  <2> QED
    BY <2>4, <2>5 DEF after
<1> QED
  BY <1>1, <1>2

LEMMA ErasedHolds ==
    ASSUME NEW queues \in Seq(Queue), OneQueue(queues), NEW o, AllRise(queues)
    PROVE  /\ AllRise(Erased(queues, o))
           /\ \A u : Waits(Erased(queues, o), u) <=>
                \E i \in DOMAIN queues : queues[i].owner # o /\ Holds(queues[i], u)
<1>1. \A i \in DOMAIN Erased(queues, o) :
         \E j \in DOMAIN queues : queues[j].owner # o /\ Erased(queues, o)[i] = queues[j]
  BY ErasedQueues
<1>2. ASSUME NEW j \in DOMAIN queues, queues[j].owner # o
      PROVE  \E i \in DOMAIN Erased(queues, o) : Erased(queues, o)[i] = queues[j]
  <2>1. CASE ~\E i \in DOMAIN queues : queues[i].owner = o
    BY <2>1 DEF Erased
  <2>2. CASE \E i \in DOMAIN queues : queues[i].owner = o
    <3> DEFINE n == CHOOSE i \in DOMAIN queues : queues[i].owner = o
               rest == RemoveAt(queues, n)
    <3>1. n \in 1..Len(queues) /\ queues[n].owner = o
      BY <2>2
    <3>2. /\ rest \in Seq(Queue) /\ Len(rest) = Len(queues) - 1
          /\ \A i \in 1..Len(queues) - 1 : rest[i] = IF i < n THEN queues[i] ELSE queues[i + 1]
      BY <3>1, RemoveAtProperties
    <3>3. Erased(queues, o) = rest
      BY <2>2 DEF Erased
    <3> HIDE DEF n, rest
    <3>4. DOMAIN rest = 1..Len(queues) - 1 /\ Len(queues) \in Nat /\ DOMAIN queues = 1..Len(queues)
      BY <3>2
    <3>5. j # n
      BY <1>2, <3>1
    <3>6. CASE j < n
      <4>1. j \in 1..Len(queues) - 1 /\ rest[j] = queues[j]
        BY <3>1, <3>2, <3>4, <3>6
      <4> QED
        BY <3>3, <3>4, <4>1
    <3>7. CASE ~(j < n)
      <4>1. j - 1 \in 1..Len(queues) - 1 /\ ~(j - 1 < n) /\ (j - 1) + 1 = j
        BY <3>1, <3>4, <3>5, <3>7
      <4>2. rest[j - 1] = queues[j]
        BY <3>2, <4>1
      <4> QED
        BY <3>3, <3>4, <4>1, <4>2
    <3> QED
      BY <3>6, <3>7
  <2> QED
    BY <2>1, <2>2
<1> QED
  BY <1>1, <1>2 DEF AllRise, Waits

LEMMA EmptiedHolds ==
    ASSUME NEW queues \in Seq(Queue), OneQueue(queues), NEW o, AllRise(queues)
    PROVE  /\ AllRise(Emptied(queues, o))
           /\ \A u : Waits(Emptied(queues, o), u) <=>
                \E i \in DOMAIN queues : queues[i].owner # o /\ Holds(queues[i], u)
<1>1. CASE o \notin in_flight
  BY <1>1, ErasedHolds DEF Emptied
<1>2. CASE o \in in_flight
  <2>1. PICK after : after = Emptied(queues, o)
    OBVIOUS
  <2>2. after = [i \in DOMAIN queues |->
            IF queues[i].owner = o THEN [queues[i] EXCEPT !.tasks = <<>>] ELSE queues[i]]
    BY <1>2, <2>1 DEF Emptied
  <2>3. ASSUME NEW i \in DOMAIN queues, queues[i].owner = o
        PROVE  Rising(after[i].tasks) /\ \A u : ~Holds(after[i], u)
    <3>1. queues[i] \in Queue
      OBVIOUS
    <3>2. after[i] = [queues[i] EXCEPT !.tasks = <<>>]
      BY <2>2, <2>3
    <3>3. after[i].tasks = <<>>
      BY <3>1, <3>2 DEF Queue
    <3> QED
      BY <3>3 DEF Rising, Holds
  <2>4. \A i \in DOMAIN queues : queues[i].owner # o => after[i] = queues[i]
    BY <2>2
  <2>5. DOMAIN after = DOMAIN queues
    BY <2>2
  <2>6. AllRise(after)
    BY <2>3, <2>4, <2>5 DEF AllRise
  <2>7. \A u : Waits(after, u) <=> \E i \in DOMAIN queues : queues[i].owner # o /\ Holds(queues[i], u)
    BY <2>3, <2>4, <2>5 DEF Waits
  <2> QED
    BY <2>1, <2>6, <2>7
<1> QED
  BY <1>1, <1>2

LEMMA SweptHolds ==
    ASSUME NEW queues \in Seq(Queue), OneQueue(queues), NEW o, AllRise(queues)
    PROVE  /\ AllRise(Swept(queues, o))
           /\ \A u : Waits(Swept(queues, o), u) <=> Waits(queues, u)
<1>1. CASE ~\E i \in DOMAIN queues : queues[i].owner = o /\ queues[i].tasks = <<>>
  BY <1>1 DEF Swept
<1>2. ASSUME NEW i \in DOMAIN queues, queues[i].owner = o, queues[i].tasks = <<>>
      PROVE  /\ AllRise(Swept(queues, o))
             /\ \A u : Waits(Swept(queues, o), u) <=> Waits(queues, u)
  <2>1. Swept(queues, o) = Erased(queues, o)
    BY <1>2 DEF Swept
  <2>2. \A j \in DOMAIN queues : queues[j].owner = o => j = i
    BY <1>2 DEF OneQueue
  <2>3. \A u : ~Holds(queues[i], u)
    BY <1>2 DEF Holds
  <2> QED
    BY <2>1, <2>2, <2>3, ErasedHolds DEF Waits
<1> QED
  BY <1>1, <1>2

\* What a step that moves no task keeps.
LEMMA TasksStay ==
    ASSUME TasksInv, UNCHANGED <<task, lanes, fate, queued, job>>, PoolFits'
    PROVE  TasksInv'
BY DEF TasksInv, FateFits, WhereFits, CountFits, Waits, Holds, AllRise, Rising, Queued

LEMMA SubmitTasks ==
    ASSUME Inv, TasksInv, NEW o \in Owners, NEW p \in Lanes, Submit(o, p)
    PROVE  TasksInv' /\ Service!Submit(o, p)
<1> DEFINE t == Len(task) + 1
<1>1. /\ ui = "open" /\ t \in Tasks /\ task' = Append(task, [owner |-> o, priority |-> p])
      /\ lanes' = [lanes EXCEPT ![p] = Added(lanes[p], o, t)]
      /\ queued' = queued + 1 /\ fate' = [fate EXCEPT ![t] = "queued"] /\ ui' = "notify_one"
      /\ UNCHANGED <<stop, pc, job>>
  BY DEF Submit, held_vars
<1>2. /\ FateFits /\ WhereFits /\ CountFits /\ PoolFits /\ \A l \in Lanes : AllRise(lanes[l])
  BY DEF TasksInv
<1>3. Len(task) \in Nat /\ DOMAIN task = 1..Len(task) /\ t \in Nat
  BY <1>2, TaskIs
<1> HIDE DEF t
<1>4. t = Len(task) + 1 /\ fate[t] = "absent"
  BY <1>1, <1>2, <1>3 DEF FateFits, t
<1>5. Len(task') = t
  BY <1>1, <1>4 DEF Inv, TypeInv
<1>6. FateFits'
  <2>1. t <= MaxTasks
    BY <1>1, TasksFinite
  <2>2. fate' \in [Tasks -> Fates]
    BY <1>1, <1>2 DEF FateFits, Fates
  <2>3. ASSUME NEW u \in Tasks PROVE fate'[u] = "absent" <=> u > t
    <3>1. u \in Nat
      BY TasksFinite
    <3>2. fate'[u] = IF u = t THEN "queued" ELSE fate[u]
      BY <1>1, <1>2 DEF FateFits
    <3> QED
      BY <1>2, <1>3, <1>4, <3>1, <3>2 DEF FateFits
  <2> QED
    BY <1>5, <2>1, <2>2, <2>3 DEF FateFits
<1>7. /\ AllRise(Added(lanes[p], o, t))
      /\ \A u : Waits(Added(lanes[p], o, t), u) <=> (u = t \/ Waits(lanes[p], u))
  <2>1. lanes[p] \in Seq(Queue)
    BY DEF Inv, TypeInv
  <2>2. ASSUME NEW i \in DOMAIN lanes[p], NEW k \in DOMAIN lanes[p][i].tasks
        PROVE  lanes[p][i].tasks[k] < t
    <3>1. lanes[p][i].tasks[k] \in DOMAIN task
      BY HeldIs DEF Holds
    <3> QED
      BY <1>3, <1>4, <3>1
  <2> QED
    BY <1>2, <1>3, <2>1, <2>2, AddedHolds
<1>8. \A l \in Lanes : lanes'[l] = IF l = p THEN Added(lanes[p], o, t) ELSE lanes[l]
  BY <1>1 DEF Inv, TypeInv
<1>9. \A l \in Lanes : AllRise(lanes'[l])
  BY <1>2, <1>7, <1>8
<1>10. WhereFits'
  <2>1. ASSUME NEW u \in Tasks PROVE fate'[u] = "queued" <=> \E l \in Lanes : Waits(lanes'[l], u)
    BY <1>1, <1>2, <1>4, <1>7, <1>8 DEF FateFits, WhereFits
  <2>2. ASSUME NEW u \in Tasks PROVE fate'[u] = "running" <=> \E w \in Workers : job'[w] = u
    BY <1>1, <1>2, <1>4 DEF FateFits, WhereFits
  <2> QED
    BY <2>1, <2>2 DEF WhereFits, Waits, Holds
<1>11. CountFits'
  <2>1. Queued' = Queued \cup {t} /\ t \notin Queued
    BY <1>1, <1>2, <1>4 DEF Queued, FateFits
  <2>2. Cardinality(Queued') = Cardinality(Queued) + 1
    BY <2>1, TasksFinite, FS_AddElement
  <2> QED
    BY <1>1, <1>2, <2>2 DEF CountFits
<1>12. PoolFits'
  BY <1>1, <1>2 DEF PoolFits
<1>13. Service!Submit(o, p)
  BY <1>1, <1>4 DEF Service!Submit
<1> QED
  BY <1>6, <1>9, <1>10, <1>11, <1>12, <1>13 DEF TasksInv, AllRise, Rising

LEMMA DiscardTasks ==
    ASSUME Inv, TasksInv, NEW o \in Owners, discard(o)
    PROVE  TasksInv' /\ Service!Discard(o)
<1> DEFINE gone == UNION {TasksOf(lanes[p], o) : p \in Lanes}
<1>1. /\ ui = "open" /\ lanes' = [p \in Lanes |-> Emptied(lanes[p], o)]
      /\ queued' = queued - Cardinality(gone)
      /\ fate' = [t \in Tasks |-> IF t \in gone THEN "discarded" ELSE fate[t]]
      /\ UNCHANGED <<task, stop, pc, job, ui>>
  BY DEF discard, Discarded, held_vars
<1>2. FateFits /\ WhereFits /\ CountFits /\ PoolFits /\ \A l \in Lanes : AllRise(lanes[l])
  BY DEF TasksInv
<1>3. \A t : t \in gone <=>
        \E p \in Lanes : \E i \in DOMAIN lanes[p] : lanes[p][i].owner = o /\ Holds(lanes[p][i], t)
  BY DEF TasksOf, ToSet, Holds
<1> HIDE DEF gone
<1>4. ASSUME NEW t
      PROVE  t \in gone <=> t \in DOMAIN task /\ task[t].owner = o /\ fate[t] = "queued"
  <2>1. ASSUME t \in gone PROVE t \in DOMAIN task /\ task[t].owner = o /\ fate[t] = "queued"
    <3>1. PICK p \in Lanes : \E i \in DOMAIN lanes[p] : lanes[p][i].owner = o /\ Holds(lanes[p][i], t)
      BY <1>3, <2>1
    <3>2. PICK i \in DOMAIN lanes[p] : lanes[p][i].owner = o /\ Holds(lanes[p][i], t)
      BY <3>1
    <3>3. t \in DOMAIN task /\ task[t].owner = o
      BY <3>2, HeldIs
    <3>4. t \in Tasks
      BY <1>2, <3>3, TaskIs
    <3>5. Waits(lanes[p], t)
      BY <3>2 DEF Waits
    <3> QED
      BY <1>2, <3>3, <3>4, <3>5 DEF WhereFits
  <2>2. ASSUME t \in DOMAIN task, task[t].owner = o, fate[t] = "queued" PROVE t \in gone
    <3>1. t \in Tasks
      BY <1>2, <2>2, TaskIs
    <3>2. PICK p \in Lanes : Waits(lanes[p], t)
      BY <1>2, <2>2, <3>1 DEF WhereFits
    <3>3. PICK i \in DOMAIN lanes[p] : Holds(lanes[p][i], t)
      BY <3>2 DEF Waits
    <3>4. lanes[p][i].owner = o
      BY <2>2, <3>3, HeldIs
    <3> QED
      BY <1>3, <3>3, <3>4
  <2> QED
    BY <2>1, <2>2
<1>5. gone \subseteq Queued
  BY <1>2, <1>4, TaskIs DEF Queued
<1>6. Service!Discard(o)
  <2>1. Service!OwnedBy(o, "queued") = gone
    BY <1>4 DEF Service!OwnedBy
  <2> QED
    BY <1>1, <2>1 DEF Service!Discard
<1>7. FateFits'
  BY <1>1, <1>2, <1>5 DEF FateFits, Fates, Queued
<1>8. \A p \in Lanes :
        /\ AllRise(lanes'[p])
        /\ \A u : Waits(lanes'[p], u) <=> \E i \in DOMAIN lanes[p] : lanes[p][i].owner # o /\ Holds(lanes[p][i], u)
  <2> SUFFICES ASSUME NEW p \in Lanes
               PROVE  /\ AllRise(lanes'[p])
                      /\ \A u : Waits(lanes'[p], u) <=>
                           \E i \in DOMAIN lanes[p] : lanes[p][i].owner # o /\ Holds(lanes[p][i], u)
    OBVIOUS
  <2>1. lanes[p] \in Seq(Queue) /\ OneQueue(lanes[p]) /\ AllRise(lanes[p]) /\ lanes'[p] = Emptied(lanes[p], o)
    BY <1>1, <1>2 DEF Inv, TypeInv, LaneInv
  <2> QED
    BY <2>1, EmptiedHolds
<1>9. WhereFits'
  <2>1. ASSUME NEW u \in Tasks PROVE fate'[u] = "queued" <=> \E p \in Lanes : Waits(lanes'[p], u)
    <3>1. CASE u \in gone
      <4>1. fate'[u] = "discarded" /\ task[u].owner = o
        BY <1>1, <1>4, <3>1
      <4>2. ASSUME NEW p \in Lanes, NEW i \in DOMAIN lanes[p], lanes[p][i].owner # o, Holds(lanes[p][i], u)
            PROVE  FALSE
        BY <4>1, <4>2, HeldIs
      <4> QED
        BY <1>8, <4>1, <4>2
    <3>2. CASE u \notin gone
      <4>1. fate'[u] = fate[u]
        BY <1>1, <3>2
      <4>2. \A p \in Lanes : Waits(lanes'[p], u) <=> Waits(lanes[p], u)
        BY <1>3, <1>8, <3>2 DEF Waits
      <4> QED
        BY <1>2, <4>1, <4>2 DEF WhereFits
    <3> QED
      BY <3>1, <3>2
  <2>2. ASSUME NEW u \in Tasks PROVE fate'[u] = "running" <=> \E w \in Workers : job'[w] = u
    BY <1>1, <1>2, <1>4 DEF WhereFits
  <2> QED
    BY <2>1, <2>2 DEF WhereFits, Waits, Holds
<1>10. CountFits'
  <2>1. Queued' = Queued \ gone
    BY <1>1 DEF Queued
  <2>2. IsFiniteSet(gone) /\ Queued \cap gone = gone
    BY <1>5, TasksFinite, FS_Subset
  <2>3. Cardinality(Queued \ gone) = Cardinality(Queued) - Cardinality(Queued \cap gone)
    <3>1. IsFiniteSet(Queued)
      BY TasksFinite
    <3> QED
      BY ONLY <2>2, <3>1, FS_Difference
  <2> QED
    BY <1>1, <1>2, <2>1, <2>2, <2>3 DEF CountFits
<1>11. PoolFits'
  BY <1>1, <1>2 DEF PoolFits
<1> QED
  BY <1>6, <1>7, <1>8, <1>9, <1>10, <1>11 DEF TasksInv, AllRise, Rising

\* The first of a rising queue goes: it is the oldest, and what is left rises.
LEMMA TailRises ==
    ASSUME NEW s \in Seq(Nat), s # <<>>, Rising(s)
    PROVE  /\ Rising(Tail(s)) /\ Head(s) = s[1] /\ 1 \in DOMAIN s
           /\ \A k \in DOMAIN s : Head(s) <= s[k]
           /\ \A u : (\E k \in DOMAIN Tail(s) : Tail(s)[k] = u) <=>
                        (u # Head(s) /\ \E k \in DOMAIN s : s[k] = u)
<1>1. PICK r, n : r = Tail(s) /\ n = Len(s)
  OBVIOUS
<1>2. /\ n \in Nat \ {0} /\ DOMAIN s = 1..n /\ DOMAIN r = 1..n - 1 /\ Head(s) = s[1]
      /\ \A k \in 1..n - 1 : r[k] = s[k + 1]
  BY <1>1, HeadTailProperties
<1>3. \A k \in DOMAIN s : s[k] \in Nat
  OBVIOUS
<1>4. Rising(r)
  <2>0. SUFFICES ASSUME NEW i \in DOMAIN r, NEW j \in DOMAIN r, i < j PROVE r[i] < r[j]
    BY DEF Rising
  <2>1. i + 1 \in DOMAIN s /\ j + 1 \in DOMAIN s /\ i + 1 < j + 1
    <3>1. n \in Nat \ {0} /\ i \in 1..n - 1 /\ j \in 1..n - 1 /\ i < j
      BY <1>2, <2>0
    <3>2. i + 1 \in 1..n /\ j + 1 \in 1..n /\ i + 1 < j + 1
      BY ONLY <3>1
    <3> QED
      BY <1>2, <3>2
  <2>2. s[i + 1] < s[j + 1]
    BY <2>1 DEF Rising
  <2>3. r[i] = s[i + 1] /\ r[j] = s[j + 1]
    BY <1>2
  <2> QED
    BY <2>2, <2>3
<1>5. \A k \in DOMAIN s : k # 1 => s[1] < s[k]
  <2> SUFFICES ASSUME NEW k \in DOMAIN s, k # 1 PROVE s[1] < s[k]
    OBVIOUS
  <2>1. 1 \in DOMAIN s /\ 1 < k
    BY <1>2
  <2> QED
    BY <2>1 DEF Rising
<1>6. \A k \in DOMAIN s : Head(s) <= s[k]
  <2> SUFFICES ASSUME NEW k \in DOMAIN s PROVE s[1] <= s[k]
    BY <1>2
  <2>1. 1 \in DOMAIN s
    BY <1>2
  <2> QED
    BY <1>3, <1>5, <2>1
<1>7. ASSUME NEW u
      PROVE  (\E k \in DOMAIN r : r[k] = u) <=> (u # s[1] /\ \E k \in DOMAIN s : s[k] = u)
  <2>1. ASSUME NEW k \in DOMAIN r, r[k] = u PROVE u # s[1] /\ \E l \in DOMAIN s : s[l] = u
    <3>1. k + 1 \in DOMAIN s /\ k + 1 # 1 /\ s[k + 1] = u /\ 1 \in DOMAIN s
      BY <1>2, <2>1
    <3>2. s[1] < u /\ u \in Nat /\ s[1] \in Nat
      BY <1>3, <1>5, <3>1
    <3> QED
      BY <3>1, <3>2
  <2>2. ASSUME NEW k \in DOMAIN s, s[k] = u, u # s[1] PROVE \E l \in DOMAIN r : r[l] = u
    <3>1. k - 1 \in DOMAIN r /\ (k - 1) + 1 = k
      BY <1>2, <2>2
    <3> QED
      BY <1>2, <2>2, <3>1
  <2> QED
    BY <2>1, <2>2
<1>8. 1 \in DOMAIN s
  BY <1>2
<1> QED
  BY <1>1, <1>2, <1>4, <1>6, <1>7, <1>8

\* What a worker that pops at a place does to the tasks.
Pops(w, p, i, t) ==
    /\ job' = [job EXCEPT ![w] = t]
    /\ lanes' = [lanes EXCEPT ![p] = [lanes[p] EXCEPT ![i] =
                    [lanes[p][i] EXCEPT !.tasks = Tail(lanes[p][i].tasks), !.last_served = serve_seq + 1]]]
    /\ fate' = [fate EXCEPT ![t] = "running"]
    /\ queued' = queued - 1
    /\ pc' = [pc EXCEPT ![w] = "popped"]
    /\ UNCHANGED <<task, stop, ui>>

LEMMA PopTasks ==
    ASSUME Inv, TasksInv, NEW w \in Workers, pc[w] = "awake", ~MayExit,
           NEW at \in next_ready, Pops(w, at[1], at[2], Head(lanes[at[1]][at[2]].tasks))
    PROVE  TasksInv' /\ \E t \in Tasks : Service!Start(t)
<1>1. PICK p, i, t : p = at[1] /\ i = at[2] /\ t = Head(lanes[p][i].tasks)
  OBVIOUS
<1>2. PICK queue : queue = lanes[p][i]
  OBVIOUS
<1>3. /\ p \in Lanes /\ i \in DOMAIN lanes[p] /\ lanes[p] \in Seq(Queue)
      /\ queue \in Queue /\ queue.tasks # <<>> /\ queue.owner \notin in_flight
      /\ t \in DOMAIN task /\ task[t].owner = queue.owner /\ task[t].priority = p
  <2> DEFINE q == lanes[at[1]][at[2]]
  <2>1. /\ at[1] \in Lanes /\ at[2] \in DOMAIN lanes[at[1]] /\ lanes[at[1]] \in Seq(Queue)
        /\ q \in Queue /\ q.tasks # <<>> /\ q.owner \notin in_flight
        /\ Head(q.tasks) \in DOMAIN task
        /\ task[Head(q.tasks)] = [owner |-> q.owner, priority |-> at[1]]
    BY NextReadyIs DEF Inv
  <2>2. q = queue /\ Head(q.tasks) = t
    BY <1>1, <1>2
  <2>3. task[t].owner = queue.owner /\ task[t].priority = p
    BY <1>1, <2>1, <2>2
  <2> HIDE DEF q
  <2> QED
    BY ONLY <1>1, <2>1, <2>2, <2>3
<1>4. /\ FateFits /\ WhereFits /\ CountFits /\ PoolFits /\ \A l \in Lanes : AllRise(lanes[l])
  BY DEF TasksInv
<1>5. Pops(w, p, i, t)
  BY <1>1
<1>6. PICK s \in Seq(Nat) : s = queue.tasks
  BY <1>3 DEF Queue
<1>7. /\ Rising(Tail(s)) /\ t = s[1] /\ 1 \in DOMAIN s
      /\ \A k \in DOMAIN s : t <= s[k]
      /\ \A u : (\E k \in DOMAIN Tail(s) : Tail(s)[k] = u) <=> (u # t /\ \E k \in DOMAIN s : s[k] = u)
  <2>1. Rising(s) /\ s # <<>> /\ t = Head(s)
    BY <1>1, <1>2, <1>3, <1>4, <1>6 DEF AllRise
  <2> QED
    BY <2>1, TailRises
<1>8. PICK left : left = [queue EXCEPT !.tasks = Tail(s), !.last_served = serve_seq + 1]
  OBVIOUS
<1>9. left.tasks = Tail(s)
  BY <1>3, <1>8 DEF Queue
<1>10. /\ DOMAIN lanes'[p] = DOMAIN lanes[p] /\ lanes'[p][i] = left
       /\ \A j \in DOMAIN lanes[p] : j # i => lanes'[p][j] = lanes[p][j]
       /\ \A l \in Lanes : l # p => lanes'[l] = lanes[l]
  <2>1. lanes' = [lanes EXCEPT ![p] = [lanes[p] EXCEPT ![i] = left]]
    BY <1>2, <1>5, <1>6, <1>8 DEF Pops
  <2> QED
    BY <1>3, <2>1 DEF Inv, TypeInv
<1>11. Holds(queue, t)
  BY <1>6, <1>7 DEF Holds
<1>12. \A u : Holds(left, u) <=> (u # t /\ Holds(queue, u))
  <2>1. \A u : (\E k \in DOMAIN left.tasks : left.tasks[k] = u) <=>
                  (u # t /\ \E k \in DOMAIN queue.tasks : queue.tasks[k] = u)
    <3> SUFFICES ASSUME NEW u
                 PROVE  (\E k \in DOMAIN left.tasks : left.tasks[k] = u) <=>
                           (u # t /\ \E k \in DOMAIN queue.tasks : queue.tasks[k] = u)
      OBVIOUS
    <3>1. PICK a, b : a = Tail(s) /\ b = s
      OBVIOUS
    <3>2. (\E k \in DOMAIN a : a[k] = u) <=> (u # t /\ \E k \in DOMAIN b : b[k] = u)
      BY <1>7, <3>1
    <3>3. left.tasks = a /\ queue.tasks = b
      BY <1>6, <1>9, <3>1
    <3> QED
      BY ONLY <3>2, <3>3
  <2> QED
    BY <2>1 DEF Holds
<1>13. \A l \in Lanes : AllRise(lanes'[l])
  <2>1. Rising(left.tasks)
    BY <1>7, <1>9
  <2>2. ASSUME NEW l \in Lanes PROVE AllRise(lanes'[l])
    <3>1. CASE l # p
      BY <1>4, <1>10, <3>1
    <3>2. CASE l = p
      BY <1>4, <1>10, <2>1, <3>2 DEF AllRise
    <3> QED
      BY <3>1, <3>2
  <2> QED
    BY <2>2
<1>14. ASSUME NEW l \in Lanes, NEW u
       PROVE  Waits(lanes'[l], u) <=> (u # t /\ Waits(lanes[l], u))
  <2>1. CASE l # p
    <3>1. ~Waits(lanes[l], t)
      BY <1>2, <1>3, <1>11, <2>1, HeldOnce DEF Waits
    <3> QED
      BY <1>10, <2>1, <3>1
  <2>2. CASE l = p
    <3>1. \A j \in DOMAIN lanes[p] : j # i => ~Holds(lanes[p][j], t)
      BY <1>2, <1>3, <1>11, HeldOnce
    <3>2. \A j \in DOMAIN lanes[p] : Holds(lanes'[p][j], u) <=> (u # t /\ Holds(lanes[p][j], u))
      BY <1>2, <1>10, <1>12, <3>1
    <3> QED
      BY <1>10, <2>2, <3>2 DEF Waits
  <2> QED
    BY <2>1, <2>2
<1>15. Waits(lanes[p], t) /\ t \in Tasks /\ fate[t] = "queued"
  <2>1. Waits(lanes[p], t)
    BY <1>2, <1>3, <1>11 DEF Waits
  <2>2. t \in Tasks
    BY <1>3, <1>4, TaskIs
  <2> QED
    BY <1>3, <1>4, <2>1, <2>2 DEF WhereFits
<1>16. /\ job' = [job EXCEPT ![w] = t] /\ fate' = [fate EXCEPT ![t] = "running"]
       /\ queued' = queued - 1 /\ pc' = [pc EXCEPT ![w] = "popped"] /\ UNCHANGED <<task, stop, ui>>
  BY <1>5 DEF Pops
<1>17. \A u \in Tasks : fate'[u] = IF u = t THEN "running" ELSE fate[u]
  BY <1>4, <1>15, <1>16 DEF FateFits
<1>18. FateFits'
  BY <1>4, <1>15, <1>16, <1>17 DEF FateFits, Fates
<1>19. WhereFits'
  <2>1. ASSUME NEW u \in Tasks PROVE fate'[u] = "queued" <=> \E l \in Lanes : Waits(lanes'[l], u)
    BY <1>4, <1>14, <1>17 DEF WhereFits
  <2>2. ASSUME NEW u \in Tasks PROVE fate'[u] = "running" <=> \E v \in Workers : job'[v] = u
    <3>1. job[w] = NoTask /\ u # NoTask
      <4>1. u \in Nat /\ u >= 1
        BY TasksFinite
      <4>2. job[w] = NoTask
        BY DEF Inv, HeldInv, Busy
      <4> QED
        BY <4>1, <4>2 DEF NoTask
    <3>2. \A v \in Workers : job'[v] = IF v = w THEN t ELSE job[v]
      BY <1>16 DEF Inv, TypeInv
    <3>3. fate[u] = "running" <=> \E v \in Workers : job[v] = u
      BY <1>4 DEF WhereFits
    <3>4. CASE u = t
      BY <1>17, <3>2, <3>4
    <3>5. CASE u # t
      <4>1. \A v \in Workers : job'[v] = u <=> job[v] = u
        BY ONLY <3>1, <3>2, <3>5
      <4> QED
        BY <1>17, <3>3, <3>5, <4>1
    <3> QED
      BY <3>4, <3>5
  <2> QED
    BY <2>1, <2>2 DEF WhereFits, Waits, Holds
<1>20. CountFits'
  <2>1. Queued' = Queued \ {t} /\ t \in Queued
    BY <1>15, <1>17 DEF Queued
  <2>2. Cardinality(Queued \ {t}) = Cardinality(Queued) - 1
    <3>1. IsFiniteSet(Queued) /\ t \in Queued
      BY <2>1, TasksFinite
    <3> QED
      BY ONLY <3>1, FS_RemoveElement
  <2> QED
    BY <1>4, <1>16, <2>1, <2>2 DEF CountFits
<1>21. PoolFits'
  <2>1. \A v \in Workers : pc'[v] = IF v = w THEN "popped" ELSE pc[v]
    BY <1>16 DEF Inv, TypeInv
  <2>2. \A v \in Workers : pc[v] # "exited"
    <3>1. SUFFICES ASSUME NEW v \in Workers, pc[v] = "exited" PROVE FALSE
      OBVIOUS
    <3> QED
      BY <1>4, <3>1 DEF PoolFits, MayExit
  <2> QED
    BY <1>4, <1>16, <2>1, <2>2 DEF PoolFits
<1>22. Service!Start(t)
  <2>1. Service!OwnedBy(task[t].owner, "running") = {}
    <3> SUFFICES ASSUME NEW u \in DOMAIN task, task[u].owner = queue.owner, fate[u] = "running" PROVE FALSE
      BY <1>3 DEF Service!OwnedBy
    <3>1. u \in Tasks /\ u \in Nat /\ u >= 1
      BY <1>4, TaskIs, TasksFinite
    <3>2. PICK v \in Workers : job[v] = u
      BY <1>4, <3>1 DEF WhereFits
    <3>3. job[v] # NoTask
      BY <3>1, <3>2 DEF NoTask
    <3>4. owner[v] = queue.owner /\ owner[v] # NoOwner
      BY <3>2, <3>3 DEF Inv, HeldInv
    <3> QED
      BY <1>3, <3>4 DEF Inv, FlightInv
  <2>2. ASSUME NEW u \in Service!OwnedBy(task[t].owner, "queued"), task[u].priority = task[t].priority
        PROVE  t <= u
    <3>1. u \in DOMAIN task /\ task[u].owner = queue.owner /\ fate[u] = "queued" /\ task[u].priority = p
      BY <1>3, <2>2 DEF Service!OwnedBy
    <3>2. u \in Tasks
      BY <1>4, <3>1, TaskIs
    <3>3. PICK l \in Lanes : Waits(lanes[l], u)
      BY <1>4, <3>1, <3>2 DEF WhereFits
    <3>4. PICK j \in DOMAIN lanes[l] : Holds(lanes[l][j], u)
      BY <3>3 DEF Waits
    <3>5. l = p /\ lanes[l][j].owner = queue.owner
      BY <3>1, <3>4, HeldIs
    <3>6. OneQueue(lanes[p])
      BY <1>3 DEF Inv, LaneInv
    <3>7. j = i
      BY <1>2, <1>3, <3>5, <3>6 DEF OneQueue
    <3>8. PICK k \in DOMAIN s : s[k] = u
      BY <1>2, <1>6, <3>4, <3>5, <3>7 DEF Holds
    <3> QED
      BY <1>7, <3>8
  <2> QED
    BY <1>15, <1>16, <2>1, <2>2 DEF Service!Start
<1> QED
  BY <1>4, <1>13, <1>15, <1>18, <1>19, <1>20, <1>21, <1>22 DEF TasksInv, AllRise, Rising

LEMMA ReleaseTasks ==
    ASSUME Inv, TasksInv, NEW w \in Workers, release(w)
    PROVE  TasksInv' /\ \E t \in Tasks : Service!Finish(t)
<1>1. PICK t, o : t = job[w] /\ o = owner[w]
  OBVIOUS
<1>2. /\ pc[w] = "release" /\ pc' = [pc EXCEPT ![w] = "notify_all"]
      /\ lanes' = [p \in Lanes |-> Swept(lanes[p], o)]
      /\ fate' = [fate EXCEPT ![t] = "done"] /\ job' = [job EXCEPT ![w] = NoTask]
      /\ UNCHANGED <<task, queued, stop, ui>>
  BY <1>1 DEF release, Goto
<1>3. /\ FateFits /\ WhereFits /\ CountFits /\ PoolFits /\ \A l \in Lanes : AllRise(lanes[l])
  BY DEF TasksInv
<1>4. t \in DOMAIN task /\ t # NoTask
  BY <1>1, <1>2 DEF Inv, HeldInv, Busy
<1>5. t \in Tasks
  BY <1>3, <1>4, TaskIs
<1>6. fate[t] = "running"
  BY <1>1, <1>3, <1>5 DEF WhereFits
<1>7. \A u \in Tasks : fate'[u] = IF u = t THEN "done" ELSE fate[u]
  BY <1>2, <1>3, <1>5 DEF FateFits
<1>8. \A p \in Lanes : AllRise(lanes'[p]) /\ \A u : Waits(lanes'[p], u) <=> Waits(lanes[p], u)
  <2> SUFFICES ASSUME NEW p \in Lanes
               PROVE  AllRise(lanes'[p]) /\ \A u : Waits(lanes'[p], u) <=> Waits(lanes[p], u)
    OBVIOUS
  <2>1. lanes[p] \in Seq(Queue) /\ OneQueue(lanes[p]) /\ AllRise(lanes[p]) /\ lanes'[p] = Swept(lanes[p], o)
    BY <1>2, <1>3 DEF Inv, TypeInv, LaneInv
  <2> QED
    BY <2>1, SweptHolds
<1>9. FateFits'
  BY <1>2, <1>3, <1>6, <1>7 DEF FateFits, Fates
<1>10. WhereFits'
  <2>1. ASSUME NEW u \in Tasks PROVE fate'[u] = "queued" <=> \E p \in Lanes : Waits(lanes'[p], u)
    BY <1>3, <1>6, <1>7, <1>8 DEF WhereFits
  <2>2. ASSUME NEW u \in Tasks PROVE fate'[u] = "running" <=> \E v \in Workers : job'[v] = u
    <3>1. u # NoTask
      BY TasksFinite DEF NoTask
    <3>2. \A v \in Workers : job'[v] = IF v = w THEN NoTask ELSE job[v]
      BY <1>2 DEF Inv, TypeInv
    <3>3. \A v \in Workers : job[v] = t => v = w
      BY <1>1, <1>4, JobOnce
    <3> QED
      BY <1>1, <1>3, <1>7, <3>1, <3>2, <3>3 DEF WhereFits
  <2> QED
    BY <2>1, <2>2 DEF WhereFits, Waits, Holds
<1>11. CountFits'
  <2>1. Queued' = Queued
    BY <1>6, <1>7 DEF Queued
  <2> QED
    BY <1>2, <1>3, <2>1 DEF CountFits
<1>12. PoolFits'
  <2>1. \A v \in Workers : pc'[v] = IF v = w THEN "notify_all" ELSE pc[v]
    BY <1>2 DEF Inv, TypeInv
  <2> QED
    BY <1>2, <1>3, <2>1 DEF PoolFits
<1>13. Service!Finish(t)
  BY <1>2, <1>6 DEF Service!Finish
<1> QED
  BY <1>5, <1>8, <1>9, <1>10, <1>11, <1>12, <1>13 DEF TasksInv, AllRise, Rising

\* The join ends when every worker has left: nothing waits and nothing runs.
LEMMA JoinedCloses ==
    ASSUME Inv, TasksInv, Joined
    PROVE  Service!Close
<1>1. /\ ui = "joining" /\ ui' = "gone" /\ UNCHANGED <<task, fate>>
      /\ \A w \in Workers : pc[w] = "unborn" \/ pc[w] = "exited"
  BY DEF Joined, queue_vars
<1>2. FateFits /\ WhereFits /\ CountFits /\ PoolFits
  BY DEF TasksInv
<1>3. ASSUME NEW t \in Tasks PROVE fate[t] # "running"
  <2> SUFFICES ASSUME fate[t] = "running" PROVE FALSE
    OBVIOUS
  <2>1. PICK w \in Workers : job[w] = t
    BY <1>2 DEF WhereFits
  <2>2. job[w] # NoTask
    BY <2>1, TasksFinite DEF NoTask
  <2>3. pc[w] \in Busy
    BY <2>2 DEF Inv, HeldInv
  <2> QED
    BY <1>1, <2>3 DEF Busy
<1>4. ASSUME NEW t \in Tasks PROVE fate[t] # "queued"
  <2> SUFFICES ASSUME fate[t] = "queued" PROVE FALSE
    OBVIOUS
  <2>1. CASE \E w \in Workers : pc[w] = "unborn"
    <3>1. task = <<>>
      BY <1>2, <2>1 DEF PoolFits
    <3>2. t \notin DOMAIN task
      BY <3>1
    <3> QED
      BY <1>2, <3>2, TaskIs
  <2>2. CASE ~\E w \in Workers : pc[w] = "unborn"
    <3>1. PICK w \in Workers : pc[w] = "exited"
      BY <1>1, <2>2, DispatcherConstants DEF DispatcherConstants
    <3>2. Cardinality(Queued) = 0
      BY <1>2, <3>1 DEF PoolFits, CountFits
    <3>3. Queued = {}
      <4>1. IsFiniteSet(Queued)
        BY TasksFinite
      <4> QED
        BY ONLY <3>2, <4>1, FS_EmptySet
    <3> QED
      BY <3>3 DEF Queued
  <2> QED
    BY <2>1, <2>2
<1> QED
  BY <1>1, <1>3, <1>4 DEF Service!Close

\* A step that starts no worker and stops none before its time.
LEMMA PoolStays ==
    ASSUME PoolFits, UNCHANGED <<task, queued, stop>>,
           \/ ui' = ui
           \/ (ui = "notify_one" /\ ui' = "open")
           \/ (ui = "notify_all" /\ ui' = "joining")
           \/ (ui = "joining" /\ ui' = "gone"),
           \A w \in Workers : /\ pc'[w] = "unborn" => pc[w] = "unborn"
                              /\ pc'[w] = "exited" => pc[w] = "exited" \/ MayExit
    PROVE  PoolFits'
BY DEF PoolFits, MayExit

\* A step that moves no task, while the pool takes them or not as before.
Idles == TasksInv' /\ UNCHANGED <<task, fate>> /\ (ui' = "gone" <=> ui = "gone")

LEMMA WorkerIdles ==
    ASSUME Inv, TasksInv, NEW w \in Workers,
           \/ Take(w) /\ UNCHANGED <<queue_vars, held_vars, fate>>
           \/ Check(w) \/ RunEnds(w) \/ SpuriousWakeup(w) \/ ReleaseNotifies(w)
    PROVE  Idles
<1>1. UNCHANGED <<task, lanes, queued, stop, fate, job, ui>>
  BY DEF Take, Check, RunEnds, SpuriousWakeup, ReleaseNotifies, queue_vars, held_vars
<1>2. ASSUME NEW v \in Workers
      PROVE  /\ pc'[v] = "unborn" => pc[v] = "unborn"
             /\ pc'[v] = "exited" => pc[v] = "exited" \/ MayExit
  <2>1. CASE Take(w)
    <3>1. (MayExit /\ Goto(w, "exited")) \/ Goto(w, "asleep") \/ Goto(w, "popped")
      BY <2>1 DEF Take
    <3> QED
      BY <3>1 DEF Goto, Inv, TypeInv
  <2>2. CASE Check(w) \/ RunEnds(w) \/ SpuriousWakeup(w)
    <3>1. \E l \in {"running", "release", "awake"} : Goto(w, l)
      BY <2>2 DEF Check, RunEnds, SpuriousWakeup
    <3> QED
      BY <3>1 DEF Goto, Inv, TypeInv
  <2>3. CASE ReleaseNotifies(w)
    <3>1. pc' = [[u \in Workers |-> IF u \in Asleep THEN "awake" ELSE pc[u]] EXCEPT ![w] = "awake"]
      BY <2>3 DEF ReleaseNotifies, NotifyAll
    <3> QED
      BY <3>1
  <2> QED
    BY <2>1, <2>2, <2>3
<1>3. PoolFits'
  BY <1>1, <1>2, PoolStays DEF TasksInv
<1> QED
  BY <1>1, <1>3, TasksStay DEF Idles

LEMMA UIIdles ==
    ASSUME Inv, TasksInv,
           \/ \E w \in Workers : Spawn(w)
           \/ SpawnFails \/ BeginStop \/ SubmitReturns \/ StopNotifies
           \/ \E o \in Owners : Expire(o)
           \/ UNCHANGED vars
    PROVE  Idles
<1>1. /\ UNCHANGED <<task, lanes, queued, fate, job>> 
      /\ (ui # "gone" /\ ui' # "gone") \/ ui' = ui
  BY DEF Spawn, SpawnFails, BeginStop, SubmitReturns, StopNotifies, Expire, vars, queue_vars, held_vars
<1>2. PoolFits
  BY DEF TasksInv
<1>3. PoolFits'
  <2>1. ASSUME NEW w \in Workers, Spawn(w) PROVE PoolFits'
    <3>1. /\ ui = "spawning" /\ UNCHANGED <<task, queued, stop>>
          /\ ui' = IF \E v \in Workers \ {w} : pc[v] = "unborn" THEN "spawning" ELSE "open"
      BY <2>1 DEF Spawn, queue_vars
    <3>2. \A v \in Workers : pc'[v] = IF v = w THEN "awake" ELSE pc[v]
      BY <2>1 DEF Spawn, Goto, Inv, TypeInv
    <3> QED
      BY <1>2, <3>1, <3>2 DEF PoolFits
  <2>2. CASE SpawnFails \/ BeginStop
    BY <1>2, <2>2 DEF SpawnFails, BeginStop, PoolFits
  <2>3. CASE SubmitReturns \/ StopNotifies
    <3>1. /\ UNCHANGED <<task, queued, stop>>
          /\ (ui = "notify_one" /\ ui' = "open") \/ (ui = "notify_all" /\ ui' = "joining")
      BY <2>3 DEF SubmitReturns, StopNotifies, queue_vars
    <3>2. \A v \in Workers : pc'[v] = pc[v] \/ pc'[v] = "awake"
      BY <2>3 DEF SubmitReturns, StopNotifies, NotifyOne, NotifyAll, Inv, TypeInv
    <3> QED
      BY <1>2, <3>1, <3>2, PoolStays
  <2>4. CASE (\E o \in Owners : Expire(o)) \/ UNCHANGED vars
    <3>1. UNCHANGED <<task, queued, stop, pc, ui>>
      BY <2>4 DEF Expire, vars, queue_vars
    <3> QED
      BY <1>2, <3>1, PoolStays
  <2> QED
    BY <2>1, <2>2, <2>3, <2>4
<1> QED
  BY <1>1, <1>3, TasksStay DEF Idles

LEMMA TasksStep ==
    ASSUME Inv, TasksInv, [Next]_vars
    PROVE  TasksInv' /\ [Service!Next]_(Service!vars)
<1>1. ASSUME Idles PROVE TasksInv' /\ [Service!Next]_(Service!vars)
  BY <1>1 DEF Idles, Service!vars
<1>2. ASSUME NEW w \in Workers, WorkerStep(w) \/ SpuriousWakeup(w)
      PROVE  TasksInv' /\ [Service!Next]_(Service!vars)
  <2>1. CASE Take(w)
    <3>1. CASE UNCHANGED <<queue_vars, held_vars, fate>>
      BY <1>1, <2>1, <3>1, WorkerIdles
    <3>2. CASE ~UNCHANGED <<queue_vars, held_vars, fate>>
      <4>1. PICK at \in next_ready :
              LET p == at[1]  i == at[2]  t == Head(lanes[p][i].tasks) IN
              /\ job' = [job EXCEPT ![w] = t]
              /\ lanes' = [lanes EXCEPT ![p][i].tasks = Tail(@),
                                        ![p][i].last_served = serve_seq + 1]
              /\ fate' = [fate EXCEPT ![t] = "running"]
        BY <2>1, <3>2 DEF Take
      <4>2. /\ pc[w] = "awake" /\ ~MayExit /\ queued' = queued - 1
            /\ pc' = [pc EXCEPT ![w] = "popped"] /\ UNCHANGED <<task, stop, ui>>
        BY <2>1, <3>2 DEF Take, Goto
      <4>3. PICK p, i : p = at[1] /\ i = at[2]
        OBVIOUS
      <4>4. p \in Lanes /\ i \in DOMAIN lanes[p] /\ lanes[p] \in Seq(Queue) /\ lanes[p][i] \in Queue
        BY <4>3, NextReadyIs DEF Inv
      <4>5. lanes' = [lanes EXCEPT ![p] = [lanes[p] EXCEPT ![i] =
                [lanes[p][i] EXCEPT !.tasks = Tail(lanes[p][i].tasks), !.last_served = serve_seq + 1]]]
        BY <4>1, <4>3, <4>4 DEF Inv, TypeInv, Queue
      <4>6. Pops(w, p, i, Head(lanes[p][i].tasks))
        BY <4>1, <4>2, <4>3, <4>5 DEF Pops
      <4>7. TasksInv' /\ \E t \in Tasks : Service!Start(t)
        BY <4>2, <4>3, <4>6, PopTasks
      <4> QED
        BY <4>7 DEF Service!Next
    <3> QED
      BY <3>1, <3>2
  <2>2. CASE Check(w) \/ RunEnds(w) \/ SpuriousWakeup(w) \/ ReleaseNotifies(w)
    BY <1>1, <2>2, WorkerIdles
  <2>3. CASE release(w)
    BY <2>3, ReleaseTasks DEF Service!Next
  <2> QED
    BY <1>2, <2>1, <2>2, <2>3 DEF WorkerStep
<1>3. CASE Joined
  <2>1. Service!Next
    BY <1>3, JoinedCloses DEF Service!Next
  <2>2. PoolFits'
    <3>1. UNCHANGED <<task, queued, stop, pc>> /\ ui = "joining" /\ ui' = "gone"
      BY <1>3 DEF Joined, queue_vars
    <3> QED
      BY <3>1, PoolStays DEF TasksInv
  <2>3. TasksInv'
    BY <1>3, <2>2, TasksStay DEF Joined, queue_vars, held_vars
  <2> QED
    BY <2>1, <2>3
<1>4. CASE SubmitReturns \/ StopNotifies \/ SpawnFails \/ BeginStop \/ (\E w \in Workers : Spawn(w))
           \/ (\E o \in Owners : Expire(o)) \/ UNCHANGED vars
  BY <1>1, <1>4, UIIdles
<1>5. ASSUME NEW o \in Owners, discard(o) \/ \E p \in Lanes : Submit(o, p)
      PROVE  TasksInv' /\ [Service!Next]_(Service!vars)
  <2>1. CASE discard(o)
    BY <2>1, DiscardTasks DEF Service!Next
  <2>2. ASSUME NEW p \in Lanes, Submit(o, p) PROVE TasksInv' /\ [Service!Next]_(Service!vars)
    BY <2>2, SubmitTasks DEF Service!Next
  <2> QED
    BY <1>5, <2>1, <2>2
<1> QED
  BY <1>2, <1>3, <1>4, <1>5 DEF Next, Step, UIReturns, UICall, Done

LEMMA InitTasks == Init => TasksInv /\ Service!Init
<1> SUFFICES ASSUME Init
             PROVE  TasksInv /\ Service!Init
  OBVIOUS
<1>1. /\ task = <<>> /\ lanes = [p \in Lanes |-> <<>>] /\ queued = 0 /\ stop = FALSE /\ ui = "spawning"
      /\ pc = [w \in Workers |-> "unborn"] /\ job = [w \in Workers |-> NoTask]
      /\ fate = [t \in Tasks |-> "absent"]
  BY DEF Init
<1>2. Queued = {}
  BY <1>1 DEF Queued
<1>3. CountFits
  BY <1>1, <1>2, FS_EmptySet DEF CountFits
<1>4. FateFits
  BY <1>1, TasksFinite DEF FateFits, Fates
<1>5. WhereFits
  BY <1>1, TasksFinite DEF WhereFits, Waits, NoTask
<1>6. PoolFits /\ \A p \in Lanes : AllRise(lanes[p])
  BY <1>1 DEF PoolFits, AllRise
<1>7. Service!Init
  BY <1>1 DEF Service!Init
<1> QED
  BY <1>3, <1>4, <1>5, <1>6, <1>7 DEF TasksInv

LEMMA ConservesTasks ==
    ASSUME Inv, TasksInv
    PROVE  TasksConserved
<1>1. FateFits /\ WhereFits /\ CountFits
  BY DEF TasksInv
<1>2. ASSUME NEW t
      PROVE  PlacesOf(t) =
                (UNION {{<<p, i>> : i \in {j \in DOMAIN lanes[p] : Holds(lanes[p][j], t)}} : p \in Lanes})
                \cup {w \in Workers : job[w] = t}
  BY DEF PlacesOf, ToSet, Holds
<1>3. ASSUME NEW t \in Tasks
      PROVE  Cardinality(PlacesOf(t)) = IF fate[t] \in {"queued", "running"} THEN 1 ELSE 0
  <2>1. CASE fate[t] = "queued"
    <3>1. PICK p \in Lanes : \E i \in DOMAIN lanes[p] : Holds(lanes[p][i], t)
      BY <1>1, <2>1 DEF WhereFits, Waits
    <3>2. PICK i \in DOMAIN lanes[p] : Holds(lanes[p][i], t)
      BY <3>1
    <3>3. {w \in Workers : job[w] = t} = {}
      BY <1>1, <2>1 DEF WhereFits
    <3>4. \A q \in Lanes : \A j \in DOMAIN lanes[q] : Holds(lanes[q][j], t) => q = p /\ j = i
      BY <3>2, HeldOnce
    <3>5. PlacesOf(t) = {<<p, i>>}
      BY <1>2, <3>2, <3>3, <3>4
    <3> QED
      BY <2>1, <3>5, FS_Singleton
  <2>2. CASE fate[t] = "running"
    <3>1. PICK w \in Workers : job[w] = t
      BY <1>1, <2>2 DEF WhereFits
    <3>2. t # NoTask
      BY TasksFinite DEF NoTask
    <3>3. {v \in Workers : job[v] = t} = {w}
      BY <3>1, <3>2, JobOnce
    <3>4. \A q \in Lanes : \A j \in DOMAIN lanes[q] : ~Holds(lanes[q][j], t)
      BY <1>1, <2>2 DEF WhereFits, Waits
    <3>5. PlacesOf(t) = {w}
      BY <1>2, <3>3, <3>4
    <3> QED
      BY <2>2, <3>5, FS_Singleton
  <2>3. CASE fate[t] \notin {"queued", "running"}
    <3>1. {v \in Workers : job[v] = t} = {}
      BY <1>1, <2>3 DEF WhereFits
    <3>2. \A q \in Lanes : \A j \in DOMAIN lanes[q] : ~Holds(lanes[q][j], t)
      BY <1>1, <2>3 DEF WhereFits, Waits
    <3>3. PlacesOf(t) = {}
      BY <1>2, <3>1, <3>2
    <3> QED
      BY <2>3, <3>3, FS_EmptySet
  <2> QED
    BY <2>1, <2>2, <2>3
<1>4. (UNION {QueuedIn(lanes[p]) : p \in Lanes}) = Queued
  <2>1. ASSUME NEW t
        PROVE  t \in (UNION {QueuedIn(lanes[p]) : p \in Lanes}) <=> \E p \in Lanes : Waits(lanes[p], t)
    BY DEF QueuedIn, ToSet, Waits, Holds
  <2>2. ASSUME NEW t, \E p \in Lanes : Waits(lanes[p], t) PROVE t \in Tasks
    BY <1>1, <2>2, HeldIs, TaskIs DEF Waits
  <2> QED
    BY <1>1, <2>1, <2>2 DEF WhereFits, Queued
<1>5. queued = Cardinality(UNION {QueuedIn(lanes[p]) : p \in Lanes})
  BY <1>1, <1>4 DEF CountFits
<1> QED
  BY <1>3, <1>5 DEF TasksConserved

\* The dispatcher keeps its promise to the sessions, SearchService, and every
\* task is in one place and counted once: started once or discarded, an
\* owner's one at a time and in the order of submission in each lane, none
\* left when the destructor has joined the workers.
THEOREM ServedAsPromised == SafeSpec => ServesInOrder
<1>1. Init => Inv /\ TasksInv /\ Service!Init
  BY InitInv, InitTasks
<1>2. Inv /\ TasksInv /\ [Next]_vars => Inv' /\ TasksInv' /\ [Service!Next]_(Service!vars)
  BY StepInv, TasksStep
<1>3. Inv /\ TasksInv => TasksConserved
  BY ConservesTasks
<1> QED
  BY <1>1, <1>2, <1>3, PTL DEF SafeSpec, ServesInOrder, Service!SafeSpec
=============================================================================
