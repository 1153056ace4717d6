------------------------- MODULE MCSearchDispatcher -------------------------
(* SearchDispatcher on a small instance.  Production submits in one lane;  *)
(* the second lane is used by one task of the first two, or by the last of *)
(* three.                                                                  *)
EXTENDS SearchDispatcher

Urgent == 0
Somebody == CHOOSE o \in Owners : TRUE

FewUrgent ==
    \A t \in DOMAIN task' : task'[t].priority = Urgent =>
        Len(task') <= 2 \/ (t = MaxTasks /\ task'[t].owner = Somebody)

MCSpec == Init /\ [][Next /\ FewUrgent]_vars /\ Fairness
=============================================================================
