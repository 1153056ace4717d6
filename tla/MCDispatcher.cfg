\* Two workers, two owners, three tasks: their turns and their order in two
\* lanes, and the wakeups of submit, release and the destructor.
SPECIFICATION MCSpec
CONSTANTS
    Owners = {a, b}
    Lanes = {0, 2}
    Workers = {w1, w2}
    MaxTasks = 3
INVARIANTS OneTaskPerOwner QueuesKept
PROPERTIES ServesInOrder ServedInTurn
