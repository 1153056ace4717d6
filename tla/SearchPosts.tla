---------------------------- MODULE SearchPosts ----------------------------
(***************************************************************************)
(* How the scans' updates reach the window: make_search_update_poster and  *)
(* on_search_update_posted (ui/MainWindow.cpp:2480), the gate between them *)
(* (ui/detail/PostCoalescer.hpp), the find bar's counter and the canvas's  *)
(* overlay of hits.                                                        *)
(*                                                                         *)
(* Every worker that finishes a page calls the poster, and so does the UI  *)
(* thread when it clears a session; the sessions of all tabs share one     *)
(* gate, which keeps at most one message queued.  A post may fail.  The    *)
(* session shown is the active tab's: the hits it has and the pages left.  *)
(***************************************************************************)
EXTENDS Naturals, FiniteSets

CONSTANTS
    Workers,       \* the dispatcher's threads
    UIThread,      \* the UI thread
    DocPages,      \* pages of the document
    MaxEvents      \* bound: queries and clears by the reader

Actors == Workers \cup {UIThread}

VARIABLES
    page_hits,     \* pages of the active session with a hit
    remaining,     \* pages its scan has left
    pc,            \* where each thread is in the poster
    pending_,      \* the gate: a message is queued or being posted
    queued,        \* WM_USER_SEARCH_UPDATE messages in the window's queue
    handling,      \* step of on_search_update_posted, 0 outside it
    counter,       \* what the find bar says
    painted,       \* painted_hits: the overlay as it was last drawn
    invalid,       \* the canvas is to be painted
    unsent,        \* an update was given up
    events

postVars == <<page_hits, remaining, pc, pending_, queued, handling, counter, painted, invalid,
              unsent, events>>

\* update_find_counter: how many hits, and whether the scan is over.
CounterOf(h, r) == [n |-> Cardinality(h), eof |-> r = {}]

PostsInit ==
    /\ page_hits = {} /\ remaining = {} /\ pc = [a \in Actors |-> "idle"]
    /\ pending_ = FALSE /\ queued = 0 /\ handling = 0
    /\ counter = CounterOf({}, {}) /\ painted = {} /\ invalid = FALSE
    /\ unsent = FALSE /\ events = 0

-----------------------------------------------------------------------------
(* The poster, on any thread.                                              *)

\* A worker finished a page of the active session, or of another tab's.
PageScanned(w) ==
    /\ pc[w] = "idle"
    /\ \/ \E p \in remaining :
             /\ remaining' = remaining \ {p}
             /\ page_hits' \in {page_hits, page_hits \cup {p}}
       \/ UNCHANGED <<page_hits, remaining>>
    /\ pc' = [pc EXCEPT ![w] = "claim"]
    /\ UNCHANGED <<pending_, queued, handling, counter, painted, invalid, unsent, events>>

Goto(a, l) == pc' = [pc EXCEPT ![a] = l]

claim(a) ==
    /\ pc[a] = "claim"
    /\ pending_' = TRUE
    /\ Goto(a, IF pending_ THEN "idle" ELSE "post")
    /\ UNCHANGED <<page_hits, remaining, queued, handling, counter, painted, invalid, unsent, events>>

post(a) ==
    /\ pc[a] = "post"
    /\ \/ queued' = queued + 1 /\ Goto(a, "idle")
       \/ Goto(a, "failed") /\ UNCHANGED queued
    /\ UNCHANGED <<page_hits, remaining, pending_, handling, counter, painted, invalid, unsent, events>>

\* Fault: a failed post reopens the gate and is not tried again.
AfterFailure_GivesUp == "idle"

AfterFailure == "reclaim"

post_failed(a) ==
    /\ pc[a] = "failed"
    /\ pending_' = FALSE
    /\ Goto(a, AfterFailure)
    /\ UNCHANGED <<page_hits, remaining, queued, handling, counter, painted, invalid, unsent, events>>

\* Fault: the second post is made without the gate.
MayRepost_Always == TRUE

MayRepost == ~pending_

reclaim(a) ==
    /\ pc[a] = "reclaim"
    /\ pending_' = TRUE
    /\ Goto(a, IF MayRepost THEN "repost" ELSE "idle")
    /\ UNCHANGED <<page_hits, remaining, queued, handling, counter, painted, invalid, unsent, events>>

repost(a) ==
    /\ pc[a] = "repost"
    /\ Goto(a, "idle")
    /\ \/ queued' = queued + 1 /\ UNCHANGED <<pending_, unsent>>
       \/ pending_' = FALSE /\ unsent' = TRUE /\ UNCHANGED queued
    /\ UNCHANGED <<page_hits, remaining, handling, counter, painted, invalid, events>>

-----------------------------------------------------------------------------
(* The UI thread.                                                          *)

\* Fault: the gate is reopened last, when the state has been read.
ReleaseStep_Last == 2

ReleaseStep == 1

UIFree == pc[UIThread] = "idle" /\ handling = 0

\* on_search_update_posted, in its two halves: the gate, and the reads with
\* on_search_hits_changed, which invalidates only when the overlay differs.
UpdateHandled ==
    /\ \/ UIFree /\ queued > 0 /\ queued' = queued - 1 /\ handling' = 1
       \/ handling = 1 /\ handling' = 2 /\ UNCHANGED queued
       \/ handling = 2 /\ handling' = 0 /\ UNCHANGED queued
    /\ pending_' = IF handling = ReleaseStep THEN FALSE ELSE pending_
    /\ IF handling = 3 - ReleaseStep
       THEN /\ counter' = CounterOf(page_hits, remaining)
            /\ invalid' = (invalid \/ page_hits # painted)
            /\ unsent' = FALSE
       ELSE UNCHANGED <<counter, invalid, unsent>>
    /\ UNCHANGED <<page_hits, remaining, pc, painted, events>>

\* on_find_query_changed: set_query empties the hits, and the window reads the
\* state and paints at once.
QueryChanged ==
    /\ UIFree /\ events < MaxEvents
    /\ page_hits' = {} /\ remaining' = DocPages
    /\ counter' = CounterOf({}, DocPages) /\ invalid' = TRUE /\ unsent' = FALSE
    /\ events' = events + 1
    /\ UNCHANGED <<pc, pending_, queued, handling, painted>>

\* on_find_close: clear calls the observer on the UI thread, before the window
\* reads the state, which no worker can change any more.
QueryCleared ==
    /\ UIFree /\ events < MaxEvents
    /\ page_hits' = {} /\ remaining' = {}
    /\ counter' = CounterOf({}, {}) /\ invalid' = TRUE
    /\ pc' = [pc EXCEPT ![UIThread] = "claim"]
    /\ events' = events + 1
    /\ UNCHANGED <<pending_, queued, handling, painted, unsent>>

Painted ==
    /\ UIFree /\ invalid
    /\ painted' = page_hits /\ invalid' = FALSE
    /\ UNCHANGED <<page_hits, remaining, pc, pending_, queued, handling, counter, unsent, events>>

Posts(a) == claim(a) \/ post(a) \/ post_failed(a) \/ reclaim(a) \/ repost(a)

PostsNext ==
    \/ \E w \in Workers : PageScanned(w)
    \/ \E a \in Actors : Posts(a)
    \/ UpdateHandled \/ QueryChanged \/ QueryCleared \/ Painted

PostsSpec == PostsInit /\ [][PostsNext]_postVars

-----------------------------------------------------------------------------
(* Properties.                                                             *)

\* When nothing is under way, the counter and the overlay are those of the
\* session: no update is lost between two threads that share a message
\* (PostCoalescer.hpp:18, :34), unless both posts of one failed.
UpdateSeen ==
    (handling = 0 /\ queued = 0 /\ ~unsent /\ \A a \in Actors : pc[a] = "idle") =>
        /\ counter = CounterOf(page_hits, remaining)
        /\ invalid \/ painted = page_hits

\* At most one message is queued, whatever fails (PostCoalescer.hpp:3), and an
\* open gate means that none is.
OneMessage == queued <= 1 /\ (queued = 1 => pending_)

\* The updates of all threads reach the window through one message at a time.
PostsArrive == UpdateSeen /\ OneMessage
=============================================================================
