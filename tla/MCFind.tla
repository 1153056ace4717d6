------------------------------- MODULE MCFind -------------------------------
(***************************************************************************)
(* The parts of searching that the reader sees, each by itself: the search *)
(* of all tabs and its panel, the find bar, and the posts that bring the   *)
(* workers' results to the window; and, besides them, the reader's place   *)
(* across the layouts and the tabs, and the processes that a reader starts *)
(* to open files.  A behaviour runs one part and leaves the others in an   *)
(* initial state.                                                          *)
(***************************************************************************)
EXTENDS CrossTabSearch, FindBar, CanvasLayout, SearchPosts, Launches, TLC

CONSTANTS v1, v2, q1, q2, f1, f3, t1, t2

VARIABLE part   \* the part that runs

MCOccurs == {<<q1, 1>>, <<q1, 2>>, <<q2, 2>>}

\* The list that earlier processes left.
ListedLast == {<<f3, f1>>}

\* Three pages, of which a small window shows one or two; hits on either page of
\* the spread, one of them a whole page high.
Book     == (0 :> 8) @@ (1 :> 6) @@ (2 :> 12)
BookHits == {[page |-> 2, from |-> 6, to |-> 8], [page |-> 1, from |-> 0, to |-> 6]}
BookFits == [Single |-> 2, Spread |-> 1, Strip |-> 2]

Addresses == Permutations(Views)

\* Where the layouts do not run, one of their initial states.
AtRest == cv.view = t1 /\ \A h \in Heights : cv.vp_h <= h

FindAllInit ==
    /\ part \in {"all tabs", "bar", "posts", "layouts", "launches"}
    /\ Init /\ FindInit /\ PostsInit /\ LayoutInit /\ LaunchInit
    /\ part # "layouts" => AtRest

FindAllNext ==
    /\ UNCHANGED part
    /\ \/ part = "all tabs" /\ Next /\ UNCHANGED <<findVars, postVars, cv, launchVars>>
       \/ part = "bar" /\ FindNext /\ UNCHANGED <<vars, postVars, cv, launchVars>>
       \/ part = "posts" /\ PostsNext /\ UNCHANGED <<vars, findVars, cv, launchVars>>
       \/ part = "layouts" /\ LayoutNext /\ UNCHANGED <<vars, findVars, postVars, launchVars>>
       \/ part = "launches" /\ (LaunchNext \/ AllGone) /\ UNCHANGED <<vars, findVars, postVars, cv>>

FindAllSpec == FindAllInit /\ [][FindAllNext]_<<part, vars, findVars, postVars, cv, launchVars>>
=============================================================================
