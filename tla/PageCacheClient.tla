-------------------------- MODULE PageCacheClient --------------------------
(***************************************************************************)
(* Everything that can happen to one PageCache (src/src/core/PageCache.cpp)*)
(* in the hands of several threads: render workers that make a pixmap or a *)
(* display list, put it and drop their own reference later, workers and    *)
(* the UI thread that read, and the UI thread that pins, releases and      *)
(* clears.  Each call holds the cache mutex from start to end, so the      *)
(* threads' calls interleave in any order; what a thread keeps between two *)
(* calls is the references it owns, counted in held and held_lists.        *)
(*                                                                         *)
(* used and used_lists are history variables: the cached keys in the order *)
(* of their last get or put, whatever the cache's own lists say.           *)
(***************************************************************************)
EXTENDS PageCache

CONSTANTS
    MaxHeld,    \* references the threads may own on one object
    Shown       \* the sets of pages a view can have on screen

VARIABLES held, held_lists, used, used_lists

client_vars == <<held, held_lists, used, used_lists>>
vars == <<cache_vars, client_vars>>

Init ==
    /\ PageCacheInit
    /\ held = [p \in Pixmaps |-> 0]
    /\ held_lists = [d \in Lists |-> 0]
    /\ used = <<>> /\ used_lists = <<>>

\* The history after a step: k used last (if at all), evicted keys forgotten.
Cached(s, map)       == Only(s, DOMAIN map)
UsedLast(s, k, map)  == Cached(Touch(s, k), map)

l2_side == <<l2_vars, list_vars, held_lists, used_lists>>
l1_side == <<l1_vars, pix_vars, held, used>>

-----------------------------------------------------------------------------
(* L1                                                                      *)

\* fz_new_pixmap: an object nobody refers to is (re)used for a rendering of k.
RenderPixmap(p, k, b) ==
    /\ pix_refs[p] = 0
    /\ pix_refs' = [pix_refs EXCEPT ![p] = 1]
    /\ image' = [image EXCEPT ![p] = [key |-> k, bytes |-> b]]
    /\ held' = [held EXCEPT ![p] = 1]
    /\ UNCHANGED <<l1_vars, used, l2_side>>

\* A worker keeps the pixmap for its callback and puts its first reference.
PutPixmap(p) ==
    LET k == image[p].key
    IN  /\ held[p] > 0
        /\ p \notin PixOf(l1_map, DOMAIN l1_map)
        /\ put_pixmap(k, p, Keep(pix_refs, p))
        /\ used' = UsedLast(used, k, l1_map')
        /\ UNCHANGED <<held, l2_side>>

GetPixmap(k) ==
    /\ k \in DOMAIN l1_map
    /\ held[l1_map[k].pix] < MaxHeld
    /\ get_pixmap(k)
    /\ held' = Keep(held, l1_map[k].pix)
    /\ used' = UsedLast(used, k, l1_map')
    /\ UNCHANGED l2_side

DropPixmap(p) ==
    /\ held[p] > 0
    /\ held' = [held EXCEPT ![p] = @ - 1]
    /\ pix_refs' = Drop(pix_refs, {p})
    /\ UNCHANGED <<l1_vars, image, used, l2_side>>

RetainPages(s, inv, pages) ==
    /\ retain_l1_pages(s, inv, pages)
    /\ used' = Cached(used, l1_map')
    /\ UNCHANGED <<held, l2_side>>

ReleasePin ==
    /\ release_l1_pin
    /\ UNCHANGED <<held, used, l2_side>>

-----------------------------------------------------------------------------
(* L2                                                                      *)

BuildList(d, page) ==
    /\ list_refs[d] = 0
    /\ list_refs' = [list_refs EXCEPT ![d] = 1]
    /\ list_page' = [list_page EXCEPT ![d] = page]
    /\ held_lists' = [held_lists EXCEPT ![d] = 1]
    /\ UNCHANGED <<l2_vars, used_lists, l1_side>>

PutList(d) ==
    LET page == list_page[d]
    IN  /\ held_lists[d] > 0
        /\ d \notin Range(l2_map)
        /\ put_display_list(page, d, Keep(list_refs, d))
        /\ used_lists' = UsedLast(used_lists, page, l2_map')
        /\ UNCHANGED <<held_lists, l1_side>>

GetList(page) ==
    /\ page \in DOMAIN l2_map
    /\ held_lists[l2_map[page]] < MaxHeld
    /\ get_display_list(page)
    /\ held_lists' = Keep(held_lists, l2_map[page])
    /\ used_lists' = UsedLast(used_lists, page, l2_map')
    /\ UNCHANGED l1_side

DropList(d) ==
    /\ held_lists[d] > 0
    /\ held_lists' = [held_lists EXCEPT ![d] = @ - 1]
    /\ list_refs' = Drop(list_refs, {d})
    /\ UNCHANGED <<l2_vars, list_page, used_lists, l1_side>>

Clear ==
    /\ clear
    /\ used' = <<>> /\ used_lists' = <<>>
    /\ UNCHANGED <<held, held_lists>>

-----------------------------------------------------------------------------

Next ==
    \/ \E p \in Pixmaps :
         \/ \E k \in L1Key, b \in ByteSizes : RenderPixmap(p, k, b)
         \/ PutPixmap(p)
         \/ DropPixmap(p)
    \/ \E k \in L1Key : GetPixmap(k)
    \/ \E s \in Scales, inv \in BOOLEAN, pages \in Shown : RetainPages(s, inv, pages)
    \/ ReleasePin
    \/ \E d \in Lists :
         \/ \E page \in Pages : BuildList(d, page)
         \/ PutList(d)
         \/ DropList(d)
    \/ \E page \in Pages : GetList(page)
    \/ Clear

Spec == Init /\ [][Next]_vars

-----------------------------------------------------------------------------
(* Properties                                                              *)

\* The reference counts are exactly the owners': one for each cache entry
\* that stores the object and one for each reference a thread owns.  A put
\* that drops too little leaks the page's pixels; one that drops too much
\* frees them under a thread that reads (the contract in PageCache.hpp:31).
RefsExact ==
    /\ \A p \in Pixmaps :
         pix_refs[p] = held[p] + Cardinality({k \in DOMAIN l1_map : l1_map[k].pix = p})
    /\ \A d \in Lists :
         list_refs[d] = held_lists[d] + Cardinality({n \in DOMAIN l2_map : l2_map[n] = d})

\* What is stored under a key is a live rendering, or display list, of that
\* very key: never a freed object, nor memory freed and rendered into again.
Faithful ==
    /\ \A k \in DOMAIN l1_map : LET p == l1_map[k].pix IN
         pix_refs[p] > 0 /\ image[p] = [key |-> k, bytes |-> l1_map[k].bytes]
    /\ \A n \in DOMAIN l2_map : list_refs[l2_map[n]] > 0 /\ list_page[l2_map[n]] = n

Names(lru, map) == ToSet(lru) = DOMAIN map /\ Len(lru) = Cardinality(DOMAIN map)

\* Each order list names every cached key once and nothing else, and the
\* running byte count is the sum over the entries, after every insert,
\* replacement, eviction, purge and clear: an eviction finds what it removes,
\* and the loops on the map's size and on the bytes end.
Consistent ==
    /\ Names(l1_lru, l1_map) /\ Names(l2_lru, l2_map)
    /\ l1_bytes = BytesOf(l1_map, DOMAIN l1_map)

L1CountBounded == Cardinality(DOMAIN l1_map) <= L1Capacity

\* (#49) L1 keeps both bounds, never more entries than its capacity nor more
\* bytes than its budget unless a single entry is larger; L2 its capacity.
Bounded ==
    /\ L1CountBounded
    /\ l1_bytes <= L1Budget \/ Cardinality(DOMAIN l1_map) <= 1
    /\ Cardinality(DOMAIN l2_map) <= L2Capacity

\* (#159) While the tab is in the background, a render that was already
\* running when it left can neither refill L1 nor add another look.
PinHolds == pin.on => DOMAIN l1_map \subseteq pin.keys

Position(s, x) == CHOOSE i \in DOMAIN s : s[i] = x

\* Of the keys before and after a put of k, none that stays was last read or
\* stored before one that goes.
OldestGo(before, after, order, k) ==
    \A gone \in before \ after, stays \in (before \cap after) \ {k} :
        Position(order, stays) < Position(order, gone)

\* A put evicts in order of last use.  (Purges and clear choose by key.)
EvictsLeastRecent ==
    [][ /\ \A p \in Pixmaps : PutPixmap(p) =>
             OldestGo(DOMAIN l1_map, DOMAIN l1_map', used, image[p].key)
        /\ \A d \in Lists : PutList(d) =>
             OldestGo(DOMAIN l2_map, DOMAIN l2_map', used_lists, list_page[d]) ]_vars

\* The newest entry is kept, even one larger than the whole budget: what an
\* admitted put stored is what the next lookup of its key returns.
PutIsKept ==
    [][ \A p \in Pixmaps : PutPixmap(p) =>
          \/ Refused(image[p].key)
          \/ image[p].key \in DOMAIN l1_map' /\ l1_map'[image[p].key].pix = p ]_vars

\* What is cached is right, is owned, and is within the bounds.
CacheSound == RefsExact /\ Faithful /\ Consistent /\ Bounded

\* A put keeps what it stored and evicts in order of last use.
KeepsMostRecent == EvictsLeastRecent /\ PutIsKept
=============================================================================
