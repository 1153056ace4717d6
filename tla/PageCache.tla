----------------------------- MODULE PageCache -----------------------------
(***************************************************************************)
(* The per-tab two-tier LRU cache of src/src/core/PageCache.cpp.           *)
(*                                                                         *)
(* L1 holds rendered pixmaps under (page, scale, invert), bounded by a     *)
(* count and by a byte budget, and can be pinned to the keys a background  *)
(* tab keeps.  L2 holds display lists under the page.  Every method of the *)
(* class runs under one mutex, so each is one action operator here.  The   *)
(* objects are MuPDF's, counted by reference: an operator that takes,      *)
(* keeps or drops a reference says so in pix_refs and list_refs.           *)
(*                                                                         *)
(* A module that uses the cache conjoins these operators with its own      *)
(* steps (PageCacheClient, RenderEngine).  The put operators take the      *)
(* reference counts the caller starts from, so that a caller's own keep    *)
(* and the cache's drops combine in one step.                              *)
(***************************************************************************)
EXTENDS Integers, Sequences, FiniteSets, SequencesExt, FiniteSetsExt, Functions, Filter

CONSTANTS
    Pages,        \* page numbers
    Scales,       \* render scales in use (a zoom level each)
    Pixmaps,      \* pixmap objects the allocator can hand out
    Lists,        \* display-list objects
    ByteSizes,    \* sizes a rendered pixmap can have
    L1Capacity,   \* entries, PageCache's l1_capacity
    L1Budget,     \* bytes, its l1_budget
    L2Capacity    \* entries, its l2_capacity

ASSUME CacheConstants ==
    /\ L1Capacity \in Nat
    /\ L1Budget \in Nat
    /\ L2Capacity \in Nat
    /\ ByteSizes \subseteq Nat

L1Key == [page : Pages, scale : Scales, invert : BOOLEAN]

VARIABLES
    l1_lru,      \* keys, front = most recent
    l1_map,      \* key -> [pix, bytes]
    l1_bytes,    \* running sum of the entries' bytes
    pin,         \* [on, keys]: while on, the only keys put_pixmap admits
    l2_lru,      \* pages, front = most recent
    l2_map,      \* page -> display list
    image,       \* what each pixmap object currently shows: [key, bytes]
    list_page,   \* the page each display-list object was built from
    pix_refs,    \* MuPDF reference counts
    list_refs

l1_vars    == <<l1_lru, l1_map, l1_bytes, pin>>
l2_vars    == <<l2_lru, l2_map>>
pix_vars   == <<image, pix_refs>>
list_vars  == <<list_page, list_refs>>
cache_vars == <<l1_vars, l2_vars, pix_vars, list_vars>>

EmptyMap == [k \in {} |-> 0]
NoPin    == [on |-> FALSE, keys |-> {}]

PageCacheInit ==
    /\ l1_lru = <<>> /\ l1_map = EmptyMap /\ l1_bytes = 0 /\ pin = NoPin
    /\ l2_lru = <<>> /\ l2_map = EmptyMap
    /\ image \in [Pixmaps -> {[key |-> CHOOSE k \in L1Key : TRUE, bytes |-> 0]}]
    /\ list_page \in [Lists -> {CHOOSE p \in Pages : TRUE}]
    /\ pix_refs = [p \in Pixmaps |-> 0]
    /\ list_refs = [l \in Lists |-> 0]

-----------------------------------------------------------------------------
(* Reference counts and LRU order                                          *)

Keep(refs, o) == [refs EXCEPT ![o] = @ + 1]

\* One reference less on every object of S.
Drop(refs, S) == [o \in DOMAIN refs |-> IF o \in S THEN refs[o] - 1 ELSE refs[o]]

\* erase(lru_it) then push_front: k becomes the most recent.
Touch(lru, k) == <<k>> \o Only(lru, ToSet(lru) \ {k})

\* The keys that leave when only the n most recent stay.
Evicted(lru, n) == {lru[i] : i \in (n + 1)..Len(lru)}

PixOf(map, K)   == {map[k].pix : k \in K \cap DOMAIN map}
BytesOf(map, K) == MapThenSumSet(LAMBDA k : map[k].bytes, K \cap DOMAIN map)
Without(map, K) == Restrict(map, DOMAIN map \ K)

\* Fault: the pin compares pages only, not the scale and the polarity.
Admits_AnyLook(k) == pin.on => k.page \in {x.page : x \in pin.keys}

\* Pin::admits.
Admits(k) == pin.on => k \in pin.keys

-----------------------------------------------------------------------------
(* L1                                                                      *)

\* Fault: the caller's reference is not counted.
get_pixmap_NoKeep(k) ==
    /\ k \in DOMAIN l1_map
    /\ l1_lru' = Touch(l1_lru, k)
    /\ UNCHANGED <<l1_map, l1_bytes, pin, image, pix_refs>>

\* Fault: a hit leaves the entry where it was.
get_pixmap_NoTouch(k) ==
    /\ k \in DOMAIN l1_map
    /\ pix_refs' = Keep(pix_refs, l1_map[k].pix)
    /\ UNCHANGED <<l1_lru, l1_map, l1_bytes, pin, image>>

\* A hit keeps the pixmap for the caller and makes the entry most recent.
get_pixmap(k) ==
    /\ k \in DOMAIN l1_map
    /\ l1_lru' = Touch(l1_lru, k)
    /\ pix_refs' = Keep(pix_refs, l1_map[k].pix)
    /\ UNCHANGED <<l1_map, l1_bytes, pin, image>>

l1_contains(k) == k \in DOMAIN l1_map

\* The eviction loops run while these hold, n entries being left.
TooFullForNew(n, b) ==
    LET left == Without(l1_map, Evicted(l1_lru, n))
    IN  /\ DOMAIN left # {}
        /\ \/ Cardinality(DOMAIN left) >= L1Capacity
           \/ l1_bytes - BytesOf(l1_map, Evicted(l1_lru, n)) + b > L1Budget

\* Fault: the loop may evict the entry just replaced.
TooFullAfterReplace_Empties(lru, map, bytes, n) ==
    /\ bytes - BytesOf(map, Evicted(lru, n)) > L1Budget
    /\ Cardinality(DOMAIN Without(map, Evicted(lru, n))) > 0

TooFullAfterReplace(lru, map, bytes, n) ==
    /\ bytes - BytesOf(map, Evicted(lru, n)) > L1Budget
    /\ Cardinality(DOMAIN Without(map, Evicted(lru, n))) > 1

\* The pixmap is not cached; the reference the caller gave is dropped.
RefusePixmap(p, refs) ==
    /\ pix_refs' = Drop(refs, {p})
    /\ UNCHANGED <<l1_lru, l1_map, l1_bytes>>

\* Fault: the pixmap that was stored is not dropped.
ReplacePixmap_KeepsOld(k, p, refs) ==
    LET map == [l1_map EXCEPT ![k] = [pix |-> p, bytes |-> image[p].bytes]]
    IN  /\ l1_lru' = Touch(l1_lru, k)
        /\ l1_map' = map
        /\ l1_bytes' = l1_bytes - l1_map[k].bytes + image[p].bytes
        /\ pix_refs' = refs

\* Same key: drop the old pixmap, store the new one in front, then evict
\* from the back while over the byte budget.
ReplacePixmap(k, p, refs) ==
    LET lru   == Touch(l1_lru, k)
        map   == [l1_map EXCEPT ![k] = [pix |-> p, bytes |-> image[p].bytes]]
        bytes == l1_bytes - l1_map[k].bytes + image[p].bytes
    IN  \E n \in 0..Len(lru) :
          /\ ~TooFullAfterReplace(lru, map, bytes, n)
          /\ \A m \in (n + 1)..Len(lru) : TooFullAfterReplace(lru, map, bytes, m)
          /\ l1_lru' = SubSeq(lru, 1, n)
          /\ l1_map' = Without(map, Evicted(lru, n))
          /\ l1_bytes' = bytes - BytesOf(map, Evicted(lru, n))
          /\ pix_refs' = Drop(Drop(refs, {l1_map[k].pix}), PixOf(map, Evicted(lru, n)))

\* New key: evict from the back until there is room by count and by bytes,
\* or nothing is left, then insert in front.
InsertPixmap(k, p, refs) ==
    LET b == image[p].bytes
    IN  \E n \in 0..Len(l1_lru) :
          /\ ~TooFullForNew(n, b)
          /\ \A m \in (n + 1)..Len(l1_lru) : TooFullForNew(m, b)
          /\ LET out == Evicted(l1_lru, n)
             IN  /\ l1_lru' = <<k>> \o SubSeq(l1_lru, 1, n)
                 /\ l1_map' = [x \in (DOMAIN l1_map \ out) \cup {k} |->
                                 IF x = k THEN [pix |-> p, bytes |-> b] ELSE l1_map[x]]
                 /\ l1_bytes' = l1_bytes - BytesOf(l1_map, out) + b
                 /\ pix_refs' = Drop(refs, PixOf(l1_map, out))

\* A key the pin does not admit is not cached, nor a new one at capacity 0.
Refused(k) == ~Admits(k) \/ (k \notin DOMAIN l1_map /\ L1Capacity = 0)

\* The cache takes one reference of p, whatever it does with it.
put_pixmap(k, p, refs) ==
    /\ \/ /\ Refused(k)
          /\ RefusePixmap(p, refs)
       \/ /\ ~Refused(k) /\ k \in DOMAIN l1_map
          /\ ReplacePixmap(k, p, refs)
       \/ /\ ~Refused(k) /\ k \notin DOMAIN l1_map
          /\ InsertPixmap(k, p, refs)
    /\ UNCHANGED <<pin, image>>

\* Fault: the purge forgets the order list.
retain_l1_pages_LeavesOrder(s, inv, pages) ==
    LET kept == [page : pages, scale : {s}, invert : {inv}]
        out  == DOMAIN l1_map \ kept
    IN  /\ pin' = [on |-> TRUE, keys |-> kept]
        /\ l1_map' = Without(l1_map, out)
        /\ l1_bytes' = l1_bytes - BytesOf(l1_map, out)
        /\ pix_refs' = Drop(pix_refs, PixOf(l1_map, out))
        /\ UNCHANGED <<l1_lru, image>>

\* A tab leaves the screen: keep only the pages it shows, at the look it
\* shows them with, and admit nothing else until release_l1_pin.
retain_l1_pages(s, inv, pages) ==
    LET kept == [page : pages, scale : {s}, invert : {inv}]
        out  == DOMAIN l1_map \ kept
    IN  /\ pin' = [on |-> TRUE, keys |-> kept]
        /\ l1_lru' = Only(l1_lru, kept)
        /\ l1_map' = Without(l1_map, out)
        /\ l1_bytes' = l1_bytes - BytesOf(l1_map, out)
        /\ pix_refs' = Drop(pix_refs, PixOf(l1_map, out))
        /\ UNCHANGED image

release_l1_pin ==
    /\ pin' = NoPin
    /\ UNCHANGED <<l1_lru, l1_map, l1_bytes, pix_vars>>

-----------------------------------------------------------------------------
(* L2                                                                      *)

get_display_list(page) ==
    /\ page \in DOMAIN l2_map
    /\ l2_lru' = Touch(l2_lru, page)
    /\ list_refs' = Keep(list_refs, l2_map[page])
    /\ UNCHANGED <<l2_map, list_page>>

RefuseList(d, refs) == list_refs' = Drop(refs, {d}) /\ UNCHANGED l2_vars

ReplaceList(page, d, refs) ==
    /\ l2_lru' = Touch(l2_lru, page)
    /\ l2_map' = [l2_map EXCEPT ![page] = d]
    /\ list_refs' = Drop(refs, {l2_map[page]})

\* Fault: one entry too many stays.
InsertList_OffByOne(page, d, refs) ==
    LET n   == IF Cardinality(DOMAIN l2_map) > L2Capacity THEN L2Capacity ELSE Len(l2_lru)
        out == Evicted(l2_lru, n)
    IN  /\ l2_lru' = <<page>> \o SubSeq(l2_lru, 1, n)
        /\ l2_map' = [x \in (DOMAIN l2_map \ out) \cup {page} |->
                        IF x = page THEN d ELSE l2_map[x]]
        /\ list_refs' = Drop(refs, {l2_map[x] : x \in out \cap DOMAIN l2_map})

InsertList(page, d, refs) ==
    LET n   == IF Cardinality(DOMAIN l2_map) >= L2Capacity THEN L2Capacity - 1
               ELSE Len(l2_lru)
        out == Evicted(l2_lru, n)
    IN  /\ l2_lru' = <<page>> \o SubSeq(l2_lru, 1, n)
        /\ l2_map' = [x \in (DOMAIN l2_map \ out) \cup {page} |->
                        IF x = page THEN d ELSE l2_map[x]]
        /\ list_refs' = Drop(refs, {l2_map[x] : x \in out \cap DOMAIN l2_map})

put_display_list(page, d, refs) ==
    /\ \/ /\ page \in DOMAIN l2_map
          /\ ReplaceList(page, d, refs)
       \/ /\ page \notin DOMAIN l2_map /\ L2Capacity = 0
          /\ RefuseList(d, refs)
       \/ /\ page \notin DOMAIN l2_map /\ L2Capacity > 0
          /\ InsertList(page, d, refs)
    /\ UNCHANGED list_page

-----------------------------------------------------------------------------
(* Both tiers                                                              *)

\* clear(), and the destructor: every cached reference is dropped.  The pin
\* stays as it is.
clear ==
    /\ l1_lru' = <<>> /\ l1_map' = EmptyMap /\ l1_bytes' = 0
    /\ l2_lru' = <<>> /\ l2_map' = EmptyMap
    /\ pix_refs' = Drop(pix_refs, PixOf(l1_map, DOMAIN l1_map))
    /\ list_refs' = Drop(list_refs, Range(l2_map))
    /\ UNCHANGED <<pin, image, list_page>>
=============================================================================
