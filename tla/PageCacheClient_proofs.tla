----------------------- MODULE PageCacheClient_proofs -----------------------
(***************************************************************************)
(* What a document's threads share, for any number of them: the page cache *)
(* (PageCacheClient), for any capacities, budgets and object sizes, and    *)
(* the family of MuPDF contexts (ContextFamily); and where the reader of   *)
(* its pages is, across the layouts of the canvas (CanvasLayout), for any  *)
(* tabs, pages, zooms and windows.                                         *)
(*                                                                         *)
(* Three invariants of the cache, each for its own theorems: KeysInv       *)
(* concerns only which keys the map has; OwnersInv says how the maps, the  *)
(* order lists, the byte count, the objects and their owners hang together;*)
(* OrderInv adds that the lists are in the order of last use.              *)
(*                                                                         *)
(* The layouts have one, LayoutSound: the strip is built for the view's    *)
(* zoom and window, a drag of its thumb is in step or dead, a tab left in  *)
(* the strip has the place of its clamped scroll, and a spread shows the   *)
(* page that its reader came to.  Each handler is taken as a function of a *)
(* canvas s: KeepsPlace(s, t) is what its step to t owes.                  *)
(***************************************************************************)
EXTENDS PageCacheClient, ContextFamily, CanvasLayout, PageCache_proofs

KeysInv == IsFiniteSet(DOMAIN l1_map) /\ L1CountBounded /\ PinHolds

LEMMA Shrunk ==
    ASSUME IsFiniteSet(DOMAIN l1_map), L1CountBounded, DOMAIN l1_map' \subseteq DOMAIN l1_map
    PROVE  IsFiniteSet(DOMAIN l1_map') /\ L1CountBounded'
<1>1. IsFiniteSet(DOMAIN l1_map') /\ Cardinality(DOMAIN l1_map') <= Cardinality(DOMAIN l1_map)
  BY FS_Subset
<1>2. Cardinality(DOMAIN l1_map) \in Nat /\ Cardinality(DOMAIN l1_map') \in Nat
  BY <1>1, FS_CardinalityType
<1> QED
  BY <1>1, <1>2, CacheConstants DEF L1CountBounded, CacheConstants

\* The loop before an insertion leaves room for one key, or an empty map.
LEMMA Inserted ==
    ASSUME KeysInv, NEW k, Admits(k), L1Capacity > 0, NEW p, NEW refs,
           InsertPixmap(k, p, refs), pin' = pin
    PROVE  KeysInv'
<1>1. PICK n \in 0..Len(l1_lru) :
        /\ ~TooFullForNew(n, image[p].bytes)
        /\ DOMAIN l1_map' = (DOMAIN l1_map \ Evicted(l1_lru, n)) \cup {k}
  BY DEF InsertPixmap
<1> DEFINE left == DOMAIN l1_map \ Evicted(l1_lru, n)
<1>2. IsFiniteSet(left) /\ Cardinality(left) \in Nat
  BY FS_Subset, FS_CardinalityType DEF KeysInv
<1>3. left = {} \/ Cardinality(left) < L1Capacity
  <2>1. DOMAIN Without(l1_map, Evicted(l1_lru, n)) = left
    BY DEF Without, Restrict
  <2> QED
    BY <1>1, <1>2, <2>1, CacheConstants DEF TooFullForNew, CacheConstants
<1>4. /\ IsFiniteSet(left \cup {k})
      /\ Cardinality(left \cup {k}) \in Nat
      /\ Cardinality(left \cup {k}) <= Cardinality(left) + 1
  <2>1. /\ IsFiniteSet(left \cup {k})
        /\ Cardinality(left \cup {k}) = IF k \in left THEN Cardinality(left) ELSE Cardinality(left) + 1
    BY <1>2, FS_AddElement
  <2> QED
    BY <1>2, <2>1
<1>5. left = {} => Cardinality(left) = 0
  BY FS_EmptySet
<1>6. Cardinality(left \cup {k}) <= L1Capacity
  BY <1>2, <1>3, <1>4, <1>5, CacheConstants DEF CacheConstants
<1>7. pin.on => left \cup {k} \subseteq pin.keys
  BY DEF KeysInv, PinHolds, Admits
<1> QED
  BY <1>1, <1>4, <1>6, <1>7 DEF KeysInv, L1CountBounded, PinHolds

LEMMA Put ==
    ASSUME KeysInv, NEW k, NEW p, NEW refs, put_pixmap(k, p, refs)
    PROVE  KeysInv'
<1>1. CASE RefusePixmap(p, refs)
  BY <1>1 DEF RefusePixmap, put_pixmap, KeysInv, L1CountBounded, PinHolds
<1>2. CASE k \in DOMAIN l1_map /\ ReplacePixmap(k, p, refs)
  <2>1. DOMAIN l1_map' \subseteq DOMAIN l1_map
    BY <1>2 DEF ReplacePixmap, Without, Restrict
  <2> QED
    BY <2>1, Shrunk DEF KeysInv, PinHolds, put_pixmap
<1>3. CASE ~Refused(k) /\ k \notin DOMAIN l1_map /\ InsertPixmap(k, p, refs)
  BY <1>3, Inserted, CacheConstants DEF put_pixmap, Refused, CacheConstants
<1> QED
  BY <1>1, <1>2, <1>3 DEF put_pixmap

LEMMA KeysInit == Init => KeysInv
<1> SUFFICES ASSUME Init PROVE KeysInv
  OBVIOUS
<1>1. DOMAIN l1_map = {} /\ pin.on = FALSE
  BY DEF Init, PageCacheInit, EmptyMap, NoPin
<1>2. IsFiniteSet({}) /\ Cardinality({}) = 0
  BY FS_EmptySet
<1> QED
  BY <1>1, <1>2, CacheConstants DEF KeysInv, L1CountBounded, PinHolds, CacheConstants

LEMMA KeysNext == KeysInv /\ [Next]_vars => KeysInv'
<1> SUFFICES ASSUME KeysInv, [Next]_vars PROVE KeysInv'
  OBVIOUS
<1>1. CASE UNCHANGED <<l1_map, pin>>
  BY <1>1 DEF KeysInv, L1CountBounded, PinHolds
<1>2. ASSUME NEW p \in Pixmaps, PutPixmap(p)
      PROVE  KeysInv'
  BY <1>2, Put DEF PutPixmap
<1>3. ASSUME NEW s, NEW inv, NEW pages, RetainPages(s, inv, pages)
      PROVE  KeysInv'
  <2>1. /\ DOMAIN l1_map' \subseteq DOMAIN l1_map
        /\ pin'.on /\ DOMAIN l1_map' \subseteq pin'.keys
    BY <1>3 DEF RetainPages, retain_l1_pages, Without, Restrict
  <2> QED
    BY <2>1, Shrunk DEF KeysInv, PinHolds
<1>4. CASE ReleasePin
  BY <1>4 DEF ReleasePin, release_l1_pin, NoPin, KeysInv, L1CountBounded, PinHolds
<1>5. CASE Clear
  <2>1. DOMAIN l1_map' = {} /\ pin' = pin
    BY <1>5 DEF Clear, clear, EmptyMap
  <2> QED
    BY <2>1, Shrunk DEF KeysInv, PinHolds
<1>6. ASSUME \/ \E p \in Pixmaps, k \in L1Key, b \in ByteSizes : RenderPixmap(p, k, b)
             \/ \E p \in Pixmaps : DropPixmap(p)
             \/ \E k \in L1Key : GetPixmap(k)
             \/ \E d \in Lists : PutList(d) \/ DropList(d) \/ \E page \in Pages : BuildList(d, page)
             \/ \E page \in Pages : GetList(page)
      PROVE  UNCHANGED <<l1_map, pin>>
  BY <1>6 DEF RenderPixmap, DropPixmap, GetPixmap, get_pixmap, PutList, DropList, BuildList, GetList,
     l1_vars, l1_side
<1>7. CASE UNCHANGED vars
  BY <1>1, <1>7 DEF vars, cache_vars, l1_vars
<1> QED
  BY <1>1, <1>2, <1>3, <1>4, <1>5, <1>6, <1>7 DEF Next

\* (#159) Whatever renders were under way when the tab left the screen, L1
\* holds none but the pinned keys until it returns.
THEOREM PinAlwaysHolds == Spec => []PinHolds
<1>1. KeysInv => PinHolds
  BY DEF KeysInv
<1> QED
  BY KeysInit, KeysNext, <1>1, PTL DEF Spec

\* L1 never has more entries than its capacity, pinned or not.
THEOREM CountAlwaysBounded == Spec => []L1CountBounded
<1>1. KeysInv => L1CountBounded
  BY DEF KeysInv
<1> QED
  BY KeysInit, KeysNext, <1>1, PTL DEF Spec

-----------------------------------------------------------------------------
(* What is cached, and who owns it.                                        *)

HeldTypes ==
    /\ held \in [Pixmaps -> Nat] /\ pix_refs \in [Pixmaps -> Int]
    /\ held_lists \in [Lists -> Nat] /\ list_refs \in [Lists -> Int]
    /\ DOMAIN image = Pixmaps /\ \A p \in Pixmaps : IsImage(image[p])
    /\ DOMAIN list_page = Lists

Owned1 == \A p \in Pixmaps : pix_refs[p] = held[p] + One(p, ObjectsIn(l1_map))
Owned2 == \A d \in Lists : list_refs[d] = held_lists[d] + One(d, Range(l2_map))
Shows1 == \A k \in DOMAIN l1_map : image[l1_map[k].pix] = [key |-> k, bytes |-> l1_map[k].bytes]
Shows2 == \A n \in DOMAIN l2_map : list_page[l2_map[n]] = n

OwnersInv == HeldTypes /\ L1Sound /\ L2Sound /\ Owned1 /\ Owned2 /\ Shows1 /\ Shows2

LEMMA OwnersSound == OwnersInv => CacheSound
<1> SUFFICES ASSUME OwnersInv PROVE CacheSound
  OBVIOUS
<1>1. RefsExact
  BY EntriesOf1, EntriesOf2 DEF OwnersInv, Owned1, Owned2, RefsExact
<1>2. Faithful
  <2>1. ASSUME NEW k \in DOMAIN l1_map
        PROVE  pix_refs[l1_map[k].pix] > 0
    <3>1. l1_map[k].pix \in Pixmaps /\ l1_map[k].pix \in ObjectsIn(l1_map)
      BY DEF OwnersInv, L1Sound, Tier1, ObjectsIn, PixOf
    <3>2. held[l1_map[k].pix] \in Nat
      BY <3>1 DEF OwnersInv, HeldTypes
    <3> QED
      BY <3>1, <3>2 DEF OwnersInv, Owned1, One
  <2>2. ASSUME NEW n \in DOMAIN l2_map
        PROVE  list_refs[l2_map[n]] > 0
    <3>1. l2_map[n] \in Lists /\ l2_map[n] \in Range(l2_map)
      BY DEF OwnersInv, L2Sound, Tier2, Range
    <3>2. held_lists[l2_map[n]] \in Nat
      BY <3>1 DEF OwnersInv, HeldTypes
    <3> QED
      BY <3>1, <3>2 DEF OwnersInv, Owned2, One
  <2> QED
    BY <2>1, <2>2 DEF OwnersInv, Shows1, Shows2, Faithful
<1>3. Consistent
  <2>1. Listed(l1_lru, l1_map) /\ Listed(l2_lru, l2_map)
    BY DEF OwnersInv, L1Sound, L2Sound, Tier1, Tier2
  <2>2. Names(l1_lru, l1_map) /\ Names(l2_lru, l2_map)
    BY <2>1, ListedNames DEF Names, Listed
  <2>3. BytesOf(l1_map, DOMAIN l1_map) = BytesIn(l1_map, DOMAIN l1_map)
    BY BytesOfIs
  <2> QED
    BY <2>2, <2>3 DEF Consistent, OwnersInv, L1Sound, Tier1
<1>4. Bounded
  BY DEF OwnersInv, L1Sound, Room1, L2Sound, Tier2, Bounded, L1CountBounded
<1> QED
  BY <1>1, <1>2, <1>3, <1>4 DEF CacheSound

LEMMA OwnersInit == Init => OwnersInv
<1> SUFFICES ASSUME Init PROVE OwnersInv
  OBVIOUS
<1>1. PageCacheInit /\ held = [p \in Pixmaps |-> 0] /\ held_lists = [d \in Lists |-> 0]
  BY DEF Init
<1>2. /\ L1Sound /\ ObjectsIn(l1_map) = {} /\ DOMAIN l1_map = {}
      /\ L2Sound /\ Range(l2_map) = {} /\ DOMAIN l2_map = {}
  BY <1>1, L1Init, L2Init
<1>3. HeldTypes
  BY <1>1 DEF PageCacheInit, HeldTypes, IsImage
<1> QED
  BY <1>1, <1>2, <1>3 DEF PageCacheInit, OwnersInv, Owned1, Owned2, Shows1, Shows2, One

Half1 == /\ held \in [Pixmaps -> Nat] /\ pix_refs \in [Pixmaps -> Int]
         /\ DOMAIN image = Pixmaps /\ \A p \in Pixmaps : IsImage(image[p])
         /\ L1Sound /\ Owned1 /\ Shows1
Half2 == /\ held_lists \in [Lists -> Nat] /\ list_refs \in [Lists -> Int]
         /\ DOMAIN list_page = Lists
         /\ L2Sound /\ Owned2 /\ Shows2

LEMMA Half1Same == Half1 /\ UNCHANGED <<l1_vars, pix_vars, held>> => Half1'
<1> SUFFICES ASSUME Half1, UNCHANGED <<l1_vars, pix_vars, held>> PROVE Half1'
  OBVIOUS
<1>1. L1Sound' /\ ObjectsIn(l1_map)' = ObjectsIn(l1_map)
  BY L1Kept DEF Half1, l1_vars
<1> QED
  BY <1>1 DEF Half1, Owned1, Shows1, l1_vars, pix_vars

LEMMA Half2Same == Half2 /\ UNCHANGED <<l2_vars, list_vars, held_lists>> => Half2'
<1> SUFFICES ASSUME Half2, UNCHANGED <<l2_vars, list_vars, held_lists>> PROVE Half2'
  OBVIOUS
<1>1. L2Sound' /\ Range(l2_map)' = Range(l2_map)
  BY L2Kept DEF Half2
<1> QED
  BY <1>1 DEF Half2, Owned2, Shows2, l2_vars, list_vars

\* Put, with the caller's own keep: the object's owners are as before, or
\* one more.
LEMMA PutSound ==
    ASSUME Half1, NEW p \in Pixmaps, PutPixmap(p)
    PROVE  Half1'
<1> DEFINE k == image[p].key
<1>1. /\ p \notin ObjectsIn(l1_map) /\ held' = held /\ image[p].bytes \in Nat
      /\ put_pixmap(k, p, Keep(pix_refs, p)) /\ L1Sound
  BY DEF PutPixmap, Half1, ObjectsIn, IsImage
<1>2. PutDone(k, p, Keep(pix_refs, p)) /\ image' = image
  BY <1>1, PutPixmapIs
<1> DEFINE out == (ObjectsIn(l1_map) \cup {p}) \ ObjectsIn(l1_map)'
<1>3. /\ L1Sound' /\ pix_refs' = Drop(Keep(pix_refs, p), out)
      /\ ObjectsIn(l1_map)' \subseteq ObjectsIn(l1_map) \cup {p}
      /\ OldOr(k, p)
  BY <1>2 DEF PutDone
<1>4. /\ pix_refs' \in [Pixmaps -> Int]
      /\ \A o \in Pixmaps : pix_refs'[o] = pix_refs[o] + One(o, {p}) - One(o, out)
  <2>1. pix_refs \in [Pixmaps -> Int]
    BY DEF Half1
  <2> HIDE DEF out
  <2>2. pix_refs' = Drop(Keep(pix_refs, p), out)
    BY <1>3
  <2>3. Delta(Pixmaps, pix_refs, Drop(Keep(pix_refs, p), out), {p}, out)
    BY <2>1, KeepDropIs
  <2> QED
    BY <2>2, <2>3 DEF Delta
<1>5. \A o \in Pixmaps : One(o, {p}) - One(o, out) = One(o, ObjectsIn(l1_map)') - One(o, ObjectsIn(l1_map))
  BY <1>1, <1>3, PutKeepsCount
<1> HIDE DEF out
<1>6. Owned1'
  <2> SUFFICES ASSUME NEW o \in Pixmaps PROVE pix_refs'[o] = held'[o] + One(o, ObjectsIn(l1_map)')
    BY DEF Owned1
  <2>1. pix_refs[o] = held[o] + One(o, ObjectsIn(l1_map)) /\ held[o] \in Nat
    BY DEF Half1, Owned1
  <2>2. /\ One(o, {p}) \in Int /\ One(o, out) \in Int
        /\ One(o, ObjectsIn(l1_map)') \in Int /\ One(o, ObjectsIn(l1_map)) \in Int
    BY DEF One
  <2>3. /\ pix_refs'[o] = pix_refs[o] + One(o, {p}) - One(o, out) /\ held'[o] = held[o]
        /\ One(o, {p}) - One(o, out) = One(o, ObjectsIn(l1_map)') - One(o, ObjectsIn(l1_map))
    BY <1>1, <1>4, <1>5
  <2> QED
    BY <2>1, <2>2, <2>3
<1>7. Shows1'
  <2>1. image[p] = [key |-> k, bytes |-> image[p].bytes]
    BY DEF Half1, IsImage
  <2> QED
    BY <1>2, <1>3, <2>1 DEF Half1, Shows1, OldOr
<1> QED
  BY <1>1, <1>2, <1>3, <1>4, <1>6, <1>7 DEF Half1

LEMMA PurgeSound ==
    ASSUME Half1, PurgeDone, image' = image, held' = held
    PROVE  Half1'
<1> DEFINE out == ObjectsIn(l1_map) \ ObjectsIn(l1_map)'
<1>1. /\ L1Sound' /\ pix_refs' = Drop(pix_refs, out)
      /\ ObjectsIn(l1_map)' \subseteq ObjectsIn(l1_map)
      /\ \A x \in DOMAIN l1_map' : x \in DOMAIN l1_map /\ l1_map'[x] = l1_map[x]
  BY DEF PurgeDone
<1>2. \A o \in Pixmaps : 0 - One(o, out) = One(o, ObjectsIn(l1_map)') - One(o, ObjectsIn(l1_map))
  BY <1>1, PurgeKeepsCount
<1> HIDE DEF out
<1>3. /\ pix_refs' \in [Pixmaps -> Int]
      /\ \A o \in Pixmaps : pix_refs'[o] = pix_refs[o] - One(o, out)
  <2>1. pix_refs \in [Pixmaps -> Int] /\ pix_refs' = Drop(pix_refs, out)
    BY <1>1 DEF Half1
  <2> QED
    BY <2>1, DropIs
<1>4. Owned1'
  <2> SUFFICES ASSUME NEW o \in Pixmaps PROVE pix_refs'[o] = held'[o] + One(o, ObjectsIn(l1_map)')
    BY DEF Owned1
  <2>1. pix_refs[o] = held[o] + One(o, ObjectsIn(l1_map)) /\ held[o] \in Nat
    BY DEF Half1, Owned1
  <2>2. /\ One(o, out) \in Int
        /\ One(o, ObjectsIn(l1_map)') \in Int /\ One(o, ObjectsIn(l1_map)) \in Int
    BY DEF One
  <2>3. /\ pix_refs'[o] = pix_refs[o] - One(o, out) /\ held'[o] = held[o]
        /\ 0 - One(o, out) = One(o, ObjectsIn(l1_map)') - One(o, ObjectsIn(l1_map))
    BY <1>2, <1>3
  <2> QED
    BY <2>1, <2>2, <2>3
<1>5. Shows1'
  BY <1>1 DEF Half1, Shows1
<1> QED
  BY <1>1, <1>3, <1>4, <1>5 DEF Half1

LEMMA GetSound ==
    ASSUME Half1, NEW k, GetPixmap(k)
    PROVE  Half1'
<1>1. /\ L1Sound' /\ k \in DOMAIN l1_map /\ l1_map' = l1_map /\ image' = image
      /\ pix_refs' = Keep(pix_refs, l1_map[k].pix) /\ held' = Keep(held, l1_map[k].pix)
  BY GetPixmapIs DEF GetPixmap, get_pixmap, Half1
<1>2. l1_map[k].pix \in Pixmaps
  BY <1>1 DEF Half1, L1Sound, Tier1
<1>3. Owned1' /\ held' \in [Pixmaps -> Nat] /\ pix_refs' \in [Pixmaps -> Int]
  BY <1>1, <1>2 DEF Half1, Owned1, Keep, One
<1> QED
  BY <1>1, <1>3 DEF Half1, Shows1

LEMMA RenderSound ==
    ASSUME Half1, NEW p \in Pixmaps, NEW k, NEW b \in ByteSizes, RenderPixmap(p, k, b)
    PROVE  Half1'
<1>1. /\ pix_refs[p] = 0 /\ UNCHANGED <<l1_lru, l1_map, l1_bytes>>
      /\ pix_refs' = [pix_refs EXCEPT ![p] = 1] /\ held' = [held EXCEPT ![p] = 1]
      /\ image' = [image EXCEPT ![p] = [key |-> k, bytes |-> b]]
  BY DEF RenderPixmap, l1_vars
<1>2. L1Sound' /\ ObjectsIn(l1_map)' = ObjectsIn(l1_map)
  BY <1>1, L1Kept DEF Half1
<1>3. p \notin ObjectsIn(l1_map) /\ b \in Nat
  <2>1. pix_refs[p] = held[p] + One(p, ObjectsIn(l1_map)) /\ held[p] \in Nat
    BY DEF Half1, Owned1
  <2> QED
    BY <1>1, <2>1, CacheConstants DEF One, CacheConstants
<1>4. Owned1' /\ held' \in [Pixmaps -> Nat] /\ pix_refs' \in [Pixmaps -> Int]
  BY <1>1, <1>2, <1>3 DEF Half1, Owned1, One
<1>5. DOMAIN image' = Pixmaps /\ \A o \in Pixmaps : IsImage(image'[o])
  BY <1>1, <1>3 DEF Half1, IsImage
<1>6. Shows1'
  BY <1>1, <1>3 DEF Half1, Shows1, ObjectsIn, PixOf
<1> QED
  BY <1>2, <1>4, <1>5, <1>6 DEF Half1

LEMMA DropSound ==
    ASSUME Half1, NEW p \in Pixmaps, DropPixmap(p)
    PROVE  Half1'
<1>1. /\ held[p] > 0 /\ UNCHANGED <<l1_lru, l1_map, l1_bytes, image>>
      /\ pix_refs' = Drop(pix_refs, {p}) /\ held' = [held EXCEPT ![p] = @ - 1]
  BY DEF DropPixmap, l1_vars
<1>2. L1Sound' /\ ObjectsIn(l1_map)' = ObjectsIn(l1_map)
  BY <1>1, L1Kept DEF Half1
<1>3. Owned1' /\ held' \in [Pixmaps -> Nat] /\ pix_refs' \in [Pixmaps -> Int]
  BY <1>1, <1>2 DEF Half1, Owned1, One, Drop
<1> QED
  BY <1>1, <1>2, <1>3 DEF Half1, Shows1

-----------------------------------------------------------------------------
(* The same for the display lists.                                         *)

LEMMA PutListSound ==
    ASSUME Half2, NEW d \in Lists, PutList(d)
    PROVE  Half2'
<1> DEFINE page == list_page[d]
<1>1. /\ d \notin Range(l2_map) /\ held_lists' = held_lists
      /\ put_display_list(page, d, Keep(list_refs, d)) /\ L2Sound
  BY DEF PutList, Half2
<1>2. PutListDone(page, d, Keep(list_refs, d)) /\ list_page' = list_page
  BY <1>1, PutListIs
<1> DEFINE out == (Range(l2_map) \cup {d}) \ Range(l2_map)'
<1>3. /\ L2Sound' /\ list_refs' = Drop(Keep(list_refs, d), out)
      /\ Range(l2_map)' \subseteq Range(l2_map) \cup {d}
      /\ \A x \in DOMAIN l2_map' : \/ x \in DOMAIN l2_map /\ l2_map'[x] = l2_map[x]
                                   \/ x = page /\ l2_map'[x] = d
  BY <1>2 DEF PutListDone
<1>4. \A o \in Lists : One(o, {d}) - One(o, out) = One(o, Range(l2_map)') - One(o, Range(l2_map))
  BY <1>1, <1>3, PutKeepsCount
<1> HIDE DEF out
<1>5. /\ list_refs' \in [Lists -> Int]
      /\ \A o \in Lists : list_refs'[o] = list_refs[o] + One(o, {d}) - One(o, out)
  <2>1. list_refs \in [Lists -> Int] /\ list_refs' = Drop(Keep(list_refs, d), out)
    BY <1>3 DEF Half2
  <2>2. Delta(Lists, list_refs, Drop(Keep(list_refs, d), out), {d}, out)
    BY <2>1, KeepDropIs
  <2> QED
    BY <2>1, <2>2 DEF Delta
<1>6. Owned2'
  <2> SUFFICES ASSUME NEW o \in Lists PROVE list_refs'[o] = held_lists'[o] + One(o, Range(l2_map)')
    BY DEF Owned2
  <2>1. list_refs[o] = held_lists[o] + One(o, Range(l2_map)) /\ held_lists[o] \in Nat
    BY DEF Half2, Owned2
  <2>2. /\ One(o, {d}) \in Int /\ One(o, out) \in Int
        /\ One(o, Range(l2_map)') \in Int /\ One(o, Range(l2_map)) \in Int
    BY DEF One
  <2>3. /\ list_refs'[o] = list_refs[o] + One(o, {d}) - One(o, out) /\ held_lists'[o] = held_lists[o]
        /\ One(o, {d}) - One(o, out) = One(o, Range(l2_map)') - One(o, Range(l2_map))
    BY <1>1, <1>4, <1>5
  <2> QED
    BY <2>1, <2>2, <2>3
<1>7. Shows2'
  BY <1>2, <1>3 DEF Half2, Shows2
<1> QED
  BY <1>1, <1>2, <1>3, <1>5, <1>6, <1>7 DEF Half2

LEMMA ClearListsSound ==
    ASSUME Half2, clear, held_lists' = held_lists
    PROVE  Half2'
<1>1. /\ L2Sound' /\ Range(l2_map)' = {} /\ DOMAIN l2_map' = {}
      /\ list_refs' = Drop(list_refs, Range(l2_map)) /\ list_page' = list_page
  BY ClearLists DEF clear
<1>2. /\ list_refs' \in [Lists -> Int]
      /\ \A o \in Lists : list_refs'[o] = list_refs[o] - One(o, Range(l2_map))
  BY <1>1, DropIs DEF Half2
<1>3. Owned2'
  <2> SUFFICES ASSUME NEW o \in Lists PROVE list_refs'[o] = held_lists'[o] + One(o, Range(l2_map)')
    BY DEF Owned2
  <2>1. list_refs[o] = held_lists[o] + One(o, Range(l2_map)) /\ held_lists[o] \in Nat
    BY DEF Half2, Owned2
  <2>2. One(o, Range(l2_map)) \in Int /\ One(o, Range(l2_map)') = 0
    BY <1>1 DEF One
  <2>3. list_refs'[o] = list_refs[o] - One(o, Range(l2_map))
    BY <1>2
  <2> QED
    BY <2>1, <2>2, <2>3
<1> QED
  BY <1>1, <1>2, <1>3 DEF Half2, Shows2

LEMMA GetListSound ==
    ASSUME Half2, NEW page, GetList(page)
    PROVE  Half2'
<1>1. /\ L2Sound' /\ page \in DOMAIN l2_map /\ l2_map' = l2_map /\ list_page' = list_page
      /\ list_refs' = Keep(list_refs, l2_map[page]) /\ held_lists' = Keep(held_lists, l2_map[page])
  BY GetListIs DEF GetList, get_display_list, Half2
<1>2. l2_map[page] \in Lists
  BY <1>1 DEF Half2, L2Sound, Tier2
<1>3. Owned2' /\ held_lists' \in [Lists -> Nat] /\ list_refs' \in [Lists -> Int]
  BY <1>1, <1>2 DEF Half2, Owned2, Keep, One
<1> QED
  BY <1>1, <1>3 DEF Half2, Shows2

LEMMA BuildSound ==
    ASSUME Half2, NEW d \in Lists, NEW page, BuildList(d, page)
    PROVE  Half2'
<1>1. /\ list_refs[d] = 0 /\ UNCHANGED l2_vars
      /\ list_refs' = [list_refs EXCEPT ![d] = 1] /\ held_lists' = [held_lists EXCEPT ![d] = 1]
      /\ list_page' = [list_page EXCEPT ![d] = page]
  BY DEF BuildList
<1>2. L2Sound' /\ Range(l2_map)' = Range(l2_map) /\ l2_map' = l2_map
  BY <1>1, L2Kept DEF Half2, l2_vars
<1>3. d \notin Range(l2_map)
  <2>1. list_refs[d] = held_lists[d] + One(d, Range(l2_map)) /\ held_lists[d] \in Nat
    BY DEF Half2, Owned2
  <2> QED
    BY <1>1, <2>1 DEF One
<1>4. Owned2' /\ held_lists' \in [Lists -> Nat] /\ list_refs' \in [Lists -> Int]
  BY <1>1, <1>2, <1>3 DEF Half2, Owned2, One
<1>5. Shows2'
  BY <1>1, <1>2, <1>3 DEF Half2, Shows2, Range
<1> QED
  BY <1>1, <1>2, <1>4, <1>5 DEF Half2

LEMMA DropListSound ==
    ASSUME Half2, NEW d \in Lists, DropList(d)
    PROVE  Half2'
<1>1. /\ held_lists[d] > 0 /\ UNCHANGED l2_vars /\ list_page' = list_page
      /\ list_refs' = Drop(list_refs, {d}) /\ held_lists' = [held_lists EXCEPT ![d] = @ - 1]
  BY DEF DropList
<1>2. L2Sound' /\ Range(l2_map)' = Range(l2_map) /\ l2_map' = l2_map
  BY <1>1, L2Kept DEF Half2, l2_vars
<1>3. Owned2' /\ held_lists' \in [Lists -> Nat] /\ list_refs' \in [Lists -> Int]
  BY <1>1, <1>2 DEF Half2, Owned2, One, Drop
<1> QED
  BY <1>1, <1>2, <1>3 DEF Half2, Shows2

-----------------------------------------------------------------------------

LEMMA OwnersNext == OwnersInv /\ [Next]_vars => OwnersInv'
<1> SUFFICES ASSUME Half1, Half2, [Next]_vars PROVE Half1' /\ Half2'
  BY DEF OwnersInv, HeldTypes, Half1, Half2
<1>1. ASSUME UNCHANGED l2_side PROVE Half2'
  BY <1>1, Half2Same DEF l2_side
<1>2. ASSUME UNCHANGED l1_side PROVE Half1'
  BY <1>2, Half1Same DEF l1_side
<1>3. ASSUME NEW p \in Pixmaps, PutPixmap(p) PROVE Half1' /\ Half2'
  BY <1>1, <1>3, PutSound DEF PutPixmap
<1>4. ASSUME NEW p \in Pixmaps, NEW k, NEW b \in ByteSizes, RenderPixmap(p, k, b)
      PROVE  Half1' /\ Half2'
  BY <1>1, <1>4, RenderSound DEF RenderPixmap
<1>5. ASSUME NEW p \in Pixmaps, DropPixmap(p) PROVE Half1' /\ Half2'
  BY <1>1, <1>5, DropSound DEF DropPixmap
<1>6. ASSUME NEW k, GetPixmap(k) PROVE Half1' /\ Half2'
  BY <1>1, <1>6, GetSound DEF GetPixmap
<1>7. ASSUME NEW s, NEW inv, NEW pages, RetainPages(s, inv, pages) PROVE Half1' /\ Half2'
  <2>1. PurgeDone /\ image' = image /\ held' = held /\ UNCHANGED l2_side
    BY <1>7, RetainIs DEF RetainPages, Half1
  <2> QED
    BY <1>1, <2>1, PurgeSound
<1>8. CASE ReleasePin
  <2>1. UNCHANGED <<l1_lru, l1_map, l1_bytes, image, pix_refs, held>> /\ UNCHANGED l2_side
    BY <1>8 DEF ReleasePin, release_l1_pin, pix_vars
  <2>2. L1Sound' /\ ObjectsIn(l1_map)' = ObjectsIn(l1_map)
    BY <2>1, L1Kept DEF Half1
  <2> QED
    BY <1>1, <2>1, <2>2 DEF Half1, Owned1, Shows1
<1>9. CASE Clear
  <2>1. clear /\ PurgeDone /\ image' = image /\ held' = held /\ held_lists' = held_lists
    BY <1>9, ClearIs DEF Clear, clear, Half1
  <2> QED
    BY <2>1, PurgeSound, ClearListsSound
<1>10. ASSUME NEW d \in Lists, PutList(d) PROVE Half1' /\ Half2'
  BY <1>2, <1>10, PutListSound DEF PutList
<1>11. ASSUME NEW d \in Lists, NEW page, BuildList(d, page) PROVE Half1' /\ Half2'
  BY <1>2, <1>11, BuildSound DEF BuildList
<1>12. ASSUME NEW d \in Lists, DropList(d) PROVE Half1' /\ Half2'
  BY <1>2, <1>12, DropListSound DEF DropList
<1>13. ASSUME NEW page, GetList(page) PROVE Half1' /\ Half2'
  BY <1>2, <1>13, GetListSound DEF GetList
<1>14. CASE UNCHANGED vars
  BY <1>14, Half1Same, Half2Same DEF vars, cache_vars, client_vars
<1> QED
  BY <1>3, <1>4, <1>5, <1>6, <1>7, <1>8, <1>9, <1>10, <1>11, <1>12, <1>13, <1>14 DEF Next

\* For any capacities, budget, sizes and number of owners: the reference
\* counts are exact, what is cached is right and alive, the order lists and
\* the byte count agree with the maps, and both tiers keep their bounds.
THEOREM CacheAlwaysSound == Spec => []CacheSound
BY OwnersInit, OwnersNext, OwnersSound, PTL DEF Spec

-----------------------------------------------------------------------------
(* The order of eviction.                                                  *)

\* The cache's own order lists are the history of use.
OrderInv == OwnersInv /\ KeysInv /\ used = l1_lru /\ used_lists = l2_lru

LEMMA PositionIs ==
    ASSUME NEW X, NEW s \in Seq(X), IsInjective(s), NEW i \in 1..Len(s)
    PROVE  Position(s, s[i]) = i
<1>1. DOMAIN s = 1..Len(s) /\ \A j \in DOMAIN s : s[j] = s[i] => j = i
  BY DEF IsInjective
<1> QED
  BY <1>1 DEF Position

OrderOf(s, D) == s \in Seq(D) /\ IsInjective(s) /\ ToSet(s) = D

FirstOf(t, n) == {t[i] : i \in 1..n}

LEMMA TouchOrder ==
    ASSUME NEW D, NEW lru, OrderOf(lru, D), NEW k
    PROVE  OrderOf(Touch(lru, k), D \cup {k})
<1> DEFINE X == D \cup {k}
<1>1. lru \in Seq(X) /\ k \in X /\ IsInjective(lru) /\ ToSet(lru) = D
  BY SeqMonotonic DEF OrderOf
<1> HIDE DEF X
<1>2. /\ Touch(lru, k) \in Seq(X) /\ IsInjective(Touch(lru, k))
      /\ ToSet(Touch(lru, k)) = ToSet(lru) \cup {k}
  BY <1>1, TouchIs
<1> QED
  BY <1>1, <1>2 DEF OrderOf, X

\* The first n of a list whose member k was moved to the front: the filter
\* finds them, and those that are gone were behind them.
LEMMA TouchedOrder ==
    ASSUME NEW D, NEW lru, OrderOf(lru, D), NEW k,
           NEW t, t = Touch(lru, k), NEW n \in 0..Len(t)
    PROVE  /\ Only(t, FirstOf(t, n)) = SubSeq(t, 1, n)
           /\ OldestGo(D, FirstOf(t, n), lru, k)
<1> DEFINE rest == Only(lru, ToSet(lru) \ {k})
           X == D \cup {k}
           after == FirstOf(t, n)
<1>1. lru \in Seq(D) /\ lru \in Seq(X) /\ IsInjective(lru) /\ k \in X
  BY SeqMonotonic DEF OrderOf
<1>2. t \in Seq(X) /\ IsInjective(t) /\ ToSet(t) = D \cup {k}
  BY TouchOrder DEF OrderOf
<1>3. rest \in Seq(D)
  BY <1>1, OnlyIs
<1>4. /\ Len(t) = Len(rest) + 1 /\ Len(rest) \in Nat /\ t[1] = k
      /\ \A i \in 2..Len(t) : i - 1 \in 1..Len(rest) /\ t[i] = rest[i - 1]
  <2>1. rest \in Seq(X) /\ <<k>> \in Seq(X)
    BY <1>1, <1>3, SeqMonotonic
  <2> HIDE DEF rest, X
  <2>2. t = <<k>> \o rest
    BY DEF Touch, rest
  <2>3. /\ Len(t) = 1 + Len(rest) /\ Len(rest) \in Nat
        /\ \A i \in 1..Len(t) : t[i] = IF i <= 1 THEN <<k>>[i] ELSE rest[i - 1]
    BY <2>1, <2>2
  <2> QED
    BY <2>3
<1> HIDE DEF rest, X, after
<1>5. Len(t) \in Nat /\ DOMAIN t = 1..Len(t) /\ n \in Nat /\ n <= Len(t)
  BY <1>2
<1>6. \A i \in 1..Len(t) : t[i] \in after <=> i \in 1..n
  BY <1>2, <1>5 DEF IsInjective, after, FirstOf
<1>7. Only(t, after) = SubSeq(t, 1, n)
  <2>1. t \in Seq(X) /\ 1 \in 1..Len(t) + 1 /\ n \in 0..Len(t)
    BY <1>2, <1>5
  <2> QED
    BY <1>6, <2>1, OnlyStretch
<1>8. ASSUME NEW gone \in D \ after, NEW stays \in (D \cap after) \ {k}
      PROVE  Position(lru, stays) < Position(lru, gone)
  <2>1. PICK j \in 1..Len(t) : t[j] = gone
    BY <1>2, <1>5 DEF ToSet
  <2>2. PICK i \in 1..n : t[i] = stays
    BY DEF after, FirstOf
  <2>3. j > n /\ i # 1 /\ i \in 2..Len(t) /\ j \in 2..Len(t) /\ i - 1 < j - 1
    BY <1>4, <1>5, <1>6, <2>1, <2>2
  <2>4. i - 1 \in 1..Len(rest) /\ j - 1 \in 1..Len(rest) /\ rest[i - 1] = stays /\ rest[j - 1] = gone
    BY <1>4, <2>1, <2>2, <2>3
  <2>5. PICK a \in 1..Len(lru), b \in 1..Len(lru) : a < b /\ lru[a] = stays /\ lru[b] = gone
    <3>1. \A x, y \in 1..Len(rest) : x < y =>
            \E a, b \in 1..Len(lru) : a < b /\ lru[a] = rest[x] /\ lru[b] = rest[y]
      BY <1>1, OnlyOrder DEF rest
    <3>2. \E a, b \in 1..Len(lru) : a < b /\ lru[a] = rest[i - 1] /\ lru[b] = rest[j - 1]
      BY <2>3, <2>4, <3>1
    <3> QED
      BY <2>4, <3>2
  <2>6. Position(lru, lru[a]) = a /\ Position(lru, lru[b]) = b
    BY <1>1, PositionIs
  <2> QED
    BY <2>5, <2>6
<1>9. OldestGo(D, after, lru, k)
  BY <1>8 DEF OldestGo
<1> QED
  BY <1>7, <1>9 DEF after

LEMMA TouchNew ==
    ASSUME NEW D, NEW lru, OrderOf(lru, D), NEW k, k \notin D
    PROVE  Touch(lru, k) = <<k>> \o lru
<1>1. lru \in Seq(D) /\ ToSet(lru) = D /\ Len(lru) \in Nat /\ \A i \in 1..Len(lru) : lru[i] \in D
  BY LenProperties DEF OrderOf
<1>2. Only(lru, ToSet(lru) \ {k}) = SubSeq(lru, 1, Len(lru))
  <2>1. \A i \in 1..Len(lru) : lru[i] \in ToSet(lru) \ {k} <=> i \in 1..Len(lru)
    BY <1>1
  <2>2. 1 \in 1..Len(lru) + 1 /\ Len(lru) \in 0..Len(lru)
    BY <1>1
  <2> QED
    BY <1>1, <2>1, <2>2, OnlyStretch
<1>3. SubSeq(lru, 1, Len(lru)) = lru
  BY <1>1, SubSeqFull
<1> QED
  BY <1>2, <1>3 DEF Touch

LEMMA ReplaceOrder ==
    ASSUME NEW D, NEW lru, OrderOf(lru, D), NEW k \in D,
           NEW t, t = Touch(lru, k), NEW n \in 0..Len(t)
    PROVE  /\ Only(t, D \ Evicted(t, n)) = SubSeq(t, 1, n)
           /\ OldestGo(D, D \ Evicted(t, n), lru, k)
<1>1. t \in Seq(D) /\ IsInjective(t) /\ ToSet(t) = D
  <2>1. D \cup {k} = D
    OBVIOUS
  <2>2. OrderOf(t, D \cup {k})
    BY TouchOrder
  <2> QED
    BY <2>1, <2>2 DEF OrderOf
<1>2. Len(t) \in Nat /\ DOMAIN t = 1..Len(t) /\ (n + 1)..Len(t) = (1..Len(t)) \ (1..n) /\ 1..n \subseteq 1..Len(t)
  BY <1>1, LenProperties
<1>3. D \ Evicted(t, n) = FirstOf(t, n)
  BY <1>1, <1>2 DEF FirstOf, Evicted, ToSet, IsInjective
<1>4. /\ Only(t, FirstOf(t, n)) = SubSeq(t, 1, n)
      /\ OldestGo(D, FirstOf(t, n), lru, k)
  BY TouchedOrder
<1> QED
  BY <1>3, <1>4

InsertedInOrder(D, lru, k, n) ==
    /\ Only(Touch(lru, k), (D \ Evicted(lru, n)) \cup {k}) = <<k>> \o SubSeq(lru, 1, n)
    /\ OldestGo(D, (D \ Evicted(lru, n)) \cup {k}, lru, k)

LEMMA InsertOrder ==
    ASSUME NEW D, NEW lru, OrderOf(lru, D), NEW k, k \notin D, NEW n \in 0..Len(lru)
    PROVE  InsertedInOrder(D, lru, k, n)
<1>1. PICK t : t = Touch(lru, k)
  OBVIOUS
<1>2. t = <<k>> \o lru
  BY <1>1, TouchNew
<1> DEFINE X == D \cup {k}
           head == SubSeq(lru, 1, n)
<1>3. /\ lru \in Seq(D) /\ lru \in Seq(X) /\ k \in X /\ IsInjective(lru) /\ ToSet(lru) = D
      /\ Len(lru) \in Nat /\ n \in Nat /\ n <= Len(lru) /\ DOMAIN lru = 1..Len(lru)
  BY SeqMonotonic, LenProperties DEF OrderOf
<1>4. head \in Seq(X) /\ Len(head) = n /\ \A i \in 1..n : head[i] = lru[i]
  BY <1>3
<1>5. /\ t \in Seq(X) /\ Len(t) = Len(lru) + 1 /\ t[1] = k
      /\ \A i \in 1..Len(lru) : t[i + 1] = lru[i]
  <2> HIDE DEF X
  <2> QED
    BY <1>2, <1>3
<1>6. SubSeq(t, 1, n + 1) = <<k>> \o head
  <2> HIDE DEF X, head
  <2>1. /\ <<k>> \o head \in Seq(X) /\ Len(<<k>> \o head) = n + 1
        /\ (<<k>> \o head)[1] = k /\ \A i \in 1..n : (<<k>> \o head)[i + 1] = head[i]
    BY <1>3, <1>4
  <2>2. /\ SubSeq(t, 1, n + 1) \in Seq(X) /\ Len(SubSeq(t, 1, n + 1)) = n + 1
        /\ \A i \in 1..(n + 1) : SubSeq(t, 1, n + 1)[i] = t[i]
    BY <1>3, <1>5
  <2>3. ASSUME NEW i \in 1..(n + 1)
        PROVE  SubSeq(t, 1, n + 1)[i] = (<<k>> \o head)[i]
    <3>1. CASE i = 1
      BY <1>3, <1>5, <2>1, <2>2, <3>1
    <3>2. CASE i # 1
      <4>1. i - 1 \in 1..n /\ (i - 1) + 1 = i /\ i - 1 \in 1..Len(lru)
        BY <1>3, <3>2
      <4>2. (<<k>> \o head)[i] = lru[i - 1] /\ t[i] = lru[i - 1]
        BY <1>4, <1>5, <2>1, <4>1
      <4> QED
        BY <2>2, <4>2
    <3> QED
      BY <3>1, <3>2
  <2> QED
    BY <2>1, <2>2, <2>3, SeqEqual
<1>7. (D \ Evicted(lru, n)) \cup {k} = FirstOf(t, n + 1)
  <2>1. D \ Evicted(lru, n) = {lru[i] : i \in 1..n}
    <3>1. (n + 1)..Len(lru) = (1..Len(lru)) \ (1..n) /\ 1..n \subseteq 1..Len(lru)
      BY <1>3
    <3> QED
      BY <1>3, <3>1 DEF Evicted, ToSet, IsInjective
  <2>2. ASSUME NEW i \in 1..n PROVE lru[i] \in FirstOf(t, n + 1)
    <3>1. i + 1 \in 1..(n + 1) /\ t[i + 1] = lru[i]
      BY <1>3, <1>5
    <3> QED
      BY <3>1 DEF FirstOf
  <2>3. k \in FirstOf(t, n + 1)
    <3>1. 1 \in 1..(n + 1)
      BY <1>3
    <3> QED
      BY <1>5, <3>1 DEF FirstOf
  <2>4. ASSUME NEW i \in 1..(n + 1) PROVE t[i] = k \/ t[i] \in {lru[j] : j \in 1..n}
    <3>1. i = 1 \/ (i - 1 \in 1..n /\ i - 1 \in 1..Len(lru) /\ (i - 1) + 1 = i)
      BY <1>3
    <3> QED
      BY <1>5, <3>1
  <2>5. FirstOf(t, n + 1) \subseteq {lru[j] : j \in 1..n} \cup {k}
    BY <2>4 DEF FirstOf
  <2> QED
    BY <2>1, <2>2, <2>3, <2>5
<1>8. n + 1 \in 0..Len(t)
  BY <1>3, <1>5
<1> HIDE DEF X, head
<1>9. /\ Only(t, FirstOf(t, n + 1)) = SubSeq(t, 1, n + 1)
      /\ OldestGo(D, FirstOf(t, n + 1), lru, k)
  BY <1>1, <1>8, TouchedOrder
<1> QED
  BY <1>1, <1>6, <1>7, <1>9 DEF head, InsertedInOrder

\* Nothing leaves, and the key that was not stored is not in the history.
LEMMA UntouchedOrder ==
    ASSUME NEW D, NEW lru, OrderOf(lru, D), NEW k
    PROVE  /\ k \notin D => Only(Touch(lru, k), D) = lru
           /\ k \in D => Only(Touch(lru, k), D) = Touch(lru, k)
           /\ OldestGo(D, D, lru, k)
<1> DEFINE X == D \cup {k}
           t == Touch(lru, k)
<1>0. lru \in Seq(D) /\ ToSet(lru) = D
  BY DEF OrderOf
<1>1. lru \in Seq(X) /\ k \in X /\ Len(lru) \in Nat /\ \A i \in 1..Len(lru) : lru[i] \in D
  BY <1>0, SeqMonotonic, LenProperties
<1>2. ASSUME k \notin D PROVE Only(t, D) = lru
  <2>3. t = <<k>> \o lru
    BY <1>2, TouchNew
  <2> HIDE DEF X, t
  <2>4. /\ t \in Seq(X) /\ Len(t) = 1 + Len(lru)
        /\ t[1] = k /\ \A i \in 1..Len(lru) : t[i + 1] = lru[i]
    BY <1>1, <2>3
  <2>5. \A i \in 1..Len(t) : t[i] \in D <=> i \in 2..Len(t)
    <3> SUFFICES ASSUME NEW i \in 1..Len(t) PROVE t[i] \in D <=> i \in 2..Len(t)
      OBVIOUS
    <3>1. CASE i = 1
      BY <1>2, <2>4, <3>1
    <3>2. CASE i # 1
      <4>1. i - 1 \in 1..Len(lru) /\ i = (i - 1) + 1 /\ i \in 2..Len(t)
        BY <1>1, <2>4, <3>2
      <4>2. t[i] = lru[i - 1]
        BY <2>4, <4>1
      <4> QED
        BY <1>1, <4>1, <4>2
    <3> QED
      BY <3>1, <3>2
  <2>6. Only(t, D) = SubSeq(t, 2, Len(t))
    <3>1. 2 \in 1..Len(t) + 1 /\ Len(t) \in 0..Len(t)
      BY <1>1, <2>4
    <3> QED
      BY <2>4, <2>5, <3>1, OnlyStretch
  <2>7. SubSeq(t, 2, Len(t)) = lru
    <3>1. \A i \in 2..Len(t) : t[i] \in D
      BY <1>1, <2>4, <2>5
    <3>2. /\ SubSeq(t, 2, Len(t)) \in Seq(D) /\ Len(SubSeq(t, 2, Len(t))) = Len(lru)
          /\ \A i \in 1..Len(lru) : SubSeq(t, 2, Len(t))[i] = t[i + 1]
      <4>1. Len(t) \in Int /\ 2 \in Int /\ Len(t) - 2 + 1 = Len(lru)
        BY <1>1, <2>4
      <4>2. /\ SubSeq(t, 2, Len(t)) \in Seq(D)
            /\ Len(SubSeq(t, 2, Len(t))) = IF 2 <= Len(t) THEN Len(t) - 2 + 1 ELSE 0
            /\ \A i \in 1..Len(t) - 2 + 1 : SubSeq(t, 2, Len(t))[i] = t[2 + i - 1]
        BY <3>1, <4>1, SubSeqProperties
      <4>3. \A i \in 1..Len(lru) : 2 + i - 1 = i + 1
        OBVIOUS
      <4> QED
        BY <1>1, <2>4, <4>1, <4>2, <4>3
    <3> QED
      BY <1>0, <2>4, <3>2, SeqEqual
  <2> QED
    BY <2>6, <2>7
<1>3. ASSUME k \in D PROVE Only(t, D) = t
  <2>1. X = D
    BY <1>3
  <2>2. t \in Seq(D) /\ ToSet(t) = D
    BY <2>1, TouchOrder DEF OrderOf
  <2> HIDE DEF t
  <2>3. Len(t) \in Nat /\ \A i \in 1..Len(t) : t[i] \in D <=> i \in 1..Len(t)
    BY <2>2
  <2>4. Only(t, D) = SubSeq(t, 1, Len(t))
    BY <2>2, <2>3, OnlyStretch
  <2> QED
    BY <2>2, <2>4, SubSeqFull
<1>4. OldestGo(D, D, lru, k)
  BY DEF OldestGo
<1> QED
  BY <1>2, <1>3, <1>4

\* A put leaves the order list as the history, and lets the oldest go.
LEMMA PutOrder ==
    ASSUME L1Sound, PinHolds, NEW k, NEW p, NEW refs, put_pixmap(k, p, refs)
    PROVE  /\ l1_lru' = Only(Touch(l1_lru, k), DOMAIN l1_map')
           /\ OldestGo(DOMAIN l1_map, DOMAIN l1_map', l1_lru, k)
<1>1. PICK D, lru : D = DOMAIN l1_map /\ lru = l1_lru
  OBVIOUS
<1>2. OrderOf(lru, D)
  BY <1>1 DEF L1Sound, Tier1, Listed, OrderOf
<1>3. CASE Refused(k) /\ RefusePixmap(p, refs)
  <2>1. DOMAIN l1_map' = D /\ l1_lru' = lru /\ k \notin D
    BY <1>1, <1>3 DEF RefusePixmap, Refused, Admits, PinHolds
  <2>2. Only(Touch(lru, k), D) = lru /\ OldestGo(D, D, lru, k)
    BY <1>2, <2>1, UntouchedOrder
  <2> QED
    BY <1>1, <2>1, <2>2
<1>4. CASE k \in DOMAIN l1_map /\ ReplacePixmap(k, p, refs)
  <2>1. PICK t : t = Touch(lru, k)
    OBVIOUS
  <2>2. PICK n \in 0..Len(t) : l1_lru' = SubSeq(t, 1, n) /\ DOMAIN l1_map' = D \ Evicted(t, n)
    BY <1>1, <1>4, <2>1 DEF ReplacePixmap, Without, Restrict
  <2>3. /\ Only(t, D \ Evicted(t, n)) = SubSeq(t, 1, n)
        /\ OldestGo(D, D \ Evicted(t, n), lru, k)
    BY <1>1, <1>2, <1>4, <2>1, ReplaceOrder
  <2> QED
    BY <1>1, <2>1, <2>2, <2>3
<1>5. CASE k \notin DOMAIN l1_map /\ InsertPixmap(k, p, refs)
  <2>1. PICK n \in 0..Len(lru) :
          /\ l1_lru' = <<k>> \o SubSeq(lru, 1, n)
          /\ DOMAIN l1_map' = (D \ Evicted(lru, n)) \cup {k}
    BY <1>1, <1>5 DEF InsertPixmap
  <2>2. InsertedInOrder(D, lru, k, n)
    BY <1>1, <1>2, <1>5, InsertOrder
  <2> QED
    BY <1>1, <2>1, <2>2 DEF InsertedInOrder
<1> QED
  BY <1>3, <1>4, <1>5 DEF put_pixmap

LEMMA PutListOrder ==
    ASSUME L2Sound, NEW page, NEW d, NEW refs, put_display_list(page, d, refs)
    PROVE  /\ l2_lru' = Only(Touch(l2_lru, page), DOMAIN l2_map')
           /\ OldestGo(DOMAIN l2_map, DOMAIN l2_map', l2_lru, page)
<1>1. PICK D, lru : D = DOMAIN l2_map /\ lru = l2_lru
  OBVIOUS
<1>2. OrderOf(lru, D) /\ Cardinality(D) = Len(lru) /\ Len(lru) \in Nat /\ Cardinality(D) <= L2Capacity
  <2>1. Listed(lru, l2_map) /\ Cardinality(D) <= L2Capacity
    BY <1>1 DEF L2Sound, Tier2
  <2>2. Cardinality(D) = Len(lru) /\ Len(lru) \in Nat
    BY <1>1, <2>1, ListedNames
  <2> QED
    BY <1>1, <2>1, <2>2 DEF Listed, OrderOf
<1>3. CASE page \notin DOMAIN l2_map /\ RefuseList(d, refs)
  <2>1. DOMAIN l2_map' = D /\ l2_lru' = lru /\ page \notin D
    BY <1>1, <1>3 DEF RefuseList, l2_vars
  <2>2. Only(Touch(lru, page), D) = lru /\ OldestGo(D, D, lru, page)
    BY <1>2, <2>1, UntouchedOrder
  <2> QED
    BY <1>1, <2>1, <2>2
<1>4. CASE page \in DOMAIN l2_map /\ ReplaceList(page, d, refs)
  <2>1. DOMAIN l2_map' = D /\ l2_lru' = Touch(lru, page) /\ page \in D
    BY <1>1, <1>4 DEF ReplaceList
  <2>2. Only(Touch(lru, page), D) = Touch(lru, page) /\ OldestGo(D, D, lru, page)
    BY <1>2, <2>1, UntouchedOrder
  <2> QED
    BY <1>1, <2>1, <2>2
<1>5. CASE page \notin DOMAIN l2_map /\ L2Capacity > 0 /\ InsertList(page, d, refs)
  <2>1. PICK n \in 0..Len(lru) :
          /\ l2_lru' = <<page>> \o SubSeq(lru, 1, n)
          /\ DOMAIN l2_map' = (D \ Evicted(lru, n)) \cup {page}
    <3> DEFINE n == IF Cardinality(D) >= L2Capacity THEN L2Capacity - 1 ELSE Len(lru)
    <3>1. n \in 0..Len(lru)
      BY <1>2, <1>5, CacheConstants DEF CacheConstants
    <3>2. /\ l2_lru' = <<page>> \o SubSeq(lru, 1, n)
          /\ DOMAIN l2_map' = (D \ Evicted(lru, n)) \cup {page}
      BY <1>1, <1>5 DEF InsertList
    <3> HIDE DEF n
    <3> QED
      BY <3>1, <3>2
  <2>2. InsertedInOrder(D, lru, page, n)
    BY <1>1, <1>2, <1>5, InsertOrder
  <2> QED
    BY <1>1, <2>1, <2>2 DEF InsertedInOrder
<1> QED
  BY <1>3, <1>4, <1>5 DEF put_display_list

\* A hit, and a purge by key.
LEMMA GetOrder ==
    ASSUME NEW D, NEW lru, OrderOf(lru, D), NEW k \in D
    PROVE  Only(Touch(lru, k), D) = Touch(lru, k)
BY UntouchedOrder

LEMMA RetainOrder ==
    ASSUME L1Sound, NEW s, NEW inv, NEW pages, retain_l1_pages(s, inv, pages)
    PROVE  l1_lru' = Only(l1_lru, DOMAIN l1_map')
<1> DEFINE kept == [page : pages, scale : {s}, invert : {inv}]
<1>1. l1_lru' = Only(l1_lru, kept)
  BY DEF retain_l1_pages
<1>2. DOMAIN l1_map' = DOMAIN l1_map \ (DOMAIN l1_map \ kept)
  BY DEF retain_l1_pages, Without, Restrict
<1> HIDE DEF kept
<1>3. /\ l1_lru \in Seq(DOMAIN l1_map)
      /\ \A i \in 1..Len(l1_lru) : l1_lru[i] \in kept <=> l1_lru[i] \in DOMAIN l1_map'
  <2>1. l1_lru \in Seq(DOMAIN l1_map)
    BY DEF L1Sound, Tier1, Listed
  <2>2. \A i \in 1..Len(l1_lru) : l1_lru[i] \in DOMAIN l1_map
    BY <2>1, LenProperties
  <2> QED
    BY <1>2, <2>1, <2>2
<1> QED
  BY <1>1, <1>3, OnlySame

LEMMA OrderInit == Init => OrderInv
BY OwnersInit, KeysInit DEF Init, PageCacheInit, OrderInv

LEMMA OrderNext == OrderInv /\ [Next]_vars => OrderInv'
<1> SUFFICES ASSUME OrderInv, [Next]_vars
             PROVE  used' = l1_lru' /\ used_lists' = l2_lru'
  BY OwnersNext, KeysNext DEF OrderInv
<1>0. L1Sound /\ L2Sound /\ PinHolds /\ used = l1_lru /\ used_lists = l2_lru
  BY DEF OrderInv, OwnersInv, KeysInv
<1>1. OrderOf(l1_lru, DOMAIN l1_map) /\ OrderOf(l2_lru, DOMAIN l2_map)
  BY <1>0 DEF L1Sound, L2Sound, Tier1, Tier2, Listed, OrderOf
<1>2. ASSUME UNCHANGED l2_side PROVE used_lists' = l2_lru'
  BY <1>0, <1>2 DEF l2_side, l2_vars
<1>3. ASSUME UNCHANGED l1_side PROVE used' = l1_lru'
  BY <1>0, <1>3 DEF l1_side, l1_vars
<1>4. ASSUME NEW p \in Pixmaps, PutPixmap(p) PROVE used' = l1_lru' /\ used_lists' = l2_lru'
  <2>1. UNCHANGED l2_side /\ used' = Only(Touch(l1_lru, image[p].key), DOMAIN l1_map')
    BY <1>0, <1>4 DEF PutPixmap, UsedLast, Cached
  <2>2. put_pixmap(image[p].key, p, Keep(pix_refs, p))
    BY <1>4 DEF PutPixmap
  <2> QED
    BY <1>0, <1>2, <2>1, <2>2, PutOrder
<1>5. ASSUME NEW d \in Lists, PutList(d) PROVE used' = l1_lru' /\ used_lists' = l2_lru'
  <2>1. UNCHANGED l1_side /\ used_lists' = Only(Touch(l2_lru, list_page[d]), DOMAIN l2_map')
    BY <1>0, <1>5 DEF PutList, UsedLast, Cached
  <2>2. put_display_list(list_page[d], d, Keep(list_refs, d))
    BY <1>5 DEF PutList
  <2> QED
    BY <1>0, <1>3, <2>1, <2>2, PutListOrder
<1>6. ASSUME NEW k, GetPixmap(k) PROVE used' = l1_lru' /\ used_lists' = l2_lru'
  <2>1. /\ UNCHANGED l2_side /\ k \in DOMAIN l1_map /\ l1_lru' = Touch(l1_lru, k)
        /\ used' = Only(Touch(l1_lru, k), DOMAIN l1_map)
    BY <1>0, <1>6 DEF GetPixmap, get_pixmap, UsedLast, Cached
  <2> QED
    BY <1>1, <1>2, <2>1, GetOrder
<1>7. ASSUME NEW page, GetList(page) PROVE used' = l1_lru' /\ used_lists' = l2_lru'
  <2>1. /\ UNCHANGED l1_side /\ page \in DOMAIN l2_map /\ l2_lru' = Touch(l2_lru, page)
        /\ used_lists' = Only(Touch(l2_lru, page), DOMAIN l2_map)
    BY <1>0, <1>7 DEF GetList, get_display_list, UsedLast, Cached
  <2> QED
    BY <1>1, <1>3, <2>1, GetOrder
<1>8. ASSUME NEW s, NEW inv, NEW pages, RetainPages(s, inv, pages)
      PROVE  used' = l1_lru' /\ used_lists' = l2_lru'
  <2>1. retain_l1_pages(s, inv, pages) /\ UNCHANGED l2_side /\ used' = Only(l1_lru, DOMAIN l1_map')
    BY <1>0, <1>8 DEF RetainPages, Cached
  <2> QED
    BY <1>0, <1>2, <2>1, RetainOrder
<1>9. CASE Clear
  BY <1>9 DEF Clear, clear
<1>10. CASE ReleasePin
  BY <1>0, <1>2, <1>10 DEF ReleasePin, release_l1_pin
<1>11. ASSUME NEW p, DropPixmap(p) \/ \E k, b : RenderPixmap(p, k, b)
       PROVE  used' = l1_lru' /\ used_lists' = l2_lru'
  BY <1>0, <1>2, <1>11 DEF DropPixmap, RenderPixmap, l1_vars
<1>12. ASSUME NEW d, DropList(d) \/ \E page : BuildList(d, page)
       PROVE  used' = l1_lru' /\ used_lists' = l2_lru'
  BY <1>0, <1>3, <1>12 DEF DropList, BuildList, l2_vars
<1>13. CASE UNCHANGED vars
  BY <1>0, <1>13 DEF vars, cache_vars, l1_vars, l2_vars, client_vars
<1> QED
  BY <1>4, <1>5, <1>6, <1>7, <1>8, <1>9, <1>10, <1>11, <1>12, <1>13 DEF Next

\* For any capacities and budget: a put evicts in order of last use, in both
\* tiers, and keeps what it stored.
THEOREM AlwaysKeepsMostRecent == Spec => KeepsMostRecent
<1> DEFINE Order ==
             /\ \A p \in Pixmaps : PutPixmap(p) =>
                  OldestGo(DOMAIN l1_map, DOMAIN l1_map', used, image[p].key)
             /\ \A d \in Lists : PutList(d) =>
                  OldestGo(DOMAIN l2_map, DOMAIN l2_map', used_lists, list_page[d])
           Newest ==
             \A p \in Pixmaps : PutPixmap(p) =>
               \/ Refused(image[p].key)
               \/ image[p].key \in DOMAIN l1_map' /\ l1_map'[image[p].key].pix = p
<1>1. OrderInv => Order
  <2> SUFFICES ASSUME OrderInv PROVE Order
    OBVIOUS
  <2>0. L1Sound /\ L2Sound /\ PinHolds /\ used = l1_lru /\ used_lists = l2_lru
    BY DEF OrderInv, OwnersInv, KeysInv
  <2>1. ASSUME NEW p \in Pixmaps, PutPixmap(p)
        PROVE  OldestGo(DOMAIN l1_map, DOMAIN l1_map', used, image[p].key)
    <3>1. put_pixmap(image[p].key, p, Keep(pix_refs, p))
      BY <2>1 DEF PutPixmap
    <3>2. OldestGo(DOMAIN l1_map, DOMAIN l1_map', l1_lru, image[p].key)
      BY <2>0, <3>1, PutOrder
    <3> QED
      BY <2>0, <3>2
  <2>2. ASSUME NEW d \in Lists, PutList(d)
        PROVE  OldestGo(DOMAIN l2_map, DOMAIN l2_map', used_lists, list_page[d])
    <3>1. put_display_list(list_page[d], d, Keep(list_refs, d))
      BY <2>2 DEF PutList
    <3>2. OldestGo(DOMAIN l2_map, DOMAIN l2_map', l2_lru, list_page[d])
      BY <2>0, <3>1, PutListOrder
    <3> QED
      BY <2>0, <3>2
  <2> QED
    BY <2>1, <2>2
<1>2. OrderInv => Newest
  <2> SUFFICES ASSUME OrderInv, NEW p \in Pixmaps, PutPixmap(p)
               PROVE  \/ Refused(image[p].key)
                      \/ image[p].key \in DOMAIN l1_map' /\ l1_map'[image[p].key].pix = p
    OBVIOUS
  <2>1. /\ L1Sound /\ p \notin ObjectsIn(l1_map) /\ image[p].bytes \in Nat
        /\ put_pixmap(image[p].key, p, Keep(pix_refs, p))
    BY DEF OrderInv, OwnersInv, HeldTypes, IsImage, PutPixmap, ObjectsIn
  <2>2. PutDone(image[p].key, p, Keep(pix_refs, p))
    BY <2>1, PutPixmapIs
  <2> QED
    BY <2>2 DEF PutDone
<1> HIDE DEF Order, Newest
<1>3. Spec => [][Order]_vars /\ [][Newest]_vars
  BY OrderInit, OrderNext, <1>1, <1>2, PTL DEF Spec
<1> QED
  BY <1>3 DEF KeepsMostRecent, EvictsLeastRecent, PutIsKept, Order, Newest
-----------------------------------------------------------------------------
(* The contexts of a document: ContextFamily.                              *)

-----------------------------------------------------------------------------
(* The inductive invariant.                                                *)

\* The root is there as long as it is shared.
RootShared == root_ctx <=> (doc_root \/ eroot # {})

\* An escrow's context has its share, and its object and its owners its context;
\* what is being destroyed has no owner; no escrow is left behind.
EscrowsWhole ==
    /\ ectx \subseteq eroot
    /\ \A e \in Escrows : obj[e] # "none" \/ hold[e] # {} => e \in ectx
    /\ \A t \in Threads : busy[t] # NoEscrow => hold[busy[t]] = {}
    /\ \A e \in Escrows : e \in eroot => hold[e] # {} \/ \E t \in Threads : busy[t] = e

Running == {"session", "open", "close_session", "close_engine"}

\* What the view has at each point of its life.
LifeInv ==
    /\ doc_root <=> life # "gone"
    /\ doc_open => life \notin {"close_root", "gone"}
    /\ life \in Running => clones = {Ui, Cache} \cup Workers
    /\ life \in {"engine", "close_docs", "close_workers", "close_cache"} => {Ui, Cache} \subseteq clones
    /\ life \in {"clone", "close_slot", "close_doc", "close_root", "gone"} => clones = {}
    /\ wdocs \subseteq clones
    /\ life \notin Running \cup {"close_docs"} => wdocs = {}
    /\ cached => life \in Running \cup {"close_docs", "close_workers", "close_cache"}

\* The workers have something in hand only while the engine runs.
AtWork(w) == w \in hand \/ busy[w] # NoEscrow \/ \E e \in Escrows : w \in hold[e]
WorkersInv == life \notin Running => \A w \in Workers : ~AtWork(w)

FamilyInv == FamilyTypeOK /\ RootShared /\ EscrowsWhole /\ LifeInv /\ WorkersInv

-----------------------------------------------------------------------------
(* What EscrowContext's operations keep.                                   *)

EscrowType ==
    /\ ectx \subseteq Escrows /\ eroot \subseteq Escrows
    /\ obj \in [Escrows -> Objects]
    /\ hold \in [Escrows -> SUBSET Places]
    /\ busy \in [Threads -> Escrows \cup {NoEscrow}]

LEMMA ThreadsApart == Ui \notin Workers
BY FamilyConstants

\* A new escrow keeps the escrows whole, and only t and the new owners change.
LEMMA EscrowKeeps ==
    ASSUME EscrowType, EscrowsWhole,
           NEW t \in Threads, NEW e \in Escrows, NEW o \in Objects, NEW p \in SUBSET Places,
           p # {}, Idle(t), Escrow(t, e, o, p)
    PROVE  /\ EscrowType' /\ EscrowsWhole'
           /\ eroot' = eroot \cup {e}
           /\ \A f \in Escrows : hold'[f] \subseteq hold[f] \cup p
           /\ \A u \in Threads : u # t => busy'[u] = busy[u]
<1> USE DEF EscrowType, EscrowsWhole, Escrow, Unused, Idle
<1>1. EscrowType'
    OBVIOUS
<1>2. ectx' \subseteq eroot'
    OBVIOUS
<1>3. \A f \in Escrows : obj'[f] # "none" \/ hold'[f] # {} => f \in ectx'
    OBVIOUS
<1>4. \A u \in Threads : busy'[u] # NoEscrow => hold'[busy'[u]] = {}
    OBVIOUS
<1>5. \A f \in Escrows : f \in eroot' => hold'[f] # {} \/ \E u \in Threads : busy'[u] = f
    <2> SUFFICES ASSUME NEW f \in Escrows, f \in eroot', hold'[f] = {}
                 PROVE  \E u \in Threads : busy'[u] = f
        OBVIOUS
    <2>1. CASE f = e
        BY <2>1
    <2>2. CASE f # e
        <3>1. hold[f] = {} /\ f \in eroot
            BY <2>2
        <3>2. PICK u \in Threads : busy[u] = f
            BY <3>1
        <3>3. u # t
            BY <3>2, FamilyConstants
        <3> QED
            BY <3>2, <3>3
    <2> QED
        BY <2>1, <2>2
<1> QED
    BY <1>1, <1>2, <1>3, <1>4, <1>5

\* So does an owner's leaving or handing on.
LEMMA MoveKeeps ==
    ASSUME EscrowType, EscrowsWhole,
           NEW t \in Threads, NEW e \in Escrows, NEW p \in Places, NEW q \in SUBSET Places,
           p \in hold[e], Idle(t), Move(t, e, p, q)
    PROVE  /\ EscrowType' /\ EscrowsWhole'
           /\ eroot' = eroot
           /\ \A f \in Escrows : hold'[f] \subseteq hold[f] \cup q
           /\ hold'[e] = (hold[e] \ {p}) \cup q
           /\ \A u \in Threads : u # t => busy'[u] = busy[u]
<1> USE DEF EscrowType, EscrowsWhole, Move, Idle
<1>0. hold' = [hold EXCEPT ![e] = (hold[e] \ {p}) \cup q]
    OBVIOUS
<1>1. EscrowType'
    OBVIOUS
<1>2. ectx' \subseteq eroot' /\ \A f \in Escrows : obj'[f] # "none" \/ hold'[f] # {} => f \in ectx'
    OBVIOUS
<1>3. \A u \in Threads : busy'[u] # NoEscrow => hold'[busy'[u]] = {}
    <2> SUFFICES ASSUME NEW u \in Threads, busy'[u] # NoEscrow
                 PROVE  hold'[busy'[u]] = {}
        OBVIOUS
    <2>1. CASE busy'[u] = busy[u]
        <3>1. busy[u] \in Escrows /\ hold[busy[u]] = {}
            BY <2>1
        <3>2. busy[u] # e
            BY <3>1
        <3> QED
            BY <2>1, <3>1, <3>2
    <2>2. CASE busy'[u] # busy[u]
        BY <2>2
    <2> QED
        BY <2>1, <2>2
<1>4. \A f \in Escrows : f \in eroot' => hold'[f] # {} \/ \E u \in Threads : busy'[u] = f
    <2> SUFFICES ASSUME NEW f \in Escrows, f \in eroot', hold'[f] = {}
                 PROVE  \E u \in Threads : busy'[u] = f
        OBVIOUS
    <2>1. CASE f = e
        BY <2>1
    <2>2. CASE f # e
        <3>1. PICK u \in Threads : busy[u] = f
            BY <2>2
        <3>2. u # t
            BY <3>1, FamilyConstants
        <3> QED
            BY <3>1, <3>2
    <2> QED
        BY <2>1, <2>2
<1> QED
    BY <1>0, <1>1, <1>2, <1>3, <1>4

-----------------------------------------------------------------------------
(* Initially.                                                              *)

LEMMA FamilyInitInv == FamilyInit => FamilyInv
BY FamilyConstants
   DEF FamilyInit, FamilyInv, FamilyTypeOK, RootShared, EscrowsWhole, LifeInv, WorkersInv,
       AtWork, Running, Lives, Objects, Threads

-----------------------------------------------------------------------------
(* The steps that destroy an escrow.                                       *)

LEMMA FreeObjectKeeps ==
    ASSUME FamilyInv, NEW t \in Threads, FreeObject(t)
    PROVE  FamilyInv'
<1> DEFINE e == busy[t]
<1>1. e \in Escrows /\ hold[e] = {}
    BY DEF FamilyInv, FamilyTypeOK, EscrowsWhole, FreeObject, Idle
<1>2. FamilyTypeOK'
    BY <1>1 DEF FamilyInv, FamilyTypeOK, FreeObject, Objects, viewVars
<1>3. EscrowsWhole'
    BY <1>1 DEF FamilyInv, FamilyTypeOK, EscrowsWhole, FreeObject
<1>4. RootShared' /\ LifeInv' /\ WorkersInv'
    BY DEF FamilyInv, RootShared, LifeInv, WorkersInv, AtWork, FreeObject, viewVars
<1> QED
    BY <1>2, <1>3, <1>4 DEF FamilyInv

LEMMA DropContextKeeps ==
    ASSUME FamilyInv, NEW t \in Threads, DropContext(t)
    PROVE  FamilyInv'
<1> DEFINE e == busy[t]
<1>1. e \in Escrows /\ hold[e] = {} /\ obj[e] = "none"
    BY DEF FamilyInv, FamilyTypeOK, EscrowsWhole, DropContext, Idle
<1>2. FamilyTypeOK'
    BY DEF FamilyInv, FamilyTypeOK, DropContext, viewVars
<1>3. EscrowsWhole'
    BY <1>1 DEF FamilyInv, FamilyTypeOK, EscrowsWhole, DropContext
<1>4. RootShared' /\ LifeInv' /\ WorkersInv'
    BY DEF FamilyInv, RootShared, LifeInv, WorkersInv, AtWork, DropContext, viewVars
<1> QED
    BY <1>2, <1>3, <1>4 DEF FamilyInv

\* The share that is released may be the last: then the root goes, and nothing
\* of the family is left.
LEMMA ReleaseKeeps ==
    ASSUME FamilyInv, NEW t \in Threads, Release(t)
    PROVE  FamilyInv'
<1> DEFINE e == busy[t]
<1>1. e \in Escrows /\ hold[e] = {} /\ obj[e] = "none" /\ e \notin ectx
    BY DEF FamilyInv, FamilyTypeOK, EscrowsWhole, Release, Idle
<1>2. FamilyTypeOK'
    BY DEF FamilyInv, FamilyTypeOK, Release, RootAfter, viewVars
<1>3. EscrowsWhole'
    <2>1. ectx' \subseteq eroot'
        BY <1>1 DEF FamilyInv, EscrowsWhole, Release
    <2>2. \A f \in Escrows : obj'[f] # "none" \/ hold'[f] # {} => f \in ectx'
        BY DEF FamilyInv, EscrowsWhole, Release
    <2>3. \A u \in Threads : busy'[u] # NoEscrow => hold'[busy'[u]] = {}
        BY DEF FamilyInv, FamilyTypeOK, EscrowsWhole, Release
    <2>4. ASSUME NEW f \in Escrows, f \in eroot', hold'[f] = {}
          PROVE  \E u \in Threads : busy'[u] = f
        <3>1. f # e /\ f \in eroot /\ hold[f] = {}
            BY <2>4 DEF Release
        <3>2. PICK u \in Threads : busy[u] = f
            BY <3>1 DEF FamilyInv, EscrowsWhole
        <3>3. u # t
            BY <3>1, <3>2
        <3> QED
            BY <3>2, <3>3 DEF Release, FamilyInv, FamilyTypeOK
    <2> QED
        BY <2>1, <2>2, <2>3, <2>4 DEF EscrowsWhole
<1>4. RootShared'
    BY DEF FamilyInv, RootShared, Release, RootAfter, viewVars
<1>5. LifeInv'
    BY DEF FamilyInv, LifeInv, Release, viewVars
<1>6. WorkersInv'
    BY DEF FamilyInv, FamilyTypeOK, WorkersInv, AtWork, Release, Threads
<1> QED
    BY <1>2, <1>3, <1>4, <1>5, <1>6 DEF FamilyInv

-----------------------------------------------------------------------------
(* The view is opened and closed.                                          *)

\* A step that leaves the escrows and the shares of the root alone.
LEMMA EscrowsAlone ==
    ASSUME FamilyInv, UNCHANGED <<escrowVars, busy, root_ctx, doc_root>>
    PROVE  RootShared' /\ EscrowsWhole'
BY DEF FamilyInv, RootShared, EscrowsWhole, escrowVars

LEMMA OpenKeeps ==
    ASSUME FamilyInv, CloneContexts \/ StartEngine \/ CloseView \/ WindowDies
    PROVE  FamilyInv'
<1>1. RootShared' /\ EscrowsWhole'
    BY EscrowsAlone DEF CloneContexts, StartEngine, CloseView, WindowDies, viewVars
<1>2. CASE CloneContexts
    <2> USE <1>2 DEF CloneContexts, At, FamilyInv
    <2>1. FamilyTypeOK'
        BY DEF FamilyTypeOK, Lives, escrowVars
    <2>2. LifeInv'
        BY DEF LifeInv, Running
    <2>3. WorkersInv'
        BY DEF WorkersInv, AtWork, Running, escrowVars
    <2> QED
        BY <1>1, <2>1, <2>2, <2>3
<1>3. CASE StartEngine
    <2> USE <1>3 DEF StartEngine, At, FamilyInv
    <2>0. PICK made \in SUBSET Workers : \E opened \in SUBSET made :
              /\ opened # {} => made = Workers
              /\ clones' = clones \cup made
              /\ wdocs' = opened
              /\ life' \in {"close_docs"} \cup IF opened = Workers THEN {"session"} ELSE {}
        OBVIOUS
    <2>1. PICK opened \in SUBSET made :
              /\ opened # {} => made = Workers
              /\ clones' = clones \cup made
              /\ wdocs' = opened
              /\ life' \in {"close_docs"} \cup IF opened = Workers THEN {"session"} ELSE {}
        BY <2>0
    <2>2. life' = "close_docs" \/ (life' = "session" /\ opened = Workers /\ made = Workers)
        BY <2>1
    <2>3. FamilyTypeOK'
        BY <2>1, <2>2 DEF FamilyTypeOK, Lives, escrowVars
    <2>4. clones' \subseteq {Ui, Cache} \cup Workers /\ {Ui, Cache} \subseteq clones'
        BY <2>1 DEF LifeInv, FamilyTypeOK
    <2>5. LifeInv'
        BY <2>1, <2>2, <2>4 DEF LifeInv, Running
    <2>6. WorkersInv'
        BY DEF WorkersInv, AtWork, Running, escrowVars
    <2> QED
        BY <1>1, <2>3, <2>5, <2>6
<1>4. CASE CloseView \/ WindowDies
    <2> USE <1>4 DEF CloseView, WindowDies, At, FamilyInv, viewVars
    <2>1. FamilyTypeOK'
        BY DEF FamilyTypeOK, Lives, escrowVars
    <2>2. LifeInv'
        BY DEF LifeInv, Running
    <2>3. WorkersInv'
        BY DEF WorkersInv, AtWork, Running, escrowVars
    <2> QED
        BY <1>1, <2>1, <2>2, <2>3
<1> QED
    BY <1>2, <1>3, <1>4

LEMMA StartSessionKeeps ==
    ASSUME FamilyInv, StartSession
    PROVE  FamilyInv'
<1> USE DEF StartSession, At, FamilyInv
<1>1. CASE life' = "close_engine" /\ UNCHANGED <<escrowVars, busy>>
    <2>1. RootShared' /\ EscrowsWhole'
        BY <1>1, EscrowsAlone DEF viewVars
    <2>2. FamilyTypeOK'
        BY <1>1 DEF FamilyTypeOK, Lives, escrowVars, viewVars
    <2>3. LifeInv' /\ WorkersInv'
        BY <1>1 DEF LifeInv, WorkersInv, Running, viewVars
    <2> QED
        BY <2>1, <2>2, <2>3
<1>2. ASSUME NEW e \in Escrows, NEW o \in {"none", "sdoc"},
             Escrow(Ui, e, o, {"session"}),
             life' \in IF o = "sdoc" THEN {"open", "close_session"} ELSE {"close_engine"}
      PROVE  FamilyInv'
    <2>0. EscrowType /\ o \in Objects /\ Ui \in Threads /\ {"session"} \in SUBSET Places
        BY DEF EscrowType, FamilyTypeOK, Objects, Threads, Places, Owners
    <2>1. /\ EscrowType' /\ EscrowsWhole'
          /\ eroot' = eroot \cup {e}
        BY <1>2, <2>0, EscrowKeeps
    <2>2. life' \in {"open", "close_session", "close_engine"}
        BY <1>2
    <2>3. FamilyTypeOK'
        BY <2>1, <2>2 DEF FamilyTypeOK, EscrowType, Lives, viewVars
    <2>4. RootShared'
        BY <2>1 DEF RootShared, LifeInv, viewVars
    <2>5. LifeInv' /\ WorkersInv'
        BY <2>2 DEF LifeInv, WorkersInv, Running, viewVars
    <2> QED
        BY <2>1, <2>3, <2>4, <2>5
<1> QED
    BY <1>1, <1>2

LEMMA CloseSessionKeeps ==
    ASSUME FamilyInv, CloseSession
    PROVE  FamilyInv'
<1> USE DEF CloseSession, At, FamilyInv
<1>1. PICK e \in Escrows : "session" \in hold[e] /\ Move(Ui, e, "session", {})
    OBVIOUS
<1>2. EscrowType /\ Ui \in Threads /\ "session" \in Places
    BY DEF EscrowType, FamilyTypeOK, Threads, Places, Owners
<1>3. EscrowType' /\ EscrowsWhole' /\ eroot' = eroot
    BY <1>1, <1>2, MoveKeeps
<1>4. FamilyTypeOK'
    BY <1>3 DEF FamilyTypeOK, EscrowType, Lives, viewVars
<1>5. RootShared'
    BY <1>3 DEF RootShared, viewVars
<1>6. LifeInv' /\ WorkersInv'
    BY DEF LifeInv, WorkersInv, Running, viewVars
<1> QED
    BY <1>3, <1>4, <1>5, <1>6

\* The engine ends when no worker has anything in hand.
LEMMA JoinKeeps ==
    ASSUME FamilyInv, JoinWorkers
    PROVE  FamilyInv'
<1> USE DEF JoinWorkers, At, FamilyInv
<1>1. RootShared' /\ EscrowsWhole'
    BY EscrowsAlone DEF viewVars
<1>2. FamilyTypeOK'
    BY DEF FamilyTypeOK, Lives, escrowVars, viewVars
<1>3. LifeInv'
    BY DEF LifeInv, Running, viewVars
<1>4. WorkersInv'
    BY DEF WorkersInv, AtWork, Resting, Idle, escrowVars
<1> QED
    BY <1>1, <1>2, <1>3, <1>4

LEMMA DropSlotKeeps ==
    ASSUME FamilyInv, DropSlot
    PROVE  FamilyInv'
<1> USE DEF DropSlot, CloseStep, At, FamilyInv
<1>1. CASE UNCHANGED <<hold, busy>>
    <2>1. RootShared' /\ EscrowsWhole'
        BY <1>1, EscrowsAlone DEF viewVars, escrowVars
    <2>2. FamilyTypeOK'
        BY <1>1 DEF FamilyTypeOK, Lives, viewVars
    <2>3. LifeInv' /\ WorkersInv'
        BY <1>1 DEF LifeInv, WorkersInv, AtWork, Running, viewVars
    <2> QED
        BY <2>1, <2>2, <2>3
<1>2. ASSUME NEW e \in Escrows, "slot" \in hold[e], Move(Ui, e, "slot", {})
      PROVE  FamilyInv'
    <2>1. EscrowType /\ Ui \in Threads /\ "slot" \in Places
        BY DEF EscrowType, FamilyTypeOK, Threads, Places, Owners
    <2>2. /\ EscrowType' /\ EscrowsWhole' /\ eroot' = eroot
          /\ \A f \in Escrows : hold'[f] \subseteq hold[f] \cup {}
          /\ \A u \in Threads : u # Ui => busy'[u] = busy[u]
        BY <1>2, <2>1, MoveKeeps
    <2>3. FamilyTypeOK'
        BY <2>2 DEF FamilyTypeOK, EscrowType, Lives, viewVars
    <2>4. RootShared' /\ LifeInv'
        BY <2>2 DEF RootShared, LifeInv, Running, viewVars
    <2>5. WorkersInv'
        BY <2>2, ThreadsApart DEF WorkersInv, AtWork, Running, Threads
    <2> QED
        BY <2>2, <2>3, <2>4, <2>5
<1> QED
    BY <1>1, <1>2

LEMMA CloseMemberKeeps ==
    ASSUME FamilyInv, CloseMember
    PROVE  FamilyInv'
<1>1. CASE DropDocs \/ DropWorkers \/ DropCache \/ DropClones \/ DropDocument
    <2> USE <1>1 DEF DropDocs, DropWorkers, DropCache, DropClones, DropDocument,
                     CloseStep, At, FamilyInv
    <2>1. RootShared' /\ EscrowsWhole'
        BY EscrowsAlone DEF escrowVars
    <2>2. FamilyTypeOK'
        BY DEF FamilyTypeOK, Lives
    <2>3. LifeInv'
        BY FamilyConstants DEF LifeInv, Running
    <2>4. WorkersInv'
        BY DEF WorkersInv, AtWork, Running
    <2> QED
        BY <2>1, <2>2, <2>3, <2>4
<1>2. CASE ReleaseRoot
    <2> USE <1>2 DEF ReleaseRoot, CloseStep, At, FamilyInv
    <2>1. RootShared'
        BY DEF RootShared, RootAfter
    <2>2. EscrowsWhole'
        BY DEF EscrowsWhole
    <2>3. FamilyTypeOK'
        BY DEF FamilyTypeOK, Lives, RootAfter
    <2>4. LifeInv'
        <3>1. doc_open = FALSE
            BY DEF LifeInv
        <3> QED
            BY <3>1 DEF LifeInv, Running
    <2>5. WorkersInv'
        BY DEF WorkersInv, AtWork, Running
    <2> QED
        BY <2>1, <2>2, <2>3, <2>4, <2>5
<1>3. CASE DropSlot
    BY <1>3, DropSlotKeeps
<1> QED
    BY <1>1, <1>2, <1>3 DEF CloseMember

-----------------------------------------------------------------------------
(* The workers and the canvas.                                             *)

\* Who has work in hand runs while the engine does; its pixmaps are freed
\* through its own context.
LEMMA WorkingRuns ==
    ASSUME FamilyInv, NEW w \in Workers, AtWork(w)
    PROVE  life \in Running
BY DEF FamilyInv, WorkersInv

LEMMA RenderKeeps ==
    ASSUME FamilyInv, NEW w \in Workers, Render(w) \/ FreePixmap(w)
    PROVE  FamilyInv'
<1> USE DEF Render, FreePixmap, Rendering, FamilyInv
<1>1. RootShared' /\ EscrowsWhole'
    BY EscrowsAlone DEF viewVars
<1>2. FamilyTypeOK'
    BY DEF FamilyTypeOK, escrowVars, viewVars
<1>3. life \in Running
    BY WorkingRuns DEF AtWork, Running
<1>4. LifeInv' /\ WorkersInv'
    BY <1>3 DEF LifeInv, WorkersInv, Running, viewVars
<1> QED
    BY <1>1, <1>2, <1>4

LEMMA EscrowPixmapKeeps ==
    ASSUME FamilyInv, NEW w \in Workers, NEW e \in Escrows, EscrowPixmap(w, e) \/ BuildText(w, e)
    PROVE  FamilyInv'
<1> USE DEF FamilyInv
<1>1. PICK o \in Objects : Escrow(w, e, o, {w})
    BY DEF EscrowPixmap, BuildText, Objects
<1>2. EscrowType /\ w \in Threads /\ {w} \in SUBSET Places /\ Idle(w)
    BY DEF EscrowType, FamilyTypeOK, Threads, Places, EscrowPixmap, BuildText, Resting
<1>3. EscrowType' /\ EscrowsWhole' /\ eroot' = eroot \cup {e}
    BY <1>1, <1>2, EscrowKeeps
<1>4. life \in Running /\ life' = life
    BY WorkingRuns DEF AtWork, Running, EscrowPixmap, BuildText, Rendering
<1>5. UNCHANGED <<listening, root_ctx, viewVars>> /\ hand' \subseteq hand
    BY DEF EscrowPixmap, BuildText
<1>6. FamilyTypeOK'
    BY <1>3, <1>4, <1>5 DEF FamilyTypeOK, EscrowType, viewVars
<1>7. RootShared'
    BY <1>3, <1>4, <1>5 DEF RootShared, LifeInv, Running, viewVars
<1>8. LifeInv' /\ WorkersInv'
    BY <1>4, <1>5 DEF LifeInv, WorkersInv, viewVars
<1> QED
    BY <1>3, <1>6, <1>7, <1>8

\* A move by any thread that adds no worker to an escrow's owners.
LEMMA MoveAloneKeeps ==
    ASSUME FamilyInv, NEW t \in Threads, NEW e \in Escrows, NEW p \in Places,
           NEW q \in SUBSET Owners,
           p \in hold[e], Idle(t), Move(t, e, p, q),
           t \in Workers => life \in Running,
           UNCHANGED <<life, listening, root_ctx, viewVars, hand>>
    PROVE  FamilyInv'
<1> USE DEF FamilyInv
<1>1. EscrowType /\ q \in SUBSET Places
    BY DEF EscrowType, FamilyTypeOK, Places
<1>2. /\ EscrowType' /\ EscrowsWhole' /\ eroot' = eroot
      /\ \A f \in Escrows : hold'[f] \subseteq hold[f] \cup q
      /\ \A u \in Threads : u # t => busy'[u] = busy[u]
    BY <1>1, MoveKeeps
<1>3. FamilyTypeOK'
    BY <1>2 DEF FamilyTypeOK, EscrowType, viewVars
<1>4. RootShared' /\ LifeInv'
    BY <1>2 DEF RootShared, LifeInv, viewVars
<1>5. WorkersInv'
    <2> SUFFICES ASSUME life \notin Running, NEW w \in Workers
                 PROVE  ~AtWork(w)'
        BY DEF WorkersInv
    <2>1. t \notin Workers /\ ~AtWork(w)
        BY DEF WorkersInv
    <2>2. busy'[w] = NoEscrow /\ w \notin hand'
        BY <1>2, <2>1 DEF AtWork, Threads
    <2>3. w \notin q
        BY FamilyConstants
    <2> QED
        BY <1>2, <2>1, <2>2, <2>3 DEF AtWork
<1> QED
    BY <1>2, <1>3, <1>4, <1>5

LEMMA PostKeeps ==
    ASSUME FamilyInv, NEW w \in Workers, NEW e \in Escrows, Post(w, e)
    PROVE  FamilyInv'
<1>1. PICK q \in {{"queue"}, {}} : Move(w, e, w, q)
    BY DEF Post
<1>2. w \in Threads /\ w \in Places /\ q \in SUBSET Owners
    BY DEF Threads, Places, Owners
<1>3. life \in Running
    BY WorkingRuns DEF AtWork, Post
<1> QED
    BY <1>1, <1>2, <1>3, MoveAloneKeeps DEF Post

\* What the UI thread moves.
LEMMA CanvasMoveKeeps ==
    ASSUME FamilyInv, NEW e \in Escrows, Deliver(e) \/ Turn(e) \/ EndDrag(e)
    PROVE  FamilyInv'
<1>1. \E p \in Owners, q \in SUBSET Owners : p \in hold[e] /\ Move(Ui, e, p, q)
    BY DEF Deliver, Turn, EndDrag, Owners
<1>2. Ui \in Threads /\ Ui \notin Workers /\ Owners \subseteq Places /\ Idle(Ui)
    BY ThreadsApart DEF Threads, Places, Deliver, Turn, EndDrag, At
<1>3. UNCHANGED <<life, listening, root_ctx, viewVars, hand>>
    BY DEF Deliver, Turn, EndDrag
<1> QED
    BY <1>1, <1>2, <1>3, MoveAloneKeeps

LEMMA PressKeeps ==
    ASSUME FamilyInv, NEW e \in Escrows, Press(e)
    PROVE  FamilyInv'
<1> USE DEF FamilyInv
<1>1. UNCHANGED <<life, listening, root_ctx, viewVars, hand>> /\ Idle(Ui) /\ life = "open"
    BY DEF Press, At
<1>2. Ui \in Threads /\ Ui \notin Workers /\ Owners \subseteq Places
    BY ThreadsApart DEF Threads, Places
<1>3. CASE "slot" \in hold[e] /\ Move(Ui, e, "slot", {"slot", "drag"})
    <2>1. "slot" \in Places /\ {"slot", "drag"} \in SUBSET Owners
        BY DEF Places, Owners
    <2> QED
        BY <1>1, <1>2, <1>3, <2>1, MoveAloneKeeps
<1>4. ASSUME NEW o \in {"none", "text"}, NEW p \in {{"drag"}, {"slot", "drag"}},
             Escrow(Ui, e, o, p)
      PROVE  FamilyInv'
    <2>1. EscrowType /\ o \in Objects /\ p \in SUBSET Places /\ p # {}
        BY DEF EscrowType, FamilyTypeOK, Objects, Places, Owners
    <2>2. EscrowType' /\ EscrowsWhole' /\ eroot' = eroot \cup {e}
        BY <1>1, <1>2, <1>4, <2>1, EscrowKeeps
    <2>3. FamilyTypeOK'
        BY <1>1, <2>2 DEF FamilyTypeOK, EscrowType, viewVars
    <2>4. RootShared' /\ LifeInv' /\ WorkersInv'
        BY <1>1, <2>2 DEF RootShared, LifeInv, WorkersInv, Running, viewVars
    <2> QED
        BY <2>2, <2>3, <2>4
<1> QED
    BY <1>3, <1>4 DEF Press

-----------------------------------------------------------------------------
(* The theorem.                                                            *)

LEMMA FamilyStep == FamilyInv /\ [FamilyNext]_familyVars => FamilyInv'
<1> SUFFICES ASSUME FamilyInv, [FamilyNext]_familyVars
             PROVE  FamilyInv'
    OBVIOUS
<1>1. CASE UNCHANGED familyVars
    <2>1. RootShared' /\ EscrowsWhole'
        BY <1>1, EscrowsAlone DEF familyVars, viewVars
    <2>2. FamilyTypeOK'
        BY <1>1 DEF FamilyInv, FamilyTypeOK, familyVars, viewVars, escrowVars
    <2>3. LifeInv' /\ WorkersInv'
        BY <1>1 DEF FamilyInv, LifeInv, WorkersInv, AtWork, familyVars, viewVars, escrowVars
    <2> QED
        BY <2>1, <2>2, <2>3 DEF FamilyInv
<1>2. ASSUME NEW t \in Threads, FreeObject(t) \/ DropContext(t) \/ Release(t)
      PROVE  FamilyInv'
    BY <1>2, FreeObjectKeeps, DropContextKeeps, ReleaseKeeps
<1>3. CASE CloneContexts \/ StartEngine \/ CloseView \/ WindowDies
    BY <1>3, OpenKeeps
<1>4. CASE StartSession \/ CloseSession \/ JoinWorkers \/ CloseMember
    BY <1>4, StartSessionKeeps, CloseSessionKeeps, JoinKeeps, CloseMemberKeeps
<1>5. ASSUME NEW w \in Workers, Render(w) \/ FreePixmap(w)
      PROVE  FamilyInv'
    BY <1>5, RenderKeeps
<1>6. ASSUME NEW w \in Workers, NEW e \in Escrows,
             EscrowPixmap(w, e) \/ BuildText(w, e) \/ Post(w, e)
      PROVE  FamilyInv'
    BY <1>6, EscrowPixmapKeeps, PostKeeps
<1>7. ASSUME NEW e \in Escrows, Deliver(e) \/ Press(e) \/ Turn(e) \/ EndDrag(e)
      PROVE  FamilyInv'
    BY <1>7, CanvasMoveKeeps, PressKeeps
<1> QED
    BY <1>1, <1>2, <1>3, <1>4, <1>5, <1>6, <1>7 DEF FamilyNext

\* The four parts of FamilySound follow.
LEMMA InvSound == FamilyInv => FamilySound
<1> SUFFICES ASSUME FamilyInv
             PROVE  FamilySound
    OBVIOUS
<1> USE DEF FamilyInv
<1>1. RootGoesLast
    BY DEF RootGoesLast, RootShared, EscrowsWhole, LifeInv
<1>2. FreedThroughLive
    <2>1. hand \subseteq clones
        BY WorkingRuns DEF AtWork, LifeInv, FamilyTypeOK
    <2>2. cached => Cache \in clones
        BY DEF LifeInv
    <2> QED
        BY <2>1, <2>2 DEF FreedThroughLive, LifeInv, EscrowsWhole
<1>3. WorkersInside
    <2> SUFFICES ASSUME NEW w \in Workers, w \in hand \/ ~Resting(w)
                 PROVE  doc_root
        BY DEF WorkersInside, FamilyTypeOK
    <2>1. life \in Running
        BY WorkingRuns DEF AtWork, Resting, Idle
    <2> QED
        BY <2>1 DEF LifeInv, Running
<1>4. NothingLeft
    <2> SUFFICES ASSUME life = "gone", \A e \in Escrows : hold[e] = {}, \A t \in Threads : Idle(t)
                 PROVE  ~root_ctx /\ clones = {} /\ ectx = {} /\ eroot = {}
        BY DEF NothingLeft
    <2>1. \A e \in Escrows : e \notin eroot
        BY FamilyConstants DEF EscrowsWhole, Idle
    <2>2. eroot = {} /\ ectx = {}
        BY <2>1 DEF FamilyTypeOK, EscrowsWhole
    <2> QED
        BY <2>2 DEF RootShared, LifeInv
<1> QED
    BY <1>1, <1>2, <1>3, <1>4 DEF FamilySound

\* Whatever the opening achieves, however the view is closed and in which order
\* the threads drop what outlives it, the root of the family goes last, once
\* nothing of the family is left (#61).
THEOREM FamilyIsSound == FamilySpec => []FamilySound
<1>1. FamilyInit => FamilyInv
    BY FamilyInitInv
<1>2. FamilyInv /\ [FamilyNext]_familyVars => FamilyInv'
    BY FamilyStep
<1>3. FamilyInv => FamilySound
    BY InvSound
<1> QED
    BY <1>1, <1>2, <1>3, PTL DEF FamilySpec

\* Every variable keeps to its type.
THEOREM FamilyTyped == FamilySpec => []FamilyTypeOK
<1>1. FamilyInit => FamilyInv
    BY FamilyInitInv
<1>2. FamilyInv /\ [FamilyNext]_familyVars => FamilyInv'
    BY FamilyStep
<1>3. FamilyInv => FamilyTypeOK
    BY DEF FamilyInv
<1> QED
    BY <1>1, <1>2, <1>3, PTL DEF FamilySpec

-----------------------------------------------------------------------------
(* The layouts: what holds of the canvas between two messages.             *)

\* The pages of every document.
BookPages == DOMAIN PageH

ViewOK(sv) ==
    /\ DOMAIN sv = {"layout", "vp_h", "y", "current", "pinned", "travel"}
    /\ sv.y \in Int /\ sv.vp_h \in Nat \ {0}

TabOK(t) ==
    /\ DOMAIN t = {"page", "zoom", "fit", "spread", "pan", "strip_state"}
    /\ t.page \in BookPages /\ t.zoom \in Zooms /\ t.pan \in Int

AnchorOK(a) == a = NoAnchor \/ a = TopAnchor \/ \E hit \in Hits : a = HitAnchor(hit)

\* The fields of the canvas and their types.
LayoutTypes(s) ==
    /\ DOMAIN s = {"view", "layout", "pref", "vp_h", "sv", "pan", "held", "landing",
                   "thumb_drag_live", "thumb_drag_dead", "tab", "drag", "came", "sent", "left", "moves"}
    /\ s.view \in Docs /\ s.layout \in {"Single", "Spread", "Strip"}
    /\ s.vp_h \in Nat \ {0} /\ s.pan \in Int /\ s.held \in BookPages \cup {NoPage}
    /\ AnchorOK(s.landing)
    /\ ViewOK(s.sv)
    /\ s.thumb_drag_live \in BOOLEAN /\ s.thumb_drag_dead \in BOOLEAN
    /\ DOMAIN s.tab = Docs /\ \A d \in Docs : TabOK(s.tab[d])
    /\ DOMAIN s.left = Docs

\* A strip of zoom z in a window of height h, scrolled to where clamping leaves it.
ViewOn(sv, z, h) ==
    /\ ViewOK(sv) /\ sv.layout = StripLayout(PageH, z) /\ sv.vp_h = h
    /\ sv.y = clamp_strip_scroll(sv.y, sv.layout, sv.vp_h)
    /\ sv.current \in BookPages

\* The strip on screen is that of the view's zoom and of the window.
StripBuilt(s) == s.layout = "Strip" => ViewOn(s.sv, ZoomPct(s), s.vp_h)

\* A drag is one of the layout on screen, or dead.
DragInStep(s) ==
    s.layout = "Strip" =>
        /\ s.drag # <<>> => s.thumb_drag_live
        /\ s.thumb_drag_live /\ ~s.thumb_drag_dead => s.drag = LayoutNow(s)

PageInStep(s) ==
    s.layout = "Strip" =>
        /\ CurrentPage(s) = s.sv.current
        /\ s.sv.pinned \/ s.sv.current = derive_current_page(s.sv.layout, s.sv.y, s.sv.vp_h)

\* What a tab keeps of its place in the strip.
PlaceHeld(s) ==
    \A d \in Docs :
        \/ s.left[d] = NoPlace /\ s.tab[d].strip_state = NoState
        \/ LET l == StripLayout(PageH, s.left[d].zoom)
           IN /\ s.left[d].zoom \in Zooms /\ s.left[d].vp_h \in Nat \ {0} /\ s.left[d].y \in Int
              /\ s.left[d].y = clamp_strip_scroll(s.left[d].y, l, s.left[d].vp_h)
              /\ s.tab[d].strip_state = position_at(l, s.left[d].y)

\* The spread shows something of the page that the reader came to, or the top of
\* the page after it.
CameInReach(s) ==
    LET left == dual_page_compute_left(CurrentPage(s))
    IN /\ s.layout = "Single" => CurrentPage(s) = s.came
       /\ s.layout = "Spread" =>
             /\ s.held = s.came /\ dual_page_compute_left(s.came) = left
             /\ -s.pan <= spread_page_top(spread_vertical_for(s, left), s.came, left)
                          + HeightOf(s, s.came) + 1

SentThere(s) ==
    /\ \E hit \in Hits : s.landing = HitAnchor(hit) /\ hit.page = s.sent
    /\ CurrentPage(s) = canon(s, s.sent)
    /\ s.layout = "Spread" => s.held = s.sent

\* Where the reader came to, or is about to.
CarryInv(s) ==
    /\ s.came # NoPage =>
          /\ s.layout # "Strip" /\ s.landing = NoAnchor /\ s.came \in BookPages /\ CameInReach(s)
    /\ s.sent # NoPage => s.layout # "Strip" /\ SentThere(s)

LayoutSound(s) ==
    /\ LayoutTypes(s) /\ s.layout = effective_layout(s)
    /\ StripBuilt(s) /\ DragInStep(s) /\ PageInStep(s) /\ PlaceHeld(s) /\ CarryInv(s)

-----------------------------------------------------------------------------
(* The layout and the viewport are numbers.                                *)

\* A layout of the document's pages, at one of the presets.
LayoutOK(l) ==
    /\ l.zoom \in Zooms
    /\ l.tops \in [BookPages -> Int] /\ l.heights \in [BookPages -> Nat \ {0}] /\ l.total \in Int

\* The pages are numbered from 0, and there are finitely many.
LEMMA PagesAre ==
    /\ Cardinality(BookPages) \in Nat \ {0} /\ BookPages = 0..(Cardinality(BookPages) - 1)
    /\ 0 \in BookPages /\ IsFiniteSet(BookPages)
    /\ \A p \in BookPages : p \in Int /\ PageH[p] \in Nat \ {0}
<1>1. /\ Cardinality(BookPages) \in Nat \ {0} /\ PageH \in [0..(Cardinality(BookPages) - 1) -> Nat \ {0}]
  BY LayoutConstants DEF BookPages
<1>2. BookPages = 0..(Cardinality(BookPages) - 1)
  BY <1>1 DEF BookPages
<1>3. IsFiniteSet(BookPages)
  BY <1>1, <1>2, FS_Interval
<1> QED
  BY <1>1, <1>2, <1>3

\* The offsets a layout is made of, page by page.
TopsFrom(g, zoom) ==
    [p \in 0..Cardinality(BookPages) |-> IF p = 0 THEN Gap ELSE g[p - 1] + PageH[p - 1] * zoom + Gap]

\* The function that StripLayout chooses its offsets from is there.
LEMMA TopsExist ==
    ASSUME NEW zoom \in Zooms
    PROVE  \E f : /\ f = TopsFrom(f, zoom)
                  /\ StripLayout(PageH, zoom) =
                        [zoom |-> zoom, tops |-> [p \in BookPages |-> f[p]],
                         heights |-> [p \in BookPages |-> PageH[p] * zoom],
                         total |-> IF Cardinality(BookPages) = 0 THEN 0 ELSE f[Cardinality(BookPages)]]
<1> DEFINE n == Cardinality(BookPages)
           Good(g, m) == \A i \in 0..n : i <= m => g[i] = TopsFrom(g, zoom)[i]
           N == {m \in Nat : \E g : Good(g, m)}
<1>1. n \in Nat
  BY PagesAre
<1> HIDE DEF n
<1>2. 0 \in N
  <2>1. Good(TopsFrom(<<>>, zoom), 0)
    BY <1>1 DEF TopsFrom, n
  <2> QED
    BY <2>1
<1>3. ASSUME NEW m \in Nat, m \in N
      PROVE  m + 1 \in N
  <2>1. PICK g : Good(g, m)
    BY <1>3
  <2>2. ASSUME NEW i \in 0..n, i <= m + 1
        PROVE  TopsFrom(g, zoom)[i] = TopsFrom(TopsFrom(g, zoom), zoom)[i]
    <3>1. CASE i = 0
      BY <1>1, <3>1 DEF TopsFrom, n
    <3>2. CASE i # 0
      <4>1. i - 1 \in 0..n /\ i - 1 <= m
        BY <1>1, <2>2, <3>2
      <4>2. g[i - 1] = TopsFrom(g, zoom)[i - 1]
        BY <2>1, <4>1
      <4> QED
        BY <4>2, <3>2 DEF TopsFrom, n
    <3> QED
      BY <3>1, <3>2
  <2>3. Good(TopsFrom(g, zoom), m + 1)
    BY <2>2
  <2> HIDE DEF Good
  <2> QED
    BY <2>3
<1>4. n \in N
  <2> HIDE DEF N
  <2> QED
    BY <1>1, <1>2, <1>3, NatSetInduction
<1>5. PICK g : Good(g, n)
  BY <1>4
<1>6. TopsFrom(g, zoom) = TopsFrom(TopsFrom(g, zoom), zoom)
  <2>1. \A i \in 0..n : i # 0 => i - 1 \in 0..n /\ g[i - 1] = TopsFrom(g, zoom)[i - 1]
    BY <1>1, <1>5
  <2> QED
    BY <2>1 DEF TopsFrom, n
<1>7. \E f : f = TopsFrom(f, zoom)
  BY <1>6
<1> DEFINE f == CHOOSE h : h = TopsFrom(h, zoom)
<1>8. f = TopsFrom(f, zoom)
  BY <1>7
<1>9. StripLayout(PageH, zoom) =
        [zoom |-> zoom, tops |-> [p \in BookPages |-> f[p]],
         heights |-> [p \in BookPages |-> PageH[p] * zoom],
         total |-> IF Cardinality(BookPages) = 0 THEN 0 ELSE f[Cardinality(BookPages)]]
  BY PagesAre DEF StripLayout, TopsFrom, BookPages
<1> QED
  BY <1>8, <1>9

\* A layout for pages of positive heights is made of numbers.
LEMMA LayoutTyped ==
    ASSUME NEW zoom \in Zooms
    PROVE  /\ LayoutOK(StripLayout(PageH, zoom)) /\ StripLayout(PageH, zoom) # NoLayout
           /\ StripLayout(PageH, zoom).zoom = zoom
           /\ StripLayout(PageH, zoom).heights = [p \in BookPages |-> PageH[p] * zoom]
<1> DEFINE n == Cardinality(BookPages)
<1>1. PICK f : /\ f = TopsFrom(f, zoom)
               /\ StripLayout(PageH, zoom) =
                        [zoom |-> zoom, tops |-> [p \in BookPages |-> f[p]],
                         heights |-> [p \in BookPages |-> PageH[p] * zoom],
                         total |-> IF Cardinality(BookPages) = 0 THEN 0 ELSE f[Cardinality(BookPages)]]
  BY TopsExist
<1>2. n \in Nat /\ BookPages = 0..(n - 1) /\ zoom \in Nat \ {0} /\ Gap \in Nat
  BY PagesAre, LayoutConstants
<1>3. f[0] = Gap /\ \A i \in 1..n : f[i] = f[i - 1] + PageH[i - 1] * zoom + Gap
  BY <1>1, <1>2 DEF TopsFrom
<1>4. \A p \in BookPages : PageH[p] * zoom \in Nat \ {0}
  BY PagesAre, <1>2
<1> DEFINE N == {i \in Nat : i <= n => f[i] \in Int}
<1>5. \A i \in Nat : i \in N
  <2>1. 0 \in N
    BY <1>2, <1>3
  <2>2. ASSUME NEW i \in Nat, i \in N PROVE i + 1 \in N
    <3>1. CASE i + 1 <= n
      <4>1. i \in BookPages /\ i + 1 \in 1..n /\ (i + 1) - 1 = i /\ f[i] \in Int
        BY <1>2, <2>2, <3>1
      <4>2. f[i + 1] = f[i] + PageH[i] * zoom + Gap
        BY <1>3, <4>1
      <4> QED
        BY <4>1, <4>2, <1>4, <1>2
    <3> QED
      BY <3>1
  <2> HIDE DEF N
  <2> QED
    BY <2>1, <2>2, NatSetInduction
<1>6. f[n] \in Int /\ \A p \in BookPages : f[p] \in Int
  BY <1>2, <1>5
<1>7. LayoutOK(StripLayout(PageH, zoom))
  BY <1>1, <1>2, <1>4, <1>6 DEF LayoutOK
<1>8. StripLayout(PageH, zoom) # NoLayout
  BY <1>1, <1>2 DEF NoLayout
<1>9. /\ StripLayout(PageH, zoom).zoom = zoom
      /\ StripLayout(PageH, zoom).heights = [p \in BookPages |-> PageH[p] * zoom]
  BY <1>1
<1> QED
  BY <1>7, <1>8, <1>9

\* A scroll position stays a number, clamped.
LEMMA ClampIsInt ==
    ASSUME NEW x \in Int, NEW l, LayoutOK(l), NEW h \in Int
    PROVE  clamp_strip_scroll(x, l, h) \in Int
BY DEF LayoutOK, clamp_strip_scroll, Clamped, max_scroll, Greater, Lesser, total_height

\* The last page of some of them.
LEMMA LastAbove ==
    ASSUME NEW S, S \subseteq BookPages, S # {}
    PROVE  Max(S) \in S /\ \A p \in S : Max(S) >= p
<1> DEFINE n == Cardinality(BookPages)
           N == {m \in Nat : m <= n => \/ \E p \in S : \A q \in S : p >= q
                                       \/ \A p \in S : p < n - m}
<1>1. n \in Nat /\ BookPages = 0..(n - 1)
  BY PagesAre
<1> HIDE DEF n
<1>2. 0 \in N
  BY <1>1
<1>3. ASSUME NEW m \in Nat, m \in N PROVE m + 1 \in N
  <2> SUFFICES ASSUME m + 1 <= n, \A p \in S : p < n - m
               PROVE  \/ \E p \in S : \A q \in S : p >= q
                      \/ \A p \in S : p < n - (m + 1)
    BY <1>3, <1>1
  <2>1. \A p \in S : p \in Int /\ p <= n - (m + 1)
    BY <1>1
  <2>2. CASE n - (m + 1) \in S
    BY <2>1, <2>2
  <2>3. CASE n - (m + 1) \notin S
    BY <1>1, <2>1, <2>3
  <2> QED
    BY <2>2, <2>3
<1>4. n \in N
  <2> HIDE DEF N
  <2> QED
    BY <1>1, <1>2, <1>3, NatSetInduction
<1>5. \E p \in S : \A q \in S : p >= q
  <2>1. PICK p : p \in S
    OBVIOUS
  <2> QED
    BY <1>1, <1>4, <2>1
<1> QED
  BY <1>5 DEF Max

\* A point of one layout lies somewhere in another.
LEMMA PointIsInt ==
    ASSUME NEW l, LayoutOK(l), NEW next, LayoutOK(next), NEW y \in Int
    PROVE  y_of(next, position_at(l, y)) \in Int
<1> DEFINE at == Clamped(y, 0, total_height(l) - 1)
           above == {p \in PagesOf(l) : top(l, p) <= at}
           last == Max(above)
           pos == position_at(l, y)
<1>1. at \in Int /\ PagesOf(l) = BookPages /\ above \subseteq BookPages
  BY DEF LayoutOK, Clamped, Greater, Lesser, total_height, PagesOf
<1>2. above # {} => last \in BookPages
  BY <1>1, LastAbove
<1>3. Gap \in Nat \ {0}
  BY LayoutConstants
<1> HIDE DEF at, last
<1>4. CASE above = {}
  <2>1. pos = [kind |-> "InGapAfter", page |-> NoPage, fraction |-> <<at, Gap>>]
    BY <1>4 DEF position_at, at
  <2>2. y_of(next, pos) = (at * Gap) \div Gap
    BY <2>1 DEF y_of
  <2> QED
    BY <2>2, <1>3, <1>1
<1>5. CASE above # {} /\ at < bottom(l, last)
  <2>1. pos = [kind |-> "InPage", page |-> last, fraction |-> <<at - top(l, last), height(l, last)>>]
    BY <1>5 DEF position_at, at, last
  <2>2. y_of(next, pos)
        = top(next, last) + ((at - top(l, last)) * height(next, last)) \div height(l, last)
    BY <2>1 DEF y_of
  <2>3. /\ top(next, last) \in Int /\ top(l, last) \in Int
        /\ height(next, last) \in Int /\ height(l, last) \in Nat \ {0}
    BY <1>2, <1>5 DEF LayoutOK, top, height
  <2>4. (at - top(l, last)) * height(next, last) \in Int
    BY <2>3, <1>1
  <2> QED
    BY <2>2, <2>3, <2>4
<1>6. CASE above # {} /\ ~(at < bottom(l, last))
  <2>1. pos = [kind |-> "InGapAfter", page |-> last, fraction |-> <<at - bottom(l, last), Gap>>]
    BY <1>6 DEF position_at, at, last
  <2>2. last # NoPage
    BY <1>2, <1>6, PagesAre DEF NoPage
  <2>3. y_of(next, pos) = bottom(next, last) + ((at - bottom(l, last)) * Gap) \div Gap
    BY <2>1, <2>2 DEF y_of
  <2>4. bottom(next, last) \in Int /\ bottom(l, last) \in Int
    BY <1>2, <1>6 DEF LayoutOK, top, height, bottom
  <2>5. (at - bottom(l, last)) * Gap \in Int
    BY <2>4, <1>1, <1>3
  <2> QED
    BY <2>3, <2>4, <2>5, <1>3
<1> QED
  BY <1>4, <1>5, <1>6

-----------------------------------------------------------------------------
(* The viewport's operations.                                              *)

\* Clamping is done once, and ends inside the strip.
LEMMA ClampedOnce ==
    ASSUME NEW x \in Int, NEW l, LayoutOK(l), NEW h \in Int
    PROVE  /\ clamp_strip_scroll(clamp_strip_scroll(x, l, h), l, h) = clamp_strip_scroll(x, l, h)
           /\ clamp_strip_scroll(0, l, h) = 0
BY DEF LayoutOK, clamp_strip_scroll, Clamped, max_scroll, Greater, Lesser, total_height

\* The largest of some values, and the first page that has it.
LEMMA FirstLargest ==
    ASSUME NEW S, S \subseteq BookPages, S # {}, NEW f, \A p \in S : f[p] \in Int
    PROVE  Min({p \in S : \A q \in S : f[p] >= f[q]}) \in S
<1> DEFINE n == Cardinality(BookPages)
           N == {m \in Nat : \/ \E p \in S : p < m /\ \A q \in S : q < m => f[p] >= f[q]
                             \/ \A p \in S : p >= m}
           T == {p \in S : \A q \in S : f[p] >= f[q]}
           R == {n - 1 - p : p \in T}
<1>1. n \in Nat /\ BookPages = 0..(n - 1)
  BY PagesAre
<1> HIDE DEF n
<1>2. \A p \in S : p \in 0..(n - 1)
  BY <1>1
<1>3. 0 \in N
  BY <1>2
<1>4. ASSUME NEW m \in Nat, m \in N PROVE m + 1 \in N
  <2>1. CASE m \notin S
    <3>1. \A p \in S : (p < m + 1 <=> p < m) /\ (p >= m + 1 <=> p >= m)
      BY <1>2, <2>1
    <3>2. CASE \E p \in S : p < m /\ \A q \in S : q < m => f[p] >= f[q]
      BY <3>1, <3>2
    <3>3. CASE \A p \in S : p >= m
      BY <3>1, <3>3
    <3> QED
      BY <3>2, <3>3, <1>4
  <2>2. CASE m \in S /\ \A p \in S : p >= m
    <3>1. \A q \in S : q < m + 1 => q = m
      BY <1>2, <2>2
    <3>2. f[m] \in Int /\ m < m + 1
      BY <2>2
    <3>3. \A q \in S : q < m + 1 => f[m] >= f[q]
      BY <3>1, <3>2
    <3> QED
      BY <2>2, <3>2, <3>3
  <2>3. CASE m \in S /\ \E p \in S : p < m /\ \A q \in S : q < m => f[p] >= f[q]
    <3>1. PICK p \in S : p < m /\ \A q \in S : q < m => f[p] >= f[q]
      BY <2>3
    <3>2. f[p] \in Int /\ f[m] \in Int /\ p < m + 1 /\ m < m + 1
      BY <1>2, <2>3, <3>1
    <3>3. \A q \in S : q < m + 1 => q < m \/ q = m
      BY <1>2
    <3>4. CASE f[p] >= f[m]
      <4>1. \A q \in S : q < m + 1 => f[p] >= f[q]
        BY <3>1, <3>3, <3>4
      <4> QED
        BY <3>2, <4>1
    <3>5. CASE ~(f[p] >= f[m])
      <4>1. \A q \in S : q < m + 1 => f[m] >= f[q]
        BY <3>1, <3>2, <3>3, <3>5
      <4> QED
        BY <2>3, <3>2, <4>1
    <3> QED
      BY <3>4, <3>5
  <2> QED
    BY <2>1, <2>2, <2>3, <1>4
<1>5. n \in N
  <2> HIDE DEF N
  <2> QED
    BY <1>1, <1>3, <1>4, NatSetInduction
<1>6. PICK p0 \in S : \A q \in S : f[p0] >= f[q]
  <2>1. PICK p : p \in S
    OBVIOUS
  <2>2. \A q \in S : q < n /\ ~(q >= n)
    BY <1>1, <1>2
  <2> QED
    BY <1>5, <2>1, <2>2
<1>7. R \subseteq BookPages /\ R # {}
  <2>1. p0 \in T
    BY <1>6
  <2>2. \A p \in T : n - 1 - p \in BookPages
    BY <1>1, <1>2
  <2> QED
    BY <2>1, <2>2
<1>8. \E p \in T : \A q \in T : p <= q
  <2>1. Max(R) \in R /\ \A x \in R : Max(R) >= x
    <3> HIDE DEF R
    <3> QED
      BY <1>7, LastAbove
  <2>2. PICK p \in T : Max(R) = n - 1 - p
    BY <2>1
  <2>3. \A q \in T : n - 1 - q \in R
    OBVIOUS
  <2>4. \A q \in T : n - 1 - p >= n - 1 - q
    BY <2>1, <2>2, <2>3
  <2>5. \A q \in T : q \in Int
    BY <1>2
  <2> QED
    BY <1>1, <2>4, <2>5
<1>9. Min(T) \in T
  BY <1>8 DEF Min
<1> QED
  BY <1>9

\* What a position names is a page, or the gap before the first.
LEMMA PositionPage ==
    ASSUME NEW l, LayoutOK(l), NEW y \in Int
    PROVE  /\ position_at(l, y).page \in BookPages \cup {NoPage}
           /\ position_at(l, y).kind \in {"InPage", "InGapAfter"}
<1> DEFINE at == Clamped(y, 0, total_height(l) - 1)
           above == {p \in PagesOf(l) : top(l, p) <= at}
<1>1. above \subseteq BookPages
  BY DEF LayoutOK, PagesOf
<1>2. above # {} => Max(above) \in BookPages
  <2> HIDE DEF above
  <2> QED
    BY <1>1, LastAbove
<1>3. above = {} => position_at(l, y).page = NoPage /\ position_at(l, y).kind = "InGapAfter"
  BY DEF position_at
<1>4. above # {} => /\ position_at(l, y).page = Max(above)
                    /\ position_at(l, y).kind \in {"InPage", "InGapAfter"}
  BY DEF position_at
<1> QED
  BY <1>2, <1>3, <1>4

\* The page that a scroll position shows is one.
LEMMA ShowsAPage ==
    ASSUME NEW l, LayoutOK(l), NEW y \in Int, NEW h \in Int
    PROVE  derive_current_page(l, y, h) \in BookPages
<1> DEFINE n == page_count(l)
           r == visible_pages(l, y, y + h)
           area == [p \in BookPages |-> shown_height(l, p, y, h)]
           at == position_at(l, y).page
           largest == {p \in r : \A q \in r : shown_height(l, p, y, h) >= shown_height(l, q, y, h)}
<1>1. PagesOf(l) = BookPages /\ n = Cardinality(BookPages)
  BY DEF LayoutOK, PagesOf, page_count
<1>2. n \in Nat \ {0} /\ BookPages = 0..(n - 1)
  BY <1>1, PagesAre
<1> HIDE DEF n
<1>3. r \subseteq BookPages
  BY <1>1 DEF visible_pages
<1>4. \A p \in BookPages : area[p] \in Int
  BY DEF LayoutOK, shown_height, top, bottom, height, Lesser, Greater
<1>5. r # {} => Min(largest) \in BookPages
  <2>1. largest = {p \in r : \A q \in r : area[p] >= area[q]}
    BY <1>3
  <2> HIDE DEF r, area, largest
  <2>2. r # {} => Min(largest) \in r
    BY <1>3, <1>4, <2>1, FirstLargest
  <2> QED
    BY <1>3, <2>2
<1>6. Clamped(at, 0, n - 1) \in BookPages
  <2>1. at \in Int
    BY PositionPage, PagesAre DEF NoPage
  <2> HIDE DEF at
  <2> QED
    BY <1>2, <2>1 DEF Clamped, Greater, Lesser
<1> DEFINE tall == total_height(l) - h >= Dip
           end == tall /\ 2 * (y - (total_height(l) - h)) >= -Dip
           start == tall /\ 2 * y <= Dip
<1>7. derive_current_page(l, y, h)
      = IF end THEN n - 1 ELSE IF start THEN 0 ELSE IF r = {} THEN Clamped(at, 0, n - 1) ELSE Min(largest)
  BY Zenon DEF derive_current_page, n
<1> HIDE DEF end, start, at, r, largest
<1>8. n - 1 \in BookPages /\ 0 \in BookPages
  BY <1>2
<1> QED
  BY <1>8, <1>5, <1>6, <1>7

IsView(sv) == DOMAIN sv = {"layout", "vp_h", "y", "current", "pinned", "travel"}

\* A view that is scrolled to a clamped place is one on its strip.
LEMMA PutOn ==
    ASSUME NEW z \in Zooms, NEW h \in Nat \ {0}, NEW y \in Int, NEW t, IsView(t),
           t.layout = StripLayout(PageH, z), t.vp_h = h,
           t.y = clamp_strip_scroll(y, StripLayout(PageH, z), h), t.current \in BookPages
    PROVE  ViewOn(t, z, h)
<1> DEFINE l == StripLayout(PageH, z)
<1>1. LayoutOK(l)
  BY LayoutTyped
<1>2. LayoutOK(l) /\ h \in Int /\ t.layout = l /\ t.y = clamp_strip_scroll(y, l, h)
  BY <1>1
<1> HIDE DEF l
<1>3. clamp_strip_scroll(y, l, h) \in Int
  BY <1>2, ClampIsInt
<1>4. clamp_strip_scroll(clamp_strip_scroll(y, l, h), l, h) = clamp_strip_scroll(y, l, h)
  BY <1>2, ClampedOnce
<1>5. ViewOK(t)
  BY <1>2, <1>3 DEF ViewOK, IsView
<1>6. t.y = clamp_strip_scroll(t.y, t.layout, t.vp_h)
  BY <1>2, <1>4
<1> QED
  BY <1>2, <1>5, <1>6 DEF ViewOn, l

\* What is known of a view on its strip.
LEMMA OnIs ==
    ASSUME NEW sv, NEW z \in Zooms, NEW h, ViewOn(sv, z, h)
    PROVE  /\ IsView(sv) /\ sv.y \in Int /\ h \in Nat \ {0} /\ h \in Int /\ has_layout(sv)
           /\ LayoutOK(sv.layout) /\ sv.layout.zoom = z
<1>1. /\ LayoutOK(StripLayout(PageH, z)) /\ StripLayout(PageH, z) # NoLayout
      /\ StripLayout(PageH, z).zoom = z
  BY LayoutTyped
<1> QED
  BY <1>1 DEF ViewOn, ViewOK, IsView, has_layout

\* The numbers of a layout.
LEMMA NumbersOf ==
    ASSUME NEW l, LayoutOK(l), NEW p \in BookPages
    PROVE  /\ top(l, p) \in Int /\ bottom(l, p) \in Int /\ anchor(l, p) \in Int
           /\ height(l, p) \in Nat \ {0} /\ Gap \in Nat \ {0}
<1>1. Gap \in Nat \ {0}
  BY LayoutConstants
<1> QED
  BY <1>1 DEF LayoutOK, top, bottom, anchor, height

\* The current page of t, and whether it is pinned, are those of sv.
SamePage(sv, t) == t.current = sv.current /\ t.pinned = sv.pinned

\* Scrolling stays on the strip and changes no page.
LEMMA MovesOn ==
    ASSUME NEW sv, NEW z \in Zooms, NEW h, ViewOn(sv, z, h), NEW y \in Int
    PROVE  ViewOn(move_to(sv, y), z, h) /\ SamePage(sv, move_to(sv, y))
<1> DEFINE t == move_to(sv, y)
           to == clamp_strip_scroll(y, sv.layout, sv.vp_h)
           way == IF to > sv.y THEN "Down" ELSE IF to < sv.y THEN "Up" ELSE sv.travel
<1>1. t = [sv EXCEPT !.y = to, !.travel = way]
  BY DEF move_to
<1>2. IsView(sv) /\ h \in Nat \ {0} /\ sv.layout = StripLayout(PageH, z) /\ sv.vp_h = h
      /\ sv.current \in BookPages
  BY OnIs DEF ViewOn
<1> HIDE DEF t, way
<1>3. IsView(t) /\ t.layout = sv.layout /\ t.vp_h = sv.vp_h /\ t.y = to /\ SamePage(sv, t)
  BY <1>1, <1>2 DEF IsView, SamePage
<1>4. ViewOn(t, z, h)
  BY <1>2, <1>3, PutOn DEF SamePage
<1> QED
  BY <1>3, <1>4 DEF t

\* A pinned page is the current one.
Pinned(t, p) == t.current = p /\ t.pinned = TRUE

\* Pinning a page moves nothing.
LEMMA PinsOn ==
    ASSUME NEW sv, NEW z \in Zooms, NEW h, ViewOn(sv, z, h), NEW p \in BookPages
    PROVE  ViewOn(pin_page(sv, p), z, h) /\ Pinned(pin_page(sv, p), p)
<1> DEFINE t == pin_page(sv, p)
<1>1. IsView(sv)
  BY OnIs
<1>2. /\ IsView(t) /\ t.layout = sv.layout /\ t.vp_h = sv.vp_h /\ t.y = sv.y /\ Pinned(t, p)
  BY <1>1 DEF pin_page, IsView, Pinned
<1> HIDE DEF t
<1>3. ViewOn(t, z, h)
  BY <1>2 DEF ViewOn, ViewOK, IsView, Pinned
<1> QED
  BY <1>2, <1>3 DEF t

\* pin_at, and with it the way to a page's anchor.
LEMMA PinsAtOn ==
    ASSUME NEW sv, NEW z \in Zooms, NEW h, ViewOn(sv, z, h), NEW y \in Int, NEW p \in BookPages
    PROVE  ViewOn(pin_at(sv, y, p), z, h) /\ Pinned(pin_at(sv, y, p), p)
<1>1. ViewOn(move_to(sv, y), z, h)
  BY MovesOn
<1> QED
  BY <1>1, PinsOn DEF pin_at

LEMMA NavigatesOn ==
    ASSUME NEW sv, NEW z \in Zooms, NEW h, ViewOn(sv, z, h), NEW p \in BookPages
    PROVE  ViewOn(navigate(sv, p), z, h) /\ Pinned(navigate(sv, p), p)
<1>1. anchor(sv.layout, p) \in Int
  BY OnIs, NumbersOf
<1>2. navigate(sv, p) = pin_at(sv, anchor(sv.layout, p), p)
  BY DEF navigate, pin_at
<1> QED
  BY <1>1, <1>2, PinsAtOn

\* Scroll input ends the pin and stays on the strip.
LEMMA ScrollsOn ==
    ASSUME NEW sv, NEW z \in Zooms, NEW h, ViewOn(sv, z, h), NEW y \in Int
    PROVE  ViewOn(scroll_to(sv, y), z, h)
<1> DEFINE t == [sv EXCEPT !.pinned = FALSE]
<1>1. IsView(sv)
  BY OnIs
<1>2. IsView(t) /\ t.layout = sv.layout /\ t.vp_h = sv.vp_h /\ t.y = sv.y /\ t.current = sv.current
  BY <1>1 DEF IsView
<1>3. scroll_to(sv, y) = move_to(t, y)
  BY DEF scroll_to
<1> HIDE DEF t
<1>4. ViewOn(t, z, h)
  BY <1>2 DEF ViewOn, ViewOK, IsView
<1> QED
  BY <1>3, <1>4, MovesOn

\* A hit is scrolled to, if it has to be, and its page pinned.
LEMMA HitOn ==
    ASSUME NEW sv, NEW z \in Zooms, NEW h, ViewOn(sv, z, h), NEW hit \in Hits, NEW margin
    PROVE  /\ ViewOn(scroll_hit_into_view(sv, hit, margin), z, h)
           /\ Pinned(scroll_hit_into_view(sv, hit, margin), hit.page)
<1> DEFINE q_top == top(sv.layout, hit.page) + hit.from * sv.layout.zoom
           q_bottom == top(sv.layout, hit.page) + hit.to * sv.layout.zoom
           y == (q_top + q_bottom) \div 2 - sv.vp_h \div 2
           fully == q_top - sv.y >= margin /\ q_bottom - sv.y <= sv.vp_h - margin
<1>1. hit.page \in BookPages /\ hit.from \in Nat /\ hit.to \in Nat
  BY LayoutConstants DEF BookPages
<1>2. LayoutOK(sv.layout) /\ sv.layout.zoom \in Nat /\ sv.vp_h \in Int
  BY OnIs, LayoutConstants DEF ViewOn
<1>3. hit.from * sv.layout.zoom \in Int /\ hit.to * sv.layout.zoom \in Int
  BY <1>1, <1>2
<1>4. top(sv.layout, hit.page) \in Int
  BY <1>1, <1>2 DEF LayoutOK, top
<1>5. q_top \in Int /\ q_bottom \in Int
  BY <1>3, <1>4
<1>6. scroll_hit_into_view(sv, hit, margin) = pin_page(IF fully THEN sv ELSE move_to(sv, y), hit.page)
  BY DEF scroll_hit_into_view
<1> HIDE DEF fully, q_top, q_bottom
<1>7. y \in Int
  BY <1>5, <1>2
<1> HIDE DEF y
<1>8. ViewOn(IF fully THEN sv ELSE move_to(sv, y), z, h)
  BY <1>7, MovesOn
<1> QED
  BY <1>1, <1>6, <1>8, PinsOn

\* The current page is pinned, or the one that the scroll position shows.
Shows(sv) == sv.pinned \/ sv.current = derive_current_page(sv.layout, sv.y, sv.vp_h)

\* A pinned page stays, another is derived anew.
LEMMA CurrentOn ==
    ASSUME NEW sv, NEW z \in Zooms, NEW h, ViewOn(sv, z, h)
    PROVE  /\ ViewOn(recompute_current(sv), z, h) /\ Shows(recompute_current(sv))
           /\ recompute_current(sv).y = sv.y
           /\ \A p : Pinned(sv, p) => Pinned(recompute_current(sv), p)
<1> DEFINE now == derive_current_page(sv.layout, sv.y, sv.vp_h)
           at == IF sv.pinned THEN sv.current ELSE now
           t == recompute_current(sv)
<1>1. IsView(sv) /\ LayoutOK(sv.layout) /\ sv.y \in Int /\ sv.vp_h \in Int
  BY OnIs DEF ViewOn
<1>2. now \in BookPages
  BY <1>1, ShowsAPage
<1>3. t = [sv EXCEPT !.current = at]
  BY DEF recompute_current
<1> HIDE DEF now, t
<1>4. /\ IsView(t) /\ t.layout = sv.layout /\ t.vp_h = sv.vp_h /\ t.y = sv.y
      /\ t.current = at /\ t.pinned = sv.pinned
  BY <1>1, <1>3 DEF IsView
<1>5. at \in BookPages
  BY <1>2 DEF ViewOn
<1>6. Shows(t)
  BY <1>4 DEF Shows, now
<1>7. ViewOn(t, z, h)
  BY <1>4, <1>5 DEF ViewOn, ViewOK, IsView
<1>8. \A p : Pinned(sv, p) => Pinned(t, p)
  BY <1>4 DEF Pinned
<1> QED
  BY <1>4, <1>6, <1>7, <1>8 DEF t

\* A window of another height; of the same height nothing moves.
LEMMA ResizesOn ==
    ASSUME NEW sv, NEW z \in Zooms, NEW old, ViewOn(sv, z, old), NEW h \in Nat \ {0}
    PROVE  /\ ViewOn(set_viewport(sv, h), z, h) /\ SamePage(sv, set_viewport(sv, h))
           /\ h = old => set_viewport(sv, h).y = sv.y
<1> DEFINE t == set_viewport(sv, h)
           to == clamp_strip_scroll(sv.y, sv.layout, h)
<1>1. IsView(sv) /\ sv.y \in Int /\ has_layout(sv)
  BY OnIs
<1>2. t = [sv EXCEPT !.vp_h = h, !.y = to]
  BY <1>1 DEF set_viewport
<1> HIDE DEF t
<1>3. IsView(t) /\ t.layout = sv.layout /\ t.vp_h = h /\ t.y = to /\ SamePage(sv, t)
  BY <1>1, <1>2 DEF IsView, SamePage
<1>4. sv.layout = StripLayout(PageH, z) /\ sv.current \in BookPages
  BY DEF ViewOn
<1>5. ViewOn(t, z, h)
  BY <1>1, <1>3, <1>4, PutOn DEF SamePage
<1>6. h = old => to = sv.y
  BY DEF ViewOn
<1> QED
  BY <1>3, <1>5, <1>6 DEF t

\* Before there is a layout, only the height is set.
LEMMA ResizesBare ==
    ASSUME NEW sv, ViewOK(sv), ~has_layout(sv), NEW h \in Nat \ {0}
    PROVE  LET t == set_viewport(sv, h) IN ViewOK(t) /\ ~has_layout(t) /\ t.vp_h = h
<1> DEFINE t == set_viewport(sv, h)
<1>1. t = [sv EXCEPT !.vp_h = h, !.y = sv.y]
  BY DEF set_viewport
<1> HIDE DEF t
<1>2. IsView(t) /\ t.layout = sv.layout /\ t.vp_h = h /\ t.y = sv.y
  BY <1>1 DEF ViewOK, IsView
<1>3. ViewOK(t) /\ ~has_layout(t)
  BY <1>2 DEF ViewOK, IsView, has_layout
<1> QED
  BY <1>2, <1>3 DEF t

\* reset leaves the window's height and nothing else.
LEMMA ResetIs ==
    ASSUME NEW sv, ViewOK(sv)
    PROVE  ViewOK(reset(sv)) /\ ~has_layout(reset(sv)) /\ reset(sv).vp_h = sv.vp_h
BY DEF ViewOK, reset, NewViewport, has_layout

\* A strip that is built starts at its top.
LEMMA BuildsOn ==
    ASSUME NEW sv, ViewOK(sv), NEW z \in Zooms
    PROVE  ViewOn(build(sv, PageH, z), z, sv.vp_h)
<1> DEFINE t == build(sv, PageH, z)
           l == StripLayout(PageH, z)
<1>1. t = [reset(sv) EXCEPT !.layout = l]
  BY DEF build
<1>2. /\ reset(sv) = [layout |-> NoLayout, vp_h |-> sv.vp_h, y |-> 0, current |-> 0,
                      pinned |-> FALSE, travel |-> "Down"]
      /\ sv.vp_h \in Nat \ {0} /\ sv.vp_h \in Int
  BY DEF reset, NewViewport, ViewOK
<1>3. LayoutOK(l)
  BY LayoutTyped
<1> HIDE DEF t, l
<1>4. IsView(t) /\ t.layout = l /\ t.vp_h = sv.vp_h /\ t.y = 0 /\ t.current = 0
  BY <1>1, <1>2 DEF IsView
<1>5. clamp_strip_scroll(0, l, sv.vp_h) = 0
  BY <1>2, <1>3, ClampedOnce
<1>6. 0 \in BookPages /\ 0 \in Int
  BY PagesAre
<1>7. ViewOn(t, z, sv.vp_h)
  BY <1>2, <1>4, <1>5, <1>6, PutOn DEF l
<1> QED
  BY <1>7 DEF t

\* A change of zoom keeps the point at the top, as far as clamping allows.
LEMMA RelayoutsOn ==
    ASSUME NEW sv, NEW old \in Zooms, NEW h, ViewOn(sv, old, h), NEW z \in Zooms
    PROVE  /\ ViewOn(relayout(sv, PageH, z), z, h) /\ SamePage(sv, relayout(sv, PageH, z))
           /\ z = old => relayout(sv, PageH, z) = sv
<1> DEFINE t == relayout(sv, PageH, z)
           next == StripLayout(PageH, z)
           y == y_of(next, position_at(sv.layout, sv.y))
<1>1. /\ IsView(sv) /\ LayoutOK(sv.layout) /\ sv.y \in Int /\ h \in Nat \ {0} /\ has_layout(sv)
      /\ sv.layout.zoom = old /\ sv.vp_h = h /\ sv.current \in BookPages
  BY OnIs DEF ViewOn
<1>2. CASE z = old
  <2>1. t = sv
    BY <1>1, <1>2 DEF relayout
  <2> QED
    BY <1>2, <2>1 DEF SamePage
<1>3. CASE z # old
  <2>1. t = [sv EXCEPT !.layout = next, !.y = clamp_strip_scroll(y, next, h)]
    BY <1>1, <1>3 DEF relayout, relayout_scroll
  <2>2. y \in Int
    BY <1>1, LayoutTyped, PointIsInt
  <2> HIDE DEF t, y
  <2>3. /\ IsView(t) /\ t.layout = next /\ t.vp_h = h /\ SamePage(sv, t)
        /\ t.y = clamp_strip_scroll(y, next, h)
    BY <1>1, <2>1 DEF IsView, SamePage
  <2>4. ViewOn(t, z, h)
    BY <1>1, <2>2, <2>3, PutOn DEF SamePage
  <2> QED
    BY <1>3, <2>3, <2>4 DEF t
<1> QED
  BY <1>2, <1>3

\* A carried reader is put on the page that carries them.
LEMMA CarriesOn ==
    ASSUME NEW sv, NEW z \in Zooms, NEW h, ViewOn(sv, z, h), NEW at,
           at.page \in BookPages, at.offset \in Int
    PROVE  ViewOn(apply_carry(sv, at), z, h) /\ Pinned(apply_carry(sv, at), at.page)
<1> DEFINE y == IF at.offset = 0 THEN anchor(sv.layout, at.page) ELSE top(sv.layout, at.page) + at.offset
           t == [sv EXCEPT !.y = clamp_strip_scroll(y, sv.layout, sv.vp_h)]
<1>1. /\ IsView(sv) /\ LayoutOK(sv.layout) /\ h \in Nat \ {0} /\ sv.vp_h = h
      /\ sv.current \in BookPages /\ sv.layout = StripLayout(PageH, z)
  BY OnIs DEF ViewOn
<1>2. y \in Int
  BY <1>1, NumbersOf
<1>3. apply_carry(sv, at) = pin_page(t, at.page)
  BY DEF apply_carry, strip_scroll_for
<1> HIDE DEF y
<1>4. /\ IsView(t) /\ t.layout = sv.layout /\ t.vp_h = h /\ t.current = sv.current
      /\ t.y = clamp_strip_scroll(y, sv.layout, sv.vp_h)
  BY <1>1 DEF IsView
<1> HIDE DEF t
<1>5. ViewOn(t, z, h)
  BY <1>1, <1>2, <1>4, PutOn
<1> QED
  BY <1>3, <1>5, PinsOn

-----------------------------------------------------------------------------
(* The canvas's own operations.                                            *)

IsCanvas(s) ==
    DOMAIN s = {"view", "layout", "pref", "vp_h", "sv", "pan", "held", "landing",
                "thumb_drag_live", "thumb_drag_dead", "tab", "drag", "came", "sent", "left", "moves"}

\* The places of the tabs are in no other field.
LEMMA SamePlaces ==
    ASSUME NEW s, PlaceHeld(s), NEW t, t.tab = s.tab, t.left = s.left
    PROVE  PlaceHeld(t)
BY DEF PlaceHeld

\* What no kick changes.
Frame(s, t) ==
    /\ IsCanvas(t)
    /\ t.view = s.view /\ t.layout = s.layout /\ t.pref = s.pref /\ t.vp_h = s.vp_h
    /\ t.pan = s.pan /\ t.held = s.held /\ t.landing = s.landing
    /\ t.thumb_drag_live = s.thumb_drag_live
    /\ t.drag = s.drag /\ t.came = s.came /\ t.sent = s.sent /\ t.left = s.left

\* The fields of a tab, and two tabs at different places.
IsTab(t) == DOMAIN t = {"page", "zoom", "fit", "spread", "pan", "strip_state"}

Replaced(a, b, p, z) ==
    /\ IsTab(b) /\ b.page = p /\ b.zoom = z
    /\ b.fit = a.fit /\ b.spread = a.spread /\ b.pan = a.pan /\ b.strip_state = a.strip_state

\* The tab on screen is at page p and zoom z, the others as they were.
Retabbed(s, t, p, z) ==
    /\ DOMAIN t.tab = DOMAIN s.tab
    /\ \A d \in DOMAIN s.tab : d # s.view => t.tab[d] = s.tab[d]
    /\ Replaced(s.tab[s.view], t.tab[s.view], p, z)

\* A step after a step.
LEMMA TwoFrames ==
    ASSUME NEW s, NEW t, NEW u, Frame(s, t), Frame(t, u)
    PROVE  Frame(s, u)
BY DEF Frame

LEMMA TwoRetabs ==
    ASSUME NEW s, NEW t, NEW u, NEW p, NEW q, NEW y, NEW z, t.view = s.view,
           Retabbed(s, t, p, y), Retabbed(t, u, q, z)
    PROVE  Retabbed(s, u, q, z)
BY DEF Retabbed, Replaced

\* The types of what a kick leaves.
LEMMA FrameTypes ==
    ASSUME NEW s, LayoutTypes(s), NEW t, Frame(s, t), NEW p \in BookPages, NEW z \in Zooms,
           Retabbed(s, t, p, z), ViewOK(t.sv), t.thumb_drag_dead \in BOOLEAN
    PROVE  LayoutTypes(t) /\ CurrentPage(t) = p /\ ZoomPct(t) = z
<1>1. \A d \in Docs : TabOK(t.tab[d])
  BY DEF Retabbed, Replaced, LayoutTypes, TabOK, IsTab
<1>2. DOMAIN t.tab = Docs /\ s.view \in Docs
  BY DEF Retabbed, LayoutTypes
<1>3. LayoutTypes(t)
  BY <1>1, <1>2 DEF LayoutTypes, Frame, IsCanvas
<1> QED
  BY <1>3 DEF Retabbed, Replaced, CurrentPage, ZoomPct, Tab, Frame

\* Nor does a kick change which layout the tab wants, or the places held.
LEMMA FrameKeeps ==
    ASSUME NEW s, LayoutTypes(s), NEW t, Frame(s, t), NEW p, NEW z, Retabbed(s, t, p, z)
    PROVE  /\ effective_layout(t) = effective_layout(s)
           /\ PlaceHeld(s) => PlaceHeld(t)
<1>1. effective_layout(t) = effective_layout(s)
  BY DEF effective_layout, Tab, Frame, Retabbed, Replaced
<1>2. \A d \in Docs : t.tab[d].strip_state = s.tab[d].strip_state
  BY DEF Retabbed, Replaced, LayoutTypes
<1>3. t.left = s.left
  BY DEF Frame
<1>4. PlaceHeld(s) => PlaceHeld(t)
  BY <1>2, <1>3 DEF PlaceHeld
<1> QED
  BY <1>1, <1>4

LEMMA TypesAre ==
    ASSUME NEW s, LayoutTypes(s)
    PROVE  /\ IsCanvas(s) /\ DOMAIN s.tab = Docs /\ s.view \in Docs /\ TabOK(Tab(s)) /\ IsTab(Tab(s))
           /\ Tab(s) = s.tab[s.view] /\ CurrentPage(s) \in BookPages /\ ZoomPct(s) \in Zooms
           /\ s.vp_h \in Nat \ {0} /\ ViewOK(s.sv) /\ s.pan \in Int
           /\ s.layout \in {"Single", "Spread", "Strip"}
BY DEF LayoutTypes, IsCanvas, TabOK, IsTab, Tab, CurrentPage, ZoomPct

\* The left page of a pair is a page; the right one is the next, or none.
LEMMA PairIs ==
    ASSUME NEW p \in BookPages
    PROVE  LET left == dual_page_compute_left(p)
               right == dual_page_compute_right(left)
           IN /\ left \in BookPages /\ dual_page_compute_left(left) = left
              /\ right \in BookPages \cup {NoPage}
              /\ right # NoPage => right = left + 1 /\ dual_page_compute_left(right) = left
              /\ p = left \/ (right # NoPage /\ p = right)
<1> DEFINE n == Cardinality(BookPages)
           left == dual_page_compute_left(p)
           right == dual_page_compute_right(left)
<1>1. n \in Nat \ {0} /\ BookPages = 0..(n - 1) /\ Total = n
  BY PagesAre DEF Total, BookPages
<1> HIDE DEF n
<1>2. p \in Nat /\ p < n
  BY <1>1
<1>3. CASE p = 0
  <2>1. left = 0 /\ right = NoPage
    BY <1>3 DEF dual_page_compute_left, dual_page_compute_right
  <2> QED
    BY <1>3, <2>1
<1>4. CASE p # 0 /\ (p - 1) % 2 = 0
  <2>1. left = p
    BY <1>2, <1>4 DEF dual_page_compute_left
  <2>2. dual_page_compute_left(left) = left
    BY <1>2, <1>4, <2>1 DEF dual_page_compute_left
  <2>3. right = IF p + 1 >= n THEN NoPage ELSE p + 1
    BY <1>1, <1>2, <1>4, <2>1 DEF dual_page_compute_right
  <2>4. p + 1 < n => p + 1 \in BookPages /\ dual_page_compute_left(p + 1) = p
    BY <1>1, <1>2, <1>4 DEF dual_page_compute_left
  <2>5. p + 1 # NoPage
    BY <1>2 DEF NoPage
  <2> QED
    BY <1>1, <1>2, <2>1, <2>2, <2>3, <2>4, <2>5
<1>5. CASE p # 0 /\ (p - 1) % 2 = 1
  <2>1. left = p - 1
    BY <1>2, <1>5 DEF dual_page_compute_left
  <2>2. p - 1 \in Nat \ {0} /\ ((p - 1) - 1) % 2 = 0
    BY <1>2, <1>5
  <2>3. dual_page_compute_left(left) = left
    BY <2>1, <2>2 DEF dual_page_compute_left
  <2>4. right = p
    BY <1>1, <1>2, <2>1, <2>2 DEF dual_page_compute_right
  <2>5. p - 1 \in BookPages /\ p # NoPage
    BY <1>1, <1>2, <2>2 DEF NoPage
  <2> QED
    BY <1>2, <2>1, <2>3, <2>4, <2>5
<1>6. (p - 1) % 2 \in {0, 1}
  BY <1>2
<1> QED
  BY <1>3, <1>4, <1>5, <1>6

\* The view's page is one of the document's.
LEMMA CanonIs ==
    ASSUME NEW s, NEW p \in BookPages
    PROVE  canon(s, p) \in BookPages /\ (s.layout # "Spread" => canon(s, p) = p)
           /\ canon(s, canon(s, p)) = canon(s, p)
BY PairIs DEF canon

\* SetPage changes the page of the tab on screen.
LEMMA SetPageIs ==
    ASSUME NEW s, LayoutTypes(s), NEW p
    PROVE  LET t == SetPage(s, p)
           IN /\ Frame(s, t) /\ Retabbed(s, t, p, ZoomPct(s))
              /\ t.sv = s.sv /\ t.thumb_drag_dead = s.thumb_drag_dead
<1> DEFINE t == SetPage(s, p)
           b == [s.tab[s.view] EXCEPT !.page = p]
           ts == [s.tab EXCEPT ![s.view] = b]
<1>1. IsCanvas(s) /\ s.view \in DOMAIN s.tab /\ IsTab(s.tab[s.view]) /\ ZoomPct(s) = s.tab[s.view].zoom
  BY TypesAre DEF ZoomPct, Tab
<1>2. t = [s EXCEPT !.tab = ts]
  BY <1>1 DEF SetPage, IsCanvas
<1>3. Replaced(s.tab[s.view], b, p, ZoomPct(s))
  BY <1>1 DEF Replaced, IsTab
<1> HIDE DEF b
<1>4. DOMAIN ts = DOMAIN s.tab /\ ts[s.view] = b /\ \A d \in DOMAIN s.tab : d # s.view => ts[d] = s.tab[d]
  BY <1>1
<1> HIDE DEF ts, t
<1>5. Frame(s, t) /\ t.tab = ts /\ t.sv = s.sv /\ t.thumb_drag_dead = s.thumb_drag_dead
  BY <1>1, <1>2 DEF Frame, IsCanvas
<1>6. Retabbed(s, t, p, ZoomPct(s))
  BY <1>3, <1>4, <1>5 DEF Retabbed
<1> QED
  BY <1>5, <1>6 DEF t

\* The zoom of the view once it is refitted.
Fitted(s) == IF Tab(s).fit THEN FitZoom[s.layout] ELSE ZoomPct(s)

\* apply_viewport sets the page, to that of its pair, and the zoom.
LEMMA ViewportIs ==
    ASSUME NEW s, LayoutTypes(s)
    PROVE  LET t == apply_viewport(s)
           IN /\ Frame(s, t) /\ Retabbed(s, t, canon(s, CurrentPage(s)), Fitted(s))
              /\ t.sv = s.sv /\ t.thumb_drag_dead = s.thumb_drag_dead
              /\ Fitted(s) \in Zooms /\ canon(s, CurrentPage(s)) \in BookPages
<1> DEFINE u == SetPage(s, canon(s, CurrentPage(s)))
           t == apply_viewport(s)
           p == canon(s, CurrentPage(s))
           z == IF s.tab[s.view].fit THEN FitZoom[s.layout] ELSE u.tab[u.view].zoom
           b == [u.tab[u.view] EXCEPT !.zoom = z]
           ts == [u.tab EXCEPT ![u.view] = b]
<1>1. p \in BookPages /\ ZoomPct(s) \in Zooms
  BY TypesAre, CanonIs
<1>2. /\ Frame(s, u) /\ Retabbed(s, u, p, ZoomPct(s))
      /\ u.sv = s.sv /\ u.thumb_drag_dead = s.thumb_drag_dead
  BY SetPageIs
<1>3. s.view \in DOMAIN u.tab /\ IsTab(u.tab[s.view]) /\ u.view = s.view
  BY <1>2, TypesAre DEF Retabbed, Replaced, Frame
<1>4. t = [u EXCEPT !.tab = ts]
  BY <1>2 DEF apply_viewport, Tab, Frame, IsCanvas
<1>5. z = Fitted(s) /\ Fitted(s) \in Zooms
  <2>1. u.tab[u.view].zoom = ZoomPct(s)
    BY <1>2, <1>3 DEF Retabbed, Replaced
  <2>2. s.layout \in {"Single", "Spread", "Strip"}
    BY TypesAre
  <2> QED
    BY <1>1, <2>1, <2>2, LayoutConstants DEF Fitted, Tab
<1> HIDE DEF u, z, t
<1>6. Replaced(s.tab[s.view], b, p, z)
  BY <1>2, <1>3 DEF Replaced, Retabbed, IsTab
<1> HIDE DEF b
<1>7. DOMAIN ts = DOMAIN s.tab /\ ts[s.view] = b /\ \A d \in DOMAIN s.tab : d # s.view => ts[d] = s.tab[d]
  BY <1>2, <1>3 DEF Retabbed
<1> HIDE DEF ts
<1>8. Frame(s, t) /\ t.tab = ts /\ t.sv = s.sv /\ t.thumb_drag_dead = s.thumb_drag_dead
  BY <1>2, <1>4 DEF Frame, IsCanvas
<1>9. Retabbed(s, t, p, Fitted(s))
  BY <1>5, <1>6, <1>7, <1>8 DEF Retabbed
<1> QED
  BY <1>1, <1>5, <1>8, <1>9 DEF t

\* A restored view comes back where the point that was saved is now.
LEMMA RestoresOn ==
    ASSUME NEW sv, NEW z \in Zooms, NEW h, ViewOn(sv, z, h), NEW at,
           y_of(StripLayout(PageH, z), at) \in Int
    PROVE  /\ ViewOn(restore_saved(sv, at), z, h)
           /\ restore_saved(sv, at).y = relayout_scroll(at, StripLayout(PageH, z), h)
<1> DEFINE t == restore_saved(sv, at)
           l == StripLayout(PageH, z)
<1>1. IsView(sv) /\ h \in Nat \ {0} /\ sv.vp_h = h /\ sv.layout = l
  BY OnIs DEF ViewOn
<1>2. t = [sv EXCEPT !.y = relayout_scroll(at, l, h), !.current = 0, !.pinned = FALSE]
  BY <1>1 DEF restore_saved
<1> HIDE DEF t
<1>3. IsView(t) /\ t.layout = l /\ t.vp_h = h /\ t.y = relayout_scroll(at, l, h) /\ t.current = 0
  BY <1>1, <1>2 DEF IsView
<1>4. 0 \in BookPages
  BY PagesAre
<1>5. ViewOn(t, z, h)
  BY <1>1, <1>3, <1>4, PutOn DEF relayout_scroll
<1> QED
  BY <1>3, <1>5 DEF t

\* The canvas with another view of the strip.
LEMMA WithView ==
    ASSUME NEW s, LayoutTypes(s), NEW v
    PROVE  LET t == [s EXCEPT !.sv = v]
           IN /\ Frame(s, t) /\ Retabbed(s, t, CurrentPage(s), ZoomPct(s))
              /\ t.sv = v /\ t.thumb_drag_dead = s.thumb_drag_dead /\ t.tab = s.tab
<1> DEFINE t == [s EXCEPT !.sv = v]
<1>1. IsCanvas(s) /\ IsTab(Tab(s)) /\ Tab(s) = s.tab[s.view]
  BY TypesAre
<1>2. Frame(s, t) /\ t.tab = s.tab /\ t.sv = v /\ t.thumb_drag_dead = s.thumb_drag_dead
  BY <1>1 DEF Frame, IsCanvas
<1> HIDE DEF t
<1>3. Retabbed(s, t, CurrentPage(s), ZoomPct(s))
  BY <1>1, <1>2 DEF Retabbed, Replaced, CurrentPage, ZoomPct
<1> QED
  BY <1>2, <1>3 DEF t

\* After a change the view's page is the strip's.
LEMMA ChangedIs ==
    ASSUME NEW s, LayoutTypes(s), s.layout = "Strip", NEW z \in Zooms, NEW h, ViewOn(s.sv, z, h)
    PROVE  LET t == strip_after_change(s)
           IN /\ Frame(s, t) /\ Retabbed(s, t, t.sv.current, ZoomPct(s))
              /\ t.sv = recompute_current(s.sv) /\ t.thumb_drag_dead = s.thumb_drag_dead
              /\ t.sv.current \in BookPages
<1> DEFINE sv == recompute_current(s.sv)
           u == [s EXCEPT !.sv = sv]
           t == strip_after_change(s)
<1>1. t = SetPage(u, sv.current)
  BY OnIs DEF strip_after_change, strip_active
<1>2. ViewOn(sv, z, h)
  BY CurrentOn
<1>3. ViewOK(sv) /\ sv.current \in BookPages
  BY <1>2 DEF ViewOn
<1> HIDE DEF sv
<1>4. /\ Frame(s, u) /\ Retabbed(s, u, CurrentPage(s), ZoomPct(s))
      /\ u.sv = sv /\ u.thumb_drag_dead = s.thumb_drag_dead
  BY WithView
<1>5. CurrentPage(s) \in BookPages /\ ZoomPct(s) \in Zooms /\ s.thumb_drag_dead \in BOOLEAN
  BY TypesAre DEF LayoutTypes
<1> HIDE DEF u
<1>6. LayoutTypes(u) /\ ZoomPct(u) = ZoomPct(s)
  BY <1>3, <1>4, <1>5, FrameTypes
<1>7. /\ Frame(u, t) /\ Retabbed(u, t, sv.current, ZoomPct(s))
      /\ t.sv = sv /\ t.thumb_drag_dead = s.thumb_drag_dead
  BY <1>1, <1>4, <1>6, SetPageIs
<1> HIDE DEF t
<1>8. Frame(s, t) /\ Retabbed(s, t, sv.current, ZoomPct(s))
  <2>1. u.view = s.view
    BY <1>4 DEF Frame
  <2> QED
    BY <2>1, <1>4, <1>7, TwoFrames, TwoRetabs
<1> QED
  BY <1>3, <1>7, <1>8 DEF t, sv

\* A drag that is live dies.
LEMMA DragEnds ==
    ASSUME NEW s, LayoutTypes(s)
    PROVE  LET t == strip_end_thumb_drag(s)
           IN /\ Frame(s, t) /\ t.tab = s.tab /\ t.sv = s.sv
              /\ t.thumb_drag_dead = (s.thumb_drag_dead \/ s.thumb_drag_live)
              /\ Retabbed(s, t, CurrentPage(s), ZoomPct(s))
<1> DEFINE t == strip_end_thumb_drag(s)
           dead == s.thumb_drag_dead \/ s.thumb_drag_live
<1>1. IsCanvas(s) /\ IsTab(Tab(s)) /\ Tab(s) = s.tab[s.view]
  BY TypesAre
<1>2. t = [s EXCEPT !.thumb_drag_dead = dead]
  BY <1>1 DEF strip_end_thumb_drag, IsCanvas
<1> HIDE DEF t, dead
<1>3. Frame(s, t) /\ t.tab = s.tab /\ t.sv = s.sv /\ t.thumb_drag_dead = dead
  BY <1>1, <1>2 DEF Frame, IsCanvas
<1>4. Retabbed(s, t, CurrentPage(s), ZoomPct(s))
  BY <1>1, <1>3 DEF Retabbed, Replaced, CurrentPage, ZoomPct
<1> QED
  BY <1>3, <1>4 DEF t, dead

\* The zoom of the strip after a kick.
KickZoom(s, reason) ==
    IF reason \in {"Layout", "TabSwitch", "Spread"} THEN Fitted(s) ELSE ZoomPct(s)

\* The place that a tab switch brings back.
Restores(s, reason) == reason = "TabSwitch" /\ Tab(s).strip_state # NoState

\* What strip_kick shows before it looks where the reader is.
PlacedView(s, reason) ==
    LET sv == IF ~has_layout(s.sv) THEN build(s.sv, PageH, ZoomPct(s))
              ELSE IF reason # "Navigate" THEN relayout(s.sv, PageH, ZoomPct(s)) ELSE s.sv
    IN IF Restores(s, reason) THEN restore_saved(sv, Tab(s).strip_state)
       ELSE IF ~has_layout(s.sv) THEN navigate(sv, CurrentPage(s)) ELSE sv

\* Where the kick puts the reader.
PlacedWell(s, reason, v) ==
    LET z == ZoomPct(s) IN
    /\ ViewOn(v, z, s.vp_h)
    /\ ~Restores(s, reason) /\ ~has_layout(s.sv) => Pinned(v, CurrentPage(s))
    /\ ~Restores(s, reason) /\ has_layout(s.sv) => SamePage(s.sv, v)
    /\ Restores(s, reason) => v.y = relayout_scroll(Tab(s).strip_state, StripLayout(PageH, z), s.vp_h)

LEMMA PlacedIs ==
    ASSUME NEW s, LayoutTypes(s), s.sv.vp_h = s.vp_h, NEW reason,
           has_layout(s.sv) => \E z \in Zooms : /\ ViewOn(s.sv, z, s.vp_h)
                                                /\ reason = "Navigate" => z = ZoomPct(s),
           \A z \in Zooms : Restores(s, reason) => y_of(StripLayout(PageH, z), Tab(s).strip_state) \in Int
    PROVE  PlacedWell(s, reason, PlacedView(s, reason))
<1> DEFINE z == ZoomPct(s)
           sv == IF ~has_layout(s.sv) THEN build(s.sv, PageH, z)
                 ELSE IF reason # "Navigate" THEN relayout(s.sv, PageH, z) ELSE s.sv
<1>1. z \in Zooms /\ CurrentPage(s) \in BookPages /\ ViewOK(s.sv)
  BY TypesAre
<1>2. ViewOn(sv, z, s.vp_h) /\ (has_layout(s.sv) => SamePage(s.sv, sv))
  <2>1. CASE ~has_layout(s.sv)
    BY <1>1, <2>1, BuildsOn
  <2>2. CASE has_layout(s.sv)
    <3>1. PICK old \in Zooms : ViewOn(s.sv, old, s.vp_h) /\ (reason = "Navigate" => old = z)
      BY <2>2
    <3>2. CASE reason # "Navigate"
      BY <1>1, <2>2, <3>1, <3>2, RelayoutsOn
    <3>3. CASE reason = "Navigate"
      BY <2>2, <3>1, <3>3 DEF SamePage
    <3> QED
      BY <3>2, <3>3
  <2> QED
    BY <2>1, <2>2
<1>3. PlacedView(s, reason) = IF Restores(s, reason) THEN restore_saved(sv, Tab(s).strip_state)
                              ELSE IF ~has_layout(s.sv) THEN navigate(sv, CurrentPage(s)) ELSE sv
  BY DEF PlacedView
<1> HIDE DEF z, sv
<1>4. CASE Restores(s, reason)
  <2>1. PlacedView(s, reason) = restore_saved(sv, Tab(s).strip_state)
    BY <1>3, <1>4
  <2> QED
    BY <1>1, <1>2, <1>4, <2>1, RestoresOn DEF PlacedWell, z
<1>5. CASE ~Restores(s, reason) /\ ~has_layout(s.sv)
  <2>1. PlacedView(s, reason) = navigate(sv, CurrentPage(s))
    BY <1>3, <1>5
  <2> QED
    BY <1>1, <1>2, <1>5, <2>1, NavigatesOn DEF PlacedWell, z
<1>6. CASE ~Restores(s, reason) /\ has_layout(s.sv)
  BY <1>2, <1>3, <1>6 DEF PlacedWell, z
<1> QED
  BY <1>4, <1>5, <1>6

\* What a kick leaves in the strip.
KickedTo(s, t, reason) ==
    LET z == KickZoom(s, reason) IN
    /\ Frame(s, t) /\ Retabbed(s, t, t.sv.current, z) /\ z \in Zooms
    /\ ViewOn(t.sv, z, s.vp_h) /\ Shows(t.sv)
    /\ t.thumb_drag_dead = (s.thumb_drag_dead \/ (reason # "Navigate" /\ s.thumb_drag_live))
    /\ ~Restores(s, reason) /\ ~has_layout(s.sv) => Pinned(t.sv, CurrentPage(s))
    /\ ~Restores(s, reason) /\ has_layout(s.sv) => \A p : Pinned(s.sv, p) => Pinned(t.sv, p)
    /\ Restores(s, reason) =>
          t.sv.y = relayout_scroll(Tab(s).strip_state, StripLayout(PageH, z), s.vp_h)

LEMMA StripKickIs ==
    ASSUME NEW s, LayoutTypes(s), s.layout = "Strip", s.sv.vp_h = s.vp_h, NEW reason,
           has_layout(s.sv) => \E z \in Zooms : /\ ViewOn(s.sv, z, s.vp_h)
                                                /\ reason = "Navigate" => z = ZoomPct(s),
           \A z \in Zooms : Restores(s, reason) => y_of(StripLayout(PageH, z), Tab(s).strip_state) \in Int
    PROVE  LET t == strip_kick(s, reason)
               z == ZoomPct(s)
               v == PlacedView(s, reason)
           IN /\ Frame(s, t) /\ Retabbed(s, t, t.sv.current, z)
              /\ ViewOn(t.sv, z, s.vp_h) /\ Shows(t.sv) /\ PlacedWell(s, reason, v)
              /\ t.sv.y = v.y /\ \A p : Pinned(v, p) => Pinned(t.sv, p)
              /\ t.thumb_drag_dead = (s.thumb_drag_dead \/ (reason # "Navigate" /\ s.thumb_drag_live))
<1> DEFINE z == ZoomPct(s)
           v == PlacedView(s, reason)
           u == [s EXCEPT !.sv = v]
           w == strip_after_change(u)
           t == strip_kick(s, reason)
<1>1. PlacedWell(s, reason, v)
  BY PlacedIs
<1>2. t = IF reason # "Navigate" THEN strip_end_thumb_drag(w) ELSE w
  BY DEF strip_kick, PlacedView, Restores
<1>3. z \in Zooms /\ CurrentPage(s) \in BookPages /\ {s.thumb_drag_dead, s.thumb_drag_live} \subseteq BOOLEAN
  BY TypesAre DEF LayoutTypes
<1> HIDE DEF v
<1>4. ViewOn(v, z, s.vp_h) /\ ViewOK(v)
  BY <1>1 DEF PlacedWell, ViewOn
<1>5. /\ Frame(s, u) /\ Retabbed(s, u, CurrentPage(s), z)
      /\ u.sv = v /\ u.thumb_drag_dead = s.thumb_drag_dead
  BY WithView
<1> HIDE DEF u, z
<1>6. LayoutTypes(u) /\ ZoomPct(u) = z /\ u.layout = "Strip" /\ u.view = s.view
  <2>1. LayoutTypes(u) /\ ZoomPct(u) = z
    BY <1>3, <1>4, <1>5, FrameTypes
  <2> QED
    BY <2>1, <1>5 DEF Frame
<1>7. /\ Frame(u, w) /\ Retabbed(u, w, w.sv.current, z) /\ w.sv = recompute_current(v)
      /\ w.thumb_drag_dead = s.thumb_drag_dead /\ w.sv.current \in BookPages
  BY <1>3, <1>4, <1>5, <1>6, ChangedIs
<1>8. /\ ViewOn(w.sv, z, s.vp_h) /\ Shows(w.sv) /\ w.sv.y = v.y
      /\ \A p : Pinned(v, p) => Pinned(w.sv, p)
  BY <1>3, <1>4, <1>7, CurrentOn
<1> HIDE DEF w
<1>9. Frame(s, w) /\ Retabbed(s, w, w.sv.current, z)
  BY <1>5, <1>6, <1>7, TwoFrames, TwoRetabs
<1>10. LayoutTypes(w) /\ ZoomPct(w) = z /\ CurrentPage(w) = w.sv.current
  <2>1. ViewOK(w.sv)
    BY <1>8 DEF ViewOn
  <2> QED
    BY <2>1, <1>3, <1>7, <1>9, FrameTypes
<1>11. CASE reason = "Navigate"
  <2>1. t = w
    BY <1>2, <1>11
  <2>2. t.thumb_drag_dead = (s.thumb_drag_dead \/ (reason # "Navigate" /\ s.thumb_drag_live))
    BY <2>1, <1>3, <1>7, <1>11
  <2> HIDE DEF t
  <2> QED
    BY <2>1, <2>2, <1>1, <1>8, <1>9 DEF t, v, z
<1>12. CASE reason # "Navigate"
  <2>1. t = strip_end_thumb_drag(w)
    BY <1>2, <1>12
  <2> HIDE DEF t
  <2>2. /\ Frame(w, t) /\ Retabbed(w, t, w.sv.current, z) /\ t.sv = w.sv
        /\ t.thumb_drag_dead = (w.thumb_drag_dead \/ w.thumb_drag_live)
    BY <2>1, <1>10, DragEnds
  <2>3. w.thumb_drag_live = s.thumb_drag_live /\ w.view = s.view
    BY <1>9 DEF Frame
  <2>4. Frame(s, t) /\ Retabbed(s, t, t.sv.current, z)
    BY <1>9, <2>2, <2>3, TwoFrames, TwoRetabs
  <2>5. t.thumb_drag_dead = (s.thumb_drag_dead \/ (reason # "Navigate" /\ s.thumb_drag_live))
    BY <2>2, <2>3, <1>3, <1>7, <1>12
  <2> QED
    BY <2>2, <2>4, <2>5, <1>1, <1>8 DEF t, v, z
<1> QED
  BY <1>11, <1>12

\* What is saved of a tab's place is a point of every strip.
LEMMA PlaceIsInt ==
    ASSUME NEW s, LayoutTypes(s), PlaceHeld(s), NEW z \in Zooms, Tab(s).strip_state # NoState
    PROVE  y_of(StripLayout(PageH, z), Tab(s).strip_state) \in Int
<1> DEFINE at == s.left[s.view]
           l == StripLayout(PageH, at.zoom)
<1>1. s.view \in Docs /\ s.tab[s.view].strip_state # NoState
  BY DEF LayoutTypes, Tab
<1>2. at.zoom \in Zooms /\ at.y \in Int /\ s.tab[s.view].strip_state = position_at(l, at.y)
  BY <1>1 DEF PlaceHeld
<1>3. LayoutOK(l) /\ LayoutOK(StripLayout(PageH, z))
  BY <1>2, LayoutTyped
<1> HIDE DEF at, l
<1> QED
  BY <1>2, <1>3, PointIsInt DEF Tab

\* What a kick of the strip does.
LEMMA KickIs ==
    ASSUME NEW s, LayoutTypes(s), PlaceHeld(s), s.layout = "Strip", NEW reason,
           has_layout(s.sv) => \E z \in Zooms : \E h : /\ ViewOn(s.sv, z, h)
                                                       /\ reason = "Navigate" => z = ZoomPct(s)
    PROVE  KickedTo(s, kick_render(s, reason), reason)
<1> DEFINE z == KickZoom(s, reason)
           r == IF reason \in {"Layout", "TabSwitch", "Spread"} THEN apply_viewport(s) ELSE s
           u == [r EXCEPT !.sv = set_viewport(@, s.vp_h)]
           t == kick_render(s, reason)
<1>1. t = strip_kick(u, reason)
  BY DEF kick_render
<1>2. /\ Frame(s, r) /\ Retabbed(s, r, CurrentPage(s), z) /\ z \in Zooms
      /\ r.sv = s.sv /\ r.thumb_drag_dead = s.thumb_drag_dead
  <2>1. CASE reason \in {"Layout", "TabSwitch", "Spread"}
    <3>1. r = apply_viewport(s) /\ z = Fitted(s)
      BY <2>1 DEF KickZoom
    <3>2. canon(s, CurrentPage(s)) = CurrentPage(s)
      BY TypesAre, CanonIs
    <3> QED
      BY <3>1, <3>2, ViewportIs
  <2>2. CASE reason \notin {"Layout", "TabSwitch", "Spread"}
    <3>1. r = s /\ z = ZoomPct(s)
      BY <2>2 DEF KickZoom
    <3>2. ZoomPct(s) \in Zooms /\ IsCanvas(s) /\ IsTab(Tab(s)) /\ Tab(s) = s.tab[s.view]
      BY TypesAre
    <3>3. Frame(s, s) /\ Retabbed(s, s, CurrentPage(s), ZoomPct(s))
      BY <3>2 DEF Frame, Retabbed, Replaced, CurrentPage, ZoomPct
    <3> HIDE DEF r
    <3> QED
      BY <3>1, <3>2, <3>3
  <2> QED
    BY <2>1, <2>2
<1>3. /\ CurrentPage(s) \in BookPages /\ ViewOK(s.sv) /\ s.vp_h \in Nat \ {0}
      /\ s.thumb_drag_dead \in BOOLEAN
  BY TypesAre DEF LayoutTypes
<1> HIDE DEF r, z, t
<1>4. LayoutTypes(r) /\ ZoomPct(r) = z /\ CurrentPage(r) = CurrentPage(s) /\ r.vp_h = s.vp_h
  <2>1. LayoutTypes(r) /\ ZoomPct(r) = z /\ CurrentPage(r) = CurrentPage(s)
    BY <1>2, <1>3, FrameTypes
  <2> QED
    BY <2>1, <1>2 DEF Frame
<1>5. IsCanvas(r)
  BY <1>4, TypesAre
<1> DEFINE sv == set_viewport(s.sv, s.vp_h)
<1>6. u = [r EXCEPT !.sv = sv]
  BY <1>2, <1>4, <1>5 DEF IsCanvas
<1>7. /\ Frame(r, u) /\ Retabbed(r, u, CurrentPage(s), z)
      /\ u.sv = sv /\ u.thumb_drag_dead = s.thumb_drag_dead /\ u.tab = r.tab
  BY <1>2, <1>4, <1>6, WithView
<1>8. /\ ViewOK(sv) /\ sv.vp_h = s.vp_h /\ (has_layout(sv) <=> has_layout(s.sv))
      /\ has_layout(sv) => /\ SamePage(s.sv, sv)
                           /\ \E old \in Zooms : /\ ViewOn(sv, old, s.vp_h)
                                                 /\ reason = "Navigate" => old = z
  <2>1. CASE ~has_layout(s.sv)
    BY <1>3, <2>1, ResizesBare
  <2>2. CASE has_layout(s.sv)
    <3>1. PICK old \in Zooms : \E h : ViewOn(s.sv, old, h) /\ (reason = "Navigate" => old = ZoomPct(s))
      BY <2>2
    <3>2. PICK h : ViewOn(s.sv, old, h) /\ (reason = "Navigate" => old = ZoomPct(s))
      BY <3>1
    <3>3. ViewOn(sv, old, s.vp_h) /\ SamePage(s.sv, sv)
      BY <1>3, <3>2, ResizesOn
    <3>4. reason = "Navigate" => old = z
      BY <3>2 DEF z, KickZoom
    <3>5. has_layout(sv) /\ ViewOK(sv) /\ sv.vp_h = s.vp_h
      BY <3>3, OnIs DEF ViewOn
    <3> QED
      BY <2>2, <3>3, <3>4, <3>5
  <2> QED
    BY <2>1, <2>2
<1> HIDE DEF sv, u
<1>9. Frame(s, u) /\ Retabbed(s, u, CurrentPage(s), z)
  <2>1. r.view = s.view
    BY <1>2 DEF Frame
  <2> QED
    BY <1>2, <1>7, <2>1, TwoFrames, TwoRetabs
<1>10. LayoutTypes(u) /\ ZoomPct(u) = z /\ CurrentPage(u) = CurrentPage(s)
  BY <1>2, <1>3, <1>7, <1>8, <1>9, FrameTypes
<1>11. u.layout = "Strip" /\ u.vp_h = s.vp_h /\ u.view = s.view /\ u.thumb_drag_live = s.thumb_drag_live
  BY <1>9 DEF Frame
<1>12. Tab(u).strip_state = Tab(s).strip_state /\ (Restores(u, reason) <=> Restores(s, reason))
  <2>1. Tab(u).strip_state = Tab(s).strip_state
    BY <1>9, <1>11 DEF Retabbed, Replaced, Tab
  <2> QED
    BY <2>1 DEF Restores
<1>13. \A y \in Zooms : Restores(u, reason) => y_of(StripLayout(PageH, y), Tab(u).strip_state) \in Int
  <2>1. \A y \in Zooms : Restores(s, reason) => y_of(StripLayout(PageH, y), Tab(s).strip_state) \in Int
    BY PlaceIsInt DEF Restores
  <2> QED
    BY <2>1, <1>12
<1> DEFINE v == PlacedView(u, reason)
<1>14. /\ Frame(u, t) /\ Retabbed(u, t, t.sv.current, z)
       /\ ViewOn(t.sv, z, s.vp_h) /\ Shows(t.sv) /\ PlacedWell(u, reason, v)
       /\ t.sv.y = v.y /\ \A p : Pinned(v, p) => Pinned(t.sv, p)
       /\ t.thumb_drag_dead = (s.thumb_drag_dead \/ (reason # "Navigate" /\ s.thumb_drag_live))
  <2>1. u.sv.vp_h = u.vp_h
    BY <1>7, <1>8, <1>11
  <2>2. has_layout(u.sv) => \E y \in Zooms : /\ ViewOn(u.sv, y, u.vp_h)
                                             /\ reason = "Navigate" => y = ZoomPct(u)
    BY <1>7, <1>8, <1>10, <1>11
  <2> QED
    BY <2>1, <2>2, <1>1, <1>7, <1>10, <1>11, <1>13, StripKickIs
<1>15. Frame(s, t) /\ Retabbed(s, t, t.sv.current, z)
  BY <1>9, <1>11, <1>14, TwoFrames, TwoRetabs
<1> HIDE DEF v
<1>16. ~Restores(s, reason) /\ ~has_layout(s.sv) => Pinned(t.sv, CurrentPage(s))
  BY <1>7, <1>8, <1>10, <1>12, <1>14 DEF PlacedWell
<1>17. ~Restores(s, reason) /\ has_layout(s.sv) => \A p : Pinned(s.sv, p) => Pinned(t.sv, p)
  <2>1. ~Restores(u, reason) /\ has_layout(u.sv) => SamePage(u.sv, v)
    BY <1>14 DEF PlacedWell
  <2> QED
    BY <2>1, <1>7, <1>8, <1>12, <1>14 DEF SamePage, Pinned
<1>18. Restores(s, reason) =>
          t.sv.y = relayout_scroll(Tab(s).strip_state, StripLayout(PageH, z), s.vp_h)
  BY <1>10, <1>11, <1>12, <1>14 DEF PlacedWell
<1> QED
  BY <1>2, <1>14, <1>15, <1>16, <1>17, <1>18 DEF KickedTo, z, t

\* In a paged layout a kick only refits.
LEMMA PagedKickIs ==
    ASSUME NEW s, LayoutTypes(s), s.layout # "Strip", NEW reason
    PROVE  LET t == kick_render(s, reason)
           IN /\ Frame(s, t) /\ Retabbed(s, t, canon(s, CurrentPage(s)), Fitted(s))
              /\ t.sv = s.sv /\ t.thumb_drag_dead = s.thumb_drag_dead
              /\ Fitted(s) \in Zooms /\ canon(s, CurrentPage(s)) \in BookPages
BY ViewportIs DEF kick_render

-----------------------------------------------------------------------------
(* The arithmetic of the carry.                                            *)

\* Quotients of products.
LEMMA DivOfProduct ==
    ASSUME NEW a \in Int, NEW b \in Nat \ {0}
    PROVE  (a * b) \div b = a
OBVIOUS

LEMMA DivAtMost ==
    ASSUME NEW a \in Nat, NEW b \in Nat \ {0}, NEW c \in Nat, a <= c * b
    PROVE  a \div b \in Nat /\ a \div b <= c
OBVIOUS

LEMMA ProductOrder ==
    ASSUME NEW a \in Nat, NEW b \in Nat, NEW z \in Nat, a <= b
    PROVE  a * z \in Nat /\ b * z \in Nat /\ a * z <= b * z
OBVIOUS

\* The place that a position was made of.
LEMMA RoundTrip ==
    ASSUME NEW l, LayoutOK(l), NEW y \in Int
    PROVE  y_of(l, position_at(l, y)) = Clamped(y, 0, total_height(l) - 1)
<1> DEFINE at == Clamped(y, 0, total_height(l) - 1)
           above == {p \in PagesOf(l) : top(l, p) <= at}
           last == Max(above)
           pos == position_at(l, y)
<1>1. at \in Int /\ PagesOf(l) = BookPages /\ above \subseteq BookPages
  BY DEF LayoutOK, Clamped, Greater, Lesser, total_height, PagesOf
<1>2. above # {} => last \in BookPages
  BY <1>1, LastAbove
<1>3. Gap \in Nat \ {0}
  BY LayoutConstants
<1> HIDE DEF at, last
<1>4. CASE above = {}
  <2>1. pos = [kind |-> "InGapAfter", page |-> NoPage, fraction |-> <<at, Gap>>]
    BY <1>4 DEF position_at, at
  <2>2. y_of(l, pos) = (at * Gap) \div Gap
    BY <2>1 DEF y_of
  <2> QED
    BY <2>2, <1>3, <1>1, DivOfProduct DEF at
<1>5. CASE above # {} /\ at < bottom(l, last)
  <2>1. pos = [kind |-> "InPage", page |-> last, fraction |-> <<at - top(l, last), height(l, last)>>]
    BY <1>5 DEF position_at, at, last
  <2>2. y_of(l, pos) = top(l, last) + ((at - top(l, last)) * height(l, last)) \div height(l, last)
    BY <2>1 DEF y_of
  <2>3. top(l, last) \in Int /\ height(l, last) \in Nat \ {0} /\ at - top(l, last) \in Int
    BY <1>1, <1>2, <1>5, NumbersOf
  <2>4. ((at - top(l, last)) * height(l, last)) \div height(l, last) = at - top(l, last)
    BY <2>3, DivOfProduct
  <2>5. y_of(l, pos) = at
    BY <2>2, <2>3, <2>4, <1>1
  <2> QED
    BY <2>5 DEF at
<1>6. CASE above # {} /\ ~(at < bottom(l, last))
  <2>1. pos = [kind |-> "InGapAfter", page |-> last, fraction |-> <<at - bottom(l, last), Gap>>]
    BY <1>6 DEF position_at, at, last
  <2>2. last # NoPage
    BY <1>2, <1>6, PagesAre DEF NoPage
  <2>3. y_of(l, pos) = bottom(l, last) + ((at - bottom(l, last)) * Gap) \div Gap
    BY <2>1, <2>2 DEF y_of
  <2>4. bottom(l, last) \in Int /\ at - bottom(l, last) \in Int
    BY <1>1, <1>2, <1>6, NumbersOf
  <2>5. ((at - bottom(l, last)) * Gap) \div Gap = at - bottom(l, last)
    BY <2>4, <1>3, DivOfProduct
  <2>6. y_of(l, pos) = at
    BY <2>3, <2>4, <2>5, <1>1
  <2> QED
    BY <2>6 DEF at
<1> QED
  BY <1>4, <1>5, <1>6

\* Saved and restored at the same zoom in the same window, the place is the same.
LEMMA PlaceReturns ==
    ASSUME NEW l, LayoutOK(l), NEW h \in Nat \ {0}, NEW y \in Int, y = clamp_strip_scroll(y, l, h)
    PROVE  relayout_scroll(position_at(l, y), l, h) = y
<1> DEFINE total == total_height(l)
           at == Clamped(y, 0, total - 1)
<1>1. total \in Int
  BY DEF LayoutOK, total_height
<1>2. relayout_scroll(position_at(l, y), l, h) = Clamped(at, 0, Greater(0, total - h))
  BY RoundTrip DEF relayout_scroll, clamp_strip_scroll, max_scroll
<1>3. y = Clamped(y, 0, Greater(0, total - h))
  BY DEF clamp_strip_scroll, max_scroll
<1> HIDE DEF total
<1>4. Clamped(at, 0, Greater(0, total - h)) = y
  BY <1>1, <1>3 DEF Clamped, Greater, Lesser
<1> QED
  BY <1>2, <1>4

\* A pan is never clamped farther down than it was asked to be.
LEMMA PanClamped ==
    ASSUME NEW x \in Int, NEW content \in Int, NEW h \in Int, NEW most \in Nat, -x <= most
    PROVE  clamp_paged(x, content, h) \in Int /\ -clamp_paged(x, content, h) <= most
BY DEF clamp_paged, Clamped, Greater, Lesser

\* An offset into a page lies on it.
LEMMA OffsetIn ==
    ASSUME NEW raw \in Int, NEW hi \in Int
    PROVE  carry_offset(raw, hi) \in Nat /\ (hi >= 0 => carry_offset(raw, hi) <= hi)
BY DEF carry_offset, Clamped, Greater, Lesser

\* The pair is painted from the top of the window or below.
LEMMA PairPlaced ==
    ASSUME NEW a \in Nat, NEW b \in Int, NEW h \in Nat \ {0}
    PROVE  LET at == spread_vertical(a, b, h)
           IN at.union_h \in Int /\ at.left_top \in Nat /\ at.right_top \in Nat
<1> DEFINE ca == Centred(a, h)
           cb == Centred(b, h)
           tops == {ca} \cup (IF b >= 0 THEN {cb} ELSE {})
           ends == {ca + a} \cup (IF b >= 0 THEN {cb + b} ELSE {})
           high == Min(tops)
           low == Max(ends)
           base == IF low - high > h THEN -high ELSE 0
           at == spread_vertical(a, b, h)
<1>1. ca \in Nat /\ (b >= 0 => cb \in Nat)
  BY DEF Centred
<1>2. at = [union_h |-> low - high, left_top |-> ca + base,
            right_top |-> IF b >= 0 THEN cb + base ELSE 0]
  BY DEF spread_vertical
<1> HIDE DEF ca, cb
<1>3. tops = IF b >= 0 THEN {ca, cb} ELSE {ca}
  OBVIOUS
<1>4. ends = IF b >= 0 THEN {ca + a, cb + b} ELSE {ca + a}
  OBVIOUS
<1> HIDE DEF tops, ends
<1>5. high \in tops /\ \A x \in tops : high <= x
  <2>1. \E x \in tops : \A y \in tops : x <= y
    BY <1>1, <1>3
  <2> QED
    BY <2>1 DEF Min
<1>6. low \in ends
  <2>1. \E x \in ends : \A y \in ends : x >= y
    BY <1>1, <1>4
  <2> QED
    BY <2>1 DEF Max
<1> HIDE DEF high, low
<1>7. high \in Nat /\ high <= ca /\ (b >= 0 => high <= cb)
  BY <1>1, <1>3, <1>5
<1>8. low \in Int
  BY <1>1, <1>4, <1>6
<1>9. ca + base \in Nat /\ (b >= 0 => cb + base \in Nat)
  BY <1>1, <1>7, <1>8
<1> QED
  BY <1>2, <1>7, <1>8, <1>9

-----------------------------------------------------------------------------
(* What a step keeps.                                                      *)

\* EntersWhereItCame and ComesBack, of two states.
Enters(s, t) ==
    s.came # NoPage /\ s.layout # "Strip" /\ t.layout = "Strip" /\ t.view = s.view
    => t.sv.current = s.came

Back(s, t) ==
    t.view # s.view /\ strip_active(t) =>
      LET was == s.left[t.view] IN
      /\ was = NoPlace => t.sv.current = s.tab[t.view].page
      /\ was # NoPlace /\ was.zoom = ZoomPct(t) /\ was.vp_h = t.vp_h => t.sv.y = was.y

KeepsPlace(s, t) == LayoutSound(t) /\ Enters(s, t) /\ Back(s, t)

\* On a strip in a window of its height.
LEMMA ActiveIs ==
    ASSUME NEW s, LayoutSound(s), s.layout = "Strip"
    PROVE  /\ strip_active(s) /\ has_layout(s.sv) /\ ViewOn(s.sv, ZoomPct(s), s.vp_h)
           /\ ZoomPct(s) \in Zooms /\ s.came = NoPage /\ s.sent = NoPage
<1>1. ZoomPct(s) \in Zooms /\ ViewOn(s.sv, ZoomPct(s), s.vp_h)
  BY TypesAre DEF LayoutSound, StripBuilt
<1>2. has_layout(s.sv)
  BY <1>1, OnIs
<1>3. s.came = NoPage /\ s.sent = NoPage
  BY DEF LayoutSound, CarryInv
<1> QED
  BY <1>1, <1>2, <1>3 DEF strip_active

\* Two views of one strip in one window show the same layout.
LEMMA SameLayout ==
    ASSUME NEW s, NEW t, NEW z, NEW h, ViewOn(s.sv, z, h), ViewOn(t.sv, z, h)
    PROVE  LayoutNow(t) = LayoutNow(s)
BY DEF ViewOn, LayoutNow

\* What is sound before the place on the strip is looked at.
Poised(s) ==
    /\ LayoutTypes(s) /\ PlaceHeld(s) /\ s.layout = effective_layout(s)
    /\ s.layout = "Strip" /\ s.came = NoPage /\ s.sent = NoPage
    /\ s.drag # <<>> => s.thumb_drag_live

\* A strip that shows the view's page is sound.
LEMMA StripSoundIs ==
    ASSUME NEW s, Poised(s), NEW t, Frame(s, t), NEW z \in Zooms, Retabbed(s, t, t.sv.current, z),
           ViewOn(t.sv, z, s.vp_h), Shows(t.sv), t.thumb_drag_dead \in BOOLEAN,
           t.thumb_drag_live /\ ~t.thumb_drag_dead => t.drag = LayoutNow(t)
    PROVE  LayoutSound(t)
<1>1. LayoutTypes(t) /\ CurrentPage(t) = t.sv.current /\ ZoomPct(t) = z
  BY FrameTypes DEF Poised, ViewOn
<1>2. effective_layout(t) = effective_layout(s) /\ PlaceHeld(t)
  BY FrameKeeps DEF Poised
<1>3. /\ t.layout = "Strip" /\ t.vp_h = s.vp_h /\ t.came = NoPage /\ t.sent = NoPage
      /\ t.drag = s.drag /\ t.thumb_drag_live = s.thumb_drag_live
  BY DEF Frame, Poised
<1>4. StripBuilt(t) /\ PageInStep(t)
  BY <1>1, <1>3 DEF StripBuilt, PageInStep, Shows
<1>5. DragInStep(t)
  BY <1>3 DEF DragInStep, Poised
<1>6. CarryInv(t)
  BY <1>3 DEF CarryInv
<1>7. t.layout = effective_layout(t)
  BY <1>2, <1>3 DEF Poised
<1> QED
  BY <1>1, <1>2, <1>4, <1>5, <1>6, <1>7 DEF LayoutSound

\* A kick of the strip, of a layout as it was or that ends the drag.
LEMMA KickSound ==
    ASSUME NEW s, Poised(s), NEW reason,
           has_layout(s.sv) => \E z \in Zooms : \E h : /\ ViewOn(s.sv, z, h)
                                                       /\ reason = "Navigate" => z = ZoomPct(s),
           reason = "Navigate" => /\ ViewOn(s.sv, ZoomPct(s), s.vp_h)
                                  /\ s.thumb_drag_live /\ ~s.thumb_drag_dead => s.drag = LayoutNow(s)
    PROVE  LayoutSound(kick_render(s, reason)) /\ KickedTo(s, kick_render(s, reason), reason)
<1> DEFINE t == kick_render(s, reason)
           z == KickZoom(s, reason)
<1>1. KickedTo(s, t, reason)
  BY KickIs DEF Poised
<1> HIDE DEF t
<1>2. /\ Frame(s, t) /\ Retabbed(s, t, t.sv.current, z) /\ z \in Zooms
      /\ ViewOn(t.sv, z, s.vp_h) /\ Shows(t.sv)
      /\ t.thumb_drag_dead = (s.thumb_drag_dead \/ (reason # "Navigate" /\ s.thumb_drag_live))
  BY <1>1 DEF KickedTo
<1>3. s.thumb_drag_dead \in BOOLEAN /\ s.thumb_drag_live \in BOOLEAN
      /\ t.drag = s.drag /\ t.thumb_drag_live = s.thumb_drag_live
  BY <1>2 DEF Poised, LayoutTypes, Frame
<1>4. t.thumb_drag_dead \in BOOLEAN
  BY <1>2, <1>3
<1>5. t.thumb_drag_live /\ ~t.thumb_drag_dead => t.drag = LayoutNow(t)
  <2>1. CASE reason = "Navigate"
    <3>1. z = ZoomPct(s)
      BY <2>1 DEF KickZoom
    <3>2. LayoutNow(t) = LayoutNow(s)
      BY <2>1, <3>1, <1>2, SameLayout
    <3>3. ~t.thumb_drag_dead => ~s.thumb_drag_dead
      BY <1>2
    <3> QED
      BY <2>1, <3>2, <3>3, <1>3
  <2>2. CASE reason # "Navigate"
    <3>1. t.thumb_drag_live => t.thumb_drag_dead
      BY <2>2, <1>2, <1>3
    <3> QED
      BY <3>1
  <2> QED
    BY <2>1, <2>2
<1> HIDE DEF z
<1>6. LayoutSound(t)
  BY <1>2, <1>4, <1>5, StripSoundIs
<1> QED
  BY <1>1, <1>6 DEF t

\* A sound strip is poised, and so is what a move of the reader makes of it.
LEMMA MovedIs ==
    ASSUME NEW s, IsCanvas(s)
    PROVE  LET t == Moved(s)
           IN /\ IsCanvas(t) /\ t.came = NoPage /\ t.sent = NoPage
              /\ t.view = s.view /\ t.layout = s.layout /\ t.pref = s.pref /\ t.vp_h = s.vp_h
              /\ t.sv = s.sv /\ t.pan = s.pan /\ t.held = s.held /\ t.landing = s.landing
              /\ t.thumb_drag_live = s.thumb_drag_live /\ t.thumb_drag_dead = s.thumb_drag_dead
              /\ t.tab = s.tab /\ t.drag = s.drag /\ t.left = s.left
BY DEF Moved, IsCanvas

\* What differs from a sound strip in its view and its window alone is poised.
LEMMA StillPoised ==
    ASSUME NEW s, LayoutSound(s), s.layout = "Strip", NEW t, IsCanvas(t),
           t.view = s.view, t.layout = s.layout, t.pref = s.pref, t.vp_h \in Nat \ {0},
           t.pan = s.pan, t.held = s.held, t.landing = s.landing,
           t.thumb_drag_live \in BOOLEAN, t.thumb_drag_dead = s.thumb_drag_dead, t.tab = s.tab,
           t.drag # <<>> => t.thumb_drag_live, t.left = s.left,
           t.came = NoPage, t.sent = NoPage, ViewOK(t.sv)
    PROVE  Poised(t) /\ ZoomPct(t) = ZoomPct(s) /\ CurrentPage(t) = CurrentPage(s)
<1>1. LayoutTypes(t)
  BY DEF LayoutSound, LayoutTypes, IsCanvas
<1>2. effective_layout(t) = effective_layout(s)
  BY DEF effective_layout, Tab
<1>3. PlaceHeld(t)
  BY DEF LayoutSound, PlaceHeld
<1>4. ZoomPct(t) = ZoomPct(s) /\ CurrentPage(t) = CurrentPage(s)
  BY DEF ZoomPct, CurrentPage, Tab
<1>5. s.layout = effective_layout(s)
  BY DEF LayoutSound
<1> QED
  BY <1>1, <1>2, <1>3, <1>4, <1>5 DEF Poised

\* The reader scrolls, pins or drags: the strip is on view v now.
LEMMA ReaderMoves ==
    ASSUME NEW s, LayoutSound(s), s.layout = "Strip", NEW v, ViewOn(v, ZoomPct(s), s.vp_h),
           NEW t, IsCanvas(t), t.sv = v,
           t.view = s.view, t.layout = s.layout, t.pref = s.pref, t.vp_h = s.vp_h,
           t.pan = s.pan, t.held = s.held, t.landing = s.landing,
           t.thumb_drag_live \in BOOLEAN, t.thumb_drag_dead = s.thumb_drag_dead, t.tab = s.tab,
           t.drag # <<>> => t.thumb_drag_live, t.left = s.left,
           t.came = NoPage, t.sent = NoPage,
           t.thumb_drag_live /\ ~t.thumb_drag_dead => t.drag = LayoutNow(s)
    PROVE  /\ LayoutSound(strip_after_change(t)) /\ KeepsPlace(s, strip_after_change(t))
           /\ strip_after_change(t).view = s.view /\ strip_after_change(t).layout = s.layout
           /\ strip_after_change(t).sv = recompute_current(v)
<1> DEFINE u == strip_after_change(t)
           z == ZoomPct(s)
<1>1. z \in Zooms /\ ViewOn(s.sv, z, s.vp_h)
  BY ActiveIs
<1>2. Poised(t) /\ ZoomPct(t) = z
  <2>1. ViewOK(t.sv) /\ t.vp_h \in Nat \ {0}
    BY <1>1, OnIs DEF ViewOn
  <2> QED
    BY <2>1, StillPoised
<1> HIDE DEF z
<1>3. /\ Frame(t, u) /\ Retabbed(t, u, u.sv.current, z) /\ u.sv = recompute_current(v)
      /\ u.thumb_drag_dead = t.thumb_drag_dead /\ u.sv.current \in BookPages
  <2>1. LayoutTypes(t) /\ t.layout = "Strip" /\ ViewOn(t.sv, z, s.vp_h)
    BY <1>2 DEF Poised, z
  <2> QED
    BY <2>1, <1>1, <1>2, ChangedIs
<1>4. ViewOn(u.sv, z, t.vp_h) /\ Shows(u.sv)
  <2>1. ViewOn(v, z, s.vp_h)
    BY DEF z
  <2> QED
    BY <2>1, <1>1, <1>3, CurrentOn
<1>5. LayoutNow(u) = LayoutNow(s)
  BY <1>1, <1>4, SameLayout
<1> HIDE DEF u
<1>6. u.thumb_drag_live = t.thumb_drag_live /\ u.drag = t.drag /\ u.view = s.view /\ u.layout = s.layout
  BY <1>3 DEF Frame
<1>7. u.thumb_drag_dead \in BOOLEAN /\ (u.thumb_drag_live /\ ~u.thumb_drag_dead => u.drag = LayoutNow(u))
  BY <1>2, <1>3, <1>5, <1>6 DEF Poised, LayoutTypes
<1>8. LayoutSound(u)
  BY <1>1, <1>2, <1>3, <1>4, <1>7, StripSoundIs
<1>9. KeepsPlace(s, u)
  BY <1>6, <1>8 DEF KeepsPlace, Enters, Back
<1> QED
  BY <1>3, <1>6, <1>8, <1>9 DEF u

\* Types of a sound canvas, for the drag.
LEMMA DragIs ==
    ASSUME NEW s, LayoutSound(s)
    PROVE  /\ s.thumb_drag_live \in BOOLEAN /\ s.thumb_drag_dead \in BOOLEAN
           /\ s.layout = "Strip" =>
                 /\ s.drag # <<>> => s.thumb_drag_live
                 /\ s.thumb_drag_live /\ ~s.thumb_drag_dead => s.drag = LayoutNow(s)
BY DEF LayoutSound, LayoutTypes, DragInStep

\* The strip after a move of the reader to view v.
LEMMA ViewMoves ==
    ASSUME NEW s, LayoutSound(s), s.layout = "Strip", NEW v, ViewOn(v, ZoomPct(s), s.vp_h)
    PROVE  LET t == strip_after_change(Moved([s EXCEPT !.sv = v]))
           IN /\ LayoutSound(t) /\ KeepsPlace(s, t) /\ t.sv = recompute_current(v)
              /\ t.view = s.view /\ t.layout = s.layout
<1> DEFINE u == [s EXCEPT !.sv = v]
           t == Moved(u)
<1>1. IsCanvas(s)
  BY TypesAre DEF LayoutSound
<1>2. /\ IsCanvas(u) /\ u.sv = v
      /\ u.view = s.view /\ u.layout = s.layout /\ u.pref = s.pref /\ u.vp_h = s.vp_h
      /\ u.pan = s.pan /\ u.held = s.held /\ u.landing = s.landing
      /\ u.thumb_drag_live = s.thumb_drag_live /\ u.thumb_drag_dead = s.thumb_drag_dead
      /\ u.tab = s.tab /\ u.drag = s.drag /\ u.left = s.left
  BY <1>1 DEF IsCanvas
<1> HIDE DEF u
<1>3. /\ IsCanvas(t) /\ t.came = NoPage /\ t.sent = NoPage /\ t.sv = v
      /\ t.view = s.view /\ t.layout = s.layout /\ t.pref = s.pref /\ t.vp_h = s.vp_h
      /\ t.pan = s.pan /\ t.held = s.held /\ t.landing = s.landing
      /\ t.thumb_drag_live = s.thumb_drag_live /\ t.thumb_drag_dead = s.thumb_drag_dead
      /\ t.tab = s.tab /\ t.drag = s.drag /\ t.left = s.left
  BY <1>2, MovedIs
<1> HIDE DEF t
<1>4. /\ t.thumb_drag_live \in BOOLEAN /\ (t.drag # <<>> => t.thumb_drag_live)
      /\ t.thumb_drag_live /\ ~t.thumb_drag_dead => t.drag = LayoutNow(s)
  BY <1>3, DragIs
<1> QED
  BY <1>3, <1>4, ReaderMoves DEF t, u

\* A sound strip is poised for a kick.
LEMMA SoundPoised ==
    ASSUME NEW s, LayoutSound(s), s.layout = "Strip"
    PROVE  Poised(s)
BY DEF LayoutSound, Poised, DragInStep, CarryInv

\* A kick that follows in the strip keeps the place of where it came from.
LEMMA KickKeeps ==
    ASSUME NEW s, s.layout = "Strip", NEW u, Poised(u), u.view = s.view, NEW reason,
           \E z \in Zooms : \E h : ViewOn(u.sv, z, h) /\ (reason = "Navigate" => z = ZoomPct(u)),
           reason = "Navigate" => /\ ViewOn(u.sv, ZoomPct(u), u.vp_h)
                                  /\ u.thumb_drag_live /\ ~u.thumb_drag_dead => u.drag = LayoutNow(u)
    PROVE  KeepsPlace(s, kick_render(u, reason))
<1>1. LayoutSound(kick_render(u, reason)) /\ KickedTo(u, kick_render(u, reason), reason)
  BY KickSound
<1>2. kick_render(u, reason).view = s.view
  BY <1>1 DEF KickedTo, Frame
<1> QED
  BY <1>1, <1>2 DEF KeepsPlace, Enters, Back

\* What a paged layout needs.
Paged(s) ==
    /\ LayoutTypes(s) /\ PlaceHeld(s) /\ s.layout = effective_layout(s)
    /\ s.layout # "Strip"

LEMMA PagedSound ==
    ASSUME NEW s, NEW t, Paged(t), CarryInv(t)
    PROVE  KeepsPlace(s, t)
<1>1. LayoutSound(t)
  BY DEF Paged, LayoutSound, StripBuilt, DragInStep, PageInStep
<1>2. t.layout # "Strip" /\ ~strip_active(t)
  BY DEF Paged, strip_active
<1> QED
  BY <1>1, <1>2 DEF KeepsPlace, Enters, Back

\* A kick of a paged layout, after a move that ends what is remembered.
LEMMA PagedKick ==
    ASSUME NEW s, NEW u, Paged(u), u.came = NoPage, u.sent = NoPage, NEW reason
    PROVE  KeepsPlace(s, kick_render(u, reason))
<1> DEFINE t == kick_render(u, reason)
<1>1. /\ Frame(u, t) /\ Retabbed(u, t, canon(u, CurrentPage(u)), Fitted(u))
      /\ t.sv = u.sv /\ t.thumb_drag_dead = u.thumb_drag_dead
      /\ Fitted(u) \in Zooms /\ canon(u, CurrentPage(u)) \in BookPages
  BY PagedKickIs DEF Paged
<1> HIDE DEF t
<1>2. LayoutTypes(t)
  <2>1. ViewOK(t.sv) /\ t.thumb_drag_dead \in BOOLEAN
    BY <1>1 DEF Paged, LayoutTypes
  <2> QED
    BY <1>1, <2>1, FrameTypes DEF Paged
<1>3. effective_layout(t) = effective_layout(u) /\ PlaceHeld(t)
  BY <1>1, FrameKeeps DEF Paged
<1>4. Paged(t) /\ CarryInv(t)
  BY <1>1, <1>2, <1>3 DEF Frame, Paged, CarryInv
<1> QED
  BY <1>4, PagedSound DEF t

\* The reader's moves in the strip.
LEMMA ScrollSteps ==
    ASSUME NEW s, LayoutSound(s), s.layout = "Strip", NEW dy \in Int
    PROVE  KeepsPlace(s, strip_after_change(Moved([s EXCEPT !.sv = scroll_by(@, dy)])))
<1>1. ViewOn(s.sv, ZoomPct(s), s.vp_h) /\ ZoomPct(s) \in Zooms
  BY ActiveIs
<1>2. s.sv.y \in Int /\ s.sv.y + dy \in Int
  <2>1. s.sv.y \in Int
    BY <1>1, OnIs
  <2> QED
    BY <2>1
<1>3. ViewOn(scroll_by(s.sv, dy), ZoomPct(s), s.vp_h)
  BY <1>1, <1>2, ScrollsOn DEF scroll_by
<1> QED
  BY <1>3, ViewMoves

LEMMA PinSteps ==
    ASSUME NEW s, LayoutSound(s), s.layout = "Strip", NEW y \in Int, NEW p \in BookPages
    PROVE  KeepsPlace(s, strip_after_change(Moved([s EXCEPT !.sv = pin_at(@, y, p)])))
<1>1. ViewOn(s.sv, ZoomPct(s), s.vp_h) /\ ZoomPct(s) \in Zooms
  BY ActiveIs
<1>2. ViewOn(pin_at(s.sv, y, p), ZoomPct(s), s.vp_h)
  BY <1>1, PinsAtOn
<1> QED
  BY <1>2, ViewMoves

LEMMA HitSteps ==
    ASSUME NEW s, LayoutSound(s), s.layout = "Strip", NEW hit \in Hits
    PROVE  KeepsPlace(s, strip_after_change(Moved([s EXCEPT !.sv = scroll_hit_into_view(@, hit, Margin)])))
<1>1. ViewOn(s.sv, ZoomPct(s), s.vp_h) /\ ZoomPct(s) \in Zooms
  BY ActiveIs
<1>2. ViewOn(scroll_hit_into_view(s.sv, hit, Margin), ZoomPct(s), s.vp_h)
  BY <1>1, HitOn
<1> QED
  BY <1>2, ViewMoves

\* A click on a page: the strip moves there, and the kick changes nothing more.
LEMMA NavigateSteps ==
    ASSUME NEW s, LayoutSound(s), s.layout = "Strip", NEW p \in BookPages
    PROVE  KeepsPlace(s, kick_render(strip_after_change(Moved([s EXCEPT !.sv = navigate(@, p)])), "Navigate"))
<1> DEFINE u == strip_after_change(Moved([s EXCEPT !.sv = navigate(@, p)]))
<1>1. ViewOn(s.sv, ZoomPct(s), s.vp_h) /\ ZoomPct(s) \in Zooms
  BY ActiveIs
<1>2. ViewOn(navigate(s.sv, p), ZoomPct(s), s.vp_h)
  BY <1>1, NavigatesOn
<1>3. LayoutSound(u) /\ u.view = s.view /\ u.layout = "Strip"
  BY <1>2, ViewMoves
<1> HIDE DEF u
<1>4. Poised(u) /\ ViewOn(u.sv, ZoomPct(u), u.vp_h) /\ ZoomPct(u) \in Zooms
  BY <1>3, SoundPoised, ActiveIs
<1>5. u.thumb_drag_live /\ ~u.thumb_drag_dead => u.drag = LayoutNow(u)
  BY <1>3, DragIs
<1>6. KeepsPlace(s, kick_render(u, "Navigate"))
  BY <1>3, <1>4, <1>5, KickKeeps
<1> QED
  BY <1>6 DEF u

\* The thumb of the scroll bar.
Dragging(s, t) ==
    t = [s EXCEPT !.thumb_drag_live = TRUE, !.drag = IF @ = <<>> THEN LayoutNow(s) ELSE @]

Tracked(s, t, pos) ==
    IF s.thumb_drag_dead THEN t
    ELSE strip_after_change(
             Moved([t EXCEPT !.sv = scroll_to(@, strip_scroll_from_pos(pos, s.sv.layout, s.sv.vp_h))]))

LEMMA TrackSteps ==
    ASSUME NEW s, LayoutSound(s), s.layout = "Strip", NEW pos \in {0, 9, 1000},
           NEW t, Dragging(s, t)
    PROVE  KeepsPlace(s, Tracked(s, t, pos))
<1> DEFINE y == strip_scroll_from_pos(pos, s.sv.layout, s.sv.vp_h)
           v == scroll_to(s.sv, y)
           drag == IF s.drag = <<>> THEN LayoutNow(s) ELSE s.drag
           r == [t EXCEPT !.sv = scroll_to(@, y)]
           u == Moved(r)
<1>1. IsCanvas(s) /\ LayoutTypes(s)
  BY TypesAre DEF LayoutSound
<1>2. ViewOn(s.sv, ZoomPct(s), s.vp_h) /\ ZoomPct(s) \in Zooms
      /\ s.came = NoPage /\ s.sent = NoPage
  BY ActiveIs
<1>3. y \in Int
  <2>1. LayoutOK(s.sv.layout) /\ s.sv.vp_h \in Int
    BY <1>2, OnIs DEF ViewOn
  <2>2. max_scroll(s.sv.layout, s.sv.vp_h) \in Int
    BY <2>1 DEF LayoutOK, max_scroll, total_height, Greater
  <2>3. y \in {max_scroll(s.sv.layout, s.sv.vp_h), 0, pos * Dip}
    BY DEF strip_scroll_from_pos, Lesser
  <2> HIDE DEF y
  <2>4. pos * Dip \in Int
    BY DEF Dip
  <2> QED
    BY <2>2, <2>3, <2>4
<1> HIDE DEF y
<1>4. ViewOn(v, ZoomPct(s), s.vp_h)
  BY <1>2, <1>3, ScrollsOn
<1>5. /\ s.thumb_drag_live \in BOOLEAN /\ s.thumb_drag_dead \in BOOLEAN
      /\ s.drag # <<>> => s.thumb_drag_live
      /\ s.thumb_drag_live /\ ~s.thumb_drag_dead => s.drag = LayoutNow(s)
  BY DragIs
<1>6. ~s.thumb_drag_dead => drag = LayoutNow(s)
  BY <1>5
<1>7. t = [s EXCEPT !.thumb_drag_live = TRUE, !.drag = drag]
  BY <1>1 DEF Dragging, IsCanvas
<1> HIDE DEF v, drag
<1>8. /\ IsCanvas(t) /\ t.sv = s.sv /\ t.came = s.came /\ t.sent = s.sent
      /\ t.view = s.view /\ t.layout = s.layout /\ t.pref = s.pref /\ t.vp_h = s.vp_h
      /\ t.pan = s.pan /\ t.held = s.held /\ t.landing = s.landing
      /\ t.thumb_drag_live = TRUE /\ t.thumb_drag_dead = s.thumb_drag_dead
      /\ t.tab = s.tab /\ t.drag = drag /\ t.left = s.left
  BY <1>1, <1>7 DEF IsCanvas
<1>9. /\ IsCanvas(r) /\ r.sv = v /\ r.came = s.came /\ r.sent = s.sent
      /\ r.view = s.view /\ r.layout = s.layout /\ r.pref = s.pref /\ r.vp_h = s.vp_h
      /\ r.pan = s.pan /\ r.held = s.held /\ r.landing = s.landing
      /\ r.thumb_drag_live = TRUE /\ r.thumb_drag_dead = s.thumb_drag_dead
      /\ r.tab = s.tab /\ r.drag = drag /\ r.left = s.left
  BY <1>8 DEF IsCanvas, v
<1> HIDE DEF r
<1>10. /\ IsCanvas(u) /\ u.came = NoPage /\ u.sent = NoPage /\ u.sv = v
       /\ u.view = s.view /\ u.layout = s.layout /\ u.pref = s.pref /\ u.vp_h = s.vp_h
       /\ u.pan = s.pan /\ u.held = s.held /\ u.landing = s.landing
       /\ u.thumb_drag_live = TRUE /\ u.thumb_drag_dead = s.thumb_drag_dead
       /\ u.tab = s.tab /\ u.drag = drag /\ u.left = s.left
  BY <1>9, MovedIs
<1> HIDE DEF u
<1>11. ~s.thumb_drag_dead => KeepsPlace(s, strip_after_change(u))
  <2> SUFFICES ASSUME ~s.thumb_drag_dead PROVE KeepsPlace(s, strip_after_change(u))
    OBVIOUS
  <2>1. /\ u.thumb_drag_live \in BOOLEAN /\ (u.drag # <<>> => u.thumb_drag_live)
        /\ u.thumb_drag_live /\ ~u.thumb_drag_dead => u.drag = LayoutNow(s)
    <3>1. u.thumb_drag_live = TRUE /\ u.drag = drag
      BY <1>10
    <3>2. u.thumb_drag_live \in BOOLEAN
      BY <3>1
    <3>3. u.drag # <<>> => u.thumb_drag_live
      BY <3>1
    <3>4. u.drag = LayoutNow(s)
      BY <1>6, <3>1
    <3> QED
      BY <3>2, <3>3, <3>4
  <2>2. /\ IsCanvas(u) /\ u.came = NoPage /\ u.sent = NoPage /\ u.sv = v
        /\ u.view = s.view /\ u.layout = s.layout /\ u.pref = s.pref /\ u.vp_h = s.vp_h
        /\ u.pan = s.pan /\ u.held = s.held /\ u.landing = s.landing
        /\ u.thumb_drag_dead = s.thumb_drag_dead /\ u.tab = s.tab /\ u.left = s.left
    BY <1>10
  <2> QED
    BY <1>4, <2>1, <2>2, ReaderMoves
<1>12. t.thumb_drag_live \in BOOLEAN /\ t.thumb_drag_dead \in BOOLEAN
  <2>1. t.thumb_drag_live = TRUE
    BY <1>8
  <2>2. t.thumb_drag_dead = s.thumb_drag_dead
    BY <1>8
  <2>3. s.thumb_drag_dead \in BOOLEAN
    BY DragIs
  <2> QED
    BY <2>1, <2>2, <2>3
<1>13. s.thumb_drag_dead => KeepsPlace(s, t)
  <2> SUFFICES ASSUME s.thumb_drag_dead PROVE KeepsPlace(s, t)
    OBVIOUS
  <2>1. LayoutTypes(t)
    <3>1. /\ IsCanvas(t) /\ t.sv = s.sv /\ t.view = s.view /\ t.layout = s.layout /\ t.vp_h = s.vp_h
          /\ t.pan = s.pan /\ t.held = s.held /\ t.landing = s.landing
          /\ t.tab = s.tab /\ t.left = s.left
      BY <1>8
    <3> QED
      BY <1>1, <1>12, <3>1 DEF LayoutTypes, IsCanvas
  <2>2. StripBuilt(t) /\ PageInStep(t) /\ PlaceHeld(t)
    BY <1>8 DEF LayoutSound, StripBuilt, PageInStep, PlaceHeld, ZoomPct, CurrentPage, Tab
  <2>3. DragInStep(t)
    BY <1>8 DEF DragInStep
  <2>4. CarryInv(t) /\ t.layout = effective_layout(t)
    BY <1>2, <1>8 DEF CarryInv, LayoutSound, effective_layout, Tab
  <2>5. LayoutSound(t)
    BY <2>1, <2>2, <2>3, <2>4 DEF LayoutSound
  <2> QED
    BY <1>8, <2>5 DEF KeepsPlace, Enters, Back
<1> QED
  BY <1>11, <1>13 DEF u, r, y, Tracked

\* The end of the drag.
LEMMA EndScrollSteps ==
    ASSUME NEW s, LayoutSound(s), s.layout = "Strip",
           NEW t, t = [s EXCEPT !.thumb_drag_live = FALSE, !.thumb_drag_dead = FALSE, !.drag = <<>>]
    PROVE  KeepsPlace(s, t)
<1>1. IsCanvas(s) /\ LayoutTypes(s)
  BY TypesAre DEF LayoutSound
<1>2. s.came = NoPage /\ s.sent = NoPage
  BY ActiveIs
<1>3. /\ IsCanvas(t) /\ t.sv = s.sv /\ t.came = s.came /\ t.sent = s.sent
      /\ t.view = s.view /\ t.layout = s.layout /\ t.pref = s.pref /\ t.vp_h = s.vp_h
      /\ t.pan = s.pan /\ t.held = s.held /\ t.landing = s.landing
      /\ t.thumb_drag_live = FALSE /\ t.thumb_drag_dead = FALSE
      /\ t.tab = s.tab /\ t.drag = <<>> /\ t.left = s.left
  BY <1>1 DEF IsCanvas
<1>4. LayoutTypes(t)
  BY <1>1, <1>3 DEF LayoutTypes, IsCanvas
<1>5. StripBuilt(t) /\ PageInStep(t) /\ PlaceHeld(t)
  BY <1>3 DEF LayoutSound, StripBuilt, PageInStep, PlaceHeld, ZoomPct, CurrentPage, Tab
<1>6. DragInStep(t)
  BY <1>3 DEF DragInStep
<1>7. CarryInv(t) /\ t.layout = effective_layout(t)
  BY <1>2, <1>3 DEF CarryInv, LayoutSound, effective_layout, Tab
<1>8. LayoutSound(t)
  BY <1>4, <1>5, <1>6, <1>7 DEF LayoutSound
<1> QED
  BY <1>3, <1>8 DEF KeepsPlace, Enters, Back

\* The tab on screen becomes b.
LEMMA TabSet ==
    ASSUME NEW s, LayoutTypes(s), NEW b, TabOK(b),
           NEW t, t = [s EXCEPT !.tab = [s.tab EXCEPT ![s.view] = b]]
    PROVE  /\ LayoutTypes(t) /\ Frame(s, t) /\ t.sv = s.sv /\ t.thumb_drag_dead = s.thumb_drag_dead
           /\ Tab(t) = b /\ \A d \in Docs : d # s.view => t.tab[d] = s.tab[d]
           /\ b.spread = Tab(s).spread => effective_layout(t) = effective_layout(s)
           /\ b.strip_state = Tab(s).strip_state /\ PlaceHeld(s) => PlaceHeld(t)
<1> DEFINE ts == [s.tab EXCEPT ![s.view] = b]
<1>1. IsCanvas(s) /\ DOMAIN s.tab = Docs /\ s.view \in Docs /\ Tab(s) = s.tab[s.view]
  BY TypesAre
<1>2. DOMAIN ts = Docs /\ ts[s.view] = b /\ \A d \in Docs : d # s.view => ts[d] = s.tab[d]
  BY <1>1
<1>3. t = [s EXCEPT !.tab = ts]
  OBVIOUS
<1> HIDE DEF ts
<1>4. Frame(s, t) /\ t.tab = ts /\ t.sv = s.sv /\ t.thumb_drag_dead = s.thumb_drag_dead
  BY <1>1, <1>3 DEF Frame, IsCanvas
<1>5. \A d \in Docs : TabOK(ts[d])
  BY <1>2 DEF LayoutTypes
<1>6. LayoutTypes(t)
  BY <1>2, <1>4, <1>5 DEF LayoutTypes, Frame, IsCanvas
<1>7. Tab(t) = b /\ t.view = s.view /\ t.pref = s.pref /\ t.left = s.left
  BY <1>2, <1>4 DEF Tab, Frame
<1>8. b.spread = Tab(s).spread => effective_layout(t) = effective_layout(s)
  BY <1>7 DEF effective_layout
<1>9. b.strip_state = Tab(s).strip_state => \A d \in Docs : t.tab[d].strip_state = s.tab[d].strip_state
  BY <1>1, <1>2, <1>4
<1>10. b.strip_state = Tab(s).strip_state /\ PlaceHeld(s) => PlaceHeld(t)
  BY <1>7, <1>9 DEF PlaceHeld
<1> QED
  BY <1>2, <1>4, <1>6, <1>7, <1>8, <1>10

\* What is poised, or paged, stays so in a kick's frame.
LEMMA FramePoised ==
    ASSUME NEW s, Poised(s), NEW t, Frame(s, t), NEW p \in BookPages, NEW z \in Zooms,
           Retabbed(s, t, p, z), ViewOK(t.sv), t.thumb_drag_dead \in BOOLEAN
    PROVE  Poised(t) /\ ZoomPct(t) = z /\ CurrentPage(t) = p
<1>1. LayoutTypes(t) /\ ZoomPct(t) = z /\ CurrentPage(t) = p
  BY FrameTypes DEF Poised
<1>2. effective_layout(t) = effective_layout(s) /\ PlaceHeld(t)
  BY FrameKeeps DEF Poised
<1> QED
  BY <1>1, <1>2 DEF Poised, Frame

LEMMA FramePaged ==
    ASSUME NEW s, Paged(s), NEW t, Frame(s, t), NEW p \in BookPages, NEW z \in Zooms,
           Retabbed(s, t, p, z), ViewOK(t.sv), t.thumb_drag_dead \in BOOLEAN
    PROVE  Paged(t) /\ ZoomPct(t) = z /\ CurrentPage(t) = p
<1>1. LayoutTypes(t) /\ ZoomPct(t) = z /\ CurrentPage(t) = p
  BY FrameTypes DEF Paged
<1>2. effective_layout(t) = effective_layout(s) /\ PlaceHeld(t)
  BY FrameKeeps DEF Paged
<1> QED
  BY <1>1, <1>2 DEF Paged, Frame

\* Neither the pan nor what is to land makes a paged layout another.
SamePaged(s, t) ==
    /\ IsCanvas(t) /\ t.view = s.view /\ t.layout = s.layout /\ t.pref = s.pref /\ t.sv = s.sv
    /\ t.thumb_drag_live = s.thumb_drag_live /\ t.thumb_drag_dead = s.thumb_drag_dead
    /\ t.tab = s.tab /\ t.left = s.left

LEMMA StillPaged ==
    ASSUME NEW s, Paged(s), NEW t, SamePaged(s, t),
           t.vp_h \in Nat \ {0}, t.pan \in Int, t.held \in BookPages \cup {NoPage}, AnchorOK(t.landing)
    PROVE  Paged(t) /\ ZoomPct(t) = ZoomPct(s) /\ CurrentPage(t) = CurrentPage(s)
<1>1. LayoutTypes(t)
  BY DEF SamePaged, Paged, LayoutTypes, IsCanvas
<1>2. effective_layout(t) = effective_layout(s) /\ PlaceHeld(t)
  BY DEF SamePaged, Paged, effective_layout, Tab, PlaceHeld
<1> QED
  BY <1>1, <1>2 DEF SamePaged, Paged, ZoomPct, CurrentPage, Tab

LEMMA SoundPaged ==
    ASSUME NEW s, LayoutSound(s), s.layout # "Strip"
    PROVE  Paged(s) /\ CarryInv(s) /\ IsCanvas(s)
BY TypesAre DEF LayoutSound, Paged

\* A move of the reader in a paged layout.
LEMMA MovedPaged ==
    ASSUME NEW s, Paged(s)
    PROVE  Paged(Moved(s)) /\ SamePaged(s, Moved(s)) /\ Moved(s).came = NoPage /\ Moved(s).sent = NoPage
           /\ Moved(s).pan = s.pan /\ Moved(s).held = s.held /\ Moved(s).landing = s.landing
           /\ Moved(s).vp_h = s.vp_h
<1>1. IsCanvas(s)
  BY TypesAre DEF Paged
<1>2. SamePaged(s, Moved(s)) /\ Moved(s).came = NoPage /\ Moved(s).sent = NoPage
      /\ Moved(s).pan = s.pan /\ Moved(s).held = s.held /\ Moved(s).landing = s.landing
      /\ Moved(s).vp_h = s.vp_h
  BY <1>1, MovedIs DEF SamePaged
<1>3. Paged(Moved(s))
  BY <1>2, StillPaged DEF Paged, LayoutTypes
<1> QED
  BY <1>2, <1>3

\* Another zoom, of the reader or of the fit.
LEMMA ZoomSteps ==
    ASSUME NEW s, LayoutSound(s), NEW z \in Zooms, NEW b, IsTab(b),
           b.zoom = z, b.page = Tab(s).page, b.spread = Tab(s).spread, b.pan = Tab(s).pan,
           b.strip_state = Tab(s).strip_state,
           NEW r, r = [s EXCEPT !.tab = [s.tab EXCEPT ![s.view] = b]]
    PROVE  KeepsPlace(s, kick_render(Moved(r), "Zoom"))
<1> DEFINE u == Moved(r)
<1>1. LayoutTypes(s) /\ PlaceHeld(s) /\ s.layout = effective_layout(s)
  BY DEF LayoutSound
<1>2. TabOK(b)
  BY <1>1, TypesAre DEF TabOK, IsTab
<1>3. /\ LayoutTypes(r) /\ Frame(s, r) /\ r.sv = s.sv /\ r.thumb_drag_dead = s.thumb_drag_dead
      /\ effective_layout(r) = effective_layout(s) /\ PlaceHeld(r)
  BY <1>1, <1>2, TabSet
<1>4. r.layout = s.layout /\ r.view = s.view /\ IsCanvas(r) /\ r.drag = s.drag
      /\ r.thumb_drag_live = s.thumb_drag_live
  BY <1>3 DEF Frame
<1>5. CASE s.layout = "Strip"
  <2>1. ViewOn(s.sv, ZoomPct(s), s.vp_h) /\ ZoomPct(s) \in Zooms
    BY <1>5, ActiveIs
  <2>2. /\ IsCanvas(u) /\ u.came = NoPage /\ u.sent = NoPage /\ u.sv = s.sv
        /\ u.view = r.view /\ u.layout = r.layout /\ u.pref = r.pref /\ u.vp_h = r.vp_h
        /\ u.pan = r.pan /\ u.held = r.held /\ u.landing = r.landing
        /\ u.thumb_drag_live = r.thumb_drag_live /\ u.thumb_drag_dead = r.thumb_drag_dead
        /\ u.tab = r.tab /\ u.drag = r.drag /\ u.left = r.left
    <3>1. r.sv = s.sv
      BY <1>3
    <3> QED
      <4>1. /\ IsCanvas(u) /\ u.came = NoPage /\ u.sent = NoPage /\ u.sv = r.sv
            /\ u.view = r.view /\ u.layout = r.layout /\ u.pref = r.pref /\ u.vp_h = r.vp_h
            /\ u.pan = r.pan /\ u.held = r.held /\ u.landing = r.landing
            /\ u.thumb_drag_live = r.thumb_drag_live /\ u.thumb_drag_dead = r.thumb_drag_dead
            /\ u.tab = r.tab /\ u.drag = r.drag /\ u.left = r.left
        BY <1>4, MovedIs
      <4> QED
        BY <3>1, <4>1
  <2> HIDE DEF u
  <2>3. LayoutTypes(u)
    BY <1>3, <2>2 DEF LayoutTypes, IsCanvas
  <2>4. PlaceHeld(u) /\ effective_layout(u) = effective_layout(r)
    BY <1>3, <2>2 DEF PlaceHeld, effective_layout, Tab
  <2>5. s.drag # <<>> => s.thumb_drag_live
    BY <1>5, DragIs
  <2>6. Poised(u)
    BY <1>1, <1>3, <1>4, <1>5, <2>2, <2>3, <2>4, <2>5 DEF Poised
  <2>7. u.view = s.view
    BY <1>4, <2>2
  <2>8. KeepsPlace(s, kick_render(u, "Zoom"))
    BY <1>5, <2>1, <2>2, <2>6, <2>7, KickKeeps
  <2> QED
    BY <2>8 DEF u
<1>6. CASE s.layout # "Strip"
  <2>1. Paged(r)
    BY <1>1, <1>3, <1>4, <1>6 DEF Paged
  <2> QED
    BY <2>1, MovedPaged, PagedKick
<1> QED
  BY <1>5, <1>6

LEMMA ZoomIs ==
    ASSUME NEW s, LayoutSound(s), NEW z \in Zooms
    PROVE  /\ KeepsPlace(s, kick_render(Moved([s EXCEPT !.tab[s.view].zoom = z,
                                                        !.tab[s.view].fit = FALSE]), "Zoom"))
           /\ KeepsPlace(s, kick_render(Moved([s EXCEPT !.tab[s.view].fit = TRUE,
                                                        !.tab[s.view].zoom = z]), "Zoom"))
<1> DEFINE a == [s.tab[s.view] EXCEPT !.zoom = z, !.fit = FALSE]
           b == [s.tab[s.view] EXCEPT !.fit = TRUE, !.zoom = z]
           q == [s EXCEPT !.tab[s.view].zoom = z, !.tab[s.view].fit = FALSE]
           r == [s EXCEPT !.tab[s.view].fit = TRUE, !.tab[s.view].zoom = z]
<1>1. IsCanvas(s) /\ IsTab(s.tab[s.view]) /\ Tab(s) = s.tab[s.view] /\ s.view \in DOMAIN s.tab
  BY TypesAre DEF LayoutSound
<1>2. /\ IsTab(a) /\ a.zoom = z /\ a.page = Tab(s).page /\ a.spread = Tab(s).spread
      /\ a.pan = Tab(s).pan /\ a.strip_state = Tab(s).strip_state
  BY <1>1 DEF IsTab
<1>3. /\ IsTab(b) /\ b.zoom = z /\ b.page = Tab(s).page /\ b.spread = Tab(s).spread
      /\ b.pan = Tab(s).pan /\ b.strip_state = Tab(s).strip_state
  BY <1>1 DEF IsTab
<1>4. q = [s EXCEPT !.tab = [s.tab EXCEPT ![s.view] = a]]
  BY <1>1 DEF IsCanvas
<1>5. r = [s EXCEPT !.tab = [s.tab EXCEPT ![s.view] = b]]
  BY <1>1 DEF IsCanvas
<1> HIDE DEF a, b, q, r
<1>6. KeepsPlace(s, kick_render(Moved(q), "Zoom"))
  BY <1>2, <1>4, ZoomSteps
<1>7. KeepsPlace(s, kick_render(Moved(r), "Zoom"))
  BY <1>3, <1>5, ZoomSteps
<1> QED
  BY <1>6, <1>7 DEF q, r

\* A window of another height.
LEMMA ResizeSteps ==
    ASSUME NEW s, LayoutSound(s), NEW h \in Heights
    PROVE  KeepsPlace(s, kick_render(on_size(Moved([s EXCEPT !.vp_h = h])), "Layout"))
<1> DEFINE r == [s EXCEPT !.vp_h = h]
           u == Moved(r)
<1>1. IsCanvas(s) /\ h \in Nat \ {0}
  BY TypesAre, LayoutConstants DEF LayoutSound
<1>2. /\ IsCanvas(r) /\ r.vp_h = h /\ r.came = s.came /\ r.sent = s.sent /\ r.sv = s.sv
      /\ r.view = s.view /\ r.layout = s.layout /\ r.pref = s.pref
      /\ r.pan = s.pan /\ r.held = s.held /\ r.landing = s.landing
      /\ r.thumb_drag_live = s.thumb_drag_live /\ r.thumb_drag_dead = s.thumb_drag_dead
      /\ r.tab = s.tab /\ r.drag = s.drag /\ r.left = s.left
  BY <1>1 DEF IsCanvas
<1> HIDE DEF r
<1>3. /\ IsCanvas(u) /\ u.vp_h = h /\ u.came = NoPage /\ u.sent = NoPage /\ u.sv = s.sv
      /\ u.view = s.view /\ u.layout = s.layout /\ u.pref = s.pref
      /\ u.pan = s.pan /\ u.held = s.held /\ u.landing = s.landing
      /\ u.thumb_drag_live = s.thumb_drag_live /\ u.thumb_drag_dead = s.thumb_drag_dead
      /\ u.tab = s.tab /\ u.drag = s.drag /\ u.left = s.left
  BY <1>2, MovedIs
<1> HIDE DEF u
<1>4. CASE s.layout = "Strip"
  <2> DEFINE z == ZoomPct(s)
             v == set_viewport(s.sv, h)
             w == [u EXCEPT !.sv = v]
             x == strip_after_change(w)
             t == strip_end_thumb_drag(x)
  <2>1. on_size(u) = t
    <3>1. u.layout = "Strip" /\ u.sv = s.sv /\ u.vp_h = h
      BY <1>3, <1>4
    <3> QED
      BY <3>1 DEF on_size
  <2>2. ViewOn(s.sv, z, s.vp_h) /\ z \in Zooms
    BY <1>4, ActiveIs
  <2>3. ViewOn(v, z, h) /\ ViewOK(v)
    <3>1. ViewOn(v, z, h)
      BY <1>1, <2>2, ResizesOn
    <3> QED
      BY <3>1 DEF ViewOn
  <2> HIDE DEF v, z
  <2>4. /\ IsCanvas(w) /\ w.vp_h = h /\ w.came = NoPage /\ w.sent = NoPage /\ w.sv = v
        /\ w.view = s.view /\ w.layout = s.layout /\ w.pref = s.pref
        /\ w.pan = s.pan /\ w.held = s.held /\ w.landing = s.landing
        /\ w.thumb_drag_live = s.thumb_drag_live /\ w.thumb_drag_dead = s.thumb_drag_dead
        /\ w.tab = s.tab /\ w.drag = s.drag /\ w.left = s.left
    BY <1>3 DEF IsCanvas
  <2> HIDE DEF w
  <2>5. Poised(w) /\ ZoomPct(w) = z
    <3>1. /\ w.thumb_drag_live \in BOOLEAN /\ (w.drag # <<>> => w.thumb_drag_live)
      BY <1>4, <2>4, DragIs
    <3> QED
      BY <1>1, <1>4, <2>3, <2>4, <3>1, StillPoised DEF z
  <2>6. /\ Frame(w, x) /\ Retabbed(w, x, x.sv.current, z)
        /\ x.sv = recompute_current(v) /\ x.thumb_drag_dead = w.thumb_drag_dead
        /\ x.sv.current \in BookPages
    BY <2>2, <2>3, <2>4, <2>5, ChangedIs DEF Poised
  <2>7. ViewOn(x.sv, z, h) /\ ViewOK(x.sv)
    <3>1. ViewOn(x.sv, z, h)
      BY <2>2, <2>3, <2>6, CurrentOn
    <3> QED
      BY <3>1 DEF ViewOn
  <2> HIDE DEF x
  <2>8. Poised(x) /\ ZoomPct(x) = z
    <3>1. x.thumb_drag_dead \in BOOLEAN
      BY <2>5, <2>6 DEF Poised, LayoutTypes
    <3> QED
      BY <2>2, <2>5, <2>6, <2>7, <3>1, FramePoised
  <2>9. /\ Frame(x, t) /\ t.sv = x.sv /\ t.thumb_drag_dead = (x.thumb_drag_dead \/ x.thumb_drag_live)
        /\ Retabbed(x, t, CurrentPage(x), z)
    BY <2>8, DragEnds DEF Poised
  <2> HIDE DEF t
  <2>10. Poised(t)
    <3>1. t.thumb_drag_dead \in BOOLEAN
      BY <2>8, <2>9 DEF Poised, LayoutTypes
    <3>2. CurrentPage(x) \in BookPages
      BY <2>8, TypesAre DEF Poised
    <3> QED
      BY <2>2, <2>7, <2>8, <2>9, <3>1, <3>2, FramePoised
  <2>11. t.view = s.view
    BY <2>4, <2>6, <2>9 DEF Frame
  <2>12. KeepsPlace(s, kick_render(t, "Layout"))
    <3>1. ViewOn(t.sv, z, h)
      BY <2>7, <2>9
    <3> QED
      BY <1>4, <2>2, <2>10, <2>11, <3>1, KickKeeps
  <2> QED
    BY <2>1, <2>12 DEF t, u, r
<1>5. CASE s.layout # "Strip"
  <2>1. on_size(u) = u
    BY <1>3, <1>5 DEF on_size
  <2>2. Paged(s)
    BY <1>5, SoundPaged
  <2>3. SamePaged(s, u)
    BY <1>3 DEF SamePaged
  <2>4. Paged(u)
    BY <1>1, <1>3, <2>2, <2>3, StillPaged DEF Paged, LayoutTypes
  <2>5. KeepsPlace(s, kick_render(u, "Layout"))
    BY <1>3, <2>4, PagedKick
  <2> QED
    BY <2>1, <2>5 DEF u, r
<1> QED
  BY <1>4, <1>5

\* The heights of pages and pairs are numbers.
LEMMA HeightsAre ==
    ASSUME NEW s, ZoomPct(s) \in Zooms, NEW p \in BookPages \cup {NoPage}
    PROVE  /\ HeightOf(s, p) \in Nat
           /\ p # NoPage => PageH[p] \in Nat \ {0} /\ HeightOf(s, p) = PageH[p] * ZoomPct(s)
<1>1. ZoomPct(s) \in Nat
  BY LayoutConstants
<1>2. p # NoPage => PageH[p] \in Nat \ {0}
  BY PagesAre
<1>3. p # NoPage => PageH[p] * ZoomPct(s) \in Nat
  BY <1>1, <1>2
<1> QED
  BY <1>2, <1>3 DEF HeightOf

LEMMA VerticalIs ==
    ASSUME NEW s, ZoomPct(s) \in Zooms, s.vp_h \in Nat \ {0}, NEW left \in BookPages
    PROVE  LET at == spread_vertical_for(s, left)
           IN at.union_h \in Int /\ at.left_top \in Nat /\ at.right_top \in Nat
<1> DEFINE right == dual_page_compute_right(left)
           b == IF right = NoPage THEN -1 ELSE HeightOf(s, right)
<1>1. right = NoPage \/ right \in BookPages
  <2>1. PageH \in [0..(Total - 1) -> Nat \ {0}] /\ Total \in Nat
    BY LayoutConstants DEF Total
  <2>2. BookPages = 0..(Total - 1)
    BY <2>1 DEF BookPages
  <2> QED
    BY <2>1, <2>2 DEF dual_page_compute_right
<1> HIDE DEF right
<1>2. b \in Int /\ HeightOf(s, left) \in Nat
  BY <1>1, HeightsAre
<1>3. spread_vertical_for(s, left) = spread_vertical(HeightOf(s, left), b, s.vp_h)
  BY DEF spread_vertical_for, right
<1> HIDE DEF b
<1> QED
  BY <1>2, <1>3, PairPlaced

LEMMA ContentIs ==
    ASSUME NEW s, LayoutTypes(s)
    PROVE  Content(s) \in Int
<1>1. CurrentPage(s) \in BookPages /\ ZoomPct(s) \in Zooms /\ s.vp_h \in Nat \ {0}
  BY TypesAre
<1>2. canon(s, CurrentPage(s)) \in BookPages
  BY <1>1, CanonIs
<1>3. HeightOf(s, CurrentPage(s)) \in Int
  BY <1>1, HeightsAre
<1>4. spread_vertical_for(s, canon(s, CurrentPage(s))).union_h \in Int
  BY <1>1, <1>2, VerticalIs
<1> QED
  BY <1>3, <1>4 DEF Content

\* The reader pans a paged layout.
LEMMA PanSteps ==
    ASSUME NEW s, LayoutSound(s), s.layout # "Strip", NEW dy \in Int
    PROVE  KeepsPlace(s, Moved([s EXCEPT !.pan = clamp_paged(@ - dy, Content(s), s.vp_h)]))
<1> DEFINE y == clamp_paged(s.pan - dy, Content(s), s.vp_h)
           r == [s EXCEPT !.pan = y]
<1>1. Paged(s) /\ IsCanvas(s) /\ LayoutTypes(s)
  BY SoundPaged DEF LayoutSound
<1>2. y \in Int
  <2>1. Content(s) \in Int /\ s.pan - dy \in Int /\ s.vp_h \in Int
    BY <1>1, ContentIs DEF LayoutTypes
  <2> QED
    BY <2>1 DEF clamp_paged, Clamped, Greater, Lesser
<1> HIDE DEF y
<1>3. SamePaged(s, r) /\ r.pan = y /\ r.vp_h = s.vp_h /\ r.held = s.held /\ r.landing = s.landing
  BY <1>1 DEF SamePaged, IsCanvas
<1> HIDE DEF r
<1>4. Paged(r)
  BY <1>1, <1>2, <1>3, StillPaged DEF LayoutTypes
<1>5. Paged(Moved(r)) /\ CarryInv(Moved(r))
  BY <1>4, MovedPaged DEF CarryInv
<1> QED
  BY <1>5, PagedSound DEF r, y

\* A paged canvas that is put on page p, whatever is to land.
LEMMA SetPaged ==
    ASSUME NEW s, Paged(s), NEW p \in BookPages
    PROVE  LET t == SetPage(s, p)
           IN /\ Paged(t) /\ CurrentPage(t) = p /\ ZoomPct(t) = ZoomPct(s) /\ Frame(s, t)
<1> DEFINE t == SetPage(s, p)
<1>1. /\ Frame(s, t) /\ Retabbed(s, t, p, ZoomPct(s))
      /\ t.sv = s.sv /\ t.thumb_drag_dead = s.thumb_drag_dead
  BY SetPageIs DEF Paged
<1>2. ZoomPct(s) \in Zooms /\ ViewOK(s.sv) /\ s.thumb_drag_dead \in BOOLEAN
  BY TypesAre DEF Paged, LayoutTypes
<1> HIDE DEF t
<1>3. Paged(t) /\ ZoomPct(t) = ZoomPct(s) /\ CurrentPage(t) = p
  BY <1>1, <1>2, FramePaged
<1> QED
  BY <1>1, <1>3 DEF t

\* A click on a page, in a paged layout.
LEMMA TurnSteps ==
    ASSUME NEW s, LayoutSound(s), s.layout # "Strip", NEW p \in BookPages, NEW moves \in BOOLEAN
    PROVE  KeepsPlace(s, kick_render(
               SetPage([Moved(s) EXCEPT !.landing = IF moves THEN TopAnchor ELSE @,
                                        !.held = IF moves THEN NoPage ELSE @], p), "Navigate"))
<1> DEFINE m == Moved(s)
           land == IF moves THEN TopAnchor ELSE m.landing
           keep == IF moves THEN NoPage ELSE m.held
           r == [m EXCEPT !.landing = land, !.held = keep]
           t == SetPage(r, p)
<1>1. Paged(m) /\ m.came = NoPage /\ m.sent = NoPage
  BY SoundPaged, MovedPaged
<1>2. IsCanvas(m) /\ m.held \in BookPages \cup {NoPage} /\ AnchorOK(m.landing)
      /\ m.vp_h \in Nat \ {0} /\ m.pan \in Int
  BY <1>1, TypesAre DEF Paged, LayoutTypes
<1> HIDE DEF m
<1>3. AnchorOK(land) /\ keep \in BookPages \cup {NoPage}
  BY <1>2 DEF AnchorOK
<1> HIDE DEF land, keep
<1>4. SamePaged(m, r) /\ r.pan = m.pan /\ r.vp_h = m.vp_h /\ r.held = keep /\ r.landing = land
      /\ r.came = m.came /\ r.sent = m.sent
  BY <1>2 DEF SamePaged, IsCanvas
<1> HIDE DEF r
<1>5. Paged(r)
  BY <1>1, <1>2, <1>3, <1>4, StillPaged
<1>6. Paged(t) /\ t.came = NoPage /\ t.sent = NoPage
  BY <1>1, <1>4, <1>5, SetPaged DEF Frame
<1>7. KeepsPlace(s, kick_render(t, "Navigate"))
  BY <1>6, PagedKick
<1> QED
  BY <1>7 DEF t, r, land, keep, m

\* Canvases at one zoom in one window measure the same.
LEMMA SameSize ==
    ASSUME NEW s, NEW t, ZoomPct(t) = ZoomPct(s), t.vp_h = s.vp_h
    PROVE  /\ \A p : HeightOf(t, p) = HeightOf(s, p)
           /\ \A left : spread_vertical_for(t, left) = spread_vertical_for(s, left)
<1>1. \A p : HeightOf(t, p) = HeightOf(s, p)
  BY DEF HeightOf
<1>2. ASSUME NEW left PROVE spread_vertical_for(t, left) = spread_vertical_for(s, left)
  <2> DEFINE right == dual_page_compute_right(left)
  <2>1. /\ spread_vertical_for(s, left)
              = spread_vertical(HeightOf(s, left), IF right = NoPage THEN -1 ELSE HeightOf(s, right), s.vp_h)
        /\ spread_vertical_for(t, left)
              = spread_vertical(HeightOf(t, left), IF right = NoPage THEN -1 ELSE HeightOf(t, right), t.vp_h)
    BY Zenon DEF spread_vertical_for
  <2>2. HeightOf(t, left) = HeightOf(s, left) /\ HeightOf(t, right) = HeightOf(s, right)
    BY <1>1
  <2> HIDE DEF right
  <2> QED
    BY <2>1, <2>2
<1> QED
  BY <1>1, <1>2

\* The top of a page of the pair.
LEMMA PageTopIs ==
    ASSUME NEW s, ZoomPct(s) \in Zooms, s.vp_h \in Nat \ {0}, NEW left \in BookPages, NEW p
    PROVE  spread_page_top(spread_vertical_for(s, left), p, left) \in Nat
BY VerticalIs DEF spread_page_top

\* A hit's place in the window: its page's bottom is not above it.
LEMMA HitPanIs ==
    ASSUME NEW s, LayoutTypes(s), NEW hit \in Hits
    PROVE  /\ pan_y_for_hit(s, hit) \in Int
           /\ s.layout = "Spread" =>
                LET left == canon(s, hit.page)
                IN -pan_y_for_hit(s, hit) <= spread_page_top(spread_vertical_for(s, left), hit.page, left)
                                             + HeightOf(s, hit.page)
<1> DEFINE z == ZoomPct(s)
           left == canon(s, hit.page)
           page_top == IF s.layout = "Spread"
                       THEN spread_page_top(spread_vertical_for(s, left), hit.page, left)
                       ELSE Centred(HeightOf(s, hit.page), s.vp_h)
           a == hit.from * z
           b == hit.to * z
           h == HeightOf(s, hit.page)
           half == ((hit.to - hit.from) * z) \div 2
           x == s.vp_h \div 2 - (page_top + a) - half
<1>1. z \in Zooms /\ z \in Nat \ {0} /\ s.vp_h \in Nat \ {0}
  BY TypesAre, LayoutConstants
<1>2. /\ hit.page \in BookPages /\ hit.from \in Nat /\ hit.to \in Nat
      /\ hit.from <= hit.to /\ hit.to <= PageH[hit.page]
  BY LayoutConstants DEF BookPages
<1>3. left \in BookPages
  BY <1>2, CanonIs
<1>4. h \in Nat /\ h = PageH[hit.page] * z /\ PageH[hit.page] \in Nat
  <2>1. hit.page # NoPage
    BY <1>2, PagesAre DEF NoPage
  <2> QED
    BY <1>1, <1>2, <2>1, HeightsAre
<1>5. page_top \in Nat
  <2>1. spread_page_top(spread_vertical_for(s, left), hit.page, left) \in Nat
    BY <1>1, <1>3, PageTopIs
  <2>2. Centred(HeightOf(s, hit.page), s.vp_h) \in Nat
    BY <1>1, <1>4 DEF Centred
  <2> QED
    BY <2>1, <2>2
<1>6. pan_y_for_hit(s, hit) = clamp_paged(x, Content(s), s.vp_h)
  BY DEF pan_y_for_hit, QuadTop
<1> HIDE DEF z, left, page_top, h
<1>7. a \in Nat /\ b \in Nat /\ a <= b /\ b <= h
  <2>1. a \in Nat /\ b \in Nat /\ a <= b
    BY <1>1, <1>2, ProductOrder
  <2>2. b <= h
    BY <1>1, <1>2, <1>4, ProductOrder
  <2> QED
    BY <2>1, <2>2
<1>8. half \in Nat /\ half <= b - a
  <2>1. (hit.to - hit.from) * z = b - a
    BY <1>1, <1>2
  <2> HIDE DEF a, b
  <2>2. (b - a) \div 2 \in Nat /\ (b - a) \div 2 <= b - a
    BY <1>7
  <2> QED
    BY <2>1, <2>2
<1> HIDE DEF a, b, half
<1>9. x \in Int /\ -x <= page_top + h /\ page_top + h \in Nat
  <2>1. s.vp_h \div 2 \in Nat
    BY <1>1
  <2> QED
    BY <2>1, <1>4, <1>5, <1>7, <1>8
<1> HIDE DEF x
<1>10. Content(s) \in Int /\ s.vp_h \in Int
  BY <1>1, ContentIs
<1>11. pan_y_for_hit(s, hit) \in Int /\ -pan_y_for_hit(s, hit) <= page_top + h
  BY <1>6, <1>9, <1>10, PanClamped
<1> QED
  BY <1>11 DEF page_top, left, h

\* A hit is sent for, and its page kicked.
LEMMA SentSteps ==
    ASSUME NEW s, NEW u, Paged(u), NEW hit \in Hits, u.came = NoPage, u.sent = hit.page,
           u.landing = HitAnchor(hit), CurrentPage(u) = canon(u, hit.page),
           u.layout = "Spread" => u.held = hit.page
    PROVE  KeepsPlace(s, kick_render(u, "Navigate"))
<1> DEFINE t == kick_render(u, "Navigate")
<1>1. hit.page \in BookPages
  BY LayoutConstants DEF BookPages
<1>2. /\ Frame(u, t) /\ Retabbed(u, t, canon(u, CurrentPage(u)), Fitted(u))
      /\ t.sv = u.sv /\ t.thumb_drag_dead = u.thumb_drag_dead
      /\ Fitted(u) \in Zooms /\ canon(u, CurrentPage(u)) \in BookPages
  BY PagedKickIs DEF Paged
<1>3. canon(u, CurrentPage(u)) = canon(u, hit.page)
  BY <1>1, CanonIs
<1> HIDE DEF t
<1>4. ViewOK(t.sv) /\ t.thumb_drag_dead \in BOOLEAN
  BY <1>2 DEF Paged, LayoutTypes
<1>5. Paged(t) /\ CurrentPage(t) = canon(u, hit.page)
  BY <1>2, <1>3, <1>4, FramePaged
<1>6. t.layout = u.layout /\ t.came = NoPage /\ t.sent = hit.page /\ t.landing = HitAnchor(hit)
      /\ t.held = u.held
  BY <1>2 DEF Frame
<1>7. canon(t, hit.page) = canon(u, hit.page)
  BY <1>6 DEF canon
<1>8. CarryInv(t)
  BY <1>5, <1>6, <1>7 DEF CarryInv, SentThere, Paged
<1> QED
  BY <1>5, <1>8, PagedSound DEF t

LEMMA FindSteps ==
    ASSUME NEW s, LayoutSound(s), s.layout # "Strip", NEW hit \in Hits,
           NEW m, m = Moved(SetPage(s, canon(s, hit.page))),
           NEW u, u = [m EXCEPT !.landing = HitAnchor(hit), !.sent = hit.page,
                                !.held = IF s.layout = "Spread" THEN hit.page ELSE NoPage]
    PROVE  /\ KeepsPlace(s, kick_render(m, "Navigate"))
           /\ KeepsPlace(s, kick_render(u, "Navigate"))
           /\ KeepsPlace(s, kick_render([u EXCEPT !.pan = pan_y_for_hit(m, hit)], "Navigate"))
<1> DEFINE r == SetPage(s, canon(s, hit.page))
           y == pan_y_for_hit(m, hit)
           w == [u EXCEPT !.pan = y]
           keep == IF s.layout = "Spread" THEN hit.page ELSE NoPage
<1>1. hit.page \in BookPages /\ canon(s, hit.page) \in BookPages
  <2>1. hit.page \in BookPages
    BY LayoutConstants DEF BookPages
  <2> QED
    BY <2>1, CanonIs
<1>2. Paged(r) /\ CurrentPage(r) = canon(s, hit.page) /\ Frame(s, r)
  BY <1>1, SoundPaged, SetPaged
<1> HIDE DEF r
<1>3. /\ Paged(m) /\ SamePaged(r, m) /\ m.came = NoPage /\ m.sent = NoPage
      /\ m.pan = r.pan /\ m.held = r.held /\ m.landing = r.landing /\ m.vp_h = r.vp_h
  <2>1. m = Moved(r)
    BY DEF r
  <2> QED
    BY <1>2, <2>1, MovedPaged
<1>4. m.layout = s.layout /\ CurrentPage(m) = canon(s, hit.page) /\ IsCanvas(m)
      /\ m.pan \in Int /\ m.vp_h \in Nat \ {0} /\ LayoutTypes(m)
  <2>1. IsCanvas(m) /\ m.pan \in Int /\ m.vp_h \in Nat \ {0} /\ LayoutTypes(m)
    BY <1>3, TypesAre DEF Paged
  <2> QED
    BY <2>1, <1>2, <1>3 DEF SamePaged, Frame, CurrentPage, Tab
<1>5. y \in Int
  BY <1>4, HitPanIs
<1>6. keep \in BookPages \cup {NoPage} /\ (s.layout = "Spread" => keep = hit.page)
  BY <1>1
<1>7. u = [m EXCEPT !.landing = HitAnchor(hit), !.sent = hit.page, !.held = keep]
  OBVIOUS
<1> HIDE DEF keep, y
<1>8. /\ SamePaged(m, u) /\ u.pan = m.pan /\ u.vp_h = m.vp_h /\ u.held = keep
      /\ u.landing = HitAnchor(hit) /\ u.came = NoPage /\ u.sent = hit.page
  <2>1. IsCanvas(m) /\ m.came = NoPage
    BY <1>3, <1>4
  <2> QED
    BY <1>7, <2>1 DEF SamePaged, IsCanvas
<1>9. /\ SamePaged(m, w) /\ w.pan = y /\ w.vp_h = m.vp_h /\ w.held = keep
      /\ w.landing = HitAnchor(hit) /\ w.came = NoPage /\ w.sent = hit.page
  BY <1>8 DEF SamePaged, IsCanvas
<1> HIDE DEF w
<1>10. AnchorOK(HitAnchor(hit))
  BY DEF AnchorOK
<1>11. Paged(u) /\ CurrentPage(u) = canon(s, hit.page)
  <2>1. u.vp_h \in Nat \ {0} /\ u.pan \in Int /\ u.held \in BookPages \cup {NoPage} /\ AnchorOK(u.landing)
    BY <1>4, <1>6, <1>8, <1>10
  <2>2. Paged(m) /\ SamePaged(m, u) /\ CurrentPage(m) = canon(s, hit.page)
    BY <1>3, <1>4, <1>8
  <2> QED
    BY <2>1, <2>2, StillPaged
<1>12. Paged(w) /\ CurrentPage(w) = canon(s, hit.page)
  <2>1. w.vp_h \in Nat \ {0} /\ w.pan \in Int /\ w.held \in BookPages \cup {NoPage} /\ AnchorOK(w.landing)
    BY <1>4, <1>5, <1>6, <1>9, <1>10
  <2>2. Paged(m) /\ SamePaged(m, w) /\ CurrentPage(m) = canon(s, hit.page)
    BY <1>3, <1>4, <1>9
  <2> QED
    BY <2>1, <2>2, StillPaged
<1>13. u.layout = s.layout /\ w.layout = s.layout
       /\ canon(u, hit.page) = canon(s, hit.page) /\ canon(w, hit.page) = canon(s, hit.page)
  <2>1. u.layout = s.layout /\ w.layout = s.layout
    BY <1>4, <1>8, <1>9 DEF SamePaged
  <2> QED
    BY <2>1 DEF canon
<1>14. KeepsPlace(s, kick_render(u, "Navigate"))
  <2>1. /\ Paged(u) /\ u.came = NoPage /\ u.sent = hit.page /\ u.landing = HitAnchor(hit)
        /\ CurrentPage(u) = canon(u, hit.page)
    BY <1>8, <1>11, <1>13
  <2>2. u.layout = "Spread" => u.held = hit.page
    BY <1>6, <1>8, <1>13
  <2> QED
    BY <2>1, <2>2, SentSteps
<1>15. KeepsPlace(s, kick_render(w, "Navigate"))
  <2>1. /\ Paged(w) /\ w.came = NoPage /\ w.sent = hit.page /\ w.landing = HitAnchor(hit)
        /\ CurrentPage(w) = canon(w, hit.page)
    BY <1>9, <1>12, <1>13
  <2>2. w.layout = "Spread" => w.held = hit.page
    BY <1>6, <1>9, <1>13
  <2> QED
    BY <2>1, <2>2, SentSteps
<1>16. KeepsPlace(s, kick_render(m, "Navigate"))
  BY <1>3, PagedKick
<1> QED
  BY <1>14, <1>15, <1>16 DEF w, y

\* A paged page lands, at pan y.
LEMMA LandsAt ==
    ASSUME NEW s, LayoutSound(s), s.layout # "Strip",
           NEW y, s.landing = NoAnchor => y = clamp_paged(s.pan, Content(s), s.vp_h),
           s.landing = TopAnchor => y = 0,
           \A hit : s.landing = HitAnchor(hit) => y = pan_y_for_hit(s, hit),
           NEW from, from = (IF s.sent # NoPage THEN s.sent ELSE s.came),
           NEW t, SamePaged(s, t), t.vp_h = s.vp_h, t.held = s.held, t.landing = NoAnchor,
           t.pan = y, t.came = from, t.sent = NoPage
    PROVE  KeepsPlace(s, t)
<1>1. Paged(s) /\ CarryInv(s) /\ IsCanvas(s) /\ LayoutTypes(s)
  BY SoundPaged DEF LayoutSound
<1>2. CurrentPage(s) \in BookPages /\ ZoomPct(s) \in Zooms /\ s.vp_h \in Nat \ {0} /\ s.pan \in Int
      /\ s.vp_h \in Int /\ Content(s) \in Int
  BY <1>1, TypesAre, ContentIs
<1>3. AnchorOK(s.landing)
  BY <1>1 DEF LayoutTypes
<1>4. y \in Int
  <2>1. clamp_paged(s.pan, Content(s), s.vp_h) \in Int
    BY <1>2 DEF clamp_paged, Clamped, Greater, Lesser
  <2>2. \A hit \in Hits : pan_y_for_hit(s, hit) \in Int
    BY <1>1, HitPanIs
  <2> QED
    BY <1>3, <2>1, <2>2 DEF AnchorOK
<1>5. Paged(t) /\ ZoomPct(t) = ZoomPct(s) /\ CurrentPage(t) = CurrentPage(s)
  <2>1. AnchorOK(NoAnchor) /\ s.held \in BookPages \cup {NoPage}
    BY <1>1 DEF AnchorOK, LayoutTypes
  <2> QED
    BY <1>1, <1>2, <1>4, <2>1, StillPaged
<1>6. /\ \A p : HeightOf(t, p) = HeightOf(s, p)
      /\ \A left : spread_vertical_for(t, left) = spread_vertical_for(s, left)
  <2>1. ZoomPct(t) = ZoomPct(s)
    BY <1>5
  <2>2. t.vp_h = s.vp_h
    OBVIOUS
  <2>3. \A p : HeightOf(t, p) = HeightOf(s, p)
    BY <2>1, <2>2, SameSize
  <2>4. \A left : spread_vertical_for(t, left) = spread_vertical_for(s, left)
    BY <2>1, <2>2, SameSize
  <2> QED
    BY <2>3, <2>4
<1>7. ASSUME from # NoPage
       PROVE  from \in BookPages /\ CameInReach(t)
  <2> DEFINE left == dual_page_compute_left(CurrentPage(s))
             at == spread_page_top(spread_vertical_for(s, left), from, left)
  <2>1. t.layout = s.layout
    BY DEF SamePaged
  <2>2. left \in BookPages
    BY <1>2, PairIs
  <2>3. at \in Nat
    BY <1>2, <2>2, PageTopIs
  <2> HIDE DEF at
  <2>4. CASE s.sent # NoPage
    <3>1. from = s.sent /\ SentThere(s)
      BY <1>1, <2>4 DEF CarryInv
    <3>2. PICK hit \in Hits : s.landing = HitAnchor(hit) /\ hit.page = from
      BY <3>1 DEF SentThere
    <3>3. from \in BookPages
      BY <3>2, LayoutConstants DEF BookPages
    <3>4. CurrentPage(s) = canon(s, from) /\ (s.layout = "Spread" => s.held = from)
      BY <3>1 DEF SentThere
    <3>5. CASE s.layout = "Spread"
      <4>1. CurrentPage(s) = dual_page_compute_left(from) /\ left = dual_page_compute_left(from)
            /\ canon(s, from) = left
        BY <3>3, <3>4, <3>5, PairIs DEF canon
      <4>2. y = pan_y_for_hit(s, hit)
        BY <3>2
      <4>3. -y <= at + HeightOf(s, from) /\ HeightOf(s, from) \in Nat
        <5>1. HeightOf(s, from) \in Nat
          BY <1>2, <3>3, HeightsAre
        <5>2. -pan_y_for_hit(s, hit) <= at + HeightOf(s, from)
          BY <1>1, <3>2, <3>5, <4>1, HitPanIs DEF at
        <5> QED
          BY <4>2, <5>1, <5>2
      <4>4. -y <= at + HeightOf(s, from) + 1
        BY <1>4, <2>3, <4>3
      <4>5. t.held = t.came /\ dual_page_compute_left(t.came) = left
        BY <3>4, <3>5, <4>1
      <4> HIDE DEF left
      <4> QED
        BY <1>5, <1>6, <2>1, <3>3, <3>5, <4>4, <4>5 DEF CameInReach, at, left
    <3>6. CASE s.layout # "Spread"
      <4>1. CurrentPage(s) = from
        BY <3>3, <3>4, <3>6, CanonIs
      <4> QED
        BY <1>5, <2>1, <3>3, <3>6, <4>1 DEF CameInReach
    <3> QED
      BY <3>5, <3>6
  <2>5. CASE s.sent = NoPage
    <3>1. /\ from = s.came /\ s.came # NoPage /\ s.landing = NoAnchor
          /\ s.came \in BookPages /\ CameInReach(s)
      BY <1>1, <1>7, <2>5 DEF CarryInv
    <3>2. y = clamp_paged(s.pan, Content(s), s.vp_h)
      BY <3>1
    <3>3. CASE s.layout = "Spread"
      <4>1. /\ s.held = s.came /\ dual_page_compute_left(s.came) = left
            /\ -s.pan <= at + HeightOf(s, from) + 1
        BY <3>1, <3>3 DEF CameInReach, at
      <4>2. HeightOf(s, from) \in Nat
        BY <1>2, <3>1, HeightsAre
      <4>3. at + HeightOf(s, from) + 1 \in Nat
        BY <2>3, <4>2
      <4>4. -y <= at + HeightOf(s, from) + 1
        BY <1>2, <3>2, <4>1, <4>3, PanClamped
      <4>5. t.held = t.came /\ dual_page_compute_left(t.came) = left
        BY <3>1, <4>1
      <4> HIDE DEF left
      <4> QED
        BY <1>5, <1>6, <2>1, <3>1, <3>3, <4>4, <4>5 DEF CameInReach, at, left
    <3>4. CASE s.layout # "Spread"
      BY <1>5, <2>1, <3>1, <3>4 DEF CameInReach
    <3> QED
      BY <3>1, <3>3, <3>4
  <2> QED
    BY <2>4, <2>5
<1>8. CarryInv(t)
  BY <1>5, <1>7 DEF CarryInv, Paged
<1> QED
  BY <1>5, <1>8, PagedSound

LEMMA LandSteps ==
    ASSUME NEW s, LayoutSound(s), s.layout # "Strip",
           NEW t, t = [s EXCEPT !.landing = NoAnchor,
                                !.pan = CASE s.landing.kind = "Top" -> 0
                                          [] s.landing.kind = "Hit" -> pan_y_for_hit(s, s.landing.hit)
                                          [] OTHER -> clamp_paged(@, Content(s), s.vp_h),
                                !.came = IF s.sent # NoPage THEN s.sent ELSE @, !.sent = NoPage]
    PROVE  KeepsPlace(s, t)
<1> DEFINE y == CASE s.landing.kind = "Top" -> 0
                  [] s.landing.kind = "Hit" -> pan_y_for_hit(s, s.landing.hit)
                  [] OTHER -> clamp_paged(s.pan, Content(s), s.vp_h)
           from == IF s.sent # NoPage THEN s.sent ELSE s.came
<1>1. IsCanvas(s)
  BY SoundPaged
<1>2. /\ s.landing = NoAnchor => y = clamp_paged(s.pan, Content(s), s.vp_h)
      /\ s.landing = TopAnchor => y = 0
      /\ \A hit : s.landing = HitAnchor(hit) => y = pan_y_for_hit(s, hit)
  BY DEF NoAnchor, TopAnchor, HitAnchor
<1>3. t = [s EXCEPT !.landing = NoAnchor, !.pan = y, !.came = from, !.sent = NoPage]
  BY <1>1 DEF IsCanvas
<1>4. from = IF s.sent # NoPage THEN s.sent ELSE s.came
  OBVIOUS
<1> HIDE DEF y, from
<1>5. /\ SamePaged(s, t) /\ t.vp_h = s.vp_h /\ t.held = s.held
      /\ t.landing = NoAnchor /\ t.pan = y /\ t.came = from /\ t.sent = NoPage
  <2>1. SamePaged(s, t) /\ t.vp_h = s.vp_h /\ t.held = s.held
    BY <1>1, <1>3 DEF SamePaged, IsCanvas
  <2>2. t.landing = NoAnchor /\ t.pan = y /\ t.came = from /\ t.sent = NoPage
    BY <1>1, <1>3 DEF IsCanvas
  <2> QED
    BY <2>1, <2>2
<1>6. /\ s.landing = NoAnchor => t.pan = clamp_paged(s.pan, Content(s), s.vp_h)
      /\ s.landing = TopAnchor => t.pan = 0
      /\ \A hit : s.landing = HitAnchor(hit) => t.pan = pan_y_for_hit(s, hit)
      /\ t.came = IF s.sent # NoPage THEN s.sent ELSE s.came
  BY <1>2, <1>4, <1>5
<1> QED
  BY <1>5, <1>6, LandsAt

\* A page and how far down it the reader is.
IsCarry(at) == \E p \in BookPages : \E o \in Nat : at = [page |-> p, offset |-> o]

\* The halves of a spread.
LEMMA SpreadCaptures ==
    ASSUME NEW left \in BookPages, NEW right \in BookPages \cup {NoPage}, NEW pan \in Int, NEW at,
           at.left_top \in Nat, at.right_top \in Nat, NEW a \in Nat, NEW b \in Nat
    PROVE  /\ IsCarry(carry_from_spread(left, right, pan, at, a, b))
           /\ \A keep \in BookPages : IsCarry(carry_from_spread_held(keep, left, right, pan, at, a, b))
<1> DEFINE o1 == carry_offset(-pan - at.right_top, b)
           o2 == carry_offset(-pan - at.left_top, a)
           spread == carry_from_spread(left, right, pan, at, a, b)
<1>1. o1 \in Nat /\ o2 \in Nat
  <2>1. -pan - at.right_top \in Int /\ -pan - at.left_top \in Int /\ a \in Int /\ b \in Int
    OBVIOUS
  <2> QED
    BY <2>1, OffsetIn
<1>2. \/ right # NoPage /\ spread = [page |-> right, offset |-> o1]
      \/ spread = [page |-> left, offset |-> o2]
  BY DEF carry_from_spread
<1> HIDE DEF o1, o2, spread
<1>3. IsCarry(spread)
  BY <1>1, <1>2 DEF IsCarry
<1>4. ASSUME NEW keep \in BookPages
      PROVE  IsCarry(carry_from_spread_held(keep, left, right, pan, at, a, b))
  <2> DEFINE h == IF keep = left THEN a ELSE b
             from == spread_page_top(at, keep, left)
             o == carry_offset(-pan - from, h)
             c == carry_from_spread_held(keep, left, right, pan, at, a, b)
  <2>1. from \in Int /\ h \in Int
    BY DEF spread_page_top
  <2>2. c = [page |-> keep, offset |-> o] \/ c = spread
    BY DEF carry_from_spread_held, spread
  <2> HIDE DEF h, from, c
  <2>3. o \in Nat
    <3>1. -pan - from \in Int
      BY <2>1
    <3> QED
      BY <2>1, <3>1, OffsetIn
  <2> HIDE DEF o
  <2>4. IsCarry(c)
    BY <1>3, <2>2, <2>3 DEF IsCarry
  <2> QED
    BY <2>4 DEF c
<1> QED
  BY <1>3, <1>4 DEF spread

\* What capture_layout_carry names is a page; of the strip it is the current one.
LEMMA CaptureIs ==
    ASSUME NEW s, LayoutTypes(s), StripBuilt(s)
    PROVE  /\ IsCarry(capture_layout_carry(s))
           /\ s.layout = "Strip" =>
                 /\ capture_layout_carry(s).page = s.sv.current /\ s.sv.current \in BookPages
                 /\ capture_layout_carry(s).offset <= HeightOf(s, s.sv.current)
<1> DEFINE cur == CurrentPage(s)
           left == dual_page_compute_left(cur)
           pair_right == dual_page_compute_right(left)
           right == IF s.landing # NoAnchor THEN NoPage ELSE pair_right
           at == spread_vertical_for(s, left)
           c == capture_layout_carry(s)
<1>1. /\ cur \in BookPages /\ ZoomPct(s) \in Zooms /\ s.vp_h \in Nat \ {0} /\ s.vp_h \in Int /\ s.pan \in Int
      /\ s.layout \in {"Single", "Spread", "Strip"} /\ s.held \in BookPages \cup {NoPage}
  BY TypesAre DEF LayoutTypes
<1>2. left \in BookPages /\ pair_right \in BookPages \cup {NoPage}
  BY <1>1, PairIs
<1>3. \A p \in BookPages \cup {NoPage} : HeightOf(s, p) \in Nat
  BY <1>1, HeightsAre
<1>4. CASE s.layout = "Strip"
  <2> DEFINE l == s.sv.layout
             p == s.sv.current
             o == carry_offset(s.sv.y - top(l, p), height(l, p))
  <2>1. ViewOn(s.sv, ZoomPct(s), s.vp_h)
    BY <1>4 DEF StripBuilt
  <2>2. has_layout(s.sv) /\ LayoutOK(l) /\ s.sv.y \in Int
    BY <1>1, <2>1, OnIs
  <2>3. p \in BookPages /\ l = StripLayout(PageH, ZoomPct(s))
    BY <2>1 DEF ViewOn
  <2>4. c = [page |-> p, offset |-> o]
    BY <1>4, <2>2 DEF capture_layout_carry, carry, carry_from_strip
  <2>5. height(l, p) = HeightOf(s, p)
    <3>1. l.heights = [q \in BookPages |-> PageH[q] * ZoomPct(s)]
      BY <1>1, <2>3, LayoutTyped
    <3>2. HeightOf(s, p) = PageH[p] * ZoomPct(s)
      BY <1>1, <2>3, HeightsAre, PagesAre DEF NoPage
    <3> QED
      BY <2>3, <3>1, <3>2 DEF height
  <2>6. top(l, p) \in Int /\ height(l, p) \in Nat \ {0}
    BY <2>2, <2>3, NumbersOf
  <2> HIDE DEF l, p
  <2>7. o \in Nat /\ o <= HeightOf(s, p)
    <3>1. s.sv.y - top(l, p) \in Int /\ height(l, p) \in Int /\ height(l, p) >= 0
      BY <2>2, <2>6
    <3> QED
      BY <2>5, <3>1, OffsetIn
  <2> HIDE DEF o, c
  <2>8. IsCarry(c) /\ c.page = p /\ c.offset = o
    BY <2>3, <2>4, <2>7 DEF IsCarry
  <2> QED
    BY <2>3, <2>7, <2>8 DEF c, p
<1>5. CASE s.layout = "Single"
  <2> DEFINE h == HeightOf(s, cur)
             o == carry_offset(-s.pan - Centred(h, s.vp_h), h)
  <2>1. c = [page |-> cur, offset |-> o]
    BY <1>5 DEF capture_layout_carry, carry_from_paged_single
  <2>2. h \in Nat /\ h \in Int
    BY <1>1, <1>3
  <2> HIDE DEF h
  <2>3. -s.pan - Centred(h, s.vp_h) \in Int
    BY <1>1, <2>2 DEF Centred
  <2>4. o \in Nat
    BY <2>2, <2>3, OffsetIn
  <2> HIDE DEF o, c, cur
  <2>5. IsCarry(c)
    BY <1>1, <2>1, <2>4 DEF IsCarry
  <2> QED
    BY <1>5, <2>5 DEF c
<1>6. CASE s.layout = "Spread"
  <2> DEFINE a == HeightOf(s, left)
             b == HeightOf(s, pair_right)
             b2 == HeightOf(s, right)
  <2>1. right \in BookPages \cup {NoPage} /\ a \in Nat /\ b \in Nat /\ b2 \in Nat
    BY <1>2, <1>3
  <2>2. at.left_top \in Nat /\ at.right_top \in Nat
    BY <1>1, <1>2, VerticalIs
  <2>3. c = IF s.held # NoPage THEN carry_from_spread_held(s.held, left, right, s.pan, at, a, b)
            ELSE carry_from_spread(left, right, s.pan, at, a, b2)
    BY <1>6 DEF capture_layout_carry
  <2> HIDE DEF a, b, b2, left, pair_right, right, at, c, cur
  <2>4. IsCarry(carry_from_spread(left, right, s.pan, at, a, b2))
    BY <1>1, <1>2, <2>1, <2>2, SpreadCaptures
  <2>5. s.held # NoPage => IsCarry(carry_from_spread_held(s.held, left, right, s.pan, at, a, b))
    BY <1>1, <1>2, <2>1, <2>2, SpreadCaptures
  <2>6. IsCarry(c)
    BY <2>3, <2>4, <2>5
  <2> QED
    BY <1>6, <2>6 DEF c
<1> QED
  BY <1>1, <1>4, <1>5, <1>6

\* A reader who came to a page is captured on it.
LEMMA CapturesCame ==
    ASSUME NEW s, LayoutTypes(s), CarryInv(s), s.came # NoPage
    PROVE  capture_layout_carry(s).page = s.came
<1> DEFINE cur == CurrentPage(s)
           left == dual_page_compute_left(cur)
           right == dual_page_compute_right(left)
           at == spread_vertical_for(s, left)
           c == capture_layout_carry(s)
<1>1. s.layout # "Strip" /\ s.landing = NoAnchor /\ s.came \in BookPages /\ CameInReach(s)
  BY DEF CarryInv
<1>2. s.layout \in {"Single", "Spread", "Strip"} /\ ZoomPct(s) \in Zooms /\ cur \in BookPages
  BY TypesAre
<1>3. CASE s.layout = "Single"
  BY <1>1, <1>3 DEF CameInReach, capture_layout_carry, carry_from_paged_single
<1>4. CASE s.layout = "Spread"
  <2> DEFINE h == IF s.came = left THEN HeightOf(s, left) ELSE HeightOf(s, right)
             from == spread_page_top(at, s.came, left)
  <2>1. /\ s.held = s.came /\ dual_page_compute_left(s.came) = left
        /\ -s.pan <= from + HeightOf(s, s.came) + 1
    BY <1>1, <1>4 DEF CameInReach
  <2>2. s.came = left \/ s.came = right
    BY <1>1, <2>1, PairIs
  <2>3. h = HeightOf(s, s.came)
    BY <2>2
  <2>4. s.held # NoPage /\ Dip \div 2 = 1
    BY <2>1 DEF Dip
  <2>5. c = carry_from_spread_held(s.held, left, right, s.pan, at, HeightOf(s, left), HeightOf(s, right))
    BY <1>1, <1>4, <2>4 DEF capture_layout_carry
  <2>6. -s.pan <= from + h + Dip \div 2
    BY <2>1, <2>3, <2>4
  <2>7. carry_from_spread_held(s.came, left, right, s.pan, at, HeightOf(s, left), HeightOf(s, right))
          = [page |-> s.came, offset |-> carry_offset(-s.pan - from, h)]
    BY <2>6 DEF carry_from_spread_held
  <2> QED
    BY <2>1, <2>5, <2>7
<1> QED
  BY <1>1, <1>2, <1>3, <1>4

\* What no carry changes.
Kept(s, t) ==
    /\ IsCanvas(t)
    /\ t.view = s.view /\ t.layout = s.layout /\ t.pref = s.pref /\ t.vp_h = s.vp_h
    /\ t.landing = s.landing
    /\ t.thumb_drag_live = s.thumb_drag_live /\ t.thumb_drag_dead = s.thumb_drag_dead
    /\ t.drag = s.drag /\ t.came = s.came /\ t.sent = s.sent /\ t.left = s.left

\* Where a carry to page p, out of zoom z, puts the reader.
PutDown(s, t, p) ==
    /\ Kept(s, t) /\ Retabbed(s, t, canon(s, p), Fitted(s)) /\ Fitted(s) \in Zooms
    /\ ViewOK(t.sv) /\ t.pan \in Int /\ t.held \in BookPages \cup {NoPage}
    /\ s.layout = "Strip" => ViewOn(t.sv, Fitted(s), s.vp_h) /\ Pinned(t.sv, p)

\* The spread shows the page, or the top of the next one.
InReach(t, p) ==
    LET left == dual_page_compute_left(p)
    IN /\ t.held = p
       /\ -t.pan <= spread_page_top(spread_vertical_for(t, left), p, left) + HeightOf(t, p)

\* An offset scales with the zoom and stays on its page.
LEMMA OffsetScales ==
    ASSUME NEW o \in Nat, NEW h \in Nat, NEW old \in Nat \ {0}, NEW new \in Nat \ {0}
    PROVE  /\ (o * new) \div old \in Nat
           /\ o <= h * old => (o * new) \div old <= h * new
<1>1. o * new \in Nat /\ h * new \in Nat
  OBVIOUS
<1>2. (o * new) \div old \in Nat
  <2> DEFINE a == o * new
  <2> HIDE DEF a
  <2> QED
    BY <1>1 DEF a
<1>3. ASSUME o <= h * old
      PROVE  (o * new) \div old <= h * new
  <2>1. h * old \in Nat
    OBVIOUS
  <2>2. o * new <= (h * old) * new
    BY <1>3, <2>1, ProductOrder
  <2>3. (h * old) * new = (h * new) * old
    OBVIOUS
  <2> DEFINE a == o * new
             c == h * new
  <2>4. a <= c * old
    BY <2>2, <2>3
  <2> HIDE DEF a, c
  <2> QED
    BY <1>1, <2>4, DivAtMost DEF a, c
<1> QED
  BY <1>2, <1>3

LEMMA CarriesTo ==
    ASSUME NEW s, LayoutTypes(s), s.layout = "Strip" => ~has_layout(s.sv),
           NEW at, IsCarry(at), NEW old \in Zooms
    PROVE  LET t == apply_layout_carry(s, at, old)
           IN /\ PutDown(s, t, at.page)
              /\ s.layout = "Spread" /\ at.offset <= PageH[at.page] * old => InReach(t, at.page)
<1> DEFINE p == at.page
           r == SetPage(s, canon(s, p))
           v == apply_viewport(r)
           o == (at.offset * ZoomPct(v)) \div old
           to == [at EXCEPT !.offset = (@ * ZoomPct(v)) \div old]
           left == dual_page_compute_left(to.page)
           pair == spread_vertical_for(v, left)
           strip == build(set_viewport(v.sv, v.vp_h), PageH, ZoomPct(v))
           t == apply_layout_carry(s, at, old)
           from == spread_page_top(pair, p, left)
           y1 == spread_pan_y_for(to, spread_page_top(pair, to.page, left), pair.union_h, v.vp_h)
           y2 == paged_pan_y_for(to, HeightOf(v, to.page), v.vp_h)
<1>1. /\ t = IF v.layout = "Strip" THEN [v EXCEPT !.sv = apply_carry(strip, to)]
             ELSE IF v.layout = "Spread" THEN [v EXCEPT !.held = to.page, !.pan = y1]
             ELSE [v EXCEPT !.pan = y2]
  BY DEF apply_layout_carry
<1>2. /\ p \in BookPages /\ at.offset \in Nat /\ to = [page |-> p, offset |-> o]
  BY DEF IsCarry
<1>3. canon(s, p) \in BookPages /\ canon(s, canon(s, p)) = canon(s, p)
  BY <1>2, CanonIs
<1>4. /\ Frame(s, r) /\ Retabbed(s, r, canon(s, p), ZoomPct(s))
      /\ r.sv = s.sv /\ r.thumb_drag_dead = s.thumb_drag_dead
  BY SetPageIs
<1>5. ZoomPct(s) \in Zooms /\ ViewOK(s.sv) /\ s.thumb_drag_dead \in BOOLEAN /\ s.vp_h \in Nat \ {0}
      /\ s.pan \in Int /\ s.held \in BookPages \cup {NoPage}
  BY TypesAre DEF LayoutTypes
<1> HIDE DEF r
<1>6. LayoutTypes(r) /\ CurrentPage(r) = canon(s, p) /\ ZoomPct(r) = ZoomPct(s)
  BY <1>3, <1>4, <1>5, FrameTypes
<1>7. Fitted(r) = Fitted(s) /\ canon(r, CurrentPage(r)) = canon(s, p)
  <2>1. r.layout = s.layout /\ r.view = s.view /\ Tab(r).fit = Tab(s).fit
    BY <1>4 DEF Frame, Retabbed, Replaced, Tab
  <2>2. Fitted(r) = Fitted(s)
    BY <1>6, <2>1 DEF Fitted
  <2>3. canon(r, canon(s, p)) = canon(s, canon(s, p))
    BY <2>1 DEF canon
  <2> QED
    BY <1>3, <1>6, <2>2, <2>3
<1>8. /\ Frame(r, v) /\ Retabbed(r, v, canon(s, p), Fitted(s))
      /\ v.sv = s.sv /\ v.thumb_drag_dead = s.thumb_drag_dead /\ Fitted(s) \in Zooms
  <2>1. /\ Frame(r, v) /\ Retabbed(r, v, canon(r, CurrentPage(r)), Fitted(r))
        /\ v.sv = r.sv /\ v.thumb_drag_dead = r.thumb_drag_dead /\ Fitted(r) \in Zooms
    BY <1>6, ViewportIs
  <2> QED
    BY <1>4, <1>7, <2>1
<1> HIDE DEF v
<1>9. Frame(s, v) /\ Retabbed(s, v, canon(s, p), Fitted(s))
  <2>1. Frame(s, v)
    BY <1>4, <1>8, TwoFrames
  <2>2. r.view = s.view
    BY <1>4 DEF Frame
  <2> QED
    BY <1>4, <1>8, <2>1, <2>2, TwoRetabs
<1>10. LayoutTypes(v) /\ ZoomPct(v) = Fitted(s)
  BY <1>3, <1>5, <1>8, <1>9, FrameTypes
<1>11. v.layout = s.layout /\ v.vp_h = s.vp_h /\ IsCanvas(v) /\ v.pan = s.pan /\ v.held = s.held
  BY <1>9 DEF Frame
<1>12. Kept(s, v)
  BY <1>8, <1>9 DEF Frame, Kept
<1>13. o \in Nat
  BY <1>2, <1>8, <1>10, OffsetScales, PagesAre, LayoutConstants
<1>14. left = dual_page_compute_left(p) /\ to.page = p /\ to.offset = o
  BY <1>2
<1>15. left \in BookPages
  BY <1>2, <1>14, PairIs
<1>16. pair.union_h \in Int /\ from \in Nat /\ HeightOf(v, p) \in Nat /\ HeightOf(v, p) = PageH[p] * ZoomPct(v)
  <2>1. ZoomPct(v) \in Zooms /\ v.vp_h \in Nat \ {0}
    BY <1>5, <1>8, <1>10, <1>11
  <2>2. pair.union_h \in Int
    BY <1>15, <2>1, VerticalIs
  <2>3. from \in Nat
    BY <1>15, <2>1, PageTopIs
  <2>4. p # NoPage
    BY <1>2, PagesAre DEF NoPage
  <2> QED
    BY <1>2, <2>1, <2>2, <2>3, <2>4, HeightsAre
<1>17. CASE s.layout = "Strip"
  <2> DEFINE w == apply_carry(strip, to)
             z == Fitted(s)
  <2>1. ViewOn(strip, z, s.vp_h)
    <3> DEFINE q == set_viewport(v.sv, v.vp_h)
    <3>1. ViewOK(q) /\ q.vp_h = s.vp_h
      <4>1. ViewOK(v.sv) /\ ~has_layout(v.sv) /\ v.vp_h \in Nat \ {0} /\ v.vp_h = s.vp_h
        BY <1>5, <1>8, <1>11, <1>17
      <4> QED
        BY <4>1, ResizesBare
    <3> HIDE DEF q
    <3> QED
      BY <1>8, <1>10, <3>1, BuildsOn DEF q
  <2>2. ViewOn(w, z, s.vp_h) /\ Pinned(w, p)
    BY <1>2, <1>8, <1>13, <1>14, <2>1, CarriesOn
  <2>3. t = [v EXCEPT !.sv = w]
    BY <1>1, <1>11, <1>17
  <2> HIDE DEF w, t
  <2>4. Kept(s, t) /\ t.sv = w /\ t.tab = v.tab /\ t.pan = v.pan /\ t.held = v.held
    BY <1>12, <2>3 DEF Kept, IsCanvas
  <2>5. Retabbed(s, t, canon(s, p), z)
    BY <1>9, <2>4 DEF Retabbed
  <2>6. PutDown(s, t, p)
    BY <1>5, <1>8, <1>11, <2>2, <2>4, <2>5 DEF PutDown, ViewOn
  <2> QED
    BY <1>17, <2>6 DEF t
<1>18. CASE s.layout = "Spread"
  <2>1. y1 = clamp_paged(-(from + o), pair.union_h, v.vp_h)
    BY <1>14 DEF spread_pan_y_for
  <2>2. from + o \in Nat /\ -(from + o) \in Int /\ -(-(from + o)) <= from + o /\ v.vp_h \in Int
    BY <1>5, <1>11, <1>13, <1>16
  <2>3. y1 \in Int /\ -y1 <= from + o
    BY <1>16, <2>1, <2>2, PanClamped
  <2>4. t = [v EXCEPT !.held = p, !.pan = y1]
    BY <1>1, <1>11, <1>14, <1>18
  <2> HIDE DEF y1, t
  <2>5. Kept(s, t) /\ t.sv = v.sv /\ t.tab = v.tab /\ t.pan = y1 /\ t.held = p
    BY <1>12, <2>4 DEF Kept, IsCanvas
  <2>6. Retabbed(s, t, canon(s, p), Fitted(s))
    BY <1>9, <2>5 DEF Retabbed
  <2>7. PutDown(s, t, p)
    BY <1>2, <1>5, <1>8, <1>18, <2>3, <2>5, <2>6 DEF PutDown
  <2>8. ASSUME at.offset <= PageH[p] * old
        PROVE  InReach(t, p)
    <3>1. o <= HeightOf(v, p)
      <4> DEFINE z == ZoomPct(v)
                 h == PageH[p]
                 a == at.offset
      <4>1. z \in Nat \ {0} /\ old \in Nat \ {0} /\ h \in Nat /\ a \in Nat /\ a <= h * old
        BY <1>2, <1>8, <1>10, <2>8, PagesAre, LayoutConstants
      <4>2. o = (a * z) \div old /\ HeightOf(v, p) = h * z
        BY <1>16
      <4> HIDE DEF z, h, a, o
      <4> QED
        BY <4>1, <4>2, OffsetScales
    <3>2. -y1 <= from + HeightOf(v, p)
      BY <1>13, <1>16, <2>3, <3>1
    <3>3. ZoomPct(t) = ZoomPct(v) /\ t.vp_h = v.vp_h
      BY <1>11, <1>12, <2>5 DEF ZoomPct, Tab, Kept
    <3>4. HeightOf(t, p) = HeightOf(v, p)
      BY <3>3, SameSize
    <3>5. spread_vertical_for(t, left) = pair
      BY <3>3, SameSize
    <3> HIDE DEF left
    <3> QED
      BY <1>14, <2>5, <3>2, <3>4, <3>5 DEF InReach
  <2> QED
    BY <1>18, <2>7, <2>8 DEF t
<1>19. CASE s.layout = "Single"
  <2>1. y2 \in Int
    <3>1. y2 = clamp_paged(-o, HeightOf(v, p), v.vp_h)
      BY <1>14 DEF paged_pan_y_for
    <3>2. -o \in Int /\ HeightOf(v, p) \in Int /\ v.vp_h \in Int /\ -(-o) <= o
      BY <1>5, <1>11, <1>13, <1>16
    <3> QED
      BY <1>13, <3>1, <3>2, PanClamped
  <2>2. t = [v EXCEPT !.pan = y2]
    BY <1>1, <1>11, <1>19
  <2> HIDE DEF y2, t
  <2>3. Kept(s, t) /\ t.sv = v.sv /\ t.tab = v.tab /\ t.pan = y2 /\ t.held = v.held
    BY <1>12, <2>2 DEF Kept, IsCanvas
  <2>4. Retabbed(s, t, canon(s, p), Fitted(s))
    BY <1>9, <2>3 DEF Retabbed
  <2>5. PutDown(s, t, p)
    BY <1>5, <1>8, <1>11, <1>19, <2>1, <2>3, <2>4 DEF PutDown
  <2> QED
    BY <1>19, <2>5 DEF t
<1>20. s.layout \in {"Single", "Spread", "Strip"}
  BY TypesAre
<1> QED
  BY <1>17, <1>18, <1>19, <1>20

\* A carry changes neither which layout the tab wants nor the places held.
LEMMA PutDownIs ==
    ASSUME NEW s, LayoutTypes(s), NEW t, NEW p \in BookPages, PutDown(s, t, p)
    PROVE  /\ LayoutTypes(t) /\ CurrentPage(t) = canon(s, p) /\ ZoomPct(t) = Fitted(s)
           /\ effective_layout(t) = effective_layout(s) /\ (PlaceHeld(s) => PlaceHeld(t))
<1>1. /\ Kept(s, t) /\ Retabbed(s, t, canon(s, p), Fitted(s)) /\ Fitted(s) \in Zooms
      /\ ViewOK(t.sv) /\ t.pan \in Int /\ t.held \in BookPages \cup {NoPage} /\ canon(s, p) \in BookPages
  BY CanonIs DEF PutDown
<1>2. \A d \in Docs : TabOK(t.tab[d])
  BY <1>1 DEF Retabbed, Replaced, LayoutTypes, TabOK, IsTab
<1>3. DOMAIN t.tab = Docs /\ s.view \in Docs
  BY <1>1 DEF Retabbed, LayoutTypes
<1>4. LayoutTypes(t)
  BY <1>1, <1>2, <1>3 DEF LayoutTypes, Kept, IsCanvas
<1>5. CurrentPage(t) = canon(s, p) /\ ZoomPct(t) = Fitted(s)
  BY <1>1 DEF Retabbed, Replaced, CurrentPage, ZoomPct, Tab, Kept
<1>6. effective_layout(t) = effective_layout(s)
  BY <1>1 DEF effective_layout, Tab, Kept, Retabbed, Replaced
<1>7. \A d \in Docs : t.tab[d].strip_state = s.tab[d].strip_state
  BY <1>1 DEF Retabbed, Replaced, LayoutTypes
<1>8. t.left = s.left
  BY <1>1 DEF Kept
<1>9. PlaceHeld(s) => PlaceHeld(t)
  BY <1>7, <1>8 DEF PlaceHeld
<1> QED
  BY <1>4, <1>5, <1>6, <1>9

\* The canvas between two layouts, into or out of the strip.
Between(s, t, next) ==
    /\ IsCanvas(t) /\ t.layout = next /\ t.view = s.view /\ t.pref = s.pref /\ t.vp_h = s.vp_h
    /\ t.tab = s.tab /\ t.left = s.left /\ t.came = s.came /\ t.sent = s.sent
    /\ t.landing = NoAnchor /\ t.drag = <<>>
    /\ t.pan \in Int /\ t.held \in BookPages \cup {NoPage}
    /\ ViewOK(t.sv) /\ ~has_layout(t.sv)
    /\ t.thumb_drag_live \in BOOLEAN /\ t.thumb_drag_dead \in BOOLEAN
    /\ next = "Strip" => t.thumb_drag_live = FALSE /\ t.thumb_drag_dead = FALSE

\* switch_layout sets the layout, and carries the reader over if it is to.
LEMMA SwitchIs ==
    ASSUME NEW s, LayoutTypes(s), NEW next \in {"Single", "Spread", "Strip"}
    PROVE  \E t : /\ Between(s, t, next)
                  /\ switch_layout(s, next, FALSE) = t
                  /\ switch_layout(s, next, TRUE) = apply_layout_carry(t, capture_layout_carry(s), ZoomPct(s))
<1> DEFINE dual_changes == (s.layout = "Spread") # (next = "Spread")
           live == s.thumb_drag_live /\ next # "Strip"
           dead == next # "Strip" /\ (s.thumb_drag_dead \/ s.thumb_drag_live)
           pan == IF dual_changes THEN 0 ELSE s.pan
           keep == IF dual_changes THEN NoPage ELSE s.held
           sv == reset(s.sv)
           t == [s EXCEPT !.layout = next, !.landing = NoAnchor, !.sv = sv,
                          !.thumb_drag_live = live, !.thumb_drag_dead = dead,
                          !.pan = pan, !.held = keep, !.drag = <<>>]
<1>1. IsCanvas(s) /\ ViewOK(s.sv) /\ s.pan \in Int /\ s.held \in BookPages \cup {NoPage}
  BY TypesAre DEF LayoutTypes
<1>2. t = [s EXCEPT !.layout = next, !.landing = NoAnchor, !.sv = reset(@),
                    !.thumb_drag_live = @ /\ next # "Strip",
                    !.thumb_drag_dead = next # "Strip" /\ (@ \/ s.thumb_drag_live),
                    !.pan = IF dual_changes THEN 0 ELSE @,
                    !.held = IF dual_changes THEN NoPage ELSE @, !.drag = <<>>]
  BY <1>1 DEF IsCanvas
<1>3. /\ switch_layout(s, next, FALSE) = t
      /\ switch_layout(s, next, TRUE) = apply_layout_carry(t, capture_layout_carry(s), ZoomPct(s))
  BY <1>2, Zenon DEF switch_layout
<1>4. live \in BOOLEAN /\ dead \in BOOLEAN /\ (next = "Strip" => live = FALSE /\ dead = FALSE)
  OBVIOUS
<1>5. pan \in Int /\ keep \in BookPages \cup {NoPage}
  BY <1>1
<1>6. ViewOK(sv) /\ ~has_layout(sv)
  BY <1>1, ResetIs
<1> HIDE DEF live, dead, pan, keep, sv
<1>7. Between(s, t, next)
  BY <1>1, <1>4, <1>5, <1>6 DEF Between, IsCanvas
<1> QED
  BY <1>3, <1>7

\* What a canvas between two layouts is.
LEMMA BetweenIs ==
    ASSUME NEW s, LayoutTypes(s), NEW next \in {"Single", "Spread", "Strip"}, NEW t, Between(s, t, next)
    PROVE  /\ LayoutTypes(t) /\ CurrentPage(t) = CurrentPage(s) /\ ZoomPct(t) = ZoomPct(s)
           /\ effective_layout(t) = effective_layout(s) /\ (PlaceHeld(s) => PlaceHeld(t))
<1>1. LayoutTypes(t)
  BY DEF LayoutTypes, Between, IsCanvas, AnchorOK
<1>2. effective_layout(t) = effective_layout(s) /\ (PlaceHeld(s) => PlaceHeld(t))
  BY DEF Between, effective_layout, Tab, PlaceHeld
<1> QED
  BY <1>1, <1>2 DEF Between, CurrentPage, ZoomPct, Tab

\* A sound canvas whose flags were set: its layout is to change.
Unsettled(s) ==
    LayoutTypes(s) /\ StripBuilt(s) /\ DragInStep(s) /\ PlaceHeld(s) /\ CarryInv(s)

\* The layout changed, and the reader is where the carry brought them.
Changed(s, r) ==
    /\ LayoutSound(r) /\ r.view = s.view
    /\ s.came # NoPage /\ s.layout # "Strip" /\ r.layout = "Strip" => r.sv.current = s.came

\* t is s with another history: the reader came to page p.
Remembers(s, t, p) ==
    /\ LayoutTypes(t) /\ t.came = p /\ t.sent = NoPage
    /\ IsCanvas(t) /\ t.view = s.view /\ t.layout = s.layout /\ t.pref = s.pref /\ t.vp_h = s.vp_h
    /\ t.sv = s.sv /\ t.pan = s.pan /\ t.held = s.held /\ t.landing = s.landing /\ t.tab = s.tab
    /\ t.thumb_drag_live = s.thumb_drag_live /\ t.thumb_drag_dead = s.thumb_drag_dead
    /\ t.drag = s.drag /\ t.left = s.left
    /\ effective_layout(t) = effective_layout(s) /\ (PlaceHeld(s) => PlaceHeld(t))
    /\ ZoomPct(t) = ZoomPct(s) /\ CurrentPage(t) = CurrentPage(s) /\ Fitted(t) = Fitted(s)

LEMMA HistorySet ==
    ASSUME NEW s, LayoutTypes(s), NEW p, NEW t, t = [s EXCEPT !.came = p, !.sent = NoPage]
    PROVE  Remembers(s, t, p)
<1>1. /\ t.came = p /\ t.sent = NoPage
      /\ IsCanvas(t) /\ t.view = s.view /\ t.layout = s.layout /\ t.pref = s.pref /\ t.vp_h = s.vp_h
      /\ t.sv = s.sv /\ t.pan = s.pan /\ t.held = s.held /\ t.landing = s.landing /\ t.tab = s.tab
      /\ t.thumb_drag_live = s.thumb_drag_live /\ t.thumb_drag_dead = s.thumb_drag_dead
      /\ t.drag = s.drag /\ t.left = s.left
  BY TypesAre DEF IsCanvas
<1>2. LayoutTypes(t)
  BY <1>1 DEF LayoutTypes, IsCanvas
<1>3. effective_layout(t) = effective_layout(s) /\ (PlaceHeld(s) => PlaceHeld(t))
  BY <1>1 DEF effective_layout, Tab, PlaceHeld
<1>4. ZoomPct(t) = ZoomPct(s) /\ CurrentPage(t) = CurrentPage(s) /\ Fitted(t) = Fitted(s)
  BY <1>1 DEF ZoomPct, CurrentPage, Fitted, Tab
<1> QED
  BY <1>1, <1>2, <1>3, <1>4 DEF Remembers

LEMMA StaysStrip ==
    ASSUME NEW s, Unsettled(s), s.layout = "Strip", effective_layout(s) = "Strip",
           NEW t, t = [s EXCEPT !.came = NoPage, !.sent = NoPage]
    PROVE  Changed(s, kick_render(t, "Spread"))
<1>1. LayoutTypes(s) /\ ViewOn(s.sv, ZoomPct(s), s.vp_h) /\ PlaceHeld(s)
      /\ (s.drag # <<>> => s.thumb_drag_live)
  BY DEF Unsettled, StripBuilt, DragInStep
<1>2. Poised(t) /\ t.sv = s.sv /\ t.view = s.view
  <2>1. Remembers(s, t, NoPage)
    BY <1>1, HistorySet
  <2> QED
    BY <1>1, <2>1 DEF Poised, Remembers
<1>3. ZoomPct(s) \in Zooms
  BY <1>1, TypesAre
<1>4. LayoutSound(kick_render(t, "Spread")) /\ KickedTo(t, kick_render(t, "Spread"), "Spread")
  BY <1>1, <1>2, <1>3, KickSound
<1> QED
  BY <1>2, <1>4 DEF Changed, KickedTo, Frame

\* From one paged layout to the other, or to itself.
LEMMA StaysPaged ==
    ASSUME NEW s, Unsettled(s), s.layout # "Strip", NEW target, target = effective_layout(s),
           target # "Strip", NEW t, t = [set_dual_page(s, target = "Spread") EXCEPT !.came = NoPage,
                                                                                    !.sent = NoPage]
    PROVE  Changed(s, kick_render(t, "Spread"))
<1> DEFINE d == set_dual_page(s, target = "Spread")
<1>1. LayoutTypes(s) /\ PlaceHeld(s) /\ s.layout \in {"Single", "Spread", "Strip"} /\ IsCanvas(s)
  BY TypesAre DEF Unsettled
<1>2. target \in {"Single", "Spread"}
  BY DEF effective_layout
<1>3. /\ LayoutTypes(d) /\ d.layout = target /\ d.view = s.view
      /\ effective_layout(d) = effective_layout(s) /\ PlaceHeld(d)
  <2>1. CASE (s.layout = "Spread") = (target = "Spread")
    <3>1. d = s /\ s.layout = target
      BY <1>1, <1>2, <2>1 DEF set_dual_page
    <3> QED
      BY <1>1, <3>1
  <2>2. CASE (s.layout = "Spread") # (target = "Spread")
    <3>1. d = [s EXCEPT !.layout = target, !.pan = 0, !.held = NoPage]
      BY <1>2, <2>2 DEF set_dual_page
    <3> HIDE DEF d
    <3>2. /\ IsCanvas(d) /\ d.layout = target /\ d.view = s.view /\ d.pref = s.pref /\ d.vp_h = s.vp_h
          /\ d.sv = s.sv /\ d.pan = 0 /\ d.held = NoPage /\ d.landing = s.landing /\ d.tab = s.tab
          /\ d.thumb_drag_live = s.thumb_drag_live /\ d.thumb_drag_dead = s.thumb_drag_dead
          /\ d.left = s.left
      BY <1>1, <3>1 DEF IsCanvas
    <3>3. LayoutTypes(d)
      BY <1>1, <1>2, <3>2 DEF LayoutTypes, IsCanvas
    <3> QED
      BY <1>1, <3>2, <3>3 DEF effective_layout, Tab, PlaceHeld
  <2> QED
    BY <2>1, <2>2
<1>4. t = [d EXCEPT !.came = NoPage, !.sent = NoPage]
  OBVIOUS
<1> HIDE DEF d
<1>5. /\ LayoutTypes(t) /\ t.came = NoPage /\ t.sent = NoPage /\ t.layout = target /\ t.view = s.view
      /\ effective_layout(t) = effective_layout(s) /\ PlaceHeld(t)
  <2>1. Remembers(d, t, NoPage)
    BY <1>3, <1>4, HistorySet
  <2> QED
    BY <1>3, <2>1 DEF Remembers
<1>6. Paged(t)
  BY <1>5 DEF Paged
<1>7. KeepsPlace(s, kick_render(t, "Spread"))
  BY <1>5, <1>6, PagedKick
<1>8. Frame(t, kick_render(t, "Spread"))
  BY <1>6, PagedKickIs DEF Paged
<1> QED
  BY <1>5, <1>7, <1>8 DEF Changed, KeepsPlace, Frame

\* Into the strip: the page that was captured is pinned, and the kick leaves it so.
LEMMA EntersStrip ==
    ASSUME NEW s, Unsettled(s), s.layout # "Strip", effective_layout(s) = "Strip",
           NEW t, t = [switch_layout(s, "Strip", TRUE) EXCEPT !.came = NoPage, !.sent = NoPage]
    PROVE  Changed(s, kick_render(t, "Spread"))
<1> DEFINE at == capture_layout_carry(s)
           c == switch_layout(s, "Strip", TRUE)
           r == kick_render(t, "Spread")
<1>1. LayoutTypes(s) /\ StripBuilt(s) /\ PlaceHeld(s) /\ CarryInv(s) /\ ZoomPct(s) \in Zooms
  BY TypesAre DEF Unsettled
<1>2. IsCarry(at) /\ at.page \in BookPages
  BY <1>1, CaptureIs DEF IsCarry
<1>3. s.came # NoPage => at.page = s.came
  BY <1>1, CapturesCame
<1> HIDE DEF at
<1>4. PICK b : Between(s, b, "Strip") /\ c = apply_layout_carry(b, at, ZoomPct(s))
  BY <1>1, SwitchIs DEF at
<1> HIDE DEF c
<1>5. LayoutTypes(b) /\ effective_layout(b) = effective_layout(s) /\ PlaceHeld(b)
  BY <1>1, <1>4, BetweenIs
<1>6. /\ b.layout = "Strip" /\ b.view = s.view /\ ~has_layout(b.sv) /\ b.drag = <<>>
      /\ b.thumb_drag_live = FALSE
  BY <1>4 DEF Between
<1>7. PutDown(b, c, at.page)
  BY <1>1, <1>2, <1>4, <1>5, <1>6, CarriesTo
<1>8. LayoutTypes(c) /\ effective_layout(c) = effective_layout(s) /\ PlaceHeld(c) /\ ZoomPct(c) = Fitted(b)
  BY <1>2, <1>5, <1>7, PutDownIs
<1>9. /\ c.layout = "Strip" /\ c.view = s.view /\ c.drag = <<>> /\ c.thumb_drag_live = FALSE
      /\ ViewOn(c.sv, Fitted(b), b.vp_h) /\ Pinned(c.sv, at.page) /\ Fitted(b) \in Zooms
  BY <1>6, <1>7 DEF PutDown, Kept
<1>10. /\ LayoutTypes(t) /\ effective_layout(t) = "Strip" /\ PlaceHeld(t) /\ t.layout = "Strip"
       /\ t.view = s.view /\ t.drag = <<>> /\ t.came = NoPage /\ t.sent = NoPage /\ t.sv = c.sv
  <2>1. Remembers(c, t, NoPage)
    BY <1>8, HistorySet DEF c
  <2> QED
    BY <1>8, <1>9, <2>1 DEF Remembers
<1>11. Poised(t) /\ has_layout(t.sv)
  <2>1. has_layout(c.sv)
    BY <1>9, OnIs
  <2> QED
    BY <1>10, <2>1 DEF Poised
<1>12. LayoutSound(r) /\ KickedTo(t, r, "Spread")
  BY <1>9, <1>10, <1>11, KickSound
<1>13. ~Restores(t, "Spread")
  BY DEF Restores
<1> HIDE DEF r
<1>14. Pinned(r.sv, at.page) /\ r.view = t.view
  BY <1>9, <1>10, <1>11, <1>12, <1>13 DEF KickedTo, Frame
<1> QED
  BY <1>3, <1>10, <1>12, <1>14 DEF Changed, Pinned, r

\* Out of the strip: the page that was captured is on screen, and remembered.
LEMMA LeavesStrip ==
    ASSUME NEW s, Unsettled(s), s.layout = "Strip", NEW target, target = effective_layout(s),
           target # "Strip", NEW p, p = capture_layout_carry(s).page,
           NEW t, t = [switch_layout(s, target, TRUE) EXCEPT !.came = p, !.sent = NoPage]
    PROVE  Changed(s, kick_render(t, "Spread"))
<1> DEFINE at == capture_layout_carry(s)
           c == switch_layout(s, target, TRUE)
           r == kick_render(t, "Spread")
           z == ZoomPct(s)
<1>1. LayoutTypes(s) /\ StripBuilt(s) /\ PlaceHeld(s) /\ z \in Zooms
  BY TypesAre DEF Unsettled
<1>2. /\ IsCarry(at) /\ p = at.page /\ p \in BookPages /\ at.offset <= HeightOf(s, p)
  BY <1>1, CaptureIs
<1>3. at.offset <= PageH[p] * z /\ p # NoPage
  <2>1. p # NoPage
    BY <1>2, PagesAre DEF NoPage
  <2> QED
    BY <1>1, <1>2, <2>1, HeightsAre
<1>4. target \in {"Single", "Spread"}
  BY DEF effective_layout
<1> HIDE DEF at
<1>5. PICK b : Between(s, b, target) /\ c = apply_layout_carry(b, at, z)
  BY <1>1, <1>4, SwitchIs DEF at
<1> HIDE DEF c
<1>6. LayoutTypes(b) /\ effective_layout(b) = effective_layout(s) /\ PlaceHeld(b)
  BY <1>1, <1>4, <1>5, BetweenIs
<1>7. b.layout = target /\ b.view = s.view /\ b.landing = NoAnchor
  BY <1>5 DEF Between
<1>8. PutDown(b, c, p) /\ (target = "Spread" => InReach(c, p))
  BY <1>1, <1>2, <1>3, <1>5, <1>6, <1>7, CarriesTo
<1>9. /\ LayoutTypes(c) /\ effective_layout(c) = effective_layout(s) /\ PlaceHeld(c)
      /\ CurrentPage(c) = canon(b, p) /\ ZoomPct(c) = Fitted(b)
  BY <1>2, <1>6, <1>8, PutDownIs
<1>10. /\ c.layout = target /\ c.view = s.view /\ c.landing = NoAnchor
       /\ Retabbed(b, c, canon(b, p), Fitted(b))
  BY <1>7, <1>8 DEF PutDown, Kept
<1>11. Fitted(c) = Fitted(b) /\ canon(c, canon(b, p)) = canon(b, p)
  <2>1. Tab(c).fit = Tab(b).fit /\ c.layout = b.layout
    BY <1>7, <1>10 DEF Retabbed, Replaced, Tab
  <2>2. Fitted(c) = Fitted(b)
    BY <1>9, <2>1 DEF Fitted
  <2>3. canon(b, canon(b, p)) = canon(b, p)
    BY <1>2, CanonIs
  <2> QED
    BY <2>1, <2>2, <2>3 DEF canon
<1>12. /\ LayoutTypes(t) /\ t.came = p /\ t.sent = NoPage /\ t.layout = target /\ t.view = s.view
       /\ effective_layout(t) = target /\ PlaceHeld(t) /\ t.landing = NoAnchor /\ t.vp_h = c.vp_h
       /\ t.held = c.held /\ t.pan = c.pan
       /\ CurrentPage(t) = canon(b, p) /\ ZoomPct(t) = ZoomPct(c) /\ Fitted(t) = Fitted(c)
  <2>1. Remembers(c, t, p)
    BY <1>9, HistorySet DEF c
  <2> QED
    BY <1>9, <1>10, <2>1 DEF Remembers
<1>13. Paged(t)
  BY <1>4, <1>12 DEF Paged
<1>14. canon(t, CurrentPage(t)) = canon(b, p) /\ Fitted(t) = ZoomPct(t)
  BY <1>9, <1>10, <1>11, <1>12 DEF canon
<1>15. /\ Frame(t, r) /\ Retabbed(t, r, canon(b, p), ZoomPct(t)) /\ ZoomPct(t) \in Zooms
       /\ canon(b, p) \in BookPages /\ r.sv = t.sv /\ r.thumb_drag_dead = t.thumb_drag_dead
  <2>1. /\ Frame(t, r) /\ Retabbed(t, r, canon(t, CurrentPage(t)), Fitted(t))
        /\ r.sv = t.sv /\ r.thumb_drag_dead = t.thumb_drag_dead
        /\ Fitted(t) \in Zooms /\ canon(t, CurrentPage(t)) \in BookPages
    BY <1>13, PagedKickIs DEF Paged
  <2> QED
    BY <1>14, <2>1
<1> HIDE DEF r
<1>16. Paged(r) /\ ZoomPct(r) = ZoomPct(t) /\ CurrentPage(r) = canon(b, p)
  <2>1. ViewOK(r.sv) /\ r.thumb_drag_dead \in BOOLEAN
    BY <1>15, <1>12 DEF LayoutTypes
  <2> QED
    BY <1>13, <1>15, <2>1, FramePaged
<1>17. /\ r.came = p /\ r.sent = NoPage /\ r.layout = target /\ r.view = s.view
       /\ r.landing = NoAnchor /\ r.vp_h = c.vp_h /\ r.held = c.held /\ r.pan = c.pan
  BY <1>12, <1>15 DEF Frame
<1>18. CameInReach(r)
  <2> DEFINE left == dual_page_compute_left(p)
             top_at == spread_page_top(spread_vertical_for(c, left), p, left)
  <2>1. CASE target = "Single"
    <3>1. canon(b, p) = p
      BY <1>2, <1>7, <2>1, CanonIs
    <3> QED
      BY <1>16, <1>17, <2>1, <3>1 DEF CameInReach
  <2>2. CASE target = "Spread"
    <3>1. CurrentPage(r) = left /\ dual_page_compute_left(left) = left /\ left \in BookPages
      BY <1>2, <1>7, <1>16, <2>2, PairIs DEF canon
    <3>2. c.held = p /\ -c.pan <= top_at + HeightOf(c, p)
      BY <1>8, <2>2 DEF InReach
    <3>3. ZoomPct(r) = ZoomPct(c) /\ ZoomPct(c) \in Zooms
      BY <1>12, <1>15, <1>16
    <3>4. c.vp_h \in Nat \ {0} /\ c.pan \in Int
      BY <1>9, TypesAre
    <3>5. top_at \in Nat /\ HeightOf(c, p) \in Nat
      BY <1>2, <3>1, <3>3, <3>4, PageTopIs, HeightsAre
    <3>6. HeightOf(r, p) = HeightOf(c, p)
      BY <1>17, <3>3, SameSize
    <3>7. spread_vertical_for(r, left) = spread_vertical_for(c, left)
      BY <1>17, <3>3, SameSize
    <3>8. -r.pan <= top_at + HeightOf(r, p) + 1
      <4> HIDE DEF top_at
      <4> QED
        BY <1>17, <3>2, <3>4, <3>5, <3>6
    <3> HIDE DEF left
    <3> QED
      BY <1>17, <2>2, <3>1, <3>2, <3>7, <3>8 DEF CameInReach, left
  <2> QED
    BY <1>4, <2>1, <2>2
<1>19. CarryInv(r)
  BY <1>2, <1>4, <1>17, <1>18 DEF CarryInv
<1>20. LayoutSound(r)
  BY <1>16, <1>19, PagedSound DEF KeepsPlace
<1> QED
  BY <1>4, <1>17, <1>20 DEF Changed, r

\* A switch of the layout ends in the layout it was for.
LEMMA SwitchesTo ==
    ASSUME NEW s, Unsettled(s), NEW next \in {"Single", "Spread", "Strip"}
    PROVE  switch_layout(s, next, TRUE).layout = next
<1> DEFINE at == capture_layout_carry(s)
           c == switch_layout(s, next, TRUE)
<1>1. LayoutTypes(s) /\ StripBuilt(s) /\ ZoomPct(s) \in Zooms
  BY TypesAre DEF Unsettled
<1>2. IsCarry(at)
  BY <1>1, CaptureIs
<1> HIDE DEF at
<1>3. PICK b : Between(s, b, next) /\ c = apply_layout_carry(b, at, ZoomPct(s))
  BY <1>1, SwitchIs DEF at
<1> HIDE DEF c
<1>4. LayoutTypes(b) /\ b.layout = next /\ ~has_layout(b.sv)
  BY <1>1, <1>3, BetweenIs DEF Between
<1>5. PutDown(b, c, at.page)
  BY <1>1, <1>2, <1>3, <1>4, CarriesTo
<1> QED
  BY <1>4, <1>5 DEF PutDown, Kept, c

\* apply_effective_layout and the kick, after a view command set its flags.
LEMMA ChangeSteps ==
    ASSUME NEW s, Unsettled(s), NEW c, c = apply_effective_layout(s, TRUE),
           NEW p, p = (IF s.layout = "Strip" /\ c.layout # "Strip"
                       THEN capture_layout_carry(s).page ELSE NoPage),
           NEW t, t = [c EXCEPT !.came = p, !.sent = NoPage]
    PROVE  Changed(s, kick_render(t, "Spread"))
<1> DEFINE target == effective_layout(s)
<1>1. target \in {"Single", "Spread", "Strip"} /\ s.layout \in {"Single", "Spread", "Strip"}
  BY TypesAre DEF effective_layout, Unsettled
<1>2. c = IF target # s.layout /\ "Strip" \in {target, s.layout}
          THEN switch_layout(s, target, TRUE) ELSE set_dual_page(s, target = "Spread")
  BY DEF apply_effective_layout
<1>3. CASE s.layout = "Strip" /\ target = "Strip"
  <2>1. c = s
    BY <1>2, <1>3 DEF set_dual_page
  <2>2. p = NoPage
    BY <1>3, <2>1
  <2> QED
    BY <1>3, <2>1, <2>2, StaysStrip
<1>4. CASE s.layout # "Strip" /\ target # "Strip"
  <2>1. c = set_dual_page(s, target = "Spread") /\ p = NoPage
    BY <1>2, <1>4
  <2> QED
    BY <1>4, <2>1, StaysPaged
<1>5. CASE s.layout # "Strip" /\ target = "Strip"
  <2>1. c = switch_layout(s, "Strip", TRUE) /\ p = NoPage
    BY <1>2, <1>5
  <2> QED
    BY <1>5, <2>1, EntersStrip
<1>6. CASE s.layout = "Strip" /\ target # "Strip"
  <2>1. c = switch_layout(s, target, TRUE)
    BY <1>2, <1>6
  <2>2. c.layout = target
    BY <1>1, <2>1, SwitchesTo
  <2>3. p = capture_layout_carry(s).page
    BY <1>6, <2>2
  <2> HIDE DEF target
  <2>4. target = effective_layout(s)
    BY DEF target
  <2> QED
    BY <1>6, <2>1, <2>3, <2>4, LeavesStrip
<1> QED
  BY <1>3, <1>4, <1>5, <1>6

\* Where the reader came to, and what was sent for, are the same places.
LEMMA SameCarry ==
    ASSUME NEW s, NEW t, CarryInv(s), ZoomPct(t) = ZoomPct(s), CurrentPage(t) = CurrentPage(s),
           t.layout = s.layout, t.vp_h = s.vp_h, t.pan = s.pan, t.held = s.held,
           t.landing = s.landing, t.came = s.came, t.sent = s.sent
    PROVE  CarryInv(t)
<1>1. \A p : HeightOf(t, p) = HeightOf(s, p)
  BY SameSize
<1>2. \A left : spread_vertical_for(t, left) = spread_vertical_for(s, left)
  BY SameSize
<1>3. \A p : canon(t, p) = canon(s, p)
  BY DEF canon
<1>4. CameInReach(s) => CameInReach(t)
  BY <1>1, <1>2 DEF CameInReach
<1>5. SentThere(s) => SentThere(t)
  BY <1>3 DEF SentThere
<1> QED
  BY <1>4, <1>5 DEF CarryInv

\* The flags of a view command move nothing.
Flagged(s, t, pref, b) == t = [s EXCEPT !.pref = pref, !.tab = [s.tab EXCEPT ![s.view] = b]]

LEMMA FlagsSet ==
    ASSUME NEW s, LayoutSound(s), NEW pref, NEW b, IsTab(b), b.page = Tab(s).page, b.zoom = Tab(s).zoom,
           b.pan = Tab(s).pan, b.strip_state = Tab(s).strip_state,
           NEW t, Flagged(s, t, pref, b)
    PROVE  Unsettled(t) /\ t.view = s.view /\ t.came = s.came /\ t.layout = s.layout
<1>1. LayoutTypes(s) /\ StripBuilt(s) /\ DragInStep(s) /\ PlaceHeld(s) /\ CarryInv(s)
  BY DEF LayoutSound
<1>2. IsCanvas(s) /\ DOMAIN s.tab = Docs /\ s.view \in Docs /\ Tab(s) = s.tab[s.view] /\ TabOK(Tab(s))
  BY <1>1, TypesAre
<1>3. /\ IsCanvas(t) /\ t.view = s.view /\ t.layout = s.layout /\ t.vp_h = s.vp_h
      /\ t.sv = s.sv /\ t.pan = s.pan /\ t.held = s.held /\ t.landing = s.landing
      /\ t.thumb_drag_live = s.thumb_drag_live /\ t.thumb_drag_dead = s.thumb_drag_dead
      /\ t.drag = s.drag /\ t.came = s.came /\ t.sent = s.sent /\ t.left = s.left
      /\ DOMAIN t.tab = Docs /\ t.tab[s.view] = b /\ \A d \in Docs : d # s.view => t.tab[d] = s.tab[d]
  BY <1>2 DEF IsCanvas, Flagged
<1>4. TabOK(b)
  BY <1>2 DEF TabOK, IsTab
<1>5. LayoutTypes(t)
  BY <1>1, <1>3, <1>4 DEF LayoutTypes, IsCanvas
<1>6. ZoomPct(t) = ZoomPct(s) /\ CurrentPage(t) = CurrentPage(s)
  BY <1>2, <1>3 DEF ZoomPct, CurrentPage, Tab
<1>7. StripBuilt(t) /\ DragInStep(t)
  BY <1>1, <1>3, <1>6 DEF StripBuilt, DragInStep, LayoutNow
<1>8. PlaceHeld(t)
  <2>1. \A d \in Docs : t.tab[d].strip_state = s.tab[d].strip_state
    BY <1>2, <1>3
  <2> QED
    BY <1>1, <1>3, <2>1 DEF PlaceHeld
<1>9. CarryInv(t)
  BY <1>1, <1>3, <1>6, SameCarry
<1> QED
  BY <1>3, <1>5, <1>7, <1>8, <1>9 DEF Unsettled

\* What changed the layout kept the place.
LEMMA ChangedKeeps ==
    ASSUME NEW s, NEW u, NEW t, u.view = s.view, u.came = s.came, u.layout = s.layout, Changed(u, t)
    PROVE  KeepsPlace(s, t)
BY DEF Changed, KeepsPlace, Enters, Back

\* The two commands.
LEMMA ToggleSpreadStep ==
    ASSUME LayoutSound(cv), ToggleSpread
    PROVE  KeepsPlace(cv, cv')
<1> DEFINE b == [Tab(cv) EXCEPT !.spread = ~@]
           pref == cv.pref
           s == [cv EXCEPT !.tab[cv.view].spread = ~@]
<1>1. IsCanvas(cv) /\ IsTab(Tab(cv)) /\ DOMAIN cv.tab = Docs /\ cv.view \in Docs /\ Tab(cv) = cv.tab[cv.view]
  BY TypesAre DEF LayoutSound
<1>2. IsTab(b) /\ b.page = Tab(cv).page /\ b.zoom = Tab(cv).zoom /\ b.pan = Tab(cv).pan
      /\ b.strip_state = Tab(cv).strip_state
  BY <1>1 DEF IsTab
<1>3. Flagged(cv, s, pref, b)
  BY <1>1 DEF IsCanvas, Flagged
<1>4. ChangeLayout(s)
  BY DEF ToggleSpread
<1> HIDE DEF b, s, pref
<1>5. Unsettled(s) /\ s.view = cv.view /\ s.came = cv.came /\ s.layout = cv.layout
  BY <1>2, <1>3, FlagsSet
<1>6. Changed(s, cv')
  <2> DEFINE c == apply_effective_layout(s, TRUE)
             p == IF s.layout = "Strip" /\ c.layout # "Strip"
                  THEN capture_layout_carry(s).page ELSE NoPage
             t == [c EXCEPT !.came = p, !.sent = NoPage]
  <2>1. cv' = kick_render(t, "Spread")
    BY <1>4 DEF ChangeLayout
  <2> QED
    BY <1>5, <2>1, ChangeSteps
<1> QED
  BY <1>5, <1>6, ChangedKeeps

LEMMA ToggleContinuousStep ==
    ASSUME LayoutSound(cv), ToggleContinuous
    PROVE  KeepsPlace(cv, cv')
<1> DEFINE b == [Tab(cv) EXCEPT !.spread = FALSE]
           pref == Tab(cv).spread \/ ~cv.pref
           s == [cv EXCEPT !.pref = Tab(cv).spread \/ ~@, !.tab[cv.view].spread = FALSE]
<1>1. IsCanvas(cv) /\ IsTab(Tab(cv)) /\ DOMAIN cv.tab = Docs /\ cv.view \in Docs /\ Tab(cv) = cv.tab[cv.view]
  BY TypesAre DEF LayoutSound
<1>2. IsTab(b) /\ b.page = Tab(cv).page /\ b.zoom = Tab(cv).zoom /\ b.pan = Tab(cv).pan
      /\ b.strip_state = Tab(cv).strip_state
  BY <1>1 DEF IsTab
<1>3. Flagged(cv, s, pref, b)
  BY <1>1 DEF IsCanvas, Flagged
<1>4. ChangeLayout(s)
  BY DEF ToggleContinuous
<1> HIDE DEF b, s, pref
<1>5. Unsettled(s) /\ s.view = cv.view /\ s.came = cv.came /\ s.layout = cv.layout
  BY <1>2, <1>3, FlagsSet
<1>6. Changed(s, cv')
  <2> DEFINE c == apply_effective_layout(s, TRUE)
             p == IF s.layout = "Strip" /\ c.layout # "Strip"
                  THEN capture_layout_carry(s).page ELSE NoPage
             t == [c EXCEPT !.came = p, !.sent = NoPage]
  <2>1. cv' = kick_render(t, "Spread")
    BY <1>4 DEF ChangeLayout
  <2> QED
    BY <1>5, <2>1, ChangeSteps
<1> QED
  BY <1>5, <1>6, ChangedKeeps

\* t is s as its tab was left.
Left(s, t) ==
    /\ LayoutTypes(t) /\ PlaceHeld(t)
    /\ IsCanvas(t) /\ t.view = s.view /\ t.layout = s.layout /\ t.pref = s.pref /\ t.vp_h = s.vp_h
    /\ t.sv = s.sv /\ t.pan = s.pan /\ t.held = s.held /\ t.landing = s.landing
    /\ t.thumb_drag_live = s.thumb_drag_live /\ t.thumb_drag_dead = s.thumb_drag_dead
    /\ t.drag = s.drag
    /\ \A d \in Docs : d # s.view => t.tab[d] = s.tab[d] /\ t.left[d] = s.left[d]
    /\ effective_layout(t) = effective_layout(s)
    /\ ZoomPct(t) = ZoomPct(s) /\ CurrentPage(t) = CurrentPage(s)

\* A tab that is left keeps a place on its strip, or none.
LEMMA LeaveIs ==
    ASSUME NEW s, LayoutSound(s)
    PROVE  Left(s, LeaveTab(s))
<1> DEFINE pan == IF s.layout = "Strip" THEN 0 ELSE s.pan
           state == IF strip_active(s) THEN save(s.sv) ELSE NoState
           place == IF strip_active(s) THEN [zoom |-> ZoomPct(s), vp_h |-> s.vp_h, y |-> s.sv.y]
                    ELSE NoPlace
           b == [Tab(s) EXCEPT !.pan = pan, !.strip_state = state]
           t == LeaveTab(s)
<1>1. LayoutTypes(s) /\ PlaceHeld(s)
  BY DEF LayoutSound
<1>2. /\ IsCanvas(s) /\ DOMAIN s.tab = Docs /\ s.view \in Docs /\ Tab(s) = s.tab[s.view]
      /\ TabOK(Tab(s)) /\ IsTab(Tab(s)) /\ s.pan \in Int /\ DOMAIN s.left = Docs
  BY <1>1, TypesAre DEF LayoutTypes
<1>3. t = [s EXCEPT !.tab = [s.tab EXCEPT ![s.view] = b], !.left = [s.left EXCEPT ![s.view] = place]]
  <2>1. t = [s EXCEPT !.tab[s.view].pan = pan, !.tab[s.view].strip_state = state,
                      !.left[s.view] = place]
    BY Zenon DEF LeaveTab
  <2> HIDE DEF t, pan, state, place
  <2> QED
    BY <1>2, <2>1 DEF IsCanvas, IsTab
<1>4. pan \in Int
  BY <1>2
<1>5. \/ place = NoPlace /\ state = NoState
      \/ LET l == StripLayout(PageH, place.zoom)
         IN /\ place.zoom \in Zooms /\ place.vp_h \in Nat \ {0} /\ place.y \in Int
            /\ place.y = clamp_strip_scroll(place.y, l, place.vp_h)
            /\ state = position_at(l, place.y)
  <2>1. CASE strip_active(s)
    <3>1. s.layout = "Strip"
      BY <2>1 DEF strip_active
    <3>2. ViewOn(s.sv, ZoomPct(s), s.vp_h) /\ ZoomPct(s) \in Zooms
      BY <3>1, ActiveIs
    <3>3. s.sv.y \in Int /\ s.vp_h \in Nat \ {0}
      BY <1>1, <3>2, OnIs, TypesAre
    <3>4. place = [zoom |-> ZoomPct(s), vp_h |-> s.vp_h, y |-> s.sv.y]
          /\ state = position_at(s.sv.layout, s.sv.y)
      BY <2>1 DEF save
    <3>5. s.sv.layout = StripLayout(PageH, ZoomPct(s))
          /\ s.sv.y = clamp_strip_scroll(s.sv.y, StripLayout(PageH, ZoomPct(s)), s.vp_h)
      BY <3>2 DEF ViewOn
    <3>6. place.zoom = ZoomPct(s) /\ place.vp_h = s.vp_h /\ place.y = s.sv.y
      BY <3>4
    <3> HIDE DEF place, state
    <3> QED
      BY <3>2, <3>3, <3>4, <3>5, <3>6
  <2>2. CASE ~strip_active(s)
    BY <2>2
  <2> QED
    BY <2>1, <2>2
<1> HIDE DEF pan, state, place
<1>6. /\ IsTab(b) /\ b.page = Tab(s).page /\ b.zoom = Tab(s).zoom /\ b.spread = Tab(s).spread
      /\ b.strip_state = state /\ b.pan = pan
  BY <1>2 DEF IsTab
<1> HIDE DEF b, t
<1>7. /\ IsCanvas(t) /\ t.view = s.view /\ t.layout = s.layout /\ t.pref = s.pref /\ t.vp_h = s.vp_h
      /\ t.sv = s.sv /\ t.pan = s.pan /\ t.held = s.held /\ t.landing = s.landing
      /\ t.thumb_drag_live = s.thumb_drag_live /\ t.thumb_drag_dead = s.thumb_drag_dead
      /\ t.drag = s.drag
      /\ DOMAIN t.tab = Docs /\ DOMAIN t.left = Docs /\ t.tab[s.view] = b /\ t.left[s.view] = place
      /\ \A d \in Docs : d # s.view => t.tab[d] = s.tab[d] /\ t.left[d] = s.left[d]
  BY <1>2, <1>3 DEF IsCanvas
<1>8. TabOK(b)
  BY <1>2, <1>4, <1>6 DEF TabOK, IsTab
<1>9. LayoutTypes(t)
  BY <1>1, <1>7, <1>8 DEF LayoutTypes, IsCanvas
<1>10. effective_layout(t) = effective_layout(s) /\ ZoomPct(t) = ZoomPct(s) /\ CurrentPage(t) = CurrentPage(s)
  BY <1>2, <1>6, <1>7 DEF effective_layout, ZoomPct, CurrentPage, Tab
<1>11. PlaceHeld(t)
  <2>1. t.left[s.view] = place /\ t.tab[s.view].strip_state = state
    BY <1>6, <1>7
  <2>2. ASSUME NEW d \in Docs, d # s.view
        PROVE  t.left[d] = s.left[d] /\ t.tab[d] = s.tab[d]
    BY <1>7, <2>2
  <2> QED
    BY <1>1, <1>5, <2>1, <2>2 DEF PlaceHeld
<1>12. Left(s, t)
  BY <1>7, <1>9, <1>10, <1>11 DEF Left
<1> QED
  BY <1>12 DEF t

\* A click on the tab on screen.
LEMMA SameTabSteps ==
    ASSUME NEW s, LayoutSound(s),
           NEW v, v = set_view(LeaveTab(s), s.view), NEW c, c = apply_effective_layout(v, FALSE),
           NEW t, t = [c EXCEPT !.pan = Tab(c).pan, !.came = NoPage, !.sent = NoPage]
    PROVE  KeepsPlace(s, kick_render(t, "Navigate"))
<1> DEFINE a == LeaveTab(s)
           lands == IF s.layout = "Strip" THEN s.landing ELSE NoAnchor
<1>1. Left(s, a) /\ s.layout = effective_layout(s) /\ LayoutTypes(s)
  BY LeaveIs DEF LayoutSound
<1> HIDE DEF a
<1>2. /\ IsCanvas(v) /\ v.view = s.view /\ v.layout = s.layout /\ v.pref = s.pref /\ v.vp_h = s.vp_h
      /\ v.sv = s.sv /\ v.held = s.held /\ v.landing = lands
      /\ v.thumb_drag_live = s.thumb_drag_live /\ v.thumb_drag_dead = s.thumb_drag_dead
      /\ v.drag = s.drag /\ v.tab = a.tab /\ v.left = a.left
  <2>1. CASE s.layout = "Strip"
    <3>1. v = a
      BY <1>1, <2>1 DEF set_view, Left, a
    <3> QED
      BY <1>1, <2>1, <3>1 DEF Left
  <2>2. CASE s.layout # "Strip"
    <3>1. v = [a EXCEPT !.view = s.view, !.landing = NoAnchor, !.held = a.held]
      BY <1>1, <2>2 DEF set_view, Left, a, IsCanvas
    <3> QED
      BY <1>1, <2>2, <3>1 DEF Left, IsCanvas
  <2> QED
    BY <2>1, <2>2
<1>3. effective_layout(v) = s.layout /\ ZoomPct(v) = ZoomPct(s) /\ CurrentPage(v) = CurrentPage(s)
  <2>1. effective_layout(v) = effective_layout(a) /\ ZoomPct(v) = ZoomPct(a) /\ CurrentPage(v) = CurrentPage(a)
    BY <1>1, <1>2 DEF effective_layout, ZoomPct, CurrentPage, Tab, Left
  <2> QED
    BY <1>1, <2>1 DEF Left
<1>4. c = v
  BY <1>2, <1>3 DEF apply_effective_layout, set_dual_page
<1> DEFINE pan == Tab(v).pan
<1>5. pan \in Int
  BY <1>1, <1>2 DEF Tab, Left, LayoutTypes, TabOK
<1>6. t = [v EXCEPT !.pan = pan, !.came = NoPage, !.sent = NoPage]
  BY <1>4
<1>7. s.landing = lands \/ lands = NoAnchor
  OBVIOUS
<1> HIDE DEF pan, lands
<1>8. /\ IsCanvas(t) /\ t.view = s.view /\ t.layout = s.layout /\ t.pref = s.pref /\ t.vp_h = s.vp_h
      /\ t.sv = s.sv /\ t.held = s.held /\ t.landing = lands /\ t.pan = pan
      /\ t.thumb_drag_live = s.thumb_drag_live /\ t.thumb_drag_dead = s.thumb_drag_dead
      /\ t.drag = s.drag /\ t.tab = a.tab /\ t.left = a.left /\ t.came = NoPage /\ t.sent = NoPage
  BY <1>2, <1>6 DEF IsCanvas
<1>9. effective_layout(t) = s.layout /\ ZoomPct(t) = ZoomPct(s)
  <2>1. t.view = v.view /\ t.pref = v.pref /\ t.tab = v.tab
    BY <1>2, <1>8
  <2>2. effective_layout(t) = effective_layout(v) /\ ZoomPct(t) = ZoomPct(v)
    BY <2>1 DEF effective_layout, ZoomPct, Tab
  <2> QED
    BY <1>3, <2>2
<1>10. LayoutTypes(t) /\ PlaceHeld(t)
  <2>1. AnchorOK(lands)
    BY <1>1, <1>7 DEF LayoutTypes, AnchorOK
  <2>2. LayoutTypes(t)
    BY <1>1, <1>5, <1>8, <2>1 DEF LayoutTypes, IsCanvas, Left
  <2>3. PlaceHeld(t)
    <3>1. PlaceHeld(a) /\ t.tab = a.tab /\ t.left = a.left
      BY <1>1, <1>8 DEF Left
    <3> QED
      BY <3>1, SamePlaces
  <2> QED
    BY <2>2, <2>3
<1>11. CASE s.layout = "Strip"
  <2>1. ViewOn(s.sv, ZoomPct(s), s.vp_h) /\ ZoomPct(s) \in Zooms
    BY <1>11, ActiveIs
  <2>2. /\ s.drag # <<>> => s.thumb_drag_live
        /\ s.thumb_drag_live /\ ~s.thumb_drag_dead => s.drag = LayoutNow(s)
    BY <1>11, DragIs
  <2>3. Poised(t)
    BY <1>8, <1>9, <1>10, <1>11, <2>2 DEF Poised
  <2>4. LayoutNow(t) = LayoutNow(s)
    BY <1>8 DEF LayoutNow
  <2>5. ViewOn(t.sv, ZoomPct(t), t.vp_h) /\ ZoomPct(t) \in Zooms
    BY <1>8, <1>9, <2>1
  <2>6. t.thumb_drag_live /\ ~t.thumb_drag_dead => t.drag = LayoutNow(t)
    BY <1>8, <2>2, <2>4
  <2> QED
    BY <1>8, <1>11, <2>3, <2>5, <2>6, KickKeeps
<1>12. CASE s.layout # "Strip"
  <2>1. Paged(t)
    BY <1>8, <1>9, <1>10, <1>12 DEF Paged
  <2> QED
    BY <1>8, <2>1, PagedKick
<1> QED
  BY <1>11, <1>12

\* t shows tab d of s, and nothing of the strip yet.
Away(s, t, d) ==
    /\ LayoutTypes(t) /\ PlaceHeld(t) /\ t.view = d
    /\ t.tab[d].page = s.tab[d].page /\ t.left[d] = s.left[d]
    /\ t.layout = "Strip" => ~has_layout(t.sv) /\ (t.drag # <<>> => t.thumb_drag_live)

\* set_view shows the other tab.
LEMMA ViewIsSet ==
    ASSUME NEW s, LayoutSound(s), NEW d \in Docs, d # s.view
    PROVE  Away(s, set_view(LeaveTab(s), d), d)
<1> DEFINE a == LeaveTab(s)
           v == set_view(a, d)
           sv == IF s.layout = "Strip" THEN reset(s.sv) ELSE s.sv
           dead == IF s.layout = "Strip" THEN s.thumb_drag_dead \/ s.thumb_drag_live ELSE s.thumb_drag_dead
<1>1. Left(s, a) /\ LayoutTypes(s)
  BY LeaveIs DEF LayoutSound
<1>2. s.thumb_drag_live \in BOOLEAN /\ s.thumb_drag_dead \in BOOLEAN /\ ViewOK(s.sv)
      /\ (s.layout = "Strip" /\ s.drag # <<>> => s.thumb_drag_live)
  BY <1>1, DragIs DEF LayoutTypes
<1> HIDE DEF a
<1>3. /\ IsCanvas(a) /\ a.view = s.view /\ a.layout = s.layout /\ a.sv = s.sv /\ a.drag = s.drag
      /\ a.thumb_drag_live = s.thumb_drag_live /\ a.thumb_drag_dead = s.thumb_drag_dead
      /\ a.tab[d] = s.tab[d] /\ a.left[d] = s.left[d]
  BY <1>1 DEF Left
<1>4. /\ IsCanvas(v) /\ v.view = d /\ v.layout = a.layout /\ v.vp_h = a.vp_h
      /\ v.sv = sv /\ v.pan = a.pan /\ v.held = NoPage /\ v.landing = NoAnchor
      /\ v.thumb_drag_live = a.thumb_drag_live /\ v.thumb_drag_dead = dead
      /\ v.drag = a.drag /\ v.tab = a.tab /\ v.left = a.left
  <2>1. CASE s.layout = "Strip"
    <3> DEFINE u == [a EXCEPT !.view = d, !.sv = reset(@), !.held = NoPage, !.landing = NoAnchor]
    <3>1. v = strip_end_thumb_drag(u)
      BY <1>3, <2>1 DEF set_view
    <3>2. /\ IsCanvas(u) /\ u.view = d /\ u.layout = a.layout /\ u.vp_h = a.vp_h
          /\ u.sv = reset(s.sv) /\ u.pan = a.pan /\ u.held = NoPage /\ u.landing = NoAnchor
          /\ u.thumb_drag_live = a.thumb_drag_live /\ u.thumb_drag_dead = s.thumb_drag_dead
          /\ u.drag = a.drag /\ u.tab = a.tab /\ u.left = a.left
      BY <1>3 DEF IsCanvas
    <3> HIDE DEF u
    <3>3. v = [u EXCEPT !.thumb_drag_dead = s.thumb_drag_dead \/ s.thumb_drag_live]
      BY <1>3, <3>1, <3>2 DEF strip_end_thumb_drag
    <3>4. dead = (s.thumb_drag_dead \/ s.thumb_drag_live) /\ sv = reset(s.sv)
      BY <2>1
    <3>5. v = [u EXCEPT !.thumb_drag_dead = dead]
      BY <3>3, <3>4
    <3> HIDE DEF v, dead, sv
    <3> QED
      BY <3>2, <3>4, <3>5 DEF IsCanvas
  <2>2. CASE s.layout # "Strip"
    <3>1. v = [a EXCEPT !.view = d, !.landing = NoAnchor, !.held = NoPage]
      BY <1>3, <2>2 DEF set_view, IsCanvas
    <3>2. sv = a.sv /\ dead = a.thumb_drag_dead
      BY <1>3, <2>2
    <3> HIDE DEF v, dead, sv
    <3> QED
      BY <1>3, <3>1, <3>2 DEF IsCanvas
  <2> QED
    BY <2>1, <2>2
<1>5. /\ ViewOK(sv) /\ dead \in BOOLEAN
      /\ s.layout = "Strip" => ~has_layout(sv)
  BY <1>2, ResetIs
<1> HIDE DEF v, sv, dead
<1>6. LayoutTypes(v)
  BY <1>1, <1>2, <1>4, <1>5 DEF LayoutTypes, IsCanvas, Left, AnchorOK
<1>7. PlaceHeld(v)
  BY <1>1, <1>4 DEF PlaceHeld, Left
<1>8. Away(s, v, d)
  BY <1>2, <1>3, <1>4, <1>5, <1>6, <1>7 DEF Away
<1> QED
  BY <1>8 DEF v, a

\* The layout that the tab wants, entered without a carry.
LEMMA AwayLaidOut ==
    ASSUME NEW s, NEW d \in Docs, NEW v, Away(s, v, d)
    PROVE  LET c == apply_effective_layout(v, FALSE)
           IN Away(s, c, d) /\ c.layout = effective_layout(c)
<1> DEFINE target == effective_layout(v)
           c == apply_effective_layout(v, FALSE)
<1>1. LayoutTypes(v) /\ PlaceHeld(v) /\ v.layout \in {"Single", "Spread", "Strip"} /\ IsCanvas(v)
  BY TypesAre DEF Away
<1>2. target \in {"Single", "Spread", "Strip"}
  BY DEF effective_layout
<1>3. c = IF target # v.layout /\ "Strip" \in {target, v.layout}
          THEN switch_layout(v, target, FALSE) ELSE set_dual_page(v, target = "Spread")
  BY DEF apply_effective_layout
<1>4. CASE target = v.layout
  <2>1. c = v
    BY <1>3, <1>4 DEF set_dual_page
  <2> QED
    BY <1>4, <2>1
<1>5. CASE target # v.layout /\ target # "Strip" /\ v.layout # "Strip"
  <2>1. c = [v EXCEPT !.layout = target, !.pan = 0, !.held = NoPage]
    BY <1>1, <1>2, <1>3, <1>5 DEF set_dual_page
  <2>2. target # "Strip"
    BY <1>5
  <2> HIDE DEF c, target
  <2>3. /\ IsCanvas(c) /\ c.layout = target /\ c.view = v.view /\ c.pref = v.pref /\ c.vp_h = v.vp_h
        /\ c.sv = v.sv /\ c.pan = 0 /\ c.held = NoPage /\ c.landing = v.landing /\ c.tab = v.tab
        /\ c.thumb_drag_live = v.thumb_drag_live /\ c.thumb_drag_dead = v.thumb_drag_dead
        /\ c.left = v.left
    BY <1>1, <2>1 DEF IsCanvas
  <2>4. LayoutTypes(c)
    BY <1>1, <1>2, <2>3 DEF LayoutTypes, IsCanvas
  <2>5. effective_layout(c) = target /\ PlaceHeld(c)
    BY <1>1, <2>3 DEF effective_layout, Tab, PlaceHeld, target
  <2>6. Away(s, c, d) /\ c.layout = effective_layout(c)
    BY <2>2, <2>3, <2>4, <2>5 DEF Away
  <2> QED
    BY <2>6 DEF c
<1>6. CASE target # v.layout /\ "Strip" \in {target, v.layout}
  <2>1. c = switch_layout(v, target, FALSE)
    BY <1>3, <1>6
  <2> HIDE DEF c
  <2>2. Between(v, c, target)
    BY <1>1, <1>2, <2>1, SwitchIs
  <2>3. LayoutTypes(c) /\ effective_layout(c) = target /\ PlaceHeld(c)
    BY <1>1, <1>2, <2>2, BetweenIs
  <2>4. c.view = v.view /\ c.tab = v.tab /\ c.left = v.left /\ ~has_layout(c.sv) /\ c.drag = <<>>
        /\ c.layout = target
    BY <2>2 DEF Between
  <2>5. Away(s, c, d) /\ c.layout = effective_layout(c)
    BY <2>3, <2>4 DEF Away
  <2> QED
    BY <2>5 DEF c
<1> QED
  BY <1>4, <1>5, <1>6

\* Another tab: in the strip its place is brought back, or its page pinned.
LEMMA OtherTabSteps ==
    ASSUME NEW s, LayoutSound(s), NEW d \in Docs, d # s.view,
           NEW v, v = set_view(LeaveTab(s), d), NEW c, c = apply_effective_layout(v, FALSE),
           NEW t, t = [c EXCEPT !.pan = Tab(c).pan, !.came = NoPage, !.sent = NoPage]
    PROVE  KeepsPlace(s, kick_render(t, "TabSwitch"))
<1> DEFINE pan == Tab(c).pan
           r == kick_render(t, "TabSwitch")
<1>1. Away(s, v, d)
  BY ViewIsSet
<1>2. Away(s, c, d) /\ c.layout = effective_layout(c)
  BY <1>1, AwayLaidOut
<1>3. IsCanvas(c) /\ pan \in Int /\ LayoutTypes(c) /\ PlaceHeld(c)
  BY <1>2, TypesAre DEF Away, TabOK
<1>4. t = [c EXCEPT !.pan = pan, !.came = NoPage, !.sent = NoPage]
  OBVIOUS
<1> HIDE DEF pan
<1>5. /\ IsCanvas(t) /\ t.view = c.view /\ t.layout = c.layout /\ t.pref = c.pref /\ t.vp_h = c.vp_h
      /\ t.sv = c.sv /\ t.pan = pan /\ t.held = c.held /\ t.landing = c.landing /\ t.tab = c.tab
      /\ t.thumb_drag_live = c.thumb_drag_live /\ t.thumb_drag_dead = c.thumb_drag_dead
      /\ t.drag = c.drag /\ t.left = c.left /\ t.came = NoPage /\ t.sent = NoPage
  BY <1>3, <1>4 DEF IsCanvas
<1>6. LayoutTypes(t)
  BY <1>3, <1>5 DEF LayoutTypes, IsCanvas
<1>7. PlaceHeld(t) /\ t.layout = effective_layout(t)
  <2>1. t.view = c.view /\ t.pref = c.pref /\ t.layout = c.layout /\ t.tab = c.tab /\ t.left = c.left
    BY <1>5
  <2>2. PlaceHeld(t)
    BY <1>3, <2>1, SamePlaces
  <2>3. effective_layout(t) = effective_layout(c)
    BY <2>1 DEF effective_layout, Tab
  <2> QED
    BY <1>2, <2>1, <2>2, <2>3
<1>8. /\ t.view = d /\ CurrentPage(t) = s.tab[d].page /\ t.left[d] = s.left[d]
      /\ t.layout = "Strip" => ~has_layout(t.sv) /\ (t.drag # <<>> => t.thumb_drag_live)
  BY <1>2, <1>5 DEF Away, CurrentPage, Tab
<1>9. CASE t.layout # "Strip"
  <2>1. Paged(t)
    BY <1>6, <1>7, <1>9 DEF Paged
  <2> QED
    BY <1>5, <2>1, PagedKick
<1>10. CASE t.layout = "Strip"
  <2> DEFINE was == s.left[d]
             state == Tab(t).strip_state
             z == ZoomPct(r)
  <2>1. Poised(t) /\ ~has_layout(t.sv)
    BY <1>5, <1>6, <1>7, <1>8, <1>10 DEF Poised
  <2>2. LayoutSound(r) /\ KickedTo(t, r, "TabSwitch")
    BY <2>1, KickSound
  <2>3. /\ r.view = d /\ r.layout = "Strip" /\ r.vp_h = t.vp_h
    BY <1>8, <1>10, <2>2 DEF KickedTo, Frame
  <2>4. /\ z = KickZoom(t, "TabSwitch") /\ z \in Zooms /\ r.vp_h \in Nat \ {0}
    <3>1. r.view = t.view /\ r.vp_h \in Nat \ {0}
      BY <2>2, TypesAre DEF KickedTo, Frame, LayoutSound
    <3>2. /\ r.tab[t.view].zoom = KickZoom(t, "TabSwitch")
          /\ KickZoom(t, "TabSwitch") \in Zooms
      BY <2>2 DEF KickedTo, Retabbed, Replaced
    <3> QED
      BY <3>1, <3>2 DEF ZoomPct, Tab
  <2>5. /\ state = NoState => r.sv.current = s.tab[d].page
        /\ state # NoState => r.sv.y = relayout_scroll(state, StripLayout(PageH, z), r.vp_h)
    <3>1. state = NoState => r.sv.current = CurrentPage(t)
      BY <2>1, <2>2 DEF KickedTo, Restores, Pinned
    <3>2. state # NoState => r.sv.y = relayout_scroll(state, StripLayout(PageH, z), r.vp_h)
      BY <2>2, <2>3, <2>4 DEF KickedTo, Restores
    <3> QED
      BY <1>8, <3>1, <3>2
  <2>6. \/ was = NoPlace /\ state = NoState
        \/ LET l == StripLayout(PageH, was.zoom)
           IN /\ was.zoom \in Zooms /\ was.vp_h \in Nat \ {0} /\ was.y \in Int
              /\ was.y = clamp_strip_scroll(was.y, l, was.vp_h)
              /\ state = position_at(l, was.y)
    BY <1>7, <1>8 DEF PlaceHeld, Tab
  <2> HIDE DEF was, state, z, r
  <2>7. was = NoPlace => r.sv.current = s.tab[d].page
    <3>1. NoPlace.zoom \notin Zooms
      BY LayoutConstants DEF NoPlace
    <3> QED
      BY <2>5, <2>6, <3>1
  <2>8. ASSUME was # NoPlace, was.zoom = z, was.vp_h = r.vp_h
        PROVE  r.sv.y = was.y
    <3> DEFINE l == StripLayout(PageH, z)
    <3>1. /\ was.vp_h \in Nat \ {0} /\ was.y \in Int
          /\ was.y = clamp_strip_scroll(was.y, l, was.vp_h)
          /\ state = position_at(l, was.y)
      BY <2>6, <2>8
    <3>2. LayoutOK(l)
      BY <2>4, LayoutTyped
    <3> HIDE DEF l
    <3>3. state.kind # "None"
      BY <3>1, <3>2, PositionPage
    <3>4. state # NoState
      BY <3>3 DEF NoState
    <3>5. r.sv.y = relayout_scroll(state, l, r.vp_h)
      BY <2>5, <3>4 DEF l
    <3>6. relayout_scroll(position_at(l, was.y), l, was.vp_h) = was.y
      BY <3>1, <3>2, PlaceReturns
    <3> QED
      BY <2>8, <3>1, <3>5, <3>6
  <2>9. Back(s, r) /\ Enters(s, r)
    BY <2>3, <2>7, <2>8 DEF Back, Enters, was, z
  <2> QED
    BY <2>2, <2>9 DEF KeepsPlace, r
<1> QED
  BY <1>9, <1>10

\* The canvas starts on the first page of a tab, in the single layout.
LEMMA StartSound ==
    ASSUME NEW d \in Docs, NEW h \in Heights, NEW s, IsCanvas(s),
           s.view = d, s.layout = "Single", s.pref = FALSE, s.vp_h = h, s.sv = NewViewport(h),
           s.pan = 0, s.held = NoPage, s.landing = NoAnchor,
           s.thumb_drag_live = FALSE, s.thumb_drag_dead = FALSE,
           s.tab = [t \in Docs |-> [page |-> 0, zoom |-> FitZoom.Single, fit |-> TRUE,
                                    spread |-> FALSE, pan |-> 0, strip_state |-> NoState]],
           s.came = NoPage, s.sent = NoPage, s.left = [t \in Docs |-> NoPlace]
    PROVE  LayoutSound(s)
<1>1. h \in Nat \ {0} /\ FitZoom.Single \in Zooms /\ 0 \in BookPages
  BY LayoutConstants, PagesAre
<1>2. ViewOK(NewViewport(h))
  BY <1>1 DEF ViewOK, NewViewport
<1>3. /\ DOMAIN s.tab = Docs /\ DOMAIN s.left = Docs
      /\ \A t \in Docs : TabOK(s.tab[t]) /\ s.tab[t].spread = FALSE
      /\ \A t \in Docs : s.left[t] = NoPlace /\ s.tab[t].strip_state = NoState
  BY <1>1 DEF TabOK
<1>4. LayoutTypes(s)
  <2>1. s.thumb_drag_live \in BOOLEAN /\ s.thumb_drag_dead \in BOOLEAN
    OBVIOUS
  <2>2. /\ s.view \in Docs /\ s.layout \in {"Single", "Spread", "Strip"}
        /\ s.vp_h \in Nat \ {0} /\ s.pan \in Int /\ s.held \in BookPages \cup {NoPage}
        /\ AnchorOK(s.landing) /\ ViewOK(s.sv)
    BY <1>1, <1>2 DEF AnchorOK
  <2> QED
    BY <1>3, <2>1, <2>2 DEF LayoutTypes, IsCanvas
<1>5. PlaceHeld(s)
  BY <1>3 DEF PlaceHeld
<1>6. effective_layout(s) = "Single"
  BY <1>3 DEF effective_layout, Tab
<1> QED
  BY <1>4, <1>5, <1>6 DEF LayoutSound, StripBuilt, DragInStep, PageInStep, CarryInv

LEMMA LayoutStarts == LayoutInit => LayoutSound(cv)
BY StartSound DEF LayoutInit, IsCanvas

LEMMA StripIsActive ==
    ASSUME NEW s, LayoutSound(s)
    PROVE  strip_active(s) <=> s.layout = "Strip"
BY ActiveIs DEF strip_active

\* Every step keeps the invariant and the reader's place.
LEMMA LayoutSteps ==
    ASSUME LayoutSound(cv), LayoutNext
    PROVE  KeepsPlace(cv, cv')
<1>1. strip_active(cv) <=> cv.layout = "Strip"
  BY StripIsActive
<1>2. cv.layout \in {"Single", "Spread", "Strip"} /\ ZoomPct(cv) \in Zooms
  BY TypesAre DEF LayoutSound
<1>3. CASE ToggleSpread
  BY <1>3, ToggleSpreadStep
<1>4. CASE ToggleContinuous
  BY <1>4, ToggleContinuousStep
<1>5. ASSUME NEW d \in Docs, on_tab_switch(d) PROVE KeepsPlace(cv, cv')
  <2> DEFINE v == set_view(LeaveTab(cv), d)
             c == apply_effective_layout(v, FALSE)
             t == [c EXCEPT !.pan = Tab(c).pan, !.came = NoPage, !.sent = NoPage]
  <2>1. cv' = kick_render(t, IF d = cv.view THEN "Navigate" ELSE "TabSwitch")
    BY <1>5 DEF on_tab_switch
  <2>2. CASE d = cv.view
    <3>1. cv' = kick_render(t, "Navigate") /\ v = set_view(LeaveTab(cv), cv.view)
      BY <2>1, <2>2
    <3> QED
      BY <3>1, SameTabSteps
  <2>3. CASE d # cv.view
    <3>1. cv' = kick_render(t, "TabSwitch")
      BY <2>1, <2>3
    <3> QED
      BY <2>3, <3>1, OtherTabSteps
  <2> QED
    BY <2>2, <2>3
<1>6. ASSUME NEW dy \in {Step, -Step}, Scroll(dy) PROVE KeepsPlace(cv, cv')
  <2>1. dy \in Int
    BY LayoutConstants
  <2>2. CASE cv.layout = "Strip"
    BY <1>1, <1>6, <2>1, <2>2, ScrollSteps DEF Scroll
  <2>3. CASE cv.layout # "Strip"
    BY <1>1, <1>6, <2>1, <2>3, PanSteps DEF Scroll
  <2> QED
    BY <2>2, <2>3
<1>7. CASE HomeKey
  <2>1. 0 \in BookPages
    BY PagesAre
  <2> QED
    BY <1>1, <1>7, <2>1, PinSteps DEF HomeKey
<1>8. CASE EndKey
  <2>1. cv.layout = "Strip"
    BY <1>1, <1>8 DEF EndKey
  <2>2. Total - 1 \in BookPages
    BY PagesAre DEF Total, BookPages
  <2>3. total_height(cv.sv.layout) \in Int
    <3>1. ViewOn(cv.sv, ZoomPct(cv), cv.vp_h)
      BY <2>1, ActiveIs
    <3>2. LayoutOK(cv.sv.layout)
      BY <1>2, <3>1, OnIs
    <3> QED
      BY <3>2 DEF LayoutOK, total_height
  <2> QED
    BY <1>8, <2>1, <2>2, <2>3, PinSteps DEF EndKey
<1>9. ASSUME NEW p \in BookPages, navigate_click(p) PROVE KeepsPlace(cv, cv')
  <2>1. CASE cv.layout = "Strip"
    BY <1>1, <1>9, <2>1, NavigateSteps DEF navigate_click
  <2>2. CASE cv.layout # "Strip"
    <3> DEFINE moves == canon(cv, p) # canon(cv, CurrentPage(cv))
    <3>1. cv' = kick_render(SetPage([Moved(cv) EXCEPT !.landing = IF moves THEN TopAnchor ELSE @,
                                                      !.held = IF moves THEN NoPage ELSE @], p),
                            "Navigate")
      BY <1>1, <1>9, <2>2 DEF navigate_click
    <3>2. moves \in BOOLEAN
      OBVIOUS
    <3> HIDE DEF moves
    <3> QED
      BY <2>2, <3>1, <3>2, TurnSteps
  <2> QED
    BY <2>1, <2>2
<1>10. ASSUME NEW hit \in Hits, scroll_into_view(hit) PROVE KeepsPlace(cv, cv')
  <2>1. CASE cv.layout = "Strip"
    BY <1>1, <1>10, <2>1, HitSteps DEF scroll_into_view
  <2>2. CASE cv.layout # "Strip"
    <3> DEFINE m == Moved(SetPage(cv, canon(cv, hit.page)))
               u == [m EXCEPT !.landing = HitAnchor(hit), !.sent = hit.page,
                              !.held = IF cv.layout = "Spread" THEN hit.page ELSE NoPage]
    <3>1. \/ cv' = kick_render(u, "Navigate")
          \/ cv' = kick_render(IF quad_fully_visible(m, hit) THEN m
                               ELSE [u EXCEPT !.pan = pan_y_for_hit(m, hit)], "Navigate")
      BY <1>1, <1>10, <2>2 DEF scroll_into_view
    <3>2. /\ KeepsPlace(cv, kick_render(m, "Navigate"))
          /\ KeepsPlace(cv, kick_render(u, "Navigate"))
          /\ KeepsPlace(cv, kick_render([u EXCEPT !.pan = pan_y_for_hit(m, hit)], "Navigate"))
      BY <2>2, FindSteps
    <3> HIDE DEF m, u
    <3> QED
      BY <3>1, <3>2
  <2> QED
    BY <2>1, <2>2
<1>11. CASE PagedLands
  BY <1>11, LandSteps DEF PagedLands
<1>12. ASSUME NEW z \in Zooms, Zoom(z) PROVE KeepsPlace(cv, cv')
  BY <1>12, ZoomIs DEF Zoom
<1>13. CASE ZoomReset
  <2>1. FitZoom[cv.layout] \in Zooms
    BY <1>2, LayoutConstants
  <2> QED
    BY <1>13, <2>1, ZoomIs DEF ZoomReset
<1>14. ASSUME NEW h \in Heights, Resize(h) PROVE KeepsPlace(cv, cv')
  BY <1>14, ResizeSteps DEF Resize
<1>15. ASSUME NEW pos \in {0, 9, 1000}, Track(pos) PROVE KeepsPlace(cv, cv')
  <2> DEFINE t == [cv EXCEPT !.thumb_drag_live = TRUE,
                             !.drag = IF @ = <<>> THEN LayoutNow(cv) ELSE @]
  <2>1. cv.layout = "Strip"
    BY <1>1, <1>15 DEF Track
  <2>2. cv' = Tracked(cv, t, pos)
    BY <1>15, Zenon DEF Track, Tracked
  <2>3. Dragging(cv, t)
    BY DEF Dragging
  <2> HIDE DEF t
  <2> QED
    BY <2>1, <2>2, <2>3, TrackSteps
<1>16. CASE EndScroll
  BY <1>1, <1>16, EndScrollSteps DEF EndScroll
<1> QED
  BY <1>3, <1>4, <1>5, <1>6, <1>7, <1>8, <1>9, <1>10, <1>11, <1>12, <1>13, <1>14, <1>15, <1>16
     DEF LayoutNext, BookPages

\* The canvas is sound in every state: the strip is that of the view's zoom and of
\* the window, the thumb's drag is one of this layout or dead, every tab's place
\* is one its strip had, and the reader is on the page they were brought to.
THEOREM LayoutIsSound == LayoutSpec => []LayoutSound(cv)
<1>1. LayoutInit => LayoutSound(cv)
  BY LayoutStarts
<1>2. LayoutSound(cv) /\ [LayoutNext]_cv => LayoutSound(cv)'
  <2> SUFFICES ASSUME LayoutSound(cv), [LayoutNext]_cv PROVE LayoutSound(cv')
    OBVIOUS
  <2>1. CASE LayoutNext
    BY <2>1, LayoutSteps DEF KeepsPlace
  <2>2. CASE UNCHANGED cv
    BY <2>2
  <2> QED
    BY <2>1, <2>2
<1> QED
  BY <1>1, <1>2, PTL DEF LayoutSpec

\* The thumb of a drag and the current page go with the layout on screen
\* (strip_end_thumb_drag, strip_after_change), for every document, window and zoom.
THEOREM StripAlwaysInStep == LayoutSpec => []StripInStep
<1>1. LayoutSound(cv) => StripInStep
  <2> SUFFICES ASSUME LayoutSound(cv) PROVE StripInStep
    OBVIOUS
  <2>1. ThumbOfThisLayout
    BY StripIsActive DEF ThumbOfThisLayout, LayoutSound, DragInStep
  <2>2. PageFollowsScroll
    BY StripIsActive DEF PageFollowsScroll, LayoutSound, PageInStep
  <2> QED
    BY <2>1, <2>2 DEF StripInStep
<1> QED
  BY <1>1, LayoutIsSound, PTL

\* A reader is carried back to the page that the strip carried them to, and a tab
\* comes back to the strip where it was left (apply_layout_carry, on_tab_switch).
THEOREM PlaceAlwaysKept == LayoutSpec => PlaceKept
<1>1. LayoutSound(cv) /\ [LayoutNext]_cv => [EntersWhereItCame /\ ComesBack]_cv
  <2> SUFFICES ASSUME LayoutSound(cv), LayoutNext PROVE EntersWhereItCame /\ ComesBack
    OBVIOUS
  <2>1. Enters(cv, cv') /\ Back(cv, cv')
    BY LayoutSteps DEF KeepsPlace
  <2>2. EntersWhereItCame
    BY <2>1 DEF Enters, EntersWhereItCame
  <2>3. ComesBack
    BY <2>1, Zenon DEF Back, ComesBack
  <2> QED
    BY <2>2, <2>3
<1> QED
  BY <1>1, LayoutIsSound, PTL DEF LayoutSpec, PlaceKept
=============================================================================
