-------------------------- MODULE PageCache_proofs --------------------------
(***************************************************************************)
(* What the operators of PageCache do, for any capacities and objects.     *)
(***************************************************************************)
EXTENDS PageCache, DataTheorems

-----------------------------------------------------------------------------
(* Order lists.                                                            *)

\* An order list names every key of its map once.
Listed(lru, map) == lru \in Seq(DOMAIN map) /\ IsInjective(lru) /\ ToSet(lru) = DOMAIN map

LEMMA ListedNames ==
    ASSUME NEW lru, NEW map, Listed(lru, map)
    PROVE  /\ IsFiniteSet(DOMAIN map) /\ Cardinality(DOMAIN map) = Len(lru)
           /\ Len(lru) \in Nat
<1>1. Len(lru) \in Nat /\ lru \in [1..Len(lru) -> DOMAIN map] /\ DOMAIN lru = 1..Len(lru)
  BY LenProperties DEF Listed
<1>2. lru \in Bijection(1..Len(lru), DOMAIN map)
  BY <1>1 DEF Listed, ToSet, IsInjective, Bijection, Injection, Surjection
<1>3. ExistsBijection(1..Len(lru), DOMAIN map)
  BY <1>2 DEF ExistsBijection
<1> QED
  BY <1>1, <1>3, FS_CountingElements, FS_NatBijection

LEMMA ToSetHas ==
    ASSUME NEW s, NEW i \in DOMAIN s
    PROVE  s[i] \in ToSet(s)
BY DEF ToSet

\* A new key in front.
LEMMA PushedIs ==
    ASSUME NEW X, NEW lru \in Seq(X), IsInjective(lru), NEW k \in X, k \notin ToSet(lru)
    PROVE  /\ <<k>> \o lru \in Seq(X) /\ IsInjective(<<k>> \o lru)
           /\ ToSet(<<k>> \o lru) = ToSet(lru) \cup {k}
<1>2. /\ <<k>> \o lru \in Seq(X) /\ Len(lru) \in Nat
      /\ DOMAIN (<<k>> \o lru) = 1..Len(lru) + 1 /\ DOMAIN lru = 1..Len(lru)
      /\ (<<k>> \o lru)[1] = k
      /\ \A i \in 1..Len(lru) : (<<k>> \o lru)[i + 1] = lru[i]
  OBVIOUS
<1>3. \A i \in 1..Len(lru) + 1 : i = 1 \/ (i - 1 \in 1..Len(lru) /\ (<<k>> \o lru)[i] = lru[i - 1])
  BY <1>2
<1>4. \A i \in 1..Len(lru) : lru[i] # k
  BY <1>2 DEF ToSet
<1>5. IsInjective(<<k>> \o lru)
  <2> SUFFICES ASSUME NEW a \in 1..Len(lru) + 1, NEW b \in 1..Len(lru) + 1,
                      (<<k>> \o lru)[a] = (<<k>> \o lru)[b]
               PROVE  a = b
    BY <1>2 DEF IsInjective
  <2>1. CASE a = 1 \/ b = 1
    BY <1>2, <1>3, <1>4, <2>1
  <2>2. CASE a # 1 /\ b # 1
    <3>1. /\ a - 1 \in 1..Len(lru) /\ b - 1 \in 1..Len(lru)
          /\ lru[a - 1] = lru[b - 1]
      BY <1>3, <2>2
    <3>2. a - 1 = b - 1
      BY <1>2, <3>1 DEF IsInjective
    <3> QED
      BY <3>2
  <2> QED
    BY <2>1, <2>2
<1>6. ToSet(<<k>> \o lru) = {k} \cup ToSet(lru)
  <2>1. \A i \in 1..Len(lru) + 1 : (<<k>> \o lru)[i] \in {k} \cup ToSet(lru)
    BY <1>2, <1>3 DEF ToSet
  <2>2. \A i \in 1..Len(lru) : i + 1 \in 1..Len(lru) + 1 /\ (<<k>> \o lru)[i + 1] = lru[i]
    BY <1>2
  <2>3. 1 \in 1..Len(lru) + 1
    BY <1>2
  <2>4. ToSet(<<k>> \o lru) \subseteq {k} \cup ToSet(lru)
    BY <1>2, <2>1 DEF ToSet
  <2>5. k \in ToSet(<<k>> \o lru)
    BY <1>2, <2>3 DEF ToSet
  <2>6. ASSUME NEW i \in 1..Len(lru) PROVE lru[i] \in ToSet(<<k>> \o lru)
    <3>1. i + 1 \in DOMAIN (<<k>> \o lru) /\ (<<k>> \o lru)[i + 1] = lru[i]
      BY <1>2, <2>2
    <3> QED
      BY <3>1, ToSetHas
  <2>7. ToSet(lru) \subseteq ToSet(<<k>> \o lru)
    BY <1>2, <2>6 DEF ToSet
  <2> QED
    BY <2>4, <2>5, <2>7
<1> QED
  BY <1>2, <1>5, <1>6

\* A key, in the list or not, moved to the front.
LEMMA TouchIs ==
    ASSUME NEW X, NEW lru \in Seq(X), IsInjective(lru), NEW k \in X
    PROVE  /\ Touch(lru, k) \in Seq(X) /\ IsInjective(Touch(lru, k))
           /\ ToSet(Touch(lru, k)) = ToSet(lru) \cup {k}
<1> DEFINE rest == Only(lru, ToSet(lru) \ {k})
<1>1. rest \in Seq(X) /\ IsInjective(rest) /\ ToSet(rest) = ToSet(lru) \ {k}
  <2>1. /\ rest \in Seq(X) /\ ToSet(rest) = ToSet(lru) \cap (ToSet(lru) \ {k})
        /\ IsInjective(lru) => IsInjective(rest)
    BY OnlyIs
  <2> QED
    BY <2>1
<1>2. Touch(lru, k) = <<k>> \o rest
  BY DEF Touch
<1> HIDE DEF rest
<1>3. /\ <<k>> \o rest \in Seq(X) /\ IsInjective(<<k>> \o rest)
      /\ ToSet(<<k>> \o rest) = ToSet(rest) \cup {k}
  <2>1. k \notin ToSet(rest)
    BY <1>1
  <2> QED
    BY <1>1, <2>1, PushedIs
<1> QED
  BY <1>1, <1>2, <1>3

\* The n most recent stay, and the evicted keys are the others.
LEMMA PrefixIs ==
    ASSUME NEW X, NEW lru \in Seq(X), IsInjective(lru), NEW n \in 0..Len(lru)
    PROVE  /\ SubSeq(lru, 1, n) \in Seq(X) /\ IsInjective(SubSeq(lru, 1, n))
           /\ ToSet(SubSeq(lru, 1, n)) = ToSet(lru) \ Evicted(lru, n)
           /\ Evicted(lru, n) \subseteq ToSet(lru)
<1>1. /\ Len(lru) \in Nat /\ DOMAIN lru = 1..Len(lru) /\ n \in Nat /\ n <= Len(lru)
  BY LenProperties
<1>2. /\ SubSeq(lru, 1, n) \in Seq(X) /\ DOMAIN SubSeq(lru, 1, n) = 1..n
      /\ \A i \in 1..n : SubSeq(lru, 1, n)[i] = lru[i]
  BY <1>1
<1>3. 1..n \subseteq 1..Len(lru) /\ (n + 1)..Len(lru) = (1..Len(lru)) \ (1..n)
  BY <1>1
<1>4. IsInjective(SubSeq(lru, 1, n))
  BY <1>1, <1>2, <1>3 DEF IsInjective
<1>5. ToSet(SubSeq(lru, 1, n)) = {lru[i] : i \in 1..n}
  BY <1>2 DEF ToSet
<1>6. {lru[i] : i \in 1..n} = ToSet(lru) \ Evicted(lru, n)
  BY <1>1, <1>3 DEF ToSet, IsInjective, Evicted
<1> QED
  BY <1>1, <1>2, <1>3, <1>4, <1>5, <1>6 DEF Evicted, ToSet

-----------------------------------------------------------------------------
(* L1: its order list, its map and its byte count.                         *)

ObjectsIn(map) == PixOf(map, DOMAIN map)

OneKey(map) == \A a, b \in DOMAIN map : map[a].pix = map[b].pix => a = b

Tier1(lru, map, bytes) ==
    /\ Listed(lru, map)
    /\ \A k \in DOMAIN map : map[k].bytes \in Nat /\ map[k].pix \in Pixmaps
    /\ OneKey(map)
    /\ bytes = BytesIn(map, DOMAIN map)

\* The map with e stored under k.
Stored(map, k, e) == [x \in DOMAIN map \cup {k} |-> IF x = k THEN e ELSE map[x]]

LEMMA WithoutIs ==
    ASSUME NEW map, NEW K
    PROVE  /\ DOMAIN Without(map, K) = DOMAIN map \ K
           /\ \A k \in DOMAIN map \ K : Without(map, K)[k] = map[k]
BY DEF Without, Restrict

LEMMA Weighs ==
    ASSUME NEW lru, NEW map, NEW bytes, Tier1(lru, map, bytes)
    PROVE  /\ IsFiniteSet(DOMAIN map) /\ Cardinality(DOMAIN map) \in Nat /\ bytes \in Nat
           /\ Weighed(map, DOMAIN map)
<1>1. IsFiniteSet(DOMAIN map) /\ Cardinality(DOMAIN map) \in Nat
  BY ListedNames DEF Tier1
<1>2. Weighed(map, DOMAIN map)
  BY <1>1 DEF Weighed, Tier1
<1> QED
  BY <1>1, <1>2, SumRemove DEF Tier1

LEMMA BytesOfIs ==
    ASSUME NEW map, NEW K, K \subseteq DOMAIN map
    PROVE  BytesOf(map, K) = BytesIn(map, K)
<1>1. K \cap DOMAIN map = K
  OBVIOUS
<1> QED
  BY <1>1 DEF BytesOf, BytesIn

\* Some entries leave.
LEMMA TierLess ==
    ASSUME NEW lru, NEW map, NEW bytes, Tier1(lru, map, bytes),
           NEW K, K \subseteq DOMAIN map,
           NEW lru2, lru2 \in Seq(DOMAIN map), IsInjective(lru2), ToSet(lru2) = DOMAIN map \ K
    PROVE  /\ Tier1(lru2, Without(map, K), bytes - BytesOf(map, K))
           /\ ObjectsIn(Without(map, K)) = ObjectsIn(map) \ PixOf(map, K)
           /\ PixOf(map, K) \subseteq ObjectsIn(map)
<1> DEFINE left == Without(map, K)
<1>1. DOMAIN left = DOMAIN map \ K /\ \A k \in DOMAIN left : left[k] = map[k]
  BY WithoutIs
<1>2. BytesIn(map, DOMAIN map \ K) = bytes - BytesOf(map, K)
  <2>1. Weighed(map, DOMAIN map) /\ bytes = BytesIn(map, DOMAIN map)
    BY Weighs DEF Tier1
  <2>2. /\ BytesIn(map, DOMAIN map) = BytesIn(map, DOMAIN map \ K) + BytesIn(map, K)
        /\ BytesIn(map, DOMAIN map \ K) \in Nat /\ BytesIn(map, K) \in Nat
    BY <2>1, SumSplit
  <2>3. BytesOf(map, K) = BytesIn(map, K)
    BY BytesOfIs
  <2> QED
    BY <2>1, <2>2, <2>3
<1>3. BytesIn(left, DOMAIN left) = BytesIn(map, DOMAIN left)
  <2>1. IsFiniteSet(DOMAIN left)
    BY <1>1, Weighs, FS_Subset
  <2> QED
    BY <1>1, <2>1, SumSame
<1>4. Listed(lru2, left)
  <2>1. lru2 \in Seq(DOMAIN map \ K)
    <3>1. \A i \in 1..Len(lru2) : lru2[i] \in DOMAIN map \ K
      BY LenProperties DEF ToSet
    <3> QED
      BY <3>1, LenProperties, SeqDef
  <2> QED
    BY <1>1, <2>1 DEF Listed
<1> HIDE DEF left
<1>5. Tier1(lru2, left, bytes - BytesOf(map, K))
  BY <1>1, <1>2, <1>3, <1>4 DEF Tier1, OneKey
<1>6. ObjectsIn(left) = ObjectsIn(map) \ PixOf(map, K)
  <2>1. OneKey(map)
    BY DEF Tier1
  <2>2. ASSUME NEW k \in DOMAIN map \ K
        PROVE  map[k].pix \in ObjectsIn(map) \ PixOf(map, K)
    BY <2>1 DEF ObjectsIn, PixOf, OneKey
  <2>3. ASSUME NEW o \in ObjectsIn(map) \ PixOf(map, K)
        PROVE  \E k \in DOMAIN map \ K : o = map[k].pix
    BY DEF ObjectsIn, PixOf
  <2>4. ObjectsIn(left) = {map[k].pix : k \in DOMAIN map \ K}
    BY <1>1 DEF ObjectsIn, PixOf
  <2> QED
    BY <2>2, <2>3, <2>4
<1>7. PixOf(map, K) \subseteq ObjectsIn(map)
  BY DEF ObjectsIn, PixOf
<1> QED
  BY <1>5, <1>6, <1>7 DEF left

\* An entry for a new key.
LEMMA TierMore ==
    ASSUME NEW lru, NEW map, NEW bytes, Tier1(lru, map, bytes),
           NEW k, k \notin DOMAIN map, NEW p \in Pixmaps, p \notin ObjectsIn(map), NEW b \in Nat
    PROVE  /\ Tier1(<<k>> \o lru, Stored(map, k, [pix |-> p, bytes |-> b]), bytes + b)
           /\ ObjectsIn(Stored(map, k, [pix |-> p, bytes |-> b])) = ObjectsIn(map) \cup {p}
<1> DEFINE e == [pix |-> p, bytes |-> b]
           more == Stored(map, k, e)
           X == DOMAIN map \cup {k}
<1>1. /\ DOMAIN more = X /\ more[k] = e /\ \A x \in DOMAIN map : more[x] = map[x]
      /\ e.pix = p /\ e.bytes = b
  BY DEF Stored
<1>2. Listed(<<k>> \o lru, more)
  <2>1. lru \in Seq(X) /\ IsInjective(lru) /\ k \notin ToSet(lru) /\ ToSet(lru) = DOMAIN map
    BY SeqDef, LenProperties DEF Tier1, Listed
  <2>2. k \in X
    OBVIOUS
  <2> HIDE DEF X, more
  <2>3. /\ <<k>> \o lru \in Seq(X) /\ IsInjective(<<k>> \o lru)
        /\ ToSet(<<k>> \o lru) = ToSet(lru) \cup {k}
    BY <2>1, <2>2, PushedIs
  <2> QED
    BY <1>1, <2>1, <2>3 DEF Listed, X
<1>3. BytesIn(more, X) = bytes + b
  <2>1. IsFiniteSet(DOMAIN map) /\ IsFiniteSet(X) /\ bytes \in Nat
    BY Weighs, FS_AddElement
  <2>2. Weighed(more, X)
    BY <1>1, <2>1 DEF Weighed, Tier1
  <2> HIDE DEF more, e
  <2>3. BytesIn(more, X) = b + BytesIn(more, X \ {k})
    BY <1>1, <2>2, SumRemove
  <2>4. X \ {k} = DOMAIN map
    OBVIOUS
  <2>5. BytesIn(more, DOMAIN map) = BytesIn(map, DOMAIN map)
    BY <1>1, <2>1, SumSame
  <2> QED
    BY <2>1, <2>3, <2>4, <2>5 DEF Tier1
<1> HIDE DEF more, e
<1>4. ObjectsIn(more) = ObjectsIn(map) \cup {p}
  BY <1>1 DEF ObjectsIn, PixOf
<1>5. OneKey(more)
  BY <1>1 DEF OneKey, ObjectsIn, PixOf, Tier1
<1>6. Tier1(<<k>> \o lru, more, bytes + b)
  BY <1>1, <1>2, <1>3, <1>5 DEF Tier1
<1> QED
  BY <1>4, <1>6 DEF more, e

\* The oldest entries leave.
MostRecent(lru, map, bytes, n) ==
    /\ Tier1(SubSeq(lru, 1, n), Without(map, Evicted(lru, n)),
             bytes - BytesOf(map, Evicted(lru, n)))
    /\ ObjectsIn(Without(map, Evicted(lru, n))) = ObjectsIn(map) \ PixOf(map, Evicted(lru, n))
    /\ PixOf(map, Evicted(lru, n)) \subseteq ObjectsIn(map)
    /\ Cardinality(DOMAIN map \ Evicted(lru, n)) = n

LEMMA TierEvict ==
    ASSUME NEW lru, NEW map, NEW bytes, Tier1(lru, map, bytes), NEW n \in 0..Len(lru)
    PROVE  MostRecent(lru, map, bytes, n)
<1>1. lru \in Seq(DOMAIN map) /\ IsInjective(lru) /\ ToSet(lru) = DOMAIN map
  BY DEF Tier1, Listed
<1>2. /\ SubSeq(lru, 1, n) \in Seq(DOMAIN map) /\ IsInjective(SubSeq(lru, 1, n))
      /\ ToSet(SubSeq(lru, 1, n)) = DOMAIN map \ Evicted(lru, n)
      /\ Evicted(lru, n) \subseteq DOMAIN map
  BY <1>1, PrefixIs
<1>3. /\ Tier1(SubSeq(lru, 1, n), Without(map, Evicted(lru, n)),
               bytes - BytesOf(map, Evicted(lru, n)))
      /\ ObjectsIn(Without(map, Evicted(lru, n))) = ObjectsIn(map) \ PixOf(map, Evicted(lru, n))
      /\ PixOf(map, Evicted(lru, n)) \subseteq ObjectsIn(map)
  BY <1>2, TierLess
<1>4. Len(SubSeq(lru, 1, n)) = n
  BY <1>1
<1>5. Cardinality(DOMAIN Without(map, Evicted(lru, n))) = n
  BY <1>3, <1>4, ListedNames DEF Tier1
<1> QED
  BY <1>3, <1>5, WithoutIs DEF MostRecent

\* An entry is used.
LEMMA TierTouch ==
    ASSUME NEW lru, NEW map, NEW bytes, Tier1(lru, map, bytes), NEW k \in DOMAIN map
    PROVE  Tier1(Touch(lru, k), map, bytes)
<1>1. lru \in Seq(DOMAIN map) /\ IsInjective(lru) /\ ToSet(lru) = DOMAIN map
  BY DEF Tier1, Listed
<1>2. /\ Touch(lru, k) \in Seq(DOMAIN map) /\ IsInjective(Touch(lru, k))
      /\ ToSet(Touch(lru, k)) = ToSet(lru) \cup {k}
  BY <1>1, TouchIs
<1> QED
  BY <1>1, <1>2 DEF Tier1, Listed

\* Another pixmap for a key that has one.
LEMMA TierReplace ==
    ASSUME NEW lru, NEW map, NEW bytes, Tier1(lru, map, bytes),
           NEW k \in DOMAIN map, NEW p \in Pixmaps, p \notin ObjectsIn(map), NEW b \in Nat,
           NEW new, DOMAIN new = DOMAIN map, new[k] = [pix |-> p, bytes |-> b],
           \A x \in DOMAIN map : x # k => new[x] = map[x]
    PROVE  /\ Tier1(lru, new, bytes - map[k].bytes + b)
           /\ ObjectsIn(new) = (ObjectsIn(map) \ {map[k].pix}) \cup {p}
<1> DEFINE e == [pix |-> p, bytes |-> b]
           X == DOMAIN map
<1>1. /\ DOMAIN new = X /\ new[k] = e /\ \A x \in X : x # k => new[x] = map[x]
      /\ e.pix = p /\ e.bytes = b
  OBVIOUS
<1>2. BytesIn(new, X) = bytes - map[k].bytes + b
  <2>1. Weighed(map, X) /\ bytes = BytesIn(map, X) /\ IsFiniteSet(X) /\ IsFiniteSet(X \ {k})
    BY Weighs, FS_RemoveElement DEF Tier1
  <2>2. Weighed(new, X)
    BY <1>1, <2>1 DEF Weighed
  <2> HIDE DEF e, X
  <2>3. BytesIn(new, X) = b + BytesIn(new, X \ {k})
    <3>1. k \in X /\ new[k].bytes = b
      BY <1>1 DEF e, X
    <3> QED
      BY <2>2, <3>1, SumRemove
  <2>4. bytes = map[k].bytes + BytesIn(map, X \ {k})
    BY <2>1, SumRemove DEF X
  <2>5. BytesIn(new, X \ {k}) = BytesIn(map, X \ {k})
    <3>1. \A x \in X \ {k} : new[x].bytes = map[x].bytes
      BY <1>1
    <3> HIDE <1>1
    <3> QED
      BY <2>1, <3>1, SumSame
  <2>6. BytesIn(map, X \ {k}) \in Nat /\ map[k].bytes \in Nat
    <3>1. Weighed(map, X \ {k})
      BY <2>1 DEF Weighed
    <3> QED
      BY <2>1, <3>1, SumRemove DEF Weighed, X
  <2> QED
    BY <2>3, <2>4, <2>5, <2>6
<1> HIDE DEF e
<1>3. ObjectsIn(new) = (ObjectsIn(map) \ {map[k].pix}) \cup {p}
  <2>1. OneKey(map)
    BY DEF Tier1
  <2>2. ObjectsIn(new) = {p} \cup {map[x].pix : x \in X \ {k}}
    BY <1>1 DEF ObjectsIn, PixOf
  <2>3. {map[x].pix : x \in X \ {k}} = ObjectsIn(map) \ {map[k].pix}
    BY <2>1 DEF OneKey, ObjectsIn, PixOf
  <2> QED
    BY <2>2, <2>3
<1>4. OneKey(new)
  BY <1>1 DEF OneKey, ObjectsIn, PixOf, Tier1
<1>5. Tier1(lru, new, bytes - map[k].bytes + b)
  BY <1>1, <1>2, <1>4 DEF Tier1, Listed
<1> QED
  BY <1>1, <1>3, <1>5 DEF e

-----------------------------------------------------------------------------
(* What the calls on L1 do.                                                *)

Room1(map, bytes) ==
    /\ Cardinality(DOMAIN map) <= L1Capacity
    /\ bytes <= L1Budget \/ Cardinality(DOMAIN map) <= 1

\* L1 between two calls.
L1Sound == Tier1(l1_lru, l1_map, l1_bytes) /\ Room1(l1_map, l1_bytes)

\* An entry of the next map is an old one, or holds p under k.
OldOr(k, p) ==
    \A x \in DOMAIN l1_map' :
        \/ x \in DOMAIN l1_map /\ l1_map'[x] = l1_map[x]
        \/ x = k /\ l1_map'[x] = [pix |-> p, bytes |-> image[p].bytes]

\* What a put of p under k comes to, whatever it evicts: the cache drops one
\* reference of each object that it was given or had, and does not have now.
PutDone(k, p, refs) ==
    /\ L1Sound'
    /\ pix_refs' = Drop(refs, (ObjectsIn(l1_map) \cup {p}) \ ObjectsIn(l1_map)')
    /\ ObjectsIn(l1_map)' \subseteq ObjectsIn(l1_map) \cup {p}
    /\ OldOr(k, p)
    /\ Refused(k) \/ (k \in DOMAIN l1_map' /\ l1_map'[k].pix = p)

LEMMA RoomLess ==
    ASSUME NEW map, NEW bytes, Room1(map, bytes), IsFiniteSet(DOMAIN map), bytes \in Nat,
           NEW map2, DOMAIN map2 \subseteq DOMAIN map, NEW less \in Nat, less <= bytes
    PROVE  Room1(map2, less)
<1>1. /\ Cardinality(DOMAIN map2) <= Cardinality(DOMAIN map)
      /\ Cardinality(DOMAIN map2) \in Nat /\ Cardinality(DOMAIN map) \in Nat
  BY FS_Subset, FS_CardinalityType
<1> QED
  BY <1>1, CacheConstants DEF Room1, CacheConstants

LEMMA PutRefused ==
    ASSUME L1Sound, NEW k, NEW p \in Pixmaps, p \notin ObjectsIn(l1_map), NEW refs,
           Refused(k), RefusePixmap(p, refs)
    PROVE  PutDone(k, p, refs)
<1>1. ObjectsIn(l1_map)' = ObjectsIn(l1_map) /\ L1Sound' /\ pix_refs' = Drop(refs, {p})
  BY DEF RefusePixmap, L1Sound
<1>2. (ObjectsIn(l1_map) \cup {p}) \ ObjectsIn(l1_map) = {p}
  OBVIOUS
<1>3. OldOr(k, p)
  BY DEF OldOr, RefusePixmap
<1> QED
  BY <1>1, <1>2, <1>3 DEF PutDone

LEMMA PutReplaces ==
    ASSUME L1Sound, NEW k \in DOMAIN l1_map, NEW p \in Pixmaps, p \notin ObjectsIn(l1_map),
           image[p].bytes \in Nat, NEW refs, ReplacePixmap(k, p, refs)
    PROVE  PutDone(k, p, refs)
<1>0. PICK lru, map, b, bytes :
        /\ lru = Touch(l1_lru, k)
        /\ b = image[p].bytes
        /\ map = [l1_map EXCEPT ![k] = [pix |-> p, bytes |-> b]]
        /\ bytes = l1_bytes - l1_map[k].bytes + b
  OBVIOUS
<1>1. PICK n \in 0..Len(lru) :
        /\ ~TooFullAfterReplace(lru, map, bytes, n)
        /\ \A m \in (n + 1)..Len(lru) : TooFullAfterReplace(lru, map, bytes, m)
        /\ l1_lru' = SubSeq(lru, 1, n)
        /\ l1_map' = Without(map, Evicted(lru, n))
        /\ l1_bytes' = bytes - BytesOf(map, Evicted(lru, n))
        /\ pix_refs' = Drop(Drop(refs, {l1_map[k].pix}), PixOf(map, Evicted(lru, n)))
  BY <1>0 DEF ReplacePixmap
<1>2. Tier1(lru, l1_map, l1_bytes)
  BY <1>0, TierTouch DEF L1Sound
<1>3. /\ DOMAIN map = DOMAIN l1_map
      /\ map[k] = [pix |-> p, bytes |-> b]
      /\ \A x \in DOMAIN l1_map : x # k => map[x] = l1_map[x]
      /\ Tier1(lru, map, bytes)
      /\ ObjectsIn(map) = (ObjectsIn(l1_map) \ {l1_map[k].pix}) \cup {p}
  <2>1. /\ DOMAIN map = DOMAIN l1_map
        /\ map[k] = [pix |-> p, bytes |-> b]
        /\ \A x \in DOMAIN l1_map : x # k => map[x] = l1_map[x]
    BY <1>0
  <2>2. b \in Nat
    BY <1>0
  <2>3. /\ Tier1(lru, map, l1_bytes - l1_map[k].bytes + b)
        /\ ObjectsIn(map) = (ObjectsIn(l1_map) \ {l1_map[k].pix}) \cup {p}
    BY <1>2, <2>1, <2>2, TierReplace
  <2> QED
    BY <1>0, <2>1, <2>3
<1> DEFINE out == Evicted(lru, n)
           left == Without(map, out)
           less == bytes - BytesOf(map, out)
<1>4. /\ Tier1(SubSeq(lru, 1, n), left, less)
      /\ ObjectsIn(left) = ObjectsIn(map) \ PixOf(map, out)
      /\ PixOf(map, out) \subseteq ObjectsIn(map)
  <2>1. Tier1(lru, map, bytes)
    BY <1>3
  <2>2. MostRecent(lru, map, bytes, n)
    BY <2>1, TierEvict
  <2> QED
    BY <2>2 DEF MostRecent
<1>5. DOMAIN left = DOMAIN map \ out /\ \A x \in DOMAIN left : left[x] = map[x]
  BY WithoutIs
<1>6. /\ Cardinality(DOMAIN l1_map) \in Nat /\ IsFiniteSet(DOMAIN l1_map)
      /\ Cardinality(DOMAIN left) \in Nat /\ Cardinality(DOMAIN left) <= Cardinality(DOMAIN l1_map)
      /\ less \in Int /\ bytes \in Int
  <2>1. /\ Cardinality(DOMAIN l1_map) \in Nat /\ IsFiniteSet(DOMAIN l1_map) /\ less \in Nat /\ bytes \in Nat
    BY <1>2, <1>3, <1>4, Weighs
  <2>2. Cardinality(DOMAIN left) \in Nat /\ Cardinality(DOMAIN left) <= Cardinality(DOMAIN l1_map)
    BY <1>3, <1>5, <2>1, FS_Subset, FS_CardinalityType
  <2> QED
    BY <2>1, <2>2
<1>7. Room1(left, less)
  BY <1>1, <1>6, CacheConstants DEF Room1, L1Sound, TooFullAfterReplace, CacheConstants
<1>8. k \notin out /\ k \in DOMAIN left
  <2>1. Len(lru) \in Nat /\ DOMAIN lru = 1..Len(lru) /\ Len(lru) >= 1 /\ lru[1] = k /\ IsInjective(lru)
    <3>1. lru \in Seq(DOMAIN map) /\ ToSet(lru) = DOMAIN map /\ IsInjective(lru)
      BY <1>3 DEF Tier1, Listed
    <3>2. Len(lru) \in Nat /\ DOMAIN lru = 1..Len(lru)
      BY <3>1, LenProperties
    <3>3. Len(lru) # 0
      BY <1>3, <3>1, <3>2 DEF ToSet
    <3>4. lru[1] = k
      <4>1. Only(l1_lru, ToSet(l1_lru) \ {k}) \in Seq(DOMAIN l1_map)
        BY OnlyIs DEF L1Sound, Tier1, Listed
      <4> QED
        BY <1>0, <4>1 DEF Touch
    <3> QED
      BY <3>1, <3>2, <3>3, <3>4
  <2>2. n # 0
    <3>1. ASSUME n = 0 PROVE FALSE
      <4>1. 1 \in (n + 1)..Len(lru) /\ 1 \in 0..Len(lru)
        BY <2>1, <3>1
      <4>2. TooFullAfterReplace(lru, map, bytes, 1)
        BY <1>1, <4>1
      <4>3. Cardinality(DOMAIN map \ Evicted(lru, 1)) = 1
        BY <1>3, <4>1, TierEvict DEF MostRecent
      <4>4. DOMAIN Without(map, Evicted(lru, 1)) = DOMAIN map \ Evicted(lru, 1)
        BY WithoutIs
      <4> QED
        BY <4>2, <4>3, <4>4 DEF TooFullAfterReplace
    <3> QED
      BY <3>1
  <2>3. \A i \in (n + 1)..Len(lru) : i \in DOMAIN lru /\ i # 1 /\ 1 \in DOMAIN lru
    BY <2>1, <2>2
  <2>4. k \notin out
    BY <2>1, <2>3 DEF IsInjective, Evicted
  <2> QED
    BY <1>3, <1>5, <2>4
<1>9. pix_refs' = Drop(refs, (ObjectsIn(l1_map) \cup {p}) \ ObjectsIn(left))
  <2> DEFINE old == l1_map[k].pix
             gone == PixOf(map, out)
  <2>1. old \notin gone /\ p \notin gone
    <3>1. OneKey(l1_map)
      BY <1>2 DEF Tier1
    <3>2. \A x \in out \cap DOMAIN map : x \in DOMAIN l1_map /\ x # k /\ map[x] = l1_map[x]
      BY <1>3, <1>8
    <3> QED
      BY <3>1, <3>2 DEF PixOf, OneKey, ObjectsIn
  <2>2. old \in ObjectsIn(l1_map)
    BY DEF ObjectsIn, PixOf
  <2>3. (ObjectsIn(l1_map) \cup {p}) \ ObjectsIn(left) = {old} \cup gone
    BY <1>3, <1>4, <2>1, <2>2
  <2>4. Drop(Drop(refs, {old}), gone) = Drop(refs, {old} \cup gone)
    BY <2>1 DEF Drop
  <2> QED
    BY <1>1, <2>3, <2>4
<1>10. ObjectsIn(left) \subseteq ObjectsIn(l1_map) \cup {p}
  BY <1>3, <1>4
<1>11. OldOr(k, p)
  BY <1>0, <1>1, <1>3, <1>5 DEF OldOr
<1>12. k \in DOMAIN l1_map' /\ l1_map'[k].pix = p
  BY <1>1, <1>3, <1>5, <1>8
<1>13. l1_lru' = SubSeq(lru, 1, n) /\ l1_map' = left /\ l1_bytes' = less
  BY <1>1
<1> HIDE DEF left, less, out
<1>14. ObjectsIn(l1_map)' = ObjectsIn(left) /\ L1Sound'
  BY <1>4, <1>7, <1>13 DEF L1Sound
<1> QED
  BY <1>9, <1>10, <1>11, <1>12, <1>14 DEF PutDone

LEMMA PutInserts ==
    ASSUME L1Sound, NEW k, k \notin DOMAIN l1_map, L1Capacity > 0,
           NEW p \in Pixmaps, p \notin ObjectsIn(l1_map),
           image[p].bytes \in Nat, NEW refs, InsertPixmap(k, p, refs)
    PROVE  PutDone(k, p, refs)
<1> DEFINE b == image[p].bytes
<1>1. PICK n \in 0..Len(l1_lru) :
        /\ ~TooFullForNew(n, b)
        /\ l1_lru' = <<k>> \o SubSeq(l1_lru, 1, n)
        /\ l1_map' = [x \in (DOMAIN l1_map \ Evicted(l1_lru, n)) \cup {k} |->
                        IF x = k THEN [pix |-> p, bytes |-> b] ELSE l1_map[x]]
        /\ l1_bytes' = l1_bytes - BytesOf(l1_map, Evicted(l1_lru, n)) + b
        /\ pix_refs' = Drop(refs, PixOf(l1_map, Evicted(l1_lru, n)))
  BY DEF InsertPixmap
<1> DEFINE out == Evicted(l1_lru, n)
           lru == SubSeq(l1_lru, 1, n)
           left == Without(l1_map, out)
           less == l1_bytes - BytesOf(l1_map, out)
           e == [pix |-> p, bytes |-> b]
           new == Stored(left, k, e)
<1> HIDE DEF b
<1>2. Tier1(l1_lru, l1_map, l1_bytes)
  BY DEF L1Sound
<1>3. /\ Tier1(lru, left, less)
      /\ ObjectsIn(left) = ObjectsIn(l1_map) \ PixOf(l1_map, out)
      /\ PixOf(l1_map, out) \subseteq ObjectsIn(l1_map)
  BY <1>2, TierEvict DEF MostRecent
<1>4. DOMAIN left = DOMAIN l1_map \ out /\ \A x \in DOMAIN left : left[x] = l1_map[x]
  BY WithoutIs
<1>5. l1_map' = new
  BY <1>1, <1>4 DEF Stored
<1> HIDE DEF left, less, lru
<1>6. /\ Tier1(<<k>> \o lru, new, less + b)
      /\ ObjectsIn(new) = ObjectsIn(left) \cup {p}
  BY <1>3, <1>4, TierMore DEF b
<1>7. DOMAIN new = DOMAIN left \cup {k} /\ new[k] = e /\ \A x \in DOMAIN left : x # k => new[x] = left[x]
  BY DEF Stored
<1> HIDE DEF new
<1>8. Room1(new, less + b)
  <2>1. /\ IsFiniteSet(DOMAIN left) /\ Cardinality(DOMAIN left) \in Nat /\ less \in Nat
        /\ Cardinality(DOMAIN new) \in Nat /\ less + b \in Nat
    BY <1>3, <1>6, Weighs
  <2>2. Cardinality(DOMAIN new) <= Cardinality(DOMAIN left) + 1
    <3>1. Cardinality(DOMAIN left \cup {k}) =
            IF k \in DOMAIN left THEN Cardinality(DOMAIN left) ELSE Cardinality(DOMAIN left) + 1
      BY <2>1, FS_AddElement
    <3> QED
      BY <1>7, <2>1, <3>1
  <2>3. DOMAIN left = {} => Cardinality(DOMAIN left) = 0
    BY FS_EmptySet
  <2>4. DOMAIN left = {} \/ (~(Cardinality(DOMAIN left) >= L1Capacity) /\ ~(less + b > L1Budget))
    BY <1>1 DEF TooFullForNew, left, less
  <2> QED
    BY <2>1, <2>2, <2>3, <2>4, CacheConstants DEF Room1, CacheConstants
<1>9. (ObjectsIn(l1_map) \cup {p}) \ ObjectsIn(new) = PixOf(l1_map, out)
  BY <1>3, <1>6
<1>10. OldOr(k, p)
  BY <1>4, <1>5, <1>7 DEF OldOr, b
<1>11. k \in DOMAIN l1_map' /\ l1_map'[k].pix = p
  BY <1>5, <1>7
<1>12. l1_lru' = <<k>> \o lru /\ l1_bytes' = less + b /\ pix_refs' = Drop(refs, PixOf(l1_map, out))
  BY <1>1 DEF lru, less
<1>13. ObjectsIn(l1_map)' = ObjectsIn(new) /\ L1Sound'
  BY <1>5, <1>6, <1>8, <1>12 DEF L1Sound
<1>14. ObjectsIn(l1_map)' \subseteq ObjectsIn(l1_map) \cup {p}
  BY <1>3, <1>6, <1>13
<1> HIDE DEF out, e
<1> QED
  BY <1>9, <1>10, <1>11, <1>12, <1>13, <1>14 DEF PutDone

LEMMA PutPixmapIs ==
    ASSUME L1Sound, NEW k, NEW p \in Pixmaps, p \notin ObjectsIn(l1_map),
           image[p].bytes \in Nat, NEW refs, put_pixmap(k, p, refs)
    PROVE  PutDone(k, p, refs) /\ pin' = pin /\ image' = image
<1>0. pin' = pin /\ image' = image
  BY DEF put_pixmap
<1>1. CASE Refused(k) /\ RefusePixmap(p, refs)
  BY <1>0, <1>1, PutRefused
<1>2. CASE k \in DOMAIN l1_map /\ ReplacePixmap(k, p, refs)
  BY <1>0, <1>2, PutReplaces
<1>3. CASE ~Refused(k) /\ k \notin DOMAIN l1_map /\ InsertPixmap(k, p, refs)
  <2>1. L1Capacity > 0
    BY <1>3, CacheConstants DEF Refused, CacheConstants
  <2> QED
    BY <1>0, <1>3, <2>1, PutInserts
<1> QED
  BY <1>0, <1>1, <1>2, <1>3 DEF put_pixmap

LEMMA L1Kept == L1Sound /\ UNCHANGED <<l1_lru, l1_map, l1_bytes>> => L1Sound' /\ ObjectsIn(l1_map)' = ObjectsIn(l1_map)
BY DEF L1Sound

LEMMA GetPixmapIs ==
    ASSUME L1Sound, NEW k, get_pixmap(k)
    PROVE  L1Sound' /\ k \in DOMAIN l1_map
<1>1. k \in DOMAIN l1_map /\ l1_lru' = Touch(l1_lru, k) /\ l1_map' = l1_map /\ l1_bytes' = l1_bytes
  BY DEF get_pixmap
<1>2. Tier1(Touch(l1_lru, k), l1_map, l1_bytes)
  BY <1>1, TierTouch DEF L1Sound
<1> QED
  BY <1>1, <1>2 DEF L1Sound

\* A purge drops the reference of each object that leaves.
PurgeDone ==
    /\ L1Sound'
    /\ pix_refs' = Drop(pix_refs, ObjectsIn(l1_map) \ ObjectsIn(l1_map)')
    /\ ObjectsIn(l1_map)' \subseteq ObjectsIn(l1_map)
    /\ \A x \in DOMAIN l1_map' : x \in DOMAIN l1_map /\ l1_map'[x] = l1_map[x]

LEMMA RetainIs ==
    ASSUME L1Sound, NEW s, NEW inv, NEW pages, retain_l1_pages(s, inv, pages)
    PROVE  PurgeDone /\ image' = image
<1>1. PICK kept, out :
        /\ out = DOMAIN l1_map \ kept
        /\ l1_lru' = Only(l1_lru, kept)
        /\ l1_map' = Without(l1_map, out)
        /\ l1_bytes' = l1_bytes - BytesOf(l1_map, out)
        /\ pix_refs' = Drop(pix_refs, PixOf(l1_map, out))
        /\ image' = image
  BY DEF retain_l1_pages
<1> DEFINE lru == Only(l1_lru, kept)
           left == Without(l1_map, out)
           less == l1_bytes - BytesOf(l1_map, out)
<1>2. Tier1(l1_lru, l1_map, l1_bytes) /\ out \subseteq DOMAIN l1_map
  BY <1>1 DEF L1Sound
<1>3. lru \in Seq(DOMAIN l1_map) /\ IsInjective(lru) /\ ToSet(lru) = DOMAIN l1_map \ out
  <2>1. l1_lru \in Seq(DOMAIN l1_map) /\ IsInjective(l1_lru) /\ ToSet(l1_lru) = DOMAIN l1_map
    BY <1>2 DEF Tier1, Listed
  <2>2. /\ lru \in Seq(DOMAIN l1_map) /\ ToSet(lru) = ToSet(l1_lru) \cap kept
        /\ IsInjective(l1_lru) => IsInjective(lru)
    BY <2>1, OnlyIs
  <2> QED
    BY <1>1, <2>1, <2>2
<1> HIDE DEF lru
<1>4. /\ Tier1(lru, left, less)
      /\ ObjectsIn(left) = ObjectsIn(l1_map) \ PixOf(l1_map, out)
      /\ PixOf(l1_map, out) \subseteq ObjectsIn(l1_map)
  BY <1>2, <1>3, TierLess
<1>5. DOMAIN left = DOMAIN l1_map \ out /\ \A x \in DOMAIN left : left[x] = l1_map[x]
  BY DEF Without, Restrict
<1>6. l1_lru' = lru /\ l1_map' = left /\ l1_bytes' = less
  BY <1>1 DEF lru
<1> HIDE DEF left, less
<1>7. Room1(left, less)
  <2>1. IsFiniteSet(DOMAIN l1_map) /\ l1_bytes \in Nat /\ less \in Nat
    BY <1>2, <1>4, Weighs
  <2>2. less <= l1_bytes
    <3>1. BytesIn(l1_map, out) \in Nat /\ less = l1_bytes - BytesIn(l1_map, out)
      BY <1>2, Weighs, SumSplit, BytesOfIs DEF less
    <3> QED
      BY <2>1, <3>1
  <2> QED
    BY <1>5, <2>1, <2>2, RoomLess DEF L1Sound
<1>8. L1Sound' /\ ObjectsIn(l1_map)' = ObjectsIn(left)
  BY <1>4, <1>6, <1>7 DEF L1Sound
<1>9. pix_refs' = Drop(pix_refs, ObjectsIn(l1_map) \ ObjectsIn(left))
  <2>1. ObjectsIn(l1_map) \ ObjectsIn(left) = PixOf(l1_map, out)
    BY <1>4
  <2> QED
    BY <1>1, <2>1
<1> QED
  BY <1>1, <1>4, <1>5, <1>6, <1>8, <1>9 DEF PurgeDone

LEMMA Tier1Empty == Tier1(<<>>, EmptyMap, 0) /\ Room1(EmptyMap, 0) /\ ObjectsIn(EmptyMap) = {}
<1>1. DOMAIN EmptyMap = {} /\ IsFiniteSet({}) /\ Cardinality({}) = 0
  BY FS_EmptySet DEF EmptyMap
<1>2. <<>> \in Seq({}) /\ ToSet(<<>>) = {} /\ IsInjective(<<>>)
  BY DEF ToSet, IsInjective
<1>3. BytesIn(EmptyMap, {}) = 0
  BY <1>1, SumFirst
<1> QED
  BY <1>1, <1>2, <1>3, CacheConstants DEF Tier1, Listed, Room1, OneKey, ObjectsIn, PixOf, CacheConstants

LEMMA ClearIs ==
    ASSUME L1Sound, clear
    PROVE  PurgeDone
<1>1. /\ l1_lru' = <<>> /\ l1_map' = EmptyMap /\ l1_bytes' = 0
      /\ pix_refs' = Drop(pix_refs, ObjectsIn(l1_map))
  BY DEF clear, ObjectsIn
<1>2. L1Sound' /\ ObjectsIn(l1_map)' = {}
  BY <1>1, Tier1Empty DEF L1Sound
<1>3. ObjectsIn(l1_map) \ {} = ObjectsIn(l1_map)
  OBVIOUS
<1>4. DOMAIN l1_map' = {}
  BY <1>1 DEF EmptyMap
<1> QED
  BY <1>1, <1>2, <1>3, <1>4 DEF PurgeDone

LEMMA L1Init == PageCacheInit => L1Sound /\ ObjectsIn(l1_map) = {} /\ DOMAIN l1_map = {}
<1>1. DOMAIN EmptyMap = {}
  BY DEF EmptyMap
<1> QED
  BY <1>1, Tier1Empty DEF PageCacheInit, L1Sound

-----------------------------------------------------------------------------
(* L2.                                                                     *)

Tier2(lru, map) ==
    /\ Listed(lru, map)
    /\ \A n \in DOMAIN map : map[n] \in Lists
    /\ \A a, b \in DOMAIN map : map[a] = map[b] => a = b
    /\ Cardinality(DOMAIN map) <= L2Capacity

\* L2 between two calls.
L2Sound == Tier2(l2_lru, l2_map)

\* What a put of d under page comes to.
PutListDone(page, d, refs) ==
    /\ L2Sound'
    /\ list_refs' = Drop(refs, (Range(l2_map) \cup {d}) \ Range(l2_map)')
    /\ Range(l2_map)' \subseteq Range(l2_map) \cup {d}
    /\ \A x \in DOMAIN l2_map' : \/ x \in DOMAIN l2_map /\ l2_map'[x] = l2_map[x]
                                 \/ x = page /\ l2_map'[x] = d

LEMMA L2Kept == L2Sound /\ UNCHANGED l2_vars => L2Sound' /\ Range(l2_map)' = Range(l2_map)
BY DEF L2Sound, l2_vars

LEMMA Tier2Touch ==
    ASSUME NEW lru, NEW map, Tier2(lru, map), NEW k \in DOMAIN map
    PROVE  Tier2(Touch(lru, k), map)
<1>1. lru \in Seq(DOMAIN map) /\ IsInjective(lru) /\ ToSet(lru) = DOMAIN map
  BY DEF Tier2, Listed
<1>2. /\ Touch(lru, k) \in Seq(DOMAIN map) /\ IsInjective(Touch(lru, k))
      /\ ToSet(Touch(lru, k)) = ToSet(lru) \cup {k}
  BY <1>1, TouchIs
<1> QED
  BY <1>1, <1>2 DEF Tier2, Listed

LEMMA GetListIs ==
    ASSUME L2Sound, NEW page, get_display_list(page)
    PROVE  L2Sound' /\ page \in DOMAIN l2_map
<1>1. page \in DOMAIN l2_map /\ l2_lru' = Touch(l2_lru, page) /\ l2_map' = l2_map
  BY DEF get_display_list
<1>2. Tier2(Touch(l2_lru, page), l2_map)
  BY <1>1, Tier2Touch DEF L2Sound
<1> QED
  BY <1>1, <1>2 DEF L2Sound

LEMMA ListReplaces ==
    ASSUME L2Sound, NEW page \in DOMAIN l2_map, NEW d \in Lists, d \notin Range(l2_map), NEW refs,
           ReplaceList(page, d, refs)
    PROVE  PutListDone(page, d, refs)
<1>1. PICK map, old :
        /\ map = [l2_map EXCEPT ![page] = d] /\ old = l2_map[page]
        /\ l2_map' = map /\ l2_lru' = Touch(l2_lru, page) /\ list_refs' = Drop(refs, {old})
  BY DEF ReplaceList
<1>2. DOMAIN map = DOMAIN l2_map /\ map[page] = d /\ \A x \in DOMAIN l2_map : x # page => map[x] = l2_map[x]
  BY <1>1
<1>3. Tier2(Touch(l2_lru, page), l2_map)
  BY Tier2Touch DEF L2Sound
<1>4. \A a, b \in DOMAIN l2_map : l2_map[a] = l2_map[b] => a = b
  BY <1>3 DEF Tier2
<1>5. d \notin Range(l2_map)
  OBVIOUS
<1>6. \A a, b \in DOMAIN map : map[a] = map[b] => a = b
  BY <1>2, <1>4, <1>5 DEF Range
<1>7. Tier2(Touch(l2_lru, page), map)
  BY <1>2, <1>3, <1>6 DEF Tier2, Listed
<1>8. L2Sound'
  BY <1>1, <1>7 DEF L2Sound
<1>9. Range(map) = (Range(l2_map) \ {old}) \cup {d} /\ old \in Range(l2_map)
  BY <1>1, <1>2, <1>4 DEF Range
<1>10. (Range(l2_map) \cup {d}) \ Range(map) = {old}
  BY <1>5, <1>9
<1>11. Range(l2_map)' = Range(map)
  BY <1>1
<1>12. Range(map) \subseteq Range(l2_map) \cup {d}
  BY <1>9
<1>13. \A x \in DOMAIN l2_map' : \/ x \in DOMAIN l2_map /\ l2_map'[x] = l2_map[x]
                                 \/ x = page /\ l2_map'[x] = d
  BY <1>1, <1>2
<1> QED
  BY <1>1, <1>8, <1>10, <1>11, <1>12, <1>13 DEF PutListDone

LEMMA ListInserts ==
    ASSUME L2Sound, NEW page, page \notin DOMAIN l2_map, L2Capacity > 0,
           NEW d \in Lists, d \notin Range(l2_map), NEW refs, InsertList(page, d, refs)
    PROVE  PutListDone(page, d, refs)
<1> DEFINE size == Cardinality(DOMAIN l2_map)
<1>1. PICK n, out, lru, map :
        /\ n = IF size >= L2Capacity THEN L2Capacity - 1 ELSE Len(l2_lru)
        /\ out = Evicted(l2_lru, n) /\ lru = SubSeq(l2_lru, 1, n)
        /\ map = [x \in (DOMAIN l2_map \ out) \cup {page} |-> IF x = page THEN d ELSE l2_map[x]]
        /\ l2_lru' = <<page>> \o lru /\ l2_map' = map
        /\ list_refs' = Drop(refs, {l2_map[x] : x \in out \cap DOMAIN l2_map})
  BY DEF InsertList
<1>2. /\ l2_lru \in Seq(DOMAIN l2_map) /\ IsInjective(l2_lru) /\ ToSet(l2_lru) = DOMAIN l2_map
      /\ size = Len(l2_lru) /\ size \in Nat /\ size <= L2Capacity
  BY ListedNames DEF L2Sound, Tier2, Listed
<1>3. n \in 0..Len(l2_lru) /\ n < L2Capacity
  BY <1>1, <1>2, CacheConstants DEF CacheConstants
<1>4. /\ lru \in Seq(DOMAIN l2_map) /\ IsInjective(lru) /\ ToSet(lru) = DOMAIN l2_map \ out
      /\ out \subseteq DOMAIN l2_map /\ Len(lru) = n
  <2>1. /\ SubSeq(l2_lru, 1, n) \in Seq(DOMAIN l2_map) /\ IsInjective(SubSeq(l2_lru, 1, n))
        /\ ToSet(SubSeq(l2_lru, 1, n)) = ToSet(l2_lru) \ Evicted(l2_lru, n)
        /\ Evicted(l2_lru, n) \subseteq ToSet(l2_lru)
    BY <1>2, <1>3, PrefixIs
  <2>2. Len(lru) = n
    BY <1>1, <1>2, <1>3
  <2> QED
    BY <1>1, <1>2, <2>1, <2>2
<1> DEFINE X == (DOMAIN l2_map \ out) \cup {page}
<1>5. /\ DOMAIN map = X /\ map[page] = d
      /\ \A x \in DOMAIN l2_map \ out : map[x] = l2_map[x]
  BY <1>1
<1>6. Listed(<<page>> \o lru, map) /\ Len(<<page>> \o lru) = n + 1
  <2>1. \A i \in 1..Len(lru) : lru[i] \in X
    BY <1>4, LenProperties DEF ToSet
  <2>2. lru \in Seq(X) /\ page \in X
    BY <1>4, <2>1, LenProperties, SeqDef
  <2>3. page \notin ToSet(lru)
    BY <1>4
  <2> HIDE DEF X
  <2>4. /\ <<page>> \o lru \in Seq(X) /\ IsInjective(<<page>> \o lru)
        /\ ToSet(<<page>> \o lru) = ToSet(lru) \cup {page}
    BY <1>4, <2>2, <2>3, PushedIs
  <2>5. Len(<<page>> \o lru) = n + 1
    BY <1>3, <1>4, <2>2
  <2> QED
    BY <1>4, <1>5, <2>4, <2>5 DEF Listed, X
<1>7. Cardinality(DOMAIN map) <= L2Capacity
  <2>1. PICK all : all = <<page>> \o lru
    OBVIOUS
  <2>2. Cardinality(DOMAIN map) = Len(all)
    BY <1>6, <2>1, ListedNames
  <2>3. n + 1 <= L2Capacity
    BY <1>3, CacheConstants DEF CacheConstants
  <2> QED
    BY <1>6, <2>1, <2>2, <2>3
<1>8. \A a, b \in DOMAIN map : map[a] = map[b] => a = b
  BY <1>5 DEF L2Sound, Tier2, Range
<1>9. \A x \in DOMAIN map : map[x] \in Lists
  BY <1>5 DEF L2Sound, Tier2
<1>10. L2Sound'
  <2>1. Tier2(<<page>> \o lru, map)
    BY <1>6, <1>7, <1>8, <1>9 DEF Tier2
  <2> QED
    BY <1>1, <2>1 DEF L2Sound
<1> DEFINE gone == {l2_map[x] : x \in out \cap DOMAIN l2_map}
<1>11. Range(map) = (Range(l2_map) \ gone) \cup {d} /\ gone \subseteq Range(l2_map)
  <2>1. \A a, b \in DOMAIN l2_map : l2_map[a] = l2_map[b] => a = b
    BY DEF L2Sound, Tier2
  <2>2. Range(map) = {l2_map[x] : x \in DOMAIN l2_map \ out} \cup {d}
    BY <1>5 DEF Range
  <2>3. {l2_map[x] : x \in DOMAIN l2_map \ out} = Range(l2_map) \ gone
    BY <1>4, <2>1 DEF Range
  <2>4. gone \subseteq Range(l2_map)
    BY DEF Range
  <2> QED
    BY <2>2, <2>3, <2>4
<1> HIDE DEF gone
<1>12. (Range(l2_map) \cup {d}) \ Range(map) = gone /\ Range(map) \subseteq Range(l2_map) \cup {d}
  BY <1>11
<1>13. list_refs' = Drop(refs, (Range(l2_map) \cup {d}) \ Range(map)) /\ Range(l2_map)' = Range(map)
  BY <1>1, <1>12 DEF gone
<1>14. \A x \in DOMAIN l2_map' : \/ x \in DOMAIN l2_map /\ l2_map'[x] = l2_map[x]
                                 \/ x = page /\ l2_map'[x] = d
  BY <1>1, <1>5
<1> QED
  BY <1>10, <1>12, <1>13, <1>14 DEF PutListDone

LEMMA PutListIs ==
    ASSUME L2Sound, NEW page, NEW d \in Lists, d \notin Range(l2_map), NEW refs,
           put_display_list(page, d, refs)
    PROVE  PutListDone(page, d, refs) /\ list_page' = list_page
<1>0. list_page' = list_page
  BY DEF put_display_list
<1>1. CASE page \in DOMAIN l2_map /\ ReplaceList(page, d, refs)
  BY <1>0, <1>1, ListReplaces
<1>2. CASE RefuseList(d, refs)
  <2>1. L2Sound' /\ Range(l2_map)' = Range(l2_map) /\ l2_map' = l2_map /\ list_refs' = Drop(refs, {d})
    BY <1>2 DEF RefuseList, l2_vars, L2Sound
  <2>2. (Range(l2_map) \cup {d}) \ Range(l2_map) = {d}
    OBVIOUS
  <2> QED
    BY <1>0, <2>1, <2>2 DEF PutListDone
<1>3. CASE page \notin DOMAIN l2_map /\ L2Capacity > 0 /\ InsertList(page, d, refs)
  BY <1>0, <1>3, ListInserts
<1> QED
  BY <1>1, <1>2, <1>3 DEF put_display_list

LEMMA Tier2Empty == Tier2(<<>>, EmptyMap) /\ Range(EmptyMap) = {}
<1>1. DOMAIN EmptyMap = {} /\ IsFiniteSet({}) /\ Cardinality({}) = 0
  BY FS_EmptySet DEF EmptyMap
<1>2. <<>> \in Seq({}) /\ ToSet(<<>>) = {} /\ IsInjective(<<>>)
  BY DEF ToSet, IsInjective
<1> QED
  BY <1>1, <1>2, CacheConstants DEF Tier2, Listed, Range, CacheConstants

LEMMA ClearLists ==
    ASSUME clear
    PROVE  L2Sound' /\ Range(l2_map)' = {} /\ DOMAIN l2_map' = {} /\ list_refs' = Drop(list_refs, Range(l2_map))
<1>1. l2_lru' = <<>> /\ l2_map' = EmptyMap /\ list_refs' = Drop(list_refs, Range(l2_map))
  BY DEF clear
<1>2. DOMAIN l2_map' = {}
  BY <1>1 DEF EmptyMap
<1> QED
  BY <1>1, <1>2, Tier2Empty DEF L2Sound

LEMMA L2Init == PageCacheInit => L2Sound /\ Range(l2_map) = {} /\ DOMAIN l2_map = {}
<1>1. DOMAIN EmptyMap = {}
  BY DEF EmptyMap
<1> QED
  BY <1>1, Tier2Empty DEF PageCacheInit, L2Sound
-----------------------------------------------------------------------------
(* References, counted one owner at a time.                                *)

One(o, S) == IF o \in S THEN 1 ELSE 0
Same(o, x) == IF o = x THEN 1 ELSE 0

IsImage(i) == i = [key |-> i.key, bytes |-> i.bytes] /\ i.bytes \in Nat

LEMMA SingleCount ==
    ASSUME NEW S, NEW x \in S, \A y \in S : y = x
    PROVE  Cardinality(S) = 1
<1>1. S = {x}
  OBVIOUS
<1> QED
  BY <1>1, FS_Singleton

\* With one key for an object, its entries are counted by 0 and 1.
LEMMA EntriesOf1 ==
    ASSUME L1Sound, NEW p
    PROVE  Cardinality({k \in DOMAIN l1_map : l1_map[k].pix = p}) = One(p, ObjectsIn(l1_map))
<1> DEFINE S == {k \in DOMAIN l1_map : l1_map[k].pix = p}
<1> SUFFICES Cardinality(S) = One(p, ObjectsIn(l1_map))
  OBVIOUS
<1>1. \A a, b \in DOMAIN l1_map : l1_map[a].pix = l1_map[b].pix => a = b
  BY DEF L1Sound, Tier1, OneKey
<1>2. CASE p \in ObjectsIn(l1_map)
  <2>1. PICK k \in DOMAIN l1_map : l1_map[k].pix = p
    BY <1>2 DEF ObjectsIn, PixOf
  <2>2. k \in S /\ \A y \in S : y = k
    BY <1>1, <2>1
  <2> HIDE DEF S
  <2> QED
    BY <1>2, <2>2, SingleCount DEF One
<1>3. CASE p \notin ObjectsIn(l1_map)
  <2>1. S = {}
    BY <1>3 DEF ObjectsIn, PixOf
  <2> HIDE DEF S
  <2> QED
    BY <1>3, <2>1, FS_EmptySet DEF One
<1> QED
  BY <1>2, <1>3

LEMMA EntriesOf2 ==
    ASSUME L2Sound, NEW d
    PROVE  Cardinality({n \in DOMAIN l2_map : l2_map[n] = d}) = One(d, Range(l2_map))
<1> DEFINE S == {n \in DOMAIN l2_map : l2_map[n] = d}
<1> SUFFICES Cardinality(S) = One(d, Range(l2_map))
  OBVIOUS
<1>1. \A a, b \in DOMAIN l2_map : l2_map[a] = l2_map[b] => a = b
  BY DEF L2Sound, Tier2
<1>2. CASE d \in Range(l2_map)
  <2>1. PICK n \in DOMAIN l2_map : l2_map[n] = d
    BY <1>2 DEF Range
  <2>2. n \in S /\ \A y \in S : y = n
    BY <1>1, <2>1
  <2> HIDE DEF S
  <2> QED
    BY <1>2, <2>2, SingleCount DEF One
<1>3. CASE d \notin Range(l2_map)
  <2>1. S = {}
    BY <1>3 DEF Range
  <2> HIDE DEF S
  <2> QED
    BY <1>3, <2>1, FS_EmptySet DEF One
<1> QED
  BY <1>2, <1>3

LEMMA DropIs ==
    ASSUME NEW D, NEW refs \in [D -> Int], NEW S
    PROVE  /\ Drop(refs, S) \in [D -> Int]
           /\ \A o \in D : Drop(refs, S)[o] = refs[o] - One(o, S)
BY DEF Drop, One

LEMMA KeepIs ==
    ASSUME NEW D, NEW refs \in [D -> Int], NEW p \in D
    PROVE  /\ Keep(refs, p) \in [D -> Int]
           /\ \A o \in D : Keep(refs, p)[o] = refs[o] + Same(o, p)
BY DEF Keep, Same

\* The counts new are refs, one more on plus and one less on minus.
Delta(D, refs, new, plus, minus) ==
    new \in [D -> Int] /\ \A o \in D : new[o] = refs[o] + One(o, plus) - One(o, minus)

LEMMA KeepDropIs ==
    ASSUME NEW D, NEW refs \in [D -> Int], NEW p \in D, NEW S
    PROVE  Delta(D, refs, Drop(Keep(refs, p), S), {p}, S)
BY DEF Drop, Keep, One, Delta

\* What the cache drops in a put is what it was given or had, and has no more.
LEMMA PutKeepsCount ==
    ASSUME NEW had, NEW has, NEW p, p \notin had, has \subseteq had \cup {p}, NEW o
    PROVE  One(o, {p}) - One(o, (had \cup {p}) \ has) = One(o, has) - One(o, had)
BY DEF One

LEMMA PurgeKeepsCount ==
    ASSUME NEW had, NEW has, has \subseteq had, NEW o
    PROVE  0 - One(o, had \ has) = One(o, has) - One(o, had)
BY DEF One

\* How many of S have o.
Count(f, S, o) == Cardinality({x \in S : f[x] = o})

LEMMA CountSplit ==
    ASSUME NEW S, IsFiniteSet(S), NEW f, NEW x \in S, NEW o
    PROVE  /\ Count(f, S, o) = Count(f, S \ {x}, o) + Same(o, f[x])
           /\ Count(f, S, o) \in Nat /\ Count(f, S \ {x}, o) \in Nat
<1> DEFINE all  == {y \in S : f[y] = o}
           rest == {y \in S \ {x} : f[y] = o}
<1>1. IsFiniteSet(all) /\ IsFiniteSet(rest)
  BY FS_Subset
<1>2. x \notin rest /\ all = IF f[x] = o THEN rest \cup {x} ELSE rest
  OBVIOUS
<1> HIDE DEF all, rest
<1>3. Cardinality(all) \in Nat /\ Cardinality(rest) \in Nat
  BY <1>1, FS_CardinalityType
<1>4. Cardinality(all) = Cardinality(rest) + Same(o, f[x])
  <2>1. CASE f[x] = o
    BY <1>1, <1>2, <1>3, <2>1, FS_AddElement DEF Same
  <2>2. CASE f[x] # o
    BY <1>2, <1>3, <2>2 DEF Same
  <2> QED
    BY <2>1, <2>2
<1>5. Count(f, S, o) = Cardinality(all) /\ Count(f, S \ {x}, o) = Cardinality(rest)
  BY DEF Count, all, rest
<1> QED
  BY <1>3, <1>4, <1>5

\* Only x changes what it has.
Moves(S, f, g, x) == \A y \in S \ {x} : g[y] = f[y]

LEMMA CountMoves ==
    ASSUME NEW S, IsFiniteSet(S), NEW f, NEW g, NEW x \in S, Moves(S, f, g, x), NEW o
    PROVE  /\ Count(g, S, o) = Count(f, S, o) - Same(o, f[x]) + Same(o, g[x])
           /\ Count(f, S, o) \in Nat
<1>1. Count(f, S \ {x}, o) = Count(g, S \ {x}, o)
  <2>1. {y \in S \ {x} : f[y] = o} = {y \in S \ {x} : g[y] = o}
    BY DEF Moves
  <2> QED
    BY <2>1 DEF Count
<1>2. /\ Count(f, S, o) = Count(f, S \ {x}, o) + Same(o, f[x])
      /\ Count(f, S, o) \in Nat /\ Count(f, S \ {x}, o) \in Nat
  BY CountSplit
<1>3. Count(g, S, o) = Count(g, S \ {x}, o) + Same(o, g[x])
  BY ONLY IsFiniteSet(S), x \in S, CountSplit
<1>4. Same(o, f[x]) \in Int /\ Same(o, g[x]) \in Int
  BY DEF Same
<1> QED
  BY <1>1, <1>2, <1>3, <1>4

\* Nobody has o.
LEMMA CountNone ==
    ASSUME NEW S, IsFiniteSet(S), NEW f, NEW o
    PROVE  Count(f, S, o) \in Nat /\ (Count(f, S, o) = 0 <=> \A x \in S : f[x] # o)
<1> DEFINE all == {y \in S : f[y] = o}
<1>1. IsFiniteSet(all)
  BY FS_Subset
<1>2. all = {} <=> \A x \in S : f[x] # o
  OBVIOUS
<1>3. Count(f, S, o) = Cardinality(all)
  BY DEF Count
<1> HIDE DEF all
<1>4. Cardinality(all) \in Nat /\ (Cardinality(all) = 0 <=> all = {})
  BY <1>1, FS_EmptySet, FS_CardinalityType
<1> QED
  BY <1>2, <1>3, <1>4
=============================================================================
