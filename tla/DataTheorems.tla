---------------------------- MODULE DataTheorems ----------------------------
(***************************************************************************)
(* Induction over the natural numbers for a set instead of a predicate,    *)
(* and with it what the filter of a sequence is, and how a concatenation   *)
(* of sequences changes with one of them; what is left of a sequence that  *)
(* gets an element or loses some; and the sum of the `bytes` that a map    *)
(* gives the members of a finite set.                                      *)
(***************************************************************************)
EXTENDS Integers, Sequences, SequencesExt, FiniteSets, Filter, FiniteSetTheorems, SequenceTheorems,
        WellFoundedInduction, TLAPS

\* A set with 0 and with the successor of each of its numbers has them all: a
\* number that is missing is not the least one that is.
LEMMA NatSetInduction ==
    ASSUME NEW S, 0 \in S, \A n \in Nat : n \in S => n + 1 \in S
    PROVE  Nat \subseteq S
<1> DEFINE R == OpToRel(<, Nat)
           T == Nat \ S
<1>1. IsWellFoundedOn(R, Nat)
  BY NatLessThanWellFounded
<1>2. \A x, y \in Nat : x < y => <<x, y>> \in R
  BY DEF OpToRel
<1>3. T \subseteq Nat
  OBVIOUS
<1> HIDE DEF R, T
<1>4. ASSUME T # {} PROVE FALSE
  <2>1. PICK x \in T : \A y \in T : ~(<<y, x>> \in R)
    BY <1>1, <1>3, <1>4, WFMin
  <2>2. x \in Nat /\ x \notin S
    BY <2>1 DEF T
  <2>3. x # 0 /\ x - 1 \in Nat /\ x - 1 < x /\ (x - 1) + 1 = x
    BY <2>2
  <2>4. x - 1 \notin T
    BY <1>2, <2>1, <2>2, <2>3
  <2>5. x - 1 \in S
    BY <2>3, <2>4 DEF T
  <2> QED
    BY <2>2, <2>3, <2>5
<1> QED
  BY <1>4 DEF T

-----------------------------------------------------------------------------
(* The filter of a sequence.                                               *)

KeptFrom(s, S, g) ==
    [i \in 0..Len(s) |-> IF i = 0 THEN <<>>
                         ELSE IF s[i] \in S THEN Append(g[i - 1], s[i]) ELSE g[i - 1]]

\* The recursive function that Only is made of exists.
LEMMA KeptExists ==
    ASSUME NEW X, NEW s \in Seq(X), NEW S
    PROVE  \E f : f = KeptFrom(s, S, f) /\ Only(s, S) = f[Len(s)]
<1> DEFINE Good(g, n) == \A i \in 0..Len(s) : i <= n => g[i] = KeptFrom(s, S, g)[i]
           N == {n \in Nat : \E g : Good(g, n)}
<1>1. 0 \in N
  <2>1. Good(KeptFrom(s, S, <<>>), 0)
    BY DEF KeptFrom
  <2> QED
    BY <2>1
<1>2. ASSUME NEW n \in Nat, n \in N
      PROVE  n + 1 \in N
  <2>1. PICK g : Good(g, n)
    BY <1>2
  <2>2. ASSUME NEW i \in 0..Len(s), i <= n + 1
        PROVE  KeptFrom(s, S, g)[i] = KeptFrom(s, S, KeptFrom(s, S, g))[i]
    <3>1. CASE i = 0
      BY <3>1 DEF KeptFrom
    <3>2. CASE i # 0
      <4>1. i - 1 \in 0..Len(s) /\ i - 1 <= n
        BY <2>2, <3>2
      <4>2. g[i - 1] = KeptFrom(s, S, g)[i - 1]
        BY <2>1, <4>1
      <4> QED
        BY <4>2, <3>2 DEF KeptFrom
    <3> QED
      BY <3>1, <3>2
  <2>3. Good(KeptFrom(s, S, g), n + 1)
    BY <2>2
  <2> HIDE DEF Good
  <2> QED
    BY <2>3
<1>3. Len(s) \in N
  <2> HIDE DEF N
  <2> QED
    BY <1>1, <1>2, NatSetInduction
<1>4. PICK g : Good(g, Len(s))
  BY <1>3
<1>5. KeptFrom(s, S, g) = KeptFrom(s, S, KeptFrom(s, S, g))
  <2>1. \A i \in 0..Len(s) : i # 0 => g[i - 1] = KeptFrom(s, S, g)[i - 1]
    BY <1>4
  <2> QED
    BY <2>1 DEF KeptFrom
<1> QED
  BY <1>5 DEF Only, KeptFrom

\* One step of the filter at a time.
KeptSteps(s, S, f) ==
    /\ f[0] = <<>>
    /\ \A i \in 1..Len(s) : f[i] = IF s[i] \in S THEN Append(f[i - 1], s[i]) ELSE f[i - 1]
    /\ Only(s, S) = f[Len(s)]

LEMMA OnlySteps ==
    ASSUME NEW X, NEW s \in Seq(X), NEW S
    PROVE  \E f : KeptSteps(s, S, f)
<1>1. PICK f : f = KeptFrom(s, S, f) /\ Only(s, S) = f[Len(s)]
  BY KeptExists
<1>2. f[0] = <<>> /\ \A i \in 1..Len(s) : f[i] = IF s[i] \in S THEN Append(f[i - 1], s[i]) ELSE f[i - 1]
  <2>1. \A i \in 0..Len(s) : f[i] = KeptFrom(s, S, f)[i]
    BY <1>1
  <2>2. 0 \in 0..Len(s) /\ \A i \in 1..Len(s) : i \in 0..Len(s) /\ i # 0
    OBVIOUS
  <2> QED
    BY <2>1, <2>2 DEF KeptFrom
<1> QED
  BY <1>1, <1>2 DEF KeptSteps

\* The filter keeps members of S only, all of them, and no repetition is new.
LEMMA OnlyIs ==
    ASSUME NEW X, NEW s \in Seq(X), NEW S
    PROVE  /\ Only(s, S) \in Seq(X)
           /\ ToSet(Only(s, S)) = ToSet(s) \cap S
           /\ IsInjective(s) => IsInjective(Only(s, S))
<1>1. PICK f : KeptSteps(s, S, f)
  BY OnlySteps
<1> DEFINE First(i) == {s[j] : j \in 1..i}
           N == {n \in Nat : n <= Len(s) =>
                    /\ f[n] \in Seq(X)
                    /\ ToSet(f[n]) = First(n) \cap S
                    /\ IsInjective(s) => IsInjective(f[n])}
<1>2. /\ f[0] = <<>> /\ Only(s, S) = f[Len(s)]
      /\ \A i \in 1..Len(s) : f[i] = IF s[i] \in S THEN Append(f[i - 1], s[i]) ELSE f[i - 1]
  BY <1>1 DEF KeptSteps
<1>3. 0 \in N
  <2>1. <<>> \in Seq(X) /\ ToSet(<<>>) = {} /\ First(0) = {} /\ IsInjective(<<>>)
    BY DEF ToSet, IsInjective
  <2> QED
    BY <1>2, <2>1
<1>4. ASSUME NEW n \in Nat, n \in N, n + 1 <= Len(s)
      PROVE  /\ f[n + 1] \in Seq(X)
             /\ ToSet(f[n + 1]) = First(n + 1) \cap S
             /\ IsInjective(s) => IsInjective(f[n + 1])
  <2>1. /\ f[n] \in Seq(X) /\ ToSet(f[n]) = First(n) \cap S
        /\ IsInjective(s) => IsInjective(f[n])
    BY <1>4
  <2>2. f[n + 1] = IF s[n + 1] \in S THEN Append(f[n], s[n + 1]) ELSE f[n]
    BY <1>2, <1>4
  <2>3. s[n + 1] \in X /\ First(n + 1) = First(n) \cup {s[n + 1]}
    BY <1>4
  <2>4. IsInjective(s) => s[n + 1] \notin First(n)
    BY <1>4 DEF IsInjective
  <2> HIDE DEF First
  <2>5. CASE s[n + 1] \in S
    <3>1. /\ f[n + 1] = Append(f[n], s[n + 1]) /\ f[n + 1] \in Seq(X)
          /\ Len(f[n + 1]) = Len(f[n]) + 1 /\ Len(f[n]) \in Nat
          /\ DOMAIN f[n + 1] = 1..Len(f[n]) + 1 /\ DOMAIN f[n] = 1..Len(f[n])
          /\ \A i \in 1..Len(f[n]) : f[n + 1][i] = f[n][i]
          /\ f[n + 1][Len(f[n]) + 1] = s[n + 1]
      BY <2>1, <2>2, <2>3, <2>5, AppendProperties
    <3>2. ToSet(f[n + 1]) = ToSet(f[n]) \cup {s[n + 1]}
      BY <3>1 DEF ToSet
    <3>3. ASSUME IsInjective(s) PROVE IsInjective(f[n + 1])
      <4>1. PICK g, h, m : g = f[n] /\ h = f[n + 1] /\ m = Len(f[n])
        OBVIOUS
      <4>2. /\ m \in Nat /\ DOMAIN g = 1..m /\ DOMAIN h = 1..m + 1
            /\ \A i \in 1..m : h[i] = g[i]
        BY <3>1, <4>1
      <4>3. \A i \in 1..m : g[i] # h[m + 1]
        <5>1. s[n + 1] \notin ToSet(f[n])
          BY <2>1, <2>4, <3>3
        <5> QED
          BY <3>1, <4>1, <4>2, <5>1 DEF ToSet
      <4>4. IsInjective(g)
        BY <2>1, <3>3, <4>1
      <4>5. \A i \in 1..m + 1 : i \in 1..m \/ i = m + 1
        BY <4>2
      <4>6. IsInjective(h)
        BY <4>2, <4>3, <4>4, <4>5 DEF IsInjective
      <4> QED
        BY <4>1, <4>6
    <3> QED
      BY <2>1, <2>3, <2>5, <3>1, <3>2, <3>3
  <2>6. CASE s[n + 1] \notin S
    BY <2>1, <2>2, <2>3, <2>6
  <2> QED
    BY <2>5, <2>6
<1>5. Len(s) \in N
  <2> HIDE DEF First
  <2>1. \A n \in Nat : n \in N => n + 1 \in N
    <3> SUFFICES ASSUME NEW n \in Nat, n \in N, n + 1 <= Len(s) PROVE n + 1 \in N
      OBVIOUS
    <3> QED
      BY <1>4
  <2> HIDE DEF N
  <2> QED
    BY <1>3, <2>1, NatSetInduction
<1>6. First(Len(s)) = ToSet(s)
  BY DEF ToSet
<1> QED
  BY <1>2, <1>5, <1>6

\* What the filter keeps is shorter when something was dropped.
LEMMA OnlyShorter ==
    ASSUME NEW X, NEW s \in Seq(X), NEW S
    PROVE  /\ Len(Only(s, S)) <= Len(s)
           /\ \A x \in ToSet(s) \ S : Len(Only(s, S)) < Len(s)
<1>1. PICK f : KeptSteps(s, S, f)
  BY OnlySteps
<1> DEFINE N == {n \in Nat : n <= Len(s) =>
                    /\ f[n] \in Seq(X) /\ Len(f[n]) <= n
                    /\ \A i \in 1..n : s[i] \notin S => Len(f[n]) < n}
<1>2. 0 \in N
  <2>1. f[0] = <<>> /\ <<>> \in Seq(X) /\ Len(<<>>) = 0
    BY <1>1 DEF KeptSteps
  <2>2. f[0] \in Seq(X) /\ Len(f[0]) <= 0
    BY <2>1
  <2>3. \A i \in 1..0 : s[i] \notin S => Len(f[0]) < 0
    OBVIOUS
  <2> QED
    BY <2>2, <2>3
<1>3. ASSUME NEW n \in Nat, n \in N PROVE n + 1 \in N
  <2> SUFFICES ASSUME n + 1 <= Len(s)
               PROVE  /\ f[n + 1] \in Seq(X) /\ Len(f[n + 1]) <= n + 1
                      /\ \A i \in 1..n + 1 : s[i] \notin S => Len(f[n + 1]) < n + 1
    OBVIOUS
  <2>1. /\ f[n] \in Seq(X) /\ Len(f[n]) <= n /\ Len(f[n]) \in Nat
        /\ \A i \in 1..n : s[i] \notin S => Len(f[n]) < n
    BY <1>3
  <2>2. n + 1 \in 1..Len(s) /\ (n + 1) - 1 = n /\ s[n + 1] \in X
    OBVIOUS
  <2>3. f[n + 1] = IF s[n + 1] \in S THEN Append(f[n], s[n + 1]) ELSE f[n]
    BY <1>1, <2>2 DEF KeptSteps
  <2>4. CASE s[n + 1] \in S
    <3>1. f[n + 1] \in Seq(X) /\ Len(f[n + 1]) = Len(f[n]) + 1
      BY <2>1, <2>2, <2>3, <2>4, AppendProperties
    <3>2. \A i \in 1..n + 1 : s[i] \notin S => i \in 1..n
      BY <2>4
    <3> QED
      BY <2>1, <3>1, <3>2
  <2>5. CASE s[n + 1] \notin S
    <3>1. f[n + 1] = f[n]
      BY <2>3, <2>5
    <3> QED
      BY <2>1, <3>1
  <2> QED
    BY <2>4, <2>5
<1>4. Len(s) \in N
  <2> HIDE DEF N
  <2> QED
    BY <1>2, <1>3, NatSetInduction
<1>5. ToSet(s) = {s[i] : i \in 1..Len(s)}
  BY DEF ToSet
<1> QED
  BY <1>1, <1>4, <1>5 DEF KeptSteps

\* Only the members that are kept count.
LEMMA OnlySame ==
    ASSUME NEW X, NEW s \in Seq(X), NEW S, NEW T, \A i \in 1..Len(s) : s[i] \in S <=> s[i] \in T
    PROVE  Only(s, S) = Only(s, T)
<1>1. PICK f : KeptSteps(s, S, f)
  BY OnlySteps
<1>2. PICK g : KeptSteps(s, T, g)
  BY OnlySteps
<1> DEFINE N == {n \in Nat : n <= Len(s) => f[n] = g[n]}
<1>3. 0 \in N
  BY <1>1, <1>2 DEF KeptSteps
<1>4. ASSUME NEW n \in Nat, n \in N PROVE n + 1 \in N
  <2> SUFFICES ASSUME n + 1 <= Len(s) PROVE f[n + 1] = g[n + 1]
    OBVIOUS
  <2>1. f[n] = g[n] /\ n + 1 \in 1..Len(s) /\ (n + 1) - 1 = n
    BY <1>4
  <2> QED
    BY <1>1, <1>2, <2>1 DEF KeptSteps
<1>5. Len(s) \in N
  <2> HIDE DEF N
  <2> QED
    BY <1>3, <1>4, NatSetInduction
<1> QED
  BY <1>1, <1>2, <1>5 DEF KeptSteps

\* What is kept may be one stretch of the sequence.
LEMMA OnlyStretch ==
    ASSUME NEW X, NEW s \in Seq(X), NEW S, NEW a \in 1..Len(s) + 1, NEW b \in 0..Len(s),
           \A i \in 1..Len(s) : s[i] \in S <=> i \in a..b
    PROVE  Only(s, S) = SubSeq(s, a, b)
<1>1. PICK f : KeptSteps(s, S, f)
  BY OnlySteps
<1> DEFINE to(n) == IF n < b THEN n ELSE b
           N == {n \in Nat : n <= Len(s) => f[n] = SubSeq(s, a, to(n))}
<1>2. Len(s) \in Nat /\ \A i \in 1..Len(s) : s[i] \in X
  BY LenProperties
<1>3. 0 \in N
  <2>1. to(0) = 0 /\ 0 < a
    BY <1>2
  <2>2. SubSeq(s, a, 0) = <<>>
    BY <1>2, <2>1, SubSeqEmpty
  <2> QED
    BY <1>1, <2>1, <2>2 DEF KeptSteps
<1>4. ASSUME NEW n \in Nat, n \in N PROVE n + 1 \in N
  <2> SUFFICES ASSUME n + 1 <= Len(s) PROVE f[n + 1] = SubSeq(s, a, to(n + 1))
    OBVIOUS
  <2>1. f[n] = SubSeq(s, a, to(n)) /\ n + 1 \in 1..Len(s) /\ (n + 1) - 1 = n
    BY <1>2, <1>4
  <2>2. f[n + 1] = IF s[n + 1] \in S THEN Append(f[n], s[n + 1]) ELSE f[n]
    BY <1>1, <2>1 DEF KeptSteps
  <2>3. CASE n + 1 < a
    <3>1. to(n) < a /\ to(n + 1) < a /\ to(n) \in Int /\ to(n + 1) \in Int /\ s[n + 1] \notin S
      BY <1>2, <2>1, <2>3
    <3>2. SubSeq(s, a, to(n)) = <<>> /\ SubSeq(s, a, to(n + 1)) = <<>>
      <4> HIDE DEF to
      <4> QED
        BY <1>2, <3>1, SubSeqEmpty
    <3> QED
      BY <2>1, <2>2, <3>1, <3>2
  <2>4. CASE n + 1 > b
    <3>1. to(n) = b /\ to(n + 1) = b /\ s[n + 1] \notin S
      BY <1>2, <2>1, <2>4
    <3> QED
      BY <2>1, <2>2, <3>1
  <2>5. CASE n + 1 \in a..b
    <3>1. to(n) = n /\ to(n + 1) = n + 1 /\ s[n + 1] \in S
      BY <1>2, <2>1, <2>5
    <3>2. a \in 1..Len(s) /\ n + 1 \in a..Len(s)
      BY <1>2, <2>1, <2>5
    <3>3. SubSeq(s, a, n + 1) = SubSeq(s, a, n) \o <<s[n + 1]>>
      BY <2>1, <3>2, SubSeqRecursiveSecond
    <3>4. SubSeq(s, a, n) \in Seq(X)
      BY <1>2, <2>1, <3>2, SubSeqProperties
    <3>5. Append(SubSeq(s, a, n), s[n + 1]) = SubSeq(s, a, n) \o <<s[n + 1]>>
      BY <1>2, <2>1, <3>4
    <3> QED
      BY <2>1, <2>2, <3>1, <3>3, <3>5
  <2> QED
    BY <1>2, <2>1, <2>3, <2>4, <2>5
<1>5. Len(s) \in N
  <2> HIDE DEF N
  <2> QED
    BY <1>2, <1>3, <1>4, NatSetInduction
<1>6. to(Len(s)) = b
  BY <1>2
<1> QED
  BY <1>1, <1>2, <1>5, <1>6 DEF KeptSteps

\* The members keep their order.
LEMMA OnlyOrder ==
    ASSUME NEW X, NEW s \in Seq(X), NEW S
    PROVE  \A i, j \in 1..Len(Only(s, S)) : i < j =>
              \E a, b \in 1..Len(s) : a < b /\ s[a] = Only(s, S)[i] /\ s[b] = Only(s, S)[j]
<1>1. PICK f : KeptSteps(s, S, f)
  BY OnlySteps
<1> DEFINE From(g, n) == \A i \in 1..Len(g) : \E a \in 1..n : s[a] = g[i]
           Ordered(g, n) == \A i, j \in 1..Len(g) : i < j =>
                              \E a, b \in 1..n : a < b /\ s[a] = g[i] /\ s[b] = g[j]
           N == {n \in Nat : n <= Len(s) => f[n] \in Seq(X) /\ From(f[n], n) /\ Ordered(f[n], n)}
<1>2. Len(s) \in Nat /\ \A i \in 1..Len(s) : s[i] \in X
  BY LenProperties
<1>3. 0 \in N
  <2>1. f[0] = <<>> /\ f[0] \in Seq(X) /\ Len(f[0]) = 0 /\ 1..0 = {}
    BY <1>1 DEF KeptSteps
  <2>2. 1..Len(f[0]) = {}
    BY <2>1
  <2>3. From(f[0], 0) /\ Ordered(f[0], 0)
    BY <2>2
  <2> HIDE DEF From, Ordered
  <2> QED
    BY <2>1, <2>3
<1>4. ASSUME NEW n \in Nat, n \in N PROVE n + 1 \in N
  <2> SUFFICES ASSUME n + 1 <= Len(s)
               PROVE  f[n + 1] \in Seq(X) /\ From(f[n + 1], n + 1) /\ Ordered(f[n + 1], n + 1)
    OBVIOUS
  <2>1. f[n] \in Seq(X) /\ From(f[n], n) /\ Ordered(f[n], n) /\ n + 1 \in 1..Len(s) /\ (n + 1) - 1 = n
    BY <1>2, <1>4
  <2>2. f[n + 1] = IF s[n + 1] \in S THEN Append(f[n], s[n + 1]) ELSE f[n]
    BY <1>1, <2>1 DEF KeptSteps
  <2>3. CASE f[n + 1] = f[n]
    <3>1. 1..n \subseteq 1..(n + 1)
      OBVIOUS
    <3> QED
      BY <2>1, <2>3, <3>1
  <2>4. CASE f[n + 1] = Append(f[n], s[n + 1])
    <3> DEFINE L == Len(f[n])
               g == f[n + 1]
    <3>1. L \in Nat /\ Len(g) = L + 1 /\ g[L + 1] = s[n + 1] /\ \A i \in 1..L : g[i] = f[n][i]
      BY <1>2, <2>1, <2>4
    <3>2. g \in Seq(X)
      BY <1>2, <2>1, <2>4
    <3>3. \A i \in 1..L : \E a \in 1..n : s[a] = f[n][i]
      BY <2>1
    <3>4. \A i, j \in 1..L : i < j => \E a, b \in 1..n : a < b /\ s[a] = f[n][i] /\ s[b] = f[n][j]
      BY <2>1
    <3> HIDE DEF L, g
    <3>5. From(g, n + 1)
      <4> SUFFICES ASSUME NEW i \in 1..Len(g) PROVE \E a \in 1..(n + 1) : s[a] = g[i]
        OBVIOUS
      <4>1. i \in 1..L \/ i = L + 1
        BY <3>1
      <4> QED
        BY <3>1, <3>3, <4>1
    <3>6. Ordered(g, n + 1)
      <4> SUFFICES ASSUME NEW i \in 1..Len(g), NEW j \in 1..Len(g), i < j
                   PROVE  \E a, b \in 1..(n + 1) : a < b /\ s[a] = g[i] /\ s[b] = g[j]
        OBVIOUS
      <4>1. i \in 1..L /\ (j \in 1..L \/ j = L + 1)
        BY <3>1
      <4>2. CASE j \in 1..L
        <5>1. PICK a \in 1..n, b \in 1..n : a < b /\ s[a] = f[n][i] /\ s[b] = f[n][j]
          BY <3>4, <4>1, <4>2
        <5>2. a \in 1..(n + 1) /\ b \in 1..(n + 1) /\ s[a] = g[i] /\ s[b] = g[j]
          BY <3>1, <4>1, <4>2, <5>1
        <5> QED
          BY <5>1, <5>2
      <4>3. CASE j = L + 1
        <5>1. PICK a \in 1..n : s[a] = f[n][i]
          BY <3>3, <4>1
        <5>2. a < n + 1 /\ a \in 1..(n + 1) /\ n + 1 \in 1..(n + 1) /\ s[a] = g[i] /\ s[n + 1] = g[j]
          BY <3>1, <4>1, <4>3, <5>1
        <5> QED
          BY <5>2
      <4> QED
        BY <4>1, <4>2, <4>3
    <3> QED
      BY <3>2, <3>5, <3>6 DEF g
  <2> QED
    BY <2>2, <2>3, <2>4
<1>5. Len(s) \in N
  <2> HIDE DEF N
  <2> QED
    BY <1>2, <1>3, <1>4, NatSetInduction
<1>6. Ordered(f[Len(s)], Len(s))
  <2> HIDE DEF From, Ordered
  <2> QED
    BY <1>2, <1>5
<1> QED
  BY <1>1, <1>6 DEF KeptSteps

-----------------------------------------------------------------------------
(* The concatenation of a sequence of sequences.                           *)

FlattenFrom(s, g) == [i \in 1..Len(s) |-> IF i = 1 THEN s[i] ELSE g[i - 1] \o s[i]]

\* One sequence at a time.
FlattenedBy(s, f) ==
    /\ f[0] = <<>>
    /\ \A i \in 1..Len(s) : f[i] = f[i - 1] \o s[i]
    /\ FlattenSeq(s) = f[Len(s)]

LEMMA FlattenSteps ==
    ASSUME NEW X, NEW s \in Seq(Seq(X))
    PROVE  \E f : FlattenedBy(s, f)
<1> DEFINE Good(g, n) == \A i \in 1..Len(s) : i <= n => g[i] = FlattenFrom(s, g)[i]
           N == {n \in Nat : \E g : Good(g, n)}
<1>1. 0 \in N
  OBVIOUS
<1>2. ASSUME NEW n \in Nat, n \in N
      PROVE  n + 1 \in N
  <2>1. PICK g : Good(g, n)
    BY <1>2
  <2>2. ASSUME NEW i \in 1..Len(s), i <= n + 1
        PROVE  FlattenFrom(s, g)[i] = FlattenFrom(s, FlattenFrom(s, g))[i]
    <3>1. CASE i = 1
      BY <3>1 DEF FlattenFrom
    <3>2. CASE i # 1
      <4>1. i - 1 \in 1..Len(s) /\ i - 1 <= n
        BY <2>2, <3>2
      <4>2. g[i - 1] = FlattenFrom(s, g)[i - 1]
        BY <2>1, <4>1
      <4> QED
        BY <4>2, <3>2 DEF FlattenFrom
    <3> QED
      BY <3>1, <3>2
  <2>3. Good(FlattenFrom(s, g), n + 1)
    BY <2>2
  <2> HIDE DEF Good
  <2> QED
    BY <2>3
<1>3. Len(s) \in N
  <2> HIDE DEF N
  <2> QED
    BY <1>1, <1>2, NatSetInduction
<1>4. PICK g : Good(g, Len(s))
  BY <1>3
<1> DEFINE h == FlattenFrom(s, g)
<1>5. h = FlattenFrom(s, h)
  <2>1. \A i \in 1..Len(s) : i # 1 => g[i - 1] = h[i - 1]
    BY <1>4
  <2> HIDE DEF h
  <2>2. FlattenFrom(s, g) = FlattenFrom(s, h)
    BY <2>1 DEF FlattenFrom
  <2> QED
    BY <2>2 DEF h
<1> HIDE DEF h
<1>6. PICK f : f = FlattenFrom(s, f) /\ (Len(s) # 0 => FlattenSeq(s) = f[Len(s)])
  <2> DEFINE flat == CHOOSE f : f = FlattenFrom(s, f)
  <2>1. flat = FlattenFrom(s, flat)
    BY <1>5
  <2>2. Len(s) # 0 => FlattenSeq(s) = flat[Len(s)]
    BY DEF FlattenSeq, FlattenFrom
  <2> QED
    BY <2>1, <2>2
<1>7. \A i \in 1..Len(s) : s[i] \in Seq(X)
  BY ElementOfSeq
<1>8. \A i \in 1..Len(s) : f[i] = IF i = 1 THEN s[i] ELSE f[i - 1] \o s[i]
  BY <1>6 DEF FlattenFrom
<1> DEFINE F == [i \in 0..Len(s) |-> IF i = 0 THEN <<>> ELSE f[i]]
<1>9. F[0] = <<>> /\ \A i \in 1..Len(s) : F[i] = f[i]
  OBVIOUS
<1>10. \A i \in 1..Len(s) : i # 1 => F[i - 1] = f[i - 1]
  OBVIOUS
<1>11. \A i \in 1..Len(s) : F[i] = F[i - 1] \o s[i]
  <2> SUFFICES ASSUME NEW i \in 1..Len(s) PROVE F[i] = F[i - 1] \o s[i]
    OBVIOUS
  <2> HIDE DEF F
  <2>1. CASE i = 1
    <3>1. s[i] \in Seq(X)
      BY <1>7
    <3>2. <<>> \o s[i] = s[i]
      BY <3>1, ConcatEmptySeq
    <3>3. F[i] = s[i] /\ F[i - 1] = <<>>
      BY <1>8, <1>9, <2>1
    <3> QED
      BY <3>2, <3>3
  <2>2. CASE i # 1
    <3>1. F[i] = f[i] /\ F[i - 1] = f[i - 1] /\ f[i] = f[i - 1] \o s[i]
      BY <1>8, <1>9, <1>10, <2>2
    <3> QED
      BY <3>1
  <2> QED
    BY <2>1, <2>2
<1>12. FlattenSeq(s) = F[Len(s)]
  <2>1. CASE Len(s) = 0
    BY <2>1 DEF FlattenSeq
  <2>2. CASE Len(s) # 0
    BY <1>6, <2>2
  <2> QED
    BY <2>1, <2>2
<1> HIDE DEF F
<1> QED
  BY <1>9, <1>11, <1>12 DEF FlattenedBy

\* The members of a sequence come from the sequences a to b.
ComeFrom(t, s, a, b) ==
    \A j \in 1..Len(t) : \E i \in a..b : \E m \in 1..Len(s[i]) : t[j] = s[i][m]

LEMMA ComeFromMore ==
    ASSUME NEW X, NEW s \in Seq(Seq(X)), NEW a \in Nat, NEW b \in 0..Len(s), a >= 1, a <= b + 1,
           b + 1 <= Len(s), NEW t \in Seq(X), ComeFrom(t, s, a, b)
    PROVE  t \o s[b + 1] \in Seq(X) /\ ComeFrom(t \o s[b + 1], s, a, b + 1)
<1> DEFINE u == s[b + 1]
<1>1. u \in Seq(X)
  BY ElementOfSeq
<1>2. /\ t \o u \in Seq(X) /\ Len(t \o u) = Len(t) + Len(u)
      /\ \A i \in 1..Len(t) + Len(u) : (t \o u)[i] = IF i <= Len(t) THEN t[i] ELSE u[i - Len(t)]
  BY <1>1, ConcatProperties
<1>3. ASSUME NEW j \in 1..Len(t) + Len(u)
      PROVE  \E i \in a..b + 1 : \E m \in 1..Len(s[i]) : (t \o u)[j] = s[i][m]
  <2>1. CASE j <= Len(t)
    <3>1. (t \o u)[j] = t[j] /\ j \in 1..Len(t)
      BY <1>2, <2>1
    <3>2. PICK i \in a..b : \E m \in 1..Len(s[i]) : t[j] = s[i][m]
      BY <3>1 DEF ComeFrom
    <3>3. i \in a..b + 1
      OBVIOUS
    <3> QED
      BY <3>1, <3>2, <3>3
  <2>2. CASE j > Len(t)
    <3>1. (t \o u)[j] = u[j - Len(t)] /\ j - Len(t) \in 1..Len(u) /\ b + 1 \in a..b + 1
      BY <1>1, <1>2, <2>2
    <3> QED
      BY <3>1
  <2> QED
    BY <2>1, <2>2
<1> HIDE DEF u
<1>4. ComeFrom(t \o u, s, a, b + 1)
  BY <1>2, <1>3 DEF ComeFrom
<1> QED
  BY <1>2, <1>4 DEF u

Associate(l, r, u) == (l \o r) \o u = l \o (r \o u)

LEMMA ConcatThree ==
    ASSUME NEW X, NEW l \in Seq(X), NEW r \in Seq(X), NEW u \in Seq(X)
    PROVE  Associate(l, r, u)
BY ConcatAssociative DEF Associate

\* Where an empty sequence was, another goes between what comes before it and
\* what comes after.
FlattenSplit(s, s2, b, p, l, r) ==
    /\ FlattenSeq(s) = l \o r /\ FlattenSeq(s2) = (l \o b) \o r
    /\ ComeFrom(l, s, 1, p - 1) /\ ComeFrom(r, s, p + 1, Len(s))

LEMMA FlattenInsert ==
    ASSUME NEW X, NEW s \in Seq(Seq(X)), NEW s2 \in Seq(Seq(X)), NEW p \in 1..Len(s),
           NEW b \in Seq(X), s[p] = <<>>, Len(s2) = Len(s), s2[p] = b,
           \A i \in 1..Len(s) : i # p => s2[i] = s[i]
    PROVE  \E l, r \in Seq(X) : FlattenSplit(s, s2, b, p, l, r)
<1>1. PICK f : FlattenedBy(s, f)
  BY FlattenSteps
<1>2. PICK g : FlattenedBy(s2, g)
  BY FlattenSteps
<1>3. /\ f[0] = <<>> /\ FlattenSeq(s) = f[Len(s)]
      /\ \A i \in 1..Len(s) : f[i] = f[i - 1] \o s[i]
      /\ g[0] = <<>> /\ FlattenSeq(s2) = g[Len(s)]
      /\ \A i \in 1..Len(s) : g[i] = g[i - 1] \o s2[i]
  BY <1>1, <1>2 DEF FlattenedBy
<1>4. Len(s) \in Nat /\ \A i \in 1..Len(s) : s[i] \in Seq(X)
  BY ElementOfSeq
<1> DEFINE B(n) == f[n] \in Seq(X) /\ g[n] = f[n] /\ ComeFrom(f[n], s, 1, n)
           Before == {n \in Nat : n < p => B(n)}
<1>5. B(p - 1)
  <2>1. B(0)
    <3>1. f[0] = <<>> /\ g[0] = <<>>
      BY ONLY <1>3
    <3>2. ComeFrom(<<>>, s, 1, 0)
      BY DEF ComeFrom
    <3> QED
      BY <3>1, <3>2
  <2>2. ASSUME NEW n \in Nat, B(n), n + 1 < p
        PROVE  B(n + 1)
    <3> HIDE DEF B
    <3>1. n + 1 \in 1..Len(s) /\ n + 1 # p /\ (n + 1) - 1 = n /\ n \in 0..Len(s)
      BY ONLY <1>4, <2>2, p \in 1..Len(s), n \in Nat
    <3>2. f[n + 1] = f[n] \o s[n + 1] /\ g[n + 1] = g[n] \o s[n + 1]
      BY <1>3, <3>1
    <3>3. f[n] \in Seq(X) /\ g[n] = f[n] /\ ComeFrom(f[n], s, 1, n)
      BY <2>2 DEF B
    <3>4. 1 \in Nat /\ n \in 0..Len(s) /\ 1 >= 1 /\ 1 <= n + 1 /\ n + 1 <= Len(s)
      BY <3>1
    <3>5. f[n] \o s[n + 1] \in Seq(X) /\ ComeFrom(f[n] \o s[n + 1], s, 1, n + 1)
      BY ONLY <3>3, <3>4, ComeFromMore, s \in Seq(Seq(X))
    <3> QED
      BY <3>2, <3>3, <3>5 DEF B
  <2> HIDE DEF B
  <2>3. ASSUME NEW n \in Nat, n \in Before PROVE n + 1 \in Before
    <3> SUFFICES ASSUME n + 1 < p PROVE B(n + 1)
      OBVIOUS
    <3>1. n < p
      BY ONLY <1>4, p \in 1..Len(s), n \in Nat, n + 1 < p
    <3>2. B(n)
      BY <2>3, <3>1
    <3> QED
      BY <2>2, <3>2
  <2>4. 0 \in Before
    BY <2>1
  <2>5. p - 1 \in Nat /\ p - 1 < p
    BY ONLY <1>4, p \in 1..Len(s)
  <2>6. p - 1 \in Before
    <3> HIDE DEF Before
    <3>1. \A n \in Nat : n \in Before => n + 1 \in Before
      BY <2>3
    <3>2. Nat \subseteq Before
      BY <2>4, <3>1, NatSetInduction
    <3> QED
      BY <2>5, <3>2
  <2> QED
    BY <2>5, <2>6
<1> DEFINE l == f[p - 1]
           After(n, r) == /\ r \in Seq(X) /\ f[n] = l \o r /\ g[n] = (l \o b) \o r
                          /\ ComeFrom(r, s, p + 1, n)
           A(n) == \E r : After(n, r)
           From == {n \in Nat : p <= n /\ n <= Len(s) => A(n)}
<1>6. l \in Seq(X) /\ g[p - 1] = l /\ ComeFrom(l, s, 1, p - 1)
  BY <1>5
<1> HIDE DEF l
<1>7. l \o b \in Seq(X)
  BY <1>6, ConcatProperties
<1>8. Len(s) \in From
  <2>1. 0 \in From
    BY <1>4
  <2>2. ASSUME NEW n \in Nat, p <= n => A(n), p <= n + 1, n + 1 <= Len(s)
        PROVE  A(n + 1)
    <3>1. n + 1 \in 1..Len(s) /\ (n + 1) - 1 = n
      BY <2>2
    <3>2. CASE n + 1 = p
      <4>1. f[n + 1] = l \o <<>> /\ g[n + 1] = l \o b
        BY <1>3, <1>6, <3>1, <3>2 DEF l
      <4>2. l \o b = (l \o b) \o <<>>
        BY <1>7, ConcatEmptySeq
      <4>3. ComeFrom(<<>>, s, p + 1, n + 1) /\ <<>> \in Seq(X)
        BY DEF ComeFrom
      <4>4. After(n + 1, <<>>)
        BY <4>1, <4>2, <4>3
      <4> QED
        BY <4>4
    <3>3. CASE n + 1 # p
      <4>0. p <= n
        BY <1>4, <2>2, <3>3
      <4>1. PICK r : After(n, r)
        BY <2>2, <4>0
      <4> DEFINE u == s[n + 1]
      <4>2. u \in Seq(X) /\ s2[n + 1] = u
        BY <1>4, <3>1, <3>3
      <4>3. f[n + 1] = (l \o r) \o u /\ g[n + 1] = ((l \o b) \o r) \o u
        BY <1>3, <3>1, <4>1, <4>2
      <4> HIDE DEF u
      <4>7. r \in Seq(X)
        BY <4>1
      <4>10. u \in Seq(X) /\ l \in Seq(X)
        BY <1>6, <4>2
      <4> DEFINE lb == l \o b
      <4>11. lb \in Seq(X)
        BY <1>7
      <4> HIDE DEF lb
      <4>8. (l \o r) \o u = l \o (r \o u)
        <5>1. Associate(l, r, u)
          BY <4>7, <4>10, ConcatThree
        <5> QED
          BY <5>1 DEF Associate
      <4>12. (lb \o r) \o u = lb \o (r \o u)
        <5>1. Associate(lb, r, u)
          BY <4>7, <4>10, <4>11, ConcatThree
        <5> QED
          BY <5>1 DEF Associate
      <4>9. ((l \o b) \o r) \o u = (l \o b) \o (r \o u)
        BY <4>12 DEF lb
      <4>4. f[n + 1] = l \o (r \o u) /\ g[n + 1] = (l \o b) \o (r \o u)
        BY <4>3, <4>8, <4>9
      <4>5. r \o u \in Seq(X) /\ ComeFrom(r \o u, s, p + 1, n + 1)
        <5>1. n \in 0..Len(s) /\ p + 1 \in Nat /\ p + 1 >= 1 /\ p + 1 <= n + 1 /\ n + 1 <= Len(s)
          BY <1>4, <2>2, <3>3
        <5>2. r \in Seq(X) /\ ComeFrom(r, s, p + 1, n)
          BY <4>1
        <5> QED
          BY ONLY <5>1, <5>2, ComeFromMore, s \in Seq(Seq(X)) DEF u
      <4>6. After(n + 1, r \o u)
        BY <4>4, <4>5
      <4> QED
        BY <4>6
    <3> QED
      BY <3>2, <3>3
  <2> HIDE DEF A
  <2>3. ASSUME NEW n \in Nat, n \in From PROVE n + 1 \in From
    <3> SUFFICES ASSUME p <= n + 1, n + 1 <= Len(s) PROVE A(n + 1)
      OBVIOUS
    <3>1. n <= Len(s)
      BY ONLY <1>4, n \in Nat, n + 1 <= Len(s)
    <3>2. p <= n => A(n)
      BY <2>3, <3>1
    <3> QED
      BY <2>2, <3>2
  <2> HIDE DEF From
  <2>4. \A n \in Nat : n \in From => n + 1 \in From
    BY <2>3
  <2> QED
    BY <1>4, <2>1, <2>4, NatSetInduction
<1>9. PICK r : After(Len(s), r)
  <2>1. p <= Len(s) /\ Len(s) <= Len(s)
    BY <1>4
  <2> HIDE DEF After
  <2> QED
    BY <1>8, <2>1
<1>10. FlattenSplit(s, s2, b, p, l, r)
  BY <1>3, <1>6, <1>9 DEF FlattenSplit
<1> QED
  BY <1>6, <1>9, <1>10

LEMMA FlattenEmpty ==
    ASSUME NEW X, NEW s \in Seq(Seq(X)), \A i \in 1..Len(s) : s[i] = <<>>
    PROVE  FlattenSeq(s) = <<>>
<1>1. PICK f : FlattenedBy(s, f)
  BY FlattenSteps
<1> DEFINE N == {n \in Nat : n <= Len(s) => f[n] = <<>>}
<1>3. 0 \in N
  BY <1>1 DEF FlattenedBy
<1>4. ASSUME NEW n \in Nat, n \in N, n + 1 <= Len(s) PROVE f[n + 1] = <<>>
  <2>1. n + 1 \in 1..Len(s) /\ (n + 1) - 1 = n
    BY <1>4
  <2>3. f[n + 1] = f[n] \o s[n + 1]
    BY <1>1, <2>1 DEF FlattenedBy
  <2>4. f[n] = <<>> /\ s[n + 1] = <<>>
    BY <1>4, <2>1
  <2>2. f[n + 1] = <<>> \o <<>>
    BY <2>3, <2>4
  <2> QED
    BY <2>2
<1>5. \A n \in Nat : n \in N => n + 1 \in N
  BY <1>4
<1>6. Len(s) \in N
  <2> HIDE DEF N
  <2> QED
    BY <1>3, <1>5, NatSetInduction
<1> QED
  BY <1>1, <1>6 DEF FlattenedBy

-----------------------------------------------------------------------------
(* A sequence with an element more or less.                                *)

\* A new element put in front.
LEMMA InFrontOf ==
    ASSUME NEW X, NEW s \in Seq(X), NEW x \in X
    PROVE  /\ <<x>> \o s \in Seq(X) /\ Len(<<x>> \o s) = Len(s) + 1
           /\ ToSet(<<x>> \o s) = {x} \cup ToSet(s)
           /\ IsInjective(s) /\ x \notin ToSet(s) => IsInjective(<<x>> \o s)
<1> DEFINE t == <<x>> \o s
<1>1. /\ t \in Seq(X) /\ Len(t) = Len(s) + 1 /\ Len(s) \in Nat
      /\ \A i \in 1..Len(s) + 1 : t[i] = IF i <= 1 THEN x ELSE s[i - 1]
  <2>1. <<x>> \in Seq(X) /\ Len(<<x>>) = 1 /\ <<x>>[1] = x
    OBVIOUS
  <2>2. /\ t \in Seq(X) /\ Len(t) = Len(<<x>>) + Len(s)
        /\ \A i \in 1..Len(<<x>>) + Len(s) :
              t[i] = IF i <= Len(<<x>>) THEN <<x>>[i] ELSE s[i - Len(<<x>>)]
    BY <2>1, ConcatProperties
  <2> QED
    BY <2>1, <2>2
<1>2. DOMAIN t = 1..Len(s) + 1 /\ DOMAIN s = 1..Len(s)
  BY <1>1
<1>3. t[1] = x /\ \A i \in 1..Len(s) : t[i + 1] = s[i]
  BY <1>1
<1>4. \A i \in 1..Len(s) + 1 : i = 1 \/ (i - 1 \in 1..Len(s) /\ t[i] = s[i - 1])
  BY <1>1
<1> HIDE DEF t
<1>5. ToSet(t) = {x} \cup ToSet(s)
  <2>1. \A i \in 1..Len(s) : i + 1 \in 1..Len(s) + 1
    BY <1>1
  <2>2. 1 \in 1..Len(s) + 1
    BY <1>1
  <2>3. ToSet(t) = {t[i] : i \in 1..Len(s) + 1} /\ ToSet(s) = {s[i] : i \in 1..Len(s)}
    BY <1>2 DEF ToSet
  <2>4. \A y \in ToSet(t) : y \in {x} \cup ToSet(s)
    BY <1>3, <1>4, <2>3
  <2>5. \A y \in {x} \cup ToSet(s) : y \in ToSet(t)
    BY <1>3, <2>1, <2>2, <2>3
  <2> QED
    BY <2>4, <2>5
<1>6. ASSUME IsInjective(s), x \notin ToSet(s) PROVE IsInjective(t)
  <2> SUFFICES ASSUME NEW a \in 1..Len(s) + 1, NEW b \in 1..Len(s) + 1, t[a] = t[b] PROVE a = b
    BY <1>2 DEF IsInjective
  <2>1. \A i \in 1..Len(s) : s[i] # x
    BY <1>2, <1>6 DEF ToSet
  <2>2. CASE a = 1 \/ b = 1
    BY <1>3, <1>4, <2>1, <2>2
  <2>3. CASE a # 1 /\ b # 1
    <3>1. a - 1 \in 1..Len(s) /\ b - 1 \in 1..Len(s) /\ s[a - 1] = s[b - 1]
      BY <1>1, <2>3
    <3>2. a - 1 = b - 1
      BY <1>2, <1>6, <3>1 DEF IsInjective
    <3> QED
      BY <1>1, <3>2
  <2> QED
    BY <2>2, <2>3
<1> QED
  BY <1>1, <1>5, <1>6 DEF t

\* The first elements of a sequence.
LEMMA FirstOnes ==
    ASSUME NEW X, NEW s \in Seq(X), NEW n \in 0..Len(s)
    PROVE  /\ SubSeq(s, 1, n) \in Seq(X) /\ Len(SubSeq(s, 1, n)) = n
           /\ \A i \in 1..n : SubSeq(s, 1, n)[i] = s[i]
           /\ ToSet(SubSeq(s, 1, n)) \subseteq ToSet(s)
           /\ IsInjective(s) => IsInjective(SubSeq(s, 1, n))
<1> DEFINE t == SubSeq(s, 1, n)
<1>1. Len(s) \in Nat /\ n \in Nat /\ \A i \in 1..n : i \in 1..Len(s) /\ s[i] \in X
  OBVIOUS
<1>2. /\ t \in Seq(X) /\ Len(t) = n /\ \A i \in 1..n : t[i] = s[i]
  <2>1. /\ t \in Seq(X) /\ Len(t) = IF 1 <= n THEN n - 1 + 1 ELSE 0
        /\ \A i \in 1..n - 1 + 1 : t[i] = s[1 + i - 1]
    BY <1>1, SubSeqProperties
  <2> QED
    BY <1>1, <2>1
<1>3. DOMAIN t = 1..n /\ DOMAIN s = 1..Len(s)
  BY <1>2
<1> HIDE DEF t
<1>4. ToSet(t) \subseteq ToSet(s) /\ (IsInjective(s) => IsInjective(t))
  BY <1>1, <1>2, <1>3 DEF ToSet, IsInjective
<1> QED
  BY <1>2, <1>4 DEF t

\* What is left of a sequence without its n-th element.
LEMMA RemoveAtKeepsRest ==
    ASSUME NEW S, NEW s \in Seq(S), NEW n \in 1..Len(s)
    PROVE  /\ RemoveAt(s, n) \in Seq(S)
           /\ Len(RemoveAt(s, n)) = Len(s) - 1
           /\ \A i \in 1..Len(s) - 1 : RemoveAt(s, n)[i] = IF i < n THEN s[i] ELSE s[i + 1]
<1> DEFINE front == SubSeq(s, 1, n - 1)
           back  == SubSeq(s, n + 1, Len(s))
<1>1. Len(s) \in Nat /\ n \in Int
  OBVIOUS
<1>2. /\ front \in Seq(S) /\ Len(front) = n - 1
      /\ \A i \in 1..n - 1 : front[i] = s[i]
  <2>1. \A i \in 1..n - 1 : s[i] \in S
    BY <1>1
  <2>2. /\ front \in Seq(S)
        /\ Len(front) = IF 1 <= n - 1 THEN n - 1 - 1 + 1 ELSE 0
        /\ \A i \in 1..n - 1 - 1 + 1 : front[i] = s[1 + i - 1]
    BY <1>1, <2>1, SubSeqProperties
  <2> QED
    BY <1>1, <2>2
<1>3. /\ back \in Seq(S) /\ Len(back) = Len(s) - n
      /\ \A i \in 1..Len(s) - n : back[i] = s[n + i]
  <2>1. \A i \in n + 1..Len(s) : s[i] \in S
    BY <1>1
  <2>2. /\ back \in Seq(S)
        /\ Len(back) = IF n + 1 <= Len(s) THEN Len(s) - (n + 1) + 1 ELSE 0
        /\ \A i \in 1..Len(s) - (n + 1) + 1 : back[i] = s[n + 1 + i - 1]
    BY <1>1, <2>1, SubSeqProperties
  <2> QED
    BY <1>1, <2>2
<1> HIDE DEF front, back
<1>4. /\ front \o back \in Seq(S)
      /\ Len(front \o back) = Len(s) - 1
      /\ \A i \in 1..Len(s) - 1 :
            (front \o back)[i] = IF i <= n - 1 THEN front[i] ELSE back[i - (n - 1)]
  <2>1. /\ front \o back \in Seq(S)
        /\ Len(front \o back) = Len(front) + Len(back)
        /\ \A i \in 1..Len(front) + Len(back) :
              (front \o back)[i] = IF i <= Len(front) THEN front[i] ELSE back[i - Len(front)]
    BY <1>2, <1>3, ConcatProperties
  <2> QED
    BY <1>1, <1>2, <1>3, <2>1
<1>5. \A i \in 1..Len(s) - 1 : (front \o back)[i] = IF i < n THEN s[i] ELSE s[i + 1]
  <2>1. ASSUME NEW i \in 1..Len(s) - 1, i < n
        PROVE  (front \o back)[i] = s[i]
    BY <1>1, <1>2, <1>4, <2>1
  <2>2. ASSUME NEW i \in 1..Len(s) - 1, ~(i < n)
        PROVE  (front \o back)[i] = s[i + 1]
    <3>1. (front \o back)[i] = back[i - (n - 1)] /\ i - (n - 1) \in 1..Len(s) - n
      BY <1>1, <1>4, <2>2
    <3>2. n + (i - (n - 1)) = i + 1
      BY <1>1
    <3> QED
      BY <1>3, <3>1, <3>2
  <2> QED
    BY <2>1, <2>2
<1> QED
  BY <1>4, <1>5 DEF RemoveAt, front, back

-----------------------------------------------------------------------------
(* Sums of bytes.                                                          *)

BytesIn(map, S) == MapThenSumSet(LAMBDA k : map[k].bytes, S)

First(S) == CHOOSE k \in S : TRUE

SumFrom(map, S, g) ==
    [T \in SUBSET S |-> IF T = {} THEN 0 ELSE map[First(T)].bytes + g[T \ {First(T)}]]

LEMMA OneLess ==
    ASSUME NEW T, IsFiniteSet(T), NEW x \in T
    PROVE  /\ IsFiniteSet(T \ {x}) /\ Cardinality(T \ {x}) = Cardinality(T) - 1
           /\ Cardinality(T) \in Nat /\ Cardinality(T \ {x}) \in Nat
BY FS_RemoveElement, FS_CardinalityType

LEMMA FirstIs ==
    ASSUME NEW T, T # {}, IsFiniteSet(T)
    PROVE  /\ First(T) \in T /\ IsFiniteSet(T \ {First(T)})
           /\ Cardinality(T \ {First(T)}) = Cardinality(T) - 1
           /\ Cardinality(T) \in Nat /\ Cardinality(T) # 0
<1>1. First(T) \in T
  BY DEF First
<1> QED
  BY <1>1, FS_RemoveElement, FS_CardinalityType, FS_EmptySet

\* The recursive function that a sum is made of exists.
LEMMA SumExists ==
    ASSUME NEW map, NEW S, IsFiniteSet(S)
    PROVE  \E g : g = SumFrom(map, S, g) /\ BytesIn(map, S) = g[S]
<1> DEFINE Good(g, n) == \A T \in SUBSET S : Cardinality(T) <= n => g[T] = SumFrom(map, S, g)[T]
           N == {n \in Nat : \E g : Good(g, n)}
<1>0. \A T \in SUBSET S : IsFiniteSet(T) /\ Cardinality(T) \in Nat /\ Cardinality(T) <= Cardinality(S)
  BY FS_Subset, FS_CardinalityType
<1>1. 0 \in N
  <2>1. \A T \in SUBSET S : Cardinality(T) <= 0 => T = {}
    BY <1>0, FS_EmptySet
  <2>2. Good(SumFrom(map, S, <<>>), 0)
    BY <2>1 DEF SumFrom
  <2> QED
    BY <2>2
<1>2. ASSUME NEW n \in Nat, n \in N
      PROVE  n + 1 \in N
  <2>1. PICK g : Good(g, n)
    BY <1>2
  <2>2. ASSUME NEW T \in SUBSET S, Cardinality(T) <= n + 1
        PROVE  SumFrom(map, S, g)[T] = SumFrom(map, S, SumFrom(map, S, g))[T]
    <3>1. CASE T = {}
      BY <3>1 DEF SumFrom
    <3>2. CASE T # {}
      <4>1. T \ {First(T)} \in SUBSET S /\ Cardinality(T \ {First(T)}) <= n
        BY <1>0, <2>2, <3>2, FirstIs
      <4>2. g[T \ {First(T)}] = SumFrom(map, S, g)[T \ {First(T)}]
        BY <2>1, <4>1
      <4> QED
        BY <4>2, <3>2 DEF SumFrom
    <3> QED
      BY <3>1, <3>2
  <2>3. Good(SumFrom(map, S, g), n + 1)
    BY <2>2
  <2> HIDE DEF Good
  <2> QED
    BY <2>3
<1>3. Cardinality(S) \in N
  <2> HIDE DEF N
  <2> QED
    BY <1>0, <1>1, <1>2, NatSetInduction
<1>4. PICK g : Good(g, Cardinality(S))
  BY <1>3
<1>5. SumFrom(map, S, g) = SumFrom(map, S, SumFrom(map, S, g))
  <2>1. ASSUME NEW T \in SUBSET S, T # {}
        PROVE  g[T \ {First(T)}] = SumFrom(map, S, g)[T \ {First(T)}]
    <3>1. T \ {First(T)} \in SUBSET S
      OBVIOUS
    <3> QED
      BY <1>0, <1>4, <3>1
  <2> QED
    BY <2>1 DEF SumFrom
<1> HIDE DEF Good, N
<1> QED
  BY <1>5 DEF BytesIn, MapThenSumSet, MapThenFoldSet, SumFrom, First

\* The sums over a set of two maps that agree on it.
LEMMA SumAgrees ==
    ASSUME NEW m1, NEW S1, NEW g, g = SumFrom(m1, S1, g),
           NEW m2, NEW S2, NEW h, h = SumFrom(m2, S2, h),
           NEW U, U \subseteq S1, U \subseteq S2, IsFiniteSet(U),
           \A k \in U : m1[k].bytes = m2[k].bytes
    PROVE  g[U] = h[U]
<1> DEFINE N == {n \in Nat : \A T \in SUBSET U : Cardinality(T) = n => g[T] = h[T]}
<1>0. \A T \in SUBSET U : IsFiniteSet(T) /\ Cardinality(T) \in Nat
  BY FS_Subset, FS_CardinalityType
<1>1. \A T \in SUBSET U : /\ g[T] = IF T = {} THEN 0 ELSE m1[First(T)].bytes + g[T \ {First(T)}]
                          /\ h[T] = IF T = {} THEN 0 ELSE m2[First(T)].bytes + h[T \ {First(T)}]
  <2>1. \A T \in SUBSET U : /\ T \in SUBSET S1 /\ T \in SUBSET S2
                            /\ g[T] = SumFrom(m1, S1, g)[T] /\ h[T] = SumFrom(m2, S2, h)[T]
    OBVIOUS
  <2> QED
    BY <2>1 DEF SumFrom
<1>2. 0 \in N
  <2>1. \A T \in SUBSET U : Cardinality(T) = 0 => T = {}
    BY <1>0, FS_EmptySet
  <2> QED
    BY <1>1, <2>1
<1>3. ASSUME NEW n \in Nat, n \in N
      PROVE  n + 1 \in N
  <2> SUFFICES ASSUME NEW T \in SUBSET U, Cardinality(T) = n + 1
               PROVE  g[T] = h[T]
    OBVIOUS
  <2>1. T # {}
    BY FS_EmptySet
  <2>2. T \ {First(T)} \in SUBSET U /\ Cardinality(T \ {First(T)}) = n /\ First(T) \in U
    BY <1>0, <2>1, FirstIs
  <2>3. g[T \ {First(T)}] = h[T \ {First(T)}]
    BY <1>3, <2>2
  <2> QED
    BY <1>1, <2>1, <2>2, <2>3
<1>4. Cardinality(U) \in N
  <2> HIDE DEF N
  <2> QED
    BY <1>0, <1>2, <1>3, NatSetInduction
<1> QED
  BY <1>4

LEMMA SumSame ==
    ASSUME NEW m1, NEW m2, NEW S, IsFiniteSet(S), \A k \in S : m1[k].bytes = m2[k].bytes
    PROVE  BytesIn(m1, S) = BytesIn(m2, S)
<1>1. PICK g : g = SumFrom(m1, S, g) /\ BytesIn(m1, S) = g[S]
  BY SumExists
<1>2. PICK h : h = SumFrom(m2, S, h) /\ BytesIn(m2, S) = h[S]
  BY SumExists
<1>3. g[S] = h[S]
  BY <1>1, <1>2, SumAgrees
<1> QED
  BY <1>1, <1>2, <1>3

LEMMA SumFirst ==
    ASSUME NEW map, NEW S, IsFiniteSet(S)
    PROVE  BytesIn(map, S) = IF S = {} THEN 0 ELSE map[First(S)].bytes + BytesIn(map, S \ {First(S)})
<1>1. PICK g : g = SumFrom(map, S, g) /\ BytesIn(map, S) = g[S]
  BY SumExists
<1>2. g[S] = SumFrom(map, S, g)[S] /\ S \in SUBSET S
  BY <1>1
<1>3. CASE S = {}
  BY <1>1, <1>2, <1>3 DEF SumFrom
<1>4. CASE S # {}
  <2> DEFINE T == S \ {First(S)}
  <2>1. IsFiniteSet(T)
    BY <1>4, FirstIs
  <2>2. PICK h : h = SumFrom(map, T, h) /\ BytesIn(map, T) = h[T]
    BY <2>1, SumExists
  <2>3. T \subseteq S /\ T \subseteq T
    OBVIOUS
  <2> HIDE DEF T
  <2>4. g[T] = h[T]
    BY <1>1, <2>1, <2>2, <2>3, SumAgrees
  <2>5. g[S] = map[First(S)].bytes + g[T]
    BY <1>2, <1>4 DEF SumFrom, T
  <2> QED
    BY <1>1, <1>4, <2>2, <2>4, <2>5 DEF T
<1> QED
  BY <1>3, <1>4

Weighed(map, S) == IsFiniteSet(S) /\ \A k \in S : map[k].bytes \in Nat

\* A sum over numbers is one, and any element may be taken out of it first.
LEMMA SumRemove ==
    ASSUME NEW map, NEW S, Weighed(map, S)
    PROVE  /\ BytesIn(map, S) \in Nat
           /\ \A k \in S : BytesIn(map, S) = map[k].bytes + BytesIn(map, S \ {k})
<1> DEFINE Good(T) == /\ BytesIn(map, T) \in Nat
                      /\ \A k \in T : BytesIn(map, T) = map[k].bytes + BytesIn(map, T \ {k})
           N == {n \in Nat : \A T \in SUBSET S : Cardinality(T) <= n => Good(T)}
<1>0. \A T \in SUBSET S : IsFiniteSet(T) /\ Cardinality(T) \in Nat
  BY FS_Subset, FS_CardinalityType DEF Weighed
<1>1. 0 \in N
  <2>1. \A T \in SUBSET S : Cardinality(T) <= 0 => T = {}
    BY <1>0, FS_EmptySet
  <2>2. BytesIn(map, {}) = 0
    BY SumFirst, FS_EmptySet
  <2>3. Good({})
    BY <2>2
  <2> HIDE DEF Good
  <2> QED
    BY <2>1, <2>3
<1>2. ASSUME NEW n \in Nat, n \in N
      PROVE  n + 1 \in N
  <2>1. \A T \in SUBSET S : Cardinality(T) <= n => Good(T)
    BY <1>2
  <2> HIDE DEF N
  <2>2. ASSUME NEW T \in SUBSET S, Cardinality(T) = n + 1
        PROVE  Good(T)
    <3> DEFINE c == First(T)
    <3>1. T # {} /\ IsFiniteSet(T)
      BY <1>0, <2>2, FS_EmptySet
    <3>2. c \in T /\ T \ {c} \in SUBSET S /\ Cardinality(T \ {c}) <= n
      <4>1. c \in T /\ Cardinality(T \ {c}) = Cardinality(T) - 1
        BY <3>1, FirstIs
      <4> QED
        BY <2>2, <4>1
    <3>3. BytesIn(map, T) = map[c].bytes + BytesIn(map, T \ {c})
      BY <3>1, SumFirst
    <3> HIDE DEF c
    <3>4. Good(T \ {c}) /\ map[c].bytes \in Nat
      BY <2>1, <3>2 DEF Weighed
    <3>5. ASSUME NEW k \in T, k # c
          PROVE  BytesIn(map, T) = map[k].bytes + BytesIn(map, T \ {k})
      <4>1. /\ T \ {k} \in SUBSET S /\ c \in T \ {k} /\ k \in T \ {c}
            /\ (T \ {k}) \ {c} = (T \ {c}) \ {k}
        BY <3>2, <3>5
      <4>2. Cardinality(T \ {k}) <= n
        BY <2>2, <3>1, OneLess
      <4>3. Good(T \ {k})
        BY <2>1, <4>1, <4>2
      <4>4. BytesIn(map, T \ {k}) = map[c].bytes + BytesIn(map, (T \ {c}) \ {k})
        BY <4>1, <4>3
      <4>5. BytesIn(map, T \ {c}) = map[k].bytes + BytesIn(map, (T \ {c}) \ {k})
        BY <3>4, <4>1
      <4>6. /\ map[k].bytes \in Nat /\ BytesIn(map, T \ {k}) \in Nat /\ BytesIn(map, T \ {c}) \in Nat
        BY <3>4, <4>3 DEF Weighed
      <4>7. (T \ {c}) \ {k} \in SUBSET S /\ Cardinality((T \ {c}) \ {k}) <= n
        <5>1. Cardinality((T \ {c}) \ {k}) <= Cardinality(T \ {c})
          BY <1>0, <3>2, FS_Subset
        <5> QED
          BY <1>0, <3>2, <5>1
      <4>8. BytesIn(map, (T \ {c}) \ {k}) \in Nat
        BY <2>1, <4>7
      <4> HIDE DEF Good
      <4> QED
        BY <3>3, <3>4, <4>4, <4>5, <4>6, <4>8
    <3>6. BytesIn(map, T \ {c}) \in Nat
      BY <3>4
    <3>7. BytesIn(map, T) \in Nat
      BY <3>3, <3>4, <3>6
    <3>8. ASSUME NEW k \in T
          PROVE  BytesIn(map, T) = map[k].bytes + BytesIn(map, T \ {k})
      BY <3>3, <3>5, Zenon
    <3> QED
      BY <3>7, <3>8, Zenon
  <2> HIDE DEF Good
  <2>3. \A T \in SUBSET S : Cardinality(T) <= n + 1 => Good(T)
    BY <1>0, <2>1, <2>2
  <2> QED
    BY <2>3 DEF N
<1>3. Cardinality(S) \in N
  <2> HIDE DEF N
  <2> QED
    BY <1>0, <1>1, <1>2, NatSetInduction
<1> QED
  BY <1>3

\* A sum in two parts.
LEMMA SumSplit ==
    ASSUME NEW map, NEW S, Weighed(map, S), NEW T \in SUBSET S
    PROVE  /\ BytesIn(map, S) = BytesIn(map, S \ T) + BytesIn(map, T)
           /\ BytesIn(map, S) \in Nat /\ BytesIn(map, S \ T) \in Nat /\ BytesIn(map, T) \in Nat
<1> DEFINE N == {n \in Nat : \A U \in SUBSET S :
                    Cardinality(U) = n => BytesIn(map, S) = BytesIn(map, S \ U) + BytesIn(map, U)}
<1>0. \A U \in SUBSET S : /\ IsFiniteSet(U) /\ Cardinality(U) \in Nat /\ Weighed(map, U)
                          /\ BytesIn(map, U) \in Nat
                          /\ \A k \in U : BytesIn(map, U) = map[k].bytes + BytesIn(map, U \ {k})
  <2>1. \A U \in SUBSET S : IsFiniteSet(U) /\ Cardinality(U) \in Nat /\ Weighed(map, U)
    BY FS_Subset, FS_CardinalityType DEF Weighed
  <2> QED
    BY <2>1, SumRemove
<1>1. 0 \in N
  <2>1. \A U \in SUBSET S : Cardinality(U) = 0 => U = {}
    BY <1>0, FS_EmptySet
  <2>2. BytesIn(map, {}) = 0 /\ S \ {} = S /\ BytesIn(map, S) \in Nat
    BY <1>0, SumFirst, FS_EmptySet
  <2> QED
    BY <2>1, <2>2
<1>2. ASSUME NEW n \in Nat, n \in N
      PROVE  n + 1 \in N
  <2> SUFFICES ASSUME NEW U \in SUBSET S, Cardinality(U) = n + 1
               PROVE  BytesIn(map, S) = BytesIn(map, S \ U) + BytesIn(map, U)
    OBVIOUS
  <2>1. U # {}
    BY FS_EmptySet
  <2>2. PICK k \in U : TRUE
    BY <2>1
  <2> DEFINE V == U \ {k}
  <2>3. V \in SUBSET S /\ Cardinality(V) = n
    <3>1. IsFiniteSet(U)
      BY <1>0
    <3>2. Cardinality(V) = Cardinality(U) - 1
      BY <2>2, <3>1, OneLess
    <3> QED
      BY <3>2
  <2>4. BytesIn(map, S) = BytesIn(map, S \ V) + BytesIn(map, V)
    BY <1>2, <2>3
  <2>5. k \in S \ V /\ (S \ V) \ {k} = S \ U
    BY <2>2
  <2>6. BytesIn(map, S \ V) = map[k].bytes + BytesIn(map, S \ U)
    BY <1>0, <2>5
  <2>7. BytesIn(map, U) = map[k].bytes + BytesIn(map, V)
    BY <1>0, <2>2
  <2>8. map[k].bytes \in Nat /\ BytesIn(map, V) \in Nat /\ BytesIn(map, S \ U) \in Nat
    BY <1>0, <2>2 DEF Weighed
  <2> HIDE DEF V
  <2> QED
    BY <2>4, <2>6, <2>7, <2>8
<1>3. Cardinality(T) \in N
  <2> HIDE DEF N
  <2> QED
    BY <1>0, <1>1, <1>2, NatSetInduction
<1> QED
  BY <1>0, <1>3
=============================================================================
