--------------------------- MODULE TimelineProofs ---------------------------
(***************************************************************************)
(* What the operators of Timeline, Replica and TimelineSync return, for    *)
(* any rows, entries, pages and replicas: sequences and merging, types,    *)
(* the projection of an epoch and its pages, and what a replica displays   *)
(* of the rows of its epoch when a row, a page or its buffer is applied.   *)
(* No lemma here is about a behaviour; TimelineSyncProofs has those.       *)
(***************************************************************************)
EXTENDS TimelineSync, SequenceTheorems, NaturalsInduction, WellFoundedInduction, TLAPS

-----------------------------------------------------------------------------
(* Recursion and sequences.                                                *)

\* A nonempty set of naturals has a least member.
LEMMA LeastNumber ==
    ASSUME NEW S, S \subseteq Nat, S # {}
    PROVE  \E n \in S : \A m \in S : n <= m
<1>. DEFINE Less == {pair \in Nat \X Nat : pair[1] < pair[2]}
<1>1. IsWellFoundedOn(Less, Nat)
  BY NatLessThanWellFounded DEF OpToRel
<1>2. PICK n \in S : \A m \in S : ~(<<m, n>> \in Less)
  <2>. HIDE DEF Less
  <2>. QED
    BY <1>1, WFMin
<1>3. ASSUME NEW m \in S PROVE n <= m
  <2>1. <<m, n>> \in Nat \X Nat /\ <<m, n>>[1] = m /\ <<m, n>>[2] = n
    OBVIOUS
  <2>2. m < n => <<m, n>> \in Less
    BY <2>1
  <2>. QED
    BY <1>2, <2>2
<1>. QED
  BY <1>3

\* A set of integers with an upper bound has a greatest member, and Max is it.
Bounded(S, b) == S \subseteq Int /\ S # {} /\ b \in Int /\ \A s \in S : s <= b

LEMMA MaxIs ==
    ASSUME NEW S, NEW b, Bounded(S, b)
    PROVE  Max(S) \in S /\ \A s \in S : s <= Max(S)
<1>. SUFFICES ASSUME S \subseteq Int, b \in Int, \A s \in S : s <= b, S # {}
              PROVE  Max(S) \in S /\ \A s \in S : s <= Max(S)
  BY DEF Bounded
<1>. DEFINE Below == {n \in Nat : \E s \in S : n = b - s}
<1>1. ASSUME NEW s \in S PROVE b - s \in Below
  <2>1. b - s \in Nat
    BY s \in Int, s <= b
  <2>. QED
    BY <2>1
<1>2. Below \subseteq Nat /\ Below # {}
  <2>1. \E s : s \in S
    OBVIOUS
  <2>. QED
    BY <2>1, <1>1
<1>3. PICK n \in Below : \A m \in Below : n <= m
  <2>. HIDE DEF Below
  <2>. QED
    BY <1>2, LeastNumber
<1>4. PICK x \in S : n = b - x
  BY <1>3
<1>5. ASSUME NEW s \in S PROVE s <= x
  <2>1. n <= b - s
    <3>. HIDE DEF Below
    <3>. QED
      BY <1>1, <1>3
  <2>2. s \in Int /\ x \in Int
    OBVIOUS
  <2>. QED
    BY <2>1, <2>2, <1>4
<1>. QED
  BY <1>5 DEF Max

\* So has a set of positive numbers a least one.
LEMMA MinIs ==
    ASSUME NEW S, S \subseteq Nat, S # {}
    PROVE  Min(S) \in S /\ \A s \in S : Min(S) <= s
BY LeastNumber DEF Min

\* A recursive definition on a..b by a function G of the value before and the
\* argument has a solution with values where those of G are.
Stepwise(V, a, b, first, G) == a \in Int /\ b \in Int /\ first \in V /\ G \in [a + 1..b -> [V -> V]]
Solvable(V, a, b, first, G) ==
    \E f \in [a..b -> V] : \A n \in a..b : f[n] = IF n = a THEN first ELSE G[n][f[n - 1]]

LEMMA Recursion ==
    ASSUME NEW V, NEW a, NEW b, NEW first, NEW G, Stepwise(V, a, b, first, G)
    PROVE  Solvable(V, a, b, first, G)
<1>. SUFFICES ASSUME a \in Int, b \in Int, first \in V, G \in [a + 1..b -> [V -> V]]
              PROVE  \E f \in [a..b -> V] : \A n \in a..b : f[n] = IF n = a THEN first ELSE G[n][f[n - 1]]
  BY DEF Stepwise, Solvable
<1>. DEFINE Solves(f, k) == \A n \in a..k : f[n] = IF n = a THEN first ELSE G[n][f[n - 1]]
            Bad == {k \in Nat : a + k <= b /\ ~ \E f \in [a..a + k -> V] : Solves(f, a + k)}
<1>1. Bad = {}
  <2>. SUFFICES ASSUME Bad # {} PROVE FALSE
    OBVIOUS
  <2>1. PICK k \in Bad : \A m \in Bad : k <= m
    <3>. HIDE DEF Bad
    <3>1. Bad \subseteq Nat
      BY DEF Bad
    <3>. QED
      BY <3>1, LeastNumber
  <2>2. CASE k = 0
    <3>1. [n \in a..a |-> first] \in [a..a + 0 -> V] /\ Solves([n \in a..a |-> first], a + 0)
      OBVIOUS
    <3>. QED
      BY <2>2, <3>1
  <2>3. CASE k # 0
    <3>0. k \in Nat /\ a + k <= b
      BY <2>1
    <3>. DEFINE j == k - 1
    <3>1. j \in Nat /\ j < k /\ a + j <= b
      BY <3>0, <2>3
    <3>2. PICK f \in [a..a + j -> V] : Solves(f, a + j)
      <4>. HIDE DEF j, Solves
      <4>1. j \notin Bad
        <5>. HIDE DEF Bad
        <5>1. Bad \subseteq Nat
          BY DEF Bad
        <5>. QED
          BY <5>1, <2>1, <3>1
      <4>. QED
        BY <3>1, <4>1
    <3>. DEFINE last == a + (k - 1)
                g == [n \in a..a + k |-> IF n = a + k THEN G[n][f[last]] ELSE f[n]]
    <3>3. last \in a..a + (k - 1) /\ a + k \in a + 1..b /\ a + k # a /\ (a + k) - 1 = last
      BY <3>0, <3>1
    <3>4. G[a + k][f[last]] \in V
      BY <3>2, <3>3
    <3>5. g \in [a..a + k -> V]
      BY <3>4
    <3>6. ASSUME NEW n \in a..a + k
          PROVE  g[n] = IF n = a THEN first ELSE G[n][g[n - 1]]
      <4>1. CASE n = a + k
        <5>1. g[n] = G[n][f[last]] /\ g[n - 1] = f[last]
          BY <4>1, <3>3
        <5>. QED
          BY <5>1, <4>1, <3>3
      <4>2. CASE n # a + k
        <5>1. n \in a..a + (k - 1) /\ g[n] = f[n]
          BY <4>2
        <5>2. n # a => g[n - 1] = f[n - 1]
          BY <4>2, <3>1
        <5>. QED
          BY <3>2, <5>1, <5>2
      <4>. QED
        BY <4>1, <4>2
    <3>7. Solves(g, a + k)
      BY <3>6
    <3>. HIDE DEF g, Solves
    <3>. QED
      BY <3>5, <3>7
  <2>. QED
    BY <2>2, <2>3
<1>2. CASE a <= b
  <2>1. b - a \in Nat /\ a + (b - a) = b
    BY <1>2
  <2>. HIDE DEF Solves
  <2>2. \E f \in [a..b -> V] : Solves(f, b)
    <3>1. b - a \in Bad \/ \E f \in [a..a + (b - a) -> V] : Solves(f, a + (b - a))
      BY <2>1, <1>2
    <3>2. b - a \notin Bad
      <4>. HIDE DEF Bad
      <4>. QED
        BY <1>1
    <3>. QED
      BY <3>1, <3>2, <2>1
  <2>. QED
    BY <2>2 DEF Solves
<1>3. CASE ~(a <= b)
  <2>1. a..b = {}
    BY <1>3
  <2>2. [n \in a..b |-> first] \in [a..b -> V]
    OBVIOUS
  <2>. QED
    BY <2>1, <2>2
<1>. QED
  BY <1>2, <1>3

\* A property of a that passes from each number to the next holds on a..b.
LEMMA IntervalInduction ==
    ASSUME NEW a \in Int, NEW b \in Int, NEW P, a \in P,
           \A n \in a..b - 1 : n \in P => n + 1 \in P
    PROVE  a..b \subseteq P
<1>. DEFINE Bad == {k \in Nat : a + k <= b /\ a + k \notin P}
<1>1. Bad = {}
  <2>. SUFFICES ASSUME Bad # {} PROVE FALSE
    OBVIOUS
  <2>1. PICK k \in Bad : \A m \in Bad : k <= m
    <3>. HIDE DEF Bad
    <3>1. Bad \subseteq Nat
      BY DEF Bad
    <3>. QED
      BY <3>1, LeastNumber
  <2>2. k # 0
    BY <2>1
  <2>3. k - 1 \in Nat /\ k - 1 \notin Bad /\ a + k <= b
    BY <2>1, <2>2
  <2>4. a + (k - 1) \in P /\ a + (k - 1) \in a..b - 1 /\ (a + (k - 1)) + 1 = a + k
    BY <2>3
  <2>. QED
    BY <2>1, <2>4
<1>2. ASSUME NEW n \in a..b PROVE n \in P
  <2>. DEFINE k == n - a
  <2>1. k \in Nat /\ a + k = n /\ a + k <= b
    OBVIOUS
  <2>2. k \notin Bad
    BY <1>1
  <2>. HIDE DEF k
  <2>3. a + k \in P
    BY <2>1, <2>2
  <2>. QED
    BY <2>1, <2>3
<1>. QED
  BY <1>2

\* Only(s, S) lists the elements of s that are in S, in their order.
LEMMA OnlyIs ==
    ASSUME NEW D, NEW s \in Seq(D), NEW S
    PROVE  /\ Only(s, S) \in Seq(D)
           /\ \E h :
                 /\ \A i \in 1..Len(Only(s, S)) : h[i] \in 1..Len(s) /\ Only(s, S)[i] = s[h[i]] /\ s[h[i]] \in S
                 /\ \A i, j \in 1..Len(Only(s, S)) : i < j => h[i] < h[j]
                 /\ \A k \in 1..Len(s) : s[k] \in S => \E i \in 1..Len(Only(s, S)) : h[i] = k
<1>. DEFINE G == [n \in 0 + 1..Len(s) |-> [v \in Seq(D) |-> IF s[n] \in S THEN Append(v, s[n]) ELSE v]]
            IsKept(f) == f = [n \in 0..Len(s) |->
                IF n = 0 THEN <<>>
                ELSE IF s[n] \in S THEN Append(f[n - 1], s[n]) ELSE f[n - 1]]
            kept == CHOOSE f : IsKept(f)
            Picked(list, n) ==
                 /\ list \in Seq(D)
                 /\ \E h :
                         /\ \A i \in 1..Len(list) : h[i] \in 1..n /\ list[i] = s[h[i]] /\ s[h[i]] \in S
                         /\ \A i, j \in 1..Len(list) : i < j => h[i] < h[j]
                         /\ \A k \in 1..n : s[k] \in S => \E i \in 1..Len(list) : h[i] = k
            Good(n) == Picked(kept[n], n)
            P == {n \in 0..Len(s) : Good(n)}
<1>1. Stepwise(Seq(D), 0, Len(s), <<>>, G)
  BY DEF Stepwise
<1>2. PICK f \in [0..Len(s) -> Seq(D)] :
          \A n \in 0..Len(s) : f[n] = IF n = 0 THEN <<>> ELSE G[n][f[n - 1]]
  <2>. HIDE DEF G
  <2>. QED
    BY <1>1, Recursion DEF Solvable
<1>3. \A n \in 1..Len(s) : G[n][f[n - 1]] = IF s[n] \in S THEN Append(f[n - 1], s[n]) ELSE f[n - 1]
  <2>. TAKE n \in 1..Len(s)
  <2>1. f[n - 1] \in Seq(D) /\ n \in 0 + 1..Len(s)
    BY <1>2
  <2>. QED
    BY <2>1
<1>4. IsKept(f)
  <2>. HIDE DEF G
  <2>1. \A n \in 0..Len(s) : f[n] = IF n = 0 THEN <<>>
                ELSE IF s[n] \in S THEN Append(f[n - 1], s[n]) ELSE f[n - 1]
    <3>. TAKE n \in 0..Len(s)
    <3>1. n # 0 => n \in 1..Len(s)
      OBVIOUS
    <3>. QED
      BY <3>1, <1>2, <1>3
  <2>. QED
    BY <2>1, <1>2
<1>5. IsKept(kept)
  <2>. HIDE DEF IsKept
  <2>. QED
    BY <1>4
<1>6. kept[Len(s)] = Only(s, S)
  BY DEF Only
<1>7. kept[0] = <<>> /\ \A n \in 1..Len(s) : kept[n] = IF s[n] \in S THEN Append(kept[n - 1], s[n]) ELSE kept[n - 1]
  <2>. HIDE DEF kept, Good, P
  <2>1. \A n \in 0..Len(s) : kept[n] = IF n = 0 THEN <<>>
                ELSE IF s[n] \in S THEN Append(kept[n - 1], s[n]) ELSE kept[n - 1]
    BY <1>5
  <2>2. 0 \in 0..Len(s) /\ \A n \in 1..Len(s) : n \in 0..Len(s) /\ n # 0
    OBVIOUS
  <2>. QED
    BY <2>1, <2>2
<1>. HIDE DEF kept, G, IsKept
<1>8. 0 \in P
  <2>2. Len(kept[0]) = 0 /\ kept[0] \in Seq(D)
    BY <1>7
  <2>3. Good(0)
    BY <2>2
  <2>. HIDE DEF Good
  <2>. QED
    BY <2>3
<1>9. ASSUME NEW n \in 0..Len(s) - 1, n \in P PROVE n + 1 \in P
  <2>0. Good(n)
    <3>. HIDE DEF Good
    <3>. QED
      BY <1>9
  <2>1. PICK h :
                 /\ \A i \in 1..Len(kept[n]) : h[i] \in 1..n /\ kept[n][i] = s[h[i]] /\ s[h[i]] \in S
                 /\ \A i, j \in 1..Len(kept[n]) : i < j => h[i] < h[j]
                 /\ \A k \in 1..n : s[k] \in S => \E i \in 1..Len(kept[n]) : h[i] = k
    BY <2>0
  <2>2. kept[n] \in Seq(D) /\ n + 1 \in 1..Len(s) /\ (n + 1) - 1 = n
    BY <2>0
  <2>3. CASE s[n + 1] \notin S
    <3>1. kept[n + 1] = kept[n]
      BY <1>7, <2>2, <2>3
    <3>2. \A i \in 1..Len(kept[n]) : h[i] \in 1..n + 1
      <4>1. \A i \in 1..Len(kept[n]) : h[i] \in 1..n
        BY <2>1
      <4>2. 1..n \subseteq 1..n + 1
        OBVIOUS
      <4>. QED
        BY <4>1, <4>2
    <3>3. \A k \in 1..n + 1 : s[k] \in S => k \in 1..n
      BY <2>3
    <3>. HIDE DEF Good, P
    <3>5. /\ kept[n + 1] \in Seq(D)
          /\ \A i \in 1..Len(kept[n + 1]) : h[i] \in 1..n + 1 /\ kept[n + 1][i] = s[h[i]] /\ s[h[i]] \in S
          /\ \A i, j \in 1..Len(kept[n + 1]) : i < j => h[i] < h[j]
          /\ \A k \in 1..n + 1 : s[k] \in S => \E i \in 1..Len(kept[n + 1]) : h[i] = k
      BY <3>1, <3>2, <3>3, <2>1, <2>2
    <3>4. Good(n + 1)
      BY <3>5 DEF Good
    <3>. QED
      BY <3>4, <2>2 DEF P
  <2>4. CASE s[n + 1] \in S
    <3>. HIDE DEF Good, P
    <3>. DEFINE l == Len(kept[n])
                g == [i \in 1..l + 1 |-> IF i = l + 1 THEN n + 1 ELSE h[i]]
    <3>1. kept[n + 1] = Append(kept[n], s[n + 1])
      BY <1>7, <2>2, <2>4
    <3>2. /\ l \in Nat /\ kept[n + 1] \in Seq(D) /\ Len(kept[n + 1]) = l + 1
          /\ \A i \in 1..l : kept[n + 1][i] = kept[n][i]
          /\ kept[n + 1][l + 1] = s[n + 1]
      BY <3>1, <2>2
    <3>3. \A i \in 1..l : h[i] \in 1..n /\ i # l + 1 /\ g[i] = h[i]
      BY <2>1, <3>2
    <3>4. g[l + 1] = n + 1
      BY <3>2
    <3>9. \A i \in 1..l + 1 : i = l + 1 \/ i \in 1..l
      BY <3>2
    <3>. HIDE DEF g, l
    <3>5. \A i \in 1..l + 1 : g[i] \in 1..n + 1 /\ kept[n + 1][i] = s[g[i]] /\ s[g[i]] \in S
      <4>. TAKE i \in 1..l + 1
      <4>1. CASE i = l + 1
        BY <4>1, <3>2, <3>4, <2>4, <2>2
      <4>2. CASE i \in 1..l
        <5>1. h[i] \in 1..n /\ kept[n][i] = s[h[i]] /\ s[h[i]] \in S
          BY <4>2, <2>1 DEF l
        <5>. QED
          BY <5>1, <4>2, <3>2, <3>3
      <4>. QED
        BY <4>1, <4>2, <3>9
    <3>6. \A i, j \in 1..l + 1 : i < j => g[i] < g[j]
      <4>. TAKE i, j \in 1..l + 1
      <4>. HAVE i < j
      <4>1. i \in 1..l
        BY <3>2
      <4>2. CASE j = l + 1
        BY <4>1, <4>2, <3>3, <3>4, <2>2
      <4>3. CASE j \in 1..l
        <5>1. h[i] < h[j]
          BY <4>1, <4>3, <2>1 DEF l
        <5>. QED
          BY <5>1, <4>1, <4>3, <3>3
      <4>. QED
        BY <4>2, <4>3, <3>9
    <3>7. \A k \in 1..n + 1 : s[k] \in S => \E i \in 1..l + 1 : g[i] = k
      <4>. TAKE k \in 1..n + 1
      <4>1. CASE k = n + 1
        BY <4>1, <3>2, <3>4
      <4>2. CASE k \in 1..n
        <5>. SUFFICES ASSUME s[k] \in S PROVE \E i \in 1..l + 1 : g[i] = k
          OBVIOUS
        <5>1. PICK i \in 1..l : h[i] = k
          BY <4>2, <2>1 DEF l
        <5>2. i \in 1..l + 1
          BY <3>2
        <5>. QED
          BY <5>1, <5>2, <3>3
      <4>. QED
        BY <4>1, <4>2
    <3>8. Good(n + 1)
      <4>. HIDE DEF Picked
      <4>1. Picked(kept[n + 1], n + 1)
        <5>1. 1..Len(kept[n + 1]) = 1..l + 1
          BY <3>2
        <5>2. \A i \in 1..Len(kept[n + 1]) : g[i] \in 1..n + 1 /\ kept[n + 1][i] = s[g[i]] /\ s[g[i]] \in S
          BY ONLY <5>1, <3>5
        <5>3. \A i, j \in 1..Len(kept[n + 1]) : i < j => g[i] < g[j]
          BY ONLY <5>1, <3>6
        <5>4. \A k \in 1..n + 1 : s[k] \in S => \E i \in 1..Len(kept[n + 1]) : g[i] = k
          BY ONLY <5>1, <3>7
        <5>. HIDE DEF g
        <5>. QED
          BY <3>2, <5>2, <5>3, <5>4 DEF Picked
      <4>. QED
        BY <4>1 DEF Good
    <3>. QED
      BY <3>8, <2>2 DEF P
  <2>. QED
    BY <2>3, <2>4
<1>10. Len(s) \in P
  <2>1. \A n \in 0..Len(s) - 1 : n \in P => n + 1 \in P
    BY <1>9
  <2>2. 0 \in Int /\ Len(s) \in Int /\ Len(s) \in 0..Len(s)
    OBVIOUS
  <2>. HIDE DEF P
  <2>3. 0..Len(s) \subseteq P
    BY <1>8, <2>1, <2>2, IntervalInduction
  <2>. QED
    BY <2>2, <2>3
<1>. HIDE DEF Good
<1>11. Good(Len(s))
  BY <1>10
<1>12. Picked(Only(s, S), Len(s))
  <2>. HIDE DEF Picked
  <2>. QED
    BY <1>6, <1>11 DEF Good
<1>. QED
  BY <1>12

\* Its elements are those of s in S.
LEMMA OnlySet ==
    ASSUME NEW D, NEW s \in Seq(D), NEW S
    PROVE  /\ Only(s, S) \in Seq(D)
           /\ ToSet(Only(s, S)) = ToSet(s) \cap S
<1>1. /\ Only(s, S) \in Seq(D)
      /\ \E h :
                 /\ \A i \in 1..Len(Only(s, S)) : h[i] \in 1..Len(s) /\ Only(s, S)[i] = s[h[i]] /\ s[h[i]] \in S
                 /\ \A i, j \in 1..Len(Only(s, S)) : i < j => h[i] < h[j]
                 /\ \A k \in 1..Len(s) : s[k] \in S => \E i \in 1..Len(Only(s, S)) : h[i] = k
  BY OnlyIs
<1>2. PICK h :
                 /\ \A i \in 1..Len(Only(s, S)) : h[i] \in 1..Len(s) /\ Only(s, S)[i] = s[h[i]] /\ s[h[i]] \in S
                 /\ \A i, j \in 1..Len(Only(s, S)) : i < j => h[i] < h[j]
                 /\ \A k \in 1..Len(s) : s[k] \in S => \E i \in 1..Len(Only(s, S)) : h[i] = k
  BY <1>1
<1>3. DOMAIN s = 1..Len(s) /\ DOMAIN Only(s, S) = 1..Len(Only(s, S))
  BY <1>1
<1>4. ASSUME NEW x \in ToSet(Only(s, S)) PROVE x \in ToSet(s) \cap S
  <2>1. PICK i \in 1..Len(Only(s, S)) : x = Only(s, S)[i]
    BY <1>3 DEF ToSet
  <2>. QED
    BY <1>2, <1>3, <2>1 DEF ToSet
<1>5. ASSUME NEW x \in ToSet(s), x \in S PROVE x \in ToSet(Only(s, S))
  <2>1. PICK k \in 1..Len(s) : x = s[k]
    BY <1>3 DEF ToSet
  <2>2. PICK i \in 1..Len(Only(s, S)) : h[i] = k
    BY <1>2, <1>5, <2>1
  <2>3. x = Only(s, S)[i]
    BY <1>2, <2>1, <2>2
  <2>. QED
    BY <1>3, <2>3 DEF ToSet
<1>. QED
  BY <1>1, <1>4, <1>5

\* A part of a sequence.
LEMMA SubSeqIs ==
    ASSUME NEW D, NEW s \in Seq(D), NEW m, NEW n, m \in 1..Len(s) + 1, n \in m - 1..Len(s)
    PROVE  /\ SubSeq(s, m, n) \in Seq(D) /\ Len(SubSeq(s, m, n)) = n - m + 1
           /\ \A i \in m..n : SubSeq(s, m, n)[i - m + 1] = s[i]
<1>0. Len(s) \in Nat /\ m \in Int /\ n \in Int
  OBVIOUS
<1>1. SubSeq(s, m, n) \in Seq(D) /\ Len(SubSeq(s, m, n)) = n - m + 1
  BY <1>0
<1>2. ASSUME NEW i \in m..n PROVE SubSeq(s, m, n)[i - m + 1] = s[i]
  <2>. DEFINE j == i - m + 1
  <2>1. j \in 1..n - m + 1 /\ m + j - 1 = i
    BY <1>0
  <2>. HIDE DEF j
  <2>2. SubSeq(s, m, n)[j] = s[m + j - 1]
    BY <1>0, <2>1
  <2>. QED
    BY <2>1, <2>2 DEF j
<1>. QED
  BY <1>1, <1>2

\* result is entries with e behind the first k.
IsInserted(entries, e, result, k) ==
    /\ k \in 0..Len(entries)
    /\ Len(result) = Len(entries) + 1
    /\ \A i \in 1..k : result[i] = entries[i]
    /\ result[k + 1] = e
    /\ \A i \in k + 1..Len(entries) : result[i + 1] = entries[i]
    /\ k # 0 => (entries[k].start < e.start \/ (entries[k].start = e.start /\ entries[k].end <= e.end))
    /\ \A i \in k + 1..Len(entries) : ~(entries[i].start < e.start)

\* Inserted puts e behind the last entry that is not after it.
LEMMA InsertedIs ==
    ASSUME NEW D, NEW entries \in Seq(D), NEW e \in D
    PROVE  /\ Inserted(entries, e) \in Seq(D)
           /\ \E k : IsInserted(entries, e, Inserted(entries, e), k)
<1>. DEFINE before == {i \in DOMAIN entries :
            \/ entries[i].start < e.start
            \/ entries[i].start = e.start /\ entries[i].end <= e.end}
            k == Max({0} \cup before)
            m == k + 1
            left == SubSeq(entries, 1, k)
            right == SubSeq(entries, m, Len(entries))
<1>0. Len(entries) \in Nat /\ DOMAIN entries = 1..Len(entries)
  OBVIOUS
<1>1. k \in {0} \cup before /\ \A i \in {0} \cup before : i <= k
  <2>1. Bounded({0} \cup before, Len(entries))
    BY <1>0 DEF Bounded
  <2>. HIDE DEF before
  <2>. QED
    BY <2>1, MaxIs
<1>2. k \in 0..Len(entries)
  BY <1>0, <1>1
<1>3. Inserted(entries, e) = left \o <<e>> \o right
  <2>1. Inserted(entries, e) = InsertAt(entries, m, e)
    BY Zenon DEF Inserted
  <2>2. m - 1 = k
    <3>. HIDE DEF k
    <3>. QED
      BY <1>2
  <2>. HIDE DEF m, k
  <2>3. InsertAt(entries, m, e) = SubSeq(entries, 1, m - 1) \o <<e>> \o right
    BY Zenon DEF InsertAt
  <2>. QED
    BY <2>1, <2>2, <2>3
<1>4. k # 0 => (entries[k].start < e.start \/ (entries[k].start = e.start /\ entries[k].end <= e.end))
  <2>. HIDE DEF k
  <2>1. k # 0 => k \in before
    BY <1>1
  <2>. QED
    BY <2>1
<1>5. \A i \in k + 1..Len(entries) : ~(entries[i].start < e.start)
  <2>. HIDE DEF k
  <2>. TAKE i \in k + 1..Len(entries)
  <2>1. i \in DOMAIN entries /\ ~(i <= k)
    BY <1>0, <1>2
  <2>. QED
    BY <1>1, <2>1
<1>. HIDE DEF k, before
<1>6. /\ left \in Seq(D) /\ Len(left) = k /\ \A i \in 1..k : left[i] = entries[i]
  <2>1. 1 \in 1..Len(entries) + 1 /\ k \in 1 - 1..Len(entries)
    BY <1>0, <1>2
  <2>2. /\ left \in Seq(D) /\ Len(left) = k - 1 + 1
        /\ \A i \in 1..k : left[i - 1 + 1] = entries[i]
    BY <2>1, SubSeqIs
  <2>3. k - 1 + 1 = k /\ \A i \in 1..k : i - 1 + 1 = i
    BY <1>2
  <2>. HIDE DEF left
  <2>. QED
    BY <2>2, <2>3
<1>7. /\ right \in Seq(D) /\ Len(right) = Len(entries) - k
      /\ \A i \in k + 1..Len(entries) : right[i - k] = entries[i]
  <2>0. m \in 1..Len(entries) + 1 /\ Len(entries) \in m - 1..Len(entries)
    BY <1>0, <1>2
  <2>. HIDE DEF m
  <2>1. /\ right \in Seq(D) /\ Len(right) = Len(entries) - m + 1
        /\ \A i \in m..Len(entries) : right[i - m + 1] = entries[i]
    BY <2>0, SubSeqIs
  <2>. HIDE DEF right
  <2>2. Len(entries) - m + 1 = Len(entries) - k /\ \A i \in k + 1..Len(entries) : i - m + 1 = i - k
    BY <1>0, <1>2 DEF m
  <2>. QED
    BY <2>1, <2>2 DEF m
<1>. HIDE DEF left, right
<1>. DEFINE front == left \o <<e>>
<1>8. front \in Seq(D) /\ Len(front) = k + 1 /\ front[k + 1] = e /\ \A i \in 1..k : front[i] = entries[i]
  BY <1>2, <1>6
<1>. HIDE DEF front
<1>9. /\ front \o right \in Seq(D) /\ Len(front \o right) = Len(entries) + 1
      /\ \A i \in 1..k + 1 : (front \o right)[i] = front[i]
      /\ \A i \in k + 1..Len(entries) : (front \o right)[i + 1] = entries[i]
  <2>1. front \o right \in Seq(D) /\ Len(front \o right) = Len(entries) + 1
    BY <1>0, <1>2, <1>7, <1>8
  <2>2. \A i \in 1..k + 1 : (front \o right)[i] = front[i]
    BY <1>0, <1>2, <1>7, <1>8
  <2>3. ASSUME NEW i \in k + 1..Len(entries) PROVE (front \o right)[i + 1] = entries[i]
    <3>1. i + 1 \in 1..Len(front) + Len(right) /\ ~(i + 1 <= Len(front)) /\ (i + 1) - Len(front) = i - k
      BY <1>0, <1>2, <1>7, <1>8
    <3>2. (front \o right)[i + 1] = right[i - k]
      BY <1>0, <3>1, <1>7, <1>8
    <3>. QED
      BY <3>2, <1>7
  <2>. QED
    BY <2>1, <2>2, <2>3
<1>10. Inserted(entries, e) = front \o right
  BY <1>3 DEF front
<1>. DEFINE result == Inserted(entries, e)
<1>11. /\ result \in Seq(D) /\ Len(result) = Len(entries) + 1
       /\ \A i \in 1..k : result[i] = entries[i]
       /\ result[k + 1] = e
       /\ \A i \in k + 1..Len(entries) : result[i + 1] = entries[i]
  BY <1>2, <1>8, <1>9, <1>10
<1>. HIDE DEF result
<1>12. IsInserted(entries, e, result, k)
  BY <1>2, <1>4, <1>5, <1>11 DEF IsInserted
<1>. QED
  BY <1>11, <1>12 DEF result

\* Its entries are those there were and e.
LEMMA InsertedSet ==
    ASSUME NEW D, NEW entries \in Seq(D), NEW e \in D
    PROVE  /\ Inserted(entries, e) \in Seq(D)
           /\ ToSet(Inserted(entries, e)) = ToSet(entries) \cup {e}
<1>. DEFINE result == Inserted(entries, e)
<1>0. result \in Seq(D)
  BY InsertedIs, Zenon
<1>1. PICK k : IsInserted(entries, e, result, k)
  BY InsertedIs
<1>. HIDE DEF result
<1>2. Len(entries) \in Nat /\ DOMAIN entries = 1..Len(entries) /\ DOMAIN result = 1..Len(entries) + 1
  BY <1>0, <1>1 DEF IsInserted
<1>3. ASSUME NEW x \in ToSet(result) PROVE x \in ToSet(entries) \cup {e}
  <2>1. PICK i \in 1..Len(entries) + 1 : x = result[i]
    BY <1>2 DEF ToSet
  <2>2. CASE i <= k
    BY <1>1, <1>2, <2>1, <2>2 DEF ToSet, IsInserted
  <2>3. CASE i = k + 1
    BY <1>1, <2>1, <2>3 DEF IsInserted
  <2>4. CASE i > k + 1
    <3>1. i - 1 \in k + 1..Len(entries) /\ (i - 1) + 1 = i /\ i - 1 \in 1..Len(entries)
      BY <1>1, <1>2, <2>4 DEF IsInserted
    <3>2. x = entries[i - 1]
      BY <1>1, <2>1, <3>1 DEF IsInserted
    <3>. QED
      BY <1>2, <3>1, <3>2 DEF ToSet
  <2>. QED
    BY <1>1, <1>2, <2>1, <2>2, <2>3, <2>4 DEF IsInserted
<1>4. ASSUME NEW x \in ToSet(entries) \cup {e} PROVE x \in ToSet(result)
  <2>1. CASE x = e
    <3>1. k + 1 \in 1..Len(entries) + 1
      BY <1>1, <1>2 DEF IsInserted
    <3>. QED
      BY <1>1, <1>2, <2>1, <3>1 DEF ToSet, IsInserted
  <2>2. CASE x \in ToSet(entries)
    <3>1. PICK i \in 1..Len(entries) : x = entries[i]
      BY <1>2, <2>2 DEF ToSet
    <3>2. CASE i <= k
      <4>1. i \in 1..k /\ i \in 1..Len(entries) + 1
        BY <1>1, <1>2, <3>1, <3>2 DEF IsInserted
      <4>. QED
        BY <1>1, <1>2, <3>1, <4>1 DEF ToSet, IsInserted
    <3>3. CASE ~(i <= k)
      <4>1. i \in k + 1..Len(entries) /\ i + 1 \in 1..Len(entries) + 1
        BY <1>1, <1>2, <3>1, <3>3 DEF IsInserted
      <4>. QED
        BY <1>1, <1>2, <3>1, <4>1 DEF ToSet, IsInserted
    <3>. QED
      BY <3>2, <3>3
  <2>. QED
    BY <2>1, <2>2
<1>5. ToSet(result) = ToSet(entries) \cup {e}
  BY <1>3, <1>4
<1>. QED
  BY <1>0, <1>5 DEF result

\* LastOf(s, n) is the end of s.
LEMMA LastOfIs ==
    ASSUME NEW D, NEW s \in Seq(D), NEW n \in Nat \ {0}
    PROVE  \E k \in 1..Len(s) + 1 :
              /\ LastOf(s, n) = SubSeq(s, k, Len(s))
              /\ LastOf(s, n) \in Seq(D)
              /\ Len(LastOf(s, n)) = Len(s) - k + 1
              /\ \A i \in 1..Len(s) - k + 1 : LastOf(s, n)[i] = s[k + i - 1]
              /\ s # <<>> => k <= Len(s)
<1>. DEFINE k == Max({1, Len(s) - n + 1})
<1>0. Len(s) \in Nat
  OBVIOUS
<1>1. k \in {1, Len(s) - n + 1} /\ \A i \in {1, Len(s) - n + 1} : i <= k
  <2>1. Bounded({1, Len(s) - n + 1}, Len(s) + 1)
    BY <1>0 DEF Bounded
  <2>. QED
    BY <2>1, MaxIs
<1>2. k \in 1..Len(s) + 1 /\ (s # <<>> => k <= Len(s))
  <2>. HIDE DEF k
  <2>1. k \in 1..Len(s) + 1
    BY <1>0, <1>1
  <2>2. s # <<>> => Len(s) >= 1
    BY <1>0
  <2>. QED
    BY <1>0, <1>1, <2>1, <2>2
<1>3. LastOf(s, n) = SubSeq(s, k, Len(s))
  BY DEF LastOf
<1>. HIDE DEF k
<1>4. /\ SubSeq(s, k, Len(s)) \in Seq(D) /\ Len(SubSeq(s, k, Len(s))) = Len(s) - k + 1
      /\ \A i \in 1..Len(s) - k + 1 : SubSeq(s, k, Len(s))[i] = s[k + i - 1]
  BY <1>0, <1>2
<1>. QED
  BY <1>2, <1>3, <1>4

-----------------------------------------------------------------------------
(* Lists of entries.                                                       *)

\* The starts of a list rise.
Sorted(list) == \A i, j \in DOMAIN list : i < j => list[i].start < list[j].start

\* Inserted keeps a list sorted when the start is new.
LEMMA InsertedSorted ==
    ASSUME NEW D, NEW entries \in Seq(D), NEW e \in D, \A d \in D : d.start \in Int,
           Sorted(entries), \A i \in DOMAIN entries : entries[i].start # e.start
    PROVE  Sorted(Inserted(entries, e))
<1>. DEFINE result == Inserted(entries, e)
<1>0. result \in Seq(D)
  BY InsertedIs
<1>1. PICK k : IsInserted(entries, e, result, k)
  BY InsertedIs
<1>. HIDE DEF result
<1>2. Len(entries) \in Nat /\ DOMAIN entries = 1..Len(entries) /\ DOMAIN result = 1..Len(entries) + 1 /\ k \in 0..Len(entries)
  BY <1>0, <1>1 DEF IsInserted
<1>3. /\ \A i \in 1..k : result[i] = entries[i]
      /\ result[k + 1] = e
      /\ \A i \in k + 1..Len(entries) : result[i + 1] = entries[i]
  BY <1>1 DEF IsInserted
<1>4. \A i \in 1..Len(entries) : entries[i].start \in Int
  OBVIOUS
<1>5. e.start \in Int
  OBVIOUS
<1>6. \A i, j \in 1..Len(entries) : i < j => entries[i].start < entries[j].start
  BY <1>2 DEF Sorted
<1>7. ASSUME NEW i \in 1..k PROVE entries[i].start < e.start
  <2>1. k \in 1..Len(entries) /\ i \in 1..Len(entries) /\ entries[k].start # e.start
    BY <1>2
  <2>2. entries[k].start < e.start
    BY <1>1, <2>1 DEF IsInserted
  <2>3. i = k \/ entries[i].start < entries[k].start
    BY <1>6, <2>1
  <2>. QED
    BY <1>4, <1>5, <2>1, <2>2, <2>3
<1>8. ASSUME NEW i \in k + 1..Len(entries) PROVE e.start < entries[i].start
  <2>1. i \in 1..Len(entries) /\ entries[i].start # e.start
    BY <1>2
  <2>. QED
    BY <1>1, <1>4, <1>5, <2>1 DEF IsInserted
<1>9. ASSUME NEW i \in 1..Len(entries) + 1, NEW j \in 1..Len(entries) + 1, i < j
      PROVE  result[i].start < result[j].start
  <2>1. CASE j <= k
    BY <1>2, <1>3, <1>6, <1>9, <2>1
  <2>2. CASE j = k + 1
    <3>1. i \in 1..k
      BY <1>2, <1>9, <2>2
    <3>. QED
      BY <1>3, <1>7, <2>2, <3>1
  <2>3. CASE j > k + 1
    <3>1. j - 1 \in k + 1..Len(entries) /\ (j - 1) + 1 = j /\ j - 1 \in 1..Len(entries)
      BY <1>2, <2>3
    <3>2. result[j] = entries[j - 1]
      BY <1>3, <3>1
    <3>3. CASE i <= k
      <4>1. i \in 1..k
        BY <1>2, <3>3
      <4>2. entries[i].start < e.start /\ e.start < entries[j - 1].start
        BY <1>7, <1>8, <3>1, <4>1
      <4>3. entries[i].start < entries[j - 1].start
        <5>1. i \in 1..Len(entries) /\ i < j - 1
          BY <1>2, <4>1, <2>3
        <5>. QED
          BY <1>6, <3>1, <5>1
      <4>. QED
        BY <1>3, <3>2, <4>1, <4>3
    <3>4. CASE i = k + 1
      BY <1>3, <1>8, <3>1, <3>2, <3>4
    <3>5. CASE i > k + 1
      <4>1. i - 1 \in k + 1..Len(entries) /\ (i - 1) + 1 = i /\ i - 1 \in 1..Len(entries) /\ i - 1 < j - 1
        BY <1>2, <1>9, <3>5
      <4>2. result[i] = entries[i - 1]
        BY <1>3, <4>1
      <4>. QED
        BY <1>6, <3>1, <3>2, <4>1, <4>2
    <3>. QED
      BY <1>2, <3>3, <3>4, <3>5
  <2>. QED
    BY <1>2, <2>1, <2>2, <2>3
<1>. QED
  BY <1>2, <1>9 DEF Sorted, result

\* Merged is a chain of insertions.
Kept(base, incoming) == Only(base, {e \in ToSet(base) : \A i \in DOMAIN incoming : ~Overlap(e, incoming[i])})

LEMMA MergedSteps ==
    ASSUME NEW D, NEW base \in Seq(D), NEW incoming \in Seq(D)
    PROVE  \E merged :
              /\ \A n \in 0..Len(incoming) : merged[n] \in Seq(D)
              /\ merged[0] = Kept(base, incoming)
              /\ \A n \in 1..Len(incoming) : merged[n] = Inserted(merged[n - 1], incoming[n])
              /\ Merged(base, incoming) = merged[Len(incoming)]
<1>. DEFINE kept == Kept(base, incoming)
            G == [n \in 0 + 1..Len(incoming) |-> [v \in Seq(D) |-> Inserted(v, incoming[n])]]
            IsMerged(f) == f = [n \in 0..Len(incoming) |->
                IF n = 0 THEN kept ELSE Inserted(f[n - 1], incoming[n])]
            merged == CHOOSE f : IsMerged(f)
<1>0. kept \in Seq(D)
  BY OnlySet DEF Kept
<1>1. Stepwise(Seq(D), 0, Len(incoming), kept, G)
  <2>. HIDE DEF kept
  <2>1. \A n \in 0 + 1..Len(incoming) : \A v \in Seq(D) : Inserted(v, incoming[n]) \in Seq(D)
    BY InsertedIs
  <2>2. G \in [0 + 1..Len(incoming) -> [Seq(D) -> Seq(D)]]
    BY <2>1
  <2>. HIDE DEF G
  <2>. QED
    BY <1>0, <2>2 DEF Stepwise
<1>2. PICK f \in [0..Len(incoming) -> Seq(D)] :
          \A n \in 0..Len(incoming) : f[n] = IF n = 0 THEN kept ELSE G[n][f[n - 1]]
  <2>. HIDE DEF G, kept
  <2>. QED
    BY <1>1, Recursion DEF Solvable
<1>3. \A n \in 1..Len(incoming) : G[n][f[n - 1]] = Inserted(f[n - 1], incoming[n])
  <2>. TAKE n \in 1..Len(incoming)
  <2>1. f[n - 1] \in Seq(D) /\ n \in 0 + 1..Len(incoming)
    BY <1>2
  <2>. QED
    BY <2>1
<1>4. IsMerged(f)
  <2>. HIDE DEF G, kept
  <2>1. \A n \in 0..Len(incoming) : f[n] = IF n = 0 THEN kept ELSE Inserted(f[n - 1], incoming[n])
    <3>. TAKE n \in 0..Len(incoming)
    <3>1. n # 0 => n \in 1..Len(incoming)
      OBVIOUS
    <3>. QED
      BY <3>1, <1>2, <1>3
  <2>. QED
    BY <2>1, <1>2
<1>5. IsMerged(merged)
  <2>. HIDE DEF IsMerged
  <2>. QED
    BY <1>4
<1>6. Merged(base, incoming) = merged[Len(incoming)]
  BY Zenon DEF Merged, Kept
<1>. HIDE DEF merged, G, kept
<1>7. \A n \in 0..Len(incoming) : merged[n] = IF n = 0 THEN kept ELSE Inserted(merged[n - 1], incoming[n])
  BY <1>5
<1>8. 0 \in 0..Len(incoming) /\ \A n \in 1..Len(incoming) : n \in 0..Len(incoming) /\ n # 0
  OBVIOUS
<1>9. merged[0] = kept /\ \A n \in 1..Len(incoming) : merged[n] = Inserted(merged[n - 1], incoming[n])
  BY <1>7, <1>8
<1>. HIDE DEF IsMerged
<1>10. \A n \in 0..Len(incoming) : merged[n] \in Seq(D)
  <2>. DEFINE P == {n \in 0..Len(incoming) : merged[n] \in Seq(D)}
  <2>1. 0 \in P
    BY <1>0, <1>8, <1>9
  <2>2. ASSUME NEW n \in 0..Len(incoming) - 1, n \in P PROVE n + 1 \in P
    <3>1. merged[n] \in Seq(D) /\ n + 1 \in 1..Len(incoming) /\ (n + 1) - 1 = n
      BY <2>2
    <3>2. merged[n + 1] = Inserted(merged[n], incoming[n + 1])
      BY <1>9, <3>1
    <3>3. incoming[n + 1] \in D
      BY <3>1
    <3>4. merged[n + 1] \in Seq(D)
      BY <3>1, <3>2, <3>3, InsertedIs
    <3>. QED
      BY <3>1, <3>4
  <2>3. 0 \in Int /\ Len(incoming) \in Int
    OBVIOUS
  <2>. HIDE DEF P
  <2>4. 0..Len(incoming) \subseteq P
    BY <2>1, <2>2, <2>3, IntervalInduction
  <2>. QED
    BY <2>4 DEF P
<1>. QED
  BY <1>6, <1>9, <1>10 DEF kept

\* Its entries are those of the page and those of the base that overlap none of them.
LEMMA MergedSet ==
    ASSUME NEW D, NEW base \in Seq(D), NEW incoming \in Seq(D)
    PROVE  /\ Merged(base, incoming) \in Seq(D)
           /\ ToSet(Merged(base, incoming)) =
                 {e \in ToSet(base) : \A c \in ToSet(incoming) : ~Overlap(e, c)} \cup ToSet(incoming)
<1>. DEFINE apart == {e \in ToSet(base) : \A c \in ToSet(incoming) : ~Overlap(e, c)}
            part(n) == {incoming[i] : i \in 1..n}
<1>1. PICK merged :
              /\ \A n \in 0..Len(incoming) : merged[n] \in Seq(D)
              /\ merged[0] = Kept(base, incoming)
              /\ \A n \in 1..Len(incoming) : merged[n] = Inserted(merged[n - 1], incoming[n])
              /\ Merged(base, incoming) = merged[Len(incoming)]
  BY MergedSteps
<1>2. ToSet(Kept(base, incoming)) = apart
  <2>1. ToSet(Kept(base, incoming)) = ToSet(base) \cap {e \in ToSet(base) : \A i \in DOMAIN incoming : ~Overlap(e, incoming[i])}
    BY OnlySet DEF Kept
  <2>. QED
    BY <2>1 DEF ToSet
<1>. DEFINE P == {n \in 0..Len(incoming) : ToSet(merged[n]) = apart \cup part(n)}
<1>3. 0 \in P
  BY <1>1, <1>2
<1>4. ASSUME NEW n \in 0..Len(incoming) - 1, n \in P PROVE n + 1 \in P
  <2>. HIDE DEF apart
  <2>1. ToSet(merged[n]) = apart \cup part(n) /\ n + 1 \in 1..Len(incoming) /\ (n + 1) - 1 = n /\ n \in 0..Len(incoming)
    BY <1>4
  <2>2. merged[n + 1] = Inserted(merged[n], incoming[n + 1])
    BY <1>1, <2>1
  <2>3. incoming[n + 1] \in D /\ merged[n] \in Seq(D)
    BY <1>1, <2>1
  <2>4. ToSet(merged[n + 1]) = ToSet(merged[n]) \cup {incoming[n + 1]}
    BY <2>2, <2>3, InsertedSet
  <2>5. part(n + 1) = part(n) \cup {incoming[n + 1]}
    OBVIOUS
  <2>. HIDE DEF part
  <2>. QED
    BY <2>1, <2>4, <2>5
<1>5. 0..Len(incoming) \subseteq P
  <2>1. 0 \in Int /\ Len(incoming) \in Int
    OBVIOUS
  <2>. HIDE DEF P
  <2>. QED
    BY <1>3, <1>4, <2>1, IntervalInduction
<1>6. Len(incoming) \in 0..Len(incoming) /\ part(Len(incoming)) = ToSet(incoming)
  BY DEF ToSet
<1>7. ToSet(merged[Len(incoming)]) = apart \cup part(Len(incoming))
  <2>. HIDE DEF apart, part
  <2>. QED
    BY <1>5, <1>6
<1>. HIDE DEF part
<1>. QED
  BY <1>1, <1>6, <1>7

\* It is sorted when both parts are, as entries with one start overlap.
LEMMA MergedSorted ==
    ASSUME NEW D, NEW base \in Seq(D), NEW incoming \in Seq(D), \A d \in D : d.start \in Int,
           Sorted(base), Sorted(incoming),
           \A e \in ToSet(base), c \in ToSet(incoming) : e.start = c.start => Overlap(e, c)
    PROVE  Sorted(Merged(base, incoming))
<1>. DEFINE part(n) == {incoming[i] : i \in 1..n}
<1>1. PICK merged :
              /\ \A n \in 0..Len(incoming) : merged[n] \in Seq(D)
              /\ merged[0] = Kept(base, incoming)
              /\ \A n \in 1..Len(incoming) : merged[n] = Inserted(merged[n - 1], incoming[n])
              /\ Merged(base, incoming) = merged[Len(incoming)]
  BY MergedSteps
<1>. DEFINE apart == {e \in ToSet(base) : \A i \in DOMAIN incoming : ~Overlap(e, incoming[i])}
<1>2. ToSet(merged[0]) \subseteq apart /\ merged[0] \in Seq(D)
  <2>1. Kept(base, incoming) \in Seq(D) /\ ToSet(Kept(base, incoming)) = ToSet(base) \cap apart
    BY OnlySet DEF Kept
  <2>. QED
    BY <2>1, <1>1
<1>3. Sorted(merged[0])
  <2>. DEFINE list == Only(base, apart)
  <2>1. PICK h : /\ \A i \in 1..Len(list) : h[i] \in 1..Len(base) /\ list[i] = base[h[i]] /\ base[h[i]] \in apart
                 /\ \A i, j \in 1..Len(list) : i < j => h[i] < h[j]
    BY OnlyIs
  <2>2. list = merged[0]
    BY <1>1 DEF Kept
  <2>3. DOMAIN list = 1..Len(list) /\ DOMAIN base = 1..Len(base)
    BY <1>2, <2>2
  <2>. HIDE DEF list
  <2>4. ASSUME NEW i \in DOMAIN list, NEW j \in DOMAIN list, i < j PROVE list[i].start < list[j].start
    <3>1. h[i] \in DOMAIN base /\ h[j] \in DOMAIN base /\ h[i] < h[j] /\ list[i] = base[h[i]] /\ list[j] = base[h[j]]
      BY <2>1, <2>3, <2>4
    <3>. QED
      BY <3>1 DEF Sorted
  <2>. QED
    BY <2>2, <2>4 DEF Sorted
<1>. DEFINE P == {n \in 0..Len(incoming) : Sorted(merged[n]) /\ ToSet(merged[n]) \subseteq apart \cup part(n)}
<1>4. 0 \in P
  BY <1>2, <1>3
<1>5. ASSUME NEW n \in 0..Len(incoming) - 1, n \in P PROVE n + 1 \in P
  <2>1. /\ Sorted(merged[n]) /\ ToSet(merged[n]) \subseteq apart \cup part(n)
        /\ n + 1 \in 1..Len(incoming) /\ (n + 1) - 1 = n /\ n \in 0..Len(incoming)
    BY <1>5
  <2>2. merged[n + 1] = Inserted(merged[n], incoming[n + 1])
    BY <1>1, <2>1
  <2>3. incoming[n + 1] \in D /\ merged[n] \in Seq(D)
    BY <1>1, <2>1
  <2>4. ToSet(merged[n + 1]) = ToSet(merged[n]) \cup {incoming[n + 1]}
    <3>. DEFINE list == merged[n]
                c == incoming[n + 1]
    <3>1. c \in D /\ list \in Seq(D) /\ merged[n + 1] = Inserted(list, c)
      BY <2>2, <2>3
    <3>. HIDE DEF part, apart, P, list, c
    <3>2. ToSet(Inserted(list, c)) = ToSet(list) \cup {c}
      BY <3>1, InsertedSet, Zenon
    <3>. QED
      BY <3>1, <3>2 DEF list, c
  <2>5. part(n + 1) = part(n) \cup {incoming[n + 1]}
    OBVIOUS
  <2>6. DOMAIN incoming = 1..Len(incoming)
    OBVIOUS
  <2>7. ASSUME NEW i \in DOMAIN merged[n] PROVE merged[n][i].start # incoming[n + 1].start
    <3>1. merged[n][i] \in ToSet(merged[n])
      BY DEF ToSet
    <3>2. CASE merged[n][i] \in apart
      <4>1. merged[n][i] \in ToSet(base) /\ ~Overlap(merged[n][i], incoming[n + 1])
        BY <2>1, <2>6, <3>2
      <4>2. incoming[n + 1] \in ToSet(incoming)
        BY <2>1, <2>6 DEF ToSet
      <4>. QED
        BY <4>1, <4>2
    <3>3. CASE merged[n][i] \in part(n)
      <4>1. PICK k \in 1..n : merged[n][i] = incoming[k]
        BY <3>3
      <4>2. k \in DOMAIN incoming /\ n + 1 \in DOMAIN incoming /\ k < n + 1
        BY <2>1, <2>6
      <4>3. incoming[k].start < incoming[n + 1].start /\ incoming[k].start \in Int /\ incoming[n + 1].start \in Int
        BY <4>2, <2>6 DEF Sorted
      <4>. QED
        BY <4>1, <4>3
    <3>. HIDE DEF part, apart
    <3>. QED
      BY <2>1, <3>1, <3>2, <3>3
  <2>8. Sorted(merged[n + 1])
    BY <2>1, <2>2, <2>3, <2>7, InsertedSorted
  <2>. HIDE DEF part, apart
  <2>. QED
    BY <2>1, <2>4, <2>5, <2>8
<1>6. 0..Len(incoming) \subseteq P
  <2>1. 0 \in Int /\ Len(incoming) \in Int
    OBVIOUS
  <2>. HIDE DEF P
  <2>. QED
    BY <1>4, <1>5, <2>1, IntervalInduction
<1>7. Len(incoming) \in 0..Len(incoming)
  OBVIOUS
<1>8. Sorted(merged[Len(incoming)])
  <2>. HIDE DEF part, apart
  <2>. QED
    BY <1>6, <1>7
<1>. QED
  BY <1>1, <1>8

-----------------------------------------------------------------------------
(* Entries and the projection.                                             *)

\* The greater of two numbers.
LEMMA MaxOfTwo ==
    ASSUME NEW a, NEW b, a \in Int, b \in Int
    PROVE  Max({a, b}) = IF a <= b THEN b ELSE a
<1>. DEFINE x == IF a <= b THEN b ELSE a
<1>1. x \in {a, b} /\ \A y \in {a, b} : x >= y
  OBVIOUS
<1>2. \A z \in {a, b} : (\A y \in {a, b} : z >= y) => z = x
  OBVIOUS
<1>. HIDE DEF x
<1>. QED
  BY <1>1, <1>2 DEF Max, x

LEMMA EntryOfType ==
    ASSUME NEW e \in 1..MaxEpochs, NEW seq \in 1..MaxRows, NEW item \in ItemKinds
    PROVE  EntryOf(e, seq, item) \in EntryType
<1>1. <<e, seq>> \in (1..MaxEpochs) \X (1..MaxRows)
  OBVIOUS
<1>2. <<(<<e, seq>>)>> \in Seq((1..MaxEpochs) \X (1..MaxRows))
  <2>. DEFINE D == (1..MaxEpochs) \X (1..MaxRows)
              p == <<e, seq>>
  <2>1. p \in D
    BY <1>1
  <2>. HIDE DEF D, p
  <2>2. <<p>> \in Seq(D)
    BY <2>1
  <2>. QED
    BY <2>2 DEF D, p
<1>3. {seq} \in SUBSET (1..MaxRows)
  OBVIOUS
<1>. QED
  BY <1>2, <1>3 DEF EntryOf, EntryType

\* What extending an entry by a row changes.
LEMMA ExtendedIs ==
    ASSUME NEW entry \in EntryType, NEW e \in 1..MaxEpochs, NEW seq \in 1..MaxRows, NEW item \in ItemKinds
    PROVE  /\ Extended(entry, e, seq, item) \in EntryType
           /\ Extended(entry, e, seq, item).item = item
           /\ Extended(entry, e, seq, item).start = entry.start
           /\ Extended(entry, e, seq, item).end = IF entry.end <= seq THEN seq ELSE entry.end
           /\ Extended(entry, e, seq, item).rows = entry.rows \cup {seq}
           /\ Extended(entry, e, seq, item).shown =
                 IF item = "text" THEN Append(entry.shown, <<e, seq>>) ELSE <<(<<e, seq>>)>>
<1>. DEFINE D == (1..MaxEpochs) \X (1..MaxRows)
            p == <<e, seq>>
            shown == IF item = "text" THEN Append(entry.shown, p) ELSE <<p>>
            end == Max({entry.end, seq})
<1>1. p \in D /\ entry.shown \in Seq(D) /\ entry.end \in 1..MaxRows /\ entry.rows \in SUBSET (1..MaxRows)
  BY DEF EntryType
<1>2. shown \in Seq(D)
  <2>. HIDE DEF D, p
  <2>. QED
    BY <1>1
<1>3. end = (IF entry.end <= seq THEN seq ELSE entry.end) /\ end \in 1..MaxRows
  <2>1. entry.end \in Int /\ seq \in Int
    BY <1>1
  <2>2. end = IF entry.end <= seq THEN seq ELSE entry.end
    BY <2>1, MaxOfTwo
  <2>. QED
    BY <2>2, <1>1
<1>4. Extended(entry, e, seq, item) =
        [entry EXCEPT !.item = item, !.end = end, !.rows = @ \cup {seq}, !.shown = shown]
  BY DEF Extended
<1>. HIDE DEF shown, end, D
<1>5. entry \in [item : ItemKinds, start : 1..MaxRows, end : 1..MaxRows, rows : SUBSET (1..MaxRows), shown : Seq(D)]
  BY DEF EntryType, D
<1>6. entry.rows \cup {seq} \in SUBSET (1..MaxRows)
  BY <1>1
<1>7. /\ Extended(entry, e, seq, item) \in
             [item : ItemKinds, start : 1..MaxRows, end : 1..MaxRows, rows : SUBSET (1..MaxRows), shown : Seq(D)]
      /\ Extended(entry, e, seq, item).item = item
      /\ Extended(entry, e, seq, item).start = entry.start
      /\ Extended(entry, e, seq, item).end = end
      /\ Extended(entry, e, seq, item).rows = entry.rows \cup {seq}
      /\ Extended(entry, e, seq, item).shown = shown
  BY <1>2, <1>3, <1>4, <1>5, <1>6
<1>8. Extended(entry, e, seq, item) \in EntryType
  BY <1>7 DEF EntryType, D
<1>. QED
  BY <1>3, <1>7, <1>8 DEF shown

\* The entry that a row joins is in the list.
LEMMA JoinedIs ==
    ASSUME NEW D, NEW list \in Seq(D), NEW item
    PROVE  /\ Joined(list, item) \in 0..Len(list)
           /\ item = "text" => Joined(list, item) = IF list # <<>> /\ list[Len(list)].item = "text" THEN Len(list) ELSE 0
           /\ item = "tool" => /\ Joined(list, item) # 0 =>
                                     /\ list[Joined(list, item)].item = "tool"
                                     /\ \A i \in 1..Joined(list, item) - 1 : list[i].item # "tool"
                               /\ Joined(list, item) = 0 => \A i \in 1..Len(list) : list[i].item # "tool"
           /\ item = "note" => Joined(list, item) = 0
<1>. DEFINE j == Joined(list, item)
<1>0. Len(list) \in Nat /\ DOMAIN list = 1..Len(list) /\ (list # <<>> => Len(list) \in 1..Len(list))
  OBVIOUS
<1>1. CASE item = "text"
  <2>1. j = IF list # <<>> /\ list[Len(list)].item = "text" THEN Len(list) ELSE 0
    BY <1>1 DEF Joined, Last
  <2>. HIDE DEF j
  <2>2. j \in 0..Len(list)
    BY <1>0, <2>1
  <2>. QED
    BY <1>1, <2>1, <2>2 DEF j
<1>2. CASE item = "tool"
  <2>. DEFINE I == {i \in 1..Len(list) : list[i].item = "tool"}
  <2>1. j = IF I # {} THEN Min(I) ELSE 0
    BY <1>2 DEF Joined, SelectInSeq
  <2>2. I \subseteq Nat
    OBVIOUS
  <2>3. I # {} => Min(I) \in I /\ \A i \in I : Min(I) <= i
    <3>. HIDE DEF I
    <3>. QED
      BY <2>2, MinIs
  <2>4. j \in 0..Len(list) /\ (j # 0 => list[j].item = "tool") /\ (j = 0 => \A i \in 1..Len(list) : list[i].item # "tool")
    <3>. HIDE DEF j
    <3>. QED
      BY <1>0, <2>1, <2>3
  <2>. HIDE DEF j
  <2>5. ASSUME j # 0, NEW i \in 1..j - 1 PROVE list[i].item # "tool"
    <3>1. i \in 1..Len(list) /\ ~(j <= i)
      BY <1>0, <2>4, <2>5
    <3>. HIDE DEF I
    <3>2. i \notin I
      BY <2>1, <2>3, <2>5, <3>1
    <3>. QED
      BY <3>1, <3>2 DEF I
  <2>. QED
    BY <1>2, <2>4, <2>5 DEF j
<1>3. CASE item = "completed"
  <2>. DEFINE C == {i \in DOMAIN list : list[i].item \in {"loading", "completed"}}
  <2>1. C # {} => Max(C) \in C
    <3>. SUFFICES ASSUME C # {} PROVE Max(C) \in C
      OBVIOUS
    <3>1. Bounded(C, Len(list))
      BY <1>0 DEF Bounded
    <3>. HIDE DEF C
    <3>. QED
      BY <3>1, MaxIs
  <2>2. j = IF C # {} THEN (IF list[Max(C)].item = "loading" THEN Max(C) ELSE 0) ELSE 0
    BY <1>3 DEF Joined
  <2>. HIDE DEF j
  <2>3. j \in 0..Len(list)
    BY <1>0, <2>1, <2>2
  <2>. QED
    BY <1>3, <2>3 DEF j
<1>4. CASE item \notin {"text", "tool", "completed"}
  <2>1. j = 0
    BY <1>4 DEF Joined
  <2>. QED
    BY <1>0, <1>4, <2>1
<1>. QED
  BY <1>1, <1>2, <1>3, <1>4

\* One more row.
Step(e, list, n, item) ==
    IF Joined(list, item) = 0 THEN Append(list, EntryOf(e, n, item))
    ELSE [list EXCEPT ![Joined(list, item)] = Extended(list[Joined(list, item)], e, n, item)]

LEMMA StepType ==
    ASSUME NEW e \in 1..MaxEpochs, NEW n \in 1..MaxRows, NEW item \in ItemKinds, NEW list \in Seq(EntryType)
    PROVE  Step(e, list, n, item) \in Seq(EntryType)
<1>1. Joined(list, item) \in 0..Len(list)
  BY JoinedIs
<1>2. CASE Joined(list, item) = 0
  BY <1>2, EntryOfType DEF Step
<1>3. CASE Joined(list, item) # 0
  <2>1. Joined(list, item) \in 1..Len(list)
    BY <1>1, <1>3
  <2>2. Extended(list[Joined(list, item)], e, n, item) \in EntryType
    <3>1. list[Joined(list, item)] \in EntryType
      BY <2>1
    <3>. QED
      BY <3>1, ExtendedIs
  <2>. QED
    BY <1>3, <2>1, <2>2 DEF Step
<1>. QED
  BY <1>2, <1>3

\* The projection is a chain of such steps.
LEMMA ProjectionSteps ==
    ASSUME NEW e \in 1..MaxEpochs, NEW items \in Seq(ItemKinds), Len(items) <= MaxRows
    PROVE  \E list :
              /\ \A n \in 0..Len(items) : list[n] \in Seq(EntryType)
              /\ list[0] = <<>>
              /\ \A n \in 1..Len(items) : list[n] = Step(e, list[n - 1], n, items[n])
              /\ Projection(e, items) = list[Len(items)]
<1>. DEFINE G == [n \in 0 + 1..Len(items) |-> [v \in Seq(EntryType) |-> Step(e, v, n, items[n])]]
            IsList(f) == f = [n \in 0..Len(items) |->
                IF n = 0 THEN <<>>
                ELSE IF Joined(f[n - 1], items[n]) = 0 THEN Append(f[n - 1], EntryOf(e, n, items[n]))
                     ELSE [f[n - 1] EXCEPT ![Joined(f[n - 1], items[n])] = Extended(@, e, n, items[n])]]
            list == CHOOSE f : IsList(f)
<1>0. MaxRows \in Nat
  BY SyncAssumption DEF SyncAssumption
<1>1. Stepwise(Seq(EntryType), 0, Len(items), <<>>, G)
  <2>1. \A n \in 0 + 1..Len(items) : \A v \in Seq(EntryType) : Step(e, v, n, items[n]) \in Seq(EntryType)
    <3>. TAKE n \in 0 + 1..Len(items)
    <3>1. n \in 1..MaxRows /\ items[n] \in ItemKinds
      BY <1>0
    <3>. QED
      BY <3>1, StepType
  <2>2. G \in [0 + 1..Len(items) -> [Seq(EntryType) -> Seq(EntryType)]]
    BY <2>1
  <2>. HIDE DEF G
  <2>3. <<>> \in Seq(EntryType) /\ Len(items) \in Int
    OBVIOUS
  <2>. QED
    BY <2>2, <2>3 DEF Stepwise
<1>2. PICK f \in [0..Len(items) -> Seq(EntryType)] :
          \A n \in 0..Len(items) : f[n] = IF n = 0 THEN <<>> ELSE G[n][f[n - 1]]
  <2>. HIDE DEF G
  <2>. QED
    BY <1>1, Recursion DEF Solvable
<1>3. \A n \in 1..Len(items) : G[n][f[n - 1]] = Step(e, f[n - 1], n, items[n])
  <2>. TAKE n \in 1..Len(items)
  <2>1. f[n - 1] \in Seq(EntryType) /\ n \in 0 + 1..Len(items)
    BY <1>2
  <2>. QED
    BY <2>1
<1>4. IsList(f)
  <2>. HIDE DEF G
  <2>1. \A n \in 0..Len(items) : f[n] = 
                IF n = 0 THEN <<>>
                ELSE IF Joined(f[n - 1], items[n]) = 0 THEN Append(f[n - 1], EntryOf(e, n, items[n]))
                     ELSE [f[n - 1] EXCEPT ![Joined(f[n - 1], items[n])] = Extended(@, e, n, items[n])]
    <3>. TAKE n \in 0..Len(items)
    <3>1. n # 0 => n \in 1..Len(items)
      OBVIOUS
    <3>2. n # 0 => f[n] = Step(e, f[n - 1], n, items[n])
      BY <3>1, <1>2, <1>3
    <3>. QED
      BY <3>2, <1>2 DEF Step
  <2>. QED
    BY <2>1, <1>2
<1>5. IsList(list)
  <2>. HIDE DEF IsList
  <2>. QED
    BY <1>4
<1>6. Projection(e, items) = list[Len(items)]
  BY Zenon DEF Projection
<1>. HIDE DEF list, G
<1>8. 0 \in 0..Len(items) /\ \A n \in 1..Len(items) : n \in 0..Len(items) /\ n # 0
  OBVIOUS
<1>9. list[0] = <<>> /\ \A n \in 1..Len(items) : list[n] = Step(e, list[n - 1], n, items[n])
  <2>1. list[0] = <<>>
    BY <1>5, <1>8
  <2>2. ASSUME NEW n \in 1..Len(items) PROVE list[n] = Step(e, list[n - 1], n, items[n])
    <3>1. list[n] = 
                IF Joined(list[n - 1], items[n]) = 0 THEN Append(list[n - 1], EntryOf(e, n, items[n]))
                ELSE [list[n - 1] EXCEPT ![Joined(list[n - 1], items[n])] = Extended(@, e, n, items[n])]
      BY <1>5, <1>8
    <3>. QED
      BY <3>1 DEF Step
  <2>. QED
    BY <2>1, <2>2
<1>. HIDE DEF IsList
<1>10. \A n \in 0..Len(items) : list[n] \in Seq(EntryType)
  <2>. DEFINE P == {n \in 0..Len(items) : list[n] \in Seq(EntryType)}
  <2>1. 0 \in P
    <3>1. <<>> \in Seq(EntryType)
      OBVIOUS
    <3>. QED
      BY <3>1, <1>8, <1>9
  <2>2. ASSUME NEW n \in 0..Len(items) - 1, n \in P PROVE n + 1 \in P
    <3>1. list[n] \in Seq(EntryType) /\ n + 1 \in 1..Len(items) /\ (n + 1) - 1 = n
      BY <2>2
    <3>2. list[n + 1] = Step(e, list[n], n + 1, items[n + 1])
      BY <1>9, <3>1
    <3>3. items[n + 1] \in ItemKinds /\ n + 1 \in 1..MaxRows
      BY <1>0, <3>1
    <3>4. list[n + 1] \in Seq(EntryType)
      BY <3>1, <3>2, <3>3, StepType
    <3>. QED
      BY <3>1, <3>4
  <2>3. 0 \in Int /\ Len(items) \in Int
    OBVIOUS
  <2>. HIDE DEF P
  <2>4. 0..Len(items) \subseteq P
    BY <2>1, <2>2, <2>3, IntervalInduction
  <2>. QED
    BY <2>4 DEF P
<1>. QED
  BY <1>6, <1>9, <1>10

-----------------------------------------------------------------------------
(* Types.                                                                  *)

LEMMA Constants == MaxRows \in Nat \ {0} /\ MaxEpochs \in Nat \ {0} /\ PageSize \in Nat \ {0} /\ Items \subseteq ItemKinds
BY SyncAssumption DEF SyncAssumption

Row == [epoch : 1..MaxEpochs, seq : 1..MaxRows, item : Items]
Message ==
    [type : {"stream"}, epoch : 1..MaxEpochs, seq : 1..MaxRows, item : Items]
        \cup [type : {"replacement"}, epoch : 1..MaxEpochs]
        \cup [type : {"subscribed", "page"}]
Rows == {items \in Seq(Items) : Len(items) <= MaxRows}

TypeInv == TypeOK /\ down \in Seq(Message)

\* Fields of the records.
LEMMA EntryFields ==
    ASSUME NEW c \in EntryType
    PROVE  /\ c.item \in ItemKinds /\ c.start \in 1..MaxRows /\ c.end \in 1..MaxRows
           /\ c.rows \subseteq 1..MaxRows /\ c.shown \in Seq((1..MaxEpochs) \X (1..MaxRows))
           /\ c.start \in Int /\ c.end \in Int
<1>1. /\ c.item \in ItemKinds /\ c.start \in 1..MaxRows /\ c.end \in 1..MaxRows
      /\ c.rows \in SUBSET (1..MaxRows) /\ c.shown \in Seq((1..MaxEpochs) \X (1..MaxRows))
  BY DEF EntryType
<1>. QED
  BY <1>1

LEMMA ReplicaFields ==
    ASSUME NEW r \in ReplicaType
    PROVE  /\ r.epoch \in 0..MaxEpochs /\ r.initialized \in BOOLEAN /\ r.entries \in Seq(EntryType)
           /\ r.next \in 1..MaxRows + 1 /\ r.hasOlder \in BOOLEAN
           /\ r.pending \in SUBSET Row /\ r.retired \in SUBSET (1..MaxEpochs)
BY DEF ReplicaType, Row

LEMMA PageFields ==
    ASSUME NEW page \in PageType
    PROVE  /\ page.direction \in {"tail", "after", "before"} /\ page.epoch \in 1..MaxEpochs
           /\ page.reset \in BOOLEAN /\ page.gap \in BOOLEAN /\ page.entries \in Seq(EntryType)
           /\ page.next \in 1..MaxRows + 1 /\ page.end \in 0..MaxRows
           /\ page.hasOlder \in BOOLEAN /\ page.hasNewer \in BOOLEAN
BY DEF PageType

LEMMA RequestFields ==
    ASSUME NEW rq \in Request
    PROVE  /\ rq.direction \in {"tail", "after", "before"} /\ rq.epoch \in 0..MaxEpochs
           /\ rq.seq \in 0..MaxRows /\ rq.sent \in BOOLEAN
           /\ rq.page # None => rq.page \in PageType
BY DEF Request

\* The projection of an epoch is a list of entries.
LEMMA ProjectionType ==
    ASSUME NEW e \in 1..MaxEpochs, NEW items \in Seq(ItemKinds), Len(items) <= MaxRows
    PROVE  Projection(e, items) \in Seq(EntryType)
<1>1. PICK list : /\ \A n \in 0..Len(items) : list[n] \in Seq(EntryType)
                  /\ Projection(e, items) = list[Len(items)]
  BY ProjectionSteps
<1>2. Len(items) \in 0..Len(items)
  OBVIOUS
<1>. QED
  BY <1>1, <1>2

\* A page is a page.
LEMMA PageOfType ==
    ASSUME NEW e \in 1..MaxEpochs, NEW items \in Seq(ItemKinds), Len(items) <= MaxRows,
           NEW direction \in {"tail", "after", "before"}, NEW entries \in Seq(EntryType),
           NEW first, NEW last \in 0..MaxRows
    PROVE  /\ PageOf(e, items, direction, entries, first, last) \in PageType
BY Constants DEF PageOf, PageType

LEMMA EntriesPageType ==
    ASSUME NEW e \in 1..MaxEpochs, NEW items \in Seq(ItemKinds), Len(items) <= MaxRows,
           NEW direction \in {"tail", "after", "before"}, NEW entries \in Seq(EntryType)
    PROVE  /\ EntriesPage(e, items, direction, entries) \in PageType
<1>1. (IF entries = <<>> THEN 0 ELSE Last(entries).end) \in 0..MaxRows
  <2>1. CASE entries = <<>>
    BY <2>1, Constants
  <2>2. CASE entries # <<>>
    <3>1. entries[Len(entries)] \in EntryType
      BY <2>2
    <3>2. entries[Len(entries)].end \in 1..MaxRows
      BY <3>1, EntryFields
    <3>. QED
      BY <2>2, <3>2, Constants DEF Last
  <2>. QED
    BY <2>1, <2>2
<1>. QED
  BY <1>1, PageOfType DEF EntriesPage

LEMMA PageIsPage ==
    ASSUME NEW e \in 1..MaxEpochs, NEW items \in Seq(ItemKinds), Len(items) <= MaxRows,
           NEW direction \in {"tail", "after", "before"}, NEW cursor, cursor.seq \in 0..MaxRows
    PROVE  Page(e, items, direction, cursor, PageSize) \in PageType
<1>. DEFINE list == Projection(e, items)
            limit == PageSize
<1>1. list \in Seq(EntryType)
  BY ProjectionType
<1>2. <<>> \in Seq(EntryType)
  OBVIOUS
<1>3. TailPage(e, items, limit) \in PageType
  <2>1. LastOf(list, limit) \in Seq(EntryType)
    BY <1>1, LastOfIs, Constants
  <2>. QED
    BY <2>1, EntriesPageType DEF TailPage
<1>4. BeforePage(e, items, cursor.seq, limit) \in PageType
  <2>. DEFINE part == Only(list, {c \in ToSet(list) : c.start < cursor.seq})
  <2>1. part \in Seq(EntryType)
    BY <1>1, OnlySet
  <2>. HIDE DEF part
  <2>2. LastOf(part, limit) \in Seq(EntryType)
    BY <2>1, LastOfIs, Constants
  <2>3. BeforePage(e, items, cursor.seq, limit) = EntriesPage(e, items, "before", LastOf(part, limit))
    BY DEF BeforePage, part
  <2>. QED
    BY <2>2, <2>3, EntriesPageType
<1>5. \A entries \in Seq(EntryType) : \A last \in 0..MaxRows : \A first :
          PageOf(e, items, "after", entries, first, last) \in PageType
  BY PageOfType
<1>6. AfterPage(e, items, cursor.seq, limit) \in PageType
  <2>1. CASE cursor.seq > Len(items)
    <3>1. EntriesPage(e, items, "after", <<>>) \in PageType
      BY <1>2, EntriesPageType
    <3>2. [EntriesPage(e, items, "after", <<>>) EXCEPT !.gap = TRUE] \in PageType
      <4>. DEFINE page == EntriesPage(e, items, "after", <<>>)
      <4>1. page \in PageType
        BY <3>1
      <4>. HIDE DEF page
      <4>2. [page EXCEPT !.gap = TRUE] \in PageType
        BY <4>1 DEF PageType
      <4>. QED
        BY <4>2 DEF page
    <3>. QED
      BY <2>1, <3>2 DEF AfterPage
  <2>2. CASE cursor.seq = Len(items)
    <3>1. EntriesPage(e, items, "after", <<>>) \in PageType
      BY <1>2, EntriesPageType
    <3>. QED
      BY <2>2, <3>1 DEF AfterPage
  <2>3. CASE cursor.seq < Len(items)
    <3>. DEFINE last == IF cursor.seq + limit < Len(items) THEN cursor.seq + limit ELSE Len(items)
                part == SubSeq(items, 1, last)
                prefix == Projection(e, part)
                entries == Only(prefix, {c \in ToSet(prefix) : c.end > cursor.seq})
    <3>1. last \in 0..MaxRows /\ last \in 1 - 1..Len(items)
      BY <2>3, Constants
    <3>. HIDE DEF last
    <3>2. part \in Seq(ItemKinds) /\ Len(part) <= MaxRows
      <4>1. 1 \in 1..Len(items) + 1
        OBVIOUS
      <4>2. part \in Seq(ItemKinds) /\ Len(part) = last - 1 + 1
        BY <3>1, <4>1, SubSeqIs
      <4>. QED
        BY <3>1, <4>2, Constants
    <3>. HIDE DEF part
    <3>3. prefix \in Seq(EntryType)
      BY <3>2, ProjectionType
    <3>. HIDE DEF prefix
    <3>4. entries \in Seq(EntryType)
      BY <3>3, OnlySet
    <3>. HIDE DEF entries
    <3>5. AfterPage(e, items, cursor.seq, limit) = PageOf(e, items, "after", entries, cursor.seq + 1, last)
      BY <2>3 DEF AfterPage, entries, prefix, part, last
    <3>. QED
      BY <1>5, <3>1, <3>4, <3>5
  <2>. QED
    BY <2>1, <2>2, <2>3
<1>7. [EntriesPage(e, items, direction, <<>>) EXCEPT !.reset = TRUE] \in PageType
  <2>. DEFINE page == EntriesPage(e, items, direction, <<>>)
  <2>1. page \in PageType
    BY <1>2, EntriesPageType
  <2>. HIDE DEF page
  <2>2. [page EXCEPT !.reset = TRUE] \in PageType
    BY <2>1 DEF PageType
  <2>. QED
    BY <2>2 DEF page
<1>. QED
  BY <1>3, <1>4, <1>6, <1>7 DEF Page

\* A reduction of the replica.
LEMMA EmptyType ==
    ASSUME NEW e \in 0..MaxEpochs, NEW retired \in SUBSET (1..MaxEpochs)
    PROVE  EmptyReplica(e, retired) \in ReplicaType
<1>1. <<>> \in Seq(EntryType) /\ 1 \in 1..MaxRows + 1
  BY Constants
<1>. QED
  BY <1>1 DEF EmptyReplica, ReplicaType

LEMMA ReplacedType ==
    ASSUME NEW r \in ReplicaType, NEW e \in 1..MaxEpochs
    PROVE  Replaced(r, e) \in ReplicaType
<1>1. r.retired \cup ({r.epoch} \ {0, e}) \in SUBSET (1..MaxEpochs) /\ e \in 0..MaxEpochs
  BY ReplicaFields
<1>. QED
  BY <1>1, EmptyType DEF Replaced

LEMMA BufferedType ==
    ASSUME NEW r \in ReplicaType, NEW m \in Row
    PROVE  Buffered(r, m) \in ReplicaType
<1>1. r.pending \cup {m} \in SUBSET Row
  BY ReplicaFields
<1>. QED
  BY <1>1 DEF Buffered, ReplicaType, Row

LEMMA InsertedType ==
    ASSUME NEW list \in Seq(EntryType), NEW c \in EntryType
    PROVE  Inserted(list, c) \in Seq(EntryType)
BY InsertedIs

LEMMA CoalescedType ==
    ASSUME NEW list \in Seq(EntryType), NEW m \in Row
    PROVE  Coalesced(list, m) \in Seq(EntryType)
<1>1. m.epoch \in 1..MaxEpochs /\ m.seq \in 1..MaxRows /\ m.item \in ItemKinds
  BY Constants DEF Row
<1>2. Joined(list, m.item) \in 0..Len(list)
  BY JoinedIs
<1>3. CASE Joined(list, m.item) = 0
  <2>1. EntryOf(m.epoch, m.seq, m.item) \in EntryType
    BY <1>1, EntryOfType
  <2>. QED
    BY <1>3, <2>1, InsertedType DEF Coalesced
<1>4. CASE Joined(list, m.item) # 0
  <2>1. Joined(list, m.item) \in 1..Len(list) /\ list[Joined(list, m.item)] \in EntryType
    BY <1>2, <1>4
  <2>2. Extended(list[Joined(list, m.item)], m.epoch, m.seq, m.item) \in EntryType
    BY <1>1, <2>1, ExtendedIs
  <2>. QED
    BY <1>4, <2>1, <2>2 DEF Coalesced
<1>. QED
  BY <1>3, <1>4

LEMMA AppendedType ==
    ASSUME NEW r \in ReplicaType, NEW m \in Row
    PROVE  Appended(r, m) \in ReplicaType
<1>1. Coalesced(r.entries, m) \in Seq(EntryType)
  BY CoalescedType, ReplicaFields
<1>2. m.seq + 1 \in 1..MaxRows + 1
  BY Constants DEF Row
<1>3. {p \in r.pending : p.seq # m.seq} \in SUBSET Row
  BY ReplicaFields
<1>. QED
  BY <1>1, <1>2, <1>3 DEF Appended, ReplicaType, Row

\* A live row.
LEMMA LiveType ==
    ASSUME NEW r \in ReplicaType, NEW m \in Row
    PROVE  ReduceLive(r, m).replica \in ReplicaType
<1>0. m.epoch \in 1..MaxEpochs
  BY DEF Row
<1>1. Buffered(Replaced(r, m.epoch), m) \in ReplicaType
  BY <1>0, ReplacedType, BufferedType
<1>2. Buffered([r EXCEPT !.epoch = m.epoch], m) \in ReplicaType
  <2>1. [r EXCEPT !.epoch = m.epoch] \in ReplicaType
    BY <1>0 DEF ReplicaType
  <2>. QED
    BY <2>1, BufferedType
<1>3. Buffered(r, m) \in ReplicaType /\ Appended(r, m) \in ReplicaType
  BY BufferedType, AppendedType
<1>. QED
  BY <1>1, <1>2, <1>3 DEF ReduceLive, Reduced

\* Draining is a chain of appended rows.
DrainedBy(r, reach, applied, result) ==
    /\ reach \in r.next - 1..MaxRows
    /\ \A s \in r.next - 1..reach : applied[s] \in ReplicaType
    /\ applied[r.next - 1] = r
    /\ \A s \in r.next..reach : \E m \in r.pending : m.seq = s /\ applied[s] = Appended(applied[s - 1], m)
    /\ \A m \in r.pending : m.seq # reach + 1
    /\ result.replica = [applied[reach] EXCEPT !.pending = {m \in r.pending : m.seq > reach}]
    /\ result.status = IF {m \in r.pending : m.seq > reach} = {} THEN "applied" ELSE "gap"

LEMMA DrainedSteps ==
    ASSUME NEW r \in ReplicaType
    PROVE  \E reach, applied : DrainedBy(r, reach, applied, Drained(r))
<1>. DEFINE buffered == {m.seq : m \in r.pending}
            runs == {r.next - 1} \cup {s \in buffered : r.next..s \subseteq buffered}
            reach == Max(runs)
            row(s) == CHOOSE m \in r.pending : m.seq = s
            a == r.next - 1
            G == [s \in a + 1..reach |-> [v \in ReplicaType |-> Appended(v, row(s))]]
            IsApplied(f) == f = [s \in a..reach |-> IF s < r.next THEN r ELSE Appended(f[s - 1], row(s))]
            applied == CHOOSE f : IsApplied(f)
            left == {m \in r.pending : m.seq > reach}
<1>0. r.next \in 1..MaxRows + 1 /\ r.pending \subseteq Row /\ MaxRows \in Nat /\ \A m \in Row : m.seq \in 1..MaxRows
  BY ReplicaFields, Constants DEF Row
<1>1. buffered \subseteq 1..MaxRows
  BY <1>0
<1>2. reach \in runs /\ \A s \in runs : s <= reach
  <2>. HIDE DEF buffered
  <2>1. \A s \in runs : s \in Int /\ s <= MaxRows
    <3>. TAKE s \in runs
    <3>1. s = r.next - 1 \/ s \in buffered
      OBVIOUS
    <3>. QED
      BY <1>0, <1>1, <3>1
  <2>2. r.next - 1 \in runs /\ MaxRows \in Int
    BY <1>0
  <2>3. Bounded(runs, MaxRows)
    <3>. HIDE DEF runs
    <3>. QED
      BY <2>1, <2>2 DEF Bounded
  <2>. HIDE DEF runs
  <2>. QED
    BY <2>3, MaxIs
<1>. HIDE DEF reach
<1>3. reach \in r.next - 1..MaxRows /\ r.next..reach \subseteq buffered
  <2>. HIDE DEF buffered
  <2>1. CASE reach = r.next - 1
    BY <2>1, <1>0
  <2>2. CASE reach # r.next - 1
    <3>0. reach \in 1..MaxRows /\ r.next - 1 \in runs
      BY <1>1, <1>2, <2>2
    <3>1. reach \in buffered /\ r.next..reach \subseteq buffered
      BY <1>2, <2>2
    <3>2. r.next - 1 <= reach
      BY <1>2
    <3>. QED
      BY <3>0, <3>1, <3>2, <1>0
  <2>. QED
    BY <2>1, <2>2
<1>4. ASSUME NEW m \in r.pending PROVE m.seq # reach + 1
  <2>. SUFFICES ASSUME m.seq = reach + 1 PROVE FALSE
    OBVIOUS
  <2>1. reach + 1 \in buffered
    BY <1>4
  <2>. HIDE DEF buffered
  <2>2. r.next..reach + 1 \subseteq buffered
    BY <1>0, <1>3, <2>1
  <2>3. reach + 1 \in runs
    BY <2>1, <2>2
  <2>. HIDE DEF runs
  <2>4. reach + 1 <= reach
    BY <1>2, <2>3
  <2>. QED
    BY <1>0, <1>3, <2>4
<1>5. \A s \in r.next..reach : row(s) \in r.pending /\ row(s).seq = s
  BY <1>3
<1>. HIDE DEF row, buffered, runs
<1>6. a \in Int /\ reach \in Int /\ a + 1 = r.next /\ a \in a..reach
  BY <1>0, <1>3
<1>7. Stepwise(ReplicaType, a, reach, r, G)
  <2>. HIDE DEF a
  <2>1. \A s \in a + 1..reach : \A v \in ReplicaType : Appended(v, row(s)) \in ReplicaType
    <3>. TAKE s \in a + 1..reach
    <3>1. row(s) \in Row
      BY <1>0, <1>5, <1>6
    <3>. QED
      BY <3>1, AppendedType
  <2>2. G \in [a + 1..reach -> [ReplicaType -> ReplicaType]]
    BY <2>1
  <2>. HIDE DEF G
  <2>. QED
    BY <1>6, <2>2 DEF Stepwise
<1>8. PICK f \in [a..reach -> ReplicaType] : \A s \in a..reach : f[s] = IF s = a THEN r ELSE G[s][f[s - 1]]
  <2>. HIDE DEF G, a
  <2>. QED
    BY <1>7, Recursion DEF Solvable
<1>9. \A s \in a..reach : s # a => s - 1 \in a..reach /\ s \in a + 1..reach /\ ~(s < r.next)
  BY <1>6
<1>10. \A s \in a..reach : f[s] = IF s < r.next THEN r ELSE Appended(f[s - 1], row(s))
  <2>. TAKE s \in a..reach
  <2>. HIDE DEF a
  <2>1. CASE s = a
    <3>1. s < r.next /\ f[s] = r
      <4>. HIDE DEF G
      <4>1. s < r.next
        BY <1>0, <1>6, <2>1
      <4>. QED
        BY <1>8, <2>1, <4>1
    <3>. QED
      BY <3>1
  <2>2. CASE s # a
    <3>1. f[s - 1] \in ReplicaType /\ s \in a + 1..reach
      BY <1>8, <1>9, <2>2
    <3>2. G[s][f[s - 1]] = Appended(f[s - 1], row(s))
      BY <3>1
    <3>. HIDE DEF G
    <3>. QED
      BY <1>8, <1>9, <2>2, <3>2
  <2>. QED
    BY <2>1, <2>2
<1>11. IsApplied(f)
  <2>. HIDE DEF G, a
  <2>. QED
    BY <1>8, <1>10
<1>12. IsApplied(applied)
  <2>. HIDE DEF IsApplied
  <2>. QED
    BY <1>11
<1>13. Drained(r) = Reduced(IF left = {} THEN "applied" ELSE "gap", [applied[reach] EXCEPT !.pending = left])
  BY Zenon DEF Drained, reach, row, runs, buffered
<1>. HIDE DEF applied, G, a, left
<1>14. \A s \in a..reach : applied[s] = IF s < r.next THEN r ELSE Appended(applied[s - 1], row(s))
  BY <1>12
<1>. HIDE DEF IsApplied
<1>15. applied[a] = r /\ \A s \in r.next..reach : applied[s] = Appended(applied[s - 1], row(s))
  <2>1. applied[a] = r
    BY <1>6, <1>14
  <2>2. \A s \in r.next..reach : s \in a..reach /\ ~(s < r.next)
    BY <1>0, <1>6
  <2>. QED
    BY <2>1, <2>2, <1>14
<1>16. \A s \in a..reach : applied[s] \in ReplicaType
  <2>. DEFINE P == {s \in a..reach : applied[s] \in ReplicaType}
  <2>1. a \in P
    BY <1>6, <1>15
  <2>2. ASSUME NEW s \in a..reach - 1, s \in P PROVE s + 1 \in P
    <3>1. applied[s] \in ReplicaType /\ s + 1 \in r.next..reach /\ (s + 1) - 1 = s /\ s + 1 \in a..reach
      BY <1>0, <1>6, <2>2
    <3>2. row(s + 1) \in Row /\ applied[s + 1] = Appended(applied[s], row(s + 1))
      BY <1>0, <1>5, <1>15, <3>1
    <3>3. applied[s + 1] \in ReplicaType
      BY <3>1, <3>2, AppendedType
    <3>. QED
      BY <3>1, <3>3
  <2>. HIDE DEF P
  <2>3. a..reach \subseteq P
    BY <1>6, <2>1, <2>2, IntervalInduction
  <2>. QED
    BY <2>3 DEF P
<1>17. Drained(r).replica = [applied[reach] EXCEPT !.pending = left] /\ Drained(r).status = IF left = {} THEN "applied" ELSE "gap"
  BY <1>13 DEF Reduced
<1>18. DrainedBy(r, reach, applied, Drained(r))
  BY <1>3, <1>4, <1>5, <1>15, <1>16, <1>17 DEF DrainedBy, left, a
<1>. QED
  BY <1>18

LEMMA DrainedType ==
    ASSUME NEW r \in ReplicaType
    PROVE  Drained(r).replica \in ReplicaType /\ Drained(r).status \in {"applied", "gap"}
<1>1. PICK reach, applied : DrainedBy(r, reach, applied, Drained(r))
  BY DrainedSteps
<1>2. reach \in r.next - 1..reach
  BY <1>1, ReplicaFields, Constants DEF DrainedBy
<1>3. applied[reach] \in ReplicaType
  BY <1>1, <1>2 DEF DrainedBy
<1>4. {m \in r.pending : m.seq > reach} \in SUBSET Row
  BY ReplicaFields
<1>5. [applied[reach] EXCEPT !.pending = {m \in r.pending : m.seq > reach}] \in ReplicaType
  BY <1>3, <1>4 DEF ReplicaType, Row
<1>. QED
  BY <1>1, <1>5 DEF DrainedBy

\* A page.
LEMMA NextOfType ==
    ASSUME NEW r \in ReplicaType, NEW page \in PageType
    PROVE  NextOf(r, page) \in 1..MaxRows + 1
BY ReplicaFields, PageFields, Constants DEF NextOf

LEMMA ChangedNext ==
    ASSUME NEW a, NEW b, a \in 1..MaxRows + 1, b \in 1..MaxRows + 1
    PROVE  Max({a, b}) \in 1..MaxRows + 1 /\ Max({a, b}) = IF a <= b THEN b ELSE a
<1>1. a \in Int /\ b \in Int
  BY Constants
<1>2. Max({a, b}) = IF a <= b THEN b ELSE a
  BY <1>1, MaxOfTwo
<1>. QED
  BY <1>2

\* The entries a page is merged with, and those of the page that are merged.
Base(r, page) == IF ~r.initialized \/ page.direction = "tail" THEN <<>> ELSE r.entries
Superseded(r, page) ==
    {c \in ToSet(page.entries) :
        \E i \in DOMAIN Base(r, page) : Base(r, page)[i].end > c.end /\ Overlap(Base(r, page)[i], c)}
Incoming(r, page, preserveLive) ==
    IF preserveLive THEN Only(page.entries, ToSet(page.entries) \ Superseded(r, page)) ELSE page.entries

LEMMA PartsType ==
    ASSUME NEW r \in ReplicaType, NEW page \in PageType, NEW preserveLive \in BOOLEAN
    PROVE  Base(r, page) \in Seq(EntryType) /\ Incoming(r, page, preserveLive) \in Seq(EntryType)
<1>1. <<>> \in Seq(EntryType) /\ r.entries \in Seq(EntryType) /\ page.entries \in Seq(EntryType)
  BY ReplicaFields, PageFields
<1>2. \A S : Only(page.entries, S) \in Seq(EntryType)
  BY <1>1, OnlySet
<1>. QED
  BY <1>1, <1>2 DEF Base, Incoming

\* The cursor after a page, and the buffered rows of its epoch.
LaterOf(r, page, preserveLive) ==
    IF preserveLive /\ NextOf(r, page) <= r.next THEN r.next ELSE NextOf(r, page)
Pertinent(r, page) == {m \in r.pending : m.epoch = page.epoch}

LEMMA WithPageIs ==
    ASSUME NEW r \in ReplicaType, NEW page \in PageType, NEW preserveLive \in BOOLEAN
    PROVE  /\ WithPage(r, page, preserveLive) \in ReplicaType
           /\ WithPage(r, page, preserveLive).epoch = page.epoch
           /\ WithPage(r, page, preserveLive).initialized = TRUE
           /\ WithPage(r, page, preserveLive).entries = Merged(Base(r, page), Incoming(r, page, preserveLive))
           /\ WithPage(r, page, preserveLive).next = LaterOf(r, page, preserveLive)
           /\ WithPage(r, page, preserveLive).pending = Pertinent(r, page)
           /\ WithPage(r, page, preserveLive).retired = r.retired
<1>. DEFINE entries == Merged(Base(r, page), Incoming(r, page, preserveLive))
            next == IF preserveLive THEN Max({r.next, NextOf(r, page)}) ELSE NextOf(r, page)
            more == page.hasOlder \/ (page.direction # "before" /\ r.hasOlder)
            pending == {m \in r.pending : m.epoch = page.epoch}
<1>1. entries \in Seq(EntryType)
  BY PartsType, MergedSet
<1>2. next \in 1..MaxRows + 1 /\ next = IF preserveLive /\ NextOf(r, page) <= r.next THEN r.next ELSE NextOf(r, page)
  <2>1. NextOf(r, page) \in 1..MaxRows + 1 /\ r.next \in 1..MaxRows + 1
    BY NextOfType, ReplicaFields
  <2>2. Max({r.next, NextOf(r, page)}) \in 1..MaxRows + 1
        /\ Max({r.next, NextOf(r, page)}) = IF r.next <= NextOf(r, page) THEN NextOf(r, page) ELSE r.next
    BY <2>1, ChangedNext
  <2>3. r.next \in Int /\ NextOf(r, page) \in Int
    BY <2>1, Constants
  <2>. QED
    BY <2>1, <2>2, <2>3
<1>3. more \in BOOLEAN /\ pending \in SUBSET Row /\ page.epoch \in 0..MaxEpochs
  BY ReplicaFields, PageFields, Constants
<1>4. WithPage(r, page, preserveLive) =
        [r EXCEPT !.epoch = page.epoch, !.initialized = TRUE, !.entries = entries, !.next = next,
                  !.hasOlder = more, !.pending = pending]
  BY DEF WithPage, Base, Incoming, Superseded
<1>. HIDE DEF entries, next, more, pending
<1>. DEFINE w == [r EXCEPT !.epoch = page.epoch, !.initialized = TRUE, !.entries = entries, !.next = next,
                  !.hasOlder = more, !.pending = pending]
<1>5. /\ w \in ReplicaType
      /\ w.epoch = page.epoch /\ w.initialized = TRUE /\ w.entries = entries /\ w.next = next
      /\ w.pending = pending /\ w.retired = r.retired
  BY <1>1, <1>2, <1>3 DEF ReplicaType, Row
<1>. HIDE DEF w
<1>6. WithPage(r, page, preserveLive) = w
  BY <1>4 DEF w
<1>. QED
  BY <1>2, <1>5, <1>6 DEF entries, pending, LaterOf, Pertinent

LEMMA ApplyType ==
    ASSUME NEW r \in ReplicaType, NEW page \in PageType, NEW preserveLive \in BOOLEAN
    PROVE  ApplyPage(r, page, preserveLive).replica \in ReplicaType
<1>1. page.epoch \in 1..MaxEpochs
  BY PageFields
<1>2. Replaced(r, page.epoch) \in ReplicaType
  BY <1>1, ReplacedType
<1>3. WithPage(r, page, preserveLive) \in ReplicaType /\ WithPage(Replaced(r, page.epoch), page, preserveLive) \in ReplicaType
  BY <1>2, WithPageIs
<1>4. /\ Drained(WithPage(r, page, preserveLive)).replica \in ReplicaType
      /\ Drained(WithPage(Replaced(r, page.epoch), page, preserveLive)).replica \in ReplicaType
  BY <1>3, DrainedType
<1>. DEFINE changed == r.epoch \notin {0, page.epoch}
<1>5. Drained(WithPage(IF changed THEN Replaced(r, page.epoch) ELSE r, page, preserveLive)).replica \in ReplicaType
  BY <1>4
<1>6. ApplyPage(r, page, preserveLive) =
        IF page.reset \/ page.gap THEN Reduced("reset_required", Replaced(r, page.epoch))
        ELSE IF changed /\ page.epoch \in r.retired THEN Reduced("stale_epoch", r)
        ELSE IF changed /\ page.direction # "tail" THEN Reduced("epoch_changed", Replaced(r, page.epoch))
        ELSE Drained(WithPage(IF changed THEN Replaced(r, page.epoch) ELSE r, page, preserveLive))
  BY DEF ApplyPage
<1>. HIDE DEF changed
<1>. QED
  BY <1>2, <1>5, <1>6 DEF Reduced

-----------------------------------------------------------------------------
(* The type invariant.                                                     *)

\* A message list without the delivered page is a message list.
LEMMA WithoutPageType ==
    ASSUME NEW rest \in Seq(Message)
    PROVE  WithoutPage(rest) \in Seq(Message)
BY OnlySet DEF WithoutPage

LEMMA AskType ==
    ASSUME NEW direction \in {"tail", "after", "before"}, NEW e \in 0..MaxEpochs, NEW seq \in 0..MaxRows
    PROVE  Ask(direction, e, seq) \in Request
BY DEF Ask, Request

LEMMA CatchUpType ==
    ASSUME NEW r \in ReplicaType
    PROVE  /\ CatchUp(r) \in Request
           /\ Ask("after", r.epoch, r.next - 1) \in Request
           /\ Ask("tail", 0, 0) \in Request
<1>1. r.epoch \in 0..MaxEpochs /\ r.next - 1 \in 0..MaxRows /\ 0 \in 0..MaxEpochs /\ 0 \in 0..MaxRows
  BY ReplicaFields, Constants
<1>. QED
  BY <1>1, AskType DEF CatchUp

LEMMA AnsweredType ==
    ASSUME TypeOK, NEW request \in Request
    PROVE  Answered(request) \in Request
<1>1. rows \in Seq(ItemKinds) /\ Len(rows) <= MaxRows /\ epoch \in 1..MaxEpochs
  BY Constants DEF TypeOK
<1>2. request.direction \in {"tail", "after", "before"} /\ request.seq \in 0..MaxRows
  BY RequestFields
<1>. DEFINE cursor == [epoch |-> request.epoch, seq |-> request.seq]
            page == Page(epoch, rows, request.direction, cursor, PageSize)
<1>3. page \in PageType
  <2>1. cursor.seq \in 0..MaxRows
    BY <1>2
  <2>. HIDE DEF cursor
  <2>. QED
    BY <1>1, <1>2, <2>1, PageIsPage
<1>4. Answered(request) = [request EXCEPT !.page = page]
  BY DEF Answered
<1>. HIDE DEF page
<1>. QED
  BY <1>3, <1>4 DEF Request

\* Messages.
LEMMA HeadType ==
    ASSUME TypeInv, down # <<>>
    PROVE  /\ Head(down) \in Message /\ Tail(down) \in Seq(Message) /\ WithoutPage(Tail(down)) \in Seq(Message)
           /\ Head(down).type = "stream" =>
                 /\ [epoch |-> Head(down).epoch, seq |-> Head(down).seq, item |-> Head(down).item] \in Row
                 /\ Head(down).epoch \in 1..MaxEpochs
           /\ Head(down).type = "replacement" => Head(down).epoch \in 1..MaxEpochs
<1>1. Head(down) \in Message /\ Tail(down) \in Seq(Message)
  BY DEF TypeInv
<1>. QED
  BY <1>1, WithoutPageType DEF Message, Row

\* What a reduction starts keeps the types.
LEMMA FollowType ==
    ASSUME TypeInv, NEW reduction, reduction.replica \in ReplicaType, NEW rest \in Seq(Message),
           Follow(reduction, rest)
    PROVE  /\ replica' \in ReplicaType /\ down' \in Seq(Message) /\ status' \in {"disconnected", "catching_up", "ready"}
           /\ recovery' \in {None} \cup Request /\ scan' \in {None} \cup Request
<1>1. /\ Ask("after", reduction.replica.epoch, reduction.replica.next - 1) \in Request
      /\ Ask("tail", 0, 0) \in Request
  BY CatchUpType
<1>2. WithoutPage(rest) \in Seq(Message)
  BY WithoutPageType
<1>. QED
  BY <1>1, <1>2 DEF Follow, Fetch, TypeInv, TypeOK

LEMMA ApplyCatchUpType ==
    ASSUME TypeInv, recovery # None, recovery.page # None, NEW rest \in Seq(Message), ApplyCatchUp(rest)
    PROVE  /\ replica' \in ReplicaType /\ down' \in Seq(Message) /\ status' \in {"disconnected", "catching_up", "ready"}
           /\ recovery' \in {None} \cup Request /\ scan' \in {None} \cup Request
<1>. DEFINE page == recovery.page
            reduction == ApplyPage(replica, page, FALSE)
<1>1. recovery \in Request /\ replica \in ReplicaType
  BY DEF TypeInv, TypeOK
<1>2. page \in PageType
  BY <1>1, RequestFields
<1>3. reduction.replica \in ReplicaType
  BY <1>1, <1>2, ApplyType
<1>4. /\ Ask("after", reduction.replica.epoch, reduction.replica.next - 1) \in Request
      /\ Ask("tail", 0, 0) \in Request
  <2>. HIDE DEF reduction
  <2>. QED
    BY <1>3, CatchUpType
<1>5. Ask("after", page.epoch, page.end) \in Request
  <2>1. page.epoch \in 0..MaxEpochs /\ page.end \in 0..MaxRows
    BY <1>2, PageFields
  <2>. HIDE DEF page
  <2>. QED
    BY <2>1, AskType
<1>. QED
  BY <1>3, <1>4, <1>5 DEF ApplyCatchUp, Fetch, TypeInv, TypeOK

-----------------------------------------------------------------------------
(* Epochs: what is displayed is of one epoch.                              *)

\* What is displayed is of epoch e.
EntryShows(e, c) == \A j \in DOMAIN c.shown : c.shown[j][1] = e
ShowsOnly(e, list) == \A c \in ToSet(list) : EntryShows(e, c)

LEMMA EntryOfShows ==
    ASSUME NEW e, NEW seq, NEW item
    PROVE  EntryShows(e, EntryOf(e, seq, item))
<1>1. EntryOf(e, seq, item).shown = <<(<<e, seq>>)>>
  BY DEF EntryOf
<1>. QED
  BY <1>1 DEF EntryShows

LEMMA ExtendedShows ==
    ASSUME NEW entry \in EntryType, NEW e \in 1..MaxEpochs, NEW seq \in 1..MaxRows, NEW item \in ItemKinds,
           EntryShows(e, entry)
    PROVE  EntryShows(e, Extended(entry, e, seq, item))
<1>. DEFINE D == (1..MaxEpochs) \X (1..MaxRows)
            s == entry.shown
            p == <<e, seq>>
            t == Extended(entry, e, seq, item).shown
<1>1. s \in Seq(D) /\ t = (IF item = "text" THEN Append(s, p) ELSE <<p>>) /\ p[1] = e
  BY ExtendedIs, EntryFields
<1>2. \A j \in 1..Len(s) : s[j][1] = e
  BY <1>1 DEF EntryShows
<1>. HIDE DEF s, t, D, p
<1>3. \A j \in DOMAIN t : t[j][1] = e
  <2>1. CASE item = "text"
    <3>1. /\ DOMAIN Append(s, p) = 1..Len(s) + 1 /\ Append(s, p)[Len(s) + 1] = p
          /\ \A j \in 1..Len(s) : Append(s, p)[j] = s[j]
      BY <1>1
    <3>. QED
      BY <1>1, <1>2, <2>1, <3>1
  <2>2. CASE item # "text"
    BY <1>1, <2>2
  <2>. QED
    BY <2>1, <2>2
<1>. QED
  BY <1>3 DEF EntryShows, t

LEMMA ReplacedEntry ==
    ASSUME NEW D, NEW list \in Seq(D), NEW i \in 1..Len(list), NEW c
    PROVE  /\ ToSet([list EXCEPT ![i] = c]) \subseteq ToSet(list) \cup {c}
           /\ DOMAIN [list EXCEPT ![i] = c] = 1..Len(list)
           /\ Len([list EXCEPT ![i] = c]) = Len(list)
           /\ [list EXCEPT ![i] = c][i] = c
           /\ \A j \in 1..Len(list) : j # i => [list EXCEPT ![i] = c][j] = list[j]
<1>1. [list EXCEPT ![i] = c] \in Seq(D \cup {c}) /\ DOMAIN list = 1..Len(list)
  OBVIOUS
<1>. QED
  BY <1>1 DEF ToSet

LEMMA AppendedSet ==
    ASSUME NEW D, NEW list \in Seq(D), NEW c \in D
    PROVE  ToSet(Append(list, c)) = ToSet(list) \cup {c}
<1>1. /\ DOMAIN Append(list, c) = 1..Len(list) + 1 /\ DOMAIN list = 1..Len(list)
      /\ \A i \in 1..Len(list) : Append(list, c)[i] = list[i]
      /\ Append(list, c)[Len(list) + 1] = c
      /\ Len(list) \in Nat
  OBVIOUS
<1>. HIDE DEF ToSet
<1>2. \A i \in 1..Len(list) + 1 : i \in 1..Len(list) \/ i = Len(list) + 1
  BY <1>1
<1>3. Len(list) + 1 \in 1..Len(list) + 1 /\ \A i \in 1..Len(list) : i \in 1..Len(list) + 1
  BY <1>1
<1>. QED
  BY <1>1, <1>2, <1>3 DEF ToSet

LEMMA StepShows ==
    ASSUME NEW e \in 1..MaxEpochs, NEW n \in 1..MaxRows, NEW item \in ItemKinds, NEW list \in Seq(EntryType),
           ShowsOnly(e, list)
    PROVE  ShowsOnly(e, Step(e, list, n, item))
<1>. DEFINE i == Joined(list, item)
<1>1. i \in 0..Len(list)
  BY JoinedIs
<1>. HIDE DEF i
<1>2. CASE i = 0
  <2>1. EntryOf(e, n, item) \in EntryType /\ EntryShows(e, EntryOf(e, n, item))
    BY EntryOfType, EntryOfShows
  <2>2. Step(e, list, n, item) = Append(list, EntryOf(e, n, item))
    BY <1>2 DEF Step, i
  <2>3. ToSet(Step(e, list, n, item)) = ToSet(list) \cup {EntryOf(e, n, item)}
    BY <2>1, <2>2, AppendedSet
  <2>. QED
    BY <2>1, <2>3 DEF ShowsOnly
<1>3. CASE i # 0
  <2>. DEFINE c == Extended(list[i], e, n, item)
  <2>1. i \in 1..Len(list) /\ list[i] \in EntryType /\ list[i] \in ToSet(list)
    BY <1>1, <1>3 DEF ToSet
  <2>2. EntryShows(e, c)
    BY <2>1, ExtendedShows DEF ShowsOnly
  <2>3. Step(e, list, n, item) = [list EXCEPT ![i] = c]
    BY <1>3 DEF Step, i
  <2>. HIDE DEF c
  <2>4. ToSet(Step(e, list, n, item)) \subseteq ToSet(list) \cup {c}
    BY <2>1, <2>3, ReplacedEntry
  <2>. QED
    BY <2>2, <2>4 DEF ShowsOnly
<1>. QED
  BY <1>2, <1>3

LEMMA CoalescedShows ==
    ASSUME NEW e \in 1..MaxEpochs, NEW list \in Seq(EntryType), NEW m \in Row, m.epoch = e, ShowsOnly(e, list)
    PROVE  ShowsOnly(e, Coalesced(list, m))
<1>. DEFINE i == Joined(list, m.item)
<1>0. m.seq \in 1..MaxRows /\ m.item \in ItemKinds
  BY Constants DEF Row
<1>1. i \in 0..Len(list)
  BY JoinedIs
<1>. HIDE DEF i
<1>2. CASE i = 0
  <2>1. EntryOf(e, m.seq, m.item) \in EntryType /\ EntryShows(e, EntryOf(e, m.seq, m.item))
    BY <1>0, EntryOfType, EntryOfShows
  <2>2. Coalesced(list, m) = Inserted(list, EntryOf(e, m.seq, m.item))
    BY <1>2 DEF Coalesced, i
  <2>3. ToSet(Coalesced(list, m)) = ToSet(list) \cup {EntryOf(e, m.seq, m.item)}
    BY <2>1, <2>2, InsertedSet
  <2>. QED
    BY <2>1, <2>3 DEF ShowsOnly
<1>3. CASE i # 0
  <2>. DEFINE c == Extended(list[i], e, m.seq, m.item)
  <2>1. i \in 1..Len(list) /\ list[i] \in EntryType /\ list[i] \in ToSet(list)
    BY <1>1, <1>3 DEF ToSet
  <2>2. EntryShows(e, c)
    BY <1>0, <2>1, ExtendedShows DEF ShowsOnly
  <2>3. Coalesced(list, m) = [list EXCEPT ![i] = c]
    BY <1>3 DEF Coalesced, i
  <2>. HIDE DEF c
  <2>4. ToSet(Coalesced(list, m)) \subseteq ToSet(list) \cup {c}
    BY <2>1, <2>3, ReplacedEntry
  <2>. QED
    BY <2>2, <2>4 DEF ShowsOnly
<1>. QED
  BY <1>2, <1>3

LEMMA ProjectionShows ==
    ASSUME NEW e \in 1..MaxEpochs, NEW items \in Seq(ItemKinds), Len(items) <= MaxRows
    PROVE  ShowsOnly(e, Projection(e, items))
<1>1. PICK list :
              /\ \A n \in 0..Len(items) : list[n] \in Seq(EntryType)
              /\ list[0] = <<>>
              /\ \A n \in 1..Len(items) : list[n] = Step(e, list[n - 1], n, items[n])
              /\ Projection(e, items) = list[Len(items)]
  BY ProjectionSteps
<1>. DEFINE P == {n \in 0..Len(items) : ShowsOnly(e, list[n])}
<1>2. 0 \in P
  BY <1>1 DEF ShowsOnly, ToSet
<1>3. ASSUME NEW n \in 0..Len(items) - 1, n \in P PROVE n + 1 \in P
  <2>1. /\ list[n] \in Seq(EntryType) /\ ShowsOnly(e, list[n]) /\ n + 1 \in 1..Len(items) /\ (n + 1) - 1 = n
        /\ items[n + 1] \in ItemKinds /\ n + 1 \in 1..MaxRows
    BY <1>1, <1>3, Constants
  <2>2. list[n + 1] = Step(e, list[n], n + 1, items[n + 1])
    BY <1>1, <2>1
  <2>3. ShowsOnly(e, list[n + 1])
    BY <2>1, <2>2, StepShows
  <2>. QED
    BY <2>1, <2>3
<1>4. 0 \in Int /\ Len(items) \in Int /\ Len(items) \in 0..Len(items)
  OBVIOUS
<1>. HIDE DEF P
<1>5. 0..Len(items) \subseteq P
  BY <1>2, <1>3, <1>4, IntervalInduction
<1>. QED
  BY <1>1, <1>4, <1>5 DEF P

\* A part of a list shows no more than the list.
LEMMA PartShows ==
    ASSUME NEW e, NEW list, NEW part, ToSet(part) \subseteq ToSet(list), ShowsOnly(e, list)
    PROVE  ShowsOnly(e, part)
BY DEF ShowsOnly

LEMMA LastOfSet ==
    ASSUME NEW D, NEW s \in Seq(D), NEW n \in Nat \ {0}
    PROVE  LastOf(s, n) \in Seq(D) /\ ToSet(LastOf(s, n)) \subseteq ToSet(s)
<1>1. PICK k \in 1..Len(s) + 1 :
              /\ LastOf(s, n) = SubSeq(s, k, Len(s))
              /\ LastOf(s, n) \in Seq(D)
              /\ Len(LastOf(s, n)) = Len(s) - k + 1
              /\ \A i \in 1..Len(s) - k + 1 : LastOf(s, n)[i] = s[k + i - 1]
              /\ s # <<>> => k <= Len(s)
  BY LastOfIs, Zenon
<1>. DEFINE part == LastOf(s, n)
<1>3. part \in Seq(D) /\ Len(part) = Len(s) - k + 1 /\ DOMAIN part = 1..Len(s) - k + 1 /\ DOMAIN s = 1..Len(s)
      /\ \A i \in 1..Len(s) - k + 1 : part[i] = s[k + i - 1]
  <2>1. part \in Seq(D) /\ Len(part) = Len(s) - k + 1 /\ DOMAIN s = 1..Len(s)
    BY <1>1
  <2>2. DOMAIN part = 1..Len(part)
    BY <2>1
  <2>. QED
    BY <1>1, <2>1, <2>2
<1>. HIDE DEF part
<1>2. ASSUME NEW x \in ToSet(part) PROVE x \in ToSet(s)
  <2>1. PICK i \in 1..Len(s) - k + 1 : x = part[i]
    BY <1>3, <1>2 DEF ToSet
  <2>2. k + i - 1 \in 1..Len(s) /\ x = s[k + i - 1]
    BY <1>3, <2>1
  <2>. QED
    BY <1>3, <2>2 DEF ToSet
<1>. QED
  BY <1>2, <1>3 DEF part

\* The entries of a page are of a projection; its epoch is the Relay's.
LEMMA PageShows ==
    ASSUME NEW e \in 1..MaxEpochs, NEW items \in Seq(ItemKinds), Len(items) <= MaxRows,
           NEW direction \in {"tail", "after", "before"}, NEW cursor, cursor.seq \in 0..MaxRows
    PROVE  /\ Page(e, items, direction, cursor, PageSize).epoch = e
           /\ Page(e, items, direction, cursor, PageSize).direction = direction
           /\ ShowsOnly(e, Page(e, items, direction, cursor, PageSize).entries)
           /\ ~Page(e, items, direction, cursor, PageSize).reset =>
                 direction = "tail" \/ cursor.epoch = e
<1>. DEFINE list == Projection(e, items)
            limit == PageSize
<1>1. list \in Seq(EntryType) /\ ShowsOnly(e, list)
  BY ProjectionType, ProjectionShows
<1>2. ShowsOnly(e, <<>>)
  BY DEF ShowsOnly, ToSet
<1>3. /\ TailPage(e, items, limit).epoch = e
      /\ TailPage(e, items, limit).direction = "tail"
      /\ ShowsOnly(e, TailPage(e, items, limit).entries)
  <2>1. ToSet(LastOf(list, limit)) \subseteq ToSet(list)
    BY <1>1, LastOfSet, Constants
  <2>2. ShowsOnly(e, LastOf(list, limit))
    BY <1>1, <2>1, PartShows
  <2>. QED
    BY <2>2 DEF TailPage, EntriesPage, PageOf
<1>4. /\ BeforePage(e, items, cursor.seq, limit).epoch = e
      /\ BeforePage(e, items, cursor.seq, limit).direction = "before"
      /\ ShowsOnly(e, BeforePage(e, items, cursor.seq, limit).entries)
  <2>. DEFINE part == Only(list, {c \in ToSet(list) : c.start < cursor.seq})
  <2>1. part \in Seq(EntryType) /\ ToSet(part) \subseteq ToSet(list)
    BY <1>1, OnlySet
  <2>. HIDE DEF part
  <2>2. ToSet(LastOf(part, limit)) \subseteq ToSet(list)
    BY <2>1, LastOfSet, Constants
  <2>3. ShowsOnly(e, LastOf(part, limit))
    BY <1>1, <2>2, PartShows
  <2>4. BeforePage(e, items, cursor.seq, limit) = EntriesPage(e, items, "before", LastOf(part, limit))
    BY DEF BeforePage, part
  <2>. QED
    BY <2>3, <2>4 DEF EntriesPage, PageOf
<1>5. /\ EntriesPage(e, items, "after", <<>>).epoch = e
      /\ EntriesPage(e, items, "after", <<>>).direction = "after"
      /\ EntriesPage(e, items, "after", <<>>).entries = <<>>
  BY DEF EntriesPage, PageOf
<1>6. /\ AfterPage(e, items, cursor.seq, limit).epoch = e
      /\ AfterPage(e, items, cursor.seq, limit).direction = "after"
      /\ ShowsOnly(e, AfterPage(e, items, cursor.seq, limit).entries)
  <2>1. CASE cursor.seq > Len(items)
    <3>1. AfterPage(e, items, cursor.seq, limit) = [EntriesPage(e, items, "after", <<>>) EXCEPT !.gap = TRUE]
      BY <2>1 DEF AfterPage
    <3>. QED
      BY <1>2, <3>1 DEF EntriesPage, PageOf
  <2>2. CASE cursor.seq = Len(items)
    <3>1. AfterPage(e, items, cursor.seq, limit) = EntriesPage(e, items, "after", <<>>)
      BY <2>2 DEF AfterPage
    <3>. QED
      BY <1>2, <1>5, <3>1
  <2>3. CASE cursor.seq < Len(items)
    <3>. DEFINE last == IF cursor.seq + limit < Len(items) THEN cursor.seq + limit ELSE Len(items)
                part == SubSeq(items, 1, last)
                prefix == Projection(e, part)
                entries == Only(prefix, {c \in ToSet(prefix) : c.end > cursor.seq})
    <3>1. last \in 0..MaxRows /\ last \in 1 - 1..Len(items)
      BY <2>3, Constants
    <3>. HIDE DEF last
    <3>2. part \in Seq(ItemKinds) /\ Len(part) <= MaxRows
      <4>1. 1 \in 1..Len(items) + 1
        OBVIOUS
      <4>2. part \in Seq(ItemKinds) /\ Len(part) = last - 1 + 1
        BY <3>1, <4>1, SubSeqIs
      <4>. QED
        BY <3>1, <4>2, Constants
    <3>. HIDE DEF part
    <3>3. prefix \in Seq(EntryType) /\ ShowsOnly(e, prefix)
      BY <3>2, ProjectionType, ProjectionShows
    <3>. HIDE DEF prefix
    <3>4. ToSet(entries) \subseteq ToSet(prefix)
      BY <3>3, OnlySet
    <3>. HIDE DEF entries
    <3>5. AfterPage(e, items, cursor.seq, limit) = PageOf(e, items, "after", entries, cursor.seq + 1, last)
      BY <2>3 DEF AfterPage, entries, prefix, part, last
    <3>6. ShowsOnly(e, entries)
      BY <3>3, <3>4, PartShows
    <3>. QED
      BY <3>5, <3>6 DEF PageOf
  <2>. QED
    BY <2>1, <2>2, <2>3
<1>7. /\ [EntriesPage(e, items, direction, <<>>) EXCEPT !.reset = TRUE].epoch = e
      /\ [EntriesPage(e, items, direction, <<>>) EXCEPT !.reset = TRUE].direction = direction
      /\ [EntriesPage(e, items, direction, <<>>) EXCEPT !.reset = TRUE].reset = TRUE
      /\ [EntriesPage(e, items, direction, <<>>) EXCEPT !.reset = TRUE].entries = <<>>
  BY DEF EntriesPage, PageOf
<1>8. CASE direction = "tail"
  BY <1>3, <1>8 DEF Page
<1>9. CASE direction # "tail" /\ cursor.epoch # e
  <2>1. Page(e, items, direction, cursor, limit) = [EntriesPage(e, items, direction, <<>>) EXCEPT !.reset = TRUE]
    BY <1>9 DEF Page
  <2>. QED
    BY <1>2, <1>7, <1>9, <2>1
<1>10. CASE direction = "before" /\ cursor.epoch = e
  BY <1>4, <1>10 DEF Page
<1>11. CASE direction = "after" /\ cursor.epoch = e
  BY <1>6, <1>11 DEF Page
<1>. QED
  BY <1>8, <1>9, <1>10, <1>11


-----------------------------------------------------------------------------
(* Content: which rows of an epoch belong to one entry.  A leader is a row *)
(* that begins an entry of the Relay's projection.                         *)

Update(items, s) == items[s] = "tool" /\ \E r \in 1..s - 1 : items[r] = "tool"
Continues(items, s) ==
    /\ items[s] = "text"
    /\ \E r \in 1..s - 1 : items[r] = "text" /\ \A k \in r + 1..s - 1 : Update(items, k)
Leader(items, s) == ~Update(items, s) /\ ~Continues(items, s)

\* Row s belongs to an entry that holds row q, if it begins no later than q.
Joins(items, q, s) ==
    /\ q <= s
    /\ \/ q = s
       \/ items[q] = "tool" /\ items[s] = "tool"
       \/ items[q] = "text" /\ items[s] = "text" /\ \A r \in q + 1..s : ~Leader(items, r)

LEMMA JoinsBack ==
    ASSUME NEW items, NEW q \in Nat \ {0}, NEW p \in Nat \ {0}, NEW s \in Nat, Leader(items, q), Joins(items, q, s), Joins(items, p, s)
    PROVE  Joins(items, q, p)
<1>1. ASSUME p < q PROVE FALSE
  <2>1. p # s /\ q <= s /\ p \in 1..q - 1 /\ q \in p + 1..s
    BY <1>1 DEF Joins
  <2>2. CASE items[p] = "tool" /\ items[s] = "tool"
    <3>1. items[q] = "tool"
      BY <2>2 DEF Joins
    <3>. QED
      BY <2>1, <2>2, <3>1 DEF Leader, Update
  <2>3. CASE items[p] = "text" /\ \A r \in p + 1..s : ~Leader(items, r)
    BY <2>1, <2>3
  <2>. QED
    BY <2>1, <2>2, <2>3 DEF Joins
<1>2. q <= p /\ p <= s
  BY <1>1 DEF Joins
<1>3. CASE q = p
  BY <1>3 DEF Joins
<1>4. CASE q # p
  <2>1. q # s /\ \A r \in q + 1..p : r \in q + 1..s
    BY <1>2, <1>4
  <2>2. CASE items[q] = "tool" /\ items[s] = "tool"
    BY <1>2, <2>2 DEF Joins
  <2>3. CASE items[q] = "text" /\ items[s] = "text" /\ \A r \in q + 1..s : ~Leader(items, r)
    BY <1>2, <2>1, <2>3 DEF Joins
  <2>. QED
    BY <2>1, <2>2, <2>3 DEF Joins
<1>. QED
  BY <1>3, <1>4

LEMMA JoinsOn ==
    ASSUME NEW items, NEW q \in Nat, NEW p \in Nat, NEW s \in Nat, Joins(items, q, p), Joins(items, p, s)
    PROVE  Joins(items, q, s)
<1>1. q <= p /\ p <= s /\ q <= s /\ \A r \in q + 1..s : r \in q + 1..p \/ r \in p + 1..s
  BY DEF Joins
<1>. QED
  BY <1>1 DEF Joins

LEMMA JoinsBetween ==
    ASSUME NEW items, NEW q \in Nat, NEW s \in Nat, NEW t \in Nat, Joins(items, q, s), Joins(items, q, t), s <= t
    PROVE  Joins(items, s, t)
<1>1. \A r \in s + 1..t : r \in q + 1..t
  BY DEF Joins
<1>. QED
  BY <1>1 DEF Joins

LEMMA LeadersApart ==
    ASSUME NEW items, NEW q \in Nat \ {0}, NEW p \in Nat \ {0}, Leader(items, p), Joins(items, q, p)
    PROVE  p = q
<1>. SUFFICES ASSUME p # q PROVE FALSE
  OBVIOUS
<1>1. q \in 1..p - 1 /\ p \in q + 1..p
  BY DEF Joins
<1>. QED
  BY <1>1 DEF Joins, Leader, Update

LEMMA ItemOf ==
    ASSUME NEW items, NEW q \in Nat, NEW s \in Nat, Joins(items, q, s)
    PROVE  items[s] = items[q]
BY DEF Joins

LEMMA TextRun ==
    ASSUME NEW items, NEW p \in Nat \ {0}, NEW t \in Nat, p < t, items[p] = "text", items[t] = "text",
           \A r \in p + 1..t - 1 : ~Leader(items, r)
    PROVE  ~Leader(items, t)
<1>. DEFINE S == {r \in p..t - 1 : items[r] = "text"}
<1>1. p \in S /\ S \subseteq p..t - 1
  OBVIOUS
<1>. HIDE DEF S
<1>2. Bounded(S, t - 1)
  BY <1>1 DEF Bounded
<1>3. Max(S) \in S /\ \A s \in S : s <= Max(S)
  BY <1>2, MaxIs
<1>. DEFINE m == Max(S)
<1>4. m \in p..t - 1 /\ items[m] = "text" /\ \A s \in S : s <= m
  BY <1>3 DEF S
<1>. HIDE DEF m
<1>5. ASSUME NEW k \in m + 1..t - 1 PROVE Update(items, k)
  <2>1. k \in p + 1..t - 1 /\ k \in p..t - 1 /\ ~(k <= m)
    BY <1>4
  <2>2. items[k] # "text"
    BY <1>4, <2>1 DEF S
  <2>. QED
    BY <2>1, <2>2 DEF Leader, Continues
<1>6. m \in 1..t - 1
  BY <1>4
<1>. QED
  BY <1>4, <1>5, <1>6 DEF Leader, Continues

LEMMA FirstLeader == ASSUME NEW items PROVE Leader(items, 1)
BY DEF Leader, Update, Continues

\* The last leader before a row.
LEMMA LastLeader ==
    ASSUME NEW items, NEW t \in Nat, 1 < t
    PROVE  \E q \in 1..t - 1 : Leader(items, q) /\ \A r \in q + 1..t - 1 : ~Leader(items, r)
<1>. DEFINE S == {r \in 1..t - 1 : Leader(items, r)}
<1>1. 1 \in S /\ S \subseteq 1..t - 1
  BY FirstLeader
<1>2. \A r \in 1..t - 1 : Leader(items, r) => r \in S
  OBVIOUS
<1>2a. \A r \in S : Leader(items, r)
  OBVIOUS
<1>. HIDE DEF S
<1>3. Bounded(S, t - 1)
  BY <1>1 DEF Bounded
<1>4. Max(S) \in S /\ \A s \in S : s <= Max(S)
  BY <1>3, MaxIs
<1>. DEFINE m == Max(S)
<1>5. m \in 1..t - 1 /\ Leader(items, m) /\ \A s \in S : s <= m
  BY <1>1, <1>2a, <1>4
<1>. HIDE DEF m
<1>6. ASSUME NEW r \in m + 1..t - 1 PROVE ~Leader(items, r)
  <2>1. r \in 1..t - 1 /\ ~(r <= m)
    BY <1>5
  <2>. QED
    BY <1>2, <1>5, <2>1
<1>. QED
  BY <1>5, <1>6

LEMMA FirstTool ==
    ASSUME NEW items, NEW s \in Nat \ {0}, items[s] = "tool"
    PROVE  \E q \in 1..s : items[q] = "tool" /\ Leader(items, q) /\ \A r \in 1..q - 1 : items[r] # "tool"
<1>. DEFINE S == {r \in 1..s : items[r] = "tool"}
<1>1. s \in S /\ S \subseteq Nat
  OBVIOUS
<1>2. PICK q \in S : \A m \in S : q <= m
  BY <1>1, LeastNumber, Zenon
<1>3. q \in 1..s /\ items[q] = "tool"
  OBVIOUS
<1>4. ASSUME NEW r \in 1..q - 1 PROVE items[r] # "tool"
  <2>1. r \in 1..s /\ ~(q <= r)
    BY <1>3
  <2>. QED
    BY <1>2, <2>1
<1>. QED
  BY <1>3, <1>4 DEF Leader, Update, Continues

\* Continued text continues the last leader's text.
LEMMA ContinuedText ==
    ASSUME NEW items, NEW t \in Nat \ {0}, Continues(items, t), NEW q \in 1..t - 1, Leader(items, q),
           \A r \in q + 1..t - 1 : ~Leader(items, r)
    PROVE  items[q] = "text"
<1>. SUFFICES ASSUME items[q] # "text" PROVE FALSE
  OBVIOUS
<1>. DEFINE S == {s \in q + 1..t : Continues(items, s)}
<1>1. t \in S /\ S \subseteq Nat
  OBVIOUS
<1>2. PICK s \in S : \A m \in S : s <= m
  BY <1>1, LeastNumber, Zenon
<1>3. s \in q + 1..t /\ Continues(items, s)
  OBVIOUS
<1>4. PICK r \in 1..s - 1 : items[r] = "text" /\ \A k \in r + 1..s - 1 : Update(items, k)
  BY <1>3 DEF Continues
<1>5. r >= q
  <2>. SUFFICES ASSUME r < q PROVE FALSE
    BY <1>3, <1>4
  <2>1. q \in r + 1..s - 1
    BY <1>3, <1>4
  <2>. QED
    BY <1>4, <2>1 DEF Leader
<1>6. r # q
  BY <1>4
<1>7. r \in q + 1..t - 1 /\ r \in q + 1..t /\ ~(s <= r)
  BY <1>3, <1>4, <1>5, <1>6
<1>8. Continues(items, r)
  BY <1>4, <1>7 DEF Leader, Update
<1>. QED
  BY <1>2, <1>7, <1>8

\* What depends on the first rows only.
Prefix(a, b) == Len(a) \in Nat /\ Len(b) \in Nat /\ Len(a) <= Len(b) /\ \A i \in 1..Len(a) : a[i] = b[i]

LEMMA PrefixLeader ==
    ASSUME NEW a, NEW b, Prefix(a, b)
    PROVE  /\ \A s \in 1..Len(a) : Leader(a, s) <=> Leader(b, s)
           /\ \A q \in 1..Len(a), s \in 1..Len(a) : Joins(a, q, s) <=> Joins(b, q, s)
<1>1. \A s \in 1..Len(a) : Update(a, s) <=> Update(b, s)
  <2>. TAKE s \in 1..Len(a)
  <2>1. \A r \in 1..s - 1 : r \in 1..Len(a)
    BY DEF Prefix
  <2>. QED
    BY <2>1 DEF Update, Prefix
<1>2. \A s \in 1..Len(a) : Continues(a, s) <=> Continues(b, s)
  <2>. TAKE s \in 1..Len(a)
  <2>1. \A r \in 1..s - 1 : r \in 1..Len(a) /\ \A k \in r + 1..s - 1 : k \in 1..Len(a)
    BY DEF Prefix
  <2>2. \A r \in 1..s - 1 : (\A k \in r + 1..s - 1 : Update(a, k)) <=> (\A k \in r + 1..s - 1 : Update(b, k))
    BY <1>1, <2>1
  <2>3. \A r \in 1..s - 1 : a[r] = b[r]
    BY <2>1 DEF Prefix
  <2>4. a[s] = b[s]
    BY DEF Prefix
  <2>. QED
    BY <2>2, <2>3, <2>4 DEF Continues
<1>3. \A s \in 1..Len(a) : Leader(a, s) <=> Leader(b, s)
  BY <1>1, <1>2 DEF Leader
<1>4. \A q \in 1..Len(a), s \in 1..Len(a) : Joins(a, q, s) <=> Joins(b, q, s)
  <2>. TAKE q \in 1..Len(a), s \in 1..Len(a)
  <2>1. \A r \in q + 1..s : Leader(a, r) <=> Leader(b, r)
    <3>1. \A r \in q + 1..s : r \in 1..Len(a)
      BY DEF Prefix
    <3>. QED
      BY <1>3, <3>1
  <2>2. a[q] = b[q] /\ a[s] = b[s]
    BY DEF Prefix
  <2>. QED
    BY <2>1, <2>2 DEF Joins
<1>. QED
  BY <1>3, <1>4

-----------------------------------------------------------------------------
(* A list of entries sorted by start, as the set of its entries.           *)

LEMMA SortedFacts ==
    ASSUME NEW list \in Seq(EntryType), Sorted(list)
    PROVE  /\ \A c \in ToSet(list) : c \in EntryType
           /\ \A c, d \in ToSet(list) : c.start = d.start => c = d
           /\ list # <<>> <=> ToSet(list) # {}
           /\ list # <<>> => /\ list[1] \in ToSet(list)
                             /\ \A d \in ToSet(list) : list[1].start <= d.start
                             /\ list[Len(list)] \in ToSet(list)
                             /\ \A d \in ToSet(list) : d.start <= list[Len(list)].start
<1>1. /\ Len(list) \in Nat /\ DOMAIN list = 1..Len(list)
      /\ list # <<>> => 1 \in 1..Len(list) /\ Len(list) \in 1..Len(list)
      /\ \A i \in 1..Len(list) : list[i] \in EntryType /\ list[i].start \in Int
      /\ list = <<>> => 1..Len(list) = {}
      /\ \A i \in 1..Len(list) : list # <<>>
  BY EntryFields
<1>1a. \A i \in 1..Len(list) : (i = 1 \/ 1 < i) /\ (i = Len(list) \/ i < Len(list))
  BY Len(list) \in Nat
<1>2. \A c \in ToSet(list) : \E i \in 1..Len(list) : c = list[i]
  BY <1>1 DEF ToSet
<1>3. \A i \in 1..Len(list) : list[i] \in ToSet(list)
  BY <1>1 DEF ToSet
<1>4. ASSUME NEW i \in 1..Len(list), NEW j \in 1..Len(list), i < j PROVE list[i].start < list[j].start
  BY <1>1, <1>4 DEF Sorted
<1>5. ASSUME NEW c \in ToSet(list), NEW d \in ToSet(list), c.start = d.start PROVE c = d
  <2>1. PICK i \in 1..Len(list) : c = list[i]
    BY <1>2
  <2>2. PICK j \in 1..Len(list) : d = list[j]
    BY <1>2
  <2>3. i < j \/ i = j \/ j < i
    BY <1>1
  <2>. QED
    BY <1>1, <1>4, <1>5, <2>1, <2>2, <2>3
<1>6. ASSUME list # <<>>, NEW d \in ToSet(list) PROVE list[1].start <= d.start /\ d.start <= list[Len(list)].start
  <2>1. PICK i \in 1..Len(list) : d = list[i]
    BY <1>2
  <2>2. i = 1 \/ 1 < i
    BY <1>1a
  <2>3. i = Len(list) \/ i < Len(list)
    BY <1>1a
  <2>4. /\ 1 \in 1..Len(list) /\ Len(list) \in 1..Len(list)
        /\ list[1].start \in Int /\ list[i].start \in Int /\ list[Len(list)].start \in Int
    BY <1>1, <1>6
  <2>5. list[1].start <= list[i].start
    BY <1>4, <2>2, <2>4
  <2>6. list[i].start <= list[Len(list)].start
    BY <1>4, <2>3, <2>4
  <2>. QED
    BY <2>1, <2>5, <2>6
<1>. QED
  BY <1>1, <1>2, <1>3, <1>5, <1>6

LEMMA ReplacedSorted ==
    ASSUME NEW list \in Seq(EntryType), Sorted(list), NEW i \in 1..Len(list), NEW c \in EntryType, c.start = list[i].start
    PROVE  /\ Sorted([list EXCEPT ![i] = c])
           /\ ToSet([list EXCEPT ![i] = c]) = (ToSet(list) \ {list[i]}) \cup {c}
<1>. DEFINE new == [list EXCEPT ![i] = c]
<1>1. /\ DOMAIN new = 1..Len(list) /\ DOMAIN list = 1..Len(list)
      /\ new[i] = c
      /\ \A j \in 1..Len(list) : j # i => new[j] = list[j]
  BY ReplacedEntry
<1>. HIDE DEF new
<1>2. \A j \in 1..Len(list) : new[j].start = list[j].start
  BY <1>1
<1>3. Sorted(new)
  BY <1>1, <1>2 DEF Sorted
<1>4. \A j \in 1..Len(list) : j # i => list[j] # list[i]
  <2>1. \A j \in 1..Len(list) : list[j].start \in Int
    BY EntryFields
  <2>2. \A j \in 1..Len(list) : j # i => j < i \/ i < j
    OBVIOUS
  <2>. QED
    BY <1>1, <2>1, <2>2 DEF Sorted
<1>5. ToSet(new) = (ToSet(list) \ {list[i]}) \cup {c}
  BY <1>1, <1>4 DEF ToSet
<1>. QED
  BY <1>3, <1>5 DEF new

LEMMA ExtendedStart ==
    ASSUME NEW entry \in EntryType, NEW e \in 1..MaxEpochs, NEW seq \in 1..MaxRows, NEW item \in ItemKinds
    PROVE  Extended(entry, e, seq, item) \in EntryType /\ Extended(entry, e, seq, item).start = entry.start
<1>1. Extended(entry, e, seq, item) \in EntryType
  BY ExtendedIs
<1>2. Extended(entry, e, seq, item).start = entry.start
  BY DEF Extended, EntryType
<1>. QED
  BY <1>1, <1>2

\* The entry that a row of an item joins, among entries E.
Takes(E, item, c) ==
    /\ c \in E /\ c.item = item
    /\ \/ item = "text" /\ \A d \in E : d.start <= c.start
       \/ item = "tool" /\ \A d \in E : d.item = "tool" => c.start <= d.start

Grown(E, F, e, t, item) ==
    \/ (\A c \in E : ~Takes(E, item, c)) /\ F = E \cup {EntryOf(e, t, item)}
    \/ \E c \in E : Takes(E, item, c) /\ F = (E \ {c}) \cup {Extended(c, e, t, item)}

PlainKinds == {"note", "text", "tool"}

LEMMA JoinedTakes ==
    ASSUME NEW list \in Seq(EntryType), Sorted(list), NEW item \in PlainKinds
    PROVE  /\ Joined(list, item) \in 0..Len(list)
           /\ Joined(list, item) = 0 => \A c \in ToSet(list) : ~Takes(ToSet(list), item, c)
           /\ Joined(list, item) # 0 => list[Joined(list, item)] \in ToSet(list)
                                        /\ Takes(ToSet(list), item, list[Joined(list, item)])
<1>. DEFINE j == Joined(list, item)
            E == ToSet(list)
<1>1. /\ j \in 0..Len(list)
      /\ item = "text" => j = IF list # <<>> /\ list[Len(list)].item = "text" THEN Len(list) ELSE 0
      /\ item = "tool" => /\ j # 0 => list[j].item = "tool" /\ \A i \in 1..j - 1 : list[i].item # "tool"
                          /\ j = 0 => \A i \in 1..Len(list) : list[i].item # "tool"
      /\ item = "note" => j = 0
  BY JoinedIs
<1>2. /\ \A c \in E : c \in EntryType
      /\ \A c, d \in E : c.start = d.start => c = d
      /\ list # <<>> <=> E # {}
      /\ list # <<>> => /\ list[Len(list)] \in E
                        /\ \A d \in E : d.start <= list[Len(list)].start
  BY SortedFacts
<1>3. /\ DOMAIN list = 1..Len(list) /\ Len(list) \in Nat
      /\ \A c \in E : \E i \in 1..Len(list) : c = list[i]
      /\ \A i \in 1..Len(list) : list[i] \in E
  BY DEF ToSet
<1>4. \A c \in E : c.start \in Int
  BY <1>2, EntryFields
<1>. HIDE DEF j, E
<1>5. j # 0 => j \in 1..Len(list) /\ list[j] \in E
  <2>1. j \in 0..Len(list) /\ Len(list) \in Nat
    BY <1>1, <1>3
  <2>2. j # 0 => j \in 1..Len(list)
    BY <2>1
  <2>. QED
    BY <1>3, <2>2
<1>6. CASE item = "note"
  BY <1>1, <1>6 DEF Takes, E, j
<1>7. CASE item = "text"
  <2>1. ASSUME j = 0, NEW c \in E, Takes(E, item, c) PROVE FALSE
    <3>1. c.item = "text" /\ \A d \in E : d.start <= c.start
      BY <1>7, <2>1 DEF Takes
    <3>2. list # <<>> /\ list[Len(list)] \in E
      BY <1>2
    <3>3. c.start = list[Len(list)].start
      <4>1. c.start <= list[Len(list)].start /\ list[Len(list)].start <= c.start
        BY <1>2, <3>1, <3>2
      <4>. QED
        BY <1>4, <3>2, <4>1
    <3>4. list[Len(list)].item = "text"
      BY <1>2, <3>1, <3>2, <3>3
    <3>5. Len(list) # 0
      BY <3>2
    <3>. QED
      BY <1>1, <1>7, <2>1, <3>2, <3>4, <3>5
  <2>2. j # 0 => Takes(E, item, list[j])
    BY <1>1, <1>2, <1>5, <1>7 DEF Takes
  <2>. QED
    BY <1>1, <1>5, <2>1, <2>2 DEF E, j
<1>8. CASE item = "tool"
  <2>1. j = 0 => \A c \in E : ~Takes(E, item, c)
    BY <1>1, <1>3, <1>8 DEF Takes
  <2>2. ASSUME j # 0, NEW d \in E, d.item = "tool" PROVE list[j].start <= d.start
    <3>1. PICK i \in 1..Len(list) : d = list[i]
      BY <1>3
    <3>2. i \notin 1..j - 1
      BY <1>1, <1>8, <2>2, <3>1
    <3>3. i = j \/ j < i
      BY <1>5, <2>2, <3>2
    <3>4. list[j].start \in Int /\ list[i].start \in Int
      BY <1>4, <1>5, <2>2, <3>1
    <3>. QED
      BY <1>3, <1>5, <2>2, <3>1, <3>3, <3>4 DEF Sorted
  <2>3. j # 0 => Takes(E, item, list[j])
    BY <1>1, <1>5, <1>8, <2>2 DEF Takes
  <2>. QED
    BY <1>1, <1>5, <2>1, <2>3 DEF E, j
<1>. QED
  BY <1>6, <1>7, <1>8 DEF PlainKinds

LEMMA StepGrown ==
    ASSUME NEW e \in 1..MaxEpochs, NEW n \in 1..MaxRows, NEW item \in PlainKinds, NEW list \in Seq(EntryType),
           Sorted(list), \A c \in ToSet(list) : c.start < n
    PROVE  Sorted(Step(e, list, n, item)) /\ Grown(ToSet(list), ToSet(Step(e, list, n, item)), e, n, item)
<1>. DEFINE i == Joined(list, item)
            E == ToSet(list)
<1>0. item \in ItemKinds
  BY DEF PlainKinds, ItemKinds
<1>1. /\ i \in 0..Len(list)
      /\ i = 0 => \A c \in E : ~Takes(E, item, c)
      /\ i # 0 => list[i] \in E /\ Takes(E, item, list[i])
  BY JoinedTakes
<1>. HIDE DEF i
<1>2. CASE i = 0
  <2>. DEFINE c == EntryOf(e, n, item)
  <2>1. c \in EntryType /\ c.start = n
    BY <1>0, EntryOfType DEF EntryOf
  <2>2. Step(e, list, n, item) = Append(list, c)
    BY <1>2 DEF Step, i
  <2>. HIDE DEF c
  <2>3. ToSet(Append(list, c)) = E \cup {c}
    BY <2>1, AppendedSet
  <2>4. Sorted(Append(list, c))
    <3>1. /\ DOMAIN list = 1..Len(list) /\ Len(list) \in Nat
          /\ DOMAIN Append(list, c) = 1..Len(list) + 1
          /\ \A j \in 1..Len(list) : Append(list, c)[j] = list[j]
          /\ Append(list, c)[Len(list) + 1] = c
      BY <2>1
    <3>2. \A j \in 1..Len(list) : list[j] \in E
      BY <3>1 DEF ToSet
    <3>. HIDE DEF E
    <3>3. ASSUME NEW a \in 1..Len(list) + 1, NEW b \in 1..Len(list) + 1, a < b
          PROVE  Append(list, c)[a].start < Append(list, c)[b].start
      <4>1. a \in 1..Len(list)
        BY <3>1, <3>3
      <4>2. CASE b = Len(list) + 1
        BY <2>1, <3>1, <3>2, <4>1, <4>2 DEF E
      <4>3. CASE b \in 1..Len(list)
        BY <3>1, <3>3, <4>1, <4>3 DEF Sorted
      <4>. QED
        BY <3>1, <4>2, <4>3
    <3>. QED
      BY <3>1, <3>3 DEF Sorted
  <2>. QED
    BY <1>1, <1>2, <2>2, <2>3, <2>4 DEF Grown, c
<1>3. CASE i # 0
  <2>. DEFINE c == Extended(list[i], e, n, item)
  <2>1. i \in 1..Len(list) /\ list[i] \in EntryType
    BY <1>1, <1>3
  <2>2. c \in EntryType /\ c.start = list[i].start
    <3>1. \A d \in EntryType : Extended(d, e, n, item) \in EntryType /\ Extended(d, e, n, item).start = d.start
      BY <1>0, ExtendedStart, Zenon
    <3>. QED
      BY <2>1, <3>1
  <2>3. Step(e, list, n, item) = [list EXCEPT ![i] = c]
    BY <1>3 DEF Step, i
  <2>. HIDE DEF c
  <2>4. Sorted([list EXCEPT ![i] = c]) /\ ToSet([list EXCEPT ![i] = c]) = (E \ {list[i]}) \cup {c}
    BY <2>1, <2>2, ReplacedSorted
  <2>. QED
    BY <1>1, <1>3, <2>3, <2>4 DEF Grown, c
<1>. QED
  BY <1>2, <1>3

LEMMA CoalescedGrown ==
    ASSUME NEW list \in Seq(EntryType), Sorted(list), NEW m \in Row, m.item \in PlainKinds,
           (\A c \in ToSet(list) : ~Takes(ToSet(list), m.item, c)) => \A c \in ToSet(list) : c.start # m.seq
    PROVE  /\ Coalesced(list, m) \in Seq(EntryType)
           /\ Sorted(Coalesced(list, m))
           /\ Grown(ToSet(list), ToSet(Coalesced(list, m)), m.epoch, m.seq, m.item)
<1>. DEFINE i == Joined(list, m.item)
            E == ToSet(list)
<1>0. m.epoch \in 1..MaxEpochs /\ m.seq \in 1..MaxRows /\ m.item \in ItemKinds
  BY Constants DEF Row
<1>1. /\ i \in 0..Len(list)
      /\ i = 0 => \A c \in E : ~Takes(E, m.item, c)
      /\ i # 0 => list[i] \in E /\ Takes(E, m.item, list[i])
  BY JoinedTakes
<1>. HIDE DEF i
<1>2. CASE i = 0
  <2>. DEFINE c == EntryOf(m.epoch, m.seq, m.item)
  <2>1. c \in EntryType /\ c.start = m.seq
    BY <1>0, EntryOfType DEF EntryOf
  <2>2. Coalesced(list, m) = Inserted(list, c)
    BY <1>2 DEF Coalesced, i
  <2>. HIDE DEF c
  <2>3. Inserted(list, c) \in Seq(EntryType) /\ ToSet(Inserted(list, c)) = E \cup {c}
    BY <2>1, InsertedSet
  <2>4. Sorted(Inserted(list, c))
    <3>1. \A d \in EntryType : d.start \in Int
      BY EntryFields
    <3>2. \A j \in DOMAIN list : list[j].start # c.start
      BY <1>1, <1>2, <2>1 DEF ToSet
    <3>. QED
      BY <2>1, <3>1, <3>2, InsertedSorted
  <2>. QED
    BY <1>1, <1>2, <2>2, <2>3, <2>4 DEF Grown, c
<1>3. CASE i # 0
  <2>. DEFINE c == Extended(list[i], m.epoch, m.seq, m.item)
  <2>1. i \in 1..Len(list) /\ list[i] \in EntryType
    BY <1>1, <1>3
  <2>2. c \in EntryType /\ c.start = list[i].start
    <3>0. m.epoch \in 1..MaxEpochs /\ m.seq \in 1..MaxRows /\ m.item \in ItemKinds
      BY <1>0
    <3>1. \A d \in EntryType : Extended(d, m.epoch, m.seq, m.item) \in EntryType /\ Extended(d, m.epoch, m.seq, m.item).start = d.start
      BY <1>0, ExtendedStart, Zenon
    <3>. QED
      BY <2>1, <3>1
  <2>3. Coalesced(list, m) = [list EXCEPT ![i] = c]
    BY <1>3 DEF Coalesced, i
  <2>. HIDE DEF c
  <2>4. Sorted([list EXCEPT ![i] = c]) /\ ToSet([list EXCEPT ![i] = c]) = (E \ {list[i]}) \cup {c}
    <3>1. Sorted([list EXCEPT ![i] = c])
      BY <2>1, <2>2, ReplacedSorted
    <3>2. ToSet([list EXCEPT ![i] = c]) = (ToSet(list) \ {list[i]}) \cup {c}
      BY <2>1, <2>2, ReplacedSorted
    <3>. QED
      BY <3>1, <3>2
  <2>5. [list EXCEPT ![i] = c] \in Seq(EntryType)
    BY <2>1, <2>2
  <2>. QED
    BY <1>1, <1>3, <2>3, <2>4, <2>5 DEF Grown, c
<1>. QED
  BY <1>2, <1>3

\* An entry that holds rows of one entry of the projection, and shows them in order.
Fits(items, c) ==
    /\ c.rows \subseteq 1..Len(items) /\ c.start \in c.rows /\ c.end \in c.rows
    /\ \A s \in c.rows : s <= c.end /\ Joins(items, c.start, s)
    /\ c.item = items[c.start]
    /\ \A j \in DOMAIN c.shown : c.shown[j][2] \in c.rows
    /\ \A j, k \in DOMAIN c.shown : j < k => c.shown[j][2] < c.shown[k][2]

\* It is what the projection of the first n rows has.
Full(items, n, c) ==
    /\ Leader(items, c.start)
    /\ c.rows = {s \in c.start..n : Joins(items, c.start, s)}

Listed(items, n, E) == \A c \in E : Fits(items, c) /\ Full(items, n, c)
Complete(items, n, E) == \A q \in 1..n : Leader(items, q) => \E c \in E : c.start = q
Distinct(E) == E \subseteq EntryType /\ \A c, d \in E : c.start = d.start => c = d

LEMMA FitsFields ==
    ASSUME NEW items, Len(items) \in Nat, NEW c, Fits(items, c)
    PROVE  /\ c.start \in 1..Len(items) /\ c.end \in 1..Len(items) /\ c.start \in Nat \ {0} /\ c.end \in Nat
           /\ \A s \in c.rows : /\ s \in 1..Len(items) /\ s \in Nat /\ c.start <= s /\ s <= c.end
                                /\ Joins(items, c.start, s) /\ items[s] = c.item
<1>1. c.start \in 1..Len(items) /\ c.end \in 1..Len(items)
  BY DEF Fits
<1>2. \A s \in c.rows : s \in 1..Len(items)
  BY DEF Fits
<1>3. ASSUME NEW s \in c.rows PROVE s <= c.end /\ Joins(items, c.start, s) /\ items[s] = c.item
  <2>1. s <= c.end /\ Joins(items, c.start, s) /\ c.item = items[c.start]
    BY <1>3 DEF Fits
  <2>. QED
    BY <1>1, <1>2, <2>1, ItemOf
<1>4. \A s \in c.rows : c.start <= s
  BY <1>3 DEF Joins
<1>. QED
  BY <1>1, <1>2, <1>3, <1>4

LEMMA NewFits ==
    ASSUME NEW items, Len(items) \in Nat, NEW e, NEW t \in 1..Len(items), NEW item, items[t] = item
    PROVE  /\ Fits(items, EntryOf(e, t, item))
           /\ EntryOf(e, t, item).start = t /\ EntryOf(e, t, item).end = t
           /\ EntryOf(e, t, item).rows = {t} /\ EntryOf(e, t, item).item = item
<1>. DEFINE c == EntryOf(e, t, item)
<1>1. c.start = t /\ c.end = t /\ c.rows = {t} /\ c.item = item /\ c.shown = <<(<<e, t>>)>>
  BY DEF EntryOf
<1>2. DOMAIN c.shown = {1} /\ c.shown[1][2] = t
  BY <1>1
<1>3. Joins(items, t, t) /\ t <= t
  BY DEF Joins
<1>. HIDE DEF c
<1>. QED
  BY <1>1, <1>2, <1>3 DEF Fits, c

LEMMA ExtendedFits ==
    ASSUME NEW items, Len(items) \in Nat, NEW e \in 1..MaxEpochs, NEW t \in 1..Len(items), t \in 1..MaxRows,
           NEW item \in ItemKinds, items[t] = item, NEW c \in EntryType, Fits(items, c), c.item = item,
           Joins(items, c.start, t),
           item = "text" => \A s \in c.rows : s < t
    PROVE  /\ Fits(items, Extended(c, e, t, item))
           /\ Extended(c, e, t, item).start = c.start /\ Extended(c, e, t, item).item = c.item
           /\ Extended(c, e, t, item).rows = c.rows \cup {t}
           /\ c.end <= Extended(c, e, t, item).end
<1>. DEFINE x == Extended(c, e, t, item)
            D == (1..MaxEpochs) \X (1..MaxRows)
            p == <<e, t>>
<1>1. /\ x.item = item /\ x.start = c.start /\ x.rows = c.rows \cup {t}
      /\ x.end = (IF c.end <= t THEN t ELSE c.end)
      /\ x.shown = IF item = "text" THEN Append(c.shown, p) ELSE <<p>>
  BY ExtendedIs
<1>2. c.shown \in Seq(D) /\ p[2] = t
  BY EntryFields
<1>. HIDE DEF x, D, p
<1>3. /\ c.start \in 1..Len(items) /\ c.end \in 1..Len(items)
      /\ \A s \in c.rows : s \in 1..Len(items) /\ s <= c.end /\ Joins(items, c.start, s)
  BY FitsFields
<1>4. x.end \in x.rows /\ \A s \in x.rows : s <= x.end
  BY <1>1, <1>3 DEF Fits
<1>5. \A s \in x.rows : Joins(items, x.start, s)
  BY <1>1, <1>3
<1>6. (\A j \in DOMAIN x.shown : x.shown[j][2] \in x.rows) /\ (\A j, k \in DOMAIN x.shown : j < k => x.shown[j][2] < x.shown[k][2])
  <2>1. CASE item = "text"
    <3>1. /\ DOMAIN x.shown = 1..Len(c.shown) + 1 /\ DOMAIN c.shown = 1..Len(c.shown) /\ Len(c.shown) \in Nat
          /\ \A j \in 1..Len(c.shown) : x.shown[j] = c.shown[j]
          /\ x.shown[Len(c.shown) + 1] = p
      BY <1>1, <1>2, <2>1
    <3>. DEFINE n == Len(c.shown)
    <3>. HIDE DEF n
    <3>2. \A j \in 1..n : c.shown[j][2] \in c.rows /\ c.shown[j][2] < t
      BY <2>1, <3>1 DEF Fits, n
    <3>3. \A j, k \in 1..n : j < k => c.shown[j][2] < c.shown[k][2]
      BY <3>1 DEF Fits, n
    <3>4. ASSUME NEW j \in 1..n + 1 PROVE x.shown[j][2] \in x.rows
      <4>1. j = n + 1 \/ j \in 1..n
        BY <3>1 DEF n
      <4>. QED
        BY <1>1, <1>2, <3>1, <3>2, <4>1 DEF n
    <3>5. ASSUME NEW j \in 1..n + 1, NEW k \in 1..n + 1, j < k PROVE x.shown[j][2] < x.shown[k][2]
      <4>1. j \in 1..n /\ (k = n + 1 \/ k \in 1..n)
        BY <3>1, <3>5 DEF n
      <4>2. CASE k = n + 1
        BY <1>2, <3>1, <3>2, <4>1, <4>2 DEF n
      <4>3. CASE k \in 1..n
        BY <3>1, <3>3, <3>5, <4>1, <4>3 DEF n
      <4>. QED
        BY <4>1, <4>2, <4>3
    <3>. QED
      BY <3>1, <3>4, <3>5 DEF n
  <2>2. CASE item # "text"
    <3>1. DOMAIN x.shown = {1} /\ x.shown[1] = p
      BY <1>1, <2>2
    <3>. QED
      BY <1>1, <1>2, <3>1
  <2>. QED
    BY <2>1, <2>2
<1>7. x.rows \subseteq 1..Len(items) /\ x.start \in x.rows
  BY <1>1, <1>3 DEF Fits
<1>8. x.item = items[x.start]
  BY <1>1 DEF Fits
<1>9. c.end <= x.end
  BY <1>1, <1>3
<1>. QED
  BY <1>1, <1>4, <1>5, <1>6, <1>7, <1>8, <1>9 DEF Fits, x

\* One more row keeps a projection what it is.
LEMMA GrownListed ==
    ASSUME NEW items, Len(items) \in Nat, Len(items) <= MaxRows, NEW e \in 1..MaxEpochs, NEW n \in Nat, n + 1 \in 1..Len(items),
           items[n + 1] \in PlainKinds, NEW E, NEW F, Distinct(E),
           Listed(items, n, E), Complete(items, n, E), Grown(E, F, e, n + 1, items[n + 1])
    PROVE  Listed(items, n + 1, F) /\ Complete(items, n + 1, F)
<1>. DEFINE t == n + 1
            item == items[t]
<1>0. /\ t \in 1..Len(items) /\ t \in Nat \ {0} /\ t \in 1..MaxRows /\ item \in PlainKinds /\ item \in ItemKinds
      /\ \A s \in 1..n : s < t /\ s # t /\ s \in 1..t
      /\ t - 1 = n
      /\ \A s, r \in Nat : s \in r..t <=> (s \in r..n \/ (s = t /\ r <= t))
  BY Constants DEF PlainKinds, ItemKinds
<1>1. ASSUME NEW c \in E
      PROVE  /\ c.start \in 1..n /\ Leader(items, c.start) /\ c.item = items[c.start] /\ Fits(items, c)
             /\ c.rows = {s \in c.start..n : Joins(items, c.start, s)}
             /\ \A s \in c.rows : s < t
             /\ c \in EntryType
  <2>1. Fits(items, c) /\ Full(items, n, c) /\ c \in EntryType
    BY <1>1 DEF Listed, Distinct
  <2>2. c.start \in 1..Len(items)
    BY <2>1, FitsFields
  <2>3. c.start \in c.start..n /\ c.rows \subseteq c.start..n
    BY <2>1 DEF Full, Fits
  <2>. QED
    BY <1>0, <2>1, <2>2, <2>3 DEF Full, Fits
<1>2. ASSUME NEW q \in 1..n, Leader(items, q) PROVE \E c \in E : c.start = q
  BY <1>2 DEF Complete
<1>. HIDE DEF t, item
<1>3. CASE (\A c \in E : ~Takes(E, item, c)) /\ F = E \cup {EntryOf(e, t, item)}
  <2>. DEFINE x == EntryOf(e, t, item)
  <2>1. Fits(items, x) /\ x.start = t /\ x.rows = {t} /\ x.item = item
    <3>1. items[t] = item
      BY DEF item
    <3>2. t \in 1..Len(items) /\ Len(items) \in Nat
      BY <1>0
    <3>3. Fits(items, EntryOf(e, t, item))
      BY <3>1, <3>2, NewFits
    <3>. QED
      BY <3>3 DEF EntryOf
  <2>2. Leader(items, t)
    <3>1. ASSUME Update(items, t) PROVE FALSE
      <4>1. PICK s \in 1..t - 1 : items[s] = "tool"
        BY <3>1 DEF Update
      <4>2. s \in 1..n
        BY <1>0, <4>1
      <4>3. PICK q \in 1..s : items[q] = "tool" /\ Leader(items, q) /\ \A r \in 1..q - 1 : items[r] # "tool"
        BY <4>1, <4>2, FirstTool
      <4>4. q \in 1..n
        BY <4>2
      <4>5. PICK c \in E : c.start = q
        BY <1>2, <4>3, <4>4
      <4>6. c.item = "tool" /\ item = "tool"
        BY <1>1, <3>1, <4>3, <4>5 DEF Update, item
      <4>7. ASSUME NEW d \in E, d.item = "tool" PROVE c.start <= d.start
        <5>1. d.start \in 1..n /\ items[d.start] = "tool"
          BY <1>1, <4>7
        <5>2. d.start \notin 1..q - 1
          BY <4>3, <5>1
        <5>. QED
          BY <4>4, <4>5, <5>1, <5>2
      <4>. QED
        BY <1>3, <4>6, <4>7 DEF Takes
    <3>2. ASSUME Continues(items, t) PROVE FALSE
      <4>1. 1 < t /\ item = "text"
        BY <1>0, <3>2 DEF Continues, item
      <4>2. PICK q \in 1..t - 1 : Leader(items, q) /\ \A r \in q + 1..t - 1 : ~Leader(items, r)
        BY <1>0, <4>1, LastLeader
      <4>3. items[q] = "text"
        BY <1>0, <3>2, <4>2, ContinuedText
      <4>4. PICK c \in E : c.start = q
        BY <1>0, <1>2, <4>2
      <4>5. ASSUME NEW d \in E PROVE d.start <= c.start
        <5>1. d.start \in 1..n /\ Leader(items, d.start)
          BY <1>1
        <5>2. d.start \notin q + 1..t - 1
          BY <4>2, <5>1
        <5>. QED
          BY <1>0, <4>2, <4>4, <5>1, <5>2
      <4>6. c.item = "text"
        BY <1>1, <4>3, <4>4
      <4>. QED
        BY <1>3, <4>1, <4>5, <4>6 DEF Takes
    <3>. QED
      BY <3>1, <3>2 DEF Leader
  <2>3. Full(items, t, x)
    <3>1. {t} = {s \in t..t : Joins(items, t, s)}
      BY <1>0 DEF Joins
    <3>. QED
      BY <2>1, <2>2, <3>1 DEF Full
  <2>4. ASSUME NEW c \in E PROVE Full(items, t, c)
    <3>1. ~Joins(items, c.start, t)
      <4>1. c.start \in Nat \ {0} /\ c.start # t
        BY <1>0, <1>1
      <4>. QED
        BY <1>0, <2>2, <4>1, LeadersApart
    <3>2. c.start \in Nat /\ c.rows = {s \in c.start..n : Joins(items, c.start, s)}
      BY <1>1
    <3>3. {s \in c.start..n : Joins(items, c.start, s)} = {s \in c.start..t : Joins(items, c.start, s)}
      BY <1>0, <3>1, <3>2
    <3>. QED
      BY <1>1, <3>2, <3>3 DEF Full
  <2>5. Listed(items, t, F)
    BY <1>1, <1>3, <2>1, <2>3, <2>4 DEF Listed
  <2>6. Complete(items, t, F)
    <3>1. ASSUME NEW q \in 1..t, Leader(items, q) PROVE \E c \in F : c.start = q
      <4>1. q = t \/ q \in 1..n
        BY <1>0
      <4>. QED
        BY <1>2, <1>3, <2>1, <3>1, <4>1
    <3>. QED
      BY <3>1 DEF Complete
  <2>. QED
    BY <2>5, <2>6 DEF t
<1>4. ASSUME NEW c \in E, Takes(E, item, c), F = (E \ {c}) \cup {Extended(c, e, t, item)}
      PROVE  Listed(items, n + 1, F) /\ Complete(items, n + 1, F)
  <2>. DEFINE x == Extended(c, e, t, item)
  <2>0. c.item = item /\ c.start \in 1..n /\ items[c.start] = item /\ Leader(items, c.start) /\ items[t] = item
        /\ item \in {"text", "tool"}
    BY <1>1, <1>4 DEF Takes, item
  <2>1. Joins(items, c.start, t)
    <3>1. CASE item = "tool"
      BY <1>0, <2>0, <3>1 DEF Joins
    <3>2. CASE item = "text"
      <4>1. \A d \in E : d.start <= c.start
        BY <1>4, <3>2 DEF Takes
      <4>2. \A r \in c.start + 1..t - 1 : ~Leader(items, r)
        <5>. SUFFICES ASSUME NEW r \in c.start + 1..t - 1, Leader(items, r) PROVE FALSE
          OBVIOUS
        <5>1. r \in 1..n /\ ~(r <= c.start)
          BY <1>0, <2>0
        <5>. QED
          BY <1>2, <4>1, <5>1
      <4>3. ~Leader(items, t)
        BY <1>0, <2>0, <3>2, <4>2, TextRun
      <4>4. \A r \in c.start + 1..t : ~Leader(items, r)
        BY <1>0, <2>0, <4>2, <4>3
      <4>. QED
        BY <1>0, <2>0, <3>2, <4>4 DEF Joins
    <3>. QED
      BY <2>0, <3>1, <3>2
  <2>2. ~Leader(items, t)
    <3>1. c.start \in Nat \ {0} /\ c.start # t
      BY <1>0, <2>0
    <3>. QED
      BY <1>0, <2>1, <3>1, LeadersApart
  <2>3. c \in EntryType /\ Fits(items, c) /\ (\A s \in c.rows : s < t)
    BY <1>1
  <2>4. Fits(items, x) /\ x.start = c.start /\ x.rows = c.rows \cup {t}
    BY <1>0, <2>0, <2>1, <2>3, ExtendedFits
  <2>. HIDE DEF x
  <2>5. Full(items, t, x)
    <3>1. c.start \in Nat /\ c.rows = {s \in c.start..n : Joins(items, c.start, s)}
      BY <1>1
    <3>2. c.rows \cup {t} = {s \in c.start..t : Joins(items, c.start, s)}
      BY <1>0, <2>0, <2>1, <3>1
    <3>. QED
      BY <2>0, <2>4, <3>2 DEF Full
  <2>6. ASSUME NEW d \in E, d # c PROVE Full(items, t, d)
    <3>1. ~Joins(items, d.start, t)
      <4>. SUFFICES ASSUME Joins(items, d.start, t) PROVE FALSE
        OBVIOUS
      <4>0. c.start \in Nat \ {0} /\ d.start \in Nat \ {0} /\ Leader(items, d.start) /\ t \in Nat
        BY <1>0, <1>1
      <4>1. Joins(items, d.start, c.start)
        BY <2>1, <4>0, JoinsBack
      <4>2. c.start = d.start
        BY <2>0, <4>0, <4>1, LeadersApart
      <4>. QED
        BY <2>6, <4>2 DEF Distinct
    <3>2. d.start \in Nat /\ d.rows = {s \in d.start..n : Joins(items, d.start, s)}
      BY <1>1
    <3>3. {s \in d.start..n : Joins(items, d.start, s)} = {s \in d.start..t : Joins(items, d.start, s)}
      BY <1>0, <3>1, <3>2
    <3>. QED
      BY <1>1, <3>2, <3>3 DEF Full
  <2>7. F = (E \ {c}) \cup {x}
    BY <1>4 DEF x
  <2>8. Listed(items, t, F)
    BY <1>1, <2>4, <2>5, <2>6, <2>7 DEF Listed
  <2>9. Complete(items, t, F)
    <3>1. ASSUME NEW q \in 1..t, Leader(items, q) PROVE \E d \in F : d.start = q
      <4>1. q \in 1..n
        BY <1>0, <2>2, <3>1
      <4>2. PICK d \in E : d.start = q
        BY <1>2, <3>1, <4>1
      <4>. QED
        BY <2>4, <2>7, <4>2
    <3>. QED
      BY <3>1 DEF Complete
  <2>. QED
    BY <2>8, <2>9 DEF t
<1>. QED
  BY <1>3, <1>4 DEF Grown, t, item

\* The projection is made of full entries, one for every leader.
Whole(e, items, n, list) ==
    /\ list \in Seq(EntryType) /\ Sorted(list)
    /\ Listed(items, n, ToSet(list)) /\ Complete(items, n, ToSet(list))

LEMMA WholeFacts ==
    ASSUME NEW e, NEW items, Len(items) \in Nat, NEW n \in 0..Len(items), NEW list, Whole(e, items, n, list)
    PROVE  /\ Distinct(ToSet(list)) /\ Starts(list) = {c.start : c \in ToSet(list)}
           /\ \A c \in ToSet(list) : /\ c \in EntryType /\ c.start \in 1..n /\ Leader(items, c.start)
                                     /\ \A s \in c.rows : s <= n
           /\ Starts(list) = {q \in 1..n : Leader(items, q)}
<1>1. \A c \in ToSet(list) : c \in EntryType /\ (\A d \in ToSet(list) : c.start = d.start => c = d)
  BY SortedFacts DEF Whole
<1>2. Starts(list) = {c.start : c \in ToSet(list)}
  BY DEF Starts, ToSet
<1>3. ASSUME NEW c \in ToSet(list)
      PROVE  /\ c \in EntryType /\ c.start \in 1..n /\ Leader(items, c.start)
             /\ \A s \in c.rows : s <= n
  <2>1. Fits(items, c) /\ Full(items, n, c)
    BY DEF Whole, Listed
  <2>2. c.start \in 1..Len(items)
    BY <2>1, FitsFields
  <2>3. c.start \in c.start..n /\ c.rows \subseteq c.start..n
    BY <2>1 DEF Full, Fits
  <2>. QED
    BY <1>1, <2>1, <2>2, <2>3 DEF Full
<1>4. \A q \in 1..n : Leader(items, q) => \E c \in ToSet(list) : c.start = q
  BY DEF Whole, Complete
<1>. QED
  BY <1>1, <1>2, <1>3, <1>4 DEF Distinct

LEMMA ProjectionWhole ==
    ASSUME NEW e \in 1..MaxEpochs, NEW items \in Seq(PlainKinds), Len(items) <= MaxRows
    PROVE  Whole(e, items, Len(items), Projection(e, items))
<1>0. items \in Seq(ItemKinds) /\ Len(items) \in Nat
  BY DEF PlainKinds, ItemKinds
<1>1. PICK list :
              /\ \A n \in 0..Len(items) : list[n] \in Seq(EntryType)
              /\ list[0] = <<>>
              /\ \A n \in 1..Len(items) : list[n] = Step(e, list[n - 1], n, items[n])
              /\ Projection(e, items) = list[Len(items)]
  BY <1>0, ProjectionSteps
<1>. DEFINE P == {n \in 0..Len(items) : Whole(e, items, n, list[n])}
<1>2. 0 \in P
  <2>1. ToSet(<<>>) = {} /\ Sorted(<<>>) /\ <<>> \in Seq(EntryType)
    BY DEF ToSet, Sorted
  <2>. QED
    BY <1>0, <1>1, <2>1 DEF Whole, Listed, Complete
<1>3. ASSUME NEW n \in 0..Len(items) - 1, n \in P PROVE n + 1 \in P
  <2>1. Whole(e, items, n, list[n])
    BY <1>3
  <2>2. n + 1 \in 1..Len(items) /\ n + 1 \in 1..MaxRows /\ n \in Nat /\ items[n + 1] \in PlainKinds /\ n \in 0..Len(items)
    BY <1>0, Constants
  <2>3. list[n + 1] = Step(e, list[n], n + 1, items[n + 1])
    <3>1. (n + 1) - 1 = n
      BY <2>2
    <3>. QED
      BY <1>1, <2>2, <3>1
  <2>4. list[n] \in Seq(EntryType) /\ list[n + 1] \in Seq(EntryType) /\ n + 1 \in 0..Len(items)
    BY <1>0, <1>1, <2>2
  <2>5. /\ Distinct(ToSet(list[n]))
        /\ \A c \in ToSet(list[n]) : c.start \in 1..n
    BY <1>0, <2>1, <2>2, WholeFacts
  <2>6. \A c \in ToSet(list[n]) : c.start < n + 1
    BY <2>2, <2>5
  <2>7. /\ Sorted(list[n + 1])
        /\ Grown(ToSet(list[n]), ToSet(list[n + 1]), e, n + 1, items[n + 1])
    BY <2>1, <2>2, <2>3, <2>4, <2>6, StepGrown DEF Whole
  <2>8. Listed(items, n + 1, ToSet(list[n + 1])) /\ Complete(items, n + 1, ToSet(list[n + 1]))
    BY <1>0, <2>1, <2>2, <2>5, <2>7, GrownListed DEF Whole
  <2>. QED
    BY <2>4, <2>7, <2>8 DEF Whole
<1>. HIDE DEF P
<1>4. 0..Len(items) \subseteq P
  <2>1. 0 \in Int /\ Len(items) \in Int
    BY <1>0
  <2>2. \A n \in 0..Len(items) - 1 : n \in P => n + 1 \in P
    BY <1>3
  <2>. QED
    BY <1>2, <2>1, <2>2, IntervalInduction
<1>5. Len(items) \in P
  BY <1>0, <1>4
<1>. QED
  BY <1>1, <1>5 DEF P

\* What fits the first rows fits all of them.
LEMMA PrefixFits ==
    ASSUME NEW a, NEW b, Prefix(a, b), NEW c, Fits(a, c)
    PROVE  /\ Fits(b, c)
           /\ \A n \in 0..Len(a) : Full(a, n, c) => Full(b, n, c)
<1>0. Len(a) \in Nat /\ Len(b) \in Nat /\ Len(a) <= Len(b) /\ 1..Len(a) \subseteq 1..Len(b)
  BY DEF Prefix
<1>1. /\ c.start \in 1..Len(a) /\ c.end \in 1..Len(a)
      /\ \A s \in c.rows : s \in 1..Len(a) /\ s <= c.end /\ Joins(a, c.start, s)
  BY <1>0, FitsFields
<1>2. /\ \A s \in 1..Len(a) : Leader(a, s) <=> Leader(b, s)
      /\ \A q \in 1..Len(a), s \in 1..Len(a) : Joins(a, q, s) <=> Joins(b, q, s)
  BY PrefixLeader
<1>3. a[c.start] = b[c.start]
  BY <1>1 DEF Prefix
<1>4. Fits(b, c)
  BY <1>0, <1>1, <1>2, <1>3 DEF Fits
<1>5. ASSUME NEW n \in 0..Len(a), Full(a, n, c) PROVE Full(b, n, c)
  <2>1. \A s \in c.start..n : s \in 1..Len(a)
    BY <1>0, <1>1
  <2>2. {s \in c.start..n : Joins(a, c.start, s)} = {s \in c.start..n : Joins(b, c.start, s)}
    BY <1>1, <1>2, <2>1
  <2>. QED
    BY <1>1, <1>2, <1>5, <2>2 DEF Full
<1>. QED
  BY <1>4, <1>5

LEMMA PrefixWhole ==
    ASSUME NEW a, NEW b, Prefix(a, b), NEW e, NEW list, NEW n \in 0..Len(a), Whole(e, a, n, list)
    PROVE  Whole(e, b, n, list)
<1>1. ASSUME NEW c \in ToSet(list) PROVE Fits(b, c) /\ Full(b, n, c)
  BY <1>1, PrefixFits DEF Whole, Listed
<1>2. \A q \in 1..n : Leader(b, q) => Leader(a, q)
  <2>1. \A q \in 1..n : q \in 1..Len(a)
    BY DEF Prefix
  <2>. QED
    BY <2>1, PrefixLeader
<1>. QED
  BY <1>1, <1>2 DEF Whole, Listed, Complete

-----------------------------------------------------------------------------
(* Pages of history.                                                       *)

\* The cursor a page leaves, when it is not one of earlier history.
NextBy(page) == IF page.hasNewer THEN page.end + 1 ELSE page.next

\* A page read at row seq: entries as the projection of the first n rows has them.
PageHolds(items, direction, seq, page, n) ==
    /\ n \in 0..Len(items)
    /\ ~page.reset /\ ~page.gap
    /\ page.entries \in Seq(EntryType) /\ Sorted(page.entries)
    /\ Listed(items, n, ToSet(page.entries))
    /\ direction = "tail" =>
          /\ NextBy(page) \in 1..n + 1
          /\ page.entries = <<>> => NextBy(page) = 1
          /\ page.entries # <<>> =>
                /\ page.entries[1].start < NextBy(page)
                /\ \A q \in page.entries[1].start..n : Leader(items, q) => \E c \in ToSet(page.entries) : c.start = q
          /\ \A c \in ToSet(page.entries) : c.item # "tool" => c.end < NextBy(page)
    /\ direction = "before" =>
          /\ \A c \in ToSet(page.entries) : c.start < seq
          /\ seq <= n \/ page.entries = <<>>
    /\ direction = "after" =>
          /\ seq <= n
          /\ NextBy(page) = n + 1
          /\ page.hasNewer => page.end = n
          /\ \A q \in seq + 1..n : Leader(items, q) => \E c \in ToSet(page.entries) : c.start = q

LEMMA PartListed ==
    ASSUME NEW items, NEW n, NEW E, NEW F, F \subseteq E, Listed(items, n, E)
    PROVE  Listed(items, n, F)
BY DEF Listed

LEMMA OnlySorted ==
    ASSUME NEW list \in Seq(EntryType), Sorted(list), NEW S
    PROVE  /\ Only(list, S) \in Seq(EntryType) /\ Sorted(Only(list, S))
           /\ ToSet(Only(list, S)) = ToSet(list) \cap S
<1>. DEFINE rest == Only(list, S)
<1>1. PICK h :
                 /\ \A i \in 1..Len(Only(list, S)) : h[i] \in 1..Len(list) /\ Only(list, S)[i] = list[h[i]] /\ list[h[i]] \in S
                 /\ \A i, j \in 1..Len(Only(list, S)) : i < j => h[i] < h[j]
  BY OnlyIs
<1>2. rest \in Seq(EntryType) /\ ToSet(rest) = ToSet(list) \cap S
  BY OnlySet
<1>. HIDE DEF rest
<1>3. DOMAIN rest = 1..Len(rest) /\ DOMAIN list = 1..Len(list)
  BY <1>2
<1>4. /\ \A i \in DOMAIN rest : h[i] \in DOMAIN list /\ rest[i] = list[h[i]]
      /\ \A i, j \in DOMAIN rest : i < j => h[i] < h[j]
  BY <1>1, <1>3 DEF rest
<1>5. Sorted(rest)
  BY <1>4 DEF Sorted
<1>. QED
  BY <1>2, <1>5 DEF rest

\* The last entries of a sorted list: those that start no earlier than the first of them.
LEMMA LastOfSorted ==
    ASSUME NEW list \in Seq(EntryType), Sorted(list), NEW n \in Nat \ {0}
    PROVE  /\ LastOf(list, n) \in Seq(EntryType) /\ Sorted(LastOf(list, n))
           /\ ToSet(LastOf(list, n)) \subseteq ToSet(list)
           /\ list = <<>> <=> LastOf(list, n) = <<>>
           /\ \A c \in ToSet(list) : LastOf(list, n)[1].start <= c.start => c \in ToSet(LastOf(list, n))
<1>. DEFINE rest == LastOf(list, n)
<1>1. PICK k \in 1..Len(list) + 1 :
              /\ LastOf(list, n) = SubSeq(list, k, Len(list))
              /\ LastOf(list, n) \in Seq(EntryType)
              /\ Len(LastOf(list, n)) = Len(list) - k + 1
              /\ \A i \in 1..Len(list) - k + 1 : LastOf(list, n)[i] = list[k + i - 1]
              /\ list # <<>> => k <= Len(list)
  BY LastOfIs
<1>2. /\ rest \in Seq(EntryType) /\ Len(rest) = Len(list) - k + 1
      /\ \A i \in 1..Len(list) - k + 1 : rest[i] = list[k + i - 1]
  BY <1>1
<1>. HIDE DEF rest
<1>3. DOMAIN rest = 1..Len(rest) /\ DOMAIN list = 1..Len(list) /\ Len(list) \in Nat /\ k \in Nat
  BY <1>2
<1>4. \A i \in DOMAIN rest : k + i - 1 \in DOMAIN list /\ rest[i] = list[k + i - 1]
  BY <1>2, <1>3
<1>5. Sorted(rest)
  <2>1. ASSUME NEW i \in DOMAIN rest, NEW j \in DOMAIN rest, i < j PROVE rest[i].start < rest[j].start
    <3>1. k + i - 1 < k + j - 1
      BY <1>3, <2>1
    <3>. QED
      BY <1>4, <3>1 DEF Sorted
  <2>. QED
    BY <2>1 DEF Sorted
<1>6. ToSet(rest) \subseteq ToSet(list)
  BY <1>4 DEF ToSet
<1>7. list = <<>> <=> rest = <<>>
  <2>1. list = <<>> => Len(list) = 0
    OBVIOUS
  <2>2. list # <<>> => Len(list) - k + 1 # 0
    BY <1>1, <1>3
  <2>3. list = <<>> => Len(rest) = 0
    BY <1>2, <1>3, <2>1
  <2>. QED
    BY <1>2, <2>2, <2>3
<1>8. ASSUME NEW c \in ToSet(list), rest[1].start <= c.start PROVE c \in ToSet(rest)
  <2>1. PICK i \in DOMAIN list : c = list[i]
    BY DEF ToSet
  <2>2. list # <<>>
    BY <1>3, <2>1
  <2>3. k <= Len(list) /\ k \in DOMAIN list
    BY <1>1, <1>3, <2>2
  <2>4. rest[1] = list[k]
    <3>1. 1 \in 1..Len(list) - k + 1 /\ k + 1 - 1 = k
      BY <1>3, <2>3
    <3>. QED
      BY <1>2, <3>1
  <2>5. ~(i < k)
    <3>1. list[i].start \in Int /\ list[k].start \in Int
      BY <1>3, <2>1, <2>3, EntryFields
    <3>. QED
      BY <1>8, <2>1, <2>3, <2>4, <3>1 DEF Sorted
  <2>6. i - k + 1 \in 1..Len(list) - k + 1 /\ k + (i - k + 1) - 1 = i
    BY <1>3, <2>1, <2>5
  <2>7. rest[i - k + 1] = c /\ i - k + 1 \in DOMAIN rest
    BY <1>2, <1>3, <2>1, <2>6
  <2>. QED
    BY <2>7 DEF ToSet
<1>. QED
  BY <1>2, <1>5, <1>6, <1>7, <1>8 DEF rest

\* What adjoins ends before the next leader.
LEMMA AdjoiningEnds ==
    ASSUME NEW items, Len(items) \in Nat, NEW c, Fits(items, c), c.item # "tool", NEW q \in Nat, Leader(items, q), c.start < q
    PROVE  c.end < q /\ \A s \in c.rows : s < q
<1>1. /\ c.start \in 1..Len(items) /\ c.end \in c.rows /\ c.item = items[c.start] /\ c.end \in Nat
      /\ \A s \in c.rows : s \in Nat /\ s <= c.end /\ c.start <= s /\ Joins(items, c.start, s)
  BY FitsFields DEF Fits
<1>2. ASSUME NEW s \in c.rows PROVE s < q
  <2>1. CASE s = c.start
    BY <2>1
  <2>2. CASE s # c.start
    <3>1. \A r \in c.start + 1..s : ~Leader(items, r)
      BY <1>1, <2>2 DEF Joins
    <3>2. q \notin c.start + 1..s
      BY <3>1
    <3>. QED
      BY <1>1, <3>2
  <2>. QED
    BY <2>1, <2>2
<1>. QED
  BY <1>1, <1>2

LEMMA TailHolds ==
    ASSUME NEW e \in 1..MaxEpochs, NEW items \in Seq(PlainKinds), Len(items) <= MaxRows, NEW seq
    PROVE  PageHolds(items, "tail", seq, TailPage(e, items, PageSize), Len(items))
<1>. DEFINE list == Projection(e, items)
            page == TailPage(e, items, PageSize)
            entries == LastOf(list, PageSize)
            n == Len(items)
            last == IF entries = <<>> THEN 0 ELSE Last(entries).end
<1>0. n \in Nat /\ n \in 0..n /\ PageSize \in Nat \ {0}
  BY Constants
<1>1. Whole(e, items, n, list)
  BY ProjectionWhole
<1>2. /\ page.entries = entries /\ page.reset = FALSE /\ page.gap = FALSE /\ page.next = n + 1 /\ page.end = last
      /\ page.hasNewer = (last # 0 /\ last < n)
  BY DEF TailPage, EntriesPage, PageOf
<1>. HIDE DEF list, page, n
<1>3. /\ entries \in Seq(EntryType) /\ Sorted(entries)
      /\ ToSet(entries) \subseteq ToSet(list)
      /\ list = <<>> <=> entries = <<>>
      /\ \A c \in ToSet(list) : entries[1].start <= c.start => c \in ToSet(entries)
  BY <1>0, <1>1, LastOfSorted DEF Whole
<1>. HIDE DEF entries
<1>4. Listed(items, n, ToSet(entries))
  BY <1>1, <1>3, PartListed DEF Whole
<1>5. ASSUME NEW c \in ToSet(entries)
      PROVE  Fits(items, c) /\ Leader(items, c.start) /\ c.start \in 1..n /\ c.end \in 1..n /\ c.start <= c.end
  <2>1. Fits(items, c) /\ Full(items, n, c)
    BY <1>4, <1>5 DEF Listed
  <2>2. c.start \in 1..n /\ c.end \in 1..n /\ c.start <= c.end
    BY <1>0, <2>1, FitsFields DEF n, Fits
  <2>. QED
    BY <2>1, <2>2 DEF Full
<1>6. entries # <<>> => /\ entries[1] \in ToSet(entries) /\ \A d \in ToSet(entries) : entries[1].start <= d.start
                        /\ entries[Len(entries)] \in ToSet(entries)
                        /\ \A d \in ToSet(entries) : d.start <= entries[Len(entries)].start
                        /\ last = entries[Len(entries)].end
  BY <1>3, SortedFacts DEF Last
<1>7. entries = <<>> => n = 0
  <2>. SUFFICES ASSUME entries = <<>>, n # 0 PROVE FALSE
    OBVIOUS
  <2>1. 1 \in 1..n /\ Leader(items, 1)
    BY <1>0, FirstLeader
  <2>2. PICK c \in ToSet(list) : c.start = 1
    BY <1>1, <2>1 DEF Whole, Complete
  <2>. QED
    BY <1>3, <2>2 DEF ToSet
<1>8. last \in 0..n /\ (entries = <<>> => last = 0) /\ (entries # <<>> => last \in 1..n)
  BY <1>0, <1>5, <1>6
<1>. HIDE DEF last
<1>9. NextBy(page) = IF last # 0 /\ last < n THEN last + 1 ELSE n + 1
  BY <1>2 DEF NextBy
<1>10. NextBy(page) \in 1..n + 1 /\ (entries = <<>> => NextBy(page) = 1)
  BY <1>0, <1>7, <1>8, <1>9
<1>11. ASSUME entries # <<>>
       PROVE  /\ entries[1].start < NextBy(page)
              /\ \A q \in entries[1].start..n : Leader(items, q) => \E c \in ToSet(entries) : c.start = q
  <2>1. entries[1].start \in 1..n /\ entries[1].start <= last
    BY <1>0, <1>5, <1>6, <1>8, <1>11
  <2>2. entries[1].start < NextBy(page)
    BY <1>0, <1>8, <1>9, <2>1
  <2>3. ASSUME NEW q \in entries[1].start..n, Leader(items, q) PROVE \E c \in ToSet(entries) : c.start = q
    <3>1. q \in 1..n /\ entries[1].start <= q
      BY <1>0, <2>1
    <3>2. PICK c \in ToSet(list) : c.start = q
      BY <1>1, <2>3, <3>1 DEF Whole, Complete
    <3>. QED
      BY <1>3, <3>1, <3>2
  <2>. QED
    BY <2>2, <2>3
<1>12. ASSUME NEW c \in ToSet(entries), c.item # "tool" PROVE c.end < NextBy(page)
  <2>1. entries # <<>>
    BY <1>12 DEF ToSet
  <2>. DEFINE z == entries[Len(entries)]
  <2>2. z \in ToSet(entries) /\ c.start <= z.start /\ last = z.end /\ Leader(items, z.start) /\ z.start \in Nat /\ z.start <= z.end
        /\ c.end \in 1..n /\ z.end \in 1..n /\ Fits(items, c) /\ c.start \in 1..n
    BY <1>0, <1>5, <1>6, <1>12, <2>1
  <2>. HIDE DEF z
  <2>3. c.end <= z.end
    <3>1. CASE c.start = z.start
      <4>1. c = z
        BY <1>3, <1>12, <2>2, <3>1, SortedFacts
      <4>. QED
        BY <2>2, <4>1
    <3>2. CASE c.start < z.start
      <4>1. c.end < z.start
        BY <1>0, <1>12, <2>2, <3>2, AdjoiningEnds DEF n
      <4>. QED
        BY <2>2, <4>1
    <3>. QED
      BY <2>2, <3>1, <3>2
  <2>. QED
    BY <1>0, <1>8, <1>9, <2>2, <2>3
<1>. QED
  BY <1>0, <1>2, <1>3, <1>4, <1>10, <1>11, <1>12 DEF PageHolds, n, page

LEMMA BeforeHolds ==
    ASSUME NEW e \in 1..MaxEpochs, NEW items \in Seq(PlainKinds), Len(items) <= MaxRows, NEW seq \in Nat,
           seq <= Len(items) \/ seq = 1
    PROVE  PageHolds(items, "before", seq, BeforePage(e, items, seq, PageSize), Len(items))
<1>. DEFINE list == Projection(e, items)
            page == BeforePage(e, items, seq, PageSize)
            earlier == Only(list, {c \in ToSet(list) : c.start < seq})
            entries == LastOf(earlier, PageSize)
            n == Len(items)
<1>0. n \in Nat /\ n \in 0..n /\ PageSize \in Nat \ {0}
  BY Constants
<1>1. Whole(e, items, n, list)
  BY ProjectionWhole
<1>2. page.entries = entries /\ page.reset = FALSE /\ page.gap = FALSE
  BY DEF BeforePage, EntriesPage, PageOf
<1>. HIDE DEF list, page, n
<1>3. /\ earlier \in Seq(EntryType) /\ Sorted(earlier)
      /\ ToSet(earlier) = ToSet(list) \cap {c \in ToSet(list) : c.start < seq}
  BY <1>1, OnlySorted DEF Whole
<1>. HIDE DEF earlier
<1>4. entries \in Seq(EntryType) /\ Sorted(entries) /\ ToSet(entries) \subseteq ToSet(earlier)
      /\ (earlier = <<>> <=> entries = <<>>)
  BY <1>0, <1>3, LastOfSorted
<1>. HIDE DEF entries
<1>5. Listed(items, n, ToSet(entries))
  BY <1>1, <1>3, <1>4, PartListed DEF Whole
<1>6. \A c \in ToSet(entries) : c.start < seq
  BY <1>3, <1>4
<1>7. seq <= n \/ entries = <<>>
  <2>. SUFFICES ASSUME seq = 1, entries # <<>> PROVE FALSE
    BY DEF n
  <2>1. entries[1] \in ToSet(entries)
    BY <1>4, SortedFacts
  <2>2. entries[1].start \in Nat \ {0} /\ entries[1].start < 1
    <3>1. Fits(items, entries[1])
      BY <1>5, <2>1 DEF Listed
    <3>. QED
      BY <1>0, <1>6, <2>1, <3>1, FitsFields DEF n
  <2>. QED
    BY <2>2
<1>. QED
  BY <1>0, <1>2, <1>4, <1>5, <1>6, <1>7 DEF PageHolds, n, page

LEMMA SubSeqPrefix ==
    ASSUME NEW D, NEW items \in Seq(D), NEW last \in 0..Len(items)
    PROVE  /\ SubSeq(items, 1, last) \in Seq(D) /\ Len(SubSeq(items, 1, last)) = last
           /\ Prefix(SubSeq(items, 1, last), items)
<1>1. last \in 1 - 1..Len(items) /\ 1 \in 1..Len(items) + 1 /\ last - 1 + 1 = last /\ Len(items) \in Nat
  OBVIOUS
<1>2. /\ SubSeq(items, 1, last) \in Seq(D) /\ Len(SubSeq(items, 1, last)) = last
      /\ \A i \in 1..last : SubSeq(items, 1, last)[i - 1 + 1] = items[i]
  BY <1>1, SubSeqIs
<1>3. \A i \in 1..last : i - 1 + 1 = i
  OBVIOUS
<1>. QED
  BY <1>1, <1>2, <1>3 DEF Prefix

LEMMA AfterHolds ==
    ASSUME NEW e \in 1..MaxEpochs, NEW items \in Seq(PlainKinds), Len(items) <= MaxRows, NEW seq \in Nat,
           seq <= Len(items)
    PROVE  \E n \in 0..Len(items) : PageHolds(items, "after", seq, AfterPage(e, items, seq, PageSize), n)
<1>0. Len(items) \in Nat /\ PageSize \in Nat \ {0}
  BY Constants
<1>. DEFINE page == AfterPage(e, items, seq, PageSize)
<1>1. CASE seq = Len(items)
  <2>1. /\ page.entries = <<>> /\ page.reset = FALSE /\ page.gap = FALSE /\ page.next = Len(items) + 1
        /\ page.hasNewer = FALSE
    <3>1. page = EntriesPage(e, items, "after", <<>>)
      BY <1>0, <1>1 DEF AfterPage
    <3>2. EntriesPage(e, items, "after", <<>>) = PageOf(e, items, "after", <<>>, 0, 0)
      BY DEF EntriesPage
    <3>. HIDE DEF page
    <3>. QED
      <4>1. PageOf(e, items, "after", <<>>, 0, 0).hasNewer = (0 # 0 /\ 0 < Len(items))
        BY DEF PageOf
      <4>2. (0 # 0 /\ 0 < Len(items)) = FALSE
        OBVIOUS
      <4>3. page.hasNewer = FALSE
        BY <3>1, <3>2, <4>1, <4>2, Zenon
      <4>4. page.entries = <<>> /\ page.reset = FALSE /\ page.gap = FALSE /\ page.next = Len(items) + 1
        BY <3>1, <3>2 DEF PageOf
      <4>. QED
        BY <4>3, <4>4
  <2>. HIDE DEF page
  <2>2. NextBy(page) = Len(items) + 1
    BY <2>1 DEF NextBy
  <2>3. ToSet(<<>>) = {} /\ Sorted(<<>>) /\ <<>> \in Seq(EntryType)
    BY DEF ToSet, Sorted
  <2>4. PageHolds(items, "after", seq, page, Len(items))
    BY <1>0, <1>1, <2>1, <2>2, <2>3 DEF PageHolds, Listed
  <2>. QED
    BY <1>0, <2>4 DEF page
<1>2. CASE seq < Len(items)
  <2>. DEFINE last == IF seq + PageSize < Len(items) THEN seq + PageSize ELSE Len(items)
              part == SubSeq(items, 1, last)
              list == Projection(e, part)
              entries == Only(list, {c \in ToSet(list) : c.end > seq})
  <2>1. last \in 1..Len(items) /\ last \in 0..Len(items) /\ seq < last /\ last \in Nat
    BY <1>0, <1>2
  <2>2. page = PageOf(e, items, "after", entries, seq + 1, last)
    BY <1>0, <1>2 DEF AfterPage
  <2>. HIDE DEF last
  <2>3. /\ page.entries = entries /\ page.reset = FALSE /\ page.gap = FALSE /\ page.next = Len(items) + 1 /\ page.end = last
        /\ page.hasNewer = (last # 0 /\ last < Len(items))
    BY <2>2 DEF PageOf
  <2>. HIDE DEF page
  <2>4. part \in Seq(PlainKinds) /\ Len(part) = last /\ Prefix(part, items)
    BY <2>1, SubSeqPrefix
  <2>. HIDE DEF part
  <2>5. Whole(e, items, last, list)
    <3>1. Whole(e, part, Len(part), list)
      <4>1. Len(part) <= MaxRows
        BY <1>0, <2>1, <2>4, Constants
      <4>. QED
        BY <2>4, <4>1, ProjectionWhole
    <3>2. last \in 0..Len(part)
      BY <2>1, <2>4
    <3>. QED
      BY <2>4, <3>1, <3>2, PrefixWhole
  <2>. HIDE DEF list
  <2>6. /\ entries \in Seq(EntryType) /\ Sorted(entries)
        /\ ToSet(entries) = ToSet(list) \cap {c \in ToSet(list) : c.end > seq}
    BY <2>5, OnlySorted DEF Whole
  <2>. HIDE DEF entries
  <2>7. Listed(items, last, ToSet(entries))
    BY <2>5, <2>6, PartListed DEF Whole
  <2>8. NextBy(page) = last + 1 /\ (page.hasNewer => page.end = last)
    <3>1. CASE last < Len(items)
      <4>1. page.hasNewer = TRUE
        <5>1. (last # 0 /\ last < Len(items)) = TRUE
          BY <2>1, <3>1
        <5>. QED
          BY <2>3, <5>1, Zenon
      <4>. QED
        BY <2>3, <4>1 DEF NextBy
    <3>2. CASE ~(last < Len(items))
      <4>1. page.hasNewer = FALSE /\ last = Len(items)
        <5>1. (last # 0 /\ last < Len(items)) = FALSE /\ last = Len(items)
          BY <1>0, <2>1, <3>2
        <5>. QED
          BY <2>3, <5>1, Zenon
      <4>. QED
        BY <2>3, <4>1 DEF NextBy
    <3>. QED
      BY <3>1, <3>2
  <2>9. ASSUME NEW q \in seq + 1..last, Leader(items, q) PROVE \E c \in ToSet(entries) : c.start = q
    <3>1. q \in 1..last /\ q > seq /\ q \in Nat
      BY <2>1
    <3>2. PICK c \in ToSet(list) : c.start = q
      BY <2>5, <2>9, <3>1 DEF Whole, Complete
    <3>3. c.start <= c.end /\ c.end \in Nat
      <4>1. Fits(items, c)
        BY <2>5 DEF Whole, Listed
      <4>. QED
        BY <1>0, <4>1, FitsFields DEF Fits
    <3>4. c.end > seq
      BY <3>1, <3>2, <3>3
    <3>. QED
      BY <2>6, <3>2, <3>4
  <2>10. PageHolds(items, "after", seq, page, last)
    BY <2>1, <2>3, <2>6, <2>7, <2>8, <2>9 DEF PageHolds
  <2>. QED
    BY <2>1, <2>10 DEF page
<1>. QED
  BY <1>0, <1>1, <1>2

LEMMA PageIsHeld ==
    ASSUME NEW e \in 1..MaxEpochs, NEW items \in Seq(PlainKinds), Len(items) <= MaxRows,
           NEW direction \in {"tail", "after", "before"}, NEW cursor, cursor.seq \in 0..MaxRows,
           direction = "tail" \/ cursor.epoch = e,
           direction = "after" => cursor.seq <= Len(items),
           direction = "before" => cursor.seq <= Len(items) \/ cursor.seq = 1
    PROVE  \E n \in 0..Len(items) : PageHolds(items, direction, cursor.seq, Page(e, items, direction, cursor, PageSize), n)
<1>0. Len(items) \in 0..Len(items) /\ cursor.seq \in Nat
  BY Constants
<1>1. CASE direction = "tail"
  BY <1>0, <1>1, TailHolds DEF Page
<1>2. CASE direction = "before"
  BY <1>0, <1>2, BeforeHolds DEF Page
<1>3. CASE direction = "after"
  BY <1>0, <1>3, AfterHolds DEF Page
<1>. QED
  BY <1>1, <1>2, <1>3

LEMMA PageStays ==
    ASSUME NEW a, NEW b, Prefix(a, b), NEW direction, NEW seq \in Nat, NEW page, NEW n, PageHolds(a, direction, seq, page, n)
    PROVE  PageHolds(b, direction, seq, page, n)
<1>1. Len(a) \in Nat /\ Len(b) \in Nat /\ n \in 0..Len(a) /\ n \in 0..Len(b)
  BY DEF Prefix, PageHolds
<1>2. \A c \in ToSet(page.entries) : Fits(b, c) /\ Full(b, n, c)
  BY <1>1, PrefixFits DEF PageHolds, Listed
<1>3. \A q \in 1..n : Leader(a, q) <=> Leader(b, q)
  BY <1>1, PrefixLeader
<1>4. ASSUME page.entries # <<>> PROVE page.entries[1].start \in Nat \ {0}
  <2>1. page.entries[1] \in ToSet(page.entries)
    BY <1>4, SortedFacts DEF PageHolds
  <2>. QED
    BY <1>1, <1>2, <2>1, FitsFields
<1>5. page.entries # <<>> => \A q \in page.entries[1].start..n : Leader(a, q) <=> Leader(b, q)
  BY <1>1, <1>3, <1>4
<1>6. \A q \in seq + 1..n : Leader(a, q) <=> Leader(b, q)
  BY <1>1, <1>3
<1>. QED
  BY <1>1, <1>2, <1>5, <1>6 DEF PageHolds, Listed
-----------------------------------------------------------------------------
(* What the replica displays of the rows items of its epoch.  E is the set *)
(* of its entries, next its cursor, coming the rows that may still be      *)
(* applied live; up to low, what the Relay has is on display for certain.  *)

\* An entry that live rows of any time may extend.
Rooted(items, c) == c.item = "tool" /\ Leader(items, c.start)
Apart(E) == \A c, d \in E : c # d => ~Overlap(c, d)
First(items, E, low, next) ==
    /\ E = {} => next = 1
    /\ \A c \in E : (\A d \in E : c.start <= d.start) =>
          Leader(items, c.start) /\ (c.start = 1 \/ c.start < low)
Fresh(items, E, low, coming) ==
    \A c \in E : Rooted(items, c) \/ \A s \in c.rows : s < low \/ \A t \in coming : s < t
Passed(items, E, next, q) == q < next \/ \E c \in E : ~Rooted(items, c) /\ q <= c.end
LeadersHeld(items, E, low, next) ==
    \A q \in 1..Len(items) :
        /\ Leader(items, q)
        /\ \A r \in q + 1..low - 1 : ~Leader(items, r)
        /\ Passed(items, E, next, q)
        => \E c \in E : c.start = q
Shows(items, E, low, next, coming) ==
    /\ Distinct(E) /\ Apart(E) /\ \A c \in E : Fits(items, c)
    /\ low \in 1..next /\ next \in 1..Len(items) + 1
    /\ First(items, E, low, next)
    /\ Fresh(items, E, low, coming)
    /\ LeadersHeld(items, E, low, next)

\* Rows that are on the wire or buffered are rows of their epoch, in its order.
Known(T, m) == m.seq \in 1..Len(T[m.epoch]) /\ m.item = T[m.epoch][m.seq]
Stream(list) == {m \in ToSet(list) : m.type = "stream"}
Rising(list) ==
    \A i, j \in DOMAIN list :
        i < j /\ list[i].type = "stream" /\ list[j].type = "stream" /\ list[i].epoch = list[j].epoch =>
            list[i].seq < list[j].seq
Coming(r, list) == {m.seq : m \in r.pending} \cup {m.seq : m \in {x \in Stream(list) : x.epoch = r.epoch}}
WireContent(T, list) == Rising(list) /\ \A m \in Stream(list) : Known(T, m)


LEMMA ShowsFields ==
    ASSUME NEW items, Len(items) \in Nat, NEW E, NEW low, NEW next, NEW coming, Shows(items, E, low, next, coming)
    PROVE  /\ low \in 1..next /\ next \in 1..Len(items) + 1 /\ low \in Nat /\ next \in Nat /\ 1 <= low /\ low <= next
           /\ \A c \in E : /\ Fits(items, c) /\ c \in EntryType
                           /\ c.start \in 1..Len(items) /\ c.end \in 1..Len(items)
                           /\ c.start \in Nat \ {0} /\ c.end \in Nat /\ c.start <= c.end
                           /\ \A s \in c.rows : s \in Nat /\ s \in 1..Len(items) /\ c.start <= s /\ s <= c.end
<1>1. low \in 1..next /\ next \in 1..Len(items) + 1
  BY DEF Shows
<1>2. ASSUME NEW c \in E
      PROVE  /\ Fits(items, c) /\ c \in EntryType
             /\ c.start \in 1..Len(items) /\ c.end \in 1..Len(items)
             /\ c.start \in Nat \ {0} /\ c.end \in Nat /\ c.start <= c.end
             /\ \A s \in c.rows : s \in Nat /\ s \in 1..Len(items) /\ c.start <= s /\ s <= c.end
  <2>1. Fits(items, c) /\ c \in EntryType
    BY <1>2 DEF Shows, Distinct
  <2>2. c.start <= c.end
    BY <2>1, FitsFields DEF Fits
  <2>. QED
    BY <2>1, <2>2, FitsFields
<1>. QED
  BY <1>1, <1>2

\* What certainly is on display may be put later, and fewer rows may be to come.
LEMMA ShowsLater ==
    ASSUME NEW items, Len(items) \in Nat, NEW E, NEW low, NEW next, NEW coming, Shows(items, E, low, next, coming),
           NEW later, later \in low..next, NEW fewer, fewer \subseteq coming
    PROVE  Shows(items, E, later, next, fewer)
<1>1. /\ low \in Nat /\ next \in Nat /\ 1 <= low /\ later \in Nat /\ low <= later
      /\ later \in 1..next /\ next \in 1..Len(items) + 1
      /\ \A c \in E : c.start \in Nat /\ \A s \in c.rows : s \in Nat
  BY ShowsFields
<1>2. First(items, E, later, next)
  BY <1>1 DEF Shows, First
<1>3. Fresh(items, E, later, fewer)
  <2>1. ASSUME NEW c \in E, ~Rooted(items, c), NEW s \in c.rows PROVE s < later \/ \A t \in fewer : s < t
    <3>1. s < low \/ \A t \in coming : s < t
      BY <2>1 DEF Shows, Fresh
    <3>. QED
      BY <1>1, <2>1, <3>1
  <2>. QED
    BY <2>1 DEF Fresh
<1>4. LeadersHeld(items, E, later, next)
  <2>1. \A q \in 1..Len(items) : \A r \in q + 1..low - 1 : r \in q + 1..later - 1
    BY <1>1
  <2>. QED
    BY <2>1 DEF Shows, LeadersHeld
<1>. QED
  BY <1>1, <1>2, <1>3, <1>4 DEF Shows

\* More rows change nothing for what is displayed of the first ones.
LEMMA ShowsPrefix ==
    ASSUME NEW a, NEW b, Prefix(a, b), NEW E, NEW low, NEW next, NEW coming, Shows(a, E, low, next, coming),
           NEW more, \A t \in more : t \in coming \/ t \in Len(a) + 1..Len(b)
    PROVE  Shows(b, E, low, next, more)
<1>0. Len(a) \in Nat /\ Len(b) \in Nat /\ Len(a) <= Len(b)
  BY DEF Prefix
<1>1. /\ low \in 1..next /\ next \in 1..Len(a) + 1 /\ low \in Nat /\ next \in Nat /\ low <= next
      /\ \A c \in E : /\ Fits(a, c) /\ c.start \in 1..Len(a) /\ c.end \in 1..Len(a)
                      /\ \A s \in c.rows : s \in 1..Len(a)
  BY <1>0, ShowsFields
<1>2. \A s \in 1..Len(a) : Leader(a, s) <=> Leader(b, s)
  BY PrefixLeader
<1>3. \A c \in E : Rooted(a, c) <=> Rooted(b, c)
  BY <1>1, <1>2 DEF Rooted
<1>4. \A c \in E : Fits(b, c)
  BY <1>1, PrefixFits
<1>5. First(b, E, low, next)
  BY <1>1, <1>2 DEF Shows, First
<1>6. Fresh(b, E, low, more)
  <2>1. ASSUME NEW c \in E, ~Rooted(b, c), NEW s \in c.rows PROVE s < low \/ \A t \in more : s < t
    <3>1. s < low \/ \A t \in coming : s < t
      BY <1>3, <2>1 DEF Shows, Fresh
    <3>. QED
      BY <1>0, <1>1, <2>1, <3>1
  <2>. QED
    BY <2>1 DEF Fresh
<1>7. LeadersHeld(b, E, low, next)
  <2>1. ASSUME NEW q \in 1..Len(b), Leader(b, q), \A r \in q + 1..low - 1 : ~Leader(b, r), Passed(b, E, next, q)
        PROVE  \E c \in E : c.start = q
    <3>1. q \in 1..Len(a)
      <4>1. q < next \/ \E c \in E : q <= c.end
        BY <2>1 DEF Passed
      <4>. QED
        BY <1>0, <1>1, <4>1
    <3>2. \A r \in q + 1..low - 1 : r \in 1..Len(a)
      BY <1>0, <1>1, <3>1
    <3>3. Passed(a, E, next, q)
      BY <1>3, <2>1 DEF Passed
    <3>4. Leader(a, q) /\ \A r \in q + 1..low - 1 : ~Leader(a, r)
      BY <1>2, <2>1, <3>1, <3>2
    <3>. QED
      BY <3>1, <3>3, <3>4 DEF Shows, LeadersHeld
  <2>. QED
    BY <2>1 DEF LeadersHeld
<1>. QED
  BY <1>0, <1>1, <1>4, <1>5, <1>6, <1>7 DEF Shows

\* A row to come is of no entry that is not a tool's from its first row on.
LEMMA NotHeld ==
    ASSUME NEW items, Len(items) \in Nat, NEW E, NEW low, NEW t, NEW coming, Shows(items, E, low, t, coming), t \in coming
    PROVE  \A c \in E : Rooted(items, c) \/ \A s \in c.rows : s < t
<1>1. t \in Nat /\ low \in Nat /\ low <= t /\ \A c \in E : \A s \in c.rows : s \in Nat
  BY ShowsFields
<1>2. ASSUME NEW c \in E, ~Rooted(items, c), NEW s \in c.rows PROVE s < t
  <2>1. s < low \/ \A x \in coming : s < x
    BY <1>2 DEF Shows, Fresh
  <2>. QED
    BY <1>1, <1>2, <2>1
<1>. QED
  BY <1>2

LEMMA NoneTakes ==
    ASSUME NEW items, Len(items) \in Nat, NEW E, NEW low, NEW t, NEW coming, Shows(items, E, low, t, coming), t \in coming,
           \A c \in E : ~Takes(E, items[t], c)
    PROVE  \A c \in E : t \notin c.rows
<1>. SUFFICES ASSUME NEW c \in E, t \in c.rows PROVE FALSE
  OBVIOUS
<1>1. t \in Nat /\ \A d \in E : d.start \in Nat /\ Fits(items, d)
  BY ShowsFields
<1>2. Rooted(items, c)
  <2>1. ~(t < t)
    BY <1>1
  <2>. QED
    BY <2>1, NotHeld
<1>3. c.item = "tool" /\ items[t] = "tool"
  BY <1>1, <1>2, FitsFields DEF Rooted
<1>. DEFINE S == {d.start : d \in {x \in E : x.item = "tool"}}
<1>4. S \subseteq Nat /\ S # {}
  BY <1>1, <1>3
<1>5. PICK n \in S : \A m \in S : n <= m
  BY <1>4, LeastNumber
<1>6. PICK d \in E : d.item = "tool" /\ d.start = n
  BY <1>5
<1>7. Takes(E, items[t], d)
  BY <1>3, <1>5, <1>6 DEF Takes
<1>. QED
  BY <1>7

\* The entry that a row to come joins is the one it belongs to.
LEMMA TakerIs ==
    ASSUME NEW items, Len(items) \in Nat, NEW E, NEW low, NEW t, NEW coming, Shows(items, E, low, t, coming), t \in coming,
           t \in 1..Len(items), NEW c, Takes(E, items[t], c)
    PROVE  /\ Joins(items, c.start, t)
           /\ items[t] = "text" => \A s \in c.rows : s < t
           /\ c.start = t \/ ~Leader(items, t)
           /\ \A d \in E : d # c => t \notin d.rows
<1>0. /\ t \in Nat \ {0} /\ t \in Nat /\ low \in Nat /\ low <= t /\ c \in E
      /\ \A d \in E : /\ Fits(items, d) /\ d.start \in Nat \ {0} /\ d.start \in Nat /\ d.start \in 1..Len(items)
                      /\ \A s \in d.rows : s \in Nat
  BY ShowsFields DEF Takes
<1>1. \A d \in E : d.item = items[d.start] /\ d.start \in d.rows
  BY <1>0 DEF Fits
<1>2. \A d \in E : Rooted(items, d) \/ \A s \in d.rows : s < t
  BY NotHeld
<1>3. CASE items[t] = "tool"
  <2>1. c.item = "tool" /\ items[c.start] = "tool" /\ \A d \in E : d.item = "tool" => c.start <= d.start
    BY <1>1, <1>3 DEF Takes
  \* A tool that begins with its first row begins no later than another.
  <2>2. \A d \in E : Rooted(items, d) => \A r \in 1..Len(items) : items[r] = "tool" => d.start <= r
    <3>. SUFFICES ASSUME NEW d \in E, Rooted(items, d), NEW r \in 1..Len(items), items[r] = "tool", ~(d.start <= r) PROVE FALSE
      OBVIOUS
    <3>1. items[d.start] = "tool" /\ ~Update(items, d.start)
      BY <1>1 DEF Rooted, Leader
    <3>2. r \in 1..d.start - 1
      BY <1>0
    <3>. QED
      BY <3>1, <3>2 DEF Update
  <2>3. c.start <= t
    <3>1. CASE Rooted(items, c)
      BY <1>0, <1>3, <2>2, <3>1
    <3>2. CASE ~Rooted(items, c)
      BY <1>0, <1>1, <1>2, <3>2
    <3>. QED
      BY <3>1, <3>2
  <2>4. Joins(items, c.start, t)
    BY <1>0, <1>3, <2>1, <2>3 DEF Joins
  <2>5. c.start = t \/ ~Leader(items, t)
    <3>1. ASSUME c.start # t PROVE Update(items, t)
      <4>1. c.start \in 1..t - 1
        BY <1>0, <2>3, <3>1
      <4>. QED
        BY <1>3, <2>1, <4>1 DEF Update
    <3>. QED
      BY <3>1 DEF Leader
  <2>6. ASSUME NEW d \in E, d # c PROVE t \notin d.rows
    <3>. SUFFICES ASSUME t \in d.rows PROVE FALSE
      OBVIOUS
    <3>1. Rooted(items, d)
      BY <1>0, <1>2
    <3>2. d.start <= c.start /\ c.start <= d.start
      BY <1>0, <2>1, <2>2, <3>1 DEF Rooted
    <3>3. d.start = c.start
      BY <1>0, <3>2
    <3>. QED
      BY <1>0, <2>6, <3>3 DEF Shows, Distinct
  <2>. QED
    BY <1>3, <2>4, <2>5, <2>6
<1>4. CASE items[t] # "tool"
  <2>1. items[t] = "text" /\ c.item = "text" /\ items[c.start] = "text" /\ \A d \in E : d.start <= c.start
    BY <1>1, <1>4 DEF Takes
  <2>2. (\A s \in c.rows : s < t) /\ c.start < t
    BY <1>0, <1>1, <1>2, <2>1 DEF Rooted
  <2>3. \A r \in c.start + 1..t - 1 : ~Leader(items, r)
    <3>1. 1 < t
      BY <1>0, <2>2
    <3>2. PICK q \in 1..t - 1 : Leader(items, q) /\ \A r \in q + 1..t - 1 : ~Leader(items, r)
      BY <1>0, <3>1, LastLeader
    <3>3. q \in Nat /\ q <= t - 1 /\ q < t /\ q \in 1..Len(items)
      BY <1>0, <3>2
    <3>4. q <= c.start
      <4>1. \A r \in q + 1..low - 1 : r \in q + 1..t - 1
        BY <1>0, <3>3
      <4>2. Passed(items, E, t, q) /\ \A r \in q + 1..low - 1 : ~Leader(items, r)
        BY <3>2, <3>3, <4>1 DEF Passed
      <4>3. PICK d \in E : d.start = q
        BY <3>2, <3>3, <4>2 DEF Shows, LeadersHeld
      <4>. QED
        BY <2>1, <4>3
    <3>. QED
      BY <1>0, <3>2, <3>3, <3>4
  <2>4. ~Leader(items, t)
    BY <1>0, <2>1, <2>2, <2>3, TextRun
  <2>5. \A r \in c.start + 1..t : ~Leader(items, r)
    BY <1>0, <2>2, <2>3, <2>4
  <2>6. Joins(items, c.start, t)
    BY <1>0, <2>1, <2>2, <2>5 DEF Joins
  <2>7. ASSUME NEW d \in E, t \in d.rows PROVE FALSE
    <3>1. Rooted(items, d) => items[t] = "tool"
      BY <1>0, <2>7, FitsFields DEF Rooted
    <3>. QED
      BY <1>0, <1>2, <2>1, <2>7, <3>1
  <2>. QED
    BY <2>2, <2>4, <2>6, <2>7
<1>. QED
  BY <1>3, <1>4

\* Every entry stays, with all its rows.
Stays(E, F) == \A c \in E : \E d \in F : d.start = c.start /\ c.rows \subseteq d.rows /\ c.end <= d.end
\* Nothing but row t begins an entry.
OnlyNew(E, F, t) == \A d \in F : d.start = t \/ \E c \in E : c.start = d.start

\* The next row appended.
LEMMA NewShows ==
    ASSUME NEW items \in Seq(PlainKinds), Len(items) <= MaxRows, NEW e \in 1..MaxEpochs, NEW E, NEW low, NEW t, NEW coming,
           Shows(items, E, low, t, coming), t \in coming, t \in 1..Len(items),
           NEW rest, \A s \in rest : s \in coming /\ t < s,
           \A c \in E : ~Takes(E, items[t], c)
    PROVE  /\ Shows(items, E \cup {EntryOf(e, t, items[t])}, low, t + 1, rest)
           /\ Stays(E, E \cup {EntryOf(e, t, items[t])}) /\ OnlyNew(E, E \cup {EntryOf(e, t, items[t])}, t)
<1>. DEFINE x == EntryOf(e, t, items[t])
            F == E \cup {x}
<1>0. /\ Len(items) \in Nat /\ t \in Nat \ {0} /\ t \in Nat /\ low \in Nat /\ 1 <= low /\ low <= t /\ t \in 1..MaxRows
      /\ \A d \in E : /\ Fits(items, d) /\ d \in EntryType /\ d.start \in Nat /\ d.end \in Nat
                      /\ \A s \in d.rows : s \in Nat
  BY ShowsFields, Constants
<1>1. /\ Fits(items, x) /\ x.start = t /\ x.end = t /\ x.rows = {t} /\ x.item = items[t] /\ x \in EntryType
  <2>1. items[t] \in ItemKinds
    BY DEF PlainKinds, ItemKinds
  <2>2. /\ Fits(items, x) /\ x.start = t /\ x.end = t /\ x.rows = {t} /\ x.item = items[t]
    <3>. DEFINE item == items[t]
    <3>1. items[t] = item /\ x = EntryOf(e, t, item)
      OBVIOUS
    <3>. HIDE DEF item, x
    <3>2. Len(items) \in Nat /\ t \in 1..Len(items)
      BY <1>0
    <3>3. Fits(items, EntryOf(e, t, item))
      BY <3>1, <3>2, NewFits
    <3>4. /\ EntryOf(e, t, item).start = t /\ EntryOf(e, t, item).end = t
          /\ EntryOf(e, t, item).rows = {t} /\ EntryOf(e, t, item).item = item
      BY DEF EntryOf
    <3>. QED
      BY <3>1, <3>3, <3>4
  <2>3. x \in EntryType
    BY <1>0, <2>1, EntryOfType
  <2>. QED
    BY <2>2, <2>3
<1>. HIDE DEF x
<1>2. \A c \in E : t \notin c.rows /\ c.start \in c.rows /\ c.start # t
  <2>1. \A c \in E : t \notin c.rows
    BY <1>0, NoneTakes
  <2>2. \A c \in E : c.start \in c.rows
    BY <1>0 DEF Fits
  <2>. QED
    BY <2>1, <2>2
<1>3. Distinct(F)
  BY <1>1, <1>2 DEF Distinct, Shows
<1>4. Apart(F)
  <2>1. \A c \in E : ~Overlap(c, x) /\ ~Overlap(x, c)
    BY <1>1, <1>2 DEF Overlap
  <2>. QED
    BY <2>1 DEF Apart, Shows
<1>5. First(items, F, low, t + 1)
  <2>1. ASSUME NEW c \in F, \A d \in F : c.start <= d.start PROVE Leader(items, c.start) /\ (c.start = 1 \/ c.start < low)
    <3>1. CASE c \in E
      BY <2>1, <3>1 DEF First, Shows
    <3>2. CASE c = x /\ E = {}
      <4>1. t = 1
        BY <3>2 DEF First, Shows
      <4>. QED
        BY <1>1, <3>2, <4>1, FirstLeader
    <3>3. CASE c = x /\ E # {}
      <4>. DEFINE S == {d.start : d \in E}
      <4>1. S \subseteq Nat /\ S # {}
        BY <1>0, <3>3
      <4>2. PICK n \in S : \A m \in S : n <= m
        BY <4>1, LeastNumber
      <4>3. PICK d \in E : d.start = n
        BY <4>2
      <4>4. \A c2 \in E : d.start <= c2.start
        BY <4>2, <4>3
      <4>5. d.start = 1 \/ d.start < low
        BY <4>4 DEF First, Shows
      <4>6. t <= d.start
        BY <1>1, <2>1, <3>3
      <4>7. t = 1
        BY <1>0, <4>5, <4>6
      <4>. QED
        BY <1>1, <3>3, <4>7, FirstLeader
    <3>. QED
      BY <3>1, <3>2, <3>3
  <2>2. F # {}
    OBVIOUS
  <2>. QED
    BY <2>1, <2>2 DEF First
<1>6. Fresh(items, F, low, rest)
  <2>1. ASSUME NEW c \in F, ~Rooted(items, c), NEW s \in c.rows PROVE s < low \/ \A y \in rest : s < y
    <3>1. CASE c \in E
      <4>1. s < low \/ \A y \in coming : s < y
        BY <2>1, <3>1 DEF Fresh, Shows
      <4>. QED
        BY <4>1
    <3>2. CASE c = x
      BY <1>1, <2>1, <3>2
    <3>. QED
      BY <3>1, <3>2
  <2>. QED
    BY <2>1 DEF Fresh
<1>7. LeadersHeld(items, F, low, t + 1)
  <2>1. ASSUME NEW q \in 1..Len(items), Leader(items, q), \A r \in q + 1..low - 1 : ~Leader(items, r), Passed(items, F, t + 1, q)
        PROVE  \E c \in F : c.start = q
    <3>1. CASE q = t
      BY <1>1, <3>1
    <3>2. CASE q # t
      <4>1. Passed(items, E, t, q)
        <5>1. CASE q < t + 1
          BY <1>0, <3>2, <5>1 DEF Passed
        <5>2. CASE \E c \in F : ~Rooted(items, c) /\ q <= c.end
          <6>1. PICK c \in F : ~Rooted(items, c) /\ q <= c.end
            BY <5>2
          <6>2. CASE c \in E
            BY <6>1, <6>2 DEF Passed
          <6>3. CASE c = x
            BY <1>0, <1>1, <3>2, <6>1, <6>3 DEF Passed
          <6>. QED
            BY <6>2, <6>3
        <5>. QED
          BY <2>1, <5>1, <5>2 DEF Passed
      <4>. QED
        BY <2>1, <4>1 DEF LeadersHeld, Shows
    <3>. QED
      BY <3>1, <3>2
  <2>. QED
    BY <2>1 DEF LeadersHeld
<1>8. Stays(E, F)
  <2>1. \A c \in E : c.end <= c.end /\ c \in F
    BY <1>0
  <2>. QED
    BY <2>1 DEF Stays
<1>9. OnlyNew(E, F, t)
  BY <1>1 DEF OnlyNew
<1>10. low \in 1..t + 1 /\ t + 1 \in 1..Len(items) + 1 /\ \A c \in F : Fits(items, c)
  BY <1>0, <1>1
<1>11. Shows(items, F, low, t + 1, rest)
  BY <1>3, <1>4, <1>5, <1>6, <1>7, <1>10 DEF Shows
<1>. QED
  BY <1>8, <1>9, <1>11 DEF F, x

\* The next row joined to an entry.
LEMMA JoinedShows ==
    ASSUME NEW items \in Seq(PlainKinds), Len(items) <= MaxRows, NEW e \in 1..MaxEpochs, NEW E, NEW low, NEW t, NEW coming,
           Shows(items, E, low, t, coming), t \in coming, t \in 1..Len(items),
           NEW rest, \A s \in rest : s \in coming /\ t < s,
           NEW c0 \in E, Takes(E, items[t], c0), NEW F, F = (E \ {c0}) \cup {Extended(c0, e, t, items[t])}
    PROVE  Shows(items, F, low, t + 1, rest) /\ Stays(E, F) /\ OnlyNew(E, F, t)
<1>. DEFINE x == Extended(c0, e, t, items[t])
<1>0. /\ Len(items) \in Nat /\ t \in Nat \ {0} /\ t \in Nat /\ low \in Nat /\ 1 <= low /\ low <= t /\ t \in 1..MaxRows
      /\ \A d \in E : /\ Fits(items, d) /\ d \in EntryType /\ d.start \in Nat /\ d.end \in Nat
                      /\ d.end \in d.rows
                      /\ \A s \in d.rows : s \in Nat
  BY ShowsFields, Constants DEF Fits
<1>t. /\ Joins(items, c0.start, t)
      /\ items[t] = "text" => \A s \in c0.rows : s < t
      /\ c0.start = t \/ ~Leader(items, t)
      /\ \A d \in E : d # c0 => t \notin d.rows
  BY <1>0, TakerIs
<1>1. /\ Fits(items, x) /\ x.start = c0.start /\ x.rows = c0.rows \cup {t} /\ x.item = c0.item /\ x \in EntryType
      /\ c0.end <= x.end
  <2>1. items[t] \in ItemKinds /\ c0.item = items[t]
    BY DEF PlainKinds, ItemKinds, Takes
  <2>2. c0 \in EntryType /\ Fits(items, c0)
    BY <1>0
  <2>. DEFINE item == items[t]
  <2>3. item \in ItemKinds /\ c0.item = item /\ items[t] = item /\ (item = "text" => \A s \in c0.rows : s < t)
    BY <1>t, <2>1
  <2>4. x = Extended(c0, e, t, item)
    OBVIOUS
  <2>. HIDE DEF item, x
  <2>5. x \in EntryType
    BY <1>0, <2>2, <2>3, <2>4, ExtendedIs
  <2>6. /\ Fits(items, x) /\ x.start = c0.start /\ x.rows = c0.rows \cup {t} /\ x.item = c0.item
        /\ c0.end <= x.end
    BY <1>0, <1>t, <2>2, <2>3, <2>4, ExtendedFits
  <2>. QED
    BY <2>5, <2>6
<1>2. F = (E \ {c0}) \cup {x}
  OBVIOUS
<1>. HIDE DEF x
<1>3. Distinct(F)
  BY <1>1, <1>2 DEF Distinct, Shows
<1>4. Apart(F)
  <2>1. ASSUME NEW d \in E, d # c0 PROVE ~Overlap(d, x) /\ ~Overlap(x, d)
    <3>1. ~Overlap(d, c0) /\ t \notin d.rows
      BY <1>t, <2>1 DEF Apart, Shows
    <3>. QED
      BY <1>1, <3>1 DEF Overlap
  <2>. QED
    BY <1>2, <2>1 DEF Apart, Shows
<1>5. First(items, F, low, t + 1)
  <2>1. ASSUME NEW c \in F, \A d \in F : c.start <= d.start PROVE Leader(items, c.start) /\ (c.start = 1 \/ c.start < low)
    <3>1. PICK b \in E : b.start = c.start
      BY <1>1, <1>2
    <3>2. \A d \in E : b.start <= d.start
      BY <1>1, <1>2, <2>1, <3>1
    <3>. QED
      BY <3>1, <3>2 DEF First, Shows
  <2>2. F # {}
    BY <1>2
  <2>. QED
    BY <2>1, <2>2 DEF First
<1>r. Rooted(items, x) <=> Rooted(items, c0)
  BY <1>1 DEF Rooted
<1>6. Fresh(items, F, low, rest)
  <2>1. ASSUME NEW c \in F, ~Rooted(items, c), NEW s \in c.rows PROVE s < low \/ \A y \in rest : s < y
    <3>1. CASE s = t
      BY <3>1
    <3>2. CASE s # t
      <4>1. PICK b \in E : ~Rooted(items, b) /\ s \in b.rows
        BY <1>1, <1>2, <1>r, <2>1, <3>2
      <4>2. s < low \/ \A y \in coming : s < y
        BY <4>1 DEF Fresh, Shows
      <4>. QED
        BY <4>2
    <3>. QED
      BY <3>1, <3>2
  <2>. QED
    BY <2>1 DEF Fresh
<1>7. LeadersHeld(items, F, low, t + 1)
  <2>1. ASSUME NEW q \in 1..Len(items), Leader(items, q), \A r \in q + 1..low - 1 : ~Leader(items, r), Passed(items, F, t + 1, q)
        PROVE  \E c \in F : c.start = q
    <3>1. CASE q = t
      BY <1>1, <1>2, <1>t, <2>1, <3>1
    <3>2. CASE q # t
      <4>1. Passed(items, E, t, q)
        <5>1. CASE q < t + 1
          BY <1>0, <3>2, <5>1 DEF Passed
        <5>2. CASE \E c \in F : ~Rooted(items, c) /\ q <= c.end
          <6>1. PICK c \in F : ~Rooted(items, c) /\ q <= c.end
            BY <5>2
          <6>2. CASE c \in E
            BY <6>1, <6>2 DEF Passed
          <6>3. CASE c = x
            <7>1. x.end \in x.rows /\ x.end \in c0.rows \cup {t}
              BY <1>1 DEF Fits
            <7>2. CASE x.end = t
              BY <1>0, <3>2, <6>1, <6>3, <7>2 DEF Passed
            <7>3. CASE x.end \in c0.rows
              <8>1. x.end <= c0.end /\ c0.end \in Nat /\ x.end \in Nat
                BY <1>0, <7>3 DEF Fits
              <8>2. q <= c0.end
                BY <6>1, <6>3, <8>1
              <8>. QED
                BY <1>r, <6>1, <6>3, <8>2 DEF Passed
            <7>. QED
              BY <7>1, <7>2, <7>3
          <6>. QED
            BY <1>2, <6>2, <6>3
        <5>. QED
          BY <2>1, <5>1, <5>2 DEF Passed
      <4>2. PICK b \in E : b.start = q
        BY <2>1, <4>1 DEF LeadersHeld, Shows
      <4>. QED
        BY <1>1, <1>2, <4>2
    <3>. QED
      BY <3>1, <3>2
  <2>. QED
    BY <2>1 DEF LeadersHeld
<1>8. Stays(E, F)
  <2>1. \A c \in E : c.end <= c.end
    BY <1>0
  <2>. QED
    BY <1>1, <1>2, <2>1 DEF Stays
<1>9. OnlyNew(E, F, t)
  BY <1>1, <1>2 DEF OnlyNew
<1>10. low \in 1..t + 1 /\ t + 1 \in 1..Len(items) + 1 /\ \A c \in F : Fits(items, c)
  BY <1>0, <1>1, <1>2
<1>11. Shows(items, F, low, t + 1, rest)
  BY <1>3, <1>4, <1>5, <1>6, <1>7, <1>10 DEF Shows
<1>. QED
  BY <1>8, <1>9, <1>11

\* Entries of a page in place of what overlaps them.
MergedOf(B, I) == {b \in B : \A c \in I : ~Overlap(b, c)} \cup I

\* A leader's entries of two lists overlap only when they begin together.
LEMMA OverlapLeader ==
    ASSUME NEW items, Len(items) \in Nat, NEW b, Fits(items, b), NEW c, Fits(items, c), Leader(items, c.start), Overlap(b, c)
    PROVE  Joins(items, c.start, b.start) /\ c.start <= b.start /\ (Leader(items, b.start) => b.start = c.start)
<1>1. PICK s : s \in b.rows /\ s \in c.rows
  BY DEF Overlap
<1>2. /\ b.start \in Nat \ {0} /\ c.start \in Nat \ {0} /\ s \in Nat /\ c.start \in Nat
      /\ Joins(items, b.start, s) /\ Joins(items, c.start, s)
  BY <1>1, FitsFields
<1>3. Joins(items, c.start, b.start)
  BY <1>2, JoinsBack
<1>4. Leader(items, b.start) => b.start = c.start
  BY <1>2, <1>3, LeadersApart
<1>. QED
  BY <1>3, <1>4 DEF Joins

LEMMA MergeBase ==
    ASSUME NEW items, Len(items) \in Nat, NEW B, NEW low, NEW next, NEW coming, Shows(items, B, low, next, coming),
           NEW P, NEW n, Distinct(P), Listed(items, n, P), NEW I, I \subseteq P
    PROVE  /\ Distinct(MergedOf(B, I)) /\ Apart(MergedOf(B, I)) /\ \A c \in MergedOf(B, I) : Fits(items, c)
           /\ \A b \in B : Leader(items, b.start) => \E c \in MergedOf(B, I) : c.start = b.start
           /\ \A c \in MergedOf(B, I) : (\A d \in MergedOf(B, I) : c.start <= d.start) =>
                 c \in I \/ (Leader(items, c.start) /\ (c.start = 1 \/ c.start < low))
           /\ \A b \in B, c \in I : b.start = c.start => Overlap(b, c)
<1>. DEFINE M == MergedOf(B, I)
<1>0. /\ \A b \in B : Fits(items, b) /\ b \in EntryType /\ b.start \in Nat /\ b.start \in b.rows
      /\ \A c \in I : Fits(items, c) /\ Leader(items, c.start) /\ c.start \in Nat /\ c.start \in c.rows /\ c \in EntryType
  <2>1. \A b \in B : Fits(items, b) /\ b \in EntryType
    BY DEF Shows, Distinct
  <2>2. \A c \in I : Fits(items, c) /\ Leader(items, c.start) /\ c \in EntryType
    BY DEF Listed, Full, Distinct
  <2>3. \A c : Fits(items, c) => c.start \in Nat /\ c.start \in c.rows
    BY FitsFields DEF Fits
  <2>. QED
    BY <2>1, <2>2, <2>3
<1>1. \A b \in B, c \in I : b.start = c.start => Overlap(b, c)
  BY <1>0 DEF Overlap
<1>2. \A c, d \in I : Overlap(c, d) => c = d
  <2>1. ASSUME NEW c \in I, NEW d \in I, Overlap(c, d) PROVE c = d
    <3>1. c.start = d.start
      BY <1>0, <2>1, OverlapLeader
    <3>. QED
      BY <3>1 DEF Distinct
  <2>. QED
    BY <2>1
<1>3. \A b \in B : Leader(items, b.start) => \E c \in M : c.start = b.start
  <2>1. ASSUME NEW b \in B, Leader(items, b.start) PROVE \E c \in M : c.start = b.start
    <3>1. CASE \A c \in I : ~Overlap(b, c)
      BY <3>1 DEF MergedOf
    <3>2. CASE \E c \in I : Overlap(b, c)
      <4>1. PICK c \in I : Overlap(b, c)
        BY <3>2
      <4>2. b.start = c.start
        BY <1>0, <2>1, <4>1, OverlapLeader
      <4>. QED
        BY <4>2 DEF MergedOf
    <3>. QED
      BY <3>1, <3>2
  <2>. QED
    BY <2>1
<1>4. Distinct(M)
  <2>1. M \subseteq EntryType
    BY <1>0 DEF MergedOf
  <2>2. ASSUME NEW c \in M, NEW d \in M, c.start = d.start PROVE c = d
    <3>1. CASE c \in I /\ d \in I
      BY <2>2, <3>1 DEF Distinct
    <3>2. CASE c \in I /\ d \notin I
      BY <1>1, <2>2, <3>2 DEF MergedOf
    <3>3. CASE c \notin I /\ d \in I
      BY <1>1, <2>2, <3>3 DEF MergedOf
    <3>4. CASE c \notin I /\ d \notin I
      BY <2>2, <3>4 DEF MergedOf, Shows, Distinct
    <3>. QED
      BY <3>1, <3>2, <3>3, <3>4
  <2>. QED
    BY <2>1, <2>2 DEF Distinct
<1>5. Apart(M)
  <2>1. ASSUME NEW c \in M, NEW d \in M, c # d PROVE ~Overlap(c, d)
    <3>1. CASE c \in I /\ d \in I
      BY <1>2, <2>1, <3>1
    <3>2. CASE c \in I /\ d \notin I
      BY <3>2 DEF MergedOf, Overlap
    <3>3. CASE c \notin I /\ d \in I
      BY <3>3 DEF MergedOf
    <3>4. CASE c \notin I /\ d \notin I
      BY <2>1, <3>4 DEF MergedOf, Shows, Apart
    <3>. QED
      BY <3>1, <3>2, <3>3, <3>4
  <2>. QED
    BY <2>1 DEF Apart
<1>6. \A c \in M : Fits(items, c)
  BY <1>0 DEF MergedOf
<1>7. ASSUME NEW c \in M, \A d \in M : c.start <= d.start, c \notin I
      PROVE  Leader(items, c.start) /\ (c.start = 1 \/ c.start < low)
  <2>1. c \in B
    BY <1>7 DEF MergedOf
  <2>. DEFINE S == {d.start : d \in B}
  <2>2. S \subseteq Nat /\ S # {}
    BY <1>0, <2>1
  <2>3. PICK m \in S : \A k \in S : m <= k
    BY <2>2, LeastNumber
  <2>4. PICK b \in B : b.start = m
    BY <2>3
  <2>5. \A d \in B : b.start <= d.start
    BY <2>3, <2>4
  <2>6. Leader(items, b.start) /\ (b.start = 1 \/ b.start < low)
    BY <2>5 DEF Shows, First
  <2>7. PICK d \in M : d.start = b.start
    BY <1>3, <2>6
  <2>8. c.start <= b.start /\ b.start <= c.start
    BY <1>7, <2>1, <2>5, <2>7
  <2>9. c.start = b.start
    BY <1>0, <2>1, <2>8
  <2>. QED
    BY <2>6, <2>9
<1>. QED
  BY <1>1, <1>3, <1>4, <1>5, <1>6, <1>7

\* A page that continues from a row on display.
Superseding(B, P, I) == I \subseteq P /\ \A c \in P : c \in I \/ \E b \in B : b.end > c.end /\ Overlap(b, c)
Continuing(items, P, n, seq) ==
    /\ n \in 0..Len(items) /\ Distinct(P) /\ Listed(items, n, P)
    /\ \A q \in seq + 1..n : Leader(items, q) => \E c \in P : c.start = q

LEMMA AfterShows ==
    ASSUME NEW items, Len(items) \in Nat, NEW B, NEW low, NEW next, NEW coming, Shows(items, B, low, next, coming),
           NEW P, NEW n, NEW seq \in Nat, Continuing(items, P, n, seq), seq < low,
           NEW I, Superseding(B, P, I),
           NEW until \in Nat, low <= until, n + 1 <= until, until = n + 1 \/ until <= next
    PROVE  /\ Shows(items, MergedOf(B, I), until, until, coming)
           /\ \A q \in next..until - 1 : Leader(items, q) => \E c \in MergedOf(B, I) : c.start = q
<1>. DEFINE M == MergedOf(B, I)
<1>0. /\ low \in Nat /\ next \in Nat /\ 1 <= low /\ low <= next /\ next <= Len(items) + 1
      /\ \A b \in B : Fits(items, b) /\ b.start \in Nat /\ b.end \in Nat /\ b.start <= b.end /\ b.end <= Len(items)
      /\ n \in Nat /\ n <= Len(items) /\ n \in 0..Len(items) /\ Distinct(P) /\ Listed(items, n, P)
      /\ \A q \in seq + 1..n : Leader(items, q) => \E c \in P : c.start = q
  BY ShowsFields DEF Continuing
<1>1. /\ Distinct(M) /\ Apart(M) /\ \A c \in M : Fits(items, c)
      /\ \A b \in B : Leader(items, b.start) => \E c \in M : c.start = b.start
      /\ \A c \in M : (\A d \in M : c.start <= d.start) =>
            c \in I \/ (Leader(items, c.start) /\ (c.start = 1 \/ c.start < low))
  BY <1>0, MergeBase DEF Superseding
<1>2. \A c \in P : /\ Fits(items, c) /\ Leader(items, c.start) /\ c.start \in Nat /\ c.start <= n /\ c.end <= n
                   /\ \A s \in c.rows : s \in Nat /\ s <= n
  <2>1. ASSUME NEW c \in P
        PROVE  /\ Fits(items, c) /\ Leader(items, c.start) /\ c.start \in Nat /\ c.start <= n /\ c.end <= n
               /\ \A s \in c.rows : s \in Nat /\ s <= n
    <3>1. Fits(items, c) /\ Full(items, n, c)
      BY <1>0, <2>1 DEF Listed
    <3>2. c.start \in c.rows /\ c.end \in c.rows /\ c.start \in Nat
      BY <3>1, FitsFields DEF Fits
    <3>3. \A s \in c.rows : s \in Nat /\ s <= n
      BY <1>0, <3>1, <3>2 DEF Full
    <3>. QED
      BY <3>1, <3>2, <3>3 DEF Full
  <2>. QED
    BY <2>1
<1>3. I \subseteq P /\ I \subseteq M /\ M \subseteq B \cup I
  BY DEF Superseding, MergedOf
<1>. HIDE DEF M
<1>4. ASSUME NEW q \in seq + 1..n, Leader(items, q), \A r \in q + 1..low - 1 : ~Leader(items, r)
      PROVE  \E c \in M : c.start = q
  <2>0. q \in Nat /\ q \in 1..Len(items)
    BY <1>0
  <2>1. PICK c \in P : c.start = q
    BY <1>0, <1>4
  <2>2. CASE c \in I
    BY <1>3, <2>1, <2>2
  <2>3. CASE c \notin I
    <3>1. PICK b \in B : b.end > c.end /\ Overlap(b, c)
      BY <2>3 DEF Superseding
    <3>2. q <= b.start /\ (Leader(items, b.start) => b.start = q)
      BY <1>0, <1>2, <2>1, <3>1, OverlapLeader
    <3>3. CASE Rooted(items, b)
      BY <1>1, <3>2, <3>3 DEF Rooted
    <3>4. CASE ~Rooted(items, b)
      <4>1. Passed(items, B, next, q)
        BY <1>0, <2>0, <3>2, <3>4 DEF Passed
      <4>2. PICK d \in B : d.start = q
        BY <1>4, <2>0, <4>1 DEF LeadersHeld, Shows
      <4>. QED
        BY <1>1, <1>4, <4>2
    <3>. QED
      BY <3>3, <3>4
  <2>. QED
    BY <2>2, <2>3
<1>5. ASSUME NEW q \in next..until - 1, Leader(items, q) PROVE \E c \in M : c.start = q
  <2>1. q \in seq + 1..n /\ \A r \in q + 1..low - 1 : FALSE
    BY <1>0
  <2>. QED
    BY <1>4, <1>5, <2>1
<1>6. until \in 1..until /\ until \in 1..Len(items) + 1
  BY <1>0
<1>7. First(items, M, until, until)
  <2>1. ASSUME M = {} PROVE until = 1
    <3>1. I = {} /\ B = {}
      BY <1>3, <2>1 DEF M, MergedOf
    <3>2. P = {} /\ next = 1
      BY <3>1 DEF Superseding, Shows, First
    <3>3. n = 0
      <4>1. 1 \notin seq + 1..n
        BY <1>0, <3>2, FirstLeader
      <4>. QED
        BY <1>0, <3>2, <4>1
    <3>. QED
      BY <1>0, <3>2, <3>3
  <2>2. ASSUME NEW c \in M, \A d \in M : c.start <= d.start PROVE Leader(items, c.start) /\ (c.start = 1 \/ c.start < until)
    <3>1. CASE c \in I
      <4>1. c \in P
        BY <1>3, <3>1
      <4>2. Leader(items, c.start) /\ c.start \in Nat /\ c.start <= n
        BY <1>2, <4>1
      <4>3. c.start < until
        BY <1>0, <4>2
      <4>. QED
        BY <4>2, <4>3
    <3>2. CASE c \notin I
      <4>1. c.start \in Nat /\ Leader(items, c.start) /\ (c.start = 1 \/ c.start < low)
        BY <1>0, <1>1, <1>3, <2>2, <3>2
      <4>. QED
        BY <1>0, <4>1
    <3>. QED
      BY <3>1, <3>2
  <2>. QED
    BY <2>1, <2>2 DEF First
<1>8. Fresh(items, M, until, coming)
  <2>1. ASSUME NEW c \in M, ~Rooted(items, c), NEW s \in c.rows PROVE s < until \/ \A t \in coming : s < t
    <3>1. CASE c \in I
      <4>1. s \in Nat /\ s <= n
        BY <1>2, <1>3, <2>1, <3>1
      <4>. QED
        BY <1>0, <4>1
    <3>2. CASE c \notin I
      <4>1. c \in B /\ s \in Nat
        BY <1>0, <1>3, <2>1, <3>2, FitsFields
      <4>2. s < low \/ \A t \in coming : s < t
        BY <2>1, <4>1 DEF Fresh, Shows
      <4>. QED
        BY <1>0, <4>1, <4>2
    <3>. QED
      BY <3>1, <3>2
  <2>. QED
    BY <2>1 DEF Fresh
<1>9. LeadersHeld(items, M, until, until)
  <2>1. ASSUME NEW q \in 1..Len(items), Leader(items, q), \A r \in q + 1..until - 1 : ~Leader(items, r), Passed(items, M, until, q)
        PROVE  \E c \in M : c.start = q
    <3>0. q \in Nat /\ \A r \in q + 1..low - 1 : ~Leader(items, r)
      <4>1. \A r \in q + 1..low - 1 : r \in q + 1..until - 1
        BY <1>0
      <4>. QED
        BY <2>1, <4>1
    <3>1. CASE q \in seq + 1..n
      BY <1>4, <2>1, <3>0, <3>1
    <3>2. CASE q \notin seq + 1..n
      <4>1. Passed(items, B, next, q)
        <5>1. CASE q <= seq
          BY <1>0, <5>1 DEF Passed
        <5>2. CASE q > n
          <6>1. CASE q < until
            BY <1>0, <3>0, <5>2, <6>1 DEF Passed
          <6>2. CASE ~(q < until)
            <7>1. PICK c \in M : ~Rooted(items, c) /\ q <= c.end
              BY <2>1, <6>2 DEF Passed
            <7>2. c \notin I
              <8>. SUFFICES ASSUME c \in I PROVE FALSE
                OBVIOUS
              <8>1. c.end <= n /\ c.end \in Nat
                BY <1>0, <1>2, <1>3, FitsFields
              <8>. QED
                BY <1>0, <5>2, <7>1, <8>1
            <7>. QED
              BY <1>3, <7>1, <7>2 DEF Passed
          <6>. QED
            BY <6>1, <6>2
        <5>. QED
          BY <1>0, <3>0, <3>2, <5>1, <5>2
      <4>2. PICK d \in B : d.start = q
        BY <2>1, <3>0, <4>1 DEF LeadersHeld, Shows
      <4>. QED
        BY <1>1, <2>1, <4>2
    <3>. QED
      BY <3>1, <3>2
  <2>. QED
    BY <2>1 DEF LeadersHeld
<1>. QED
  BY <1>1, <1>5, <1>6, <1>7, <1>8, <1>9 DEF Shows, M

\* A page of earlier history.
LEMMA BeforeShows ==
    ASSUME NEW items, Len(items) \in Nat, NEW B, NEW low, NEW next, NEW coming, Shows(items, B, low, next, coming),
           NEW P, NEW n \in 0..Len(items), Distinct(P), Listed(items, n, P), NEW seq \in Nat,
           \A c \in P : c.start < seq,
           seq = 1 \/ (seq \in 1..low - 1 /\ Leader(items, seq))
    PROVE  Shows(items, MergedOf(B, P), low, next, coming)
<1>. DEFINE M == MergedOf(B, P)
<1>0. /\ low \in Nat /\ next \in Nat /\ 1 <= low /\ low <= next /\ next <= Len(items) + 1
      /\ \A b \in B : Fits(items, b) /\ b.start \in Nat /\ b.end \in Nat /\ b.start <= b.end /\ b.end <= Len(items)
      /\ low \in 1..next /\ next \in 1..Len(items) + 1
  BY ShowsFields
<1>1. /\ Distinct(M) /\ Apart(M) /\ \A c \in M : Fits(items, c)
      /\ \A b \in B : Leader(items, b.start) => \E c \in M : c.start = b.start
      /\ \A c \in M : (\A d \in M : c.start <= d.start) =>
            c \in P \/ (Leader(items, c.start) /\ (c.start = 1 \/ c.start < low))
  BY MergeBase
<1>2. \A c \in P : /\ Fits(items, c) /\ Leader(items, c.start) /\ c.start \in Nat /\ c.start < low
                   /\ ~Rooted(items, c) => c.end < low /\ c.end \in Nat /\ \A s \in c.rows : s < low
  <2>1. ASSUME NEW c \in P
        PROVE  /\ Fits(items, c) /\ Leader(items, c.start) /\ c.start \in Nat /\ c.start < low
               /\ ~Rooted(items, c) => c.end < low /\ c.end \in Nat /\ \A s \in c.rows : s < low
    <3>1. Fits(items, c) /\ Leader(items, c.start)
      BY <2>1 DEF Listed, Full
    <3>2. c.start \in Nat \ {0} /\ c.end \in Nat /\ \A s \in c.rows : s \in Nat
      BY <3>1, FitsFields
    <3>3. seq \in 1..low - 1 /\ Leader(items, seq) /\ c.start < seq /\ c.start < low
      BY <1>0, <2>1, <3>2
    <3>4. ~Rooted(items, c) => c.item # "tool"
      BY <3>1 DEF Rooted
    <3>5. c.item # "tool" => c.end < seq /\ \A s \in c.rows : s < seq
      BY <3>1, <3>3, AdjoiningEnds
    <3>. QED
      BY <1>0, <3>1, <3>2, <3>3, <3>4, <3>5
  <2>. QED
    BY <2>1
<1>3. P \subseteq M /\ M \subseteq B \cup P
  BY DEF MergedOf
<1>4. First(items, M, low, next)
  <2>1. ASSUME M = {} PROVE next = 1
    <3>1. P = {} /\ B = {}
      BY <1>3, <2>1 DEF MergedOf
    <3>. QED
      BY <3>1 DEF Shows, First
  <2>2. ASSUME NEW c \in M, \A d \in M : c.start <= d.start PROVE Leader(items, c.start) /\ (c.start = 1 \/ c.start < low)
    BY <1>1, <1>2, <2>2
  <2>. QED
    BY <2>1, <2>2 DEF First
<1>. HIDE DEF M
<1>5. Fresh(items, M, low, coming)
  <2>1. ASSUME NEW c \in M, ~Rooted(items, c), NEW s \in c.rows PROVE s < low \/ \A t \in coming : s < t
    <3>1. CASE c \in P
      BY <1>2, <2>1, <3>1
    <3>2. CASE c \notin P
      <4>1. c \in B
        BY <1>3, <3>2
      <4>. QED
        BY <2>1, <4>1 DEF Fresh, Shows
    <3>. QED
      BY <3>1, <3>2
  <2>. QED
    BY <2>1 DEF Fresh
<1>6. LeadersHeld(items, M, low, next)
  <2>1. ASSUME NEW q \in 1..Len(items), Leader(items, q), \A r \in q + 1..low - 1 : ~Leader(items, r), Passed(items, M, next, q)
        PROVE  \E c \in M : c.start = q
    <3>1. Passed(items, B, next, q)
      <4>1. CASE q < next
        BY <4>1 DEF Passed
      <4>2. CASE \E c \in M : ~Rooted(items, c) /\ q <= c.end
        <5>1. PICK c \in M : ~Rooted(items, c) /\ q <= c.end
          BY <4>2
        <5>2. CASE c \in P
          <6>1. c.end < low /\ c.end \in Nat
            BY <1>2, <5>1, <5>2
          <6>2. q < next
            BY <1>0, <5>1, <6>1
          <6>. QED
            BY <6>2 DEF Passed
        <5>3. CASE c \notin P
          BY <1>3, <5>1, <5>3 DEF Passed
        <5>. QED
          BY <5>2, <5>3
      <4>. QED
        BY <2>1, <4>1, <4>2 DEF Passed
    <3>2. PICK d \in B : d.start = q
      BY <2>1, <3>1 DEF LeadersHeld, Shows
    <3>. QED
      BY <1>1, <2>1, <3>2
  <2>. QED
    BY <2>1 DEF LeadersHeld
<1>. QED
  BY <1>0, <1>1, <1>4, <1>5, <1>6 DEF Shows, M

\* The last entries, shown in place of nothing.
LEMMA TailShows ==
    ASSUME NEW items, Len(items) \in Nat, NEW seq, NEW page, NEW n, PageHolds(items, "tail", seq, page, n), NEW coming
    PROVE  /\ Shows(items, ToSet(page.entries), NextBy(page), NextBy(page), coming)
           /\ \A q \in 1..NextBy(page) - 1 : Leader(items, q) =>
                 (\E c \in ToSet(page.entries) : c.start = q) \/ \E c \in ToSet(page.entries) : q < c.start /\ \A d \in ToSet(page.entries) : c.start <= d.start
<1>. DEFINE P == ToSet(page.entries)
            next == NextBy(page)
<1>0. /\ n \in 0..Len(items) /\ n \in Nat /\ n <= Len(items)
      /\ page.entries \in Seq(EntryType) /\ Sorted(page.entries) /\ Listed(items, n, P)
      /\ next \in 1..n + 1 /\ next \in Nat
      /\ page.entries = <<>> => next = 1
      /\ page.entries # <<>> =>
            /\ page.entries[1].start < next
            /\ \A q \in page.entries[1].start..n : Leader(items, q) => \E c \in P : c.start = q
      /\ \A c \in P : c.item # "tool" => c.end < next
  BY DEF PageHolds
<1>1. /\ \A c \in P : c \in EntryType
      /\ \A c, d \in P : c.start = d.start => c = d
      /\ page.entries # <<>> <=> P # {}
      /\ page.entries # <<>> => page.entries[1] \in P /\ \A d \in P : page.entries[1].start <= d.start
  BY <1>0, SortedFacts
<1>. DEFINE f == page.entries[1].start
<1>2. /\ P = {} => next = 1
      /\ P # {} => /\ f < next
                   /\ \A q \in f..n : Leader(items, q) => \E c \in P : c.start = q
                   /\ \E c \in P : c.start = f
                   /\ \A d \in P : f <= d.start
  BY <1>0, <1>1
<1>. HIDE DEF P, next, f
<1>3. Distinct(P)
  BY <1>1 DEF Distinct
<1>4. \A c \in P : /\ Fits(items, c) /\ Leader(items, c.start) /\ c.start \in Nat /\ c.end \in Nat
                   /\ \A s \in c.rows : s \in Nat /\ s <= c.end
                   /\ ~Rooted(items, c) => c.end < next
  <2>1. ASSUME NEW c \in P
        PROVE  /\ Fits(items, c) /\ Leader(items, c.start) /\ c.start \in Nat /\ c.end \in Nat
               /\ \A s \in c.rows : s \in Nat /\ s <= c.end
               /\ ~Rooted(items, c) => c.end < next
    <3>1. Fits(items, c) /\ Leader(items, c.start)
      BY <1>0, <2>1 DEF Listed, Full
    <3>2. ~Rooted(items, c) => c.item # "tool"
      BY <3>1 DEF Rooted
    <3>3. c.start \in Nat /\ c.end \in Nat /\ \A s \in c.rows : s \in Nat /\ s <= c.end
      BY <3>1, FitsFields
    <3>. QED
      BY <1>0, <2>1, <3>1, <3>2, <3>3
  <2>. QED
    BY <2>1
<1>5. Apart(P)
  <2>1. ASSUME NEW c \in P, NEW d \in P, Overlap(c, d) PROVE c = d
    <3>1. c.start = d.start
      BY <1>4, <2>1, OverlapLeader
    <3>. QED
      BY <3>1, <1>3 DEF Distinct
  <2>. QED
    BY <2>1 DEF Apart
<1>6. First(items, P, next, next)
  <2>1. ASSUME NEW c \in P, \A d \in P : c.start <= d.start PROVE Leader(items, c.start) /\ c.start < next
    <3>1. PICK d \in P : d.start = f
      BY <1>2, <2>1
    <3>2. c.start <= f /\ f < next /\ f \in Nat
      BY <1>2, <1>4, <2>1, <3>1
    <3>. QED
      BY <1>0, <1>4, <2>1, <3>2
  <2>. QED
    BY <1>2, <2>1 DEF First
<1>7. Fresh(items, P, next, coming)
  <2>1. ASSUME NEW c \in P, ~Rooted(items, c), NEW s \in c.rows PROVE s < next
    BY <1>0, <1>4, <2>1
  <2>. QED
    BY <2>1 DEF Fresh
<1>8. LeadersHeld(items, P, next, next)
  <2>1. ASSUME NEW q \in 1..Len(items), Leader(items, q), \A r \in q + 1..next - 1 : ~Leader(items, r), Passed(items, P, next, q)
        PROVE  \E c \in P : c.start = q
    <3>1. q < next
      <4>1. CASE \E c \in P : ~Rooted(items, c) /\ q <= c.end
        <5>1. PICK c \in P : ~Rooted(items, c) /\ q <= c.end
          BY <4>1
        <5>2. c.end < next /\ c.end \in Nat
          BY <1>4, <5>1
        <5>. QED
          BY <1>0, <5>1, <5>2
      <4>. QED
        BY <2>1, <4>1 DEF Passed
    <3>2. P # {}
      <4>1. next # 1
        BY <1>0, <3>1
      <4>. QED
        BY <1>2, <4>1
    <3>3. PICK d \in P : d.start = f
      BY <1>2, <3>2
    <3>4. f \in Nat /\ Leader(items, f) /\ f < next
      BY <1>2, <1>4, <3>2, <3>3
    <3>5. f <= q
      <4>1. ASSUME q < f PROVE FALSE
        <5>1. f \in q + 1..next - 1
          BY <1>0, <3>4, <4>1
        <5>. QED
          BY <2>1, <3>4, <5>1
      <4>. QED
        BY <3>4, <4>1
    <3>6. q \in f..n
      BY <1>0, <3>1, <3>4, <3>5
    <3>. QED
      BY <1>2, <2>1, <3>2, <3>6
  <2>. QED
    BY <2>1 DEF LeadersHeld
<1>9. next \in 1..next /\ next \in 1..Len(items) + 1
  BY <1>0
<1>10. Shows(items, P, next, next, coming)
  BY <1>3, <1>4, <1>5, <1>6, <1>7, <1>8, <1>9 DEF Shows
<1>11. ASSUME NEW q \in 1..next - 1, Leader(items, q)
       PROVE (\E c \in P : c.start = q) \/ \E c \in P : q < c.start /\ \A d \in P : c.start <= d.start
  <2>1. P # {}
    <3>1. next # 1
      BY <1>0, <1>11
    <3>. QED
      BY <1>2, <3>1
  <2>2. PICK c \in P : c.start = f
    BY <1>2, <2>1
  <2>3. f \in Nat
    BY <1>4, <2>2
  <2>4. CASE q < f
    BY <1>2, <2>1, <2>2, <2>4
  <2>5. CASE f <= q
    <3>1. q \in f..n
      BY <1>0, <1>11, <2>3, <2>5
    <3>. QED
      BY <1>2, <1>11, <2>1, <3>1
  <2>. QED
    BY <1>0, <1>11, <2>3, <2>4, <2>5
<1>. QED
  BY <1>10, <1>11 DEF P, next

\* An entry is still there, with all its rows and no earlier end.
Keeps(b, F) == \E d \in F : b.rows \subseteq d.rows /\ b.end <= d.end

\* Rows of an entry that a full entry begun by a leader overlaps are in it, up to its end.
LEMMA FullHolds ==
    ASSUME NEW items, Len(items) \in Nat, NEW b, Fits(items, b), NEW c, NEW n \in 0..Len(items),
           Fits(items, c), Full(items, n, c), Overlap(b, c)
    PROVE  \A s \in b.rows : s <= n => s \in c.rows
<1>1. Joins(items, c.start, b.start)
  BY OverlapLeader DEF Full
<1>2. ASSUME NEW s \in b.rows, s <= n PROVE s \in c.rows
  <2>1. s \in Nat /\ Joins(items, b.start, s) /\ b.start \in Nat /\ c.start \in Nat
    BY <1>2, FitsFields
  <2>2. Joins(items, c.start, s)
    BY <1>1, <2>1, JoinsOn
  <2>3. c.start <= s
    BY <2>2 DEF Joins
  <2>4. s \in c.start..n
    BY <1>2, <2>1, <2>3
  <2>. QED
    BY <2>2, <2>4 DEF Full
<1>. QED
  BY <1>2

\* A page that leaves out what is superseded takes nothing away.
LEMMA ScanKeeps ==
    ASSUME NEW items, Len(items) \in Nat, NEW B, \A b \in B : Fits(items, b), NEW P, NEW n \in 0..Len(items), Listed(items, n, P),
           NEW I, I \subseteq P, \A b \in B, c \in I : Overlap(b, c) => b.end <= c.end
    PROVE  \A b \in B : Keeps(b, MergedOf(B, I))
<1>1. ASSUME NEW b \in B PROVE Keeps(b, MergedOf(B, I))
  <2>0. Fits(items, b) /\ b.end \in Nat /\ \A s \in b.rows : s \in Nat /\ s <= b.end
    BY <1>1, FitsFields
  <2>1. CASE \A c \in I : ~Overlap(b, c)
    <3>1. b \in MergedOf(B, I) /\ b.end <= b.end
      BY <2>0, <2>1 DEF MergedOf
    <3>. QED
      BY <3>1 DEF Keeps
  <2>2. CASE \E c \in I : Overlap(b, c)
    <3>1. PICK c \in I : Overlap(b, c)
      BY <2>2
    <3>2. Fits(items, c) /\ Full(items, n, c) /\ b.end <= c.end
      BY <3>1 DEF Listed
    <3>3. c.end \in c.rows /\ c.end \in Nat /\ c.end <= n
      <4>1. c.end \in c.rows /\ c.end \in Nat /\ c.start \in Nat
        BY <3>2, FitsFields DEF Fits
      <4>2. c.end \in c.start..n
        BY <3>2, <4>1 DEF Full
      <4>. QED
        BY <4>1, <4>2
    <3>4. \A s \in b.rows : s <= n
      BY <2>0, <3>2, <3>3
    <3>5. b.rows \subseteq c.rows
      BY <2>0, <3>1, <3>2, <3>4, FullHolds
    <3>6. c \in MergedOf(B, I)
      BY DEF MergedOf
    <3>. QED
      BY <3>2, <3>5, <3>6 DEF Keeps
  <2>. QED
    BY <2>1, <2>2
<1>. QED
  BY <1>1

\* A page of earlier history takes nothing away from entries of adjoining rows.
LEMMA OlderKeeps ==
    ASSUME NEW items, Len(items) \in Nat, NEW B, \A b \in B : Fits(items, b), NEW P, NEW n \in 0..Len(items), Listed(items, n, P),
           NEW seq \in Nat, \A c \in P : c.start < seq, seq <= n \/ P = {}, seq = 1 \/ Leader(items, seq)
    PROVE  \A b \in B : b.item # "tool" => Keeps(b, MergedOf(B, P))
<1>1. ASSUME NEW b \in B, b.item # "tool" PROVE Keeps(b, MergedOf(B, P))
  <2>0. Fits(items, b) /\ b.end \in Nat /\ b.end \in b.rows /\ \A s \in b.rows : s \in Nat /\ s <= b.end /\ items[s] = b.item
    BY <1>1, FitsFields DEF Fits
  <2>1. CASE \A c \in P : ~Overlap(b, c)
    <3>1. b \in MergedOf(B, P) /\ b.end <= b.end
      BY <2>0, <2>1 DEF MergedOf
    <3>. QED
      BY <3>1 DEF Keeps
  <2>2. CASE \E c \in P : Overlap(b, c)
    <3>1. PICK c \in P : Overlap(b, c)
      BY <2>2
    <3>2. Fits(items, c) /\ Full(items, n, c) /\ c.start < seq /\ seq <= n
      BY <3>1 DEF Listed
    <3>3. c.item # "tool"
      <4>1. PICK s \in b.rows : s \in c.rows
        BY <3>1 DEF Overlap
      <4>2. items[s] = c.item
        BY <3>2, <4>1, FitsFields
      <4>. QED
        BY <1>1, <2>0, <4>1, <4>2
    <3>4. c.start \in Nat \ {0} /\ b.start \in Nat \ {0} /\ Leader(items, seq) /\ Joins(items, c.start, b.start)
      <4>1. c.start \in Nat \ {0} /\ b.start \in Nat \ {0}
        BY <2>0, <3>2, FitsFields
      <4>2. seq # 1
        BY <3>2, <4>1
      <4>. QED
        BY <2>0, <3>1, <3>2, <4>1, <4>2, OverlapLeader DEF Full
    <3>5. ASSUME NEW s \in b.rows PROVE s < seq
      <4>1. s \in Nat /\ Joins(items, b.start, s) /\ c.start \in Nat /\ b.start \in Nat
        BY <2>0, <3>4, <3>5, FitsFields
      <4>2. Joins(items, c.start, s)
        BY <3>4, <4>1, JoinsOn
      <4>3. ASSUME seq <= s PROVE FALSE
        <5>1. seq \in c.start + 1..s /\ c.start # s
          BY <3>2, <3>4, <4>1, <4>3
        <5>2. items[c.start] # "tool"
          BY <3>2, <3>3 DEF Fits
        <5>. QED
          BY <3>4, <4>2, <5>1, <5>2 DEF Joins
      <4>. QED
        BY <4>1, <4>3
    <3>6. \A s \in b.rows : s <= n
      BY <2>0, <3>2, <3>5
    <3>7. b.rows \subseteq c.rows
      BY <2>0, <3>1, <3>2, <3>6, FullHolds
    <3>8. b.end <= c.end
      BY <2>0, <3>2, <3>7 DEF Fits
    <3>9. c \in MergedOf(B, P)
      BY DEF MergedOf
    <3>. QED
      BY <3>7, <3>8, <3>9 DEF Keeps
  <2>. QED
    BY <2>1, <2>2
<1>. QED
  BY <1>1

LEMMA StaysOn ==
    ASSUME NEW E, NEW F, NEW G, E \subseteq EntryType, F \subseteq EntryType, G \subseteq EntryType, Stays(E, F), Stays(F, G)
    PROVE  Stays(E, G)
<1>1. ASSUME NEW c \in E PROVE \E d \in G : d.start = c.start /\ c.rows \subseteq d.rows /\ c.end <= d.end
  <2>1. PICK b \in F : b.start = c.start /\ c.rows \subseteq b.rows /\ c.end <= b.end
    BY DEF Stays
  <2>2. PICK d \in G : d.start = b.start /\ b.rows \subseteq d.rows /\ b.end <= d.end
    BY DEF Stays
  <2>3. c.end \in Int /\ b.end \in Int /\ d.end \in Int
    BY EntryFields
  <2>. QED
    BY <2>1, <2>2, <2>3
<1>. QED
  BY <1>1 DEF Stays

\* The next row applied.
Adds(items, r, a, t, low, rest) ==
    /\ a \in ReplicaType
    /\ a.next = t + 1 /\ a.epoch = r.epoch /\ a.initialized = r.initialized
    /\ a.retired = r.retired /\ a.pending = {p \in r.pending : p.seq # t}
    /\ Sorted(a.entries)
    /\ Shows(items, ToSet(a.entries), low, t + 1, rest)
    /\ Stays(ToSet(r.entries), ToSet(a.entries))
    /\ OnlyNew(ToSet(r.entries), ToSet(a.entries), t)
LEMMA AppendedShows ==
    ASSUME NEW items \in Seq(PlainKinds), Len(items) <= MaxRows, NEW r \in ReplicaType, NEW m \in Row,
           Sorted(r.entries), m.seq = r.next, m.seq \in 1..Len(items), m.item = items[m.seq],
           NEW low, NEW coming, Shows(items, ToSet(r.entries), low, r.next, coming), m.seq \in coming,
           NEW rest, \A s \in rest : s \in coming /\ m.seq < s
    PROVE  Adds(items, r, Appended(r, m), m.seq, low, rest)
<1>. DEFINE E == ToSet(r.entries)
            list == Coalesced(r.entries, m)
            t == m.seq
            F == ToSet(list)
<1>1. /\ Appended(r, m) \in ReplicaType
      /\ Appended(r, m).next = m.seq + 1 /\ Appended(r, m).epoch = r.epoch /\ Appended(r, m).initialized = r.initialized
      /\ Appended(r, m).retired = r.retired /\ Appended(r, m).pending = {p \in r.pending : p.seq # m.seq}
      /\ Appended(r, m).entries = list
  BY AppendedType, Zenon DEF Appended, ReplicaType
<1>2. /\ r.entries \in Seq(EntryType) /\ m.item \in PlainKinds /\ m.epoch \in 1..MaxEpochs /\ Len(items) \in Nat
  BY ReplicaFields DEF Row
<1>3. Shows(items, E, low, t, coming)
  OBVIOUS
<1>4. (\A c \in E : ~Takes(E, m.item, c)) => \A c \in E : c.start # t
  <2>1. ASSUME \A c \in E : ~Takes(E, m.item, c) PROVE \A c \in E : t \notin c.rows
    <3>. HIDE DEF E, t
    <3>1. \A c \in E : ~Takes(E, items[t], c)
      BY <2>1 DEF t
    <3>2. t \in coming
      BY DEF t
    <3>. QED
      BY <1>2, <1>3, <3>1, <3>2, NoneTakes
  <2>2. \A c \in E : c.start \in c.rows
    BY DEF Shows, Fits
  <2>. QED
    BY <2>1, <2>2
<1>5. /\ Sorted(list) /\ Grown(E, F, m.epoch, t, m.item)
  BY <1>2, <1>4, CoalescedGrown
<1>6. t \in 1..Len(items) /\ t \in coming /\ m.item = items[t] /\ \A s \in rest : s \in coming /\ t < s
  OBVIOUS
<1>. HIDE DEF E, F, t, list
<1>7. Shows(items, F, low, t + 1, rest) /\ Stays(E, F) /\ OnlyNew(E, F, t)
  <2>. DEFINE e == m.epoch
  <2>0. e \in 1..MaxEpochs /\ Grown(E, F, e, t, items[t])
    BY <1>2, <1>5, <1>6
  <2>. HIDE DEF e
  <2>1. CASE (\A c \in E : ~Takes(E, items[t], c)) /\ F = E \cup {EntryOf(e, t, items[t])}
    BY <1>2, <1>3, <1>6, <2>0, <2>1, NewShows
  <2>2. CASE \E c \in E : Takes(E, items[t], c) /\ F = (E \ {c}) \cup {Extended(c, e, t, items[t])}
    <3>1. PICK c \in E : Takes(E, items[t], c) /\ F = (E \ {c}) \cup {Extended(c, e, t, items[t])}
      BY <2>2
    <3>. QED
      BY <1>2, <1>3, <1>6, <2>0, <3>1, JoinedShows
  <2>. QED
    BY <2>0, <2>1, <2>2 DEF Grown
<1>. QED
  BY <1>1, <1>5, <1>7 DEF E, F, t, Adds

\* What draining leaves: everything stays, and each row that it passes is on display.
Drains(items, r, d, low, coming) ==
    /\ d \in ReplicaType /\ d.epoch = r.epoch /\ d.initialized = r.initialized /\ d.retired = r.retired
    /\ r.next <= d.next
    /\ \A m \in d.pending : m \in r.pending /\ m.seq > d.next
    /\ Sorted(d.entries)
    /\ Shows(items, ToSet(d.entries), low, d.next, IF d.next = r.next THEN coming ELSE {s \in coming : s >= d.next})
    /\ d.next # r.next => \E m \in r.pending : m.seq = d.next - 1
    /\ Stays(ToSet(r.entries), ToSet(d.entries))
    /\ \A c \in ToSet(d.entries) : c.start >= r.next \/ \E b \in ToSet(r.entries) : b.start = c.start
    /\ \A q \in r.next..d.next - 1 : Leader(items, q) => \E c \in ToSet(d.entries) : c.start = q

LEMMA DrainedShows ==
    ASSUME NEW items \in Seq(PlainKinds), Len(items) <= MaxRows, NEW r \in ReplicaType, Sorted(r.entries),
           NEW low, NEW coming, coming \subseteq Int, Shows(items, ToSet(r.entries), low, r.next, coming),
           \A m \in r.pending : m.seq \in coming /\ m.seq \in 1..Len(items) /\ m.item = items[m.seq]
    PROVE  /\ Drains(items, r, Drained(r).replica, low, coming)
           /\ Drained(r).status = (IF Drained(r).replica.pending = {} THEN "applied" ELSE "gap")
<1>. DEFINE d == Drained(r).replica
            n == r.next
<1>1. PICK reach, applied : DrainedBy(r, reach, applied, Drained(r))
  BY DrainedSteps
<1>2. /\ reach \in n - 1..MaxRows
      /\ \A s \in n - 1..reach : applied[s] \in ReplicaType
      /\ applied[n - 1] = r
      /\ \A s \in n..reach : \E m \in r.pending : m.seq = s /\ applied[s] = Appended(applied[s - 1], m)
      /\ \A m \in r.pending : m.seq # reach + 1
      /\ d = [applied[reach] EXCEPT !.pending = {m \in r.pending : m.seq > reach}]
      /\ Drained(r).status = IF {m \in r.pending : m.seq > reach} = {} THEN "applied" ELSE "gap"
  BY <1>1 DEF DrainedBy
<1>0. /\ n \in Nat \ {0} /\ reach \in Int /\ Len(items) \in Nat /\ n - 1 \in Int /\ n - 1 <= reach
      /\ r.entries \in Seq(EntryType) /\ r.pending \subseteq Row
      /\ low \in Nat /\ low <= n /\ n <= Len(items) + 1
  BY <1>2, ReplicaFields, ShowsFields, Constants
<1>. HIDE DEF d, n
<1>. DEFINE E == ToSet(r.entries)
            A(s) == ToSet(applied[s].entries)
            Left(s) == IF s < n THEN coming ELSE {c \in coming : c > s}
            Ch(s) == /\ applied[s].next = s + 1 /\ applied[s].epoch = r.epoch /\ applied[s].initialized = r.initialized
                     /\ applied[s].retired = r.retired
                     /\ Sorted(applied[s].entries)
                     /\ Shows(items, A(s), low, s + 1, Left(s))
                     /\ Stays(E, A(s))
                     /\ \A c \in A(s) : c.start >= n \/ \E b \in E : b.start = c.start
                     /\ \A q \in n..s : Leader(items, q) => \E c \in A(s) : c.start = q
            P == {s \in n - 1..reach : Ch(s)}
<1>3. n - 1 \in P
  <2>1. applied[n - 1] = r /\ n - 1 + 1 = n /\ n - 1 < n /\ n = r.next
    BY <1>0, <1>2 DEF n
  <2>2. Left(n - 1) = coming /\ A(n - 1) = E
    BY <2>1
  <2>3. Stays(E, E)
    <3>1. \A c \in E : c.end \in Int
      BY <1>0, ShowsFields
    <3>2. \A c \in E : c.end <= c.end
      BY <3>1
    <3>. QED
      BY <3>2 DEF Stays
  <2>4. n - 1 \in n - 1..reach /\ n..n - 1 = {}
    BY <1>0
  <2>. HIDE DEF Left, A, E
  <2>5. Shows(items, E, low, n, coming)
    BY DEF E, n
  <2>. QED
    BY <2>1, <2>2, <2>3, <2>4, <2>5
<1>4. ASSUME NEW s \in n - 1..reach - 1, s \in P PROVE s + 1 \in P
  <2>0. s \in Int /\ s + 1 \in n..reach /\ s + 1 - 1 = s /\ s + 1 \in n - 1..reach /\ ~(s + 1 < n) /\ n <= s + 1
    BY <1>0
  <2>1. PICK m \in r.pending : m.seq = s + 1 /\ applied[s + 1] = Appended(applied[s], m)
    BY <1>2, <2>0
  <2>2. Ch(s) /\ applied[s] \in ReplicaType
    BY <1>2, <1>4
  <2>3. m \in Row /\ m.seq = applied[s].next /\ m.seq \in 1..Len(items) /\ m.item = items[m.seq] /\ m.seq \in coming
    BY <1>0, <2>1, <2>2
  <2>4. m.seq \in Left(s)
    BY <2>0, <2>1, <2>3
  <2>5. \A c \in Left(s + 1) : c \in Left(s) /\ m.seq < c
    <3>1. \A c \in Left(s + 1) : c \in coming /\ c > s + 1
      BY <2>0
    <3>2. \A c \in coming : c \in Int
      OBVIOUS
    <3>. QED
      BY <2>0, <2>1, <3>1, <3>2
  <2>a. /\ Sorted(applied[s].entries) /\ applied[s] \in ReplicaType
        /\ Shows(items, ToSet(applied[s].entries), low, applied[s].next, Left(s))
    BY <2>2
  <2>. HIDE DEF Left
  <2>6. /\ Appended(applied[s], m).next = m.seq + 1 /\ Appended(applied[s], m).epoch = applied[s].epoch
        /\ Appended(applied[s], m).initialized = applied[s].initialized
        /\ Appended(applied[s], m).retired = applied[s].retired
        /\ Sorted(Appended(applied[s], m).entries)
        /\ Shows(items, ToSet(Appended(applied[s], m).entries), low, m.seq + 1, Left(s + 1))
        /\ Stays(ToSet(applied[s].entries), ToSet(Appended(applied[s], m).entries))
        /\ OnlyNew(ToSet(applied[s].entries), ToSet(Appended(applied[s], m).entries), m.seq)
    <3>. DEFINE x == applied[s]
    <3>1. /\ Sorted(x.entries) /\ x \in ReplicaType /\ m \in Row /\ m.seq = x.next /\ m.seq \in 1..Len(items)
          /\ m.item = items[m.seq] /\ m.seq \in Left(s) /\ \A c \in Left(s + 1) : c \in Left(s) /\ m.seq < c
          /\ Shows(items, ToSet(x.entries), low, x.next, Left(s))
      BY <2>3, <2>4, <2>5, <2>a
    <3>. HIDE DEF x
    <3>2. /\ Appended(x, m).next = m.seq + 1 /\ Appended(x, m).epoch = x.epoch
          /\ Appended(x, m).initialized = x.initialized
          /\ Appended(x, m).retired = x.retired
          /\ Sorted(Appended(x, m).entries)
          /\ Shows(items, ToSet(Appended(x, m).entries), low, m.seq + 1, Left(s + 1))
          /\ Stays(ToSet(x.entries), ToSet(Appended(x, m).entries))
          /\ OnlyNew(ToSet(x.entries), ToSet(Appended(x, m).entries), m.seq)
      <4>1. Adds(items, x, Appended(x, m), m.seq, low, Left(s + 1))
        BY <3>1, AppendedShows
      <4>. QED
        BY <4>1 DEF Adds
    <3>. QED
      BY <3>2 DEF x
  <2>7. /\ Shows(items, A(s + 1), low, s + 1 + 1, Left(s + 1)) /\ Stays(A(s), A(s + 1)) /\ OnlyNew(A(s), A(s + 1), s + 1)
    BY <2>1, <2>6
  <2>. HIDE DEF A
  <2>8. Stays(E, A(s + 1))
    <3>1. E \subseteq EntryType /\ A(s) \subseteq EntryType /\ A(s + 1) \subseteq EntryType
      BY <2>2, <2>7 DEF Shows, Distinct
    <3>. QED
      BY <2>2, <2>7, <3>1, StaysOn
  <2>9. \A c \in A(s + 1) : c.start >= n \/ \E b \in E : b.start = c.start
    BY <2>0, <2>2, <2>7 DEF OnlyNew
  <2>10. ASSUME NEW q \in n..s + 1, Leader(items, q) PROVE \E c \in A(s + 1) : c.start = q
    <3>1. CASE q \in n..s
      BY <2>2, <2>7, <2>10, <3>1 DEF Stays
    <3>2. CASE q \notin n..s
      <4>1. q = s + 1
        BY <1>0, <2>0, <3>2
      <4>2. \A x \in q + 1..low - 1 : FALSE
        BY <1>0, <2>0, <4>1
      <4>3. Passed(items, A(s + 1), s + 1 + 1, q) /\ q \in 1..Len(items)
        BY <2>0, <2>1, <2>3, <4>1 DEF Passed
      <4>. QED
        BY <2>7, <2>10, <4>2, <4>3 DEF Shows, LeadersHeld
    <3>. QED
      BY <3>1, <3>2
  <2>11. Ch(s + 1)
    BY <2>1, <2>2, <2>6, <2>7, <2>8, <2>9, <2>10
  <2>. QED
    BY <2>0, <2>11
<1>5. reach \in P
  <2>. HIDE DEF P
  <2>1. \A s \in n - 1..reach - 1 : s \in P => s + 1 \in P
    BY <1>4
  <2>2. n - 1..reach \subseteq P
    BY <1>0, <1>3, <2>1, IntervalInduction
  <2>. QED
    BY <1>0, <2>2
<1>6. Ch(reach) /\ applied[reach] \in ReplicaType
  BY <1>0, <1>2, <1>5
<1>7. /\ d.next = reach + 1 /\ d.epoch = r.epoch /\ d.initialized = r.initialized /\ d.retired = r.retired
      /\ d.entries = applied[reach].entries /\ d.pending = {m \in r.pending : m.seq > reach}
  <2>1. applied[reach].next = reach + 1 /\ applied[reach].epoch = r.epoch /\ applied[reach].initialized = r.initialized
        /\ applied[reach].retired = r.retired
    BY <1>6
  <2>2. /\ d.next = applied[reach].next /\ d.epoch = applied[reach].epoch /\ d.initialized = applied[reach].initialized
        /\ d.retired = applied[reach].retired
        /\ d.entries = applied[reach].entries /\ d.pending = {m \in r.pending : m.seq > reach}
    BY <1>2, <1>6, Zenon DEF ReplicaType
  <2>. QED
    BY <2>1, <2>2
<1>8. d \in ReplicaType
  BY DrainedType DEF d
<1>9. \A m \in d.pending : m \in r.pending /\ m.seq > d.next
  <2>1. \A m \in r.pending : m.seq \in Int /\ m.seq # reach + 1
    BY <1>0, <1>2 DEF Row
  <2>. QED
    BY <1>0, <1>7, <2>1
<1>10. Shows(items, ToSet(d.entries), low, d.next, IF d.next = n THEN coming ELSE {s \in coming : s >= d.next})
  <2>. DEFINE now == IF d.next = n THEN coming ELSE {s \in coming : s >= d.next}
  <2>1. Shows(items, A(reach), low, d.next, Left(reach)) /\ A(reach) = ToSet(d.entries)
    BY <1>6, <1>7
  <2>2. now \subseteq Left(reach)
    <3>1. CASE reach < n
      <4>1. Left(reach) = coming
        BY <3>1
      <4>. QED
        BY <4>1
    <3>2. CASE ~(reach < n)
      <4>1. d.next # n
        BY <1>0, <1>7, <3>2
      <4>2. \A s \in coming : s >= d.next => s > reach
        <5>1. ASSUME NEW s \in coming, s >= reach + 1 PROVE s > reach
          <6>1. s \in Int
            OBVIOUS
          <6>. QED
            BY <1>0, <5>1, <6>1
        <5>. QED
          BY <1>7, <5>1
      <4>. QED
        BY <3>2, <4>1, <4>2
    <3>. QED
      BY <3>1, <3>2
  <2>3. low \in low..d.next
    BY <1>0, <2>1, ShowsFields
  <2>. HIDE DEF now, Left, A
  <2>4. Shows(items, A(reach), low, d.next, now)
    BY <1>0, <2>1, <2>2, <2>3, ShowsLater
  <2>. QED
    BY <2>1, <2>4 DEF now
<1>11. d.next # n => \E m \in r.pending : m.seq = d.next - 1
  <2>1. ASSUME d.next # n PROVE \E m \in r.pending : m.seq = d.next - 1
    <3>1. reach \in n..reach /\ d.next - 1 = reach
      BY <1>0, <1>7, <2>1
    <3>. QED
      BY <1>2, <3>1
  <2>. QED
    BY <2>1
<1>12. /\ n <= d.next
       /\ Stays(E, ToSet(d.entries))
       /\ \A c \in ToSet(d.entries) : c.start >= n \/ \E b \in E : b.start = c.start
       /\ \A q \in n..d.next - 1 : Leader(items, q) => \E c \in ToSet(d.entries) : c.start = q
  <2>1. n..d.next - 1 = n..reach
    BY <1>0, <1>7
  <2>. QED
    BY <1>0, <1>6, <1>7, <2>1
<1>13. Drained(r).status = IF d.pending = {} THEN "applied" ELSE "gap"
  BY <1>2, <1>7
<1>14. Sorted(d.entries)
  BY <1>6, <1>7
<1>. HIDE DEF E
<1>15. Drains(items, r, d, low, coming)
  BY <1>7, <1>8, <1>9, <1>10, <1>11, <1>12, <1>14 DEF Drains, n, E
<1>. QED
  BY <1>13, <1>15 DEF d

-----------------------------------------------------------------------------
(* Rows and pages applied to a replica that displays items.                *)

\* Buffered rows are rows of the replica's epoch, before those still on the wire.
BufferFits(items, r, list) ==
    /\ \A m \in r.pending : m.epoch = r.epoch /\ m.seq \in 1..Len(items) /\ m.item = items[m.seq]
    /\ \A m \in r.pending, x \in Stream(list) : m.epoch = x.epoch => m.seq < x.seq

Displays(items, r, low, list) ==
    /\ r \in ReplicaType /\ r.initialized /\ Sorted(r.entries)
    /\ BufferFits(items, r, list)
    /\ Shows(items, ToSet(r.entries), low, r.next, Coming(r, list))

\* From r to d nothing of the Relay's projection is lost or passed over.
Follows(items, r, d) ==
    /\ \A b \in ToSet(r.entries) : Leader(items, b.start) => \E c \in ToSet(d.entries) : c.start = b.start
    /\ \A q \in r.next..d.next - 1 : Leader(items, q) => \E c \in ToSet(d.entries) : c.start = q

LEMMA ComingInt ==
    ASSUME NEW r \in ReplicaType, NEW list \in Seq(Message)
    PROVE  Coming(r, list) \subseteq Int /\ \A x \in Stream(list) : x.seq \in Int
<1>1. \A m \in r.pending : m.seq \in Int
  BY ReplicaFields DEF Row
<1>2. \A x \in Stream(list) : x.seq \in Int
  BY DEF Stream, ToSet, Message
<1>. QED
  BY <1>1, <1>2 DEF Coming

LEMMA DrainedContent ==
    ASSUME NEW items \in Seq(PlainKinds), Len(items) <= MaxRows, NEW list \in Seq(Message),
           NEW r, NEW low, Displays(items, r, low, list)
    PROVE  /\ Displays(items, Drained(r).replica, low, list)
           /\ Drained(r).replica.epoch = r.epoch /\ r.next <= Drained(r).replica.next
           /\ \A m \in Drained(r).replica.pending : m.seq > Drained(r).replica.next
           /\ Stays(ToSet(r.entries), ToSet(Drained(r).replica.entries))
           /\ \A c \in ToSet(Drained(r).replica.entries) : c.start >= r.next \/ \E b \in ToSet(r.entries) : b.start = c.start
           /\ Follows(items, r, Drained(r).replica)
           /\ Drained(r).status \in {"applied", "gap"}
<1>. DEFINE d == Drained(r).replica
            coming == Coming(r, list)
<1>1. /\ r \in ReplicaType /\ r.initialized /\ Sorted(r.entries) /\ BufferFits(items, r, list)
      /\ Shows(items, ToSet(r.entries), low, r.next, coming)
  BY DEF Displays
<1>2. /\ coming \subseteq Int /\ \A x \in Stream(list) : x.seq \in Int
      /\ \A m \in r.pending : m.seq \in coming /\ m.seq \in 1..Len(items) /\ m.item = items[m.seq]
  BY <1>1, ComingInt DEF Coming, BufferFits
<1>. HIDE DEF coming
<1>3. Drains(items, r, d, low, coming) /\ Drained(r).status = (IF d.pending = {} THEN "applied" ELSE "gap")
  BY <1>1, <1>2, DrainedShows
<1>. HIDE DEF d
<1>4. /\ d \in ReplicaType /\ d.epoch = r.epoch /\ d.initialized = r.initialized
      /\ r.next <= d.next
      /\ \A m \in d.pending : m \in r.pending /\ m.seq > d.next
      /\ Sorted(d.entries)
      /\ Shows(items, ToSet(d.entries), low, d.next, IF d.next = r.next THEN coming ELSE {s \in coming : s >= d.next})
      /\ d.next # r.next => \E m \in r.pending : m.seq = d.next - 1
      /\ Stays(ToSet(r.entries), ToSet(d.entries))
      /\ \A c \in ToSet(d.entries) : c.start >= r.next \/ \E b \in ToSet(r.entries) : b.start = c.start
      /\ \A q \in r.next..d.next - 1 : Leader(items, q) => \E c \in ToSet(d.entries) : c.start = q
  BY <1>3 DEF Drains
<1>5. BufferFits(items, d, list)
  BY <1>1, <1>4 DEF BufferFits
<1>6. Follows(items, r, d)
  BY <1>4 DEF Follows, Stays
<1>. DEFINE now == IF d.next = r.next THEN coming ELSE {s \in coming : s >= d.next}
<1>7. Coming(d, list) \subseteq now
  <2>1. \A m \in d.pending : m.seq \in coming /\ m.seq >= d.next
    <3>1. \A m \in d.pending : m.seq \in coming /\ m.seq \in Int /\ m.seq > d.next
      BY <1>2, <1>4
    <3>2. d.next \in Int
      BY <1>4, ReplicaFields
    <3>. QED
      BY <3>1, <3>2
  <2>2. ASSUME NEW x \in Stream(list), x.epoch = d.epoch PROVE x.seq \in coming /\ (d.next # r.next => x.seq >= d.next)
    <3>1. x.seq \in coming
      BY <1>4, <2>2 DEF coming, Coming
    <3>2. ASSUME d.next # r.next PROVE x.seq >= d.next
      <4>1. PICK m \in r.pending : m.seq = d.next - 1
        BY <1>4, <3>2
      <4>2. m.seq < x.seq /\ x.seq \in Int /\ d.next \in Int
        BY <1>1, <1>2, <1>4, <2>2, <4>1, ReplicaFields DEF BufferFits
      <4>. QED
        BY <4>1, <4>2
    <3>. QED
      BY <3>1, <3>2
  <2>3. ASSUME NEW s \in Coming(d, list) PROVE s \in now
    BY <2>1, <2>2, <2>3 DEF Coming
  <2>. QED
    BY <2>3
<1>8. Shows(items, ToSet(d.entries), low, d.next, Coming(d, list))
  <2>1. low \in low..d.next /\ Len(items) \in Nat
    BY <1>4, ShowsFields
  <2>2. Shows(items, ToSet(d.entries), low, d.next, now)
    BY <1>4
  <2>. HIDE DEF now
  <2>. QED
    BY <1>7, <2>1, <2>2, ShowsLater
<1>9. Displays(items, d, low, list)
  BY <1>1, <1>4, <1>5, <1>8 DEF Displays
<1>10. Drained(r).status \in {"applied", "gap"}
  BY <1>3
<1>. QED
  BY <1>4, <1>6, <1>9, <1>10 DEF d

LEMMA MergedList ==
    ASSUME NEW base \in Seq(EntryType), NEW incoming \in Seq(EntryType), Sorted(base), Sorted(incoming),
           \A b \in ToSet(base), c \in ToSet(incoming) : b.start = c.start => Overlap(b, c)
    PROVE  ToSet(Merged(base, incoming)) = MergedOf(ToSet(base), ToSet(incoming)) /\ Sorted(Merged(base, incoming))
<1>1. \A c \in EntryType : c.start \in Int
  BY EntryFields
<1>2. Sorted(Merged(base, incoming))
  BY <1>1, MergedSorted
<1>3. ToSet(Merged(base, incoming)) =
         {e \in ToSet(base) : \A c \in ToSet(incoming) : ~Overlap(e, c)} \cup ToSet(incoming)
  BY MergedSet
<1>. QED
  BY <1>2, <1>3 DEF MergedOf

\* What a page leaves of the buffer is all of it, when it is of the same epoch.
LEMMA PageBuffer ==
    ASSUME NEW items, NEW list \in Seq(Message), NEW r, NEW low, Displays(items, r, low, list),
           NEW w \in ReplicaType, w.epoch = r.epoch, w.pending = {m \in r.pending : m.epoch = r.epoch}
    PROVE  w.pending = r.pending /\ BufferFits(items, w, list) /\ Coming(w, list) = Coming(r, list)
<1>1. w.pending = r.pending
  BY DEF Displays, BufferFits
<1>. QED
  BY <1>1 DEF Displays, BufferFits, Coming

\* A page after a row on display, as catching up and the echo scan read it.
LEMMA AfterContent ==
    ASSUME NEW items \in Seq(PlainKinds), Len(items) <= MaxRows, NEW list \in Seq(Message),
           NEW r, NEW low, Displays(items, r, low, list),
           NEW page \in PageType, page.direction = "after", page.epoch = r.epoch,
           NEW seq \in Nat, seq < low, NEW n, PageHolds(items, "after", seq, page, n),
           NEW preserve \in BOOLEAN, IF preserve THEN low = r.next ELSE low = seq + 1
    PROVE  /\ Displays(items, WithPage(r, page, preserve), WithPage(r, page, preserve).next, list)
           /\ WithPage(r, page, preserve).epoch = r.epoch
           /\ Follows(items, r, WithPage(r, page, preserve))
           /\ low <= WithPage(r, page, preserve).next /\ n + 1 <= WithPage(r, page, preserve).next
           /\ ~preserve => WithPage(r, page, preserve).next = n + 1
           /\ preserve => /\ r.next <= WithPage(r, page, preserve).next
                          /\ \A b \in ToSet(r.entries) : Keeps(b, ToSet(WithPage(r, page, preserve).entries))
<1>. DEFINE w == WithPage(r, page, preserve)
            B == ToSet(r.entries)
            P == ToSet(page.entries)
            incoming == Incoming(r, page, preserve)
            I == ToSet(incoming)
            coming == Coming(r, list)
<1>0. /\ r \in ReplicaType /\ r.initialized /\ Sorted(r.entries) /\ BufferFits(items, r, list)
      /\ Shows(items, B, low, r.next, coming) /\ r.entries \in Seq(EntryType) /\ Len(items) \in Nat
      /\ low \in Nat /\ r.next \in Nat /\ low <= r.next /\ r.next <= Len(items) + 1
  <2>1. /\ r \in ReplicaType /\ r.initialized /\ Sorted(r.entries) /\ BufferFits(items, r, list)
        /\ Shows(items, B, low, r.next, coming)
    BY DEF Displays
  <2>2. low \in Nat /\ r.next \in Nat /\ low <= r.next /\ r.next <= Len(items) + 1 /\ Len(items) \in Nat
    BY <2>1, ShowsFields
  <2>. QED
    BY <2>1, <2>2, ReplicaFields
<1>1. /\ n \in 0..Len(items) /\ n \in Nat /\ n <= Len(items)
      /\ page.entries \in Seq(EntryType) /\ Sorted(page.entries) /\ Listed(items, n, P)
      /\ seq <= n /\ NextBy(page) = n + 1
      /\ \A q \in seq + 1..n : Leader(items, q) => \E c \in P : c.start = q
  BY <1>0 DEF PageHolds
<1>2. /\ w \in ReplicaType /\ w.epoch = page.epoch /\ w.initialized = TRUE
      /\ w.entries = Merged(Base(r, page), incoming)
      /\ w.next = (IF preserve /\ NextOf(r, page) <= r.next THEN r.next ELSE NextOf(r, page))
      /\ w.pending = {m \in r.pending : m.epoch = page.epoch}
  <2>1. r \in ReplicaType /\ page \in PageType /\ preserve \in BOOLEAN
    BY <1>0
  <2>2. /\ w \in ReplicaType /\ w.epoch = page.epoch /\ w.initialized = TRUE
        /\ w.entries = Merged(Base(r, page), incoming)
        /\ w.next = LaterOf(r, page, preserve) /\ w.pending = Pertinent(r, page)
    BY ONLY <2>1, WithPageIs
  <2>. QED
    BY <2>2 DEF LaterOf, Pertinent
<1>3. Base(r, page) = r.entries /\ NextOf(r, page) = n + 1
  <2>1. NextOf(r, page) = NextBy(page)
    BY DEF NextOf, NextBy
  <2>. QED
    BY <1>0, <1>1, <2>1 DEF Base
<1>4. w.next = IF preserve /\ n + 1 <= r.next THEN r.next ELSE n + 1
  BY <1>2, <1>3
<1>5. /\ incoming \in Seq(EntryType) /\ Sorted(incoming)
      /\ Superseding(B, P, I)
      /\ preserve => \A b \in B, c \in I : Overlap(b, c) => b.end <= c.end
  <2>1. CASE preserve
    <3>. DEFINE S == Superseded(r, page)
    <3>1. S = {c \in P : \E b \in B : b.end > c.end /\ Overlap(b, c)}
      BY <1>3 DEF Superseded, ToSet
    <3>2. incoming = Only(page.entries, P \ S)
      BY <2>1 DEF Incoming
    <3>. HIDE DEF S, incoming
    <3>3. incoming \in Seq(EntryType) /\ Sorted(incoming) /\ I = P \cap (P \ S)
      BY <1>1, <3>2, OnlySorted
    <3>4. Superseding(B, P, I)
      BY <3>1, <3>3 DEF Superseding
    <3>5. ASSUME NEW b \in B, NEW c \in I, Overlap(b, c) PROVE b.end <= c.end
      <4>1. ~(b.end > c.end)
        BY <3>1, <3>3, <3>5
      <4>2. b \in EntryType /\ c \in EntryType
        BY <1>0, <1>1, <3>3, SortedFacts
      <4>. QED
        BY <4>1, <4>2, EntryFields
    <3>. QED
      BY <3>3, <3>4, <3>5
  <2>2. CASE ~preserve
    <3>1. incoming = page.entries
      BY <2>2 DEF Incoming
    <3>. QED
      BY <1>1, <2>2, <3>1 DEF Superseding
  <2>. QED
    BY <2>1, <2>2
<1>. HIDE DEF incoming
<1>6. Distinct(P)
  BY <1>1, SortedFacts DEF Distinct
<1>. HIDE DEF P, B, coming, w
<1>7. \A b \in B, c \in I : b.start = c.start => Overlap(b, c)
  BY <1>0, <1>1, <1>5, <1>6, MergeBase DEF Superseding
<1>8. ToSet(w.entries) = MergedOf(B, I) /\ Sorted(w.entries)
  <2>1. w.entries = Merged(r.entries, incoming)
    BY <1>2, <1>3
  <2>. QED
    BY <1>0, <1>5, <1>7, <2>1, MergedList DEF B
<1>. HIDE DEF I
<1>9. /\ w.next \in Nat /\ low <= w.next /\ n + 1 <= w.next /\ (w.next = n + 1 \/ w.next <= r.next)
      /\ ~preserve => w.next = n + 1
      /\ preserve => r.next <= w.next
  <2>1. low <= n + 1 \/ preserve
    <3>1. CASE preserve
      BY <3>1
    <3>2. CASE ~preserve
      <4>. QED
        BY <1>0, <1>1, <3>2
    <3>. QED
      BY <3>1, <3>2
  <2>. QED
    BY <1>0, <1>1, <1>4, <2>1
<1>10. /\ Shows(items, MergedOf(B, I), w.next, w.next, coming)
       /\ \A q \in r.next..w.next - 1 : Leader(items, q) => \E c \in MergedOf(B, I) : c.start = q
  <2>. DEFINE until == w.next
  <2>1. until \in Nat /\ low <= until /\ n + 1 <= until /\ (until = n + 1 \/ until <= r.next)
    BY <1>9
  <2>. HIDE DEF until
  <2>2. /\ Shows(items, MergedOf(B, I), until, until, coming)
        /\ \A q \in r.next..until - 1 : Leader(items, q) => \E c \in MergedOf(B, I) : c.start = q
    <3>1. Continuing(items, P, n, seq) /\ Superseding(B, P, I)
      BY <1>1, <1>5, <1>6 DEF Continuing
    <3>. QED
      BY <1>0, <2>1, <3>1, AfterShows
  <2>. QED
    BY <2>2 DEF until
<1>11. \A b \in B : Leader(items, b.start) => \E c \in MergedOf(B, I) : c.start = b.start
  BY <1>0, <1>1, <1>5, <1>6, MergeBase DEF Superseding
<1>12. Follows(items, r, w)
  BY <1>8, <1>10, <1>11 DEF Follows, B
<1>13. preserve => \A b \in B : Keeps(b, MergedOf(B, I))
  <2>1. \A b \in B : Fits(items, b)
    BY <1>0 DEF Shows
  <2>2. I \subseteq P
    BY <1>5 DEF Superseding
  <2>. QED
    BY <1>0, <1>1, <1>5, <2>1, <2>2, ScanKeeps
<1>14. w.epoch = r.epoch /\ BufferFits(items, w, list) /\ Coming(w, list) = coming
  <2>1. w.epoch = r.epoch /\ w.pending = {m \in r.pending : m.epoch = r.epoch}
    BY <1>2
  <2>2. BufferFits(items, w, list) /\ Coming(w, list) = Coming(r, list)
    BY <1>2, <2>1, PageBuffer
  <2>. QED
    BY <2>1, <2>2 DEF coming
<1>15. Displays(items, w, w.next, list)
  BY <1>2, <1>8, <1>10, <1>14 DEF Displays
<1>. QED
  BY <1>8, <1>9, <1>12, <1>13, <1>14, <1>15 DEF w, B

\* A page of earlier history, read from seq.
LEMMA BeforeContent ==
    ASSUME NEW items \in Seq(PlainKinds), Len(items) <= MaxRows, NEW list \in Seq(Message),
           NEW r, NEW low, Displays(items, r, low, list),
           NEW page \in PageType, page.direction = "before", page.epoch = r.epoch,
           NEW seq \in Nat, NEW n, PageHolds(items, "before", seq, page, n),
           seq = 1 \/ (seq \in 1..low - 1 /\ Leader(items, seq))
    PROVE  /\ Displays(items, WithPage(r, page, FALSE), low, list)
           /\ WithPage(r, page, FALSE).epoch = r.epoch /\ WithPage(r, page, FALSE).next = r.next
           /\ Follows(items, r, WithPage(r, page, FALSE))
           /\ \A b \in ToSet(r.entries) : b.item # "tool" => Keeps(b, ToSet(WithPage(r, page, FALSE).entries))
<1>. DEFINE w == WithPage(r, page, FALSE)
            B == ToSet(r.entries)
            P == ToSet(page.entries)
            coming == Coming(r, list)
<1>0. /\ r \in ReplicaType /\ r.initialized /\ Sorted(r.entries) /\ BufferFits(items, r, list)
      /\ Shows(items, B, low, r.next, coming) /\ r.entries \in Seq(EntryType) /\ Len(items) \in Nat
  <2>1. /\ r \in ReplicaType /\ r.initialized /\ Sorted(r.entries) /\ BufferFits(items, r, list)
        /\ Shows(items, B, low, r.next, coming)
    BY DEF Displays
  <2>. QED
    BY <2>1, ReplicaFields
<1>1. /\ n \in 0..Len(items)
      /\ page.entries \in Seq(EntryType) /\ Sorted(page.entries) /\ Listed(items, n, P)
      /\ \A c \in P : c.start < seq
      /\ seq <= n \/ page.entries = <<>>
  BY DEF PageHolds
<1>2. /\ w \in ReplicaType /\ w.epoch = page.epoch /\ w.initialized = TRUE
      /\ w.entries = Merged(Base(r, page), Incoming(r, page, FALSE))
      /\ w.next = NextOf(r, page)
      /\ w.pending = {m \in r.pending : m.epoch = page.epoch}
  <2>. DEFINE no == FALSE
  <2>1. r \in ReplicaType /\ page \in PageType /\ no \in BOOLEAN
    BY <1>0
  <2>. HIDE DEF no
  <2>2. /\ WithPage(r, page, no) \in ReplicaType /\ WithPage(r, page, no).epoch = page.epoch
        /\ WithPage(r, page, no).initialized = TRUE
        /\ WithPage(r, page, no).entries = Merged(Base(r, page), Incoming(r, page, no))
        /\ WithPage(r, page, no).next = LaterOf(r, page, no) /\ WithPage(r, page, no).pending = Pertinent(r, page)
    BY ONLY <2>1, WithPageIs
  <2>. QED
    BY <2>2 DEF LaterOf, Pertinent, no
<1>3. w.entries = Merged(r.entries, page.entries) /\ w.next = r.next
  BY <1>0, <1>2 DEF Base, Incoming, NextOf
<1>4. Distinct(P) /\ (P = {} <=> page.entries = <<>>)
  BY <1>1, SortedFacts DEF Distinct
<1>. HIDE DEF P, B, coming, w
<1>5. /\ \A b \in B, c \in P : b.start = c.start => Overlap(b, c)
      /\ \A b \in B : Leader(items, b.start) => \E c \in MergedOf(B, P) : c.start = b.start
  <2>1. P \subseteq P
    OBVIOUS
  <2>2. \A b \in B, c \in P : b.start = c.start => Overlap(b, c)
    BY <1>0, <1>1, <1>4, <2>1, MergeBase
  <2>3. \A b \in B : Leader(items, b.start) => \E c \in MergedOf(B, P) : c.start = b.start
    BY <1>0, <1>1, <1>4, <2>1, MergeBase
  <2>. QED
    BY <2>2, <2>3
<1>6. ToSet(w.entries) = MergedOf(B, P) /\ Sorted(w.entries)
  BY <1>0, <1>1, <1>3, <1>5, MergedList DEF B, P
<1>7. Shows(items, MergedOf(B, P), low, r.next, coming)
  BY <1>0, <1>1, <1>4, BeforeShows
<1>8. Follows(items, r, w)
  <2>1. r.next..w.next - 1 = {}
    BY <1>0, <1>3, ReplicaFields
  <2>. QED
    BY <1>5, <1>6, <2>1 DEF Follows, B
<1>9. \A b \in B : b.item # "tool" => Keeps(b, MergedOf(B, P))
  <2>1. \A b \in B : Fits(items, b)
    BY <1>0 DEF Shows
  <2>2. seq <= n \/ P = {}
    BY <1>1, <1>4
  <2>. QED
    BY <1>0, <1>1, <2>1, <2>2, OlderKeeps
<1>10. w.epoch = r.epoch /\ BufferFits(items, w, list) /\ Coming(w, list) = coming
  <2>1. w.epoch = r.epoch /\ w.pending = {m \in r.pending : m.epoch = r.epoch}
    BY <1>2
  <2>2. BufferFits(items, w, list) /\ Coming(w, list) = Coming(r, list)
    BY <1>2, <2>1, PageBuffer
  <2>. QED
    BY <2>1, <2>2 DEF coming
<1>11. Displays(items, w, low, list)
  BY <1>2, <1>3, <1>6, <1>7, <1>10 DEF Displays
<1>. QED
  BY <1>3, <1>6, <1>8, <1>9, <1>10, <1>11 DEF w, B

\* The end of the history, in place of nothing.
LEMMA TailContent ==
    ASSUME NEW items \in Seq(PlainKinds), Len(items) <= MaxRows, NEW list \in Seq(Message),
           NEW r \in ReplicaType, ~r.initialized,
           NEW page \in PageType, page.direction = "tail",
           \A m \in r.pending : m.epoch = page.epoch => m.seq \in 1..Len(items) /\ m.item = items[m.seq],
           \A m \in r.pending, x \in Stream(list) : m.epoch = x.epoch => m.seq < x.seq,
           NEW seq, NEW n, PageHolds(items, "tail", seq, page, n)
    PROVE  /\ Displays(items, WithPage(r, page, FALSE), WithPage(r, page, FALSE).next, list)
           /\ WithPage(r, page, FALSE).epoch = page.epoch
           /\ \A q \in 1..WithPage(r, page, FALSE).next - 1 : Leader(items, q) =>
                 \/ \E c \in ToSet(WithPage(r, page, FALSE).entries) : c.start = q
                 \/ \E c \in ToSet(WithPage(r, page, FALSE).entries) :
                       q < c.start /\ c.start < WithPage(r, page, FALSE).next
                       /\ \A b \in ToSet(WithPage(r, page, FALSE).entries) : c.start <= b.start
<1>. DEFINE w == WithPage(r, page, FALSE)
            P == ToSet(page.entries)
<1>0. Len(items) \in Nat
  OBVIOUS
<1>1. page.entries \in Seq(EntryType) /\ Sorted(page.entries)
  BY DEF PageHolds
<1>2. /\ w \in ReplicaType /\ w.epoch = page.epoch /\ w.initialized = TRUE
      /\ w.entries = Merged(Base(r, page), Incoming(r, page, FALSE))
      /\ w.next = NextOf(r, page)
      /\ w.pending = {m \in r.pending : m.epoch = page.epoch}
  <2>. DEFINE no == FALSE
  <2>1. r \in ReplicaType /\ page \in PageType /\ no \in BOOLEAN
    BY <1>0
  <2>. HIDE DEF no
  <2>2. /\ WithPage(r, page, no) \in ReplicaType /\ WithPage(r, page, no).epoch = page.epoch
        /\ WithPage(r, page, no).initialized = TRUE
        /\ WithPage(r, page, no).entries = Merged(Base(r, page), Incoming(r, page, no))
        /\ WithPage(r, page, no).next = LaterOf(r, page, no) /\ WithPage(r, page, no).pending = Pertinent(r, page)
    BY ONLY <2>1, WithPageIs
  <2>. QED
    BY <2>2 DEF LaterOf, Pertinent, no
<1>3. w.entries = Merged(<<>>, page.entries) /\ w.next = NextBy(page)
  BY <1>2 DEF Base, Incoming, NextOf, NextBy
<1>4. <<>> \in Seq(EntryType) /\ Sorted(<<>>) /\ ToSet(<<>>) = {}
  BY DEF Sorted, ToSet
<1>5. ToSet(w.entries) = P /\ Sorted(w.entries)
  <2>1. ToSet(Merged(<<>>, page.entries)) = MergedOf(ToSet(<<>>), P) /\ Sorted(Merged(<<>>, page.entries))
    BY <1>1, <1>4, MergedList
  <2>2. MergedOf({}, P) = P
    BY DEF MergedOf
  <2>. QED
    BY <1>3, <1>4, <2>1, <2>2
<1>. HIDE DEF w
<1>6. /\ Shows(items, P, w.next, w.next, Coming(w, list))
      /\ \A q \in 1..w.next - 1 : Leader(items, q) =>
            (\E c \in P : c.start = q) \/ \E c \in P : q < c.start /\ \A d \in P : c.start <= d.start
  BY <1>0, <1>3, TailShows
<1>7. BufferFits(items, w, list)
  BY <1>2 DEF BufferFits
<1>8. Displays(items, w, w.next, list)
  BY <1>2, <1>5, <1>6, <1>7 DEF Displays
<1>9. \A c \in P : (\A d \in P : c.start <= d.start) => c.start < w.next \/ c.start = 1
  BY <1>6 DEF Shows, First
<1>10. ASSUME NEW q \in 1..w.next - 1, Leader(items, q)
       PROVE  \/ \E c \in P : c.start = q
              \/ \E c \in P : q < c.start /\ c.start < w.next /\ \A d \in P : c.start <= d.start
  <2>1. CASE \E c \in P : c.start = q
    BY <2>1
  <2>2. CASE \E c \in P : q < c.start /\ \A d \in P : c.start <= d.start
    <3>1. PICK c \in P : q < c.start /\ \A d \in P : c.start <= d.start
      BY <2>2
    <3>2. c.start # 1
      <4>1. w.next \in Nat /\ q \in Nat /\ 1 <= q
        BY <1>2, ReplicaFields, Constants
      <4>. QED
        BY <3>1, <4>1
    <3>. QED
      BY <1>9, <3>1, <3>2
  <2>. QED
    BY <1>6, <1>10, <2>1, <2>2
<1>. QED
  BY <1>2, <1>5, <1>8, <1>10 DEF w
=============================================================================
