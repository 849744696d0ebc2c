----------------------------- MODULE Subsequences ----------------------------
(***************************************************************************)
(* What std::erase_if leaves of a deque or a vector: the elements at some  *)
(* positions, in their order.  Sequences' SelectSeq is the same by         *)
(* evaluation, but nothing can be proved of it; of this everything its     *)
(* users need is, below.                                                   *)
(* With it, what other proofs count by: a set of numbers has a least, and  *)
(* a function that steps from each number to the next reaches any.         *)
(***************************************************************************)
EXTENDS Sequences, FiniteSetTheorems, TLAPS

(* The place of a position among some: how many of them are not after it.  *)
Place(i, positions) == Cardinality({j \in positions : j <= i})

(* The elements of a sequence at these positions of it, in order.          *)
Subsequence(s, positions) ==
  [k \in 1..Cardinality(positions) |-> s[CHOOSE i \in positions : Place(i, positions) = k]]

-----------------------------------------------------------------------------
(* Sets of natural numbers have a least element.                           *)
LEMMA LeastNat ==
  ASSUME NEW S \in SUBSET Nat, S # {}
  PROVE  \E n \in S : \A k \in S : n <= k
<1>1. PICK n \in S : \A k \in S : ~ (<<k, n>> \in OpToRel(<, Nat))
  BY WFMin, NatLessThanWellFounded, Zenon
<1>2. ASSUME NEW k \in S, ~(n <= k) PROVE FALSE
  <2>1. k < n /\ k \in Nat /\ n \in Nat
    BY <1>2
  <2>2. <<k, n>> \in {ss \in Nat \X Nat : ss[1] < ss[2]}
    BY <2>1
  <2>3. <<k, n>> \in OpToRel(<, Nat)
    BY <2>2, Zenon DEF OpToRel
  <2>4. QED
    BY <1>1, <2>3
<1>3. QED
  BY <1>2

(* What is counted to a given number by a function of each step.           *)
Counts(f, start, step, n) ==
  \A i \in 0 .. n : f[i] = IF i = 0 THEN start ELSE step[i][f[i - 1]]

LEMMA CountedTo ==
  ASSUME NEW S, NEW start \in S, NEW step \in [Nat -> [S -> S]], NEW n \in Nat
  PROVE  \E f \in [0 .. n -> S] : Counts(f, start, step, n)
<1>. DEFINE Bad == {m \in Nat : ~\E f \in [0 .. m -> S] : Counts(f, start, step, m)}
<1>1. SUFFICES ASSUME Bad # {} PROVE FALSE
  OBVIOUS
<1>2. Bad \subseteq Nat /\ \A k \in Nat \ Bad : \E f \in [0 .. k -> S] : Counts(f, start, step, k)
  OBVIOUS
<1>. HIDE DEF Bad
<1>3. PICK m \in Bad : \A k \in Bad : m <= k
  BY <1>1, <1>2, LeastNat
<1>4. ~\E f \in [0 .. m -> S] : Counts(f, start, step, m)
  BY DEF Bad
<1>a. m # 0
  <2>. DEFINE f == [i \in 0 .. 0 |-> start]
  <2>1. f \in [0 .. 0 -> S] /\ Counts(f, start, step, 0)
    BY SMT DEF Counts
  <2>2. QED
    BY <1>4, <2>1, Zenon
<1>b. m \in Nat /\ m - 1 \in Nat /\ m - 1 \notin Bad
  <2>. QED
    BY <1>2, <1>3, <1>a
<1>5. PICK f \in [0 .. m - 1 -> S] : Counts(f, start, step, m - 1)
  BY <1>2, <1>b
<1>. DEFINE g == [i \in 0 .. m |-> IF i = m THEN step[m][f[m - 1]] ELSE f[i]]
<1>6. g \in [0 .. m -> S]
  BY <1>2, <1>a, <1>b
<1>7. Counts(g, start, step, m)
  <2>1. ASSUME NEW i \in 0 .. m PROVE g[i] = IF i = 0 THEN start ELSE step[i][g[i - 1]]
    <3>1. CASE i = m
      <4>1. m \in 0 .. m /\ m - 1 \in 0 .. m /\ m - 1 # m
        BY <1>a, <1>b
      <4>2. g[m - 1] = f[m - 1] /\ g[m] = step[m][f[m - 1]]
        BY <4>1
      <4>. HIDE DEF g
      <4>3. QED
        BY <1>a, <3>1, <4>2
    <3>2. CASE i # m
      <4>1. i \in 0 .. m - 1 /\ (i # 0 => i - 1 \in 0 .. m - 1)
        BY <1>b, <3>2
      <4>2. f[i] = IF i = 0 THEN start ELSE step[i][f[i - 1]]
        BY <1>5, <4>1, Zenon DEF Counts
      <4>3. g[i] = f[i] /\ (i # 0 => g[i - 1] = f[i - 1])
        BY <1>b, <3>2, <4>1
      <4>. HIDE DEF g
      <4>4. QED
        BY <4>2, <4>3
    <3>3. QED
      BY <3>1, <3>2
  <2>2. QED
    BY <2>1 DEF Counts
<1>8. QED
  BY <1>4, <1>6, <1>7

(* The positions of a sequence are finitely many, and counted by numbers.  *)
LEMMA PositionsAreFinite ==
  ASSUME NEW n \in Nat, NEW positions \in SUBSET (1..n)
  PROVE  /\ IsFiniteSet(positions) /\ Cardinality(positions) \in 0..n
         /\ \A i \in Int : Place(i, positions) \in 0..Cardinality(positions)
<1>1. IsFiniteSet(1..n) /\ Cardinality(1..n) = n
  <2>1. IsFiniteSet(1..n) /\ Cardinality(1..n) = IF 1 > n THEN 0 ELSE n - 1 + 1
    BY FS_Interval
  <2>2. QED
    BY <2>1
<1>2. IsFiniteSet(positions) /\ Cardinality(positions) <= n
  BY <1>1, FS_Subset
<1>3. Cardinality(positions) \in Nat
  BY <1>2, FS_CardinalityType
<1>4. ASSUME NEW i \in Int PROVE Place(i, positions) \in 0..Cardinality(positions)
  <2>. DEFINE upTo == {j \in positions : j <= i}
  <2>1. upTo \subseteq positions
    OBVIOUS
  <2>2. IsFiniteSet(upTo) /\ Cardinality(upTo) <= Cardinality(positions)
    BY <1>2, <2>1, FS_Subset
  <2>3. Cardinality(upTo) \in Nat
    BY <2>2, FS_CardinalityType
  <2>. HIDE DEF upTo
  <2>4. Cardinality(upTo) \in 0..Cardinality(positions)
    BY <1>3, <2>2, <2>3
  <2>5. QED
    BY <2>4 DEF upTo, Place
<1>5. QED
  BY <1>2, <1>3, <1>4

(* A later position among them has a greater place.                        *)
LEMMA LaterPlaceIsGreater ==
  ASSUME NEW n \in Nat, NEW positions \in SUBSET (1..n),
         NEW i \in positions, NEW j \in positions, i < j
  PROVE  Place(i, positions) < Place(j, positions)
<1>. DEFINE upTo(k) == {l \in positions : l <= k}
<1>0. \A l \in positions : l \in Int
  OBVIOUS
<1>1. upTo(i) \subseteq upTo(j) /\ j \in upTo(j) /\ j \notin upTo(i)
  <2>1. \A l \in positions : l <= i => l <= j
    BY <1>0
  <2>2. j <= j /\ ~(j <= i)
    BY <1>0
  <2>3. QED
    BY <2>1, <2>2
<1>2. IsFiniteSet(positions)
  BY PositionsAreFinite
<1>3. upTo(i) \subseteq positions /\ upTo(j) \subseteq positions
  OBVIOUS
<1>4. IsFiniteSet(upTo(i)) /\ IsFiniteSet(upTo(j))
  BY <1>2, <1>3, FS_Subset
<1>5. upTo(i) \cup {j} \subseteq upTo(j)
  BY <1>1
<1>6. Cardinality(upTo(i) \cup {j}) = Cardinality(upTo(i)) + 1
  BY <1>1, <1>4, FS_AddElement
<1>7. Cardinality(upTo(i) \cup {j}) <= Cardinality(upTo(j))
  BY <1>4, <1>5, FS_Subset
<1>8. Cardinality(upTo(i)) \in Nat /\ Cardinality(upTo(j)) \in Nat
  BY <1>4, FS_CardinalityType
<1>9. Cardinality(upTo(i)) < Cardinality(upTo(j))
  <2>. HIDE DEF upTo
  <2>1. QED
    BY <1>6, <1>7, <1>8
<1>10. QED
  BY <1>9 DEF Place

(* Every place is some position's.                                         *)
LEMMA EveryPlaceIsTaken ==
  ASSUME NEW n \in Nat, NEW positions \in SUBSET (1..n), NEW k \in 1..Cardinality(positions)
  PROVE  \E i \in positions : Place(i, positions) = k
<1>. DEFINE reached == {i \in Nat : Place(i, positions) >= k}
<1>1. Place(n, positions) = Cardinality(positions)
  <2>1. \A j \in positions : j <= n
    OBVIOUS
  <2>2. QED
    BY <2>1 DEF Place
<1>2. Cardinality(positions) \in Nat /\ \A i \in Int : Place(i, positions) \in Nat
  BY PositionsAreFinite
<1>3. n \in reached
  BY <1>1, <1>2
<1>4. PICK i \in reached : \A j \in reached : i <= j
  BY <1>3, LeastNat
<1>5. i # 0
  <2>0. \A j \in positions : ~(j <= 0)
    OBVIOUS
  <2>1. {j \in positions : j <= 0} = {}
    BY <2>0
  <2>2. Place(0, positions) = 0
    BY <2>1, FS_EmptySet DEF Place
  <2>3. QED
    BY <1>4, <2>2
<1>6. i - 1 \in Nat /\ Place(i - 1, positions) < k
  BY <1>2, <1>4, <1>5
<1>7. CASE i \in positions
  <2>. DEFINE before == {j \in positions : j <= i - 1}
  <2>0. i \in Int /\ \A j \in positions : j \in Int /\ (j <= i <=> j <= i - 1 \/ j = i)
    BY <1>4
  <2>. ~(i <= i - 1)
    BY <2>0
  <2>1. {j \in positions : j <= i} = before \cup {i} /\ i \notin before
    BY <1>7, <2>0
  <2>2. IsFiniteSet(before)
    <3>1. IsFiniteSet(positions) /\ before \subseteq positions
      BY PositionsAreFinite
    <3>2. QED
      BY <3>1, FS_Subset
  <2>3. Cardinality(before \cup {i}) = Cardinality(before) + 1
    BY <2>1, <2>2, FS_AddElement
  <2>4. Place(i, positions) = Place(i - 1, positions) + 1
    BY <2>1, <2>3 DEF Place
  <2>5. Place(i, positions) = k
    BY <1>2, <1>4, <1>6, <2>4
  <2>6. QED
    BY <1>7, <2>5
<1>8. CASE i \notin positions
  <2>0. \A j \in positions : j <= i <=> j <= i - 1
    BY <1>4, <1>8
  <2>1. {j \in positions : j <= i} = {j \in positions : j <= i - 1}
    BY <2>0
  <2>2. Place(i, positions) = Place(i - 1, positions)
    BY <2>1 DEF Place
  <2>3. QED
    BY <1>2, <1>4, <1>6, <2>2
<1>9. QED
  BY <1>7, <1>8

(***************************************************************************)
(* What a subsequence is: as long as it has positions, its elements those  *)
(* at them, each once, in the order of their positions.                    *)
(***************************************************************************)
LEMMA SubsequenceIsOrdered ==
  ASSUME NEW T, NEW s \in Seq(T), NEW positions \in SUBSET DOMAIN s
  PROVE  /\ Subsequence(s, positions) \in Seq(T)
         /\ Len(Subsequence(s, positions)) = Cardinality(positions)
         /\ Cardinality(positions) \in 0..Len(s)
         /\ \E from \in [1..Cardinality(positions) -> positions] :
              /\ \A k \in 1..Cardinality(positions) : Subsequence(s, positions)[k] = s[from[k]]
              /\ \A k, l \in 1..Cardinality(positions) : k < l => from[k] < from[l]
              /\ \A i \in positions : \E k \in 1..Cardinality(positions) : from[k] = i
<1>. DEFINE size == Cardinality(positions)
            at(k) == CHOOSE i \in positions : Place(i, positions) = k
            from == [k \in 1..size |-> at(k)]
<1>1. Len(s) \in Nat /\ DOMAIN s = 1..Len(s) /\ positions \in SUBSET (1..Len(s))
  OBVIOUS
<1>2. size \in 0..Len(s) /\ \A i \in Int : Place(i, positions) \in 0..size
  BY <1>1, PositionsAreFinite
<1>3. ASSUME NEW k \in 1..size
      PROVE  at(k) \in positions /\ Place(at(k), positions) = k
  BY <1>1, EveryPlaceIsTaken
<1>4. Subsequence(s, positions) = [k \in 1..size |-> s[at(k)]]
  BY DEF Subsequence
<1>. HIDE DEF size, at
<1>5. \A k \in 1..size : s[at(k)] \in T
  BY <1>1, <1>3
<1>6. Subsequence(s, positions) \in Seq(T) /\ Len(Subsequence(s, positions)) = size
  BY <1>2, <1>4, <1>5
<1>7. from \in [1..size -> positions]
  BY <1>3
<1>8. \A k \in 1..size : Subsequence(s, positions)[k] = s[from[k]]
  BY <1>4
<1>9. ASSUME NEW k \in 1..size, NEW l \in 1..size, k < l PROVE from[k] < from[l]
  <2>1. at(k) \in 1..Len(s) /\ at(l) \in 1..Len(s) /\ at(k) # at(l)
    BY <1>1, <1>3, <1>9
  <2>2. ~(at(l) < at(k))
    <3>1. SUFFICES ASSUME at(l) < at(k) PROVE FALSE
      OBVIOUS
    <3>2. Place(at(l), positions) < Place(at(k), positions)
      BY <1>1, <1>3, <3>1, LaterPlaceIsGreater
    <3>3. QED
      BY <1>2, <1>3, <1>9, <3>2
  <2>3. QED
    BY <2>1, <2>2
<1>10. ASSUME NEW i \in positions PROVE \E k \in 1..size : from[k] = i
  <2>. DEFINE k == Place(i, positions)
  <2>1. k \in 1..size
    <3>1. i \in Int /\ k \in 0..size
      BY <1>1, <1>2
    <3>2. k # 0
      <4>1. {j \in positions : j <= i} # {}
        BY <1>1
      <4>2. IsFiniteSet({j \in positions : j <= i})
        <5>1. IsFiniteSet(positions) /\ {j \in positions : j <= i} \subseteq positions
          BY <1>1, PositionsAreFinite
        <5>2. QED
          BY <5>1, FS_Subset
      <4>3. QED
        BY <4>1, <4>2, FS_EmptySet DEF Place
    <3>3. QED
      BY <1>2, <3>1, <3>2
  <2>2. at(k) \in positions /\ Place(at(k), positions) = Place(i, positions)
    BY <1>3, <2>1
  <2>3. at(k) = i
    <3>1. at(k) \in 1..Len(s) /\ i \in 1..Len(s)
      BY <1>1, <2>2
    <3>2. ~(at(k) < i) /\ ~(i < at(k))
      <4>1. ASSUME at(k) < i PROVE FALSE
        <5>1. Place(at(k), positions) < Place(i, positions)
          BY <1>1, <2>2, <4>1, LaterPlaceIsGreater
        <5>2. QED
          BY <1>2, <2>1, <2>2, <5>1
      <4>2. ASSUME i < at(k) PROVE FALSE
        <5>1. Place(i, positions) < Place(at(k), positions)
          BY <1>1, <2>2, <4>2, LaterPlaceIsGreater
        <5>2. QED
          BY <1>2, <2>1, <2>2, <5>1
      <4>3. QED
        BY <4>1, <4>2
    <3>3. QED
      BY <3>1, <3>2
  <2>4. QED
    BY <2>1, <2>3
<1>11. QED
  BY <1>2, <1>6, <1>7, <1>8, <1>9, <1>10 DEF size
=============================================================================
