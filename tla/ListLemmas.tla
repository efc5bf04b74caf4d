------------------------------ MODULE ListLemmas ------------------------------
(***************************************************************************)
(* Lemmas about numbers and sequences that the proofs share. Induction is  *)
(* used in the form of the least number of a set.                          *)
(***************************************************************************)
EXTENDS Lists, SequencesExt, FiniteSetsExt, FiniteSetTheorems, SequenceTheorems,
        WellFoundedInduction, TLAPS

Less == {p \in Nat \X Nat : p[1] < p[2]}

\* Every set of natural numbers has a least element.
LEMMA LeastNat ==
  ASSUME NEW T \in SUBSET Nat, T # {}
  PROVE  \E x \in T : \A y \in T : x <= y
<1>1. Less = OpToRel(<, Nat)
  BY DEF Less, OpToRel
<1>2. IsWellFoundedOn(Less, Nat)
  BY <1>1, NatLessThanWellFounded
<1>3. PICK x \in T : \A y \in T : ~(<<y, x>> \in Less)
  BY <1>2, WFMin
<1>4. \A y \in T : ~(y < x)
  BY <1>3 DEF Less
<1> QED
  BY <1>4

\* Induction over the natural numbers, for a set of them.
LEMMA NatSetInduction ==
  ASSUME NEW S, 0 \in S, \A n \in Nat : n \in S => n + 1 \in S
  PROVE  \A n \in Nat : n \in S
<1> SUFFICES ASSUME NEW m \in Nat, m \notin S PROVE FALSE
  OBVIOUS
<1> DEFINE T == Nat \ S
<1>1. PICK x \in T : \A y \in T : x <= y
  BY LeastNat
<1>2. x # 0 /\ x - 1 \in Nat
  OBVIOUS
<1>3. x - 1 \in S
  BY <1>1, <1>2
<1> QED BY <1>2, <1>3

\* Min of a set of natural numbers.
LEMMA MinOfNats ==
  ASSUME NEW T \in SUBSET Nat, T # {}
  PROVE  Min(T) \in T /\ \A y \in T : Min(T) <= y
<1>1. \E x \in T : \A y \in T : x <= y
  BY LeastNat
<1> QED
  BY <1>1 DEF Min

\* What a search among the first N positions returns: 0 when there is no hit.
LEMMA FirstHit ==
  ASSUME NEW N \in Nat, NEW hits \in SUBSET (1..N), NEW i,
         i = IF hits # {} THEN Min(hits) ELSE 0
  PROVE  /\ i \in Nat
         /\ i = 0 => hits = {}
         /\ i # 0 => i \in hits /\ \A j \in hits : i <= j
<1>1. CASE hits = {}
  BY <1>1
<1>2. CASE hits # {}
  <2>1. hits \in SUBSET Nat /\ \A j \in hits : j # 0
    OBVIOUS
  <2>2. Min(hits) \in hits /\ \A j \in hits : Min(hits) <= j
    BY <1>2, <2>1, MinOfNats
  <2> QED
    BY <1>2, <2>1, <2>2
<1> QED
  BY <1>1, <1>2

\* Taking an element out of a sequence moves up the ones behind it.
LEMMA RemoveAtElements ==
  ASSUME NEW S, NEW q \in Seq(S), NEW i \in DOMAIN q
  PROVE  /\ RemoveAt(q, i) \in Seq(S) /\ Len(RemoveAt(q, i)) = Len(q) - 1
         /\ \A j \in DOMAIN RemoveAt(q, i) :
              /\ j \in DOMAIN q /\ j + 1 \in DOMAIN q
              /\ RemoveAt(q, i)[j] = IF j < i THEN q[j] ELSE q[j + 1]
<1> DEFINE a == SubSeq(q, 1, i - 1)
           b == SubSeq(q, i + 1, Len(q))
<1>1. i \in 1..Len(q) /\ Len(q) \in Nat
  OBVIOUS
<1>2. a \in Seq(S) /\ Len(a) = i - 1 /\ \A j \in 1..(i - 1) : a[j] = q[j]
  BY <1>1
<1>3. b \in Seq(S) /\ Len(b) = Len(q) - i /\ \A j \in 1..(Len(q) - i) : b[j] = q[j + i]
  BY <1>1
<1>4. RemoveAt(q, i) = a \o b
  BY DEF RemoveAt
<1> HIDE DEF a, b
<1>5. a \o b \in Seq(S) /\ Len(a \o b) = Len(q) - 1 /\ DOMAIN (a \o b) = 1..(Len(q) - 1)
  BY <1>1, <1>2, <1>3
<1>6. \A j \in 1..(Len(q) - 1) : (a \o b)[j] = IF j < i THEN q[j] ELSE q[j + 1]
  <2> SUFFICES ASSUME NEW j \in 1..(Len(q) - 1)
               PROVE  (a \o b)[j] = IF j < i THEN q[j] ELSE q[j + 1]
    OBVIOUS
  <2>1. CASE j < i
    BY <2>1, <1>1, <1>2, <1>3
  <2>2. CASE ~(j < i)
    <3>1. j - (i - 1) \in 1..(Len(q) - i) /\ j - (i - 1) + i = j + 1
      BY <2>2, <1>1
    <3>2. j \in (Len(a) + 1)..(Len(a) + Len(b)) /\ j - Len(a) = j - (i - 1)
      BY <2>2, <1>1, <1>2, <1>3
    <3>3. (a \o b)[j] = b[j - Len(a)]
      <4>1. a \in Seq(S) /\ b \in Seq(S)
        BY <1>2, <1>3
      <4>2. \A k \in 1..(Len(a) + Len(b)) :
              (a \o b)[k] = IF k <= Len(a) THEN a[k] ELSE b[k - Len(a)]
        BY <4>1, ConcatProperties
      <4>3. j \in 1..(Len(a) + Len(b)) /\ ~(j <= Len(a))
        BY <3>2, <1>1, <1>2, <1>3
      <4> QED
        BY <4>2, <4>3
    <3> QED
      BY <2>2, <3>1, <3>2, <3>3, <1>3
  <2> QED
    BY <2>1, <2>2
<1>7. \A j \in 1..(Len(q) - 1) : j \in DOMAIN q /\ j + 1 \in DOMAIN q
  BY <1>1
<1> QED
  BY <1>4, <1>5, <1>6, <1>7

\* Putting an element into a sequence moves down the ones from its place on.
LEMMA InsertAtElements ==
  ASSUME NEW S, NEW q \in Seq(S), NEW x \in S, NEW i \in 1..(Len(q) + 1)
  PROVE  /\ InsertAt(q, i, x) \in Seq(S) /\ Len(InsertAt(q, i, x)) = Len(q) + 1
         /\ InsertAt(q, i, x)[i] = x
         /\ \A j \in 1..(Len(q) + 1) :
              /\ j < i => j \in DOMAIN q /\ InsertAt(q, i, x)[j] = q[j]
              /\ j > i => j - 1 \in DOMAIN q /\ InsertAt(q, i, x)[j] = q[j - 1]
<1> DEFINE a == SubSeq(q, 1, i - 1)
           b == SubSeq(q, i, Len(q))
<1>1. Len(q) \in Nat /\ DOMAIN q = 1..Len(q) /\ i \in Nat /\ 1 <= i /\ i <= Len(q) + 1
  OBVIOUS
<1>2. a \in Seq(S) /\ Len(a) = i - 1 /\ \A j \in 1..(i - 1) : a[j] = q[j]
  BY <1>1
<1>3. b \in Seq(S) /\ Len(b) = Len(q) - i + 1
      /\ \A j \in 1..(Len(q) - i + 1) : b[j] = q[j + i - 1]
  BY <1>1
<1>4. InsertAt(q, i, x) = a \o <<x>> \o b
  BY DEF InsertAt
<1> HIDE DEF a, b
<1>5. <<x>> \in Seq(S) /\ Len(<<x>>) = 1 /\ <<x>>[1] = x
  OBVIOUS
<1>6. /\ a \o <<x>> \in Seq(S) /\ Len(a \o <<x>>) = i
      /\ \A j \in 1..i : (a \o <<x>>)[j] = IF j <= i - 1 THEN a[j] ELSE <<x>>[j - (i - 1)]
  BY <1>1, <1>2, <1>5, ConcatProperties
<1> DEFINE c == a \o <<x>>
<1>7. c[i] = x /\ \A j \in 1..(i - 1) : c[j] = q[j]
  BY <1>1, <1>2, <1>5, <1>6
<1>8. c \in Seq(S) /\ Len(c) = i
  BY <1>6
<1> HIDE DEF c
<1>9. /\ c \o b \in Seq(S) /\ Len(c \o b) = i + (Len(q) - i + 1)
      /\ \A j \in 1..(i + (Len(q) - i + 1)) :
           (c \o b)[j] = IF j <= i THEN c[j] ELSE b[j - i]
  BY <1>3, <1>8, ConcatProperties
<1>10. i + (Len(q) - i + 1) = Len(q) + 1
  BY <1>1
<1>11. (c \o b)[i] = x
  BY <1>1, <1>7, <1>9, <1>10
<1>12. ASSUME NEW j \in 1..(Len(q) + 1)
       PROVE  /\ j < i => j \in DOMAIN q /\ (c \o b)[j] = q[j]
              /\ j > i => j - 1 \in DOMAIN q /\ (c \o b)[j] = q[j - 1]
  <2>1. ASSUME j < i PROVE j \in DOMAIN q /\ (c \o b)[j] = q[j]
    BY <1>1, <1>7, <1>9, <1>10, <2>1
  <2>2. ASSUME j > i PROVE j - 1 \in DOMAIN q /\ (c \o b)[j] = q[j - 1]
    <3>1. j - i \in 1..(Len(q) - i + 1) /\ j - i + i - 1 = j - 1 /\ j - 1 \in 1..Len(q)
      BY <1>1, <2>2
    <3>2. b[j - i] = q[j - 1]
      BY <1>3, <3>1
    <3> QED
      BY <1>1, <1>9, <1>10, <2>2, <3>1, <3>2
  <2> QED
    BY <2>1, <2>2
<1>13. InsertAt(q, i, x) = c \o b
  BY <1>4 DEF c
<1> QED
  BY <1>9, <1>10, <1>11, <1>12, <1>13

\* An element put in front of a sequence moves the others down.
LEMMA ConsElements ==
  ASSUME NEW S, NEW q \in Seq(S), NEW x \in S
  PROVE  /\ <<x>> \o q \in Seq(S) /\ Len(<<x>> \o q) = Len(q) + 1
         /\ (<<x>> \o q)[1] = x
         /\ \A i \in 1..Len(q) : (<<x>> \o q)[i + 1] = q[i]
         /\ \A i \in 2..(Len(q) + 1) : i - 1 \in 1..Len(q) /\ (<<x>> \o q)[i] = q[i - 1]
<1>1. <<x>> \in Seq(S) /\ Len(<<x>>) = 1 /\ <<x>>[1] = x /\ Len(q) \in Nat
  OBVIOUS
<1>2. /\ <<x>> \o q \in Seq(S)
      /\ Len(<<x>> \o q) = Len(<<x>>) + Len(q)
      /\ \A i \in 1..(Len(<<x>>) + Len(q)) :
           (<<x>> \o q)[i] = IF i <= Len(<<x>>) THEN <<x>>[i] ELSE q[i - Len(<<x>>)]
  BY <1>1, ConcatProperties
<1>3. \A i \in 1..(1 + Len(q)) : (<<x>> \o q)[i] = IF i <= 1 THEN <<x>>[i] ELSE q[i - 1]
  BY <1>1, <1>2
<1>4. (<<x>> \o q)[1] = x
  BY <1>1, <1>3
<1>5. \A i \in 1..Len(q) : (<<x>> \o q)[i + 1] = q[i]
  <2> SUFFICES ASSUME NEW i \in 1..Len(q) PROVE (<<x>> \o q)[i + 1] = q[i]
    OBVIOUS
  <2>1. i + 1 \in 1..(1 + Len(q)) /\ ~(i + 1 <= 1) /\ i + 1 - 1 = i
    BY <1>1
  <2> QED
    BY <1>3, <2>1
<1>6. \A i \in 2..(Len(q) + 1) : i - 1 \in 1..Len(q) /\ (<<x>> \o q)[i] = q[i - 1]
  <2> SUFFICES ASSUME NEW i \in 2..(Len(q) + 1)
               PROVE  i - 1 \in 1..Len(q) /\ (<<x>> \o q)[i] = q[i - 1]
    OBVIOUS
  <2>1. i - 1 \in 1..Len(q) /\ i \in 1..(1 + Len(q)) /\ ~(i <= 1)
    BY <1>1
  <2> QED
    BY <1>3, <2>1
<1>7. Len(<<x>> \o q) = Len(q) + 1
  BY <1>1, <1>2
<1> QED
  BY <1>2, <1>4, <1>5, <1>6, <1>7

\* What is left of a sequence is from it, and all but the one element is left.
LEMMA RemoveAtKeeps ==
  ASSUME NEW S, NEW q \in Seq(S), NEW i \in DOMAIN q
  PROVE  \A j \in DOMAIN q : j # i =>
           \E k \in DOMAIN RemoveAt(q, i) : RemoveAt(q, i)[k] = q[j]
<1> SUFFICES ASSUME NEW j \in DOMAIN q, j # i
             PROVE  \E k \in DOMAIN RemoveAt(q, i) : RemoveAt(q, i)[k] = q[j]
  OBVIOUS
<1> DEFINE k == IF j < i THEN j ELSE j - 1
<1>1. DOMAIN RemoveAt(q, i) = 1..(Len(q) - 1)
  BY RemoveAtElements
<1>2. k \in 1..(Len(q) - 1)
  OBVIOUS
<1>3. RemoveAt(q, i)[k] = IF k < i THEN q[k] ELSE q[k + 1]
  BY <1>1, <1>2, RemoveAtElements
<1>4. (IF k < i THEN q[k] ELSE q[k + 1]) = q[j]
  OBVIOUS
<1> QED
  BY <1>1, <1>2, <1>3, <1>4
-----------------------------------------------------------------------------
UpTo(S, n) == {x \in S : x <= n}

\* Subsets of an interval are finite sets of numbers.
LEMMA SubsetOfInterval ==
  ASSUME NEW N \in Nat, NEW S \in SUBSET (1..N)
  PROVE  /\ IsFiniteSet(S) /\ Cardinality(S) \in Nat
         /\ \A x \in S : x \in Nat /\ 1 <= x /\ x <= N
         /\ \A T \in SUBSET S : T \in SUBSET (1..N)
<1>1. IsFiniteSet(1..N)
  BY FS_Interval
<1>2. IsFiniteSet(S)
  BY <1>1, FS_Subset
<1>3. Cardinality(S) \in Nat
  BY <1>2, FS_CardinalityType
<1>4. \A x \in S : x \in Nat /\ 1 <= x /\ x <= N
  OBVIOUS
<1> QED
  BY <1>2, <1>3, <1>4

\* The number of elements up to a number grows with the number.
LEMMA UpToGrows ==
  ASSUME NEW N \in Nat, NEW S \in SUBSET (1..N), NEW m \in Nat, NEW n \in Nat, m <= n
  PROVE  /\ Cardinality(UpTo(S, m)) \in Nat /\ Cardinality(UpTo(S, n)) \in Nat
         /\ Cardinality(UpTo(S, m)) <= Cardinality(UpTo(S, n))
         /\ n \in S /\ m < n => Cardinality(UpTo(S, m)) < Cardinality(UpTo(S, n))
<1>1. IsFiniteSet(S) /\ IsFiniteSet(UpTo(S, m)) /\ IsFiniteSet(UpTo(S, n))
  <2>1. UpTo(S, m) \in SUBSET S /\ UpTo(S, n) \in SUBSET S
    BY DEF UpTo
  <2> QED
    BY <2>1, SubsetOfInterval, FS_Subset
<1>2. UpTo(S, m) \in SUBSET UpTo(S, n)
  <2>1. \A x \in S : x \in Nat
    BY SubsetOfInterval
  <2>2. \A x \in S : x <= m => x <= n
    BY <2>1
  <2> QED
    BY <2>2, Zenon DEF UpTo
<1>3. n \in S /\ m < n => UpTo(S, m) # UpTo(S, n)
  BY DEF UpTo
<1>4. Cardinality(UpTo(S, m)) \in Nat /\ Cardinality(UpTo(S, n)) \in Nat
  BY <1>1, FS_CardinalityType
<1>5. /\ Cardinality(UpTo(S, m)) <= Cardinality(UpTo(S, n))
      /\ Cardinality(UpTo(S, n)) = Cardinality(UpTo(S, m)) => UpTo(S, n) = UpTo(S, m)
  BY <1>1, <1>2, FS_Subset
<1> QED
  BY <1>3, <1>4, <1>5

\* The j-th smallest element exists.
LEMMA NthElement ==
  ASSUME NEW N \in Nat, NEW S \in SUBSET (1..N), NEW j \in 1..Cardinality(S)
  PROVE  Nth(S, j) \in S /\ Cardinality(UpTo(S, Nth(S, j))) = j
<1> DEFINE T == {n \in Nat : j <= Cardinality(UpTo(S, n))}
<1>1. IsFiniteSet(S) /\ Cardinality(S) \in Nat /\ \A x \in S : x \in Nat /\ 1 <= x /\ x <= N
  BY SubsetOfInterval
<1>2. N \in T
  <2>1. UpTo(S, N) = S
    BY <1>1 DEF UpTo
  <2> QED
    BY <2>1, <1>1
<1>3. PICK n \in T : \A m \in T : n <= m
  BY <1>2, LeastNat
<1>4. n > 0
  <2>1. UpTo(S, 0) = {}
    <3>1. \A x \in S : ~(x <= 0)
      BY <1>1
    <3> QED
      BY <3>1, Zenon DEF UpTo
  <2>2. Cardinality(UpTo(S, 0)) = 0
    BY <2>1, FS_EmptySet
  <2> QED
    BY <1>1, <1>3, <2>2
<1>5. n - 1 \in Nat /\ n - 1 \notin T
  BY <1>3, <1>4
<1>6. Cardinality(UpTo(S, n - 1)) \in Nat /\ Cardinality(UpTo(S, n)) \in Nat
  <2>1. n \in Nat /\ n - 1 <= n
    BY <1>3
  <2> QED
    BY <1>5, <2>1, UpToGrows
<1>7. IsFiniteSet(UpTo(S, n - 1))
  BY <1>1, FS_Subset DEF UpTo
<1>8. n \in S
  <2> SUFFICES ASSUME n \notin S PROVE FALSE
    OBVIOUS
  <2>1. \A x \in S : x <= n <=> x <= n - 1
    <3>1. n \in Nat
      BY <1>3
    <3> QED
      BY <1>1, <3>1
  <2>2. UpTo(S, n) = UpTo(S, n - 1)
    BY <2>1, Zenon DEF UpTo
  <2> QED
    BY <1>3, <1>5, <2>2
<1>9. UpTo(S, n) = UpTo(S, n - 1) \cup {n} /\ n \notin UpTo(S, n - 1)
  <2>1. n \in Nat
    BY <1>3
  <2>2. (\A x \in S : x <= n <=> x <= n - 1 \/ x = n) /\ ~(n <= n - 1)
    BY <1>1, <2>1
  <2> QED
    BY <1>8, <2>2, Zenon DEF UpTo
<1>10. Cardinality(UpTo(S, n)) = Cardinality(UpTo(S, n - 1)) + 1
  BY <1>7, <1>9, FS_AddElement
<1>11. Cardinality(UpTo(S, n)) = j
  BY <1>1, <1>3, <1>5, <1>6, <1>10
<1> QED
  BY <1>8, <1>11 DEF Nth, UpTo

\* Smaller ranks, smaller elements; and every element has a rank.
LEMMA NthOrdered ==
  ASSUME NEW N \in Nat, NEW S \in SUBSET (1..N),
         NEW i \in 1..Cardinality(S), NEW j \in 1..Cardinality(S), i < j
  PROVE  Nth(S, i) < Nth(S, j)
<1>1. /\ Nth(S, i) \in S /\ Cardinality(UpTo(S, Nth(S, i))) = i
      /\ Nth(S, j) \in S /\ Cardinality(UpTo(S, Nth(S, j))) = j
  BY NthElement
<1>2. Nth(S, i) \in Nat /\ Nth(S, j) \in Nat
  BY <1>1, SubsetOfInterval
<1>3. ~(Nth(S, j) <= Nth(S, i))
  <2> SUFFICES ASSUME Nth(S, j) <= Nth(S, i) PROVE FALSE
    OBVIOUS
  <2>1. j <= i
    BY <1>1, <1>2, UpToGrows
  <2> QED
    BY <2>1
<1> QED
  BY <1>2, <1>3

\* Every element of a set is the n-th one for some n.
LEMMA NthOfAll ==
  ASSUME NEW N \in Nat, NEW S \in SUBSET (1..N), NEW x \in S
  PROVE  \E j \in 1..Cardinality(S) : Nth(S, j) = x
<1> DEFINE j == Cardinality(UpTo(S, x))
<1>1. j \in 1..Cardinality(S)
  <2>1. IsFiniteSet(S) /\ UpTo(S, x) \in SUBSET S
    BY SubsetOfInterval DEF UpTo
  <2>2. j \in Nat /\ j <= Cardinality(S) /\ Cardinality(S) \in Nat /\ IsFiniteSet(UpTo(S, x))
    BY <2>1, FS_Subset, FS_CardinalityType
  <2>3. UpTo(S, x) # {}
    BY DEF UpTo
  <2>4. j # 0
    BY <2>2, <2>3, FS_EmptySet
  <2> QED
    BY <2>2, <2>4
<1> HIDE DEF j
<1>2. Nth(S, j) \in S /\ Cardinality(UpTo(S, Nth(S, j))) = j
  BY <1>1, NthElement
<1>3. Nth(S, j) \in Nat /\ x \in Nat
  BY <1>2, SubsetOfInterval
<1>4. Cardinality(UpTo(S, x)) = j
  BY DEF j
<1>5. ~(Nth(S, j) < x)
  <2> SUFFICES ASSUME Nth(S, j) < x PROVE FALSE
    OBVIOUS
  <2>1. Nth(S, j) <= x
    BY <1>3
  <2>2. Cardinality(UpTo(S, Nth(S, j))) < Cardinality(UpTo(S, x))
    BY <1>3, <2>1, UpToGrows
  <2> QED
    BY <1>1, <1>2, <1>4, <2>2
<1>6. ~(x < Nth(S, j))
  <2> SUFFICES ASSUME x < Nth(S, j) PROVE FALSE
    OBVIOUS
  <2>1. x <= Nth(S, j)
    BY <1>3
  <2>2. Cardinality(UpTo(S, x)) < Cardinality(UpTo(S, Nth(S, j)))
    BY <1>2, <1>3, <2>1, UpToGrows
  <2> QED
    BY <1>1, <1>2, <1>4, <2>2
<1>7. Nth(S, j) = x
  BY <1>3, <1>5, <1>6
<1> QED
  BY <1>1, <1>7

\* What Keep returns: the elements at the positions in K, each once, in order.
LEMMA KeepElements ==
  ASSUME NEW S, NEW q \in Seq(S), NEW K \in SUBSET (DOMAIN q)
  PROVE  /\ Keep(q, K) \in Seq(S)
         /\ \A j \in DOMAIN Keep(q, K) : Nth(K, j) \in K /\ Keep(q, K)[j] = q[Nth(K, j)]
         /\ \A i, j \in DOMAIN Keep(q, K) : i < j => Nth(K, i) < Nth(K, j)
         /\ \A i \in K : \E j \in DOMAIN Keep(q, K) : Nth(K, j) = i
<1>1. Len(q) \in Nat /\ K \in SUBSET (1..Len(q))
  OBVIOUS
<1>2. IsFiniteSet(K) /\ Cardinality(K) \in Nat
  BY <1>1, SubsetOfInterval
<1>3. DOMAIN Keep(q, K) = 1..Cardinality(K)
  BY DEF Keep
<1>4. \A j \in 1..Cardinality(K) : Nth(K, j) \in K
  BY <1>1, NthElement
<1>5. \A j \in 1..Cardinality(K) : q[Nth(K, j)] \in S
  BY <1>1, <1>4
<1>6. Keep(q, K) \in Seq(S)
  BY <1>2, <1>5 DEF Keep
<1>7. \A i, j \in 1..Cardinality(K) : i < j => Nth(K, i) < Nth(K, j)
  BY <1>1, NthOrdered
<1>8. \A i \in K : \E j \in 1..Cardinality(K) : Nth(K, j) = i
  BY <1>1, NthOfAll
<1> QED
  BY <1>3, <1>4, <1>6, <1>7, <1>8 DEF Keep
-----------------------------------------------------------------------------
\* A prefix agrees with the sequence as far as it goes.
LEMMA PrefixElements ==
  ASSUME NEW S, NEW s \in Seq(S), NEW t \in Seq(S)
  PROVE  IsPrefix(s, t) <=> Len(s) <= Len(t) /\ \A k \in 1..Len(s) : s[k] = t[k]
<1>1. SubSeq(s, 1, Len(s)) = s
  BY SubSeqFull
<1>2. ASSUME Len(s) <= Len(t)
      PROVE  /\ SubSeq(t, 1, Len(s)) \in Seq(S) /\ Len(SubSeq(t, 1, Len(s))) = Len(s)
             /\ \A k \in 1..Len(s) : SubSeq(t, 1, Len(s))[k] = t[k]
  BY <1>2
<1>3. ASSUME Len(s) <= Len(t), \A k \in 1..Len(s) : s[k] = t[k]
      PROVE  SubSeq(t, 1, Len(s)) = s
  BY <1>2, <1>3, SeqEqual
<1> QED
  BY <1>1, <1>2, <1>3 DEF IsPrefix

\* Of two prefixes of a sequence one is a prefix of the other.
LEMMA PrefixesComparable ==
  ASSUME NEW S, NEW s \in Seq(S), NEW t \in Seq(S), NEW r \in Seq(S),
         IsPrefix(s, r), IsPrefix(t, r)
  PROVE  IF Len(s) <= Len(t) THEN IsPrefix(s, t) ELSE IsPrefix(t, s)
<1>1. Len(s) \in Nat /\ Len(t) \in Nat
  OBVIOUS
<1>2. \A k \in 1..Len(s) : s[k] = r[k]
  BY PrefixElements
<1>3. \A k \in 1..Len(t) : t[k] = r[k]
  BY PrefixElements
<1>4. CASE Len(s) <= Len(t)
  <2>1. \A k \in 1..Len(s) : s[k] = t[k]
    BY <1>1, <1>2, <1>3, <1>4
  <2> QED
    BY <1>4, <2>1, PrefixElements
<1>5. CASE ~(Len(s) <= Len(t))
  <2>1. Len(t) <= Len(s) /\ \A k \in 1..Len(t) : t[k] = s[k]
    BY <1>1, <1>2, <1>3, <1>5
  <2> QED
    BY <1>5, <2>1, PrefixElements
<1> QED
  BY <1>4, <1>5

\* A prefix of a prefix is a prefix.
LEMMA PrefixTransitive ==
  ASSUME NEW S, NEW s \in Seq(S), NEW t \in Seq(S), NEW r \in Seq(S),
         IsPrefix(s, t), IsPrefix(t, r)
  PROVE  IsPrefix(s, r)
<1>1. Len(s) \in Nat /\ Len(t) \in Nat /\ Len(r) \in Nat
  OBVIOUS
<1>2. /\ Len(s) <= Len(t) /\ \A k \in 1..Len(s) : s[k] = t[k]
      /\ Len(t) <= Len(r) /\ \A k \in 1..Len(t) : t[k] = r[k]
  BY PrefixElements
<1>3. Len(s) <= Len(r) /\ \A k \in 1..Len(s) : s[k] = r[k]
  BY <1>1, <1>2
<1> QED
  BY <1>3, PrefixElements
===============================================================================
