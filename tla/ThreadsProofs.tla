---------------------------- MODULE ThreadsProofs ----------------------------
(***************************************************************************)
(* Lemmas about the list operators of module Threads.                      *)
(***************************************************************************)
EXTENDS Threads, SequenceTheorems, WellFoundedInduction, TLAPS

\* Zero is not greater than itself: blocked_ticks of a thread that does not sleep.
LEMMA ZeroNotPositive == ~(0 > 0)
OBVIOUS

\* The library's least-element principle, for sets of natural numbers.
LEMMA LeastNat ==
  ASSUME NEW S \in SUBSET Nat, S # {}
  PROVE  \E m \in S : \A n \in S : m <= n
<1>1. \E m \in S : \A n \in S : ~ (<<n, m>> \in OpToRel(<, Nat))
  BY NatLessThanWellFounded, WFMin
<1>2. \A m, n \in Nat : n < m => <<n, m>> \in OpToRel(<, Nat)
  BY DEF OpToRel
<1>3. PICK m \in S : \A n \in S : ~ (<<n, m>> \in OpToRel(<, Nat))
  BY <1>1
<1>4. \A n \in S : ~(n < m)
  BY <1>2, <1>3
<1>5. QED
  BY <1>4

\* A bounded set of natural numbers that is not empty has a greatest element.
LEMMA GreatestNat ==
  ASSUME NEW b \in Nat, NEW S \in SUBSET (0..b), S # {}
  PROVE  \E m \in S : \A n \in S : m >= n
<1> DEFINE D == {b - n : n \in S}
<1>1. D \in SUBSET Nat
  OBVIOUS
<1>2. PICK s \in S : TRUE
  OBVIOUS
<1>3. b - s \in D
  OBVIOUS
<1>4. PICK d \in D : \A e \in D : d <= e
  BY <1>1, <1>3, LeastNat
<1>5. PICK m \in S : d = b - m
  OBVIOUS
<1>6. ASSUME NEW n \in S PROVE m >= n
  <2>1. b - n \in D
    OBVIOUS
  <2>2. b - m <= b - n
    BY <1>4, <1>5, <2>1
  <2>3. m \in Int /\ n \in Int /\ b \in Int
    OBVIOUS
  <2>4. QED
    BY ONLY <2>2, <2>3
<1>7. QED
  BY <1>6

\* What ListInsert() makes of a sequence, element by element.
LEMMA ListInsertElements ==
  ASSUME NEW q \in Seq(Thread), NEW t \in Thread, NEW i \in 1..(Len(q) + 1)
  PROVE  /\ ListInsert(q, i, t) \in Seq(Thread)
         /\ Len(ListInsert(q, i, t)) = Len(q) + 1
         /\ \A j \in 1..(Len(q) + 1) :
              ListInsert(q, i, t)[j] = IF j < i THEN q[j] ELSE IF j = i THEN t ELSE q[j - 1]
<1> DEFINE a == SubSeq(q, 1, i - 1)
           b == SubSeq(q, i, Len(q))
<1>1. Len(q) \in Nat /\ i \in Int
  OBVIOUS
<1>2. a \in Seq(Thread) /\ Len(a) = i - 1 /\ \A j \in 1..(i - 1) : a[j] = q[j]
  BY <1>1
<1>3. b \in Seq(Thread) /\ Len(b) = Len(q) - i + 1 /\ \A j \in 1..(Len(q) - i + 1) : b[j] = q[i + j - 1]
  BY <1>1
<1> DEFINE c == a \o <<t>>
           r == c \o b
<1>4. c \in Seq(Thread) /\ Len(c) = i /\ \A j \in 1..i : c[j] = IF j < i THEN q[j] ELSE t
  BY <1>2
<1>5. r = ListInsert(q, i, t)
  BY DEF ListInsert
<1> HIDE DEF a, b, c
<1>6. /\ r \in Seq(Thread)
      /\ Len(r) = Len(c) + Len(b)
      /\ \A j \in 1..(Len(c) + Len(b)) : r[j] = IF j <= Len(c) THEN c[j] ELSE b[j - Len(c)]
  BY <1>3, <1>4, ConcatProperties
<1> HIDE DEF r
<1>7. ASSUME NEW j \in 1..(Len(q) + 1)
      PROVE  r[j] = IF j < i THEN q[j] ELSE IF j = i THEN t ELSE q[j - 1]
  <2>1. CASE j <= i
    BY <1>1, <1>3, <1>4, <1>6, <2>1
  <2>2. CASE j > i
    <3>1. r[j] = b[j - i] /\ j - i \in 1..(Len(q) - i + 1)
      BY <1>1, <1>3, <1>4, <1>6, <2>2
    <3>2. b[j - i] = q[i + (j - i) - 1] /\ i + (j - i) - 1 = j - 1
      BY <1>1, <1>3, <3>1
    <3>3. QED BY <1>1, <2>2, <3>1, <3>2
  <2>3. QED BY <1>1, <2>1, <2>2
<1>8. QED
  BY <1>1, <1>3, <1>4, <1>5, <1>6, <1>7

\* What ListRemoveAt() makes of a sequence, element by element.
LEMMA ListRemoveAtElements ==
  ASSUME NEW q \in Seq(Thread), NEW i \in 1..Len(q)
  PROVE  /\ ListRemoveAt(q, i) \in Seq(Thread)
         /\ Len(ListRemoveAt(q, i)) = Len(q) - 1
         /\ \A j \in 1..(Len(q) - 1) :
              ListRemoveAt(q, i)[j] = IF j < i THEN q[j] ELSE q[j + 1]
<1> DEFINE a == SubSeq(q, 1, i - 1)
           b == SubSeq(q, i + 1, Len(q))
<1>1. Len(q) \in Nat /\ i \in Int
  OBVIOUS
<1>2. a \in Seq(Thread) /\ Len(a) = i - 1 /\ \A j \in 1..(i - 1) : a[j] = q[j]
  BY <1>1
<1>3. b \in Seq(Thread) /\ Len(b) = Len(q) - i /\ \A j \in 1..(Len(q) - i) : b[j] = q[i + j]
  BY <1>1
<1> DEFINE r == a \o b
<1>4. ListRemoveAt(q, i) = r
  BY DEF ListRemoveAt
<1> HIDE DEF a, b
<1>5. /\ r \in Seq(Thread)
      /\ Len(r) = Len(a) + Len(b)
      /\ \A j \in 1..(Len(a) + Len(b)) : r[j] = IF j <= Len(a) THEN a[j] ELSE b[j - Len(a)]
  BY <1>2, <1>3, ConcatProperties
<1> HIDE DEF r
<1>6. ASSUME NEW j \in 1..(Len(q) - 1)
      PROVE  r[j] = IF j < i THEN q[j] ELSE q[j + 1]
  <2>1. CASE j < i
    BY <1>1, <1>2, <1>3, <1>5, <2>1
  <2>2. CASE j >= i
    <3>0. j \in 1..(Len(a) + Len(b)) /\ ~(j <= Len(a)) /\ Len(a) = i - 1
      BY <1>1, <1>2, <1>3, <2>2
    <3>1. r[j] = b[j - (i - 1)] /\ j - (i - 1) \in 1..(Len(q) - i)
      BY <1>1, <1>5, <2>2, <3>0
    <3>2. b[j - (i - 1)] = q[i + (j - (i - 1))] /\ i + (j - (i - 1)) = j + 1
      BY <1>1, <1>3, <3>1
    <3>3. QED BY <1>1, <2>2, <3>1, <3>2
  <2>3. QED BY <1>1, <2>1, <2>2
<1>7. QED
  BY <1>1, <1>2, <1>3, <1>4, <1>5, <1>6

\* list_insert_ordered() finds a place: the search stops at the first element of
\* lower priority or at the end.
LEMMA InsertIndexFound ==
  ASSUME NEW q \in Seq(Thread), NEW t \in Thread, NEW pri \in [Thread -> Int]
  PROVE  /\ InsertIndex(q, t, pri) \in 1..(Len(q) + 1)
         /\ \A j \in 1..(InsertIndex(q, t, pri) - 1) : pri[q[j]] >= pri[t]
         /\ InsertIndex(q, t, pri) <= Len(q) => pri[q[InsertIndex(q, t, pri)]] < pri[t]
<1> DEFINE C == {i \in 1..(Len(q) + 1) : i <= Len(q) => pri[q[i]] < pri[t]}
           P(i) == /\ \A j \in 1..(i - 1) : pri[q[j]] >= pri[t]
                   /\ i <= Len(q) => pri[q[i]] < pri[t]
<1>1. Len(q) \in Nat /\ \A j \in 1..Len(q) : q[j] \in Thread
  OBVIOUS
<1>2. C \in SUBSET Nat /\ Len(q) + 1 \in C
  BY <1>1
<1>3. PICK m \in C : \A n \in C : m <= n
  BY <1>2, LeastNat
<1>4. m \in 1..(Len(q) + 1)
  OBVIOUS
<1>5. ASSUME NEW j \in 1..(m - 1) PROVE pri[q[j]] >= pri[t]
  <2>1. j \in 1..Len(q) /\ j \notin C
    BY <1>1, <1>3, <1>4
  <2>2. QED
    BY <1>1, <2>1
<1>6. P(m)
  BY <1>5
<1>7. InsertIndex(q, t, pri) = CHOOSE i \in 1..(Len(q) + 1) : P(i)
  BY DEF InsertIndex
<1>8. InsertIndex(q, t, pri) \in 1..(Len(q) + 1) /\ P(InsertIndex(q, t, pri))
  <2> HIDE DEF P
  <2>1. QED BY <1>4, <1>6, <1>7
<1>9. QED
  BY <1>8

\* list_insert_ordered() adds one element, to a list that it is not on, and keeps
\* the list ordered.
LEMMA InsertOrderedProperties ==
  ASSUME NEW q \in Seq(Thread), NEW t \in Thread, NEW pri \in [Thread -> Int]
  PROVE  /\ InsertOrdered(q, t, pri) \in Seq(Thread)
         /\ Range(InsertOrdered(q, t, pri)) = Range(q) \cup {t}
         /\ IsInjective(q) /\ t \notin Range(q) => IsInjective(InsertOrdered(q, t, pri))
         /\ SortedByPriority(q, pri) => SortedByPriority(InsertOrdered(q, t, pri), pri)
<1> DEFINE k == InsertIndex(q, t, pri)
           r == InsertOrdered(q, t, pri)
           n == Len(q)
<1>1. n \in Nat /\ DOMAIN q = 1..n /\ \A j \in 1..n : q[j] \in Thread
  OBVIOUS
<1>2. /\ k \in 1..(n + 1)
      /\ \A j \in 1..(k - 1) : pri[q[j]] >= pri[t]
      /\ k <= n => pri[q[k]] < pri[t]
  BY InsertIndexFound
<1>3. /\ r \in Seq(Thread)
      /\ Len(r) = n + 1
      /\ \A j \in 1..(n + 1) : r[j] = IF j < k THEN q[j] ELSE IF j = k THEN t ELSE q[j - 1]
  <2>1. r = ListInsert(q, k, t)
    BY DEF InsertOrdered
  <2> HIDE DEF k, r
  <2>2. /\ ListInsert(q, k, t) \in Seq(Thread)
        /\ Len(ListInsert(q, k, t)) = Len(q) + 1
        /\ \A j \in 1..(Len(q) + 1) :
              ListInsert(q, k, t)[j] = IF j < k THEN q[j] ELSE IF j = k THEN t ELSE q[j - 1]
    BY <1>2, ListInsertElements
  <2>3. QED BY <2>1, <2>2
<1>4. DOMAIN r = 1..(n + 1)
  BY <1>3
<1> HIDE DEF k, r, n
<1>5. Range(r) = Range(q) \cup {t}
  <2>1. ASSUME NEW x \in Range(r) PROVE x \in Range(q) \cup {t}
    <3>1. PICK j \in 1..(n + 1) : x = r[j]
      BY <1>4 DEF Range
    <3>2. CASE j < k
      <4>1. j \in 1..n /\ x = q[j]
        BY <1>1, <1>2, <1>3, <3>1, <3>2
      <4>2. QED BY <1>1, <4>1 DEF Range
    <3>3. CASE j > k
      <4>1. j - 1 \in 1..n /\ x = q[j - 1]
        BY <1>1, <1>2, <1>3, <3>1, <3>3
      <4>2. QED BY <1>1, <4>1 DEF Range
    <3>4. QED BY <1>1, <1>2, <1>3, <3>1, <3>2, <3>3
  <2>2. ASSUME NEW x \in Range(q) PROVE x \in Range(r)
    <3>1. PICK j \in 1..n : x = q[j]
      BY <1>1 DEF Range
    <3>2. CASE j < k
      <4>1. j \in 1..(n + 1) /\ r[j] = q[j]
        BY <1>1, <1>2, <1>3, <3>2
      <4>2. QED BY <1>4, <3>1, <4>1 DEF Range
    <3>3. CASE j >= k
      <4>1. j + 1 \in 1..(n + 1) /\ r[j + 1] = q[j]
        BY <1>1, <1>2, <1>3, <3>3
      <4>2. QED BY <1>4, <3>1, <4>1 DEF Range
    <3>4. QED BY <1>1, <1>2, <3>2, <3>3
  <2>3. t \in Range(r)
    <3>1. r[k] = t
      BY <1>1, <1>2, <1>3
    <3>2. QED BY <1>2, <1>4, <3>1 DEF Range
  <2>4. QED BY <2>1, <2>2, <2>3
<1>6. ASSUME IsInjective(q), t \notin Range(q) PROVE IsInjective(r)
  <2>1. \A j \in 1..n : q[j] # t
    BY <1>1, <1>6 DEF Range
  <2>2. \A i, j \in 1..n : q[i] = q[j] => i = j
    BY <1>1, <1>6 DEF IsInjective
  <2>3. SUFFICES ASSUME NEW i \in 1..(n + 1), NEW j \in 1..(n + 1), i < j PROVE r[i] # r[j]
    BY <1>1, <1>4 DEF IsInjective
  <2>4. CASE j < k
    <3>1. r[i] = q[i] /\ r[j] = q[j] /\ i \in 1..n /\ j \in 1..n
      BY <1>1, <1>2, <1>3, <2>3, <2>4
    <3>2. QED BY <2>2, <2>3, <3>1
  <2>5. CASE j = k
    <3>1. r[i] = q[i] /\ r[j] = t /\ i \in 1..n
      BY <1>1, <1>2, <1>3, <2>3, <2>5
    <3>2. QED BY <2>1, <3>1
  <2>6. CASE j > k /\ i < k
    <3>1. r[i] = q[i] /\ r[j] = q[j - 1] /\ i \in 1..n /\ j - 1 \in 1..n /\ i # j - 1
      BY <1>1, <1>2, <1>3, <2>3, <2>6
    <3>2. QED BY <2>2, <3>1
  <2>7. CASE j > k /\ i = k
    <3>1. r[i] = t /\ r[j] = q[j - 1] /\ j - 1 \in 1..n
      BY <1>1, <1>2, <1>3, <2>3, <2>7
    <3>2. QED BY <2>1, <3>1
  <2>8. CASE j > k /\ i > k
    <3>1. r[i] = q[i - 1] /\ i - 1 \in 1..n
      BY <1>1, <1>2, <1>3, <2>3, <2>8
    <3>2. r[j] = q[j - 1] /\ j - 1 \in 1..n
      BY <1>1, <1>2, <1>3, <2>3, <2>8
    <3>3. i - 1 # j - 1
      BY <2>3
    <3>4. QED BY <2>2, <3>1, <3>2, <3>3
  <2>9. QED BY <1>1, <1>2, <2>4, <2>5, <2>6, <2>7, <2>8
<1>7. ASSUME SortedByPriority(q, pri) PROVE SortedByPriority(r, pri)
  <2>1. \A i, j \in 1..n : i < j => pri[q[i]] >= pri[q[j]]
    BY <1>1, <1>7 DEF SortedByPriority
  <2>2. SUFFICES ASSUME NEW i \in 1..(n + 1), NEW j \in 1..(n + 1), i < j
                 PROVE  pri[r[i]] >= pri[r[j]]
    BY <1>4 DEF SortedByPriority
  <2>3. CASE j < k
    BY <1>1, <1>2, <1>3, <2>1, <2>2, <2>3
  <2>4. CASE j = k
    BY <1>1, <1>2, <1>3, <2>1, <2>2, <2>4
  <2>5. CASE j > k /\ i < k
    <3>1. r[i] = q[i] /\ r[j] = q[j - 1] /\ i \in 1..n /\ j - 1 \in 1..n /\ i < j - 1
      BY <1>1, <1>2, <1>3, <2>2, <2>5
    <3>2. QED BY <2>1, <3>1
  <2>6. CASE j > k /\ i = k
    <3>1. r[i] = t /\ r[j] = q[j - 1] /\ k \in 1..n /\ j - 1 \in 1..n /\ k <= j - 1
      BY <1>1, <1>2, <1>3, <2>2, <2>6
    <3>2. pri[q[k]] < pri[t] /\ pri[q[k]] >= pri[q[j - 1]]
      BY <1>1, <1>2, <2>1, <3>1
    <3>3. pri[t] \in Int /\ pri[q[k]] \in Int /\ pri[q[j - 1]] \in Int
      BY <1>1, <3>1
    <3>4. QED BY <3>1, <3>2, <3>3
  <2>7. CASE j > k /\ i > k
    <3>1. r[i] = q[i - 1] /\ i - 1 \in 1..n
      BY <1>1, <1>2, <1>3, <2>2, <2>7
    <3>2. r[j] = q[j - 1] /\ j - 1 \in 1..n
      BY <1>1, <1>2, <1>3, <2>2, <2>7
    <3>3. i - 1 < j - 1
      BY <2>2
    <3>4. QED BY <2>1, <3>1, <3>2, <3>3
  <2>8. QED BY <1>1, <1>2, <2>3, <2>4, <2>5, <2>6, <2>7
<1>8. QED
  BY <1>3, <1>5, <1>6, <1>7 DEF r

\* list_remove() takes one element out of a list that it is on; what is left stays
\* ordered, also by priorities that differ for that element only.
LEMMA ListRemoveProperties ==
  ASSUME NEW q \in Seq(Thread), NEW t \in Range(q), IsInjective(q)
  PROVE  /\ ListRemove(q, t) \in Seq(Thread)
         /\ Range(ListRemove(q, t)) = Range(q) \ {t}
         /\ IsInjective(ListRemove(q, t))
         /\ \A pri, pri2 : 
              SortedByPriority(q, pri) /\ (\A u \in Range(q) \ {t} : pri2[u] = pri[u])
                => SortedByPriority(ListRemove(q, t), pri2)
<1> DEFINE k == CHOOSE i \in DOMAIN q : q[i] = t
           r == ListRemove(q, t)
           n == Len(q)
<1>1. n \in Nat /\ DOMAIN q = 1..n /\ \A j \in 1..n : q[j] \in Thread
  OBVIOUS
<1>2. k \in 1..n /\ q[k] = t
  BY <1>1 DEF Range
<1>3. /\ r \in Seq(Thread)
      /\ Len(r) = n - 1
      /\ \A j \in 1..(n - 1) : r[j] = IF j < k THEN q[j] ELSE q[j + 1]
  <2>1. r = ListRemoveAt(q, k)
    BY DEF ListRemove
  <2> HIDE DEF k, r
  <2>2. QED BY <1>2, <2>1, ListRemoveAtElements
<1>4. DOMAIN r = 1..(n - 1)
  BY <1>1, <1>3
<1>5. \A i, j \in 1..n : q[i] = q[j] => i = j
  BY <1>1 DEF IsInjective
<1> HIDE DEF k, r, n
<1>6. Range(r) = Range(q) \ {t}
  <2>1. ASSUME NEW x \in Range(r) PROVE x \in Range(q) /\ x # t
    <3>1. PICK j \in 1..(n - 1) : x = r[j]
      BY <1>4 DEF Range
    <3>2. CASE j < k
      <4>1. j \in 1..n /\ x = q[j] /\ j # k
        BY <1>1, <1>2, <1>3, <3>1, <3>2
      <4>2. QED BY <1>1, <1>2, <1>5, <4>1 DEF Range
    <3>3. CASE j >= k
      <4>1. j + 1 \in 1..n /\ x = q[j + 1] /\ j + 1 # k
        BY <1>1, <1>2, <1>3, <3>1, <3>3
      <4>2. QED BY <1>1, <1>2, <1>5, <4>1 DEF Range
    <3>4. QED BY <1>1, <1>2, <3>1, <3>2, <3>3
  <2>2. ASSUME NEW x \in Range(q), x # t PROVE x \in Range(r)
    <3>1. PICK j \in 1..n : x = q[j]
      BY <1>1 DEF Range
    <3>2. CASE j < k
      <4>1. j \in 1..(n - 1) /\ r[j] = q[j]
        BY <1>1, <1>2, <1>3, <3>1, <3>2
      <4>2. QED BY <1>4, <3>1, <4>1 DEF Range
    <3>3. CASE j > k
      <4>1. j - 1 \in 1..(n - 1) /\ r[j - 1] = q[(j - 1) + 1] /\ (j - 1) + 1 = j
        BY <1>1, <1>2, <1>3, <3>1, <3>3
      <4>2. QED BY <1>4, <3>1, <4>1 DEF Range
    <3>4. QED BY <1>1, <1>2, <2>2, <3>1, <3>2, <3>3
  <2>3. QED BY <2>1, <2>2
<1>7. IsInjective(r)
  <2>1. SUFFICES ASSUME NEW i \in 1..(n - 1), NEW j \in 1..(n - 1), i < j PROVE r[i] # r[j]
    BY <1>1, <1>4 DEF IsInjective
  <2>2. QED BY <1>1, <1>2, <1>3, <1>5, <2>1
<1>8. ASSUME NEW pri, NEW pri2, SortedByPriority(q, pri),
             \A u \in Range(q) \ {t} : pri2[u] = pri[u]
      PROVE  SortedByPriority(r, pri2)
  <2>1. \A i, j \in 1..n : i < j => pri[q[i]] >= pri[q[j]]
    BY <1>1, <1>8 DEF SortedByPriority
  <2>2. SUFFICES ASSUME NEW i \in 1..(n - 1), NEW j \in 1..(n - 1), i < j
                 PROVE  pri2[r[i]] >= pri2[r[j]]
    BY <1>4 DEF SortedByPriority
  <2>3. pri2[r[i]] = pri[r[i]] /\ pri2[r[j]] = pri[r[j]]
    BY <1>4, <1>6, <1>8 DEF Range
  <2>4. PICK x \in 1..n, y \in 1..n : x < y /\ r[i] = q[x] /\ r[j] = q[y]
    <3>1. CASE i < k /\ j < k
      <4>1. i \in 1..n /\ j \in 1..n /\ r[i] = q[i] /\ r[j] = q[j]
        BY <1>1, <1>2, <1>3, <2>2, <3>1
      <4>2. QED BY <2>2, <4>1
    <3>2. CASE i < k /\ j >= k
      <4>1. i \in 1..n /\ j + 1 \in 1..n /\ i < j + 1 /\ r[i] = q[i] /\ r[j] = q[j + 1]
        BY <1>1, <1>2, <1>3, <2>2, <3>2
      <4>2. QED BY <4>1
    <3>3. CASE i >= k /\ j >= k
      <4>1. i + 1 \in 1..n /\ j + 1 \in 1..n /\ i + 1 < j + 1 /\ r[i] = q[i + 1] /\ r[j] = q[j + 1]
        BY <1>1, <1>2, <1>3, <2>2, <3>3
      <4>2. QED BY <4>1
    <3>4. QED BY <1>1, <1>2, <2>2, <3>1, <3>2, <3>3
  <2>5. QED BY <2>1, <2>3, <2>4
<1>9. QED
  BY <1>3, <1>6, <1>7, <1>8 DEF r

\* list_sort() permutes the list.
LEMMA ListSortsProperties ==
  ASSUME NEW q \in Seq(Thread), NEW pri, NEW r \in ListSorts(q, pri)
  PROVE  /\ r \in Seq(Thread)
         /\ Range(r) = Range(q)
         /\ IsInjective(r)
         /\ SortedByPriority(r, pri)
<1> DEFINE n == Len(q)
<1>1. n \in Nat /\ DOMAIN q = 1..n /\ \A j \in 1..n : q[j] \in Thread
  OBVIOUS
<1>2. /\ r \in [1..n -> Range(q)]
      /\ Range(r) = Range(q)
      /\ SortedByPriority(r, pri)
      /\ \A i, j, x, y \in 1..n :
           (i < j /\ r[i] = q[x] /\ r[j] = q[y] /\ pri[r[i]] = pri[r[j]]) => x < y
  BY <1>1 DEF ListSorts
<1>3. Range(q) \subseteq Thread
  BY <1>1 DEF Range
<1> HIDE DEF n
<1>4. r \in [1..n -> Thread]
  BY <1>2, <1>3
<1>5. r \in Seq(Thread)
  BY <1>1, <1>4
<1>6. IsInjective(r)
  <2>1. SUFFICES ASSUME NEW i \in 1..n, NEW j \in 1..n, i < j, r[i] = r[j] PROVE FALSE
    BY <1>1, <1>2 DEF IsInjective
  <2>2. PICK x \in 1..n : r[i] = q[x]
    BY <1>1, <1>2 DEF Range
  <2>3. x < x
    BY <1>2, <2>1, <2>2
  <2>4. QED BY <1>1, <2>3
<1>7. QED
  BY <1>2, <1>5, <1>6

\* Taking the front off a list.
LEMMA PopFrontProperties ==
  ASSUME NEW q \in Seq(Thread), q # <<>>, IsInjective(q)
  PROVE  /\ Head(q) \in Range(q) /\ Head(q) \in Thread
         /\ Tail(q) \in Seq(Thread)
         /\ Range(Tail(q)) = Range(q) \ {Head(q)}
         /\ IsInjective(Tail(q))
         /\ \A pri : SortedByPriority(q, pri) =>
              /\ SortedByPriority(Tail(q), pri)
              /\ \A u \in Range(Tail(q)) : pri[Head(q)] >= pri[u]
<1> DEFINE n == Len(q)
           r == Tail(q)
<1>1. n \in Nat /\ n >= 1 /\ DOMAIN q = 1..n /\ \A j \in 1..n : q[j] \in Thread
  OBVIOUS
<1>2. Head(q) = q[1]
  OBVIOUS
<1>3. r \in Seq(Thread) /\ Len(r) = n - 1 /\ \A i \in 1..(n - 1) : r[i] = q[i + 1]
  OBVIOUS
<1>4. DOMAIN r = 1..(n - 1)
  BY <1>1, <1>3
<1>5. \A i, j \in 1..n : q[i] = q[j] => i = j
  BY <1>1 DEF IsInjective
<1> HIDE DEF n, r
<1>6. Range(r) = Range(q) \ {q[1]}
  <2>1. ASSUME NEW x \in Range(r) PROVE x \in Range(q) /\ x # q[1]
    <3>1. PICK j \in 1..(n - 1) : x = r[j]
      BY <1>4 DEF Range
    <3>2. j + 1 \in 1..n /\ x = q[j + 1] /\ j + 1 # 1
      BY <1>1, <1>3, <3>1
    <3>3. QED BY <1>1, <1>5, <3>2 DEF Range
  <2>2. ASSUME NEW x \in Range(q), x # q[1] PROVE x \in Range(r)
    <3>1. PICK j \in 1..n : x = q[j]
      BY <1>1 DEF Range
    <3>2. j - 1 \in 1..(n - 1) /\ r[j - 1] = q[(j - 1) + 1] /\ (j - 1) + 1 = j
      BY <1>1, <1>3, <2>2, <3>1
    <3>3. QED BY <1>4, <3>1, <3>2 DEF Range
  <2>3. QED BY <2>1, <2>2
<1>7. IsInjective(r)
  BY <1>1, <1>3, <1>4, <1>5 DEF IsInjective
<1>8. ASSUME NEW pri, SortedByPriority(q, pri)
      PROVE  SortedByPriority(r, pri) /\ \A u \in Range(r) : pri[q[1]] >= pri[u]
  <2>1. \A i, j \in 1..n : i < j => pri[q[i]] >= pri[q[j]]
    BY <1>1, <1>8 DEF SortedByPriority
  <2>2. ASSUME NEW i \in 1..(n - 1), NEW j \in 1..(n - 1), i < j PROVE pri[r[i]] >= pri[r[j]]
    <3>1. i + 1 \in 1..n /\ j + 1 \in 1..n /\ i + 1 < j + 1 /\ r[i] = q[i + 1] /\ r[j] = q[j + 1]
      BY <1>1, <1>3, <2>2
    <3>2. QED BY <2>1, <3>1
  <2>3. ASSUME NEW u \in Range(r) PROVE pri[q[1]] >= pri[u]
    <3>1. PICK j \in 1..(n - 1) : u = r[j]
      BY <1>4 DEF Range
    <3>2. 1 \in 1..n /\ j + 1 \in 1..n /\ 1 < j + 1 /\ u = q[j + 1]
      BY <1>1, <1>3, <3>1
    <3>3. QED BY <2>1, <3>2
  <2>4. QED BY <1>4, <2>2, <2>3 DEF SortedByPriority
<1>9. q[1] \in Range(q) /\ q[1] \in Thread
  BY <1>1 DEF Range
<1>10. QED
  BY <1>2, <1>3, <1>6, <1>7, <1>8, <1>9 DEF r

-----------------------------------------------------------------------------
(* The ready list rdy holds the threads that st says are ready, once each. *)
ReadyOK(st, rdy) ==
  /\ rdy \in Seq(Thread)
  /\ IsInjective(rdy)
  /\ Range(rdy) = {t \in Thread \ {Idle} : st[t] = "READY"}

(* Exactly the thread r is running. *)
OnlyRunning(st, r) == \A t \in Thread : st[t] = "RUNNING" <=> t = r

\* schedule() takes the next thread off the ready list, or the idle thread.
LEMMA ScheduleProperties ==
  ASSUME NEW st \in [Thread -> Statuses], NEW rdy, ReadyOK(st, rdy),
         \A t \in Thread : st[t] # "RUNNING",
         Schedule(st, rdy)
  PROVE  /\ running' \in Thread
         /\ status' = [st EXCEPT ![running'] = "RUNNING"]
         /\ status' \in [Thread -> Statuses]
         /\ thread_ticks' = 0
         /\ running' = Idle \/ st[running'] = "READY"
         /\ OnlyRunning(status', running')
         /\ ReadyOK(status', ready')
         /\ \A pri : SortedByPriority(rdy, pri) =>
              /\ SortedByPriority(ready', pri)
              /\ \A u \in Range(ready') : pri[running'] >= pri[u]
<1>1. rdy \in Seq(Thread) /\ IsInjective(rdy) /\ Range(rdy) = {t \in Thread \ {Idle} : st[t] = "READY"}
  BY DEF ReadyOK
<1>2. Idle \in Thread
  BY ThreadAssumption
<1>3. CASE rdy = <<>>
  <2>1. running' = Idle /\ ready' = <<>> /\ status' = [st EXCEPT ![Idle] = "RUNNING"] /\ thread_ticks' = 0
    BY <1>3 DEF Schedule, NextThreadToRun
  <2>2. Range(<<>>) = {}
    BY DEF Range
  <2>3. OnlyRunning(status', Idle)
    BY <1>2, <2>1 DEF OnlyRunning
  <2>4. ReadyOK(status', ready')
    BY <1>1, <1>2, <1>3, <2>1 DEF ReadyOK
  <2>5. \A pri : SortedByPriority(<<>>, pri)
    BY DEF SortedByPriority
  <2>6. QED
    BY <1>2, <2>1, <2>2, <2>3, <2>4, <2>5 DEF Statuses
<1>4. CASE rdy # <<>>
  <2> DEFINE h == Head(rdy)
  <2>1. running' = h /\ ready' = Tail(rdy) /\ status' = [st EXCEPT ![h] = "RUNNING"] /\ thread_ticks' = 0
    BY <1>4 DEF Schedule, NextThreadToRun
  <2>2. /\ h \in Range(rdy) /\ h \in Thread
        /\ Tail(rdy) \in Seq(Thread)
        /\ Range(Tail(rdy)) = Range(rdy) \ {h}
        /\ IsInjective(Tail(rdy))
        /\ \A pri : SortedByPriority(rdy, pri) =>
             SortedByPriority(Tail(rdy), pri) /\ \A u \in Range(Tail(rdy)) : pri[h] >= pri[u]
    BY <1>1, <1>4, PopFrontProperties
  <2> HIDE DEF h
  <2>3. st[h] = "READY"
    BY <1>1, <2>2
  <2>4. OnlyRunning(status', h)
    BY <2>1, <2>2 DEF OnlyRunning
  <2>5. ReadyOK(status', ready')
    BY <1>1, <2>1, <2>2 DEF ReadyOK
  <2>6. status' \in [Thread -> Statuses]
    BY <2>1, <2>2 DEF Statuses
  <2>7. QED
    BY <2>1, <2>2, <2>3, <2>4, <2>5, <2>6
<1>5. QED
  BY <1>3, <1>4

\* thread_block(): the running thread is blocked and on no list.
LEMMA ThreadBlockProperties ==
  ASSUME running \in Thread, status \in [Thread -> Statuses], OnlyRunning(status, running),
         ReadyOK(status, ready), ThreadBlock
  PROVE  /\ running' \in Thread
         /\ status' \in [Thread -> Statuses]
         /\ status' = [[status EXCEPT ![running] = "BLOCKED"] EXCEPT ![running'] = "RUNNING"]
         /\ thread_ticks' = 0
         /\ running' = Idle \/ status[running'] = "READY"
         /\ OnlyRunning(status', running')
         /\ ReadyOK(status', ready')
         /\ \A pri : SortedByPriority(ready, pri) =>
              /\ SortedByPriority(ready', pri)
              /\ \A u \in Range(ready') : pri[running'] >= pri[u]
<1> DEFINE st == [status EXCEPT ![running] = "BLOCKED"]
<1>1. st \in [Thread -> Statuses]
  BY DEF Statuses
<1>2. \A t \in Thread : st[t] # "RUNNING"
  BY DEF OnlyRunning
<1>3. ReadyOK(st, ready)
  BY DEF ReadyOK, OnlyRunning
<1>4. Schedule(st, ready)
  BY DEF ThreadBlock
<1>5. \A t \in Thread : st[t] = "READY" => status[t] = "READY"
  OBVIOUS
<1> HIDE DEF st
<1>6. QED
  BY <1>1, <1>2, <1>3, <1>4, <1>5, ScheduleProperties DEF st

\* thread_yield(): the running thread goes on the ready list, the idle thread on none.
LEMMA ThreadYieldProperties ==
  ASSUME running \in Thread, NEW st \in [Thread -> Statuses], OnlyRunning(st, running),
         NEW rdy, ReadyOK(st, rdy), NEW pri \in [Thread -> Int], ThreadYield(st, rdy, pri)
  PROVE  /\ running' \in Thread
         /\ status' \in [Thread -> Statuses]
         /\ status' = [[st EXCEPT ![running] = "READY"] EXCEPT ![running'] = "RUNNING"]
         /\ thread_ticks' = 0
         /\ running' \in {Idle, running} \/ st[running'] = "READY"
         /\ OnlyRunning(status', running')
         /\ ReadyOK(status', ready')
         /\ SortedByPriority(rdy, pri) =>
              /\ SortedByPriority(ready', pri)
              /\ \A u \in Range(ready') : pri[running'] >= pri[u]
<1> DEFINE s2 == [st EXCEPT ![running] = "READY"]
           r2 == IF running = Idle THEN rdy ELSE InsertOrdered(rdy, running, pri)
<1>1. s2 \in [Thread -> Statuses]
  BY DEF Statuses
<1>2. \A t \in Thread : s2[t] # "RUNNING"
  BY DEF OnlyRunning
<1>3. rdy \in Seq(Thread) /\ IsInjective(rdy) /\ Range(rdy) = {t \in Thread \ {Idle} : st[t] = "READY"}
  BY DEF ReadyOK
<1>4. running \notin Range(rdy)
  BY <1>3 DEF OnlyRunning
<1>5. ReadyOK(s2, r2) /\ (SortedByPriority(rdy, pri) => SortedByPriority(r2, pri))
  <2>1. CASE running = Idle
    BY <1>3, <2>1 DEF ReadyOK
  <2>2. CASE running # Idle
    <3>1. r2 = InsertOrdered(rdy, running, pri)
      BY <2>2
    <3> HIDE DEF r2
    <3>2. /\ r2 \in Seq(Thread) /\ Range(r2) = Range(rdy) \cup {running} /\ IsInjective(r2)
          /\ SortedByPriority(rdy, pri) => SortedByPriority(r2, pri)
      BY <1>3, <1>4, <3>1, InsertOrderedProperties, Zenon
    <3>3. Range(r2) = {t \in Thread \ {Idle} : s2[t] = "READY"}
      BY <1>3, <2>2, <3>2
    <3>4. QED BY <3>2, <3>3 DEF ReadyOK
  <2>3. QED BY <2>1, <2>2
<1>6. Schedule(s2, r2)
  BY DEF ThreadYield
<1>7. \A t \in Thread : s2[t] = "READY" => st[t] = "READY" \/ t = running
  OBVIOUS
<1> HIDE DEF s2, r2
<1>8. QED
  BY <1>1, <1>2, <1>5, <1>6, <1>7, ScheduleProperties DEF s2

\* thread_unblock(t): t goes from its wait to the ready list.
LEMMA UnblockProperties ==
  ASSUME status \in [Thread -> Statuses], ReadyOK(status, ready), priority \in [Thread -> Int],
         NEW t \in Thread \ {Idle}, status[t] = "BLOCKED"
  PROVE  /\ UnblockedStatus(t) \in [Thread -> Statuses]
         /\ ReadyOK(UnblockedStatus(t), UnblockedReady(t))
         /\ SortedByPriority(ready, priority) => SortedByPriority(UnblockedReady(t), priority)
<1>1. ready \in Seq(Thread) /\ IsInjective(ready)
      /\ Range(ready) = {u \in Thread \ {Idle} : status[u] = "READY"}
  BY DEF ReadyOK
<1>2. t \notin Range(ready)
  BY <1>1
<1>3. /\ UnblockedReady(t) \in Seq(Thread)
      /\ Range(UnblockedReady(t)) = Range(ready) \cup {t}
      /\ IsInjective(UnblockedReady(t))
      /\ SortedByPriority(ready, priority) => SortedByPriority(UnblockedReady(t), priority)
  BY <1>1, <1>2, InsertOrderedProperties DEF UnblockedReady
<1>4. UnblockedStatus(t) \in [Thread -> Statuses]
  BY DEF UnblockedStatus, Statuses
<1>5. Range(UnblockedReady(t)) = {u \in Thread \ {Idle} : UnblockedStatus(t)[u] = "READY"}
  BY <1>1, <1>3 DEF UnblockedStatus
<1>6. QED
  BY <1>3, <1>4, <1>5 DEF ReadyOK
=============================================================================
