----------------------------- MODULE RankProofs -----------------------------
(***************************************************************************)
(* What the proofs about sorted and recursive data share: sorting by rank, *)
(* least and greatest elements of finite sets of numbers, induction over a *)
(* set of numbers, and division.                                           *)
(***************************************************************************)
EXTENDS Ranks, Sequences, FiniteSetsExt, FiniteSetTheorems, SequenceTheorems, TLAPS

\* Ranking by the number of smaller elements arranges a finite set: each element
\* has a place of its own, and the places respect the order.
LEMMA Ranking ==
  ASSUME NEW S, IsFiniteSet(S), NEW R,
         \A x \in S : <<x, x>> \notin R,
         \A x, y, z \in S : <<x, y>> \in R /\ <<y, z>> \in R => <<x, z>> \in R,
         \A x, y \in S : x # y => <<x, y>> \in R \/ <<y, x>> \in R
  PROVE  /\ \A n \in 1..Cardinality(S) : AtRank(S, R, n) \in S
         /\ \A x \in S : \E n \in 1..Cardinality(S) : AtRank(S, R, n) = x
         /\ \A m, n \in 1..Cardinality(S) :
              m < n => <<AtRank(S, R, m), AtRank(S, R, n)>> \in R
<1> DEFINE Below(x) == {y \in S : <<y, x>> \in R}
           N == Cardinality(S)
           rank == [x \in S |-> Cardinality(Below(x)) + 1]
<1>1. N \in Nat
  BY FS_CardinalityType
<1>2. ASSUME NEW x \in S
      PROVE  IsFiniteSet(Below(x)) /\ Cardinality(Below(x)) \in Nat /\ rank[x] \in 1..N
  <2>1. IsFiniteSet(S \ {x}) /\ Cardinality(S \ {x}) = N - 1
    BY FS_RemoveElement
  <2>2. Below(x) \in SUBSET (S \ {x})
    OBVIOUS
  <2> HIDE DEF Below
  <2>3. IsFiniteSet(Below(x)) /\ Cardinality(Below(x)) <= N - 1
    BY <2>1, <2>2, FS_Subset
  <2>4. Cardinality(Below(x)) \in Nat
    BY <2>3, FS_CardinalityType
  <2> QED
    BY <1>1, <2>3, <2>4
<1>3. ASSUME NEW x \in S, NEW y \in S, <<x, y>> \in R
      PROVE  rank[x] < rank[y]
  <2>1. x \notin Below(x) /\ Below(x) \cup {x} \in SUBSET Below(y)
    BY <1>3
  <2>2. /\ IsFiniteSet(Below(x)) /\ Cardinality(Below(x)) \in Nat
        /\ IsFiniteSet(Below(y)) /\ Cardinality(Below(y)) \in Nat
    BY <1>2
  <2> HIDE DEF Below
  <2>3. Cardinality(Below(x) \cup {x}) = Cardinality(Below(x)) + 1
    BY <2>1, <2>2, FS_AddElement
  <2>4. Cardinality(Below(x) \cup {x}) <= Cardinality(Below(y))
    BY <2>1, <2>2, FS_Subset
  <2> QED
    BY <2>2, <2>3, <2>4
<1> HIDE DEF Below
<1>4. rank \in [S -> 1..N]
  BY <1>2
<1>5. \A x, y \in S : rank[x] = rank[y] => x = y
  <2> SUFFICES ASSUME NEW x \in S, NEW y \in S, rank[x] = rank[y], x # y PROVE FALSE
    OBVIOUS
  <2>1. rank[x] < rank[y] \/ rank[y] < rank[x]
    BY <1>3
  <2>2. rank[x] \in Int /\ rank[y] \in Int
    BY <1>4
  <2> HIDE DEF rank
  <2> QED
    BY <2>1, <2>2
<1>6. \A n \in 1..N : \E x \in S : rank[x] = n
  <2> HIDE DEF rank
  <2>1. rank \in Injection(S, 1..N)
    BY <1>4, <1>5 DEF Injection, IsInjective
  <2>2. IsFiniteSet(1..N) /\ Cardinality(1..N) = N
    BY <1>1, FS_Interval
  <2> HIDE DEF N
  <2>3. Cardinality(S) = Cardinality(1..N) <=> rank \in Surjection(S, 1..N)
    BY <2>1, <2>2, FS_Injection
  <2>4. rank \in Surjection(S, 1..N)
    BY <2>2, <2>3 DEF N
  <2> QED
    BY <2>4 DEF Surjection
<1>7. \A n \in 1..N : AtRank(S, R, n) \in S /\ rank[AtRank(S, R, n)] = n
  <2> SUFFICES ASSUME NEW n \in 1..N
               PROVE  AtRank(S, R, n) \in S /\ rank[AtRank(S, R, n)] = n
    OBVIOUS
  <2>1. PICK x \in S : rank[x] = n
    BY <1>6
  <2>2. AtRank(S, R, n) = CHOOSE y \in S : Cardinality(Below(y)) + 1 = n
    BY DEF AtRank, Below
  <2>3. Cardinality(Below(x)) + 1 = n
    BY <2>1
  <2> QED
    BY <2>2, <2>3
<1> HIDE DEF rank
<1>8. \A x \in S : \E n \in 1..N : AtRank(S, R, n) = x
  <2> SUFFICES ASSUME NEW x \in S PROVE AtRank(S, R, rank[x]) = x /\ rank[x] \in 1..N
    OBVIOUS
  <2>1. rank[x] \in 1..N
    BY <1>4
  <2> QED
    BY <1>5, <1>7, <2>1
<1>9. ASSUME NEW m \in 1..N, NEW n \in 1..N, m < n
      PROVE  <<AtRank(S, R, m), AtRank(S, R, n)>> \in R
  <2> DEFINE x == AtRank(S, R, m)
             y == AtRank(S, R, n)
  <2>1. x \in S /\ y \in S /\ rank[x] = m /\ rank[y] = n
    BY <1>7
  <2> HIDE DEF x, y
  <2>2. x # y
    BY <1>9, <2>1
  <2>3. ~(rank[y] < rank[x])
    BY <1>1, <1>9, <2>1
  <2>4. <<x, y>> \in R
    BY <1>3, <2>1, <2>2, <2>3
  <2> QED
    BY <2>4 DEF x, y
<1> QED
  BY <1>7, <1>8, <1>9

\* The first hit is one: a set of indices has a least one.
LEMMA LeastIndex ==
  ASSUME NEW S \in SUBSET Nat, IsFiniteSet(S), S # {}
  PROVE  Min(S) \in S /\ \A n \in S : Min(S) <= n
<1> DEFINE R == {e \in S \X S : e[1] < e[2]}
           first == AtRank(S, R, 1)
<1>1. \A x, y \in S : <<x, y>> \in R <=> x < y
  OBVIOUS
<1>2. Cardinality(S) \in Nat \ {0}
  BY FS_CardinalityType, FS_EmptySet
<1>3. /\ \A x \in S : <<x, x>> \notin R
      /\ \A x, y, z \in S : <<x, y>> \in R /\ <<y, z>> \in R => <<x, z>> \in R
      /\ \A x, y \in S : x # y => <<x, y>> \in R \/ <<y, x>> \in R
  BY <1>1
<1> HIDE DEF R
<1>4. /\ first \in S
      /\ \A x \in S : \E n \in 1..Cardinality(S) : AtRank(S, R, n) = x
      /\ \A n \in 1..Cardinality(S) : 1 < n => <<first, AtRank(S, R, n)>> \in R
  <2>1. /\ \A n \in 1..Cardinality(S) : AtRank(S, R, n) \in S
        /\ \A x \in S : \E n \in 1..Cardinality(S) : AtRank(S, R, n) = x
        /\ \A m, n \in 1..Cardinality(S) :
             m < n => <<AtRank(S, R, m), AtRank(S, R, n)>> \in R
    BY <1>3, Ranking
  <2>2. 1 \in 1..Cardinality(S)
    BY <1>2
  <2> QED
    BY <2>1, <2>2
<1>5. ASSUME NEW x \in S
      PROVE  first <= x
  <2>1. PICK n \in 1..Cardinality(S) : AtRank(S, R, n) = x
    BY <1>4
  <2>2. CASE n = 1
    BY <1>4, <2>1, <2>2
  <2>3. CASE 1 < n
    <3>1. <<first, x>> \in R
      BY <1>4, <2>1, <2>3
    <3> HIDE DEF first
    <3> QED
      BY <1>1, <1>4, <3>1
  <2> QED
    BY <1>2, <2>2, <2>3
<1> HIDE DEF first
<1> QED
  BY <1>4, <1>5 DEF Min

\* An interval that starts at one has as many elements as its end says.
LEMMA IntervalSize ==
  ASSUME NEW N \in Nat
  PROVE  IsFiniteSet(1..N) /\ Cardinality(1..N) = N
<1>1. IsFiniteSet(1..N) /\ Cardinality(1..N) = IF 1 > N THEN 0 ELSE N - 1 + 1
  BY FS_Interval
<1> DEFINE size == Cardinality(1..N)
<1>2. size = IF 1 > N THEN 0 ELSE N - 1 + 1
  BY <1>1
<1> HIDE DEF size
<1>3. size = N
  BY <1>2
<1> QED
  BY <1>1, <1>3 DEF size

\* The last element of a list that something holds of is one.
LEMMA GreatestIndex ==
  ASSUME NEW N \in Nat, NEW S \in SUBSET (1..N), S # {}
  PROVE  Max(S) \in S /\ \A n \in S : n <= Max(S)
<1> DEFINE T == {N - n : n \in S}
<1>1. T \in SUBSET Nat /\ T # {} /\ T \in SUBSET (0..N)
  <2>1. \A n \in S : N - n \in 0..N
    OBVIOUS
  <2>2. T \in SUBSET (0..N) /\ T # {}
    BY <2>1, Zenon
  <2> HIDE DEF T
  <2> QED
    BY <2>2
<1>2. IsFiniteSet(T)
  <2>1. IsFiniteSet(0..N)
    BY FS_Interval
  <2> QED
    BY <1>1, <2>1, FS_Subset
<1>3. PICK t \in T : \A u \in T : t <= u
  BY <1>1, <1>2, LeastIndex
<1>4. PICK m \in S : t = N - m
  OBVIOUS
<1>5. \A n \in S : n <= m
  BY <1>3, <1>4
<1> QED
  BY <1>4, <1>5 DEF Max

\* A set of numbers that has 0 and, with every number below N, the next one has
\* all of 0..N: induction, for the sets that the lemmas choose.
LEMMA CountingUp ==
  ASSUME NEW N \in Nat, NEW S, 0 \in S, \A n \in 0..(N - 1) : n \in S => n + 1 \in S
  PROVE  0..N \subseteq S
<1> DEFINE T == {n \in 0..N : n \notin S}
<1> SUFFICES ASSUME T # {} PROVE FALSE
  OBVIOUS
<1>1. IsFiniteSet(T) /\ T \in SUBSET Nat
  <2>1. IsFiniteSet(0..N)
    BY FS_Interval
  <2>2. T \in SUBSET (0..N)
    OBVIOUS
  <2> QED
    BY <2>1, <2>2, FS_Subset
<1>2. PICK t \in T : \A u \in T : t <= u
  BY <1>1, LeastIndex
<1>3. t \in 1..N /\ t - 1 \in 0..(N - 1)
  BY <1>2
<1>4. t - 1 \notin T
  BY <1>2, <1>3
<1>5. t - 1 \in S
  BY <1>3, <1>4
<1> QED
  BY <1>2, <1>3, <1>5

\* The first k elements of a sequence: their own beginnings are its beginnings.
LEMMA Beginning ==
  ASSUME NEW S, NEW b \in Seq(S), NEW k \in 0..Len(b)
  PROVE  /\ SubSeq(b, 1, k) \in Seq(S)
         /\ Len(SubSeq(b, 1, k)) = k
         /\ \A i \in 1..k : SubSeq(b, 1, k)[i] = b[i]
         /\ \A l \in 0..k : SubSeq(SubSeq(b, 1, k), 1, l) = SubSeq(b, 1, l)
<1>1. \A i \in 1..k : b[i] \in S
  BY ElementOfSeq
<1>2. /\ SubSeq(b, 1, k) \in Seq(S)
      /\ Len(SubSeq(b, 1, k)) = k
      /\ \A i \in 1..k : SubSeq(b, 1, k)[i] = b[i]
  BY <1>1, SubSeqProperties
<1>3. ASSUME NEW l \in 0..k
      PROVE  SubSeq(SubSeq(b, 1, k), 1, l) = SubSeq(b, 1, l)
  <2> DEFINE c == SubSeq(b, 1, k)
  <2>1. /\ SubSeq(b, 1, l) \in Seq(S)
        /\ Len(SubSeq(b, 1, l)) = l
        /\ \A i \in 1..l : SubSeq(b, 1, l)[i] = b[i]
    <3>1. \A i \in 1..l : b[i] \in S
      BY <1>1
    <3> QED
      BY <3>1, SubSeqProperties
  <2>2. \A i \in 1..l : c[i] = b[i] /\ c[i] \in S
    BY <1>1, <1>2
  <2> HIDE DEF c
  <2>3. /\ SubSeq(c, 1, l) \in Seq(S)
        /\ Len(SubSeq(c, 1, l)) = l
        /\ \A i \in 1..l : SubSeq(c, 1, l)[i] = c[i]
    BY <2>2, SubSeqProperties
  <2> QED
    BY <2>1, <2>2, <2>3, SeqEqual DEF c
<1> QED
  BY <1>2, <1>3

\* One element more.
LEMMA BeginningNext ==
  ASSUME NEW S, NEW b \in Seq(S), NEW k \in 0..(Len(b) - 1)
  PROVE  SubSeq(b, 1, k + 1) = Append(SubSeq(b, 1, k), b[k + 1])
<1> DEFINE c == SubSeq(b, 1, k)
           d == SubSeq(b, 1, k + 1)
           e == b[k + 1]
<1>1. c \in Seq(S) /\ Len(c) = k /\ \A i \in 1..k : c[i] = b[i]
  BY Beginning
<1>2. k + 1 \in 0..Len(b) /\ k \in Nat
  OBVIOUS
<1>3. d \in Seq(S) /\ Len(d) = k + 1 /\ \A i \in 1..(k + 1) : d[i] = b[i]
  BY <1>2, Beginning
<1>4. e \in S
  BY <1>2, ElementOfSeq
<1> HIDE DEF c, d, e
<1>5. /\ Append(c, e) \in Seq(S) /\ Len(Append(c, e)) = k + 1
      /\ \A i \in 1..k : Append(c, e)[i] = c[i]
      /\ Append(c, e)[k + 1] = e
  BY <1>1, <1>4, AppendProperties
<1>6. \A i \in 1..(k + 1) : d[i] = Append(c, e)[i]
  <2>1. \A i \in 1..(k + 1) : i = k + 1 \/ i \in 1..k
    BY <1>2
  <2>2. d[k + 1] = e
    BY <1>2, <1>3 DEF e
  <2> QED
    BY <1>1, <1>3, <1>5, <2>1, <2>2
<1>7. d = Append(c, e)
  BY <1>3, <1>5, <1>6, SeqEqual
<1> QED
  BY <1>7 DEF c, d, e

\* A list that follows the order, of all the elements: they are ranked as it
\* lists them.
LEMMA RankOfList ==
  ASSUME NEW S, NEW R, NEW N \in Nat, NEW f \in [1..N -> S],
         \A x \in S : \E n \in 1..N : f[n] = x,
         \A m, n \in 1..N : <<f[m], f[n]>> \in R <=> m < n
  PROVE  [n \in 1..Cardinality(S) |-> AtRank(S, R, n)] = f
<1> DEFINE Below(x) == {y \in S : <<y, x>> \in R}
<1>1. \A m, n \in 1..N : f[m] = f[n] => m = n
  <2> SUFFICES ASSUME NEW m \in 1..N, NEW n \in 1..N, f[m] = f[n], m # n PROVE FALSE
    OBVIOUS
  <2>1. (m < n <=> n < n) /\ (n < m <=> m < m)
    OBVIOUS
  <2> QED
    BY <2>1
<1>2. Cardinality(S) = N
  <2>1. f \in Injection(1..N, S) /\ f \in Surjection(1..N, S)
    BY <1>1 DEF Injection, IsInjective, Surjection
  <2>2. ExistsBijection(1..N, S)
    BY <2>1 DEF ExistsBijection, Bijection
  <2> QED
    BY <2>2, IntervalSize, FS_Bijection
<1>3. ASSUME NEW n \in 1..N
      PROVE  Cardinality(Below(f[n])) + 1 = n
  <2> DEFINE k == n - 1
             T == Below(f[n])
             g == [m \in 1..k |-> f[m]]
  <2>1. k \in Nat /\ k + 1 = n
    OBVIOUS
  <2>2. \A m \in 1..k : m \in 1..N /\ m < n
    OBVIOUS
  <2>3. \A m \in 1..k : f[m] \in T
    BY <2>2
  <2>4. \A y \in T : \E m \in 1..k : f[m] = y
    <3> SUFFICES ASSUME NEW y \in T PROVE \E m \in 1..k : f[m] = y
      OBVIOUS
    <3>1. PICK m \in 1..N : f[m] = y
      OBVIOUS
    <3>2. m < n
      BY <3>1
    <3> QED
      BY <3>1, <3>2
  <2> HIDE DEF k, T
  <2>5. g \in [1..k -> T] /\ \A m \in 1..k : g[m] = f[m]
    BY <2>3
  <2> HIDE DEF g
  <2>6. \A x, y \in 1..k : g[x] = g[y] => x = y
    BY <1>1, <2>2, <2>5
  <2>7. g \in Injection(1..k, T) /\ g \in Surjection(1..k, T)
    BY <2>4, <2>5, <2>6 DEF Injection, IsInjective, Surjection
  <2>8. ExistsBijection(1..k, T)
    BY <2>7 DEF ExistsBijection, Bijection
  <2>9. Cardinality(T) = k
    BY <2>1, <2>8, IntervalSize, FS_Bijection
  <2> QED
    BY <2>1, <2>9 DEF T
<1>4. ASSUME NEW n \in 1..N
      PROVE  AtRank(S, R, n) = f[n]
  <2>1. AtRank(S, R, n) = CHOOSE x \in S : Cardinality(Below(x)) + 1 = n
    BY DEF AtRank
  <2>2. f[n] \in S /\ Cardinality(Below(f[n])) + 1 = n
    BY <1>3
  <2>3. ASSUME NEW x \in S, Cardinality(Below(x)) + 1 = n PROVE x = f[n]
    <3>1. PICK m \in 1..N : f[m] = x
      OBVIOUS
    <3>2. Cardinality(Below(x)) + 1 = m
      BY <1>3, <3>1
    <3> QED
      BY <2>3, <3>1, <3>2
  <2> HIDE DEF Below
  <2> QED
    BY <2>1, <2>2, <2>3
<1> QED
  BY <1>2, <1>4

\* What division by a positive number is.
LEMMA Dividing ==
  ASSUME NEW a \in Nat, NEW b \in Nat \ {0}
  PROVE  a \div b \in Nat /\ a % b \in 0..(b - 1) /\ a = b * (a \div b) + (a % b)
OBVIOUS

\* There is one quotient.
LEMMA OneQuotient ==
  ASSUME NEW b \in Nat \ {0}, NEW q \in Nat, NEW p \in Nat,
         NEW r \in 0..(b - 1), NEW s \in 0..(b - 1), b * q + r <= b * p + s
  PROVE  q <= p
<1> SUFFICES ASSUME p < q PROVE FALSE
  OBVIOUS
<1>1. PICK d \in Nat : q = p + 1 + d
  <2>1. q - p - 1 \in Nat /\ q = p + 1 + (q - p - 1)
    OBVIOUS
  <2> QED
    BY <2>1
<1>2. b * q = b * p + b + b * d
  BY <1>1
<1>3. b * d \in Nat
  OBVIOUS
<1> DEFINE x == b * q
           y == b * p
           z == b * d
<1>4. x = y + b + z /\ z \in Nat /\ y \in Nat /\ x + r <= y + s
  BY <1>2, <1>3
<1> HIDE DEF x, y, z
<1> QED
  BY <1>4

\* Dividing by R * b is dividing by b, then by R.
LEMMA DividingTwice ==
  ASSUME NEW a \in Nat, NEW b \in Nat \ {0}, NEW R \in Nat \ {0}
  PROVE  a \div b = R * (a \div (R * b)) + ((a \div b) % R)
<1> DEFINE q == a \div b
           r == a % b
           p == q \div R
           s == q % R
           c == R * b
           t == a \div c
           u == a % c
<1>1. q \in Nat /\ r \in 0..(b - 1) /\ a = b * q + r
  BY Dividing
<1>2. c \in Nat \ {0}
  OBVIOUS
<1> HIDE DEF c
<1>3. t \in Nat /\ u \in 0..(c - 1) /\ a = c * t + u
  BY <1>2, Dividing
<1> HIDE DEF q, r
<1>4. p \in Nat /\ s \in 0..(R - 1) /\ q = R * p + s
  BY <1>1, Dividing
<1> HIDE DEF p, s, t, u
<1>5. a = c * p + (b * s + r)
  <2>1. b * q = b * (R * p + s)
    BY <1>4
  <2>2. b * (R * p + s) = b * (R * p) + b * s
    BY <1>4
  <2>3. b * (R * p) = c * p
    BY <1>4 DEF c
  <2> DEFINE v == b * q
             w == b * s
             x == c * p
             y == b * (R * p)
             z == b * (R * p + s)
  <2>4. v = z /\ z = y + w /\ y = x /\ a = v + r /\ w \in Int /\ x \in Int
    BY <1>1, <1>2, <1>4, <2>1, <2>2, <2>3
  <2> HIDE DEF v, w, x, y, z
  <2>5. a = x + (w + r)
    BY <1>1, <2>4
  <2> QED
    BY <2>5 DEF x, w
<1>6. b * s + r \in 0..(c - 1)
  <2>1. PICK d \in Nat : R = s + 1 + d
    <3>1. R - s - 1 \in Nat /\ R = s + 1 + (R - s - 1)
      BY <1>4
    <3> QED
      BY <3>1
  <2>2. c = b * s + b + b * d /\ b * d \in Nat /\ b * s \in Nat
    BY <1>4, <2>1 DEF c
  <2> DEFINE w == b * s
             z == b * d
  <2>3. c = w + b + z /\ z \in Nat /\ w \in Nat
    BY <2>2
  <2> HIDE DEF w, z
  <2>4. w + r \in 0..(c - 1)
    BY <1>1, <2>3
  <2> QED
    BY <2>4 DEF w
<1>7. t = p
  <2> DEFINE l == b * s + r
  <2>1. l \in 0..(c - 1) /\ a = c * p + l
    BY <1>5, <1>6
  <2> HIDE DEF l
  <2>2. c * p + l <= c * t + u /\ c * t + u <= c * p + l
    BY <1>3, <2>1
  <2>3. p <= t /\ t <= p
    BY <1>2, <1>3, <1>4, <2>1, <2>2, OneQuotient
  <2> QED
    BY <1>3, <1>4, <2>3
<1>8. q = R * t + s
  BY <1>4, <1>7
<1> QED
  BY <1>8 DEF q, t, c, s

\* A number is not divided into more than a larger one.
LEMMA DividingGrows ==
  ASSUME NEW m \in Nat, NEW n \in Nat, NEW b \in Nat \ {0}, m <= n
  PROVE  m \div b <= n \div b
<1> DEFINE q == m \div b
           r == m % b
           p == n \div b
           s == n % b
<1>1. /\ q \in Nat /\ r \in 0..(b - 1) /\ m = b * q + r
      /\ p \in Nat /\ s \in 0..(b - 1) /\ n = b * p + s
  BY Dividing
<1> HIDE DEF q, r, p, s
<1>2. b * q + r <= b * p + s
  BY <1>1
<1>3. q <= p
  BY <1>1, <1>2, OneQuotient
<1> QED
  BY <1>3 DEF q, p

\* A number is not divided by a larger one.
LEMMA DividingSmall ==
  ASSUME NEW b \in Nat \ {0}, NEW a \in 0..(b - 1)
  PROVE  a \div b = 0
<1> DEFINE q == a \div b
           r == a % b
<1> a \in Nat
  OBVIOUS
<1>1. q \in Nat /\ r \in 0..(b - 1) /\ a = b * q + r
  BY Dividing
<1> HIDE DEF q, r
<1>2. b * q + r <= b * 0 + a
  BY <1>1
<1>3. q <= 0
  <2>1. PICK z \in Nat : z = 0
    OBVIOUS
  <2>2. b * q + r <= b * z + a
    BY <1>2, <2>1
  <2>3. q <= z
    BY <1>1, <2>2, OneQuotient
  <2> QED
    BY <2>1, <2>3
<1> QED
  BY <1>1, <1>3 DEF q
=============================================================================
