--------------------------- MODULE ParkingLotProofs ---------------------------
(***************************************************************************)
(* Proofs about ParkingLot, for any threads and addresses, any hash        *)
(* function, any load and growth factors and any number of rehashes: the   *)
(* operators, the inductive invariant in its two parts (tables and locks;  *)
(* queues and unparkers), the safety properties, and the refinement of     *)
(* ParkingQueues.                                                          *)
(***************************************************************************)
EXTENDS ParkingLot, Integers, SequenceFacts, FiniteSetTheorems, TLAPS

-----------------------------------------------------------------------------
(***************************************************************************)
(* Sorted and Selected.                                                    *)
(***************************************************************************)

(* Keys that tell the elements of S apart.                                 *)
Keys(S, key) == \A x, y \in S : key[x] \in Nat /\ (key[x] = key[y] => x = y)

Upto(S, key, x) == {y \in S : key[y] <= key[x]}

LEMMA UptoFacts ==
    ASSUME NEW S, IsFiniteSet(S), NEW key, Keys(S, key), NEW x \in S
    PROVE  /\ IsFiniteSet(Upto(S, key, x)) /\ Cardinality(Upto(S, key, x)) \in 1 .. Cardinality(S)
           /\ \A y \in S : key[x] < key[y] => Cardinality(Upto(S, key, x)) < Cardinality(Upto(S, key, y))
<1>1. Upto(S, key, x) \in SUBSET S /\ x \in Upto(S, key, x)
  BY DEF Upto, Keys
<1>2. /\ IsFiniteSet(Upto(S, key, x)) /\ Cardinality(Upto(S, key, x)) \in Nat /\ Cardinality(S) \in Nat
      /\ Cardinality(Upto(S, key, x)) <= Cardinality(S)
  BY <1>1, FS_Subset, FS_CardinalityType
<1>3. Cardinality(Upto(S, key, x)) # 0
  BY <1>1, <1>2, FS_EmptySet
<1>4. ASSUME NEW y \in S, key[x] < key[y] PROVE Cardinality(Upto(S, key, x)) < Cardinality(Upto(S, key, y))
  <2>1. Upto(S, key, y) \in SUBSET S
    BY DEF Upto
  <2>2. IsFiniteSet(Upto(S, key, y)) /\ Cardinality(Upto(S, key, y)) \in Nat
    BY <2>1, FS_Subset, FS_CardinalityType
  <2>3. Upto(S, key, x) \in SUBSET Upto(S, key, y) /\ y \in Upto(S, key, y) /\ y \notin Upto(S, key, x)
    BY <1>4 DEF Upto, Keys
  <2>4. /\ Cardinality(Upto(S, key, x)) <= Cardinality(Upto(S, key, y))
        /\ Cardinality(Upto(S, key, y)) = Cardinality(Upto(S, key, x)) => Upto(S, key, y) = Upto(S, key, x)
    BY <2>2, <2>3, FS_Subset
  <2> QED
    BY <1>2, <2>2, <2>3, <2>4
<1> QED
  BY <1>1, <1>2, <1>3, <1>4

(* Sorted(S, key) lists the elements of S, each once, in the order of      *)
(* their keys.                                                             *)
LEMMA SortedFacts ==
    ASSUME NEW S, IsFiniteSet(S), NEW key, Keys(S, key)
    PROVE  /\ Sorted(S, key) \in Seq(S) /\ Len(Sorted(S, key)) = Cardinality(S) /\ Cardinality(S) \in Nat
           /\ DOMAIN Sorted(S, key) = 1 .. Cardinality(S)
           /\ \A x \in S : \E n \in DOMAIN Sorted(S, key) : Sorted(S, key)[n] = x
           /\ \A n \in DOMAIN Sorted(S, key) : Sorted(S, key)[n] \in S
           /\ \A m, n \in DOMAIN Sorted(S, key) : m < n => key[Sorted(S, key)[m]] < key[Sorted(S, key)[n]]
           /\ \A m, n \in DOMAIN Sorted(S, key) : Sorted(S, key)[m] = Sorted(S, key)[n] => m = n
<1> DEFINE N == Cardinality(S)
           Rank(x) == Cardinality(Upto(S, key, x))
           rank == [x \in S |-> Rank(x)]
           r == Sorted(S, key)
<1>1. N \in Nat /\ IsFiniteSet(1 .. N) /\ Cardinality(1 .. N) = N
  <2>1. N \in Nat
    BY FS_CardinalityType
  <2> HIDE DEF N
  <2> QED
    BY <2>1, FS_Interval
<1>2. /\ \A x \in S : Rank(x) \in 1 .. N
      /\ \A x, y \in S : key[x] < key[y] => Rank(x) < Rank(y)
  BY UptoFacts
<1>3. \A x, y \in S : Rank(x) = Rank(y) => x = y
  <2> SUFFICES ASSUME NEW x \in S, NEW y \in S, Rank(x) = Rank(y), x # y PROVE FALSE
    OBVIOUS
  <2>1. key[x] < key[y] \/ key[y] < key[x]
    BY DEF Keys
  <2> HIDE DEF Rank, N
  <2>2. Rank(x) \in Nat /\ Rank(y) \in Nat
    BY <1>1, <1>2
  <2> QED
    BY <1>2, <2>1, <2>2
<1> HIDE DEF Rank
<1>4. rank \in Injection(S, 1 .. N)
  BY <1>2, <1>3 DEF Injection, IsInjective
<1>5. rank \in Surjection(S, 1 .. N)
  <2> HIDE DEF rank
  <2> QED
    BY <1>1, <1>4, FS_Injection
<1>6. \A n \in 1 .. N : \E x \in S : Rank(x) = n
  BY <1>5 DEF Surjection
<1>7. r = [n \in 1 .. N |-> CHOOSE x \in S : Rank(x) = n]
  BY DEF Sorted, Rank, Upto
<1> HIDE DEF r, N
<1>8. \A n \in 1 .. N : r[n] \in S /\ Rank(r[n]) = n
  BY <1>6, <1>7
<1>9. DOMAIN r = 1 .. N /\ r \in [1 .. N -> S]
  BY <1>7, <1>8
<1>10. r \in Seq(S) /\ Len(r) = N
  BY <1>1, <1>7, <1>8, <1>9
<1>11. \A x \in S : \E n \in 1 .. N : r[n] = x
  <2> SUFFICES ASSUME NEW x \in S PROVE r[Rank(x)] = x /\ Rank(x) \in 1 .. N
    OBVIOUS
  <2> QED
    BY <1>2, <1>3, <1>8
<1>12. \A m, n \in 1 .. N : m < n => key[r[m]] < key[r[n]]
  <2> SUFFICES ASSUME NEW m \in 1 .. N, NEW n \in 1 .. N, m < n PROVE key[r[m]] < key[r[n]]
    OBVIOUS
  <2>1. r[m] \in S /\ r[n] \in S /\ Rank(r[m]) = m /\ Rank(r[n]) = n /\ r[m] # r[n]
    BY <1>1, <1>8
  <2>2. key[r[m]] \in Nat /\ key[r[n]] \in Nat /\ key[r[m]] # key[r[n]]
    BY <2>1 DEF Keys
  <2>3. ~(key[r[n]] < key[r[m]])
    BY <1>1, <1>2, <2>1
  <2> QED
    BY <2>2, <2>3
<1>13. \A m, n \in 1 .. N : r[m] = r[n] => m = n
  BY <1>8
<1> QED
  BY <1>1, <1>8, <1>9, <1>10, <1>11, <1>12, <1>13 DEF r, N

(* u is somewhere before v in q.                                           *)
Before(q, u, v) == \E i, j \in DOMAIN q : i < j /\ q[i] = u /\ q[j] = v

(* Two sequences with the same elements in the same order are the same.    *)
LEMMA SameLength ==
    ASSUME NEW T, NEW p \in Seq(T), NEW q \in Seq(T), IsInjective(p), IsInjective(q), Range(p) = Range(q)
    PROVE  Len(p) = Len(q)
<1>1. Len(p) \in Nat /\ DOMAIN p = 1 .. Len(p) /\ Len(q) \in Nat /\ DOMAIN q = 1 .. Len(q)
  BY LenProperties
<1>2. ASSUME NEW s \in Seq(T), IsInjective(s) PROVE IsFiniteSet(Range(s)) /\ Cardinality(Range(s)) = Len(s)
  <2>1. Len(s) \in Nat /\ DOMAIN s = 1 .. Len(s)
    BY <1>2, LenProperties
  <2>2. s \in [1 .. Len(s) -> Range(s)]
    BY <1>2, <2>1, LenProperties DEF Range
  <2>3. s \in Bijection(1 .. Len(s), Range(s))
    BY <1>2, <2>1, <2>2 DEF Bijection, Injection, Surjection, Range
  <2>4. \A n \in Nat : IsFiniteSet(1 .. n) /\ Cardinality(1 .. n) = n
    BY FS_Interval
  <2>5. IsFiniteSet(1 .. Len(s)) /\ Cardinality(1 .. Len(s)) = Len(s)
    BY <2>1, <2>4
  <2>6. ExistsBijection(1 .. Len(s), Range(s))
    BY <2>3 DEF ExistsBijection
  <2> QED
    BY <2>5, <2>6, FS_Bijection
<1> QED
  BY <1>2

LEMMA SameOrder ==
    ASSUME NEW T, NEW p \in Seq(T), NEW q \in Seq(T), IsInjective(p), IsInjective(q), Range(p) = Range(q),
           \A u, v \in T : Before(p, u, v) => Before(q, u, v)
    PROVE  p = q
<1>1. Len(p) \in Nat /\ DOMAIN p = 1 .. Len(p) /\ DOMAIN q = 1 .. Len(p) /\ Len(q) = Len(p)
  BY LenProperties, SameLength
<1>2. p \in [1 .. Len(p) -> T] /\ q \in [1 .. Len(p) -> T]
  BY <1>1, LenProperties
<1> DEFINE D == {n \in 1 .. Len(p) : p[n] # q[n]}
<1>3. SUFFICES ASSUME D # {} PROVE FALSE
  BY <1>2, <1>3
<1>4. PICK n \in D : \A k \in D : n <= k
  <2>1. D \subseteq Nat
    OBVIOUS
  <2> QED
    BY <1>3, <2>1, LeastElement
<1>5. n \in 1 .. Len(p) /\ p[n] # q[n] /\ \A k \in 1 .. Len(p) : k < n => p[k] = q[k]
  BY <1>4
<1> HIDE DEF D
<1>6. PICK m \in 1 .. Len(p) : q[m] = p[n]
  BY <1>1, <1>5 DEF Range
<1>7. PICK k \in 1 .. Len(p) : p[k] = q[n]
  BY <1>1, <1>5 DEF Range
<1>8. n < m
  <2>1. m # n
    BY <1>5, <1>6
  <2>2. ~(m < n)
    BY <1>1, <1>5, <1>6, <2>1 DEF IsInjective
  <2> QED
    BY <1>5, <2>1, <2>2
<1>9. n < k
  <2>1. k # n
    BY <1>5, <1>7
  <2>2. ~(k < n)
    BY <1>1, <1>5, <1>7, <2>1 DEF IsInjective
  <2> QED
    BY <1>5, <2>1, <2>2
<1>10. Before(p, p[n], p[k])
  BY <1>1, <1>5, <1>7, <1>9 DEF Before
<1>11. Before(q, p[n], p[k])
  BY <1>2, <1>5, <1>10
<1>12. PICK i, j \in 1 .. Len(p) : i < j /\ q[i] = p[n] /\ q[j] = p[k]
  BY <1>1, <1>11 DEF Before
<1>13. i = m /\ j = n
  BY <1>1, <1>5, <1>6, <1>7, <1>12 DEF IsInjective
<1> QED
  BY <1>8, <1>12, <1>13

(* How the operations on sequences treat the order.                        *)
LEMMA ConcatOrder ==
    ASSUME NEW T, NEW x \in Seq(T), NEW y \in Seq(T)
    PROVE  /\ x \o y \in Seq(T)
           /\ Range(x \o y) = Range(x) \cup Range(y)
           /\ IsInjective(x) /\ IsInjective(y) /\ Range(x) \cap Range(y) = {} => IsInjective(x \o y)
           /\ \A u, v : Before(x \o y, u, v) <=> Before(x, u, v) \/ Before(y, u, v) \/ (u \in Range(x) /\ v \in Range(y))
<1> DEFINE z == x \o y
           m == Len(x)
           n == Len(y)
<1>1. m \in Nat /\ n \in Nat /\ DOMAIN x = 1 .. m /\ DOMAIN y = 1 .. n
  BY LenProperties
<1>2. /\ z \in Seq(T) /\ Len(z) = m + n
      /\ \A i \in 1 .. m + n : z[i] = IF i <= m THEN x[i] ELSE y[i - m]
  BY ConcatProperties
<1>3. DOMAIN z = 1 .. m + n
  BY <1>2, LenProperties
<1> HIDE DEF z, m, n
<1>4. /\ \A i \in DOMAIN x : i \in DOMAIN z /\ z[i] = x[i] /\ i <= m
      /\ \A i \in DOMAIN y : m + i \in DOMAIN z /\ z[m + i] = y[i] /\ m < m + i
      /\ \A i \in DOMAIN z : \/ i \in DOMAIN x /\ z[i] = x[i]
                             \/ i - m \in DOMAIN y /\ z[i] = y[i - m] /\ i > m /\ i = m + (i - m)
      /\ DOMAIN x \subseteq Nat /\ DOMAIN y \subseteq Nat /\ DOMAIN z \subseteq Nat
  BY <1>1, <1>2, <1>3
<1>5. Range(z) = Range(x) \cup Range(y)
  BY <1>4 DEF Range
<1>6. ASSUME IsInjective(x), IsInjective(y), Range(x) \cap Range(y) = {} PROVE IsInjective(z)
  <2> SUFFICES ASSUME NEW i \in DOMAIN z, NEW j \in DOMAIN z, z[i] = z[j] PROVE i = j
    BY DEF IsInjective
  <2>1. CASE i \in DOMAIN x /\ z[i] = x[i]
    <3>1. x[i] \in Range(x)
      BY <2>1 DEF Range
    <3>2. j \in DOMAIN x /\ z[j] = x[j]
      <4>1. ASSUME j - m \in DOMAIN y, z[j] = y[j - m] PROVE FALSE
        <5>1. z[j] \in Range(y) /\ z[j] \in Range(x)
          BY <2>1, <3>1, <4>1 DEF Range
        <5> QED
          BY <1>6, <5>1
      <4> QED
        BY <1>4, <4>1
    <3> QED
      BY <1>6, <2>1, <3>2 DEF IsInjective
  <2>2. CASE i - m \in DOMAIN y /\ z[i] = y[i - m] /\ i = m + (i - m)
    <3>1. y[i - m] \in Range(y)
      BY <2>2 DEF Range
    <3>2. j - m \in DOMAIN y /\ z[j] = y[j - m] /\ j = m + (j - m)
      <4>1. ASSUME j \in DOMAIN x, z[j] = x[j] PROVE FALSE
        <5>1. z[j] \in Range(y) /\ z[j] \in Range(x)
          BY <2>2, <3>1, <4>1 DEF Range
        <5> QED
          BY <1>6, <5>1
      <4> QED
        BY <1>4, <4>1
    <3>3. i - m = j - m
      BY <1>6, <2>2, <3>2 DEF IsInjective
    <3> QED
      BY <2>2, <3>2, <3>3
  <2> QED
    BY <1>4, <2>1, <2>2
<1>7. ASSUME NEW u, NEW v, Before(z, u, v)
      PROVE  Before(x, u, v) \/ Before(y, u, v) \/ (u \in Range(x) /\ v \in Range(y))
  <2>1. PICK i, j \in DOMAIN z : i < j /\ z[i] = u /\ z[j] = v
    BY <1>7 DEF Before
  <2>2. CASE i \in DOMAIN x /\ j \in DOMAIN x
    BY <1>4, <2>1, <2>2 DEF Before
  <2>3. CASE i \in DOMAIN x /\ j \notin DOMAIN x
    <3>1. j - m \in DOMAIN y /\ z[j] = y[j - m]
      BY <1>4, <2>1, <2>3
    <3> QED
      BY <1>4, <2>1, <2>3, <3>1 DEF Range
  <2>4. CASE i \notin DOMAIN x
    <3>1. i - m \in DOMAIN y /\ z[i] = y[i - m] /\ i > m
      BY <1>4, <2>1, <2>4
    <3>2. j > m
      BY <1>1, <1>4, <2>1, <3>1
    <3>3. j - m \in DOMAIN y /\ z[j] = y[j - m]
      BY <1>1, <1>4, <2>1, <3>2
    <3>4. i - m < j - m
      BY <1>1, <1>4, <2>1
    <3> QED
      BY <2>1, <3>1, <3>3, <3>4 DEF Before
  <2> QED
    BY <2>2, <2>3, <2>4
<1>8. ASSUME NEW u, NEW v, Before(x, u, v) \/ Before(y, u, v) \/ (u \in Range(x) /\ v \in Range(y))
      PROVE  Before(z, u, v)
  <2>1. CASE Before(x, u, v)
    <3>1. PICK i, j \in DOMAIN x : i < j /\ x[i] = u /\ x[j] = v
      BY <2>1 DEF Before
    <3> QED
      BY <1>4, <3>1 DEF Before
  <2>2. CASE Before(y, u, v)
    <3>1. PICK i, j \in DOMAIN y : i < j /\ y[i] = u /\ y[j] = v
      BY <2>2 DEF Before
    <3>2. m + i < m + j /\ z[m + i] = u /\ z[m + j] = v /\ m + i \in DOMAIN z /\ m + j \in DOMAIN z
      BY <1>1, <1>4, <3>1
    <3> QED
      BY <3>2 DEF Before
  <2>3. CASE u \in Range(x) /\ v \in Range(y)
    <3>1. PICK i \in DOMAIN x : x[i] = u
      BY <2>3 DEF Range
    <3>2. PICK j \in DOMAIN y : y[j] = v
      BY <2>3 DEF Range
    <3>3. i < m + j /\ z[i] = u /\ z[m + j] = v /\ i \in DOMAIN z /\ m + j \in DOMAIN z
      BY <1>1, <1>4, <3>1, <3>2
    <3> QED
      BY <3>3 DEF Before
  <2> QED
    BY <1>8, <2>1, <2>2, <2>3
<1> QED
  BY <1>2, <1>5, <1>6, <1>7, <1>8 DEF z

LEMMA AppendOrder ==
    ASSUME NEW T, NEW q \in Seq(T), NEW e \in T
    PROVE  \A u, v : Before(Append(q, e), u, v) <=> Before(q, u, v) \/ (u \in Range(q) /\ v = e)
<1>1. <<e>> \in Seq(T) /\ Append(q, e) = q \o <<e>>
  OBVIOUS
<1>2. \A u, v : ~Before(<<e>>, u, v)
  BY DEF Before
<1>3. Range(<<e>>) = {e}
  BY DEF Range
<1>4. \A u, v : Before(q \o <<e>>, u, v) <=> Before(q, u, v) \/ Before(<<e>>, u, v) \/ (u \in Range(q) /\ v \in Range(<<e>>))
  BY <1>1, ConcatOrder
<1> QED
  BY <1>1, <1>2, <1>3, <1>4

LEMMA TailOrder ==
    ASSUME NEW T, NEW q \in Seq(T), q # <<>>, NEW u, NEW v, Before(q, u, v), u # Head(q), v # Head(q)
    PROVE  Before(Tail(q), u, v)
<1>1. PICK i, j \in DOMAIN q : i < j /\ q[i] = u /\ q[j] = v
  BY DEF Before
<1>2. i # 1 /\ j # 1
  BY <1>1, TailPlaces
<1>3. /\ i - 1 \in DOMAIN Tail(q) /\ Tail(q)[i - 1] = u /\ j - 1 \in DOMAIN Tail(q) /\ Tail(q)[j - 1] = v
      /\ i \in Nat /\ j \in Nat
  BY <1>1, <1>2, TailPlaces
<1>4. i - 1 < j - 1
  BY <1>1, <1>3
<1> QED
  BY <1>3, <1>4 DEF Before

LEMMA RemoveAtOrder ==
    ASSUME NEW T, NEW q \in Seq(T), NEW i \in 1 .. Len(q), NEW u, NEW v, Before(RemoveAt(q, i), u, v)
    PROVE  Before(q, u, v)
<1> DEFINE r == RemoveAt(q, i)
           Old(k) == IF k < i THEN k ELSE k + 1
<1>1. Len(q) \in Nat /\ DOMAIN q = 1 .. Len(q) /\ i \in Nat
  BY LenProperties
<1>2. /\ r \in Seq(T) /\ Len(r) = Len(q) - 1
      /\ \A k \in 1 .. (Len(q) - 1) : r[k] = IF k < i THEN q[k] ELSE q[k + 1]
  BY RemoveAtFacts
<1>3. DOMAIN r = 1 .. Len(q) - 1
  BY <1>2, LenProperties
<1> HIDE DEF r
<1>4. PICK k, l \in DOMAIN r : k < l /\ r[k] = u /\ r[l] = v
  BY DEF Before, r
<1>5. Old(k) \in DOMAIN q /\ Old(l) \in DOMAIN q /\ Old(k) < Old(l) /\ q[Old(k)] = u /\ q[Old(l)] = v
  BY <1>1, <1>2, <1>3, <1>4
<1> HIDE DEF Old
<1> QED
  BY <1>5 DEF Before

LEMMA RemoveFirstFacts ==
    ASSUME NEW T, NEW q \in Seq(T), NEW e
    PROVE  /\ Contains(q, e) <=> e \in Range(q)
           /\ ~Contains(q, e) => RemoveFirst(q, e) = q
           /\ Contains(q, e) => \E i \in 1 .. Len(q) : q[i] = e /\ RemoveFirst(q, e) = RemoveAt(q, i)
<1>1. Len(q) \in Nat /\ DOMAIN q = 1 .. Len(q)
  BY LenProperties
<1>2. Contains(q, e) <=> e \in Range(q)
  BY <1>1 DEF Contains, Range
<1>3. ~Contains(q, e) => RemoveFirst(q, e) = q
  BY DEF Contains, RemoveFirst
<1>4. ASSUME Contains(q, e) PROVE \E i \in 1 .. Len(q) : q[i] = e /\ RemoveFirst(q, e) = RemoveAt(q, i)
  <2> DEFINE I == {i \in 1 .. Len(q) : q[i] = e}
  <2>1. I # {} /\ I \subseteq Nat
    BY <1>4 DEF Contains
  <2>2. RemoveFirst(q, e) = RemoveAt(q, Min(I))
    BY <1>4, <2>1 DEF Contains, RemoveFirst, SelectInSeq
  <2>3. Min(I) \in I
    <3> HIDE DEF I
    <3> QED
      BY <2>1, LeastNatural
  <2> QED
    BY <2>2, <2>3
<1> QED
  BY <1>2, <1>3, <1>4

LEMMA RemoveFirstOrder ==
    ASSUME NEW T, NEW q \in Seq(T), NEW e, IsInjective(q)
    PROVE  /\ RemoveFirst(q, e) \in Seq(T) /\ IsInjective(RemoveFirst(q, e))
           /\ Range(RemoveFirst(q, e)) = Range(q) \ {e}
           /\ \A u, v : Before(RemoveFirst(q, e), u, v) => Before(q, u, v)
<1>1. CASE ~Contains(q, e)
  BY <1>1, RemoveFirstFacts
<1>2. CASE Contains(q, e)
  <2>1. PICK i \in 1 .. Len(q) : q[i] = e /\ RemoveFirst(q, e) = RemoveAt(q, i)
    BY <1>2, RemoveFirstFacts
  <2> QED
    BY <2>1, RemoveAtFacts, RemoveAtOrder
<1> QED
  BY <1>1, <1>2

(* Selected: its partial results exist, and are what they should be.       *)
IsUpto(f, q, S, m) ==
    f = [n \in 0 .. m |-> IF n = 0 THEN <<>> ELSE IF q[n] \in S THEN Append(f[n - 1], q[n]) ELSE f[n - 1]]

LEMMA UptoExists ==
    ASSUME NEW q, NEW S, NEW m \in Nat
    PROVE  \E f : IsUpto(f, q, S, m)
<1> DEFINE D == {k \in Nat : ~\E f : IsUpto(f, q, S, k)}
<1>1. SUFFICES ASSUME D # {} PROVE FALSE
  OBVIOUS
<1>2. PICK k \in D : \A l \in D : k <= l
  <2>1. D \subseteq Nat
    OBVIOUS
  <2> HIDE DEF D
  <2> QED
    BY <1>1, <2>1, LeastElement
<1>3. k \in Nat /\ ~\E f : IsUpto(f, q, S, k)
  BY <1>2
<1>4. k # 0
  <2> DEFINE e == [n \in 0 .. 0 |-> <<>>]
  <2>1. \A n \in 0 .. 0 : n = 0
    OBVIOUS
  <2>2. e = [n \in 0 .. 0 |-> IF n = 0 THEN <<>> ELSE IF q[n] \in S THEN Append(e[n - 1], q[n]) ELSE e[n - 1]]
    BY <2>1
  <2> HIDE DEF e
  <2>3. IsUpto(e, q, S, 0)
    BY <2>2 DEF IsUpto
  <2> QED
    BY <1>3, <2>3
<1>5. k - 1 \in Nat /\ k - 1 \notin D
  BY <1>2, <1>3, <1>4
<1>6. PICK f : IsUpto(f, q, S, k - 1)
  BY <1>5
<1> DEFINE last == IF q[k] \in S THEN Append(f[k - 1], q[k]) ELSE f[k - 1]
           g == [n \in 0 .. k |-> IF n = k THEN last ELSE f[n]]
<1>7. \A n \in 0 .. k : n # k => n \in 0 .. (k - 1) /\ (n # 0 => n - 1 \in 0 .. (k - 1) /\ n - 1 \in 0 .. k /\ n - 1 # k)
  BY <1>3, <1>4
<1>8. \A n \in 0 .. (k - 1) : f[n] = IF n = 0 THEN <<>> ELSE IF q[n] \in S THEN Append(f[n - 1], q[n]) ELSE f[n - 1]
  BY <1>6 DEF IsUpto
<1>9. k - 1 \in 0 .. k /\ k - 1 # k
  BY <1>3, <1>4
<1>10. \A n \in 0 .. k : g[n] = IF n = k THEN last ELSE f[n]
  OBVIOUS
<1>11. ASSUME NEW n \in 0 .. k
       PROVE  g[n] = IF n = 0 THEN <<>> ELSE IF q[n] \in S THEN Append(g[n - 1], q[n]) ELSE g[n - 1]
  <2>1. CASE n = k
    BY <1>4, <1>9, <1>10, <2>1
  <2>2. CASE n # k
    <3>1. g[n] = f[n] /\ (n # 0 => g[n - 1] = f[n - 1])
      BY <1>7, <1>10, <2>2
    <3> HIDE DEF g
    <3> QED
      BY <1>7, <1>8, <2>2, <3>1
  <2> QED
    BY <2>1, <2>2
<1>12. g = [n \in 0 .. k |-> g[n]]
  OBVIOUS
<1> HIDE DEF g
<1>13. IsUpto(g, q, S, k)
  BY <1>11, <1>12 DEF IsUpto
<1> QED
  BY <1>3, <1>13

(* x has, of the first n elements of q, those that are in S.               *)
Chosen(x, q, S, n, T) ==
    /\ x \in Seq(T)
    /\ \A u : u \in Range(x) <=> u \in S /\ \E i \in 1 .. n : q[i] = u
    /\ \A u, v : Before(x, u, v) <=> u \in S /\ v \in S /\ \E i, j \in 1 .. n : i < j /\ q[i] = u /\ q[j] = v
    /\ IsInjective(q) => IsInjective(x)

LEMMA ChosenGrows ==
    ASSUME NEW T, NEW q \in Seq(T), NEW S, NEW n \in 1 .. Len(q), NEW x, Chosen(x, q, S, n - 1, T)
    PROVE  Chosen(IF q[n] \in S THEN Append(x, q[n]) ELSE x, q, S, n, T)
<1>1. Len(q) \in Nat /\ DOMAIN q = 1 .. Len(q) /\ q[n] \in T /\ n \in Nat
  BY LenProperties, ElementOfSeq
<1>2. /\ 1 .. n = (1 .. (n - 1)) \cup {n} /\ \A i \in 1 .. (n - 1) : i < n /\ i \in DOMAIN q
      /\ \A i \in 1 .. n : ~(n < i) /\ i \in DOMAIN q
  BY <1>1
<1>3. CASE q[n] \notin S
  <2>1. \A u \in S : (\E i \in 1 .. n : q[i] = u) <=> \E i \in 1 .. (n - 1) : q[i] = u
    BY <1>2, <1>3
  <2>2. \A u, v \in S : (\E i, j \in 1 .. n : i < j /\ q[i] = u /\ q[j] = v) <=>
                        \E i, j \in 1 .. (n - 1) : i < j /\ q[i] = u /\ q[j] = v
    BY <1>2, <1>3
  <2> QED
    BY <1>3, <2>1, <2>2 DEF Chosen
<1>4. CASE q[n] \in S
  <2> DEFINE z == Append(x, q[n])
  <2>1. /\ z \in Seq(T) /\ Range(z) = Range(x) \cup {q[n]}
        /\ IsInjective(x) /\ q[n] \notin Range(x) => IsInjective(z)
    BY <1>1, AppendFacts DEF Chosen
  <2>2. \A u, v : Before(z, u, v) <=> Before(x, u, v) \/ (u \in Range(x) /\ v = q[n])
    BY <1>1, AppendOrder DEF Chosen
  <2> HIDE DEF z
  <2>3. \A u : u \in Range(z) <=> u \in S /\ \E i \in 1 .. n : q[i] = u
    BY <1>2, <1>4, <2>1 DEF Chosen
  <2>4. ASSUME NEW u, NEW v, Before(z, u, v)
        PROVE  u \in S /\ v \in S /\ \E i, j \in 1 .. n : i < j /\ q[i] = u /\ q[j] = v
    <3>1. CASE Before(x, u, v)
      BY <1>2, <3>1 DEF Chosen
    <3>2. CASE u \in Range(x) /\ v = q[n]
      BY <1>2, <1>4, <3>2 DEF Chosen
    <3> QED
      BY <2>2, <2>4, <3>1, <3>2
  <2>5. ASSUME NEW u \in S, NEW v \in S, NEW i \in 1 .. n, NEW j \in 1 .. n, i < j, q[i] = u, q[j] = v
        PROVE  Before(z, u, v)
    <3>1. i \in 1 .. (n - 1)
      BY <1>1, <2>5
    <3>2. CASE j = n
      <4>1. u \in Range(x)
        BY <2>5, <3>1 DEF Chosen
      <4> QED
        BY <2>2, <2>5, <3>2, <4>1
    <3>3. CASE j \in 1 .. (n - 1)
      <4>1. Before(x, u, v)
        BY <2>5, <3>1, <3>3 DEF Chosen
      <4> QED
        BY <2>2, <4>1
    <3> QED
      BY <1>2, <3>2, <3>3
  <2>6. IsInjective(q) => IsInjective(z)
    <3>1. IsInjective(q) => q[n] \notin Range(x)
      BY <1>2 DEF Chosen, IsInjective
    <3> QED
      BY <2>1, <3>1 DEF Chosen
  <2>7. Chosen(z, q, S, n, T)
    BY <2>1, <2>3, <2>4, <2>5, <2>6 DEF Chosen
  <2> QED
    BY <1>4, <2>7 DEF z
<1> QED
  BY <1>3, <1>4

LEMMA SelectedChosen ==
    ASSUME NEW T, NEW q \in Seq(T), NEW S
    PROVE  Chosen(Selected(q, S), q, S, Len(q), T)
<1>1. Len(q) \in Nat
  BY LenProperties
<1> DEFINE f == CHOOSE f : IsUpto(f, q, S, Len(q))
           D == {n \in 0 .. Len(q) : ~Chosen(f[n], q, S, n, T)}
<1>2. Selected(q, S) = f[Len(q)]
  BY DEF Selected, IsUpto
<1>3. IsUpto(f, q, S, Len(q))
  BY <1>1, UptoExists
<1> HIDE DEF f
<1>4. \A n \in 0 .. Len(q) : f[n] = IF n = 0 THEN <<>> ELSE IF q[n] \in S THEN Append(f[n - 1], q[n]) ELSE f[n - 1]
  BY <1>3 DEF IsUpto
<1>5. SUFFICES ASSUME D # {} PROVE FALSE
  BY <1>1, <1>2
<1>6. PICK n \in D : \A k \in D : n <= k
  <2>1. D \subseteq Nat
    OBVIOUS
  <2> HIDE DEF D
  <2> QED
    BY <1>5, <2>1, LeastElement
<1>7. n \in 0 .. Len(q) /\ ~Chosen(f[n], q, S, n, T)
  BY <1>6
<1>8. CASE n = 0
  <2>1. f[n] = <<>>
    BY <1>4, <1>7, <1>8
  <2>2. Range(<<>>) = {} /\ <<>> \in Seq(T) /\ IsInjective(<<>>) /\ 1 .. 0 = {} /\ \A u, v : ~Before(<<>>, u, v)
    BY DEF Range, IsInjective, Before
  <2> QED
    BY <1>7, <1>8, <2>1, <2>2 DEF Chosen
<1>9. CASE n # 0
  <2>1. n - 1 \in 0 .. Len(q) /\ n - 1 \notin D /\ n \in 1 .. Len(q)
    BY <1>1, <1>6, <1>7, <1>9
  <2>2. Chosen(f[n - 1], q, S, n - 1, T) /\ f[n] = IF q[n] \in S THEN Append(f[n - 1], q[n]) ELSE f[n - 1]
    BY <1>4, <1>7, <1>9, <2>1
  <2> QED
    BY <1>7, <2>1, <2>2, ChosenGrows
<1> QED
  BY <1>8, <1>9

LEMMA SelectedFacts ==
    ASSUME NEW T, NEW q \in Seq(T), NEW S
    PROVE  /\ Selected(q, S) \in Seq(T)
           /\ \A u : u \in Range(Selected(q, S)) <=> u \in Range(q) /\ u \in S
           /\ IsInjective(q) => IsInjective(Selected(q, S))
           /\ \A u, v : Before(Selected(q, S), u, v) <=> Before(q, u, v) /\ u \in S /\ v \in S
<1>1. DOMAIN q = 1 .. Len(q)
  BY LenProperties
<1>2. Chosen(Selected(q, S), q, S, Len(q), T)
  BY SelectedChosen
<1>3. \A u : u \in Range(q) <=> \E i \in 1 .. Len(q) : q[i] = u
  BY <1>1 DEF Range
<1>4. \A u, v : Before(q, u, v) <=> \E i, j \in 1 .. Len(q) : i < j /\ q[i] = u /\ q[j] = v
  BY <1>1 DEF Before
<1> DEFINE s == Selected(q, S)
<1> HIDE DEF s
<1>5. /\ s \in Seq(T)
      /\ \A u : u \in Range(s) <=> u \in S /\ \E i \in 1 .. Len(q) : q[i] = u
      /\ \A u, v : Before(s, u, v) <=> u \in S /\ v \in S /\ \E i, j \in 1 .. Len(q) : i < j /\ q[i] = u /\ q[j] = v
      /\ IsInjective(q) => IsInjective(s)
  BY <1>2 DEF Chosen, s
<1>6. ASSUME NEW u PROVE u \in Range(s) <=> u \in Range(q) /\ u \in S
  BY <1>3, <1>5
<1>7. ASSUME NEW u, NEW v PROVE Before(s, u, v) <=> Before(q, u, v) /\ u \in S /\ v \in S
  BY <1>4, <1>5
<1> QED
  BY <1>5, <1>6, <1>7 DEF s

(* FlattenSeq: its partial results exist, and are what they should be.     *)
IsFlat(f, ss, n) == f = [i \in 1 .. n |-> IF i = 1 THEN ss[i] ELSE f[i - 1] \o ss[i]]

LEMMA FlatExists ==
    ASSUME NEW ss, NEW n \in Nat
    PROVE  \E f : IsFlat(f, ss, n)
<1> DEFINE D == {k \in Nat : ~\E f : IsFlat(f, ss, k)}
<1>1. SUFFICES ASSUME D # {} PROVE FALSE
  OBVIOUS
<1>2. PICK k \in D : \A l \in D : k <= l
  <2>1. D \subseteq Nat
    OBVIOUS
  <2> HIDE DEF D
  <2> QED
    BY <1>1, <2>1, LeastElement
<1>3. k \in Nat /\ ~\E f : IsFlat(f, ss, k)
  BY <1>2
<1>4. k # 0
  <2>1. 1 .. 0 = {}
    OBVIOUS
  <2>2. IsFlat([i \in 1 .. 0 |-> 0], ss, 0)
    BY <2>1 DEF IsFlat
  <2> QED
    BY <1>3, <2>2
<1>5. k - 1 \in Nat /\ k - 1 \notin D
  BY <1>2, <1>3, <1>4
<1>6. PICK f : IsFlat(f, ss, k - 1)
  BY <1>5
<1> DEFINE last == IF k = 1 THEN ss[k] ELSE f[k - 1] \o ss[k]
           g == [i \in 1 .. k |-> IF i = k THEN last ELSE f[i]]
<1>7. \A i \in 1 .. k : i # k => i \in 1 .. (k - 1) /\ (i # 1 => i - 1 \in 1 .. (k - 1) /\ i - 1 \in 1 .. k /\ i - 1 # k)
  BY <1>3, <1>4
<1>8. \A i \in 1 .. (k - 1) : f[i] = IF i = 1 THEN ss[i] ELSE f[i - 1] \o ss[i]
  BY <1>6 DEF IsFlat
<1>9. k # 1 => k - 1 \in 1 .. k /\ k - 1 # k
  BY <1>3, <1>4
<1>10. \A i \in 1 .. k : g[i] = IF i = k THEN last ELSE f[i]
  OBVIOUS
<1>11. ASSUME NEW i \in 1 .. k PROVE g[i] = IF i = 1 THEN ss[i] ELSE g[i - 1] \o ss[i]
  <2>1. CASE i = k
    BY <1>9, <1>10, <2>1
  <2>2. CASE i # k
    <3>1. g[i] = f[i] /\ (i # 1 => g[i - 1] = f[i - 1])
      BY <1>7, <1>10, <2>2
    <3> HIDE DEF g
    <3> QED
      BY <1>7, <1>8, <2>2, <3>1
  <2> QED
    BY <2>1, <2>2
<1>12. g = [i \in 1 .. k |-> g[i]]
  OBVIOUS
<1> HIDE DEF g
<1>13. IsFlat(g, ss, k)
  BY <1>11, <1>12 DEF IsFlat
<1> QED
  BY <1>3, <1>13

Apart(ss) ==
    /\ \A k \in DOMAIN ss : IsInjective(ss[k])
    /\ \A k, l \in DOMAIN ss : k # l => Range(ss[k]) \cap Range(ss[l]) = {}

(* r is the first n sequences of ss, one after the other.                  *)
Flat(r, ss, n, T) ==
    /\ r \in Seq(T)
    /\ \A u : u \in Range(r) <=> \E k \in 1 .. n : u \in Range(ss[k])
    /\ Apart(ss) => /\ IsInjective(r)
                    /\ \A k \in 1 .. n : \A u, v \in Range(ss[k]) : Before(r, u, v) => Before(ss[k], u, v)

LEMMA FlatGrows ==
    ASSUME NEW T, NEW ss \in Seq(Seq(T)), NEW n \in 1 .. Len(ss), n # 1, NEW r, Flat(r, ss, n - 1, T)
    PROVE  Flat(r \o ss[n], ss, n, T)
<1> DEFINE z == r \o ss[n]
<1>1. Len(ss) \in Nat /\ DOMAIN ss = 1 .. Len(ss) /\ ss[n] \in Seq(T)
  BY LenProperties, ElementOfSeq
<1>2. \A k \in 1 .. n : (k = n \/ k \in 1 .. (n - 1)) /\ k \in DOMAIN ss
  BY <1>1
<1>3. 1 .. n = (1 .. (n - 1)) \cup {n} /\ n \in DOMAIN ss /\ \A k \in 1 .. (n - 1) : k \in DOMAIN ss /\ k # n
  BY <1>1
<1>4. /\ z \in Seq(T) /\ Range(z) = Range(r) \cup Range(ss[n])
      /\ IsInjective(r) /\ IsInjective(ss[n]) /\ Range(r) \cap Range(ss[n]) = {} => IsInjective(z)
      /\ \A u, v : Before(z, u, v) <=>
             Before(r, u, v) \/ Before(ss[n], u, v) \/ (u \in Range(r) /\ v \in Range(ss[n]))
  BY <1>1, ConcatOrder DEF Flat
<1> HIDE DEF z
<1>5. \A u : u \in Range(z) <=> \E k \in 1 .. n : u \in Range(ss[k])
  BY <1>3, <1>4 DEF Flat
<1>6. ASSUME Apart(ss)
      PROVE  /\ IsInjective(z)
             /\ \A k \in 1 .. n : \A u, v \in Range(ss[k]) : Before(z, u, v) => Before(ss[k], u, v)
  <2>1. Range(r) \cap Range(ss[n]) = {}
    BY <1>3, <1>6 DEF Flat, Apart
  <2>2. IsInjective(z)
    BY <1>3, <1>4, <1>6, <2>1 DEF Flat, Apart
  <2>3. ASSUME NEW x \in Seq(T), NEW u, NEW v, Before(x, u, v) PROVE u \in Range(x) /\ v \in Range(x)
    BY <2>3 DEF Before, Range
  <2>4. ASSUME NEW k \in 1 .. n, NEW u \in Range(ss[k]), NEW v \in Range(ss[k]), Before(z, u, v)
        PROVE  Before(ss[k], u, v)
    <3>1. CASE k = n
      <4>1. u \notin Range(r)
        BY <2>1, <2>4, <3>1
      <4>2. ~Before(r, u, v)
        BY <2>3, <4>1 DEF Flat
      <4> QED
        BY <1>4, <2>4, <3>1, <4>1, <4>2
    <3>2. CASE k \in 1 .. (n - 1)
      <4>1. u \in Range(r) /\ v \in Range(r)
        BY <2>4, <3>2 DEF Flat
      <4>2. v \notin Range(ss[n])
        BY <2>1, <4>1
      <4>3. Before(r, u, v)
        BY <1>1, <1>4, <2>3, <2>4, <4>2
      <4> QED
        BY <1>6, <2>4, <3>2, <4>3 DEF Flat
    <3> QED
      BY <1>2, <3>1, <3>2
  <2> QED
    BY <2>2, <2>4
<1> QED
  BY <1>4, <1>5, <1>6 DEF Flat, z

LEMMA FlattenFacts ==
    ASSUME NEW T, NEW ss \in Seq(Seq(T))
    PROVE  Flat(FlattenSeq(ss), ss, Len(ss), T)
<1>1. Len(ss) \in Nat /\ DOMAIN ss = 1 .. Len(ss)
  BY LenProperties
<1>2. CASE Len(ss) = 0
  <2>1. FlattenSeq(ss) = <<>>
    BY <1>2, EmptySeq DEF FlattenSeq
  <2>2. Range(<<>>) = {} /\ <<>> \in Seq(T) /\ IsInjective(<<>>) /\ 1 .. 0 = {}
    BY DEF Range, IsInjective
  <2> QED
    BY <1>2, <2>1, <2>2 DEF Flat
<1>3. CASE Len(ss) # 0
  <2> DEFINE f == CHOOSE f : IsFlat(f, ss, Len(ss))
             D == {n \in 1 .. Len(ss) : ~Flat(f[n], ss, n, T)}
  <2>1. FlattenSeq(ss) = f[Len(ss)]
    BY <1>3 DEF FlattenSeq, IsFlat
  <2>2. IsFlat(f, ss, Len(ss))
    BY <1>1, FlatExists
  <2> HIDE DEF f
  <2>3. \A i \in 1 .. Len(ss) : f[i] = IF i = 1 THEN ss[i] ELSE f[i - 1] \o ss[i]
    BY <2>2 DEF IsFlat
  <2>4. SUFFICES ASSUME D # {} PROVE FALSE
    BY <1>1, <1>3, <2>1
  <2>5. PICK n \in D : \A k \in D : n <= k
    <3>1. D \subseteq Nat
      OBVIOUS
    <3> HIDE DEF D
    <3> QED
      BY <2>4, <3>1, LeastElement
  <2>6. n \in 1 .. Len(ss) /\ ~Flat(f[n], ss, n, T)
    BY <2>5
  <2>7. CASE n = 1
    <3>1. f[n] = ss[n] /\ ss[n] \in Seq(T) /\ n \in DOMAIN ss
      BY <1>1, <2>3, <2>6, <2>7, ElementOfSeq
    <3>2. 1 .. n = {n}
      BY <2>7
    <3> QED
      BY <2>6, <3>1, <3>2 DEF Flat, Apart
  <2>8. CASE n # 1
    <3>1. n - 1 \in 1 .. Len(ss) /\ n - 1 \notin D
      BY <2>5, <2>6, <2>8
    <3>2. Flat(f[n - 1], ss, n - 1, T) /\ f[n] = f[n - 1] \o ss[n]
      BY <2>3, <2>6, <2>8, <3>1
    <3> QED
      BY <2>6, <2>8, <3>2, FlatGrows
  <2> QED
    BY <2>7, <2>8
<1> QED
  BY <1>2, <1>3

-----------------------------------------------------------------------------
(***************************************************************************)
(* The inductive invariant. It has a part that always holds, about tables  *)
(* and locks, and a part about the queues.                                 *)
(***************************************************************************)

Labels ==
    {"idle", "construct", "checkSize", "lockTable", "lockNext", "tableLocked", "loadTable", "loadBucket", "lockBucket",
     "bucketLocked", "wake", "notify", "beforeSleep", "checkAddress", "asleep", "clearAddress"}
Ops == {"unparkOne", "unparkOneCallback", "unparkAll", "none", "enqueue", "forEach", "dequeueMe"}

AllTables == UNION {[0 .. n - 1 -> Nat] : n \in Nat \ {0}}
Frames == [op : Ops, address : Addresses \cup {Null}, table : Nat, bucket : Nat, numThreads : Int,
           toLock : Seq(Nat), dequeued : Seq(Threads), didFind : BOOLEAN]
ParkArgs == [address : Addresses \cup {Null}, timeout : {"never", "sometime"}]

TableType ==
    /\ tables \in Seq(AllTables)
    /\ queues \in Seq(Seq(Threads))
    /\ locks \in Seq(Threads \cup {Null}) /\ Len(locks) = Len(queues)
ThreadType ==
    /\ numThreads \in Int
    /\ address \in [Threads -> Addresses \cup {Null}]
    /\ hasThreadData \in [Threads -> BOOLEAN]
    /\ parks \in [Threads -> Nat]
    /\ park \in [Threads -> ParkArgs]
    /\ frame \in [Threads -> Frames]
    /\ pc \in [Threads -> Labels]
TypeOK == TableType /\ ThreadType

(* What the label of a thread says about its locals.                       *)
ControlOf(t) ==
    LET f == frame[t] IN
    /\ park[t] # NoPark => park[t].address \in Addresses /\ park[t].timeout \in Timeouts /\ parks[t] # 0
    /\ f.op \in {"enqueue", "dequeueMe"} => park[t] # NoPark /\ f.address = park[t].address
    /\ f.op = "dequeueMe" => park[t].timeout = "sometime"
    /\ f.op = "forEach" => park[t] = NoPark
    /\ f.didFind => pc[t] = "clearAddress"
    /\ f.dequeued # <<>> <=> pc[t] \in {"wake", "notify"}
    /\ pc[t] = "idle" => park[t] = NoPark
    /\ pc[t] \in {"beforeSleep", "checkAddress", "asleep"} => park[t] # NoPark
    /\ pc[t] \in {"idle", "beforeSleep", "checkAddress", "asleep", "wake", "notify"} => f.op = "none"
    /\ pc[t] \in {"construct", "checkSize"} => f.op = "enqueue"
    /\ pc[t] \in {"lockTable", "lockNext", "tableLocked"} => f.op \in {"enqueue", "forEach"}
    /\ pc[t] \in {"loadTable", "loadBucket", "lockBucket", "bucketLocked"} =>
           f.op \in UnparkCalls \cup {"enqueue", "dequeueMe"} /\ f.address \in Addresses
    /\ pc[t] = "clearAddress" => f.op = "dequeueMe"
ControlInv == \A t \in Threads : ControlOf(t)

FullTable(tb) == \A i \in DOMAIN tb : tb[i] # 0

(* Buckets are there, and only the current table may have empty slots.     *)
TablesInv == \A k \in 1 .. hashtable :
    /\ \A i \in DOMAIN tables[k] : tables[k][i] \in 0 .. Len(queues)
    /\ k # hashtable => FullTable(tables[k])

(* Who holds which lock, and waits for which: the locks of a table are     *)
(* taken in the order of their addresses, and all of them are held before  *)
(* the table is replaced.                                                  *)
Ascending(s) == \A i, j \in DOMAIN s : i < j => bucketAddress[s[i]] < bucketAddress[s[j]]

LocksOf(t) ==
    LET f == frame[t]
        tb == tables[f.table]
    IN  /\ \A b \in DOMAIN locks : locks[b] = t => pc[t] \in {"lockNext", "tableLocked", "bucketLocked"}
        /\ pc[t] \in {"lockNext", "tableLocked"} =>
               /\ f.table \in 1 .. hashtable /\ FullTable(tb)
               /\ \A b \in BucketsOf(tb) : locks[b] = t \/ b \in Range(f.toLock)
        /\ pc[t] = "lockNext" =>
               /\ f.toLock # <<>> /\ Ascending(f.toLock)
               /\ \A b \in Range(f.toLock) : b \in DOMAIN locks
               /\ \A b \in DOMAIN locks : locks[b] = t =>
                      \A c \in Range(f.toLock) : bucketAddress[b] < bucketAddress[c]
        /\ pc[t] = "tableLocked" => f.toLock = <<>> /\ f.table = hashtable
        /\ pc[t] \in {"loadBucket", "lockBucket", "bucketLocked"} => f.table \in 1 .. hashtable
        /\ pc[t] \in {"lockBucket", "bucketLocked"} => f.bucket # 0 /\ tb[Index(f.address, tb)] = f.bucket
        /\ pc[t] = "bucketLocked" => locks[f.bucket] = t /\ f.table = hashtable
LocksInv == \A t \in Threads : LocksOf(t)

TableInv == TypeOK /\ ControlInv /\ TablesInv /\ LocksInv

(* No two buckets are at the same place.                                   *)
AddressSpace == \A b, c \in Nat \ {0} : bucketAddress[b] \in Nat /\ (bucketAddress[b] = bucketAddress[c] => b = c)

LEMMA TableFacts ==
    ASSUME NEW tb \in AllTables
    PROVE  /\ Size(tb) \in Nat \ {0} /\ DOMAIN tb = 0 .. Size(tb) - 1 /\ IsFiniteSet(DOMAIN tb)
           /\ \A i \in DOMAIN tb : tb[i] \in Nat
           /\ \A a \in Addresses : Index(a, tb) \in DOMAIN tb
           /\ \A b : b \in BucketsOf(tb) <=> b # 0 /\ \E i \in DOMAIN tb : tb[i] = b
           /\ BucketsOf(tb) \subseteq Nat \ {0} /\ IsFiniteSet(BucketsOf(tb))
<1>1. PICK n \in Nat \ {0} : tb \in [0 .. n - 1 -> Nat]
  BY DEF AllTables
<1>2. DOMAIN tb = 0 .. n - 1 /\ \A i \in DOMAIN tb : tb[i] \in Nat
  BY <1>1
<1>3. IsFiniteSet(DOMAIN tb) /\ Size(tb) = n
  <2>1. \A m \in Int : IsFiniteSet(0 .. m) /\ (0 <= m => Cardinality(0 .. m) = m + 1)
    BY FS_Interval
  <2>2. n - 1 \in Int /\ 0 <= n - 1 /\ n - 1 + 1 = n
    OBVIOUS
  <2> QED
    BY <1>2, <2>1, <2>2 DEF Size
<1>4. \A a \in Addresses : Index(a, tb) \in DOMAIN tb
  <2> SUFFICES ASSUME NEW a \in Addresses PROVE Index(a, tb) \in DOMAIN tb
    OBVIOUS
  <2>1. hashAddress[a] \in Nat
    BY ParkingLotAssumption
  <2>2. \A m \in Nat : m % n \in 0 .. n - 1
    OBVIOUS
  <2> QED
    BY <1>2, <1>3, <2>1, <2>2 DEF Index
<1>5. \A b : b \in BucketsOf(tb) <=> b # 0 /\ \E i \in DOMAIN tb : tb[i] = b
  BY DEF BucketsOf
<1>6. IsFiniteSet({tb[i] : i \in DOMAIN tb})
  <2> DEFINE S == DOMAIN tb
             R == {tb[i] : i \in DOMAIN tb}
  <2>1. tb \in Surjection(S, R)
    BY <1>1 DEF Surjection
  <2>2. IsFiniteSet(S)
    BY <1>3
  <2> HIDE DEF S, R
  <2>3. IsFiniteSet(R)
    BY <2>1, <2>2, FS_Surjection
  <2> QED
    BY <2>3 DEF R
<1>7. IsFiniteSet(BucketsOf(tb))
  <2>1. BucketsOf(tb) \in SUBSET {tb[i] : i \in DOMAIN tb}
    BY DEF BucketsOf
  <2> QED
    BY <1>6, <2>1, FS_Subset
<1> QED
  BY <1>2, <1>3, <1>4, <1>5, <1>7

(* Locking in the sorted order goes up the addresses, through all buckets. *)
LEMMA SortedBucketsFacts ==
    ASSUME AddressSpace, NEW tb \in AllTables
    PROVE  /\ SortedBuckets(tb) \in Seq(Nat) /\ Ascending(SortedBuckets(tb))
           /\ Range(SortedBuckets(tb)) = BucketsOf(tb)
           /\ IsInjective(SortedBuckets(tb))
<1> DEFINE S == BucketsOf(tb)
           r == SortedBuckets(tb)
<1>1. IsFiniteSet(S) /\ S \subseteq Nat \ {0}
  BY TableFacts
<1> HIDE DEF S
<1>2. Keys(S, bucketAddress)
  BY <1>1 DEF AddressSpace, Keys
<1>3. r = Sorted(S, bucketAddress)
  BY DEF S, SortedBuckets
<1> HIDE DEF r
<1>4. /\ r \in Seq(S)
      /\ \A x \in S : \E n \in DOMAIN r : r[n] = x
      /\ \A n \in DOMAIN r : r[n] \in S
      /\ \A m, n \in DOMAIN r : m < n => bucketAddress[r[m]] < bucketAddress[r[n]]
      /\ \A m, n \in DOMAIN r : r[m] = r[n] => m = n
  BY <1>1, <1>2, <1>3, SortedFacts
<1>5. r \in Seq(Nat)
  <2>1. Len(r) \in Nat /\ r \in [1 .. Len(r) -> S]
    BY <1>4, LenProperties
  <2>2. r \in [1 .. Len(r) -> Nat]
    BY <1>1, <2>1
  <2> QED
    BY <2>1, <2>2, IsASeq
<1>6. Ascending(r) /\ IsInjective(r)
  BY <1>4 DEF Ascending, IsInjective
<1>7. Range(r) = S
  BY <1>4 DEF Range
<1> QED
  BY <1>5, <1>6, <1>7 DEF S, r

-----------------------------------------------------------------------------
(***************************************************************************)
(* What the steps do to the tables.                                        *)
(***************************************************************************)

Grown ==
    /\ TableType' /\ TablesInv' /\ Len(tables) <= Len(tables') /\ Len(queues) <= Len(queues')
    /\ \A k \in 1 .. Len(tables) : /\ DOMAIN tables'[k] = DOMAIN tables[k]
                                   /\ \A i \in DOMAIN tables[k] : tables[k][i] # 0 => tables'[k][i] = tables[k][i]

(* Buckets are added to those there are, with empty queues and free locks. *)
BucketsAdded ==
    /\ \A b \in DOMAIN queues : queues'[b] = queues[b] /\ locks'[b] = locks[b]
    /\ \A b \in DOMAIN queues' : b \notin DOMAIN queues => queues'[b] = <<>> /\ locks'[b] = Null

LEMMA Places ==
    ASSUME TableType
    PROVE  /\ Len(tables) \in Nat /\ DOMAIN tables = 1 .. Len(tables)
           /\ Len(queues) \in Nat /\ DOMAIN queues = 1 .. Len(queues) /\ DOMAIN locks = DOMAIN queues
           /\ \A k \in 1 .. Len(tables) : tables[k] \in AllTables
           /\ \A b \in DOMAIN queues : queues[b] \in Seq(Threads) /\ locks[b] \in Threads \cup {Null}
           /\ tables = <<>> <=> Len(tables) = 0
<1>1. tables \in Seq(AllTables) /\ queues \in Seq(Seq(Threads)) /\ locks \in Seq(Threads \cup {Null}) /\ Len(locks) = Len(queues)
  BY DEF TableType
<1> QED
  BY <1>1, LenProperties, ElementOfSeq, EmptySeq

LEMMA SameTable ==
    ASSUME TypeOK, TablesInv, UNCHANGED <<tables, queues>>, locks' \in Seq(Threads \cup {Null}), Len(locks') = Len(locks)
    PROVE  Grown
  BY DEF Grown, TypeOK, TableType, TablesInv, FullTable, hashtable

Blank(n, e) == [i \in 1 .. n |-> e]

PaddedTo(r, q, n, e, S) ==
    /\ r \in Seq(S) /\ Len(r) = Len(q) + n
    /\ \A i \in DOMAIN q : r[i] = q[i]
    /\ \A i \in DOMAIN r : i \notin DOMAIN q => r[i] = e

LEMMA Padded ==
    ASSUME NEW S, NEW q \in Seq(S), NEW n \in Nat, NEW e \in S, NEW r, r = q \o Blank(n, e)
    PROVE  PaddedTo(r, q, n, e, S)
<1> DEFINE p == Blank(n, e)
<1>1. p \in Seq(S) /\ Len(p) = n /\ \A i \in 1 .. n : p[i] = e
  BY DEF Blank
<1>2. r = q \o p
  OBVIOUS
<1> HIDE DEF p
<1>3. r \in Seq(S) /\ Len(r) = Len(q) + n
  BY <1>1, <1>2, ConcatProperties
<1>4. \A i \in 1 .. (Len(q) + n) : r[i] = IF i <= Len(q) THEN q[i] ELSE p[i - Len(q)]
  BY <1>1, <1>2, ConcatProperties
<1>5. DOMAIN r = 1 .. (Len(q) + n) /\ DOMAIN q = 1 .. Len(q) /\ Len(q) \in Nat
  BY <1>3, LenProperties
<1>6. \A i \in DOMAIN q : r[i] = q[i]
  BY <1>4, <1>5
<1>7. ASSUME NEW i \in DOMAIN r, i \notin DOMAIN q PROVE r[i] = e
  <2>1. i - Len(q) \in 1 .. n /\ i \in 1 .. (Len(q) + n) /\ ~(i <= Len(q))
    BY <1>5, <1>7
  <2> QED
    BY <1>1, <1>4, <2>1
<1> QED
  BY <1>3, <1>6, <1>7 DEF PaddedTo

LEMMA FirstTable ==
    ASSUME TypeOK, NEW tbs, tbs = EnsureHashtable
    PROVE  /\ tbs \in Seq(AllTables) /\ tbs # <<>> /\ Len(tbs) \in Nat \ {0}
           /\ tables # <<>> => tbs = tables
           /\ tables = <<>> => Len(tbs) = 1 /\ \A i \in DOMAIN tbs[1] : tbs[1][i] = 0
<1> DEFINE tb == [i \in 0 .. maxLoadFactor - 1 |-> 0]
<1>1. tb \in AllTables /\ \A i \in DOMAIN tb : tb[i] = 0
  BY ParkingLotAssumption DEF AllTables
<1>2. CASE tables = <<>>
  <2>1. tbs = <<tb>>
    BY <1>2 DEF EnsureHashtable
  <2> HIDE DEF tb
  <2>2. tbs \in Seq(AllTables) /\ Len(tbs) = 1 /\ tbs # <<>> /\ tbs[1] = tb
    BY <1>1, <2>1
  <2> QED
    BY <1>1, <1>2, <2>2
<1>3. CASE tables # <<>>
  <2>1. tbs = tables
    BY <1>3 DEF EnsureHashtable
  <2> QED
    BY <1>3, <2>1, EmptySeq DEF TypeOK, TableType
<1> QED
  BY <1>2, <1>3

LEMMA LoadTableGrows ==
    ASSUME TypeOK, TablesInv, NEW t \in Threads, LoadTable(t)
    PROVE  /\ Grown /\ BucketsAdded /\ Len(tables') # 0
           /\ tables # <<>> => tables' = tables
           /\ tables = <<>> => Len(tables') = 1 /\ \A i \in DOMAIN tables'[1] : tables'[1][i] = 0
<1>1. /\ tables' \in Seq(AllTables) /\ Len(tables') \in Nat \ {0}
      /\ tables # <<>> => tables' = tables
      /\ tables = <<>> => Len(tables') = 1 /\ \A i \in DOMAIN tables'[1] : tables'[1][i] = 0
  BY FirstTable DEF LoadTable
<1>2. UNCHANGED <<queues, locks>>
  BY DEF LoadTable
<1>3. BucketsAdded /\ TableType'
  BY <1>1, <1>2, Places DEF BucketsAdded, TypeOK, TableType
<1>4. CASE tables = <<>>
  <2>1. Len(tables) = 0 /\ Len(queues) \in Nat
    BY <1>4, Places DEF TypeOK
  <2> QED
    <3>1. Len(tables') = 1 /\ \A i \in DOMAIN tables'[1] : tables'[1][i] = 0
      BY <1>1, <1>4
    <3>2. \A k \in 1 .. 1 : k = 1
      OBVIOUS
    <3>3. TablesInv'
      BY <1>2, <2>1, <3>1, <3>2 DEF TablesInv, hashtable
    <3> QED
      BY <1>2, <1>3, <2>1, <3>1, <3>3 DEF Grown
<1>5. CASE tables # <<>>
  BY <1>1, <1>2, <1>3, <1>5, SameTable DEF TypeOK, TableType
<1> QED
  BY <1>1, <1>3, <1>4, <1>5

(* lockHashtable() fills the current table.                                *)
Filled(t) ==
    /\ Grown /\ BucketsAdded /\ Len(tables') # 0
    /\ FullTable(tables'[Len(tables')])
    /\ frame' = [frame EXCEPT ![t] = [frame[t] EXCEPT !.table = Len(tables'), !.toLock = SortedBuckets(tables'[Len(tables')])]]
    /\ tables # <<>> => /\ Len(tables') = Len(tables)
                        /\ \A k \in 1 .. Len(tables) : k # Len(tables) => tables'[k] = tables[k]
    /\ tables = <<>> => Len(tables') = 1
    /\ \A i \in DOMAIN tables'[Len(tables')] :
           tables'[Len(tables')][i] \in 1 .. Len(queues) => tables # <<>> /\ tables[Len(tables)][i] = tables'[Len(tables')][i]

LEMMA LockTableGrows ==
    ASSUME TypeOK, TablesInv, NEW t \in Threads, LockTable(t)
    PROVE  Filled(t)
<1>a. PICK tbs : tbs = EnsureHashtable
  OBVIOUS
<1>b. PICK tb : tb = Last(tbs)
  OBVIOUS
<1>c. PICK empty : empty = {i \in DOMAIN tb : tb[i] = 0}
  OBVIOUS
<1>d. PICK full : full = [i \in DOMAIN tb |->
                             IF i \in empty THEN Len(queues) + Cardinality({j \in empty : j >= i}) ELSE tb[i]]
  OBVIOUS
<1>1. /\ tables' = ReplaceAt(tbs, Len(tbs), full)
      /\ queues' = queues \o Blank(Cardinality(empty), <<>>)
      /\ locks' = locks \o Blank(Cardinality(empty), Null)
      /\ frame' = [frame EXCEPT ![t] = [frame[t] EXCEPT !.table = Len(tbs), !.toLock = SortedBuckets(full)]]
  BY <1>a, <1>b, <1>c, <1>d DEF LockTable, SetFrame, Blank
<1>2. /\ tbs \in Seq(AllTables) /\ tbs # <<>> /\ Len(tbs) \in Nat \ {0}
      /\ tables # <<>> => tbs = tables
      /\ tables = <<>> => Len(tbs) = 1 /\ \A i \in DOMAIN tbs[1] : tbs[1][i] = 0
  BY <1>a, FirstTable
<1>3. tb = tbs[Len(tbs)] /\ tb \in AllTables
  BY <1>b, <1>2, ElementOfSeq DEF Last
<1>4. IsFiniteSet(DOMAIN tb) /\ \A i \in DOMAIN tb : tb[i] \in Nat
  BY <1>3, TableFacts
<1>5. IsFiniteSet(empty) /\ Cardinality(empty) \in Nat
  <2>1. empty \in SUBSET DOMAIN tb
    BY <1>c
  <2> QED
    BY <1>4, <2>1, FS_Subset, FS_CardinalityType
<1>6. \A i \in empty : Cardinality({j \in empty : j >= i}) \in 1 .. Cardinality(empty)
  <2> SUFFICES ASSUME NEW i \in empty PROVE Cardinality({j \in empty : j >= i}) \in 1 .. Cardinality(empty)
    OBVIOUS
  <2> DEFINE D == {j \in empty : j >= i}
  <2>1. D \in SUBSET empty /\ i \in D
    BY <1>3, <1>c, TableFacts
  <2> HIDE DEF D
  <2>2. IsFiniteSet(D) /\ Cardinality(D) \in Nat /\ Cardinality(D) <= Cardinality(empty)
    BY <1>5, <2>1, FS_Subset, FS_CardinalityType
  <2>3. Cardinality(D) # 0
    BY <2>1, <2>2, FS_EmptySet
  <2>4. Cardinality(D) \in 1 .. Cardinality(empty)
    BY <1>5, <2>2, <2>3
  <2> QED
    BY <2>4 DEF D
<1>7. /\ Len(queues) \in Nat /\ Len(tables) \in Nat /\ (tables = <<>> <=> Len(tables) = 0)
      /\ DOMAIN queues = 1 .. Len(queues) /\ DOMAIN locks = DOMAIN queues
  BY Places DEF TypeOK
<1>8. \A i \in DOMAIN tb : tb[i] \in 0 .. Len(queues)
  <2>1. CASE tables = <<>>
    <3>1. Len(tbs) = 1 /\ \A i \in DOMAIN tbs[1] : tbs[1][i] = 0
      BY <1>2, <2>1
    <3>2. \A i \in DOMAIN tb : tb[i] = 0
      BY <1>3, <3>1
    <3> QED
      BY <1>7, <3>2
  <2>2. CASE tables # <<>>
    BY <1>2, <1>3, <1>7, <2>2 DEF TablesInv, hashtable
  <2> QED
    BY <2>1, <2>2
<1>9. /\ DOMAIN full = DOMAIN tb
      /\ \A i \in DOMAIN tb : full[i] \in 1 .. (Len(queues) + Cardinality(empty))
      /\ \A i \in DOMAIN tb : tb[i] # 0 => full[i] = tb[i]
      /\ \A i \in DOMAIN tb : tb[i] = 0 => full[i] \notin 1 .. Len(queues)
  <2>1. DOMAIN full = DOMAIN tb /\ \A i \in DOMAIN tb : tb[i] # 0 => full[i] = tb[i]
    BY <1>c, <1>d
  <2>2. \A i \in DOMAIN tb : tb[i] = 0 => full[i] = Len(queues) + Cardinality({j \in empty : j >= i}) /\ i \in empty
    BY <1>c, <1>d
  <2>3. ASSUME NEW i \in DOMAIN tb, tb[i] = 0 
        PROVE  full[i] \in 1 .. (Len(queues) + Cardinality(empty)) /\ full[i] \notin 1 .. Len(queues)
    <3> DEFINE c == Cardinality({j \in empty : j >= i})
    <3>1. c \in 1 .. Cardinality(empty) /\ full[i] = Len(queues) + c
      BY <1>6, <2>2, <2>3
    <3> HIDE DEF c
    <3> QED
      BY <1>5, <1>7, <3>1
  <2>4. ASSUME NEW i \in DOMAIN tb, tb[i] # 0 PROVE full[i] \in 1 .. (Len(queues) + Cardinality(empty))
    BY <1>5, <1>7, <1>8, <2>1, <2>4
  <2> QED
    BY <2>1, <2>3, <2>4
<1>10. full \in AllTables
  <2>1. PICK n \in Nat \ {0} : tb \in [0 .. n - 1 -> Nat]
    BY <1>3 DEF AllTables
  <2>2. DOMAIN full = 0 .. n - 1
    BY <1>9, <2>1
  <2>3. \A i \in DOMAIN full : full[i] \in Nat
    BY <1>5, <1>7, <1>9
  <2>4. full \in [0 .. n - 1 -> Nat]
    <3>1. full = [i \in DOMAIN full |-> full[i]]
      BY <1>d
    <3> QED
      BY <2>2, <2>3, <3>1
  <2> QED
    BY <2>4 DEF AllTables
<1>11. /\ tables' \in Seq(AllTables) /\ Len(tables') = Len(tbs) /\ tables'[Len(tbs)] = full
       /\ \A k \in 1 .. Len(tbs) : k # Len(tbs) => tables'[k] = tbs[k]
  <2>1. tables' = [tbs EXCEPT ![Len(tbs)] = full]
    BY <1>1, <1>2, <1>10, LenProperties DEF ReplaceAt
  <2>2. Len(tbs) \in 1 .. Len(tbs)
    BY <1>2
  <2> QED
    BY <1>2, <1>10, <2>1, <2>2, ExceptSeq
<1>12. /\ queues' \in Seq(Seq(Threads)) /\ Len(queues') = Len(queues) + Cardinality(empty)
       /\ \A b \in DOMAIN queues : queues'[b] = queues[b]
       /\ \A b \in DOMAIN queues' : b \notin DOMAIN queues => queues'[b] = <<>>
  <2>1. queues \in Seq(Seq(Threads)) /\ <<>> \in Seq(Threads)
    BY EmptySeq DEF TypeOK, TableType
  <2>2. PaddedTo(queues', queues, Cardinality(empty), <<>>, Seq(Threads))
    BY <1>1, <1>5, <2>1, Padded, Zenon
  <2> QED
    BY <2>2 DEF PaddedTo
<1>13. /\ locks' \in Seq(Threads \cup {Null}) /\ Len(locks') = Len(locks) + Cardinality(empty)
       /\ \A b \in DOMAIN locks : locks'[b] = locks[b]
       /\ \A b \in DOMAIN locks' : b \notin DOMAIN locks => locks'[b] = Null
  <2>1. locks \in Seq(Threads \cup {Null}) /\ Null \in Threads \cup {Null}
    BY DEF TypeOK, TableType
  <2>2. PaddedTo(locks', locks, Cardinality(empty), Null, Threads \cup {Null})
    BY <1>1, <1>5, <2>1, Padded, Zenon
  <2> QED
    BY <2>2 DEF PaddedTo
<1>14. TableType'
  BY <1>11, <1>12, <1>13 DEF TypeOK, TableType
<1>15. DOMAIN queues' = DOMAIN locks'
  BY <1>14, LenProperties DEF TableType
<1>16. BucketsAdded
  BY <1>7, <1>12, <1>13, <1>15 DEF BucketsAdded
<1>17. FullTable(full)
  BY <1>9 DEF FullTable
<1>18. TablesInv'
  <2> SUFFICES ASSUME NEW k \in 1 .. Len(tbs)
               PROVE  /\ \A i \in DOMAIN tables'[k] : tables'[k][i] \in 0 .. Len(queues')
                      /\ k # Len(tbs) => FullTable(tables'[k])
    BY <1>11 DEF TablesInv, hashtable, FullTable
  <2>0. \A n \in 1 .. (Len(queues) + Cardinality(empty)) : n \in 0 .. Len(queues')
    BY <1>5, <1>7, <1>12
  <2>1. CASE k = Len(tbs)
    BY <2>0, <1>9, <1>11, <2>1
  <2>2. CASE k # Len(tbs)
    <3>1. tables # <<>> /\ tbs = tables
      <4>1. Len(tbs) # 1
        <5>1. \A n \in Nat : \A j \in 1 .. n : j # n => n # 1
          OBVIOUS
        <5>2. Len(tbs) \in Nat
          BY <1>2
        <5> QED
          BY <2>2, <5>1, <5>2
      <4> QED
        BY <1>2, <4>1
    <3>2. \A i \in DOMAIN tables[k] : tables[k][i] \in 0 .. Len(queues)
      BY <3>1 DEF TablesInv, hashtable
    <3>3. FullTable(tables[k]) /\ tables'[k] = tables[k]
      BY <1>11, <2>2, <3>1 DEF TablesInv, hashtable
    <3>4. \A n \in 0 .. Len(queues) : n \in 0 .. Len(queues')
      BY <1>5, <1>7, <1>12
    <3> QED
      BY <3>2, <3>3, <3>4
  <2> QED
    BY <2>1, <2>2
<1>19. Grown
  <2>1. Len(tables) <= Len(tables') /\ Len(queues) <= Len(queues')
    BY <1>2, <1>5, <1>7, <1>11, <1>12
  <2>2. ASSUME NEW k \in 1 .. Len(tables)
        PROVE  /\ DOMAIN tables'[k] = DOMAIN tables[k]
               /\ \A i \in DOMAIN tables[k] : tables[k][i] # 0 => tables'[k][i] = tables[k][i]
    <3>1. tables # <<>> /\ tbs = tables
      BY <1>2, <1>7, <2>2
    <3>2. CASE k = Len(tbs)
      BY <1>3, <1>9, <1>11, <3>1, <3>2
    <3>3. CASE k # Len(tbs)
      BY <1>11, <3>1, <3>3
    <3> QED
      BY <3>2, <3>3
  <2> QED
    BY <1>14, <1>18, <2>1, <2>2 DEF Grown
<1>20. ASSUME NEW i \in DOMAIN full, full[i] \in 1 .. Len(queues) PROVE tables # <<>> /\ tables[Len(tables)][i] = full[i]
  <2>1. tb[i] # 0 /\ full[i] = tb[i]
    BY <1>9, <1>20
  <2> QED
    BY <1>2, <1>3, <1>9, <1>20, <2>1
<1> QED
  BY <1>1, <1>2, <1>11, <1>16, <1>17, <1>19, <1>20 DEF Filled

-----------------------------------------------------------------------------
(***************************************************************************)
(* The locals of the threads.                                              *)
(***************************************************************************)

Others(t) == \A u \in Threads \ {t} :
    /\ park'[u] = park[u] /\ parks'[u] = parks[u] /\ frame'[u] = frame[u]
    /\ pc'[u] = pc[u] \/ (pc[u] = "asleep" /\ pc'[u] = "checkAddress")

ThreadStep(t) == ThreadType' /\ Others(t) /\ ControlOf(t)'

LEMMA ControlKept ==
    ASSUME ControlInv, NEW t \in Threads, ThreadStep(t)
    PROVE  ThreadType' /\ ControlInv'
<1> SUFFICES ASSUME NEW u \in Threads PROVE ControlOf(u)'
  BY DEF ThreadStep, ControlInv
<1>1. CASE u = t
  BY <1>1 DEF ThreadStep
<1>2. CASE u # t
  BY <1>2 DEF ThreadStep, Others, ControlInv, ControlOf
<1> QED
  BY <1>1, <1>2

LEMMA EmptyQueue == \A S : <<>> \in Seq(S) /\ Range(<<>>) = {}
  BY EmptySeq DEF Range

LEMMA NoFrameType ==
    /\ NoFrame \in Frames /\ NoPark \in ParkArgs
    /\ \A op \in Ops, a \in Addresses \cup {Null} : [NoFrame EXCEPT !.op = op, !.address = a] \in Frames
    /\ \A op \in Ops : [NoFrame EXCEPT !.op = op] \in Frames
    /\ \A q \in Seq(Threads) : [NoFrame EXCEPT !.dequeued = q] \in Frames
    /\ \A a \in Addresses : \A t \in {"never", "sometime"} : [address |-> a, timeout |-> t] # NoPark
<1>1. \A S : <<>> \in Seq(S)
  BY EmptyQueue
<1>2. NoFrame \in Frames
  BY <1>1 DEF NoFrame, Frames, Ops
<1>3. NoPark \in ParkArgs
  BY DEF NoPark, ParkArgs
<1>4. \A op \in Ops, a \in Addresses \cup {Null} : [NoFrame EXCEPT !.op = op, !.address = a] \in Frames
  BY <1>2 DEF Frames
<1>5. \A op \in Ops : [NoFrame EXCEPT !.op = op] \in Frames
  BY <1>2 DEF Frames
<1>6. \A q \in Seq(Threads) : [NoFrame EXCEPT !.dequeued = q] \in Frames
  BY <1>2 DEF Frames
<1>7. \A a \in Addresses : \A t \in {"never", "sometime"} : [address |-> a, timeout |-> t] # NoPark
  BY ParkingLotAssumption DEF NoPark
<1> QED
  BY <1>2, <1>3, <1>4, <1>5, <1>6, <1>7

LEMMA CallSteps ==
    ASSUME ThreadType, ControlInv, NEW t \in Threads, Call(t)
    PROVE  ThreadStep(t)
<1> USE DEF ThreadStep, ThreadType, Others, Goto, Step, SetFrame
<1>1. ASSUME NEW a \in Addresses, NEW timeout \in Timeouts, ParkConditionally(t, a, timeout) PROVE ThreadStep(t)
  <2>1. [NoFrame EXCEPT !.op = "enqueue", !.address = a] \in Frames /\ timeout \in {"never", "sometime"}
    BY NoFrameType, ParkingLotAssumption DEF Ops
  <2>2. ThreadType' /\ Others(t)
    BY <1>1, <2>1 DEF ParkConditionally, Labels, ParkArgs
  <2>0. park'[t] = [address |-> a, timeout |-> timeout] /\ parks'[t] # 0
    BY <1>1 DEF ParkConditionally
  <2>3. park'[t].address = a /\ park'[t].timeout = timeout /\ park'[t] # NoPark /\ parks'[t] # 0
    <3>1. a # Null
      BY ParkingLotAssumption
    <3> QED
      BY <2>0, <3>1 DEF NoPark
  <2>4. /\ frame'[t].op = "enqueue" /\ frame'[t].address = a /\ ~frame'[t].didFind /\ frame'[t].dequeued = <<>>
        /\ pc'[t] \in {"construct", "loadTable"}
    BY <1>1, <2>1 DEF ParkConditionally, NoFrame
  <2>5. ControlOf(t)'
    BY <2>3, <2>4 DEF ControlOf
  <2> QED
    BY <2>2, <2>5
<1>2. ASSUME NEW a \in Addresses, NEW op \in UnparkCalls, Unpark(t, op, a) PROVE ThreadStep(t)
  <2>1. [NoFrame EXCEPT !.op = op, !.address = a] \in Frames
    BY NoFrameType DEF Ops, UnparkCalls
  <2>2. ThreadType' /\ Others(t)
    BY <1>2, <2>1 DEF Unpark, Labels
  <2>3. ControlOf(t)
    BY DEF ControlInv
  <2>4. ControlOf(t)'
    BY <1>2, <2>1, <2>3, NoFrameType DEF Unpark, ControlOf, NoFrame, UnparkCalls
  <2> QED
    BY <2>2, <2>4
<1>3. ASSUME ForEach(t) PROVE ThreadStep(t)
  <2>1. [NoFrame EXCEPT !.op = "forEach"] \in Frames
    BY NoFrameType DEF Ops
  <2>2. ThreadType' /\ Others(t)
    BY <1>3, <2>1 DEF ForEach, Labels
  <2>3. ControlOf(t)
    BY DEF ControlInv
  <2>4. ControlOf(t)'
    BY <1>3, <2>1, <2>3, NoFrameType DEF ForEach, ControlOf, NoFrame
  <2> QED
    BY <2>2, <2>4
<1>4. ASSUME Destruct(t) PROVE ThreadStep(t)
  <2>1. ControlOf(t)
    BY DEF ControlInv
  <2> QED
    BY <1>4, <2>1 DEF Destruct, ControlOf
<1> QED
  BY <1>1, <1>2, <1>3, <1>4 DEF Call

LEMMA TableSteps ==
    ASSUME TableInv, NEW t \in Threads, AddressSpace,
           Construct(t) \/ CheckSize(t) \/ LockTable(t) \/ LockNext(t) \/ EnsureHashtableSize(t) \/ ForEachWalk(t)
               \/ LoadTable(t) \/ LoadBucket(t) \/ LockBucket(t),
           TableType'
    PROVE  ThreadStep(t)
<1> USE DEF ThreadStep, ThreadType, Others, Goto, Step, SetFrame
<1>c. ControlOf(t) /\ ThreadType /\ frame[t] \in Frames
  BY DEF TableInv, ControlInv, TypeOK
<1>d. TypeOK /\ TableType /\ TablesInv /\ LocksOf(t)
  BY DEF TableInv, TypeOK, LocksInv
<1>1. ASSUME Construct(t) PROVE ThreadStep(t)
  <2>0. numThreads' \in Int /\ frame[t] \in Frames
    BY <1>1, <1>c DEF Construct
  <2>1. [frame[t] EXCEPT !.numThreads = numThreads'] \in Frames
    BY <2>0 DEF Frames
  <2>2. ThreadType' /\ Others(t)
    BY <1>1, <1>c, <2>1 DEF Construct, Labels
  <2>3. ControlOf(t)'
    BY <1>1, <1>c, <2>1, NoFrameType DEF Construct, ControlOf, Frames
  <2> QED
    BY <2>2, <2>3
<1>2. ASSUME CheckSize(t) PROVE ThreadStep(t)
  <2>1. ThreadType' /\ Others(t)
    BY <1>2, <1>c DEF CheckSize, Labels
  <2>2. ControlOf(t)'
    BY <1>2, <1>c DEF CheckSize, ControlOf
  <2> QED
    BY <2>1, <2>2
<1>3. ASSUME LockTable(t) PROVE ThreadStep(t)
  <2>a. PICK k : k = Len(tables')
    OBVIOUS
  <2>b. PICK tb : tb = tables'[Len(tables')]
    OBVIOUS
  <2>c. Filled(t)
    BY <1>3, <1>d, LockTableGrows
  <2>0. frame' = [frame EXCEPT ![t] = [frame[t] EXCEPT !.table = k, !.toLock = SortedBuckets(tb)]] /\ k \in Nat /\ tb \in AllTables
    <3>1. k \in Nat /\ k # 0 /\ tables' \in Seq(AllTables)
      BY <2>a, <2>c, LenProperties DEF Filled, TableType
    <3>2. tb \in AllTables
      BY <2>a, <2>b, <3>1, ElementOfSeq
    <3> QED
      BY <2>a, <2>b, <2>c, <3>1, <3>2 DEF Filled
  <2>1. [frame[t] EXCEPT !.table = k, !.toLock = SortedBuckets(tb)] \in Frames
    BY <1>c, <2>0, SortedBucketsFacts DEF Frames
  <2>2. ThreadType' /\ Others(t)
    BY <1>3, <1>c, <2>0, <2>1 DEF LockTable, Labels
  <2>3. ControlOf(t)'
    BY <1>3, <1>c, <2>0, <2>1 DEF LockTable, ControlOf, Frames
  <2> QED
    BY <2>2, <2>3
<1>4. ASSUME LockNext(t) PROVE ThreadStep(t)
  <2>1. frame[t].toLock \in Seq(Nat) /\ frame[t].toLock # <<>>
    BY <1>4, <1>c, <1>d DEF LockNext, LocksOf, Frames
  <2>2. PICK rest : rest = Tail(frame[t].toLock)
    OBVIOUS
  <2>3. rest \in Seq(Nat)
    BY <2>1, <2>2, TailFacts
  <2>4. [frame[t] EXCEPT !.toLock = rest] \in Frames
    BY <1>c, <2>3 DEF Frames
  <2>5. frame' = [frame EXCEPT ![t] = [frame[t] EXCEPT !.toLock = rest]] /\ UNCHANGED <<park, parks>>
    BY <1>4, <2>2 DEF LockNext
  <2>6. \E l \in {"lockNext", "lockTable", "tableLocked"} : pc' = [pc EXCEPT ![t] = l]
    BY <1>4 DEF LockNext
  <2>7. ThreadType' /\ Others(t)
    BY <1>4, <1>c, <2>4, <2>5, <2>6 DEF LockNext, Labels
  <2>8. ControlOf(t)'
    BY <1>4, <1>c, <2>5, <2>6 DEF LockNext, ControlOf, Frames
  <2> QED
    BY <2>7, <2>8
<1>5. ASSUME EnsureHashtableSize(t) PROVE ThreadStep(t)
  <2>1. ThreadType' /\ Others(t)
    BY <1>5, <1>c DEF EnsureHashtableSize, Labels
  <2>2. ControlOf(t)'
    BY <1>5, <1>c DEF EnsureHashtableSize, ControlOf
  <2> QED
    BY <2>1, <2>2
<1>6. ASSUME ForEachWalk(t) PROVE ThreadStep(t)
  <2>1. ThreadType' /\ Others(t)
    BY <1>6, <1>c, NoFrameType DEF ForEachWalk, Return, Labels
  <2>2. ControlOf(t)'
    BY <1>6, <1>c, NoFrameType DEF ForEachWalk, Return, ControlOf, NoFrame, Frames
  <2> QED
    BY <2>1, <2>2
<1>7. ASSUME LoadTable(t) PROVE ThreadStep(t)
  <2>1. Len(tables') \in Nat
    BY LenProperties DEF TableType
  <2>2. [frame[t] EXCEPT !.table = Len(tables')] \in Frames
    BY <1>c, <2>1 DEF Frames
  <2>3. ThreadType' /\ Others(t)
    BY <1>7, <1>c, <2>2 DEF LoadTable, Labels
  <2>4. ControlOf(t)'
    BY <1>7, <1>c, <2>2 DEF LoadTable, ControlOf, Frames
  <2> QED
    BY <2>3, <2>4
<1>8. ASSUME LoadBucket(t) PROVE ThreadStep(t)
  <2>1. UNCHANGED <<numThreads, address, hasThreadData, parks, park>> /\ pc[t] = "loadBucket"
    BY <1>8 DEF LoadBucket
  <2>2. /\ frame[t].op \in UnparkCalls \cup {"enqueue", "dequeueMe"} /\ frame[t].address \in Addresses
        /\ frame[t].dequeued = <<>> /\ ~frame[t].didFind
    BY <1>c, <2>1 DEF ControlOf, Frames
  <2>3. tables[frame[t].table][Index(frame[t].address, tables[frame[t].table])] \in Nat /\ Len(queues) \in Nat
    <3>1. frame[t].table \in 1 .. Len(tables)
      BY <1>d, <2>1 DEF LocksOf, hashtable
    <3> QED
      BY <1>d, <2>2, <3>1, Places, TableFacts
  <2>4. CASE \E b \in Nat : frame' = [frame EXCEPT ![t] = [frame[t] EXCEPT !.bucket = b]] /\ pc' = [pc EXCEPT ![t] = "lockBucket"]
    <3>1. PICK b \in Nat : frame' = [frame EXCEPT ![t] = [frame[t] EXCEPT !.bucket = b]] /\ pc' = [pc EXCEPT ![t] = "lockBucket"]
      BY <2>4
    <3>2. [frame[t] EXCEPT !.bucket = b] \in Frames
      BY <1>c DEF Frames
    <3>3. ThreadType' /\ Others(t)
      BY <1>c, <2>1, <3>1, <3>2 DEF Labels
    <3>4. ControlOf(t)'
      BY <1>c, <2>1, <2>2, <3>1 DEF ControlOf, Frames
    <3> QED
      BY <3>3, <3>4
  <2>5. CASE frame[t].op = "dequeueMe" /\ pc' = [pc EXCEPT ![t] = "clearAddress"] /\ UNCHANGED frame
    <3>1. ThreadType' /\ Others(t)
      BY <1>c, <2>1, <2>5 DEF Labels
    <3>2. ControlOf(t)'
      BY <1>c, <2>1, <2>2, <2>5 DEF ControlOf
    <3> QED
      BY <3>1, <3>2
  <2>6. CASE Return(t) /\ frame[t].op \in {"unparkOne", "unparkAll"}
    <3>1. ThreadType' /\ Others(t)
      BY <1>c, <2>1, <2>6, NoFrameType DEF Labels, Return
    <3>2. ControlOf(t)'
      BY <1>c, <2>1, <2>2, <2>6, NoFrameType DEF ControlOf, Return, NoFrame, Frames
    <3> QED
      BY <3>1, <3>2
  <2>7. PICK b : b = tables[frame[t].table][Index(frame[t].address, tables[frame[t].table])]
    OBVIOUS
  <2>8. CASE b # 0 /\ pc' = [pc EXCEPT ![t] = "lockBucket"] /\ frame' = [frame EXCEPT ![t] = [frame[t] EXCEPT !.bucket = b]]
    BY <2>3, <2>4, <2>7, <2>8
  <2>9. CASE IgnoreEmpty(frame[t].op) /\
             IF frame[t].op = "dequeueMe" THEN Goto(t, "clearAddress") /\ UNCHANGED frame ELSE Return(t)
    BY <2>5, <2>6, <2>9 DEF IgnoreEmpty
  <2>10. CASE pc' = [pc EXCEPT ![t] = "lockBucket"] /\ frame' = [frame EXCEPT ![t] = [frame[t] EXCEPT !.bucket = Len(queues) + 1]]
    <3>1. Len(queues) + 1 \in Nat
      BY <2>3
    <3> QED
      BY <2>4, <2>10, <3>1
  <2> QED
    BY <1>8, <2>7, <2>8, <2>9, <2>10 DEF LoadBucket
<1>9. ASSUME LockBucket(t) PROVE ThreadStep(t)
  <2>1. ThreadType' /\ Others(t)
    BY <1>9, <1>c DEF LockBucket, Labels
  <2>2. ControlOf(t)'
    BY <1>9, <1>c DEF LockBucket, ControlOf
  <2> QED
    BY <2>1, <2>2
<1> QED
  BY <1>1, <1>2, <1>3, <1>4, <1>5, <1>6, <1>7, <1>8, <1>9

LEMMA ParkSteps ==
    ASSUME TableInv, NEW t \in Threads,
           Enqueue(t) \/ DequeueOne(t) \/ DequeueAll(t) \/ DequeueMe(t) \/ Wake(t) \/ Notify(t)
               \/ BeforeSleep(t) \/ CheckAddress(t) \/ ClearAddress(t) \/ WakeUp(t)
    PROVE  ThreadStep(t)
<1> USE DEF ThreadStep, ThreadType, Others, Goto, Step, SetFrame
<1>c. ControlOf(t) /\ ThreadType /\ frame[t] \in Frames
  BY DEF TableInv, ControlInv, TypeOK
<1>d. TypeOK /\ TableType /\ LocksOf(t)
  BY DEF TableInv, TypeOK, LocksInv
<1>1. ASSUME Enqueue(t) PROVE ThreadStep(t)
  <2>1. park[t] # NoPark /\ park[t].address \in Addresses
    BY <1>1, <1>c DEF Enqueue, InBucket, ControlOf
  <2>2. ThreadType' /\ Others(t)
    BY <1>1, <1>c, <2>1, NoFrameType DEF Enqueue, InBucket, Return, Labels
  <2>3. /\ frame'[t] = NoFrame /\ parks'[t] = parks[t]
        /\ \/ park'[t] = park[t] /\ pc'[t] = "beforeSleep"
           \/ park'[t] = NoPark /\ pc'[t] = "idle"
    BY <1>1, <1>c, <2>1, NoFrameType DEF Enqueue, InBucket, Return
  <2>4. ControlOf(t)'
    BY <1>c, <2>1, <2>3 DEF ControlOf, NoFrame
  <2> QED
    BY <2>2, <2>4
<1>2. ASSUME DequeueOne(t) \/ DequeueAll(t) PROVE ThreadStep(t)
  <2>1. /\ UNCHANGED <<numThreads, hasThreadData, parks, park, address>> /\ pc[t] = "bucketLocked"
        /\ frame[t].op \in UnparkCalls
    BY <1>2 DEF DequeueOne, DequeueAll, InBucket, UnparkCalls
  <2>2. CASE Return(t)
    <3>1. ThreadType' /\ Others(t)
      BY <1>c, <2>1, <2>2, NoFrameType DEF Return, Labels
    <3>2. ControlOf(t)'
      BY <1>c, <2>1, <2>2, NoFrameType DEF Return, ControlOf, NoFrame, Frames
    <3> QED
      BY <3>1, <3>2
  <2>3. CASE \E q \in Seq(Threads) : q # <<>> /\ frame' = [frame EXCEPT ![t] = [NoFrame EXCEPT !.dequeued = q]] /\ pc' = [pc EXCEPT ![t] = "wake"]
    <3>1. PICK q \in Seq(Threads) : q # <<>> /\ frame' = [frame EXCEPT ![t] = [NoFrame EXCEPT !.dequeued = q]] /\ pc' = [pc EXCEPT ![t] = "wake"]
      BY <2>3
    <3>2. [NoFrame EXCEPT !.dequeued = q] \in Frames
      BY NoFrameType
    <3>3. ThreadType' /\ Others(t)
      BY <1>c, <2>1, <3>1, <3>2 DEF Labels
    <3>4. frame'[t].dequeued = q /\ frame'[t].op = "none" /\ ~frame'[t].didFind /\ pc'[t] = "wake"
      BY <1>c, <3>1, <3>2 DEF NoFrame
    <3>5. ControlOf(t)'
      BY <1>c, <2>1, <3>1, <3>4 DEF ControlOf
    <3> QED
      BY <3>3, <3>5
  <2>4. PICK mine : mine = Selected(MyQueue(t), ParkedOn(frame[t].address))
    OBVIOUS
  <2>5. mine \in Seq(Threads)
    <3>1. frame[t].bucket \in DOMAIN queues
      <4>1. frame[t].address \in Addresses
        BY <1>c, <2>1 DEF ControlOf
      <4>2. hashtable \in 1 .. hashtable /\ frame[t].table = hashtable /\ frame[t].bucket # 0
        BY <1>d, <2>1 DEF LocksOf
      <4>3. frame[t].bucket = tables[hashtable][Index(frame[t].address, tables[hashtable])]
        BY <1>d, <2>1, <4>2 DEF LocksOf
      <4>4. Index(frame[t].address, tables[hashtable]) \in DOMAIN tables[hashtable]
        BY <1>d, <4>1, <4>2, Places, TableFacts DEF hashtable
      <4>5. frame[t].bucket \in 0 .. Len(queues) /\ Len(queues) \in Nat /\ DOMAIN queues = 1 .. Len(queues)
        BY <1>d, <4>2, <4>3, <4>4, Places DEF TableInv, TablesInv
      <4> QED
        BY <4>2, <4>5
    <3>2. MyQueue(t) \in Seq(Threads)
      BY <1>d, <3>1, Places DEF MyQueue
    <3> QED
      BY <2>4, <3>2, SelectedFacts
  <2>6. mine # <<>> => <<Head(mine)>> \in Seq(Threads) /\ <<Head(mine)>> # <<>>
    <3>1. ASSUME mine # <<>> PROVE Head(mine) \in Threads
      BY <2>5, <3>1, TailFacts
    <3> QED
      BY <3>1
  <2>7. CASE DequeueOne(t)
    <3>1. IF mine = <<>> THEN Return(t) ELSE pc' = [pc EXCEPT ![t] = "wake"] /\ frame' = [frame EXCEPT ![t] = [NoFrame EXCEPT !.dequeued = <<Head(mine)>>]]
      BY <2>4, <2>7 DEF DequeueOne
    <3> QED
      BY <2>2, <2>3, <2>6, <3>1
  <2>8. CASE DequeueAll(t)
    <3>1. IF mine = <<>> THEN Return(t) ELSE pc' = [pc EXCEPT ![t] = "wake"] /\ frame' = [frame EXCEPT ![t] = [NoFrame EXCEPT !.dequeued = mine]]
      BY <2>4, <2>8 DEF DequeueAll
    <3> QED
      BY <2>2, <2>3, <2>5, <3>1
  <2> QED
    BY <1>2, <2>7, <2>8
<1>3. ASSUME DequeueMe(t) PROVE ThreadStep(t)
  <2>1. PICK d \in BOOLEAN : frame' = [frame EXCEPT ![t] = [frame[t] EXCEPT !.didFind = d]]
    BY <1>3 DEF DequeueMe, Contains
  <2>2. [frame[t] EXCEPT !.didFind = d] \in Frames
    BY <1>c DEF Frames
  <2>3. ThreadType' /\ Others(t)
    BY <1>3, <1>c, <2>1, <2>2 DEF DequeueMe, InBucket, Labels
  <2>4. ControlOf(t)'
    BY <1>3, <1>c, <2>1 DEF DequeueMe, InBucket, ControlOf, Frames
  <2> QED
    BY <2>3, <2>4
<1>4. ASSUME Wake(t) PROVE ThreadStep(t)
  <2>1. ThreadType' /\ Others(t)
    BY <1>4, <1>c DEF Wake, Labels
  <2>2. ControlOf(t)'
    BY <1>4, <1>c DEF Wake, ControlOf
  <2> QED
    BY <2>1, <2>2
<1>5. ASSUME Notify(t) PROVE ThreadStep(t)
  <2>1. frame[t].dequeued \in Seq(Threads) /\ frame[t].dequeued # <<>> /\ pc[t] = "notify"
    BY <1>5, <1>c DEF Notify, ControlOf, Frames
  <2>2. PICK u : u = Head(frame[t].dequeued)
    OBVIOUS
  <2>3. PICK rest : rest = Tail(frame[t].dequeued)
    OBVIOUS
  <2>4. u \in Threads /\ rest \in Seq(Threads)
    BY <2>1, <2>2, <2>3, TailFacts
  <2>5. [frame[t] EXCEPT !.dequeued = rest] \in Frames
    BY <1>c, <2>4 DEF Frames
  <2>6. /\ frame' = [frame EXCEPT ![t] = [frame[t] EXCEPT !.dequeued = rest]] /\ UNCHANGED <<table, numThreads, address, hasThreadData, parks, park>>
    BY <1>5, <2>3 DEF Notify
  <2>7. PICK back : back = IF rest # <<>> THEN "wake" ELSE IF park[t] = NoPark THEN "idle" ELSE "beforeSleep"
    OBVIOUS
  <2>8. pc' = [pc EXCEPT ![u] = IF @ = "asleep" THEN "checkAddress" ELSE @, ![t] = back]
    BY <1>5, <2>2, <2>3, <2>7 DEF Notify
  <2>9. /\ pc' \in [Threads -> Labels] /\ pc'[t] = back
        /\ \A v \in Threads \ {t} : pc'[v] = pc[v] \/ (pc[v] = "asleep" /\ pc'[v] = "checkAddress")
    <3>1. back \in Labels /\ back # "asleep"
      BY <2>7 DEF Labels
    <3>2. CASE u = t
      <4>1. pc' = [pc EXCEPT ![t] = back]
        BY <1>c, <2>1, <2>8, <3>2
      <4> QED
        BY <1>c, <3>1, <4>1
    <3>3. CASE u # t
      <4>1. \A v \in Threads : pc'[v] = IF v = t THEN back ELSE IF v = u /\ pc[u] = "asleep" THEN "checkAddress" ELSE pc[v]
        BY <1>c, <2>4, <2>8, <3>3
      <4>2. pc' = [v \in Threads |-> pc'[v]]
        BY <1>c, <2>8
      <4>3. "checkAddress" \in Labels
        BY DEF Labels
      <4> QED
        BY <1>c, <3>1, <3>3, <4>1, <4>2, <4>3
    <3> QED
      BY <3>2, <3>3
  <2>10. ThreadType' /\ Others(t)
    BY <1>c, <2>5, <2>6, <2>9
  <2>11. ControlOf(t)'
    BY <1>c, <2>1, <2>6, <2>7, <2>9 DEF ControlOf, Frames
  <2> QED
    BY <2>10, <2>11
<1>6. ASSUME BeforeSleep(t) \/ WakeUp(t) PROVE ThreadStep(t)
  <2>1. ThreadType' /\ Others(t)
    BY <1>6, <1>c DEF BeforeSleep, WakeUp, Labels
  <2>2. ControlOf(t)'
    BY <1>6, <1>c DEF BeforeSleep, WakeUp, ControlOf
  <2> QED
    BY <2>1, <2>2
<1>7. ASSUME CheckAddress(t) PROVE ThreadStep(t)
  <2>1. park[t] # NoPark /\ park[t].address \in Addresses
    BY <1>7, <1>c DEF CheckAddress, ControlOf
  <2>2. [NoFrame EXCEPT !.op = "dequeueMe", !.address = park[t].address] \in Frames
    BY <2>1, NoFrameType DEF Ops
  <2>3. ThreadType' /\ Others(t)
    BY <1>7, <1>c, <2>2, NoFrameType DEF CheckAddress, Labels
  <2>4. /\ frame[t].op = "none" /\ ~frame[t].didFind /\ frame[t].dequeued = <<>> /\ parks'[t] = parks[t]
        /\ \/ park'[t] = NoPark /\ pc'[t] = "idle" /\ frame'[t] = frame[t]
           \/ park'[t] = park[t] /\ pc'[t] = "asleep" /\ frame'[t] = frame[t]
           \/ /\ park'[t] = park[t] /\ pc'[t] = "loadTable" /\ park[t].timeout = "sometime"
              /\ frame'[t] = [NoFrame EXCEPT !.op = "dequeueMe", !.address = park[t].address]
    BY <1>7, <1>c DEF CheckAddress, ControlOf, Frames
  <2>5. ControlOf(t)'
    BY <1>c, <2>1, <2>4 DEF ControlOf, NoFrame
  <2> QED
    BY <2>3, <2>5
<1>8. ASSUME ClearAddress(t) PROVE ThreadStep(t)
  <2>1. ThreadType' /\ Others(t)
    BY <1>8, <1>c, NoFrameType DEF ClearAddress, Labels
  <2>2. ControlOf(t)'
    BY <1>8, <1>c, NoFrameType DEF ClearAddress, ControlOf, NoFrame
  <2> QED
    BY <2>1, <2>2
<1> QED
  BY <1>1, <1>2, <1>3, <1>4, <1>5, <1>6, <1>7, <1>8

-----------------------------------------------------------------------------
(***************************************************************************)
(* Rehashing.                                                              *)
(***************************************************************************)

SlotOf(u, n) == hashAddress[address[u]] % n

(* The slots in the order in which they get a bucket: those that threads   *)
(* need come first.                                                        *)
SlotOrder(order, slots, n) ==
    /\ order \in Seq(0 .. n - 1) /\ Len(order) = n
    /\ \A i \in 0 .. n - 1 : \E k \in 1 .. n : order[k] = i /\ (i \in slots => k <= Cardinality(slots))
    /\ IsInjective(order)

LEMMA SlotOrderFacts ==
    ASSUME NEW n \in Nat \ {0}, NEW slots, slots \subseteq 0 .. n - 1,
           NEW first, Keys(slots, first),
           NEW others, slots \cup others = 0 .. n - 1, slots \cap others = {}, NEW second, Keys(others, second),
           NEW order, order = Sorted(slots, first) \o Sorted(others, second)
    PROVE  SlotOrder(order, slots, n) /\ IsFiniteSet(slots) /\ Cardinality(slots) \in 0 .. n
<1>1. IsFiniteSet(0 .. n - 1) /\ Cardinality(0 .. n - 1) = n
  <2>1. \A m \in Int : IsFiniteSet(0 .. m) /\ (0 <= m => Cardinality(0 .. m) = m + 1)
    BY FS_Interval
  <2>2. n - 1 \in Int /\ 0 <= n - 1 /\ n - 1 + 1 = n
    OBVIOUS
  <2> QED
    BY <2>1, <2>2
<1>2. IsFiniteSet(slots) /\ IsFiniteSet(others)
  <2>1. slots \in SUBSET (0 .. n - 1) /\ others \in SUBSET (0 .. n - 1)
    OBVIOUS
  <2> QED
    BY <1>1, <2>1, FS_Subset
<1>3. Cardinality(slots) \in Nat /\ Cardinality(others) \in Nat /\ Cardinality(slots) + Cardinality(others) = n
  <2>2. Cardinality(slots \cup others) = Cardinality(slots) + Cardinality(others) - Cardinality(slots \cap others)
    BY <1>2, FS_Union
  <2>3. Cardinality({}) = 0
    BY FS_EmptySet
  <2>4. Cardinality(slots) \in Nat /\ Cardinality(others) \in Nat
    BY <1>2, FS_CardinalityType
  <2>5. Cardinality(slots \cup others) = n /\ Cardinality(slots \cap others) = 0
    BY <1>1, <2>3
  <2> QED
    BY <2>2, <2>4, <2>5
<1>5. PICK a : a = Sorted(slots, first)
  OBVIOUS
<1>6. PICK b : b = Sorted(others, second)
  OBVIOUS
<1>7. /\ a \in Seq(slots) /\ Len(a) = Cardinality(slots) /\ DOMAIN a = 1 .. Cardinality(slots)
      /\ \A x \in slots : \E i \in DOMAIN a : a[i] = x
      /\ \A i \in DOMAIN a : a[i] \in slots
      /\ \A i, j \in DOMAIN a : a[i] = a[j] => i = j
  BY <1>2, <1>5, SortedFacts
<1>8. /\ b \in Seq(others) /\ Len(b) = Cardinality(others) /\ DOMAIN b = 1 .. Cardinality(others)
      /\ \A x \in others : \E i \in DOMAIN b : b[i] = x
      /\ \A i \in DOMAIN b : b[i] \in others
      /\ \A i, j \in DOMAIN b : b[i] = b[j] => i = j
  BY <1>2, <1>6, SortedFacts
<1>9. a \in Seq(0 .. n - 1) /\ b \in Seq(0 .. n - 1) /\ order = a \o b
  <2>1. slots \subseteq 0 .. n - 1 /\ others \subseteq 0 .. n - 1
    OBVIOUS
  <2>2. a \in Seq(0 .. n - 1)
    BY <1>7, <2>1, SeqMonotonic
  <2>3. b \in Seq(0 .. n - 1)
    BY <1>8, <2>1, SeqMonotonic
  <2> QED
    BY <1>5, <1>6, <2>2, <2>3
<1>10. /\ order \in Seq(0 .. n - 1) /\ Len(order) = n
       /\ \A i \in 1 .. n : order[i] = IF i <= Len(a) THEN a[i] ELSE b[i - Len(a)]
  <2>1. /\ a \o b \in Seq(0 .. n - 1) /\ Len(a \o b) = Len(a) + Len(b)
        /\ \A i \in 1 .. (Len(a) + Len(b)) : (a \o b)[i] = IF i <= Len(a) THEN a[i] ELSE b[i - Len(a)]
    BY <1>9, ConcatProperties
  <2>2. Len(a) + Len(b) = n
    BY <1>3, <1>7, <1>8
  <2> QED
    BY <1>9, <2>1, <2>2
<1>11. DOMAIN order = 1 .. n
  BY <1>10, LenProperties
<1>12. IsInjective(order)
  <2>1. IsInjective(a) /\ IsInjective(b)
    BY <1>7, <1>8 DEF IsInjective
  <2>2. Range(a) \cap Range(b) = {}
    <3>1. Range(a) \subseteq slots /\ Range(b) \subseteq others
      BY <1>7, <1>8 DEF Range
    <3> QED
      BY <3>1
  <2> QED
    BY <1>9, <2>1, <2>2, ConcatOrder
<1>13. ASSUME NEW i \in 0 .. n - 1
       PROVE  \E k \in 1 .. n : order[k] = i /\ (i \in slots => k <= Cardinality(slots))
  <2>1. CASE i \in slots
    <3>1. PICK k \in 1 .. Cardinality(slots) : a[k] = i
      BY <1>7, <2>1
    <3>2. k \in 1 .. n /\ k <= Len(a) /\ k <= Cardinality(slots)
      BY <1>3, <1>7, <3>1
    <3> QED
      BY <1>10, <3>1, <3>2
  <2>2. CASE i \notin slots
    <3>1. PICK k \in 1 .. Cardinality(others) : b[k] = i
      BY <1>8, <2>2
    <3>2. PICK m : m = Len(a) + k
      OBVIOUS
    <3>3. m \in 1 .. n /\ ~(m <= Len(a)) /\ m - Len(a) = k
      BY <1>3, <1>7, <3>1, <3>2
    <3>4. order[m] = i
      BY <1>10, <3>1, <3>3
    <3> QED
      BY <2>2, <3>3, <3>4
  <2> QED
    BY <2>1, <2>2
<1>14. Cardinality(slots) \in 0 .. n
  BY <1>3
<1>15. \A i \in 0 .. n - 1 : \E k \in 1 .. n : order[k] = i /\ (i \in slots => k <= Cardinality(slots))
  BY <1>13
<1>16. SlotOrder(order, slots, n)
  BY <1>10, <1>12, <1>15 DEF SlotOrder
<1> QED
  BY <1>2, <1>14, <1>16

(* What a rehash finds and makes.                                          *)
OldBuckets == SortedBuckets(tables[hashtable])
OldQueues == [i \in DOMAIN OldBuckets |-> queues[OldBuckets[i]]]
OldThreads == FlattenSeq(OldQueues)

IsRehashed(new, n) ==
    /\ new.table \in [0 .. n - 1 -> Nat]
    /\ new.queues \in Seq(Seq(Threads)) /\ Len(queues) <= Len(new.queues)
    /\ \A i \in 0 .. n - 1 : new.table[i] \in 0 .. Len(new.queues)
    /\ \A u \in Range(OldThreads) : new.table[SlotOf(u, n)] # 0
    /\ \A b \in DOMAIN new.queues : new.queues[b] = Selected(OldThreads, {u \in Range(OldThreads) : new.table[SlotOf(u, n)] = b})
    /\ Len(OldBuckets) <= n => \A k \in DOMAIN OldBuckets : \E i \in 0 .. n - 1 : new.table[i] = OldBuckets[k]

LEMMA OldThreadsFacts ==
    ASSUME TypeOK, AddressSpace, TablesInv, hashtable # 0
    PROVE  /\ OldBuckets \in Seq(Nat) /\ IsInjective(OldBuckets) /\ Range(OldBuckets) = BucketsOf(tables[hashtable])
           /\ \A k \in DOMAIN OldBuckets : OldBuckets[k] \in 1 .. Len(queues)
           /\ OldQueues \in Seq(Seq(Threads))
           /\ Len(OldQueues) = Len(OldBuckets)
           /\ Flat(OldThreads, OldQueues, Len(OldBuckets), Threads)
<1>1. hashtable \in 1 .. Len(tables) /\ tables[hashtable] \in AllTables
  BY Places DEF TypeOK, hashtable
<1>2. OldBuckets \in Seq(Nat) /\ IsInjective(OldBuckets) /\ Range(OldBuckets) = BucketsOf(tables[hashtable])
  BY <1>1, SortedBucketsFacts DEF OldBuckets
<1>3. \A b \in BucketsOf(tables[hashtable]) : b \in 1 .. Len(queues)
  <2> SUFFICES ASSUME NEW b \in BucketsOf(tables[hashtable]) PROVE b \in 1 .. Len(queues)
    OBVIOUS
  <2>1. PICK i \in DOMAIN tables[hashtable] : tables[hashtable][i] = b /\ b # 0
    BY DEF BucketsOf
  <2>2. b \in 0 .. Len(queues) /\ Len(queues) \in Nat
    BY <1>1, <2>1, Places DEF TablesInv, TypeOK, hashtable
  <2> QED
    BY <2>1, <2>2
<1>4. \A k \in DOMAIN OldBuckets : OldBuckets[k] \in 1 .. Len(queues)
  BY <1>2, <1>3 DEF Range
<1>6. Len(OldBuckets) \in Nat /\ DOMAIN OldBuckets = 1 .. Len(OldBuckets)
  BY <1>2, LenProperties
<1>7. \A k \in DOMAIN OldBuckets : queues[OldBuckets[k]] \in Seq(Threads)
  BY <1>4, Places DEF TypeOK
<1>8. OldQueues \in Seq(Seq(Threads)) /\ Len(OldQueues) = Len(OldBuckets)
  BY <1>6, <1>7 DEF OldQueues
<1>9. OldThreads = FlattenSeq(OldQueues)
  BY DEF OldThreads
<1>10. Flat(OldThreads, OldQueues, Len(OldBuckets), Threads)
  BY <1>8, <1>9, FlattenFacts
<1> QED
  BY <1>2, <1>4, <1>8, <1>10

LEMMA RehashedFacts ==
    ASSUME TypeOK, AddressSpace, TablesInv, hashtable # 0, NEW n \in Nat \ {0},
           NEW new, new = Rehashed(n)
    PROVE  IsRehashed(new, n)
<1> DEFINE old == OldBuckets
           all == OldThreads
           slots == {SlotOf(u, n) : u \in Range(all)}
           first == [i \in slots |-> Min({m \in DOMAIN all : SlotOf(all[m], n) = i})]
           needed == Sorted(slots, first)
           others == (0 .. n - 1) \ slots
           second == [i \in others |-> i]
           order == needed \o Sorted(others, second)
           tb == [i \in 0 .. n - 1 |-> BucketForSlot(CHOOSE k \in DOMAIN order : order[k] = i, old, Len(needed))]
           N == Len(queues) + (IF Len(needed) > Len(old) THEN Len(needed) - Len(old) ELSE 0)
<1>8. new = [table |-> tb, queues |-> [b \in 1 .. N |-> Selected(all, {u \in Range(all) : tb[SlotOf(u, n)] = b})]]
  BY DEF Rehashed, OldBuckets, OldQueues, OldThreads, SlotOf, Range, ToSet
<1>1. slots = {SlotOf(u, n) : u \in Range(all)}
  OBVIOUS
<1>2. first = [i \in slots |-> Min({m \in DOMAIN all : SlotOf(all[m], n) = i})]
  OBVIOUS
<1>3. needed = Sorted(slots, first)
  OBVIOUS
<1>4. others = (0 .. n - 1) \ slots /\ second = [i \in others |-> i]
  OBVIOUS
<1>5. order = Sorted(slots, first) \o Sorted(others, second)
  OBVIOUS
<1>6. tb = [i \in 0 .. n - 1 |-> BucketForSlot(CHOOSE k \in DOMAIN order : order[k] = i, old, Len(needed))]
  OBVIOUS
<1>7. N = Len(queues) + (IF Len(needed) > Len(old) THEN Len(needed) - Len(old) ELSE 0)
  OBVIOUS
<1> HIDE DEF slots, first, needed, others, second, order, tb, N
<1>9. all \in Seq(Threads) /\ old \in Seq(Nat) /\ IsInjective(old) /\ \A k \in DOMAIN old : old[k] \in 1 .. Len(queues)
  BY OldThreadsFacts DEF Flat
<1>10. Len(all) \in Nat /\ DOMAIN all = 1 .. Len(all) /\ Len(old) \in Nat /\ DOMAIN old = 1 .. Len(old) /\ Len(queues) \in Nat
  BY <1>9, LenProperties, Places DEF TypeOK
<1>11. \A u \in Range(all) : u \in Threads /\ SlotOf(u, n) \in 0 .. n - 1
  <2> SUFFICES ASSUME NEW u \in Range(all) PROVE u \in Threads /\ SlotOf(u, n) \in 0 .. n - 1
    OBVIOUS
  <2>1. u \in Threads
    BY <1>9, <1>10, ElementOfSeq DEF Range
  <2>2. hashAddress[address[u]] \in Nat
    BY <2>1, ParkingLotAssumption DEF TypeOK, ThreadType
  <2>3. \A m \in Nat : m % n \in 0 .. n - 1
    OBVIOUS
  <2> QED
    BY <2>1, <2>2, <2>3 DEF SlotOf
<1>12. slots \subseteq 0 .. n - 1
  BY <1>1, <1>11
<1>13. Keys(slots, first)
  <2>1. ASSUME NEW i \in slots PROVE first[i] \in DOMAIN all /\ SlotOf(all[first[i]], n) = i
    <3> DEFINE M == {m \in DOMAIN all : SlotOf(all[m], n) = i}
    <3>1. M \subseteq Nat /\ M # {}
      BY <1>1, <1>10 DEF Range
    <3>2. first[i] = Min(M)
      BY <1>2
    <3>3. Min(M) \in M
      <4> HIDE DEF M
      <4> QED
        BY <3>1, LeastNatural
    <3> QED
      BY <3>2, <3>3
  <2> QED
    BY <1>10, <2>1 DEF Keys
<1>14. SlotOrder(order, slots, n) /\ IsFiniteSet(slots) /\ Cardinality(slots) \in 0 .. n
  <2>1. slots \cup others = 0 .. n - 1 /\ slots \cap others = {}
    BY <1>4, <1>12
  <2>2. Keys(others, second)
    BY <1>4 DEF Keys
  <2> QED
    BY <1>5, <1>12, <1>13, <2>1, <2>2, SlotOrderFacts
<1>15. Len(needed) = Cardinality(slots) /\ Len(needed) \in Nat
  BY <1>3, <1>13, <1>14, SortedFacts
<1>16. N \in Nat /\ Len(queues) <= N /\ (Len(needed) > Len(old) => N = Len(queues) + (Len(needed) - Len(old)))
  BY <1>7, <1>10, <1>15
<1>17. DOMAIN order = 1 .. n
  BY <1>14, LenProperties DEF SlotOrder
<1>18. ASSUME NEW i \in 0 .. n - 1
       PROVE  \E k \in 1 .. n : /\ order[k] = i /\ (i \in slots => k <= Len(needed))
                                /\ tb[i] = BucketForSlot(k, old, Len(needed))
  <2>1. PICK k \in 1 .. n : order[k] = i /\ (i \in slots => k <= Len(needed))
    BY <1>14, <1>15 DEF SlotOrder
  <2>2. (CHOOSE m \in DOMAIN order : order[m] = i) = k
    BY <1>14, <1>17, <2>1 DEF SlotOrder, IsInjective
  <2> QED
    BY <1>6, <2>1, <2>2
<1>19. ASSUME NEW k \in 1 .. n
       PROVE  /\ BucketForSlot(k, old, Len(needed)) \in 0 .. N
              /\ k <= Len(needed) => BucketForSlot(k, old, Len(needed)) # 0
  <2>1. CASE k <= Len(old)
    <3>1. BucketForSlot(k, old, Len(needed)) = old[Len(old) + 1 - k] /\ Len(old) + 1 - k \in DOMAIN old
      BY <1>10, <2>1 DEF BucketForSlot
    <3>2. old[Len(old) + 1 - k] \in 1 .. Len(queues)
      BY <1>9, <3>1
    <3> QED
      BY <1>10, <1>16, <3>1, <3>2
  <2>2. CASE ~(k <= Len(old)) /\ k <= Len(needed)
    <3>1. BucketForSlot(k, old, Len(needed)) = Len(queues) + k - Len(old)
      BY <2>2 DEF BucketForSlot
    <3>2. Len(needed) > Len(old)
      BY <1>10, <1>15, <2>2
    <3>3. N = Len(queues) + (Len(needed) - Len(old))
      BY <1>16, <3>2
    <3>4. \A q, m, o, M \in Nat : M = q + (m - o) /\ ~(k <= o) /\ k <= m => q + k - o \in 0 .. M /\ q + k - o # 0
      OBVIOUS
    <3> QED
      BY <1>10, <1>15, <1>16, <2>2, <3>1, <3>3, <3>4
  <2>3. CASE ~(k <= Len(old)) /\ ~(k <= Len(needed))
    BY <1>16, <2>3 DEF BucketForSlot
  <2> QED
    BY <2>1, <2>2, <2>3
<1>20. \A i \in 0 .. n - 1 : tb[i] \in 0 .. N
  BY <1>18, <1>19
<1>21. tb \in [0 .. n - 1 -> Nat]
  <2>1. tb = [i \in 0 .. n - 1 |-> tb[i]]
    BY <1>6
  <2> QED
    BY <1>16, <1>20, <2>1
<1>22. \A u \in Range(all) : tb[SlotOf(u, n)] # 0
  <2> SUFFICES ASSUME NEW u \in Range(all) PROVE tb[SlotOf(u, n)] # 0
    OBVIOUS
  <2>1. SlotOf(u, n) \in slots /\ SlotOf(u, n) \in 0 .. n - 1
    BY <1>1, <1>11
  <2>2. PICK k \in 1 .. n : k <= Len(needed) /\ tb[SlotOf(u, n)] = BucketForSlot(k, old, Len(needed))
    BY <1>18, <2>1
  <2> QED
    BY <1>19, <2>2
<1>23. ASSUME Len(old) <= n, NEW k \in DOMAIN old PROVE \E i \in 0 .. n - 1 : tb[i] = old[k]
  <2>1. PICK m : m = Len(old) + 1 - k
    OBVIOUS
  <2>2. m \in 1 .. n /\ m <= Len(old) /\ Len(old) + 1 - m = k
    BY <1>10, <1>23, <2>1
  <2>3. order[m] \in 0 .. n - 1
    BY <1>14, <1>17, <2>2, ElementOfSeq DEF SlotOrder
  <2>4. PICK l \in 1 .. n : order[l] = order[m] /\ tb[order[m]] = BucketForSlot(l, old, Len(needed))
    BY <1>18, <2>3
  <2>5. l = m
    BY <1>14, <1>17, <2>2, <2>4 DEF SlotOrder, IsInjective
  <2>6. BucketForSlot(m, old, Len(needed)) = old[k]
    BY <2>2 DEF BucketForSlot
  <2> QED
    BY <2>3, <2>4, <2>5, <2>6
<1>24. PICK qs : qs = [b \in 1 .. N |-> Selected(all, {u \in Range(all) : tb[SlotOf(u, n)] = b})]
  OBVIOUS
<1>25. qs \in Seq(Seq(Threads)) /\ Len(qs) = N /\ DOMAIN qs = 1 .. N
  <2>1. \A S : Selected(all, S) \in Seq(Threads)
    BY <1>9, SelectedFacts
  <2> QED
    BY <1>16, <1>24, <2>1
<1>26. new.table = tb /\ new.queues = qs
  BY <1>8, <1>24
<1>27. \A b \in DOMAIN qs : qs[b] = Selected(all, {u \in Range(all) : tb[SlotOf(u, n)] = b})
  BY <1>24, <1>25
<1> QED
  BY <1>16, <1>20, <1>21, <1>22, <1>23, <1>25, <1>26, <1>27 DEF IsRehashed

LEMMA Growth ==
    ASSUME NEW n \in Int, NEW s \in Nat \ {0}, NEW l \in Nat \ {0}, NEW g \in Nat \ {0}, ~(s >= l * n)
    PROVE  n * g * l \in Nat \ {0} /\ s < n * g * l
<1>1. l * n > s /\ l * n \in Int
  OBVIOUS
<1>2. n > 0
  <2>1. CASE n <= 0
    <3>1. l * n <= 0
      BY <2>1
    <3> QED
      BY <1>1, <3>1
  <2> QED
    BY <2>1
<1>3. PICK p \in Nat : p = l * n
  BY <1>1
<1>4. n * g * l = p * g
  BY <1>3
<1>5. p * g >= p /\ p * g \in Nat
  <2>1. PICK h \in Nat : g = h + 1
    <3>1. g - 1 \in Nat /\ g = (g - 1) + 1
      OBVIOUS
    <3> QED
      BY <3>1
  <2>2. p * g = p * h + p /\ p * h \in Nat
    BY <2>1
  <2> QED
    BY <2>2
<1> QED
  BY <1>1, <1>3, <1>4, <1>5

LEMMA UnlockedFacts ==
    ASSUME TypeOK, NEW t \in Threads
    PROVE  /\ Unlocked(t) \in Seq(Threads \cup {Null}) /\ Len(Unlocked(t)) = Len(locks) /\ DOMAIN Unlocked(t) = DOMAIN locks
           /\ \A b \in DOMAIN locks : Unlocked(t)[b] = IF locks[b] = t THEN Null ELSE locks[b]
<1>1. /\ Len(locks) \in Nat /\ DOMAIN locks = 1 .. Len(locks)
      /\ \A b \in DOMAIN locks : locks[b] \in Threads \cup {Null}
  BY LenProperties, ElementOfSeq DEF TypeOK, TableType
<1> QED
  BY <1>1 DEF Unlocked

(* The new table is larger than the one it replaces, whose buckets it      *)
(* keeps.                                                                  *)
HasRehashed(t, new, m) ==
    /\ m \in Nat \ {0} /\ new = Rehashed(m) /\ IsRehashed(new, m)
    /\ Size(tables[hashtable]) < m /\ BucketsOf(tables[hashtable]) \subseteq BucketsOf(new.table)
    /\ new.table \in AllTables /\ Size(new.table) = m
    /\ Len(tables') = Len(tables) + 1 /\ tables'[Len(tables')] = new.table
    /\ \A k \in 1 .. Len(tables) : tables'[k] = tables[k]
    /\ queues' = new.queues
    /\ \A b \in DOMAIN queues' : locks'[b] = IF b \in DOMAIN locks /\ locks[b] # t THEN locks[b] ELSE Null

LEMMA RehashGrows ==
    ASSUME TypeOK, TablesInv, AddressSpace, NEW t \in Threads, EnsureHashtableSize(t), ~LargeEnough(frame[t].numThreads),
           hashtable # 0, FullTable(tables[hashtable])
    PROVE  Grown /\ \E new, m : HasRehashed(t, new, m)
<1>1. PICK n : n = frame[t].numThreads
  OBVIOUS
<1>2. n \in Int
  BY <1>1 DEF TypeOK, ThreadType, Frames
<1>3. hashtable \in 1 .. Len(tables) /\ tables[hashtable] \in AllTables /\ Len(tables) \in Nat /\ hashtable = Len(tables)
  BY Places DEF TypeOK, hashtable
<1>4. PICK cur : cur = tables[hashtable]
  OBVIOUS
<1>5. Size(cur) \in Nat \ {0} /\ ~(Size(cur) >= maxLoadFactor * n)
  <2>1. Size(cur) \in Nat \ {0}
    BY <1>3, <1>4, TableFacts
  <2> QED
    BY <1>1, <1>4, <2>1 DEF LargeEnough
<1>6. PICK m : m = n * growthFactor * maxLoadFactor
  OBVIOUS
<1>7. m \in Nat \ {0} /\ Size(cur) < m
  BY <1>2, <1>5, <1>6, Growth, ParkingLotAssumption
<1>8. PICK new : new = Rehashed(m)
  OBVIOUS
<1>9. /\ tables' = Append(tables, new.table) /\ queues' = new.queues
      /\ locks' = [b \in DOMAIN new.queues |-> IF b \in DOMAIN locks THEN Unlocked(t)[b] ELSE Null]
  BY <1>1, <1>6, <1>8 DEF EnsureHashtableSize
<1>10. IsRehashed(new, m)
  BY <1>7, <1>8, RehashedFacts
<1>11. new.table \in AllTables /\ Size(new.table) = m
  <2>1. new.table \in AllTables
    BY <1>7, <1>10 DEF IsRehashed, AllTables
  <2>2. DOMAIN new.table = 0 .. m - 1
    BY <1>10 DEF IsRehashed
  <2>3. \A k \in Int : 0 <= k => Cardinality(0 .. k) = k + 1
    BY FS_Interval
  <2>4. m - 1 \in Int /\ 0 <= m - 1 /\ m - 1 + 1 = m
    BY <1>7
  <2> QED
    BY <2>1, <2>2, <2>3, <2>4 DEF Size
<1>12. /\ tables' \in Seq(AllTables) /\ Len(tables') = Len(tables) + 1
       /\ tables'[Len(tables) + 1] = new.table
       /\ \A k \in 1 .. Len(tables) : tables'[k] = tables[k]
  BY <1>9, <1>11, AppendProperties DEF TypeOK, TableType
<1>13. queues' \in Seq(Seq(Threads)) /\ Len(queues) <= Len(queues')
  BY <1>9, <1>10 DEF IsRehashed
<1>14. Len(queues') \in Nat /\ DOMAIN queues' = 1 .. Len(queues') /\ Len(queues) \in Nat /\ DOMAIN locks = 1 .. Len(queues)
  BY <1>13, LenProperties, Places DEF TypeOK
<1>15. \A b \in DOMAIN queues' : /\ locks'[b] = IF b \in DOMAIN locks /\ locks[b] # t THEN locks[b] ELSE Null
                                 /\ locks'[b] \in Threads \cup {Null}
  <2>1. \A b \in DOMAIN queues' : locks'[b] = IF b \in DOMAIN locks THEN Unlocked(t)[b] ELSE Null
    BY <1>9
  <2>2. \A b \in DOMAIN locks : locks[b] \in Threads \cup {Null}
    BY Places DEF TypeOK
  <2> QED
    BY <2>1, <2>2, UnlockedFacts
<1>16. locks' \in Seq(Threads \cup {Null}) /\ Len(locks') = Len(queues')
  <2>1. locks' = [b \in DOMAIN queues' |-> locks'[b]]
    BY <1>9
  <2>2. locks' = [b \in 1 .. Len(queues') |-> locks'[b]] /\ \A b \in 1 .. Len(queues') : locks'[b] \in Threads \cup {Null}
    BY <1>14, <1>15, <2>1
  <2> QED
    BY <1>14, <2>2
<1>17. TableType'
  BY <1>12, <1>13, <1>16 DEF TableType
<1>18. TablesInv'
  <2> SUFFICES ASSUME NEW k \in 1 .. (Len(tables) + 1)
               PROVE  /\ \A i \in DOMAIN tables'[k] : tables'[k][i] \in 0 .. Len(queues')
                      /\ k # Len(tables) + 1 => FullTable(tables'[k])
    BY <1>12 DEF TablesInv, hashtable, FullTable
  <2>1. CASE k = Len(tables) + 1
    BY <1>9, <1>10, <1>12, <2>1 DEF IsRehashed
  <2>2. CASE k # Len(tables) + 1
    <3>1. k \in 1 .. Len(tables)
      BY <1>3, <2>2
    <3>2. tables'[k] = tables[k] /\ FullTable(tables[k]) /\ \A i \in DOMAIN tables[k] : tables[k][i] \in 0 .. Len(queues)
      BY <1>3, <1>12, <3>1 DEF TablesInv
    <3>3. \A j \in 0 .. Len(queues) : j \in 0 .. Len(queues')
      BY <1>13, <1>14
    <3> QED
      BY <3>2, <3>3
  <2> QED
    BY <2>1, <2>2
<1>19. Grown
  BY <1>3, <1>12, <1>13, <1>17, <1>18 DEF Grown
<1>20. BucketsOf(cur) \subseteq BucketsOf(new.table)
  <2>1. OldBuckets \in Seq(Nat) /\ IsInjective(OldBuckets) /\ Range(OldBuckets) = BucketsOf(cur)
    BY <1>4, OldThreadsFacts
  <2>2. Len(OldBuckets) <= m
    <3>1. IsFiniteSet(DOMAIN cur) /\ BucketsOf(cur) \subseteq {cur[i] : i \in DOMAIN cur} /\ cur \in [DOMAIN cur -> Nat]
      <4>1. cur = [i \in DOMAIN cur |-> cur[i]]
        BY <1>3, <1>4 DEF AllTables
      <4> QED
        BY <1>3, <1>4, <4>1, TableFacts DEF BucketsOf
    <3>2. PICK D : D = DOMAIN cur
      OBVIOUS
    <3>3. PICK R : R = {cur[i] : i \in DOMAIN cur}
      OBVIOUS
    <3>4. cur \in Surjection(D, R) /\ IsFiniteSet(D)
      BY <3>1, <3>2, <3>3 DEF Surjection
    <3>5. IsFiniteSet(R) /\ Cardinality(R) <= Cardinality(D)
      BY <3>4, FS_Surjection
    <3>6. BucketsOf(cur) \in SUBSET R
      BY <3>1, <3>3
    <3>7. Cardinality(BucketsOf(cur)) <= Cardinality(R) /\ IsFiniteSet(BucketsOf(cur))
      BY <3>5, <3>6, FS_Subset
    <3>8. Cardinality(D) = Size(cur)
      BY <3>2 DEF Size
    <3>9. Cardinality(BucketsOf(cur)) \in Nat /\ Cardinality(R) \in Nat
      BY <3>5, <3>7, FS_CardinalityType
    <3>10. Len(OldBuckets) = Cardinality(BucketsOf(cur))
      <4>1. Keys(BucketsOf(cur), bucketAddress)
        <5>1. BucketsOf(cur) \subseteq Nat \ {0}
          BY <1>3, <1>4, TableFacts
        <5> QED
          BY <5>1 DEF AddressSpace, Keys
      <4>2. OldBuckets = Sorted(BucketsOf(cur), bucketAddress)
        BY <1>4 DEF OldBuckets, SortedBuckets
      <4> QED
        BY <3>7, <4>1, <4>2, SortedFacts
    <3> QED
      BY <1>5, <1>7, <3>5, <3>7, <3>8, <3>9, <3>10
  <2>3. \A k \in DOMAIN OldBuckets : \E i \in DOMAIN new.table : new.table[i] = OldBuckets[k]
    BY <1>10, <2>2 DEF IsRehashed
  <2>4. SUFFICES ASSUME NEW b \in BucketsOf(cur) PROVE b \in BucketsOf(new.table)
    OBVIOUS
  <2>5. b # 0
    BY DEF BucketsOf
  <2>6. \E i \in DOMAIN new.table : new.table[i] = b
    BY <2>1, <2>3 DEF Range
  <2> QED
    BY <2>5, <2>6 DEF BucketsOf
<1>21. HasRehashed(t, new, m)
  BY <1>4, <1>7, <1>8, <1>9, <1>10, <1>11, <1>12, <1>15, <1>20 DEF HasRehashed
<1> QED
  BY <1>19, <1>21

-----------------------------------------------------------------------------
(***************************************************************************)
(* Who holds which lock.                                                   *)
(***************************************************************************)

LEMMA BucketThere ==
    ASSUME TableInv, NEW k \in 1 .. Len(tables)
    PROVE  /\ tables[k] \in AllTables
           /\ \A b \in BucketsOf(tables[k]) : b \in DOMAIN queues
           /\ \A a \in Addresses : LET i == Index(a, tables[k]) IN
                  /\ i \in DOMAIN tables[k] /\ tables[k][i] \in Nat
                  /\ tables[k][i] # 0 => tables[k][i] \in DOMAIN queues /\ tables[k][i] \in BucketsOf(tables[k])
                  /\ tables[k][i] = 0 => k = hashtable
<1>1. TableType /\ tables[k] \in AllTables /\ Len(queues) \in Nat /\ DOMAIN queues = 1 .. Len(queues)
  BY Places DEF TableInv, TypeOK
<1>2. \A i \in DOMAIN tables[k] : tables[k][i] \in 0 .. Len(queues)
  BY DEF TableInv, TablesInv, hashtable
<1>3. \A i \in DOMAIN tables[k] : tables[k][i] # 0 => tables[k][i] \in DOMAIN queues /\ tables[k][i] \in BucketsOf(tables[k])
  BY <1>1, <1>2 DEF BucketsOf
<1>4. \A b \in BucketsOf(tables[k]) : b \in DOMAIN queues
  BY <1>3 DEF BucketsOf
<1>5. \A a \in Addresses : Index(a, tables[k]) \in DOMAIN tables[k]
  BY <1>1, TableFacts
<1>6. \A i \in DOMAIN tables[k] : tables[k][i] \in Nat /\ (tables[k][i] = 0 => k = hashtable)
  BY <1>1, TableFacts DEF TableInv, TablesInv, FullTable, hashtable
<1> QED
  BY <1>1, <1>3, <1>4, <1>5, <1>6

LEMMA BucketLockedFacts ==
    ASSUME TableInv, NEW t \in Threads, pc[t] = "bucketLocked"
    PROVE  /\ frame[t].address \in Addresses /\ frame[t].table = hashtable /\ hashtable \in 1 .. Len(tables)
           /\ frame[t].bucket \in DOMAIN queues /\ MyQueue(t) \in Seq(Threads) /\ locks[frame[t].bucket] = t
           /\ frame[t].bucket \in BucketsOf(tables[hashtable])
           /\ frame[t].bucket = tables[hashtable][Index(frame[t].address, tables[hashtable])]
<1>1. frame[t].address \in Addresses
  BY DEF TableInv, ControlInv, ControlOf
<1>2. /\ frame[t].table = hashtable /\ hashtable \in 1 .. Len(tables) /\ frame[t].bucket # 0 /\ locks[frame[t].bucket] = t
      /\ frame[t].bucket = tables[hashtable][Index(frame[t].address, tables[hashtable])]
  BY DEF TableInv, LocksInv, LocksOf, hashtable
<1>3. frame[t].bucket \in DOMAIN queues /\ frame[t].bucket \in BucketsOf(tables[hashtable])
  BY <1>1, <1>2, BucketThere
<1>4. MyQueue(t) \in Seq(Threads)
  BY <1>3, Places DEF TableInv, TypeOK, MyQueue
<1> QED
  BY <1>1, <1>2, <1>3, <1>4

(* The first thread to use a slot puts a bucket there.                     *)
BucketMade(t, k, i) ==
    /\ k = frame[t].table /\ k = hashtable /\ k \in 1 .. Len(tables)
    /\ i = Index(frame[t].address, tables[k]) /\ i \in DOMAIN tables[k] /\ tables[k][i] = 0
    /\ frame' = [frame EXCEPT ![t] = [frame[t] EXCEPT !.bucket = Len(queues) + 1]] /\ pc' = [pc EXCEPT ![t] = "lockBucket"]
    /\ Len(tables') = Len(tables) /\ Len(queues') = Len(queues) + 1
    /\ \A l \in 1 .. Len(tables) : l # k => tables'[l] = tables[l]
    /\ DOMAIN tables'[k] = DOMAIN tables[k] /\ tables'[k][i] = Len(queues) + 1
    /\ \A j \in DOMAIN tables[k] : j # i => tables'[k][j] = tables[k][j]

LEMMA LoadBucketGrows ==
    ASSUME TableInv, NEW t \in Threads, LoadBucket(t)
    PROVE  \/ UNCHANGED table
           \/ Grown /\ BucketsAdded /\ \E k, i : BucketMade(t, k, i)
<1>1. PICK k : k = frame[t].table
  OBVIOUS
<1>2. PICK i : i = Index(frame[t].address, tables[k])
  OBVIOUS
<1>3. PICK n : n = Len(queues) + 1
  OBVIOUS
<1>4. SUFFICES ASSUME /\ tables[k][i] = 0 /\ tables' = [tables EXCEPT ![k][i] = n] /\ queues' = Append(queues, <<>>)
                      /\ locks' = Append(locks, Null)
                      /\ pc' = [pc EXCEPT ![t] = "lockBucket"] /\ frame' = [frame EXCEPT ![t] = [frame[t] EXCEPT !.bucket = n]]
               PROVE  Grown /\ BucketsAdded /\ BucketMade(t, k, i)
  BY <1>1, <1>2, <1>3 DEF LoadBucket, Goto, SetFrame, table
<1>5. /\ TableType /\ Len(queues) \in Nat /\ DOMAIN queues = 1 .. Len(queues) /\ DOMAIN locks = DOMAIN queues
      /\ Len(tables) \in Nat /\ DOMAIN tables = 1 .. Len(tables) /\ tables \in Seq(AllTables)
  BY Places DEF TableInv, TypeOK, TableType
<1>6. k \in 1 .. Len(tables) /\ frame[t].address \in Addresses
  BY <1>1 DEF LoadBucket, TableInv, LocksInv, LocksOf, ControlInv, ControlOf, hashtable
<1>7. tables[k] \in AllTables /\ i \in DOMAIN tables[k] /\ k = hashtable
  BY <1>2, <1>4, <1>6, BucketThere
<1>8. PICK tb : tb = [tables[k] EXCEPT ![i] = n]
  OBVIOUS
<1>9. /\ tb \in AllTables /\ DOMAIN tb = DOMAIN tables[k] /\ tb[i] = n
      /\ \A j \in DOMAIN tables[k] : j # i => tb[j] = tables[k][j]
  <2>1. PICK s \in Nat \ {0} : tables[k] \in [0 .. s - 1 -> Nat]
    BY <1>7 DEF AllTables
  <2>2. n \in Nat
    BY <1>3, <1>5
  <2>3. tb \in [0 .. s - 1 -> Nat]
    BY <1>8, <2>1, <2>2
  <2> QED
    BY <1>7, <1>8, <2>1, <2>3 DEF AllTables
<1>10. tables' = [tables EXCEPT ![k] = tb]
  BY <1>4, <1>8
<1>11. tables' \in Seq(AllTables) /\ Len(tables') = Len(tables) /\ \A l \in 1 .. Len(tables) : tables'[l] = IF l = k THEN tb ELSE tables[l]
  BY <1>5, <1>6, <1>9, <1>10, ExceptSeq
<1>12. /\ queues' \in Seq(Seq(Threads)) /\ Len(queues') = n /\ queues'[n] = <<>>
       /\ \A b \in 1 .. Len(queues) : queues'[b] = queues[b]
  <2>1. queues \in Seq(Seq(Threads)) /\ <<>> \in Seq(Threads)
    BY <1>5, EmptyQueue DEF TableType
  <2> QED
    BY <1>3, <1>4, <2>1, AppendProperties
<1>13. /\ locks' \in Seq(Threads \cup {Null}) /\ Len(locks') = n /\ locks'[n] = Null
       /\ \A b \in 1 .. Len(queues) : locks'[b] = locks[b]
  <2>1. locks \in Seq(Threads \cup {Null}) /\ Null \in Threads \cup {Null} /\ Len(locks) = Len(queues)
    BY <1>5 DEF TableType
  <2> QED
    BY <1>3, <1>4, <2>1, AppendProperties
<1>14. TableType'
  BY <1>11, <1>12, <1>13 DEF TableType
<1>15. BucketsAdded
  <2>1. DOMAIN queues' = 1 .. n
    BY <1>12, LenProperties
  <2>2. \A b \in 1 .. n : b \in 1 .. Len(queues) \/ b = n
    BY <1>3, <1>5
  <2> QED
    BY <1>5, <1>12, <1>13, <2>1, <2>2 DEF BucketsAdded
<1>16. TablesInv'
  <2>1. \A m \in 0 .. Len(queues) : m \in 0 .. n
    BY <1>3, <1>5
  <2>2. \A l \in 1 .. Len(tables) : /\ \A j \in DOMAIN tables[l] : tables[l][j] \in 0 .. Len(queues)
                                    /\ l # k => FullTable(tables[l])
    BY <1>7 DEF TableInv, TablesInv, hashtable
  <2>3. n \in 0 .. n
    BY <1>3, <1>5
  <2>4. ASSUME NEW l \in 1 .. Len(tables)
        PROVE  (\A j \in DOMAIN tables'[l] : tables'[l][j] \in 0 .. n) /\ (l # k => FullTable(tables'[l]))
    <3>1. CASE l = k
      BY <1>9, <1>11, <2>1, <2>2, <2>3, <3>1
    <3>2. CASE l # k
      BY <1>11, <2>1, <2>2, <3>2
    <3> QED
      BY <3>1, <3>2
  <2> QED
    BY <1>7, <1>11, <1>12, <2>4 DEF TablesInv, FullTable, hashtable
<1>17. Grown
  <2>1. Len(queues) <= Len(queues') /\ Len(tables) <= Len(tables')
    BY <1>3, <1>5, <1>11, <1>12
  <2>2. ASSUME NEW l \in 1 .. Len(tables)
        PROVE  DOMAIN tables'[l] = DOMAIN tables[l] /\ \A j \in DOMAIN tables[l] : tables[l][j] # 0 => tables'[l][j] = tables[l][j]
    BY <1>4, <1>9, <1>11
  <2> QED
    BY <1>14, <1>16, <2>1, <2>2 DEF Grown
<1>18. BucketMade(t, k, i)
  BY <1>1, <1>2, <1>3, <1>4, <1>6, <1>7, <1>9, <1>11, <1>12 DEF BucketMade
<1> QED
  BY <1>15, <1>17, <1>18

LEMMA InBucketGrows ==
    ASSUME TableInv, NEW t \in Threads, NEW ops, NEW q \in Seq(Threads), InBucket(t, ops, q)
    PROVE  /\ Grown /\ UNCHANGED tables /\ locks' = Unlocked(t)
           /\ Len(queues') = Len(queues) /\ DOMAIN queues' = DOMAIN queues
           /\ \A b \in DOMAIN queues : queues'[b] = IF b = frame[t].bucket THEN q ELSE queues[b]
<1>1. UNCHANGED tables /\ queues' = [queues EXCEPT ![frame[t].bucket] = q] /\ locks' = Unlocked(t) /\ pc[t] = "bucketLocked"
  BY DEF InBucket
<1>2. /\ TableType /\ TypeOK /\ TablesInv /\ queues \in Seq(Seq(Threads)) /\ DOMAIN queues = 1 .. Len(queues)
      /\ Len(queues) \in Nat /\ Len(tables) \in Nat /\ Len(locks) = Len(queues)
  BY Places DEF TableInv, TypeOK, TableType
<1>3. frame[t].bucket \in DOMAIN queues
  BY <1>1, BucketLockedFacts
<1>4. /\ queues' \in Seq(Seq(Threads)) /\ Len(queues') = Len(queues)
      /\ \A b \in DOMAIN queues : queues'[b] = IF b = frame[t].bucket THEN q ELSE queues[b]
  BY <1>1, <1>2, <1>3, ExceptSeq
<1>5. locks' \in Seq(Threads \cup {Null}) /\ Len(locks') = Len(locks)
  BY <1>1, <1>2, UnlockedFacts
<1>6. TableType'
  BY <1>1, <1>2, <1>4, <1>5 DEF TableType
<1>7. TablesInv'
  BY <1>1, <1>2, <1>4 DEF TablesInv, FullTable, hashtable
<1>8. Grown
  BY <1>1, <1>2, <1>4, <1>6, <1>7 DEF Grown
<1> QED
  BY <1>1, <1>2, <1>4, <1>8, LenProperties

OthersLocks(t) == \A u \in Threads \ {t} : \A b \in DOMAIN locks' : locks'[b] = u <=> b \in DOMAIN locks /\ locks[b] = u

LEMMA GrownTables ==
    ASSUME TableInv, Grown, NEW k \in 1 .. Len(tables)
    PROVE  /\ k \in 1 .. Len(tables') /\ tables'[k] \in AllTables /\ tables[k] \in AllTables
           /\ \A a \in Addresses : Index(a, tables'[k]) = Index(a, tables[k]) /\ Index(a, tables[k]) \in DOMAIN tables[k]
           /\ \A i \in DOMAIN tables[k] : tables[k][i] # 0 => tables'[k][i] = tables[k][i]
           /\ FullTable(tables[k]) => FullTable(tables'[k]) /\ BucketsOf(tables'[k]) = BucketsOf(tables[k]) /\ tables'[k] = tables[k]
           /\ BucketsOf(tables[k]) \subseteq BucketsOf(tables'[k])
<1>1. /\ DOMAIN tables'[k] = DOMAIN tables[k] /\ Len(tables) <= Len(tables')
      /\ \A i \in DOMAIN tables[k] : tables[k][i] # 0 => tables'[k][i] = tables[k][i]
  BY DEF Grown
<1>2. Len(tables) \in Nat /\ tables[k] \in AllTables
  BY Places DEF TableInv, TypeOK
<1>3. Len(tables') \in Nat
  BY LenProperties DEF Grown, TableType
<1>4. k \in 1 .. Len(tables')
  BY <1>1, <1>2, <1>3
<1>5. tables'[k] \in AllTables
  BY <1>4, ElementOfSeq DEF Grown, TableType
<1>6. \A a \in Addresses : Index(a, tables'[k]) = Index(a, tables[k]) /\ Index(a, tables[k]) \in DOMAIN tables[k]
  BY <1>1, <1>2, TableFacts DEF Index, Size
<1>7. BucketsOf(tables[k]) \subseteq BucketsOf(tables'[k])
  BY <1>1 DEF BucketsOf
<1>8. ASSUME FullTable(tables[k]) PROVE FullTable(tables'[k]) /\ BucketsOf(tables'[k]) = BucketsOf(tables[k]) /\ tables'[k] = tables[k]
  <2>1. \A i \in DOMAIN tables[k] : tables'[k][i] = tables[k][i] /\ tables[k][i] # 0
    BY <1>1, <1>8 DEF FullTable
  <2>2. tables'[k] = [i \in DOMAIN tables'[k] |-> tables'[k][i]] /\ tables[k] = [i \in DOMAIN tables[k] |-> tables[k][i]]
    BY <1>2, <1>5 DEF AllTables
  <2>3. tables'[k] = tables[k]
    BY <1>1, <2>1, <2>2
  <2> QED
    BY <1>8, <2>3
<1> QED
  BY <1>1, <1>2, <1>4, <1>5, <1>6, <1>7, <1>8

LEMMA LocksKept ==
    ASSUME TableInv, Grown, NEW t \in Threads, Others(t), OthersLocks(t), NEW u \in Threads \ {t},
           pc[u] \in {"tableLocked", "bucketLocked"} => Len(tables') = Len(tables)
    PROVE  LocksOf(u)'
<1>1. LocksOf(u) /\ ControlOf(u)
  BY DEF TableInv, LocksInv, ControlInv
<1>2. frame'[u] = frame[u] /\ (pc'[u] = pc[u] \/ (pc[u] = "asleep" /\ pc'[u] = "checkAddress"))
  BY DEF Others
<1>3. \A b \in DOMAIN locks' : locks'[b] = u <=> b \in DOMAIN locks /\ locks[b] = u
  BY DEF OthersLocks
<1>4. /\ DOMAIN queues \subseteq DOMAIN queues' /\ DOMAIN locks = DOMAIN queues /\ DOMAIN locks' = DOMAIN queues'
  <2>1. Len(queues) <= Len(queues') /\ TableType'
    BY DEF Grown
  <2>2. DOMAIN queues' = 1 .. Len(queues') /\ Len(queues') \in Nat /\ DOMAIN locks' = 1 .. Len(queues')
    BY <2>1, LenProperties DEF TableType
  <2>3. DOMAIN queues = 1 .. Len(queues) /\ Len(queues) \in Nat /\ DOMAIN locks = DOMAIN queues
    BY Places DEF TableInv, TypeOK
  <2> QED
    BY <2>1, <2>2, <2>3
<1>5. CASE pc[u] = "asleep"
  <2>1. \A b \in DOMAIN locks' : locks'[b] # u
    BY <1>1, <1>3, <1>5 DEF LocksOf
  <2> QED
    BY <1>2, <1>5, <2>1 DEF LocksOf
<1>6. CASE pc[u] # "asleep"
  <2>1. pc'[u] = pc[u]
    BY <1>2, <1>6
  <2>2. (\A b \in DOMAIN locks : locks[b] = u => pc[u] \in {"lockNext", "tableLocked", "bucketLocked"})'
    BY <1>1, <1>3, <2>1 DEF LocksOf
  <2>3. ASSUME pc[u] \in {"lockNext", "tableLocked"}
        PROVE  /\ frame[u].table \in 1 .. Len(tables') /\ FullTable(tables'[frame[u].table])
               /\ \A b \in BucketsOf(tables'[frame[u].table]) : locks'[b] = u \/ b \in Range(frame[u].toLock)
    <3>1. frame[u].table \in 1 .. Len(tables) /\ FullTable(tables[frame[u].table])
      BY <1>1, <2>3 DEF LocksOf, hashtable
    <3>2. \A b \in BucketsOf(tables[frame[u].table]) : (locks[b] = u \/ b \in Range(frame[u].toLock)) /\ b \in DOMAIN locks
      BY <1>1, <1>4, <2>3, <3>1, BucketThere DEF LocksOf
    <3>3. /\ frame[u].table \in 1 .. Len(tables') /\ FullTable(tables'[frame[u].table])
          /\ BucketsOf(tables'[frame[u].table]) = BucketsOf(tables[frame[u].table])
      BY <3>1, GrownTables
    <3> QED
      BY <1>3, <1>4, <3>2, <3>3
  <2>4. ASSUME pc[u] = "lockNext"
        PROVE  /\ frame[u].toLock # <<>> /\ Ascending(frame[u].toLock)
               /\ \A b \in Range(frame[u].toLock) : b \in DOMAIN locks'
               /\ \A b \in DOMAIN locks' : locks'[b] = u =>
                      \A c \in Range(frame[u].toLock) : bucketAddress[b] < bucketAddress[c]
    BY <1>1, <1>3, <1>4, <2>4 DEF LocksOf
  <2>5. pc[u] = "tableLocked" => frame[u].toLock = <<>> /\ frame[u].table = Len(tables')
    BY <1>1 DEF LocksOf, hashtable
  <2>6. ASSUME pc[u] \in {"loadBucket", "lockBucket", "bucketLocked"} PROVE frame[u].table \in 1 .. Len(tables')
    <3>1. frame[u].table \in 1 .. Len(tables)
      BY <1>1, <2>6 DEF LocksOf, hashtable
    <3> QED
      BY <3>1, GrownTables
  <2>7. ASSUME pc[u] \in {"lockBucket", "bucketLocked"}
        PROVE  /\ frame[u].bucket # 0 /\ frame[u].bucket \in DOMAIN queues
               /\ tables'[frame[u].table][Index(frame[u].address, tables'[frame[u].table])] = frame[u].bucket
    <3>1. /\ frame[u].table \in 1 .. Len(tables) /\ frame[u].bucket # 0
          /\ tables[frame[u].table][Index(frame[u].address, tables[frame[u].table])] = frame[u].bucket
      BY <1>1, <2>7 DEF LocksOf, hashtable
    <3>2. frame[u].address \in Addresses
      BY <1>1, <2>7 DEF ControlOf
    <3> QED
      BY <3>1, <3>2, GrownTables, BucketThere
  <2>8. pc[u] = "bucketLocked" => locks'[frame[u].bucket] = u /\ frame[u].table = Len(tables')
    BY <1>1, <1>3, <1>4, <2>7 DEF LocksOf, hashtable
  <2> QED
    BY <1>2, <2>1, <2>2, <2>3, <2>4, <2>5, <2>6, <2>7, <2>8 DEF LocksOf, hashtable
<1> QED
  BY <1>5, <1>6

(* A thread that has no lock, or has just given its locks back, and is     *)
(* not on its way to one.                                                  *)
LEMMA NoLocks ==
    ASSUME NEW t \in Threads, \A b \in DOMAIN locks' : locks'[b] # t,
           pc'[t] \notin {"lockNext", "tableLocked", "loadBucket", "lockBucket", "bucketLocked"}
    PROVE  LocksOf(t)'
  BY DEF LocksOf

LEMMA TableInvKept ==
    ASSUME TableInv, Grown, NEW t \in Threads, ThreadStep(t), OthersLocks(t), LocksOf(t)',
           \A u \in Threads \ {t} : pc[u] \in {"tableLocked", "bucketLocked"} => Len(tables') = Len(tables)
    PROVE  TableInv'
<1>1. ThreadType' /\ ControlInv'
  BY ControlKept DEF TableInv
<1>2. TableType' /\ TablesInv'
  BY DEF Grown
<1>3. \A u \in Threads \ {t} : LocksOf(u)'
  BY LocksKept DEF ThreadStep
<1> QED
  BY <1>1, <1>2, <1>3 DEF TableInv, TypeOK, LocksInv

(* Steps that leave the table alone.                                       *)
LEMMA QuietStep ==
    ASSUME TableInv, NEW t \in Threads, ThreadStep(t), UNCHANGED table,
           pc[t] \notin {"lockNext", "tableLocked", "bucketLocked"},
           pc'[t] \notin {"lockNext", "tableLocked", "loadBucket", "lockBucket", "bucketLocked"}
    PROVE  TableInv'
<1>1. TypeOK /\ TablesInv /\ LocksOf(t) /\ UNCHANGED <<tables, queues, locks>>
  BY DEF TableInv, LocksInv, table
<1>2. Grown
  BY <1>1, SameTable DEF TypeOK, TableType
<1>3. LocksOf(t)'
  BY <1>1, NoLocks DEF LocksOf
<1> QED
  BY <1>1, <1>2, <1>3, TableInvKept DEF OthersLocks

(* Steps that give the locks of the thread back.                           *)
LEMMA UnlockStep ==
    ASSUME TableInv, NEW t \in Threads, ThreadStep(t), Grown, UNCHANGED tables, locks' = Unlocked(t),
           pc'[t] \notin {"lockNext", "tableLocked", "loadBucket", "lockBucket", "bucketLocked"}
    PROVE  TableInv'
<1>1. TypeOK /\ Null \notin Threads
  BY ParkingLotAssumption DEF TableInv
<1>2. DOMAIN locks' = DOMAIN locks /\ \A b \in DOMAIN locks : locks'[b] = IF locks[b] = t THEN Null ELSE locks[b]
  BY <1>1, UnlockedFacts
<1>3. LocksOf(t)'
  BY <1>1, <1>2, NoLocks
<1>4. OthersLocks(t)
  BY <1>1, <1>2 DEF OthersLocks
<1> QED
  BY <1>3, <1>4, TableInvKept

LEMMA LockTableInv ==
    ASSUME TableInv, AddressSpace, NEW t \in Threads, LockTable(t)
    PROVE  TableInv'
<1>1. TypeOK /\ TablesInv /\ LocksOf(t) /\ frame[t] \in Frames /\ Null \notin Threads
  BY ParkingLotAssumption DEF TableInv, LocksInv, TypeOK, ThreadType
<1>2. Filled(t)
  BY <1>1, LockTableGrows
<1>3. Grown /\ BucketsAdded /\ TableType'
  BY <1>2 DEF Filled, Grown
<1>4. ThreadStep(t) /\ pc[t] = "lockTable" /\ pc'[t] = "lockNext"
  BY <1>1, <1>3, TableSteps DEF LockTable, Step, Goto, TypeOK, ThreadType
<1>5. DOMAIN locks = DOMAIN queues /\ DOMAIN locks' = DOMAIN queues' /\ DOMAIN queues' = 1 .. Len(queues') /\ Len(tables') \in Nat
  BY <1>1, <1>3, Places, LenProperties DEF TypeOK, TableType
<1>6. \A b \in DOMAIN locks' : locks'[b] # t
  BY <1>1, <1>3, <1>4, <1>5 DEF BucketsAdded, LocksOf
<1>7. OthersLocks(t)
  BY <1>1, <1>3, <1>5 DEF BucketsAdded, OthersLocks
<1>8. PICK k : k = Len(tables')
  OBVIOUS
<1>9. PICK full : full = tables'[k]
  OBVIOUS
<1>10. k \in 1 .. Len(tables') /\ full \in AllTables /\ FullTable(full)
  <2>1. k \in 1 .. Len(tables')
    BY <1>2, <1>5, <1>8 DEF Filled
  <2> QED
    BY <1>2, <1>3, <1>8, <1>9, <2>1, ElementOfSeq DEF Filled, TableType
<1>11. frame'[t].table = k /\ frame'[t].toLock = SortedBuckets(full)
  <2>1. frame'[t] = [frame[t] EXCEPT !.table = k, !.toLock = SortedBuckets(full)]
    BY <1>1, <1>2, <1>8, <1>9 DEF Filled, TypeOK, ThreadType
  <2> QED
    BY <1>1, <2>1 DEF Frames
<1>12. /\ Ascending(SortedBuckets(full)) /\ Range(SortedBuckets(full)) = BucketsOf(full)
  BY <1>10, SortedBucketsFacts
<1>13. \A b \in BucketsOf(full) : b \in DOMAIN locks'
  <2>1. \A i \in DOMAIN full : full[i] \in 0 .. Len(queues')
    BY <1>3, <1>8, <1>9, <1>10 DEF Grown, TablesInv, hashtable
  <2>2. Len(queues') \in Nat
    BY <1>3, LenProperties DEF TableType
  <2> QED
    BY <1>5, <2>1, <2>2 DEF BucketsOf
<1>14. SortedBuckets(full) # <<>>
  <2>1. 0 \in DOMAIN full
    BY <1>10, TableFacts
  <2>2. full[0] \in BucketsOf(full)
    BY <1>10, <2>1 DEF FullTable, BucketsOf
  <2> QED
    BY <1>12, <2>2, EmptyQueue
<1>15. LocksOf(t)'
  BY <1>4, <1>6, <1>8, <1>9, <1>10, <1>11, <1>12, <1>13, <1>14 DEF LocksOf, hashtable
<1>16. \A u \in Threads \ {t} : pc[u] \in {"tableLocked", "bucketLocked"} => Len(tables') = Len(tables)
  <2> SUFFICES ASSUME NEW u \in Threads, pc[u] \in {"tableLocked", "bucketLocked"} PROVE Len(tables') = Len(tables)
    OBVIOUS
  <2>1. frame[u].table \in 1 .. Len(tables)
    BY DEF TableInv, LocksInv, LocksOf, hashtable
  <2>2. tables # <<>>
    BY <1>1, <2>1, Places DEF TypeOK
  <2> QED
    BY <1>2, <2>2 DEF Filled
<1> QED
  BY <1>3, <1>4, <1>7, <1>15, <1>16, TableInvKept

LEMMA LockNextInv ==
    ASSUME TableInv, AddressSpace, NEW t \in Threads, LockNext(t)
    PROVE  TableInv'
<1>1. TypeOK /\ TablesInv /\ LocksOf(t) /\ frame[t] \in Frames /\ Null \notin Threads /\ TableType
  BY ParkingLotAssumption DEF TableInv, LocksInv, TypeOK, ThreadType
<1>2. PICK todo : todo = frame[t].toLock
  OBVIOUS
<1>3. PICK b : b = Head(todo)
  OBVIOUS
<1>4. PICK rest : rest = Tail(todo)
  OBVIOUS
<1>5. pc[t] = "lockNext" /\ locks[b] = Null /\ UNCHANGED <<tables, queues>>
  BY <1>2, <1>3 DEF LockNext
<1>6. /\ todo \in Seq(Nat) /\ todo # <<>> /\ Ascending(todo) /\ (\A c \in Range(todo) : c \in DOMAIN locks)
      /\ \A d \in DOMAIN locks : locks[d] = t => \A c \in Range(todo) : bucketAddress[d] < bucketAddress[c]
      /\ frame[t].table \in 1 .. Len(tables) /\ FullTable(tables[frame[t].table])
      /\ \A d \in BucketsOf(tables[frame[t].table]) : locks[d] = t \/ d \in Range(todo)
  BY <1>1, <1>2, <1>5 DEF LocksOf, Frames, hashtable
<1>7. /\ rest \in Seq(Nat) /\ b \in Range(todo) /\ Range(rest) \subseteq Range(todo) /\ b \in DOMAIN locks
      /\ Range(todo) \subseteq Range(rest) \cup {b}
      /\ Ascending(rest) /\ \A c \in Range(rest) : bucketAddress[b] < bucketAddress[c]
  <2>1. rest \in Seq(Nat) /\ b \in Range(todo) /\ Range(rest) \subseteq Range(todo)
    BY <1>3, <1>4, <1>6, TailFacts
  <2>2. /\ \A i \in DOMAIN rest : i + 1 \in DOMAIN todo \ {1} /\ rest[i] = todo[i + 1] /\ i \in Nat
        /\ \A i \in DOMAIN todo \ {1} : i - 1 \in DOMAIN rest /\ rest[i - 1] = todo[i]
        /\ \A i \in DOMAIN todo : i \in Nat
        /\ 1 \in DOMAIN todo /\ b = todo[1]
    BY <1>3, <1>4, <1>6, TailPlaces
  <2>3. Range(todo) \subseteq Range(rest) \cup {b}
    BY <2>2 DEF Range
  <2>4. Ascending(rest)
    <3> SUFFICES ASSUME NEW i \in DOMAIN rest, NEW j \in DOMAIN rest, i < j PROVE bucketAddress[rest[i]] < bucketAddress[rest[j]]
      BY DEF Ascending
    <3>1. i + 1 \in DOMAIN todo /\ j + 1 \in DOMAIN todo /\ i + 1 < j + 1 /\ rest[i] = todo[i + 1] /\ rest[j] = todo[j + 1]
      BY <2>2
    <3> QED
      BY <1>6, <3>1 DEF Ascending
  <2>5. \A c \in Range(rest) : bucketAddress[b] < bucketAddress[c]
    <3> SUFFICES ASSUME NEW i \in DOMAIN rest PROVE bucketAddress[b] < bucketAddress[rest[i]]
      BY DEF Range
    <3>1. i + 1 \in DOMAIN todo /\ 1 < i + 1 /\ rest[i] = todo[i + 1] /\ 1 \in DOMAIN todo /\ b = todo[1]
      <4>1. i + 1 \in DOMAIN todo \ {1} /\ i \in Nat /\ i + 1 # 1
        BY <2>2
      <4> QED
        BY <2>2, <4>1
    <3> QED
      BY <1>6, <3>1 DEF Ascending
  <2> QED
    BY <1>6, <2>1, <2>3, <2>4, <2>5
<1>8. frame'[t].toLock = rest /\ frame'[t].table = frame[t].table
  <2>1. frame'[t] = [frame[t] EXCEPT !.toLock = rest]
    BY <1>1, <1>2, <1>4 DEF LockNext, SetFrame, TypeOK, ThreadType
  <2> QED
    BY <1>1, <2>1 DEF Frames
<1>9. CASE rest = <<>> /\ frame[t].table # hashtable
  <2>1. locks' = Unlocked(t) /\ pc'[t] = "lockTable"
    BY <1>1, <1>2, <1>4, <1>9 DEF LockNext, Goto, TypeOK, ThreadType
  <2>2. Grown
    BY <1>1, <1>5, <2>1, SameTable, UnlockedFacts
  <2>3. ThreadStep(t)
    BY <2>2, TableSteps DEF Grown
  <2> QED
    BY <1>5, <2>1, <2>2, <2>3, UnlockStep
<1>10. CASE ~(rest = <<>> /\ frame[t].table # hashtable)
  <2>1. /\ locks' = [locks EXCEPT ![b] = t]
        /\ rest # <<>> => pc'[t] = "lockNext"
        /\ rest = <<>> => pc'[t] = "tableLocked" /\ frame[t].table = hashtable
    BY <1>1, <1>2, <1>3, <1>4, <1>10 DEF LockNext, Goto, TypeOK, ThreadType
  <2>2. /\ locks' \in Seq(Threads \cup {Null}) /\ Len(locks') = Len(locks) /\ DOMAIN locks' = DOMAIN locks
        /\ \A c \in DOMAIN locks : locks'[c] = IF c = b THEN t ELSE locks[c]
    <3>1. locks \in Seq(Threads \cup {Null}) /\ DOMAIN locks = 1 .. Len(locks)
      BY <1>1, LenProperties DEF TableType
    <3> QED
      BY <1>7, <2>1, <3>1, ExceptSeq
  <2>3. Grown
    BY <1>1, <1>5, <2>2, SameTable
  <2>4. ThreadStep(t)
    BY <2>3, TableSteps DEF Grown
  <2>5. OthersLocks(t)
    BY <1>1, <1>5, <2>2 DEF OthersLocks
  <2>6. \A d \in BucketsOf(tables[frame[t].table]) : locks'[d] = t \/ d \in Range(rest)
    <3> SUFFICES ASSUME NEW d \in BucketsOf(tables[frame[t].table]), d \notin Range(rest) PROVE locks'[d] = t
      OBVIOUS
    <3>1. d \in DOMAIN locks
      BY <1>1, <1>6, BucketThere, Places
    <3>2. locks[d] = t \/ d = b
      BY <1>6, <1>7
    <3> QED
      BY <2>2, <3>1, <3>2
  <2>7. \A d \in DOMAIN locks' : locks'[d] = t => \A c \in Range(rest) : bucketAddress[d] < bucketAddress[c]
    BY <1>6, <1>7, <2>2
  <2>8. LocksOf(t)'
    BY <1>5, <1>6, <1>7, <1>8, <2>1, <2>2, <2>6, <2>7 DEF LocksOf, hashtable
  <2> QED
    BY <1>5, <2>3, <2>4, <2>5, <2>8, TableInvKept
<1> QED
  BY <1>9, <1>10

(* Whoever replaces the table has all of its locks.                        *)
LEMMA RehashAlone ==
    ASSUME TableInv, NEW t \in Threads, pc[t] = "tableLocked", NEW u \in Threads \ {t}
    PROVE  pc[u] \notin {"tableLocked", "bucketLocked"}
<1>1. /\ frame[t].table = hashtable /\ hashtable \in 1 .. Len(tables) /\ FullTable(tables[hashtable])
      /\ \A b \in BucketsOf(tables[hashtable]) : locks[b] = t
  BY EmptyQueue DEF TableInv, LocksInv, LocksOf, hashtable
<1>2. pc[u] # "bucketLocked"
  BY <1>1, BucketLockedFacts
<1>3. pc[u] # "tableLocked"
  <2> SUFFICES ASSUME pc[u] = "tableLocked" PROVE FALSE
    OBVIOUS
  <2>1. frame[u].table = hashtable /\ \A b \in BucketsOf(tables[hashtable]) : locks[b] = u
    BY EmptyQueue DEF TableInv, LocksInv, LocksOf
  <2>2. tables[hashtable] \in AllTables
    BY <1>1, BucketThere
  <2>3. 0 \in DOMAIN tables[hashtable]
    BY <2>2, TableFacts
  <2>4. tables[hashtable][0] \in BucketsOf(tables[hashtable])
    BY <1>1, <2>3 DEF FullTable, BucketsOf
  <2> QED
    BY <1>1, <2>1, <2>4
<1> QED
  BY <1>2, <1>3

LEMMA EnsureSizeInv ==
    ASSUME TableInv, AddressSpace, NEW t \in Threads, EnsureHashtableSize(t)
    PROVE  /\ TableInv'
           /\ LargeEnough(frame[t].numThreads) => UNCHANGED <<tables, queues>> /\ locks' = Unlocked(t)
           /\ ~LargeEnough(frame[t].numThreads) => Grown /\ \E new, m : HasRehashed(t, new, m)
<1>1. TypeOK /\ TablesInv /\ LocksOf(t) /\ Null \notin Threads /\ TableType
  BY ParkingLotAssumption DEF TableInv, LocksInv, TypeOK
<1>2. pc[t] = "tableLocked" /\ pc'[t] = "loadTable"
  BY <1>1 DEF EnsureHashtableSize, Step, Goto, TypeOK, ThreadType
<1>3. CASE LargeEnough(frame[t].numThreads)
  <2>1. UNCHANGED <<tables, queues>> /\ locks' = Unlocked(t)
    BY <1>3 DEF EnsureHashtableSize
  <2>2. Grown
    BY <1>1, <2>1, SameTable, UnlockedFacts
  <2>3. ThreadStep(t)
    BY <2>2, TableSteps DEF Grown
  <2> QED
    BY <1>2, <1>3, <2>1, <2>2, <2>3, UnlockStep
<1>4. CASE ~LargeEnough(frame[t].numThreads)
  <2>1. hashtable # 0 /\ FullTable(tables[hashtable])
    BY <1>1, <1>2 DEF LocksOf
  <2>2. Grown /\ \E new, m : HasRehashed(t, new, m)
    BY <1>1, <1>4, <2>1, RehashGrows
  <2>3. PICK new, m : HasRehashed(t, new, m)
    BY <2>2
  <2>4. ThreadStep(t)
    BY <2>2, TableSteps DEF Grown
  <2>5. DOMAIN locks' = DOMAIN queues' /\ DOMAIN queues' = 1 .. Len(queues') /\ Len(queues') \in Nat
    BY <2>2, LenProperties DEF Grown, TableType
  <2>6. DOMAIN locks \subseteq DOMAIN locks'
    <3>1. Len(queues) <= Len(queues') /\ Len(queues) \in Nat /\ DOMAIN locks = 1 .. Len(queues)
      BY <1>1, <2>2, Places DEF Grown
    <3> QED
      BY <2>5, <3>1
  <2>7. \A b \in DOMAIN locks' : locks'[b] = IF b \in DOMAIN locks /\ locks[b] # t THEN locks[b] ELSE Null
    BY <2>3, <2>5 DEF HasRehashed
  <2>8. OthersLocks(t)
    BY <1>1, <2>6, <2>7 DEF OthersLocks
  <2>9. \A b \in DOMAIN locks' : locks'[b] # t
    BY <1>1, <2>7
  <2>10. LocksOf(t)'
    BY <1>2, <2>9, NoLocks
  <2>11. TableInv'
    BY <1>2, <2>2, <2>4, <2>8, <2>10, RehashAlone, TableInvKept
  <2> QED
    BY <1>4, <2>2, <2>11
<1> QED
  BY <1>3, <1>4

LEMMA LoadInv ==
    ASSUME TableInv, AddressSpace, NEW t \in Threads, LoadTable(t) \/ LoadBucket(t) \/ LockBucket(t)
    PROVE  TableInv'
<1>1. TypeOK /\ TablesInv /\ LocksOf(t) /\ ControlOf(t) /\ frame[t] \in Frames /\ Null \notin Threads /\ TableType
  BY ParkingLotAssumption DEF TableInv, LocksInv, ControlInv, TypeOK, ThreadType
<1>2. DOMAIN locks = DOMAIN queues /\ DOMAIN queues = 1 .. Len(queues) /\ Len(queues) \in Nat /\ Len(tables) \in Nat
  BY <1>1, Places
<1>3. CASE LoadTable(t)
  <2>1. /\ Grown /\ Len(tables') # 0 /\ UNCHANGED <<queues, locks>>
        /\ tables # <<>> => tables' = tables
    BY <1>1, <1>3, LoadTableGrows DEF LoadTable
  <2>2. ThreadStep(t)
    BY <1>3, <2>1, TableSteps DEF Grown
  <2>3. pc[t] = "loadTable" /\ pc'[t] = "loadBucket" /\ frame'[t].table = Len(tables')
    BY <1>1, <1>3 DEF LoadTable, Step, Goto, SetFrame, TypeOK, ThreadType, Frames
  <2>4. Len(tables') \in 1 .. Len(tables')
    BY <2>1, LenProperties DEF Grown, TableType
  <2>5. LocksOf(t)'
    BY <1>1, <2>1, <2>3, <2>4 DEF LocksOf, hashtable
  <2>6. \A u \in Threads \ {t} : pc[u] \in {"tableLocked", "bucketLocked"} => Len(tables') = Len(tables)
    <3> SUFFICES ASSUME NEW u \in Threads, pc[u] \in {"tableLocked", "bucketLocked"} PROVE Len(tables') = Len(tables)
      OBVIOUS
    <3>1. frame[u].table \in 1 .. Len(tables)
      BY DEF TableInv, LocksInv, LocksOf, hashtable
    <3>2. tables # <<>>
      BY <1>1, <3>1, Places DEF TypeOK
    <3> QED
      BY <2>1, <3>2
  <2> QED
    BY <2>1, <2>2, <2>5, <2>6, TableInvKept DEF OthersLocks
<1>4. CASE LoadBucket(t)
  <2>1. pc[t] = "loadBucket" /\ frame[t].table \in 1 .. Len(tables) /\ frame[t].address \in Addresses
    BY <1>1, <1>4 DEF LoadBucket, LocksOf, ControlOf, hashtable
  <2>2. PICK tb : tb = tables[frame[t].table]
    OBVIOUS
  <2>3. CASE UNCHANGED table
    <3>1. Grown /\ OthersLocks(t) /\ \A b \in DOMAIN locks' : locks'[b] # t
      BY <1>1, <2>1, <2>3, SameTable DEF table, TypeOK, TableType, OthersLocks, LocksOf
    <3>2. ThreadStep(t)
      BY <1>4, <3>1, TableSteps DEF Grown
    <3>3. CASE pc'[t] # "lockBucket"
      <4>1. pc'[t] \in {"clearAddress", "idle", "beforeSleep"}
        BY <1>1, <1>4, <3>3 DEF LoadBucket, Goto, Return, TypeOK, ThreadType
      <4> QED
        BY <2>1, <2>3, <3>2, <4>1, QuietStep
    <3>4. CASE pc'[t] = "lockBucket"
      <4>1. PICK b : b = tables[frame[t].table][Index(frame[t].address, tables[frame[t].table])]
        OBVIOUS
      <4>2. queues' # Append(queues, <<>>)
        <5>1. queues \in Seq(Seq(Threads)) /\ <<>> \in Seq(Threads)
          BY <1>1, EmptyQueue DEF TableType
        <5>2. Len(Append(queues, <<>>)) = Len(queues) + 1
          BY <5>1, AppendProperties
        <5>3. Len(queues) + 1 # Len(queues)
          <6>1. \A n \in Nat : n + 1 # n
            OBVIOUS
          <6> QED
            BY <1>2, <6>1
        <5> QED
          BY <2>3, <5>2, <5>3 DEF table
      <4>3. pc' = [pc EXCEPT ![t] = "lockBucket"] /\ b # 0 /\ frame' = [frame EXCEPT ![t] = [frame[t] EXCEPT !.bucket = b]]
        BY <1>1, <1>4, <3>4, <4>1, <4>2 DEF LoadBucket, Goto, SetFrame, Return, TypeOK, ThreadType
      <4>4. frame'[t].bucket = b /\ frame'[t].table = frame[t].table /\ frame'[t].address = frame[t].address
        BY <1>1, <4>3 DEF TypeOK, ThreadType, Frames
      <4>5. LocksOf(t)'
        BY <2>1, <2>3, <3>1, <3>4, <4>1, <4>3, <4>4 DEF LocksOf, hashtable, table
      <4> QED
        BY <2>3, <3>1, <3>2, <4>5, TableInvKept DEF table
    <3> QED
      BY <3>3, <3>4
  <2>4. CASE Grown /\ BucketsAdded /\ \E k, i : BucketMade(t, k, i)
    <3>1. PICK k, i : BucketMade(t, k, i)
      BY <2>4
    <3>2. ThreadStep(t)
      BY <1>4, <2>4, TableSteps DEF Grown
    <3>3. DOMAIN locks' = DOMAIN queues'
      BY <2>4, LenProperties DEF Grown, TableType
    <3>4. OthersLocks(t) /\ \A b \in DOMAIN locks' : locks'[b] # t
      BY <1>1, <1>2, <2>1, <2>4, <3>3 DEF BucketsAdded, OthersLocks, LocksOf
    <3>5. /\ frame'[t].bucket = Len(queues) + 1 /\ frame'[t].table = k /\ frame'[t].address = frame[t].address
          /\ pc'[t] = "lockBucket" /\ k \in 1 .. Len(tables') /\ Len(tables') = Len(tables)
      BY <1>1, <3>1 DEF BucketMade, TypeOK, ThreadType, Frames
    <3>6. tables'[k][Index(frame[t].address, tables'[k])] = Len(queues) + 1 /\ Len(queues) + 1 # 0
      <4>1. Index(frame[t].address, tables'[k]) = i
        BY <2>1, <2>4, <3>1, GrownTables DEF BucketMade
      <4> QED
        BY <1>2, <3>1, <4>1 DEF BucketMade
    <3>7. LocksOf(t)'
      BY <3>4, <3>5, <3>6 DEF LocksOf, hashtable
    <3> QED
      BY <2>4, <3>2, <3>4, <3>5, <3>7, TableInvKept
  <2> QED
    BY <1>4, <2>3, <2>4, LoadBucketGrows
<1>5. CASE LockBucket(t)
  <2>1. /\ pc[t] = "lockBucket" /\ locks[frame[t].bucket] = Null
        /\ UNCHANGED <<tables, queues, frame>>
        /\ frame[t].table # hashtable => pc'[t] = "loadTable" /\ UNCHANGED locks
        /\ frame[t].table = hashtable => pc'[t] = "bucketLocked" /\ locks' = [locks EXCEPT ![frame[t].bucket] = t]
    BY <1>1, <1>5 DEF LockBucket, Goto, TypeOK, ThreadType
  <2>2. CASE frame[t].table # hashtable
    <3>1. UNCHANGED table
      BY <2>1, <2>2 DEF table
    <3>2. Grown
      BY <1>1, <2>1, <2>2, SameTable DEF TypeOK, TableType
    <3>3. ThreadStep(t)
      BY <1>5, <3>2, TableSteps DEF Grown
    <3> QED
      BY <2>1, <2>2, <3>1, <3>3, QuietStep
  <2>3. CASE frame[t].table = hashtable
    <3>1. frame[t].bucket \in DOMAIN locks
      <4>1. frame[t].table \in 1 .. Len(tables) /\ frame[t].address \in Addresses /\ frame[t].bucket # 0
            /\ tables[frame[t].table][Index(frame[t].address, tables[frame[t].table])] = frame[t].bucket
        BY <1>1, <2>1 DEF LocksOf, ControlOf, hashtable
      <4> QED
        BY <1>2, <4>1, BucketThere
    <3>2. /\ locks' \in Seq(Threads \cup {Null}) /\ Len(locks') = Len(locks) /\ DOMAIN locks' = DOMAIN locks
          /\ \A c \in DOMAIN locks : locks'[c] = IF c = frame[t].bucket THEN t ELSE locks[c]
      <4>1. locks \in Seq(Threads \cup {Null}) /\ DOMAIN locks = 1 .. Len(locks)
        BY <1>1, LenProperties DEF TableType
      <4>2. PICK b : b = frame[t].bucket
        OBVIOUS
      <4>3. locks' = [locks EXCEPT ![b] = t] /\ b \in 1 .. Len(locks)
        BY <2>1, <2>3, <3>1, <4>1, <4>2
      <4>4. /\ [locks EXCEPT ![b] = t] \in Seq(Threads \cup {Null}) /\ Len([locks EXCEPT ![b] = t]) = Len(locks)
            /\ \A c \in 1 .. Len(locks) : [locks EXCEPT ![b] = t][c] = IF c = b THEN t ELSE locks[c]
        BY <4>1, <4>3, ExceptSeq
      <4>5. DOMAIN locks' = DOMAIN locks
        BY <4>3
      <4> QED
        BY <4>1, <4>2, <4>3, <4>4, <4>5
    <3>3. Grown
      BY <1>1, <2>1, <3>2, SameTable
    <3>4. ThreadStep(t)
      BY <1>5, <3>3, TableSteps DEF Grown
    <3>5. OthersLocks(t)
      BY <1>1, <2>1, <3>2 DEF OthersLocks
    <3>6. LocksOf(t)'
      BY <1>1, <2>1, <2>3, <3>1, <3>2 DEF LocksOf, hashtable
    <3> QED
      BY <2>1, <3>3, <3>4, <3>5, <3>6, TableInvKept
  <2> QED
    BY <2>2, <2>3
<1> QED
  BY <1>3, <1>4, <1>5

LEMMA OtherSteps ==
    ASSUME TableInv, AddressSpace, NEW t \in Threads,
           Call(t) \/ Construct(t) \/ CheckSize(t) \/ Wake(t) \/ Notify(t) \/ BeforeSleep(t) \/ CheckAddress(t)
               \/ ClearAddress(t) \/ WakeUp(t)
    PROVE  TableInv' /\ UNCHANGED table
<1>1. TypeOK /\ ThreadType /\ ControlInv /\ ControlOf(t) /\ TableType /\ pc \in [Threads -> Labels] /\ frame[t] \in Frames
  BY DEF TableInv, TypeOK, ThreadType, ControlInv
<1>2. UNCHANGED table
  BY DEF Call, ParkConditionally, Unpark, ForEach, Destruct, Construct, CheckSize, Wake, Notify, BeforeSleep, CheckAddress,
         ClearAddress, WakeUp
<1>3. TableType'
  BY <1>1, <1>2 DEF table, TableType
<1>4. ThreadStep(t)
  BY <1>1, <1>3, CallSteps, TableSteps, ParkSteps
<1>5. /\ pc[t] \notin {"lockNext", "tableLocked", "bucketLocked"}
      /\ pc'[t] \notin {"lockNext", "tableLocked", "loadBucket", "lockBucket", "bucketLocked"}
  <2>1. CASE Call(t)
    BY <1>1, <2>1 DEF Call, ParkConditionally, Unpark, ForEach, Destruct, Step, Goto
  <2>2. CASE Construct(t) \/ CheckSize(t) \/ Wake(t) \/ BeforeSleep(t) \/ CheckAddress(t) \/ ClearAddress(t) \/ WakeUp(t)
    BY <1>1, <2>2 DEF Construct, CheckSize, Wake, BeforeSleep, CheckAddress, ClearAddress, WakeUp, Step, Goto
  <2>3. CASE Notify(t)
    <3>1. PICK u : u = Head(frame[t].dequeued)
      OBVIOUS
    <3>2. \E back \in {"wake", "idle", "beforeSleep"} : pc' = [pc EXCEPT ![u] = IF @ = "asleep" THEN "checkAddress" ELSE @, ![t] = back]
      BY <2>3, <3>1 DEF Notify
    <3>3. pc'[t] \in {"wake", "idle", "beforeSleep"} /\ pc[t] = "notify"
      BY <1>1, <2>3, <3>2 DEF Notify
    <3> QED
      BY <3>3
  <2> QED
    BY <2>1, <2>2, <2>3
<1> QED
  BY <1>2, <1>4, <1>5, QuietStep

LEMMA BucketSteps ==
    ASSUME TableInv, NEW t \in Threads, Enqueue(t) \/ DequeueOne(t) \/ DequeueAll(t) \/ DequeueMe(t)
    PROVE  /\ TableInv' /\ UNCHANGED tables
           /\ \E ops, q : q \in Seq(Threads) /\ InBucket(t, ops, q)
<1>1. TypeOK /\ ThreadType /\ TableType /\ pc \in [Threads -> Labels] /\ pc[t] = "bucketLocked"
  BY DEF TableInv, TypeOK, ThreadType, Enqueue, DequeueOne, DequeueAll, DequeueMe, InBucket
<1>2. MyQueue(t) \in Seq(Threads)
  BY <1>1, BucketLockedFacts
<1>3. \A e : RemoveFirst(MyQueue(t), e) \in Seq(Threads)
  BY <1>2, RemoveFirstFacts, RemoveAtFacts
<1>4. \A S : Selected(MyQueue(t), S) \in Seq(Threads)
  BY <1>2, SelectedFacts
<1>5. Append(MyQueue(t), t) \in Seq(Threads)
  BY <1>2, AppendFacts
<1>6. \E ops, q : q \in Seq(Threads) /\ InBucket(t, ops, q)
  <2>1. CASE Enqueue(t)
    BY <1>2, <1>5, <2>1 DEF Enqueue
  <2>2. CASE DequeueOne(t)
    BY <1>2, <1>3, <2>2 DEF DequeueOne
  <2>3. CASE DequeueAll(t)
    BY <1>4, <2>3 DEF DequeueAll
  <2>4. CASE DequeueMe(t)
    BY <1>3, <2>4 DEF DequeueMe
  <2> QED
    BY <2>1, <2>2, <2>3, <2>4
<1>7. PICK ops, q : q \in Seq(Threads) /\ InBucket(t, ops, q)
  BY <1>6
<1>8. Grown /\ UNCHANGED tables /\ locks' = Unlocked(t)
  BY <1>7, InBucketGrows
<1>9. ThreadStep(t)
  BY ParkSteps
<1>10. pc'[t] \in {"idle", "beforeSleep", "wake", "clearAddress"}
  BY <1>1 DEF Enqueue, DequeueOne, DequeueAll, DequeueMe, Return, Goto
<1> QED
  BY <1>6, <1>8, <1>9, <1>10, UnlockStep

LEMMA ForEachInv ==
    ASSUME TableInv, AddressSpace, NEW t \in Threads, ForEachWalk(t)
    PROVE  TableInv' /\ UNCHANGED <<tables, queues>>
<1>1. TypeOK /\ TablesInv /\ pc \in [Threads -> Labels]
  BY DEF TableInv, TypeOK, ThreadType
<1>2. UNCHANGED <<tables, queues>> /\ locks' = Unlocked(t) /\ pc'[t] \in {"idle", "beforeSleep"}
  BY <1>1 DEF ForEachWalk, Return, Goto
<1>3. Grown
  BY <1>1, <1>2, SameTable, UnlockedFacts
<1>4. ThreadStep(t)
  BY <1>3, TableSteps DEF Grown
<1> QED
  BY <1>2, <1>3, <1>4, UnlockStep

LEMMA TableInit == Init => TableInv
<1> SUFFICES ASSUME Init PROVE TableInv
  OBVIOUS
<1>1. \A S : <<>> \in Seq(S)
  BY EmptyQueue
<1>2. Len(tables) = 0 /\ Len(queues) = 0 /\ Len(locks) = 0 /\ DOMAIN locks = {}
  <2>1. Len(<<>>) = 0 /\ DOMAIN <<>> = {}
    OBVIOUS
  <2> QED
    BY <2>1 DEF Init
<1>3. TypeOK
  <2>1. TableType
    BY <1>1, <1>2 DEF Init, TableType
  <2>2. NoFrame \in Frames /\ NoPark \in ParkArgs /\ "idle" \in Labels
    BY NoFrameType DEF Labels
  <2>3. ThreadType
    BY <2>2 DEF Init, ThreadType
  <2> QED
    BY <2>1, <2>3 DEF TypeOK
<1>4. ControlInv
  BY DEF Init, ControlInv, ControlOf, NoFrame
<1>5. TablesInv /\ LocksInv
  BY <1>2 DEF Init, TablesInv, LocksInv, LocksOf, hashtable
<1> QED
  BY <1>3, <1>4, <1>5 DEF TableInv

LEMMA TableNext == AddressSpace /\ TableInv /\ [Next]_vars => TableInv'
<1> SUFFICES ASSUME AddressSpace, TableInv, [Next]_vars PROVE TableInv'
  OBVIOUS
<1>1. CASE UNCHANGED vars
  BY <1>1 DEF vars, table, TableInv, TypeOK, TableType, ThreadType, ControlInv, ControlOf, TablesInv, LocksInv, LocksOf, FullTable,
              hashtable, BucketsOf, Index, Size
<1>2. ASSUME NEW t \in Threads, Call(t) \/ Run(t) \/ WakeUp(t) PROVE TableInv'
  BY <1>2, OtherSteps, LockTableInv, LockNextInv, EnsureSizeInv, ForEachInv, LoadInv, BucketSteps DEF Run
<1> QED
  BY <1>1, <1>2 DEF Next

(* Tables, locks and the locals of the threads are always as TableInv      *)
(* says: buckets are where the tables say, a table that is no longer the   *)
(* current one has no empty slot, and the locks of a table are taken in    *)
(* the order of their addresses.                                           *)
THEOREM TablesSound == AddressSpace => (Spec => []TableInv)
<1> SUFFICES ASSUME AddressSpace PROVE Spec => []TableInv
  OBVIOUS
<1>1. AddressSpace
  OBVIOUS
<1>2. TableInv /\ [Next]_vars => TableInv'
  BY <1>1, TableNext
<1> QED
  BY <1>2, TableInit, PTL DEF Spec

LEMMA DeadlockFree == AddressSpace /\ TableInv => NoDeadlock
<1> SUFFICES ASSUME AddressSpace, TableInv, NEW S \in (SUBSET Threads) \ {{}}, \A t \in S : WaitsFor(t) \cap S # {}
             PROVE  FALSE
  BY DEF NoDeadlock
<1>1. Null \notin S /\ Len(queues) \in Nat /\ DOMAIN locks = 1 .. Len(queues)
  BY ParkingLotAssumption, Places DEF TableInv, TypeOK
<1> DEFINE Addr(b) == bucketAddress[b]
           B == {b \in DOMAIN locks : locks[b] \in S}
<1>2. ASSUME NEW t \in S PROVE \E b \in B : \A c \in DOMAIN locks : locks[c] = t => Addr(c) < Addr(b)
  <2>1. LocksOf(t) /\ ControlOf(t)
    BY DEF TableInv, LocksInv, ControlInv
  <2>2. CASE pc[t] = "lockNext"
    <3>1. locks[Head(frame[t].toLock)] \in S
      BY <2>2 DEF WaitsFor
    <3>2. frame[t].toLock \in Seq(Nat) /\ frame[t].toLock # <<>>
      BY <2>1, <2>2 DEF LocksOf, TableInv, TypeOK, ThreadType, Frames
    <3>3. Head(frame[t].toLock) \in Range(frame[t].toLock)
      BY <3>2, TailFacts
    <3> QED
      BY <2>1, <2>2, <3>1, <3>3 DEF LocksOf
  <2>3. CASE pc[t] = "lockBucket"
    <3>1. locks[frame[t].bucket] \in S
      BY <2>3 DEF WaitsFor
    <3>2. frame[t].bucket \in DOMAIN queues
      <4>1. /\ frame[t].table \in 1 .. Len(tables) /\ frame[t].bucket # 0 /\ frame[t].address \in Addresses
            /\ tables[frame[t].table][Index(frame[t].address, tables[frame[t].table])] = frame[t].bucket
        BY <2>1, <2>3 DEF LocksOf, ControlOf, hashtable
      <4> QED
        BY <4>1, BucketThere
    <3>3. frame[t].bucket \in DOMAIN locks
      BY <3>2, Places DEF TableInv, TypeOK
    <3> QED
      BY <2>1, <2>3, <3>1, <3>3 DEF LocksOf
  <2> QED
    BY <2>2, <2>3 DEF WaitsFor
<1>3. B # {} /\ B \subseteq Nat \ {0}
  <2>1. PICK t : t \in S
    OBVIOUS
  <2>2. \E b : b \in B
    BY <1>2, <2>1
  <2>3. \A b \in DOMAIN locks : b \in Nat \ {0}
    BY <1>1
  <2> QED
    BY <2>2, <2>3
<1>4. \A b \in B : \E c \in B : Addr(b) < Addr(c)
  BY <1>2
<1>5. \A b \in B : Addr(b) \in Nat
  BY <1>3 DEF AddressSpace
<1>6. IsFiniteSet(B)
  <2>1. IsFiniteSet(DOMAIN locks)
    BY <1>1, FS_Interval
  <2>2. B \in SUBSET DOMAIN locks
    OBVIOUS
  <2> HIDE DEF B
  <2> QED
    BY <2>1, <2>2, FS_Subset
<1>7. PICK key : key = [b \in B |-> Addr(b)]
  OBVIOUS
<1>8. Keys(B, key)
  BY <1>3, <1>5, <1>7 DEF AddressSpace, Keys
<1>9. \A b \in B : \E c \in B : key[b] < key[c]
  BY <1>4, <1>7
<1> HIDE DEF B
<1>10. PICK r : r = Sorted(B, key)
  OBVIOUS
<1>11. /\ Cardinality(B) \in Nat /\ DOMAIN r = 1 .. Cardinality(B)
       /\ \A x \in B : \E n \in DOMAIN r : r[n] = x
       /\ \A n \in DOMAIN r : r[n] \in B
       /\ \A m, n \in DOMAIN r : m < n => key[r[m]] < key[r[n]]
  BY <1>6, <1>8, <1>10, SortedFacts
<1>12. Cardinality(B) # 0
  <2>1. \E n : n \in 1 .. Cardinality(B)
    BY <1>3, <1>11
  <2>2. 1 .. 0 = {}
    OBVIOUS
  <2> QED
    BY <2>1, <2>2
<1>13. Cardinality(B) \in DOMAIN r
  BY <1>11, <1>12
<1>14. PICK c \in B : key[r[Cardinality(B)]] < key[c]
  BY <1>9, <1>11, <1>13
<1>15. PICK n \in DOMAIN r : r[n] = c
  BY <1>11
<1>16. key[c] \in Nat /\ key[r[Cardinality(B)]] \in Nat
  BY <1>8, <1>11, <1>13 DEF Keys
<1>17. n = Cardinality(B) \/ n < Cardinality(B)
  BY <1>11, <1>15
<1>18. CASE n = Cardinality(B)
  BY <1>14, <1>15, <1>16, <1>18
<1>19. CASE n < Cardinality(B)
  <2>1. key[c] < key[r[Cardinality(B)]]
    BY <1>11, <1>13, <1>15, <1>19
  <2> QED
    BY <1>14, <1>16, <2>1
<1> QED
  BY <1>17, <1>18, <1>19

(* No set of threads ever waits in a circle for bucket locks, however many *)
(* threads there are and wherever the buckets are allocated.               *)
THEOREM NoCircularWait == AddressSpace => (Spec => []NoDeadlock)
<1> SUFFICES ASSUME AddressSpace PROVE Spec => []NoDeadlock
  OBVIOUS
<1>1. TableInv => NoDeadlock
  BY DeadlockFree
<1>2. Spec => []TableInv
  BY TablesSound
<1> QED
  BY <1>1, <1>2, PTL

RehashAction == hashtable # 0 /\ hashtable' # hashtable =>
    /\ Size(tables[hashtable]) < Size(Last(tables'))
    /\ BucketsOf(tables[hashtable]) \subseteq BucketsOf(Last(tables'))

LEMMA RehashStep == AddressSpace /\ TableInv /\ [Next]_vars => [RehashAction]_vars
<1> SUFFICES ASSUME AddressSpace, TableInv, NEW t \in Threads, Call(t) \/ Run(t) \/ WakeUp(t), hashtable # 0, hashtable' # hashtable
             PROVE  /\ Size(tables[hashtable]) < Size(Last(tables'))
                    /\ BucketsOf(tables[hashtable]) \subseteq BucketsOf(Last(tables'))
  BY DEF Next, RehashAction
<1>1. Len(tables') # Len(tables) /\ tables # <<>> /\ TypeOK /\ TablesInv
  BY Places DEF TableInv, TypeOK, hashtable
<1>2. EnsureHashtableSize(t)
  <2>1. ~(Call(t) \/ Construct(t) \/ CheckSize(t) \/ Wake(t) \/ Notify(t) \/ BeforeSleep(t) \/ CheckAddress(t)
               \/ ClearAddress(t) \/ WakeUp(t))
    BY <1>1, OtherSteps DEF table
  <2>2. ~(Enqueue(t) \/ DequeueOne(t) \/ DequeueAll(t) \/ DequeueMe(t)) /\ ~ForEachWalk(t) /\ ~LockNext(t) /\ ~LockBucket(t)
    BY <1>1, BucketSteps DEF ForEachWalk, LockNext, LockBucket
  <2>3. ~LockTable(t)
    BY <1>1, LockTableGrows DEF Filled
  <2>4. ~LoadTable(t)
    BY <1>1, LoadTableGrows
  <2>5. ~LoadBucket(t)
    BY <1>1, LoadBucketGrows DEF BucketMade, table
  <2> QED
    BY <2>1, <2>2, <2>3, <2>4, <2>5 DEF Run
<1>3. PICK new, m : HasRehashed(t, new, m)
  BY <1>1, <1>2, EnsureSizeInv
<1>4. Last(tables') = new.table
  BY <1>3 DEF HasRehashed, Last
<1> QED
  BY <1>3, <1>4 DEF HasRehashed

(* The ASSERTs at the end of ensureHashtableSize(): a rehash makes the     *)
(* table larger and loses no bucket.                                       *)
THEOREM RehashKeeps == AddressSpace => (Spec => RehashKeepsBuckets)
<1> SUFFICES ASSUME AddressSpace PROVE Spec => RehashKeepsBuckets
  OBVIOUS
<1>1. TableInv /\ [Next]_vars => [RehashAction]_vars
  BY RehashStep
<1>2. Spec => []TableInv
  BY TablesSound
<1>3. Spec => [][RehashAction]_vars
  BY <1>1, <1>2, PTL DEF Spec
<1> QED
  BY <1>3 DEF RehashKeepsBuckets, RehashAction

-----------------------------------------------------------------------------
(***************************************************************************)
(* The threads on the queues, and in the hands of unparkers.               *)
(***************************************************************************)

(* The thread is inside parkConditionally() and has been on a queue.       *)
Waiting(t) == park[t] # NoPark /\ frame[t].op # "enqueue"

Queued(t) == \E b \in DOMAIN queues : t \in Range(queues[b])

(* The threads whose addresses u has yet to clear.                         *)
Held(u) ==
    IF pc[u] = "wake" THEN frame[u].dequeued
    ELSE IF pc[u] = "notify" THEN Tail(frame[u].dequeued) ELSE <<>>

HasUnparker(t) == \E u \in Threads : t \in Range(Held(u))

(* The bucket the address leads to in the current table.                   *)
Leads(a, b) == hashtable # 0 /\ tables[hashtable][Index(a, tables[hashtable])] = b

(* A thread is on one queue at most, once, where its address leads to.     *)
QueuedOk(t) == Waiting(t) /\ pc[t] # "clearAddress" /\ address[t] # Null
QueuedInv ==
    /\ \A b \in DOMAIN queues : IsInjective(queues[b])
    /\ \A b, c \in DOMAIN queues : b # c => Range(queues[b]) \cap Range(queues[c]) = {}
    /\ \A b \in DOMAIN queues : \A t \in Range(queues[b]) : QueuedOk(t) /\ Leads(address[t], b)

(* A thread is in the hands of one unparker at most, once, and then on no  *)
(* queue. Only a timeout lets it go before its address is cleared.         *)
HeldOk(t) ==
    \/ Waiting(t) /\ address[t] # Null
    \/ "sometime" \in Timeouts /\ parks[t] >= maxParks /\ frame[t].op # "enqueue"
HeldInv ==
    /\ \A u \in Threads : IsInjective(Held(u))
    /\ \A u, v \in Threads : u # v => Range(Held(u)) \cap Range(Held(v)) = {}
    /\ \A u \in Threads : \A t \in Range(Held(u)) : ~Queued(t) /\ HeldOk(t)

(* The address of a thread says whether it has yet to be woken.            *)
AddressOf(t) ==
    /\ address[t] \in {Null, park[t].address} /\ (~Waiting(t) => address[t] = Null)
    /\ address[t] # Null /\ pc[t] # "clearAddress" => Queued(t) \/ HasUnparker(t)
    /\ pc[t] = "asleep" /\ address[t] = Null => \E u \in Threads : pc[u] = "notify" /\ Head(frame[u].dequeued) = t
AddressInv == \A t \in Threads : AddressOf(t)

ParkInv == QueuedInv /\ HeldInv /\ AddressInv

(* Without this a thread can time out while an unparker has it, park again *)
(* and be woken for the sake of the earlier call.                          *)
ParksOnce == "sometime" \notin Timeouts \/ maxParks <= 1

(* Queues are added, and those there are stay as they are.                 *)
QueuesAdded ==
    /\ \A b \in DOMAIN queues : b \in DOMAIN queues' /\ queues'[b] = queues[b]
    /\ \A b \in DOMAIN queues' : b \notin DOMAIN queues => queues'[b] = <<>>

LEMMA QueuesKept ==
    ASSUME TableInv, QueuedInv, Grown, QueuesAdded, hashtable # 0 => hashtable' = hashtable,
           \A u \in Threads : Queued(u) => QueuedOk(u)' /\ address'[u] = address[u]
    PROVE  QueuedInv' /\ \A u \in Threads : Queued(u)' <=> Queued(u)
<1>1. \A b \in DOMAIN queues' : \A u \in Range(queues'[b]) : b \in DOMAIN queues /\ u \in Range(queues[b])
  BY EmptyQueue DEF QueuesAdded
<1>2. \A u \in Threads : Queued(u)' <=> Queued(u)
  BY <1>1 DEF Queued, QueuesAdded
<1>3. \A b \in DOMAIN queues : \A u \in Range(queues[b]) : u \in Threads
  BY Places, ElementOfSeq, LenProperties DEF TableInv, TypeOK, Range
<1>4. \A b \in DOMAIN queues' : IsInjective(queues'[b])
  <2>1. IsInjective(<<>>)
    BY DEF IsInjective
  <2> QED
    BY <2>1 DEF QueuedInv, QueuesAdded
<1>5. \A b, c \in DOMAIN queues' : b # c => Range(queues'[b]) \cap Range(queues'[c]) = {}
  <2> SUFFICES ASSUME NEW b \in DOMAIN queues', NEW c \in DOMAIN queues', b # c, NEW u, u \in Range(queues'[b]), u \in Range(queues'[c])
               PROVE  FALSE
    OBVIOUS
  <2>1. b \in DOMAIN queues /\ c \in DOMAIN queues /\ u \in Range(queues[b]) /\ u \in Range(queues[c])
    BY <1>1
  <2> QED
    BY <2>1 DEF QueuedInv
<1>6. ASSUME NEW b \in DOMAIN queues', NEW u \in Range(queues'[b]) PROVE QueuedOk(u)' /\ Leads(address[u], b)'
  <2>1. b \in DOMAIN queues /\ u \in Range(queues[b]) /\ u \in Threads /\ Queued(u)
    BY <1>1, <1>3 DEF Queued
  <2>2. QueuedOk(u)' /\ address'[u] = address[u]
    BY <2>1
  <2>3. QueuedOk(u) /\ hashtable # 0 /\ tables[hashtable][Index(address[u], tables[hashtable])] = b
    BY <2>1 DEF QueuedInv, Leads
  <2>4. address[u] \in Addresses
    BY <2>1, <2>3 DEF QueuedOk, TableInv, TypeOK, ThreadType
  <2>5. hashtable \in 1 .. Len(tables) /\ b # 0 /\ Len(tables') = Len(tables) /\ hashtable = Len(tables)
    BY <2>1, <2>3, Places DEF TableInv, TypeOK, hashtable
  <2>6. /\ Index(address[u], tables'[hashtable]) = Index(address[u], tables[hashtable])
        /\ tables'[hashtable][Index(address[u], tables[hashtable])] = b
    BY <2>3, <2>4, <2>5, GrownTables
  <2>7. PICK k : k = hashtable
    OBVIOUS
  <2>8. hashtable' = k /\ k # 0 /\ tables'[k][Index(address[u], tables'[k])] = b
    BY <2>3, <2>5, <2>6, <2>7 DEF hashtable
  <2> QED
    BY <2>2, <2>8 DEF Leads
<1>7. QueuedInv'
  BY <1>4, <1>5, <1>6 DEF QueuedInv
<1> QED
  BY <1>2, <1>7

(* What changes in a bucket that t has locked.                             *)
LEMMA QueueChanged ==
    ASSUME TableInv, QueuedInv, NEW t \in Threads, NEW ops, NEW q \in Seq(Threads), InBucket(t, ops, q), IsInjective(q),
           \A u \in Range(q) : u \in Range(MyQueue(t)) \/ ~Queued(u),
           \A u \in Threads : u \in Range(q) \/ (Queued(u) /\ u \notin Range(MyQueue(t))) => QueuedOk(u)',
           \A u \in Threads : Queued(u) => address'[u] = address[u],
           \A u \in Range(q) : Leads(address'[u], frame[t].bucket)
    PROVE  QueuedInv' /\ \A u \in Threads : Queued(u)' <=> u \in Range(q) \/ (Queued(u) /\ u \notin Range(MyQueue(t)))
<1>1. PICK m : m = frame[t].bucket
  OBVIOUS
<1>2. /\ UNCHANGED tables /\ DOMAIN queues' = DOMAIN queues
      /\ \A b \in DOMAIN queues : queues'[b] = IF b = m THEN q ELSE queues[b]
  BY <1>1, InBucketGrows
<1>3. m \in DOMAIN queues /\ MyQueue(t) = queues[m]
  BY <1>1, BucketLockedFacts DEF InBucket, MyQueue
<1>4. \A b \in DOMAIN queues : \A u \in Range(queues[b]) : u \in Threads
  BY Places, ElementOfSeq, LenProperties DEF TableInv, TypeOK, Range
<1>5. \A u \in Range(q) : u \in Threads
  BY ElementOfSeq, LenProperties DEF Range
<1>6. \A b, c \in DOMAIN queues : b # c => Range(queues[b]) \cap Range(queues[c]) = {}
  BY DEF QueuedInv
<1>7. \A u \in Threads : Queued(u)' <=> u \in Range(q) \/ (Queued(u) /\ u \notin Range(MyQueue(t)))
  <2> SUFFICES ASSUME NEW u \in Threads
               PROVE  (\E b \in DOMAIN queues : u \in Range(queues'[b])) <=> u \in Range(q) \/ (Queued(u) /\ u \notin Range(queues[m]))
    BY <1>2, <1>3 DEF Queued
  <2> QED
    BY <1>2, <1>3, <1>6 DEF Queued
<1>8. \A b \in DOMAIN queues' : IsInjective(queues'[b])
  BY <1>2 DEF QueuedInv
<1>9. \A b, c \in DOMAIN queues' : b # c => Range(queues'[b]) \cap Range(queues'[c]) = {}
  <2> SUFFICES ASSUME NEW b \in DOMAIN queues, NEW c \in DOMAIN queues, b # c, NEW u, u \in Range(queues'[b]), u \in Range(queues'[c])
               PROVE  FALSE
    BY <1>2
  <2>1. CASE b # m /\ c # m
    BY <1>2, <1>6, <2>1
  <2>2. CASE b = m
    BY <1>2, <1>3, <1>6, <2>2 DEF Queued
  <2>3. CASE c = m
    BY <1>2, <1>3, <1>6, <2>3 DEF Queued
  <2> QED
    BY <2>1, <2>2, <2>3
<1>10. ASSUME NEW b \in DOMAIN queues', NEW u \in Range(queues'[b]) PROVE QueuedOk(u)' /\ Leads(address[u], b)'
  <2>1. u \in Threads
    BY <1>2, <1>4, <1>5
  <2>2. QueuedOk(u)'
    BY <1>2, <1>7, <2>1 DEF Queued
  <2>3. Leads(address'[u], b)
    <3>1. CASE b = m
      BY <1>1, <1>2, <3>1
    <3>2. CASE b # m
      <4>1. b \in DOMAIN queues /\ u \in Range(queues[b])
        BY <1>2, <3>2
      <4>2. Leads(address[u], b) /\ address'[u] = address[u]
        BY <2>1, <4>1 DEF QueuedInv, Queued
      <4> QED
        BY <4>2
    <3> QED
      BY <3>1, <3>2
  <2> QED
    BY <1>2, <2>2, <2>3 DEF Leads, hashtable
<1>11. QueuedInv'
  BY <1>8, <1>9, <1>10 DEF QueuedInv
<1> QED
  BY <1>7, <1>11

(* What the rest of the invariant needs of a thread that t's step does not *)
(* concern.                                                                *)
Untouched(u) ==
    /\ park'[u] = park[u] /\ parks'[u] = parks[u] /\ frame'[u] = frame[u] /\ pc'[u] = pc[u] /\ address'[u] = address[u]

LEMMA UntouchedFacts ==
    ASSUME NEW u, Untouched(u)
    PROVE  /\ Held(u)' = Held(u) /\ (Waiting(u)' <=> Waiting(u)) /\ (QueuedOk(u)' <=> QueuedOk(u)) /\ (HeldOk(u)' <=> HeldOk(u))
  BY DEF Untouched, Held, Waiting, QueuedOk, HeldOk

LEMMA HeldType ==
    ASSUME TableInv, NEW u \in Threads
    PROVE  /\ Held(u) \in Seq(Threads) /\ frame[u].dequeued \in Seq(Threads)
           /\ \A v \in Range(Held(u)) : v \in Threads
<1>1. frame[u].dequeued \in Seq(Threads) /\ (frame[u].dequeued # <<>> <=> pc[u] \in {"wake", "notify"})
  BY DEF TableInv, TypeOK, ThreadType, Frames, ControlInv, ControlOf
<1>2. Held(u) \in Seq(Threads)
  BY <1>1, TailFacts, EmptyQueue DEF Held
<1> QED
  BY <1>1, <1>2, ElementOfSeq, LenProperties DEF Range

(* Steps of t that change nobody's hands.                                  *)
LEMMA HandsKept ==
    ASSUME NEW t \in Threads, \A u \in Threads \ {t} : Untouched(u), Held(t)' = Held(t)
    PROVE  (\A u \in Threads : Held(u)' = Held(u)) /\ \A u : HasUnparker(u)' <=> HasUnparker(u)
<1>1. \A u \in Threads : Held(u)' = Held(u)
  BY UntouchedFacts
<1> QED
  BY <1>1 DEF HasUnparker

LEMMA HandsSame ==
    ASSUME TableInv, ParkInv, NEW t \in Threads, QueuedInv',
           \A u \in Threads \ {t} : Untouched(u), \A u \in Threads \ {t} : Queued(u)' <=> Queued(u),
           Held(t)' = Held(t), pc[t] # "notify",
           HasUnparker(t) => HeldOk(t)' /\ ~Queued(t)', AddressOf(t)'
    PROVE  ParkInv'
<1>1. (\A u \in Threads : Held(u)' = Held(u)) /\ \A u : HasUnparker(u)' <=> HasUnparker(u)
  BY HandsKept
<1>2. HeldInv'
  <2>1. \A u \in Threads : \A v \in Range(Held(u)) : v \in Threads
    BY HeldType
  <2>2. \A u \in Threads : IsInjective(Held(u))'
    BY <1>1 DEF ParkInv, HeldInv
  <2>3. \A u, v \in Threads : u # v => (Range(Held(u)) \cap Range(Held(v)) = {})'
    BY <1>1 DEF ParkInv, HeldInv
  <2>4. ASSUME NEW u \in Threads, NEW v \in Range(Held(u)) PROVE ~Queued(v)' /\ HeldOk(v)'
    <3>1. v \in Threads /\ ~Queued(v) /\ HeldOk(v) /\ HasUnparker(v)
      BY <2>1, <2>4 DEF ParkInv, HeldInv, HasUnparker
    <3> QED
      BY <3>1, UntouchedFacts
  <2> QED
    BY <1>1, <2>2, <2>3, <2>4 DEF HeldInv
<1>3. \A u \in Threads : (\E v \in Threads : pc[v] = "notify" /\ Head(frame[v].dequeued) = u)
                             => \E v \in Threads : pc'[v] = "notify" /\ Head(frame'[v].dequeued) = u
  BY DEF Untouched
<1>4. AddressInv'
  <2> SUFFICES ASSUME NEW u \in Threads, u # t PROVE AddressOf(u)'
    BY DEF AddressInv
  <2>1. AddressOf(u) /\ Untouched(u) /\ (Queued(u)' <=> Queued(u)) /\ (HasUnparker(u)' <=> HasUnparker(u))
    BY <1>1 DEF ParkInv, AddressInv
  <2> QED
    BY <1>3, <2>1 DEF AddressOf, Untouched, Waiting
<1> QED
  BY <1>2, <1>4 DEF ParkInv

(* Steps that also leave the queues alone.                                 *)
Quiet(t) ==
    /\ \A u \in Threads \ {t} : Untouched(u)
    /\ address'[t] = address[t]
    /\ pc[t] \notin {"wake", "notify", "clearAddress"} /\ pc'[t] \notin {"wake", "notify"}
    /\ (Waiting(t)' <=> Waiting(t)) /\ (Waiting(t) => park'[t] = park[t]) /\ (HeldOk(t) => HeldOk(t)')
    /\ pc'[t] = "asleep" => address[t] # Null
    /\ pc'[t] = "clearAddress" => ~Queued(t) /\ frame' = frame

LEMMA QuietPark ==
    ASSUME TableInv, ParkInv, NEW t \in Threads, Quiet(t), QueuedInv', \A u \in Threads : Queued(u)' <=> Queued(u)
    PROVE  ParkInv'
<1>1. \A u \in Threads \ {t} : Untouched(u)
  BY DEF Quiet
<1>2. Held(t)' = Held(t) /\ pc[t] # "notify"
  BY DEF Held, Quiet
<1>3. \A u : HasUnparker(u)' <=> HasUnparker(u)
  BY <1>1, <1>2, HandsKept
<1>4. HasUnparker(t) => HeldOk(t)' /\ ~Queued(t)'
  BY DEF Quiet, HasUnparker, ParkInv, HeldInv
<1>5. AddressOf(t)
  BY DEF ParkInv, AddressInv
<1>6. address'[t] \in {Null, park'[t].address} /\ (~Waiting(t)' => address'[t] = Null)
  BY <1>5 DEF AddressOf, Quiet
<1>7. address'[t] # Null /\ pc'[t] # "clearAddress" => Queued(t)' \/ HasUnparker(t)'
  BY <1>3, <1>5 DEF AddressOf, Quiet
<1>8. AddressOf(t)'
  BY <1>6, <1>7 DEF AddressOf, Quiet
<1> QED
  BY <1>1, <1>2, <1>4, <1>8, HandsSame

LEMMA QuietQueues ==
    ASSUME TableInv, ParkInv, NEW t \in Threads, Quiet(t), Grown, QueuesAdded, hashtable # 0 => hashtable' = hashtable
    PROVE  ParkInv'
<1>1. QueuedInv /\ \A u \in Threads : Queued(u) => QueuedOk(u)
  BY DEF ParkInv, QueuedInv, Queued
<1>2. \A u \in Threads : Queued(u) => QueuedOk(u)' /\ address'[u] = address[u]
  <2>1. Queued(t) => QueuedOk(t)' /\ address'[t] = address[t]
    BY <1>1 DEF Quiet, QueuedOk
  <2>2. \A u \in Threads \ {t} : Queued(u) => QueuedOk(u)' /\ address'[u] = address[u]
    BY <1>1, UntouchedFacts DEF Quiet, Untouched
  <2> QED
    BY <2>1, <2>2
<1>3. QueuedInv' /\ \A u \in Threads : Queued(u)' <=> Queued(u)
  BY <1>1, <1>2, QueuesKept
<1> QED
  BY <1>3, QuietPark

LEMMA SameQueues ==
    ASSUME TableInv, TableInv', UNCHANGED <<tables, queues>>
    PROVE  Grown /\ QueuesAdded /\ hashtable' = hashtable
<1>1. Len(tables) \in Nat /\ Len(queues) \in Nat
  BY Places DEF TableInv, TypeOK
<1> QED
  BY <1>1 DEF Grown, QueuesAdded, hashtable, TableInv, TypeOK

(* A rehash takes every thread on a queue along, to the bucket its address *)
(* leads to in the new table.                                              *)
LEMMA OldThreadsQueued ==
    ASSUME TableInv, QueuedInv, AddressSpace, hashtable # 0
    PROVE  /\ OldThreads \in Seq(Threads) /\ IsInjective(OldThreads)
           /\ \A u : u \in Range(OldThreads) <=> Queued(u)
           /\ \A b \in DOMAIN queues : \A u, v \in Range(queues[b]) : Before(OldThreads, u, v) => Before(queues[b], u, v)
<1>1. TypeOK /\ TablesInv
  BY DEF TableInv
<1>2. /\ OldBuckets \in Seq(Nat) /\ IsInjective(OldBuckets) /\ Range(OldBuckets) = BucketsOf(tables[hashtable])
      /\ \A k \in DOMAIN OldBuckets : OldBuckets[k] \in 1 .. Len(queues)
      /\ OldQueues \in Seq(Seq(Threads)) /\ Len(OldQueues) = Len(OldBuckets)
      /\ Flat(OldThreads, OldQueues, Len(OldBuckets), Threads)
  BY <1>1, OldThreadsFacts
<1>3. DOMAIN OldBuckets = 1 .. Len(OldBuckets) /\ DOMAIN OldQueues = DOMAIN OldBuckets /\ DOMAIN queues = 1 .. Len(queues)
  BY <1>1, <1>2, LenProperties, Places DEF TypeOK
<1>4. \A k \in DOMAIN OldBuckets : OldQueues[k] = queues[OldBuckets[k]]
  BY DEF OldQueues
<1>5. Apart(OldQueues)
  <2>1. \A k \in DOMAIN OldQueues : IsInjective(OldQueues[k])
    BY <1>2, <1>3, <1>4 DEF QueuedInv
  <2>2. \A k, l \in DOMAIN OldQueues : k # l => Range(OldQueues[k]) \cap Range(OldQueues[l]) = {}
    <3> SUFFICES ASSUME NEW k \in DOMAIN OldBuckets, NEW l \in DOMAIN OldBuckets, k # l
                 PROVE  Range(queues[OldBuckets[k]]) \cap Range(queues[OldBuckets[l]]) = {}
      BY <1>3, <1>4
    <3>1. OldBuckets[k] # OldBuckets[l] /\ OldBuckets[k] \in DOMAIN queues /\ OldBuckets[l] \in DOMAIN queues
      BY <1>2, <1>3 DEF IsInjective
    <3> QED
      BY <3>1 DEF QueuedInv
  <2> QED
    BY <2>1, <2>2 DEF Apart
<1>6. ASSUME NEW b \in DOMAIN queues, NEW u \in Range(queues[b]) PROVE \E k \in 1 .. Len(OldBuckets) : OldBuckets[k] = b
  <2>1. QueuedOk(u) /\ tables[hashtable][Index(address[u], tables[hashtable])] = b /\ u \in Threads
    BY <1>1, Places, ElementOfSeq, LenProperties DEF QueuedInv, Leads, Range, TypeOK
  <2>2. address[u] \in Addresses /\ hashtable \in 1 .. Len(tables) /\ b # 0
    BY <1>1, <1>3, <2>1, Places DEF QueuedOk, TypeOK, ThreadType, hashtable
  <2>3. b \in BucketsOf(tables[hashtable])
    BY <2>1, <2>2, BucketThere
  <2> QED
    BY <1>2, <1>3, <2>3 DEF Range
<1>7. \A u : u \in Range(OldThreads) <=> Queued(u)
  <2>1. \A u : u \in Range(OldThreads) <=> \E k \in 1 .. Len(OldBuckets) : u \in Range(queues[OldBuckets[k]])
    BY <1>2, <1>3, <1>4 DEF Flat
  <2> QED
    BY <1>2, <1>3, <1>6, <2>1 DEF Queued
<1>8. ASSUME NEW b \in DOMAIN queues, NEW u \in Range(queues[b]), NEW v \in Range(queues[b]), Before(OldThreads, u, v)
      PROVE  Before(queues[b], u, v)
  <2>1. PICK k \in 1 .. Len(OldBuckets) : OldBuckets[k] = b
    BY <1>6
  <2>2. OldQueues[k] = queues[b]
    BY <1>3, <1>4, <2>1
  <2> QED
    BY <1>2, <1>5, <1>8, <2>2 DEF Flat
<1> QED
  BY <1>2, <1>5, <1>7, <1>8 DEF Flat

LEMMA RehashQueued ==
    ASSUME TableInv, QueuedInv, AddressSpace, NEW t \in Threads, hashtable # 0, Grown, NEW new, NEW m, HasRehashed(t, new, m),
           address' = address, \A u \in Threads : Queued(u) => QueuedOk(u)'
    PROVE  /\ QueuedInv' /\ \A u \in Threads : Queued(u)' <=> Queued(u)
           /\ \A b \in DOMAIN queues' : \A u, v : Before(queues'[b], u, v) => Before(OldThreads, u, v)
           /\ \A u \in Threads : Queued(u) => \E b \in DOMAIN queues' : Leads(address[u], b)' /\ u \in Range(queues'[b])
<1>1. PICK all : all = OldThreads
  OBVIOUS
<1>2. all \in Seq(Threads) /\ IsInjective(all) /\ \A u : u \in Range(all) <=> Queued(u)
  BY <1>1, OldThreadsQueued
<1>3. PICK tb : tb = new.table
  OBVIOUS
<1>4. /\ queues' = new.queues /\ queues' \in Seq(Seq(Threads)) /\ m \in Nat \ {0} /\ Size(tb) = m
      /\ \A i \in 0 .. m - 1 : tb[i] \in 0 .. Len(queues')
      /\ \A u \in Range(all) : tb[SlotOf(u, m)] # 0
      /\ tables'[Len(tables')] = tb /\ Len(tables') = Len(tables) + 1
  BY <1>1, <1>3 DEF HasRehashed, IsRehashed
<1>4a. \A b \in DOMAIN queues' : queues'[b] = Selected(OldThreads, {u \in Range(OldThreads) : new.table[SlotOf(u, m)] = b})
  <2>1. queues' = new.queues /\ IsRehashed(new, m)
    BY DEF HasRehashed
  <2>2. \A b \in DOMAIN new.queues : new.queues[b] = Selected(OldThreads, {u \in Range(OldThreads) : new.table[SlotOf(u, m)] = b})
    BY <2>1, Zenon DEF IsRehashed
  <2> QED
    BY <2>1, <2>2, Zenon
<1>5. \A b \in DOMAIN queues' : /\ IsInjective(queues'[b])
                                /\ \A u : u \in Range(queues'[b]) <=> u \in Range(all) /\ tb[SlotOf(u, m)] = b
                                /\ \A u, v : Before(queues'[b], u, v) => Before(all, u, v)
  <2> SUFFICES ASSUME NEW b \in DOMAIN queues'
               PROVE  /\ IsInjective(queues'[b])
                      /\ \A u : u \in Range(queues'[b]) <=> u \in Range(all) /\ tb[SlotOf(u, m)] = b
                      /\ \A u, v : Before(queues'[b], u, v) => Before(all, u, v)
    OBVIOUS
  <2>1. PICK S : S = {u \in Range(OldThreads) : new.table[SlotOf(u, m)] = b}
    OBVIOUS
  <2>2. queues'[b] = Selected(OldThreads, S)
    BY <1>4a, <2>1, Zenon
  <2>3. /\ \A u : u \in Range(Selected(all, S)) <=> u \in Range(all) /\ u \in S
        /\ IsInjective(Selected(all, S))
        /\ \A u, v : Before(Selected(all, S), u, v) <=> Before(all, u, v) /\ u \in S /\ v \in S
    BY <1>2, SelectedFacts
  <2>4. queues'[b] = Selected(all, S) /\ \A u : u \in S <=> u \in Range(all) /\ tb[SlotOf(u, m)] = b
    BY <1>1, <1>3, <2>1, <2>2
  <2> QED
    BY <2>3, <2>4
<1>6. \A u \in Range(all) : u \in Threads /\ address[u] \in Addresses
  <2> SUFFICES ASSUME NEW u \in Range(all) PROVE u \in Threads /\ address[u] \in Addresses
    OBVIOUS
  <2>1. u \in Threads
    BY <1>2, ElementOfSeq, LenProperties DEF Range
  <2>2. address[u] # Null
    BY <1>2 DEF Queued, QueuedInv, QueuedOk
  <2> QED
    BY <2>1, <2>2 DEF TableInv, TypeOK, ThreadType
<1>7. \A u \in Range(all) : /\ SlotOf(u, m) = Index(address[u], tb) /\ SlotOf(u, m) \in 0 .. m - 1
                            /\ tb[SlotOf(u, m)] \in DOMAIN queues'
  <2> SUFFICES ASSUME NEW u \in Range(all)
               PROVE  /\ SlotOf(u, m) = Index(address[u], tb) /\ SlotOf(u, m) \in 0 .. m - 1
                      /\ tb[SlotOf(u, m)] \in DOMAIN queues'
    OBVIOUS
  <2>1. SlotOf(u, m) = Index(address[u], tb)
    BY <1>4 DEF SlotOf, Index
  <2>2. hashAddress[address[u]] \in Nat
    BY <1>6, ParkingLotAssumption
  <2>3. \A n \in Nat : n % m \in 0 .. m - 1
    BY <1>4
  <2>4. SlotOf(u, m) \in 0 .. m - 1
    BY <2>2, <2>3 DEF SlotOf
  <2>5. tb[SlotOf(u, m)] \in 0 .. Len(queues') /\ tb[SlotOf(u, m)] # 0
    BY <1>4, <2>4
  <2>6. DOMAIN queues' = 1 .. Len(queues') /\ Len(queues') \in Nat
    BY <1>4, LenProperties
  <2> QED
    BY <2>1, <2>4, <2>5, <2>6
<1>8. \A u \in Threads : Queued(u)' <=> Queued(u)
  BY <1>2, <1>5, <1>7 DEF Queued
<1>9. Len(tables') # 0 /\ Len(tables') \in Nat
  BY <1>4, Places DEF TableInv, TypeOK
<1>10. ASSUME NEW b \in DOMAIN queues', NEW u \in Range(queues'[b]) PROVE QueuedOk(u)' /\ Leads(address[u], b)'
  <2>1. u \in Range(all) /\ tb[Index(address[u], tb)] = b /\ u \in Threads /\ Queued(u)
    BY <1>2, <1>5, <1>6, <1>7
  <2>2. QueuedOk(u)'
    BY <2>1
  <2> QED
    BY <1>4, <1>9, <2>1, <2>2 DEF Leads, hashtable
<1>11. \A b \in DOMAIN queues' : IsInjective(queues'[b])
  BY <1>5
<1>12. \A b, c \in DOMAIN queues' : b # c => Range(queues'[b]) \cap Range(queues'[c]) = {}
  BY <1>5
<1>13. QueuedInv'
  BY <1>10, <1>11, <1>12 DEF QueuedInv
<1>14. \A u \in Threads : Queued(u) => \E b \in DOMAIN queues' : Leads(address[u], b)' /\ u \in Range(queues'[b])
  BY <1>8, <1>10 DEF Queued
<1> QED
  BY <1>1, <1>5, <1>8, <1>13, <1>14

LEMMA QuietSame ==
    ASSUME TableInv, TableInv', ParkInv, NEW t \in Threads, Quiet(t), UNCHANGED <<tables, queues>>
    PROVE  ParkInv'
  BY SameQueues, QuietQueues

(* The type facts a step needs about its thread.                           *)
LEMMA MyType ==
    ASSUME TableInv, NEW t \in Threads
    PROVE  /\ ControlOf(t) /\ frame[t] \in Frames
           /\ address \in [Threads -> Addresses \cup {Null}] /\ parks \in [Threads -> Nat] /\ park \in [Threads -> ParkArgs]
           /\ frame \in [Threads -> Frames] /\ pc \in [Threads -> Labels]
  BY DEF TableInv, TypeOK, ThreadType, ControlInv

LEMMA CallParks ==
    ASSUME TableInv, ParkInv, AddressSpace, NEW t \in Threads, Call(t)
    PROVE  ParkInv' /\ Quiet(t) /\ QueuesAdded
<1>1. TableInv' /\ UNCHANGED table
  BY OtherSteps
<1>2. UNCHANGED <<tables, queues>>
  BY <1>1 DEF table
<1>3. /\ ControlOf(t) /\ frame[t] \in Frames
      /\ address \in [Threads -> Addresses \cup {Null}] /\ parks \in [Threads -> Nat] /\ park \in [Threads -> ParkArgs]
      /\ frame \in [Threads -> Frames] /\ pc \in [Threads -> Labels]
  BY MyType
<1>4. maxParks \in Nat
  BY ParkingLotAssumption
<1>5. Quiet(t)
  <2>1. CASE \E a \in Addresses, timeout \in Timeouts : ParkConditionally(t, a, timeout)
    <3>1. PICK a \in Addresses, timeout \in Timeouts : ParkConditionally(t, a, timeout)
      BY <2>1
    <3>2. pc[t] = "idle" /\ park[t] = NoPark /\ ~(parks[t] >= maxParks)
      BY <1>3, <1>4, <3>1 DEF ParkConditionally, Step, ControlOf
    <3>3. ~Waiting(t) /\ ~HeldOk(t)
      BY <3>2 DEF Waiting, HeldOk
    <3>4. frame'[t].op = "enqueue" /\ address' = address /\ pc'[t] \in {"loadTable", "construct"}
      BY <1>3, <3>1 DEF ParkConditionally, Step, Goto, SetFrame, NoFrame
    <3>5. ~Waiting(t)'
      BY <3>4 DEF Waiting
    <3>6. \A u \in Threads \ {t} : Untouched(u)
      BY <1>3, <3>1 DEF Untouched, ParkConditionally, Step, Goto, SetFrame
    <3> QED
      BY <3>2, <3>3, <3>4, <3>5, <3>6 DEF Quiet
  <2>2. CASE \E a \in Addresses, op \in Calls[t] \cap UnparkCalls : Unpark(t, op, a)
    <3>1. PICK a \in Addresses, op \in Calls[t] \cap UnparkCalls : Unpark(t, op, a)
      BY <2>2
    <3>2. pc[t] \in {"idle", "beforeSleep"} /\ frame[t].op = "none"
      BY <1>3, <3>1 DEF Unpark, ControlOf
    <3>3. /\ frame'[t].op = op /\ op # "enqueue" /\ pc'[t] = "loadTable"
          /\ address' = address /\ park' = park /\ parks' = parks
      BY <1>3, <3>1 DEF Unpark, Goto, SetFrame, NoFrame, UnparkCalls
    <3>4. (Waiting(t)' <=> Waiting(t)) /\ (HeldOk(t) => HeldOk(t)')
      BY <3>2, <3>3 DEF Waiting, HeldOk
    <3>5. \A u \in Threads \ {t} : Untouched(u)
      BY <1>3, <3>1 DEF Untouched, Unpark, Goto, SetFrame
    <3> QED
      BY <3>2, <3>3, <3>4, <3>5 DEF Quiet
  <2>3. CASE ForEach(t)
    <3>1. pc[t] = "idle" /\ park[t] = NoPark
      BY <1>3, <2>3 DEF ForEach, Step, ControlOf
    <3>2. /\ frame'[t].op = "forEach" /\ pc'[t] = "lockTable"
          /\ address' = address /\ park' = park /\ parks' = parks
      BY <1>3, <2>3 DEF ForEach, Step, Goto, SetFrame, NoFrame
    <3>3. (Waiting(t)' <=> Waiting(t)) /\ (HeldOk(t) => HeldOk(t)')
      BY <3>1, <3>2 DEF Waiting, HeldOk
    <3>4. \A u \in Threads \ {t} : Untouched(u)
      BY <1>3, <2>3 DEF Untouched, ForEach, Step, Goto, SetFrame
    <3> QED
      BY <3>1, <3>2, <3>3, <3>4 DEF Quiet
  <2>4. CASE Destruct(t)
    BY <2>4 DEF Destruct, Quiet, Untouched, Waiting, HeldOk
  <2> QED
    BY <2>1, <2>2, <2>3, <2>4 DEF Call
<1> QED
  BY <1>1, <1>2, <1>5, QuietSame, SameQueues

(* A rehash.                                                               *)
Rehashes(t) == EnsureHashtableSize(t) /\ hashtable # 0 /\ Grown /\ \E new, m : HasRehashed(t, new, m)

(* The steps with which a thread takes locks and looks for its bucket.     *)
LEMMA TableQuiet ==
    ASSUME TableInv, ParkInv, AddressSpace, NEW t \in Threads,
           Construct(t) \/ CheckSize(t) \/ LockTable(t) \/ LockNext(t) \/ EnsureHashtableSize(t) \/ ForEachWalk(t)
               \/ LoadTable(t) \/ LockBucket(t)
    PROVE  Quiet(t)
<1>1. /\ ControlOf(t) /\ frame[t] \in Frames
      /\ address \in [Threads -> Addresses \cup {Null}] /\ parks \in [Threads -> Nat] /\ park \in [Threads -> ParkArgs]
      /\ frame \in [Threads -> Frames] /\ pc \in [Threads -> Labels]
  BY MyType
<1>2. address' = address /\ park' = park /\ parks' = parks
  BY DEF Construct, CheckSize, LockTable, LockNext, EnsureHashtableSize, ForEachWalk, LoadTable, LockBucket
<1>3. \A u \in Threads \ {t} : frame'[u] = frame[u] /\ pc'[u] = pc[u]
  <2>1. CASE Construct(t)
    BY <1>1, <2>1 DEF Construct, Step, Goto, SetFrame
  <2>2. CASE CheckSize(t)
    BY <1>1, <2>2 DEF CheckSize, Goto
  <2>3. CASE LockTable(t)
    BY <1>1, <2>3 DEF LockTable, Step, Goto, SetFrame
  <2>4. CASE LockNext(t)
    BY <1>1, <2>4 DEF LockNext, Goto, SetFrame
  <2>5. CASE EnsureHashtableSize(t)
    BY <1>1, <2>5 DEF EnsureHashtableSize, Step, Goto
  <2>6. CASE ForEachWalk(t)
    BY <1>1, <2>6 DEF ForEachWalk, Return, Goto, SetFrame
  <2>7. CASE LoadTable(t)
    BY <1>1, <2>7 DEF LoadTable, Step, Goto, SetFrame
  <2>8. CASE LockBucket(t)
    BY <1>1, <2>8 DEF LockBucket, Goto
  <2> QED
    BY <2>1, <2>2, <2>3, <2>4, <2>5, <2>6, <2>7, <2>8
<1>4. /\ pc[t] \notin {"wake", "notify", "clearAddress"} /\ pc'[t] \notin {"wake", "notify", "asleep", "clearAddress"}
      /\ frame'[t].op = frame[t].op \/ (park[t] = NoPark /\ frame'[t].op = "none" /\ frame[t].op = "forEach")
  <2>1. CASE Construct(t)
    BY <1>1, <2>1 DEF Construct, Step, Goto, SetFrame, Frames
  <2>2. CASE CheckSize(t)
    BY <1>1, <2>2 DEF CheckSize, Goto
  <2>3. CASE LockTable(t)
    <3>1. pc[t] = "lockTable" /\ pc'[t] = "lockNext"
      BY <1>1, <2>3 DEF LockTable, Step, Goto
    <3>2. frame'[t].op = frame[t].op
      BY <1>1, <2>3 DEF LockTable, SetFrame, Frames
    <3> QED
      BY <3>1, <3>2
  <2>4. CASE LockNext(t)
    BY <1>1, <2>4 DEF LockNext, Goto, SetFrame, Frames
  <2>5. CASE EnsureHashtableSize(t)
    BY <1>1, <2>5 DEF EnsureHashtableSize, Step, Goto
  <2>6. CASE ForEachWalk(t)
    BY <1>1, <2>6 DEF ForEachWalk, Return, Goto, SetFrame, NoFrame, ControlOf
  <2>7. CASE LoadTable(t)
    BY <1>1, <2>7 DEF LoadTable, Step, Goto, SetFrame, Frames
  <2>8. CASE LockBucket(t)
    BY <1>1, <2>8 DEF LockBucket, Goto
  <2> QED
    BY <2>1, <2>2, <2>3, <2>4, <2>5, <2>6, <2>7, <2>8
<1>5. (Waiting(t)' <=> Waiting(t)) /\ (HeldOk(t) => HeldOk(t)')
  BY <1>2, <1>4 DEF Waiting, HeldOk
<1> QED
  BY <1>2, <1>3, <1>4, <1>5 DEF Quiet, Untouched

LEMMA TableParks ==
    ASSUME TableInv, ParkInv, AddressSpace, NEW t \in Threads,
           Construct(t) \/ CheckSize(t) \/ LockTable(t) \/ LockNext(t) \/ EnsureHashtableSize(t) \/ ForEachWalk(t)
               \/ LoadTable(t) \/ LockBucket(t)
    PROVE  ParkInv' /\ (QueuesAdded \/ Rehashes(t))
<1>1. Quiet(t) /\ TypeOK /\ TablesInv
  BY TableQuiet DEF TableInv
<1>2. CASE Construct(t) \/ CheckSize(t)
  BY <1>1, <1>2, OtherSteps, QuietSame, SameQueues DEF table
<1>3. CASE LockTable(t) \/ LoadTable(t)
  <2>1. Grown /\ BucketsAdded /\ (hashtable # 0 => hashtable' = hashtable)
    <3>1. tables = <<>> <=> hashtable = 0
      BY <1>1, Places DEF TypeOK, hashtable
    <3>2. CASE LockTable(t)
      BY <1>1, <3>1, <3>2, LockTableGrows DEF Filled, hashtable
    <3>3. CASE LoadTable(t)
      BY <1>1, <3>1, <3>3, LoadTableGrows DEF hashtable
    <3> QED
      BY <1>3, <3>2, <3>3
  <2>2. QueuesAdded
    <3>1. Len(queues) <= Len(queues') /\ TableType' /\ TableType
      BY <1>1, <2>1 DEF Grown, TypeOK
    <3>2. DOMAIN queues = 1 .. Len(queues) /\ DOMAIN queues' = 1 .. Len(queues') /\ Len(queues) \in Nat /\ Len(queues') \in Nat
      BY <3>1, LenProperties DEF TableType
    <3> QED
      BY <2>1, <3>1, <3>2 DEF QueuesAdded, BucketsAdded
  <2> QED
    BY <1>1, <2>1, <2>2, QuietQueues
<1>4. CASE LockNext(t)
  <2>1. TableInv' /\ UNCHANGED <<tables, queues>>
    BY <1>4, LockNextInv DEF LockNext
  <2> QED
    BY <1>1, <2>1, QuietSame, SameQueues
<1>5. CASE LockBucket(t)
  <2>1. TableInv' /\ UNCHANGED <<tables, queues>>
    BY <1>5, LoadInv DEF LockBucket
  <2> QED
    BY <1>1, <2>1, QuietSame, SameQueues
<1>6. CASE ForEachWalk(t)
  BY <1>1, <1>6, ForEachInv, QuietSame, SameQueues
<1>7. CASE EnsureHashtableSize(t)
  <2>1. TableInv'
    BY <1>7, EnsureSizeInv
  <2>2. CASE LargeEnough(frame[t].numThreads)
    BY <1>1, <1>7, <2>1, <2>2, EnsureSizeInv, QuietSame, SameQueues
  <2>3. CASE ~LargeEnough(frame[t].numThreads)
    <3>1. Grown /\ \E new, m : HasRehashed(t, new, m)
      BY <1>7, <2>3, EnsureSizeInv
    <3>2. PICK new, m : HasRehashed(t, new, m)
      BY <3>1
    <3>3. hashtable # 0
      <4>1. pc[t] = "tableLocked" /\ LocksOf(t)
        BY <1>7 DEF EnsureHashtableSize, Step, TableInv, LocksInv
      <4>2. hashtable \in Nat /\ frame[t].table \in 1 .. hashtable
        BY <1>1, <4>1, Places DEF TypeOK, LocksOf, hashtable
      <4> QED
        BY <4>2
    <3>4. QueuedInv /\ address' = address /\ \A u \in Threads : Queued(u) => QueuedOk(u)'
      <4>1. QueuedInv /\ \A u \in Threads : Queued(u) => QueuedOk(u)
        BY DEF ParkInv, QueuedInv, Queued
      <4>2. address' = address
        BY <1>7 DEF EnsureHashtableSize
      <4>3. \A u \in Threads : QueuedOk(u) /\ Queued(u) => QueuedOk(u)'
        BY <1>1, UntouchedFacts DEF Quiet, QueuedOk
      <4> QED
        BY <4>1, <4>2, <4>3
    <3>5. QueuedInv' /\ \A u \in Threads : Queued(u)' <=> Queued(u)
      BY <3>1, <3>2, <3>3, <3>4, RehashQueued
    <3> QED
      BY <1>1, <1>7, <3>1, <3>3, <3>5, QuietPark DEF Rehashes
  <2> QED
    BY <2>2, <2>3
<1> QED
  BY <1>2, <1>3, <1>4, <1>5, <1>6, <1>7

(* A thread that finds no bucket for its address is on no queue.           *)
LEMMA NoBucketNoQueue ==
    ASSUME TableInv, ParkInv, NEW t \in Threads, pc[t] = "loadBucket", frame[t].op = "dequeueMe",
           tables[frame[t].table][Index(frame[t].address, tables[frame[t].table])] = 0
    PROVE  ~Queued(t)
<1> SUFFICES ASSUME Queued(t) PROVE FALSE
  OBVIOUS
<1>1. PICK b \in DOMAIN queues : QueuedOk(t) /\ Leads(address[t], b)
  BY DEF Queued, ParkInv, QueuedInv
<1>2. address[t] = frame[t].address /\ frame[t].address \in Addresses /\ frame[t].table \in 1 .. hashtable
  BY <1>1 DEF QueuedOk, ParkInv, AddressInv, AddressOf, TableInv, ControlInv, ControlOf, LocksInv, LocksOf
<1>3. PICK k \in 1 .. Len(tables) : k = frame[t].table
  BY <1>2 DEF hashtable
<1>4. tables[k][Index(frame[t].address, tables[k])] = 0
  BY <1>3
<1>5. k = hashtable
  BY <1>2, <1>4, BucketThere
<1>6. b # 0
  BY Places DEF TableInv, TypeOK
<1> QED
  BY <1>1, <1>2, <1>4, <1>5, <1>6 DEF Leads

LEMMA LoadBucketParks ==
    ASSUME TableInv, ParkInv, AddressSpace, NEW t \in Threads, LoadBucket(t)
    PROVE  ParkInv' /\ Quiet(t) /\ QueuesAdded
<1>1. /\ ControlOf(t) /\ frame[t] \in Frames
      /\ address \in [Threads -> Addresses \cup {Null}] /\ parks \in [Threads -> Nat] /\ park \in [Threads -> ParkArgs]
      /\ frame \in [Threads -> Frames] /\ pc \in [Threads -> Labels]
  BY MyType
<1>2. address' = address /\ park' = park /\ parks' = parks /\ pc[t] = "loadBucket"
  BY DEF LoadBucket
<1>3. PICK b : b = tables[frame[t].table][Index(frame[t].address, tables[frame[t].table])]
  OBVIOUS
<1>4. \/ /\ pc' = [pc EXCEPT ![t] = "lockBucket"] /\ \E c : frame' = [frame EXCEPT ![t] = [frame[t] EXCEPT !.bucket = c]]
      \/ b = 0 /\ pc' = [pc EXCEPT ![t] = "clearAddress"] /\ frame' = frame /\ frame[t].op = "dequeueMe"
      \/ frame[t].op # "enqueue" /\ Return(t)
  BY <1>3 DEF LoadBucket, Goto, SetFrame, IgnoreEmpty
<1>5. Quiet(t)
  <2>1. CASE pc' = [pc EXCEPT ![t] = "lockBucket"] /\ \E c : frame' = [frame EXCEPT ![t] = [frame[t] EXCEPT !.bucket = c]]
    <3>1. frame'[t].op = frame[t].op /\ pc'[t] = "lockBucket"
      BY <1>1, <2>1 DEF Frames
    <3>2. \A u \in Threads \ {t} : frame'[u] = frame[u] /\ pc'[u] = pc[u]
      BY <1>1, <2>1
    <3> QED
      BY <1>2, <3>1, <3>2 DEF Quiet, Untouched, Waiting, HeldOk
  <2>2. CASE b = 0 /\ pc' = [pc EXCEPT ![t] = "clearAddress"] /\ frame' = frame /\ frame[t].op = "dequeueMe"
    <3>1. ~Queued(t)
      BY <1>2, <1>3, <2>2, NoBucketNoQueue
    <3>2. pc'[t] = "clearAddress" /\ \A u \in Threads \ {t} : pc'[u] = pc[u]
      BY <1>1, <2>2
    <3> QED
      BY <1>2, <2>2, <3>1, <3>2 DEF Quiet, Untouched, Waiting, HeldOk
  <2>3. CASE frame[t].op # "enqueue" /\ Return(t)
    <3>1. frame'[t].op = "none" /\ pc'[t] \in {"idle", "beforeSleep"}
      BY <1>1, <2>3 DEF Return, Goto, SetFrame, NoFrame
    <3>2. \A u \in Threads \ {t} : frame'[u] = frame[u] /\ pc'[u] = pc[u]
      BY <1>1, <2>3 DEF Return, Goto, SetFrame
    <3> QED
      BY <1>2, <2>3, <3>1, <3>2 DEF Quiet, Untouched, Waiting, HeldOk
  <2> QED
    BY <1>4, <2>1, <2>2, <2>3
<1>6. TableInv'
  BY LoadInv
<1>7. CASE UNCHANGED table
  BY <1>5, <1>6, <1>7, QuietSame, SameQueues DEF table
<1>8. CASE Grown /\ BucketsAdded /\ \E k, i : BucketMade(t, k, i)
  <2>1. hashtable' = hashtable /\ Len(queues') = Len(queues) + 1
    BY <1>8 DEF BucketMade, hashtable
  <2>2. QueuesAdded
    <3>1. DOMAIN queues = 1 .. Len(queues) /\ DOMAIN queues' = 1 .. Len(queues') /\ Len(queues) \in Nat /\ Len(queues') \in Nat
      BY <1>6, LenProperties DEF TableInv, TypeOK, TableType
    <3> QED
      BY <1>8, <2>1, <3>1 DEF QueuesAdded, BucketsAdded
  <2> QED
    BY <1>5, <1>8, <2>1, <2>2, QuietQueues
<1> QED
  BY <1>7, <1>8, LoadBucketGrows

(* Leaving parkConditionally().                                            *)
Leaves(t) ==
    /\ ~Queued(t) /\ pc[t] \in {"checkAddress", "clearAddress"} /\ pc'[t] = "idle" /\ park'[t] = NoPark
    /\ \A u \in Threads \ {t} : Untouched(u)

LEMMA LeaveParks ==
    ASSUME TableInv, TableInv', ParkInv, NEW t \in Threads, UNCHANGED <<tables, queues>>, ~Queued(t),
           \A u \in Threads \ {t} : Untouched(u), parks'[t] = parks[t],
           pc[t] \in {"checkAddress", "clearAddress"}, pc'[t] = "idle", park'[t] = NoPark, frame'[t].op = "none",
           address'[t] = Null,
           HasUnparker(t) => "sometime" \in Timeouts /\ parks[t] >= maxParks
    PROVE  ParkInv'
<1>1. QueuedInv /\ \A u \in Threads : Queued(u) => QueuedOk(u)
  BY DEF ParkInv, QueuedInv, Queued
<1>2. \A u \in Threads : Queued(u) => QueuedOk(u)' /\ address'[u] = address[u]
  BY <1>1, UntouchedFacts DEF Untouched
<1>3. QueuedInv' /\ \A u \in Threads : Queued(u)' <=> Queued(u)
  BY <1>1, <1>2, SameQueues, QueuesKept
<1>4. Held(t)' = Held(t) /\ pc[t] # "notify"
  BY DEF Held
<1>5. HasUnparker(t) => HeldOk(t)' /\ ~Queued(t)'
  BY <1>3 DEF HeldOk
<1>6. AddressOf(t)'
  BY DEF AddressOf
<1> QED
  BY <1>3, <1>4, <1>5, <1>6, HandsSame

LEMMA SleepParks ==
    ASSUME TableInv, ParkInv, AddressSpace, ParksOnce, NEW t \in Threads,
           BeforeSleep(t) \/ WakeUp(t) \/ CheckAddress(t) \/ ClearAddress(t)
    PROVE  ParkInv' /\ UNCHANGED <<tables, queues>> /\ (Quiet(t) \/ Leaves(t))
<1>1. /\ ControlOf(t) /\ frame[t] \in Frames
      /\ address \in [Threads -> Addresses \cup {Null}] /\ parks \in [Threads -> Nat] /\ park \in [Threads -> ParkArgs]
      /\ frame \in [Threads -> Frames] /\ pc \in [Threads -> Labels]
  BY MyType
<1>2. TableInv' /\ UNCHANGED <<tables, queues>>
  BY OtherSteps DEF table
<1>3. CASE BeforeSleep(t) \/ WakeUp(t)
  <2>1. pc[t] \in {"beforeSleep", "asleep"} /\ pc'[t] = "checkAddress" /\ \A u \in Threads \ {t} : pc'[u] = pc[u]
    BY <1>1, <1>3 DEF BeforeSleep, WakeUp, Step, Goto
  <2>2. Quiet(t)
    BY <1>3, <2>1 DEF BeforeSleep, WakeUp, Quiet, Untouched, Waiting, HeldOk
  <2> QED
    BY <1>2, <2>2, QuietSame
<1>4. CASE CheckAddress(t) /\ address[t] # Null
  <2>1. /\ park' = park /\ parks' = parks /\ address' = address /\ pc[t] = "checkAddress" /\ frame[t].op = "none"
    BY <1>1, <1>4 DEF CheckAddress, ControlOf
  <2>2. /\ pc'[t] \in {"asleep", "loadTable"} /\ frame'[t].op \in {"none", "dequeueMe"}
        /\ \A u \in Threads \ {t} : pc'[u] = pc[u] /\ frame'[u] = frame[u]
    BY <1>1, <1>4, <2>1 DEF CheckAddress, Goto, SetFrame, NoFrame
  <2>3. Quiet(t)
    BY <1>4, <2>1, <2>2 DEF Quiet, Untouched, Waiting, HeldOk
  <2> QED
    BY <1>2, <2>3, QuietSame
<1>5. CASE CheckAddress(t) /\ address[t] = Null
  <2>1. /\ parks' = parks /\ address' = address /\ frame' = frame /\ pc[t] = "checkAddress" /\ frame[t].op = "none"
        /\ pc' = [pc EXCEPT ![t] = "idle"] /\ park' = [park EXCEPT ![t] = NoPark]
    BY <1>1, <1>5 DEF CheckAddress, ControlOf, Goto
  <2>2. pc'[t] = "idle" /\ park'[t] = NoPark /\ \A u \in Threads \ {t} : Untouched(u)
    BY <1>1, <2>1 DEF Untouched
  <2>3. ~Queued(t)
    BY <1>5 DEF Queued, ParkInv, QueuedInv, QueuedOk
  <2>4. HasUnparker(t) => "sometime" \in Timeouts /\ parks[t] >= maxParks
    BY <1>5 DEF HasUnparker, ParkInv, HeldInv, HeldOk
  <2> QED
    BY <1>2, <1>5, <2>1, <2>2, <2>3, <2>4, LeaveParks DEF Leaves
<1>6. CASE ClearAddress(t)
  <2>1. pc[t] = "clearAddress" /\ parks' = parks
    BY <1>6 DEF ClearAddress, Step
  <2>2. /\ address'[t] = Null /\ park'[t] = NoPark /\ frame'[t].op = "none" /\ pc'[t] = "idle"
        /\ \A u \in Threads \ {t} : Untouched(u)
    BY <1>1, <1>6 DEF ClearAddress, Step, Goto, SetFrame, NoFrame, Untouched
  <2>3. ~Queued(t)
    BY <2>1 DEF Queued, ParkInv, QueuedInv, QueuedOk
  <2>4. "sometime" \in Timeouts /\ parks[t] >= maxParks
    <3>1. frame[t].op = "dequeueMe" /\ park[t] # NoPark /\ park[t].timeout = "sometime"
      BY <1>1, <2>1 DEF ControlOf
    <3>2. "sometime" \in Timeouts /\ parks[t] # 0 /\ parks[t] \in Nat
      BY <1>1, <3>1 DEF ControlOf
    <3>3. maxParks <= 1 /\ maxParks \in Nat
      BY <3>2, ParkingLotAssumption DEF ParksOnce
    <3> QED
      BY <3>2, <3>3
  <2> QED
    BY <1>2, <2>1, <2>2, <2>3, <2>4, LeaveParks DEF Leaves
<1> QED
  BY <1>3, <1>4, <1>5, <1>6

LEMMA MyQueueFacts ==
    ASSUME TableInv, ParkInv, NEW t \in Threads, pc[t] = "bucketLocked"
    PROVE  /\ MyQueue(t) \in Seq(Threads) /\ IsInjective(MyQueue(t)) /\ QueuedInv
           /\ \A u \in Range(MyQueue(t)) : u \in Threads /\ Queued(u) /\ QueuedOk(u) /\ Leads(address[u], frame[t].bucket)
           /\ \A u \in Threads : Queued(u) => QueuedOk(u)
           /\ Leads(frame[t].address, frame[t].bucket)
<1>1. /\ frame[t].bucket \in DOMAIN queues /\ MyQueue(t) \in Seq(Threads) /\ MyQueue(t) = queues[frame[t].bucket]
      /\ frame[t].bucket = tables[hashtable][Index(frame[t].address, tables[hashtable])] /\ hashtable \in 1 .. Len(tables)
  BY BucketLockedFacts DEF MyQueue
<1>2. \A u \in Range(MyQueue(t)) : u \in Threads
  BY <1>1, ElementOfSeq, LenProperties DEF Range
<1>3. hashtable # 0
  BY <1>1, Places DEF TableInv, TypeOK
<1> QED
  BY <1>1, <1>2, <1>3 DEF ParkInv, QueuedInv, Queued, Leads

(* Threads of the bucket pass from the queue into the hands of t.          *)
LEMMA DequeueParks ==
    ASSUME TableInv, ParkInv, NEW t \in Threads, NEW ops, NEW q \in Seq(Threads), NEW d \in Seq(Threads), InBucket(t, ops, q),
           IsInjective(q), IsInjective(d), Range(d) \subseteq Range(MyQueue(t)), Range(q) = Range(MyQueue(t)) \ Range(d),
           \A u \in Threads \ {t} : Untouched(u), park'[t] = park[t], parks'[t] = parks[t], address' = address,
           frame[t].op \in UnparkCalls, frame'[t].op = "none", pc'[t] \in {"wake", "idle", "beforeSleep"}, Held(t)' = d
    PROVE  ParkInv' /\ \A u \in Threads : Queued(u)' <=> Queued(u) /\ u \notin Range(d)
<1>1. pc[t] = "bucketLocked"
  BY DEF InBucket
<1>2. /\ MyQueue(t) \in Seq(Threads) /\ IsInjective(MyQueue(t)) /\ QueuedInv
      /\ \A u \in Range(MyQueue(t)) : u \in Threads /\ Queued(u) /\ QueuedOk(u) /\ Leads(address[u], frame[t].bucket)
      /\ \A u \in Threads : Queued(u) => QueuedOk(u)
  BY <1>1, MyQueueFacts
<1>3. (Waiting(t)' <=> Waiting(t)) /\ (QueuedOk(t) => QueuedOk(t)') /\ (HeldOk(t) => HeldOk(t)')
  BY DEF Waiting, QueuedOk, HeldOk, UnparkCalls
<1>4. \A u \in Threads : (QueuedOk(u) => QueuedOk(u)') /\ (HeldOk(u) => HeldOk(u)') /\ (Waiting(u)' <=> Waiting(u))
  BY <1>3, UntouchedFacts
<1>5. QueuedInv' /\ \A u \in Threads : Queued(u)' <=> u \in Range(q) \/ (Queued(u) /\ u \notin Range(MyQueue(t)))
  <2>1. \A u \in Range(q) : u \in Range(MyQueue(t)) /\ Leads(address'[u], frame[t].bucket)
    BY <1>2
  <2>2. \A u \in Threads : u \in Range(q) \/ (Queued(u) /\ u \notin Range(MyQueue(t))) => QueuedOk(u)'
    BY <1>2, <1>4, <2>1
  <2>3. \A u \in Range(q) : u \in Range(MyQueue(t)) \/ ~Queued(u)
    BY <2>1
  <2> QED
    BY <1>2, <2>1, <2>2, <2>3, QueueChanged
<1>6. \A u \in Threads : Queued(u)' <=> Queued(u) /\ u \notin Range(d)
  BY <1>2, <1>5
<1>7. Held(t) = <<>> /\ \A u \in Threads \ {t} : Held(u)' = Held(u)
  BY <1>1, UntouchedFacts DEF Held
<1>8. \A u : HasUnparker(u)' <=> HasUnparker(u) \/ u \in Range(d)
  BY <1>7, EmptyQueue DEF HasUnparker
<1>9. HeldInv'
  <2>1. \A u \in Threads : IsInjective(Held(u))'
    BY <1>7 DEF ParkInv, HeldInv
  <2>2. ASSUME NEW u \in Threads, NEW v \in Range(Held(u)) PROVE v \in Threads /\ ~Queued(v) /\ HeldOk(v) /\ v \notin Range(d)
    <3>1. v \in Threads /\ ~Queued(v) /\ HeldOk(v)
      BY HeldType DEF ParkInv, HeldInv
    <3> QED
      BY <1>2, <3>1
  <2>3. \A u, v \in Threads : u # v => (Range(Held(u)) \cap Range(Held(v)) = {})'
    <3> SUFFICES ASSUME NEW u \in Threads, NEW v \in Threads, u # v, NEW w, w \in Range(Held(u)'), w \in Range(Held(v)')
                 PROVE  FALSE
      OBVIOUS
    <3>1. CASE u # t /\ v # t
      BY <1>7, <3>1 DEF ParkInv, HeldInv
    <3>2. CASE u = t
      BY <1>7, <2>2, <3>2
    <3>3. CASE v = t
      BY <1>7, <2>2, <3>3
    <3> QED
      BY <3>1, <3>2, <3>3
  <2>4. ASSUME NEW u \in Threads, NEW v \in Range(Held(u)') PROVE ~Queued(v)' /\ HeldOk(v)'
    <3>1. CASE u # t
      BY <1>4, <1>6, <1>7, <2>2, <3>1
    <3>2. CASE u = t
      <4>1. v \in Range(d) /\ v \in Threads /\ QueuedOk(v)
        BY <1>2, <3>2
      <4>2. HeldOk(v)
        BY <4>1 DEF QueuedOk, HeldOk
      <4> QED
        BY <1>4, <1>6, <4>1, <4>2
    <3> QED
      BY <3>1, <3>2
  <2> QED
    BY <2>1, <2>3, <2>4 DEF HeldInv
<1>10. AddressInv'
  <2> SUFFICES ASSUME NEW u \in Threads PROVE AddressOf(u)'
    BY DEF AddressInv
  <2>1. AddressOf(u) /\ (Queued(u) \/ HasUnparker(u) => Queued(u)' \/ HasUnparker(u)') /\ park'[u] = park[u]
    BY <1>6, <1>8 DEF ParkInv, AddressInv, Untouched
  <2>2. address'[u] \in {Null, park'[u].address} /\ (~Waiting(u)' => address'[u] = Null)
    BY <1>4, <2>1 DEF AddressOf
  <2>3. pc[u] = "clearAddress" => pc'[u] = "clearAddress"
    BY <1>1 DEF Untouched
  <2>4. pc'[u] = "asleep" => pc[u] = "asleep"
    BY <1>1 DEF Untouched
  <2>5. (\E v \in Threads : pc[v] = "notify" /\ Head(frame[v].dequeued) = u)
            => \E v \in Threads : pc'[v] = "notify" /\ Head(frame'[v].dequeued) = u
    BY <1>1 DEF Untouched
  <2> QED
    BY <2>1, <2>2, <2>3, <2>4, <2>5 DEF AddressOf
<1> QED
  BY <1>5, <1>6, <1>9, <1>10 DEF ParkInv

LEMMA NoFrameSame == [NoFrame EXCEPT !.dequeued = <<>>] = NoFrame
<1>1. NoFrame.dequeued = <<>>
  BY DEF NoFrame
<1>2. NoFrame = [x \in DOMAIN NoFrame |-> NoFrame[x]]
  BY DEF NoFrame
<1>3. PICK f : f = NoFrame
  OBVIOUS
<1>4. f = [x \in DOMAIN f |-> f[x]] => [f EXCEPT !.dequeued = f.dequeued] = f
  OBVIOUS
<1> QED
  BY <1>1, <1>2, <1>3, <1>4

(* What the unpark calls take from the queue.                              *)
Takes(t, q, d) ==
    /\ \E ops : InBucket(t, ops, q)
    /\ q \in Seq(Threads) /\ d \in Seq(Threads) /\ IsInjective(q) /\ IsInjective(d)
    /\ Range(d) \subseteq Range(MyQueue(t)) /\ Range(q) = Range(MyQueue(t)) \ Range(d)
    /\ \A u, v : Before(q, u, v) => Before(MyQueue(t), u, v)
    /\ \A u \in Range(d) : address[u] = frame[t].address
    /\ frame[t].op \in UnparkCalls /\ frame'[t].op = "none" /\ frame'[t].dequeued = d /\ frame'[t].didFind = FALSE
    /\ pc'[t] = IF d # <<>> THEN "wake" ELSE IF park[t] = NoPark THEN "idle" ELSE "beforeSleep"
    /\ \A u \in Threads \ {t} : pc'[u] = pc[u] /\ frame'[u] = frame[u]
    /\ address' = address /\ park' = park /\ parks' = parks

(* One thread of the address, the first one, or all of them.               *)
TakesOf(t, d) ==
    LET mine == Selected(MyQueue(t), ParkedOn(frame[t].address)) IN
    \/ DequeueOne(t) /\ frame[t].op # "unparkAll" /\ d = IF mine = <<>> THEN <<>> ELSE <<Head(mine)>>
    \/ DequeueAll(t) /\ d = mine

LEMMA Taken ==
    ASSUME TableInv, ParkInv, NEW t \in Threads, DequeueOne(t) \/ DequeueAll(t)
    PROVE  \E q, d : Takes(t, q, d) /\ TakesOf(t, d)
<1>1. pc[t] = "bucketLocked"
  BY DEF DequeueOne, DequeueAll, InBucket
<1>2. MyQueue(t) \in Seq(Threads) /\ IsInjective(MyQueue(t))
  BY <1>1, MyQueueFacts
<1>3. PICK P0 : P0 = ParkedOn(frame[t].address)
  OBVIOUS
<1>4. PICK mine : mine = Selected(MyQueue(t), P0)
  OBVIOUS
<1>5. /\ mine \in Seq(Threads) /\ IsInjective(mine)
      /\ \A u : u \in Range(mine) <=> u \in Range(MyQueue(t)) /\ u \in P0
  BY <1>2, <1>4, SelectedFacts
<1>6. \A u \in P0 : address[u] = frame[t].address
  BY <1>3 DEF ParkedOn
<1>7. frame \in [Threads -> Frames] /\ pc \in [Threads -> Labels]
  BY MyType
<1>8. PICK back : back = IF park[t] = NoPark THEN "idle" ELSE "beforeSleep"
  OBVIOUS
<1>9. CASE DequeueOne(t)
  <2>1. PICK d : d = IF mine = <<>> THEN <<>> ELSE <<Head(mine)>>
    OBVIOUS
  <2>2. PICK q : q = IF mine = <<>> THEN MyQueue(t) ELSE RemoveFirst(MyQueue(t), Head(mine))
    OBVIOUS
  <2>3. /\ InBucket(t, {"unparkOne", "unparkOneCallback"}, q) /\ address' = address /\ park' = park
        /\ frame' = [frame EXCEPT ![t] = [NoFrame EXCEPT !.dequeued = d]]
        /\ pc' = [pc EXCEPT ![t] = IF d # <<>> THEN "wake" ELSE back]
    <3>1. InBucket(t, {"unparkOne", "unparkOneCallback"}, q) /\ address' = address /\ park' = park
      BY <1>3, <1>4, <1>9, <2>2 DEF DequeueOne
    <3>2. CASE mine = <<>>
      <4>1. d = <<>> /\ Return(t)
        BY <1>3, <1>4, <1>9, <2>1, <3>2 DEF DequeueOne
      <4>2. [NoFrame EXCEPT !.dequeued = <<>>] = NoFrame
        BY NoFrameSame
      <4> QED
        BY <1>8, <3>1, <4>1, <4>2 DEF Return, SetFrame, Goto
    <3>3. CASE mine # <<>>
      <4>1. d = <<Head(mine)>> /\ d # <<>>
        BY <2>1, <3>3
      <4>2. Goto(t, "wake") /\ SetFrame(t, [NoFrame EXCEPT !.dequeued = <<Head(mine)>>])
        BY <1>3, <1>4, <1>9, <3>3 DEF DequeueOne
      <4> QED
        BY <3>1, <4>1, <4>2 DEF SetFrame, Goto
    <3> QED
      BY <3>2, <3>3
  <2>4. /\ frame'[t].op = "none" /\ frame'[t].dequeued = d /\ frame'[t].didFind = FALSE
        /\ pc'[t] = IF d # <<>> THEN "wake" ELSE back
        /\ \A u \in Threads \ {t} : pc'[u] = pc[u] /\ frame'[u] = frame[u]
    BY <1>7, <2>3 DEF NoFrame
  <2>5. /\ q \in Seq(Threads) /\ d \in Seq(Threads) /\ IsInjective(q) /\ IsInjective(d)
        /\ Range(d) \subseteq Range(mine) /\ Range(q) = Range(MyQueue(t)) \ Range(d)
        /\ \A u, v : Before(q, u, v) => Before(MyQueue(t), u, v)
    <3>1. CASE mine = <<>>
      <4>1. IsInjective(<<>>)
        BY DEF IsInjective
      <4> QED
        BY <1>2, <2>1, <2>2, <3>1, <4>1, EmptyQueue
    <3>2. CASE mine # <<>>
      <4>1. PICK h : h = Head(mine)
        OBVIOUS
      <4>2. h \in Threads /\ h \in Range(mine) /\ d = <<h>> /\ q = RemoveFirst(MyQueue(t), h)
        BY <1>5, <2>1, <2>2, <3>2, <4>1, TailFacts
      <4>3. d \in Seq(Threads) /\ Range(d) = {h} /\ IsInjective(d)
        BY <4>2 DEF Range, IsInjective
      <4> QED
        BY <1>2, <4>2, <4>3, RemoveFirstOrder
    <3> QED
      BY <3>1, <3>2
  <2>6. frame[t].op # "unparkAll" /\ frame[t].op \in UnparkCalls /\ parks' = parks
    BY <2>3 DEF InBucket, UnparkCalls
  <2>7. TakesOf(t, d)
    BY <1>3, <1>4, <1>9, <2>1, <2>6 DEF TakesOf
  <2>8. Range(d) \subseteq Range(MyQueue(t)) /\ \A u \in Range(d) : address[u] = frame[t].address
    BY <1>5, <1>6, <2>5
  <2>9. pc'[t] = IF d # <<>> THEN "wake" ELSE IF park[t] = NoPark THEN "idle" ELSE "beforeSleep"
    BY <1>8, <2>4
  <2>10. (\E ops : InBucket(t, ops, q)) /\ address' = address /\ park' = park
    BY <2>3
  <2>11. Takes(t, q, d)
    BY <2>4, <2>5, <2>6, <2>8, <2>9, <2>10 DEF Takes
  <2> QED
    BY <2>7, <2>11
<1>10. CASE DequeueAll(t)
  <2>1. PICK q : q = Selected(MyQueue(t), Threads \ P0)
    OBVIOUS
  <2>2. /\ InBucket(t, {"unparkAll"}, q) /\ address' = address /\ park' = park
        /\ frame' = [frame EXCEPT ![t] = [NoFrame EXCEPT !.dequeued = mine]]
        /\ pc' = [pc EXCEPT ![t] = IF mine # <<>> THEN "wake" ELSE back]
    <3>1. InBucket(t, {"unparkAll"}, q) /\ address' = address /\ park' = park
      BY <1>3, <1>10, <2>1 DEF DequeueAll
    <3>2. CASE mine = <<>>
      <4>1. Return(t)
        BY <1>3, <1>4, <1>10, <3>2 DEF DequeueAll
      <4>2. [NoFrame EXCEPT !.dequeued = <<>>] = NoFrame
        BY NoFrameSame
      <4> QED
        BY <1>8, <3>1, <3>2, <4>1, <4>2 DEF Return, SetFrame, Goto
    <3>3. CASE mine # <<>>
      <4>1. Goto(t, "wake") /\ SetFrame(t, [NoFrame EXCEPT !.dequeued = mine])
        BY <1>3, <1>4, <1>10, <3>3 DEF DequeueAll
      <4> QED
        BY <3>1, <3>3, <4>1 DEF SetFrame, Goto
    <3> QED
      BY <3>2, <3>3
  <2>3. /\ frame'[t].op = "none" /\ frame'[t].dequeued = mine /\ frame'[t].didFind = FALSE
        /\ pc'[t] = IF mine # <<>> THEN "wake" ELSE back
        /\ \A u \in Threads \ {t} : pc'[u] = pc[u] /\ frame'[u] = frame[u]
    BY <1>7, <2>2 DEF NoFrame
  <2>4. /\ q \in Seq(Threads) /\ IsInjective(q)
        /\ \A u : u \in Range(q) <=> u \in Range(MyQueue(t)) /\ u \in Threads \ P0
        /\ \A u, v : Before(q, u, v) => Before(MyQueue(t), u, v)
    BY <1>2, <2>1, SelectedFacts
  <2>5. Range(q) = Range(MyQueue(t)) \ Range(mine)
    <3>1. \A u \in Range(MyQueue(t)) : u \in Threads
      BY <1>1, MyQueueFacts
    <3> QED
      BY <1>5, <2>4, <3>1
  <2>6. frame[t].op \in UnparkCalls /\ parks' = parks
    BY <2>2 DEF InBucket, UnparkCalls
  <2>7. TakesOf(t, mine)
    BY <1>3, <1>4, <1>10 DEF TakesOf
  <2>8. Range(mine) \subseteq Range(MyQueue(t)) /\ \A u \in Range(mine) : address[u] = frame[t].address
    BY <1>5, <1>6
  <2>9. pc'[t] = IF mine # <<>> THEN "wake" ELSE IF park[t] = NoPark THEN "idle" ELSE "beforeSleep"
    BY <1>8, <2>3
  <2>10. (\E ops : InBucket(t, ops, q)) /\ address' = address /\ park' = park
    BY <2>2
  <2>11. Takes(t, q, mine)
    BY <1>5, <2>3, <2>4, <2>5, <2>6, <2>8, <2>9, <2>10 DEF Takes
  <2> QED
    BY <2>7, <2>11
<1> QED
  BY <1>9, <1>10

LEMMA TakeParks ==
    ASSUME TableInv, ParkInv, NEW t \in Threads, NEW q, NEW d, Takes(t, q, d)
    PROVE  ParkInv' /\ \A u \in Threads : Queued(u)' <=> Queued(u) /\ u \notin Range(d)
<1>1. PICK ops : InBucket(t, ops, q)
  BY DEF Takes
<1>2. Held(t)' = d /\ pc'[t] \in {"wake", "idle", "beforeSleep"}
  BY DEF Held, Takes
<1>3. \A u \in Threads \ {t} : Untouched(u)
  BY DEF Untouched, Takes
<1>4. /\ q \in Seq(Threads) /\ d \in Seq(Threads) /\ IsInjective(q) /\ IsInjective(d)
      /\ Range(d) \subseteq Range(MyQueue(t)) /\ Range(q) = Range(MyQueue(t)) \ Range(d)
      /\ frame[t].op \in UnparkCalls /\ frame'[t].op = "none" /\ address' = address /\ park' = park /\ parks' = parks
  BY DEF Takes
<1> QED
  BY <1>1, <1>2, <1>3, <1>4, DequeueParks

LEMMA UnparkParks ==
    ASSUME TableInv, ParkInv, NEW t \in Threads, DequeueOne(t) \/ DequeueAll(t)
    PROVE  ParkInv'
  BY Taken, TakeParks

(* Only t is another one now, on a queue or off it.                        *)
OthersStay(t) == \A u \in Threads \ {t} : Untouched(u) /\ (Queued(u)' <=> Queued(u))

Joins(t) ==
    /\ InBucket(t, {"enqueue"}, Append(MyQueue(t), t)) /\ frame[t].op = "enqueue" /\ pc'[t] = "beforeSleep"
    /\ ~Queued(t) /\ Queued(t)' /\ OthersStay(t)
    /\ address'[t] = frame[t].address /\ frame[t].address \in Addresses /\ address[t] = Null

LEMMA EnqueueParks ==
    ASSUME TableInv, ParkInv, NEW t \in Threads, Enqueue(t)
    PROVE  ParkInv' /\ (Joins(t) \/ (Quiet(t) /\ UNCHANGED <<tables, queues>>))
<1>1. pc[t] = "bucketLocked" /\ frame[t].op = "enqueue" /\ parks' = parks
  BY DEF Enqueue, InBucket
<1>2. /\ MyQueue(t) \in Seq(Threads) /\ IsInjective(MyQueue(t)) /\ QueuedInv
      /\ \A u \in Range(MyQueue(t)) : u \in Threads /\ Queued(u) /\ QueuedOk(u) /\ Leads(address[u], frame[t].bucket)
      /\ \A u \in Threads : Queued(u) => QueuedOk(u)
      /\ Leads(frame[t].address, frame[t].bucket)
  BY <1>1, MyQueueFacts
<1>3. /\ ControlOf(t)
      /\ address \in [Threads -> Addresses \cup {Null}] /\ park \in [Threads -> ParkArgs]
      /\ frame \in [Threads -> Frames] /\ pc \in [Threads -> Labels]
  BY MyType
<1>4. ~Waiting(t) /\ ~HeldOk(t) /\ ~Queued(t) /\ ~HasUnparker(t)
  <2>1. ~Waiting(t) /\ ~HeldOk(t)
    BY <1>1 DEF Waiting, HeldOk
  <2> QED
    BY <1>2, <2>1 DEF QueuedOk, HasUnparker, ParkInv, HeldInv
<1>5. park[t] # NoPark /\ park[t].address \in Addresses /\ frame[t].address = park[t].address
  BY <1>1, <1>3 DEF ControlOf
<1>6. Null \notin Addresses
  BY ParkingLotAssumption
<1>7. CASE /\ InBucket(t, {"enqueue"}, Append(MyQueue(t), t))
           /\ address' = [address EXCEPT ![t] = park[t].address]
           /\ Return(t) /\ UNCHANGED park
  <2>1. PICK q : q = Append(MyQueue(t), t)
    OBVIOUS
  <2>2. q \in Seq(Threads) /\ IsInjective(q) /\ Range(q) = Range(MyQueue(t)) \cup {t} /\ InBucket(t, {"enqueue"}, q)
    BY <1>2, <1>4, <1>7, <2>1, AppendFacts
  <2>3. /\ address'[t] = park[t].address /\ frame'[t].op = "none" /\ pc'[t] = "beforeSleep" /\ park'[t] = park[t]
        /\ \A u \in Threads \ {t} : Untouched(u)
    BY <1>1, <1>3, <1>5, <1>7 DEF Return, SetFrame, Goto, NoFrame, Untouched
  <2>4. QueuedOk(t)' /\ Waiting(t)'
    BY <1>5, <1>6, <2>3 DEF QueuedOk, Waiting
  <2>5. /\ \A u \in Range(q) : u \in Range(MyQueue(t)) \/ ~Queued(u)
        /\ \A u \in Threads : u \in Range(q) \/ (Queued(u) /\ u \notin Range(MyQueue(t))) => QueuedOk(u)'
        /\ \A u \in Threads : Queued(u) => address'[u] = address[u]
        /\ \A u \in Range(q) : Leads(address'[u], frame[t].bucket)
    <3>1. \A u \in Threads \ {t} : (QueuedOk(u) => QueuedOk(u)') /\ address'[u] = address[u]
      BY <2>3, UntouchedFacts DEF Untouched
    <3> QED
      BY <1>2, <1>4, <1>5, <2>2, <2>3, <2>4, <3>1
  <2>6. QueuedInv' /\ \A u \in Threads : Queued(u)' <=> u \in Range(q) \/ (Queued(u) /\ u \notin Range(MyQueue(t)))
    BY <1>2, <2>2, <2>5, QueueChanged
  <2>7. Queued(t)' /\ \A u \in Threads \ {t} : Queued(u)' <=> Queued(u)
    BY <1>2, <2>2, <2>6
  <2>8. Held(t)' = Held(t) /\ pc[t] # "notify"
    BY <1>1, <2>3 DEF Held
  <2>9. AddressOf(t)'
    BY <2>3, <2>4, <2>7 DEF AddressOf
  <2>10. address[t] = Null
    BY <1>4 DEF ParkInv, AddressInv, AddressOf
  <2>11. Joins(t)
    BY <1>1, <1>4, <1>5, <1>7, <2>3, <2>7, <2>10 DEF Joins, OthersStay
  <2> QED
    BY <1>4, <2>3, <2>6, <2>7, <2>8, <2>9, <2>11, HandsSame
<1>8. CASE /\ InBucket(t, {"enqueue"}, MyQueue(t))
           /\ park' = [park EXCEPT ![t] = NoPark]
           /\ SetFrame(t, NoFrame) /\ Goto(t, "idle") /\ UNCHANGED address
  <2>1. /\ park'[t] = NoPark /\ pc'[t] = "idle"
        /\ \A u \in Threads \ {t} : Untouched(u)
    BY <1>1, <1>3, <1>8 DEF SetFrame, Goto, Untouched
  <2>2. Quiet(t)
    BY <1>1, <1>4, <1>8, <2>1 DEF Quiet, Waiting
  <2>3. UNCHANGED <<tables, queues>>
    <3>1. queues \in Seq(Seq(Threads))
      BY DEF TableInv, TypeOK, TableType
    <3> QED
      BY <1>8, <3>1 DEF InBucket, MyQueue
  <2> QED
    BY <2>2, <2>3, BucketSteps, QuietSame
<1> QED
  BY <1>7, <1>8 DEF Enqueue

GivesUp(t) ==
    /\ InBucket(t, {"dequeueMe"}, RemoveFirst(MyQueue(t), t)) /\ OthersStay(t)
    /\ Queued(t) <=> t \in Range(MyQueue(t))
    /\ ~Queued(t)' /\ address' = address /\ park' = park /\ frame[t].op = "dequeueMe" /\ frame'[t].op = "dequeueMe"
    /\ pc'[t] = "clearAddress" /\ frame'[t].didFind = Contains(MyQueue(t), t)
    /\ Queued(t) => address[t] = frame[t].address

LEMMA DequeueMeParks ==
    ASSUME TableInv, ParkInv, NEW t \in Threads, DequeueMe(t)
    PROVE  ParkInv' /\ GivesUp(t)
<1>1. pc[t] = "bucketLocked" /\ frame[t].op = "dequeueMe" /\ parks' = parks /\ address' = address /\ park' = park
  BY DEF DequeueMe, InBucket
<1>2. /\ MyQueue(t) \in Seq(Threads) /\ IsInjective(MyQueue(t)) /\ QueuedInv
      /\ \A u \in Range(MyQueue(t)) : u \in Threads /\ Queued(u) /\ QueuedOk(u) /\ Leads(address[u], frame[t].bucket)
      /\ \A u \in Threads : Queued(u) => QueuedOk(u)
  BY <1>1, MyQueueFacts
<1>3. /\ ControlOf(t) /\ frame[t] \in Frames
      /\ frame \in [Threads -> Frames] /\ pc \in [Threads -> Labels]
  BY MyType
<1>4. PICK q : q = RemoveFirst(MyQueue(t), t)
  OBVIOUS
<1>5. q \in Seq(Threads) /\ IsInjective(q) /\ Range(q) = Range(MyQueue(t)) \ {t} /\ InBucket(t, {"dequeueMe"}, q)
  BY <1>2, <1>4, RemoveFirstOrder DEF DequeueMe
<1>6. /\ frame'[t].op = "dequeueMe" /\ pc'[t] = "clearAddress"
      /\ \A u \in Threads \ {t} : Untouched(u)
  BY <1>1, <1>3 DEF DequeueMe, Goto, SetFrame, Untouched, Frames
<1>7. Queued(t) => t \in Range(MyQueue(t)) /\ address[t] = frame[t].address
  <2> SUFFICES ASSUME Queued(t) PROVE t \in Range(MyQueue(t)) /\ address[t] = frame[t].address
    OBVIOUS
  <2>1. PICK b \in DOMAIN queues : t \in Range(queues[b])
    BY DEF Queued
  <2>2. QueuedOk(t) /\ Leads(address[t], b) /\ AddressOf(t)
    BY <2>1 DEF ParkInv, QueuedInv, AddressInv
  <2>3. address[t] = frame[t].address
    BY <1>1, <1>3, <2>2 DEF AddressOf, QueuedOk, ControlOf
  <2>4. Leads(frame[t].address, frame[t].bucket)
    BY <1>1, MyQueueFacts
  <2>5. b = frame[t].bucket
    BY <2>2, <2>3, <2>4 DEF Leads
  <2> QED
    BY <2>1, <2>3, <2>5 DEF MyQueue
<1>8. /\ \A u \in Range(q) : u \in Range(MyQueue(t)) \/ ~Queued(u)
      /\ \A u \in Threads : u \in Range(q) \/ (Queued(u) /\ u \notin Range(MyQueue(t))) => QueuedOk(u)'
      /\ \A u \in Threads : Queued(u) => address'[u] = address[u]
      /\ \A u \in Range(q) : Leads(address'[u], frame[t].bucket)
  <2>1. \A u \in Threads \ {t} : QueuedOk(u) => QueuedOk(u)'
    BY <1>6, UntouchedFacts
  <2> QED
    BY <1>1, <1>2, <1>5, <1>7, <2>1
<1>9. QueuedInv' /\ \A u \in Threads : Queued(u)' <=> u \in Range(q) \/ (Queued(u) /\ u \notin Range(MyQueue(t)))
  BY <1>2, <1>5, <1>8, QueueChanged
<1>10. ~Queued(t)' /\ \A u \in Threads \ {t} : Queued(u)' <=> Queued(u)
  BY <1>2, <1>5, <1>7, <1>9
<1>11. Held(t)' = Held(t) /\ pc[t] # "notify"
  BY <1>1, <1>6 DEF Held
<1>12. HasUnparker(t) => HeldOk(t)' /\ ~Queued(t)'
  <2>1. HeldOk(t) => HeldOk(t)'
    BY <1>1, <1>6 DEF HeldOk, Waiting
  <2> QED
    BY <1>10, <2>1 DEF HasUnparker, ParkInv, HeldInv
<1>13. AddressOf(t)'
  <2>1. AddressOf(t) /\ (Waiting(t)' <=> Waiting(t))
    BY <1>1, <1>6 DEF ParkInv, AddressInv, Waiting
  <2> QED
    BY <1>1, <1>6, <2>1 DEF AddressOf
<1>14. frame'[t].didFind = Contains(MyQueue(t), t)
  BY <1>3 DEF DequeueMe, SetFrame, Frames
<1>15. GivesUp(t)
  BY <1>1, <1>2, <1>4, <1>5, <1>6, <1>7, <1>10, <1>14 DEF GivesUp, OthersStay
<1> QED
  BY <1>6, <1>9, <1>10, <1>11, <1>12, <1>13, <1>15, HandsSame

LEMMA WakeParks ==
    ASSUME TableInv, ParkInv, AddressSpace, NEW t \in Threads, Wake(t)
    PROVE  ParkInv'
<1>1. TableInv' /\ UNCHANGED <<tables, queues>>
  BY OtherSteps DEF table
<1>2. /\ ControlOf(t) /\ frame \in [Threads -> Frames] /\ pc \in [Threads -> Labels] /\ address \in [Threads -> Addresses \cup {Null}]
  BY MyType
<1>3. PICK d : d = frame[t].dequeued
  OBVIOUS
<1>4. pc[t] = "wake" /\ d \in Seq(Threads) /\ d # <<>> /\ Held(t) = d /\ park' = park /\ parks' = parks /\ frame' = frame
  BY <1>2, <1>3, HeldType DEF Wake, Step, ControlOf, Held
<1>5. PICK h \in Threads : h = Head(d)
  BY <1>4, TailFacts
<1>6. /\ pc'[t] = "notify" /\ address'[h] = Null
      /\ \A u \in Threads \ {t} : pc'[u] = pc[u]
      /\ \A u \in Threads \ {h} : address'[u] = address[u]
  BY <1>2, <1>3, <1>5 DEF Wake, Step, Goto
<1>7. /\ IsInjective(d) /\ h \in Range(d) /\ IsInjective(Tail(d)) /\ Range(Tail(d)) = Range(d) \ {h} /\ ~Queued(h) /\ HeldOk(h)
  <2>1. IsInjective(d)
    BY <1>4 DEF ParkInv, HeldInv
  <2>2. h \in Range(d) /\ IsInjective(Tail(d)) /\ Range(Tail(d)) = Range(d) \ {h}
    BY <1>4, <1>5, <2>1, TailFacts
  <2> QED
    BY <1>4, <2>1, <2>2 DEF ParkInv, HeldInv
<1>8. Held(t)' = Tail(d) /\ \A u \in Threads \ {t} : Held(u)' = Held(u)
  BY <1>3, <1>4, <1>6 DEF Held
<1>9. \A u \in Threads : Waiting(u)' <=> Waiting(u)
  BY <1>4 DEF Waiting
<1>10. QueuedInv' /\ \A u \in Threads : Queued(u)' <=> Queued(u)
  <2>1. QueuedInv /\ \A u \in Threads : Queued(u) => QueuedOk(u) /\ u # h
    BY <1>7 DEF ParkInv, QueuedInv, Queued
  <2>2. \A u \in Threads : Queued(u) => QueuedOk(u)' /\ address'[u] = address[u]
    BY <1>4, <1>6, <1>9, <2>1 DEF QueuedOk
  <2> QED
    BY <1>1, <2>1, <2>2, SameQueues, QueuesKept
<1>11. \A u \in Threads : HasUnparker(u) /\ u # h => HasUnparker(u)'
  BY <1>4, <1>7, <1>8 DEF HasUnparker
<1>12. HeldInv'
  <2>1. \A u \in Threads : IsInjective(Held(u))'
    BY <1>7, <1>8 DEF ParkInv, HeldInv
  <2>2. \A u \in Threads : Range(Held(u)') \subseteq Range(Held(u))
    BY <1>4, <1>7, <1>8
  <2>3. \A u, v \in Threads : u # v => (Range(Held(u)) \cap Range(Held(v)) = {})'
    BY <2>2 DEF ParkInv, HeldInv
  <2>4. ASSUME NEW u \in Threads, NEW v \in Range(Held(u)') PROVE ~Queued(v)' /\ HeldOk(v)'
    <3>1. v \in Range(Held(u)) /\ v \in Threads /\ ~Queued(v) /\ HeldOk(v)
      BY <2>2, HeldType DEF ParkInv, HeldInv
    <3>2. v # h
      <4>1. CASE u = t
        BY <1>7, <1>8, <4>1
      <4>2. CASE u # t
        BY <1>4, <1>7, <3>1, <4>2 DEF ParkInv, HeldInv
      <4> QED
        BY <4>1, <4>2
    <3>3. HeldOk(v)'
      BY <1>4, <1>6, <1>9, <3>1, <3>2 DEF HeldOk
    <3> QED
      BY <1>10, <3>1, <3>3
  <2> QED
    BY <2>1, <2>3, <2>4 DEF HeldInv
<1>13. AddressInv'
  <2> SUFFICES ASSUME NEW u \in Threads PROVE AddressOf(u)'
    BY DEF AddressInv
  <2>1. AddressOf(u)
    BY DEF ParkInv, AddressInv
  <2>2. \E v \in Threads : pc'[v] = "notify" /\ Head(frame'[v].dequeued) = h
    BY <1>3, <1>4, <1>5, <1>6
  <2>3. CASE u = h
    BY <1>6, <2>2, <2>3 DEF AddressOf
  <2>4. CASE u # h
    <3>1. address'[u] = address[u] /\ park'[u] = park[u] /\ (Waiting(u)' <=> Waiting(u))
      BY <1>4, <1>6, <1>9, <2>4
    <3>2. pc'[u] = pc[u] \/ (pc[u] = "wake" /\ pc'[u] = "notify")
      BY <1>4, <1>6
    <3>3. Queued(u) \/ HasUnparker(u) => Queued(u)' \/ HasUnparker(u)'
      BY <1>10, <1>11, <2>4
    <3>4. (\E v \in Threads : pc[v] = "notify" /\ Head(frame[v].dequeued) = u)
              => \E v \in Threads : pc'[v] = "notify" /\ Head(frame'[v].dequeued) = u
      BY <1>4, <1>6
    <3> QED
      BY <2>1, <3>1, <3>2, <3>3, <3>4 DEF AddressOf
  <2> QED
    BY <2>3, <2>4
<1> QED
  BY <1>10, <1>12, <1>13 DEF ParkInv

LEMMA NotifyParks ==
    ASSUME TableInv, ParkInv, AddressSpace, NEW t \in Threads, Notify(t)
    PROVE  ParkInv'
<1>1. TableInv' /\ UNCHANGED <<tables, queues>>
  BY OtherSteps DEF table
<1>2. /\ ControlOf(t) /\ frame \in [Threads -> Frames] /\ frame[t] \in Frames /\ pc \in [Threads -> Labels]
  BY MyType
<1>3. PICK d : d = frame[t].dequeued
  OBVIOUS
<1>4. /\ pc[t] = "notify" /\ d \in Seq(Threads) /\ d # <<>> /\ Held(t) = Tail(d) /\ park' = park /\ parks' = parks
      /\ address' = address
  BY <1>2, <1>3, HeldType DEF Notify, ControlOf, Held
<1>5. PICK h \in Threads : h = Head(d)
  BY <1>4, TailFacts
<1>6. PICK back : back = IF Tail(d) # <<>> THEN "wake" ELSE IF park[t] = NoPark THEN "idle" ELSE "beforeSleep"
  OBVIOUS
<1>7. pc' = [pc EXCEPT ![h] = IF @ = "asleep" THEN "checkAddress" ELSE @, ![t] = back]
  BY <1>3, <1>5, <1>6 DEF Notify
<1>8. /\ pc'[t] = back
      /\ \A u \in Threads \ {t} : pc'[u] = pc[u] \/ (pc[u] = "asleep" /\ pc'[u] = "checkAddress")
      /\ h # t => pc'[h] # "asleep"
  BY <1>2, <1>7
<1>9. /\ frame'[t].dequeued = Tail(d) /\ frame'[t].op = frame[t].op
      /\ \A u \in Threads \ {t} : frame'[u] = frame[u]
  BY <1>2, <1>3 DEF Notify, SetFrame, Frames
<1>10. back \in {"wake", "idle", "beforeSleep"} /\ (back = "wake" <=> Tail(d) # <<>>)
  BY <1>6
<1>11. \A u \in Threads : Held(u)' = Held(u)
  <2>1. Held(t)' = Held(t)
    BY <1>4, <1>8, <1>9, <1>10 DEF Held
  <2>2. \A u \in Threads \ {t} : Held(u)' = Held(u)
    BY <1>8, <1>9 DEF Held
  <2> QED
    BY <2>1, <2>2
<1>12. \A u \in Threads : (Waiting(u)' <=> Waiting(u)) /\ (HeldOk(u)' <=> HeldOk(u)) /\ (HasUnparker(u)' <=> HasUnparker(u))
  BY <1>4, <1>9, <1>11 DEF Waiting, HeldOk, HasUnparker
<1>13. \A u \in Threads : pc'[u] = "clearAddress" <=> pc[u] = "clearAddress"
  BY <1>4, <1>8, <1>10
<1>14. QueuedInv' /\ \A u \in Threads : Queued(u)' <=> Queued(u)
  <2>1. QueuedInv /\ \A u \in Threads : Queued(u) => QueuedOk(u)
    BY DEF ParkInv, QueuedInv, Queued
  <2>2. \A u \in Threads : Queued(u) => QueuedOk(u)' /\ address'[u] = address[u]
    BY <1>4, <1>12, <1>13, <2>1 DEF QueuedOk
  <2> QED
    BY <1>1, <2>1, <2>2, SameQueues, QueuesKept
<1>15. HeldInv'
  <2>1. \A u \in Threads : \A v \in Range(Held(u)) : v \in Threads
    BY HeldType
  <2>2. \A u \in Threads : IsInjective(Held(u))'
    BY <1>11 DEF ParkInv, HeldInv
  <2>3. \A u, v \in Threads : u # v => (Range(Held(u)) \cap Range(Held(v)) = {})'
    BY <1>11 DEF ParkInv, HeldInv
  <2>4. \A u \in Threads : \A v \in Range(Held(u)) : ~Queued(v)' /\ HeldOk(v)'
    BY <1>12, <1>14, <2>1 DEF ParkInv, HeldInv
  <2> QED
    BY <1>11, <2>2, <2>3, <2>4 DEF HeldInv
<1>16. AddressInv'
  <2> SUFFICES ASSUME NEW u \in Threads PROVE AddressOf(u)'
    BY DEF AddressInv
  <2>1. AddressOf(u)
    BY DEF ParkInv, AddressInv
  <2>2. pc'[u] = "asleep" /\ address'[u] = Null => \E v \in Threads : pc'[v] = "notify" /\ Head(frame'[v].dequeued) = u
    <3> SUFFICES ASSUME pc'[u] = "asleep", address'[u] = Null
                 PROVE  \E v \in Threads : pc'[v] = "notify" /\ Head(frame'[v].dequeued) = u
      OBVIOUS
    <3>1. pc[u] = "asleep" /\ u # t /\ u # h
      BY <1>8, <1>10
    <3>2. PICK v \in Threads : pc[v] = "notify" /\ Head(frame[v].dequeued) = u
      BY <1>4, <2>1, <3>1 DEF AddressOf
    <3>3. v # t
      BY <1>3, <1>5, <3>1, <3>2
    <3> QED
      BY <1>8, <1>9, <3>2, <3>3
  <2> QED
    BY <1>4, <1>12, <1>13, <1>14, <2>1, <2>2 DEF AddressOf
<1> QED
  BY <1>14, <1>15, <1>16 DEF ParkInv

LEMMA ParkInit == Init => ParkInv
<1> SUFFICES ASSUME Init PROVE ParkInv
  OBVIOUS
<1>1. DOMAIN queues = {} /\ \A t \in Threads : pc[t] = "idle" /\ address[t] = Null
  BY DEF Init
<1>2. QueuedInv /\ \A t \in Threads : ~Queued(t)
  BY <1>1 DEF QueuedInv, Queued
<1>3. \A t \in Threads : Held(t) = <<>>
  BY <1>1 DEF Held
<1>4. HeldInv
  BY <1>3, EmptyQueue DEF HeldInv, IsInjective
<1>5. AddressInv
  BY <1>1 DEF AddressInv, AddressOf
<1> QED
  BY <1>2, <1>4, <1>5 DEF ParkInv

LEMMA StutterPark == ParkInv /\ UNCHANGED vars => ParkInv'
  BY DEF ParkInv, QueuedInv, HeldInv, AddressInv, AddressOf, QueuedOk, HeldOk, Queued, Held, HasUnparker, Waiting, Leads,
         hashtable, Index, Size, vars, table

LEMMA ParkNext == AddressSpace /\ ParksOnce /\ TableInv /\ ParkInv /\ [Next]_vars => ParkInv'
<1> SUFFICES ASSUME AddressSpace, ParksOnce, TableInv, ParkInv, [Next]_vars PROVE ParkInv'
  OBVIOUS
<1>1. CASE UNCHANGED vars
  BY <1>1, StutterPark
<1>2. ASSUME NEW t \in Threads, Call(t) PROVE ParkInv'
  BY <1>2, CallParks
<1>3. ASSUME NEW t \in Threads, Run(t) \/ WakeUp(t) PROVE ParkInv'
  <2>1. CASE Construct(t) \/ CheckSize(t) \/ LockTable(t) \/ LockNext(t) \/ EnsureHashtableSize(t) \/ ForEachWalk(t)
               \/ LoadTable(t) \/ LockBucket(t)
    BY <2>1, TableParks
  <2>2. CASE LoadBucket(t)
    BY <2>2, LoadBucketParks
  <2>3. CASE Enqueue(t)
    BY <2>3, EnqueueParks
  <2>4. CASE DequeueOne(t) \/ DequeueAll(t)
    BY <2>4, UnparkParks
  <2>5. CASE DequeueMe(t)
    BY <2>5, DequeueMeParks
  <2>6. CASE Wake(t)
    BY <2>6, WakeParks
  <2>7. CASE Notify(t)
    BY <2>7, NotifyParks
  <2>8. CASE BeforeSleep(t) \/ WakeUp(t) \/ CheckAddress(t) \/ ClearAddress(t)
    BY <2>8, SleepParks
  <2> QED
    BY <1>3, <2>1, <2>2, <2>3, <2>4, <2>5, <2>6, <2>7, <2>8 DEF Run
<1> QED
  BY <1>1, <1>2, <1>3 DEF Next

LEMMA ParkSound == AddressSpace /\ ParksOnce => (Spec => [](TableInv /\ ParkInv))
<1> SUFFICES ASSUME AddressSpace /\ ParksOnce PROVE Spec => [](TableInv /\ ParkInv)
  OBVIOUS
<1>1. Init => TableInv /\ ParkInv
  BY TableInit, ParkInit
<1>2. TableInv /\ ParkInv /\ [Next]_vars => (TableInv /\ ParkInv)'
  BY TableNext, ParkNext
<1> QED
  BY <1>1, <1>2, PTL DEF Spec

(* What the properties say of queues and hands, in terms of the invariant. *)
LEMMA ContainsFacts ==
    ASSUME TableInv
    PROVE  /\ \A b \in DOMAIN queues : \A t : OnQueue(t, b) <=> t \in Range(queues[b])
           /\ \A t : OnAQueue(t) <=> Queued(t)
           /\ \A t : Dequeued(t) <=> HasUnparker(t)
<1>1. \A b \in DOMAIN queues : queues[b] \in Seq(Threads)
  BY Places DEF TableInv, TypeOK
<1>2. \A b \in DOMAIN queues : \A t : OnQueue(t, b) <=> t \in Range(queues[b])
  BY <1>1, RemoveFirstFacts DEF OnQueue
<1>3. \A t : OnAQueue(t) <=> Queued(t)
  BY <1>2 DEF OnAQueue, Queued
<1>4. \A u \in Threads : \A t : /\ pc[u] = "wake" => (Contains(frame[u].dequeued, t) <=> t \in Range(Held(u)))
                                /\ pc[u] = "notify" => (Contains(Tail(frame[u].dequeued), t) <=> t \in Range(Held(u)))
                                /\ pc[u] \notin {"wake", "notify"} => t \notin Range(Held(u))
  <2> SUFFICES ASSUME NEW u \in Threads, NEW t
               PROVE  /\ pc[u] = "wake" => (Contains(frame[u].dequeued, t) <=> t \in Range(Held(u)))
                      /\ pc[u] = "notify" => (Contains(Tail(frame[u].dequeued), t) <=> t \in Range(Held(u)))
                      /\ pc[u] \notin {"wake", "notify"} => t \notin Range(Held(u))
    OBVIOUS
  <2>1. Held(u) \in Seq(Threads)
    BY HeldType
  <2>2. Contains(Held(u), t) <=> t \in Range(Held(u))
    BY <2>1, RemoveFirstFacts
  <2> QED
    BY <2>2, EmptyQueue DEF Held
<1>5. \A t : Dequeued(t) <=> HasUnparker(t)
  BY <1>4 DEF Dequeued, HasUnparker
<1> QED
  BY <1>2, <1>3, <1>5

LEMMA FindableFacts == AddressSpace /\ TableInv /\ ParkInv => ThreadsAreFindable
<1> SUFFICES ASSUME AddressSpace, TableInv, ParkInv, NEW b \in DOMAIN queues, NEW t \in Threads, OnQueue(t, b)
             PROVE  /\ address[t] # Null
                    /\ tables[hashtable][Index(address[t], tables[hashtable])] = b
                    /\ Cardinality({i \in DOMAIN queues[b] : queues[b][i] = t}) = 1
  BY DEF ThreadsAreFindable
<1>1. t \in Range(queues[b])
  BY ContainsFacts
<1>2. IsInjective(queues[b]) /\ QueuedOk(t) /\ Leads(address[t], b)
  BY <1>1 DEF ParkInv, QueuedInv
<1>3. PICK i \in DOMAIN queues[b] : queues[b][i] = t
  BY <1>1 DEF Range
<1>4. {j \in DOMAIN queues[b] : queues[b][j] = t} = {i}
  BY <1>2, <1>3 DEF IsInjective
<1>5. Cardinality({i}) = 1
  BY FS_Singleton
<1> QED
  BY <1>2, <1>4, <1>5 DEF QueuedOk, Leads

(* A thread on a queue is there once, on no other queue, and where its     *)
(* address leads to in the current hash table: unpark finds it, however    *)
(* often the table is rehashed while it sleeps.                            *)
THEOREM Findable == AddressSpace /\ ParksOnce => (Spec => []ThreadsAreFindable)
<1> SUFFICES ASSUME AddressSpace /\ ParksOnce PROVE Spec => []ThreadsAreFindable
  OBVIOUS
<1>1. TableInv /\ ParkInv => ThreadsAreFindable
  BY FindableFacts
<1>2. Spec => [](TableInv /\ ParkInv)
  BY ParkSound
<1> QED
  BY <1>1, <1>2, PTL

LEMMA ReachableFacts == TableInv /\ ParkInv => SleepersAreReachable
  BY ContainsFacts DEF SleepersAreReachable, ParkInv, AddressInv, AddressOf

(* No wake-up is lost: whoever sleeps is on a queue, or in the hands of an *)
(* unparker that has yet to clear its address or to notify it.             *)
THEOREM Reachable == AddressSpace /\ ParksOnce => (Spec => []SleepersAreReachable)
<1> SUFFICES ASSUME AddressSpace /\ ParksOnce PROVE Spec => []SleepersAreReachable
  OBVIOUS
<1>1. TableInv /\ ParkInv => SleepersAreReachable
  BY ReachableFacts
<1>2. Spec => [](TableInv /\ ParkInv)
  BY ParkSound
<1> QED
  BY <1>1, <1>2, PTL

LEMMA AddressFacts == "sometime" \notin Timeouts /\ TableInv /\ ParkInv => AddressAsserts
<1> SUFFICES ASSUME "sometime" \notin Timeouts, TableInv, ParkInv, NEW t \in Threads
             PROVE  /\ pc[t] = "idle" => address[t] = Null
                    /\ pc[t] \in {"checkAddress", "asleep"} => address[t] \in {Null, park[t].address}
                    /\ pc[t] = "wake" => address[Head(frame[t].dequeued)] # Null
  BY DEF AddressAsserts
<1>1. AddressOf(t) /\ ControlOf(t)
  BY DEF ParkInv, AddressInv, TableInv, ControlInv
<1>2. pc[t] = "idle" => address[t] = Null
  BY <1>1 DEF AddressOf, ControlOf, Waiting
<1>3. ASSUME pc[t] = "wake" PROVE address[Head(frame[t].dequeued)] # Null
  <2>1. Held(t) = frame[t].dequeued /\ frame[t].dequeued # <<>> /\ frame[t].dequeued \in Seq(Threads)
    BY <1>1, <1>3, HeldType DEF Held, ControlOf
  <2>2. Head(frame[t].dequeued) \in Range(Held(t))
    BY <2>1, TailFacts
  <2> QED
    BY <2>2 DEF ParkInv, HeldInv, HeldOk
<1> QED
  BY <1>1, <1>2, <1>3 DEF AddressOf

(* The RELEASE_ASSERT at the start of parkConditionally() and the ASSERTs  *)
(* on the addresses of dequeued threads hold as long as nobody parks with  *)
(* a timeout.                                                              *)
THEOREM AddressesKept == AddressSpace /\ "sometime" \notin Timeouts => (Spec => []AddressAsserts)
<1> SUFFICES ASSUME AddressSpace /\ "sometime" \notin Timeouts PROVE Spec => []AddressAsserts
  OBVIOUS
<1>1. TableInv /\ ParkInv => AddressAsserts
  BY AddressFacts
<1>2. Spec => [](TableInv /\ ParkInv)
  BY ParkSound DEF ParksOnce
<1> QED
  BY <1>1, <1>2, PTL

OffQueueAction == \A t \in Threads : park[t] # NoPark /\ park'[t] = NoPark => ~OnAQueue(t)'

OutsideOffQueue == \A t \in Threads : park[t] = NoPark => ~OnAQueue(t)

LEMMA OffQueueFacts == TableInv /\ ParkInv => OutsideOffQueue
  BY ContainsFacts DEF OutsideOffQueue, Queued, ParkInv, QueuedInv, QueuedOk, Waiting

(* parkConditionally() does not return while the thread is on a queue.     *)
THEOREM OffQueue == AddressSpace /\ ParksOnce => (Spec => ReturnsOffQueue)
<1> SUFFICES ASSUME AddressSpace /\ ParksOnce PROVE Spec => ReturnsOffQueue
  OBVIOUS
<1>1. TableInv /\ ParkInv => OutsideOffQueue
  BY OffQueueFacts
<1>2. OutsideOffQueue' => [OffQueueAction]_vars
  BY DEF OutsideOffQueue, OffQueueAction
<1>3. Spec => [](TableInv /\ ParkInv)
  BY ParkSound
<1>4. [](TableInv /\ ParkInv) => [][OffQueueAction]_vars
  BY <1>1, <1>2, PTL
<1>5. [][OffQueueAction]_vars <=> ReturnsOffQueue
  BY DEF OffQueueAction, ReturnsOffQueue
<1> QED
  BY <1>3, <1>4, <1>5, PTL

-----------------------------------------------------------------------------
(***************************************************************************)
(* The queues of the addresses.                                            *)
(***************************************************************************)

LEMMA OrderFacts ==
    ASSUME NEW T, NEW q \in Seq(T), IsInjective(q)
    PROVE  /\ \A u, v : Before(q, u, v) => u \in Range(q) /\ v \in Range(q) /\ u # v /\ ~Before(q, v, u)
           /\ \A u, v \in Range(q) : u # v => Before(q, u, v) \/ Before(q, v, u)
<1>1. DOMAIN q = 1 .. Len(q) /\ Len(q) \in Nat
  BY LenProperties
<1>2. \A i \in DOMAIN q : i \in Nat
  BY <1>1
<1>3. \A i, j \in DOMAIN q : q[i] = q[j] => i = j
  BY DEF IsInjective
<1>4. ASSUME NEW u, NEW v, Before(q, u, v) PROVE u \in Range(q) /\ v \in Range(q) /\ u # v /\ ~Before(q, v, u)
  <2>1. PICK i, j \in DOMAIN q : i < j /\ q[i] = u /\ q[j] = v
    BY <1>4 DEF Before
  <2>2. u \in Range(q) /\ v \in Range(q) /\ u # v
    BY <1>2, <1>3, <2>1 DEF Range
  <2>3. ASSUME NEW k \in DOMAIN q, NEW l \in DOMAIN q, k < l, q[k] = v, q[l] = u PROVE FALSE
    <3>1. k = j /\ l = i
      BY <1>3, <2>1, <2>3
    <3> QED
      BY <1>2, <2>1, <2>3, <3>1
  <2> QED
    BY <2>2, <2>3 DEF Before
<1>5. ASSUME NEW u \in Range(q), NEW v \in Range(q), u # v PROVE Before(q, u, v) \/ Before(q, v, u)
  <2>1. PICK i, j \in DOMAIN q : q[i] = u /\ q[j] = v
    BY DEF Range
  <2>2. i # j /\ i \in Nat /\ j \in Nat
    BY <1>2, <1>5, <2>1
  <2>3. i < j \/ j < i
    BY <2>2
  <2> QED
    BY <2>1, <2>3 DEF Before
<1> QED
  BY <1>4, <1>5

(* Two selections of the same elements of a sequence are the same.         *)
LEMMA SameSelection ==
    ASSUME NEW T, NEW p \in Seq(T), NEW r \in Seq(T), NEW q \in Seq(T), IsInjective(p), IsInjective(r), IsInjective(q),
           Range(p) = Range(r), \A u, v : Before(p, u, v) => Before(q, u, v), \A u, v : Before(r, u, v) => Before(q, u, v)
    PROVE  p = r
<1>1. \A u, v \in T : Before(p, u, v) => Before(r, u, v)
  <2> SUFFICES ASSUME NEW u \in T, NEW v \in T, Before(p, u, v) PROVE Before(r, u, v)
    OBVIOUS
  <2>1. u \in Range(r) /\ v \in Range(r) /\ u # v
    BY OrderFacts
  <2>2. Before(r, u, v) \/ Before(r, v, u)
    BY <2>1, OrderFacts
  <2>3. Before(q, u, v) /\ ~Before(q, v, u)
    BY OrderFacts
  <2> QED
    BY <2>2, <2>3
<1> QED
  BY <1>1, SameOrder

QueueOk(a) ==
    /\ QueueOf(a) \in Seq(Threads) /\ IsInjective(QueueOf(a))
    /\ \A u : u \in Range(QueueOf(a)) <=> u \in Threads /\ Queued(u) /\ address[u] = a
    /\ \A u, v : Before(QueueOf(a), u, v) <=> /\ address[u] = a /\ address[v] = a
                                              /\ \E b \in DOMAIN queues : Before(queues[b], u, v)
QueuesOk == \A a \in Addresses : QueueOk(a)

LEMMA QueueOfFacts == TableInv /\ QueuedInv => QueuesOk
<1> SUFFICES ASSUME TableInv, QueuedInv, NEW a \in Addresses PROVE QueueOk(a)
  BY DEF QueuesOk
<1>1. /\ Len(tables) \in Nat /\ (tables = <<>> <=> Len(tables) = 0)
      /\ DOMAIN queues = 1 .. Len(queues) /\ Len(queues) \in Nat
      /\ \A b \in DOMAIN queues : queues[b] \in Seq(Threads)
  BY Places DEF TableInv, TypeOK
<1>2. \A b \in DOMAIN queues : \A u \in Range(queues[b]) : u \in Threads
  BY <1>1, ElementOfSeq, LenProperties DEF Range
<1>3. \A b \in DOMAIN queues : \A u, v : Before(queues[b], u, v) => u \in Range(queues[b]) /\ v \in Range(queues[b])
  BY DEF Before, Range
<1>4. CASE \A b \in DOMAIN queues : ~Leads(a, b)
  <2>1. QueueOf(a) = <<>>
    <3>1. CASE tables = <<>>
      BY <3>1 DEF QueueOf
    <3>2. CASE tables # <<>>
      <4>1. PICK b : b = tables[hashtable][Index(a, tables[hashtable])]
        OBVIOUS
      <4>2. hashtable \in 1 .. Len(tables) /\ hashtable # 0
        BY <1>1, <3>2 DEF hashtable
      <4>3. b # 0 => b \in DOMAIN queues
        BY <4>1, <4>2, BucketThere
      <4>4. b = 0
        BY <1>4, <4>1, <4>2, <4>3 DEF Leads
      <4> QED
        BY <3>2, <4>1, <4>4 DEF QueueOf
    <3> QED
      BY <3>1, <3>2
  <2>2. \A u \in Threads : Queued(u) => address[u] # a
    BY <1>4 DEF Queued, QueuedInv
  <2>3. \A u, v : ~Before(<<>>, u, v)
    BY DEF Before
  <2>4. IsInjective(<<>>)
    BY DEF IsInjective
  <2>5. \A u, v : ~(address[u] = a /\ \E b \in DOMAIN queues : Before(queues[b], u, v))
    BY <1>2, <1>3, <2>2 DEF Queued
  <2> QED
    BY <2>1, <2>2, <2>3, <2>4, <2>5, EmptyQueue DEF QueueOk
<1>5. ASSUME NEW b \in DOMAIN queues, Leads(a, b) PROVE QueueOk(a)
  <2>1. b # 0 /\ tables # <<>>
    BY <1>1, <1>5 DEF Leads, hashtable
  <2>2. PICK S : S = ParkedOn(a)
    OBVIOUS
  <2>3. QueueOf(a) = Selected(queues[b], S)
    BY <1>5, <2>1, <2>2 DEF QueueOf, Leads
  <2>4. \A u : u \in S <=> u \in Threads /\ address[u] = a
    BY <2>2 DEF ParkedOn
  <2>5. \A c \in DOMAIN queues : \A u \in Range(queues[c]) : address[u] = a => c = b
    BY <1>5 DEF QueuedInv, Leads
  <2>6. queues[b] \in Seq(Threads) /\ IsInjective(queues[b])
    BY <1>1 DEF QueuedInv
  <2>7. /\ QueueOf(a) \in Seq(Threads) /\ IsInjective(QueueOf(a))
        /\ \A u : u \in Range(QueueOf(a)) <=> u \in Range(queues[b]) /\ u \in S
        /\ \A u, v : Before(QueueOf(a), u, v) <=> Before(queues[b], u, v) /\ u \in S /\ v \in S
    BY <2>3, <2>6, SelectedFacts
  <2>8. \A u : u \in Range(QueueOf(a)) <=> u \in Threads /\ Queued(u) /\ address[u] = a
    BY <2>4, <2>5, <2>7 DEF Queued
  <2>9. \A u, v : Before(QueueOf(a), u, v) <=> /\ address[u] = a /\ address[v] = a
                                               /\ \E c \in DOMAIN queues : Before(queues[c], u, v)
    BY <1>2, <1>3, <2>4, <2>5, <2>7
  <2> QED
    BY <2>7, <2>8, <2>9 DEF QueueOk
<1> QED
  BY <1>4, <1>5

LEMMA QueuesOkAfter == (TableInv /\ QueuedInv)' => QueuesOk'
  BY QueueOfFacts, PTL

(* What unpark finds in the bucket it has locked.                          *)
LEMMA MyQueueOf ==
    ASSUME TableInv, ParkInv, NEW t \in Threads, pc[t] = "bucketLocked"
    PROVE  QueueOf(frame[t].address) = Selected(MyQueue(t), ParkedOn(frame[t].address))
<1>1. Leads(frame[t].address, frame[t].bucket) /\ frame[t].bucket \in DOMAIN queues
  BY MyQueueFacts, BucketLockedFacts
<1>2. frame[t].bucket # 0 /\ tables # <<>>
  BY <1>1, Places DEF TableInv, TypeOK, Leads, hashtable
<1> QED
  BY <1>1, <1>2 DEF QueueOf, Leads, MyQueue

(* The queue of an address stays as it is if the threads on it and their   *)
(* order do.                                                               *)
LEMMA QueueOfKept ==
    ASSUME TableInv, QueuedInv, TableInv', QueuedInv', NEW a \in Addresses,
           \A u \in Threads : Queued(u)' /\ address'[u] = a <=> Queued(u) /\ address[u] = a,
           \A b \in DOMAIN queues' : \A u, v \in Threads :
               Before(queues'[b], u, v) /\ address'[u] = a /\ address'[v] = a => \E c \in DOMAIN queues : Before(queues[c], u, v)
    PROVE  QueueOf(a)' = QueueOf(a)
<1>1. QueueOk(a) /\ QueueOk(a)'
  BY QueueOfFacts, QueuesOkAfter DEF QueuesOk
<1>2. Range(QueueOf(a)') = Range(QueueOf(a))
  BY <1>1 DEF QueueOk
<1>3. \A u, v \in Threads : Before(QueueOf(a)', u, v) => Before(QueueOf(a), u, v)
  <2> SUFFICES ASSUME NEW u \in Threads, NEW v \in Threads, Before(QueueOf(a)', u, v) PROVE Before(QueueOf(a), u, v)
    OBVIOUS
  <2>1. address'[u] = a /\ address'[v] = a /\ \E b \in DOMAIN queues' : Before(queues'[b], u, v)
    BY <1>1 DEF QueueOk
  <2>2. \E c \in DOMAIN queues : Before(queues[c], u, v)
    BY <2>1
  <2>3. u \in Range(QueueOf(a)') /\ v \in Range(QueueOf(a)')
    BY DEF Before, Range
  <2>4. address[u] = a /\ address[v] = a
    BY <1>1, <1>2, <2>3 DEF QueueOk
  <2> QED
    BY <1>1, <2>2, <2>4 DEF QueueOk
<1> QED
  BY <1>1, <1>2, <1>3, SameOrder DEF QueueOk

(* How callers see a thread.                                               *)
StatusOf(t) ==
    IF OnAQueue(t) THEN "parked"
    ELSE IF park[t] = NoPark \/ frame[t].op = "enqueue" \/ frame[t].didFind THEN "out"
    ELSE "unparked"

Unseen ==
    /\ \A a \in Addresses : QueueOf(a)' = QueueOf(a)
    /\ \A u \in Threads : StatusOf(u)' = StatusOf(u)

LEMMA OnQueued == TableInv => \A t \in Threads : OnAQueue(t) <=> Queued(t)
  BY ContainsFacts

SeenQueued == \A t \in Threads : OnAQueue(t) <=> Queued(t)

LEMMA SeenAfter == (TableInv => SeenQueued) /\ (TableInv' => SeenQueued')
<1>1. TableInv => SeenQueued
  BY OnQueued DEF SeenQueued
<1>2. TableInv' => SeenQueued'
  BY <1>1, PTL
<1> QED
  BY <1>1, <1>2

LEMMA StatusFacts ==
    ASSUME TableInv, TableInv', NEW u \in Threads
    PROVE  /\ StatusOf(u) = IF Queued(u) THEN "parked" ELSE IF ~Waiting(u) \/ frame[u].didFind THEN "out" ELSE "unparked"
           /\ StatusOf(u)' = IF Queued(u)' THEN "parked" ELSE IF ~Waiting(u)' \/ frame'[u].didFind THEN "out" ELSE "unparked"
<1>1. (OnAQueue(u) <=> Queued(u)) /\ (OnAQueue(u)' <=> Queued(u)')
  BY SeenAfter DEF SeenQueued
<1> QED
  BY <1>1 DEF StatusOf, Waiting

LEMMA FindFacts ==
    ASSUME TableInv, NEW t \in Threads
    PROVE  frame[t].didFind \in BOOLEAN /\ (pc[t] # "clearAddress" => frame[t].didFind = FALSE)
  BY DEF TableInv, TypeOK, ThreadType, Frames, ControlInv, ControlOf

NoFindInv == \A t \in Threads : frame[t].didFind \in BOOLEAN /\ (pc[t] # "clearAddress" => frame[t].didFind = FALSE)

LEMMA FindAfter == (TableInv => NoFindInv) /\ (TableInv' => NoFindInv')
<1>1. TableInv => NoFindInv
  BY FindFacts DEF NoFindInv
<1>2. TableInv' => NoFindInv'
  BY <1>1, PTL
<1> QED
  BY <1>1, <1>2

LEMMA AddedQueues ==
    ASSUME TableInv, ParkInv, TableInv', ParkInv', QueuesAdded, \A u \in Threads : Queued(u) => address'[u] = address[u]
    PROVE  (\A a \in Addresses : QueueOf(a)' = QueueOf(a)) /\ \A u \in Threads : Queued(u)' <=> Queued(u)
<1>1. \A b \in DOMAIN queues' : \A u \in Range(queues'[b]) : b \in DOMAIN queues /\ u \in Range(queues[b])
  BY EmptyQueue DEF QueuesAdded
<1>2. \A u \in Threads : Queued(u)' <=> Queued(u)
  BY <1>1 DEF Queued, QueuesAdded
<1>3. ASSUME NEW a \in Addresses PROVE QueueOf(a)' = QueueOf(a)
  <2>1. \A u \in Threads : Queued(u)' /\ address'[u] = a <=> Queued(u) /\ address[u] = a
    BY <1>2
  <2>2. \A b \in DOMAIN queues' : \A u, v \in Threads : Before(queues'[b], u, v) => \E c \in DOMAIN queues : Before(queues[c], u, v)
    <3> SUFFICES ASSUME NEW b \in DOMAIN queues', NEW u \in Threads, NEW v \in Threads, Before(queues'[b], u, v)
                 PROVE  b \in DOMAIN queues /\ queues'[b] = queues[b]
      OBVIOUS
    <3>1. u \in Range(queues'[b])
      BY DEF Before, Range
    <3> QED
      BY <1>1, <3>1 DEF QueuesAdded
  <2> QED
    BY <2>1, <2>2, QueueOfKept DEF ParkInv
<1> QED
  BY <1>2, <1>3

LEMMA AddedUnseen ==
    ASSUME TableInv, ParkInv, TableInv', ParkInv', QueuesAdded,
           \A u \in Threads : Queued(u) => address'[u] = address[u],
           \A u \in Threads : (Waiting(u)' <=> Waiting(u)) /\ frame'[u].didFind = frame[u].didFind
    PROVE  Unseen
  BY AddedQueues, StatusFacts DEF Unseen

LEMMA QuietUnseen ==
    ASSUME TableInv, ParkInv, TableInv', ParkInv', NEW t \in Threads, Quiet(t), QueuesAdded
    PROVE  Unseen
<1>1. \A u \in Threads : Queued(u) => address'[u] = address[u]
  BY DEF Quiet, Untouched
<1>2. \A u \in Threads \ {t} : (Waiting(u)' <=> Waiting(u)) /\ frame'[u].didFind = frame[u].didFind
  BY UntouchedFacts DEF Quiet, Untouched
<1>3. frame'[t].didFind = frame[t].didFind
  BY FindAfter DEF Quiet, NoFindInv
<1>4. Waiting(t)' <=> Waiting(t)
  BY DEF Quiet
<1> QED
  BY <1>1, <1>2, <1>3, <1>4, AddedUnseen

LEMMA RehashUnseen ==
    ASSUME TableInv, ParkInv, AddressSpace, TableInv', ParkInv', NEW t \in Threads, Quiet(t), Rehashes(t)
    PROVE  Unseen
<1>1. QueuedInv /\ QueuedInv' /\ hashtable # 0 /\ Grown /\ address' = address /\ frame' = frame /\ park' = park
  BY DEF ParkInv, Rehashes, EnsureHashtableSize
<1>2. \A u \in Threads : Queued(u) => QueuedOk(u)'
  <2>1. \A u \in Threads : Queued(u) => QueuedOk(u)
    BY DEF ParkInv, QueuedInv, Queued
  <2> QED
    BY <2>1, UntouchedFacts DEF Quiet, QueuedOk
<1>3. PICK new, m : HasRehashed(t, new, m)
  BY DEF Rehashes
<1>4. /\ \A u \in Threads : Queued(u)' <=> Queued(u)
      /\ \A b \in DOMAIN queues' : \A u, v : Before(queues'[b], u, v) => Before(OldThreads, u, v)
  BY <1>1, <1>2, <1>3, RehashQueued
<1>5. \A b \in DOMAIN queues : \A u, v \in Range(queues[b]) : Before(OldThreads, u, v) => Before(queues[b], u, v)
  BY <1>1, OldThreadsQueued
<1>6. ASSUME NEW a \in Addresses PROVE QueueOf(a)' = QueueOf(a)
  <2>1. \A u \in Threads : Queued(u)' /\ address'[u] = a <=> Queued(u) /\ address[u] = a
    BY <1>1, <1>4
  <2>2. ASSUME NEW b \in DOMAIN queues', NEW u \in Threads, NEW v \in Threads,
               Before(queues'[b], u, v), address'[u] = a, address'[v] = a
        PROVE  \E c \in DOMAIN queues : Before(queues[c], u, v)
    <3>1. u \in Range(queues'[b]) /\ v \in Range(queues'[b])
      BY <2>2 DEF Before, Range
    <3>2. Queued(u) /\ Queued(v) /\ address[u] = a /\ address[v] = a
      BY <1>1, <1>4, <2>2, <3>1 DEF Queued
    <3>3. PICK c \in DOMAIN queues : u \in Range(queues[c])
      BY <3>2 DEF Queued
    <3>4. PICK e \in DOMAIN queues : v \in Range(queues[e])
      BY <3>2 DEF Queued
    <3>5. c = e
      BY <1>1, <3>2, <3>3, <3>4 DEF QueuedInv, Leads
    <3>6. Before(queues[c], u, v)
      BY <1>4, <1>5, <2>2, <3>3, <3>4, <3>5
    <3> QED
      BY <3>6
  <2> QED
    BY <1>1, <2>1, <2>2, QueueOfKept
<1>7. \A u \in Threads : (Waiting(u)' <=> Waiting(u)) /\ frame'[u].didFind = frame[u].didFind
  BY <1>1 DEF Waiting
<1>8. \A u \in Threads : StatusOf(u)' = StatusOf(u)
  BY <1>4, <1>7, StatusFacts
<1> QED
  BY <1>6, <1>8 DEF Unseen

(* Waking the thread cannot be seen: it has been off the queue for long.   *)
LEMMA WakeUnseen ==
    ASSUME TableInv, ParkInv, TableInv', ParkInv', NEW t \in Threads, Wake(t) \/ Notify(t), UNCHANGED <<tables, queues>>
    PROVE  Unseen
<1>1. park' = park /\ \A u \in Threads : frame'[u].op = frame[u].op /\ frame'[u].didFind = frame[u].didFind
  <2>1. frame \in [Threads -> Frames] /\ frame[t] \in Frames
    BY MyType
  <2>2. CASE Wake(t)
    BY <2>2 DEF Wake
  <2>3. CASE Notify(t)
    BY <2>1, <2>3 DEF Notify, SetFrame, Frames
  <2> QED
    BY <2>2, <2>3
<1>2. QueuesAdded
  BY SameQueues
<1>3. \A u \in Threads : Queued(u) => address'[u] = address[u]
  <2>1. CASE Notify(t)
    BY <2>1 DEF Notify
  <2>2. CASE Wake(t)
    <3>1. ControlOf(t) /\ address \in [Threads -> Addresses \cup {Null}] /\ frame[t].dequeued \in Seq(Threads) /\ pc[t] = "wake"
      BY <2>2, MyType, HeldType DEF Wake, Step
    <3>2. PICK h : h = Head(frame[t].dequeued)
      OBVIOUS
    <3>3. h \in Range(Held(t)) /\ h \in Threads
      BY <3>1, <3>2, TailFacts DEF Held, ControlOf
    <3>4. ~Queued(h)
      BY <3>3 DEF ParkInv, HeldInv
    <3>5. \A u \in Threads \ {h} : address'[u] = address[u]
      BY <2>2, <3>1, <3>2 DEF Wake
    <3> QED
      BY <3>4, <3>5
  <2> QED
    BY <2>1, <2>2
<1>4. \A u \in Threads : (Waiting(u)' <=> Waiting(u)) /\ frame'[u].didFind = frame[u].didFind
  BY <1>1 DEF Waiting
<1> QED
  BY <1>2, <1>3, <1>4, AddedUnseen

(* A thread goes to the end of the queue of its address.                   *)
LEMMA JoinSeen ==
    ASSUME TableInv, ParkInv, TableInv', ParkInv', NEW t \in Threads, Joins(t), NEW c \in Addresses, c = frame[t].address
    PROVE  /\ QueueOf(c)' = Append(QueueOf(c), t)
           /\ \A a \in Addresses \ {c} : QueueOf(a)' = QueueOf(a)
           /\ StatusOf(t) = "out" /\ StatusOf(t)' = "parked"
           /\ \A u \in Threads \ {t} : StatusOf(u)' = StatusOf(u)
<1>2. PICK m : m = frame[t].bucket
  OBVIOUS
<1>3. pc[t] = "bucketLocked"
  BY DEF Joins, InBucket
<1>4. m \in DOMAIN queues /\ MyQueue(t) = queues[m] /\ queues[m] \in Seq(Threads)
  BY <1>2, <1>3, BucketLockedFacts DEF MyQueue
<1>5. Append(queues[m], t) \in Seq(Threads) /\ InBucket(t, {"enqueue"}, Append(queues[m], t))
  BY <1>4, AppendFacts DEF Joins
<1>6. /\ DOMAIN queues' = DOMAIN queues
      /\ \A b \in DOMAIN queues : queues'[b] = IF b = m THEN Append(queues[m], t) ELSE queues[b]
  BY <1>2, <1>5, InBucketGrows
<1>7. /\ ~Queued(t) /\ Queued(t)' /\ address'[t] = c
      /\ \A u \in Threads \ {t} : (Queued(u)' <=> Queued(u)) /\ address'[u] = address[u]
  BY DEF Joins, OthersStay, Untouched
<1>8. QueuesOk /\ QueuesOk' /\ QueuedInv /\ QueuedInv'
  BY QueueOfFacts, QueuesOkAfter DEF ParkInv
<1>9. \A b \in DOMAIN queues : \A u, v : Before(queues[b], u, v) => u # t /\ v # t /\ Queued(u) /\ Queued(v)
  BY <1>7 DEF Before, Range, Queued
<1>10. \A b \in DOMAIN queues : \A u, v : Before(queues'[b], u, v) =>
           Before(queues[b], u, v) \/ (v = t /\ u \in Range(queues[m]))
  <2>1. \A u, v : Before(Append(queues[m], t), u, v) <=> Before(queues[m], u, v) \/ (u \in Range(queues[m]) /\ v = t)
    BY <1>4, AppendOrder
  <2> SUFFICES ASSUME NEW b \in DOMAIN queues, NEW u, NEW v, Before(queues'[b], u, v)
               PROVE  Before(queues[b], u, v) \/ (v = t /\ u \in Range(queues[m]))
    OBVIOUS
  <2>2. CASE b = m
    <3>1. queues'[b] = Append(queues[m], t)
      BY <1>6, <2>2
    <3>2. Before(Append(queues[m], t), u, v)
      BY <3>1
    <3> QED
      BY <2>1, <2>2, <3>2
  <2>3. CASE b # m
    BY <1>6, <2>3
  <2> QED
    BY <2>2, <2>3
<1>11. QueueOf(c)' = Append(QueueOf(c), t)
  <2>1. QueueOk(c) /\ QueueOk(c)'
    BY <1>8 DEF QueuesOk
  <2>2. PICK x : x = QueueOf(c)
    OBVIOUS
  <2>3. PICK y : y = QueueOf(c)'
    OBVIOUS
  <2>4. /\ x \in Seq(Threads) /\ IsInjective(x) /\ y \in Seq(Threads) /\ IsInjective(y)
        /\ \A u : u \in Range(x) <=> u \in Threads /\ Queued(u) /\ address[u] = c
        /\ \A u : u \in Range(y) <=> u \in Threads /\ Queued(u)' /\ address'[u] = c
        /\ \A u, v : Before(x, u, v) <=> address[u] = c /\ address[v] = c /\ \E b \in DOMAIN queues : Before(queues[b], u, v)
        /\ \A u, v : Before(y, u, v) => address'[u] = c /\ address'[v] = c /\ \E b \in DOMAIN queues' : Before(queues'[b], u, v)
    BY <2>1, <2>2, <2>3 DEF QueueOk
  <2>5. /\ Append(x, t) \in Seq(Threads) /\ IsInjective(Append(x, t)) /\ Range(Append(x, t)) = Range(x) \cup {t}
    BY <1>7, <2>4, AppendFacts
  <2>6. Range(y) = Range(Append(x, t))
    BY <1>7, <2>4, <2>5
  <2>7. \A u, v : Before(Append(x, t), u, v) <=> Before(x, u, v) \/ (u \in Range(x) /\ v = t)
    BY <2>4, AppendOrder
  <2>8. ASSUME NEW u \in Threads, NEW v \in Threads, Before(y, u, v) PROVE Before(Append(x, t), u, v)
    <3>1. PICK b \in DOMAIN queues : address'[u] = c /\ address'[v] = c /\ Before(queues'[b], u, v)
      BY <1>6, <2>4, <2>8
    <3>2. CASE Before(queues[b], u, v)
      BY <1>7, <1>9, <2>4, <2>7, <3>1, <3>2
    <3>3. CASE v = t /\ u \in Range(queues[m])
      <4>1. Queued(u) /\ u # t
        BY <1>4, <1>7, <3>3 DEF Queued
      <4> QED
        BY <1>7, <2>4, <2>7, <3>1, <3>3, <4>1
    <3> QED
      BY <1>10, <3>1, <3>2, <3>3
  <2>9. y = Append(x, t)
    BY <2>4, <2>5, <2>6, <2>8, SameOrder
  <2> QED
    BY <2>2, <2>3, <2>9
<1>12. ASSUME NEW a \in Addresses, a # c PROVE QueueOf(a)' = QueueOf(a)
  <2>1. \A u \in Threads : Queued(u)' /\ address'[u] = a <=> Queued(u) /\ address[u] = a
    BY <1>7, <1>12
  <2>2. \A b \in DOMAIN queues' : \A u, v \in Threads :
            Before(queues'[b], u, v) /\ address'[u] = a /\ address'[v] = a => \E e \in DOMAIN queues : Before(queues[e], u, v)
    BY <1>6, <1>7, <1>10, <1>12
  <2> QED
    BY <1>8, <2>1, <2>2, QueueOfKept
<1>13. ~Waiting(t)
  BY DEF Joins, Waiting
<1>14. \A u \in Threads \ {t} : (Waiting(u)' <=> Waiting(u)) /\ frame'[u].didFind = frame[u].didFind
  BY UntouchedFacts DEF Joins, OthersStay, Untouched
<1>15. StatusOf(t) = "out" /\ StatusOf(t)' = "parked" /\ \A u \in Threads \ {t} : StatusOf(u)' = StatusOf(u)
  BY <1>7, <1>13, <1>14, StatusFacts
<1> QED
  BY <1>11, <1>12, <1>15

(* Threads leave the queue of an address, the others keep their order.     *)
LEMMA QueueOfShrinks ==
    ASSUME TableInv, ParkInv, TableInv', ParkInv', NEW a \in Addresses, NEW D, address' = address, DOMAIN queues' = DOMAIN queues,
           \A b \in DOMAIN queues : \A u, v : Before(queues'[b], u, v) => Before(queues[b], u, v),
           \A u \in Threads : Queued(u)' <=> Queued(u) /\ u \notin D
    PROVE  /\ QueueOf(a) \in Seq(Threads) /\ QueueOf(a)' \in Seq(Threads) /\ IsInjective(QueueOf(a)) /\ IsInjective(QueueOf(a)')
           /\ Range(QueueOf(a)') = Range(QueueOf(a)) \ D
           /\ \A u, v : Before(QueueOf(a)', u, v) => Before(QueueOf(a), u, v)
           /\ (\A u \in D : u \in Threads /\ Queued(u) => address[u] # a) => QueueOf(a)' = QueueOf(a)
<1>1. QueueOk(a) /\ QueueOk(a)'
  BY QueueOfFacts, QueuesOkAfter DEF ParkInv, QueuesOk
<1>2. PICK x : x = QueueOf(a)
  OBVIOUS
<1>3. PICK y : y = QueueOf(a)'
  OBVIOUS
<1>4. /\ x \in Seq(Threads) /\ IsInjective(x) /\ y \in Seq(Threads) /\ IsInjective(y)
      /\ \A u : u \in Range(x) <=> u \in Threads /\ Queued(u) /\ address[u] = a
      /\ \A u : u \in Range(y) <=> u \in Threads /\ Queued(u)' /\ address[u] = a
      /\ \A u, v : Before(x, u, v) <=> address[u] = a /\ address[v] = a /\ \E b \in DOMAIN queues : Before(queues[b], u, v)
      /\ \A u, v : Before(y, u, v) => address[u] = a /\ address[v] = a /\ \E b \in DOMAIN queues : Before(queues'[b], u, v)
  BY <1>1, <1>2, <1>3 DEF QueueOk
<1>5. Range(y) = Range(x) \ D
  BY <1>4
<1>6. \A u, v : Before(y, u, v) => Before(x, u, v)
  BY <1>4
<1>7. ASSUME \A u \in D : u \in Threads /\ Queued(u) => address[u] # a PROVE y = x
  <2>1. Range(y) = Range(x)
    BY <1>4, <1>5, <1>7
  <2> QED
    BY <1>4, <1>6, <2>1, SameOrder
<1> QED
  BY <1>2, <1>3, <1>4, <1>5, <1>6, <1>7

LEMMA NoElements ==
    ASSUME NEW T, NEW q \in Seq(T)
    PROVE  Range(q) = {} <=> q = <<>>
<1>1. q # <<>> => Head(q) \in Range(q)
  BY TailFacts
<1> QED
  BY <1>1, EmptyQueue

(* What an unpark call does to the queue of its address.                   *)
LEMMA TakeSeen ==
    ASSUME TableInv, ParkInv, TableInv', ParkInv', NEW t \in Threads, NEW q, NEW d, Takes(t, q, d), TakesOf(t, d),
           NEW c \in Addresses, c = frame[t].address
    PROVE  /\ \A a \in Addresses \ {c} : QueueOf(a)' = QueueOf(a)
           /\ \A u \in Threads : StatusOf(u)' = IF u \in Range(d) THEN "unparked" ELSE StatusOf(u)
           /\ d = <<>> <=> QueueOf(c) = <<>>
           /\ d = <<>> => Unseen
           /\ d # <<>> /\ frame[t].op = "unparkAll" => Range(d) = Range(QueueOf(c)) /\ QueueOf(c)' = <<>>
           /\ d # <<>> /\ frame[t].op # "unparkAll" => Range(d) = {Head(QueueOf(c))} /\ QueueOf(c)' = Tail(QueueOf(c))
           /\ queues'[frame[t].bucket] = <<>> => QueueOf(c)' = <<>>
<1>1. PICK ops : InBucket(t, ops, q)
  BY DEF Takes
<1>2. pc[t] = "bucketLocked"
  BY <1>1 DEF InBucket
<1>4. PICK m : m = frame[t].bucket
  OBVIOUS
<1>5. /\ q \in Seq(Threads) /\ d \in Seq(Threads) /\ address' = address /\ park' = park
      /\ \A u, v : Before(q, u, v) => Before(MyQueue(t), u, v)
      /\ \A u \in Range(d) : address[u] = c
      /\ Range(d) \subseteq Range(MyQueue(t))
  BY DEF Takes
<1>6. m \in DOMAIN queues /\ MyQueue(t) = queues[m] /\ queues[m] \in Seq(Threads)
  BY <1>2, <1>4, BucketLockedFacts DEF MyQueue
<1>7. /\ DOMAIN queues' = DOMAIN queues
      /\ \A b \in DOMAIN queues : queues'[b] = IF b = m THEN q ELSE queues[b]
  BY <1>1, <1>4, <1>5, InBucketGrows
<1>8. \A u \in Threads : Queued(u)' <=> Queued(u) /\ u \notin Range(d)
  BY TakeParks
<1>9. \A b \in DOMAIN queues : \A u, v : Before(queues'[b], u, v) => Before(queues[b], u, v)
  BY <1>5, <1>6, <1>7
<1>10. \A u \in Range(d) : u \in Threads /\ Queued(u) /\ Waiting(u) /\ pc[u] # "clearAddress"
  BY <1>2, <1>5, MyQueueFacts DEF QueuedOk
<1>11. \A u \in Threads : (Waiting(u)' <=> Waiting(u)) /\ frame'[u].didFind = frame[u].didFind
  <2>1. (Waiting(t)' <=> Waiting(t)) /\ frame'[t].didFind = FALSE /\ frame[t].didFind = FALSE
    BY <1>2, FindFacts DEF Waiting, Takes, UnparkCalls
  <2>2. \A u \in Threads \ {t} : (Waiting(u)' <=> Waiting(u)) /\ frame'[u].didFind = frame[u].didFind
    BY DEF Waiting, Takes
  <2> QED
    BY <2>1, <2>2
<1>12. ASSUME NEW u \in Threads PROVE StatusOf(u)' = IF u \in Range(d) THEN "unparked" ELSE StatusOf(u)
  <2>1. /\ StatusOf(u) = IF Queued(u) THEN "parked" ELSE IF ~Waiting(u) \/ frame[u].didFind THEN "out" ELSE "unparked"
        /\ StatusOf(u)' = IF Queued(u)' THEN "parked" ELSE IF ~Waiting(u)' \/ frame'[u].didFind THEN "out" ELSE "unparked"
    BY StatusFacts
  <2>2. u \in Range(d) => Waiting(u) /\ frame[u].didFind = FALSE
    BY <1>10, FindFacts
  <2> QED
    BY <1>8, <1>11, <2>1, <2>2
<1>13. \A a \in Addresses \ {c} : QueueOf(a)' = QueueOf(a)
  BY <1>5, <1>7, <1>8, <1>9, QueueOfShrinks
<1>14. PICK x : x = QueueOf(c)
  OBVIOUS
<1>15. PICK y : y = QueueOf(c)'
  OBVIOUS
<1>16. /\ x \in Seq(Threads) /\ y \in Seq(Threads) /\ IsInjective(x) /\ IsInjective(y)
       /\ Range(y) = Range(x) \ Range(d)
       /\ \A u, v : Before(y, u, v) => Before(x, u, v)
  BY <1>5, <1>7, <1>8, <1>9, <1>14, <1>15, QueueOfShrinks
<1>17. x = Selected(MyQueue(t), ParkedOn(frame[t].address))
  BY <1>2, <1>14, MyQueueOf
<1>18. \/ frame[t].op # "unparkAll" /\ d = IF x = <<>> THEN <<>> ELSE <<Head(x)>>
       \/ frame[t].op = "unparkAll" /\ d = x
  BY <1>17 DEF TakesOf, DequeueAll, InBucket
<1>19. d = <<>> <=> x = <<>>
  <2>1. <<Head(x)>> # <<>>
    OBVIOUS
  <2> QED
    BY <1>18, <2>1
<1>20. ASSUME d = <<>> PROVE Unseen
  <2>1. Range(d) = {}
    BY <1>20, EmptyQueue
  <2>2. Range(y) = Range(x)
    BY <1>16, <2>1
  <2>3. y = x
    BY <1>16, <2>2, SameOrder
  <2>4. \A u \in Threads : StatusOf(u)' = StatusOf(u)
    BY <1>12, <2>1
  <2> QED
    BY <1>13, <1>14, <1>15, <2>3, <2>4 DEF Unseen
<1>21. ASSUME d # <<>>, frame[t].op = "unparkAll" PROVE Range(d) = Range(x) /\ y = <<>>
  <2>1. Range(d) = Range(x) /\ Range(y) = {}
    BY <1>16, <1>18, <1>21
  <2> QED
    BY <1>16, <2>1, NoElements
<1>22. ASSUME d # <<>>, frame[t].op # "unparkAll" PROVE Range(d) = {Head(x)} /\ y = Tail(x)
  <2>1. x # <<>> /\ d = <<Head(x)>>
    BY <1>18, <1>22
  <2>2. PICK h : h = Head(x)
    OBVIOUS
  <2>3. Range(d) = {h} /\ d = <<h>>
    BY <2>1, <2>2 DEF Range
  <2>4. Tail(x) \in Seq(Threads) /\ IsInjective(Tail(x)) /\ Range(Tail(x)) = Range(x) \ {h}
    BY <1>16, <2>1, <2>2, TailFacts
  <2>5. Range(y) = Range(Tail(x))
    BY <1>16, <2>3, <2>4
  <2>6. ASSUME NEW u \in Threads, NEW v \in Threads, Before(y, u, v) PROVE Before(Tail(x), u, v)
    <3>1. Before(x, u, v) /\ u \in Range(y) /\ v \in Range(y)
      BY <1>16, <2>6 DEF Before, Range
    <3>2. u # h /\ v # h
      BY <1>16, <2>3, <3>1
    <3> QED
      BY <1>16, <2>1, <2>2, <3>1, <3>2, TailOrder
  <2>7. y = Tail(x)
    BY <1>16, <2>4, <2>5, <2>6, SameOrder
  <2> QED
    BY <2>2, <2>3, <2>7
<1>23. ASSUME queues'[m] = <<>> PROVE y = <<>>
  <2>1. \A u \in Threads : Queued(u)' => address[u] # c
    <3> SUFFICES ASSUME NEW u \in Threads, Queued(u)', address[u] = c PROVE FALSE
      OBVIOUS
    <3>1. PICK b \in DOMAIN queues : u \in Range(queues'[b])
      BY <1>7 DEF Queued
    <3>2. Leads(address[u], b)'
      BY <1>7, <3>1 DEF ParkInv, QueuedInv
    <3>3. UNCHANGED tables
      BY <1>1 DEF InBucket
    <3>4. Leads(c, b) /\ Leads(c, m)
      BY <1>2, <1>4, <1>5, <3>2, <3>3, MyQueueFacts DEF Leads, hashtable
    <3>5. b = m
      BY <3>4 DEF Leads
    <3> QED
      BY <1>23, <3>1, <3>5, EmptyQueue
  <2>2. QueueOk(c)'
    BY QueuesOkAfter DEF ParkInv, QueuesOk
  <2>3. Range(y) = {}
    BY <1>5, <1>15, <2>1, <2>2 DEF QueueOk
  <2> QED
    BY <1>16, <2>3, NoElements
<1> QED
  BY <1>4, <1>12, <1>13, <1>14, <1>15, <1>19, <1>20, <1>21, <1>22, <1>23

LEMMA GiveUpSeen ==
    ASSUME TableInv, ParkInv, TableInv', ParkInv', NEW t \in Threads, GivesUp(t), NEW c \in Addresses, c = frame[t].address
    PROVE  /\ Queued(t) => /\ \E i \in 1 .. Len(QueueOf(c)) : QueueOf(c)[i] = t /\ QueueOf(c)' = RemoveAt(QueueOf(c), i)
                           /\ \A a \in Addresses \ {c} : QueueOf(a)' = QueueOf(a)
                           /\ StatusOf(t) = "parked" /\ StatusOf(t)' = "out"
                           /\ \A u \in Threads \ {t} : StatusOf(u)' = StatusOf(u)
           /\ ~Queued(t) => Unseen
<1>1. PICK q : q = RemoveFirst(MyQueue(t), t)
  OBVIOUS
<1>2. pc[t] = "bucketLocked" /\ InBucket(t, {"dequeueMe"}, q) /\ address' = address /\ park' = park
  BY <1>1 DEF GivesUp, InBucket
<1>3. PICK m : m = frame[t].bucket
  OBVIOUS
<1>4. m \in DOMAIN queues /\ MyQueue(t) = queues[m] /\ queues[m] \in Seq(Threads) /\ IsInjective(queues[m])
  BY <1>2, <1>3, BucketLockedFacts, MyQueueFacts DEF MyQueue
<1>5. q \in Seq(Threads) /\ \A u, v : Before(q, u, v) => Before(queues[m], u, v)
  BY <1>1, <1>4, RemoveFirstOrder
<1>6. /\ DOMAIN queues' = DOMAIN queues
      /\ \A b \in DOMAIN queues : queues'[b] = IF b = m THEN q ELSE queues[b]
  BY <1>2, <1>3, <1>5, InBucketGrows
<1>7. \A b \in DOMAIN queues : \A u, v : Before(queues'[b], u, v) => Before(queues[b], u, v)
  BY <1>5, <1>6
<1>8. \A u \in Threads : Queued(u)' <=> Queued(u) /\ u \notin {t}
  BY DEF GivesUp, OthersStay
<1>9. \A u \in Threads \ {t} : (Waiting(u)' <=> Waiting(u)) /\ frame'[u].didFind = frame[u].didFind
  BY UntouchedFacts DEF GivesUp, OthersStay, Untouched
<1>10. (Waiting(t)' <=> Waiting(t)) /\ frame[t].didFind = FALSE /\ (frame'[t].didFind <=> Queued(t))
  <2>1. Contains(MyQueue(t), t) <=> t \in Range(MyQueue(t))
    BY <1>4, RemoveFirstFacts
  <2>2. frame[t].didFind = FALSE
    BY <1>2, FindFacts
  <2> QED
    BY <2>1, <2>2 DEF GivesUp, Waiting
<1>11. \A u \in Threads \ {t} : StatusOf(u)' = StatusOf(u)
  BY <1>8, <1>9, StatusFacts
<1>12. CASE Queued(t)
  <2>1. StatusOf(t) = "parked" /\ StatusOf(t)' = "out"
    BY <1>8, <1>10, <1>12, StatusFacts
  <2>2. address[t] = c
    BY <1>12 DEF GivesUp
  <2>3. \A a \in Addresses \ {c} : QueueOf(a)' = QueueOf(a)
    BY <1>2, <1>6, <1>7, <1>8, <2>2, QueueOfShrinks
  <2>4. PICK x : x = QueueOf(c)
    OBVIOUS
  <2>5. PICK y : y = QueueOf(c)'
    OBVIOUS
  <2>6. /\ x \in Seq(Threads) /\ y \in Seq(Threads) /\ IsInjective(x) /\ IsInjective(y)
        /\ Range(y) = Range(x) \ {t}
        /\ \A u, v : Before(y, u, v) => Before(x, u, v)
    BY <1>2, <1>6, <1>7, <1>8, <2>4, <2>5, QueueOfShrinks
  <2>7. t \in Range(x)
    <3>1. QueueOk(c)
      BY QueueOfFacts DEF ParkInv, QueuesOk
    <3> QED
      BY <1>12, <2>2, <2>4, <3>1 DEF QueueOk
  <2>8. PICK i \in 1 .. Len(x) : x[i] = t
    BY <2>6, <2>7, LenProperties DEF Range
  <2>9. /\ RemoveAt(x, i) \in Seq(Threads) /\ IsInjective(RemoveAt(x, i)) /\ Range(RemoveAt(x, i)) = Range(x) \ {t}
    BY <2>6, <2>8, RemoveAtFacts
  <2>10. \A u, v : Before(RemoveAt(x, i), u, v) => Before(x, u, v)
    BY <2>6, RemoveAtOrder
  <2>11. y = RemoveAt(x, i)
    BY <2>6, <2>9, <2>10, SameSelection
  <2>12. \E j \in 1 .. Len(QueueOf(c)) : QueueOf(c)[j] = t /\ QueueOf(c)' = RemoveAt(QueueOf(c), j)
    BY <2>4, <2>5, <2>8, <2>11
  <2> QED
    BY <1>11, <1>12, <2>1, <2>3, <2>12
<1>13. CASE ~Queued(t)
  <2>1. StatusOf(t)' = StatusOf(t)
    BY <1>8, <1>10, <1>13, StatusFacts
  <2>2. \A a \in Addresses : QueueOf(a)' = QueueOf(a)
    BY <1>2, <1>6, <1>7, <1>8, <1>13, QueueOfShrinks
  <2> QED
    BY <1>11, <1>13, <2>1, <2>2 DEF Unseen
<1> QED
  BY <1>12, <1>13

LEMMA LeaveSeen ==
    ASSUME TableInv, ParkInv, TableInv', ParkInv', NEW t \in Threads, Leaves(t), UNCHANGED <<tables, queues>>
    PROVE  /\ \A a \in Addresses : QueueOf(a)' = QueueOf(a)
           /\ StatusOf(t) \in {"unparked", "out"} /\ StatusOf(t)' = "out"
           /\ \A u \in Threads \ {t} : StatusOf(u)' = StatusOf(u)
<1>1. QueuesAdded
  BY SameQueues
<1>2. \A u \in Threads : Queued(u) => address'[u] = address[u]
  BY DEF Leaves, Untouched
<1>3. (\A a \in Addresses : QueueOf(a)' = QueueOf(a)) /\ \A u \in Threads : Queued(u)' <=> Queued(u)
  BY <1>1, <1>2, AddedQueues
<1>4. \A u \in Threads \ {t} : (Waiting(u)' <=> Waiting(u)) /\ frame'[u].didFind = frame[u].didFind
  BY UntouchedFacts DEF Leaves, Untouched
<1>5. ~Waiting(t)' /\ ~Queued(t)
  BY DEF Leaves, Waiting
<1>6. \A u \in Threads \ {t} : StatusOf(u)' = StatusOf(u)
  BY <1>3, <1>4, StatusFacts
<1>7. StatusOf(t) \in {"unparked", "out"} /\ StatusOf(t)' = "out"
  BY <1>3, <1>5, StatusFacts
<1> QED
  BY <1>3, <1>6, <1>7

(* The steps as their callers see them.                                    *)
Visible(t) ==
    \/ Quiet(t) /\ (QueuesAdded \/ Rehashes(t))
    \/ (Wake(t) \/ Notify(t)) /\ UNCHANGED <<tables, queues>>
    \/ Leaves(t) /\ UNCHANGED <<tables, queues>>
    \/ Joins(t)
    \/ GivesUp(t)
    \/ \E q, d : Takes(t, q, d) /\ TakesOf(t, d)

LEMMA Classified ==
    ASSUME AddressSpace, ParksOnce, TableInv, ParkInv, NEW t \in Threads, Call(t) \/ Run(t) \/ WakeUp(t)
    PROVE  Visible(t)
<1>1. CASE Call(t)
  BY <1>1, CallParks DEF Visible
<1>2. CASE Construct(t) \/ CheckSize(t) \/ LockTable(t) \/ LockNext(t) \/ EnsureHashtableSize(t) \/ ForEachWalk(t)
               \/ LoadTable(t) \/ LockBucket(t)
  BY <1>2, TableParks, TableQuiet DEF Visible
<1>3. CASE LoadBucket(t)
  BY <1>3, LoadBucketParks DEF Visible
<1>4. CASE Enqueue(t)
  BY <1>4, EnqueueParks, BucketSteps, SameQueues DEF Visible
<1>5. CASE DequeueOne(t) \/ DequeueAll(t)
  BY <1>5, Taken DEF Visible
<1>6. CASE DequeueMe(t)
  BY <1>6, DequeueMeParks DEF Visible
<1>7. CASE Wake(t) \/ Notify(t)
  BY <1>7, OtherSteps DEF Visible, table
<1>8. CASE BeforeSleep(t) \/ WakeUp(t) \/ CheckAddress(t) \/ ClearAddress(t)
  <2>1. TableInv'
    BY <1>8, OtherSteps
  <2> QED
    BY <1>8, <2>1, SleepParks, SameQueues DEF Visible
<1> QED
  BY <1>1, <1>2, <1>3, <1>4, <1>5, <1>6, <1>7, <1>8 DEF Run

-----------------------------------------------------------------------------
(***************************************************************************)
(* ParkingLot implements ParkingQueues.                                    *)
(***************************************************************************)

Queue == [a \in Addresses |-> QueueOf(a)]
Status == [t \in Threads |-> StatusOf(t)]

LEMMA Mapped ==
    /\ \A a \in Addresses : Queue[a] = QueueOf(a) /\ Queue'[a] = QueueOf(a)'
    /\ \A t \in Threads : Status[t] = StatusOf(t) /\ Status'[t] = StatusOf(t)'
    /\ Queue = [a \in Addresses |-> Queue[a]] /\ Queue' = [a \in Addresses |-> Queue'[a]]
    /\ Status = [t \in Threads |-> Status[t]] /\ Status' = [t \in Threads |-> Status'[t]]
  BY DEF Queue, Status

(* The steps of ParkingQueues, in terms of Queue and Status.               *)
LEMMA AbstractSteps ==
    /\ \A t \in Threads, a \in Addresses :
           Status[t] = "out" /\ Status' = [Status EXCEPT ![t] = "parked"] /\ Queue' = [Queue EXCEPT ![a] = Append(@, t)] => P!Next
    /\ \A a \in Addresses :
           /\ Queue[a] # <<>> /\ Status' = [Status EXCEPT ![Head(Queue[a])] = "unparked"] /\ Queue' = [Queue EXCEPT ![a] = Tail(@)]
           => P!Next
    /\ \A a \in Addresses :
           /\ Queue[a] # <<>> /\ Status' = [t \in Threads |-> IF t \in Range(Queue[a]) THEN "unparked" ELSE Status[t]]
           /\ Queue' = [Queue EXCEPT ![a] = <<>>]
           => P!Next
    /\ \A t \in Threads : Status[t] = "unparked" /\ Status' = [Status EXCEPT ![t] = "out"] /\ Queue' = Queue => P!Next
    /\ \A t \in Threads, a \in Addresses : \A i \in 1 .. Len(Queue[a]) :
           /\ Status[t] = "parked" /\ Queue[a][i] = t /\ Status' = [Status EXCEPT ![t] = "out"]
           /\ Queue' = [Queue EXCEPT ![a] = RemoveAt(@, i)]
           => P!Next
<1>1. \A t \in Threads, a \in Addresses :
          Status[t] = "out" /\ Status' = [Status EXCEPT ![t] = "parked"] /\ Queue' = [Queue EXCEPT ![a] = Append(@, t)] => P!Park(t, a)
  BY Zenon DEF Queue, Status, StatusOf, P!Park
<1>2. \A a \in Addresses :
          /\ Queue[a] # <<>> /\ Status' = [Status EXCEPT ![Head(Queue[a])] = "unparked"] /\ Queue' = [Queue EXCEPT ![a] = Tail(@)]
          => P!UnparkOne(a)
  BY Zenon DEF Queue, Status, StatusOf, P!UnparkOne
<1>3. \A a \in Addresses :
          /\ Queue[a] # <<>> /\ Status' = [t \in Threads |-> IF t \in Range(Queue[a]) THEN "unparked" ELSE Status[t]]
          /\ Queue' = [Queue EXCEPT ![a] = <<>>]
          => P!UnparkAll(a)
  BY Zenon DEF Queue, Status, StatusOf, P!UnparkAll, P!Range, Range
<1>4. \A t \in Threads : Status[t] = "unparked" /\ Status' = [Status EXCEPT ![t] = "out"] /\ Queue' = Queue => P!Return(t)
  BY Zenon DEF Queue, Status, StatusOf, P!Return
<1>5. \A t \in Threads, a \in Addresses : \A i \in 1 .. Len(Queue[a]) :
          /\ Status[t] = "parked" /\ Queue[a][i] = t /\ Status' = [Status EXCEPT ![t] = "out"]
          /\ Queue' = [Queue EXCEPT ![a] = RemoveAt(@, i)]
          => P!TimeOut(t, a)
  BY Zenon DEF Queue, Status, StatusOf, P!TimeOut, P!RemoveAt, RemoveAt
<1> QED
  BY <1>1, <1>2, <1>3, <1>4, <1>5, Zenon DEF P!Next

LEMMA UnseenStutters ==
    ASSUME Unseen
    PROVE  Queue' = Queue /\ Status' = Status
<1>1. \A a \in Addresses : Queue'[a] = Queue[a]
  BY Mapped DEF Unseen
<1>2. \A t \in Threads : Status'[t] = Status[t]
  BY Mapped DEF Unseen
<1> QED
  BY <1>1, <1>2, Mapped

LEMMA ImplementsStep ==
    ASSUME AddressSpace, ParksOnce, TableInv, ParkInv, TableInv', ParkInv', NEW t \in Threads, Visible(t)
    PROVE  P!Next \/ (Queue' = Queue /\ Status' = Status)
<1> USE Mapped
<1>1. CASE Quiet(t) /\ (QueuesAdded \/ Rehashes(t))
  BY <1>1, QuietUnseen, RehashUnseen, UnseenStutters
<1>2. CASE (Wake(t) \/ Notify(t)) /\ UNCHANGED <<tables, queues>>
  BY <1>2, WakeUnseen, UnseenStutters
<1>3. CASE Leaves(t) /\ UNCHANGED <<tables, queues>>
  <2>1. /\ \A a \in Addresses : QueueOf(a)' = QueueOf(a)
        /\ StatusOf(t) \in {"unparked", "out"} /\ StatusOf(t)' = "out"
        /\ \A u \in Threads \ {t} : StatusOf(u)' = StatusOf(u)
    BY <1>3, LeaveSeen
  <2>2. Queue' = Queue
    BY <2>1
  <2>3. CASE StatusOf(t) = "out"
    <3>1. Status' = Status
      BY <2>1, <2>3
    <3> QED
      BY <2>2, <3>1
  <2>4. CASE StatusOf(t) = "unparked"
    <3>1. Status[t] = "unparked" /\ Status' = [Status EXCEPT ![t] = "out"]
      BY <2>1, <2>4
    <3> QED
      BY <2>2, <3>1, AbstractSteps
  <2> QED
    BY <2>1, <2>3, <2>4
<1>4. CASE Joins(t)
  <2>1. PICK c \in Addresses : c = frame[t].address
    BY <1>4 DEF Joins
  <2>2. /\ QueueOf(c)' = Append(QueueOf(c), t)
        /\ \A a \in Addresses \ {c} : QueueOf(a)' = QueueOf(a)
        /\ StatusOf(t) = "out" /\ StatusOf(t)' = "parked"
        /\ \A u \in Threads \ {t} : StatusOf(u)' = StatusOf(u)
    BY <1>4, <2>1, JoinSeen
  <2>3. Queue' = [Queue EXCEPT ![c] = Append(@, t)]
    BY <2>2
  <2>4. Status[t] = "out" /\ Status' = [Status EXCEPT ![t] = "parked"]
    BY <2>2
  <2> QED
    BY <2>3, <2>4, AbstractSteps
<1>5. CASE GivesUp(t)
  <2>1. PICK c \in Addresses : c = frame[t].address
    BY <1>5, BucketLockedFacts DEF GivesUp, InBucket
  <2>2. CASE ~Queued(t)
    BY <1>5, <2>1, <2>2, GiveUpSeen, UnseenStutters
  <2>3. CASE Queued(t)
    <3>1. /\ \A a \in Addresses \ {c} : QueueOf(a)' = QueueOf(a)
          /\ StatusOf(t) = "parked" /\ StatusOf(t)' = "out"
          /\ \A u \in Threads \ {t} : StatusOf(u)' = StatusOf(u)
      BY <1>5, <2>1, <2>3, GiveUpSeen
    <3>2. PICK i \in 1 .. Len(QueueOf(c)) : QueueOf(c)[i] = t /\ QueueOf(c)' = RemoveAt(QueueOf(c), i)
      BY <1>5, <2>1, <2>3, GiveUpSeen
    <3>3. Queue' = [Queue EXCEPT ![c] = RemoveAt(@, i)]
      BY <3>1, <3>2
    <3>4. Status[t] = "parked" /\ Status' = [Status EXCEPT ![t] = "out"]
      BY <3>1
    <3>5. i \in 1 .. Len(Queue[c]) /\ Queue[c][i] = t
      BY <3>2
    <3> QED
      BY <3>3, <3>4, <3>5, AbstractSteps
  <2> QED
    BY <2>2, <2>3
<1>6. CASE \E q, d : Takes(t, q, d) /\ TakesOf(t, d)
  <2>1. PICK q, d : Takes(t, q, d) /\ TakesOf(t, d)
    BY <1>6
  <2>2. PICK c \in Addresses : c = frame[t].address
    BY <2>1, BucketLockedFacts DEF Takes, InBucket
  <2>3. CASE d = <<>>
    BY <2>1, <2>2, <2>3, TakeSeen, UnseenStutters
  <2>4. CASE d # <<>>
    <3>1. /\ \A a \in Addresses \ {c} : QueueOf(a)' = QueueOf(a)
          /\ \A u \in Threads : StatusOf(u)' = IF u \in Range(d) THEN "unparked" ELSE StatusOf(u)
          /\ QueueOf(c) # <<>>
          /\ frame[t].op = "unparkAll" => Range(d) = Range(QueueOf(c)) /\ QueueOf(c)' = <<>>
          /\ frame[t].op # "unparkAll" => Range(d) = {Head(QueueOf(c))} /\ QueueOf(c)' = Tail(QueueOf(c))
      BY <2>1, <2>2, <2>4, TakeSeen
    <3>2. Queue[c] # <<>>
      BY <3>1
    <3>3. CASE frame[t].op = "unparkAll"
      <4>1. Queue' = [Queue EXCEPT ![c] = <<>>]
        BY <3>1, <3>3
      <4>2. Status' = [u \in Threads |-> IF u \in Range(Queue[c]) THEN "unparked" ELSE Status[u]]
        BY <3>1, <3>3
      <4> QED
        BY <3>2, <4>1, <4>2, AbstractSteps
    <3>4. CASE frame[t].op # "unparkAll"
      <4>1. Queue' = [Queue EXCEPT ![c] = Tail(@)]
        BY <3>1, <3>4
      <4>2. PICK h : h = Head(Queue[c])
        OBVIOUS
      <4>3. \A u \in Threads : Status'[u] = IF u = h THEN "unparked" ELSE Status[u]
        BY <3>1, <3>4, <4>2
      <4>4. Status' = [Status EXCEPT ![h] = "unparked"]
        BY <4>3
      <4>5. Status' = [Status EXCEPT ![Head(Queue[c])] = "unparked"]
        BY <4>2, <4>4
      <4> QED
        BY <3>2, <4>1, <4>5, AbstractSteps
    <3> QED
      BY <3>3, <3>4
  <2> QED
    BY <2>3, <2>4
<1> QED
  BY <1>1, <1>2, <1>3, <1>4, <1>5, <1>6 DEF Visible

LEMMA ImplementsInit == Init => P!Init
<1> SUFFICES ASSUME Init PROVE P!Init
  OBVIOUS
<1>1. \A a : QueueOf(a) = <<>>
  BY DEF Init, QueueOf
<1>2. \A t \in Threads : ~OnAQueue(t) /\ park[t] = NoPark
  BY DEF Init, OnAQueue
<1> QED
  BY <1>1, <1>2 DEF P!Init

LEMMA ImplementsNext ==
    AddressSpace /\ ParksOnce /\ TableInv /\ ParkInv /\ [Next]_vars => [P!Next]_<<Queue, Status>>
<1> SUFFICES ASSUME AddressSpace, ParksOnce, TableInv, ParkInv, [Next]_vars PROVE [P!Next]_<<Queue, Status>>
  OBVIOUS
<1>1. CASE UNCHANGED vars
  BY <1>1 DEF vars, table, Queue, Status, StatusOf, QueueOf, OnAQueue, OnQueue, hashtable, Index, Size, ParkedOn
<1>2. CASE Next
  <2>1. PICK t \in Threads : Call(t) \/ Run(t) \/ WakeUp(t)
    BY <1>2 DEF Next
  <2>2. TableInv' /\ ParkInv'
    BY TableNext, ParkNext
  <2>3. Visible(t)
    BY <2>1, Classified
  <2> QED
    BY <2>2, <2>3, ImplementsStep
<1> QED
  BY <1>1, <1>2

(* What callers can rely on: every address has a first-in, first-out queue *)
(* of parked threads, of which a thread leaves by being unparked or by its *)
(* timeout. Hash table, buckets, rehashing and waking are invisible.       *)
THEOREM Implements == AddressSpace /\ ParksOnce => (Spec => ImplementsParkingQueues)
<1> SUFFICES ASSUME AddressSpace /\ ParksOnce PROVE Spec => ImplementsParkingQueues
  OBVIOUS
<1>1. Init => P!Init
  BY ImplementsInit
<1>2. TableInv /\ ParkInv /\ [Next]_vars => [P!Next]_<<Queue, Status>>
  BY ImplementsNext
<1>3. Spec => [](TableInv /\ ParkInv)
  BY ParkSound
<1>4. Spec => P!Init /\ [][P!Next]_<<Queue, Status>>
  BY <1>1, <1>2, <1>3, PTL DEF Spec
<1>5. P!Init /\ [][P!Next]_<<Queue, Status>> => ImplementsParkingQueues
  BY DEF ImplementsParkingQueues, P!Spec, Queue, Status, StatusOf
<1> QED
  BY <1>4, <1>5, PTL

-----------------------------------------------------------------------------
(***************************************************************************)
(* What the calls report.                                                  *)
(***************************************************************************)

(* Whoever found itself on its queue when its time was over is in nobody's *)
(* hands.                                                                  *)
FoundInv == \A t \in Threads : frame[t].didFind => ~HasUnparker(t)

LEMMA FoundStep ==
    ASSUME TableInv, ParkInv, TableInv', ParkInv', FoundInv, NEW t \in Threads, Visible(t)
    PROVE  FoundInv'
<1>1. CASE \/ Quiet(t) \/ Leaves(t) \/ Joins(t)
  <2>1. /\ \A u \in Threads \ {t} : Untouched(u)
        /\ pc[t] \notin {"wake", "notify"} /\ pc'[t] \notin {"wake", "notify"}
    BY <1>1 DEF Quiet, Leaves, Joins, OthersStay, InBucket
  <2>2. Held(t)' = Held(t)
    BY <2>1 DEF Held
  <2>3. \A u : HasUnparker(u)' <=> HasUnparker(u)
    BY <2>1, <2>2, HandsKept
  <2>4. frame'[t].didFind => frame[t].didFind
    <3>1. pc'[t] = "clearAddress" => frame' = frame
      BY <1>1 DEF Quiet, Leaves, Joins
    <3> QED
      BY <3>1, FindAfter DEF NoFindInv
  <2> QED
    BY <2>1, <2>3, <2>4 DEF FoundInv, Untouched
<1>2. CASE Wake(t) \/ Notify(t)
  <2>1. frame \in [Threads -> Frames] /\ frame[t] \in Frames /\ pc \in [Threads -> Labels] /\ ControlOf(t)
    BY MyType
  <2>2. \A u \in Threads : frame'[u].didFind = frame[u].didFind
    <3>1. CASE Wake(t)
      BY <3>1 DEF Wake
    <3>2. CASE Notify(t)
      BY <2>1, <3>2 DEF Notify, SetFrame, Frames
    <3> QED
      BY <1>2, <3>1, <3>2
  <2>3. \A u \in Threads : Range(Held(u)') \subseteq Range(Held(u))
    <3>1. CASE Wake(t)
      <4>1. /\ pc[t] = "wake" /\ pc'[t] = "notify" /\ frame' = frame /\ \A u \in Threads \ {t} : pc'[u] = pc[u]
        BY <2>1, <3>1 DEF Wake, Step, Goto
      <4>2. frame[t].dequeued \in Seq(Threads) /\ frame[t].dequeued # <<>>
        BY <2>1, <4>1, HeldType DEF ControlOf
      <4>3. Range(Tail(frame[t].dequeued)) \subseteq Range(frame[t].dequeued)
        BY <4>2, TailFacts
      <4> QED
        BY <4>1, <4>3 DEF Held
    <3>2. CASE Notify(t)
      <4>1. PICK d : d = frame[t].dequeued
        OBVIOUS
      <4>2. PICK back : back = IF Tail(d) # <<>> THEN "wake" ELSE IF park[t] = NoPark THEN "idle" ELSE "beforeSleep"
        OBVIOUS
      <4>3. pc[t] = "notify" /\ pc' = [pc EXCEPT ![Head(d)] = IF @ = "asleep" THEN "checkAddress" ELSE @, ![t] = back]
        BY <3>2, <4>1, <4>2 DEF Notify
      <4>4. frame'[t].dequeued = Tail(d) /\ \A u \in Threads \ {t} : frame'[u] = frame[u]
        BY <2>1, <3>2, <4>1 DEF Notify, SetFrame, Frames
      <4>5. pc'[t] = back /\ \A u \in Threads \ {t} : pc'[u] = pc[u] \/ (pc[u] = "asleep" /\ pc'[u] = "checkAddress")
        BY <2>1, <4>3
      <4>6. Held(t)' = Held(t)
        <5>1. back \in {"wake", "idle", "beforeSleep"} /\ (back = "wake" <=> Tail(d) # <<>>)
          BY <4>2
        <5>2. Held(t) = Tail(d)
          BY <4>1, <4>3 DEF Held
        <5> QED
          BY <4>4, <4>5, <5>1, <5>2 DEF Held
      <4>7. \A u \in Threads \ {t} : Held(u)' = Held(u)
        BY <4>4, <4>5 DEF Held
      <4> QED
        BY <4>6, <4>7
    <3> QED
      BY <1>2, <3>1, <3>2
  <2>4. \A u : HasUnparker(u)' => HasUnparker(u)
    BY <2>3 DEF HasUnparker
  <2> QED
    BY <2>2, <2>4 DEF FoundInv
<1>3. CASE GivesUp(t)
  <2>1. /\ \A u \in Threads \ {t} : Untouched(u)
        /\ pc[t] \notin {"wake", "notify"} /\ pc'[t] \notin {"wake", "notify"}
    BY <1>3 DEF GivesUp, OthersStay, InBucket
  <2>2. Held(t)' = Held(t)
    BY <2>1 DEF Held
  <2>3. \A u : HasUnparker(u)' <=> HasUnparker(u)
    BY <2>1, <2>2, HandsKept
  <2>4. frame'[t].didFind => Queued(t)
    <3>1. MyQueue(t) \in Seq(Threads)
      BY <1>3, BucketLockedFacts DEF GivesUp, InBucket
    <3> QED
      BY <1>3, <3>1, RemoveFirstFacts DEF GivesUp
  <2>5. Queued(t) => ~HasUnparker(t)
    BY DEF ParkInv, HeldInv, HasUnparker
  <2> QED
    BY <2>1, <2>3, <2>4, <2>5 DEF FoundInv, Untouched
<1>4. CASE \E q, d : Takes(t, q, d) /\ TakesOf(t, d)
  <2>1. PICK q, d : Takes(t, q, d)
    BY <1>4
  <2>2. /\ frame'[t].didFind = FALSE /\ frame'[t].dequeued = d /\ pc'[t] # "notify" /\ Range(d) \subseteq Range(MyQueue(t))
        /\ \A u \in Threads \ {t} : pc'[u] = pc[u] /\ frame'[u] = frame[u]
        /\ pc[t] = "bucketLocked"
    BY <2>1 DEF Takes, InBucket
  <2>3. \A u \in Threads : Range(Held(u)') \subseteq Range(Held(u)) \cup Range(d)
    BY <2>2, EmptyQueue DEF Held
  <2>4. \A u \in Range(d) : u \in Threads /\ pc[u] # "clearAddress"
    BY <2>2, MyQueueFacts DEF QueuedOk
  <2>5. \A u : HasUnparker(u)' => HasUnparker(u) \/ u \in Range(d)
    BY <2>3 DEF HasUnparker
  <2>6. \A u \in Threads : frame'[u].didFind => frame[u].didFind /\ pc[u] = "clearAddress"
    BY <2>2, FindFacts
  <2> QED
    BY <2>4, <2>5, <2>6 DEF FoundInv
<1> QED
  BY <1>1, <1>2, <1>3, <1>4 DEF Visible

LEMMA FoundInit == Init => FoundInv
  BY DEF Init, FoundInv, NoFrame

LEMMA FoundNext == AddressSpace /\ ParksOnce /\ TableInv /\ ParkInv /\ FoundInv /\ [Next]_vars => FoundInv'
<1> SUFFICES ASSUME AddressSpace, ParksOnce, TableInv, ParkInv, FoundInv, [Next]_vars PROVE FoundInv'
  OBVIOUS
<1>1. CASE UNCHANGED vars
  BY <1>1 DEF vars, table, FoundInv, HasUnparker, Held
<1>2. CASE Next
  <2>1. PICK t \in Threads : Call(t) \/ Run(t) \/ WakeUp(t)
    BY <1>2 DEF Next
  <2>2. TableInv' /\ ParkInv'
    BY TableNext, ParkNext
  <2>3. Visible(t)
    BY <2>1, Classified
  <2> QED
    BY <2>2, <2>3, FoundStep
<1> QED
  BY <1>1, <1>2

LEMMA FoundSound == AddressSpace /\ ParksOnce => (Spec => [](TableInv /\ ParkInv /\ FoundInv))
<1> SUFFICES ASSUME AddressSpace /\ ParksOnce PROVE Spec => [](TableInv /\ ParkInv /\ FoundInv)
  OBVIOUS
<1>1. Init => FoundInv
  BY FoundInit
<1>2. TableInv /\ ParkInv /\ FoundInv /\ [Next]_vars => FoundInv'
  BY FoundNext
<1>3. Spec => [](TableInv /\ ParkInv)
  BY ParkSound
<1> QED
  BY <1>1, <1>2, <1>3, PTL DEF Spec

(* An unpark that finds no bucket returns at once.                         *)
FindsNoBucket(t) ==
    /\ pc[t] = "loadBucket" /\ frame'[t].dequeued = <<>> /\ UNCHANGED <<tables, queues, address>>
    /\ tables[frame[t].table][Index(frame[t].address, tables[frame[t].table])] = 0

LEMMA OthersFrames ==
    ASSUME TableInv, NEW t \in Threads, Visible(t)
    PROVE  \A u \in Threads \ {t} : frame'[u] = frame[u]
<1>1. frame \in [Threads -> Frames]
  BY MyType
<1>2. CASE Wake(t)
  BY <1>2 DEF Wake
<1>3. CASE Notify(t)
  BY <1>1, <1>3 DEF Notify, SetFrame
<1>4. CASE Quiet(t) \/ Leaves(t) \/ Joins(t) \/ GivesUp(t)
  BY <1>4 DEF Quiet, Leaves, Joins, GivesUp, OthersStay, Untouched
<1>5. CASE \E q, d : Takes(t, q, d)
  BY <1>5 DEF Takes
<1> QED
  BY <1>2, <1>3, <1>4, <1>5 DEF Visible

LEMMA Returning ==
    ASSUME TableInv, NEW t \in Threads, Call(t) \/ Run(t) \/ WakeUp(t), frame[t].op \in UnparkCalls, frame'[t].op = "none"
    PROVE  FindsNoBucket(t) \/ DequeueOne(t) \/ DequeueAll(t)
<1>1. ControlOf(t) /\ frame[t] \in Frames /\ frame \in [Threads -> Frames] /\ pc \in [Threads -> Labels]
  BY MyType
<1>2. pc[t] \in {"loadTable", "loadBucket", "lockBucket", "bucketLocked"}
  BY <1>1 DEF ControlOf, UnparkCalls, Labels
<1>3. ~Call(t)
  BY <1>2 DEF Call, ParkConditionally, Unpark, ForEach, Destruct, Step
<1>4. ~(Construct(t) \/ CheckSize(t) \/ LockTable(t) \/ LockNext(t) \/ EnsureHashtableSize(t) \/ ForEachWalk(t) \/ WakeUp(t))
  BY <1>2 DEF Construct, CheckSize, LockTable, LockNext, EnsureHashtableSize, ForEachWalk, WakeUp, Step
<1>5. ~(Wake(t) \/ Notify(t) \/ BeforeSleep(t) \/ CheckAddress(t) \/ ClearAddress(t))
  BY <1>2 DEF Wake, Notify, BeforeSleep, CheckAddress, ClearAddress, Step
<1>6. ~(Enqueue(t) \/ DequeueMe(t))
  BY DEF Enqueue, DequeueMe, InBucket, UnparkCalls
<1>7. ~LockBucket(t)
  BY DEF LockBucket, UnparkCalls
<1>8. ~LoadTable(t)
  <2> SUFFICES ASSUME LoadTable(t) PROVE FALSE
    OBVIOUS
  <2>1. PICK k : frame' = [frame EXCEPT ![t] = [frame[t] EXCEPT !.table = k]]
    BY DEF LoadTable, SetFrame
  <2>2. frame'[t].op = frame[t].op
    BY <1>1, <2>1 DEF Frames
  <2> QED
    BY <2>2 DEF UnparkCalls
<1>9. ASSUME LoadBucket(t) PROVE FindsNoBucket(t)
  <2>1. PICK b : b = tables[frame[t].table][Index(frame[t].address, tables[frame[t].table])]
    OBVIOUS
  <2>2. pc[t] = "loadBucket" /\ address' = address
    BY <1>9 DEF LoadBucket
  <2>3. \/ \E c : frame' = [frame EXCEPT ![t] = [frame[t] EXCEPT !.bucket = c]]
        \/ b = 0 /\ UNCHANGED table /\ (frame[t].op = "dequeueMe" \/ frame' = [frame EXCEPT ![t] = NoFrame])
    BY <1>9, <2>1 DEF LoadBucket, SetFrame, Return
  <2>4. (\E c : frame' = [frame EXCEPT ![t] = [frame[t] EXCEPT !.bucket = c]]) => frame'[t].op = frame[t].op
    BY <1>1 DEF Frames
  <2>5. b = 0 /\ UNCHANGED table /\ frame' = [frame EXCEPT ![t] = NoFrame]
    BY <2>3, <2>4 DEF UnparkCalls
  <2>6. frame'[t].dequeued = <<>>
    BY <1>1, <2>5 DEF NoFrame
  <2> QED
    BY <2>1, <2>2, <2>5, <2>6 DEF FindsNoBucket, table
<1> QED
  BY <1>3, <1>4, <1>5, <1>6, <1>7, <1>8, <1>9 DEF Run

LEMMA NoBucketNoThreads ==
    ASSUME TableInv, NEW t \in Threads, FindsNoBucket(t), NEW c, c = frame[t].address
    PROVE  QueueOf(c) = <<>> /\ QueueOf(c)' = <<>>
<1>1. c \in Addresses /\ frame[t].table \in 1 .. hashtable
  BY DEF FindsNoBucket, TableInv, ControlInv, ControlOf, LocksInv, LocksOf
<1>2. PICK k \in 1 .. Len(tables) : k = frame[t].table
  BY <1>1 DEF hashtable
<1>3. tables[k][Index(c, tables[k])] = 0
  BY <1>2 DEF FindsNoBucket
<1>4. k = hashtable
  BY <1>1, <1>3, BucketThere
<1>5. QueueOf(c) = <<>>
  BY <1>3, <1>4 DEF QueueOf
<1>6. QueueOf(c)' = QueueOf(c)
  BY DEF FindsNoBucket, QueueOf, hashtable, Index, Size, ParkedOn
<1> QED
  BY <1>5, <1>6

(* The first two parts of ReportsAreTrue.                                  *)
LEMMA ReportsFacts ==
    ASSUME AddressSpace, ParksOnce, TableInv, ParkInv, TableInv', ParkInv', NEW t \in Threads, Call(t) \/ Run(t) \/ WakeUp(t),
           NEW u \in Threads, frame[u].op \in UnparkCalls, frame'[u].op = "none", NEW a \in Addresses, a = frame[u].address
    PROVE  /\ frame'[u].dequeued = <<>> => QueueOf(a) = <<>>
           /\ frame[u].op = "unparkAll" \/ frame'[u].dequeued = <<>> \/ queues'[frame[u].bucket] = <<>> => QueueOf(a)' = <<>>
<1>1. Visible(t)
  BY Classified
<1>2. u = t
  BY <1>1, OthersFrames DEF UnparkCalls
<1>3. CASE FindsNoBucket(t)
  BY <1>2, <1>3, NoBucketNoThreads
<1>4. CASE DequeueOne(t) \/ DequeueAll(t)
  <2>1. PICK q, d : Takes(t, q, d) /\ TakesOf(t, d)
    BY <1>4, Taken
  <2>2. frame'[t].dequeued = d
    BY <2>1 DEF Takes
  <2>3. /\ d = <<>> <=> QueueOf(a) = <<>>
        /\ d = <<>> => Unseen
        /\ d # <<>> /\ frame[t].op = "unparkAll" => QueueOf(a)' = <<>>
        /\ queues'[frame[t].bucket] = <<>> => QueueOf(a)' = <<>>
    BY <1>2, <2>1, TakeSeen
  <2>4. d = <<>> => QueueOf(a)' = <<>>
    BY <2>3 DEF Unseen
  <2> QED
    BY <1>2, <2>2, <2>3, <2>4
<1> QED
  BY <1>2, <1>3, <1>4, Returning

FoundFree == \A t \in Threads : frame[t].didFind => ~Dequeued(t)

LEMMA FoundFacts == TableInv /\ FoundInv => FoundFree
  BY ContainsFacts DEF FoundInv, FoundFree

ReportsAction == \A t \in Threads, a \in Addresses :
    LET f == frame[t]
        some == frame'[t].dequeued # <<>>
        mayHaveMoreThreads == some /\ queues'[f.bucket] # <<>>
        returns == f.op \in UnparkCalls /\ f.address = a /\ frame'[t].op = "none"
    IN  /\ returns /\ ~some => QueueOf(a) = <<>>
        /\ returns /\ (f.op = "unparkAll" \/ ~mayHaveMoreThreads) => QueueOf(a)' = <<>>
        /\ pc'[t] = "clearAddress" /\ frame'[t].didFind => ~Dequeued(t)'

LEMMA ReportsStep ==
    ASSUME AddressSpace, ParksOnce, TableInv, ParkInv, FoundFree', [Next]_vars PROVE [ReportsAction]_vars
<1>1. CASE Next
  <2>1. PICK t \in Threads : Call(t) \/ Run(t) \/ WakeUp(t)
    BY <1>1 DEF Next
  <2>2. TableInv' /\ ParkInv'
    BY TableNext, ParkNext
  <2>3. ASSUME NEW u \in Threads, NEW a \in Addresses
        PROVE  /\ frame[u].op \in UnparkCalls /\ frame[u].address = a /\ frame'[u].op = "none" =>
                   /\ frame'[u].dequeued = <<>> => QueueOf(a) = <<>>
                   /\ frame[u].op = "unparkAll" \/ frame'[u].dequeued = <<>> \/ queues'[frame[u].bucket] = <<>> => QueueOf(a)' = <<>>
               /\ frame'[u].didFind => ~Dequeued(u)'
    <3>1. frame'[u].didFind => ~Dequeued(u)'
      BY DEF FoundFree
    <3> QED
      BY <2>1, <2>2, <3>1, ReportsFacts
  <2> QED
    BY <2>3 DEF ReportsAction
<1> QED
  BY <1>1

(* What the calls report is true: an unpark that wakes nobody found nobody *)
(* on the queue of its address, unparkOne() that saw no more threads and   *)
(* unparkAll() left nobody there, and parkConditionally() returns false    *)
(* only if no unpark picked the thread up.                                 *)
THEOREM ReportsTrue == AddressSpace /\ ParksOnce => (Spec => ReportsAreTrue)
<1> SUFFICES ASSUME AddressSpace /\ ParksOnce PROVE Spec => ReportsAreTrue
  OBVIOUS
<1>1. TableInv /\ FoundInv => FoundFree
  BY FoundFacts
<1>2. TableInv /\ ParkInv /\ FoundFree' /\ [Next]_vars => [ReportsAction]_vars
  BY ReportsStep
<1>3. Spec => [](TableInv /\ ParkInv /\ FoundInv)
  BY FoundSound
<1>4. Spec => [][ReportsAction]_vars
  BY <1>1, <1>2, <1>3, PTL DEF Spec
<1>5. [][ReportsAction]_vars <=> ReportsAreTrue
  BY DEF ReportsAction, ReportsAreTrue
<1> QED
  BY <1>4, <1>5, PTL
=============================================================================
