---------------------------- MODULE SequenceFacts ----------------------------
(***************************************************************************)
(* Lemmas about the queues of threads that Lock, Condition and ParkingLot  *)
(* keep: sequences without duplicates to which a thread is appended and    *)
(* from which the head, or a thread at any place, is removed.              *)
(***************************************************************************)
EXTENDS SequencesExt, SequenceTheorems, WellFoundedInduction, TLAPS

(* Appending a new element adds it to the elements and keeps them apart.   *)
LEMMA AppendFacts ==
    ASSUME NEW S, NEW q \in Seq(S), NEW e \in S
    PROVE  /\ Append(q, e) \in Seq(S)
           /\ Append(q, e) # <<>>
           /\ Range(Append(q, e)) = Range(q) \cup {e}
           /\ IsInjective(q) /\ e \notin Range(q) => IsInjective(Append(q, e))
<1>1. /\ Append(q, e) \in Seq(S) /\ Append(q, e) # <<>>
      /\ Len(Append(q, e)) = Len(q) + 1
      /\ \A i \in 1..Len(q) : Append(q, e)[i] = q[i]
      /\ Append(q, e)[Len(q) + 1] = e
  BY AppendProperties
<1>2. DOMAIN q = 1..Len(q) /\ Len(q) \in Nat /\ DOMAIN Append(q, e) = 1..(Len(q) + 1)
  BY <1>1, LenProperties
<1>3. DOMAIN Append(q, e) = DOMAIN q \cup {Len(q) + 1}
  BY <1>2
<1>4. Range(Append(q, e)) = Range(q) \cup {e}
  BY <1>1, <1>2, <1>3 DEF Range
<1>5. ASSUME IsInjective(q), e \notin Range(q) PROVE IsInjective(Append(q, e))
  BY <1>1, <1>2, <1>3, <1>5 DEF IsInjective, Range
<1> QED
  BY <1>1, <1>4, <1>5

(* The head of a queue is one of its elements; removing it takes exactly   *)
(* this element away.                                                      *)
LEMMA TailFacts ==
    ASSUME NEW S, NEW q \in Seq(S), q # <<>>
    PROVE  /\ Tail(q) \in Seq(S)
           /\ Head(q) \in S /\ Head(q) \in Range(q)
           /\ Range(Tail(q)) \subseteq Range(q)
           /\ IsInjective(q) => /\ IsInjective(Tail(q))
                                /\ Range(Tail(q)) = Range(q) \ {Head(q)}
<1>1. /\ Tail(q) \in Seq(S) /\ Head(q) \in S /\ Head(q) = q[1]
      /\ Len(Tail(q)) = Len(q) - 1
      /\ \A i \in 1..Len(Tail(q)) : Tail(q)[i] = q[i + 1]
  BY HeadTailProperties, EmptySeq
<1>2. Len(q) \in Nat \ {0} /\ DOMAIN q = 1..Len(q) /\ DOMAIN Tail(q) = 1..(Len(q) - 1)
  BY <1>1, LenProperties, EmptySeq
<1>3. Head(q) \in Range(q)
  BY <1>1, <1>2 DEF Range
<1>4. Range(Tail(q)) \subseteq Range(q)
  BY <1>1, <1>2 DEF Range
<1>5. Range(q) \subseteq Range(Tail(q)) \cup {Head(q)}
  <2> SUFFICES ASSUME NEW i \in 1..Len(q) PROVE q[i] \in Range(Tail(q)) \cup {Head(q)}
    BY <1>2 DEF Range
  <2>1. CASE i = 1
    BY <2>1, <1>1
  <2>2. CASE i # 1
    <3>1. i - 1 \in 1..(Len(q) - 1) /\ Tail(q)[i - 1] = q[i]
      BY <2>2, <1>1, <1>2
    <3> QED
      BY <3>1, <1>2 DEF Range
  <2> QED
    BY <2>1, <2>2
<1>6. ASSUME IsInjective(q) PROVE IsInjective(Tail(q)) /\ Head(q) \notin Range(Tail(q))
  BY <1>1, <1>2, <1>6 DEF IsInjective, Range
<1> QED
  BY <1>1, <1>3, <1>4, <1>5, <1>6

(* A place in a queue is the last one, or there is a next one.             *)
LEMMA NextOrLast == \A i, n \in Nat : i <= n /\ ~(i + 1 <= n) => i = n
  OBVIOUS

(* Removing the element at place i moves the later ones up by one and      *)
(* takes exactly this element away.                                        *)
LEMMA RemoveAtFacts ==
    ASSUME NEW S, NEW q \in Seq(S), NEW i \in 1..Len(q)
    PROVE  /\ RemoveAt(q, i) \in Seq(S)
           /\ Len(RemoveAt(q, i)) = Len(q) - 1
           /\ \A j \in 1..(Len(q) - 1) : RemoveAt(q, i)[j] = IF j < i THEN q[j] ELSE q[j + 1]
           /\ Range(RemoveAt(q, i)) \subseteq Range(q)
           /\ IsInjective(q) => /\ IsInjective(RemoveAt(q, i))
                                /\ Range(RemoveAt(q, i)) = Range(q) \ {q[i]}
<1> DEFINE r == RemoveAt(q, i)
           front == SubSeq(q, 1, i - 1)
           back == SubSeq(q, i + 1, Len(q))
<1>1. Len(q) \in Nat /\ DOMAIN q = 1..Len(q) /\ i \in Nat /\ 1 <= i /\ i <= Len(q)
  BY LenProperties
<1>a. \A k \in 1..Len(q) : q[k] \in S
  BY ElementOfSeq
<1>2. /\ front \in Seq(S) /\ Len(front) = i - 1
      /\ \A j \in 1..(i - 1) : front[j] = q[j]
  BY <1>1, <1>a, SubSeqProperties
<1>3. /\ back \in Seq(S) /\ Len(back) = Len(q) - i
      /\ \A j \in 1..(Len(q) - i) : back[j] = q[i + j]
  <2> DEFINE m == i + 1
             n == Len(q)
  <2>1. m \in Int /\ n \in Int /\ \A k \in m..n : q[k] \in S
    BY <1>1, <1>a
  <2>2. /\ SubSeq(q, m, n) \in Seq(S)
        /\ Len(SubSeq(q, m, n)) = IF m <= n THEN n - m + 1 ELSE 0
        /\ \A j \in 1..(n - m + 1) : SubSeq(q, m, n)[j] = q[m + j - 1]
    <3> HIDE DEF m, n
    <3> QED
      BY <2>1, SubSeqProperties
  <2>3. n - m + 1 = Len(q) - i /\ \A j \in 1..(Len(q) - i) : m + j - 1 = i + j
    BY <1>1
  <2>4. Len(SubSeq(q, m, n)) = Len(q) - i
    <3>1. CASE m <= n
      <4>1. Len(SubSeq(q, m, n)) = n - m + 1
        <5> HIDE DEF m, n
        <5> QED
          BY <2>2, <3>1, Zenon
      <4>2. n - m + 1 = Len(q) - i
        BY <2>3
      <4> HIDE DEF m, n
      <4> QED
        BY <4>1, <4>2
    <3>2. CASE ~(m <= n)
      <4>0. i = Len(q)
        BY <1>1, <3>2, NextOrLast
      <4>1. Len(q) - i = 0
        BY <1>1, <4>0
      <4> HIDE DEF m, n
      <4> QED
        BY <2>2, <4>1, <3>2
    <3> QED
      BY <3>1, <3>2
  <2>5. back = SubSeq(q, m, n)
    OBVIOUS
  <2> HIDE DEF m, n, back
  <2> QED
    BY <2>2, <2>3, <2>4, <2>5
<1>b. r = front \o back
  BY DEF RemoveAt
<1> HIDE DEF r, front, back
<1>4. /\ r \in Seq(S) /\ Len(r) = Len(q) - 1
      /\ \A j \in 1..(Len(q) - 1) : r[j] = IF j <= i - 1 THEN front[j] ELSE back[j - (i - 1)]
  <2>1. /\ r \in Seq(S) /\ Len(r) = Len(front) + Len(back)
        /\ \A j \in 1..(Len(front) + Len(back)) :
              r[j] = IF j <= Len(front) THEN front[j] ELSE back[j - Len(front)]
    BY <1>2, <1>3, <1>b, ConcatProperties
  <2>2. Len(front) + Len(back) = Len(q) - 1
    BY <1>1, <1>2, <1>3
  <2> QED
    BY <1>2, <2>1, <2>2
<1>5. ASSUME NEW j \in 1..(Len(q) - 1) PROVE r[j] = IF j < i THEN q[j] ELSE q[j + 1]
  <2>1. CASE j < i
    BY <1>1, <1>2, <1>4, <2>1
  <2>2. CASE ~(j < i)
    <3>1. j - (i - 1) \in 1..(Len(q) - i) /\ i + (j - (i - 1)) = j + 1 /\ ~(j <= i - 1)
      BY <1>1, <2>2
    <3>2. back[j - (i - 1)] = q[j + 1]
      BY <1>3, <3>1
    <3> QED
      BY <1>4, <2>2, <3>1, <3>2
  <2> QED
    BY <2>1, <2>2
<1>6. DOMAIN r = 1..(Len(q) - 1)
  BY <1>4, LenProperties
<1>7. Range(r) \subseteq Range(q)
  BY <1>1, <1>5, <1>6 DEF Range
<1>8. ASSUME NEW k \in 1..Len(q), k # i PROVE q[k] \in Range(r)
  <2>1. CASE k < i
    <3>1. k \in DOMAIN r /\ r[k] = q[k]
      BY <1>1, <1>5, <1>6, <2>1
    <3> QED
      BY <3>1 DEF Range
  <2>2. CASE k > i
    <3>1. k - 1 \in DOMAIN r /\ r[k - 1] = q[k]
      BY <1>1, <1>5, <1>6, <2>2
    <3> QED
      BY <3>1 DEF Range
  <2> QED
    BY <1>1, <1>8, <2>1, <2>2
<1>9. ASSUME IsInjective(q) PROVE IsInjective(r) /\ Range(r) = Range(q) \ {q[i]}
  <2>1. IsInjective(r)
    <3> DEFINE Old(j) == IF j < i THEN j ELSE j + 1
    <3>1. \A j \in DOMAIN r : Old(j) \in DOMAIN q /\ r[j] = q[Old(j)]
      BY <1>1, <1>5, <1>6
    <3>2. \A j, k \in DOMAIN r : Old(j) = Old(k) => j = k
      BY <1>1, <1>6
    <3> HIDE DEF Old
    <3> QED
      BY <3>1, <3>2, <1>9 DEF IsInjective
  <2>2. q[i] \notin Range(r)
    BY <1>1, <1>5, <1>6, <1>9 DEF IsInjective, Range
  <2>3. Range(q) \ {q[i]} \subseteq Range(r)
    BY <1>1, <1>8 DEF Range
  <2> QED
    BY <2>1, <2>2, <2>3, <1>7
<1> QED
  BY <1>4, <1>5, <1>7, <1>9 DEF r
-----------------------------------------------------------------------------
(***************************************************************************)
(* The queues of functions of Storage: which elements a queue holds, and   *)
(* of which kinds of elements it holds at most one.                        *)
(***************************************************************************)

(* At most one element of the queue is in C.                               *)
Once(q, C) == \A i, j \in DOMAIN q : q[i] \in C /\ q[j] \in C => i = j

(* No element of C has one of D behind it.                                 *)
NoneBehind(q, C, D) == \A i, j \in DOMAIN q : q[i] \in C /\ q[j] \in D => j <= i

Descending(q) == \A i, j \in DOMAIN q : i < j => q[i] > q[j]

LEMMA AppendPlaces ==
    ASSUME NEW S, NEW q \in Seq(S), NEW e \in S
    PROVE  /\ DOMAIN Append(q, e) = DOMAIN q \cup {Len(q) + 1}
           /\ Len(q) + 1 \notin DOMAIN q
           /\ \A i \in DOMAIN q : Append(q, e)[i] = q[i] /\ i \in Nat /\ i <= Len(q) + 1
           /\ Append(q, e)[Len(q) + 1] = e
           /\ Len(q) + 1 \in Nat
<1>1. /\ Len(Append(q, e)) = Len(q) + 1
      /\ Append(q, e) \in Seq(S)
      /\ \A i \in 1..Len(q) : Append(q, e)[i] = q[i]
      /\ Append(q, e)[Len(q) + 1] = e
  BY AppendProperties
<1>2. DOMAIN q = 1..Len(q) /\ Len(q) \in Nat /\ DOMAIN Append(q, e) = 1..(Len(q) + 1)
  BY <1>1, LenProperties
<1> QED
  BY <1>1, <1>2

LEMMA TailPlaces ==
    ASSUME NEW S, NEW q \in Seq(S), q # <<>>
    PROVE  /\ \A i \in DOMAIN Tail(q) :
                  i + 1 \in DOMAIN q \ {1} /\ Tail(q)[i] = q[i + 1] /\ i \in Nat
           /\ \A i \in DOMAIN q \ {1} : i - 1 \in DOMAIN Tail(q) /\ Tail(q)[i - 1] = q[i]
           /\ \A i \in DOMAIN q : i \in Nat
           /\ 1 \in DOMAIN q /\ Head(q) = q[1]
<1>1. /\ Head(q) = q[1]
      /\ Len(Tail(q)) = Len(q) - 1
      /\ \A i \in 1..Len(Tail(q)) : Tail(q)[i] = q[i + 1]
  BY HeadTailProperties, EmptySeq
<1>2. Len(q) \in Nat \ {0} /\ DOMAIN q = 1..Len(q) /\ DOMAIN Tail(q) = 1..(Len(q) - 1)
  BY <1>1, HeadTailProperties, LenProperties, EmptySeq
<1> QED
  BY <1>1, <1>2

(* What appending keeps.                                                   *)
LEMMA AppendKeeps ==
    ASSUME NEW S, NEW q \in Seq(S), NEW e \in S
    PROVE  /\ Append(q, e) \in Seq(S)
           /\ Range(Append(q, e)) = Range(q) \cup {e}
           /\ \A C : Once(q, C) /\ (e \in C => Range(q) \cap C = {}) => Once(Append(q, e), C)
           /\ \A C, D : NoneBehind(q, C, D) /\ (e \in D => Range(q) \cap C = {})
                            => NoneBehind(Append(q, e), C, D)
<1>1. Append(q, e) \in Seq(S) /\ Range(Append(q, e)) = Range(q) \cup {e}
  BY AppendFacts
<1>2. \A i \in DOMAIN q : q[i] \in Range(q)
  BY DEF Range
<1>3. ASSUME NEW C, Once(q, C), e \in C => Range(q) \cap C = {} PROVE Once(Append(q, e), C)
  BY <1>2, <1>3, AppendPlaces DEF Once
<1>4. ASSUME NEW C, NEW D, NoneBehind(q, C, D), e \in D => Range(q) \cap C = {}
      PROVE  NoneBehind(Append(q, e), C, D)
  BY <1>2, <1>4, AppendPlaces DEF NoneBehind
<1> QED
  BY <1>1, <1>3, <1>4

(* What taking the head keeps.                                             *)
LEMMA TailKeeps ==
    ASSUME NEW S, NEW q \in Seq(S), q # <<>>
    PROVE  /\ Tail(q) \in Seq(S) /\ Head(q) \in S
           /\ Range(q) = Range(Tail(q)) \cup {Head(q)}
           /\ \A C : Once(q, C) => /\ Once(Tail(q), C)
                                   /\ Head(q) \in C => Range(Tail(q)) \cap C = {}
           /\ \A C, D : NoneBehind(q, C, D) =>
                            /\ NoneBehind(Tail(q), C, D)
                            /\ Head(q) \in C => Range(Tail(q)) \cap D = {}
<1>1. Tail(q) \in Seq(S) /\ Head(q) \in S
  BY HeadTailProperties
<1>2. Range(q) = Range(Tail(q)) \cup {Head(q)}
  <2>1. ASSUME NEW i \in DOMAIN q PROVE q[i] \in Range(Tail(q)) \cup {Head(q)}
    BY TailPlaces DEF Range
  <2>2. Head(q) \in Range(q) /\ Range(Tail(q)) \subseteq Range(q)
    BY TailFacts
  <2> QED
    BY <2>1, <2>2 DEF Range
<1>3. ASSUME NEW C, Once(q, C) PROVE Once(Tail(q), C) /\ (Head(q) \in C => Range(Tail(q)) \cap C = {})
  <2>1. ASSUME NEW i \in DOMAIN Tail(q), NEW j \in DOMAIN Tail(q),
               Tail(q)[i] \in C, Tail(q)[j] \in C
        PROVE  i = j
    <3>1. i + 1 = j + 1 /\ i \in Nat /\ j \in Nat
      BY <1>3, <2>1, TailPlaces DEF Once
    <3> QED
      BY <3>1
  <2>2. ASSUME NEW i \in DOMAIN Tail(q), Head(q) \in C PROVE Tail(q)[i] \notin C
    BY <1>3, <2>2, TailPlaces DEF Once
  <2> QED
    BY <2>1, <2>2 DEF Once, Range
<1>4. ASSUME NEW C, NEW D, NoneBehind(q, C, D)
      PROVE  NoneBehind(Tail(q), C, D) /\ (Head(q) \in C => Range(Tail(q)) \cap D = {})
  <2>1. ASSUME NEW i \in DOMAIN Tail(q), NEW j \in DOMAIN Tail(q),
               Tail(q)[i] \in C, Tail(q)[j] \in D
        PROVE  j <= i
    <3>1. j + 1 <= i + 1 /\ i \in Nat /\ j \in Nat
      BY <1>4, <2>1, TailPlaces DEF NoneBehind
    <3> QED
      BY <3>1
  <2>2. ASSUME NEW i \in DOMAIN Tail(q), Head(q) \in C PROVE Tail(q)[i] \notin D
    <3>1. i + 1 \in DOMAIN q /\ Tail(q)[i] = q[i + 1] /\ i \in Nat /\ i + 1 # 1
          /\ 1 \in DOMAIN q /\ q[1] \in C
      BY <2>2, TailPlaces
    <3>2. ~(i + 1 <= 1)
      BY <3>1
    <3> QED
      BY <1>4, <3>1, <3>2 DEF NoneBehind
  <2> QED
    BY <2>1, <2>2 DEF NoneBehind, Range
<1> QED
  BY <1>1, <1>2, <1>3, <1>4

(* What changing the head keeps.                                           *)
LEMMA HeadChanged ==
    ASSUME NEW S, NEW q \in Seq(S), q # <<>>, NEW h \in S
    PROVE  /\ [q EXCEPT ![1] = h] \in Seq(S)
           /\ Range([q EXCEPT ![1] = h]) = Range(Tail(q)) \cup {h}
           /\ \A C : Once(q, C) /\ (h \in C => Head(q) \in C) => Once([q EXCEPT ![1] = h], C)
           /\ \A C, D : NoneBehind(q, C, D) /\ h \notin C => NoneBehind([q EXCEPT ![1] = h], C, D)
<1> DEFINE p == [q EXCEPT ![1] = h]
<1>1. p \in Seq(S) /\ DOMAIN p = DOMAIN q
  BY ExceptSeq
<1>2. \A i \in DOMAIN q : p[i] = IF i = 1 THEN h ELSE q[i]
  OBVIOUS
<1> HIDE DEF p
<1>3. Range(p) = Range(Tail(q)) \cup {h}
  <2>1. ASSUME NEW i \in DOMAIN q PROVE p[i] \in Range(Tail(q)) \cup {h}
    <3>1. i # 1 => i - 1 \in DOMAIN Tail(q) /\ Tail(q)[i - 1] = p[i]
      BY <1>2, TailPlaces
    <3> QED
      BY <1>2, <3>1 DEF Range
  <2>2. ASSUME NEW i \in DOMAIN Tail(q) PROVE Tail(q)[i] \in Range(p)
    BY <1>1, <1>2, TailPlaces DEF Range
  <2>3. h \in Range(p)
    BY <1>1, <1>2, TailPlaces DEF Range
  <2> QED
    BY <1>1, <2>1, <2>2, <2>3 DEF Range
<1>4. ASSUME NEW C, Once(q, C), h \in C => Head(q) \in C PROVE Once(p, C)
  BY <1>1, <1>2, <1>4, TailPlaces DEF Once
<1>5. ASSUME NEW C, NEW D, NoneBehind(q, C, D), h \notin C PROVE NoneBehind(p, C, D)
  <2> SUFFICES ASSUME NEW i \in DOMAIN q, NEW j \in DOMAIN q, p[i] \in C, p[j] \in D
               PROVE  j <= i
    BY <1>1 DEF NoneBehind
  <2>1. q[i] \in C /\ i # 1
    BY <1>2, <1>5
  <2>2. CASE j # 1
    BY <1>2, <1>5, <2>1, <2>2 DEF NoneBehind
  <2>3. CASE j = 1
    <3>1. i \in 1..Len(q)
      BY LenProperties
    <3> QED
      BY <2>3, <3>1
  <2> QED
    BY <2>2, <2>3
<1> QED
  BY <1>1, <1>3, <1>4, <1>5 DEF p

(* A queue that is filled at the front and emptied from the end.           *)
LEMMA ConsFacts ==
    ASSUME NEW S, NEW q \in Seq(S), NEW e \in S
    PROVE  /\ Cons(e, q) \in Seq(S)
           /\ Range(Cons(e, q)) = Range(q) \cup {e}
           /\ IsInjective(q) /\ e \notin Range(q) => IsInjective(Cons(e, q))
           /\ (S \subseteq Nat /\ Descending(q) /\ \A x \in Range(q) : e > x) => Descending(Cons(e, q))
<1> DEFINE p == Cons(e, q)
<1>1. <<e>> \in Seq(S) /\ Len(<<e>>) = 1 /\ <<e>>[1] = e
  OBVIOUS
<1>2. /\ p \in Seq(S) /\ Len(p) = 1 + Len(q)
      /\ \A i \in 1..(1 + Len(q)) : p[i] = IF i <= 1 THEN <<e>>[i] ELSE q[i - 1]
  BY <1>1, ConcatProperties, Zenon DEF Cons
<1>3. Len(q) \in Nat /\ DOMAIN q = 1..Len(q) /\ DOMAIN p = 1..(1 + Len(q))
  BY <1>2, LenProperties
<1> HIDE DEF p
<1>4. p[1] = e /\ 1 \in DOMAIN p
  BY <1>1, <1>2, <1>3
<1>5. \A i \in DOMAIN p \ {1} : i - 1 \in DOMAIN q /\ p[i] = q[i - 1] /\ i \in Nat /\ i > 1
  BY <1>2, <1>3
<1>6. \A i \in DOMAIN q : i + 1 \in DOMAIN p /\ p[i + 1] = q[i]
  BY <1>2, <1>3
<1>7. Range(p) = Range(q) \cup {e}
  <2>1. ASSUME NEW i \in DOMAIN p PROVE p[i] \in Range(q) \cup {e}
    BY <1>4, <1>5 DEF Range
  <2>2. ASSUME NEW i \in DOMAIN q PROVE q[i] \in Range(p)
    BY <1>6 DEF Range
  <2>3. e \in Range(p)
    BY <1>4 DEF Range
  <2> QED
    BY <2>1, <2>2, <2>3 DEF Range
<1>8. ASSUME IsInjective(q), e \notin Range(q) PROVE IsInjective(p)
  <2>1. ASSUME NEW i \in DOMAIN p, NEW j \in DOMAIN p, p[i] = p[j] PROVE i = j
    <3>1. CASE i # 1 /\ j # 1
      <4>1. i - 1 = j - 1 /\ i \in Nat /\ j \in Nat
        BY <1>5, <1>8, <2>1, <3>1 DEF IsInjective
      <4> QED
        BY <4>1
    <3>2. CASE i = 1 \/ j = 1
      BY <1>4, <1>5, <1>8, <2>1, <3>2 DEF Range
    <3> QED
      BY <3>1, <3>2
  <2> QED
    BY <2>1 DEF IsInjective
<1>9. ASSUME S \subseteq Nat, Descending(q), \A x \in Range(q) : e > x PROVE Descending(p)
  <2>1. ASSUME NEW i \in DOMAIN p, NEW j \in DOMAIN p, i < j PROVE p[i] > p[j]
    <3>0. i \in Nat /\ j \in Nat /\ i >= 1 /\ j # 1
      BY <1>3, <2>1
    <3>1. CASE i # 1
      <4>1. i - 1 \in DOMAIN q /\ j - 1 \in DOMAIN q /\ p[i] = q[i - 1] /\ p[j] = q[j - 1]
        BY <1>5, <3>0, <3>1
      <4>2. i - 1 < j - 1
        BY <2>1, <3>0
      <4> QED
        BY <1>9, <4>1, <4>2 DEF Descending
    <3>2. CASE i = 1
      BY <1>4, <1>5, <1>9, <3>0, <3>2 DEF Range
    <3> QED
      BY <3>1, <3>2
  <2> QED
    BY <2>1 DEF Descending
<1> QED
  BY <1>2, <1>7, <1>8, <1>9 DEF p

LEMMA FrontFacts ==
    ASSUME NEW S, NEW q \in Seq(S), q # <<>>
    PROVE  /\ Front(q) \in Seq(S) /\ Last(q) \in S
           /\ Range(q) = Range(Front(q)) \cup {Last(q)}
           /\ IsInjective(q) => /\ IsInjective(Front(q))
                                /\ Last(q) \notin Range(Front(q))
           /\ S \subseteq Nat /\ Descending(q) => /\ Descending(Front(q))
                                                  /\ \A x \in Range(Front(q)) : x > Last(q)
<1> DEFINE p == Front(q)
           n == Len(q)
<1>1. n \in Nat \ {0} /\ DOMAIN q = 1..n
  BY LenProperties, EmptySeq
<1>2. \A i \in 1..n : q[i] \in S
  BY ElementOfSeq
<1>3. /\ p \in Seq(S) /\ Len(p) = n - 1
      /\ \A i \in 1..(n - 1) : p[i] = q[i]
  <2> DEFINE m == n - 1
  <2>1. m \in Nat /\ \A i \in 1..m : q[i] \in S
    BY <1>1, <1>2
  <2>2. /\ SubSeq(q, 1, m) \in Seq(S)
        /\ Len(SubSeq(q, 1, m)) = IF 1 <= m THEN m - 1 + 1 ELSE 0
        /\ \A i \in 1..(m - 1 + 1) : SubSeq(q, 1, m)[i] = q[1 + i - 1]
    <3> HIDE DEF m
    <3> QED
      BY <2>1, SubSeqProperties
  <2>3. p = SubSeq(q, 1, m)
    BY DEF Front
  <2> HIDE DEF m, p, n
  <2> QED
    BY <2>1, <2>2, <2>3 DEF m
<1>4. DOMAIN p = 1..(n - 1) /\ Last(q) = q[n]
  BY <1>3, LenProperties DEF Last
<1> HIDE DEF p, n
<1>5. DOMAIN q = DOMAIN p \cup {n} /\ n \notin DOMAIN p /\ \A i \in DOMAIN p : p[i] = q[i] /\ i < n
  BY <1>1, <1>3, <1>4
<1>6. Range(q) = Range(p) \cup {Last(q)}
  BY <1>4, <1>5 DEF Range
<1>7. ASSUME IsInjective(q) PROVE IsInjective(p) /\ Last(q) \notin Range(p)
  BY <1>4, <1>5, <1>7 DEF Range, IsInjective
<1>8. ASSUME S \subseteq Nat, Descending(q) PROVE Descending(p) /\ \A x \in Range(p) : x > Last(q)
  BY <1>4, <1>5, <1>8 DEF Range, Descending
<1>9. Last(q) \in S
  BY <1>1, <1>2, <1>4
<1> QED
  BY <1>3, <1>6, <1>7, <1>8, <1>9 DEF p

LEMMA RemoveAtDescending ==
    ASSUME NEW q \in Seq(Nat), NEW i \in 1..Len(q), Descending(q)
    PROVE  Descending(RemoveAt(q, i))
<1> DEFINE p == RemoveAt(q, i)
           Old(j) == IF j < i THEN j ELSE j + 1
<1>1. Len(q) \in Nat /\ DOMAIN q = 1..Len(q)
  BY LenProperties
<1>2. p \in Seq(Nat) /\ Len(p) = Len(q) - 1 /\ \A j \in 1..(Len(q) - 1) : p[j] = q[Old(j)]
  <2>1. /\ p \in Seq(Nat) /\ Len(p) = Len(q) - 1
        /\ \A j \in 1..(Len(q) - 1) : p[j] = IF j < i THEN q[j] ELSE q[j + 1]
    BY RemoveAtFacts
  <2> HIDE DEF p
  <2> QED
    BY <2>1
<1>3. DOMAIN p = 1..(Len(q) - 1)
  BY <1>2, LenProperties
<1>4. \A j \in DOMAIN p : Old(j) \in DOMAIN q
  BY <1>1, <1>3
<1>5. \A j, k \in DOMAIN p : j < k => Old(j) < Old(k)
  BY <1>1, <1>3
<1> HIDE DEF p, Old
<1>6. Descending(p)
  BY <1>2, <1>3, <1>4, <1>5 DEF Descending
<1> QED
  BY <1>6 DEF p

LEMMA ConcatFacts ==
    ASSUME NEW S, NEW p \in Seq(S), NEW q \in Seq(S)
    PROVE  /\ p \o q \in Seq(S)
           /\ Range(p \o q) = Range(p) \cup Range(q)
           /\ \A C : Once(p, C) /\ Once(q, C) /\ (Range(p) \cap C = {} \/ Range(q) \cap C = {})
                         => Once(p \o q, C)
<1> DEFINE c == p \o q
<1>1. /\ c \in Seq(S) /\ Len(c) = Len(p) + Len(q)
      /\ \A i \in 1..(Len(p) + Len(q)) : c[i] = IF i <= Len(p) THEN p[i] ELSE q[i - Len(p)]
  BY ConcatProperties, Zenon
<1>2. /\ Len(p) \in Nat /\ DOMAIN p = 1..Len(p) /\ Len(q) \in Nat /\ DOMAIN q = 1..Len(q)
      /\ DOMAIN c = 1..(Len(p) + Len(q))
  BY <1>1, LenProperties
<1> HIDE DEF c
<1>3. \A i \in DOMAIN c : i \notin DOMAIN p => i - Len(p) \in DOMAIN q /\ c[i] = q[i - Len(p)] /\ i \in Nat
  BY <1>1, <1>2
<1>4. \A i \in DOMAIN p : i \in DOMAIN c /\ c[i] = p[i]
  BY <1>1, <1>2
<1>5. \A i \in DOMAIN q : i + Len(p) \in DOMAIN c /\ c[i + Len(p)] = q[i]
  BY <1>1, <1>2
<1>6. Range(c) = Range(p) \cup Range(q)
  <2>1. ASSUME NEW i \in DOMAIN c PROVE c[i] \in Range(p) \cup Range(q)
    BY <1>3, <1>4 DEF Range
  <2>2. ASSUME NEW i \in DOMAIN p PROVE p[i] \in Range(c)
    BY <1>4 DEF Range
  <2>3. ASSUME NEW i \in DOMAIN q PROVE q[i] \in Range(c)
    BY <1>5 DEF Range
  <2> QED
    BY <2>1, <2>2, <2>3 DEF Range
<1>7. ASSUME NEW C, Once(p, C), Once(q, C), Range(p) \cap C = {} \/ Range(q) \cap C = {}
      PROVE  Once(c, C)
  <2> SUFFICES ASSUME NEW i \in DOMAIN c, NEW j \in DOMAIN c, c[i] \in C, c[j] \in C PROVE i = j
    BY DEF Once
  <2>1. CASE i \in DOMAIN p /\ j \in DOMAIN p
    BY <1>4, <1>7, <2>1 DEF Once
  <2>2. CASE i \notin DOMAIN p /\ j \notin DOMAIN p
    <3>1. i - Len(p) = j - Len(p) /\ i \in Nat /\ j \in Nat
      BY <1>3, <1>7, <2>2 DEF Once
    <3> QED
      BY <1>2, <3>1
  <2>3. CASE ~(i \in DOMAIN p <=> j \in DOMAIN p)
    BY <1>3, <1>4, <1>7, <2>3 DEF Range
  <2> QED
    BY <2>1, <2>2, <2>3
<1> QED
  BY <1>1, <1>6, <1>7 DEF c

(* What Min(), and with it SelectInSeq(), chooses is there to be chosen.   *)
LEMMA LeastElement ==
    ASSUME NEW T, T \subseteq Nat, T # {}
    PROVE  \E x \in T : \A y \in T : x <= y
<1>1. \E x \in T : \A y \in T : ~(<<y, x>> \in OpToRel(<, Nat))
  BY WFMin, NatLessThanWellFounded
<1>2. PICK x \in T : \A y \in T : ~(<<y, x>> \in OpToRel(<, Nat))
  BY <1>1
<1>3. ASSUME NEW y \in T PROVE x =< y
  <2>1. x \in Nat /\ y \in Nat
    OBVIOUS
  <2>2. y < x => <<y, x>> \in OpToRel(<, Nat)
    BY <2>1 DEF OpToRel
  <2>3. ~(y < x)
    BY <1>2, <2>2, Zenon
  <2> QED
    BY <2>1, <2>3
<1> QED
  BY <1>3

LEMMA LeastNatural ==
    ASSUME NEW T, T \subseteq Nat, T # {}
    PROVE  Min(T) \in T
  BY LeastElement DEF Min
=============================================================================
