------------------------------ MODULE BucketProofs ------------------------------
(***************************************************************************)
(* Theorems about Bucket, for every set of processes and buckets, all      *)
(* capacities, queuing disciplines, priorities and lists of items.         *)
(***************************************************************************)
EXTENDS Store, FiniteSetTheorems, SequenceTheorems, WellFoundedInduction, TLAPS

\* What is proved about the process scheduler.
SP == INSTANCE SchedProofs

\* The operators of both instances of Sched are the same.
LEMMA SameSched ==
  /\ \A s, I : S!AtPlaces(s, I) = SP!AtPlaces(s, I)
  /\ \A I, k : S!Nth(I, k) = SP!Nth(I, k)
  /\ \A states, s : S!Woken(states, s) = SP!Woken(states, s)
  /\ \A s : SP!ToSet(s) = ToSet(s) /\ S!ToSet(s) = ToSet(s)
  /\ \A s : SP!IsInjective(s) <=> IsInjective(s)
  /\ S!States = SP!States /\ S!Wakeable = SP!Wakeable
  /\ S!NoProc = SP!NoProc
<1>1. \A X : S!Cardinality(X) = SP!Cardinality(X)
  BY DEF S!Cardinality, SP!Cardinality
<1>2. \A I, k : S!Nth(I, k) = SP!Nth(I, k)
  BY <1>1 DEF S!Nth, SP!Nth
<1>3. \A s, I : S!AtPlaces(s, I) = SP!AtPlaces(s, I)
  BY <1>1, <1>2 DEF S!AtPlaces, SP!AtPlaces
<1>4. S!Wakeable = SP!Wakeable /\ S!States = SP!States /\ S!NoProc = SP!NoProc
  BY DEF S!Wakeable, SP!Wakeable, S!States, SP!States, S!NoProc, SP!NoProc
<1>5. \A states, s : S!Woken(states, s) = SP!Woken(states, s)
  BY <1>3, <1>4 DEF S!Woken, SP!Woken
<1>6. \A s : SP!ToSet(s) = ToSet(s) /\ S!ToSet(s) = ToSet(s)
  BY DEF SP!ToSet, S!ToSet, ToSet
<1>7. \A s : SP!IsInjective(s) <=> IsInjective(s)
  BY DEF SP!IsInjective, IsInjective
<1> QED BY <1>2, <1>3, <1>4, <1>5, <1>6, <1>7

-----------------------------------------------------------------------------
(* Sequences *)

\* A set that has 0 and the successor of every member has all natural numbers.
LEMMA AllNat ==
  ASSUME NEW G, 0 \in G, \A n \in Nat : n \in G => n + 1 \in G
  PROVE  \A n \in Nat : n \in G
<1> SUFFICES ASSUME NEW n \in Nat, n \notin G PROVE FALSE
  OBVIOUS
<1> DEFINE B == {m \in Nat : m \notin G}
           T == {0..m : m \in B}
           R == StrictSubsetOrdering(Nat)
<1>1. IsWellFoundedOn(R, FiniteSubsetsOf(Nat))
  BY FS_StrictSubsetOrderingWellFounded
<1>2. T \subseteq FiniteSubsetsOf(Nat) /\ T # {}
  <2>1. ASSUME NEW m \in B PROVE 0..m \subseteq Nat /\ IsFiniteSet(0..m)
    BY FS_Interval
  <2> QED BY <2>1 DEF FiniteSubsetsOf
<1>3. PICK x \in T : \A y \in T : ~(<<y, x>> \in R)
  <2> HIDE DEF T, R
  <2> QED BY <1>1, <1>2, WFMin
<1>4. PICK m \in B : x = 0..m
  BY <1>3
<1>5. m # 0 /\ m - 1 \in B
  <2>1. m # 0
    OBVIOUS
  <2>2. m - 1 \in Nat /\ (m - 1) + 1 = m
    BY <2>1
  <2> QED BY <2>1, <2>2
<1>6. 0..(m - 1) \in T /\ 0..(m - 1) \subseteq 0..m /\ 0..(m - 1) # 0..m
  BY <1>5
<1>7. <<0..(m - 1), 0..m>> \in R
  BY <1>6 DEF StrictSubsetOrdering
<1> QED BY <1>3, <1>4, <1>6, <1>7

\* A part of a sequence, at a set of its places.
LEMMA PartProps ==
  ASSUME S!ProcsOK, NEW X, NEW s \in Seq(X), NEW I \in SUBSET DOMAIN s
  PROVE  /\ S!AtPlaces(s, I) \in Seq(X)
         /\ Len(S!AtPlaces(s, I)) = Cardinality(I)
         /\ ToSet(S!AtPlaces(s, I)) = {s[i] : i \in I}
         /\ (\A i, j \in I : s[i] = s[j] => i = j) => IsInjective(S!AtPlaces(s, I))
<1>1. SP!ProcsOK
  BY DEF S!ProcsOK, SP!ProcsOK, S!NoProc, SP!NoProc, S!IsFiniteSet, SP!IsFiniteSet
<1>2. \A Y : SP!Cardinality(Y) = Cardinality(Y)
  BY DEF SP!Cardinality, Cardinality
<1>3. /\ SP!AtPlaces(s, I) \in Seq(X)
      /\ Len(SP!AtPlaces(s, I)) = SP!Cardinality(I)
      /\ SP!ToSet(SP!AtPlaces(s, I)) = {s[i] : i \in I}
      /\ (\A i, j \in I : s[i] = s[j] => i = j) => SP!IsInjective(SP!AtPlaces(s, I))
  BY <1>1, SP!AtPlacesProps
<1> QED BY <1>2, <1>3, SameSched

\* The places of an interval are taken in order.
LEMMA NthInterval ==
  ASSUME NEW a \in Int, NEW b \in Int, NEW k \in 1..(b - a + 1)
  PROVE  S!Nth(a..b, k) = a + k - 1
<1> DEFINE I == a..b
           below(i) == {j \in I : j < i}
<1>1. ASSUME NEW i \in I PROVE Cardinality(below(i)) = i - a
  <2>1. below(i) = a..(i - 1)
    OBVIOUS
  <2>2. i \in Int /\ i - 1 \in Int /\ a <= i
    OBVIOUS
  <2>3. Cardinality(a..(i - 1)) = IF a > i - 1 THEN 0 ELSE (i - 1) - a + 1
    BY <2>2, FS_Interval
  <2> HIDE DEF below, I
  <2> QED BY <2>1, <2>2, <2>3
<1>2. a + k - 1 \in I /\ Cardinality(below(a + k - 1)) = k - 1
  <2>1. a + k - 1 \in I /\ (a + k - 1) - a = k - 1
    OBVIOUS
  <2> HIDE DEF I
  <2> QED BY <1>1, <2>1
<1>3. \A i \in I : Cardinality(below(i)) = k - 1 => i = a + k - 1
  <2> SUFFICES ASSUME NEW i \in I, Cardinality(below(i)) = k - 1 PROVE i = a + k - 1
    OBVIOUS
  <2>1. i - a = k - 1 /\ i \in Int
    BY <1>1
  <2> QED BY <2>1
<1>4. S!Nth(I, k) = CHOOSE i \in I : Cardinality(below(i)) = k - 1
  BY DEF S!Nth, S!Cardinality, Cardinality
<1> HIDE DEF I, below
<1>5. S!Nth(I, k) \in I /\ Cardinality(below(S!Nth(I, k))) = k - 1
  BY <1>2, <1>4
<1>6. S!Nth(I, k) = a + k - 1
  BY <1>3, <1>5
<1> QED BY <1>6 DEF I

\* What is left of a sequence that is cut at an end.
LEMMA CutProps ==
  ASSUME NEW X, NEW s \in Seq(X), NEW n \in 0..Len(s)
  PROVE  /\ S!AtPlaces(s, (n + 1)..Len(s)) = SubSeq(s, n + 1, Len(s))
         /\ S!AtPlaces(s, 1..n) = SubSeq(s, 1, n)
<1>0. Len(s) \in Nat /\ n \in Nat /\ n <= Len(s)
  OBVIOUS
<1>1. S!AtPlaces(s, (n + 1)..Len(s)) = SubSeq(s, n + 1, Len(s))
  <2> DEFINE a == S!AtPlaces(s, (n + 1)..Len(s))
             m == Len(s) - n
  <2>1. S!Cardinality((n + 1)..Len(s)) = m
    <3>1. n + 1 \in Int /\ Len(s) \in Int
      BY <1>0
    <3>2. Cardinality((n + 1)..Len(s)) = IF n + 1 > Len(s) THEN 0 ELSE Len(s) - (n + 1) + 1
      BY <3>1, FS_Interval
    <3>3. Cardinality((n + 1)..Len(s)) = m
      BY <1>0, <3>2
    <3> QED BY <3>3 DEF S!Cardinality, Cardinality
  <2>2. a = [k \in 1..m |-> s[S!Nth((n + 1)..Len(s), k)]]
    BY <2>1 DEF S!AtPlaces
  <2>3. ASSUME NEW k \in 1..m PROVE S!Nth((n + 1)..Len(s), k) = n + k
    <3>1. k \in 1..(Len(s) - (n + 1) + 1)
      BY <1>0
    <3>2. S!Nth((n + 1)..Len(s), k) = (n + 1) + k - 1
      BY <1>0, <3>1, NthInterval
    <3> QED BY <1>0, <3>2
  <2>4. a = [k \in 1..m |-> s[n + k]]
    BY <2>2, <2>3
  <2>5. SubSeq(s, n + 1, Len(s)) = [k \in 1..m |-> s[n + k]]
    BY <1>0
  <2> QED BY <2>4, <2>5
<1>2. S!AtPlaces(s, 1..n) = SubSeq(s, 1, n)
  <2> DEFINE a == S!AtPlaces(s, 1..n)
  <2>1. S!Cardinality(1..n) = n
    <3>1. Cardinality(1..n) = IF 1 > n THEN 0 ELSE n - 1 + 1
      BY <1>0, FS_Interval
    <3>2. Cardinality(1..n) = n
      BY <1>0, <3>1
    <3> QED BY <3>2 DEF S!Cardinality, Cardinality
  <2>2. a = [k \in 1..n |-> s[S!Nth(1..n, k)]]
    BY <2>1 DEF S!AtPlaces
  <2>3. ASSUME NEW k \in 1..n PROVE S!Nth(1..n, k) = k
    <3>1. k \in 1..(n - 1 + 1)
      BY <1>0
    <3>2. S!Nth(1..n, k) = 1 + k - 1
      BY <1>0, <3>1, NthInterval
    <3> QED BY <1>0, <3>2
  <2>4. a = [k \in 1..n |-> s[k]]
    BY <2>2, <2>3
  <2>5. SubSeq(s, 1, n) = [k \in 1..n |-> s[k]]
    BY <1>0
  <2> QED BY <2>4, <2>5
<1> QED BY <1>1, <1>2

\* A sequence without repetition has as many members as places.
LEMMA MemberCount ==
  ASSUME NEW X, NEW s \in Seq(X), IsInjective(s)
  PROVE  IsFiniteSet(ToSet(s)) /\ Cardinality(ToSet(s)) = Len(s)
<1> DEFINE n == Len(s)
<1>1. n \in Nat /\ DOMAIN s = 1..n /\ s \in [1..n -> ToSet(s)]
  BY DEF ToSet
<1>2. s \in Bijection(1..n, ToSet(s))
  BY <1>1 DEF Bijection, Injection, Surjection, IsInjective, ToSet
<1>3. ExistsBijection(1..n, ToSet(s))
  BY <1>2 DEF ExistsBijection
<1>4. IsFiniteSet(1..n) /\ Cardinality(1..n) = n
  <2>1. IsFiniteSet(1..n) /\ Cardinality(1..n) = IF 1 > n THEN 0 ELSE n - 1 + 1
    BY <1>1, FS_Interval
  <2> HIDE DEF n
  <2> QED BY <1>1, <2>1
<1> HIDE DEF n
<1>5. IsFiniteSet(ToSet(s)) /\ Cardinality(ToSet(s)) = n
  BY <1>3, <1>4, FS_Bijection
<1> QED BY <1>5 DEF n

\* The sequences of a finite set have each member once.
LEMMA SeqsOfSet ==
  ASSUME NEW T, IsFiniteSet(T), NEW o \in SetToSeqs(T)
  PROVE  /\ o \in Seq(T) /\ IsInjective(o)
         /\ ToSet(o) = T /\ Len(o) = Cardinality(T)
<1> DEFINE n == Cardinality(T)
<1>1. n \in Nat
  BY FS_CardinalityType
<1>2. o \in [1..n -> T] /\ \A i, j \in 1..n : i # j => o[i] # o[j]
  BY DEF SetToSeqs
<1>3. o \in Injection(1..n, T)
  BY <1>2 DEF Injection, IsInjective
<1>4. IsFiniteSet(1..n) /\ Cardinality(1..n) = n
  <2>1. IsFiniteSet(1..n) /\ Cardinality(1..n) = IF 1 > n THEN 0 ELSE n - 1 + 1
    BY <1>1, FS_Interval
  <2> HIDE DEF n
  <2> QED BY <1>1, <2>1
<1>5. o \in Surjection(1..n, T)
  BY <1>3, <1>4, FS_Injection
<1> HIDE DEF n
<1>6. o \in Seq(T) /\ Len(o) = n /\ DOMAIN o = 1..n
  BY <1>1, <1>2
<1>7. ToSet(o) = T
  BY <1>5, <1>6 DEF Surjection, ToSet
<1> QED BY <1>2, <1>6, <1>7 DEF IsInjective, n

LEMMA SetOfSeqs ==
  ASSUME NEW X, NEW s \in Seq(X), IsInjective(s)
  PROVE  s \in SetToSeqs(ToSet(s))
<1>1. Cardinality(ToSet(s)) = Len(s)
  BY MemberCount
<1>2. s \in [1..Len(s) -> ToSet(s)]
  BY DEF ToSet
<1>3. \A i, j \in 1..Len(s) : i # j => s[i] # s[j]
  BY DEF IsInjective
<1> QED BY <1>1, <1>2, <1>3 DEF SetToSeqs

\* A sequence that is turned round.
LEMMA ReverseProps ==
  ASSUME NEW X, NEW s \in Seq(X)
  PROVE  /\ Reverse(s) \in Seq(X) /\ Len(Reverse(s)) = Len(s)
         /\ \A i \in 1..Len(s) : /\ Len(s) - i + 1 \in 1..Len(s)
                                 /\ Reverse(s)[i] = s[Len(s) - i + 1]
         /\ ToSet(Reverse(s)) = ToSet(s)
         /\ IsInjective(s) => IsInjective(Reverse(s))
<1> DEFINE n == Len(s)
           r == Reverse(s)
<1>1. n \in Nat /\ DOMAIN s = 1..n /\ \A i \in 1..n : s[i] \in X
  OBVIOUS
<1>2. r = [i \in 1..n |-> s[n - i + 1]]
  BY DEF Reverse
<1> HIDE DEF n, r
<1>3. \A i \in 1..n : n - i + 1 \in 1..n /\ n - (n - i + 1) + 1 = i
  BY <1>1
<1>4. r \in Seq(X) /\ Len(r) = n /\ DOMAIN r = 1..n
  BY <1>1, <1>2, <1>3
<1>5. \A i \in 1..n : r[i] = s[n - i + 1] /\ r[n - i + 1] = s[i]
  BY <1>2, <1>3
<1>6. ToSet(r) = ToSet(s)
  BY <1>1, <1>3, <1>4, <1>5 DEF ToSet
<1>7. ASSUME IsInjective(s), NEW i \in 1..n, NEW j \in 1..n, r[i] = r[j] PROVE i = j
  <2>1. n - i + 1 = n - j + 1
    BY <1>1, <1>3, <1>5, <1>7 DEF IsInjective
  <2> QED BY <1>1, <2>1
<1>8. IsInjective(s) => IsInjective(r)
  BY <1>4, <1>7 DEF IsInjective
<1> QED BY <1>3, <1>4, <1>5, <1>6, <1>8 DEF n, r

-----------------------------------------------------------------------------
(* The orders of a queue *)

\* Whatever the discipline, an order has the processes of the queue, each once.
LEMMA OrderProps ==
  ASSUME NEW d \in Disciplines, NEW q \in Seq(Procs), IsInjective(q), NEW o \in OrdersOf(d, q)
  PROVE  /\ o \in Seq(Procs) /\ IsInjective(o)
         /\ ToSet(o) = ToSet(q) /\ Len(o) = Len(q)
<1>0. IsFiniteSet(ToSet(q)) /\ Cardinality(ToSet(q)) = Len(q) /\ ToSet(q) \subseteq Procs
  BY MemberCount DEF ToSet
<1>1. CASE d = "FIFO"
  BY <1>1 DEF OrdersOf
<1>2. CASE d = "LIFO"
  BY <1>2, ReverseProps DEF OrdersOf
<1>3. CASE d \in {"SIRO", "PRIORITY"}
  <2>1. o \in SetToSeqs(ToSet(q))
    BY <1>3 DEF OrdersOf
  <2>2. /\ o \in Seq(ToSet(q)) /\ IsInjective(o)
        /\ ToSet(o) = ToSet(q) /\ Len(o) = Cardinality(ToSet(q))
    BY <1>0, <2>1, SeqsOfSet
  <2> QED BY <1>0, <2>2
<1> QED BY <1>1, <1>2, <1>3 DEF Disciplines

\* The order of those who remain when the first are taken out.
LEMMA RestProps ==
  ASSUME NEW X, NEW o \in Seq(X), NEW n \in 0..Len(o)
  PROVE  LET r == SubSeq(o, n + 1, Len(o))
         IN /\ r \in Seq(X) /\ Len(r) = Len(o) - n
            /\ \A i \in 1..Len(r) : n + i \in 1..Len(o) /\ r[i] = o[n + i]
            /\ IsInjective(o) => /\ IsInjective(r)
                                 /\ ToSet(r) = ToSet(o) \ ToSet(SubSeq(o, 1, n))
<1> DEFINE r == SubSeq(o, n + 1, Len(o))
           f == SubSeq(o, 1, n)
           l == Len(o)
<1>0. l \in Nat /\ n \in Nat /\ n <= l /\ DOMAIN o = 1..l /\ \A i \in 1..l : o[i] \in X
  OBVIOUS
<1>1. r = [i \in 1..(l - n) |-> o[n + i]]
  BY <1>0
<1>2. f = [i \in 1..n |-> o[i]]
  BY <1>0
<1> HIDE DEF r, f, l
<1>3. \A i \in 1..(l - n) : n + i \in 1..l
  BY <1>0
<1>4. r \in Seq(X) /\ Len(r) = l - n /\ DOMAIN r = 1..(l - n)
  <2>1. l - n \in Nat
    BY <1>0
  <2> QED BY <1>0, <1>1, <1>3, <2>1
<1>5. ASSUME IsInjective(o) PROVE IsInjective(r)
  <2>1. SUFFICES ASSUME NEW i \in 1..(l - n), NEW j \in 1..(l - n), r[i] = r[j] PROVE i = j
    BY <1>4 DEF IsInjective
  <2>2. n + i \in 1..l /\ n + j \in 1..l /\ o[n + i] = o[n + j]
    BY <1>1, <1>3, <2>1
  <2>3. n + i = n + j
    BY <1>0, <1>5, <2>2 DEF IsInjective
  <2> QED BY <1>0, <2>3
<1>6. ASSUME IsInjective(o) PROVE ToSet(r) = ToSet(o) \ ToSet(f)
  <2>1. ASSUME NEW i \in 1..(l - n) PROVE r[i] \in ToSet(o) \ ToSet(f)
    <3>1. r[i] = o[n + i] /\ n + i \in 1..l /\ n + i > n
      BY <1>0, <1>1, <1>3
    <3>2. \A k \in 1..n : o[k] # o[n + i]
      BY <1>0, <1>6, <3>1 DEF IsInjective
    <3> QED BY <1>0, <1>2, <3>1, <3>2 DEF ToSet
  <2>2. ASSUME NEW i \in 1..l, o[i] \notin ToSet(f) PROVE o[i] \in ToSet(r)
    <3>1. i > n
      BY <1>0, <1>2, <2>2 DEF ToSet
    <3>2. i - n \in 1..(l - n) /\ n + (i - n) = i
      BY <1>0, <3>1
    <3>3. r[i - n] = o[i]
      BY <1>1, <3>2
    <3> QED BY <1>4, <3>2, <3>3 DEF ToSet
  <2> QED BY <1>0, <1>4, <2>1, <2>2 DEF ToSet
<1> QED BY <1>0, <1>1, <1>3, <1>4, <1>5, <1>6 DEF r, f, l

\* The members of a queue that are not among the first n of an order.
Rest(q, o, n) == S!AtPlaces(q, {i \in DOMAIN q : q[i] \notin ToSet(SubSeq(o, 1, n))})

\* What is left of an order is one of the queue that is left.
LEMMA OrderRest ==
  ASSUME S!ProcsOK, Prio \in [Procs -> Int],
         NEW d \in Disciplines, NEW q \in Seq(Procs), IsInjective(q), NEW o \in OrdersOf(d, q),
         NEW n \in 0..Len(o)
  PROVE  SubSeq(o, n + 1, Len(o)) \in OrdersOf(d, Rest(q, o, n))
<1> DEFINE r == SubSeq(o, n + 1, Len(o))
           f == SubSeq(o, 1, n)
           I == {i \in DOMAIN q : q[i] \notin ToSet(f)}
<1>0. /\ o \in Seq(Procs) /\ IsInjective(o)
      /\ ToSet(o) = ToSet(q) /\ Len(o) = Len(q)
  BY OrderProps
<1>1. Len(q) \in Nat /\ n \in Nat /\ n <= Len(q) /\ DOMAIN q = 1..Len(q) /\ DOMAIN o = 1..Len(q)
  BY <1>0
<1>2. DOMAIN f = 1..n /\ \A k \in 1..n : f[k] = o[k]
  BY <1>0, <1>1
<1>3. /\ r \in Seq(Procs) /\ Len(r) = Len(o) - n /\ IsInjective(r)
      /\ \A i \in 1..Len(r) : n + i \in 1..Len(o) /\ r[i] = o[n + i]
      /\ ToSet(r) = ToSet(o) \ ToSet(f)
  BY <1>0, RestProps
<1>4. Rest(q, o, n) = S!AtPlaces(q, I)
  BY DEF Rest
<1>5. ToSet(S!AtPlaces(q, I)) = {q[i] : i \in I}
  <2>1. I \in SUBSET DOMAIN q
    OBVIOUS
  <2> HIDE DEF I
  <2> QED BY <2>1, PartProps
<1>6. ToSet(r) = ToSet(Rest(q, o, n))
  <2>1. {q[i] : i \in I} = ToSet(q) \ ToSet(f)
    BY DEF ToSet
  <2> QED BY <1>0, <1>3, <1>4, <1>5, <2>1
<1>a. CASE d = "FIFO"
  <2>1. o = q
    BY <1>a DEF OrdersOf
  <2>2. I = (n + 1)..Len(q)
    <3>1. ASSUME NEW i \in 1..Len(q) PROVE q[i] \in ToSet(f) <=> i \in 1..n
      <4> HIDE DEF f
      <4>1. q[i] \in ToSet(f) <=> \E k \in 1..n : f[k] = q[i]
        BY <1>2 DEF ToSet
      <4>2. ASSUME NEW k \in 1..n, f[k] = q[i] PROVE i \in 1..n
        <5>1. k \in 1..Len(q) /\ q[k] = q[i]
          BY <1>1, <1>2, <2>1, <4>2
        <5>2. k = i
          BY <1>1, <5>1 DEF IsInjective
        <5> QED BY <5>2
      <4>3. i \in 1..n => f[i] = q[i]
        BY <1>2, <2>1
      <4> QED BY <4>1, <4>2, <4>3
    <3> HIDE DEF f
    <3>2. \A i \in 1..Len(q) : i \notin 1..n <=> i \in (n + 1)..Len(q)
      BY <1>1
    <3>3. (n + 1)..Len(q) \subseteq 1..Len(q)
      BY <1>1
    <3> QED BY <1>1, <3>1, <3>2, <3>3
  <2>3. S!AtPlaces(q, I) = r
    <3> HIDE DEF I
    <3>1. S!AtPlaces(q, (n + 1)..Len(q)) = SubSeq(q, n + 1, Len(q))
      BY <1>1, CutProps
    <3> QED BY <2>1, <2>2, <3>1
  <2> QED BY <1>4, <1>a, <2>3 DEF OrdersOf
<1>b. CASE d = "LIFO"
  <2>1. o = Reverse(q)
    BY <1>b DEF OrdersOf
  <2>r. \A i \in 1..Len(q) : Len(q) - i + 1 \in 1..Len(q) /\ o[i] = q[Len(q) - i + 1]
    BY <2>1, ReverseProps
  <2> DEFINE m == Len(q) - n
  <2>m. m \in Nat /\ m <= Len(q) /\ m \in 0..Len(q)
    BY <1>1
  <2>2. I = 1..m
    <3>1. ASSUME NEW i \in 1..Len(q) PROVE q[i] \in ToSet(f) <=> i \notin 1..m
      <4>1. ASSUME NEW k \in 1..n PROVE f[k] = q[i] <=> i = Len(q) - k + 1
        <5>1. k \in 1..Len(q)
          BY <1>1
        <5>2. f[k] = q[Len(q) - k + 1] /\ Len(q) - k + 1 \in 1..Len(q)
          BY <1>2, <2>r, <5>1
        <5> QED BY <1>1, <5>2 DEF IsInjective
      <4>2. (\E k \in 1..n : i = Len(q) - k + 1) <=> i \notin 1..m
        <5>1. ASSUME i \notin 1..m PROVE Len(q) - i + 1 \in 1..n /\ i = Len(q) - (Len(q) - i + 1) + 1
          BY <1>1, <5>1
        <5>2. ASSUME NEW k \in 1..n, i = Len(q) - k + 1 PROVE i \notin 1..m
          BY <1>1, <5>2
        <5> HIDE DEF m
        <5> QED BY <5>1, <5>2
      <4>3. q[i] \in ToSet(f) <=> \E k \in 1..n : f[k] = q[i]
        <5> HIDE DEF f
        <5> QED BY <1>2 DEF ToSet
      <4> HIDE DEF f, m
      <4> QED BY <4>1, <4>2, <4>3
    <3>2. 1..m \subseteq 1..Len(q)
      BY <1>1
    <3> HIDE DEF f, m
    <3> QED BY <1>1, <3>1, <3>2
  <2> DEFINE c == SubSeq(q, 1, m)
  <2>3. S!AtPlaces(q, I) = c
    <3> HIDE DEF I, m
    <3> QED BY <2>m, <2>2, CutProps
  <2>4. c \in Seq(Procs) /\ Len(c) = m /\ \A k \in 1..m : c[k] = q[k]
    <3>1. m \in 0..Len(q)
      BY <1>1
    <3> HIDE DEF m
    <3>2. \A k \in 1..m : q[k] \in Procs
      BY <3>1
    <3>3. /\ c \in Seq(Procs) /\ Len(c) = IF 1 <= m THEN m - 1 + 1 ELSE 0
          /\ \A k \in 1..m - 1 + 1 : c[k] = q[1 + k - 1]
      BY <3>1, <3>2, SubSeqProperties
    <3> HIDE DEF c
    <3>4. Len(c) = m
      BY <3>1, <3>3
    <3>5. \A k \in 1..m : k \in 1..m - 1 + 1 /\ 1 + k - 1 = k
      BY <3>1
    <3> QED BY <3>3, <3>4, <3>5
  <2>5. Reverse(c) \in Seq(Procs) /\ Len(Reverse(c)) = m
        /\ \A i \in 1..m : m - i + 1 \in 1..m /\ Reverse(c)[i] = c[m - i + 1]
    <3> HIDE DEF c, m
    <3> QED BY <2>4, ReverseProps
  <2>6. Len(r) = m
    BY <1>0, <1>3
  <2>7. ASSUME NEW i \in 1..m PROVE Reverse(c)[i] = r[i]
    <3>1. Reverse(c)[i] = q[m - i + 1]
      <4> HIDE DEF c, m
      <4> QED BY <2>4, <2>5
    <3>2. i \in 1..Len(r) /\ r[i] = o[n + i] /\ n + i \in 1..Len(q)
      <4> HIDE DEF r, m
      <4> QED BY <1>0, <1>3, <2>6
    <3>3. o[n + i] = q[Len(q) - (n + i) + 1]
      BY <2>r, <3>2
    <3>4. Len(q) - (n + i) + 1 = m - i + 1
      BY <1>1
    <3> HIDE DEF r, m
    <3> QED BY <3>1, <3>2, <3>3, <3>4
  <2>8. Reverse(c) = r
    <3> HIDE DEF c, r, m
    <3> QED BY <1>3, <2>5, <2>6, <2>7, SeqEqual
  <2> QED BY <1>4, <1>b, <2>3, <2>8 DEF OrdersOf
<1>c. ASSUME d \in {"SIRO", "PRIORITY"} PROVE r \in SetToSeqs(ToSet(Rest(q, o, n)))
  <2> HIDE DEF r
  <2> QED BY <1>3, <1>6, SetOfSeqs
<1>d. CASE d = "SIRO"
  BY <1>c, <1>d DEF OrdersOf
<1>e. CASE d = "PRIORITY"
  <2>1. \A i, j \in DOMAIN o : i < j => Prio[o[i]] <= Prio[o[j]]
    BY <1>e DEF OrdersOf
  <2>2. ASSUME NEW i \in DOMAIN r, NEW j \in DOMAIN r, i < j PROVE Prio[r[i]] <= Prio[r[j]]
    <3> HIDE DEF r
    <3>1. DOMAIN r = 1..Len(r)
      BY <1>3
    <3>2. n + i \in DOMAIN o /\ n + j \in DOMAIN o /\ r[i] = o[n + i] /\ r[j] = o[n + j]
      BY <1>0, <1>1, <1>3, <3>1
    <3>3. n + i < n + j
      BY <1>1, <2>2, <3>1
    <3> QED BY <2>1, <3>2, <3>3
  <2> HIDE DEF r
  <2>3. r \in SetToSeqs(ToSet(Rest(q, o, n)))
    BY <1>c, <1>e
  <2>4. OrdersOf(d, Rest(q, o, n)) = {x \in SetToSeqs(ToSet(Rest(q, o, n))) :
                                      \A i, j \in DOMAIN x : i < j => Prio[x[i]] <= Prio[x[j]]}
    BY <1>e DEF OrdersOf
  <2>5. \A i, j \in DOMAIN r : i < j => Prio[r[i]] <= Prio[r[j]]
    BY <2>2
  <2>6. r \in OrdersOf(d, Rest(q, o, n))
    BY <2>3, <2>4, <2>5, Zenon
  <2> QED BY <2>6 DEF r
<1> QED BY <1>a, <1>b, <1>d, <1>e DEF Disciplines

\* A process is put before place m.
Inserted(o, m, p) == [k \in 1..(Len(o) + 1) |-> IF k < m THEN o[k]
                                                ELSE IF k = m THEN p ELSE o[k - 1]]

LEMMA InsertedProps ==
  ASSUME NEW o \in Seq(Procs), IsInjective(o), NEW p \in Procs, p \notin ToSet(o),
         NEW m \in 1..(Len(o) + 1)
  PROVE  /\ Inserted(o, m, p) \in Seq(Procs) /\ IsInjective(Inserted(o, m, p))
         /\ Len(Inserted(o, m, p)) = Len(o) + 1
         /\ ToSet(Inserted(o, m, p)) = ToSet(o) \cup {p}
         /\ \A k \in 1..(Len(o) + 1) :
              \/ k < m /\ k \in 1..Len(o) /\ Inserted(o, m, p)[k] = o[k]
              \/ k = m /\ Inserted(o, m, p)[k] = p
              \/ k > m /\ k - 1 \in 1..Len(o) /\ Inserted(o, m, p)[k] = o[k - 1]
<1> DEFINE l == Len(o)
           e == Inserted(o, m, p)
<1>0. l \in Nat /\ m \in Nat /\ 1 <= m /\ m <= l + 1 /\ DOMAIN o = 1..l /\ \A i \in 1..l : o[i] \in Procs
  OBVIOUS
<1>1. e = [k \in 1..(l + 1) |-> IF k < m THEN o[k] ELSE IF k = m THEN p ELSE o[k - 1]]
  BY DEF Inserted
<1> HIDE DEF l, e
<1>2. \A k \in 1..(l + 1) :
              \/ k < m /\ k \in 1..l /\ e[k] = o[k]
              \/ k = m /\ e[k] = p
              \/ k > m /\ k - 1 \in 1..l /\ e[k] = o[k - 1]
  BY <1>0, <1>1
<1>3. \A k \in 1..(l + 1) : e[k] \in Procs
  BY <1>0, <1>2
<1>4. e \in Seq(Procs) /\ Len(e) = l + 1 /\ DOMAIN e = 1..(l + 1)
  <2>1. l + 1 \in Nat
    BY <1>0
  <2> QED BY <1>1, <1>3, <2>1
<1>5. \A i \in 1..l : o[i] # p
  BY <1>0 DEF ToSet
<1>6. ASSUME NEW i \in 1..(l + 1), NEW j \in 1..(l + 1), e[i] = e[j] PROVE i = j
  <2>1. \A a, b \in 1..l : o[a] = o[b] => a = b
    BY <1>0 DEF IsInjective
  <2>2. i \in Int /\ j \in Int
    BY <1>0
  <2>3. CASE i = m
    BY <1>2, <1>5, <1>6, <2>3
  <2>4. CASE j = m
    BY <1>2, <1>5, <1>6, <2>4
  <2>5. CASE i < m /\ j < m
    BY <1>2, <1>6, <2>1, <2>5, <1>0
  <2>6. CASE i > m /\ j > m
    <3>1. i - 1 = j - 1
      BY <1>2, <1>6, <2>1, <2>6, <1>0
    <3> QED BY <2>2, <3>1
  <2>7. CASE i < m /\ j > m
    <3>1. i = j - 1
      BY <1>2, <1>6, <2>1, <2>7, <1>0
    <3> QED BY <1>0, <2>2, <2>7, <3>1
  <2>8. CASE i > m /\ j < m
    <3>1. j = i - 1
      BY <1>2, <1>6, <2>1, <2>8, <1>0
    <3> QED BY <1>0, <2>2, <2>8, <3>1
  <2> QED BY <1>0, <2>2, <2>3, <2>4, <2>5, <2>6, <2>7, <2>8
<1>7. ToSet(e) = ToSet(o) \cup {p}
  <2>1. ASSUME NEW i \in 1..l PROVE o[i] \in ToSet(e)
    <3>1. CASE i < m
      <4>1. i \in 1..(l + 1) /\ e[i] = o[i]
        BY <1>0, <1>1, <3>1
      <4> QED BY <1>4, <4>1 DEF ToSet
    <3>2. CASE ~(i < m)
      <4>1. i + 1 \in 1..(l + 1) /\ e[i + 1] = o[i]
        BY <1>0, <1>1, <3>2
      <4> QED BY <1>4, <4>1 DEF ToSet
    <3> QED BY <3>1, <3>2
  <2>2. m \in 1..(l + 1) /\ e[m] = p
    BY <1>0, <1>1
  <2>3. p \in ToSet(e)
    BY <1>4, <2>2 DEF ToSet
  <2>4. ASSUME NEW k \in 1..(l + 1) PROVE e[k] \in ToSet(o) \cup {p}
    BY <1>0, <1>2 DEF ToSet
  <2>5. ToSet(o) \subseteq ToSet(e)
    BY <1>0, <2>1 DEF ToSet
  <2>6. ToSet(e) \subseteq ToSet(o) \cup {p}
    BY <1>4, <2>4 DEF ToSet
  <2> QED BY <2>3, <2>5, <2>6
<1>8. IsInjective(e)
  BY <1>4, <1>6 DEF IsInjective
<1> QED BY <1>2, <1>4, <1>7, <1>8 DEF l, e

\* The place for a process in an order by priority.
LEMMA PlaceByPriority ==
  ASSUME Prio \in [Procs -> Int], NEW o \in Seq(Procs), NEW p \in Procs,
         \A i, j \in DOMAIN o : i < j => Prio[o[i]] <= Prio[o[j]]
  PROVE  \E m \in 1..(Len(o) + 1) :
           /\ \A i \in 1..Len(o) : i < m => Prio[o[i]] <= Prio[p]
           /\ \A i \in 1..Len(o) : m <= i => Prio[p] <= Prio[o[i]]
<1> DEFINE l == Len(o)
           low(n) == \A i \in 1..l : i <= n => Prio[o[i]] <= Prio[p]
           G == {n \in Nat : n <= l =>
                   low(n) \/ \E m \in 1..l : low(m - 1) /\ Prio[p] < Prio[o[m]]}
<1>0. l \in Nat /\ DOMAIN o = 1..l /\ \A i \in 1..l : o[i] \in Procs /\ Prio[o[i]] \in Int
  OBVIOUS
<1>p. Prio[p] \in Int
  OBVIOUS
<1> HIDE DEF l
<1>1. 0 \in G
  BY <1>0
<1>2. ASSUME NEW n \in Nat, n \in G PROVE n + 1 \in G
  <2> SUFFICES ASSUME n + 1 <= l, low(n)
               PROVE  low(n + 1) \/ \E m \in 1..l : low(m - 1) /\ Prio[p] < Prio[o[m]]
    BY <1>0, <1>2
  <2>1. n + 1 \in 1..l /\ (n + 1) - 1 = n
    BY <1>0
  <2>2. CASE Prio[p] < Prio[o[n + 1]]
    BY <2>1, <2>2
  <2>3. CASE Prio[o[n + 1]] <= Prio[p]
    <3>1. low(n + 1)
      <4>1. \A i \in 1..l : i <= n + 1 => i <= n \/ i = n + 1
        BY <1>0
      <4> QED BY <2>3, <4>1
    <3> QED BY <3>1
  <2> QED BY <1>0, <1>p, <2>1, <2>2, <2>3
<1>3. l \in G
  <2> HIDE DEF G
  <2> QED BY <1>0, <1>1, <1>2, AllNat
<1>4. ASSUME low(l)
      PROVE  \E k \in 1..(l + 1) :
           /\ \A i \in 1..l : i < k => Prio[o[i]] <= Prio[p]
           /\ \A i \in 1..l : k <= i => Prio[p] <= Prio[o[i]]
  <2>1. l + 1 \in 1..(l + 1)
    BY <1>0
  <2>2. \A i \in 1..l : i < l + 1 /\ i <= l /\ ~(l + 1 <= i)
    BY <1>0
  <2>3. \A i \in 1..l : Prio[o[i]] <= Prio[p]
    BY <1>4, <2>2
  <2> HIDE DEF l
  <2> QED BY <2>1, <2>2, <2>3
<1>5. ASSUME NEW m \in 1..l, low(m - 1), Prio[p] < Prio[o[m]]
      PROVE  \E k \in 1..(l + 1) :
           /\ \A i \in 1..l : i < k => Prio[o[i]] <= Prio[p]
           /\ \A i \in 1..l : k <= i => Prio[p] <= Prio[o[i]]
  <2>1. m \in 1..(l + 1)
    BY <1>0
  <2>2. \A i \in 1..l : i < m => i <= m - 1
    BY <1>0
  <2>3. ASSUME NEW i \in 1..l, m <= i PROVE Prio[p] <= Prio[o[i]]
    <3>1. CASE m = i
      BY <1>0, <1>p, <1>5, <3>1
    <3>2. CASE m < i
      <4>1. Prio[o[m]] <= Prio[o[i]]
        BY <1>0, <3>2
      <4>2. Prio[o[m]] \in Int /\ Prio[o[i]] \in Int
        BY <1>0
      <4> HIDE DEF l
      <4> QED BY <1>p, <1>5, <4>1, <4>2
    <3> QED BY <1>0, <2>3, <3>1, <3>2
  <2>4. \A i \in 1..l : i < m => Prio[o[i]] <= Prio[p]
    BY <1>5, <2>2
  <2> QED BY <2>1, <2>3, <2>4
<1>6. low(l) \/ \E m \in 1..l : low(m - 1) /\ Prio[p] < Prio[o[m]]
  BY <1>0, <1>3
<1> HIDE DEF low
<1>7. ASSUME ~low(l)
      PROVE  \E k \in 1..(l + 1) :
           /\ \A i \in 1..l : i < k => Prio[o[i]] <= Prio[p]
           /\ \A i \in 1..l : k <= i => Prio[p] <= Prio[o[i]]
  <2>1. PICK m \in 1..l : low(m - 1) /\ Prio[p] < Prio[o[m]]
    BY <1>6, <1>7
  <2> QED BY <1>5, <2>1
<1> QED BY <1>4, <1>7 DEF l

\* Who comes to a queue is next in some order, or whoever was next still is.
LEMMA OrderAppend ==
  ASSUME Prio \in [Procs -> Int],
         NEW d \in Disciplines, NEW q \in Seq(Procs), IsInjective(q), NEW o \in OrdersOf(d, q),
         NEW p \in Procs, p \notin ToSet(q)
  PROVE  \E e \in OrdersOf(d, Append(q, p)) : e[1] = p \/ (q # <<>> /\ e[1] = o[1])
<1> DEFINE a == Append(q, p)
<1>0. /\ o \in Seq(Procs) /\ IsInjective(o)
      /\ ToSet(o) = ToSet(q) /\ Len(o) = Len(q)
  BY OrderProps
<1>1. a \in Seq(Procs) /\ Len(a) = Len(q) + 1 /\ DOMAIN a = 1..(Len(q) + 1)
      /\ \A i \in 1..(Len(q) + 1) : a[i] = IF i <= Len(q) THEN q[i] ELSE p
  OBVIOUS
<1>2. DOMAIN q = 1..Len(q) /\ Len(q) \in Nat /\ (q # <<>> => Len(q) >= 1)
  OBVIOUS
<1> HIDE DEF a
<1>3. ToSet(a) = ToSet(q) \cup {p}
  <2>1. Inserted(q, Len(q) + 1, p) = a
    <3>1. Inserted(q, Len(q) + 1, p) \in Seq(Procs) /\ Len(Inserted(q, Len(q) + 1, p)) = Len(q) + 1
      BY <1>2, InsertedProps
    <3>2. ASSUME NEW i \in 1..(Len(q) + 1) PROVE Inserted(q, Len(q) + 1, p)[i] = a[i]
      BY <1>1, <1>2 DEF Inserted
    <3> QED BY <1>1, <3>1, <3>2, SeqEqual
  <2>2. Len(q) + 1 \in 1..(Len(q) + 1)
    BY <1>2
  <2> QED BY <2>1, <2>2, InsertedProps
\* An order of the queue that p is put into.
<1>4. ASSUME NEW m \in 1..(Len(o) + 1)
      PROVE  /\ Inserted(o, m, p) \in SetToSeqs(ToSet(a))
             /\ Inserted(o, m, p)[1] = p \/ (q # <<>> /\ Inserted(o, m, p)[1] = o[1])
  <2>1. /\ Inserted(o, m, p) \in Seq(Procs) /\ IsInjective(Inserted(o, m, p))
        /\ ToSet(Inserted(o, m, p)) = ToSet(a)
    BY <1>0, <1>3, InsertedProps
  <2>2. Inserted(o, m, p) \in SetToSeqs(ToSet(a))
    BY <2>1, SetOfSeqs
  <2>3. 1 \in 1..(Len(o) + 1)
    BY <1>0, <1>2
  <2>4. CASE m = 1
    BY <2>2, <2>3, <2>4 DEF Inserted
  <2>5. CASE m # 1
    <3>1. Inserted(o, m, p)[1] = o[1]
      BY <2>3, <2>5 DEF Inserted
    <3>2. q # <<>>
      BY <1>0, <1>2, <2>5
    <3> QED BY <2>2, <3>1, <3>2
  <2> QED BY <2>4, <2>5
<1>a. CASE d = "FIFO"
  <2>1. a \in OrdersOf(d, a) /\ o = q
    BY <1>a DEF OrdersOf
  <2>2. a[1] = p \/ (q # <<>> /\ a[1] = q[1])
    <3>1. 1 \in 1..(Len(q) + 1)
      BY <1>2
    <3>2. CASE 1 <= Len(q)
      <4>1. a[1] = q[1] /\ q # <<>>
        BY <1>1, <3>1, <3>2
      <4> QED BY <4>1
    <3>3. CASE ~(1 <= Len(q))
      BY <1>1, <3>1, <3>3
    <3> QED BY <3>2, <3>3
  <2> QED BY <2>1, <2>2 DEF a
<1>b. CASE d = "LIFO"
  <2>1. Reverse(a) \in OrdersOf(d, a)
    BY <1>b DEF OrdersOf
  <2>2. Reverse(a)[1] = p
    <3>1. 1 \in 1..Len(a) /\ Len(a) - 1 + 1 = Len(q) + 1 /\ Len(q) + 1 \in 1..(Len(q) + 1)
          /\ ~(Len(q) + 1 <= Len(q))
      BY <1>1, <1>2
    <3>2. Reverse(a)[1] = a[Len(a) - 1 + 1]
      BY <1>1, <3>1, ReverseProps
    <3> QED BY <1>1, <3>1, <3>2
  <2> QED BY <2>1, <2>2 DEF a
<1>c. CASE d = "SIRO"
  <2>1. OrdersOf(d, a) = SetToSeqs(ToSet(a))
    BY <1>c DEF OrdersOf
  <2>2. Len(o) + 1 \in 1..(Len(o) + 1)
    BY <1>0, <1>2
  <2> QED BY <1>4, <2>1, <2>2 DEF a
<1>d. CASE d = "PRIORITY"
  <2>1. \A i, j \in DOMAIN o : i < j => Prio[o[i]] <= Prio[o[j]]
    BY <1>d DEF OrdersOf
  <2>2. PICK m \in 1..(Len(o) + 1) :
          /\ \A i \in 1..Len(o) : i < m => Prio[o[i]] <= Prio[p]
          /\ \A i \in 1..Len(o) : m <= i => Prio[p] <= Prio[o[i]]
    BY <1>0, <2>1, PlaceByPriority
  <2> DEFINE e == Inserted(o, m, p)
             l == Len(o)
  <2>3. e \in SetToSeqs(ToSet(a)) /\ (e[1] = p \/ (q # <<>> /\ e[1] = o[1]))
    BY <1>4
  <2>4. /\ DOMAIN e = 1..(l + 1)
        /\ \A k \in 1..(l + 1) :
              \/ k < m /\ k \in 1..l /\ e[k] = o[k]
              \/ k = m /\ e[k] = p
              \/ k > m /\ k - 1 \in 1..l /\ e[k] = o[k - 1]
    BY <1>0, InsertedProps DEF Inserted
  <2>5. l \in Nat /\ DOMAIN o = 1..l /\ m \in 1..(l + 1)
        /\ \A i \in 1..l : Prio[o[i]] \in Int
    BY <1>0
  <2>6. \A i \in 1..l : (i < m => Prio[o[i]] <= Prio[p]) /\ (m <= i => Prio[p] <= Prio[o[i]])
    BY <2>2
  <2> HIDE DEF e, l
  <2>7. ASSUME NEW i \in DOMAIN e, NEW j \in DOMAIN e, i < j PROVE Prio[e[i]] <= Prio[e[j]]
    <3>0. i \in 1..(l + 1) /\ j \in 1..(l + 1) /\ i \in Int /\ j \in Int /\ m \in Int
      BY <2>4, <2>5
    <3>1. CASE j < m
      <4>1. i \in 1..l /\ j \in 1..l /\ e[i] = o[i] /\ e[j] = o[j]
        BY <2>4, <2>7, <3>0, <3>1
      <4> QED BY <2>1, <2>5, <2>7, <4>1
    <3>2. CASE j = m
      <4>1. i \in 1..l /\ e[i] = o[i] /\ e[j] = p /\ i < m
        BY <2>4, <2>7, <3>0, <3>2
      <4> QED BY <2>6, <4>1
    <3>3. CASE j > m /\ i < m
      <4>1. i \in 1..l /\ e[i] = o[i] /\ j - 1 \in 1..l /\ e[j] = o[j - 1]
        BY <2>4, <3>0, <3>3
      <4>2. i < j - 1 \/ i = j - 1
        BY <2>7, <3>0
      <4>3. Prio[o[i]] <= Prio[o[j - 1]]
        BY <2>1, <2>5, <4>1, <4>2
      <4> QED BY <4>1, <4>3
    <3>4. CASE j > m /\ i = m
      <4>1. e[i] = p /\ j - 1 \in 1..l /\ e[j] = o[j - 1] /\ m <= j - 1
        BY <2>4, <3>0, <3>4
      <4> QED BY <2>6, <4>1
    <3>5. CASE j > m /\ i > m
      <4>1. i - 1 \in 1..l /\ e[i] = o[i - 1] /\ j - 1 \in 1..l /\ e[j] = o[j - 1] /\ i - 1 < j - 1
        BY <2>4, <2>7, <3>0, <3>5
      <4> QED BY <2>1, <2>5, <4>1
    <3> QED BY <3>0, <3>1, <3>2, <3>3, <3>4, <3>5
  <2>8. OrdersOf(d, a) = {x \in SetToSeqs(ToSet(a)) :
                           \A i, j \in DOMAIN x : i < j => Prio[x[i]] <= Prio[x[j]]}
    BY <1>d DEF OrdersOf
  <2>9. \A i, j \in DOMAIN e : i < j => Prio[e[i]] <= Prio[e[j]]
    BY <2>7
  <2>10. e \in OrdersOf(d, a)
    BY <2>3, <2>8, <2>9, Zenon
  <2> QED BY <2>3, <2>10 DEF a
<1> QED BY <1>a, <1>b, <1>c, <1>d DEF Disciplines

-----------------------------------------------------------------------------
(* Recursion *)

\* The values after n turns of a loop, from b, where g gives what turn i makes of one.
Turns(f, n, V, b, g) == /\ f \in [0..n -> V] /\ f[0] = b
                        /\ \A i \in 1..n : f[i] = g[<<i, f[i - 1]>>]

\* There are such values.
LEMMA LoopExists ==
  ASSUME NEW n \in Nat, NEW V, NEW b \in V, NEW g \in [(1..n) \X V -> V]
  PROVE  \E f : Turns(f, n, V, b, g)
<1> DEFINE G == {m \in Nat : m <= n => \E f : Turns(f, m, V, b, g)}
<1>1. 0 \in G
  <2>1. Turns([i \in 0..0 |-> b], 0, V, b, g)
    BY DEF Turns
  <2> QED BY <2>1
<1>2. ASSUME NEW m \in Nat, m \in G PROVE m + 1 \in G
  <2> SUFFICES ASSUME m + 1 <= n PROVE \E f : Turns(f, m + 1, V, b, g)
    OBVIOUS
  <2>1. PICK f : Turns(f, m, V, b, g)
    BY <1>2
  <2> DEFINE h == [i \in 0..(m + 1) |-> IF i <= m THEN f[i] ELSE g[<<m + 1, f[m]>>]]
  <2>2. /\ f \in [0..m -> V] /\ f[0] = b
        /\ \A i \in 1..m : f[i] = g[<<i, f[i - 1]>>]
    BY <2>1 DEF Turns
  <2>3. m \in 0..m /\ m + 1 \in 1..n
    OBVIOUS
  <2>4. g[<<m + 1, f[m]>>] \in V
    BY <2>2, <2>3
  <2>5. /\ \A i \in 0..m : h[i] = f[i]
        /\ h[m + 1] = g[<<m + 1, f[m]>>]
    OBVIOUS
  <2>6. h \in [0..(m + 1) -> V]
    BY <2>2, <2>4
  <2> HIDE DEF h
  <2>7. ASSUME NEW i \in 1..(m + 1) PROVE h[i] = g[<<i, h[i - 1]>>]
    <3>1. i - 1 \in 0..m
      OBVIOUS
    <3>2. h[i - 1] = f[i - 1]
      BY <2>5, <3>1
    <3>3. CASE i = m + 1
      <4>1. i - 1 = m
        BY <3>3
      <4> QED BY <2>5, <3>2, <3>3, <4>1
    <3>4. CASE i # m + 1
      <4>1. i \in 1..m /\ i \in 0..m
        BY <3>4
      <4> QED BY <2>2, <2>5, <3>2, <4>1
    <3> QED BY <3>3, <3>4
  <2>8. h[0] = b
    BY <2>2, <2>5
  <2> QED BY <2>6, <2>7, <2>8 DEF Turns
<1>3. n \in G
  <2> HIDE DEF G
  <2> QED BY <1>1, <1>2, AllNat
<1> QED BY <1>3

\* The sequences of a sequence, one after the other.
LEMMA FlattenProps ==
  ASSUME S!ProcsOK, NEW s \in Seq(Seq(Procs))
  PROVE  /\ FlattenSeq(s) \in Seq(Procs)
         /\ ToSet(FlattenSeq(s)) = UNION {ToSet(s[k]) : k \in DOMAIN s}
<1> DEFINE n == Len(s)
           V == Seq(Procs)
<1>0. n \in Nat /\ DOMAIN s = 1..n /\ \A i \in 1..n : s[i] \in V
  OBVIOUS
<1>1. CASE n = 0
  <2>1. FlattenSeq(s) = s /\ s = <<>>
    BY <1>1 DEF FlattenSeq
  <2>2. ToSet(s) = {} /\ DOMAIN s = {}
    BY <2>1 DEF ToSet
  <2> QED BY <2>1, <2>2
<1>2. CASE n # 0
  <2> DEFINE flatten == CHOOSE f : f = [i \in 1..n |-> IF i = 1 THEN s[i] ELSE f[i - 1] \o s[i]]
  <2>1. FlattenSeq(s) = flatten[n]
    <3> DEFINE flat[i \in 1..n] == IF i = 1 THEN s[i] ELSE flat[i - 1] \o s[i]
    <3>1. FlattenSeq(s) = flat[n]
      BY <1>2, Zenon DEF FlattenSeq
    <3> QED BY <3>1
  <2>2. \E f : f = [i \in 1..n |-> IF i = 1 THEN s[i] ELSE f[i - 1] \o s[i]]
    <3> DEFINE g == [iv \in (1..n) \X V |-> IF iv[1] = 1 THEN s[iv[1]] ELSE iv[2] \o s[iv[1]]]
    <3> HIDE DEF n, V
    <3>0. \A v \in V, w \in V : v \o w \in V
      BY DEF V
    <3>1. g \in [(1..n) \X V -> V]
      <4>1. ASSUME NEW iv \in (1..n) \X V PROVE (IF iv[1] = 1 THEN s[iv[1]] ELSE iv[2] \o s[iv[1]]) \in V
        <5>1. iv[1] \in 1..n /\ iv[2] \in V /\ s[iv[1]] \in V
          BY <1>0
        <5> QED BY <3>0, <5>1
      <4> QED BY <4>1
    <3>2. \A i \in 1..n, v \in V : g[<<i, v>>] = IF i = 1 THEN s[i] ELSE v \o s[i]
      OBVIOUS
    <3>3. <<>> \in V
      BY DEF V
    <3> HIDE DEF g
    <3>4. PICK f : Turns(f, n, V, <<>>, g)
      BY <1>0, <3>1, <3>3, LoopExists
    <3> DEFINE h == [i \in 1..n |-> f[i]]
    <3>5. ASSUME NEW i \in 1..n PROVE f[i] = IF i = 1 THEN s[i] ELSE h[i - 1] \o s[i]
      <4>1. i - 1 \in 0..n /\ f[i - 1] \in V
        BY <1>0, <3>4 DEF Turns
      <4>2. f[i] = IF i = 1 THEN s[i] ELSE f[i - 1] \o s[i]
        BY <3>2, <3>4, <4>1 DEF Turns
      <4>3. i # 1 => i - 1 \in 1..n
        BY <1>0
      <4> QED BY <4>2, <4>3
    <3>6. h = [i \in 1..n |-> IF i = 1 THEN s[i] ELSE h[i - 1] \o s[i]]
      BY <3>5
    <3> HIDE DEF h
    <3> QED BY <3>6
  <2>3. flatten = [i \in 1..n |-> IF i = 1 THEN s[i] ELSE flatten[i - 1] \o s[i]]
    <3> HIDE DEF n
    <3> QED BY <2>2, Zenon
  <2>4. \A i \in 1..n : flatten[i] = IF i = 1 THEN s[i] ELSE flatten[i - 1] \o s[i]
    <3> HIDE DEF n, flatten
    <3> QED BY <2>3, Zenon
  <2> HIDE DEF n, flatten
  <2> DEFINE U(i) == UNION {ToSet(s[k]) : k \in 1..i}
             G == {i \in Nat : i \in 1..n => flatten[i] \in V /\ ToSet(flatten[i]) = U(i)}
  <2>5. 0 \in G
    OBVIOUS
  <2>6. ASSUME NEW i \in Nat, i \in G PROVE i + 1 \in G
    <3> SUFFICES ASSUME i + 1 \in 1..n
                 PROVE  flatten[i + 1] \in V /\ ToSet(flatten[i + 1]) = U(i + 1)
      OBVIOUS
    <3>1. U(i + 1) = U(i) \cup ToSet(s[i + 1])
      OBVIOUS
    <3>2. CASE i = 0
      <4>1. flatten[i + 1] = s[i + 1]
        BY <2>4, <3>2
      <4>2. U(i) = {}
        BY <3>2
      <4> HIDE DEF U, V
      <4> QED BY <1>0, <3>1, <4>1, <4>2
    <3>3. CASE i # 0
      <4>1. i \in 1..n /\ (i + 1) - 1 = i /\ i + 1 # 1
        BY <1>0, <3>3
      <4>2. flatten[i] \in Seq(Procs) /\ ToSet(flatten[i]) = U(i)
        BY <2>6, <4>1
      <4>3. flatten[i + 1] = flatten[i] \o s[i + 1]
        BY <2>4, <4>1
      <4>4. s[i + 1] \in Seq(Procs)
        BY <1>0
      <4> HIDE DEF U
      <4>5. ToSet(flatten[i] \o s[i + 1]) = ToSet(flatten[i]) \cup ToSet(s[i + 1])
        <5>1. SP!ProcsOK
          BY DEF S!ProcsOK, SP!ProcsOK, S!NoProc, SP!NoProc, S!IsFiniteSet, SP!IsFiniteSet
        <5> QED BY <4>2, <4>4, <5>1, SP!AppendSet, SameSched
      <4>6. flatten[i] \o s[i + 1] \in Seq(Procs)
        BY <4>2, <4>4
      <4> QED BY <3>1, <4>2, <4>3, <4>5, <4>6
    <3> HIDE DEF U
    <3> QED BY <3>2, <3>3
  <2>7. n \in G
    <3> HIDE DEF G
    <3> QED BY <1>0, <2>5, <2>6, AllNat
  <2>8. flatten[n] \in V /\ ToSet(flatten[n]) = U(n)
    BY <1>0, <1>2, <2>7
  <2> QED BY <1>0, <2>1, <2>8
<1> QED BY <1>1, <1>2

-----------------------------------------------------------------------------
(* Sums of amounts *)

\* The sum of am[q] for q in A, as the number of units.
Units(am, A) == UNION {{q} \X (1..am[q]) : q \in A}
Sum(am, A) == Cardinality(Units(am, A))

\* Amounts that can be summed up.
Summable(am, A) == IsFiniteSet(A) /\ \A q \in A : am[q] \in Nat

LEMMA SumType ==
  ASSUME NEW am, NEW A, Summable(am, A)
  PROVE  IsFiniteSet(Units(am, A)) /\ Sum(am, A) \in Nat
<1> DEFINE Op(q) == {q} \X (1..am[q])
           C == {Op(q) : q \in A}
<1>1. ASSUME NEW q \in A PROVE IsFiniteSet(Op(q))
  <2>0. am[q] \in Int
    BY DEF Summable
  <2>1. IsFiniteSet({q}) /\ IsFiniteSet(1..am[q])
    <3>1. \A x, y \in Int : IsFiniteSet(x..y)
      BY FS_Interval
    <3>2. IsFiniteSet({q})
      BY FS_Singleton, Zenon
    <3>3. IsFiniteSet(1..am[q])
      BY <2>0, <3>1
    <3> QED BY <3>2, <3>3
  <2> QED BY <2>1, FS_Product
<1>2. IsFiniteSet(C)
  <2>1. IsFiniteSet(A)
    BY DEF Summable
  <2> DEFINE f == [q \in A |-> Op(q)]
  <2>2. f \in Surjection(A, C)
    BY DEF Surjection
  <2> HIDE DEF f, C
  <2> QED BY <2>1, <2>2, FS_Surjection
<1>3. IsFiniteSet(UNION C)
  <2> HIDE DEF Op
  <2>1. \A T \in C : IsFiniteSet(T)
    BY <1>1
  <2> QED BY <1>2, <2>1, FS_UNION
<1>4. Units(am, A) = UNION C
  BY DEF Units
<1> QED BY <1>3, <1>4, FS_CardinalityType DEF Sum

LEMMA SumNone == \A am : Sum(am, {}) = 0
BY FS_EmptySet DEF Sum, Units

LEMMA SumOne ==
  ASSUME NEW am, NEW q, am[q] \in Nat
  PROVE  Sum(am, {q}) = am[q]
<1> DEFINE n == am[q]
           f == [i \in 1..n |-> <<q, i>>]
<1>1. Units(am, {q}) = {q} \X (1..n)
  BY DEF Units
<1>2. f \in Bijection(1..n, {q} \X (1..n))
  <2>1. f \in [1..n -> {q} \X (1..n)]
    OBVIOUS
  <2>2. \A i, j \in 1..n : f[i] = f[j] => i = j
    OBVIOUS
  <2>3. \A x \in {q} \X (1..n) : x[2] \in 1..n /\ f[x[2]] = x
    OBVIOUS
  <2> HIDE DEF f, n
  <2>4. f \in Injection(1..n, {q} \X (1..n))
    BY <2>1, <2>2 DEF Injection, IsInjective
  <2>5. f \in Surjection(1..n, {q} \X (1..n))
    BY <2>1, <2>3 DEF Surjection
  <2> QED BY <2>4, <2>5 DEF Bijection
<1>3. IsFiniteSet(1..n) /\ Cardinality(1..n) = n
  <2>1. IsFiniteSet(1..n) /\ Cardinality(1..n) = IF 1 > n THEN 0 ELSE n - 1 + 1
    BY FS_Interval
  <2>2. n \in Nat
    OBVIOUS
  <2> HIDE DEF n
  <2> QED BY <2>1, <2>2
<1> HIDE DEF f, n
<1>4. ExistsBijection(1..n, {q} \X (1..n))
  BY <1>2 DEF ExistsBijection
<1>5. Cardinality({q} \X (1..n)) = n
  BY <1>3, <1>4, FS_Bijection
<1> QED BY <1>1, <1>5 DEF Sum, n

LEMMA SumJoin ==
  ASSUME NEW am, NEW A, NEW B, Summable(am, A), Summable(am, B), A \cap B = {}
  PROVE  Summable(am, A \cup B) /\ Sum(am, A \cup B) = Sum(am, A) + Sum(am, B)
<1>1. Units(am, A \cup B) = Units(am, A) \cup Units(am, B)
  BY DEF Units
<1>2. Units(am, A) \cap Units(am, B) = {}
  <2> SUFFICES ASSUME NEW x \in Units(am, A), x \in Units(am, B) PROVE FALSE
    OBVIOUS
  <2>1. PICK q \in A : x \in {q} \X (1..am[q])
    BY DEF Units
  <2>2. PICK r \in B : x \in {r} \X (1..am[r])
    BY DEF Units
  <2>3. x[1] = q /\ x[1] = r
    BY <2>1, <2>2
  <2> QED BY <2>3
<1>3. /\ IsFiniteSet(Units(am, A)) /\ Sum(am, A) \in Nat
      /\ IsFiniteSet(Units(am, B)) /\ Sum(am, B) \in Nat
  BY SumType
<1>4. Cardinality(Units(am, A) \cup Units(am, B))
        = Cardinality(Units(am, A)) + Cardinality(Units(am, B))
  <2>1. Cardinality(Units(am, A) \cap Units(am, B)) = 0
    BY <1>2, FS_EmptySet
  <2>2. Cardinality(Units(am, A) \cup Units(am, B))
          = Cardinality(Units(am, A)) + Cardinality(Units(am, B))
              - Cardinality(Units(am, A) \cap Units(am, B))
    BY <1>3, FS_Union
  <2> QED BY <1>3, <2>1, <2>2 DEF Sum
<1>5. Summable(am, A \cup B)
  BY FS_Union DEF Summable
<1> QED BY <1>1, <1>4, <1>5 DEF Sum

LEMMA SumLess ==
  ASSUME NEW am, NEW A, NEW B \in SUBSET A, Summable(am, A)
  PROVE  Summable(am, B) /\ Sum(am, B) <= Sum(am, A)
<1>1. Summable(am, B)
  BY FS_Subset DEF Summable
<1>2. Units(am, B) \in SUBSET Units(am, A)
  BY DEF Units
<1>3. IsFiniteSet(Units(am, A))
  BY SumType
<1> QED BY <1>1, <1>2, <1>3, FS_Subset DEF Sum

LEMMA SumSame ==
  ASSUME NEW am, NEW an, NEW A, \A q \in A : am[q] = an[q]
  PROVE  /\ Summable(am, A) <=> Summable(an, A)
         /\ Sum(am, A) = Sum(an, A)
<1>1. Units(am, A) = Units(an, A)
  BY DEF Units
<1> QED BY <1>1 DEF Sum, Summable

-----------------------------------------------------------------------------
(* Who is unblocked *)

\* A set of numbers up to a bound has a largest.
LEMMA MaxProps ==
  ASSUME NEW l \in Nat, NEW M \in SUBSET (0..l), M # {}
  PROVE  Max(M) \in M /\ \A y \in M : y <= Max(M)
<1> DEFINE G == {m \in Nat : (\A y \in M : ~(y <= m))
                               \/ \E x \in M : \A y \in M : y <= m => y <= x}
<1>0. \A y \in M : y \in Nat /\ y <= l
  OBVIOUS
<1>1. 0 \in G
  BY <1>0
<1>2. ASSUME NEW m \in Nat, m \in G PROVE m + 1 \in G
  <2>1. \A y \in M : y <= m + 1 <=> y <= m \/ y = m + 1
    BY <1>0
  <2>2. CASE m + 1 \in M
    <3>1. \A y \in M : y <= m + 1 => y <= m + 1
      OBVIOUS
    <3> QED BY <2>2, <3>1
  <2>3. CASE m + 1 \notin M
    <3>1. \A y \in M : y <= m + 1 <=> y <= m
      BY <2>1, <2>3
    <3>2. CASE \A y \in M : ~(y <= m)
      BY <3>1, <3>2
    <3>3. CASE \E x \in M : \A y \in M : y <= m => y <= x
      BY <3>1, <3>3
    <3> QED BY <1>2, <3>2, <3>3
  <2> QED BY <2>2, <2>3
<1>3. l \in G
  <2> HIDE DEF G
  <2> QED BY <1>1, <1>2, AllNat
<1>4. \E x \in M : \A y \in M : y <= x
  BY <1>0, <1>3
<1>5. \E x \in M : \A y \in M : x >= y
  BY <1>0, <1>4
<1>6. Max(M) \in M /\ \A y \in M : Max(M) >= y
  BY <1>5, Zenon DEF Max
<1> QED BY <1>0, <1>6

\* The first k members of a sequence.
First(o, k) == {o[i] : i \in 1..k}

LEMMA FirstProps ==
  ASSUME NEW X, NEW o \in Seq(X), NEW k \in 0..Len(o)
  PROVE  ToSet(SubSeq(o, 1, k)) = First(o, k) /\ First(o, k) \subseteq ToSet(o)
<1>1. DOMAIN SubSeq(o, 1, k) = 1..k /\ \A i \in 1..k : SubSeq(o, 1, k)[i] = o[i]
  OBVIOUS
<1>2. 1..k \subseteq DOMAIN o
  OBVIOUS
<1> QED BY <1>1, <1>2 DEF First, ToSet

\* The sum over one more of them.
LEMMA FirstNext ==
  ASSUME NEW o \in Seq(Procs), IsInjective(o), NEW am, Summable(am, ToSet(o)),
         NEW n \in 0..(Len(o) - 1)
  PROVE  /\ First(o, n + 1) = First(o, n) \cup {o[n + 1]} /\ o[n + 1] \in ToSet(o)
         /\ Summable(am, First(o, n)) /\ Sum(am, First(o, n)) \in Nat
         /\ am[o[n + 1]] \in Nat
         /\ Sum(am, First(o, n + 1)) = Sum(am, First(o, n)) + am[o[n + 1]]
<1>0. n \in Nat /\ n + 1 \in DOMAIN o /\ DOMAIN o = 1..Len(o) /\ 1..n \subseteq DOMAIN o
  OBVIOUS
<1>1. First(o, n + 1) = First(o, n) \cup {o[n + 1]}
  BY <1>0 DEF First
<1>2. o[n + 1] \in ToSet(o) /\ am[o[n + 1]] \in Nat
  BY <1>0 DEF ToSet, Summable
<1>3. First(o, n) \cap {o[n + 1]} = {}
  <2>1. \A i \in 1..n : i \in DOMAIN o /\ n + 1 \in DOMAIN o /\ i # n + 1
    BY <1>0
  <2> QED BY <2>1 DEF First, IsInjective
<1>4. Summable(am, First(o, n)) /\ Sum(am, First(o, n)) \in Nat
  <2>1. First(o, n) \in SUBSET ToSet(o)
    BY <1>0 DEF First, ToSet
  <2>2. Summable(am, First(o, n))
    BY <2>1, SumLess
  <2> QED BY <2>2, SumType
<1>5. Summable(am, {o[n + 1]}) /\ Sum(am, {o[n + 1]}) = am[o[n + 1]]
  BY <1>2, SumOne, FS_Singleton DEF Summable
<1>6. Sum(am, First(o, n) \cup {o[n + 1]}) = Sum(am, First(o, n)) + Sum(am, {o[n + 1]})
  BY <1>3, <1>4, <1>5, SumJoin
<1>7. Sum(am, First(o, n + 1)) = Sum(am, First(o, n)) + am[o[n + 1]]
  BY <1>1, <1>5, <1>6
<1> QED BY <1>1, <1>2, <1>4, <1>7

\* The level that is reserved is the level after the sum of the amounts.
LEMMA ReservedProps ==
  ASSUME NEW pl \in Places, NEW o \in Seq(Procs), IsInjective(o),
         Summable(amount[pl], ToSet(o)), NEW lvl \in Int, NEW k \in 0..Len(o)
  PROVE  /\ Summable(amount[pl], First(o, k)) /\ Sum(amount[pl], First(o, k)) \in Nat
         /\ Reserved(pl, o, k, lvl) = After(lvl, pl[2], Sum(amount[pl], First(o, k)))
<1> DEFINE am == amount[pl]
           rest[n \in 0..k] == IF n = 0 THEN lvl ELSE After(rest[n - 1], pl[2], am[o[n]])
           g == [nv \in (1..k) \X Int |-> After(nv[2], pl[2], am[o[nv[1]]])]
<1>0. k \in Nat /\ k <= Len(o) /\ Len(o) \in Nat /\ DOMAIN o = 1..Len(o)
  OBVIOUS
<1>a. \A n \in 1..k : o[n] \in ToSet(o) /\ am[o[n]] \in Nat
  BY <1>0 DEF ToSet, Summable
<1>b. \A v \in Int, n \in 1..k : After(v, pl[2], am[o[n]]) \in Int
  <2> HIDE DEF am
  <2> QED BY <1>a DEF After
<1>1. Reserved(pl, o, k, lvl) = rest[k]
  BY Zenon DEF Reserved
<1>2. \E f : f = [n \in 0..k |-> IF n = 0 THEN lvl ELSE After(f[n - 1], pl[2], am[o[n]])]
  <2>1. g \in [(1..k) \X Int -> Int]
    <3> HIDE DEF am
    <3>1. ASSUME NEW nv \in (1..k) \X Int PROVE After(nv[2], pl[2], am[o[nv[1]]]) \in Int
      <4>1. nv[1] \in 1..k /\ nv[2] \in Int
        OBVIOUS
      <4> QED BY <1>b, <4>1
    <3> QED BY <3>1
  <2>2. \A n \in 1..k, v \in Int : g[<<n, v>>] = After(v, pl[2], am[o[n]])
    OBVIOUS
  <2> HIDE DEF g, am
  <2>3. PICK f : Turns(f, k, Int, lvl, g)
    BY <1>0, <2>1, LoopExists
  <2>4. f \in [0..k -> Int] /\ f[0] = lvl /\ \A n \in 1..k : f[n] = g[<<n, f[n - 1]>>]
    BY <2>3 DEF Turns
  <2>5. ASSUME NEW n \in 0..k
        PROVE  f[n] = IF n = 0 THEN lvl ELSE After(f[n - 1], pl[2], am[o[n]])
    <3>1. CASE n = 0
      BY <2>4, <3>1
    <3>2. CASE n # 0
      <4>1. n \in 1..k /\ n - 1 \in 0..k
        BY <1>0, <3>2
      <4>2. f[n - 1] \in Int
        BY <2>4, <4>1
      <4>3. f[n] = After(f[n - 1], pl[2], am[o[n]])
        BY <2>2, <2>4, <4>1, <4>2
      <4> QED BY <3>2, <4>3
    <3> QED BY <3>1, <3>2
  <2>6. f = [n \in 0..k |-> IF n = 0 THEN lvl ELSE After(f[n - 1], pl[2], am[o[n]])]
    BY <2>4, <2>5
  <2> QED BY <2>6
<1>3. rest = [n \in 0..k |-> IF n = 0 THEN lvl ELSE After(rest[n - 1], pl[2], am[o[n]])]
  <2> HIDE DEF am
  <2> QED BY <1>2, Zenon
<1>4. \A n \in 0..k : rest[n] = IF n = 0 THEN lvl ELSE After(rest[n - 1], pl[2], am[o[n]])
  <2> HIDE DEF rest, am
  <2> QED BY <1>3, Zenon
<1> HIDE DEF rest, g
<1>5. ASSUME NEW n \in 0..k PROVE Summable(am, First(o, n)) /\ Sum(am, First(o, n)) \in Nat
  <2>1. First(o, n) \in SUBSET ToSet(o)
    BY <1>0 DEF First, ToSet
  <2> HIDE DEF am
  <2>2. Summable(am, First(o, n))
    BY <2>1, SumLess DEF am
  <2> QED BY <2>2, SumType
<1> DEFINE G == {n \in Nat : n \in 0..k => rest[n] = After(lvl, pl[2], Sum(am, First(o, n)))}
<1>6. 0 \in G
  <2>1. rest[0] = lvl
    BY <1>0, <1>4
  <2>2. First(o, 0) = {}
    BY DEF First
  <2>3. Sum(am, First(o, 0)) = 0
    BY <2>2, SumNone
  <2>4. After(lvl, pl[2], 0) = lvl
    BY DEF After
  <2> QED BY <2>1, <2>3, <2>4
<1>7. ASSUME NEW n \in Nat, n \in G PROVE n + 1 \in G
  <2> SUFFICES ASSUME n + 1 \in 0..k
               PROVE  rest[n + 1] = After(lvl, pl[2], Sum(am, First(o, n + 1)))
    OBVIOUS
  <2>1. n \in 0..k /\ n + 1 \in 1..k /\ n + 1 # 0 /\ (n + 1) - 1 = n
    BY <1>0
  <2>2. rest[n] = After(lvl, pl[2], Sum(am, First(o, n)))
    BY <1>7, <2>1
  <2>3. rest[n + 1] = After(rest[n], pl[2], am[o[n + 1]])
    <3> HIDE DEF am
    <3> QED BY <1>4, <2>1
  <2>7. Sum(am, First(o, n + 1)) = Sum(am, First(o, n)) + am[o[n + 1]]
    <3>1. n \in 0..(Len(o) - 1)
      BY <1>0, <2>1
    <3> QED BY <3>1, FirstNext
  <2>8. am[o[n + 1]] \in Nat /\ Sum(am, First(o, n)) \in Nat
    BY <1>5, <1>a, <2>1
  <2> HIDE DEF am
  <2> QED BY <2>2, <2>3, <2>7, <2>8 DEF After
<1>8. k \in G
  <2> HIDE DEF G
  <2> QED BY <1>0, <1>6, <1>7, AllNat
<1> QED BY <1>0, <1>1, <1>5, <1>8

-----------------------------------------------------------------------------
(* Items *)

\* The lists of items for different buckets.
ListOK(items) ==
  /\ items \in Seq(ToSet(items))
  /\ \A k \in DOMAIN items : IsItem(items[k])
  /\ \A k, l \in DOMAIN items : items[k].b = items[l].b => k = l

\* A side has another one.
LEMMA OtherProps ==
  \A s \in Sides : Other(s) \in Sides /\ Other(s) # s /\ Other(Other(s)) = s
BY DEF Sides, Other

\* The places of the items of a list are different, and so are the opposite ones.
LEMMA ItemProps ==
  ASSUME BucketAssumption, NEW items, ListOK(items), NEW k \in DOMAIN items
  PROVE  /\ Place(items[k]) \in Places /\ Opposite(items[k]) \in Places
         /\ Place(items[k]) \in PlacesOf(items)
         /\ items[k].b \in Buckets /\ items[k].side \in Sides
         /\ Place(items[k]) = <<items[k].b, items[k].side>>
         /\ Opposite(items[k]) = <<items[k].b, Other(items[k].side)>>
         /\ items[k].amt \in Nat /\ items[k].amt <= Capacity[items[k].b]
         /\ \A l \in DOMAIN items : /\ items[k].b = items[l].b => k = l
                                    /\ Place(items[k]) = Place(items[l]) => k = l
                                    /\ Opposite(items[k]) = Opposite(items[l]) => k = l
                                    /\ Place(items[k]) # Opposite(items[l])
<1>1. /\ items[k].b \in Buckets /\ items[k].side \in Sides
      /\ items[k].amt \in 1..Capacity[items[k].b]
  BY DEF ListOK, IsItem
<1>2. Capacity[items[k].b] \in Nat
  BY <1>1 DEF BucketAssumption, ValidBucket
<1>3. items[k].amt \in Nat /\ items[k].amt <= Capacity[items[k].b]
  BY <1>1, <1>2
<1>4. /\ Place(items[k]) = <<items[k].b, items[k].side>>
      /\ Opposite(items[k]) = <<items[k].b, Other(items[k].side)>>
  BY DEF Place, Opposite
<1>5. Place(items[k]) \in Places /\ Opposite(items[k]) \in Places
  BY <1>1, <1>4, OtherProps DEF Places
<1>6. Place(items[k]) \in PlacesOf(items)
  BY DEF PlacesOf
<1>7. ASSUME NEW l \in DOMAIN items
      PROVE  /\ items[k].b = items[l].b => k = l
             /\ Place(items[k]) = Place(items[l]) => k = l
             /\ Opposite(items[k]) = Opposite(items[l]) => k = l
             /\ Place(items[k]) # Opposite(items[l])
  <2>1. items[k].b = items[l].b => k = l
    BY DEF ListOK
  <2>2. /\ Place(items[l]) = <<items[l].b, items[l].side>>
        /\ Opposite(items[l]) = <<items[l].b, Other(items[l].side)>>
    BY DEF Place, Opposite
  <2>3. Place(items[k]) = Opposite(items[l]) => k = l /\ items[k].side = Other(items[l].side)
    BY <1>4, <2>1, <2>2
  <2> QED BY <1>1, <1>4, <2>1, <2>2, <2>3, OtherProps
<1> QED BY <1>1, <1>3, <1>4, <1>5, <1>6, <1>7

\* A place of a list is that of one item.
LEMMA PlaceItem ==
  ASSUME NEW items, NEW pl \in PlacesOf(items)
  PROVE  \E k \in DOMAIN items : Place(items[k]) = pl
BY DEF PlacesOf

\* A part of a list.
LEMMA PartOK ==
  ASSUME BucketAssumption, NEW items, ListOK(items), NEW I \in SUBSET DOMAIN items
  PROVE  LET r == S!AtPlaces(items, I)
         IN /\ ListOK(r)
            /\ \A k \in DOMAIN r : \E i \in I : r[k] = items[i]
            /\ \A i \in I : \E k \in DOMAIN r : r[k] = items[i]
            /\ PlacesOf(r) = {Place(items[i]) : i \in I}
<1> DEFINE r == S!AtPlaces(items, I)
<1>1. /\ r \in Seq(ToSet(items)) /\ ToSet(r) = {items[i] : i \in I}
      /\ (\A i, j \in I : items[i] = items[j] => i = j) => IsInjective(r)
  BY PartProps DEF BucketAssumption, ListOK
<1>2. \A i, j \in I : items[i].b = items[j].b => i = j
  BY DEF ListOK
<1> HIDE DEF r
<1>3. IsInjective(r)
  BY <1>1, <1>2
<1>4. /\ \A k \in DOMAIN r : \E i \in I : r[k] = items[i]
      /\ \A i \in I : \E k \in DOMAIN r : r[k] = items[i]
  BY <1>1 DEF ToSet
<1>5. ListOK(r)
  <2>1. \A k \in DOMAIN r : IsItem(r[k])
    BY <1>4 DEF ListOK
  <2>2. ASSUME NEW k \in DOMAIN r, NEW l \in DOMAIN r, r[k].b = r[l].b PROVE k = l
    <3>1. r[k] = r[l]
      BY <1>2, <1>4, <2>2
    <3> QED BY <1>3, <3>1 DEF IsInjective
  <2>3. r \in Seq(ToSet(r))
    <3>1. DOMAIN r = 1..Len(r) /\ Len(r) \in Nat
      BY <1>1
    <3>2. r = [k \in 1..Len(r) |-> r[k]]
      BY <1>1, <3>1
    <3>3. \A k \in 1..Len(r) : r[k] \in ToSet(r)
      BY <3>1 DEF ToSet
    <3>4. r \in [1..Len(r) -> ToSet(r)]
      BY <3>2, <3>3
    <3> QED BY <3>1, <3>4
  <2> QED BY <2>1, <2>2, <2>3 DEF ListOK
<1>6. PlacesOf(r) = {Place(items[i]) : i \in I}
  BY <1>4 DEF PlacesOf
<1> QED BY <1>4, <1>5, <1>6 DEF r

\* What is left of a queue when some go.
LEMMA StayProps ==
  ASSUME S!ProcsOK, NEW q \in Seq(Procs), IsInjective(q), NEW gone
  PROVE  LET r == S!AtPlaces(q, {n \in DOMAIN q : q[n] \notin gone})
         IN r \in Seq(Procs) /\ IsInjective(r) /\ ToSet(r) = ToSet(q) \ gone
<1> DEFINE I == {n \in DOMAIN q : q[n] \notin gone}
           r == S!AtPlaces(q, I)
<1>0. I \in SUBSET DOMAIN q /\ \A i, j \in I : q[i] = q[j] => i = j
  BY DEF IsInjective
<1>1. {q[i] : i \in I} = ToSet(q) \ gone
  BY DEF ToSet
<1> HIDE DEF I
<1>2. r \in Seq(Procs) /\ IsInjective(r) /\ ToSet(r) = {q[i] : i \in I}
  BY <1>0, PartProps
<1> QED BY <1>1, <1>2 DEF I

\* The credits that a process gets.
LEMMA CreditProps ==
  ASSUME BucketAssumption, NEW done, ListOK(done), NEW woken, NEW q
  PROVE  /\ Credits(done, woken, q) \in Seq(Places) /\ IsInjective(Credits(done, woken, q))
         /\ \A pl : Contains(Credits(done, woken, q), pl) <=>
                      \E k \in DOMAIN done : Opposite(done[k]) = pl /\ Contains(woken[k], q)
<1> DEFINE f == [k \in DOMAIN done |-> Opposite(done[k])]
           I == {k \in DOMAIN done : Contains(woken[k], q)}
           r == S!AtPlaces(f, I)
<1>1. DOMAIN done = 1..Len(done) /\ Len(done) \in Nat
  BY DEF ListOK
<1>2. f \in Seq(Places) /\ DOMAIN f = DOMAIN done
  <2>1. \A k \in DOMAIN done : Opposite(done[k]) \in Places
    BY ItemProps
  <2> QED BY <1>1, <2>1
<1>3. I \in SUBSET DOMAIN f /\ \A i, j \in I : f[i] = f[j] => i = j
  BY ItemProps
<1>4. \A pl : pl \in {f[i] : i \in I} <=>
                \E k \in DOMAIN done : Opposite(done[k]) = pl /\ Contains(woken[k], q)
  OBVIOUS
<1>5. Credits(done, woken, q) = r
  BY DEF Credits
<1> HIDE DEF f, I
<1>6. r \in Seq(Places) /\ IsInjective(r) /\ ToSet(r) = {f[i] : i \in I}
  BY <1>2, <1>3, PartProps DEF BucketAssumption
<1>7. \A pl : Contains(r, pl) <=> pl \in ToSet(r)
  BY <1>6 DEF Contains, ToSet
<1> QED BY <1>4, <1>5, <1>6, <1>7

\* Two amounts that fit one after the other fit together.
LEMMA FitsJoin ==
  ASSUME NEW b, Capacity[b] \in Nat, NEW side, NEW lvl \in Int, NEW x \in Nat, NEW y \in Nat
  PROVE  /\ After(lvl, side, x) \in Int
         /\ Fits(b, After(lvl, side, x), side, y) <=> Fits(b, lvl, side, x + y)
         /\ After(After(lvl, side, x), side, y) = After(lvl, side, x + y)
         /\ Fits(b, lvl, side, x + y) => Fits(b, lvl, side, y)
BY DEF Fits, After

\* What is unblocked fits in the level, and one more does not.
LEMMA UnblockableProps ==
  ASSUME NEW pl \in Places, Capacity[pl[1]] \in Nat, NEW o \in Seq(Procs), IsInjective(o),
         Summable(amount[pl], ToSet(o)), NEW lvl \in Int
  PROVE  LET n == Unblockable(pl, o, lvl)
             sum(k) == Sum(amount[pl], First(o, k))
         IN /\ n \in 0..Len(o)
            /\ n > 0 => Fits(pl[1], lvl, pl[2], sum(n))
            /\ n < Len(o) => ~Fits(pl[1], lvl, pl[2], sum(n) + amount[pl][o[n + 1]])
<1> DEFINE am == amount[pl]
           fit(k) == Fits(pl[1], Reserved(pl, o, k - 1, lvl), pl[2], am[o[k]])
           M == {m \in 0..Len(o) : \A k \in 1..m : fit(k)}
           n == Unblockable(pl, o, lvl)
           sum(k) == Sum(am, First(o, k))
<1>0. Len(o) \in Nat
  OBVIOUS
<1>1. n = Max(M)
  BY DEF Unblockable
<1>2. M \in SUBSET (0..Len(o)) /\ 0 \in M
  BY <1>0
<1>3. n \in M /\ \A m \in M : m <= n
  <2> HIDE DEF M, n
  <2> QED BY <1>0, <1>1, <1>2, MaxProps
<1>4. ASSUME NEW k \in 1..Len(o)
      PROVE  fit(k) <=> Fits(pl[1], lvl, pl[2], sum(k - 1) + am[o[k]])
  <2>1. k - 1 \in 0..(Len(o) - 1) /\ (k - 1) + 1 = k /\ k - 1 \in 0..Len(o)
    BY <1>0
  <2>2. Reserved(pl, o, k - 1, lvl) = After(lvl, pl[2], sum(k - 1)) /\ sum(k - 1) \in Nat
    BY <2>1, ReservedProps
  <2>3. am[o[k]] \in Nat
    BY <2>1, FirstNext
  <2> HIDE DEF am, sum
  <2>4. Fits(pl[1], After(lvl, pl[2], sum(k - 1)), pl[2], am[o[k]])
          <=> Fits(pl[1], lvl, pl[2], sum(k - 1) + am[o[k]])
    BY <2>2, <2>3, FitsJoin
  <2> QED BY <2>2, <2>4
<1>5. n \in 0..Len(o)
  BY <1>3
<1>6. ASSUME n > 0 PROVE Fits(pl[1], lvl, pl[2], sum(n))
  <2>1. n \in 1..Len(o) /\ fit(n)
    <3> HIDE DEF n, fit
    <3> QED BY <1>0, <1>3, <1>6
  <2>2. n - 1 \in 0..(Len(o) - 1) /\ (n - 1) + 1 = n
    <3> HIDE DEF n
    <3> QED BY <1>0, <2>1
  <2>3. sum((n - 1) + 1) = sum(n - 1) + am[o[(n - 1) + 1]]
    <3> HIDE DEF n
    <3> QED BY <2>2, FirstNext
  <2> HIDE DEF n, fit, sum, am
  <2> QED BY <1>4, <2>1, <2>2, <2>3
<1>7. ASSUME n < Len(o) PROVE ~Fits(pl[1], lvl, pl[2], sum(n) + am[o[n + 1]])
  <2> HIDE DEF n, fit
  <2>1. n + 1 \in 1..Len(o) /\ (n + 1) - 1 = n /\ n + 1 \in 0..Len(o) /\ ~(n + 1 <= n)
    BY <1>0, <1>5, <1>7
  <2>2. n + 1 \notin M
    BY <1>3, <2>1
  <2>3. ~fit(n + 1)
    <3>1. PICK k \in 1..(n + 1) : ~fit(k)
      BY <2>1, <2>2
    <3>2. k \notin 1..n
      BY <1>3, <3>1
    <3>3. k = n + 1
      BY <1>5, <3>2
    <3> QED BY <3>1, <3>3
  <2> HIDE DEF sum, am, M
  <2> QED BY <1>4, <2>1, <2>3
<1> QED BY <1>5, <1>6, <1>7

-----------------------------------------------------------------------------
(* The calls and the records of the buckets *)

\* What the calls of user code can be, and the blocking calls.
Lists == {<<i>> : i \in Items} \cup {w.items : w \in Waits}
Blocked == [op : {"direct", "cond"}, items : Lists, got : SUBSET Places,
            every : BOOLEAN, timed : BOOLEAN]

Types == /\ st \in [Procs -> S!States]
         /\ call \in [Procs -> {Idle, Sleeping} \cup Blocked]
         /\ level \in [Buckets -> Int]
         /\ \A pl \in Places : queue[pl] \in Seq(Procs) /\ IsInjective(queue[pl])
         /\ \A p \in Procs : acting[p] \in Seq(Places) /\ IsInjective(acting[p])

\* The process p still waits for what it gets or puts at pl.
Due(p, pl) == InWait(p) /\ pl \in PlacesOf(call[p].items) \ call[p].got

\* There is a record of what is due, with its amount, and the process is in the
\* queue unless it was unblocked.
Recorded(p, pl) ==
  /\ Due(p, pl) => p \in DOMAIN amount[pl]
  /\ Due(p, pl) => \E k \in DOMAIN call[p].items :
                     Place(call[p].items[k]) = pl /\ call[p].items[k].amt = amount[pl][p]
  /\ p \in ToSet(queue[pl]) <=> Due(p, pl) /\ ~Contains(acting[p], pl)
  /\ Contains(acting[p], pl) => Due(p, pl)

Records == \A p \in Procs, pl \in Places : Recorded(p, pl)

\* The processes unblocked at pl.
Out(done, woken, pl) ==
  UNION {ToSet(woken[k]) : k \in {n \in DOMAIN done : Opposite(done[n]) = pl}}

\* The lists of user code are for different buckets.
LEMMA ListsOK ==
  ASSUME BucketAssumption, NEW items \in Lists
  PROVE  ListOK(items)
<1>1. CASE \E i \in Items : items = <<i>>
  <2>1. PICK i \in Items : items = <<i>>
    BY <1>1
  <2>2. DOMAIN items = {1} /\ items[1] = i
    BY <2>1
  <2>3. ToSet(items) = {i}
    BY <2>2 DEF ToSet
  <2>4. items \in Seq(ToSet(items))
    BY <2>1, <2>3
  <2> QED BY <2>2, <2>4 DEF ListOK, BucketAssumption
<1>2. CASE \E w \in Waits : items = w.items
  <2>1. PICK w \in Waits : items = w.items
    BY <1>2
  <2>2. /\ items \in Seq(ToSet(items))
        /\ \A k, l \in DOMAIN items : IsItem(items[k]) /\ (items[k].b = items[l].b => k = l)
    BY <2>1 DEF BucketAssumption
  <2> QED BY <2>2 DEF ListOK
<1> QED BY <1>1, <1>2 DEF Lists

\* The call of a process that waits.
LEMMA CallProps ==
  ASSUME BucketAssumption, Types, NEW p \in Procs
  PROVE  /\ InWait(p) => /\ call[p] \in Blocked /\ call[p].items \in Lists
                         /\ ListOK(call[p].items) /\ call[p].got \in SUBSET Places
                         /\ call[p].op \in {"direct", "cond"}
         /\ ~InWait(p) => call[p] \in {Idle, Sleeping} /\ call[p].op \in {"none", "sleep"}
<1>1. call[p] \in {Idle, Sleeping} \cup Blocked
  BY DEF Types
<1>2. CASE call[p] \in Blocked
  <2>1. call[p].op \in {"direct", "cond"} /\ call[p].items \in Lists /\ call[p].got \in SUBSET Places
    BY <1>2 DEF Blocked
  <2> QED BY <1>2, <2>1, ListsOK DEF InWait
<1>3. CASE call[p] \in {Idle, Sleeping}
  <2>1. call[p].op \in {"none", "sleep"}
    BY <1>3 DEF Idle, Sleeping
  <2> QED BY <1>3, <2>1 DEF InWait
<1> QED BY <1>1, <1>2, <1>3

\* What the records say of the processes in a queue.
LEMMA QueueProps ==
  ASSUME BucketAssumption, Types, Records, NEW pl \in Places
  PROVE  /\ queue[pl] \in Seq(Procs) /\ IsInjective(queue[pl])
         /\ \A q \in ToSet(queue[pl]) : q \in Procs
         /\ \A q \in Procs : Due(q, pl) => amount[pl][q] \in Nat
         /\ \A A \in SUBSET {q \in Procs : Due(q, pl)} : Summable(amount[pl], A)
         /\ Summable(amount[pl], ToSet(queue[pl]))
         /\ pl[1] \in Buckets /\ pl[2] \in Sides /\ Capacity[pl[1]] \in Nat
         /\ Qdis[pl] \in Disciplines
<1>1. queue[pl] \in Seq(Procs) /\ IsInjective(queue[pl])
  BY DEF Types
<1>2. \A q \in ToSet(queue[pl]) : q \in Procs
  BY <1>1 DEF ToSet
<1>3. ASSUME NEW q \in Procs, Due(q, pl) PROVE amount[pl][q] \in Nat
  <2>1. PICK k \in DOMAIN call[q].items : call[q].items[k].amt = amount[pl][q]
    BY <1>3 DEF Records, Recorded
  <2>2. ListOK(call[q].items)
    BY <1>3, CallProps DEF Due
  <2> QED BY <2>1, <2>2, ItemProps
<1>4. ASSUME NEW A \in SUBSET {q \in Procs : Due(q, pl)} PROVE Summable(amount[pl], A)
  <2>1. IsFiniteSet(A)
    <3>1. IsFiniteSet(Procs)
      BY DEF BucketAssumption, S!ProcsOK, S!IsFiniteSet, IsFiniteSet
    <3> QED BY <3>1, FS_Subset
  <2> QED BY <1>3, <2>1 DEF Summable
<1>5. ToSet(queue[pl]) \in SUBSET {q \in Procs : Due(q, pl)}
  BY <1>2 DEF Records, Recorded
<1>6. pl[1] \in Buckets /\ pl[2] \in Sides
  BY DEF Places
<1>7. pl = <<pl[1], pl[2]>>
  BY DEF Places
<1>8. Capacity[pl[1]] \in Nat /\ Qdis[pl] \in Disciplines
  BY <1>6, <1>7 DEF BucketAssumption, ValidBucket, Sides
<1> QED BY <1>1, <1>2, <1>3, <1>4, <1>5, <1>6, <1>8

\* Who is unblocked, and who stays.
LEMMA WokenProps ==
  ASSUME BucketAssumption, Types, Records, NEW done, ListOK(done),
         NEW o \in Lineups(done), NEW woken, woken = Unblocked(done, o), NEW k \in DOMAIN done
  PROVE  LET pl == Opposite(done[k])
             n == Unblockable(pl, o[k], After(level[done[k].b], done[k].side, done[k].amt))
         IN /\ pl \in Places /\ o[k] \in Orders(pl) /\ o[k] \in Seq(Procs) /\ IsInjective(o[k])
            /\ ToSet(o[k]) = ToSet(queue[pl]) /\ Len(o[k]) = Len(queue[pl])
            /\ n \in 0..Len(o[k])
            /\ woken[k] = SubSeq(o[k], 1, n) /\ woken[k] \in Seq(Procs)
            /\ ToSet(woken[k]) = First(o[k], n)
            /\ ToSet(woken[k]) \subseteq ToSet(queue[pl])
            /\ \A q : Contains(woken[k], q) <=> q \in ToSet(woken[k])
<1> DEFINE pl == Opposite(done[k])
           lvl == After(level[done[k].b], done[k].side, done[k].amt)
           n == Unblockable(pl, o[k], lvl)
<1>1. pl \in Places /\ done[k].b \in Buckets /\ done[k].amt \in Nat
  BY ItemProps
<1>2. o[k] \in Orders(pl)
  BY DEF Lineups
<1> HIDE DEF pl
<1>3. /\ queue[pl] \in Seq(Procs) /\ IsInjective(queue[pl]) /\ Qdis[pl] \in Disciplines
      /\ Summable(amount[pl], ToSet(queue[pl])) /\ Capacity[pl[1]] \in Nat
  BY <1>1, QueueProps
<1>4. /\ o[k] \in Seq(Procs) /\ IsInjective(o[k])
      /\ ToSet(o[k]) = ToSet(queue[pl]) /\ Len(o[k]) = Len(queue[pl])
  BY <1>2, <1>3, OrderProps DEF Orders
<1>5. lvl \in Int
  <2>1. level[done[k].b] \in Int
    BY <1>1 DEF Types
  <2> QED BY <1>1, <2>1 DEF After
<1> HIDE DEF lvl
<1>6. n \in 0..Len(o[k])
  BY <1>1, <1>3, <1>4, <1>5, UnblockableProps
<1>7. woken[k] = SubSeq(o[k], 1, n)
  BY DEF Unblocked, pl, lvl
<1> HIDE DEF n
<1>8. ToSet(woken[k]) = First(o[k], n) /\ ToSet(woken[k]) \subseteq ToSet(queue[pl])
  BY <1>4, <1>6, <1>7, FirstProps
<1>9. woken[k] \in Seq(Procs)
  BY <1>4, <1>6, <1>7
<1>10. \A q : Contains(woken[k], q) <=> q \in ToSet(woken[k])
  BY <1>9 DEF Contains, ToSet
<1> QED BY <1>1, <1>2, <1>4, <1>6, <1>7, <1>8, <1>9, <1>10 DEF pl, lvl, n

\* What an exchange does to the level, the queues, the records and the promises.
Exchanged(p, done, new, off, woken) ==
  /\ level' \in [Buckets -> Int]
  /\ \A k \in DOMAIN done :
       level'[done[k].b] = After(level[done[k].b], done[k].side, done[k].amt)
  /\ \A b \in Buckets : (\A k \in DOMAIN done : done[k].b # b) => level'[b] = level[b]
  /\ \A pl \in Places :
       /\ queue'[pl] \in Seq(Procs) /\ IsInjective(queue'[pl])
       /\ \A q \in Procs : q \in ToSet(queue'[pl]) <=>
            \/ /\ q \in ToSet(queue[pl]) /\ q \notin Out(done, woken, pl)
               /\ ~(q = p /\ pl \in PlacesOf(off))
            \/ q = p /\ pl \in PlacesOf(new)
       /\ \A q \in Procs : q \in DOMAIN amount'[pl] <=>
            \/ /\ q \in DOMAIN amount[pl]
               /\ ~(q = p /\ pl \in PlacesOf(done) \cup PlacesOf(off))
            \/ q = p /\ pl \in PlacesOf(new)
       /\ \A q \in DOMAIN amount'[pl] :
            ~(q = p /\ pl \in PlacesOf(new)) => amount'[pl][q] = amount[pl][q]
  /\ \A k \in DOMAIN new : amount'[Place(new[k])][p] = new[k].amt
  /\ acting'[p] = <<>>
  /\ \A q \in Procs :
       /\ acting'[q] \in Seq(Places) /\ IsInjective(acting'[q])
       /\ q # p => \A pl \in Places : Contains(acting'[q], pl) <=>
                     Contains(acting[q], pl) \/ q \in Out(done, woken, pl)

LEMMA OutProps ==
  ASSUME BucketAssumption, Types, Records, NEW done, ListOK(done),
         NEW o \in Lineups(done), NEW woken, woken = Unblocked(done, o),
         NEW q, NEW pl
  PROVE  /\ q \in Out(done, woken, pl) <=>
              \E k \in DOMAIN done : Opposite(done[k]) = pl /\ Contains(woken[k], q)
         /\ q \in Out(done, woken, pl) => pl \in Places /\ q \in ToSet(queue[pl])
<1>1. \A k \in DOMAIN done : /\ Contains(woken[k], q) <=> q \in ToSet(woken[k])
                             /\ Opposite(done[k]) \in Places
                             /\ ToSet(woken[k]) \subseteq ToSet(queue[Opposite(done[k])])
  BY WokenProps
<1>2. q \in Out(done, woken, pl) <=>
        \E k \in DOMAIN done : Opposite(done[k]) = pl /\ q \in ToSet(woken[k])
  BY DEF Out
<1> QED BY <1>1, <1>2

\* Sequences without common members are joined.
LEMMA JoinProps ==
  ASSUME NEW X, NEW s \in Seq(X), NEW t \in Seq(X), IsInjective(s), IsInjective(t),
         \A x : ~(Contains(s, x) /\ Contains(t, x))
  PROVE  /\ s \o t \in Seq(X) /\ IsInjective(s \o t)
         /\ \A x : Contains(s \o t, x) <=> Contains(s, x) \/ Contains(t, x)
<1> DEFINE r == s \o t
<1>1. /\ r \in Seq(X) /\ Len(r) = Len(s) + Len(t)
      /\ \A k \in 1..Len(r) : r[k] = IF k <= Len(s) THEN s[k] ELSE t[k - Len(s)]
  BY ConcatProperties
<1>2. Len(s) \in Nat /\ Len(t) \in Nat /\ DOMAIN s = 1..Len(s) /\ DOMAIN t = 1..Len(t)
      /\ DOMAIN r = 1..Len(r)
  BY <1>1
<1> HIDE DEF r
<1>3. ASSUME NEW k \in DOMAIN r
      PROVE  \/ k \in DOMAIN s /\ r[k] = s[k]
             \/ k - Len(s) \in DOMAIN t /\ r[k] = t[k - Len(s)] /\ k \notin DOMAIN s
  BY <1>1, <1>2
<1>4. /\ \A k \in DOMAIN s : k \in DOMAIN r /\ r[k] = s[k]
      /\ \A k \in DOMAIN t : k + Len(s) \in DOMAIN r /\ r[k + Len(s)] = t[k]
  <2>1. \A k \in DOMAIN t : /\ k + Len(s) \in 1..Len(r) /\ ~(k + Len(s) <= Len(s))
                            /\ (k + Len(s)) - Len(s) = k
    BY <1>1, <1>2
  <2> QED BY <1>1, <1>2, <2>1
<1>5. \A x : Contains(r, x) <=> Contains(s, x) \/ Contains(t, x)
  <2>1. /\ \A x : Contains(s, x) <=> \E k \in DOMAIN s : s[k] = x
        /\ \A x : Contains(t, x) <=> \E k \in DOMAIN t : t[k] = x
        /\ \A x : Contains(r, x) <=> \E k \in DOMAIN r : r[k] = x
    BY <1>2 DEF Contains
  <2> QED BY <1>3, <1>4, <2>1
<1>6. ASSUME NEW i \in DOMAIN r, NEW j \in DOMAIN r, r[i] = r[j] PROVE i = j
  <2>1. CASE i \in DOMAIN s /\ j \in DOMAIN s
    BY <1>4, <1>6, <2>1 DEF IsInjective
  <2>2. CASE i \notin DOMAIN s /\ j \notin DOMAIN s
    <3>1. i - Len(s) = j - Len(s)
      BY <1>3, <1>6, <2>2 DEF IsInjective
    <3> QED BY <1>1, <1>2, <3>1
  <2>3. ~(i \in DOMAIN s /\ j \notin DOMAIN s) /\ ~(j \in DOMAIN s /\ i \notin DOMAIN s)
    BY <1>2, <1>3, <1>6 DEF Contains
  <2> QED BY <2>1, <2>2, <2>3
<1> QED BY <1>1, <1>5, <1>6 DEF r, IsInjective

LEMMA ExchangeProps ==
  ASSUME BucketAssumption, Types, Records, NEW p \in Procs,
         NEW done, ListOK(done), NEW new, ListOK(new), NEW off,
         NEW o \in Lineups(done), NEW woken, woken = Unblocked(done, o),
         \A k \in DOMAIN new : ~Due(p, Place(new[k])),
         Exchange(p, done, new, off, woken)
  PROVE  Exchanged(p, done, new, off, woken)
<1>1. /\ level' \in [Buckets -> Int]
      /\ \A k \in DOMAIN done :
           level'[done[k].b] = After(level[done[k].b], done[k].side, done[k].amt)
      /\ \A b \in Buckets : (\A k \in DOMAIN done : done[k].b # b) => level'[b] = level[b]
  <2> DEFINE mine(b) == {k \in DOMAIN done : done[k].b = b}
             new_(b) == IF mine(b) = {} THEN level[b]
                        ELSE LET i == done[CHOOSE k \in mine(b) : TRUE]
                             IN After(level[b], i.side, i.amt)
  <2>1. level' = [b \in Buckets |-> new_(b)]
    BY DEF Exchange
  <2>2. ASSUME NEW k \in DOMAIN done
        PROVE  /\ new_(done[k].b) = After(level[done[k].b], done[k].side, done[k].amt)
               /\ done[k].b \in Buckets /\ done[k].amt \in Nat
    <3>1. mine(done[k].b) = {k} /\ done[k].b \in Buckets /\ done[k].amt \in Nat
      BY ItemProps
    <3> QED BY <3>1
  <2>3. ASSUME NEW b \in Buckets, mine(b) = {} PROVE new_(b) = level[b]
    BY <2>3
  <2>4. ASSUME NEW b \in Buckets PROVE new_(b) \in Int
    <3>1. level[b] \in Int
      BY DEF Types
    <3>2. CASE mine(b) = {}
      BY <2>3, <3>1, <3>2
    <3>3. CASE mine(b) # {}
      <4>1. PICK k \in DOMAIN done : done[k].b = b
        BY <3>3
      <4> HIDE DEF new_
      <4> QED BY <2>2, <3>1, <4>1 DEF After
    <3> QED BY <3>2, <3>3
  <2>5. \A b \in Buckets : (\A k \in DOMAIN done : done[k].b # b) => mine(b) = {}
    OBVIOUS
  <2> HIDE DEF new_, mine
  <2> QED BY <2>1, <2>2, <2>3, <2>4, <2>5
<1>2. ASSUME NEW pl \in Places
      PROVE  /\ queue'[pl] \in Seq(Procs) /\ IsInjective(queue'[pl])
             /\ \A q \in Procs : q \in ToSet(queue'[pl]) <=>
                  \/ /\ q \in ToSet(queue[pl]) /\ q \notin Out(done, woken, pl)
                     /\ ~(q = p /\ pl \in PlacesOf(off))
                  \/ q = p /\ pl \in PlacesOf(new)
  <2> DEFINE out == Out(done, woken, pl)
             gone == IF pl \in PlacesOf(off) THEN out \cup {p} ELSE out
             rest == S!AtPlaces(queue[pl], {n \in DOMAIN queue[pl] : queue[pl][n] \notin gone})
  <2>1. queue'[pl] = IF pl \in PlacesOf(new) THEN Append(rest, p) ELSE rest
    BY DEF Exchange, Out
  <2>2. \A q : q \in gone <=> q \in out \/ (q = p /\ pl \in PlacesOf(off))
    OBVIOUS
  <2> HIDE DEF gone, out
  <2>3. rest \in Seq(Procs) /\ IsInjective(rest) /\ ToSet(rest) = ToSet(queue[pl]) \ gone
    <3>1. queue[pl] \in Seq(Procs) /\ IsInjective(queue[pl])
      BY DEF Types
    <3> QED BY <3>1, StayProps DEF BucketAssumption
  <2> HIDE DEF rest
  <2>4. CASE pl \in PlacesOf(new)
    <3>1. p \notin ToSet(rest)
      BY <2>3, <2>4, PlaceItem DEF Records, Recorded
    <3>2. /\ Append(rest, p) \in Seq(Procs)
          /\ SP!IsInjective(Append(rest, p))
          /\ SP!ToSet(Append(rest, p)) = SP!ToSet(rest) \cup {p}
      <4>1. SP!IsInjective(rest) /\ p \notin SP!ToSet(rest)
        BY <2>3, <3>1, SameSched
      <4>2. SP!ProcsOK
        BY DEF BucketAssumption, S!ProcsOK, SP!ProcsOK, S!NoProc, SP!NoProc, S!IsFiniteSet, SP!IsFiniteSet
      <4> QED BY <2>3, <4>1, <4>2, SP!AppendProps
    <3>3. IsInjective(Append(rest, p)) /\ ToSet(Append(rest, p)) = ToSet(rest) \cup {p}
      BY <3>2, SameSched
    <3> QED BY <2>1, <2>2, <2>3, <2>4, <3>2, <3>3 DEF out
  <2>5. CASE pl \notin PlacesOf(new)
    BY <2>1, <2>2, <2>3, <2>5 DEF out
  <2> QED BY <2>4, <2>5
<1>3. ASSUME NEW pl \in Places
      PROVE  /\ \A q \in Procs : q \in DOMAIN amount'[pl] <=>
                  \/ /\ q \in DOMAIN amount[pl]
                     /\ ~(q = p /\ pl \in PlacesOf(done) \cup PlacesOf(off))
                  \/ q = p /\ pl \in PlacesOf(new)
             /\ \A q \in DOMAIN amount'[pl] :
                  ~(q = p /\ pl \in PlacesOf(new)) => amount'[pl][q] = amount[pl][q]
             /\ \A k \in DOMAIN new : Place(new[k]) = pl => amount'[pl][p] = new[k].amt
  <2> DEFINE here == {k \in DOMAIN new : Place(new[k]) = pl}
             came == IF here = {} THEN {} ELSE {p}
             gone == IF pl \in PlacesOf(done) \cup PlacesOf(off) THEN {p} ELSE {}
             D == (DOMAIN amount[pl] \ gone) \cup came
  <2>1. amount'[pl] = [q \in D |-> IF q \in came THEN new[CHOOSE k \in here : TRUE].amt
                                   ELSE amount[pl][q]]
    BY DEF Exchange
  <2>2. here # {} <=> pl \in PlacesOf(new)
    BY DEF PlacesOf
  <2>3. \A q : q \in came <=> q = p /\ pl \in PlacesOf(new)
    BY <2>2
  <2>4. \A q : q \in D <=> \/ /\ q \in DOMAIN amount[pl]
                              /\ ~(q = p /\ pl \in PlacesOf(done) \cup PlacesOf(off))
                           \/ q = p /\ pl \in PlacesOf(new)
    BY <2>3
  <2>5. ASSUME NEW k \in DOMAIN new, Place(new[k]) = pl
        PROVE  (CHOOSE i \in here : TRUE) = k /\ pl \in PlacesOf(new)
    <3>1. here = {k}
      BY <2>5, ItemProps
    <3> QED BY <2>2, <3>1
  <2> HIDE DEF D, came, here
  <2> QED BY <2>1, <2>3, <2>4, <2>5
<1>4. acting'[p] = <<>>
  BY DEF Exchange
<1>5. ASSUME NEW q \in Procs, q # p
      PROVE  /\ acting'[q] \in Seq(Places) /\ IsInjective(acting'[q])
             /\ \A pl \in Places : Contains(acting'[q], pl) <=>
                     Contains(acting[q], pl) \/ q \in Out(done, woken, pl)
  <2> DEFINE c == Credits(done, woken, q)
  <2>1. acting'[q] = acting[q] \o c
    BY <1>5 DEF Exchange
  <2>2. acting[q] \in Seq(Places) /\ IsInjective(acting[q])
    BY DEF Types
  <2>3. /\ c \in Seq(Places) /\ IsInjective(c)
        /\ \A pl : Contains(c, pl) <=>
             \E k \in DOMAIN done : Opposite(done[k]) = pl /\ Contains(woken[k], q)
    BY CreditProps
  <2> HIDE DEF c
  <2>4. \A pl : Contains(c, pl) <=> q \in Out(done, woken, pl)
    BY <2>3, OutProps
  <2>5. \A pl : ~(Contains(acting[q], pl) /\ Contains(c, pl))
    <3> SUFFICES ASSUME NEW pl, Contains(acting[q], pl), Contains(c, pl) PROVE FALSE
      OBVIOUS
    <3>1. pl \in Places /\ q \in ToSet(queue[pl])
      BY <2>4, OutProps
    <3> QED BY <3>1 DEF Records, Recorded
  <2>6. /\ acting[q] \o c \in Seq(Places) /\ IsInjective(acting[q] \o c)
        /\ \A x : Contains(acting[q] \o c, x) <=> Contains(acting[q], x) \/ Contains(c, x)
    BY <2>2, <2>3, <2>5, JoinProps
  <2> QED BY <2>1, <2>4, <2>6
<1>6. acting'[p] \in Seq(Places) /\ IsInjective(acting'[p])
  BY <1>4 DEF IsInjective
<1>7. \A k \in DOMAIN new : amount'[Place(new[k])][p] = new[k].amt
  BY <1>3, ItemProps
<1> QED BY <1>1, <1>2, <1>3, <1>4, <1>5, <1>6, <1>7 DEF Exchanged

\* The process that exchanges something: its records follow its call.
LEMMA TurnRecords ==
  ASSUME BucketAssumption, Types, Records, NEW p \in Procs,
         NEW done, ListOK(done), NEW new, ListOK(new), NEW off,
         NEW o \in Lineups(done), NEW woken, woken = Unblocked(done, o),
         \A k \in DOMAIN new : ~Due(p, Place(new[k])),
         \A k \in DOMAIN done : ~Due(p, Opposite(done[k])),
         \A pl \in Places : Due(p, pl) => (Contains(acting[p], pl) <=> pl \in PlacesOf(done)),
         Exchange(p, done, new, off, woken),
         \A q \in Procs : q # p => call'[q] = call[q],
         \A pl \in Places : Due(p, pl)' <=>
           \/ Due(p, pl) /\ pl \notin PlacesOf(done) /\ pl \notin PlacesOf(off)
           \/ pl \in PlacesOf(new),
         \A pl \in Places : Due(p, pl)' => call'[p].items = call[p].items \/ pl \in PlacesOf(new),
         \A k \in DOMAIN new : \E l \in DOMAIN call'[p].items : call'[p].items[l] = new[k]
  PROVE  /\ Records'
         /\ \A pl \in Places : p \notin Out(done, woken, pl)
<1>1. Exchanged(p, done, new, off, woken)
  BY ExchangeProps
<1>2. \A pl \in Places : p \notin Out(done, woken, pl)
  BY OutProps DEF Records, Recorded
<1>3. ASSUME NEW q \in Procs, q # p, NEW pl \in Places PROVE Recorded(q, pl)'
  <2>1. call'[q] = call[q]
    BY <1>3
  <2>2. Due(q, pl)' <=> Due(q, pl)
    BY <2>1 DEF Due, InWait
  <2>3. /\ q \in ToSet(queue'[pl]) <=> q \in ToSet(queue[pl]) /\ q \notin Out(done, woken, pl)
        /\ q \in DOMAIN amount'[pl] <=> q \in DOMAIN amount[pl]
        /\ q \in DOMAIN amount[pl] => amount'[pl][q] = amount[pl][q]
        /\ Contains(acting'[q], pl) <=> Contains(acting[q], pl) \/ q \in Out(done, woken, pl)
    BY <1>1, <1>3 DEF Exchanged
  <2>4. q \in Out(done, woken, pl) => q \in ToSet(queue[pl])
    BY OutProps
  <2>5. Recorded(q, pl)
    BY DEF Records
  <2> QED BY <2>1, <2>2, <2>3, <2>4, <2>5 DEF Recorded
<1>4. ASSUME NEW pl \in Places PROVE Recorded(p, pl)'
  <2>1. /\ p \in ToSet(queue'[pl]) <=>
             (p \in ToSet(queue[pl]) /\ pl \notin PlacesOf(off)) \/ pl \in PlacesOf(new)
        /\ p \in DOMAIN amount'[pl] <=>
             \/ p \in DOMAIN amount[pl] /\ pl \notin PlacesOf(done) \cup PlacesOf(off)
             \/ pl \in PlacesOf(new)
        /\ p \in DOMAIN amount'[pl] /\ pl \notin PlacesOf(new) => amount'[pl][p] = amount[pl][p]
    BY <1>1, <1>2 DEF Exchanged
  <2>2. ~Contains(acting'[p], pl)
    BY <1>1 DEF Exchanged, Contains
  <2>3. Recorded(p, pl)
    BY DEF Records
  <2>4. Due(p, pl)' => \E k \in DOMAIN call'[p].items :
          Place(call'[p].items[k]) = pl /\ call'[p].items[k].amt = amount'[pl][p]
    <3>1. CASE pl \in PlacesOf(new)
      <4>1. PICK k \in DOMAIN new : Place(new[k]) = pl
        BY <3>1, PlaceItem
      <4>2. amount'[pl][p] = new[k].amt
        BY <1>1, <4>1 DEF Exchanged
      <4>3. PICK l \in DOMAIN call'[p].items : call'[p].items[l] = new[k]
        OBVIOUS
      <4> QED BY <4>1, <4>2, <4>3
    <3>2. CASE pl \notin PlacesOf(new)
      <4> SUFFICES ASSUME Due(p, pl)'
                   PROVE  \E k \in DOMAIN call'[p].items :
                            Place(call'[p].items[k]) = pl /\ call'[p].items[k].amt = amount'[pl][p]
        OBVIOUS
      <4>1. call'[p].items = call[p].items /\ Due(p, pl)
            /\ pl \notin PlacesOf(done) \cup PlacesOf(off)
        BY <3>2
      <4>2. amount'[pl][p] = amount[pl][p]
        BY <2>1, <2>3, <3>2, <4>1 DEF Recorded
      <4> QED BY <2>3, <4>1, <4>2 DEF Recorded
    <3> QED BY <3>1, <3>2
  <2> QED BY <2>1, <2>2, <2>3, <2>4 DEF Recorded
<1>5. Records'
  BY <1>3, <1>4 DEF Records
<1> QED BY <1>2, <1>5

\* What the invariant says of a direct call.
DirectOK(p) ==
  call[p].op = "direct" => \E i \in Items : call[p] = Waiting("direct", <<i>>, {}, TRUE, FALSE)

\* The items that a process has been unblocked for.
LEMMA ResumedProps ==
  ASSUME BucketAssumption, Types, Records, NEW p \in Procs, InWait(p), DirectOK(p),
         call[p].op = "direct" => Contains(acting[p], Place(call[p].items[1]))
  PROVE  LET r == Resumed(p)
             items == call[p].items
         IN /\ ListOK(r)
            /\ \A pl \in Places : pl \in PlacesOf(r) <=> Contains(acting[p], pl)
            /\ \A n \in DOMAIN r : \E k \in DOMAIN items : r[n] = items[k]
            /\ \A n \in DOMAIN r : /\ Due(p, Place(r[n])) /\ ~Due(p, Opposite(r[n]))
                                   /\ r[n].amt = amount[Place(r[n])][p]
<1> DEFINE r == Resumed(p)
           items == call[p].items
           at(pl) == items[CHOOSE k \in DOMAIN items : Place(items[k]) = pl]
<1>1. ListOK(items)
  BY CallProps
<1>2. ASSUME NEW pl \in PlacesOf(items)
      PROVE  \E k \in DOMAIN items : at(pl) = items[k] /\ Place(items[k]) = pl
  <2>1. \E k \in DOMAIN items : Place(items[k]) = pl
    BY PlaceItem
  <2> QED BY <2>1
<1>3. \A pl \in Places : Contains(acting[p], pl) => pl \in PlacesOf(items) /\ Due(p, pl)
  BY DEF Records, Recorded, Due
<1>4. /\ acting[p] \in Seq(Places) /\ IsInjective(acting[p])
      /\ DOMAIN acting[p] = 1..Len(acting[p]) /\ Len(acting[p]) \in Nat
  BY DEF Types
<1>5. \A pl : Contains(acting[p], pl) <=> \E n \in DOMAIN acting[p] : acting[p][n] = pl
  BY <1>4 DEF Contains
<1>6. /\ ListOK(r)
      /\ \A pl \in Places : pl \in PlacesOf(r) <=> Contains(acting[p], pl)
      /\ \A n \in DOMAIN r : \E k \in DOMAIN items : r[n] = items[k]
  <2>1. CASE call[p].op = "direct"
    <3>1. r = items
      BY <2>1 DEF Resumed
    <3>2. DOMAIN items = {1}
      <4>1. PICK i \in Items : call[p] = Waiting("direct", <<i>>, {}, TRUE, FALSE)
        BY <2>1 DEF DirectOK
      <4>2. call[p].items = <<i>>
        BY <4>1 DEF Waiting
      <4> QED BY <4>2
    <3>3. PlacesOf(items) = {Place(items[1])}
      BY <3>2 DEF PlacesOf
    <3> HIDE DEF r, items
    <3>4. Contains(acting[p], Place(items[1]))
      BY <2>1 DEF items
    <3> QED BY <1>1, <1>3, <3>1, <3>3, <3>4
  <2>2. CASE call[p].op # "direct"
    <3>1. r = [n \in DOMAIN acting[p] |-> at(acting[p][n])]
      BY <2>2 DEF Resumed
    <3>2. ASSUME NEW n \in DOMAIN acting[p]
          PROVE  /\ r[n] = at(acting[p][n])
                 /\ \E k \in DOMAIN items : r[n] = items[k] /\ Place(items[k]) = acting[p][n]
      <4>1. acting[p][n] \in Places /\ Contains(acting[p], acting[p][n])
        BY <1>4, <1>5
      <4>2. acting[p][n] \in PlacesOf(items)
        BY <1>3, <4>1
      <4>3. r[n] = at(acting[p][n])
        BY <3>1
      <4> HIDE DEF at, r, items
      <4> QED BY <1>2, <4>2, <4>3
    <3>3. DOMAIN r = 1..Len(acting[p])
      BY <1>4, <3>1
    <3> HIDE DEF at, r, items
    <3>4. \A n \in DOMAIN r : Place(r[n]) = acting[p][n]
      BY <1>4, <3>2, <3>3
    <3>5. ListOK(r)
      <4>1. \A n \in DOMAIN r : IsItem(r[n])
        BY <1>1, <1>4, <3>2, <3>3 DEF ListOK
      <4>2. ASSUME NEW m \in DOMAIN r, NEW n \in DOMAIN r, r[m].b = r[n].b PROVE m = n
        <5>1. PICK k \in DOMAIN items : r[m] = items[k] /\ Place(items[k]) = acting[p][m]
          BY <1>4, <3>2, <3>3
        <5>2. PICK l \in DOMAIN items : r[n] = items[l] /\ Place(items[l]) = acting[p][n]
          BY <1>4, <3>2, <3>3
        <5>3. k = l
          BY <1>1, <4>2, <5>1, <5>2 DEF ListOK
        <5> QED BY <1>4, <3>3, <5>1, <5>2, <5>3 DEF IsInjective
      <4>3. r \in Seq(ToSet(r))
        <5>1. r \in [1..Len(acting[p]) -> ToSet(r)]
          <6>1. r = [n \in 1..Len(acting[p]) |-> r[n]]
            BY <3>1, <3>3
          <6>2. \A n \in 1..Len(acting[p]) : r[n] \in ToSet(r)
            BY <3>3 DEF ToSet
          <6> QED BY <6>1, <6>2
        <5> QED BY <1>4, <5>1
      <4> QED BY <4>1, <4>2, <4>3 DEF ListOK
    <3>6. \A pl \in Places : pl \in PlacesOf(r) <=> Contains(acting[p], pl)
      BY <1>4, <1>5, <3>3, <3>4 DEF PlacesOf
    <3>7. \A n \in DOMAIN r : \E k \in DOMAIN items : r[n] = items[k]
      BY <1>4, <3>2, <3>3
    <3> QED BY <3>5, <3>6, <3>7
  <2> QED BY <2>1, <2>2
<1>7. ASSUME NEW n \in DOMAIN r
      PROVE  /\ Due(p, Place(r[n])) /\ ~Due(p, Opposite(r[n]))
             /\ r[n].amt = amount[Place(r[n])][p]
  <2> DEFINE pl == Place(r[n])
  <2>1. PICK k \in DOMAIN items : r[n] = items[k]
    BY <1>6
  <2> HIDE DEF r, items
  <2>2. pl \in Places /\ pl \in PlacesOf(r)
    BY <1>6, ItemProps
  <2> HIDE DEF pl
  <2>3. Due(p, pl)
    BY <1>3, <1>6, <2>2
  <2>4. PICK l \in DOMAIN items : Place(items[l]) = pl /\ items[l].amt = amount[pl][p]
    BY <2>2, <2>3 DEF Records, Recorded, items
  <2>5. l = k
    BY <1>1, <2>1, <2>4, ItemProps DEF pl
  <2>6. ASSUME Due(p, Opposite(r[n])) PROVE FALSE
    <3>1. Opposite(items[k]) \in PlacesOf(items)
      BY <2>1, <2>6 DEF Due, items
    <3>2. PICK m \in DOMAIN items : Place(items[m]) = Opposite(items[k])
      BY <3>1, PlaceItem
    <3> QED BY <1>1, <3>2, ItemProps
  <2> QED BY <2>1, <2>3, <2>4, <2>5, <2>6 DEF pl
<1> HIDE DEF at
<1> QED BY <1>6, <1>7

-----------------------------------------------------------------------------
(* Steps in which a process gets or puts something *)

\* What the invariant says of the states of the processes.
StateOK(p) ==
  /\ InWait(p) => /\ st[p] \in {"running", "suspended", "terminated"}
                  /\ p = cur => st[p] = "running"
                  /\ st[p] = "terminated" => PlacesOf(call[p].items) \subseteq left
  /\ S!Live(p) /\ (\E pl \in Places : Contains(acting[p], pl)) => st[p] = "running"
  /\ st[p] = "running" /\ ~InWait(p) => p \notin timer
  /\ DirectOK(p)
  /\ call[p].op = "direct" => /\ p \notin timer
                              /\ st[p] = "running" => Contains(acting[p], Place(call[p].items[1]))

StatesOK == \A p \in Procs : StateOK(p)

\* The new states: p suspends itself if it waits after the step.
NewStates(p, woken) ==
  [q \in Procs |-> IF q \in ToSet(S!Woken(st, FlattenSeq(woken))) THEN "running"
                   ELSE IF q = p /\ InWait(p)' THEN "suspended" ELSE st[q]]

\* The process p gets or puts the items done, arrives for those in new, and
\* withdraws from those in off.
Turn(p, done, new, off, o, woken) ==
  /\ cur = p /\ st[p] = "running"
  /\ ListOK(done) /\ ListOK(new) /\ ListOK(off)
  /\ o \in Lineups(done) /\ woken = Unblocked(done, o)
  /\ Exchange(p, done, new, off, woken)
  /\ \A k \in DOMAIN done, l \in DOMAIN new : done[k].b # new[l].b
  /\ \A k \in DOMAIN new : ~Due(p, Place(new[k]))
  /\ \A k \in DOMAIN done : ~Due(p, Opposite(done[k]))
  /\ \A pl \in Places : Due(p, pl) => (Contains(acting[p], pl) <=> pl \in PlacesOf(done))
  /\ \A q \in Procs : q # p => call'[q] = call[q]
  /\ call' \in [Procs -> {Idle, Sleeping} \cup Blocked] /\ DirectOK(p)'
  /\ \A pl \in Places : Due(p, pl)' <=>
       \/ Due(p, pl) /\ pl \notin PlacesOf(done) /\ pl \notin PlacesOf(off)
       \/ pl \in PlacesOf(new)
  /\ \A pl \in Places : Due(p, pl)' => call'[p].items = call[p].items \/ pl \in PlacesOf(new)
  /\ \A k \in DOMAIN new : \E l \in DOMAIN call'[p].items : call'[p].items[l] = new[k]
  /\ st' = NewStates(p, woken)
  /\ cur' = IF InWait(p)' THEN "drain" ELSE p
  /\ left' = left
  /\ \A pl \in Places : Due(p, pl) /\ pl \in PlacesOf(off) => pl \in abandoned'
  /\ \A pl \in abandoned : pl \in abandoned' \/ \E k \in DOMAIN done : Opposite(done[k]) = pl
  /\ \A q \in Procs : q # p => (q \in timer' <=> q \in timer)
  /\ ~InWait(p)' \/ call'[p].op = "direct" => p \notin timer'

\* A call of user code looks at the levels.
Fresh(p, done, new, woken) ==
  /\ \A pl \in Places : ~Due(p, pl)
  /\ \A k \in DOMAIN done : FitsNow(done[k])
  /\ \A k \in DOMAIN new : ~FitsNow(new[k])
  /\ \A k \in DOMAIN done : done[k].b \in Promised => done[k].b \in barged'
  /\ \A b \in barged : b \in barged'

\* A process that resumes does not.
Resumes(p, done, new, woken) ==
  /\ \A pl \in Places : pl \in PlacesOf(done) <=> Contains(acting[p], pl)
  /\ \A k \in DOMAIN done : done[k].amt = amount[Place(done[k])][p]
  /\ new = <<>>
  /\ \A k \in DOMAIN done : woken[k] # <<>> /\ Opposite(done[k]) \in PromisedAt =>
                              done[k].b \in barged'
  /\ \A b \in barged : b \in barged'

\* The parts of the invariant that the steps are looked at with.
Base == BucketAssumption /\ Types /\ Records /\ StatesOK

LEMMA EmptyList ==
  /\ ListOK(<<>>) /\ PlacesOf(<<>>) = {} /\ DOMAIN <<>> = {}
  /\ \A s : Len(s) = 0 /\ s \in Seq(ToSet(s)) => s = <<>>
<1>1. <<>> \in Seq(ToSet(<<>>)) /\ DOMAIN <<>> = {}
  OBVIOUS
<1> QED BY <1>1 DEF ListOK, PlacesOf

\* The items that fit and those that do not.
LEMMA FittingProps ==
  ASSUME BucketAssumption, NEW items \in Lists
  PROVE  /\ ListOK(Fitting(items)) /\ ListOK(Lacking(items))
         /\ \A k \in DOMAIN Fitting(items) : FitsNow(Fitting(items)[k])
         /\ \A k \in DOMAIN Lacking(items) : ~FitsNow(Lacking(items)[k])
         /\ \A k \in DOMAIN Lacking(items) : \E l \in DOMAIN items : items[l] = Lacking(items)[k]
         /\ \A k \in DOMAIN Fitting(items), l \in DOMAIN Lacking(items) :
              Fitting(items)[k].b # Lacking(items)[l].b
         /\ PlacesOf(Fitting(items)) \subseteq PlacesOf(items)
         /\ PlacesOf(Lacking(items)) = PlacesOf(items) \ PlacesOf(Fitting(items))
         /\ PlacesOf(items) \subseteq Places
<1> DEFINE F == {k \in DOMAIN items : FitsNow(items[k])}
           L == {k \in DOMAIN items : ~FitsNow(items[k])}
           f == Fitting(items)
           l == Lacking(items)
<1>1. ListOK(items)
  BY ListsOK
<1>2. f = S!AtPlaces(items, F) /\ l = S!AtPlaces(items, L)
  BY DEF Fitting, Lacking
<1>3. F \in SUBSET DOMAIN items /\ L \in SUBSET DOMAIN items
  OBVIOUS
<1> HIDE DEF f, l
<1>4. /\ ListOK(f) /\ (\A k \in DOMAIN f : \E i \in F : f[k] = items[i])
      /\ PlacesOf(f) = {Place(items[i]) : i \in F}
  <2> HIDE DEF F, L
  <2> QED BY <1>1, <1>2, <1>3, PartOK
<1>5. /\ ListOK(l) /\ (\A k \in DOMAIN l : \E i \in L : l[k] = items[i])
      /\ PlacesOf(l) = {Place(items[i]) : i \in L}
  <2> HIDE DEF F, L
  <2> QED BY <1>1, <1>2, <1>3, PartOK
<1>6. \A k \in DOMAIN items, m \in DOMAIN items :
        items[k].b = items[m].b \/ Place(items[k]) = Place(items[m]) => k = m
  BY <1>1, ItemProps
<1>7. \A k \in DOMAIN f, m \in DOMAIN l : f[k].b # l[m].b
  BY <1>4, <1>5, <1>6
<1>8. PlacesOf(l) = PlacesOf(items) \ PlacesOf(f) /\ PlacesOf(f) \subseteq PlacesOf(items)
  <2>1. \A pl : pl \in PlacesOf(items) <=> \E i \in DOMAIN items : Place(items[i]) = pl
    BY DEF PlacesOf
  <2>2. \A pl : pl \in PlacesOf(f) <=> \E i \in F : Place(items[i]) = pl
    BY <1>4
  <2>3. \A pl : pl \in PlacesOf(l) <=> \E i \in L : Place(items[i]) = pl
    BY <1>5
  <2> QED BY <1>6, <2>1, <2>2, <2>3
<1>9. PlacesOf(items) \subseteq Places
  BY <1>1, ItemProps DEF PlacesOf
<1> QED BY <1>4, <1>5, <1>7, <1>8, <1>9 DEF f, l

\* The one that user code runs in is in no call.
LEMMA IdleProps ==
  ASSUME Base, NEW p \in Procs, p = cur, InProcess
  PROVE  /\ st[p] = "running" /\ call[p] = Idle /\ ~InWait(p) /\ p \notin timer
         /\ \A pl \in Places : ~Due(p, pl) /\ ~Contains(acting[p], pl)
<1>1. st[p] = "running" /\ call[p] = Idle
  BY DEF InProcess, User
<1>2. ~InWait(p)
  BY <1>1 DEF Idle, InWait
<1> QED BY <1>1, <1>2 DEF Base, StatesOK, StateOK, Due, Records, Recorded

LEMMA AtOnceProps ==
  ASSUME Base, NEW items \in Lists, NEW every, AtOnce(items, every)
  PROVE  \E p \in Procs : \E done, off, o, woken :
           /\ p = cur /\ done = Fitting(items) /\ off = Lacking(items)
           /\ Turn(p, done, <<>>, off, o, woken)
           /\ Fresh(p, done, <<>>, woken)
<1>0. PICK p \in Procs : p = cur
  BY DEF AtOnce, InProcess
<1>1. PICK done : done = Fitting(items)
  OBVIOUS
<1>a. PICK off : off = Lacking(items)
  OBVIOUS
<1>2. PICK o \in Lineups(done) :
        /\ Exchange(p, done, <<>>, off, Unblocked(done, o))
        /\ S!Signal(S!Woken(st, FlattenSeq(Unblocked(done, o))))
  BY <1>0, <1>1, <1>a DEF AtOnce
<1> DEFINE woken == Unblocked(done, o)
<1>3. /\ InProcess /\ Barge(done) /\ timer' = timer /\ call' = call /\ left' = left
      /\ Abandon(done, <<>>)
  BY <1>1 DEF AtOnce
<1>4. /\ cur' = cur
      /\ st' = [q \in Procs |-> IF q \in ToSet(S!Woken(st, FlattenSeq(woken))) THEN "running" ELSE st[q]]
  BY <1>2, SameSched DEF S!Signal, S!Wake
<1>5. /\ st[p] = "running" /\ call[p] = Idle /\ ~InWait(p) /\ p \notin timer
      /\ \A pl \in Places : ~Due(p, pl) /\ ~Contains(acting[p], pl)
  BY <1>0, <1>3, IdleProps
<1>6. ~InWait(p)' /\ \A pl \in Places : ~Due(p, pl)'
  BY <1>3, <1>5 DEF InWait, Due
<1>7. ListOK(done) /\ ListOK(off) /\ \A k \in DOMAIN done : FitsNow(done[k])
  BY <1>1, <1>a, FittingProps DEF Base
<1>8. st' = NewStates(p, woken)
  BY <1>4, <1>6 DEF NewStates
<1>9. DirectOK(p)'
  BY <1>3, <1>5 DEF DirectOK, Idle
<1>10. Turn(p, done, <<>>, off, o, woken)
  <2> HIDE DEF woken
  <2>1. \A k \in DOMAIN done : Opposite(done[k]) \in Places
    BY <1>7, ItemProps DEF Base
  <2>2. Exchange(p, done, <<>>, off, woken) /\ woken = Unblocked(done, o)
    BY <1>2 DEF woken
  <2>3. call' \in [Procs -> {Idle, Sleeping} \cup Blocked]
    BY <1>3 DEF Base, Types
  <2>4. \A pl \in abandoned : pl \in abandoned' \/ \E k \in DOMAIN done : Opposite(done[k]) = pl
    BY <1>3 DEF Abandon
  <2> QED BY <1>0, <1>2, <1>3, <1>4, <1>5, <1>6, <1>7, <1>8, <1>9, <2>1, <2>2, <2>3, <2>4, EmptyList
             DEF Turn
<1>11. Fresh(p, done, <<>>, woken)
  BY <1>3, <1>5, <1>7, EmptyList DEF Fresh, Barge
<1> QED BY <1>0, <1>1, <1>a, <1>10, <1>11

LEMMA BlocksProps ==
  ASSUME Base, NEW op \in {"direct", "cond"}, NEW items \in Lists,
         NEW every \in BOOLEAN, NEW timed \in BOOLEAN,
         op = "direct" => (\E i \in Items : items = <<i>>) /\ every /\ ~timed,
         Blocks(op, items, every, timed)
  PROVE  \E p \in Procs : \E done, new, o, woken :
           /\ p = cur /\ done = Fitting(items) /\ new = Lacking(items)
           /\ Turn(p, done, new, <<>>, o, woken)
           /\ Fresh(p, done, new, woken)
<1>0. PICK p \in Procs : p = cur
  BY DEF Blocks, InProcess
<1>1. PICK done : done = Fitting(items)
  OBVIOUS
<1>a. PICK new : new = Lacking(items)
  OBVIOUS
<1> DEFINE c == Waiting(op, items, PlacesOf(done), every, timed)
<1>2. PICK o \in Lineups(done) :
        /\ Exchange(p, done, new, <<>>, Unblocked(done, o))
        /\ SuspendAfter(p, Unblocked(done, o))
  BY <1>0, <1>1, <1>a DEF Blocks
<1> DEFINE woken == Unblocked(done, o)
<1>3. /\ InProcess /\ Barge(done) /\ call' = [call EXCEPT ![p] = c] /\ left' = left
      /\ Abandon(done, <<>>)
      /\ timer' = IF timed THEN timer \cup {p} ELSE timer
      /\ ~Met(every, items, PlacesOf(done))
  BY <1>0, <1>1 DEF Blocks
<1>4. /\ cur' = "drain"
      /\ st' = [q \in Procs |-> IF q \in ToSet(S!Woken(st, FlattenSeq(woken))) THEN "running"
                                ELSE [st EXCEPT ![p] = "suspended"][q]]
  BY <1>2, SameSched DEF SuspendAfter, S!Wake
<1>5. /\ st[p] = "running" /\ call[p] = Idle /\ ~InWait(p) /\ p \notin timer
      /\ \A pl \in Places : ~Due(p, pl) /\ ~Contains(acting[p], pl)
  BY <1>0, <1>3, IdleProps
<1>6. /\ ListOK(done) /\ (\A k \in DOMAIN done : FitsNow(done[k]))
      /\ ListOK(new) /\ (\A k \in DOMAIN new : ~FitsNow(new[k]))
      /\ \A k \in DOMAIN new : \E l \in DOMAIN items : items[l] = new[k]
      /\ \A k \in DOMAIN done, l \in DOMAIN new : done[k].b # new[l].b
      /\ PlacesOf(done) \subseteq PlacesOf(items)
      /\ PlacesOf(new) = PlacesOf(items) \ PlacesOf(done)
      /\ PlacesOf(items) \subseteq Places
  BY <1>1, <1>a, FittingProps DEF Base
<1>7. /\ call \in [Procs -> {Idle, Sleeping} \cup Blocked]
      /\ c.op = op /\ c.items = items /\ c.got = PlacesOf(done)
  BY DEF Base, Types, Waiting
<1>8. c \in Blocked
  <2>1. PlacesOf(done) \in SUBSET Places
    BY <1>6
  <2> QED BY <2>1 DEF Blocked, Waiting
<1>9. op = "direct" => \E i \in Items : c = Waiting("direct", <<i>>, {}, TRUE, FALSE)
  <2> SUFFICES ASSUME op = "direct"
               PROVE  \E i \in Items : c = Waiting("direct", <<i>>, {}, TRUE, FALSE)
    OBVIOUS
  <2>1. PICK i \in Items : items = <<i>> /\ every = TRUE /\ timed = FALSE
    OBVIOUS
  <2>2. PlacesOf(items) = {Place(i)}
    <3>1. DOMAIN items = {1} /\ items[1] = i
      BY <2>1
    <3> QED BY <3>1 DEF PlacesOf
  <2>3. ~(PlacesOf(items) \subseteq PlacesOf(done))
    BY <1>3, <2>1 DEF Met
  <2>4. PlacesOf(done) = {}
    BY <1>6, <2>2, <2>3
  <2> QED BY <2>1, <2>4
<1> HIDE DEF c
<1>10. call'[p] = c /\ \A q \in Procs : q # p => call'[q] = call[q]
  BY <1>3, <1>7
<1>11. InWait(p)' /\ (\A pl \in Places : Due(p, pl)' <=> pl \in PlacesOf(new)) /\ DirectOK(p)'
  BY <1>6, <1>7, <1>9, <1>10 DEF InWait, Due, DirectOK
<1>12. st' = NewStates(p, woken)
  <2>1. \A q \in Procs : [st EXCEPT ![p] = "suspended"][q] = IF q = p THEN "suspended" ELSE st[q]
    BY DEF Base, Types
  <2> QED BY <1>4, <1>11, <2>1 DEF NewStates
<1>13. Turn(p, done, new, <<>>, o, woken)
  <2> HIDE DEF woken
  <2>1. \A k \in DOMAIN done : Opposite(done[k]) \in Places
    BY <1>6, ItemProps DEF Base
  <2>a. \A k \in DOMAIN new : Place(new[k]) \in Places
    BY <1>6, ItemProps DEF Base
  <2>2. Exchange(p, done, new, <<>>, woken) /\ woken = Unblocked(done, o)
    BY <1>2 DEF woken
  <2>3. /\ \A q \in Procs : q # p => (q \in timer' <=> q \in timer)
        /\ ~InWait(p)' \/ call'[p].op = "direct" => p \notin timer'
    BY <1>3, <1>5, <1>7, <1>10, <1>11
  <2>4. /\ \A k \in DOMAIN new : ~Due(p, Place(new[k]))
        /\ \A k \in DOMAIN done : ~Due(p, Opposite(done[k]))
        /\ \A pl \in Places : Due(p, pl) => (Contains(acting[p], pl) <=> pl \in PlacesOf(done))
    BY <1>5, <2>1, <2>a
  <2>c. call' \in [Procs -> {Idle, Sleeping} \cup Blocked]
    BY <1>3, <1>7, <1>8
  <2>5. /\ \A pl \in Places : Due(p, pl)' <=>
             \/ Due(p, pl) /\ pl \notin PlacesOf(done) /\ pl \notin PlacesOf(<<>>)
             \/ pl \in PlacesOf(new)
        /\ \A pl \in Places : Due(p, pl)' => call'[p].items = call[p].items \/ pl \in PlacesOf(new)
        /\ \A k \in DOMAIN new : \E l \in DOMAIN call'[p].items : call'[p].items[l] = new[k]
    BY <1>5, <1>6, <1>7, <1>8, <1>10, <1>11
  <2>6. /\ left' = left
        /\ \A pl \in Places : ~(Due(p, pl) /\ pl \in PlacesOf(<<>>))
        /\ \A pl \in abandoned : pl \in abandoned' \/ \E k \in DOMAIN done : Opposite(done[k]) = pl
    BY <1>3, EmptyList DEF Abandon
  <2>7. cur' = IF InWait(p)' THEN "drain" ELSE p
    BY <1>4, <1>11
  <2> QED BY <1>0, <1>2, <1>5, <1>6, <1>10, <1>11, <1>12, <2>2, <2>3, <2>4, <2>5, <2>6, <2>7, <2>c, EmptyList
             DEF Turn
<1>14. Fresh(p, done, new, woken)
  BY <1>3, <1>5, <1>6 DEF Fresh, Barge
<1> QED BY <1>0, <1>1, <1>a, <1>13, <1>14

\* A process that waits and has the control was unblocked for all it acts on.
LEMMA WaitProps ==
  ASSUME Base, NEW p \in Procs, cur = p, InWait(p)
  PROVE  LET r == Resumed(p)
         IN /\ st[p] = "running" /\ call[p] \in Blocked /\ ListOK(call[p].items)
            /\ ListOK(r)
            /\ \A pl \in Places : pl \in PlacesOf(r) <=> Contains(acting[p], pl)
            /\ \A n \in DOMAIN r : \E k \in DOMAIN call[p].items : r[n] = call[p].items[k]
            /\ \A n \in DOMAIN r : /\ Due(p, Place(r[n])) /\ ~Due(p, Opposite(r[n]))
                                   /\ r[n].amt = amount[Place(r[n])][p]
            /\ PlacesOf(r) \subseteq Places /\ PlacesOf(call[p].items) \subseteq Places
            /\ \A pl \in PlacesOf(r) : Due(p, pl)
<1>1. StateOK(p) /\ BucketAssumption /\ Types /\ Records
  BY DEF Base, StatesOK
<1>2. st[p] = "running" /\ DirectOK(p)
  BY <1>1 DEF StateOK
<1>3. call[p].op = "direct" => Contains(acting[p], Place(call[p].items[1]))
  BY <1>1, <1>2 DEF StateOK
<1>4. call[p] \in Blocked /\ ListOK(call[p].items)
  BY <1>1, CallProps
<1> DEFINE r == Resumed(p)
<1>5. /\ ListOK(r)
      /\ \A pl \in Places : pl \in PlacesOf(r) <=> Contains(acting[p], pl)
      /\ \A n \in DOMAIN r : \E k \in DOMAIN call[p].items : r[n] = call[p].items[k]
      /\ \A n \in DOMAIN r : /\ Due(p, Place(r[n])) /\ ~Due(p, Opposite(r[n]))
                             /\ r[n].amt = amount[Place(r[n])][p]
  BY <1>1, <1>2, <1>3, ResumedProps
<1> HIDE DEF r
<1>6. PlacesOf(r) \subseteq Places /\ PlacesOf(call[p].items) \subseteq Places
  BY <1>1, <1>4, <1>5, ItemProps DEF PlacesOf
<1>7. \A pl \in PlacesOf(r) : Due(p, pl)
  BY <1>5, PlaceItem
<1> QED BY <1>2, <1>4, <1>5, <1>6, <1>7 DEF r

LEMMA ReturnProps ==
  ASSUME Base, NEW p \in Procs, Return(p)
  PROVE  \E done, off, o, woken :
           /\ done = Resumed(p) /\ off = Withdrawn(p)
           /\ Turn(p, done, <<>>, off, o, woken)
           /\ Resumes(p, done, <<>>, woken)
<1>0. cur = p /\ InWait(p)
  BY DEF Return
<1>1. PICK done : done = Resumed(p)
  OBVIOUS
<1>a. PICK off : off = Withdrawn(p)
  OBVIOUS
<1>2. PICK o \in Lineups(done) :
        /\ Exchange(p, done, <<>>, off, Unblocked(done, o))
        /\ S!Signal(S!Woken(st, FlattenSeq(Unblocked(done, o))))
        /\ Overbook(done, Unblocked(done, o))
  BY <1>1, <1>a DEF Return
<1> DEFINE woken == Unblocked(done, o)
<1>3. timer' = timer \ {p} /\ call' = [call EXCEPT ![p] = Idle] /\ left' = left /\ Abandon(done, off)
  BY <1>1, <1>a DEF Return
<1>4. /\ cur' = cur
      /\ st' = [q \in Procs |-> IF q \in ToSet(S!Woken(st, FlattenSeq(woken))) THEN "running" ELSE st[q]]
  BY <1>2, SameSched DEF S!Signal, S!Wake
<1>5. /\ st[p] = "running" /\ call[p] \in Blocked /\ ListOK(call[p].items)
      /\ ListOK(done)
      /\ \A pl \in Places : pl \in PlacesOf(done) <=> Contains(acting[p], pl)
      /\ \A n \in DOMAIN done : /\ Due(p, Place(done[n])) /\ ~Due(p, Opposite(done[n]))
                                /\ done[n].amt = amount[Place(done[n])][p]
  BY <1>0, <1>1, WaitProps
<1>6. ListOK(off) /\ PlacesOf(off) = PlacesOf(call[p].items) \ Got(p)
  <2> DEFINE I == {k \in DOMAIN call[p].items : Place(call[p].items[k]) \notin Got(p)}
  <2>1. off = S!AtPlaces(call[p].items, I)
    BY <1>a DEF Withdrawn
  <2>2. I \in SUBSET DOMAIN call[p].items
    OBVIOUS
  <2>3. {Place(call[p].items[k]) : k \in I} = PlacesOf(call[p].items) \ Got(p)
    BY DEF PlacesOf
  <2> HIDE DEF I
  <2>4. ListOK(off) /\ PlacesOf(off) = {Place(call[p].items[k]) : k \in I}
    BY <1>5, <2>1, <2>2, PartOK DEF Base
  <2> QED BY <2>3, <2>4
<1>7. /\ call'[p] = Idle /\ \A q \in Procs : q # p => call'[q] = call[q]
      /\ call' \in [Procs -> {Idle, Sleeping} \cup Blocked]
  BY <1>3 DEF Base, Types
<1>8. ~InWait(p)' /\ DirectOK(p)' /\ \A pl \in Places : ~Due(p, pl)'
  BY <1>7 DEF InWait, Due, DirectOK, Idle
<1>9. \A pl \in Places : Due(p, pl) => pl \in PlacesOf(done) \/ pl \in PlacesOf(off)
  BY <1>1, <1>6 DEF Due, Got
<1>10. st' = NewStates(p, woken)
  BY <1>4, <1>8 DEF NewStates
<1>11. Turn(p, done, <<>>, off, o, woken)
  <2> HIDE DEF woken
  <2>1. Exchange(p, done, <<>>, off, woken) /\ woken = Unblocked(done, o)
    BY <1>2 DEF woken
  <2>2. /\ \A pl \in PlacesOf(off) : pl \in abandoned'
        /\ \A pl \in abandoned : pl \in abandoned' \/ \E k \in DOMAIN done : Opposite(done[k]) = pl
    BY <1>3 DEF Abandon
  <2> QED BY <1>0, <1>2, <1>3, <1>4, <1>5, <1>6, <1>7, <1>8, <1>9, <1>10, <2>1, <2>2, EmptyList DEF Turn
<1>12. Resumes(p, done, <<>>, woken)
  BY <1>2, <1>5 DEF Resumes, Overbook
<1> QED BY <1>1, <1>a, <1>11, <1>12

LEMMA AgainProps ==
  ASSUME Base, NEW p \in Procs, Again(p)
  PROVE  \E done, o, woken :
           /\ done = Resumed(p)
           /\ Turn(p, done, <<>>, <<>>, o, woken)
           /\ Resumes(p, done, <<>>, woken)
<1>0. cur = p /\ InWait(p) /\ ~Satisfied(p)
  BY DEF Again
<1>1. PICK done : done = Resumed(p)
  OBVIOUS
<1>2. PICK o \in Lineups(done) :
        /\ Exchange(p, done, <<>>, <<>>, Unblocked(done, o))
        /\ SuspendAfter(p, Unblocked(done, o))
        /\ Overbook(done, Unblocked(done, o))
  BY <1>1 DEF Again
<1> DEFINE woken == Unblocked(done, o)
           c == [call[p] EXCEPT !.got = Got(p)]
<1>3. timer' = timer /\ call' = [call EXCEPT ![p] = c] /\ left' = left /\ Abandon(done, <<>>)
  BY <1>1 DEF Again
<1>4. /\ cur' = "drain"
      /\ st' = [q \in Procs |-> IF q \in ToSet(S!Woken(st, FlattenSeq(woken))) THEN "running"
                                ELSE [st EXCEPT ![p] = "suspended"][q]]
  BY <1>2, SameSched DEF SuspendAfter, S!Wake
<1>5. /\ st[p] = "running" /\ call[p] \in Blocked /\ ListOK(call[p].items)
      /\ ListOK(done)
      /\ \A pl \in Places : pl \in PlacesOf(done) <=> Contains(acting[p], pl)
      /\ \A n \in DOMAIN done : /\ Due(p, Place(done[n])) /\ ~Due(p, Opposite(done[n]))
                                /\ done[n].amt = amount[Place(done[n])][p]
      /\ PlacesOf(done) \subseteq Places
      /\ \A pl \in PlacesOf(done) : Due(p, pl)
  BY <1>0, <1>1, WaitProps
<1>6. call[p].op # "direct"
  <2> SUFFICES ASSUME call[p].op = "direct" PROVE FALSE
    OBVIOUS
  <2>1. PICK i \in Items : call[p] = Waiting("direct", <<i>>, {}, TRUE, FALSE)
    BY DEF Base, StatesOK, StateOK, DirectOK
  <2>2. call[p].every = TRUE /\ done = call[p].items
    BY <1>1, <2>1 DEF Waiting, Resumed
  <2>3. PlacesOf(call[p].items) \subseteq Got(p)
    BY <1>1, <2>2 DEF Got
  <2> QED BY <1>0, <2>2, <2>3 DEF Satisfied, Met
<1>7. /\ c \in Blocked /\ c.op = call[p].op /\ c.items = call[p].items
      /\ c.got = call[p].got \cup PlacesOf(done)
  <2>1. Got(p) = call[p].got \cup PlacesOf(done) /\ Got(p) \in SUBSET Places
    BY <1>1, <1>5 DEF Got, Blocked
  <2> QED BY <1>5, <2>1 DEF Blocked
<1> HIDE DEF c
<1>8. /\ call'[p] = c /\ \A q \in Procs : q # p => call'[q] = call[q]
      /\ call' \in [Procs -> {Idle, Sleeping} \cup Blocked]
  BY <1>3, <1>7 DEF Base, Types
<1>9. /\ InWait(p)' /\ DirectOK(p)'
      /\ \A pl \in Places : Due(p, pl)' <=> Due(p, pl) /\ pl \notin PlacesOf(done)
  BY <1>0, <1>6, <1>7, <1>8 DEF InWait, Due, DirectOK
<1>10. st' = NewStates(p, woken)
  <2>1. \A q \in Procs : [st EXCEPT ![p] = "suspended"][q] = IF q = p THEN "suspended" ELSE st[q]
    BY DEF Base, Types
  <2> QED BY <1>4, <1>9, <2>1 DEF NewStates
<1>11. Turn(p, done, <<>>, <<>>, o, woken)
  <2> HIDE DEF woken
  <2>1. Exchange(p, done, <<>>, <<>>, woken) /\ woken = Unblocked(done, o)
    BY <1>2 DEF woken
  <2>2. \A pl \in abandoned : pl \in abandoned' \/ \E k \in DOMAIN done : Opposite(done[k]) = pl
    BY <1>3 DEF Abandon
  <2> QED BY <1>0, <1>2, <1>3, <1>4, <1>5, <1>6, <1>7, <1>8, <1>9, <1>10, <2>1, <2>2, EmptyList DEF Turn
<1>12. Resumes(p, done, <<>>, woken)
  BY <1>2, <1>5 DEF Resumes, Overbook
<1> QED BY <1>1, <1>11, <1>12

\* Who is woken up.
LEMMA WokenSet ==
  ASSUME Base, NEW done, ListOK(done), NEW o \in Lineups(done), NEW woken, woken = Unblocked(done, o),
         NEW q
  PROVE  q \in ToSet(S!Woken(st, FlattenSeq(woken))) <=>
           /\ \E pl \in Places : q \in Out(done, woken, pl)
           /\ st[q] \in {"started", "suspended"}
<1> DEFINE s == FlattenSeq(woken)
<1>0. BucketAssumption /\ Types /\ Records
  BY DEF Base
<1>1. woken \in Seq(Seq(Procs)) /\ DOMAIN woken = DOMAIN done
  <2>1. \A k \in DOMAIN done : woken[k] \in Seq(Procs)
    BY <1>0, WokenProps
  <2>2. DOMAIN woken = DOMAIN done /\ woken = [k \in DOMAIN done |-> woken[k]]
    BY DEF Unblocked
  <2>3. DOMAIN done = 1..Len(done) /\ Len(done) \in Nat
    BY DEF ListOK
  <2>4. woken \in [1..Len(done) -> Seq(Procs)]
    BY <2>1, <2>2, <2>3
  <2> QED BY <2>2, <2>3, <2>4
<1>2. s \in Seq(Procs) /\ ToSet(s) = UNION {ToSet(woken[k]) : k \in DOMAIN woken}
  BY <1>0, <1>1, FlattenProps DEF BucketAssumption
<1> HIDE DEF s
<1>3. q \in ToSet(s) <=> \E pl \in Places : q \in Out(done, woken, pl)
  <2>1. q \in ToSet(s) <=> \E k \in DOMAIN done : q \in ToSet(woken[k])
    BY <1>1, <1>2
  <2>2. \A k \in DOMAIN done : Opposite(done[k]) \in Places
    BY <1>0, ItemProps
  <2>3. \A pl : q \in Out(done, woken, pl) <=>
          \E k \in DOMAIN done : Opposite(done[k]) = pl /\ q \in ToSet(woken[k])
    BY DEF Out
  <2> QED BY <2>1, <2>2, <2>3
<1>4. SP!ToSet(SP!Woken(st, s)) = {p \in SP!ToSet(s) : st[p] \in SP!Wakeable}
  <2>1. SP!ProcsOK
    BY <1>0 DEF BucketAssumption, S!ProcsOK, SP!ProcsOK, S!NoProc, SP!NoProc, S!IsFiniteSet, SP!IsFiniteSet
  <2>2. st \in [Procs -> SP!States]
    BY <1>0, SameSched DEF Types
  <2> QED BY <1>2, <2>1, <2>2, SP!WokenProps
<1>5. ToSet(S!Woken(st, s)) = {p \in ToSet(s) : st[p] \in SP!Wakeable}
  BY <1>4, SameSched
<1> QED BY <1>3, <1>5 DEF s, SP!Wakeable

\* The states after a turn.
LEMMA TurnStates ==
  ASSUME Base, NEW p \in Procs, NEW done, NEW new, NEW off, NEW o, NEW woken,
         Turn(p, done, new, off, o, woken)
  PROVE  /\ Exchanged(p, done, new, off, woken) /\ Types' /\ Records'
         /\ \A pl \in Places : p \notin Out(done, woken, pl)
         /\ \A pl \in Places, q \in Procs : q \in Out(done, woken, pl) => Due(q, pl) /\ InWait(q)
         /\ st'[p] = IF InWait(p)' THEN "suspended" ELSE "running"
         /\ \A q \in Procs : q # p =>
              /\ (\E pl \in Places : q \in Out(done, woken, pl)) /\ st[q] = "suspended"
                   => st'[q] = "running"
              /\ (\A pl \in Places : q \notin Out(done, woken, pl)) \/ st[q] # "suspended"
                   => st'[q] = st[q]
<1>0. BucketAssumption /\ Types /\ Records
  BY DEF Base
<1>1. /\ ListOK(done) /\ ListOK(new) /\ ListOK(off)
      /\ o \in Lineups(done) /\ woken = Unblocked(done, o)
      /\ Exchange(p, done, new, off, woken) /\ st' = NewStates(p, woken)
      /\ \A k \in DOMAIN new : ~Due(p, Place(new[k]))
      /\ st[p] = "running"
      /\ \A q \in Procs : q # p => call'[q] = call[q]
      /\ call' \in [Procs -> {Idle, Sleeping} \cup Blocked]
  BY DEF Turn
<1>2. Exchanged(p, done, new, off, woken)
  BY <1>0, <1>1, ExchangeProps
<1>3. Records' /\ \A pl \in Places : p \notin Out(done, woken, pl)
  BY <1>0, <1>1, TurnRecords DEF Turn
<1>4. ASSUME NEW pl \in Places, NEW q \in Procs, q \in Out(done, woken, pl)
      PROVE  Due(q, pl) /\ InWait(q) /\ st[q] # "started"
  <2>1. q \in ToSet(queue[pl])
    BY <1>0, <1>1, <1>4, OutProps
  <2>2. Due(q, pl) /\ InWait(q)
    BY <1>0, <2>1 DEF Records, Recorded, Due
  <2> QED BY <2>2 DEF Base, StatesOK, StateOK
<1>5. \A q \in Procs :
        q \in ToSet(S!Woken(st, FlattenSeq(woken))) <=>
          (\E pl \in Places : q \in Out(done, woken, pl)) /\ st[q] = "suspended"
  BY <1>1, <1>4, WokenSet
<1>6. \A q \in Procs : st'[q] = IF q \in ToSet(S!Woken(st, FlattenSeq(woken))) THEN "running"
                                ELSE IF q = p /\ InWait(p)' THEN "suspended" ELSE st[q]
  BY <1>1 DEF NewStates
<1>7. st' \in [Procs -> S!States]
  <2>1. st' = [q \in Procs |-> st'[q]]
    BY <1>1 DEF NewStates
  <2>2. \A q \in Procs : st'[q] \in S!States
    BY <1>0, <1>6 DEF Types, S!States
  <2> QED BY <2>1, <2>2
<1>9. Types'
  BY <1>1, <1>2, <1>7 DEF Types, Exchanged
<1> HIDE DEF NewStates
<1> QED BY <1>1, <1>2, <1>3, <1>4, <1>5, <1>6, <1>9

LEMMA TurnStateOK ==
  ASSUME Base, NEW p \in Procs, NEW done, NEW new, NEW off, NEW o, NEW woken,
         Turn(p, done, new, off, o, woken)
  PROVE  StatesOK'
<1>0. BucketAssumption /\ Types /\ Records /\ StatesOK
  BY DEF Base
<1>d. "drain" \notin Procs
  BY <1>0 DEF BucketAssumption, S!ProcsOK, S!NoProc
<1>1. /\ Exchanged(p, done, new, off, woken)
      /\ \A pl \in Places : p \notin Out(done, woken, pl)
      /\ \A pl \in Places, q \in Procs : q \in Out(done, woken, pl) => Due(q, pl) /\ InWait(q)
      /\ st'[p] = IF InWait(p)' THEN "suspended" ELSE "running"
      /\ \A q \in Procs : q # p =>
           /\ (\E pl \in Places : q \in Out(done, woken, pl)) /\ st[q] = "suspended"
                => st'[q] = "running"
           /\ (\A pl \in Places : q \notin Out(done, woken, pl)) \/ st[q] # "suspended"
                => st'[q] = st[q]
  BY TurnStates
<1>2. /\ cur' = IF InWait(p)' THEN "drain" ELSE p
      /\ left' = left
      /\ \A q \in Procs : q # p => (q \in timer' <=> q \in timer) /\ call'[q] = call[q]
      /\ ~InWait(p)' \/ call'[p].op = "direct" => p \notin timer'
      /\ DirectOK(p)'
  BY DEF Turn
<1>3. ASSUME NEW q \in Procs, q # p PROVE StateOK(q)'
  <2>1. /\ call'[q] = call[q] /\ (InWait(q)' <=> InWait(q)) /\ (DirectOK(q)' <=> DirectOK(q))
        /\ (q \in timer' <=> q \in timer) /\ q # cur'
    BY <1>2, <1>3, <1>d DEF InWait, DirectOK
  <2>2. StateOK(q)
    BY <1>0 DEF StatesOK
  <2>3. \A pl \in Places : Contains(acting'[q], pl) <=>
                             Contains(acting[q], pl) \/ q \in Out(done, woken, pl)
    BY <1>1, <1>3 DEF Exchanged
  <2>4. \/ st'[q] = st[q] /\ (\A pl \in Places : q \notin Out(done, woken, pl))
        \/ st'[q] = st[q] /\ st[q] # "suspended"
        \/ /\ st'[q] = "running" /\ st[q] = "suspended" /\ InWait(q)
           /\ \E pl \in Places : q \in Out(done, woken, pl)
    BY <1>1, <1>3
  <2>5. InWait(q)' => /\ st'[q] \in {"running", "suspended", "terminated"}
                      /\ q = cur' => st'[q] = "running"
                      /\ st'[q] = "terminated" => PlacesOf(call'[q].items) \subseteq left'
    BY <1>2, <2>1, <2>2, <2>4 DEF StateOK
  <2>6. S!Live(q)' /\ (\E pl \in Places : Contains(acting'[q], pl)) => st'[q] = "running"
    <3> SUFFICES ASSUME S!Live(q)', NEW pl \in Places, Contains(acting'[q], pl)
                 PROVE  st'[q] = "running"
      OBVIOUS
    <3>1. CASE q \in Out(done, woken, pl)
      <4>1. st[q] \in {"running", "suspended", "terminated"}
        BY <1>1, <2>2, <3>1 DEF StateOK
      <4> QED BY <2>4, <3>1, <4>1 DEF S!Live
    <3>2. CASE q \notin Out(done, woken, pl)
      <4>1. Contains(acting[q], pl)
        BY <2>3, <3>2
      <4>2. S!Live(q) \/ st'[q] = "running"
        BY <2>4 DEF S!Live
      <4> QED BY <2>2, <2>4, <4>1, <4>2 DEF StateOK
    <3> QED BY <3>1, <3>2
  <2>7. st'[q] = "running" /\ ~InWait(q)' => q \notin timer'
    BY <2>1, <2>2, <2>4 DEF StateOK
  <2>8. call'[q].op = "direct" =>
          /\ q \notin timer'
          /\ st'[q] = "running" => Contains(acting'[q], Place(call'[q].items[1]))
    <3> SUFFICES ASSUME call[q].op = "direct"
                 PROVE  /\ q \notin timer
                        /\ st'[q] = "running" => Contains(acting'[q], Place(call[q].items[1]))
      BY <2>1
    <3>1. PICK i \in Items : call[q] = Waiting("direct", <<i>>, {}, TRUE, FALSE)
      BY <2>2 DEF StateOK, DirectOK
    <3>2. call[q].items = <<i>>
      BY <3>1 DEF Waiting
    <3>3. \A pl \in Places : q \in Out(done, woken, pl) => pl = Place(i)
      <4>1. PlacesOf(<<i>>) = {Place(i)}
        <5>1. DOMAIN <<i>> = {1} /\ <<i>>[1] = i
          OBVIOUS
        <5> QED BY <5>1 DEF PlacesOf
      <4> QED BY <1>1, <3>2, <4>1 DEF Due
    <3>4. Place(i) \in Places
      <4>1. IsItem(i)
        BY <1>0 DEF BucketAssumption
      <4> QED BY <4>1 DEF IsItem, Place, Places
    <3>5. call[q].items[1] = i
      BY <3>2
    <3>6. st[q] = "running" => Contains(acting[q], Place(i))
      BY <2>2, <3>5 DEF StateOK
    <3>7. st'[q] = "running" => Contains(acting'[q], Place(i))
      BY <2>3, <2>4, <3>3, <3>4, <3>6
    <3> QED BY <2>2, <3>5, <3>7 DEF StateOK
  <2> QED BY <2>1, <2>2, <2>5, <2>6, <2>7, <2>8 DEF StateOK
<1>4. StateOK(p)'
  <2>1. \A pl \in Places : ~Contains(acting'[p], pl)
    BY <1>1 DEF Exchanged, Contains
  <2>2. CASE InWait(p)'
    <3>1. st'[p] = "suspended" /\ cur' # p
      BY <1>1, <1>2, <1>d, <2>2
    <3> QED BY <1>2, <2>1, <2>2, <3>1 DEF StateOK
  <2>3. CASE ~InWait(p)'
    <3>1. st'[p] = "running" /\ call'[p].op # "direct" /\ p \notin timer'
      BY <1>1, <1>2, <2>3 DEF InWait
    <3> QED BY <1>2, <2>1, <2>3, <3>1 DEF StateOK
  <2> QED BY <2>2, <2>3
<1> QED BY <1>3, <1>4 DEF StatesOK

-----------------------------------------------------------------------------
(* What has been promised *)

\* The live processes that were unblocked at pl and are still to resume, and the
\* sum of their amounts.
Credited(pl) == {q \in Procs : S!Live(q) /\ Contains(acting[q], pl)}
Claim(pl) == Sum(amount[pl], Credited(pl))

\* What is promised can be kept.
Backed == \A b \in Buckets \ barged, side \in Sides : Fits(b, level[b], side, Claim(<<b, side>>))

\* What is not promised is not enough for the next in the queue.
HeadTooBig ==
  \A pl \in Places \ (left \cup abandoned) : queue[pl] # <<>> =>
    \E o \in Orders(pl) : ~Fits(pl[1], level[pl[1]], pl[2], Claim(pl) + amount[pl][o[1]])

IInv == Base /\ Backed /\ HeadTooBig

LEMMA ClaimProps ==
  ASSUME Base, NEW pl \in Places
  PROVE  /\ \A q \in Credited(pl) : Due(q, pl) /\ q \in Procs /\ q \in DOMAIN amount[pl]
         /\ Summable(amount[pl], Credited(pl)) /\ Claim(pl) \in Nat
         /\ Credited(pl) = {} => Claim(pl) = 0
<1>1. ASSUME NEW q \in Credited(pl) PROVE q \in Procs /\ Due(q, pl) /\ q \in DOMAIN amount[pl]
  BY DEF Credited, Base, Records, Recorded
<1>2. Credited(pl) \in SUBSET {q \in Procs : Due(q, pl)}
  BY <1>1
<1>3. Summable(amount[pl], Credited(pl))
  BY <1>2, QueueProps DEF Base
<1>4. Claim(pl) \in Nat
  BY <1>3, SumType DEF Claim
<1>5. Credited(pl) = {} => Claim(pl) = 0
  BY SumNone DEF Claim
<1> QED BY <1>1, <1>3, <1>4, <1>5

\* How an exchange changes what is promised at a place.
LEMMA ClaimTurn ==
  ASSUME Base, NEW p \in Procs, NEW done, NEW new, NEW off, NEW o, NEW woken,
         Turn(p, done, new, off, o, woken), NEW pl \in Places
  PROVE  LET got == Sum(amount[pl], {q \in Out(done, woken, pl) : S!Live(q)})
         IN /\ Claim(pl) \in Nat /\ Claim(pl)' \in Nat /\ got \in Nat
            /\ Contains(acting[p], pl) =>
                 amount[pl][p] \in Nat /\ Claim(pl)' + amount[pl][p] = Claim(pl) + got
            /\ ~Contains(acting[p], pl) => Claim(pl)' = Claim(pl) + got
            /\ Summable(amount[pl], Out(done, woken, pl))
            /\ Out(done, woken, pl) = {} => got = 0
<1> DEFINE O == Out(done, woken, pl)
           L == {q \in O : S!Live(q)}
           C == Credited(pl) \ {p}
           am == amount[pl]
           new_ == amount'[pl]
           after == Credited(pl)'
<1>0. BucketAssumption /\ Types /\ Records /\ StatesOK
  BY DEF Base
<1>1. /\ Exchanged(p, done, new, off, woken)
      /\ \A x \in Places : p \notin Out(done, woken, x)
      /\ \A q \in Procs : q \in O => Due(q, pl)
      /\ st'[p] = IF InWait(p)' THEN "suspended" ELSE "running"
      /\ \A q \in Procs : q # p =>
           /\ (\E x \in Places : q \in Out(done, woken, x)) /\ st[q] = "suspended"
                => st'[q] = "running"
           /\ (\A x \in Places : q \notin Out(done, woken, x)) \/ st[q] # "suspended"
                => st'[q] = st[q]
      /\ Records'
  BY TurnStates
<1>2. /\ ListOK(done) /\ o \in Lineups(done) /\ woken = Unblocked(done, o) /\ st[p] = "running"
  BY DEF Turn
<1>3. \A q \in O : q \in ToSet(queue[pl]) /\ q \in Procs
  BY <1>0, <1>2, OutProps, QueueProps
<1>4. \A q \in Procs : S!Live(q)' <=> S!Live(q)
  BY <1>1, <1>2 DEF S!Live
<1>5. /\ \A q \in Procs : q # p => (Contains(acting'[q], pl) <=> Contains(acting[q], pl) \/ q \in O)
      /\ ~Contains(acting'[p], pl)
  BY <1>1 DEF Exchanged, Contains
<1>6. p \notin O
  BY <1>1
<1>7. after = C \cup L
  <2>1. after = {q \in Procs : S!Live(q)' /\ Contains(acting'[q], pl)}
    BY DEF Credited
  <2> HIDE DEF O
  <2> QED BY <1>3, <1>4, <1>5, <1>6, <2>1 DEF Credited
<1>8. C \cap L = {}
  <2>1. \A q \in L : ~Contains(acting[q], pl)
    BY <1>0, <1>3 DEF Records, Recorded
  <2> QED BY <2>1 DEF Credited
<1>9. Summable(am, Credited(pl)) /\ Claim(pl) \in Nat /\ \A q \in Credited(pl) : Due(q, pl) /\ q \in Procs
  BY ClaimProps
<1>10. Summable(am, O)
  <2>1. O \in SUBSET {q \in Procs : Due(q, pl)}
    BY <1>1, <1>3
  <2> HIDE DEF O, am
  <2> QED BY <1>0, <2>1, QueueProps DEF am
<1> HIDE DEF O
<1>11. Summable(am, L) /\ Sum(am, L) \in Nat
  <2>1. L \in SUBSET O
    OBVIOUS
  <2>2. Summable(am, L)
    <3> HIDE DEF am, L
    <3> QED BY <1>10, <2>1, SumLess
  <2> HIDE DEF am, L
  <2> QED BY <2>2, SumType
<1>12. Summable(am, C) /\ Sum(am, C) \in Nat
  <2>1. C \in SUBSET Credited(pl)
    OBVIOUS
  <2>2. Summable(am, C)
    <3> HIDE DEF am, C
    <3> QED BY <1>9, <2>1, SumLess
  <2> HIDE DEF am, C
  <2> QED BY <2>2, SumType
<1>13. Claim(pl)' = Sum(am, C) + Sum(am, L)
  <2>1. \A q \in C \cup L : new_[q] = am[q]
    <3> SUFFICES ASSUME NEW q \in C \cup L PROVE new_[q] = am[q]
      OBVIOUS
    <3>1. q # p /\ q \in Procs /\ Due(q, pl)
      BY <1>1, <1>3, <1>6, <1>9
    <3>2. q \in DOMAIN amount[pl]
      BY <1>0, <3>1 DEF Records, Recorded
    <3>3. q \in DOMAIN amount'[pl]
      BY <1>1, <3>1, <3>2 DEF Exchanged
    <3> QED BY <1>1, <3>1, <3>3 DEF Exchanged
  <2>2. Claim(pl)' = Sum(new_, after)
    BY DEF Claim
  <2> HIDE DEF new_, am, C, L, after
  <2>3. Claim(pl)' = Sum(am, C \cup L)
    BY <1>7, <2>1, <2>2, SumSame
  <2> QED BY <1>8, <1>11, <1>12, <2>3, SumJoin
<1>14. CASE Contains(acting[p], pl)
  <2>1. p \in Credited(pl) /\ am[p] \in Nat
    BY <1>2, <1>9, <1>14 DEF Credited, Summable, S!Live
  <2>2. Credited(pl) = C \cup {p} /\ C \cap {p} = {}
    BY <2>1
  <2> HIDE DEF am, C, L
  <2>3. Summable(am, {p}) /\ Sum(am, {p}) = am[p]
    BY <2>1, SumOne, FS_Singleton DEF Summable
  <2>4. Claim(pl) = Sum(am, C) + am[p]
    <3>1. Sum(am, C \cup {p}) = Sum(am, C) + Sum(am, {p})
      BY <1>12, <2>2, <2>3, SumJoin
    <3>2. Claim(pl) = Sum(am, Credited(pl))
      BY DEF Claim, am
    <3> QED BY <2>2, <2>3, <3>1, <3>2
  <2>5. Claim(pl)' + am[p] = Claim(pl) + Sum(am, L) /\ Claim(pl)' \in Nat
    BY <1>11, <1>12, <1>13, <2>1, <2>4
  <2>6. O = {} => Sum(am, L) = 0
    <3>1. O = {} => L = {}
      BY DEF L
    <3> QED BY <3>1, SumNone
  <2> QED BY <1>9, <1>10, <1>11, <1>14, <2>1, <2>5, <2>6 DEF am, L, O
<1>15. CASE ~Contains(acting[p], pl)
  <2>1. C = Credited(pl)
    BY <1>15 DEF Credited
  <2> HIDE DEF am, C, L
  <2>2. Claim(pl) = Sum(am, C)
    BY <2>1 DEF Claim, am
  <2>3. Claim(pl)' = Claim(pl) + Sum(am, L) /\ Claim(pl)' \in Nat
    BY <1>11, <1>12, <1>13, <2>2
  <2>4. O = {} => Sum(am, L) = 0
    <3>1. O = {} => L = {}
      BY DEF L
    <3> QED BY <3>1, SumNone
  <2> QED BY <1>9, <1>10, <1>11, <1>15, <2>3, <2>4 DEF am, L, O
<1> QED BY <1>14, <1>15

\* What fits, and what does not, after an amount is got or put.
LEMMA FitsProps ==
  ASSUME NEW b, Capacity[b] \in Nat, NEW side \in Sides, NEW lvl \in Int, NEW a \in Nat, NEW x \in Nat
  PROVE  /\ Fits(b, After(lvl, side, a), side, x) <=> Fits(b, lvl, side, x + a)
         /\ Fits(b, lvl, Other(side), x) => Fits(b, After(lvl, side, a), Other(side), x)
         /\ \A y \in Nat : y <= x /\ Fits(b, lvl, side, x) => Fits(b, lvl, side, y)
BY DEF Fits, After, Other, Sides

\* Promises are kept by a step in which a process gets or puts something.
LEMMA TurnBacked ==
  ASSUME Base, Backed, NEW p \in Procs, NEW done, NEW new, NEW off, NEW o, NEW woken,
         Turn(p, done, new, off, o, woken),
         Fresh(p, done, new, woken) \/ Resumes(p, done, new, woken)
  PROVE  Backed'
<1> SUFFICES ASSUME NEW b \in Buckets, b \notin barged', NEW side \in Sides
             PROVE  Fits(b, level'[b], side, Claim(<<b, side>>)')
  BY DEF Backed
<1> DEFINE pl == <<b, side>>
           L == {q \in Out(done, woken, pl) : S!Live(q)}
           sum == Sum(amount[pl], L)
<1>0. BucketAssumption /\ Types /\ Records
  BY DEF Base
<1>1. pl \in Places /\ pl[1] = b /\ pl[2] = side /\ Capacity[b] \in Nat /\ level[b] \in Int
      /\ Other(side) \in Sides /\ Other(Other(side)) = side
  <2>1. pl \in Places /\ level[b] \in Int
    BY <1>0 DEF Places, Types
  <2>2. Capacity[pl[1]] \in Nat
    BY <1>0, <2>1, QueueProps
  <2> QED BY <2>1, <2>2, OtherProps
<1>2. /\ ListOK(done) /\ o \in Lineups(done) /\ woken = Unblocked(done, o)
      /\ Exchanged(p, done, new, off, woken)
      /\ \A q \in Procs, x \in Places : q \in Out(done, woken, x) => q # p
  BY TurnStates DEF Turn
<1>3. /\ Claim(pl) \in Nat /\ Claim(pl)' \in Nat /\ sum \in Nat
      /\ Contains(acting[p], pl) =>
           amount[pl][p] \in Nat /\ Claim(pl)' + amount[pl][p] = Claim(pl) + sum
      /\ ~Contains(acting[p], pl) => Claim(pl)' = Claim(pl) + sum
      /\ Summable(amount[pl], Out(done, woken, pl))
      /\ Out(done, woken, pl) = {} => sum = 0
  <2> HIDE DEF pl
  <2> QED BY <1>1, ClaimTurn
<1>4. b \notin barged /\ Fits(b, level[b], side, Claim(pl))
      /\ Fits(b, level[b], Other(side), Claim(<<b, Other(side)>>))
  <2>1. b \notin barged
    BY DEF Fresh, Resumes
  <2> QED BY <1>1, <2>1 DEF Backed
<1>5. ASSUME \A k \in DOMAIN done : Opposite(done[k]) # pl
      PROVE  Out(done, woken, pl) = {} /\ sum = 0
  <2>1. Out(done, woken, pl) = {}
    <3> HIDE DEF pl
    <3> QED BY <1>5 DEF Out
  <2> QED BY <1>3, <2>1
<1>6. Credited(pl) = {} => Claim(pl) = 0
  <2> HIDE DEF pl
  <2> QED BY <1>1, ClaimProps
<1>7. b \notin Promised => Credited(pl) = {} /\ ~Contains(acting[p], pl)
  <2> SUFFICES ASSUME b \notin Promised PROVE Credited(pl) = {} /\ ~Contains(acting[p], pl)
    OBVIOUS
  <2>1. pl \notin PromisedAt
    BY <1>1 DEF Promised
  <2>2. S!Live(p)
    BY DEF Turn, S!Live
  <2> HIDE DEF pl
  <2> QED BY <1>1, <2>1, <2>2 DEF PromisedAt, Credited
<1>8. CASE \A k \in DOMAIN done : done[k].b # b
  <2>1. level'[b] = level[b]
    BY <1>2, <1>8 DEF Exchanged
  <2>2. sum = 0
    <3>1. \A k \in DOMAIN done : Opposite(done[k]) # pl
      BY <1>8 DEF Opposite
    <3> QED BY <1>5, <3>1
  <2> HIDE DEF pl, sum
  <2>3. Claim(pl)' <= Claim(pl)
    BY <1>3, <2>2
  <2>4. Fits(b, level[b], side, Claim(pl)')
    BY <1>1, <1>3, <1>4, <2>3, FitsProps
  <2> QED BY <2>1, <2>4 DEF pl
<1>9. ASSUME NEW k \in DOMAIN done, done[k].b = b
      PROVE  Fits(b, level'[b], side, Claim(pl)')
  <2> DEFINE i == done[k]
  <2>1. /\ i.side \in Sides /\ i.amt \in Nat /\ Opposite(i) \in Places
        /\ Place(i) = <<b, i.side>> /\ Opposite(i) = <<b, Other(i.side)>>
        /\ \A l \in DOMAIN done : Opposite(done[l]) = Opposite(i) => l = k
        /\ \A l \in DOMAIN done : Opposite(done[l]) # Place(i)
        /\ Place(i) \in PlacesOf(done)
    BY <1>0, <1>2, <1>9, ItemProps
  <2>2. level'[b] = After(level[b], i.side, i.amt) /\ level'[b] \in Int
    BY <1>2, <1>9 DEF Exchanged
  <2>3. b \in Promised => ~Fresh(p, done, new, woken)
    BY <1>9 DEF Fresh
  <2>4. CASE side = i.side
    <3>1. sum = 0
      BY <1>5, <2>1, <2>4
    <3>2. CASE Resumes(p, done, new, woken)
      <4>1. Contains(acting[p], pl) /\ i.amt = amount[pl][p]
        BY <1>1, <2>1, <2>4, <3>2 DEF Resumes
      <4> HIDE DEF pl, sum, i
      <4>2. Claim(pl)' + i.amt = Claim(pl)
        BY <1>3, <3>1, <4>1
      <4> QED BY <1>1, <1>3, <1>4, <2>1, <2>2, <2>4, <4>2, FitsProps
    <3>3. CASE Fresh(p, done, new, woken)
      <4>1. Claim(pl)' = 0
        <5>1. Claim(pl) = 0 /\ ~Contains(acting[p], pl)
          BY <1>6, <1>7, <2>3, <3>3
        <5> HIDE DEF pl, sum, i
        <5> QED BY <1>3, <3>1, <5>1
      <4>2. Fits(b, level[b], i.side, 0 + i.amt)
        <5>1. Fits(b, level[b], i.side, i.amt)
          BY <1>9, <3>3 DEF Fresh, FitsNow
        <5> QED BY <2>1, <5>1
      <4> HIDE DEF pl, sum, i
      <4>3. Fits(b, After(level[b], i.side, i.amt), i.side, 0)
        BY <1>1, <2>1, <4>2, FitsProps
      <4> QED BY <2>2, <2>4, <4>1, <4>3
    <3> QED BY <3>2, <3>3
  <2>5. CASE side # i.side
    <3>1. side = Other(i.side) /\ pl = Opposite(i)
      BY <2>1, <2>5 DEF Sides, Other
    <3>2. ~Contains(acting[p], pl)
      <4>1. ~Due(p, Opposite(i))
        BY DEF Turn
      <4> QED BY <1>0, <2>1, <3>1, <4>1 DEF Records, Recorded
    <3>3. Fits(b, level'[b], side, Claim(pl))
      <4> HIDE DEF pl, sum, i
      <4> QED BY <1>1, <1>3, <1>4, <2>1, <2>2, <3>1, FitsProps
    <3>4. Out(done, woken, pl) = ToSet(woken[k])
      <4> HIDE DEF pl
      <4> QED BY <2>1, <3>1 DEF Out
    <3>5. CASE woken[k] = <<>>
      <4>1. Out(done, woken, pl) = {}
        <5>1. ToSet(<<>>) = {}
          BY DEF ToSet
        <5> QED BY <3>4, <3>5, <5>1
      <4>2. Claim(pl)' = Claim(pl)
        <5> HIDE DEF pl, sum, i
        <5> QED BY <1>3, <3>2, <4>1
      <4> QED BY <3>3, <4>2
    <3>6. CASE woken[k] # <<>>
      <4> DEFINE n == Unblockable(pl, o[k], level'[b])
                 am == amount[pl]
      <4>1. /\ n \in 0..Len(o[k]) /\ woken[k] = SubSeq(o[k], 1, n)
            /\ ToSet(woken[k]) = First(o[k], n)
            /\ o[k] \in Seq(Procs) /\ IsInjective(o[k]) /\ ToSet(o[k]) = ToSet(queue[pl])
        <5> DEFINE m == Unblockable(Opposite(done[k]), o[k],
                                    After(level[done[k].b], done[k].side, done[k].amt))
        <5>1. n = m
          BY <1>9, <2>2, <3>1
        <5>2. /\ m \in 0..Len(o[k]) /\ woken[k] = SubSeq(o[k], 1, m)
              /\ ToSet(woken[k]) = First(o[k], m)
              /\ o[k] \in Seq(Procs) /\ IsInjective(o[k])
              /\ ToSet(o[k]) = ToSet(queue[Opposite(done[k])])
          BY <1>0, <1>2, WokenProps
        <5> HIDE DEF n, m
        <5> QED BY <3>1, <5>1, <5>2
      <4>2. n > 0
        <5> HIDE DEF n
        <5>1. SubSeq(o[k], 1, 0) = <<>>
          BY <4>1
        <5>2. n # 0
          BY <3>6, <4>1, <5>1
        <5>3. n \in Nat
          BY <4>1
        <5> QED BY <5>2, <5>3
      <4>3. Fits(b, level'[b], side, Sum(am, First(o[k], n)))
        <5>1. Summable(am, ToSet(o[k]))
          <6> HIDE DEF pl
          <6> QED BY <1>0, <1>1, <4>1, QueueProps DEF am
        <5> HIDE DEF pl
        <5> QED BY <1>1, <2>2, <4>1, <4>2, <5>1, UnblockableProps
      <4>4. Claim(pl) = 0
        <5>1. Credited(pl) = {}
          <6>1. CASE Fresh(p, done, new, woken)
            BY <1>7, <2>3, <6>1
          <6>2. CASE Resumes(p, done, new, woken)
            <7>1. pl \notin PromisedAt
              BY <1>9, <3>1, <3>6, <6>2 DEF Resumes
            <7> HIDE DEF pl
            <7> QED BY <1>1, <7>1 DEF PromisedAt, Credited
          <6> QED BY <6>1, <6>2
        <5> QED BY <1>6, <5>1
      <4>5. sum <= Sum(am, First(o[k], n))
        <5>1. L \in SUBSET Out(done, woken, pl)
          OBVIOUS
        <5> HIDE DEF pl, L, n
        <5>2. Sum(am, L) <= Sum(am, Out(done, woken, pl))
          <6>1. Summable(am, Out(done, woken, pl))
            BY <1>3 DEF am
          <6> HIDE DEF am
          <6> QED BY <5>1, <6>1, SumLess
        <5> QED BY <3>4, <4>1, <5>2 DEF sum
      <4>6. Sum(am, First(o[k], n)) \in Nat
        <5>1. Summable(am, First(o[k], n))
          BY <1>3, <3>4, <4>1
        <5> HIDE DEF am, n
        <5> QED BY <5>1, SumType
      <4> DEFINE all == Sum(am, First(o[k], n))
      <4>7. all \in Nat /\ sum <= all /\ Fits(b, level'[b], side, all)
        BY <4>3, <4>5, <4>6
      <4> HIDE DEF pl, sum, i, n, am, all
      <4>8. Claim(pl)' = sum
        BY <1>3, <3>2, <4>4
      <4> QED BY <1>1, <1>3, <2>2, <4>7, <4>8, FitsProps
    <3> QED BY <3>5, <3>6
  <2> QED BY <2>4, <2>5
<1> QED BY <1>8, <1>9

\* Those of a queue who stay in it.
Stay(q, gone) == S!AtPlaces(q, {n \in DOMAIN q : q[n] \notin gone})

\* The queue after an exchange, where no one that was in it withdraws.
LEMMA QueueTurn ==
  ASSUME Base, NEW p \in Procs, NEW done, NEW new, NEW off, NEW o, NEW woken,
         Turn(p, done, new, off, o, woken), NEW pl \in Places,
         ~(Due(p, pl) /\ pl \in PlacesOf(off))
  PROVE  /\ pl \notin PlacesOf(new) => queue'[pl] = Stay(queue[pl], Out(done, woken, pl))
         /\ Out(done, woken, pl) = {} /\ pl \in PlacesOf(new) => queue'[pl] = Append(queue[pl], p)
         /\ Out(done, woken, pl) = {} /\ pl \notin PlacesOf(new) => queue'[pl] = queue[pl]
<1> DEFINE rest(gone) == S!AtPlaces(queue[pl], {n \in DOMAIN queue[pl] : queue[pl][n] \notin gone})
           out == Out(done, woken, pl)
<1>1. queue'[pl] = IF pl \in PlacesOf(new) THEN Append(rest(out), p) ELSE rest(out)
  <2> DEFINE gone == IF pl \in PlacesOf(off) THEN out \cup {p} ELSE out
  <2>1. queue'[pl] = IF pl \in PlacesOf(new) THEN Append(rest(gone), p) ELSE rest(gone)
    BY DEF Turn, Exchange, Out
  <2>2. pl \in PlacesOf(off) => \A n \in DOMAIN queue[pl] : queue[pl][n] # p
    <3>1. ~Due(p, pl) => p \notin ToSet(queue[pl])
      BY DEF Base, Records, Recorded
    <3> QED BY <3>1 DEF ToSet
  <2>3. {n \in DOMAIN queue[pl] : queue[pl][n] \notin gone} =
          {n \in DOMAIN queue[pl] : queue[pl][n] \notin out}
    <3> HIDE DEF out
    <3> QED BY <2>2
  <2> HIDE DEF gone, out
  <2> QED BY <2>1, <2>3
<1>2. rest({}) = queue[pl]
  <2>1. queue[pl] \in Seq(Procs)
    BY DEF Base, Types
  <2>2. Len(queue[pl]) \in 0..Len(queue[pl])
    BY <2>1
  <2>3. S!AtPlaces(queue[pl], 1..Len(queue[pl])) = SubSeq(queue[pl], 1, Len(queue[pl]))
    BY <2>1, <2>2, CutProps
  <2>4. SubSeq(queue[pl], 1, Len(queue[pl])) = queue[pl]
    BY <2>1
  <2>5. {n \in DOMAIN queue[pl] : queue[pl][n] \notin {}} = 1..Len(queue[pl])
    BY <2>1
  <2> QED BY <2>3, <2>4, <2>5
<1> HIDE DEF out, rest
<1>3. /\ pl \notin PlacesOf(new) => queue'[pl] = rest(out)
      /\ out = {} /\ pl \in PlacesOf(new) => queue'[pl] = Append(queue[pl], p)
      /\ out = {} /\ pl \notin PlacesOf(new) => queue'[pl] = queue[pl]
  BY <1>1, <1>2
<1>4. Stay(queue[pl], out) = rest(out)
  BY DEF Stay, rest
<1> QED BY <1>3, <1>4 DEF out

\* An empty queue has an order.
LEMMA NoneOrder ==
  ASSUME NEW d \in Disciplines
  PROVE  <<>> \in OrdersOf(d, <<>>)
<1>1. <<>> \in SetToSeqs(ToSet(<<>>))
  <2>1. <<>> \in Seq(Procs) /\ IsInjective(<<>>)
    BY DEF IsInjective
  <2> QED BY <2>1, SetOfSeqs
<1>2. Reverse(<<>>) = <<>>
  <2>1. <<>> \in Seq(Procs)
    OBVIOUS
  <2>2. Reverse(<<>>) \in Seq(Procs) /\ Len(Reverse(<<>>)) = Len(<<>>)
    BY <2>1, ReverseProps
  <2> QED BY <2>2
<1>3. CASE d = "FIFO"
  BY <1>3 DEF OrdersOf
<1>4. CASE d = "LIFO"
  BY <1>2, <1>4 DEF OrdersOf
<1>5. CASE d = "SIRO"
  BY <1>1, <1>5 DEF OrdersOf
<1>6. CASE d = "PRIORITY"
  <2>1. OrdersOf(d, <<>>) = {o \in SetToSeqs(ToSet(<<>>)) :
                               \A i, j \in DOMAIN o : i < j => Prio[o[i]] <= Prio[o[j]]}
    BY <1>6 DEF OrdersOf
  <2>2. \A i, j \in DOMAIN <<>> : i < j => Prio[<<>>[i]] <= Prio[<<>>[j]]
    OBVIOUS
  <2> QED BY <1>1, <2>1, <2>2, Zenon
<1> QED BY <1>3, <1>4, <1>5, <1>6 DEF Disciplines

\* What is not promised is not enough for the next in a queue, after a step in
\* which a process gets or puts something.
HeadFits(pl, o) == Fits(pl[1], level[pl[1]], pl[2], Claim(pl) + amount[pl][o[1]])

LEMMA TurnHead ==
  ASSUME Base, HeadTooBig, NEW p \in Procs, NEW done, NEW new, NEW off, NEW o, NEW woken,
         Turn(p, done, new, off, o, woken),
         Fresh(p, done, new, woken) \/ Resumes(p, done, new, woken)
  PROVE  HeadTooBig'
<1> SUFFICES ASSUME NEW pl \in Places, pl \notin left', pl \notin abandoned', queue'[pl] # <<>>
             PROVE  \E e \in OrdersOf(Qdis[pl], queue'[pl]) :
                      ~Fits(pl[1], level'[pl[1]], pl[2], Claim(pl)' + amount'[pl][e[1]])
  BY DEF HeadTooBig, Orders
<1> DEFINE b == pl[1]
           side == pl[2]
           d == Qdis[pl]
           q == queue[pl]
           out == Out(done, woken, pl)
           sum == Sum(amount[pl], {r \in out : S!Live(r)})
<1>0. BucketAssumption /\ Types /\ Records /\ StatesOK
  BY DEF Base
<1>1. /\ q \in Seq(Procs) /\ IsInjective(q) /\ \A r \in ToSet(q) : r \in Procs
      /\ \A r \in Procs : Due(r, pl) => amount[pl][r] \in Nat
      /\ Summable(amount[pl], ToSet(q)) /\ d \in Disciplines
      /\ b \in Buckets /\ side \in Sides /\ Capacity[b] \in Nat /\ level[b] \in Int
      /\ pl = <<b, side>> /\ Other(side) \in Sides /\ Other(Other(side)) = side
  <2>1. /\ queue[pl] \in Seq(Procs) /\ IsInjective(queue[pl])
        /\ \A r \in ToSet(queue[pl]) : r \in Procs
        /\ \A r \in Procs : Due(r, pl) => amount[pl][r] \in Nat
        /\ Summable(amount[pl], ToSet(queue[pl]))
        /\ pl[1] \in Buckets /\ pl[2] \in Sides /\ Capacity[pl[1]] \in Nat
        /\ Qdis[pl] \in Disciplines
    BY <1>0, QueueProps
  <2>2. level[pl[1]] \in Int /\ pl = <<pl[1], pl[2]>>
    BY <1>0, <2>1 DEF Types, Places
  <2>3. Other(pl[2]) \in Sides /\ Other(Other(pl[2])) = pl[2]
    BY <2>1, OtherProps
  <2> QED BY <2>1, <2>2, <2>3
<1>2. /\ ListOK(done) /\ ListOK(new) /\ o \in Lineups(done) /\ woken = Unblocked(done, o)
      /\ Exchanged(p, done, new, off, woken) /\ Records'
      /\ \A x \in Places : p \notin Out(done, woken, x)
      /\ \A x \in Places, r \in Procs : r \in Out(done, woken, x) => Due(r, x) /\ InWait(r)
  BY TurnStates DEF Turn
<1>3. /\ pl \notin left /\ ~(Due(p, pl) /\ pl \in PlacesOf(off))
      /\ (\A k \in DOMAIN done : Opposite(done[k]) # pl) => pl \notin abandoned
  BY DEF Turn
<1>4. /\ Claim(pl) \in Nat /\ Claim(pl)' \in Nat /\ sum \in Nat
      /\ Contains(acting[p], pl) =>
           amount[pl][p] \in Nat /\ Claim(pl)' + amount[pl][p] = Claim(pl) + sum
      /\ ~Contains(acting[p], pl) => Claim(pl)' = Claim(pl) + sum
      /\ Summable(amount[pl], out)
      /\ out = {} => sum = 0
  BY ClaimTurn
<1>5. ASSUME NEW r \in ToSet(q), r \in ToSet(queue'[pl]), ~(r = p /\ pl \in PlacesOf(new))
      PROVE  amount'[pl][r] = amount[pl][r] /\ amount[pl][r] \in Nat
  <2>1. r \in Procs /\ Due(r, pl)
    BY <1>0, <1>1 DEF Records, Recorded
  <2>2. r \in DOMAIN amount'[pl]
    BY <1>2, <1>5, <2>1 DEF Records, Recorded
  <2> QED BY <1>1, <1>2, <1>5, <2>1, <2>2 DEF Exchanged
<1>6. q # <<>> /\ pl \notin abandoned => \E e \in OrdersOf(d, q) : ~HeadFits(pl, e)
  BY <1>3 DEF HeadTooBig, Orders, HeadFits
<1>7. ASSUME NEW e \in OrdersOf(d, q), q # <<>> PROVE e[1] \in ToSet(q)
  <2>1. ToSet(e) = ToSet(q) /\ Len(e) = Len(q) /\ e \in Seq(Procs)
    BY <1>1, OrderProps
  <2>2. 1 \in DOMAIN e
    BY <1>1, <1>7, <2>1
  <2> QED BY <2>1, <2>2 DEF ToSet
<1>8. /\ Contains(acting[p], pl) => Due(p, pl) /\ pl \in PlacesOf(done)
      /\ Due(p, pl) => pl \notin PlacesOf(new)
  <2>1. Contains(acting[p], pl) => Due(p, pl)
    BY <1>0 DEF Records, Recorded
  <2>2. Due(p, pl) /\ Contains(acting[p], pl) => pl \in PlacesOf(done)
    BY DEF Turn
  <2>3. Due(p, pl) => pl \notin PlacesOf(new)
    BY PlaceItem DEF Turn
  <2> QED BY <2>1, <2>2, <2>3
<1>9. ASSUME \A k \in DOMAIN done : Opposite(done[k]) # pl
      PROVE  /\ out = {} /\ sum = 0
             /\ pl \in PlacesOf(new) => queue'[pl] = Append(q, p)
             /\ pl \notin PlacesOf(new) => queue'[pl] = q
  <2>1. out = {}
    BY <1>9 DEF Out
  <2>2. /\ out = {} /\ pl \in PlacesOf(new) => queue'[pl] = Append(q, p)
        /\ out = {} /\ pl \notin PlacesOf(new) => queue'[pl] = q
    BY <1>3, QueueTurn
  <2> HIDE DEF out, sum, q
  <2> QED BY <1>4, <2>1, <2>2
<1>10. ASSUME NEW k \in DOMAIN new, Place(new[k]) = pl
       PROVE  \E e \in OrdersOf(d, queue'[pl]) :
                ~Fits(b, level'[b], side, Claim(pl)' + amount'[pl][e[1]])
  <2>1. /\ new[k].b = b /\ new[k].side = side /\ new[k].amt \in Nat /\ pl \in PlacesOf(new)
        /\ \A l \in DOMAIN done : done[l].b # b
    <3>1. /\ Place(new[k]) = <<new[k].b, new[k].side>> /\ new[k].amt \in Nat
          /\ Place(new[k]) \in PlacesOf(new)
      BY <1>0, <1>2, ItemProps
    <3>2. \A l \in DOMAIN done : done[l].b # new[k].b
      BY DEF Turn
    <3> QED BY <1>1, <1>10, <3>1, <3>2
  <2>2. level'[b] = level[b]
    BY <1>1, <1>2, <2>1 DEF Exchanged
  <2>3. out = {} /\ sum = 0 /\ queue'[pl] = Append(q, p) /\ pl \notin abandoned
    <3>1. \A l \in DOMAIN done : Opposite(done[l]) # pl
      BY <1>1, <2>1 DEF Opposite
    <3> QED BY <1>3, <1>9, <2>1, <3>1
  <2>4. p \notin ToSet(q) /\ Claim(pl)' = Claim(pl)
    <3>1. ~Due(p, pl) /\ ~Contains(acting[p], pl)
      BY <1>8, <2>1
    <3>2. p \notin ToSet(q)
      BY <1>0, <3>1 DEF Records, Recorded
    <3> HIDE DEF out, sum, q
    <3> QED BY <1>4, <2>3, <3>1, <3>2
  <2>5. amount'[pl][p] = new[k].amt
    BY <1>2, <1>10 DEF Exchanged
  <2>6. ~Fits(b, level[b], side, Claim(pl) + new[k].amt)
    <3>1. ~Fits(b, level[b], side, new[k].amt)
      <4>1. DOMAIN new # {}
        OBVIOUS
      <4>2. Fresh(p, done, new, woken)
        BY <4>1, EmptyList DEF Resumes
      <4> QED BY <2>1, <4>2 DEF Fresh, FitsNow
    <3> HIDE DEF b, side
    <3> QED BY <1>1, <1>4, <2>1, <3>1, FitsJoin
  <2>7. Prio \in [Procs -> Int]
    BY <1>0 DEF BucketAssumption
  <2>8. CASE q = <<>>
    <3>1. PICK e \in OrdersOf(d, Append(q, p)) : e[1] = p
      <4>1. PICK f \in OrdersOf(d, q) : TRUE
        BY <1>1, <2>8, NoneOrder
      <4> HIDE DEF d, q
      <4>2. \E e \in OrdersOf(d, Append(q, p)) : e[1] = p \/ (q # <<>> /\ e[1] = f[1])
        BY <1>1, <2>4, <2>7, <4>1, OrderAppend
      <4> QED BY <2>8, <4>2
    <3> HIDE DEF b, side, q, d, out, sum
    <3> QED BY <2>2, <2>3, <2>4, <2>5, <2>6, <3>1
  <2>9. CASE q # <<>>
    <3>1. PICK f \in OrdersOf(d, q) : ~HeadFits(pl, f)
      BY <1>6, <2>3, <2>9
    <3>2. PICK e \in OrdersOf(d, Append(q, p)) : e[1] = p \/ e[1] = f[1]
      <4> HIDE DEF d, q
      <4> QED BY <1>1, <2>4, <2>7, OrderAppend
    <3>3. CASE e[1] = p
      <4> HIDE DEF b, side, q, d, out, sum
      <4> QED BY <2>2, <2>3, <2>4, <2>5, <2>6, <3>3
    <3>4. CASE e[1] = f[1]
      <4>1. f[1] \in ToSet(q)
        BY <1>7, <2>9
      <4>2. f[1] \in ToSet(queue'[pl]) /\ f[1] # p
        <5>1. f[1] # p /\ f[1] \in Procs
          BY <1>1, <2>4, <4>1
        <5> QED BY <1>2, <1>3, <2>3, <4>1, <5>1 DEF Exchanged
      <4>3. amount'[pl][f[1]] = amount[pl][f[1]]
        BY <1>5, <4>1, <4>2
      <4>4. ~Fits(b, level[b], side, Claim(pl) + amount[pl][f[1]])
        BY <3>1 DEF HeadFits
      <4>5. amount'[pl][e[1]] = amount[pl][f[1]]
        BY <3>4, <4>3
      <4>6. ~Fits(b, level'[b], side, Claim(pl)' + amount'[pl][e[1]])
        <5> HIDE DEF b, side
        <5> QED BY <2>2, <2>4, <4>4, <4>5
      <4> QED BY <2>3, <4>6
    <3> QED BY <3>2, <3>3, <3>4
  <2> QED BY <2>8, <2>9
<1>11. ASSUME pl \notin PlacesOf(new), \A k \in DOMAIN done : Opposite(done[k]) # pl
       PROVE  \E e \in OrdersOf(d, queue'[pl]) :
                ~Fits(b, level'[b], side, Claim(pl)' + amount'[pl][e[1]])
  <2>1. sum = 0 /\ queue'[pl] = q
    BY <1>9, <1>11
  <2>2. PICK f \in OrdersOf(d, q) : ~HeadFits(pl, f)
    BY <1>3, <1>6, <1>11, <2>1
  <2>3. amount'[pl][f[1]] = amount[pl][f[1]] /\ amount[pl][f[1]] \in Nat
    <3>1. f[1] \in ToSet(q)
      BY <1>7, <2>1
    <3> QED BY <1>5, <1>11, <2>1, <3>1
  <2>4. ~Fits(b, level[b], side, Claim(pl) + amount[pl][f[1]])
    BY <2>2 DEF HeadFits
  <2> DEFINE h == amount[pl][f[1]]
  <2>5. CASE \A k \in DOMAIN done : done[k].b # b
    <3>1. level'[b] = level[b]
      BY <1>1, <1>2, <2>5 DEF Exchanged
    <3>2. ~Contains(acting[p], pl)
      <4>1. pl \notin PlacesOf(done)
        BY <2>5 DEF PlacesOf, Place
      <4> QED BY <1>8, <4>1
    <3> HIDE DEF b, side, q, d, out, sum
    <3>3. Claim(pl)' = Claim(pl)
      BY <1>4, <2>1, <3>2
    <3> QED BY <2>1, <2>3, <2>4, <3>1, <3>3
  <2>6. ASSUME NEW k \in DOMAIN done, done[k].b = b
        PROVE  ~Fits(b, level'[b], side, Claim(pl)' + h)
    <3>1. /\ Place(done[k]) = <<b, done[k].side>> /\ Opposite(done[k]) = <<b, Other(done[k].side)>>
          /\ done[k].side \in Sides /\ done[k].amt \in Nat /\ Place(done[k]) \in PlacesOf(done)
      BY <1>0, <1>2, <2>6, ItemProps
    <3>2. done[k].side = side
      <4>1. Other(done[k].side) # side
        BY <1>1, <1>11, <3>1
      <4> HIDE DEF b, side
      <4> QED BY <1>1, <3>1, <4>1 DEF Other, Sides
    <3>3. Place(done[k]) = pl
      BY <1>1, <3>1, <3>2
    <3>4. level'[b] = After(level[b], side, done[k].amt)
      BY <1>2, <2>6, <3>2 DEF Exchanged
    <3>5. CASE Contains(acting[p], pl)
      <4>1. done[k].amt = amount[pl][p]
        <5>1. Resumes(p, done, new, woken)
          BY <1>8, <3>5 DEF Fresh
        <5> QED BY <3>3, <5>1 DEF Resumes
      <4> DEFINE a == done[k].amt
      <4>2. Claim(pl)' + a = Claim(pl)
        <5> HIDE DEF sum, out
        <5> QED BY <1>4, <2>1, <3>5, <4>1
      <4>3. a \in Nat /\ h \in Nat
        BY <2>3, <3>1
      <4>4. ~Fits(b, level[b], side, (Claim(pl)' + h) + a)
        <5>1. (Claim(pl)' + h) + a = Claim(pl) + h
          <6> HIDE DEF a, h
          <6> QED BY <1>4, <4>2, <4>3
        <5> QED BY <2>4, <5>1
      <4>5. Claim(pl)' + h \in Nat
        <5> HIDE DEF h
        <5> QED BY <1>4, <4>3
      <4> HIDE DEF a, h, b, side
      <4>6. ~Fits(b, After(level[b], side, a), side, Claim(pl)' + h)
        BY <1>1, <4>3, <4>4, <4>5, FitsProps
      <4> QED BY <3>4, <4>6 DEF a
    <3>6. CASE ~Contains(acting[p], pl)
      <4> DEFINE a == done[k].amt
                 x == Claim(pl) + h
      <4>1. Claim(pl)' = Claim(pl)
        <5> HIDE DEF sum, out
        <5> QED BY <1>4, <2>1, <3>6
      <4>2. a \in Nat /\ x \in Nat /\ x + a \in Nat /\ x <= x + a
        <5>1. h \in Nat /\ a \in Nat
          BY <2>3, <3>1
        <5> HIDE DEF a, h
        <5> QED BY <1>4, <5>1
      <4>3. ~Fits(b, level[b], side, x)
        BY <2>4
      <4> HIDE DEF a, x, b, side
      <4>4. ~Fits(b, level[b], side, x + a)
        BY <1>1, <4>2, <4>3, FitsProps
      <4>5. ~Fits(b, After(level[b], side, a), side, x)
        BY <1>1, <4>2, <4>4, FitsProps
      <4> QED BY <3>4, <4>1, <4>5 DEF a, x
    <3> QED BY <3>5, <3>6
  <2>7. ~Fits(b, level'[b], side, Claim(pl)' + h)
    <3> HIDE DEF h
    <3>1. CASE \E k \in DOMAIN done : done[k].b = b
      BY <2>6, <3>1
    <3>2. CASE \A k \in DOMAIN done : done[k].b # b
      <4>1. level'[b] = level[b]
        BY <1>1, <1>2, <3>2 DEF Exchanged
      <4>2. ~Contains(acting[p], pl)
        <5>1. pl \notin PlacesOf(done)
          BY <3>2 DEF PlacesOf, Place
        <5> QED BY <1>8, <5>1
      <4>3. Claim(pl)' = Claim(pl)
        <5> HIDE DEF sum, out
        <5> QED BY <1>4, <2>1, <4>2
      <4> QED BY <2>4, <4>1, <4>3 DEF h
    <3> QED BY <3>1, <3>2
  <2> HIDE DEF b, side, q, d, out, sum
  <2> QED BY <2>1, <2>3, <2>7 DEF h
<1>12. ASSUME NEW k \in DOMAIN done, Opposite(done[k]) = pl
       PROVE  \E e \in OrdersOf(d, queue'[pl]) :
                ~Fits(b, level'[b], side, Claim(pl)' + amount'[pl][e[1]])
  <2> DEFINE am == amount[pl]
             l == level'[b]
             n == Unblockable(pl, o[k], l)
             e == SubSeq(o[k], n + 1, Len(o[k]))
  <2>1. /\ done[k].b = b /\ Opposite(done[k]) = <<done[k].b, Other(done[k].side)>>
        /\ \A x \in DOMAIN done : Opposite(done[x]) = pl => x = k
    <3>1. /\ Opposite(done[k]) = <<done[k].b, Other(done[k].side)>>
          /\ \A x \in DOMAIN done : Opposite(done[k]) = Opposite(done[x]) => k = x
      BY <1>0, <1>2, ItemProps
    <3> QED BY <1>1, <1>12, <3>1
  <2>2. l = After(level[done[k].b], done[k].side, done[k].amt) /\ l \in Int
    BY <1>1, <1>2, <2>1 DEF Exchanged
  <2>3. /\ n \in 0..Len(o[k]) /\ woken[k] = SubSeq(o[k], 1, n)
        /\ ToSet(woken[k]) = First(o[k], n) /\ o[k] \in OrdersOf(d, q)
        /\ o[k] \in Seq(Procs) /\ IsInjective(o[k]) /\ ToSet(o[k]) = ToSet(q)
    <3> DEFINE m == Unblockable(Opposite(done[k]), o[k],
                                After(level[done[k].b], done[k].side, done[k].amt))
    <3>1. n = m
      BY <1>12, <2>2
    <3>2. /\ m \in 0..Len(o[k]) /\ woken[k] = SubSeq(o[k], 1, m)
          /\ ToSet(woken[k]) = First(o[k], m) /\ o[k] \in Orders(Opposite(done[k]))
          /\ o[k] \in Seq(Procs) /\ IsInjective(o[k])
          /\ ToSet(o[k]) = ToSet(queue[Opposite(done[k])])
      BY <1>0, <1>2, WokenProps
    <3> HIDE DEF n, m
    <3> QED BY <1>12, <3>1, <3>2 DEF Orders
  <2>4. out = First(o[k], n)
    <3>1. out = ToSet(woken[k])
      BY <1>12, <2>1 DEF Out
    <3> QED BY <2>3, <3>1
  <2>5. pl \notin PlacesOf(new) /\ ~Contains(acting[p], pl)
    <3>1. ~Due(p, pl)
      BY <1>12 DEF Turn
    <3>2. pl \notin PlacesOf(new)
      <4> SUFFICES ASSUME NEW x \in DOMAIN new, Place(new[x]) = pl PROVE FALSE
        BY PlaceItem
      <4>1. Place(new[x]) = <<new[x].b, new[x].side>>
        BY DEF Place
      <4>2. done[k].b # new[x].b
        BY DEF Turn
      <4> QED BY <1>1, <2>1, <4>1, <4>2
    <3> QED BY <1>8, <3>1, <3>2
  <2>6. queue'[pl] = Rest(q, o[k], n)
    <3>1. queue'[pl] = Stay(q, out)
      BY <1>3, <2>5, QueueTurn
    <3>2. ToSet(SubSeq(o[k], 1, n)) = out
      <4> HIDE DEF out, n
      <4> QED BY <2>3, <2>4
    <3> HIDE DEF n, out, q
    <3> QED BY <3>1, <3>2 DEF Rest, Stay
  <2>7. e \in OrdersOf(d, queue'[pl])
    <3>1. S!ProcsOK /\ Prio \in [Procs -> Int]
      BY <1>0 DEF BucketAssumption
    <3> HIDE DEF n, d, q
    <3> QED BY <1>1, <2>3, <2>6, <3>1, OrderRest
  <2>8. n < Len(o[k])
    <3>1. queue'[pl] \in Seq(Procs) /\ queue'[pl] # <<>>
      BY <1>2 DEF Exchanged
    <3>2. queue'[pl][1] \in ToSet(queue'[pl]) /\ queue'[pl][1] \in Procs
      <4>1. 1 \in DOMAIN queue'[pl]
        BY <3>1
      <4> QED BY <3>1, <4>1 DEF ToSet
    <3>3. queue'[pl][1] \in ToSet(o[k]) /\ queue'[pl][1] \notin First(o[k], n)
      <4>1. queue'[pl][1] \in ToSet(q) /\ queue'[pl][1] \notin out
        BY <1>2, <2>5, <3>2 DEF Exchanged
      <4> HIDE DEF out, q, n
      <4> QED BY <2>3, <2>4, <4>1
    <3> HIDE DEF n
    <3>4. n # Len(o[k])
      <4> SUFFICES ASSUME n = Len(o[k]) PROVE FALSE
        OBVIOUS
      <4>1. DOMAIN o[k] = 1..n
        BY <2>3
      <4> QED BY <3>3, <4>1 DEF First, ToSet
    <3> QED BY <2>3, <3>4
  <2> DEFINE h == o[k][n + 1]
             s == Sum(am, First(o[k], n))
  <2>9. e[1] = h
    <3>1. n + 1 <= Len(o[k]) /\ n + 1 \in 1..Len(o[k])
      <4> HIDE DEF n
      <4> QED BY <2>3, <2>8
    <3> HIDE DEF n
    <3> QED BY <2>3, <3>1 DEF h, e
  <2>10. Summable(am, ToSet(o[k]))
    BY <1>1, <2>3
  <2>11. s \in Nat /\ am[h] \in Nat /\ h \in ToSet(q)
    <3>1. n \in 0..(Len(o[k]) - 1)
      <4> HIDE DEF n
      <4> QED BY <2>3, <2>8
    <3> HIDE DEF n, am
    <3> QED BY <2>3, <2>10, <3>1, FirstNext DEF s, h
  <2>12. ~Fits(b, l, side, s + am[h])
    <3>1. n < Len(o[k]) => ~Fits(pl[1], l, pl[2], s + am[h])
      <4> HIDE DEF l
      <4> QED BY <1>1, <2>2, <2>3, <2>10, UnblockableProps
    <3> HIDE DEF n, s, h, am
    <3> QED BY <2>8, <3>1
  <2>13. sum = s
    <3>1. {r \in out : S!Live(r)} = out
      <4> SUFFICES ASSUME NEW r \in out PROVE S!Live(r)
        OBVIOUS
      <4>1. r \in ToSet(q)
        <5> HIDE DEF out, n, q
        <5>1. First(o[k], n) \subseteq ToSet(o[k])
          BY <2>3, FirstProps
        <5> QED BY <2>3, <2>4, <5>1
      <4>2. r \in Procs
        BY <1>1, <4>1
      <4>3. Due(r, pl) /\ InWait(r)
        BY <1>2, <4>2
      <4>4. st[r] # "terminated"
        <5>1. PlacesOf(call[r].items) \subseteq left \/ st[r] # "terminated"
          BY <1>0, <4>2, <4>3 DEF StatesOK, StateOK
        <5> QED BY <1>3, <4>3, <5>1 DEF Due
      <4>5. st[r] \in {"running", "suspended", "terminated"}
        BY <1>0, <4>2, <4>3 DEF StatesOK, StateOK
      <4> QED BY <4>4, <4>5 DEF S!Live
    <3> QED BY <2>4, <3>1
  <2>14. amount'[pl][h] = am[h]
    <3>1. queue'[pl] \in Seq(Procs) /\ IsInjective(queue'[pl]) /\ queue'[pl] # <<>>
      BY <1>2 DEF Exchanged
    <3>2. ToSet(e) = ToSet(queue'[pl]) /\ Len(e) = Len(queue'[pl]) /\ e \in Seq(Procs)
      <4> HIDE DEF e, d
      <4> QED BY <1>1, <2>7, <3>1, OrderProps
    <3>3. h \in ToSet(queue'[pl])
      <4> HIDE DEF e, h
      <4>1. 1 \in DOMAIN e
        BY <3>1, <3>2
      <4> QED BY <2>9, <3>2, <4>1 DEF ToSet
    <3> HIDE DEF h
    <3> QED BY <1>5, <2>5, <2>11, <3>3
  <2>15. ~Fits(b, l, side, Claim(pl)' + am[h])
    <3>1. Claim(pl)' = Claim(pl) + sum
      BY <1>4, <2>5
    <3> DEFINE x == Claim(pl)' + am[h]
               y == s + am[h]
    <3>2. x \in Nat /\ y \in Nat /\ y <= x
      <4> HIDE DEF s, h, am, sum
      <4> QED BY <1>4, <2>11, <2>13, <3>1
    <3>3. ~Fits(b, l, side, y)
      BY <2>12
    <3> HIDE DEF x, y, l, b, side
    <3>4. ~Fits(b, l, side, x)
      BY <1>1, <2>2, <3>2, <3>3, FitsProps
    <3> QED BY <3>4 DEF x
  <2> HIDE DEF n, h, s, am, b, side, d, q, out, sum
  <2> QED BY <2>7, <2>9, <2>14, <2>15 DEF am
<1> QED
  <2>1. CASE \E k \in DOMAIN done : Opposite(done[k]) = pl
    BY <1>12, <2>1
  <2>2. CASE pl \in PlacesOf(new)
    BY <1>10, <2>2, PlaceItem
  <2> QED BY <1>11, <2>1, <2>2

-----------------------------------------------------------------------------
(* Steps in which no one gets or puts anything *)

\* A process that such a step leaves alone.
LEMMA StateStays ==
  ASSUME NEW q \in Procs, StateOK(q), call'[q] = call[q], st'[q] = st[q],
         q \in timer' <=> q \in timer, acting' = acting, left \in SUBSET left',
         q = cur' /\ InWait(q) => st[q] = "running"
  PROVE  StateOK(q)'
<1>1. /\ InWait(q)' <=> InWait(q)
      /\ S!Live(q)' <=> S!Live(q)
      /\ DirectOK(q)' <=> DirectOK(q)
  BY DEF InWait, S!Live, DirectOK
<1>2. InWait(q)' => /\ st'[q] \in {"running", "suspended", "terminated"}
                    /\ q = cur' => st'[q] = "running"
                    /\ st'[q] = "terminated" => PlacesOf(call'[q].items) \subseteq left'
  BY <1>1 DEF StateOK
<1> QED BY <1>1, <1>2 DEF StateOK

\* What such a step does: a process starts no wait and ends none, and one that
\* dies in a wait leaves the places of its items.
Quiet ==
  /\ UNCHANGED <<bucketVars, barged, abandoned>> /\ left \in SUBSET left'
  /\ st' \in [Procs -> S!States] /\ call' \in [Procs -> {Idle, Sleeping} \cup Blocked]
  /\ \A q \in Procs : /\ InWait(q)' <=> InWait(q)
                      /\ InWait(q) => call'[q] = call[q]
                      /\ S!Live(q)' => S!Live(q)
                      /\ S!Live(q) /\ InWait(q) /\ ~S!Live(q)' => PlacesOf(call[q].items) \subseteq left'

LEMMA QuietStep ==
  ASSUME Base, Quiet
  PROVE  /\ Types' /\ Records'
         /\ Backed => Backed'
         /\ HeadTooBig => HeadTooBig'
<1>0. BucketAssumption /\ Types /\ Records /\ StatesOK
  BY DEF Base
<1>1. /\ level' = level /\ queue' = queue /\ amount' = amount /\ acting' = acting /\ barged' = barged
      /\ abandoned' = abandoned /\ left \in SUBSET left'
      /\ st' \in [Procs -> S!States] /\ call' \in [Procs -> {Idle, Sleeping} \cup Blocked]
      /\ \A q \in Procs : /\ InWait(q)' <=> InWait(q)
                          /\ InWait(q) => call'[q] = call[q]
                          /\ S!Live(q)' => S!Live(q)
                          /\ S!Live(q) /\ InWait(q) /\ ~S!Live(q)'
                               => PlacesOf(call[q].items) \subseteq left'
  BY DEF Quiet, bucketVars
<1>2. Types'
  BY <1>0, <1>1 DEF Types
<1>3. \A q \in Procs, pl \in Places : Due(q, pl)' <=> Due(q, pl)
  BY <1>1 DEF Due
<1>4. Records'
  <2> SUFFICES ASSUME NEW q \in Procs, NEW pl \in Places PROVE Recorded(q, pl)'
    BY DEF Records
  <2>1. Recorded(q, pl)
    BY <1>0 DEF Records
  <2>2. Due(q, pl) => call'[q].items = call[q].items
    BY <1>1 DEF Due
  <2> QED BY <1>1, <1>3, <2>1, <2>2 DEF Recorded
<1>5. \A pl \in Places : Credited(pl)' \in SUBSET Credited(pl)
  BY <1>1 DEF Credited
<1>6. \A pl \in Places : Claim(pl)' \in Nat /\ Claim(pl) \in Nat /\ Claim(pl)' <= Claim(pl)
  <2> SUFFICES ASSUME NEW pl \in Places
               PROVE  Claim(pl)' \in Nat /\ Claim(pl) \in Nat /\ Claim(pl)' <= Claim(pl)
    OBVIOUS
  <2>1. Summable(amount[pl], Credited(pl)) /\ Claim(pl) \in Nat
    BY ClaimProps
  <2>2. PICK C : C = Credited(pl)'
    OBVIOUS
  <2>3. C \in SUBSET Credited(pl)
    BY <1>5, <2>2
  <2>4. Summable(amount[pl], C) /\ Sum(amount[pl], C) <= Sum(amount[pl], Credited(pl))
    BY <2>1, <2>3, SumLess
  <2>5. Sum(amount[pl], C) \in Nat
    BY <2>4, SumType
  <2>6. Claim(pl)' = Sum(amount[pl], C)
    BY <1>1, <2>2 DEF Claim
  <2> QED BY <2>1, <2>4, <2>5, <2>6 DEF Claim
<1>7. ASSUME Backed PROVE Backed'
  <2> SUFFICES ASSUME NEW b \in Buckets, b \notin barged, NEW side \in Sides
               PROVE  Fits(b, level[b], side, Claim(<<b, side>>)')
    BY <1>1 DEF Backed
  <2>1. <<b, side>> \in Places /\ level[b] \in Int
    BY <1>0 DEF Places, Types
  <2>2. Capacity[b] \in Nat
    BY <1>0 DEF BucketAssumption, ValidBucket
  <2>3. Fits(b, level[b], side, Claim(<<b, side>>))
    BY <1>7 DEF Backed
  <2> DEFINE pl == <<b, side>>
  <2> HIDE DEF pl
  <2>4. Claim(pl)' \in Nat /\ Claim(pl) \in Nat /\ Claim(pl)' <= Claim(pl)
    BY <1>6, <2>1 DEF pl
  <2>5. Fits(b, level[b], side, Claim(pl)')
    BY <2>1, <2>2, <2>3, <2>4, FitsProps DEF pl
  <2> QED BY <2>5 DEF pl
<1>8. ASSUME HeadTooBig PROVE HeadTooBig'
  <2> SUFFICES ASSUME NEW pl \in Places, pl \notin left', pl \notin abandoned, queue[pl] # <<>>
               PROVE  \E o \in Orders(pl)' :
                        ~Fits(pl[1], level[pl[1]], pl[2], Claim(pl)' + amount[pl][o[1]])
    BY <1>1 DEF HeadTooBig
  <2>1. PICK o \in Orders(pl) : ~Fits(pl[1], level[pl[1]], pl[2], Claim(pl) + amount[pl][o[1]])
    BY <1>1, <1>8 DEF HeadTooBig
  <2>2. Orders(pl)' = Orders(pl)
    BY <1>1 DEF Orders
  <2>3. Credited(pl)' = Credited(pl)
    <3> SUFFICES ASSUME NEW q \in Credited(pl) PROVE q \in Credited(pl)'
      BY <1>1, <1>5
    <3>1. q \in Procs /\ Due(q, pl) /\ S!Live(q) /\ Contains(acting[q], pl)
      BY ClaimProps DEF Credited
    <3>2. S!Live(q)'
      BY <1>1, <3>1 DEF Due
    <3> QED BY <1>1, <3>1, <3>2 DEF Credited
  <2>4. Claim(pl)' = Claim(pl)
    BY <1>1, <2>3 DEF Claim
  <2> QED BY <2>1, <2>2, <2>4
<1> QED BY <1>2, <1>4, <1>7, <1>8

\* The step of a process that goes to sleep.
LEMMA SleepStep ==
  ASSUME Base, Sleep
  PROVE  Quiet /\ StatesOK'
<1>0. PICK p \in Procs : p = cur
  BY DEF Sleep, InProcess
<1>1. /\ BucketAssumption /\ Types /\ Records /\ StatesOK
      /\ call[p] = Idle /\ ~InWait(p) /\ st[p] = "running"
      /\ \A pl \in Places : ~Due(p, pl) /\ ~Contains(acting[p], pl)
  BY <1>0, IdleProps DEF Base, Sleep
<1>2. /\ timer' = timer \cup {p} /\ call' = [call EXCEPT ![p] = Sleeping]
      /\ st' = [st EXCEPT ![p] = "suspended"] /\ cur' = "drain"
      /\ level' = level /\ queue' = queue /\ amount' = amount /\ acting' = acting
      /\ barged' = barged /\ left' = left /\ abandoned' = abandoned
  BY <1>0 DEF Sleep, S!Suspend, bucketVars, history
<1>3. /\ st \in [Procs -> S!States] /\ call \in [Procs -> {Idle, Sleeping} \cup Blocked]
      /\ "drain" \notin Procs
  BY <1>1 DEF Types, BucketAssumption, S!ProcsOK, S!NoProc
<1>4. st' \in [Procs -> S!States] /\ st'[p] = "suspended" /\ \A q \in Procs : q # p => st'[q] = st[q]
  BY <1>2, <1>3 DEF S!States
<1>5. /\ call' \in [Procs -> {Idle, Sleeping} \cup Blocked]
      /\ call'[p] = Sleeping /\ \A q \in Procs : q # p => call'[q] = call[q]
  BY <1>2, <1>3
<1>6. ~InWait(p)' /\ call'[p].op = "sleep"
  BY <1>5 DEF InWait, Sleeping
<1>7. Quiet
  BY <1>1, <1>2, <1>4, <1>5, <1>6 DEF Quiet, bucketVars, InWait, S!Live
<1>8. StateOK(p)'
  BY <1>1, <1>2, <1>4, <1>6 DEF StateOK, DirectOK, S!Live
<1>9. ASSUME NEW q \in Procs, q # p PROVE StateOK(q)'
  <2>1. StateOK(q) /\ q # cur' /\ (q \in timer' <=> q \in timer) /\ left \in SUBSET left'
    BY <1>1, <1>2, <1>3, <1>9 DEF StatesOK
  <2> QED BY <1>2, <1>4, <1>5, <1>9, <2>1, StateStays
<1> QED BY <1>7, <1>8, <1>9 DEF StatesOK

LEMMA SleepReturnStep ==
  ASSUME Base, NEW p \in Procs, SleepReturn(p)
  PROVE  Quiet /\ StatesOK'
<1>1. /\ BucketAssumption /\ Types /\ Records /\ StatesOK /\ StateOK(p)
      /\ cur = p /\ call[p].op = "sleep" /\ ~InWait(p)
      /\ \A pl \in Places : ~Contains(acting[p], pl)
  BY DEF Base, SleepReturn, InWait, StatesOK, Records, Recorded, Due
<1>2. /\ st' = st /\ cur' = cur /\ timer' = timer /\ call' = [call EXCEPT ![p] = Idle]
      /\ level' = level /\ queue' = queue /\ amount' = amount /\ acting' = acting
      /\ barged' = barged /\ left' = left /\ abandoned' = abandoned
  BY DEF SleepReturn, schedVars, bucketVars, history
<1>3. /\ st \in [Procs -> S!States] /\ call \in [Procs -> {Idle, Sleeping} \cup Blocked]
  BY <1>1 DEF Types
<1>5. /\ call' \in [Procs -> {Idle, Sleeping} \cup Blocked]
      /\ call'[p] = Idle /\ \A q \in Procs : q # p => call'[q] = call[q]
  BY <1>2, <1>3
<1>6. ~InWait(p)' /\ call'[p].op = "none"
  BY <1>5 DEF InWait, Idle
<1>7. Quiet
  BY <1>1, <1>2, <1>3, <1>5, <1>6 DEF Quiet, bucketVars, InWait, S!Live
<1>8. StateOK(p)'
  BY <1>1, <1>2, <1>6 DEF StateOK, DirectOK, S!Live
<1>9. ASSUME NEW q \in Procs, q # p PROVE StateOK(q)'
  <2>1. StateOK(q) /\ q # cur' /\ (q \in timer' <=> q \in timer) /\ left \in SUBSET left'
    BY <1>1, <1>2, <1>9 DEF StatesOK
  <2> QED BY <1>2, <1>5, <1>9, <2>1, StateStays
<1> QED BY <1>7, <1>8, <1>9 DEF StatesOK

\* The step in which a process dies.
LEMMA DeathStep ==
  ASSUME Base, NEW p \in Procs, S!Live(p),
         \A q \in Procs : st'[q] = IF q = p THEN "terminated" ELSE st[q],
         st' \in [Procs -> S!States],
         cur' = cur \/ cur' = "drain", ~(p = cur' /\ InWait(p)),
         left' = IF InWait(p) THEN left \cup PlacesOf(call[p].items) ELSE left,
         UNCHANGED <<timer, call, bucketVars, barged, abandoned>>
  PROVE  Quiet /\ StatesOK'
<1>1. /\ BucketAssumption /\ Types /\ Records /\ StatesOK /\ StateOK(p) /\ "drain" \notin Procs
  BY DEF Base, StatesOK, BucketAssumption, S!ProcsOK, S!NoProc
<1>2. /\ timer' = timer /\ call' = call /\ left \in SUBSET left'
      /\ level' = level /\ queue' = queue /\ amount' = amount /\ acting' = acting
      /\ barged' = barged /\ abandoned' = abandoned
      /\ InWait(p) => PlacesOf(call[p].items) \subseteq left'
  BY DEF bucketVars
<1>3. call \in [Procs -> {Idle, Sleeping} \cup Blocked]
  BY <1>1 DEF Types
<1>4. st'[p] = "terminated" /\ \A q \in Procs : q # p => st'[q] = st[q]
  OBVIOUS
<1>7. Quiet
  BY <1>2, <1>3, <1>4 DEF Quiet, bucketVars, InWait, S!Live
<1>8. StateOK(p)'
  <2>1. (InWait(p)' <=> InWait(p)) /\ (DirectOK(p)' <=> DirectOK(p)) /\ ~S!Live(p)'
    BY <1>2, <1>4 DEF InWait, DirectOK, S!Live
  <2> QED BY <1>1, <1>2, <1>4, <2>1 DEF StateOK
<1>9. ASSUME NEW q \in Procs, q # p PROVE StateOK(q)'
  <2>1. StateOK(q) /\ (q = cur' /\ InWait(q) => st[q] = "running")
    BY <1>1 DEF StatesOK, StateOK
  <2> QED BY <1>2, <1>4, <1>9, <2>1, StateStays
<1> QED BY <1>7, <1>8, <1>9 DEF StatesOK

\* Nothing is woken up.
LEMMA WakeNone ==
  ASSUME NEW states, S!Wake(states, <<>>)
  PROVE  st' = [q \in Procs |-> states[q]]
<1>1. S!ToSet(<<>>) = {}
  BY DEF S!ToSet
<1> QED BY <1>1 DEF S!Wake

LEMMA KillStep ==
  ASSUME Base, NEW p \in Procs, Kill(p)
  PROVE  Quiet /\ StatesOK'
<1>1. /\ S!Live(p) /\ S!Wake([st EXCEPT ![p] = "terminated"], <<>>) /\ cur' = cur
      /\ st \in [Procs -> S!States]
  BY DEF Kill, S!Kill, Base, Types
<1>2. st' = [q \in Procs |-> [st EXCEPT ![p] = "terminated"][q]]
  BY <1>1, WakeNone
<1>3. \A q \in Procs : st'[q] = IF q = p THEN "terminated" ELSE st[q]
  BY <1>1, <1>2
<1>4. st' \in [Procs -> S!States]
  BY <1>1, <1>2 DEF S!States
<1>5. ~(p = cur' /\ InWait(p))
  <2>1. p = cur => call[p] = Idle
    BY DEF Kill, User
  <2> QED BY <1>1, <2>1 DEF InWait, Idle
<1>6. /\ left' = IF InWait(p) THEN left \cup PlacesOf(call[p].items) ELSE left
      /\ UNCHANGED <<timer, call, bucketVars, barged, abandoned>>
  BY DEF Kill
<1> QED BY <1>1, <1>3, <1>4, <1>5, <1>6, DeathStep

\* A step that changes only who has the control.
LEMMA ControlStep ==
  ASSUME Base, st' = st, UNCHANGED <<timer, call, bucketVars, history>>,
         \A q \in Procs : q = cur' => q = cur \/ st[q] = "running"
  PROVE  Quiet /\ StatesOK'
<1>1. Types /\ StatesOK
  BY DEF Base
<1>2. /\ timer' = timer /\ call' = call /\ left' = left
      /\ level' = level /\ queue' = queue /\ amount' = amount /\ acting' = acting
      /\ barged' = barged /\ abandoned' = abandoned
  BY DEF bucketVars, history
<1>3. st \in [Procs -> S!States] /\ call \in [Procs -> {Idle, Sleeping} \cup Blocked]
  BY <1>1 DEF Types
<1>4. Quiet
  BY <1>2, <1>3 DEF Quiet, bucketVars, InWait, S!Live
<1>5. ASSUME NEW q \in Procs PROVE StateOK(q)'
  <2>1. StateOK(q) /\ (q = cur' /\ InWait(q) => st[q] = "running") /\ left \in SUBSET left'
    BY <1>1, <1>2 DEF StatesOK, StateOK
  <2> QED BY <1>2, <2>1, StateStays
<1> QED BY <1>4, <1>5 DEF StatesOK

LEMMA TerminateStep ==
  ASSUME Base, NEW p \in Procs, Terminate(p)
  PROVE  Quiet /\ StatesOK'
<1>1. /\ cur = p /\ call[p] = Idle /\ cur' = "drain" /\ UNCHANGED <<timer, call, bucketVars, history>>
      /\ st \in [Procs -> S!States] /\ "drain" \notin Procs
  BY DEF Terminate, S!Terminate, User, Base, Types, BucketAssumption, S!ProcsOK, S!NoProc
<1>2. CASE st[p] = "running" /\ S!Wake([st EXCEPT ![p] = "terminated"], <<>>)
  <2>1. st' = [q \in Procs |-> [st EXCEPT ![p] = "terminated"][q]]
    BY <1>2, WakeNone
  <2>2. \A q \in Procs : st'[q] = IF q = p THEN "terminated" ELSE st[q]
    BY <1>1, <2>1
  <2>3. st' \in [Procs -> S!States] /\ S!Live(p)
    BY <1>1, <1>2, <2>1 DEF S!States, S!Live
  <2>4. ~InWait(p)
    BY <1>1 DEF InWait, Idle
  <2>5. /\ left' = IF InWait(p) THEN left \cup PlacesOf(call[p].items) ELSE left
        /\ UNCHANGED <<timer, call, bucketVars, barged, abandoned>>
    BY <1>1, <2>4 DEF history
  <2> QED BY <1>1, <2>2, <2>3, <2>4, <2>5, DeathStep
<1>3. CASE UNCHANGED <<st, readyq>>
  BY <1>1, <1>3, ControlStep
<1> QED BY <1>2, <1>3 DEF Terminate, S!Terminate

LEMMA FireStep ==
  ASSUME Base, NEW p \in Procs, Fire(p)
  PROVE  Quiet /\ StatesOK'
<1>1. /\ BucketAssumption /\ Types /\ Records /\ StatesOK /\ "drain" \notin Procs
      /\ \A q \in Procs : StateOK(q)
  BY DEF Base, StatesOK, BucketAssumption, S!ProcsOK, S!NoProc
<1>2. /\ p \in timer /\ cur' = "drain" /\ timer' = timer \ {p} /\ call' = call /\ left' = left
      /\ level' = level /\ queue' = queue /\ amount' = amount /\ acting' = acting
      /\ barged' = barged /\ abandoned' = abandoned
      /\ S!Wake(st, IF st[p] \in S!Wakeable THEN <<p>> ELSE <<>>)
  BY DEF Fire, S!Fire, bucketVars, history
<1>3. st \in [Procs -> S!States] /\ call \in [Procs -> {Idle, Sleeping} \cup Blocked]
  BY <1>1 DEF Types
<1>4. st' = [q \in Procs |-> IF q = p /\ st[p] \in S!Wakeable THEN "running" ELSE st[q]]
  <2>1. S!ToSet(<<p>>) = {p} /\ S!ToSet(<<>>) = {}
    BY DEF S!ToSet
  <2>2. CASE st[p] \in S!Wakeable
    <3>1. S!Wake(st, <<p>>)
      BY <1>2, <2>2
    <3> QED BY <2>1, <2>2, <3>1 DEF S!Wake
  <2>3. CASE st[p] \notin S!Wakeable
    <3>1. S!Wake(st, <<>>)
      BY <1>2, <2>3
    <3> QED BY <2>1, <2>3, <3>1 DEF S!Wake
  <2> QED BY <2>2, <2>3
<1>5. /\ st' \in [Procs -> S!States] /\ \A q \in Procs : q # p => st'[q] = st[q]
      /\ \/ st'[p] = "running" /\ st[p] \in {"started", "suspended"}
         \/ st'[p] = st[p]
  BY <1>3, <1>4 DEF S!States, S!Wakeable
<1>6. \A q \in Procs : S!Live(q)' <=> S!Live(q)
  BY <1>5 DEF S!Live
<1>7. Quiet
  BY <1>2, <1>3, <1>5, <1>6 DEF Quiet, bucketVars, InWait
<1>8. StateOK(p)'
  <2>1. (InWait(p)' <=> InWait(p)) /\ (DirectOK(p)' <=> DirectOK(p)) /\ cur' # p /\ p \notin timer'
    BY <1>1, <1>2 DEF InWait, DirectOK
  <2>2. StateOK(p) /\ call[p].op # "direct"
    BY <1>1, <1>2 DEF StateOK
  <2>3. InWait(p)' => /\ st'[p] \in {"running", "suspended", "terminated"}
                      /\ st'[p] = "terminated" => PlacesOf(call'[p].items) \subseteq left'
    BY <1>2, <1>5, <2>1, <2>2 DEF StateOK
  <2>4. S!Live(p)' /\ (\E pl \in Places : Contains(acting'[p], pl)) => st'[p] = "running"
    BY <1>2, <1>5, <1>6, <2>2 DEF StateOK
  <2> QED BY <1>2, <2>1, <2>2, <2>3, <2>4 DEF StateOK
<1>9. ASSUME NEW q \in Procs, q # p PROVE StateOK(q)'
  <2>1. StateOK(q) /\ q # cur' /\ (q \in timer' <=> q \in timer) /\ left \in SUBSET left'
    BY <1>1, <1>2, <1>9
  <2> QED BY <1>2, <1>5, <1>9, <2>1, StateStays
<1> QED BY <1>7, <1>8, <1>9 DEF StatesOK

LEMMA LoopStepStep ==
  ASSUME Base, LoopStep
  PROVE  Quiet /\ StatesOK'
<1>1. /\ UNCHANGED <<timer, call, bucketVars, history>> /\ st \in [Procs -> S!States]
      /\ {"main", "pick", "handler", "drain"} \cap Procs = {}
  BY DEF LoopStep, Base, Types, BucketAssumption, S!ProcsOK, S!NoProc
<1>2. st' = st /\ \A q \in Procs : q = cur' => st[q] = "running"
  <2>1. CASE S!RunBegin \/ S!RunEnd \/ S!HandlerReturn \/ S!DrainEnd("pick")
    BY <1>1, <2>1 DEF S!RunBegin, S!RunEnd, S!HandlerReturn, S!DrainEnd
  <2>2. CASE S!Handle(<<>>)
    <3>1. st' = [q \in Procs |-> st[q]] /\ cur' = "handler"
      BY <2>2, WakeNone DEF S!Handle
    <3> QED BY <1>1, <3>1
  <2>3. CASE S!Dispatch
    BY <1>1, <2>3 DEF S!Dispatch
  <2> QED BY <2>1, <2>2, <2>3 DEF LoopStep
<1> QED BY <1>1, <1>2, ControlStep

-----------------------------------------------------------------------------
(* The inductive invariant *)

LEMMA InitIInv == BucketAssumption /\ Init => IInv
<1> SUFFICES ASSUME BucketAssumption, Init PROVE IInv
  OBVIOUS
<1>1. /\ st = [p \in Procs |-> "started"] /\ cur = "main" /\ timer = Procs
      /\ call = [p \in Procs |-> Idle] /\ level = InitLevel
      /\ queue = [pl \in Places |-> <<>>] /\ amount = [pl \in Places |-> [p \in {} |-> 0]]
      /\ acting = [p \in Procs |-> <<>>] /\ barged = {} /\ left = {}
  BY DEF Init, InitStats
<1>2. \A p \in Procs : /\ st[p] = "started" /\ call[p] = Idle /\ acting[p] = <<>>
                       /\ call[p].op = "none" /\ ~InWait(p)
  BY <1>1 DEF Idle, InWait
<1>3. \A pl \in Places : queue[pl] = <<>> /\ DOMAIN amount[pl] = {}
  BY <1>1
<1>4. ToSet(<<>>) = {} /\ \A x : ~Contains(<<>>, x)
  BY DEF ToSet, Contains
<1>5. Types
  <2>1. st \in [Procs -> S!States] /\ call \in [Procs -> {Idle, Sleeping} \cup Blocked]
    BY <1>1 DEF S!States
  <2>2. level \in [Buckets -> Int]
    BY <1>1 DEF BucketAssumption
  <2>3. \A X : <<>> \in Seq(X) /\ IsInjective(<<>>)
    BY DEF IsInjective
  <2> QED BY <1>2, <1>3, <2>1, <2>2, <2>3 DEF Types
<1>6. Records
  BY <1>2, <1>3, <1>4 DEF Records, Recorded, Due
<1>7. StatesOK
  BY <1>2, <1>4 DEF StatesOK, StateOK, DirectOK
<1>8. Base
  BY <1>5, <1>6, <1>7 DEF Base
<1>9. Backed
  <2> SUFFICES ASSUME NEW b \in Buckets, NEW side \in Sides
               PROVE  Fits(b, level[b], side, Claim(<<b, side>>))
    BY DEF Backed
  <2>1. Credited(<<b, side>>) = {}
    BY <1>2, <1>4 DEF Credited
  <2>2. Claim(<<b, side>>) = 0
    BY <2>1, SumNone DEF Claim
  <2>3. level[b] \in 0..Capacity[b] /\ Capacity[b] \in Nat
    BY <1>1 DEF BucketAssumption, ValidBucket
  <2> QED BY <2>2, <2>3 DEF Fits
<1>10. HeadTooBig
  BY <1>3 DEF HeadTooBig
<1> QED BY <1>8, <1>9, <1>10 DEF IInv

\* The invariant through a step of getting or putting.
LEMMA TurnIInv ==
  ASSUME IInv, NEW p \in Procs, NEW done, NEW new, NEW off, NEW o, NEW woken,
         Turn(p, done, new, off, o, woken),
         Fresh(p, done, new, woken) \/ Resumes(p, done, new, woken)
  PROVE  IInv'
<1>0. Base /\ Backed /\ HeadTooBig /\ BucketAssumption
  BY DEF IInv, Base
<1>1. Types' /\ Records'
  BY <1>0, TurnStates
<1>2. StatesOK'
  BY <1>0, TurnStateOK
<1>3. Backed'
  BY <1>0, TurnBacked
<1>4. HeadTooBig'
  BY <1>0, TurnHead
<1> QED BY <1>0, <1>1, <1>2, <1>3, <1>4 DEF IInv, Base

\* The invariant through any other step.
LEMMA QuietIInv ==
  ASSUME IInv, Quiet, StatesOK'
  PROVE  IInv'
<1>0. Base /\ Backed /\ HeadTooBig /\ BucketAssumption
  BY DEF IInv, Base
<1>1. Types' /\ Records' /\ Backed' /\ HeadTooBig'
  BY <1>0, QuietStep
<1> QED BY <1>0, <1>1 DEF IInv, Base

\* The steps without an exchange are quiet.
LEMMA ElsewhereStep ==
  ASSUME Base, Elsewhere
  PROVE  Quiet /\ StatesOK'
<1>1. Sleep => Quiet /\ StatesOK'
  BY SleepStep
<1>2. LoopStep => Quiet /\ StatesOK'
  BY LoopStepStep
<1>3. \A p \in Procs : SleepReturn(p) => Quiet /\ StatesOK'
  BY SleepReturnStep
<1>4. \A p \in Procs : Kill(p) => Quiet /\ StatesOK'
  BY KillStep
<1>5. \A p \in Procs : Terminate(p) => Quiet /\ StatesOK'
  BY TerminateStep
<1>6. \A p \in Procs : Fire(p) => Quiet /\ StatesOK'
  BY FireStep
<1> QED BY <1>1, <1>2, <1>3, <1>4, <1>5, <1>6 DEF Elsewhere

LEMMA NextIInv == IInv /\ [Next]_vars => IInv'
<1> SUFFICES ASSUME IInv, [Next]_vars PROVE IInv'
  OBVIOUS
<1>0. Base /\ BucketAssumption
  BY DEF IInv, Base
<1>1. ASSUME NEW items \in Lists, NEW every, AtOnce(items, every) PROVE IInv'
  <2>1. PICK p \in Procs : \E done, off, o, woken :
          Turn(p, done, <<>>, off, o, woken) /\ Fresh(p, done, <<>>, woken)
    BY <1>0, <1>1, AtOnceProps
  <2>2. PICK done, off, o, woken :
          Turn(p, done, <<>>, off, o, woken) /\ Fresh(p, done, <<>>, woken)
    BY <2>1
  <2> QED BY <2>2, TurnIInv
<1>2. ASSUME NEW op \in {"direct", "cond"}, NEW items \in Lists,
             NEW every \in BOOLEAN, NEW timed \in BOOLEAN,
             op = "direct" => (\E i \in Items : items = <<i>>) /\ every /\ ~timed,
             Blocks(op, items, every, timed)
      PROVE  IInv'
  <2>1. PICK p \in Procs : \E done, new, o, woken :
          Turn(p, done, new, <<>>, o, woken) /\ Fresh(p, done, new, woken)
    BY <1>0, <1>2, BlocksProps
  <2>2. PICK done, new, o, woken :
          Turn(p, done, new, <<>>, o, woken) /\ Fresh(p, done, new, woken)
    BY <2>1
  <2> QED BY <2>2, TurnIInv
<1>3. ASSUME NEW p \in Procs, Return(p) PROVE IInv'
  <2>1. PICK done, off, o, woken :
          Turn(p, done, <<>>, off, o, woken) /\ Resumes(p, done, <<>>, woken)
    BY <1>0, <1>3, ReturnProps
  <2> QED BY <2>1, TurnIInv
<1>4. ASSUME NEW p \in Procs, Again(p) PROVE IInv'
  <2>1. PICK done, o, woken :
          Turn(p, done, <<>>, <<>>, o, woken) /\ Resumes(p, done, <<>>, woken)
    BY <1>0, <1>4, AgainProps
  <2> QED BY <2>1, TurnIInv
<1>5. ASSUME Elsewhere PROVE IInv'
  <2>1. Quiet /\ StatesOK'
    BY <1>0, <1>5, ElsewhereStep
  <2> QED BY <2>1, QuietIInv
<1>6. ASSUME UNCHANGED vars PROVE IInv'
  <2>1. /\ st' = st /\ cur' = cur /\ UNCHANGED <<timer, call, bucketVars, history>>
    BY <1>6 DEF vars, schedVars
  <2>2. Quiet /\ StatesOK'
    BY <1>0, <2>1, ControlStep
  <2> QED BY <2>2, QuietIInv
<1>7. \A i \in Items : <<i>> \in Lists
  BY DEF Lists
<1>8. \A w \in Waits : w.items \in Lists /\ w.every \in BOOLEAN /\ w.timed \in BOOLEAN
  BY <1>0 DEF Lists, BucketAssumption
<1>9. ASSUME NEW i \in Items, AtOnce(<<i>>, TRUE) \/ Blocks("direct", <<i>>, TRUE, FALSE)
      PROVE  IInv'
  BY <1>1, <1>2, <1>7, <1>9
<1>10. ASSUME NEW w \in Waits, AtOnce(w.items, w.every) \/ Blocks("cond", w.items, w.every, w.timed)
       PROVE  IInv'
  BY <1>1, <1>2, <1>8, <1>10
<1> QED BY <1>3, <1>4, <1>5, <1>6, <1>9, <1>10 DEF Next

LEMMA AlwaysIInv == BucketAssumption /\ Spec => []IInv
BY InitIInv, NextIInv, PTL DEF Spec

-----------------------------------------------------------------------------

LEMMA PromisesHold == IInv => PromisesKept
<1> SUFFICES ASSUME IInv, NEW b \in Buckets, b \notin barged PROVE level[b] \in 0..Capacity[b]
  BY DEF PromisesKept
<1>1. Base /\ Backed /\ BucketAssumption /\ Types
  BY DEF IInv, Base
<1>2. \A side \in Sides : <<b, side>> \in Places
  BY DEF Places
<1>3. "get" \in Sides /\ "put" \in Sides
  BY DEF Sides
<1> DEFINE x == Claim(<<b, "get">>)
           y == Claim(<<b, "put">>)
<1>4. x \in Nat /\ y \in Nat
  BY <1>1, <1>2, <1>3, ClaimProps
<1>5. Fits(b, level[b], "get", x) /\ Fits(b, level[b], "put", y)
  BY <1>1, <1>3 DEF Backed
<1>6. Capacity[b] \in Nat /\ level[b] \in Int
  BY <1>1 DEF BucketAssumption, ValidBucket, Types
<1> HIDE DEF x, y
<1>7. x <= level[b] /\ y + level[b] <= Capacity[b]
  BY <1>5 DEF Fits
<1> QED BY <1>4, <1>6, <1>7

\* The level of a bucket stays between zero and its capacity, whatever the
\* processes do, as long as no one gets or puts before those that were unblocked
\* have resumed, see PromisesKept: get(), put() and the departures do not look at
\* the level again.
THEOREM PromisesAlwaysKept == BucketAssumption /\ Spec => []PromisesKept
BY PromisesHold, AlwaysIInv, PTL

LEMMA NoneLeft == IInv => NoneLeftBlocked
<1> SUFFICES ASSUME IInv, NEW pl \in Places, pl \notin left, pl \notin abandoned,
                    pl[1] \notin Promised, queue[pl] # <<>>
             PROVE  \E o \in Orders(pl) : ~Fits(pl[1], level[pl[1]], pl[2], amount[pl][o[1]])
  BY DEF NoneLeftBlocked
<1>1. Base /\ HeadTooBig
  BY DEF IInv
<1>2. PICK o \in Orders(pl) : ~Fits(pl[1], level[pl[1]], pl[2], Claim(pl) + amount[pl][o[1]])
  BY <1>1 DEF HeadTooBig
<1>3. Credited(pl) = {}
  <2>1. pl \notin PromisedAt
    BY DEF Promised
  <2> QED BY <2>1 DEF PromisedAt, Credited
<1>4. Claim(pl) = 0
  BY <1>1, <1>3, ClaimProps
<1>5. amount[pl][o[1]] \in Nat
  <2>1. /\ queue[pl] \in Seq(Procs) /\ IsInjective(queue[pl]) /\ Qdis[pl] \in Disciplines
        /\ Summable(amount[pl], ToSet(queue[pl]))
    BY <1>1, QueueProps DEF Base
  <2>2. o \in Seq(Procs) /\ ToSet(o) = ToSet(queue[pl]) /\ Len(o) = Len(queue[pl])
    BY <2>1, OrderProps DEF Orders
  <2>3. 1 \in DOMAIN o
    BY <2>1, <2>2
  <2>4. o[1] \in ToSet(queue[pl])
    BY <2>2, <2>3 DEF ToSet
  <2> QED BY <2>1, <2>4 DEF Summable
<1>6. Claim(pl) + amount[pl][o[1]] = amount[pl][o[1]]
  BY <1>4, <1>5
<1> QED BY <1>2, <1>6

\* Nobody sleeps on what it could get or put: once those that were unblocked have
\* resumed, the one that is next in a queue cannot be satisfied.  So one scan of
\* the queue, at each get and put, wakes everyone that can be served.
THEOREM NeverLeftBlocked == BucketAssumption /\ Spec => []NoneLeftBlocked
BY NoneLeft, AlwaysIInv, PTL

\* No one has a record that belongs to no call, except for the processes of extra.
Own(extra) == \A p \in Procs, pl \in Places :
                p \in DOMAIN amount[pl] => Due(p, pl) \/ p \in extra[pl]

\* The same after a step, where p has none of those left at the places of P.
OwnNext(extra, p, P) ==
  \A q \in Procs, pl \in Places :
    q \in DOMAIN amount'[pl] => Due(q, pl)' \/ (q \in extra[pl] /\ ~(q = p /\ pl \in P))

LEMMA TurnOwn ==
  ASSUME Base, NEW p \in Procs, NEW done, NEW new, NEW off, NEW o, NEW woken,
         Turn(p, done, new, off, o, woken), NEW extra, Own(extra)
  PROVE  OwnNext(extra, p, PlacesOf(done) \cup PlacesOf(new) \cup PlacesOf(off))
<1> SUFFICES ASSUME NEW q \in Procs, NEW pl \in Places, q \in DOMAIN amount'[pl]
             PROVE  \/ Due(q, pl)'
                    \/ /\ q \in extra[pl]
                       /\ ~(q = p /\ pl \in PlacesOf(done) \cup PlacesOf(new) \cup PlacesOf(off))
  BY DEF OwnNext
<1>1. Exchanged(p, done, new, off, woken)
  BY TurnStates
<1>2. \/ /\ q \in DOMAIN amount[pl]
         /\ ~(q = p /\ pl \in PlacesOf(done) \cup PlacesOf(off))
      \/ q = p /\ pl \in PlacesOf(new)
  BY <1>1 DEF Exchanged
<1>3. /\ pl \in PlacesOf(new) => Due(p, pl)'
      /\ Due(p, pl) /\ pl \notin PlacesOf(done) /\ pl \notin PlacesOf(off) => Due(p, pl)'
  BY DEF Turn
<1>4. q # p => (Due(q, pl)' <=> Due(q, pl))
  <2>1. q # p => call'[q] = call[q]
    BY DEF Turn
  <2> QED BY <2>1 DEF Due, InWait
<1>5. q \in DOMAIN amount[pl] => Due(q, pl) \/ q \in extra[pl]
  BY DEF Own
<1> QED BY <1>2, <1>3, <1>4, <1>5

\* A call of user code leaves no other record at the places of its items.
LEMMA FreshOwn ==
  ASSUME Base, NEW items \in Lists, NEW extra, Own(extra),
         \/ \E every : AtOnce(items, every)
         \/ \E op \in {"direct", "cond"}, every \in BOOLEAN, timed \in BOOLEAN :
              /\ op = "direct" => (\E i \in Items : items = <<i>>) /\ every /\ ~timed
              /\ Blocks(op, items, every, timed)
  PROVE  OwnNext(extra, cur, PlacesOf(items))
<1>1. PlacesOf(items) \subseteq PlacesOf(Fitting(items)) \cup PlacesOf(Lacking(items))
  BY FittingProps DEF Base
<1>2. ASSUME NEW every, AtOnce(items, every) PROVE OwnNext(extra, cur, PlacesOf(items))
  <2>1. PICK p \in Procs : \E done, off, o, woken :
          /\ p = cur /\ done = Fitting(items) /\ off = Lacking(items)
          /\ Turn(p, done, <<>>, off, o, woken)
    BY <1>2, AtOnceProps
  <2>2. PICK done, off, o, woken :
          /\ p = cur /\ done = Fitting(items) /\ off = Lacking(items)
          /\ Turn(p, done, <<>>, off, o, woken)
    BY <2>1
  <2>3. OwnNext(extra, p, PlacesOf(done) \cup PlacesOf(<<>>) \cup PlacesOf(off))
    BY <2>2, TurnOwn
  <2> QED BY <1>1, <2>2, <2>3 DEF OwnNext
<1>3. ASSUME NEW op \in {"direct", "cond"}, NEW every \in BOOLEAN, NEW timed \in BOOLEAN,
             op = "direct" => (\E i \in Items : items = <<i>>) /\ every /\ ~timed,
             Blocks(op, items, every, timed)
      PROVE  OwnNext(extra, cur, PlacesOf(items))
  <2>1. PICK p \in Procs : \E done, new, o, woken :
          /\ p = cur /\ done = Fitting(items) /\ new = Lacking(items)
          /\ Turn(p, done, new, <<>>, o, woken)
    BY <1>3, BlocksProps
  <2>2. PICK done, new, o, woken :
          /\ p = cur /\ done = Fitting(items) /\ new = Lacking(items)
          /\ Turn(p, done, new, <<>>, o, woken)
    BY <2>1
  <2>3. OwnNext(extra, p, PlacesOf(done) \cup PlacesOf(new) \cup PlacesOf(<<>>))
    BY <2>2, TurnOwn
  <2> QED BY <1>1, <2>2, <2>3 DEF OwnNext
<1> QED BY <1>2, <1>3

\* Neither does any other step leave a record that belongs to no call.
LEMMA OtherOwn ==
  ASSUME Base, NEW extra, Own(extra),
         (\E p \in Procs : Return(p) \/ Again(p)) \/ Elsewhere \/ UNCHANGED vars
  PROVE  OwnNext(extra, cur, {})
<1>1. ASSUME NEW p \in Procs, NEW done, NEW new, NEW off, NEW o, NEW woken,
             Turn(p, done, new, off, o, woken)
      PROVE  OwnNext(extra, cur, {})
  <2>1. OwnNext(extra, p, PlacesOf(done) \cup PlacesOf(new) \cup PlacesOf(off))
    BY <1>1, TurnOwn
  <2> QED BY <2>1 DEF OwnNext
<1>2. ASSUME NEW p \in Procs, Return(p) PROVE OwnNext(extra, cur, {})
  <2>1. PICK done, off, o, woken : Turn(p, done, <<>>, off, o, woken)
    BY <1>2, ReturnProps
  <2> QED BY <1>1, <2>1
<1>3. ASSUME NEW p \in Procs, Again(p) PROVE OwnNext(extra, cur, {})
  <2>1. PICK done, o, woken : Turn(p, done, <<>>, <<>>, o, woken)
    BY <1>3, AgainProps
  <2> QED BY <1>1, <2>1
<1>4. ASSUME Quiet PROVE OwnNext(extra, cur, {})
  <2>1. amount' = amount
    BY <1>4 DEF Quiet, bucketVars
  <2>2. \A q \in Procs, pl \in Places : Due(q, pl)' <=> Due(q, pl)
    BY <1>4 DEF Quiet, Due
  <2> QED BY <2>1, <2>2 DEF Own, OwnNext
<1>5. Elsewhere => Quiet
  BY ElsewhereStep
<1>6. UNCHANGED vars => Quiet
  <2> SUFFICES ASSUME UNCHANGED vars PROVE Quiet
    OBVIOUS
  <2>1. /\ st' = st /\ cur' = cur /\ UNCHANGED <<timer, call, bucketVars, history>>
    BY DEF vars, schedVars
  <2> QED BY <2>1, ControlStep
<1> QED BY <1>2, <1>3, <1>4, <1>5, <1>6

NoExtra == [pl \in Places |-> {}]

LEMMA NextOwn == IInv /\ Own(NoExtra) /\ [Next]_vars => Own(NoExtra)'
<1> SUFFICES ASSUME IInv, Own(NoExtra), [Next]_vars PROVE Own(NoExtra)'
  OBVIOUS
<1>0. Base /\ BucketAssumption
  BY DEF IInv, Base
<1>1. ASSUME NEW p, NEW P, OwnNext(NoExtra, p, P) PROVE Own(NoExtra)'
  BY <1>1 DEF Own, OwnNext, NoExtra
<1>2. \A i \in Items : <<i>> \in Lists
  BY DEF Lists
<1>3. \A w \in Waits : w.items \in Lists /\ w.every \in BOOLEAN /\ w.timed \in BOOLEAN
  BY <1>0 DEF Lists, BucketAssumption
<1>4. ASSUME NEW i \in Items, AtOnce(<<i>>, TRUE) \/ Blocks("direct", <<i>>, TRUE, FALSE)
      PROVE  Own(NoExtra)'
  <2>1. OwnNext(NoExtra, cur, PlacesOf(<<i>>))
    BY <1>0, <1>2, <1>4, FreshOwn
  <2> QED BY <1>1, <2>1
<1>5. ASSUME NEW w \in Waits, AtOnce(w.items, w.every) \/ Blocks("cond", w.items, w.every, w.timed)
      PROVE  Own(NoExtra)'
  <2>1. OwnNext(NoExtra, cur, PlacesOf(w.items))
    BY <1>0, <1>3, <1>5, FreshOwn
  <2> QED BY <1>1, <2>1
<1>6. (\E p \in Procs : Return(p) \/ Again(p)) \/ Elsewhere \/ UNCHANGED vars => Own(NoExtra)'
  BY <1>0, <1>1, OtherOwn
<1> QED BY <1>4, <1>5, <1>6 DEF Next

\* What the invariant says of the queues and the records.
LEMMA CallsMatch ==
  ASSUME IInv, NEW extra, Own(extra)
  PROVE  QueuesMatchCallsBut(extra)
<1> SUFFICES ASSUME NEW p \in Procs, NEW pl \in Places, S!Live(p)
             PROVE  /\ Due(p, pl) => p \in DOMAIN amount[pl]
                    /\ p \in DOMAIN amount[pl] => Due(p, pl) \/ p \in extra[pl]
                    /\ Due(p, pl) => \E k \in DOMAIN call[p].items :
                         Place(call[p].items[k]) = pl /\ call[p].items[k].amt = amount[pl][p]
                    /\ Cardinality({k \in DOMAIN queue[pl] : queue[pl][k] = p}) =
                         IF Due(p, pl) /\ ~Contains(acting[p], pl) THEN 1 ELSE 0
                    /\ Contains(acting[p], pl) => Due(p, pl) /\ st[p] = "running"
  BY DEF QueuesMatchCallsBut, Due
<1>1. Recorded(p, pl) /\ StateOK(p)
  BY DEF IInv, Base, Records, StatesOK
<1>2. queue[pl] \in Seq(Procs) /\ IsInjective(queue[pl])
  BY DEF IInv, Base, Types
<1>3. Cardinality({k \in DOMAIN queue[pl] : queue[pl][k] = p}) =
        IF p \in ToSet(queue[pl]) THEN 1 ELSE 0
  <2>1. CASE p \in ToSet(queue[pl])
    <3>1. PICK k \in DOMAIN queue[pl] : queue[pl][k] = p
      BY <2>1 DEF ToSet
    <3>2. {l \in DOMAIN queue[pl] : queue[pl][l] = p} = {k}
      BY <1>2, <3>1 DEF IsInjective
    <3> QED BY <2>1, <3>2, FS_Singleton
  <2>2. CASE p \notin ToSet(queue[pl])
    <3>1. {l \in DOMAIN queue[pl] : queue[pl][l] = p} = {}
      BY <2>2 DEF ToSet
    <3> QED BY <2>2, <3>1, FS_EmptySet
  <2> QED BY <2>1, <2>2
<1>4. p \in ToSet(queue[pl]) <=> Due(p, pl) /\ ~Contains(acting[p], pl)
  BY <1>1 DEF Recorded
<1>5. Contains(acting[p], pl) => Due(p, pl) /\ st[p] = "running"
  BY <1>1 DEF Recorded, StateOK
<1>6. p \in DOMAIN amount[pl] => Due(p, pl) \/ p \in extra[pl]
  BY DEF Own
<1> QED BY <1>1, <1>3, <1>4, <1>5, <1>6 DEF Recorded

\* The queues, the records of arrivals and the calls of the live processes always
\* agree, through every timeout, kill and partial grant of a conditional wait.
THEOREM QueuesAlwaysMatchCalls == BucketAssumption /\ Spec => []QueuesMatchCalls
<1>1. Init => Own(NoExtra)
  BY DEF Init, InitStats, Own
<1>2. IInv /\ Own(NoExtra) => QueuesMatchCalls
  BY CallsMatch DEF QueuesMatchCalls, NoExtra
<1> QED BY <1>1, <1>2, NextOwn, AlwaysIInv, PTL DEF Spec

-----------------------------------------------------------------------------
(* Stores *)

\* A store is a bucket at every step: what happens to the objects is added to it.
\* A put that is refused is not one of the steps of a bucket.
LEMMA StoresAreBuckets ==
  ASSUME [StoreNext]_storeVars
  PROVE  [Next]_vars \/ \E items \in Lists : Refuse(items)
<1>1. \A i \in Items : <<i>> \in Lists
  BY DEF Lists
<1>2. \A w \in Waits : w.items \in Lists
  BY DEF Lists
<1>3. CASE \E i \in Items : Get(i) \/ Put(i)
  BY <1>1, <1>3 DEF Get, Put, StoreAtOnce, StoreBlocks, Next
<1>4. CASE \E w \in Waits : Wait(w)
  BY <1>2, <1>4 DEF Wait, StoreAtOnce, StoreBlocks, Next
<1>5. CASE \E p \in Procs : StoreReturn(p) \/ StoreAgain(p)
  BY <1>5 DEF StoreReturn, StoreAgain, Next
<1>6. CASE StoreElsewhere
  BY <1>6 DEF StoreElsewhere, Next
<1>7. CASE UNCHANGED storeVars
  BY <1>7 DEF storeVars
<1> QED BY <1>3, <1>4, <1>5, <1>6, <1>7 DEF StoreNext, Ended

\* Once a refused call has left its caller in a queue nothing changes.
LEMMA NothingAfter ==
  ASSUME [StoreNext]_storeVars, ~Goes
  PROVE  UNCHANGED storeVars
<1>1. \A items : ~Arrive(items) /\ ~Refuse(items)
  BY DEF Arrive, Refuse
<1> QED BY <1>1 DEF StoreNext, Ended, Get, Put, Wait, StoreAtOnce, StoreBlocks, StoreReturn, StoreAgain,
                    StoreElsewhere

\* What a refused call of p leaves: records at the places tried, and p in the
\* queues where it was blocked.
Refusal(p, tried, blocked) ==
  /\ Goes /\ p = cur /\ InProcess
  /\ UNCHANGED <<schedVars, timer, call, level, acting, history>>
  /\ UNCHANGED <<objs, offer, made, taken, dropped, failed>>
  /\ \A pl \in Places, q \in Procs :
       /\ q \in DOMAIN amount'[pl] <=> q \in DOMAIN amount[pl] \/ (q = p /\ pl \in tried)
       /\ q \in DOMAIN amount[pl] /\ q # p => amount'[pl][q] = amount[pl][q]
  /\ \A pl \in Places : queue'[pl] = IF pl \in blocked THEN Append(queue[pl], p) ELSE queue[pl]
  /\ \A pl \in Places \cap blocked : ~Fits(pl[1], level[pl[1]], pl[2], amount'[pl][p])
  /\ \A pl \in Places : stale'[pl] = IF pl \in tried THEN stale[pl] \cup {p} ELSE stale[pl]
  /\ raised' <=> blocked # {}
  /\ \A b \in Buckets : \/ mode'[b] = mode[b]
                        \/ mode[b] = "undecided" /\ mode'[b] \in {"plain", "objects"}

LEMMA RefuseProps ==
  ASSUME BucketAssumption, NEW items \in Lists, Refuse(items)
  PROVE  \E p \in Procs : \E tried, blocked : Refusal(p, tried, blocked)
<1>1. PICK n \in DOMAIN items :
        LET before == SubSeq(items, 1, n - 1)
            blocked == PlacesOf(Lacking(before))
        IN /\ Goes /\ InProcess
           /\ amount' = [pl \in Places |->
                           LET here == {k \in 1..n : Place(items[k]) = pl}
                           IN IF here = {} THEN amount[pl]
                              ELSE [q \in DOMAIN amount[pl] \cup {cur} |->
                                      IF q = cur THEN items[CHOOSE k \in here : TRUE].amt
                                      ELSE amount[pl][q]]]
           /\ queue' = [pl \in Places |-> IF pl \in blocked THEN Append(queue[pl], cur)
                                          ELSE queue[pl]]
           /\ mode' = Decided(before)
           /\ stale' = [pl \in Places |-> IF pl \in PlacesOf(SubSeq(items, 1, n)) THEN stale[pl] \cup {cur}
                                          ELSE stale[pl]]
           /\ raised' = (blocked # {})
           /\ UNCHANGED <<schedVars, timer, call, level, acting, history,
                          objs, offer, made, taken, dropped, failed>>
  BY DEF Refuse
<1>2. PICK p \in Procs : p = cur
  BY <1>1 DEF InProcess
<1> DEFINE before == SubSeq(items, 1, n - 1)
           tried == PlacesOf(SubSeq(items, 1, n))
           blocked == PlacesOf(Lacking(before))
<1>3. ListOK(items) /\ items \in Seq(ToSet(items)) /\ n \in 1..Len(items) /\ Len(items) \in Nat
  BY ListsOK DEF ListOK
<1>4. /\ DOMAIN before = 1..(n - 1) /\ \A k \in 1..(n - 1) : before[k] = items[k]
      /\ DOMAIN SubSeq(items, 1, n) = 1..n /\ \A k \in 1..n : SubSeq(items, 1, n)[k] = items[k]
      /\ 1..(n - 1) \subseteq 1..n /\ 1..n \subseteq DOMAIN items
      /\ Len(before) = n - 1
  BY <1>3
<1>5. tried = {Place(items[k]) : k \in 1..n}
  BY <1>4 DEF PlacesOf
<1>6. \A k, l \in 1..n : Place(items[k]) = Place(items[l]) => k = l
  BY <1>3, <1>4, ItemProps
<1>7. ListOK(before)
  <2> HIDE DEF before
  <2>1. before \in Seq(ToSet(before))
    <3>1. before \in Seq(ToSet(items))
      BY <1>3 DEF before
    <3>2. \A k \in 1..Len(before) : before[k] \in ToSet(before)
      BY <1>3, <1>4 DEF ToSet
    <3> QED BY <3>1, <3>2
  <2> QED BY <1>3, <1>4, <2>1 DEF ListOK
<1>8. \A pl \in blocked : \E k \in 1..(n - 1) : Place(items[k]) = pl /\ ~FitsNow(items[k])
  <2> DEFINE L == {k \in DOMAIN before : ~FitsNow(before[k])}
  <2> HIDE DEF before
  <2>1. L \in SUBSET DOMAIN before /\ Lacking(before) = S!AtPlaces(before, L)
    BY DEF Lacking
  <2> HIDE DEF L
  <2>2. PlacesOf(Lacking(before)) = {Place(before[k]) : k \in L}
    BY <1>7, <2>1, PartOK
  <2> QED BY <1>4, <2>2 DEF L
<1> HIDE DEF before, tried, blocked
<1>9. ASSUME NEW pl \in Places
      PROVE  /\ pl \notin tried => amount'[pl] = amount[pl]
             /\ pl \in tried => DOMAIN amount'[pl] = DOMAIN amount[pl] \cup {p}
             /\ \A q \in DOMAIN amount[pl] : q # p => amount'[pl][q] = amount[pl][q]
             /\ \A k \in 1..n : Place(items[k]) = pl => amount'[pl][p] = items[k].amt
  <2> DEFINE here == {k \in 1..n : Place(items[k]) = pl}
             f == [q \in DOMAIN amount[pl] \cup {p} |-> IF q = p THEN items[CHOOSE k \in here : TRUE].amt
                                                       ELSE amount[pl][q]]
  <2>1. amount'[pl] = IF here = {} THEN amount[pl] ELSE f
    BY <1>1, <1>2
  <2>2. here = {} <=> pl \notin tried
    BY <1>5
  <2>3. ASSUME NEW k \in 1..n, Place(items[k]) = pl PROVE (CHOOSE l \in here : TRUE) = k
    <3>1. here = {k}
      BY <1>6, <2>3
    <3> QED BY <3>1
  <2>4. /\ DOMAIN f = DOMAIN amount[pl] \cup {p}
        /\ \A q \in DOMAIN amount[pl] : q # p => f[q] = amount[pl][q]
        /\ f[p] = items[CHOOSE k \in here : TRUE].amt
    OBVIOUS
  <2>5. \A k \in 1..n : Place(items[k]) = pl => here # {}
    OBVIOUS
  <2> HIDE DEF f, here
  <2> QED BY <2>1, <2>2, <2>3, <2>4, <2>5
<1>10. ASSUME NEW pl \in Places, pl \in blocked
       PROVE  ~Fits(pl[1], level[pl[1]], pl[2], amount'[pl][p])
  <2>1. PICK k \in 1..(n - 1) : Place(items[k]) = pl /\ ~FitsNow(items[k])
    BY <1>8, <1>10
  <2>2. k \in 1..n /\ amount'[pl][p] = items[k].amt
    BY <1>4, <1>9, <2>1
  <2> QED BY <2>1, <2>2 DEF FitsNow, Place
<1>11. ASSUME NEW b \in Buckets
       PROVE  \/ mode'[b] = mode[b]
              \/ mode[b] = "undecided" /\ mode'[b] \in {"plain", "objects"}
  <2>1. mode' = Decided(before)
    BY <1>1 DEF before
  <2> QED BY <2>1 DEF Decided
<1>12. /\ \A pl \in Places : queue'[pl] = IF pl \in blocked THEN Append(queue[pl], p) ELSE queue[pl]
       /\ \A pl \in Places : stale'[pl] = IF pl \in tried THEN stale[pl] \cup {p} ELSE stale[pl]
       /\ raised' <=> blocked # {}
  BY <1>1, <1>2 DEF before, tried, blocked
<1>13. /\ Goes /\ InProcess
       /\ UNCHANGED <<schedVars, timer, call, level, acting, history>>
       /\ UNCHANGED <<objs, offer, made, taken, dropped, failed>>
  BY <1>1
<1>14. \A pl \in Places, q \in Procs :
         /\ q \in DOMAIN amount'[pl] <=> q \in DOMAIN amount[pl] \/ (q = p /\ pl \in tried)
         /\ q \in DOMAIN amount[pl] /\ q # p => amount'[pl][q] = amount[pl][q]
  BY <1>9
<1>15. Refusal(p, tried, blocked)
  BY <1>2, <1>10, <1>11, <1>12, <1>13, <1>14 DEF Refusal
<1> QED BY <1>15

\* The next in a queue is in the queue.
LEMMA HeadQueued ==
  ASSUME Base, NEW pl \in Places, queue[pl] # <<>>, NEW o \in Orders(pl)
  PROVE  o[1] \in ToSet(queue[pl])
<1>1. queue[pl] \in Seq(Procs) /\ IsInjective(queue[pl]) /\ Qdis[pl] \in Disciplines
  BY QueueProps DEF Base
<1>2. o \in Seq(Procs) /\ ToSet(o) = ToSet(queue[pl]) /\ Len(o) = Len(queue[pl])
  BY <1>1, OrderProps DEF Orders
<1>3. 1 \in DOMAIN o
  BY <1>1, <1>2
<1> QED BY <1>2, <1>3 DEF ToSet

\* Nobody is due where a refused call leaves its record.
LEMMA RefusalStays ==
  ASSUME Base, NEW p \in Procs, NEW tried, NEW blocked, Refusal(p, tried, blocked)
  PROVE  /\ \A pl \in Places : ~Due(p, pl) /\ ~Contains(acting[p], pl) /\ p \notin ToSet(queue[pl])
         /\ \A q \in Procs, pl \in Places : Due(q, pl)' <=> Due(q, pl)
         /\ \A q \in Procs, pl \in Places : Due(q, pl) => amount'[pl][q] = amount[pl][q]
         /\ \A pl \in Places : \A q \in ToSet(queue[pl]) : q \in Procs /\ Due(q, pl)
<1>1. p = cur /\ InProcess /\ call' = call
  BY DEF Refusal
<1>2. \A pl \in Places : ~Due(p, pl) /\ ~Contains(acting[p], pl)
  BY <1>1, IdleProps
<1>3. \A q \in Procs, pl \in Places : Recorded(q, pl)
  BY DEF Base, Records
<1>4. \A pl \in Places : \A q \in ToSet(queue[pl]) : q \in Procs
  BY QueueProps DEF Base
<1>5. \A q \in Procs, pl \in Places : Due(q, pl)' <=> Due(q, pl)
  BY <1>1 DEF Due, InWait
<1>6. \A q \in Procs, pl \in Places : Due(q, pl) => q \in DOMAIN amount[pl] /\ q # p
  BY <1>2, <1>3 DEF Recorded
<1>7. \A q \in Procs, pl \in Places : Due(q, pl) => amount'[pl][q] = amount[pl][q]
  BY <1>6 DEF Refusal
<1> QED BY <1>2, <1>3, <1>4, <1>5, <1>7 DEF Recorded

\* The invariant of the bucket holds on, unless the caller is left in a queue.
LEMMA RefusalIInv ==
  ASSUME IInv, NEW p \in Procs, NEW tried, Refusal(p, tried, {})
  PROVE  IInv'
<1>0. Base /\ Backed /\ HeadTooBig /\ BucketAssumption /\ Types /\ Records /\ StatesOK
  BY DEF IInv, Base
<1>1. /\ st' = st /\ cur' = cur /\ timer' = timer /\ call' = call /\ level' = level /\ acting' = acting
      /\ barged' = barged /\ left' = left /\ abandoned' = abandoned
      /\ \A pl \in Places : queue'[pl] = queue[pl]
      /\ \A pl \in Places, q \in Procs : q \in DOMAIN amount[pl] => q \in DOMAIN amount'[pl]
  BY DEF Refusal, schedVars, history
<1>2. /\ \A pl \in Places : ~Due(p, pl) /\ ~Contains(acting[p], pl) /\ p \notin ToSet(queue[pl])
      /\ \A q \in Procs, pl \in Places : Due(q, pl)' <=> Due(q, pl)
      /\ \A q \in Procs, pl \in Places : Due(q, pl) => amount'[pl][q] = amount[pl][q]
      /\ \A pl \in Places : \A q \in ToSet(queue[pl]) : q \in Procs /\ Due(q, pl)
  BY <1>0, RefusalStays
<1>3. Types'
  BY <1>0, <1>1 DEF Types
<1>4. Records'
  <2> SUFFICES ASSUME NEW q \in Procs, NEW pl \in Places PROVE Recorded(q, pl)'
    BY DEF Records
  <2>1. Recorded(q, pl)
    BY <1>0 DEF Records
  <2>2. /\ Due(q, pl)' <=> Due(q, pl)
        /\ Due(q, pl) => amount'[pl][q] = amount[pl][q]
        /\ queue'[pl] = queue[pl] /\ acting' = acting /\ call' = call
        /\ q \in DOMAIN amount[pl] => q \in DOMAIN amount'[pl]
    BY <1>1, <1>2
  <2> QED BY <2>1, <2>2 DEF Recorded
<1>5. StatesOK'
  <2> SUFFICES ASSUME NEW q \in Procs PROVE StateOK(q)'
    BY DEF StatesOK
  <2>1. StateOK(q)
    BY <1>0 DEF StatesOK
  <2>2. q = cur' /\ InWait(q) => st[q] = "running"
    BY <1>1, <2>1 DEF StateOK
  <2> QED BY <1>1, <2>1, <2>2, StateStays
<1>6. ASSUME NEW pl \in Places PROVE Claim(pl)' = Claim(pl)
  <2>1. Credited(pl)' = Credited(pl)
    BY <1>1 DEF Credited, S!Live
  <2>2. \A q \in Credited(pl) : amount'[pl][q] = amount[pl][q]
    BY <1>0, <1>2, ClaimProps
  <2>3. PICK am : am = amount'[pl]
    OBVIOUS
  <2>4. Sum(am, Credited(pl)) = Sum(amount[pl], Credited(pl))
    BY <2>2, <2>3, SumSame
  <2>5. Claim(pl)' = Sum(am, Credited(pl))
    BY <2>1, <2>3 DEF Claim
  <2> QED BY <2>4, <2>5 DEF Claim
<1>7. Backed'
  <2> SUFFICES ASSUME NEW b \in Buckets, b \notin barged, NEW side \in Sides
               PROVE  Fits(b, level[b], side, Claim(<<b, side>>)')
    BY <1>1 DEF Backed
  <2>1. <<b, side>> \in Places
    BY DEF Places
  <2>2. Claim(<<b, side>>)' = Claim(<<b, side>>)
    BY <1>6, <2>1
  <2> QED BY <1>0, <2>2 DEF Backed
<1>8. HeadTooBig'
  <2> SUFFICES ASSUME NEW pl \in Places, pl \notin left, pl \notin abandoned, queue[pl] # <<>>
               PROVE  \E o \in Orders(pl)' :
                        ~Fits(pl[1], level[pl[1]], pl[2], Claim(pl)' + amount'[pl][o[1]])
    BY <1>1 DEF HeadTooBig
  <2>1. PICK o \in Orders(pl) : ~Fits(pl[1], level[pl[1]], pl[2], Claim(pl) + amount[pl][o[1]])
    BY <1>0 DEF HeadTooBig
  <2>2. Orders(pl)' = Orders(pl)
    BY <1>1 DEF Orders
  <2>3. o[1] \in ToSet(queue[pl])
    BY <1>0, HeadQueued
  <2>4. amount'[pl][o[1]] = amount[pl][o[1]]
    BY <1>2, <2>3
  <2> QED BY <1>6, <2>1, <2>2, <2>4
<1> QED BY <1>0, <1>3, <1>4, <1>5, <1>7, <1>8 DEF IInv, Base

\* Where the caller of a refused call is left in a queue, no one in it is left
\* blocked by that.
LEMMA RefusalHead ==
  ASSUME IInv, NoneLeftBlocked, NEW p \in Procs, NEW tried, NEW blocked, Refusal(p, tried, blocked)
  PROVE  NoneLeftBlocked'
<1>0. Base /\ BucketAssumption /\ Types
  BY DEF IInv, Base
<1>1. /\ st' = st /\ level' = level /\ acting' = acting /\ left' = left /\ abandoned' = abandoned
      /\ \A pl \in Places : queue'[pl] = IF pl \in blocked THEN Append(queue[pl], p) ELSE queue[pl]
      /\ \A pl \in Places \cap blocked : ~Fits(pl[1], level[pl[1]], pl[2], amount'[pl][p])
  BY DEF Refusal, schedVars, history
<1>2. /\ \A pl \in Places : p \notin ToSet(queue[pl])
      /\ \A q \in Procs, pl \in Places : Due(q, pl) => amount'[pl][q] = amount[pl][q]
      /\ \A pl \in Places : \A q \in ToSet(queue[pl]) : q \in Procs /\ Due(q, pl)
  BY <1>0, RefusalStays
<1>3. Promised' = Promised
  <2>1. PromisedAt' = PromisedAt
    BY <1>1 DEF PromisedAt, S!Live
  <2> QED BY <2>1 DEF Promised
<1> SUFFICES ASSUME NEW pl \in Places, pl \notin left, pl \notin abandoned, pl[1] \notin Promised,
                    queue'[pl] # <<>>
             PROVE  \E o \in OrdersOf(Qdis[pl], queue'[pl]) :
                      ~Fits(pl[1], level[pl[1]], pl[2], amount'[pl][o[1]])
  BY <1>1, <1>3 DEF NoneLeftBlocked, Orders
<1>4. queue[pl] \in Seq(Procs) /\ IsInjective(queue[pl]) /\ Qdis[pl] \in Disciplines
  BY <1>0, QueueProps DEF Base
<1>5. ASSUME queue[pl] # <<>>
      PROVE  \E o \in OrdersOf(Qdis[pl], queue[pl]) :
               ~Fits(pl[1], level[pl[1]], pl[2], amount'[pl][o[1]])
  <2>1. PICK o \in Orders(pl) : ~Fits(pl[1], level[pl[1]], pl[2], amount[pl][o[1]])
    BY <1>5 DEF NoneLeftBlocked
  <2>2. o[1] \in ToSet(queue[pl])
    BY <1>0, <1>5, HeadQueued
  <2>3. amount'[pl][o[1]] = amount[pl][o[1]]
    BY <1>2, <2>2
  <2> QED BY <2>1, <2>3 DEF Orders
<1>6. CASE pl \notin blocked
  BY <1>1, <1>5, <1>6
<1>7. CASE pl \in blocked
  <2>1. queue'[pl] = Append(queue[pl], p) /\ ~Fits(pl[1], level[pl[1]], pl[2], amount'[pl][p])
    BY <1>1, <1>7
  <2>2. CASE queue[pl] = <<>>
    <3>1. PICK o : o \in OrdersOf(Qdis[pl], queue[pl])
      BY <1>4, <2>2, NoneOrder
    <3>2. PICK e \in OrdersOf(Qdis[pl], Append(queue[pl], p)) :
            e[1] = p \/ (queue[pl] # <<>> /\ e[1] = o[1])
      BY <1>0, <1>2, <1>4, <3>1, OrderAppend DEF BucketAssumption
    <3> QED BY <2>1, <2>2, <3>2
  <2>3. CASE queue[pl] # <<>>
    <3>1. PICK o \in OrdersOf(Qdis[pl], queue[pl]) :
            ~Fits(pl[1], level[pl[1]], pl[2], amount'[pl][o[1]])
      BY <1>5, <2>3
    <3>2. PICK e \in OrdersOf(Qdis[pl], Append(queue[pl], p)) : e[1] = p \/ e[1] = o[1]
      BY <1>0, <1>2, <1>4, OrderAppend DEF BucketAssumption
    <3> QED BY <2>1, <3>1, <3>2
  <2> QED BY <2>2, <2>3
<1> QED BY <1>6, <1>7

\* What holds of the buckets of stores: their invariant as long as no refused call
\* has left its caller in a queue, with records of refused calls, and what they
\* promise even then.
Running == ~raised => IInv /\ Own(stale)
BucketsOK == Running /\ PromisesKept /\ NoneLeftBlocked

LEMMA StoreOwn ==
  ASSUME IInv, Own(stale), [StoreNext]_storeVars, \A items \in Lists : ~Refuse(items)
  PROVE  Own(stale)' /\ raised' = raised
<1>0. Base /\ BucketAssumption
  BY DEF IInv, Base
<1>1. PICK x : x = stale
  OBVIOUS
<1>2. Own(x)
  BY <1>1
<1>3. ASSUME NEW items \in Lists, Arrive(items), OwnNext(x, cur, PlacesOf(items))
      PROVE  Own(stale)' /\ raised' = raised
  <2>1. /\ \A pl \in Places : stale'[pl] = IF pl \in PlacesOf(items) THEN x[pl] \ {cur} ELSE x[pl]
        /\ raised' = raised
    BY <1>1, <1>3 DEF Arrive
  <2>2. ASSUME NEW q \in Procs, NEW pl \in Places, q \in DOMAIN amount'[pl]
        PROVE  Due(q, pl)' \/ q \in stale'[pl]
    BY <1>3, <2>1, <2>2 DEF OwnNext
  <2> QED BY <2>1, <2>2 DEF Own
<1>4. ASSUME OwnNext(x, cur, {}), stale' = stale, raised' = raised
      PROVE  Own(stale)' /\ raised' = raised
  BY <1>1, <1>4 DEF Own, OwnNext
<1>5. /\ \A i \in Items : <<i>> \in Lists
      /\ \A w \in Waits : w.items \in Lists /\ w.every \in BOOLEAN /\ w.timed \in BOOLEAN
  BY <1>0 DEF Lists, BucketAssumption
<1>6. ASSUME NEW i \in Items, Get(i) \/ Put(i) PROVE Own(stale)' /\ raised' = raised
  <2>1. /\ Arrive(<<i>>)
        /\ AtOnce(<<i>>, TRUE) \/ Blocks("direct", <<i>>, TRUE, FALSE)
    BY <1>5, <1>6 DEF Get, Put, StoreAtOnce, StoreBlocks
  <2>2. OwnNext(x, cur, PlacesOf(<<i>>))
    BY <1>0, <1>2, <1>5, <2>1, FreshOwn
  <2> QED BY <1>3, <1>5, <2>1, <2>2
<1>7. ASSUME NEW w \in Waits, Wait(w) PROVE Own(stale)' /\ raised' = raised
  <2>1. /\ Arrive(w.items)
        /\ AtOnce(w.items, w.every) \/ Blocks("cond", w.items, w.every, w.timed)
    BY <1>5, <1>7 DEF Wait, StoreAtOnce, StoreBlocks
  <2>2. OwnNext(x, cur, PlacesOf(w.items))
    BY <1>0, <1>2, <1>5, <2>1, FreshOwn
  <2> QED BY <1>3, <1>5, <2>1, <2>2
<1>8. ASSUME (\E p \in Procs : StoreReturn(p) \/ StoreAgain(p)) \/ StoreElsewhere \/ UNCHANGED storeVars
      PROVE  Own(stale)' /\ raised' = raised
  <2>1. /\ (\E p \in Procs : Return(p) \/ Again(p)) \/ Elsewhere \/ UNCHANGED vars
        /\ stale' = stale /\ raised' = raised
    BY <1>8 DEF StoreReturn, StoreAgain, StoreElsewhere, storeVars, refusalVars
  <2>2. OwnNext(x, cur, {})
    BY <1>0, <1>2, <2>1, OtherOwn
  <2> QED BY <1>4, <2>1, <2>2
<1> QED BY <1>6, <1>7, <1>8 DEF StoreNext, Ended

LEMMA NextPromises == IInv' => PromisesKept' /\ NoneLeftBlocked'
BY PromisesHold, NoneLeft, PTL

LEMMA StoreNextRuns == BucketsOK /\ [StoreNext]_storeVars => BucketsOK'
<1> SUFFICES ASSUME BucketsOK, [StoreNext]_storeVars PROVE BucketsOK'
  OBVIOUS
<1>1. CASE raised
  <2>1. UNCHANGED storeVars
    BY <1>1, NothingAfter DEF Goes
  <2>2. raised' /\ UNCHANGED <<st, acting, level, queue, amount, barged, left, abandoned>>
    BY <1>1, <2>1 DEF storeVars, vars, schedVars, bucketVars, history, refusalVars
  <2>3. Promised' = Promised /\ \A pl : Orders(pl)' = Orders(pl)
    BY <2>2 DEF Promised, PromisedAt, S!Live, Orders
  <2> QED BY <2>2, <2>3 DEF BucketsOK, Running, PromisesKept, NoneLeftBlocked
<1>2. CASE ~raised /\ \A items \in Lists : ~Refuse(items)
  <2>1. IInv /\ Own(stale) /\ [Next]_vars
    BY <1>2, StoresAreBuckets DEF BucketsOK, Running
  <2>2. IInv' /\ Own(stale)'
    BY <1>2, <2>1, NextIInv, StoreOwn
  <2> QED BY <2>2, NextPromises DEF BucketsOK, Running
<1>3. ASSUME ~raised, NEW items \in Lists, Refuse(items) PROVE BucketsOK'
  <2>1. IInv /\ Own(stale) /\ Base /\ BucketAssumption /\ PromisesKept /\ NoneLeftBlocked
    BY <1>3 DEF BucketsOK, Running, IInv, Base
  <2>2. PICK p \in Procs : \E tried, blocked : Refusal(p, tried, blocked)
    BY <1>3, <2>1, RefuseProps
  <2>3. PICK tried, blocked : Refusal(p, tried, blocked)
    BY <2>2
  <2>4. PromisesKept'
    <3>1. level' = level /\ barged' = barged
      BY <2>3 DEF Refusal, history
    <3> QED BY <2>1, <3>1 DEF PromisesKept
  <2>5. NoneLeftBlocked'
    BY <2>1, <2>3, RefusalHead
  <2>6. ASSUME ~raised' PROVE IInv' /\ Own(stale)'
    <3>1. blocked = {}
      BY <2>3, <2>6 DEF Refusal
    <3>2. IInv'
      BY <2>1, <2>3, <3>1, RefusalIInv
    <3>3. \A q \in Procs, pl \in Places : Due(q, pl)' <=> Due(q, pl)
      BY <2>1, <2>3, RefusalStays
    <3>4. ASSUME NEW q \in Procs, NEW pl \in Places, q \in DOMAIN amount'[pl]
          PROVE  Due(q, pl)' \/ q \in stale'[pl]
      <4>1. /\ q \in DOMAIN amount[pl] \/ (q = p /\ pl \in tried)
            /\ stale'[pl] = IF pl \in tried THEN stale[pl] \cup {p} ELSE stale[pl]
        BY <2>3, <3>4 DEF Refusal
      <4>2. q \in DOMAIN amount[pl] => Due(q, pl) \/ q \in stale[pl]
        BY <2>1 DEF Own
      <4> QED BY <3>3, <4>1, <4>2
    <3> QED BY <3>2, <3>4 DEF Own
  <2> QED BY <2>4, <2>5, <2>6 DEF BucketsOK, Running
<1> QED BY <1>1, <1>2, <1>3

LEMMA AlwaysBuckets == BucketAssumption /\ StoreSpec => []BucketsOK
<1>1. BucketAssumption /\ StoreInit => BucketsOK
  <2> SUFFICES ASSUME BucketAssumption, StoreInit PROVE IInv /\ Own(stale)
    BY PromisesHold, NoneLeft DEF BucketsOK, Running
  <2>1. Init
    BY DEF StoreInit
  <2>2. Own(stale)
    BY <2>1 DEF Init, InitStats, Own
  <2> QED BY <2>1, <2>2, InitIInv
<1> QED BY <1>1, StoreNextRuns, PTL DEF StoreSpec

\* The three promises of buckets are those of stores: the levels, the agreement of
\* queues, records and calls, and that nobody is left blocked.  The records that a
\* refused call leaves behind, because _make_p_arrival() writes them before it looks
\* at the objects, are the only ones that belong to no call.
THEOREM StorePromises ==
  BucketAssumption /\ StoreSpec => [](PromisesKept /\ ArrivalsMatchCalls /\ NoneLeftBlocked)
<1>1. BucketsOK => ArrivalsMatchCalls
  <2> SUFFICES ASSUME IInv, Own(stale) PROVE QueuesMatchCallsBut(stale)
    BY DEF BucketsOK, Running, ArrivalsMatchCalls
  <2>1. PICK x : x = stale
    OBVIOUS
  <2>2. QueuesMatchCallsBut(x)
    BY <2>1, CallsMatch
  <2> QED BY <2>1, <2>2
<1>2. BucketsOK => PromisesKept /\ NoneLeftBlocked
  BY DEF BucketsOK
<1> QED BY <1>1, <1>2, AlwaysBuckets, PTL

\* A sequence of whatever objects.
IsSeq(s) == s \in Seq(ToSet(s))

LEMMA SeqIsSeq ==
  /\ \A X : \A s \in Seq(X) : IsSeq(s)
  /\ IsSeq(<<>>) /\ Len(<<>>) = 0
<1>1. ASSUME NEW X, NEW s \in Seq(X) PROVE IsSeq(s)
  <2>1. \A k \in 1..Len(s) : s[k] \in ToSet(s)
    BY DEF ToSet
  <2> QED BY <2>1 DEF IsSeq
<1>2. <<>> \in Seq({}) /\ Len(<<>>) = 0
  OBVIOUS
<1> QED BY <1>1, <1>2

LEMMA JoinedSeq ==
  ASSUME NEW s, IsSeq(s), NEW t, IsSeq(t)
  PROVE  IsSeq(s \o t) /\ Len(s \o t) = Len(s) + Len(t)
<1> DEFINE X == ToSet(s) \cup ToSet(t)
<1>1. s \in Seq(X) /\ t \in Seq(X)
  <2>1. s \in Seq(ToSet(s)) /\ t \in Seq(ToSet(t))
    BY DEF IsSeq
  <2> HIDE DEF IsSeq
  <2> QED BY <2>1
<1>2. s \o t \in Seq(X) /\ Len(s \o t) = Len(s) + Len(t)
  <2> HIDE DEF X
  <2> QED BY <1>1, ConcatProperties
<1> QED BY <1>2, SeqIsSeq

LEMMA RemainingSeq ==
  ASSUME NEW s, IsSeq(s), NEW n \in Nat, n <= Len(s)
  PROVE  IsSeq(Remaining(s, n)) /\ Len(Remaining(s, n)) = Len(s) - n
<1>1. s \in Seq(ToSet(s)) /\ Len(s) \in Nat
  BY DEF IsSeq
<1>2. \A k \in (n + 1)..Len(s) : s[k] \in ToSet(s)
  BY <1>1 DEF ToSet
<1>3. Remaining(s, n) \in Seq(ToSet(s)) /\ Len(Remaining(s, n)) = Len(s) - n
  BY <1>1, <1>2 DEF Remaining
<1> QED BY <1>3, SeqIsSeq

LEMMA NumberedSeq ==
  ASSUME NEW n \in Nat, NEW s, s = [k \in 1..n |-> s[k]]
  PROVE  IsSeq(s) /\ Len(s) = n
<1> DEFINE X == {s[k] : k \in 1..n}
<1>1. s \in Seq(X) /\ Len(s) = n
  OBVIOUS
<1> HIDE DEF X
<1> QED BY <1>1, SeqIsSeq

Modes == {"undecided", "plain", "objects"}

\* The objects in a store are as many as its level says.
LevelsOK ==
  \A b \in Buckets : /\ mode[b] \in Modes /\ IsSeq(objs[b])
                     /\ mode[b] = "objects" => Len(objs[b]) = level[b]

\* Before the first put nothing is in a store, and no one is promised anything.
UndecidedOK ==
  \A b \in Buckets : mode[b] = "undecided" =>
    /\ objs[b] = <<>> /\ level[b] = 0
    /\ \A p \in Procs : ~Contains(acting[p], <<b, "get">>)

\* A put that is in progress has decided what the store holds, and its objects are
\* on record as long as it is due.
OfferOK(p, i) ==
  /\ mode[i.b] # "undecided" /\ (mode[i.b] = "objects" <=> i.obj)
  /\ i.obj /\ Place(i) \notin call[p].got =>
       p \in DOMAIN offer[i.b] /\ IsSeq(offer[i.b][p]) /\ Len(offer[i.b][p]) = i.amt

OffersOK ==
  \A p \in Procs : InWait(p) =>
    \A k \in DOMAIN call[p].items : call[p].items[k].side = "put" => OfferOK(p, call[p].items[k])

ObjInv == LevelsOK /\ UndecidedOK /\ OffersOK

\* The objects come for the items that are put.
Supplied(done, given) ==
  \A k \in DOMAIN done : done[k].side = "put" /\ done[k].obj =>
    IsSeq(given[done[k]]) /\ Len(given[done[k]]) = done[k].amt

\* What moves, item by item.
Movement(done, m, given) ==
  LET taking(k) == done[k].side = "get" /\ m[done[k].b] = "objects"
      putting(k) == done[k].side = "put" /\ done[k].obj
  IN /\ failed' <=> \E k \in DOMAIN done : taking(k) /\ Len(objs[done[k].b]) < done[k].amt
     /\ \A k \in DOMAIN done :
          taking(k) => objs'[done[k].b] = Remaining(objs[done[k].b], done[k].amt)
     /\ \A k \in DOMAIN done :
          putting(k) => objs'[done[k].b] = objs[done[k].b] \o given[done[k]]
     /\ \A b \in Buckets :
          (\A k \in DOMAIN done : done[k].b = b => ~taking(k) /\ ~putting(k)) => objs'[b] = objs[b]

LEMMA MoveValues ==
  ASSUME BucketAssumption, NEW done, ListOK(done), NEW off, NEW m, NEW given,
         Move(done, off, m, given)
  PROVE  Movement(done, m, given)
<1> DEFINE taking(k) == done[k].side = "get" /\ m[done[k].b] = "objects"
           putting(k) == done[k].side = "put" /\ done[k].obj
           gets == {i \in ToSet(done) : i.side = "get" /\ m[i.b] = "objects"}
           puts == {i \in Puts(done) : i.obj}
<1>1. /\ failed' = (\E i \in gets : Len(objs[i.b]) < i.amt)
      /\ objs' = [s \in Buckets |->
                   CASE \E i \in gets : i.b = s ->
                          Remaining(objs[s], (CHOOSE i \in gets : i.b = s).amt)
                     [] \E i \in puts : i.b = s ->
                          objs[s] \o given[CHOOSE i \in puts : i.b = s]
                     [] OTHER -> objs[s]]
  BY DEF Move
<1>2. /\ \A k \in DOMAIN done : done[k] \in gets <=> taking(k)
      /\ \A k \in DOMAIN done : done[k] \in puts <=> putting(k)
      /\ \A i \in gets \cup puts : \E k \in DOMAIN done : i = done[k]
  BY DEF ToSet, Puts
<1>3. /\ \A k \in DOMAIN done : done[k].b \in Buckets /\ done[k].amt \in Nat
      /\ \A k, l \in DOMAIN done : done[k].b = done[l].b => k = l
  BY ItemProps
<1>4. failed' <=> \E k \in DOMAIN done : taking(k) /\ Len(objs[done[k].b]) < done[k].amt
  <2> HIDE DEF gets, puts, taking, putting
  <2>1. failed' <=> \E i \in gets : Len(objs[i.b]) < i.amt
    BY <1>1
  <2> QED BY <1>2, <2>1
<1>5. ASSUME NEW k \in DOMAIN done, taking(k)
      PROVE  objs'[done[k].b] = Remaining(objs[done[k].b], done[k].amt)
  <2>0. ~putting(k)
    BY <1>5
  <2> HIDE DEF gets, puts, taking, putting
  <2>1. done[k] \in gets /\ \A i \in gets : i.b = done[k].b => i = done[k]
    BY <1>2, <1>3, <1>5
  <2>2. (CHOOSE i \in gets : i.b = done[k].b) = done[k]
    BY <2>1
  <2>3. ~\E i \in puts : i.b = done[k].b
    BY <1>2, <1>3, <2>0
  <2> QED BY <1>1, <1>3, <2>1, <2>2, <2>3
<1>6. ASSUME NEW k \in DOMAIN done, putting(k)
      PROVE  objs'[done[k].b] = objs[done[k].b] \o given[done[k]]
  <2>0. ~taking(k)
    BY <1>6
  <2> HIDE DEF gets, puts, taking, putting
  <2>1. done[k] \in puts /\ \A i \in puts : i.b = done[k].b => i = done[k]
    BY <1>2, <1>3, <1>6
  <2>2. (CHOOSE i \in puts : i.b = done[k].b) = done[k]
    BY <2>1
  <2>3. ~\E i \in gets : i.b = done[k].b
    BY <1>2, <1>3, <2>0
  <2> QED BY <1>1, <1>3, <2>1, <2>2, <2>3
<1>7. ASSUME NEW b \in Buckets, \A k \in DOMAIN done : done[k].b = b => ~taking(k) /\ ~putting(k)
      PROVE  objs'[b] = objs[b]
  <2> HIDE DEF gets, puts, taking, putting
  <2>1. (~\E i \in gets : i.b = b) /\ (~\E i \in puts : i.b = b)
    BY <1>2, <1>7
  <2> QED BY <1>1, <2>1
<1> HIDE DEF taking, putting, gets, puts
<1>8. /\ failed' <=> \E k \in DOMAIN done : taking(k) /\ Len(objs[done[k].b]) < done[k].amt
      /\ \A k \in DOMAIN done :
           taking(k) => objs'[done[k].b] = Remaining(objs[done[k].b], done[k].amt)
      /\ \A k \in DOMAIN done :
           putting(k) => objs'[done[k].b] = objs[done[k].b] \o given[done[k]]
      /\ \A b \in Buckets :
           (\A k \in DOMAIN done : done[k].b = b => ~taking(k) /\ ~putting(k)) => objs'[b] = objs[b]
  BY <1>4, <1>5, <1>6, <1>7
<1> QED BY <1>8 DEF taking, putting, Movement

LEMMA MoveProps ==
  ASSUME BucketAssumption, NEW done, ListOK(done), NEW off, NEW m, NEW given,
         Move(done, off, m, given), Supplied(done, given), \A b \in Buckets : IsSeq(objs[b])
  PROVE  LET taking(k) == done[k].side = "get" /\ m[done[k].b] = "objects"
             putting(k) == done[k].side = "put" /\ done[k].obj
         IN /\ failed' <=> \E k \in DOMAIN done : taking(k) /\ Len(objs[done[k].b]) < done[k].amt
            /\ ~failed' => \A b \in Buckets : IsSeq(objs'[b])
            /\ \A b \in Buckets :
                 (\A k \in DOMAIN done : done[k].b = b => ~taking(k) /\ ~putting(k)) => objs'[b] = objs[b]
            /\ ~failed' => \A k \in DOMAIN done :
                 taking(k) => Len(objs'[done[k].b]) = Len(objs[done[k].b]) - done[k].amt
            /\ \A k \in DOMAIN done :
                 putting(k) => Len(objs'[done[k].b]) = Len(objs[done[k].b]) + done[k].amt
<1> DEFINE taking(k) == done[k].side = "get" /\ m[done[k].b] = "objects"
           putting(k) == done[k].side = "put" /\ done[k].obj
<1>1. Movement(done, m, given)
  BY MoveValues
<1>3. \A k \in DOMAIN done : done[k].b \in Buckets /\ done[k].amt \in Nat
  BY ItemProps
<1>4. /\ failed' <=> \E k \in DOMAIN done : taking(k) /\ Len(objs[done[k].b]) < done[k].amt
      /\ \A b \in Buckets :
           (\A k \in DOMAIN done : done[k].b = b => ~taking(k) /\ ~putting(k)) => objs'[b] = objs[b]
  BY <1>1 DEF Movement
<1>5. \A k \in DOMAIN done :
        taking(k) => objs'[done[k].b] = Remaining(objs[done[k].b], done[k].amt)
  BY <1>1 DEF Movement
<1>6. \A k \in DOMAIN done :
        putting(k) => objs'[done[k].b] = objs[done[k].b] \o given[done[k]]
  BY <1>1 DEF Movement
<1>8. ASSUME NEW k \in DOMAIN done, putting(k)
      PROVE  IsSeq(objs'[done[k].b]) /\ Len(objs'[done[k].b]) = Len(objs[done[k].b]) + done[k].amt
  <2>1. IsSeq(given[done[k]]) /\ Len(given[done[k]]) = done[k].amt
    BY <1>8 DEF Supplied
  <2>2. IsSeq(objs[done[k].b])
    BY <1>3
  <2>3. objs'[done[k].b] = objs[done[k].b] \o given[done[k]]
    BY <1>6, <1>8
  <2>4. /\ IsSeq(objs[done[k].b] \o given[done[k]])
        /\ Len(objs[done[k].b] \o given[done[k]]) = Len(objs[done[k].b]) + Len(given[done[k]])
    BY <2>1, <2>2, JoinedSeq
  <2> QED BY <2>1, <2>3, <2>4
<1>9. ASSUME ~failed', NEW k \in DOMAIN done, taking(k)
      PROVE  IsSeq(objs'[done[k].b]) /\ Len(objs'[done[k].b]) = Len(objs[done[k].b]) - done[k].amt
  <2>1. ~(Len(objs[done[k].b]) < done[k].amt)
    BY <1>4, <1>9
  <2>2. IsSeq(objs[done[k].b])
    BY <1>3
  <2>3. Len(objs[done[k].b]) \in Nat
    BY <2>2 DEF IsSeq
  <2>4. done[k].amt \in Nat /\ done[k].amt <= Len(objs[done[k].b])
    BY <1>3, <2>1, <2>3
  <2> QED BY <1>5, <1>9, <2>2, <2>4, RemainingSeq
<1>10. ASSUME ~failed', NEW b \in Buckets PROVE IsSeq(objs'[b])
  BY <1>4, <1>8, <1>9, <1>10
<1> HIDE DEF taking, putting
<1>11. /\ failed' <=> \E k \in DOMAIN done : taking(k) /\ Len(objs[done[k].b]) < done[k].amt
       /\ ~failed' => \A b \in Buckets : IsSeq(objs'[b])
       /\ \A b \in Buckets :
            (\A k \in DOMAIN done : done[k].b = b => ~taking(k) /\ ~putting(k)) => objs'[b] = objs[b]
       /\ ~failed' => \A k \in DOMAIN done :
            taking(k) => Len(objs'[done[k].b]) = Len(objs[done[k].b]) - done[k].amt
       /\ \A k \in DOMAIN done :
            putting(k) => Len(objs'[done[k].b]) = Len(objs[done[k].b]) + done[k].amt
  BY <1>4, <1>8, <1>9, <1>10
<1> QED BY <1>11 DEF taking, putting

\* What a store holds is decided when something is got or put.
Decides(done, m) ==
  /\ \A b \in Buckets : m[b] \in Modes /\ (mode[b] # "undecided" => m[b] = mode[b])
  /\ \A k \in DOMAIN done :
       /\ m[done[k].b] # "undecided"
       /\ done[k].side = "put" => (m[done[k].b] = "objects" <=> done[k].obj)
       /\ done[k].side = "get" => m[done[k].b] = mode[done[k].b]

LEMMA ObjTurn ==
  ASSUME Base, ObjInv, NEW p \in Procs, NEW done, NEW new, NEW off, NEW o, NEW woken,
         Turn(p, done, new, off, o, woken),
         NEW lost, NEW m, m = mode', NEW given, Move(done, lost, m, given), Supplied(done, given),
         Decides(done, m), ~failed'
  PROVE  LevelsOK' /\ UndecidedOK'
<1>1. Exchanged(p, done, new, off, woken)
  BY ExchangeProps DEF Turn, Base
<1>2. ListOK(done) /\ BucketAssumption /\ LevelsOK /\ UndecidedOK /\ level \in [Buckets -> Int]
  BY DEF Turn, Base, Types, ObjInv
<1>3. \A b \in Buckets : IsSeq(objs[b])
  BY <1>2 DEF LevelsOK
<1> DEFINE taking(k) == done[k].side = "get" /\ m[done[k].b] = "objects"
           putting(k) == done[k].side = "put" /\ done[k].obj
<1>4. /\ \A b \in Buckets : IsSeq(objs'[b])
      /\ \A b \in Buckets :
           (\A k \in DOMAIN done : done[k].b = b => ~taking(k) /\ ~putting(k)) => objs'[b] = objs[b]
      /\ \A k \in DOMAIN done :
           taking(k) => Len(objs'[done[k].b]) = Len(objs[done[k].b]) - done[k].amt
      /\ \A k \in DOMAIN done :
           putting(k) => Len(objs'[done[k].b]) = Len(objs[done[k].b]) + done[k].amt
  BY <1>2, <1>3, MoveProps
<1>5. \A k \in DOMAIN done : /\ done[k].b \in Buckets /\ done[k].amt \in Nat /\ done[k].side \in Sides
                             /\ Opposite(done[k]) = <<done[k].b, Other(done[k].side)>>
  BY <1>2, ItemProps
<1>6. ASSUME NEW b \in Buckets, m[b] = "objects" PROVE Len(objs'[b]) = level'[b]
  <2>1. CASE \A k \in DOMAIN done : done[k].b # b
    <3>1. objs'[b] = objs[b] /\ level'[b] = level[b]
      BY <1>1, <1>4, <2>1 DEF Exchanged
    <3>2. mode[b] = "objects" \/ mode[b] = "undecided"
      BY <1>6 DEF Decides
    <3>3. CASE mode[b] = "objects"
      BY <1>2, <3>1, <3>3 DEF LevelsOK
    <3>4. CASE mode[b] = "undecided"
      BY <1>2, <3>1, <3>4, SeqIsSeq DEF UndecidedOK
    <3> QED BY <3>2, <3>3, <3>4
  <2>2. ASSUME NEW k \in DOMAIN done, done[k].b = b PROVE Len(objs'[b]) = level'[b]
    <3>1. level'[b] = After(level[b], done[k].side, done[k].amt)
      BY <1>1, <2>2 DEF Exchanged
    <3>2. Len(objs[b]) = level[b]
      <4>1. mode[b] = "objects" \/ mode[b] = "undecided"
        BY <1>6 DEF Decides
      <4>2. CASE mode[b] = "objects"
        BY <1>2, <4>2 DEF LevelsOK
      <4>3. CASE mode[b] = "undecided"
        BY <1>2, <4>3, SeqIsSeq DEF UndecidedOK
      <4> QED BY <4>1, <4>2, <4>3
    <3>3. CASE done[k].side = "get"
      <4>1. Len(objs'[b]) = Len(objs[b]) - done[k].amt
        BY <1>4, <1>6, <2>2, <3>3
      <4> QED BY <3>1, <3>2, <3>3, <4>1 DEF After
    <3>4. CASE done[k].side = "put"
      <4>1. done[k].obj
        BY <1>6, <2>2, <3>4 DEF Decides
      <4>2. Len(objs'[b]) = Len(objs[b]) + done[k].amt
        BY <1>4, <2>2, <3>4, <4>1
      <4> QED BY <3>1, <3>2, <3>4, <4>2 DEF After
    <3> QED BY <1>5, <2>2, <3>3, <3>4 DEF Sides
  <2> QED BY <2>1, <2>2
<1>7. LevelsOK'
  <2>1. \A b \in Buckets : m[b] \in Modes
    BY DEF Decides
  <2> QED BY <1>4, <1>6, <2>1 DEF LevelsOK
<1>8. ASSUME NEW b \in Buckets, m[b] = "undecided"
      PROVE  /\ objs'[b] = <<>> /\ level'[b] = 0
             /\ \A q \in Procs : ~Contains(acting'[q], <<b, "get">>)
  <2>1. mode[b] = "undecided"
    BY <1>8 DEF Decides
  <2>2. \A k \in DOMAIN done : done[k].b # b
    BY <1>8 DEF Decides
  <2>3. objs'[b] = objs[b] /\ level'[b] = level[b]
    BY <1>1, <1>4, <2>2 DEF Exchanged
  <2>4. ASSUME NEW q \in Procs PROVE ~Contains(acting'[q], <<b, "get">>)
    <3>1. <<b, "get">> \in Places
      BY DEF Places, Sides
    <3>2. q \notin Out(done, woken, <<b, "get">>)
      BY <1>5, <2>2 DEF Out
    <3>3. ~Contains(acting[q], <<b, "get">>)
      BY <1>2, <2>1 DEF UndecidedOK
    <3>4. CASE q = p
      <4>1. acting'[q] = <<>>
        BY <1>1, <3>4 DEF Exchanged
      <4> QED BY <4>1 DEF Contains
    <3>5. CASE q # p
      BY <1>1, <3>1, <3>2, <3>3, <3>5 DEF Exchanged
    <3> QED BY <3>4, <3>5
  <2> QED BY <1>2, <2>1, <2>3, <2>4 DEF UndecidedOK
<1>9. UndecidedOK'
  BY <1>8 DEF UndecidedOK
<1> QED BY <1>7, <1>9

LEMMA PromisesHoldNext == IInv' => PromisesKept'
BY PromisesHold, PTL

\* A call that looks at the level finds its objects.
LEMMA FreshFinds ==
  ASSUME Base, ObjInv, NEW p \in Procs, NEW done, NEW new, NEW off, NEW o, NEW woken,
         Turn(p, done, new, off, o, woken), Fresh(p, done, new, woken),
         NEW lost, NEW m, NEW given, Move(done, lost, m, given), Supplied(done, given),
         Decides(done, m)
  PROVE  ~failed'
<1> SUFFICES ASSUME failed' PROVE FALSE
  OBVIOUS
<1>1. ListOK(done) /\ BucketAssumption /\ LevelsOK /\ level \in [Buckets -> Int]
  BY DEF Turn, Base, Types, ObjInv
<1>2. \A b \in Buckets : IsSeq(objs[b])
  BY <1>1 DEF LevelsOK
<1>3. PICK k \in DOMAIN done : /\ done[k].side = "get" /\ m[done[k].b] = "objects"
                               /\ Len(objs[done[k].b]) < done[k].amt
  BY <1>1, <1>2, MoveProps
<1>4. done[k].b \in Buckets /\ done[k].amt \in Nat
  BY <1>1, ItemProps
<1>5. Len(objs[done[k].b]) = level[done[k].b]
  BY <1>1, <1>3, <1>4 DEF Decides, LevelsOK
<1>6. done[k].amt <= level[done[k].b]
  BY <1>3 DEF Fresh, FitsNow, Fits
<1> QED BY <1>1, <1>3, <1>4, <1>5, <1>6

\* One that resumes does, unless its promise was not kept.
LEMMA ResumesFinds ==
  ASSUME Base, ObjInv, IInv', NEW p \in Procs, NEW done, NEW new, NEW off, NEW o, NEW woken,
         Turn(p, done, new, off, o, woken),
         NEW lost, NEW m, NEW given, Move(done, lost, m, given), Supplied(done, given),
         Decides(done, m), failed'
  PROVE  barged' # {}
<1>1. ListOK(done) /\ BucketAssumption /\ LevelsOK /\ level \in [Buckets -> Int]
  BY DEF Turn, Base, Types, ObjInv
<1>2. \A b \in Buckets : IsSeq(objs[b])
  BY <1>1 DEF LevelsOK
<1>3. PICK k \in DOMAIN done : /\ done[k].side = "get" /\ m[done[k].b] = "objects"
                               /\ Len(objs[done[k].b]) < done[k].amt
  BY <1>1, <1>2, MoveProps
<1>4. done[k].b \in Buckets /\ done[k].amt \in Nat
  BY <1>1, ItemProps
<1>5. Len(objs[done[k].b]) = level[done[k].b]
  BY <1>1, <1>3, <1>4 DEF Decides, LevelsOK
<1>6. level'[done[k].b] = level[done[k].b] - done[k].amt
  <2>1. Exchanged(p, done, new, off, woken)
    BY ExchangeProps DEF Turn, Base
  <2> QED BY <1>3, <2>1 DEF Exchanged, After
<1>7. level'[done[k].b] \notin 0..Capacity[done[k].b]
  BY <1>1, <1>3, <1>4, <1>5, <1>6
<1>8. PromisesKept'
  BY PromisesHoldNext
<1> QED BY <1>4, <1>7, <1>8 DEF PromisesKept

\* Only puts come with objects.
LEMMA ListObjects ==
  ASSUME NEW items \in Lists, NEW k \in DOMAIN items
  PROVE  items[k].obj \in BOOLEAN /\ (items[k].obj => items[k].side = "put")
<1>1. items[k] \in ObjectItems
  <2>1. ASSUME NEW i \in Items, items = <<i>> PROVE items[k] \in ObjectItems
    BY <2>1 DEF ObjectItems
  <2>2. ASSUME NEW w \in Waits, items = w.items PROVE items[k] \in ObjectItems
    <3>1. items[k] \in ToSet(w.items)
      BY <2>2 DEF ToSet
    <3> QED BY <3>1 DEF ObjectItems
  <2> QED BY <2>1, <2>2 DEF Lists
<1> QED BY <1>1, StoreAssumption

LEMMA DecidedProps ==
  ASSUME BucketAssumption, LevelsOK, NEW items \in Lists, Consistent(items),
         NEW m, m = Decided(items)
  PROVE  /\ \A b \in Buckets : m[b] \in Modes /\ (mode[b] # "undecided" => m[b] = mode[b])
         /\ \A k \in DOMAIN items : items[k].side = "put" =>
              m[items[k].b] # "undecided" /\ (m[items[k].b] = "objects" <=> items[k].obj)
         /\ \A k \in DOMAIN items : items[k].side = "get" => m[items[k].b] = mode[items[k].b]
<1>1. ListOK(items)
  BY ListsOK
<1>2. \A k \in DOMAIN items : /\ items[k].b \in Buckets
                              /\ \A l \in DOMAIN items : items[k].b = items[l].b => k = l
  BY <1>1, ItemProps
<1>3. /\ \A k \in DOMAIN items : items[k] \in Puts(items) <=> items[k].side = "put"
      /\ \A i \in Puts(items) : \E k \in DOMAIN items : i = items[k]
  BY DEF Puts, ToSet
<1>4. \A b \in Buckets : mode[b] \in Modes
  BY DEF LevelsOK
<1>5. ASSUME NEW b \in Buckets
      PROVE  m[b] = IF mode[b] = "undecided" /\ \E i \in Puts(items) : i.b = b
                    THEN IF \E i \in Puts(items) : i.b = b /\ i.obj THEN "objects" ELSE "plain"
                    ELSE mode[b]
  BY DEF Decided
<1>6. ASSUME NEW b \in Buckets PROVE m[b] \in Modes /\ (mode[b] # "undecided" => m[b] = mode[b])
  BY <1>4, <1>5 DEF Modes
<1>7. ASSUME NEW k \in DOMAIN items, items[k].side = "put"
      PROVE  m[items[k].b] # "undecided" /\ (m[items[k].b] = "objects" <=> items[k].obj)
  <2>1. items[k] \in Puts(items) /\ \A i \in Puts(items) : i.b = items[k].b => i = items[k]
    BY <1>2, <1>3, <1>7
  <2>2. items[k].obj \in BOOLEAN
    BY ListObjects
  <2>3. CASE mode[items[k].b] = "undecided"
    <3>1. m[items[k].b] = IF items[k].obj THEN "objects" ELSE "plain"
      BY <1>2, <1>5, <2>1, <2>3
    <3> QED BY <2>2, <3>1
  <2>4. CASE mode[items[k].b] # "undecided"
    <3>1. (mode[items[k].b] = "objects") = items[k].obj
      BY <2>1, <2>4 DEF Consistent
    <3>2. m[items[k].b] = mode[items[k].b]
      BY <1>2, <1>6, <2>4
    <3> QED BY <2>2, <2>4, <3>1, <3>2
  <2> QED BY <2>3, <2>4
<1>8. ASSUME NEW k \in DOMAIN items, items[k].side = "get" PROVE m[items[k].b] = mode[items[k].b]
  <2>1. ~\E i \in Puts(items) : i.b = items[k].b
    BY <1>2, <1>3, <1>8
  <2> QED BY <1>2, <1>5, <2>1
<1> QED BY <1>6, <1>7, <1>8

LEMMA BroughtProps ==
  ASSUME BucketAssumption, NEW items \in Lists, NEW k \in DOMAIN items, items[k].side = "put"
  PROVE  LET s == Brought(items)[items[k]]
         IN /\ IsSeq(s) /\ Len(s) = Count(items[k]) /\ DOMAIN s = 1..Count(items[k])
            /\ Count(items[k]) \in Nat /\ (items[k].obj => Count(items[k]) = items[k].amt)
            /\ \A n \in 1..Count(items[k]) : s[n] = made + Number(items, k - 1) + n
<1> DEFINE i == items[k]
           m == Count(i)
           s == [n \in 1..m |-> made + Number(items, k - 1) + n]
<1>1. i \in Puts(items)
  BY DEF Puts, ToSet
<1>2. (CHOOSE l \in DOMAIN items : items[l] = i) = k
  <2>1. \A l \in DOMAIN items : items[l] = i => l = k
    BY ListsOK, ItemProps
  <2> QED BY <2>1
<1>3. Brought(items)[i] = s
  BY <1>1, <1>2 DEF Brought
<1>4. m \in Nat /\ (i.obj => m = i.amt)
  <2>1. i.amt \in Nat
    BY ListsOK, ItemProps
  <2> QED BY <2>1 DEF Count
<1>5. s = [n \in 1..m |-> s[n]] /\ DOMAIN s = 1..m /\ \A n \in 1..m : s[n] = made + Number(items, k - 1) + n
  OBVIOUS
<1> HIDE DEF s, m
<1>6. IsSeq(s) /\ Len(s) = m
  BY <1>4, <1>5, NumberedSeq
<1> QED BY <1>3, <1>4, <1>5, <1>6 DEF m

\* The records of the others stay as they are.
KeepsOthers(p, f) ==
  \A b \in Buckets, q \in Procs : q # p /\ q \in DOMAIN offer[b] =>
    q \in DOMAIN f[b] /\ f[b][q] = offer[b][q]

LEMMA WithProps ==
  ASSUME BucketAssumption, NEW items, ListOK(items), NEW p, NEW given, NEW f, f = With(p, items, given)
  PROVE  /\ KeepsOthers(p, f)
         /\ \A k \in DOMAIN items : items[k].side = "put" =>
              p \in DOMAIN f[items[k].b] /\ f[items[k].b][p] = given[items[k]]
<1>1. \A k \in DOMAIN items : /\ items[k].b \in Buckets
                              /\ \A l \in DOMAIN items : items[k].b = items[l].b => k = l
  BY ItemProps
<1>2. /\ \A k \in DOMAIN items : items[k] \in Puts(items) <=> items[k].side = "put"
      /\ \A i \in Puts(items) : \E k \in DOMAIN items : i = items[k]
  BY DEF Puts, ToSet
<1>3. ASSUME NEW b \in Buckets
      PROVE  /\ (\E i \in Puts(items) : i.b = b) =>
                   /\ DOMAIN f[b] = DOMAIN offer[b] \cup {p}
                   /\ \A q \in DOMAIN offer[b] : q # p => f[b][q] = offer[b][q]
                   /\ f[b][p] = given[CHOOSE i \in Puts(items) : i.b = b]
             /\ (~\E i \in Puts(items) : i.b = b) => f[b] = offer[b]
  <2> DEFINE g == [q \in DOMAIN offer[b] \cup {p} |->
                     IF q = p THEN given[CHOOSE i \in Puts(items) : i.b = b] ELSE offer[b][q]]
  <2>1. f[b] = IF \E i \in Puts(items) : i.b = b THEN g ELSE offer[b]
    BY DEF With
  <2>2. /\ DOMAIN g = DOMAIN offer[b] \cup {p}
        /\ \A q \in DOMAIN offer[b] : q # p => g[q] = offer[b][q]
        /\ g[p] = given[CHOOSE i \in Puts(items) : i.b = b]
    OBVIOUS
  <2> HIDE DEF g
  <2> QED BY <2>1, <2>2
<1>4. ASSUME NEW b \in Buckets, NEW q \in Procs, q # p, q \in DOMAIN offer[b]
      PROVE  q \in DOMAIN f[b] /\ f[b][q] = offer[b][q]
  BY <1>3, <1>4
<1>5. ASSUME NEW k \in DOMAIN items, items[k].side = "put"
      PROVE  p \in DOMAIN f[items[k].b] /\ f[items[k].b][p] = given[items[k]]
  <2>1. items[k] \in Puts(items) /\ \A i \in Puts(items) : i.b = items[k].b => i = items[k]
    BY <1>1, <1>2, <1>5
  <2>2. (CHOOSE i \in Puts(items) : i.b = items[k].b) = items[k]
    BY <2>1
  <2> QED BY <1>1, <1>3, <2>1, <2>2
<1> QED BY <1>4, <1>5 DEF KeepsOthers

LEMMA WithoutProps ==
  ASSUME NEW items, NEW p, NEW f, f = Without(p, items)
  PROVE  /\ KeepsOthers(p, f)
         /\ \A b \in Buckets : (\A k \in DOMAIN items : items[k].side = "put" => items[k].b # b) =>
              f[b] = offer[b]
<1>1. \A i \in Puts(items) : i.side = "put" /\ \E k \in DOMAIN items : i = items[k]
  BY DEF Puts, ToSet
<1>2. ASSUME NEW b \in Buckets
      PROVE  /\ (\E i \in Puts(items) : i.b = b) =>
                   /\ DOMAIN f[b] = DOMAIN offer[b] \ {p}
                   /\ \A q \in DOMAIN offer[b] : q # p => f[b][q] = offer[b][q]
             /\ (~\E i \in Puts(items) : i.b = b) => f[b] = offer[b]
  <2> DEFINE g == [q \in DOMAIN offer[b] \ {p} |-> offer[b][q]]
  <2>1. f[b] = IF \E i \in Puts(items) : i.b = b THEN g ELSE offer[b]
    BY DEF Without
  <2>2. /\ DOMAIN g = DOMAIN offer[b] \ {p}
        /\ \A q \in DOMAIN offer[b] : q # p => g[q] = offer[b][q]
    OBVIOUS
  <2> HIDE DEF g
  <2> QED BY <2>1, <2>2
<1>3. ASSUME NEW b \in Buckets, NEW q \in Procs, q # p, q \in DOMAIN offer[b]
      PROVE  q \in DOMAIN f[b] /\ f[b][q] = offer[b][q]
  BY <1>2, <1>3
<1>4. ASSUME NEW b \in Buckets, \A k \in DOMAIN items : items[k].side = "put" => items[k].b # b
      PROVE  f[b] = offer[b]
  <2>1. ~\E i \in Puts(items) : i.b = b
    BY <1>1, <1>4
  <2> QED BY <1>2, <2>1
<1> QED BY <1>3, <1>4 DEF KeepsOthers

\* The calls of the others keep their offers.
OthersOK(p) ==
  \A q \in Procs : q # p /\ InWait(q) =>
    \A k \in DOMAIN call[q].items : call[q].items[k].side = "put" => OfferOK(q, call[q].items[k])

LEMMA OthersKeep ==
  ASSUME BucketAssumption, Types, OffersOK, NEW p, NEW f, f = offer', KeepsOthers(p, f),
         \A b \in Buckets : mode[b] # "undecided" => mode'[b] = mode[b],
         \A q \in Procs : q # p => call'[q] = call[q]
  PROVE  OthersOK(p)'
<1> SUFFICES ASSUME NEW q \in Procs, q # p, InWait(q)', NEW k \in DOMAIN call'[q].items,
                    call'[q].items[k].side = "put"
             PROVE  OfferOK(q, call[q].items[k])'
  BY DEF OthersOK
<1>1. call'[q] = call[q] /\ InWait(q)
  BY DEF InWait
<1>2. ListOK(call[q].items)
  BY <1>1, CallProps
<1> DEFINE i == call[q].items[k]
<1>3. i.b \in Buckets
  BY <1>1, <1>2, ItemProps
<1>4. OfferOK(q, i)
  BY <1>1 DEF OffersOK
<1>5. mode'[i.b] = mode[i.b]
  BY <1>3, <1>4 DEF OfferOK
<1>6. q \in DOMAIN offer[i.b] => q \in DOMAIN offer'[i.b] /\ offer'[i.b][q] = offer[i.b][q]
  BY <1>3 DEF KeepsOthers
<1> QED BY <1>1, <1>4, <1>5, <1>6 DEF OfferOK

LEMMA ArriveProps ==
  ASSUME Base, ObjInv, NEW items \in Lists, Arrive(items), NEW m, m = mode',
         NEW done, done = Fitting(items), NEW given, given = Brought(items)
  PROVE  /\ Supplied(done, given) /\ Decides(done, m)
         /\ \A k \in DOMAIN items : items[k].side = "put" =>
              m[items[k].b] # "undecided" /\ (m[items[k].b] = "objects" <=> items[k].obj)
<1>1. BucketAssumption /\ LevelsOK /\ UndecidedOK /\ ListOK(items) /\ level \in [Buckets -> Int]
  BY ListsOK DEF Base, Types, ObjInv
<1>2. Consistent(items) /\ m = Decided(items)
  BY DEF Arrive
<1>3. /\ \A b \in Buckets : m[b] \in Modes /\ (mode[b] # "undecided" => m[b] = mode[b])
      /\ \A k \in DOMAIN items : items[k].side = "put" =>
           m[items[k].b] # "undecided" /\ (m[items[k].b] = "objects" <=> items[k].obj)
      /\ \A k \in DOMAIN items : items[k].side = "get" => m[items[k].b] = mode[items[k].b]
  BY <1>1, <1>2, DecidedProps
<1>4. /\ ListOK(done) /\ \A k \in DOMAIN done : FitsNow(done[k])
      /\ \A k \in DOMAIN done : \E l \in DOMAIN items : done[k] = items[l]
  <2> DEFINE F == {k \in DOMAIN items : FitsNow(items[k])}
  <2>1. F \in SUBSET DOMAIN items /\ done = S!AtPlaces(items, F)
    BY DEF Fitting
  <2> HIDE DEF F
  <2>2. \A k \in DOMAIN done : \E l \in F : done[k] = items[l]
    BY <1>1, <2>1, PartOK
  <2>3. \A k \in DOMAIN done : \E l \in DOMAIN items : done[k] = items[l]
    BY <2>1, <2>2
  <2>4. ListOK(done) /\ \A k \in DOMAIN done : FitsNow(done[k])
    BY <1>1, FittingProps
  <2> QED BY <2>3, <2>4
<1>5. ASSUME NEW k \in DOMAIN done, done[k].side = "put", done[k].obj
      PROVE  IsSeq(given[done[k]]) /\ Len(given[done[k]]) = done[k].amt
  <2>1. PICK l \in DOMAIN items : done[k] = items[l]
    BY <1>4
  <2> QED BY <1>1, <1>5, <2>1, BroughtProps
<1>6. ASSUME NEW k \in DOMAIN done
      PROVE  /\ m[done[k].b] # "undecided"
             /\ done[k].side = "put" => (m[done[k].b] = "objects" <=> done[k].obj)
             /\ done[k].side = "get" => m[done[k].b] = mode[done[k].b]
  <2>1. PICK l \in DOMAIN items : done[k] = items[l]
    BY <1>4
  <2>2. done[k].side \in Sides /\ done[k].b \in Buckets /\ done[k].amt \in 1..Capacity[done[k].b]
    BY <1>4 DEF ListOK, IsItem
  <2>3. ASSUME done[k].side = "get", mode[done[k].b] = "undecided" PROVE FALSE
    <3>1. level[done[k].b] = 0
      BY <1>1, <2>2, <2>3 DEF UndecidedOK
    <3>2. done[k].amt <= level[done[k].b]
      BY <1>4, <2>3 DEF FitsNow, Fits
    <3>3. Capacity[done[k].b] \in Nat
      BY <1>1, <2>2 DEF BucketAssumption, ValidBucket
    <3> QED BY <2>2, <3>1, <3>2, <3>3
  <2> QED BY <1>3, <2>1, <2>2, <2>3 DEF Sides
<1>7. Supplied(done, given)
  BY <1>5 DEF Supplied
<1>8. Decides(done, m)
  BY <1>3, <1>6 DEF Decides
<1> QED BY <1>3, <1>7, <1>8

LEMMA StoreAtOnceStep ==
  ASSUME Base, ObjInv, NEW items \in Lists, NEW every, StoreAtOnce(items, every)
  PROVE  ~failed' /\ ObjInv'
<1>1. Arrive(items) /\ AtOnce(items, every) /\ offer' = offer
  BY DEF StoreAtOnce
<1>2. PICK p \in Procs : \E done, off, o, woken :
        /\ p = cur /\ done = Fitting(items)
        /\ Turn(p, done, <<>>, off, o, woken) /\ Fresh(p, done, <<>>, woken)
  BY <1>1, AtOnceProps
<1>3. PICK done, off, o, woken :
        /\ p = cur /\ done = Fitting(items)
        /\ Turn(p, done, <<>>, off, o, woken) /\ Fresh(p, done, <<>>, woken)
  BY <1>2
<1>4. PICK m : m = mode'
  OBVIOUS
<1>5. PICK given : given = Brought(items)
  OBVIOUS
<1>6. PICK lost : lost = Lacking(items)
  OBVIOUS
<1>7. Move(done, lost, m, given)
  BY <1>3, <1>4, <1>5, <1>6 DEF StoreAtOnce
<1>8. Supplied(done, given) /\ Decides(done, m)
  BY <1>1, <1>3, <1>4, <1>5, ArriveProps
<1>9. ~failed'
  BY <1>3, <1>7, <1>8, FreshFinds
<1>10. LevelsOK' /\ UndecidedOK'
  BY <1>3, <1>4, <1>7, <1>8, <1>9, ObjTurn
<1>11. OffersOK'
  <2>1. call' = call
    BY <1>1 DEF AtOnce
  <2>2. call[p] = Idle /\ ~InWait(p)
    BY <1>1, <1>3, IdleProps DEF AtOnce
  <2>3. PICK f : f = offer'
    OBVIOUS
  <2>4. KeepsOthers(p, f)
    BY <1>1, <2>3 DEF KeepsOthers
  <2>5. \A b \in Buckets : mode[b] # "undecided" => mode'[b] = mode[b]
    BY <1>4, <1>8 DEF Decides
  <2>6. OthersOK(p)'
    BY <2>1, <2>3, <2>4, <2>5, OthersKeep DEF Base, ObjInv
  <2>7. ~InWait(p)'
    BY <2>1, <2>2 DEF InWait
  <2> QED BY <2>6, <2>7 DEF OthersOK, OffersOK
<1> QED BY <1>9, <1>10, <1>11 DEF ObjInv

LEMMA StoreBlocksStep ==
  ASSUME Base, ObjInv, NEW op \in {"direct", "cond"}, NEW items \in Lists,
         NEW every \in BOOLEAN, NEW timed \in BOOLEAN,
         op = "direct" => (\E i \in Items : items = <<i>>) /\ every /\ ~timed,
         StoreBlocks(op, items, every, timed)
  PROVE  ~failed' /\ ObjInv'
<1>1. Arrive(items) /\ Blocks(op, items, every, timed)
  BY DEF StoreBlocks
<1>2. PICK p \in Procs : \E done, new, o, woken :
        /\ p = cur /\ done = Fitting(items) /\ new = Lacking(items)
        /\ Turn(p, done, new, <<>>, o, woken) /\ Fresh(p, done, new, woken)
  BY <1>1, BlocksProps
<1>3. PICK done, new, o, woken :
        /\ p = cur /\ done = Fitting(items) /\ new = Lacking(items)
        /\ Turn(p, done, new, <<>>, o, woken) /\ Fresh(p, done, new, woken)
  BY <1>2
<1>4. PICK m : m = mode'
  OBVIOUS
<1>5. PICK given : given = Brought(items)
  OBVIOUS
<1>6. PICK f : f = offer'
  OBVIOUS
<1>7. Move(done, <<>>, m, given) /\ f = With(p, new, given)
  BY <1>3, <1>4, <1>5, <1>6 DEF StoreBlocks
<1>8. /\ Supplied(done, given) /\ Decides(done, m)
      /\ \A k \in DOMAIN items : items[k].side = "put" =>
           m[items[k].b] # "undecided" /\ (m[items[k].b] = "objects" <=> items[k].obj)
  BY <1>1, <1>3, <1>4, <1>5, ArriveProps
<1>9. ~failed'
  BY <1>3, <1>7, <1>8, FreshFinds
<1>10. LevelsOK' /\ UndecidedOK'
  BY <1>3, <1>4, <1>7, <1>8, <1>9, ObjTurn
<1>11. BucketAssumption /\ Types /\ OffersOK /\ ListOK(new) /\ ListOK(items)
  BY <1>3, FittingProps, ListsOK DEF Base, ObjInv
<1>12. /\ KeepsOthers(p, f)
       /\ \A k \in DOMAIN new : new[k].side = "put" =>
            p \in DOMAIN f[new[k].b] /\ f[new[k].b][p] = given[new[k]]
  BY <1>7, <1>11, WithProps
<1>13. call'[p].items = items /\ call'[p].got = PlacesOf(done)
       /\ \A q \in Procs : q # p => call'[q] = call[q]
  BY <1>1, <1>3, <1>11 DEF Blocks, Waiting, Types
<1>14. OthersOK(p)'
  <2>1. \A b \in Buckets : mode[b] # "undecided" => mode'[b] = mode[b]
    BY <1>4, <1>8 DEF Decides
  <2> QED BY <1>6, <1>11, <1>12, <1>13, <2>1, OthersKeep
<1>15. ASSUME NEW k \in DOMAIN items, items[k].side = "put"
       PROVE  OfferOK(p, items[k])'
  <2> DEFINE i == items[k]
  <2>1. ASSUME i.obj, Place(i) \notin PlacesOf(done)
        PROVE  p \in DOMAIN f[i.b] /\ IsSeq(f[i.b][p]) /\ Len(f[i.b][p]) = i.amt
    <3>1. Place(i) \in PlacesOf(new)
      <4>1. PlacesOf(new) = PlacesOf(items) \ PlacesOf(done)
        BY <1>3, <1>11, FittingProps
      <4> QED BY <1>11, <2>1, <4>1, ItemProps
    <3>2. PICK l \in DOMAIN new : Place(new[l]) = Place(i)
      BY <3>1, PlaceItem
    <3>3. PICK n \in DOMAIN items : items[n] = new[l]
      BY <1>3, <1>11, FittingProps
    <3>4. items[n] = i
      BY <1>11, <3>2, <3>3, ItemProps
    <3>5. p \in DOMAIN f[i.b] /\ f[i.b][p] = given[i]
      BY <1>12, <1>15, <3>3, <3>4
    <3>6. IsSeq(given[i]) /\ Len(given[i]) = i.amt
      BY <1>5, <1>11, <1>15, <2>1, BroughtProps
    <3> QED BY <3>5, <3>6
  <2>2. m[i.b] # "undecided" /\ (m[i.b] = "objects" <=> i.obj)
    BY <1>8, <1>15
  <2> QED BY <1>4, <1>6, <1>13, <2>1, <2>2 DEF OfferOK
<1>16. OffersOK'
  BY <1>13, <1>14, <1>15 DEF OthersOK, OffersOK
<1> QED BY <1>9, <1>10, <1>16 DEF ObjInv

\* What a process that resumes has been unblocked for is decided, and its objects
\* are on record.
LEMMA ResumedObjects ==
  ASSUME Base, ObjInv, NEW p \in Procs, cur = p, InWait(p), NEW done, done = Resumed(p)
  PROVE  /\ Decides(done, mode)
         /\ \A k \in DOMAIN done : done[k].side = "put" /\ done[k].obj =>
              LET s == offer[done[k].b][p] IN IsSeq(s) /\ Len(s) = done[k].amt
<1>1. /\ ListOK(done)
      /\ \A pl \in Places : pl \in PlacesOf(done) <=> Contains(acting[p], pl)
      /\ \A n \in DOMAIN done : \E k \in DOMAIN call[p].items : done[n] = call[p].items[k]
      /\ \A n \in DOMAIN done : Due(p, Place(done[n]))
  BY WaitProps
<1>2. BucketAssumption /\ LevelsOK /\ UndecidedOK /\ OffersOK
  BY DEF Base, ObjInv
<1>3. ASSUME NEW k \in DOMAIN done
      PROVE  /\ done[k].b \in Buckets /\ done[k].side \in Sides
             /\ Place(done[k]) \in PlacesOf(done) /\ Place(done[k]) \in Places
             /\ Place(done[k]) = <<done[k].b, done[k].side>>
             /\ Place(done[k]) \notin call[p].got
             /\ done[k].side = "put" => OfferOK(p, done[k])
  <2>1. PICK l \in DOMAIN call[p].items : done[k] = call[p].items[l]
    BY <1>1
  <2>2. done[k].side = "put" => OfferOK(p, done[k])
    BY <1>2, <2>1 DEF OffersOK
  <2>3. Due(p, Place(done[k]))
    BY <1>1
  <2> QED BY <1>1, <1>2, <2>2, <2>3, ItemProps DEF Due
<1>4. ASSUME NEW k \in DOMAIN done, done[k].side = "get" PROVE mode[done[k].b] # "undecided"
  <2>1. Contains(acting[p], <<done[k].b, "get">>)
    BY <1>1, <1>3, <1>4
  <2> QED BY <1>2, <1>3, <2>1 DEF UndecidedOK
<1>5. Decides(done, mode)
  BY <1>2, <1>3, <1>4 DEF Decides, LevelsOK, OfferOK, Sides
<1>6. ASSUME NEW k \in DOMAIN done, done[k].side = "put", done[k].obj
      PROVE  LET s == offer[done[k].b][p] IN IsSeq(s) /\ Len(s) = done[k].amt
  BY <1>3, <1>6 DEF OfferOK
<1> QED BY <1>5, <1>6

LEMMA OfferedProps ==
  ASSUME NEW p, NEW items, NEW done, NEW given, given = Offered(p, items),
         \A k \in DOMAIN done : \E l \in DOMAIN items : done[k] = items[l],
         \A k \in DOMAIN done : done[k].side = "put" /\ done[k].obj =>
           LET s == offer[done[k].b][p] IN IsSeq(s) /\ Len(s) = done[k].amt
  PROVE  Supplied(done, given)
<1>1. ASSUME NEW k \in DOMAIN done, done[k].side = "put"
      PROVE  given[done[k]] = offer[done[k].b][p]
  <2>1. done[k] \in Puts(items)
    BY <1>1 DEF Puts, ToSet
  <2> QED BY <2>1 DEF Offered
<1> QED BY <1>1 DEF Supplied

LEMMA StoreReturnStep ==
  ASSUME Base, ObjInv, IInv', NEW p \in Procs, StoreReturn(p)
  PROVE  (failed' => barged' # {}) /\ (~failed' => ObjInv')
<1>1. Return(p) /\ mode' = mode
  BY DEF StoreReturn
<1>0. cur = p /\ InWait(p)
  BY <1>1 DEF Return
<1>2. PICK done, off, o, woken :
        /\ done = Resumed(p) /\ off = Withdrawn(p)
        /\ Turn(p, done, <<>>, off, o, woken) /\ Resumes(p, done, <<>>, woken)
  BY <1>1, ReturnProps
<1>3. PICK over : over = done \o off
  OBVIOUS
<1>4. PICK given : given = Offered(p, over)
  OBVIOUS
<1>5. PICK f : f = offer'
  OBVIOUS
<1>6. Move(done, off, mode, given) /\ f = Without(p, over)
  BY <1>2, <1>3, <1>4, <1>5 DEF StoreReturn
<1>7. /\ Decides(done, mode)
      /\ \A k \in DOMAIN done : done[k].side = "put" /\ done[k].obj =>
           LET s == offer[done[k].b][p] IN IsSeq(s) /\ Len(s) = done[k].amt
  BY <1>0, <1>2, ResumedObjects
<1>8. \A k \in DOMAIN done : \E l \in DOMAIN over : done[k] = over[l]
  <2>1. ListOK(done) /\ ListOK(off)
    BY <1>2 DEF Turn
  <2>2. done \in Seq(ToSet(done)) /\ off \in Seq(ToSet(off))
    BY <2>1 DEF ListOK
  <2>3. done \in Seq(ToSet(done) \cup ToSet(off)) /\ off \in Seq(ToSet(done) \cup ToSet(off))
    BY <2>2
  <2>4. /\ Len(over) = Len(done) + Len(off) /\ over \in Seq(ToSet(done) \cup ToSet(off))
        /\ \A i \in 1..Len(done) : over[i] = done[i]
    BY <1>3, <2>3, ConcatProperties
  <2> QED BY <2>3, <2>4
<1>9. Supplied(done, given)
  BY <1>4, <1>7, <1>8, OfferedProps
<1>10. failed' => barged' # {}
  BY <1>2, <1>6, <1>7, <1>9, ResumesFinds
<1>11. ASSUME ~failed' PROVE LevelsOK' /\ UndecidedOK'
  BY <1>1, <1>2, <1>6, <1>7, <1>9, <1>11, ObjTurn
<1>12. OffersOK'
  <2>1. KeepsOthers(p, f)
    BY <1>6, WithoutProps
  <2>2. call'[p] = Idle /\ \A q \in Procs : q # p => call'[q] = call[q]
    BY <1>1 DEF Return, Base, Types
  <2>3. OthersOK(p)'
    BY <1>1, <1>5, <2>1, <2>2, OthersKeep DEF Base, ObjInv
  <2>4. ~InWait(p)'
    BY <2>2 DEF InWait, Idle
  <2> QED BY <2>3, <2>4 DEF OthersOK, OffersOK
<1> QED BY <1>10, <1>11, <1>12 DEF ObjInv

LEMMA StoreAgainStep ==
  ASSUME Base, ObjInv, IInv', NEW p \in Procs, StoreAgain(p)
  PROVE  (failed' => barged' # {}) /\ (~failed' => ObjInv')
<1>1. Again(p) /\ mode' = mode
  BY DEF StoreAgain
<1>0. cur = p /\ InWait(p)
  BY <1>1 DEF Again
<1>2. PICK done, o, woken :
        /\ done = Resumed(p)
        /\ Turn(p, done, <<>>, <<>>, o, woken) /\ Resumes(p, done, <<>>, woken)
  BY <1>1, AgainProps
<1>4. PICK given : given = Offered(p, done)
  OBVIOUS
<1>5. PICK f : f = offer'
  OBVIOUS
<1>6. Move(done, <<>>, mode, given) /\ f = Without(p, done)
  BY <1>2, <1>4, <1>5 DEF StoreAgain
<1>7. /\ Decides(done, mode)
      /\ \A k \in DOMAIN done : done[k].side = "put" /\ done[k].obj =>
           LET s == offer[done[k].b][p] IN IsSeq(s) /\ Len(s) = done[k].amt
  BY <1>0, <1>2, ResumedObjects
<1>9. Supplied(done, given)
  BY <1>4, <1>7, OfferedProps
<1>10. failed' => barged' # {}
  BY <1>2, <1>6, <1>7, <1>9, ResumesFinds
<1>11. ASSUME ~failed' PROVE LevelsOK' /\ UndecidedOK'
  BY <1>1, <1>2, <1>6, <1>7, <1>9, <1>11, ObjTurn
<1>12. /\ KeepsOthers(p, f)
       /\ \A b \in Buckets : (\A k \in DOMAIN done : done[k].side = "put" => done[k].b # b) =>
            f[b] = offer[b]
  BY <1>6, WithoutProps
<1>13. /\ call'[p].items = call[p].items /\ call'[p].got = call[p].got \cup PlacesOf(done)
       /\ \A q \in Procs : q # p => call'[q] = call[q]
  <2>1. call[p] \in Blocked /\ call' = [call EXCEPT ![p].got = Got(p)]
    BY <1>0, <1>1, WaitProps DEF Again
  <2>2. Got(p) = call[p].got \cup PlacesOf(done)
    BY <1>2 DEF Got
  <2> QED BY <2>1, <2>2 DEF Base, Types, Blocked
<1>14. OthersOK(p)'
  BY <1>1, <1>5, <1>12, <1>13, OthersKeep DEF Base, ObjInv
<1>15. ASSUME NEW k \in DOMAIN call[p].items, call[p].items[k].side = "put"
       PROVE  OfferOK(p, call[p].items[k])'
  <2> DEFINE i == call[p].items[k]
  <2>1. OfferOK(p, i)
    BY <1>0, <1>15 DEF ObjInv, OffersOK
  <2>2. ASSUME Place(i) \notin PlacesOf(done) PROVE f[i.b] = offer[i.b]
    <3>1. ListOK(call[p].items) /\ \A n \in DOMAIN done : \E l \in DOMAIN call[p].items : done[n] = call[p].items[l]
      BY <1>0, <1>2, WaitProps
    <3>2. \A n \in DOMAIN done : Place(done[n]) \in PlacesOf(done)
      BY DEF PlacesOf
    <3>3. \A n \in DOMAIN done : done[n].b # i.b
      BY <2>2, <3>1, <3>2, ItemProps DEF Base
    <3>4. i.b \in Buckets
      BY <3>1, ItemProps DEF Base
    <3> QED BY <1>12, <3>3, <3>4
  <2> QED BY <1>1, <1>5, <1>13, <2>1, <2>2 DEF OfferOK
<1>16. OffersOK'
  BY <1>13, <1>14, <1>15 DEF OthersOK, OffersOK
<1> QED BY <1>10, <1>11, <1>16 DEF ObjInv

LEMMA StoreElsewhereStep ==
  ASSUME Base, ObjInv, StoreElsewhere
  PROVE  ~failed' /\ ObjInv'
<1>1. Quiet
  BY ElsewhereStep DEF StoreElsewhere
<1>2. /\ level' = level /\ acting' = acting /\ mode' = mode /\ objs' = objs /\ offer' = offer
      /\ ~failed'
  BY <1>1 DEF Quiet, bucketVars, StoreElsewhere, objVars, Goes
<1>3. LevelsOK' /\ UndecidedOK'
  BY <1>2 DEF ObjInv, LevelsOK, UndecidedOK
<1>4. \A q \in Procs : InWait(q)' => InWait(q) /\ call'[q] = call[q]
  BY <1>1 DEF Quiet
<1>5. OffersOK'
  BY <1>2, <1>4 DEF ObjInv, OffersOK, OfferOK
<1> QED BY <1>2, <1>3, <1>5 DEF ObjInv

\* A refused put may have been preceded by others in its list, which decide what
\* their stores hold.
LEMMA RefuseStep ==
  ASSUME Base, ObjInv, NEW p, NEW tried, NEW blocked, Refusal(p, tried, blocked)
  PROVE  ~failed' /\ ObjInv'
<1>1. /\ level' = level /\ acting' = acting /\ call' = call /\ objs' = objs /\ offer' = offer /\ ~failed'
      /\ \A b \in Buckets : \/ mode'[b] = mode[b]
                            \/ mode[b] = "undecided" /\ mode'[b] \in {"plain", "objects"}
  BY DEF Refusal, Goes
<1>2. LevelsOK /\ UndecidedOK /\ OffersOK /\ BucketAssumption /\ Types
  BY DEF ObjInv, Base
<1>3. LevelsOK'
  <2> SUFFICES ASSUME NEW b \in Buckets
               PROVE  /\ mode'[b] \in Modes /\ IsSeq(objs[b])
                      /\ mode'[b] = "objects" => Len(objs[b]) = level[b]
    BY <1>1 DEF LevelsOK
  <2>1. mode[b] \in Modes /\ IsSeq(objs[b]) /\ (mode[b] = "objects" => Len(objs[b]) = level[b])
    BY <1>2 DEF LevelsOK
  <2>2. mode[b] = "undecided" => Len(objs[b]) = level[b]
    BY <1>2, SeqIsSeq DEF UndecidedOK
  <2> QED BY <1>1, <2>1, <2>2 DEF Modes
<1>4. UndecidedOK'
  BY <1>1, <1>2 DEF UndecidedOK
<1>5. OffersOK'
  <2> SUFFICES ASSUME NEW q \in Procs, InWait(q), NEW k \in DOMAIN call[q].items,
                      call[q].items[k].side = "put"
               PROVE  OfferOK(q, call[q].items[k])'
    BY <1>1 DEF OffersOK, InWait
  <2>1. OfferOK(q, call[q].items[k])
    BY <1>2 DEF OffersOK
  <2>2. call[q].items[k].b \in Buckets
    BY <1>2, CallProps, ItemProps
  <2> QED BY <1>1, <2>1, <2>2 DEF OfferOK
<1> QED BY <1>1, <1>3, <1>4, <1>5 DEF ObjInv

StoreInv == (failed => barged # {}) /\ (~failed => ObjInv)

LEMMA StoreInitInv == BucketAssumption /\ StoreInit => StoreInv
<1> SUFFICES ASSUME BucketAssumption, StoreInit PROVE ~failed /\ ObjInv
  BY DEF StoreInv
<1>1. /\ Init /\ ~failed
      /\ mode = [s \in Buckets |-> IF InitLevel[s] = 0 THEN "undecided"
                                   ELSE IF s \in InitObj THEN "objects" ELSE "plain"]
      /\ objs = [s \in Buckets |-> IF s \in InitObj THEN [k \in 1..InitLevel[s] |-> k] ELSE <<>>]
  BY DEF StoreInit
<1>2. /\ level = InitLevel /\ (\A p \in Procs : acting[p] = <<>> /\ call[p] = Idle)
  BY <1>1 DEF Init, InitStats
<1>3. ASSUME NEW b \in Buckets
      PROVE  /\ InitLevel[b] \in Nat /\ (b \in InitObj => InitLevel[b] > 0)
             /\ b \in InitObj => IsSeq(objs[b]) /\ Len(objs[b]) = level[b]
             /\ b \notin InitObj => objs[b] = <<>> /\ IsSeq(objs[b])
  <2>1. InitLevel[b] \in Nat /\ (b \in InitObj => InitLevel[b] > 0)
    BY StoreAssumption DEF BucketAssumption, ValidStore
  <2> DEFINE s == [k \in 1..InitLevel[b] |-> k]
  <2>2. s = [k \in 1..InitLevel[b] |-> s[k]]
    OBVIOUS
  <2> HIDE DEF s
  <2>3. IsSeq(s) /\ Len(s) = InitLevel[b]
    BY <2>1, <2>2, NumberedSeq
  <2>4. /\ b \in InitObj => objs[b] = s
        /\ b \notin InitObj => objs[b] = <<>>
    BY <1>1 DEF s
  <2> QED BY <1>2, <2>1, <2>3, <2>4, SeqIsSeq
<1>4. \A b \in Buckets : mode[b] = IF InitLevel[b] = 0 THEN "undecided"
                                   ELSE IF b \in InitObj THEN "objects" ELSE "plain"
  BY <1>1
<1>5. LevelsOK
  BY <1>3, <1>4 DEF LevelsOK, Modes
<1>6. UndecidedOK
  BY <1>2, <1>3, <1>4 DEF UndecidedOK, Contains
<1>7. OffersOK
  BY <1>2 DEF OffersOK, InWait, Idle
<1> QED BY <1>1, <1>5, <1>6, <1>7 DEF ObjInv

LEMMA StoreNextInv == BucketsOK /\ BucketsOK' /\ StoreInv /\ [StoreNext]_storeVars => StoreInv'
<1> SUFFICES ASSUME BucketsOK, BucketsOK', StoreInv, [StoreNext]_storeVars PROVE StoreInv'
  OBVIOUS
<1>0. Goes => IInv /\ Base /\ BucketAssumption /\ ~failed /\ ObjInv
  BY DEF BucketsOK, Running, Goes, IInv, Base, StoreInv
<1>1. ASSUME NEW items \in Lists, NEW every, StoreAtOnce(items, every) PROVE StoreInv'
  <2>1. Goes
    BY <1>1 DEF StoreAtOnce, Arrive
  <2> QED BY <1>0, <1>1, <2>1, StoreAtOnceStep DEF StoreInv
<1>2. ASSUME NEW op \in {"direct", "cond"}, NEW items \in Lists,
             NEW every \in BOOLEAN, NEW timed \in BOOLEAN,
             op = "direct" => (\E i \in Items : items = <<i>>) /\ every /\ ~timed,
             StoreBlocks(op, items, every, timed)
      PROVE  StoreInv'
  <2>1. Goes
    BY <1>2 DEF StoreBlocks, Arrive
  <2> QED BY <1>0, <1>2, <2>1, StoreBlocksStep DEF StoreInv
<1>3. ASSUME NEW p \in Procs, StoreReturn(p) PROVE StoreInv'
  <2>1. Goes /\ ~raised'
    BY <1>3 DEF StoreReturn, Goes, refusalVars
  <2>2. IInv'
    BY <2>1 DEF BucketsOK, Running
  <2> QED BY <1>0, <1>3, <2>1, <2>2, StoreReturnStep DEF StoreInv
<1>4. ASSUME NEW p \in Procs, StoreAgain(p) PROVE StoreInv'
  <2>1. Goes /\ ~raised'
    BY <1>4 DEF StoreAgain, Goes, refusalVars
  <2>2. IInv'
    BY <2>1 DEF BucketsOK, Running
  <2> QED BY <1>0, <1>4, <2>1, <2>2, StoreAgainStep DEF StoreInv
<1>5. ASSUME StoreElsewhere PROVE StoreInv'
  <2>1. Goes
    BY <1>5 DEF StoreElsewhere
  <2> QED BY <1>0, <1>5, <2>1, StoreElsewhereStep DEF StoreInv
<1>6. ASSUME UNCHANGED storeVars PROVE StoreInv'
  BY <1>6 DEF storeVars, vars, schedVars, bucketVars, history, objVars, StoreInv, ObjInv, LevelsOK,
              UndecidedOK, OffersOK, OfferOK, InWait
<1>7. ASSUME NEW items \in Lists, Refuse(items) PROVE StoreInv'
  <2>1. Goes
    BY <1>7 DEF Refuse
  <2>2. PICK p \in Procs : \E tried, blocked : Refusal(p, tried, blocked)
    BY <1>0, <1>7, <2>1, RefuseProps
  <2> QED BY <1>0, <2>1, <2>2, RefuseStep DEF StoreInv
<1>8. CASE Goes
  <2>1. \A i \in Items : <<i>> \in Lists
    BY DEF Lists
  <2>2. \A w \in Waits : w.items \in Lists /\ w.every \in BOOLEAN /\ w.timed \in BOOLEAN
    BY <1>0, <1>8 DEF Lists, BucketAssumption
  <2>3. ASSUME NEW i \in Items, Get(i) \/ Put(i) PROVE StoreInv'
    <3>1. \/ StoreAtOnce(<<i>>, TRUE) \/ StoreBlocks("direct", <<i>>, TRUE, FALSE)
          \/ Refuse(<<i>>)
      BY <2>3 DEF Get, Put
    <3> QED BY <1>1, <1>2, <1>7, <2>1, <3>1
  <2>4. ASSUME NEW w \in Waits, Wait(w) PROVE StoreInv'
    <3>1. \/ StoreAtOnce(w.items, w.every) \/ StoreBlocks("cond", w.items, w.every, w.timed)
          \/ Refuse(w.items)
      BY <2>4 DEF Wait
    <3> QED BY <1>1, <1>2, <1>7, <2>2, <3>1
  <2> QED BY <1>3, <1>4, <1>5, <1>6, <2>3, <2>4 DEF StoreNext, Ended
<1>9. CASE ~Goes
  BY <1>6, <1>9, NothingAfter
<1> QED BY <1>8, <1>9

LEMMA AlwaysStoreInv == BucketAssumption /\ StoreSpec => []StoreInv
BY AlwaysBuckets, StoreInitInv, StoreNextInv, PTL DEF StoreSpec

\* A consumer that departs finds its objects in the store: _make_c_departure() takes
\* them without looking, and the only way to an IndexError is that the promise made
\* when it was unblocked was broken before.
THEOREM ObjectsAlwaysThere == BucketAssumption /\ StoreSpec => []NoUnderflow
<1>1. StoreInv => NoUnderflow
  BY DEF StoreInv, NoUnderflow
<1> QED BY <1>1, AlwaysStoreInv, PTL

-----------------------------------------------------------------------------
(* Where the objects of stores are *)

\* The object n is at k in the store b of o, and in what q offers to b in f.
InStore(o, n, b, k) == b \in Buckets /\ k \in DOMAIN o[b] /\ o[b][k] = n
InOffer(f, n, b, q, k) == /\ b \in Buckets /\ q \in DOMAIN f[b]
                          /\ k \in DOMAIN f[b][q] /\ f[b][q][k] = n

NoStore(o, n) == \A b, k : ~InStore(o, n, b, k)
OneStore(o, n) == \E b, k : /\ InStore(o, n, b, k)
                            /\ \A c, j : InStore(o, n, c, j) => c = b /\ j = k
NoOffer(f, n) == \A b, q, k : ~InOffer(f, n, b, q, k)
OneOffer(f, n) == \E b, q, k : /\ InOffer(f, n, b, q, k)
                               /\ \A c, r, j : InOffer(f, n, c, r, j) => c = b /\ r = q /\ j = k

\* It is nowhere, or in one place: a store of o, an offer of f, with a consumer
\* (in t), or withdrawn (in d).
Nowhere(n, o, f, t, d) == NoStore(o, n) /\ NoOffer(f, n) /\ n \notin t /\ n \notin d
Somewhere(n, o, f, t, d) ==
  \/ OneStore(o, n) /\ NoOffer(f, n) /\ n \notin t /\ n \notin d
  \/ NoStore(o, n) /\ OneOffer(f, n) /\ n \notin t /\ n \notin d
  \/ NoStore(o, n) /\ NoOffer(f, n) /\ n \in t /\ n \notin d
  \/ NoStore(o, n) /\ NoOffer(f, n) /\ n \notin t /\ n \in d

Placed(o, f, t, d, N) ==
  \A n : IF n \in 1..N THEN Somewhere(n, o, f, t, d) ELSE Nowhere(n, o, f, t, d)

\* The process p, which had no offers in f, has them for the stores of H in g: the
\* objects from N + 1 to M, each once.
Arrived(f, g, p, H, N, M) ==
  /\ N \in Nat /\ M \in Nat /\ N <= M /\ H \subseteq Buckets
  /\ \A b \in Buckets :
       /\ p \notin DOMAIN f[b]
       /\ \A q : q \in DOMAIN g[b] <=> q \in DOMAIN f[b] \/ (q = p /\ b \in H)
       /\ \A q \in DOMAIN f[b] : g[b][q] = f[b][q]
  /\ \A b \in H : \A k \in DOMAIN g[b][p] : g[b][p][k] \in (N + 1)..M
  /\ \A n \in (N + 1)..M : \E b, k : /\ b \in H /\ k \in DOMAIN g[b][p] /\ g[b][p][k] = n
                                     /\ \A c, j : c \in H /\ j \in DOMAIN g[c][p] /\ g[c][p][j] = n
                                                    => c = b /\ j = k

LEMMA ArrivedPlaced ==
  ASSUME NEW o, NEW f, NEW g, NEW t, NEW d, NEW p, NEW H, NEW N, NEW M,
         Placed(o, f, t, d, N), Arrived(f, g, p, H, N, M)
  PROVE  Placed(o, g, t, d, M)
<1>1. /\ N \in Nat /\ M \in Nat /\ N <= M /\ H \subseteq Buckets
      /\ \A b \in Buckets : p \notin DOMAIN f[b]
      /\ \A b \in Buckets : \A q : q \in DOMAIN g[b] <=> q \in DOMAIN f[b] \/ (q = p /\ b \in H)
      /\ \A b \in Buckets : \A q \in DOMAIN f[b] : g[b][q] = f[b][q]
      /\ \A b \in H : \A k \in DOMAIN g[b][p] : g[b][p][k] \in (N + 1)..M
  BY DEF Arrived
<1>2. \A n \in (N + 1)..M : \E b, k : /\ b \in H /\ k \in DOMAIN g[b][p] /\ g[b][p][k] = n
                                      /\ \A c, j : c \in H /\ j \in DOMAIN g[c][p] /\ g[c][p][j] = n
                                                     => c = b /\ j = k
  BY DEF Arrived
<1>3. ASSUME NEW n, NEW b, NEW q, NEW k
      PROVE  InOffer(g, n, b, q, k) <=> \/ InOffer(f, n, b, q, k)
                                        \/ q = p /\ b \in H /\ k \in DOMAIN g[b][p] /\ g[b][p][k] = n
  BY <1>1 DEF InOffer
<1>4. ASSUME NEW n PROVE n \notin (N + 1)..M => \A b, q, k : InOffer(g, n, b, q, k) <=> InOffer(f, n, b, q, k)
  BY <1>1, <1>3
<1>5. ASSUME NEW n, n \notin (N + 1)..M
      PROVE  (NoOffer(g, n) <=> NoOffer(f, n)) /\ (OneOffer(g, n) <=> OneOffer(f, n))
  BY <1>4, <1>5 DEF NoOffer, OneOffer
<1>6. ASSUME NEW n \in (N + 1)..M, NoOffer(f, n) PROVE OneOffer(g, n)
  <2>1. PICK b, k : /\ b \in H /\ k \in DOMAIN g[b][p] /\ g[b][p][k] = n
                    /\ \A c, j : c \in H /\ j \in DOMAIN g[c][p] /\ g[c][p][j] = n => c = b /\ j = k
    BY <1>2
  <2>2. InOffer(g, n, b, p, k)
    BY <1>3, <2>1
  <2>3. \A c, r, j : InOffer(g, n, c, r, j) => c = b /\ r = p /\ j = k
    BY <1>3, <1>6, <2>1 DEF NoOffer
  <2> QED BY <2>2, <2>3 DEF OneOffer
<1>7. ASSUME NEW n \in (N + 1)..M PROVE Somewhere(n, o, g, t, d)
  <2>1. n \notin 1..N
    BY <1>1
  <2>2. Nowhere(n, o, f, t, d)
    BY <2>1 DEF Placed
  <2>3. OneOffer(g, n)
    BY <1>6, <2>2 DEF Nowhere
  <2> QED BY <2>2, <2>3 DEF Nowhere, Somewhere
<1>8. ASSUME NEW n, n \notin (N + 1)..M
      PROVE  IF n \in 1..M THEN Somewhere(n, o, g, t, d) ELSE Nowhere(n, o, g, t, d)
  <2>1. n \in 1..M <=> n \in 1..N
    BY <1>1, <1>8
  <2>2. IF n \in 1..N THEN Somewhere(n, o, f, t, d) ELSE Nowhere(n, o, f, t, d)
    BY DEF Placed
  <2> QED BY <1>5, <1>8, <2>1, <2>2 DEF Somewhere, Nowhere
<1>9. (N + 1)..M \subseteq 1..M
  BY <1>1
<1> QED BY <1>7, <1>8, <1>9 DEF Placed

\* From each store b the oldest a[b] objects are taken.  What p offers to the
\* stores of P enters them, and what it offers to those of Q is withdrawn.
Moved(a, P, Q, p, o, u, f, g, t, v, d, e) ==
  /\ \A b \in Buckets : a[b] \in Nat /\ Len(o[b]) \in Nat /\ DOMAIN o[b] = 1..Len(o[b])
  /\ P \subseteq Buckets /\ Q \subseteq Buckets /\ P \cap Q = {} /\ \A b \in P : a[b] = 0
  /\ \A b \in P \cup Q : p \in DOMAIN f[b] /\ DOMAIN f[b][p] \subseteq Nat \ {0}
  /\ \A b \in Buckets \ P : \A k :
       /\ k \in DOMAIN u[b] => k \in Nat \ {0}
       /\ k \in Nat \ {0} => (k \in DOMAIN u[b] <=> k + a[b] \in DOMAIN o[b])
       /\ k \in DOMAIN u[b] => u[b][k] = o[b][k + a[b]]
  /\ \A b \in P : \A k :
       /\ k \in DOMAIN u[b] <=> \/ k \in DOMAIN o[b]
                                \/ k \in Nat /\ k - Len(o[b]) \in DOMAIN f[b][p]
       /\ k \in DOMAIN o[b] => u[b][k] = o[b][k]
       /\ k \in Nat /\ k - Len(o[b]) \in DOMAIN f[b][p] => u[b][k] = f[b][p][k - Len(o[b])]
  /\ \A b \in Buckets : /\ \A q : q \in DOMAIN g[b] <=> q \in DOMAIN f[b] /\ ~(q = p /\ b \in P \cup Q)
                        /\ \A q \in DOMAIN g[b] : g[b][q] = f[b][q]
  /\ \A n : n \in v <=> n \in t \/ \E b \in Buckets : \E k \in DOMAIN o[b] : k <= a[b] /\ o[b][k] = n
  /\ \A n : n \in e <=> n \in d \/ \E b \in Q : \E k \in DOMAIN f[b][p] : f[b][p][k] = n

LEMMA MovedPlaced ==
  ASSUME NEW a, NEW P, NEW Q, NEW p, NEW o, NEW u, NEW f, NEW g, NEW t, NEW v, NEW d, NEW e, NEW N,
         Placed(o, f, t, d, N), Moved(a, P, Q, p, o, u, f, g, t, v, d, e)
  PROVE  Placed(u, g, v, e, N)
<1>1. /\ \A b \in Buckets : a[b] \in Nat /\ Len(o[b]) \in Nat /\ DOMAIN o[b] = 1..Len(o[b])
      /\ P \subseteq Buckets /\ Q \subseteq Buckets /\ P \cap Q = {} /\ \A b \in P : a[b] = 0
      /\ \A b \in P \cup Q : p \in DOMAIN f[b] /\ DOMAIN f[b][p] \subseteq Nat \ {0}
  BY DEF Moved
<1>2. ASSUME NEW n, NEW b \in Buckets \ P, NEW k
      PROVE  InStore(u, n, b, k) <=> k \in Nat \ {0} /\ InStore(o, n, b, k + a[b])
  <2>1. /\ k \in DOMAIN u[b] => k \in Nat \ {0}
        /\ k \in Nat \ {0} => (k \in DOMAIN u[b] <=> k + a[b] \in DOMAIN o[b])
        /\ k \in DOMAIN u[b] => u[b][k] = o[b][k + a[b]]
    BY DEF Moved
  <2> QED BY <2>1 DEF InStore
<1>3. ASSUME NEW n, NEW b \in P, NEW k
      PROVE  InStore(u, n, b, k) <=> \/ InStore(o, n, b, k)
                                     \/ k \in Nat /\ InOffer(f, n, b, p, k - Len(o[b]))
  <2>1. /\ k \in DOMAIN u[b] <=> \/ k \in DOMAIN o[b]
                                 \/ k \in Nat /\ k - Len(o[b]) \in DOMAIN f[b][p]
        /\ k \in DOMAIN o[b] => u[b][k] = o[b][k]
        /\ k \in Nat /\ k - Len(o[b]) \in DOMAIN f[b][p] => u[b][k] = f[b][p][k - Len(o[b])]
    BY DEF Moved
  <2> QED BY <1>1, <2>1 DEF InStore, InOffer
<1>4. ASSUME NEW n, NEW b, NEW q, NEW k
      PROVE  InOffer(g, n, b, q, k) <=> InOffer(f, n, b, q, k) /\ ~(q = p /\ b \in P \cup Q)
  <2>1. CASE b \in Buckets
    <3>1. /\ q \in DOMAIN g[b] <=> q \in DOMAIN f[b] /\ ~(q = p /\ b \in P \cup Q)
          /\ q \in DOMAIN g[b] => g[b][q] = f[b][q]
      BY <2>1 DEF Moved
    <3> QED BY <3>1 DEF InOffer
  <2> QED BY <2>1 DEF InOffer
<1>5. ASSUME NEW n PROVE n \in v <=> n \in t \/ \E b, k : InStore(o, n, b, k) /\ k <= a[b]
  <2>1. n \in v <=> n \in t \/ \E b \in Buckets : \E k \in DOMAIN o[b] : k <= a[b] /\ o[b][k] = n
    BY DEF Moved
  <2> QED BY <2>1 DEF InStore
<1>6. ASSUME NEW n PROVE n \in e <=> n \in d \/ \E b, k : b \in Q /\ InOffer(f, n, b, p, k)
  <2>1. n \in e <=> n \in d \/ \E b \in Q : \E k \in DOMAIN f[b][p] : f[b][p][k] = n
    BY DEF Moved
  <2> QED BY <1>1, <2>1 DEF InOffer
<1>7. \A n, b, k : InStore(o, n, b, k) => b \in Buckets /\ k \in Nat \ {0} /\ k <= Len(o[b])
  BY <1>1 DEF InStore
<1>8. \A n, b, k : InStore(u, n, b, k) => b \in Buckets
  BY DEF InStore
<1>9. \A n, b, k : b \in P \cup Q /\ InOffer(f, n, b, p, k) => k \in Nat \ {0}
  BY <1>1 DEF InOffer
<1>10. ASSUME NEW n, NoStore(o, n), NoOffer(f, n)
       PROVE  NoStore(u, n) /\ NoOffer(g, n) /\ (n \in v <=> n \in t) /\ (n \in e <=> n \in d)
  <2>1. NoStore(u, n)
    BY <1>2, <1>3, <1>8, <1>10 DEF NoStore, NoOffer
  <2>2. NoOffer(g, n)
    BY <1>4, <1>10 DEF NoOffer
  <2> QED BY <1>5, <1>6, <1>10, <2>1, <2>2 DEF NoStore, NoOffer
<1>11. ASSUME NEW n, OneStore(o, n), NoOffer(f, n), n \notin t, n \notin d
       PROVE  Somewhere(n, u, g, v, e)
  <2>1. PICK b, k : /\ InStore(o, n, b, k)
                    /\ \A c, j : InStore(o, n, c, j) => c = b /\ j = k
    BY <1>11 DEF OneStore
  <2>2. b \in Buckets /\ k \in Nat \ {0} /\ k <= Len(o[b]) /\ a[b] \in Nat
    BY <1>1, <1>7, <2>1
  <2>3. NoOffer(g, n) /\ n \notin e
    BY <1>4, <1>6, <1>11 DEF NoOffer
  <2>4. \A c, j : c \in P => (InStore(u, n, c, j) <=> InStore(o, n, c, j))
    BY <1>3, <1>11 DEF NoOffer
  <2>5. CASE k <= a[b]
    <3>1. n \in v
      BY <1>5, <2>1, <2>5
    <3>2. ASSUME NEW c, NEW j, InStore(u, n, c, j) PROVE FALSE
      <4>1. CASE c \in P
        <5>1. c = b
          BY <2>1, <2>4, <3>2, <4>1
        <5> QED BY <1>1, <2>2, <2>5, <4>1, <5>1
      <4>2. CASE c \notin P
        <5>1. j \in Nat \ {0} /\ InStore(o, n, c, j + a[c])
          BY <1>2, <1>8, <3>2, <4>2
        <5>2. c = b /\ j + a[b] = k
          BY <2>1, <5>1
        <5> QED BY <2>2, <2>5, <5>1, <5>2
      <4> QED BY <4>1, <4>2
    <3>3. NoStore(u, n)
      BY <3>2 DEF NoStore
    <3> QED BY <2>3, <3>1, <3>3 DEF Somewhere
  <2>6. CASE ~(k <= a[b])
    <3>1. n \notin v
      BY <1>5, <1>11, <2>1, <2>6
    <3>2. CASE b \in P
      <4>1. InStore(u, n, b, k)
        BY <2>1, <2>4, <3>2
      <4>2. ASSUME NEW c, NEW j, InStore(u, n, c, j) PROVE c = b /\ j = k
        <5>1. CASE c \in P
          BY <2>1, <2>4, <4>2, <5>1
        <5>2. CASE c \notin P
          <6>1. InStore(o, n, c, j + a[c])
            BY <1>2, <1>8, <4>2, <5>2
          <6> QED BY <2>1, <3>2, <5>2, <6>1
        <5> QED BY <5>1, <5>2
      <4>3. OneStore(u, n)
        BY <4>1, <4>2 DEF OneStore
      <4> QED BY <2>3, <3>1, <4>3, <1>11 DEF Somewhere
    <3>3. CASE b \notin P
      <4> DEFINE l == k - a[b]
      <4>1. l \in Nat \ {0} /\ l + a[b] = k
        BY <2>2, <2>6
      <4>2. InStore(u, n, b, l)
        BY <1>2, <2>1, <2>2, <3>3, <4>1
      <4>3. ASSUME NEW c, NEW j, InStore(u, n, c, j) PROVE c = b /\ j = l
        <5>1. CASE c \in P
          BY <2>1, <2>4, <3>3, <4>3, <5>1
        <5>2. CASE c \notin P
          <6>1. j \in Nat \ {0} /\ InStore(o, n, c, j + a[c])
            BY <1>2, <1>8, <4>3, <5>2
          <6>2. c = b /\ j + a[b] = k
            BY <2>1, <6>1
          <6> QED BY <2>2, <6>1, <6>2
        <5> QED BY <5>1, <5>2
      <4> HIDE DEF l
      <4>4. OneStore(u, n)
        BY <4>2, <4>3 DEF OneStore
      <4> QED BY <2>3, <3>1, <4>4, <1>11 DEF Somewhere
    <3> QED BY <3>2, <3>3
  <2> QED BY <2>5, <2>6
<1>12. ASSUME NEW n, NoStore(o, n), OneOffer(f, n), n \notin t, n \notin d
       PROVE  Somewhere(n, u, g, v, e)
  <2>1. PICK b, q, k : /\ InOffer(f, n, b, q, k)
                       /\ \A c, r, j : InOffer(f, n, c, r, j) => c = b /\ r = q /\ j = k
    BY <1>12 DEF OneOffer
  <2>2. n \notin v
    BY <1>5, <1>12 DEF NoStore
  <2>3. ASSUME NEW c, NEW j, InStore(u, n, c, j)
        PROVE  c = b /\ q = p /\ b \in P /\ j \in Nat /\ j - Len(o[b]) = k
    <3>1. c \in P
      BY <1>2, <1>8, <1>12, <2>3 DEF NoStore
    <3>2. j \in Nat /\ InOffer(f, n, c, p, j - Len(o[c]))
      BY <1>3, <1>12, <2>3, <3>1 DEF NoStore
    <3> QED BY <2>1, <3>1, <3>2
  <2>4. CASE q = p /\ b \in P
    <3> DEFINE l == Len(o[b]) + k
    <3>0. k \in Nat \ {0} /\ Len(o[b]) \in Nat
      BY <1>1, <1>9, <2>1, <2>4
    <3>1. l \in Nat /\ l - Len(o[b]) = k
      BY <3>0
    <3>2. InStore(u, n, b, l)
      BY <1>3, <2>1, <2>4, <3>1
    <3>3. \A c, j : InStore(u, n, c, j) => c = b /\ j = l
      BY <2>3, <3>0
    <3> HIDE DEF l
    <3>4. OneStore(u, n)
      BY <3>2, <3>3 DEF OneStore
    <3>5. NoOffer(g, n)
      BY <1>4, <2>1, <2>4 DEF NoOffer
    <3>6. n \notin e
      BY <1>1, <1>6, <1>12, <2>1, <2>4
    <3> QED BY <2>2, <3>4, <3>5, <3>6 DEF Somewhere
  <2>5. CASE q = p /\ b \in Q
    <3>1. NoStore(u, n)
      BY <1>1, <2>3, <2>5 DEF NoStore
    <3>2. NoOffer(g, n)
      BY <1>4, <2>1, <2>5 DEF NoOffer
    <3>3. n \in e
      BY <1>6, <2>1, <2>5
    <3> QED BY <2>2, <3>1, <3>2, <3>3 DEF Somewhere
  <2>6. CASE ~(q = p /\ b \in P \cup Q)
    <3>1. NoStore(u, n)
      BY <2>3, <2>6 DEF NoStore
    <3>2. OneOffer(g, n)
      <4>1. InOffer(g, n, b, q, k)
        BY <1>4, <2>1, <2>6
      <4>2. \A c, r, j : InOffer(g, n, c, r, j) => c = b /\ r = q /\ j = k
        BY <1>4, <2>1
      <4> QED BY <4>1, <4>2 DEF OneOffer
    <3>3. n \notin e
      BY <1>6, <1>12, <2>1, <2>6
    <3> QED BY <2>2, <3>1, <3>2, <3>3 DEF Somewhere
  <2> QED BY <2>4, <2>5, <2>6
<1>13. ASSUME NEW n, Somewhere(n, o, f, t, d) PROVE Somewhere(n, u, g, v, e)
  <2>1. CASE OneStore(o, n) /\ NoOffer(f, n) /\ n \notin t /\ n \notin d
    BY <1>11, <2>1
  <2>2. CASE NoStore(o, n) /\ OneOffer(f, n) /\ n \notin t /\ n \notin d
    BY <1>12, <2>2
  <2>3. CASE NoStore(o, n) /\ NoOffer(f, n) /\ (n \in t <=> n \notin d)
    BY <1>10, <2>3 DEF Somewhere
  <2> QED BY <1>13, <2>1, <2>2, <2>3 DEF Somewhere
<1>14. ASSUME NEW n, Nowhere(n, o, f, t, d) PROVE Nowhere(n, u, g, v, e)
  BY <1>10, <1>14 DEF Nowhere
<1> QED BY <1>13, <1>14 DEF Placed

\* The numbers of the objects that come with a list.
LEMMA NumberProps ==
  ASSUME BucketAssumption, NEW items \in Lists
  PROVE  /\ Len(items) \in Nat /\ DOMAIN items = 1..Len(items)
         /\ \A k \in 1..Len(items) : Count(items[k]) \in Nat
         /\ Number(items, 0) = 0
         /\ \A k \in 0..Len(items) : Number(items, k) \in Nat
         /\ \A k \in 1..Len(items) : Number(items, k) = Number(items, k - 1) + Count(items[k])
<1> DEFINE l == Len(items)
           upto[n \in 0..l] == IF n = 0 THEN 0 ELSE upto[n - 1] + Count(items[n])
           g == [nv \in (1..l) \X Nat |-> nv[2] + Count(items[nv[1]])]
<1>0. l \in Nat /\ DOMAIN items = 1..l
  <2>1. items \in Seq(ToSet(items))
    BY ListsOK DEF ListOK
  <2> QED BY <2>1
<1>a. \A n \in 1..l : Count(items[n]) \in Nat
  <2>1. ASSUME NEW n \in 1..l PROVE items[n].amt \in Nat
    BY <1>0, ListsOK, ItemProps
  <2> QED BY <2>1 DEF Count
<1>1. \A k : Number(items, k) = upto[k]
  BY Zenon DEF Number
<1>2. \E f : f = [n \in 0..l |-> IF n = 0 THEN 0 ELSE f[n - 1] + Count(items[n])]
  <2>1. g \in [(1..l) \X Nat -> Nat]
    <3>1. ASSUME NEW nv \in (1..l) \X Nat PROVE nv[2] + Count(items[nv[1]]) \in Nat
      <4>1. nv[1] \in 1..l /\ nv[2] \in Nat
        OBVIOUS
      <4> HIDE DEF l
      <4> QED BY <1>a, <4>1
    <3> HIDE DEF l
    <3> QED BY <3>1
  <2>2. \A n \in 1..l, v \in Nat : g[<<n, v>>] = v + Count(items[n])
    OBVIOUS
  <2> HIDE DEF g, l
  <2>3. PICK f : Turns(f, l, Nat, 0, g)
    BY <1>0, <2>1, LoopExists
  <2>4. f \in [0..l -> Nat] /\ f[0] = 0 /\ \A n \in 1..l : f[n] = g[<<n, f[n - 1]>>]
    BY <2>3 DEF Turns
  <2>5. ASSUME NEW n \in 0..l
        PROVE  f[n] = IF n = 0 THEN 0 ELSE f[n - 1] + Count(items[n])
    <3>1. CASE n = 0
      BY <2>4, <3>1
    <3>2. CASE n # 0
      <4>1. n \in 1..l /\ n - 1 \in 0..l
        BY <1>0, <3>2
      <4>2. f[n - 1] \in Nat
        BY <2>4, <4>1
      <4>3. f[n] = f[n - 1] + Count(items[n])
        BY <2>2, <2>4, <4>1, <4>2
      <4> QED BY <3>2, <4>3
    <3> QED BY <3>1, <3>2
  <2>6. f = [n \in 0..l |-> IF n = 0 THEN 0 ELSE f[n - 1] + Count(items[n])]
    BY <2>4, <2>5
  <2> QED BY <2>6
<1>3. upto = [n \in 0..l |-> IF n = 0 THEN 0 ELSE upto[n - 1] + Count(items[n])]
  <2> HIDE DEF l
  <2> QED BY <1>2, Zenon
<1>4. \A n \in 0..l : upto[n] = IF n = 0 THEN 0 ELSE upto[n - 1] + Count(items[n])
  <2> HIDE DEF upto, l
  <2> QED BY <1>3, Zenon
<1> HIDE DEF upto, g, l
<1> DEFINE G == {n \in Nat : n <= l => upto[n] \in Nat}
<1>5. upto[0] = 0
  BY <1>0, <1>4
<1>6. \A n \in 1..l : upto[n] = upto[n - 1] + Count(items[n])
  BY <1>0, <1>4
<1>7. \A n \in Nat : n \in G
  <2>1. 0 \in G
    BY <1>5
  <2>2. ASSUME NEW n \in Nat, n \in G PROVE n + 1 \in G
    <3> SUFFICES ASSUME n + 1 <= l PROVE upto[n + 1] \in Nat
      OBVIOUS
    <3>1. n + 1 \in 1..l /\ (n + 1) - 1 = n /\ n <= l
      BY <1>0
    <3>2. upto[n] \in Nat /\ Count(items[n + 1]) \in Nat
      BY <1>a, <2>2, <3>1
    <3> QED BY <1>6, <3>1, <3>2
  <2> HIDE DEF G
  <2> QED BY <2>1, <2>2, AllNat
<1>8. \A n \in 0..l : upto[n] \in Nat
  BY <1>0, <1>7
<1>9. /\ l \in Nat /\ DOMAIN items = 1..l /\ \A k \in 1..l : Count(items[k]) \in Nat
      /\ Number(items, 0) = 0
      /\ \A k \in 0..l : Number(items, k) \in Nat
      /\ \A k \in 1..l : Number(items, k) = Number(items, k - 1) + Count(items[k])
  BY <1>0, <1>1, <1>5, <1>6, <1>8, <1>a
<1> QED BY <1>9 DEF l

\* Intervals, one after the other, of lengths c; N[k] is where the k-th ends.
Laid(l, N, c) == N[0] = 0 /\ \A k \in 1..l : N[k] = N[k - 1] + c[k]
Tiled(l, N, c) == /\ \A k \in 1..l : \A j \in 1..c[k] : N[k - 1] + j \in 1..N[l]
                  /\ \A n \in 1..N[l] : \E k \in 1..l : \E j \in 1..c[k] : n = N[k - 1] + j
                  /\ \A k, m \in 1..l : \A j \in 1..c[k], h \in 1..c[m] :
                       N[k - 1] + j = N[m - 1] + h => k = m /\ j = h

\* A number in the interval of length c behind a, and one of the interval as a number.
LEMMA OneInterval ==
  ASSUME NEW a \in Nat, NEW c \in Nat, NEW n \in Nat, a < n, n <= a + c
  PROVE  n - a \in 1..c /\ n = a + (n - a)
  OBVIOUS

LEMMA InsideInterval ==
  ASSUME NEW a \in Nat, NEW c \in Nat, NEW e \in Nat, NEW j \in 1..c, a + c <= e
  PROVE  a + j \in 1..e
  OBVIOUS

\* The number j behind a is the number h behind b: not when b is behind the interval at a.
Meet(a, j, b, h) == a + j = b + h

LEMMA NeverMeet ==
  ASSUME NEW a \in Nat, NEW b \in Nat, NEW c \in Nat, NEW d \in Nat,
         NEW j \in 1..c, NEW h \in 1..d, Meet(a, j, b, h), a + c <= b
  PROVE  FALSE
  BY DEF Meet

LEMMA Intervals ==
  ASSUME NEW l \in Nat, NEW N \in [0..l -> Nat], NEW c \in [1..l -> Nat], Laid(l, N, c)
  PROVE  Tiled(l, N, c)
<1> DEFINE G == {m \in Nat : m <= l =>
                   /\ \A k \in 0..m : N[k] <= N[m]
                   /\ \A n \in 1..N[m] : \E k \in 1..m : N[k - 1] < n /\ n <= N[k]}
<1>1. \A k \in 1..l : k - 1 \in 0..l /\ k \in 0..l /\ N[k - 1] \in Nat /\ N[k] \in Nat /\ c[k] \in Nat
  OBVIOUS
<1>a. N[0] = 0 /\ \A k \in 1..l : N[k] = N[k - 1] + c[k]
  BY DEF Laid
<1> HIDE DEF G
<1>2. \A m \in Nat : m \in G
  <2>1. 0 \in G
    <3>1. \A k \in 0..0 : k = 0
      OBVIOUS
    <3>2. N[0] <= N[0] /\ 1..N[0] = {}
      BY <1>1, <1>a
    <3> QED BY <3>1, <3>2 DEF G
  <2>2. ASSUME NEW m \in Nat, m \in G PROVE m + 1 \in G
    <3> SUFFICES ASSUME m + 1 <= l
                 PROVE  /\ \A k \in 0..(m + 1) : N[k] <= N[m + 1]
                        /\ \A n \in 1..N[m + 1] : \E k \in 1..(m + 1) : N[k - 1] < n /\ n <= N[k]
      BY DEF G
    <3>1. /\ m <= l /\ m + 1 \in 1..l /\ (m + 1) - 1 = m
          /\ N[m + 1] = N[m] + c[m + 1] /\ N[m] \in Nat /\ c[m + 1] \in Nat /\ N[m + 1] \in Nat
      BY <1>1, <1>a
    <3>2. /\ \A k \in 0..m : N[k] <= N[m]
          /\ \A n \in 1..N[m] : \E k \in 1..m : N[k - 1] < n /\ n <= N[k]
      BY <2>2, <3>1 DEF G
    <3>3. ASSUME NEW k \in 0..(m + 1) PROVE N[k] <= N[m + 1]
      <4>1. CASE k = m + 1
        BY <3>1, <4>1
      <4>2. CASE k # m + 1
        <5>1. k \in 0..m /\ N[k] \in Nat
          BY <3>1, <4>2
        <5> QED BY <3>1, <3>2, <5>1
      <4> QED BY <4>1, <4>2
    <3>4. ASSUME NEW n \in 1..N[m + 1] PROVE \E k \in 1..(m + 1) : N[k - 1] < n /\ n <= N[k]
      <4>1. CASE n <= N[m]
        <5>1. n \in 1..N[m]
          BY <3>1, <4>1
        <5>2. PICK k \in 1..m : N[k - 1] < n /\ n <= N[k]
          BY <3>2, <5>1
        <5>3. k \in 1..(m + 1)
          OBVIOUS
        <5> QED BY <5>2, <5>3
      <4>2. CASE ~(n <= N[m])
        <5>1. m + 1 \in 1..(m + 1) /\ N[(m + 1) - 1] < n /\ n <= N[m + 1]
          BY <3>1, <4>2
        <5> QED BY <5>1
      <4> QED BY <4>1, <4>2
    <3> QED BY <3>3, <3>4
  <2> QED BY <2>1, <2>2, AllNat
<1>3. \A m \in 0..l : \A k \in 0..m : N[k] <= N[m]
  BY <1>2 DEF G
<1>4. \A n \in 1..N[l] : \E k \in 1..l : N[k - 1] < n /\ n <= N[k]
  BY <1>2 DEF G
<1>5. ASSUME NEW k \in 1..l, NEW j \in 1..c[k] PROVE N[k - 1] + j \in 1..N[l]
  <2>1. N[k] = N[k - 1] + c[k] /\ N[k] <= N[l] /\ N[l] \in Nat
    BY <1>1, <1>3, <1>a
  <2>2. N[k - 1] \in Nat /\ c[k] \in Nat /\ N[k - 1] + c[k] <= N[l]
    BY <1>1, <2>1
  <2> QED BY <2>1, <2>2, InsideInterval
<1>6. ASSUME NEW n \in 1..N[l] PROVE \E k \in 1..l : \E j \in 1..c[k] : n = N[k - 1] + j
  <2>1. PICK k \in 1..l : N[k - 1] < n /\ n <= N[k]
    BY <1>4
  <2>2. N[k] = N[k - 1] + c[k] /\ n \in Nat
    BY <1>a
  <2>3. n - N[k - 1] \in 1..c[k] /\ n = N[k - 1] + (n - N[k - 1])
    <3>1. N[k - 1] \in Nat /\ c[k] \in Nat /\ n <= N[k - 1] + c[k]
      BY <1>1, <2>1, <2>2
    <3> QED BY <2>1, <2>2, <3>1, OneInterval
  <2> QED BY <2>3
<1>7. ASSUME NEW k \in 1..l, NEW m \in 1..l, NEW j \in 1..c[k], NEW h \in 1..c[m],
             N[k - 1] + j = N[m - 1] + h
      PROVE  k = m /\ j = h
  <2>1. /\ N[k] = N[k - 1] + c[k] /\ N[m] = N[m - 1] + c[m]
        /\ N[k - 1] \in Nat /\ N[m - 1] \in Nat /\ c[k] \in Nat /\ c[m] \in Nat
    BY <1>1, <1>a
  <2>j. j \in Int /\ 1 <= j /\ j <= c[k] /\ h \in Int /\ 1 <= h /\ h <= c[m]
    BY <2>1
  <2>m. Meet(N[k - 1], j, N[m - 1], h) /\ Meet(N[m - 1], h, N[k - 1], j)
    BY <1>7 DEF Meet
  <2>2. CASE k < m
    <3>1. N[k] <= N[m - 1]
      <4>1. k \in Int /\ m \in Int /\ 1 <= k /\ 1 <= m /\ m <= l
        OBVIOUS
      <4>2. m - 1 \in 0..l
        BY <4>1
      <4>3. k \in 0..(m - 1)
        BY <2>2, <4>1
      <4> QED BY <1>3, <4>2, <4>3
    <3>2. N[k - 1] + c[k] <= N[m - 1]
      BY <2>1, <3>1
    <3> QED BY <2>1, <2>m, <3>2, NeverMeet
  <2>3. CASE m < k
    <3>1. N[m] <= N[k - 1]
      <4>1. k \in Int /\ m \in Int /\ 1 <= m /\ 1 <= k /\ k <= l
        OBVIOUS
      <4>2. k - 1 \in 0..l
        BY <4>1
      <4>3. m \in 0..(k - 1)
        BY <2>3, <4>1
      <4> QED BY <1>3, <4>2, <4>3
    <3>2. N[m - 1] + c[m] <= N[k - 1]
      BY <2>1, <3>1
    <3> QED BY <2>1, <2>m, <3>2, NeverMeet
  <2>4. CASE k = m
    BY <1>7, <2>1, <2>j, <2>4
  <2> QED BY <2>2, <2>3, <2>4
<1> QED BY <1>5, <1>6, <1>7 DEF Tiled

\* What is left of a sequence, and what two are together, place by place.
LEMMA RemainingAt ==
  ASSUME NEW s, IsSeq(s), NEW n \in Nat, NEW r, r = Remaining(s, n), NEW k
  PROVE  /\ k \in DOMAIN r => k \in Nat \ {0}
         /\ k \in Nat \ {0} => (k \in DOMAIN r <=> k + n \in DOMAIN s)
         /\ k \in DOMAIN r => r[k] = s[k + n]
<1>1. s \in Seq(ToSet(s)) /\ Len(s) \in Nat /\ DOMAIN s = 1..Len(s)
  BY DEF IsSeq
<1>2. \A i \in (n + 1)..Len(s) : s[i] \in ToSet(s)
  BY <1>1 DEF ToSet
<1>3. PICK V, l, m : V = ToSet(s) /\ l = Len(s) /\ m = n + 1
  OBVIOUS
<1>4. s \in Seq(V) /\ l \in Nat /\ m \in Int /\ r = SubSeq(s, m, l) /\ \A i \in m..l : s[i] \in V
  BY <1>1, <1>2, <1>3 DEF Remaining
<1>5. /\ r \in Seq(V) /\ Len(r) = IF m <= l THEN l - m + 1 ELSE 0
      /\ \A i \in 1..(l - m + 1) : r[i] = s[m + i - 1]
  <2>1. /\ SubSeq(s, m, l) \in Seq(V)
        /\ Len(SubSeq(s, m, l)) = IF m <= l THEN l - m + 1 ELSE 0
        /\ \A i \in 1..(l - m + 1) : SubSeq(s, m, l)[i] = s[m + i - 1]
    BY <1>1, <1>3, <1>4, SubSeqProperties
  <2> QED BY <1>4, <2>1
<1>6. DOMAIN r = 1..Len(r)
  BY <1>5
<1>7. CASE m <= l
  <2>1. Len(r) = l - n
    BY <1>3, <1>4, <1>5, <1>7
  <2>2. k \in 1..Len(r) => k \in 1..(l - m + 1) /\ m + k - 1 = k + n
    BY <1>3, <1>4, <2>1
  <2>3. ASSUME k \in Nat \ {0} PROVE k \in 1..Len(r) <=> k + n \in 1..l
    <3>1. k \in Nat /\ 1 <= k /\ n \in Nat /\ l \in Nat
      BY <1>4, <2>3
    <3>2. k <= l - n <=> k + n <= l
      BY <3>1
    <3>3. k \in 1..(l - n) <=> k <= l - n
      BY <3>1
    <3>4. k + n \in 1..l <=> k + n <= l
      BY <3>1
    <3> QED BY <2>1, <3>2, <3>3, <3>4
  <2>4. k \in 1..Len(r) => r[k] = s[k + n] /\ k \in Nat \ {0}
    <3>1. k \in 1..Len(r) => r[k] = s[m + k - 1]
      BY <1>5, <2>2
    <3>2. k \in 1..Len(r) => r[k] = s[k + n]
      BY <2>2, <3>1
    <3> QED BY <3>2
  <2> QED BY <1>1, <1>3, <1>6, <2>3, <2>4
<1>8. CASE ~(m <= l)
  <2>1. DOMAIN r = {}
    BY <1>5, <1>6, <1>8
  <2>2. k \in Nat \ {0} => k + n \notin 1..l
    BY <1>3, <1>4, <1>8
  <2> QED BY <1>1, <1>3, <2>1, <2>2
<1> QED BY <1>7, <1>8

LEMMA JoinedAt ==
  ASSUME NEW s, IsSeq(s), NEW t, IsSeq(t), NEW r, r = s \o t, NEW k
  PROVE  /\ k \in DOMAIN r <=> k \in DOMAIN s \/ (k \in Nat /\ k - Len(s) \in DOMAIN t)
         /\ k \in DOMAIN s => r[k] = s[k]
         /\ k \in Nat /\ k - Len(s) \in DOMAIN t => r[k] = t[k - Len(s)]
<1> DEFINE X == ToSet(s) \cup ToSet(t)
<1>1. s \in Seq(X) /\ t \in Seq(X)
  <2>1. s \in Seq(ToSet(s)) /\ t \in Seq(ToSet(t))
    BY DEF IsSeq
  <2> HIDE DEF IsSeq
  <2> QED BY <2>1
<1> HIDE DEF X
<1>2. /\ r \in Seq(X) /\ Len(r) = Len(s) + Len(t)
      /\ \A i \in 1..Len(s) : r[i] = s[i]
      /\ \A i \in 1..Len(t) : r[Len(s) + i] = t[i]
  BY <1>1, ConcatProperties
<1>3. /\ Len(s) \in Nat /\ Len(t) \in Nat /\ DOMAIN s = 1..Len(s) /\ DOMAIN t = 1..Len(t)
      /\ DOMAIN r = 1..Len(r)
  BY <1>1, <1>2
<1>4. k \in DOMAIN r <=> k \in DOMAIN s \/ (k \in Nat /\ k - Len(s) \in DOMAIN t)
  BY <1>2, <1>3
<1>5. ASSUME k \in Nat, k - Len(s) \in DOMAIN t PROVE r[k] = t[k - Len(s)]
  <2>1. k - Len(s) \in 1..Len(t) /\ Len(s) + (k - Len(s)) = k
    BY <1>3, <1>5
  <2> QED BY <1>2, <2>1
<1> QED BY <1>2, <1>3, <1>4, <1>5

\* A list has a put to b.
PutAt(items, b) == \E k \in DOMAIN items : items[k].side = "put" /\ items[k].b = b
PutsOf(items) == {b \in Buckets : PutAt(items, b)}

\* The process p offers in f what is given for the puts of a list.
Hands(f, p, items, given) ==
  \A k \in DOMAIN items : items[k].side = "put" =>
    /\ p \in DOMAIN f[items[k].b] /\ f[items[k].b][p] = given[items[k]]
    /\ IsSeq(given[items[k]]) /\ Len(given[items[k]]) = Count(items[k])

\* In g it does not any more, for the puts of two lists for different stores.
Drops(f, g, p, done, off) ==
  \A b \in Buckets : /\ \A q : q \in DOMAIN g[b] <=> /\ q \in DOMAIN f[b]
                                                     /\ ~(q = p /\ b \in PutsOf(done) \cup PutsOf(off))
                     /\ \A q \in DOMAIN g[b] : g[b][q] = f[b][q]
Apart(done, off) == \A k \in DOMAIN done, l \in DOMAIN off : done[k].b # off[l].b

\* What a turn of p does with the objects.
LEMMA MoveMoved ==
  ASSUME BucketAssumption, NEW done, ListOK(done), NEW off, ListOK(off), Apart(done, off),
         NEW m, NEW given, Move(done, off, m, given), \A b \in Buckets : IsSeq(objs[b]),
         NEW p, NEW f, NEW g, Hands(f, p, done, given), Hands(f, p, off, given),
         Drops(f, g, p, done, off), NEW u, u = objs', NEW v, v = taken', NEW e, e = dropped'
  PROVE  \E a : Moved(a, PutsOf(done), PutsOf(off), p, objs, u, f, g, taken, v, dropped, e)
<1> DEFINE P == PutsOf(done)
           Q == PutsOf(off)
           taking(k) == done[k].side = "get" /\ m[done[k].b] = "objects"
           putting(k) == done[k].side = "put" /\ done[k].obj
           at(b) == {k \in DOMAIN done : done[k].b = b /\ taking(k)}
           a == [b \in Buckets |-> IF at(b) = {} THEN 0 ELSE done[CHOOSE k \in at(b) : TRUE].amt]
<1>1. /\ \A k \in DOMAIN done : /\ done[k].b \in Buckets /\ done[k].amt \in Nat
                                /\ \A l \in DOMAIN done : done[k].b = done[l].b => k = l
      /\ \A k \in DOMAIN off : /\ off[k].b \in Buckets
                               /\ \A l \in DOMAIN off : off[k].b = off[l].b => k = l
  BY ItemProps
<1>2. /\ \A k \in DOMAIN done : taking(k) => a[done[k].b] = done[k].amt
      /\ \A b \in Buckets : (\A k \in DOMAIN done : done[k].b = b => ~taking(k)) => a[b] = 0
      /\ \A b \in Buckets : a[b] \in Nat
  <2>1. ASSUME NEW k \in DOMAIN done, taking(k) PROVE a[done[k].b] = done[k].amt
    <3>1. at(done[k].b) = {k}
      BY <1>1, <2>1
    <3>2. (CHOOSE l \in at(done[k].b) : TRUE) = k
      BY <3>1
    <3> HIDE DEF at
    <3> QED BY <1>1, <3>1, <3>2
  <2>2. ASSUME NEW b \in Buckets, \A k \in DOMAIN done : done[k].b = b => ~taking(k) PROVE a[b] = 0
    <3>1. at(b) = {}
      BY <2>2
    <3> HIDE DEF at
    <3> QED BY <3>1
  <2> HIDE DEF a, at
  <2>3. ASSUME NEW b \in Buckets PROVE a[b] \in Nat
    <3>1. CASE \A k \in DOMAIN done : done[k].b = b => ~taking(k)
      BY <2>2, <3>1
    <3>2. CASE \E k \in DOMAIN done : done[k].b = b /\ taking(k)
      BY <1>1, <2>1, <3>2
    <3> QED BY <3>1, <3>2
  <2> QED BY <2>1, <2>2, <2>3
<1> HIDE DEF a, at
<1>3. /\ \A k \in DOMAIN done : taking(k) => u[done[k].b] = Remaining(objs[done[k].b], done[k].amt)
      /\ \A k \in DOMAIN done : putting(k) => u[done[k].b] = objs[done[k].b] \o given[done[k]]
      /\ \A b \in Buckets :
           (\A k \in DOMAIN done : done[k].b = b => ~taking(k) /\ ~putting(k)) => u[b] = objs[b]
  <2>1. Movement(done, m, given)
    BY MoveValues
  <2> QED BY <2>1 DEF Movement
<1>4. /\ \A k \in DOMAIN done : taking(k) => ~putting(k) /\ done[k].side = "get"
      /\ \A k \in DOMAIN done : putting(k) => ~taking(k) /\ done[k].side = "put"
  OBVIOUS
<1>5. /\ P \subseteq Buckets /\ Q \subseteq Buckets
      /\ \A b \in P : \E k \in DOMAIN done : done[k].side = "put" /\ done[k].b = b
      /\ \A b \in Q : \E k \in DOMAIN off : off[k].side = "put" /\ off[k].b = b
      /\ \A k \in DOMAIN done : done[k].side = "put" => done[k].b \in P
      /\ \A k \in DOMAIN off : off[k].side = "put" => off[k].b \in Q
  BY <1>1 DEF PutsOf, PutAt
<1>6. ASSUME NEW b \in Buckets
      PROVE  a[b] \in Nat /\ Len(objs[b]) \in Nat /\ DOMAIN objs[b] = 1..Len(objs[b])
  <2>1. objs[b] \in Seq(ToSet(objs[b]))
    BY DEF IsSeq
  <2> QED BY <1>2, <2>1
<1>7. P \cap Q = {}
  BY <1>5 DEF Apart
<1>8. ASSUME NEW b \in P PROVE a[b] = 0
  <2>1. PICK k \in DOMAIN done : done[k].side = "put" /\ done[k].b = b
    BY <1>5
  <2>2. \A l \in DOMAIN done : done[l].b = b => ~taking(l)
    BY <1>1, <2>1
  <2> HIDE DEF P, taking
  <2> QED BY <1>2, <1>5, <2>2
<1>9. ASSUME NEW b \in P \cup Q PROVE p \in DOMAIN f[b] /\ DOMAIN f[b][p] \subseteq Nat \ {0}
  <2>1. p \in DOMAIN f[b] /\ IsSeq(f[b][p])
    <3>1. CASE b \in P
      BY <1>5, <3>1 DEF Hands
    <3>2. CASE b \in Q
      BY <1>5, <3>2 DEF Hands
    <3> HIDE DEF P, Q
    <3> QED BY <3>1, <3>2
  <2>2. f[b][p] \in Seq(ToSet(f[b][p]))
    BY <2>1 DEF IsSeq
  <2> HIDE DEF P, Q
  <2>3. DOMAIN f[b][p] = 1..Len(f[b][p]) /\ Len(f[b][p]) \in Nat
    BY <2>2
  <2> QED BY <2>1, <2>3
<1> HIDE DEF P, Q
<1>10. ASSUME NEW b \in Buckets \ P, NEW k
       PROVE  /\ k \in DOMAIN u[b] => k \in Nat \ {0}
              /\ k \in Nat \ {0} => (k \in DOMAIN u[b] <=> k + a[b] \in DOMAIN objs[b])
              /\ k \in DOMAIN u[b] => u[b][k] = objs[b][k + a[b]]
  <2>1. CASE \E i \in DOMAIN done : done[i].b = b /\ taking(i)
    <3>1. PICK i \in DOMAIN done : done[i].b = b /\ taking(i)
      BY <2>1
    <3> HIDE DEF taking, putting
    <3>2. u[b] = Remaining(objs[b], a[b]) /\ a[b] \in Nat /\ IsSeq(objs[b])
      BY <1>2, <1>3, <3>1
    <3> QED BY <3>2, RemainingAt
  <2>2. CASE ~\E i \in DOMAIN done : done[i].b = b /\ taking(i)
    <3>1. \A i \in DOMAIN done : done[i].b = b => ~taking(i) /\ ~putting(i)
      BY <1>4, <1>5, <2>2
    <3> HIDE DEF taking, putting
    <3>2. u[b] = objs[b] /\ a[b] = 0
      BY <1>2, <1>3, <3>1
    <3> QED BY <1>6, <3>2
  <2> QED BY <2>1, <2>2
<1>11. ASSUME NEW b \in P, NEW k
       PROVE  /\ k \in DOMAIN u[b] <=> \/ k \in DOMAIN objs[b]
                                       \/ k \in Nat /\ k - Len(objs[b]) \in DOMAIN f[b][p]
              /\ k \in DOMAIN objs[b] => u[b][k] = objs[b][k]
              /\ k \in Nat /\ k - Len(objs[b]) \in DOMAIN f[b][p] => u[b][k] = f[b][p][k - Len(objs[b])]
  <2>1. PICK i \in DOMAIN done : done[i].side = "put" /\ done[i].b = b
    BY <1>5
  <2>2. /\ b \in Buckets /\ IsSeq(objs[b])
        /\ f[b][p] = given[done[i]] /\ IsSeq(f[b][p]) /\ Len(f[b][p]) = Count(done[i])
    BY <1>1, <2>1 DEF Hands
  <2>3. CASE done[i].obj
    <3>1. putting(i)
      BY <2>1, <2>3
    <3> HIDE DEF taking, putting
    <3>2. u[b] = objs[b] \o f[b][p]
      BY <1>3, <2>1, <2>2, <3>1
    <3>3. PICK x, y, r : x = objs[b] /\ y = f[b][p] /\ r = u[b]
      OBVIOUS
    <3>4. IsSeq(x) /\ IsSeq(y) /\ r = x \o y
      BY <2>2, <3>2, <3>3
    <3>5. /\ k \in DOMAIN r <=> k \in DOMAIN x \/ (k \in Nat /\ k - Len(x) \in DOMAIN y)
          /\ k \in DOMAIN x => r[k] = x[k]
          /\ k \in Nat /\ k - Len(x) \in DOMAIN y => r[k] = y[k - Len(x)]
      BY <3>4, JoinedAt
    <3> QED BY <3>3, <3>5
  <2>4. CASE ~done[i].obj
    <3>1. \A l \in DOMAIN done : done[l].b = b => ~taking(l) /\ ~putting(l)
      BY <1>1, <2>1, <2>4
    <3>2. u[b] = objs[b]
      <4> HIDE DEF taking, putting
      <4> QED BY <1>3, <2>2, <3>1
    <3>3. DOMAIN f[b][p] = {}
      <4>1. f[b][p] \in Seq(ToSet(f[b][p])) /\ Len(f[b][p]) = 0
        BY <2>2, <2>4 DEF IsSeq, Count
      <4> QED BY <4>1
    <3> QED BY <3>2, <3>3
  <2> QED BY <2>3, <2>4
<1>12. ASSUME NEW b \in Buckets
       PROVE  /\ \A q : q \in DOMAIN g[b] <=> q \in DOMAIN f[b] /\ ~(q = p /\ b \in P \cup Q)
              /\ \A q \in DOMAIN g[b] : g[b][q] = f[b][q]
  BY DEF Drops, P, Q
<1>13. ASSUME NEW n
       PROVE  n \in v <=> n \in taken \/ \E b \in Buckets : \E k \in DOMAIN objs[b] : k <= a[b] /\ objs[b][k] = n
  <2> DEFINE gets == {i \in ToSet(done) : i.side = "get" /\ m[i.b] = "objects"}
  <2>1. v = taken \cup UNION {{objs[i.b][k] : k \in 1..i.amt \cap DOMAIN objs[i.b]} : i \in gets}
    BY DEF Move
  <2>2. /\ \A k \in DOMAIN done : taking(k) => done[k] \in gets
        /\ \A i \in gets : \E k \in DOMAIN done : i = done[k] /\ taking(k)
    BY DEF ToSet
  <2> HIDE DEF gets
  <2>3. n \in v <=> n \in taken \/ \E i \in gets : \E k \in 1..i.amt \cap DOMAIN objs[i.b] : objs[i.b][k] = n
    BY <2>1
  <2>4. ASSUME NEW i \in gets, NEW k \in 1..i.amt \cap DOMAIN objs[i.b], objs[i.b][k] = n
        PROVE  \E b \in Buckets : \E l \in DOMAIN objs[b] : l <= a[b] /\ objs[b][l] = n
    <3>1. PICK l \in DOMAIN done : i = done[l] /\ taking(l)
      BY <2>2
    <3> HIDE DEF taking
    <3>2. a[i.b] = i.amt /\ i.b \in Buckets
      BY <1>1, <1>2, <3>1
    <3> QED BY <2>4, <3>2
  <2>5. ASSUME NEW b \in Buckets, NEW k \in DOMAIN objs[b], k <= a[b], objs[b][k] = n
        PROVE  \E i \in gets : \E l \in 1..i.amt \cap DOMAIN objs[i.b] : objs[i.b][l] = n
    <3>0. k \in Nat \ {0} /\ a[b] \in Nat
      BY <1>6
    <3> HIDE DEF taking
    <3>1. PICK l \in DOMAIN done : done[l].b = b /\ taking(l)
      <4>1. a[b] # 0
        BY <2>5, <3>0
      <4> QED BY <1>2, <4>1
    <3>2. done[l] \in gets /\ a[b] = done[l].amt
      BY <1>2, <2>2, <3>1
    <3>3. k \in 1..done[l].amt
      BY <2>5, <3>0, <3>2
    <3> QED BY <2>5, <3>1, <3>2, <3>3
  <2> QED BY <2>3, <2>4, <2>5
<1>14. ASSUME NEW n PROVE n \in e <=> n \in dropped \/ \E b \in Q : \E k \in DOMAIN f[b][p] : f[b][p][k] = n
  <2> DEFINE lost == {j \in Puts(off) : j.obj}
  <2>1. e = dropped \cup UNION {ToSet(given[i]) : i \in lost}
    BY DEF Move
  <2>2. /\ \A k \in DOMAIN off : off[k] \in lost <=> off[k].side = "put" /\ off[k].obj
        /\ \A i \in lost : \E k \in DOMAIN off : i = off[k]
    BY DEF Puts, ToSet
  <2> HIDE DEF lost
  <2>3. n \in e <=> n \in dropped \/ \E i \in lost : n \in ToSet(given[i])
    BY <2>1
  <2>4. ASSUME NEW k \in DOMAIN off, off[k].side = "put"
        PROVE  /\ off[k].b \in Q /\ f[off[k].b][p] = given[off[k]]
               /\ n \in ToSet(given[off[k]]) <=> \E l \in DOMAIN given[off[k]] : given[off[k]][l] = n
               /\ ~off[k].obj => DOMAIN given[off[k]] = {}
    <3>1. /\ f[off[k].b][p] = given[off[k]] /\ IsSeq(given[off[k]])
          /\ Len(given[off[k]]) = Count(off[k])
      BY <2>4 DEF Hands
    <3>2. given[off[k]] \in Seq(ToSet(given[off[k]]))
      BY <3>1 DEF IsSeq
    <3>3. ~off[k].obj => DOMAIN given[off[k]] = {}
      <4>1. ~off[k].obj => Len(given[off[k]]) = 0
        BY <3>1 DEF Count
      <4> QED BY <3>2, <4>1
    <3>4. n \in ToSet(given[off[k]]) <=> \E l \in DOMAIN given[off[k]] : given[off[k]][l] = n
      BY DEF ToSet
    <3> QED BY <1>5, <2>4, <3>1, <3>3, <3>4
  <2>5. ASSUME NEW i \in lost, n \in ToSet(given[i])
        PROVE  \E b \in Q : \E k \in DOMAIN f[b][p] : f[b][p][k] = n
    <3>1. PICK k \in DOMAIN off : i = off[k] /\ off[k].side = "put"
      BY <2>2
    <3> QED BY <2>4, <2>5, <3>1
  <2>6. ASSUME NEW b \in Q, NEW l \in DOMAIN f[b][p], f[b][p][l] = n
        PROVE  \E i \in lost : n \in ToSet(given[i])
    <3>1. PICK k \in DOMAIN off : off[k].side = "put" /\ off[k].b = b
      BY <1>5
    <3>2. f[b][p] = given[off[k]] /\ off[k].obj
      BY <2>4, <2>6, <3>1
    <3> QED BY <2>2, <2>4, <2>6, <3>1, <3>2
  <2> QED BY <2>3, <2>5, <2>6
<1>15. Moved(a, P, Q, p, objs, u, f, g, taken, v, dropped, e)
  BY <1>5, <1>6, <1>7, <1>8, <1>9, <1>10, <1>11, <1>12, <1>13, <1>14, Zenon DEF Moved
<1> QED BY <1>15 DEF P, Q

\* The puts of a list are at the places of its producers.
LEMMA PutsProps ==
  ASSUME BucketAssumption, NEW items, ListOK(items)
  PROVE  /\ \A b \in Buckets : b \in PutsOf(items) <=> <<b, "put">> \in PlacesOf(items)
         /\ \A k \in DOMAIN items : items[k].side = "put" => items[k].b \in PutsOf(items)
         /\ \A b \in PutsOf(items) : /\ b \in Buckets
                                     /\ \E k \in DOMAIN items : items[k].side = "put" /\ items[k].b = b
<1>1. \A k \in DOMAIN items : /\ items[k].b \in Buckets /\ Place(items[k]) \in PlacesOf(items)
                              /\ Place(items[k]) = <<items[k].b, items[k].side>>
  BY ItemProps
<1>2. \A k \in DOMAIN items : items[k].side = "put" => items[k].b \in PutsOf(items)
  BY <1>1 DEF PutsOf, PutAt
<1>3. \A b \in PutsOf(items) : /\ b \in Buckets
                               /\ \E k \in DOMAIN items : items[k].side = "put" /\ items[k].b = b
  BY DEF PutsOf, PutAt
<1>4. ASSUME NEW b \in Buckets, <<b, "put">> \in PlacesOf(items) PROVE b \in PutsOf(items)
  <2>1. PICK k \in DOMAIN items : Place(items[k]) = <<b, "put">>
    BY <1>4, PlaceItem
  <2>2. items[k].b = b /\ items[k].side = "put"
    BY <1>1, <2>1
  <2> QED BY <1>2, <2>2
<1>5. ASSUME NEW b \in PutsOf(items) PROVE <<b, "put">> \in PlacesOf(items)
  <2>1. PICK k \in DOMAIN items : items[k].side = "put" /\ items[k].b = b
    BY <1>3
  <2>2. Place(items[k]) = <<b, "put">>
    BY <1>1, <2>1
  <2> QED BY <1>1, <2>2
<1> QED BY <1>2, <1>3, <1>4, <1>5

\* In h, p offers also what is given for the puts of a list.
Handed(f, h, p, items, given) ==
  /\ \A b \in Buckets :
       /\ \A q : q \in DOMAIN h[b] <=> q \in DOMAIN f[b] \/ (q = p /\ b \in PutsOf(items))
       /\ \A q \in DOMAIN f[b] : ~(q = p /\ b \in PutsOf(items)) => h[b][q] = f[b][q]
  /\ \A k \in DOMAIN items : items[k].side = "put" => h[items[k].b][p] = given[items[k]]

LEMMA WithHanded ==
  ASSUME BucketAssumption, NEW items, ListOK(items), NEW p, NEW given, NEW h, h = With(p, items, given)
  PROVE  Handed(offer, h, p, items, given)
<1>1. \A k \in DOMAIN items : items[k].side = "put" => h[items[k].b][p] = given[items[k]]
  BY WithProps
<1>2. /\ \A k \in DOMAIN items : items[k] \in Puts(items) <=> items[k].side = "put"
      /\ \A i \in Puts(items) : \E k \in DOMAIN items : i = items[k]
  BY DEF Puts, ToSet
<1>3. ASSUME NEW b \in Buckets
      PROVE  /\ \A q : q \in DOMAIN h[b] <=> q \in DOMAIN offer[b] \/ (q = p /\ b \in PutsOf(items))
             /\ \A q \in DOMAIN offer[b] : ~(q = p /\ b \in PutsOf(items)) => h[b][q] = offer[b][q]
  <2> DEFINE g == [q \in DOMAIN offer[b] \cup {p} |->
                     IF q = p THEN given[CHOOSE i \in Puts(items) : i.b = b] ELSE offer[b][q]]
  <2>1. h[b] = IF \E i \in Puts(items) : i.b = b THEN g ELSE offer[b]
    BY DEF With
  <2>2. b \in PutsOf(items) <=> \E i \in Puts(items) : i.b = b
    BY <1>2 DEF PutsOf, PutAt
  <2>3. /\ DOMAIN g = DOMAIN offer[b] \cup {p}
        /\ \A q \in DOMAIN offer[b] : q # p => g[q] = offer[b][q]
    OBVIOUS
  <2> HIDE DEF g
  <2> QED BY <2>1, <2>2, <2>3
<1> QED BY <1>1, <1>3 DEF Handed

LEMMA NoneHanded ==
  ASSUME NEW f, NEW p, NEW given
  PROVE  Handed(f, f, p, <<>>, given) /\ PutsOf(<<>>) = {}
<1>1. PutsOf(<<>>) = {}
  BY EmptyList DEF PutsOf, PutAt
<1> QED BY <1>1, EmptyList DEF Handed

LEMMA WithoutDrops ==
  ASSUME NEW p, NEW items, NEW done, NEW off, PutsOf(items) = PutsOf(done) \cup PutsOf(off),
         NEW g, g = Without(p, items)
  PROVE  Drops(offer, g, p, done, off)
<1>1. /\ \A k \in DOMAIN items : items[k] \in Puts(items) <=> items[k].side = "put"
      /\ \A i \in Puts(items) : \E k \in DOMAIN items : i = items[k]
  BY DEF Puts, ToSet
<1>2. ASSUME NEW b \in Buckets
      PROVE  /\ \A q : q \in DOMAIN g[b] <=> q \in DOMAIN offer[b] /\ ~(q = p /\ b \in PutsOf(items))
             /\ \A q \in DOMAIN g[b] : g[b][q] = offer[b][q]
  <2> DEFINE h == [q \in DOMAIN offer[b] \ {p} |-> offer[b][q]]
  <2>1. g[b] = IF \E i \in Puts(items) : i.b = b THEN h ELSE offer[b]
    BY DEF Without
  <2>2. b \in PutsOf(items) <=> \E i \in Puts(items) : i.b = b
    BY <1>1 DEF PutsOf, PutAt
  <2>3. DOMAIN h = DOMAIN offer[b] \ {p} /\ \A q \in DOMAIN offer[b] : q # p => h[q] = offer[b][q]
    OBVIOUS
  <2> HIDE DEF h
  <2> QED BY <2>1, <2>2, <2>3
<1> QED BY <1>2 DEF Drops

\* What a process brings are the next objects, each once.
LEMMA ArriveOffers ==
  ASSUME BucketAssumption, NEW items \in Lists, NEW p, \A b \in Buckets : p \notin DOMAIN offer[b],
         made \in Nat, NEW given, given = Brought(items), NEW h, Handed(offer, h, p, items, given)
  PROVE  Total(items) \in Nat /\ Arrived(offer, h, p, PutsOf(items), made, made + Total(items))
<1> DEFINE l == Len(items)
           N == [k \in 0..l |-> Number(items, k)]
           c == [k \in 1..l |-> Count(items[k])]
<1>0. ListOK(items)
  BY ListsOK
<1>1. /\ l \in Nat /\ DOMAIN items = 1..l
      /\ \A k \in 1..l : Count(items[k]) \in Nat
      /\ Number(items, 0) = 0
      /\ \A k \in 0..l : Number(items, k) \in Nat
      /\ \A k \in 1..l : Number(items, k) = Number(items, k - 1) + Count(items[k])
  BY NumberProps
<1>2. /\ N \in [0..l -> Nat] /\ c \in [1..l -> Nat]
      /\ \A k \in 0..l : N[k] = Number(items, k)
      /\ \A k \in 1..l : c[k] = Count(items[k])
  <2> HIDE DEF l
  <2> QED BY <1>1
<1> HIDE DEF N, c
<1>3. N[0] = 0 /\ N[l] = Total(items) /\ \A k \in 1..l : N[k] = N[k - 1] + c[k] /\ N[k - 1] = Number(items, k - 1)
  <2>1. 0 \in 0..l /\ l \in 0..l /\ \A k \in 1..l : k \in 0..l /\ k - 1 \in 0..l
    <3> HIDE DEF l
    <3> QED BY <1>1
  <2> QED BY <1>1, <1>2, <2>1 DEF Total
<1>4. /\ \A k \in 1..l : \A j \in 1..c[k] : N[k - 1] + j \in 1..N[l]
      /\ \A n \in 1..N[l] : \E k \in 1..l : \E j \in 1..c[k] : n = N[k - 1] + j
      /\ \A k, m \in 1..l : \A j \in 1..c[k], i \in 1..c[m] :
           N[k - 1] + j = N[m - 1] + i => k = m /\ j = i
  <2> HIDE DEF l
  <2>1. N[0] = 0 /\ \A k \in 1..l : N[k] = N[k - 1] + c[k]
    BY <1>3
  <2>2. l \in Nat /\ N \in [0..l -> Nat] /\ c \in [1..l -> Nat]
    BY <1>1, <1>2
  <2>4. Tiled(l, N, c)
    BY <2>1, <2>2, Intervals DEF Laid
  <2> QED BY <2>4 DEF Tiled
<1>5. ASSUME NEW k \in 1..l, items[k].side = "put"
      PROVE  /\ DOMAIN given[items[k]] = 1..c[k]
             /\ \A j \in 1..c[k] : given[items[k]][j] = made + N[k - 1] + j
  <2> HIDE DEF l
  <2>1. PICK s, x : s = given[items[k]] /\ x = items[k]
    OBVIOUS
  <2>2. c[k] = Count(x) /\ N[k - 1] = Number(items, k - 1) /\ k \in DOMAIN items
    BY <1>1, <1>2, <1>3, <2>1
  <2>3. DOMAIN s = 1..Count(x) /\ \A n \in 1..Count(x) : s[n] = made + Number(items, k - 1) + n
    BY <1>5, <2>1, <2>2, BroughtProps
  <2> QED BY <2>1, <2>2, <2>3
<1>6. ASSUME NEW k \in 1..l, NEW j \in 1..c[k] PROVE items[k].side = "put"
  <2>1. Count(items[k]) # 0
    BY <1>2, <1>6
  <2> QED BY <1>1, <2>1, ListObjects DEF Count
<1>7. \A k \in 1..l, m \in 1..l : items[k].b = items[m].b => k = m
  BY <1>0, <1>1, ItemProps
<1> DEFINE H == PutsOf(items)
<1>8. /\ \A k \in 1..l : items[k].side = "put" => items[k].b \in H /\ h[items[k].b][p] = given[items[k]]
      /\ \A b \in H : b \in Buckets /\ \E k \in 1..l : items[k].side = "put" /\ items[k].b = b
  <2>1. /\ \A k \in DOMAIN items : items[k].side = "put" => items[k].b \in H
        /\ \A b \in H : b \in Buckets /\ \E k \in DOMAIN items : items[k].side = "put" /\ items[k].b = b
    BY <1>0, PutsProps
  <2>2. \A k \in DOMAIN items : items[k].side = "put" => h[items[k].b][p] = given[items[k]]
    BY DEF Handed
  <2> HIDE DEF H, l
  <2> QED BY <1>1, <2>1, <2>2
<1> DEFINE T == N[l]
<1>9. T \in Nat /\ \A k \in 1..l : N[k - 1] \in Nat
  <2>1. l \in 0..l /\ \A k \in 1..l : k - 1 \in 0..l
    <3> HIDE DEF l
    <3> QED BY <1>1
  <2> QED BY <1>2, <2>1
<1> HIDE DEF H, T, l
<1>10. ASSUME NEW b \in H, NEW j \in DOMAIN h[b][p] PROVE h[b][p][j] \in (made + 1)..(made + T)
  <2>1. PICK k \in 1..l : items[k].side = "put" /\ items[k].b = b
    BY <1>8
  <2>a. h[b][p] = given[items[k]] /\ DOMAIN given[items[k]] = 1..c[k]
    BY <1>5, <1>8, <2>1
  <2>b. \A i \in 1..c[k] : given[items[k]][i] = made + N[k - 1] + i
    BY <1>5, <2>1
  <2>2. j \in 1..c[k] /\ h[b][p][j] = made + N[k - 1] + j
    BY <1>10, <2>a, <2>b
  <2>3. N[k - 1] + j \in 1..T
    BY <1>4, <2>2 DEF T
  <2>4. N[k - 1] \in Nat /\ j \in Int
    BY <1>9, <2>2
  <2> QED BY <1>9, <2>2, <2>3, <2>4
<1>11. ASSUME NEW n \in (made + 1)..(made + T)
       PROVE  \E b, k : /\ b \in H /\ k \in DOMAIN h[b][p] /\ h[b][p][k] = n
                        /\ \A d, j : d \in H /\ j \in DOMAIN h[d][p] /\ h[d][p][j] = n => d = b /\ j = k
  <2>0. n - made \in 1..T
    BY <1>9
  <2>1. PICK k \in 1..l : \E j \in 1..c[k] : n - made = N[k - 1] + j
    BY <1>4, <2>0 DEF T
  <2>2. PICK j \in 1..c[k] : n - made = N[k - 1] + j
    BY <2>1
  <2>3. items[k].side = "put"
    BY <1>6, <2>2
  <2>4. PICK b : b = items[k].b
    OBVIOUS
  <2>a. b \in H /\ h[b][p] = given[items[k]] /\ DOMAIN given[items[k]] = 1..c[k]
    BY <1>5, <1>8, <2>3, <2>4
  <2>b. given[items[k]][j] = made + N[k - 1] + j
    BY <1>5, <2>2, <2>3
  <2>5. b \in H /\ j \in DOMAIN h[b][p] /\ h[b][p][j] = made + N[k - 1] + j
    BY <2>2, <2>a, <2>b
  <2>6. h[b][p][j] = n
    <3>1. N[k - 1] \in Nat /\ j \in Int /\ n \in Int
      BY <1>9, <2>2
    <3> QED BY <2>2, <2>5, <3>1
  <2>7. ASSUME NEW d, NEW i, d \in H, i \in DOMAIN h[d][p], h[d][p][i] = n PROVE d = b /\ i = j
    <3>1. PICK m \in 1..l : items[m].side = "put" /\ items[m].b = d
      BY <1>8, <2>7
    <3>a. h[d][p] = given[items[m]] /\ DOMAIN given[items[m]] = 1..c[m]
      BY <1>5, <1>8, <3>1
    <3>b. \A x \in 1..c[m] : given[items[m]][x] = made + N[m - 1] + x
      BY <1>5, <3>1
    <3>2. i \in 1..c[m] /\ h[d][p][i] = made + N[m - 1] + i
      BY <2>7, <3>a, <3>b
    <3>3. N[k - 1] + j = N[m - 1] + i
      <4>1. N[k - 1] \in Nat /\ N[m - 1] \in Nat /\ j \in Int /\ i \in Int
        BY <1>9, <2>2, <3>2
      <4> QED BY <2>2, <2>7, <3>2, <4>1
    <3>4. k = m /\ j = i
      BY <1>4, <2>2, <3>2, <3>3
    <3> QED BY <2>4, <3>1, <3>4
  <2> QED BY <2>5, <2>6, <2>7
<1>12. ASSUME NEW b \in Buckets
       PROVE  /\ p \notin DOMAIN offer[b]
              /\ \A q : q \in DOMAIN h[b] <=> q \in DOMAIN offer[b] \/ (q = p /\ b \in H)
              /\ \A q \in DOMAIN offer[b] : h[b][q] = offer[b][q]
  BY DEF Handed, H
<1>13. H \subseteq Buckets
  BY <1>8
<1>14. Arrived(offer, h, p, H, made, made + T)
  <2>1. made + T \in Nat /\ made <= made + T
    BY <1>9
  <2> QED BY <1>10, <1>11, <1>12, <1>13, <2>1 DEF Arrived
<1> QED BY <1>3, <1>9, <1>14 DEF H, T

\* The items of a list are got or put, withdrawn, or kept.
Splits(items, done, off, new) ==
  /\ \A k \in DOMAIN done : \E l \in DOMAIN items : done[k] = items[l]
  /\ \A k \in DOMAIN off : \E l \in DOMAIN items : off[k] = items[l]
  /\ \A k \in DOMAIN new : \E l \in DOMAIN items : new[k] = items[l]
  /\ PutsOf(items) = PutsOf(done) \cup PutsOf(off) \cup PutsOf(new)
  /\ PutsOf(new) \cap (PutsOf(done) \cup PutsOf(off)) = {}

\* A call of p: it brings its objects, those of the puts in done move, and those of
\* the puts in new stay on offer.
LEMMA FreshPlaced ==
  ASSUME BucketAssumption, made \in Nat, Placed(objs, offer, taken, dropped, made),
         \A b \in Buckets : IsSeq(objs[b]),
         NEW items \in Lists, NEW p, \A b \in Buckets : p \notin DOMAIN offer[b],
         NEW done, ListOK(done), NEW off, ListOK(off), NEW new, ListOK(new),
         Apart(done, off), Splits(items, done, off, new),
         NEW m, NEW given, given = Brought(items), Move(done, off, m, given),
         NEW g, Handed(offer, g, p, new, given),
         NEW u, u = objs', NEW v, v = taken', NEW e, e = dropped'
  PROVE  made + Total(items) \in Nat /\ Placed(u, g, v, e, made + Total(items))
<1>1. PICK h : h = With(p, items, given)
  OBVIOUS
<1>2. Handed(offer, h, p, items, given)
  BY <1>1, ListsOK, WithHanded
<1>3. PICK N, M : N = made /\ M = made + Total(items)
  OBVIOUS
<1>4. Total(items) \in Nat /\ Arrived(offer, h, p, PutsOf(items), N, M)
  BY <1>2, <1>3, ArriveOffers
<1>5. Placed(objs, offer, taken, dropped, N)
  BY <1>3
<1>6. Placed(objs, h, taken, dropped, M)
  BY <1>4, <1>5, ArrivedPlaced
<1>7. ASSUME NEW l \in DOMAIN items, items[l].side = "put"
      PROVE  /\ items[l].b \in Buckets /\ p \in DOMAIN h[items[l].b] /\ h[items[l].b][p] = given[items[l]]
             /\ IsSeq(given[items[l]]) /\ Len(given[items[l]]) = Count(items[l])
  <2>1. items[l].b \in PutsOf(items) /\ items[l].b \in Buckets
    BY <1>7, ListsOK, PutsProps
  <2>2. p \in DOMAIN h[items[l].b] /\ h[items[l].b][p] = given[items[l]]
    BY <1>2, <1>7, <2>1 DEF Handed
  <2> QED BY <1>7, <2>1, <2>2, BroughtProps
<1>8. Hands(h, p, done, given) /\ Hands(h, p, off, given)
  BY <1>7 DEF Splits, Hands
<1>9. ASSUME NEW b \in Buckets, NEW q
      PROVE  q \in DOMAIN g[b] <=> /\ q \in DOMAIN h[b]
                                   /\ ~(q = p /\ b \in PutsOf(done) \cup PutsOf(off))
  <2>1. q \in DOMAIN g[b] <=> q \in DOMAIN offer[b] \/ (q = p /\ b \in PutsOf(new))
    BY DEF Handed
  <2>2. q \in DOMAIN h[b] <=> q \in DOMAIN offer[b] \/ (q = p /\ b \in PutsOf(items))
    BY <1>2 DEF Handed
  <2> QED BY <2>1, <2>2 DEF Splits
<1>10. ASSUME NEW b \in Buckets, NEW q \in DOMAIN g[b]
       PROVE  g[b][q] = h[b][q]
  <2>1. CASE q \in DOMAIN offer[b]
    <3>1. q # p
      BY <2>1
    <3>2. g[b][q] = offer[b][q]
      BY <2>1, <3>1 DEF Handed
    <3>3. h[b][q] = offer[b][q]
      BY <1>2, <2>1, <3>1 DEF Handed
    <3> QED BY <3>2, <3>3
  <2>2. CASE q \notin DOMAIN offer[b]
    <3>1. q = p /\ b \in PutsOf(new)
      BY <2>2 DEF Handed
    <3>2. PICK k \in DOMAIN new : new[k].side = "put" /\ new[k].b = b
      BY <3>1, PutsProps
    <3>3. PICK l \in DOMAIN items : new[k] = items[l]
      BY DEF Splits
    <3>4. g[b][p] = given[new[k]]
      BY <3>2 DEF Handed
    <3>5. h[b][p] = given[items[l]]
      BY <1>7, <3>2, <3>3
    <3> QED BY <3>1, <3>3, <3>4, <3>5
  <2> QED BY <2>1, <2>2
<1>11. Drops(h, g, p, done, off)
  BY <1>9, <1>10 DEF Drops
<1>12. PICK a : Moved(a, PutsOf(done), PutsOf(off), p, objs, u, h, g, taken, v, dropped, e)
  BY <1>8, <1>11, MoveMoved
<1>13. Placed(u, g, v, e, M)
  BY <1>6, <1>12, MovedPlaced
<1> QED BY <1>3, <1>4, <1>13

\* The process p, which waits, goes on: what it offers for the puts in done moves,
\* and what it offers for those in off is lost.
LEMMA WaitPlaced ==
  ASSUME BucketAssumption, Placed(objs, offer, taken, dropped, made),
         \A b \in Buckets : IsSeq(objs[b]), NEW p,
         NEW done, ListOK(done), NEW off, ListOK(off), Apart(done, off),
         NEW m, NEW given, Move(done, off, m, given),
         Hands(offer, p, done, given), Hands(offer, p, off, given),
         NEW items, PutsOf(items) = PutsOf(done) \cup PutsOf(off), NEW g, g = Without(p, items),
         NEW u, u = objs', NEW v, v = taken', NEW e, e = dropped'
  PROVE  Placed(u, g, v, e, made)
<1>1. Drops(offer, g, p, done, off)
  BY WithoutDrops
<1>2. PICK f, N : f = offer /\ N = made
  OBVIOUS
<1>3. /\ Hands(f, p, done, given) /\ Hands(f, p, off, given) /\ Drops(f, g, p, done, off)
      /\ Placed(objs, f, taken, dropped, N)
  BY <1>1, <1>2
<1>4. PICK a : Moved(a, PutsOf(done), PutsOf(off), p, objs, u, f, g, taken, v, dropped, e)
  BY <1>3, MoveMoved
<1>5. Placed(u, g, v, e, N)
  BY <1>3, <1>4, MovedPlaced
<1> QED BY <1>2, <1>5

\* The process p has an offer for each put that is due, with as many objects.
OfferRecorded(p) ==
  /\ \A b \in Buckets : p \in DOMAIN offer[b] <=> Due(p, <<b, "put">>)
  /\ InWait(p) => \A k \in DOMAIN call[p].items :
       LET i == call[p].items[k]
       IN i.side = "put" /\ p \in DOMAIN offer[i.b] =>
            IsSeq(offer[i.b][p]) /\ Len(offer[i.b][p]) = Count(i)

OfferRecords == \A p \in Procs : OfferRecorded(p)

LEMMA TurnOffers ==
  ASSUME Base, OfferRecords, NEW p \in Procs, NEW done, NEW new, NEW off, NEW o, NEW woken,
         Turn(p, done, new, off, o, woken), NEW g, g = offer',
         \A b \in Buckets, q \in Procs : q \in DOMAIN g[b] <=>
           \/ q \in DOMAIN offer[b] /\ ~(q = p /\ b \in PutsOf(done) \cup PutsOf(off))
           \/ q = p /\ b \in PutsOf(new),
         \A b \in Buckets : \A q \in DOMAIN g[b] :
           ~(q = p /\ b \in PutsOf(new)) => g[b][q] = offer[b][q],
         NEW given, Hands(g, p, new, given)
  PROVE  OfferRecords'
<1>1. /\ ListOK(done) /\ ListOK(new) /\ ListOK(off) /\ BucketAssumption
      /\ \A q \in Procs : q # p => call'[q] = call[q]
      /\ call' \in [Procs -> {Idle, Sleeping} \cup Blocked]
      /\ \A pl \in Places : Due(p, pl)' <=>
           \/ Due(p, pl) /\ pl \notin PlacesOf(done) /\ pl \notin PlacesOf(off)
           \/ pl \in PlacesOf(new)
      /\ \A pl \in Places : Due(p, pl)' => call'[p].items = call[p].items \/ pl \in PlacesOf(new)
      /\ \A k \in DOMAIN new : \E l \in DOMAIN call'[p].items : call'[p].items[l] = new[k]
  BY DEF Turn, Base
<1>2. \A b \in Buckets : <<b, "put">> \in Places
  BY DEF Places, Sides
<1>3. ASSUME NEW q \in Procs, q # p PROVE OfferRecorded(q)'
  <2>1. call'[q] = call[q] /\ OfferRecorded(q)
    BY <1>1, <1>3 DEF OfferRecords
  <2>2. (InWait(q)' <=> InWait(q)) /\ \A pl : Due(q, pl)' <=> Due(q, pl)
    BY <2>1 DEF InWait, Due
  <2>3. \A b \in Buckets : /\ q \in DOMAIN g[b] <=> q \in DOMAIN offer[b]
                           /\ q \in DOMAIN g[b] => g[b][q] = offer[b][q]
    BY <1>3
  <2>4. ASSUME InWait(q), NEW k \in DOMAIN call[q].items PROVE call[q].items[k].b \in Buckets
    BY <1>1, <2>4, CallProps, ItemProps DEF Base
  <2> QED BY <2>1, <2>2, <2>3, <2>4 DEF OfferRecorded
<1>4. ASSUME NEW b \in Buckets PROVE p \in DOMAIN g[b] <=> Due(p, <<b, "put">>)'
  <2>1. p \in DOMAIN offer[b] <=> Due(p, <<b, "put">>)
    BY DEF OfferRecords, OfferRecorded
  <2>2. /\ b \in PutsOf(done) <=> <<b, "put">> \in PlacesOf(done)
        /\ b \in PutsOf(new) <=> <<b, "put">> \in PlacesOf(new)
        /\ b \in PutsOf(off) <=> <<b, "put">> \in PlacesOf(off)
    BY <1>1, PutsProps
  <2> QED BY <1>1, <1>2, <2>1, <2>2
<1>5. ASSUME InWait(p)', NEW k \in DOMAIN call'[p].items, NEW i, i = call'[p].items[k], i.side = "put",
             p \in DOMAIN g[i.b]
      PROVE  IsSeq(g[i.b][p]) /\ Len(g[i.b][p]) = Count(i)
  <2>1. ListOK(call'[p].items)
    <3>1. call'[p] \in {Idle, Sleeping} \cup Blocked
      BY <1>1
    <3>2. call'[p].op \in {"direct", "cond"}
      BY <1>5 DEF InWait
    <3>3. call'[p] \in Blocked
      BY <3>1, <3>2 DEF Idle, Sleeping
    <3>4. call'[p].items \in Lists
      BY <3>3 DEF Blocked
    <3> QED BY <1>1, <3>4, ListsOK
  <2>2. i.b \in Buckets /\ Place(i) \in Places /\ Place(i) = <<i.b, "put">>
    BY <1>1, <1>5, <2>1, ItemProps
  <2>3. CASE i.b \in PutsOf(new)
    <3>1. PICK l \in DOMAIN new : new[l].side = "put" /\ new[l].b = i.b
      BY <1>1, <2>3, PutsProps
    <3>2. PICK n \in DOMAIN call'[p].items : call'[p].items[n] = new[l]
      BY <1>1
    <3>3. n = k
      BY <1>1, <1>5, <2>1, <3>1, <3>2, ItemProps
    <3>4. new[l] = i
      BY <1>5, <3>2, <3>3
    <3> QED BY <3>1, <3>4 DEF Hands
  <2>4. CASE i.b \notin PutsOf(new)
    <3>1. p \in DOMAIN offer[i.b] /\ g[i.b][p] = offer[i.b][p]
      BY <1>5, <2>2, <2>4
    <3>2. Due(p, <<i.b, "put">>)'
      BY <1>4, <1>5, <2>2
    <3>3. <<i.b, "put">> \notin PlacesOf(new)
      BY <1>1, <2>2, <2>4, PutsProps
    <3>4. call'[p].items = call[p].items
      BY <1>1, <2>2, <3>2, <3>3
    <3>5. InWait(p)
      BY <2>2, <3>1 DEF OfferRecords, OfferRecorded, Due
    <3> QED BY <1>5, <3>1, <3>4, <3>5 DEF OfferRecords, OfferRecorded
  <2> QED BY <2>3, <2>4
<1>6. OfferRecorded(p)'
  BY <1>4, <1>5 DEF OfferRecorded
<1> QED BY <1>3, <1>6 DEF OfferRecords

LEMMA QuietOffers ==
  ASSUME OfferRecords, Quiet, offer' = offer
  PROVE  OfferRecords'
<1>1. ASSUME NEW q \in Procs PROVE OfferRecorded(q)'
  <2>1. OfferRecorded(q)
    BY DEF OfferRecords
  <2>2. (InWait(q)' <=> InWait(q)) /\ (InWait(q) => call'[q] = call[q])
    BY DEF Quiet
  <2>3. \A pl : Due(q, pl)' <=> Due(q, pl)
    BY <2>2 DEF Due
  <2> QED BY <2>1, <2>2, <2>3 DEF OfferRecorded
<1> QED BY <1>1 DEF OfferRecords

LEMMA SplitProps ==
  ASSUME BucketAssumption, NEW items \in Lists, NEW done, done = Fitting(items),
         NEW rest, rest = Lacking(items)
  PROVE  /\ ListOK(done) /\ ListOK(rest) /\ ListOK(<<>>)
         /\ Splits(items, done, rest, <<>>) /\ Splits(items, done, <<>>, rest)
         /\ Apart(done, rest) /\ Apart(done, <<>>)
<1>1. /\ ListOK(items) /\ ListOK(done) /\ ListOK(rest)
      /\ \A k \in DOMAIN done, l \in DOMAIN rest : done[k].b # rest[l].b
      /\ PlacesOf(done) \subseteq PlacesOf(items)
      /\ PlacesOf(rest) = PlacesOf(items) \ PlacesOf(done)
      /\ \A k \in DOMAIN rest : \E l \in DOMAIN items : rest[k] = items[l]
  BY ListsOK, FittingProps
<1>2. \A k \in DOMAIN done : \E l \in DOMAIN items : done[k] = items[l]
  <2> DEFINE F == {k \in DOMAIN items : FitsNow(items[k])}
  <2>1. F \in SUBSET DOMAIN items /\ done = S!AtPlaces(items, F)
    BY DEF Fitting
  <2> HIDE DEF F
  <2>2. \A k \in DOMAIN done : \E l \in F : done[k] = items[l]
    BY <1>1, <2>1, PartOK
  <2> QED BY <2>1, <2>2
<1>3. PutsOf(items) = PutsOf(done) \cup PutsOf(rest) /\ PutsOf(done) \cap PutsOf(rest) = {}
  <2>1. ASSUME NEW b \in Buckets
        PROVE  /\ b \in PutsOf(items) <=> b \in PutsOf(done) \/ b \in PutsOf(rest)
               /\ ~(b \in PutsOf(done) /\ b \in PutsOf(rest))
    <3>1. /\ b \in PutsOf(items) <=> <<b, "put">> \in PlacesOf(items)
          /\ b \in PutsOf(done) <=> <<b, "put">> \in PlacesOf(done)
          /\ b \in PutsOf(rest) <=> <<b, "put">> \in PlacesOf(rest)
      BY <1>1, PutsProps
    <3> QED BY <1>1, <3>1
  <2>2. PutsOf(items) \subseteq Buckets /\ PutsOf(done) \subseteq Buckets /\ PutsOf(rest) \subseteq Buckets
    BY DEF PutsOf
  <2> QED BY <2>1, <2>2
<1>4. PutsOf(<<>>) = {} /\ DOMAIN <<>> = {} /\ ListOK(<<>>)
  BY EmptyList, NoneHanded
<1> QED BY <1>1, <1>2, <1>3, <1>4 DEF Splits, Apart

LEMMA HandsProps ==
  ASSUME BucketAssumption, NEW p \in Procs, InWait(p), OfferRecorded(p), NEW list, ListOK(list),
         \A k \in DOMAIN list : Due(p, Place(list[k])) /\ \E l \in DOMAIN call[p].items : list[k] = call[p].items[l],
         NEW given, \A k \in DOMAIN list : list[k].side = "put" => given[list[k]] = offer[list[k].b][p]
  PROVE  Hands(offer, p, list, given)
<1>1. ASSUME NEW k \in DOMAIN list, list[k].side = "put"
      PROVE  /\ p \in DOMAIN offer[list[k].b] /\ offer[list[k].b][p] = given[list[k]]
             /\ IsSeq(given[list[k]]) /\ Len(given[list[k]]) = Count(list[k])
  <2>1. list[k].b \in Buckets /\ Place(list[k]) = <<list[k].b, "put">>
    BY <1>1, ItemProps
  <2>2. p \in DOMAIN offer[list[k].b]
    BY <2>1 DEF OfferRecorded
  <2>3. PICK l \in DOMAIN call[p].items : list[k] = call[p].items[l]
    OBVIOUS
  <2>4. IsSeq(offer[list[k].b][p]) /\ Len(offer[list[k].b][p]) = Count(list[k])
    BY <1>1, <2>2, <2>3 DEF OfferRecorded
  <2> QED BY <1>1, <2>2, <2>4
<1> QED BY <1>1 DEF Hands

\* Each object is in one place, and what is on offer is what is due.
PlaceInv == OfferRecords /\ made \in Nat /\ Placed(objs, offer, taken, dropped, made)

LEMMA PlacedNext ==
  ASSUME NEW u, u = objs', NEW g, g = offer', NEW v, v = taken', NEW e, e = dropped', NEW M, M = made',
         Placed(u, g, v, e, M)
  PROVE  Placed(objs, offer, taken, dropped, made)'
BY DEF Placed, Somewhere, Nowhere, NoStore, OneStore, NoOffer, OneOffer, InStore, InOffer

LEMMA StoreAtOncePlaced ==
  ASSUME Base, ObjInv, PlaceInv, NEW items \in Lists, NEW every, StoreAtOnce(items, every)
  PROVE  PlaceInv'
<1>1. /\ Arrive(items) /\ AtOnce(items, every) /\ offer' = offer
      /\ BucketAssumption /\ OfferRecords /\ made \in Nat /\ Placed(objs, offer, taken, dropped, made)
      /\ \A b \in Buckets : IsSeq(objs[b])
  BY DEF StoreAtOnce, Base, PlaceInv, ObjInv, LevelsOK
<1>2. PICK p \in Procs : \E done, off, o, woken :
        /\ p = cur /\ done = Fitting(items)
        /\ Turn(p, done, <<>>, off, o, woken) /\ Fresh(p, done, <<>>, woken)
  BY <1>1, AtOnceProps
<1>3. PICK done, off, o, woken :
        /\ p = cur /\ done = Fitting(items)
        /\ Turn(p, done, <<>>, off, o, woken) /\ Fresh(p, done, <<>>, woken)
  BY <1>2
<1>4. PICK m, given, rest : m = mode' /\ given = Brought(items) /\ rest = Lacking(items)
  OBVIOUS
<1>5. Move(done, rest, m, given)
  BY <1>3, <1>4 DEF StoreAtOnce
<1>6. /\ ListOK(done) /\ ListOK(rest) /\ ListOK(<<>>)
      /\ Splits(items, done, rest, <<>>) /\ Apart(done, rest)
  BY <1>1, <1>3, <1>4, SplitProps
<1>7. \A b \in Buckets : p \notin DOMAIN offer[b]
  <2>1. \A pl \in Places : ~Due(p, pl)
    BY <1>1, <1>3, IdleProps DEF AtOnce
  <2>2. \A b \in Buckets : <<b, "put">> \in Places
    BY DEF Places, Sides
  <2> QED BY <1>1, <2>1, <2>2 DEF OfferRecords, OfferRecorded
<1>8. PICK f, u, v, e, M : f = offer /\ u = objs' /\ v = taken' /\ e = dropped' /\ M = made'
  OBVIOUS
<1>9. Handed(offer, f, p, <<>>, given) /\ PutsOf(<<>>) = {}
  BY <1>8, NoneHanded
<1>10. made + Total(items) \in Nat /\ Placed(u, f, v, e, made + Total(items))
  BY <1>1, <1>4, <1>5, <1>6, <1>7, <1>8, <1>9, FreshPlaced
<1>11. M = made + Total(items) /\ f = offer'
  BY <1>1, <1>8 DEF Arrive
<1>12. Placed(objs, offer, taken, dropped, made)'
  <2>1. Placed(u, f, v, e, M)
    BY <1>10, <1>11
  <2> QED BY <1>8, <1>11, <2>1, PlacedNext
<1>13. OfferRecords'
  <2>1. Hands(f, p, <<>>, given)
    BY EmptyList DEF Hands
  <2>2. /\ \A b \in Buckets, q \in Procs : q \in DOMAIN f[b] <=>
             \/ q \in DOMAIN offer[b] /\ ~(q = p /\ b \in PutsOf(done) \cup PutsOf(off))
             \/ q = p /\ b \in PutsOf(<<>>)
        /\ \A b \in Buckets : \A q \in DOMAIN f[b] :
             ~(q = p /\ b \in PutsOf(<<>>)) => f[b][q] = offer[b][q]
    BY <1>7, <1>8, <1>9
  <2> QED BY <1>1, <1>3, <1>11, <2>1, <2>2, TurnOffers
<1>14. made' \in Nat
  BY <1>8, <1>10, <1>11
<1> QED BY <1>12, <1>13, <1>14 DEF PlaceInv

LEMMA StoreBlocksPlaced ==
  ASSUME Base, ObjInv, PlaceInv, NEW op \in {"direct", "cond"}, NEW items \in Lists,
         NEW every \in BOOLEAN, NEW timed \in BOOLEAN,
         op = "direct" => (\E i \in Items : items = <<i>>) /\ every /\ ~timed,
         StoreBlocks(op, items, every, timed)
  PROVE  PlaceInv'
<1>1. /\ Arrive(items) /\ Blocks(op, items, every, timed)
      /\ BucketAssumption /\ OfferRecords /\ made \in Nat /\ Placed(objs, offer, taken, dropped, made)
      /\ \A b \in Buckets : IsSeq(objs[b])
  BY DEF StoreBlocks, Base, PlaceInv, ObjInv, LevelsOK
<1>2. PICK p \in Procs : \E done, new, o, woken :
        /\ p = cur /\ done = Fitting(items) /\ new = Lacking(items)
        /\ Turn(p, done, new, <<>>, o, woken) /\ Fresh(p, done, new, woken)
  BY <1>1, BlocksProps
<1>3. PICK done, new, o, woken :
        /\ p = cur /\ done = Fitting(items) /\ new = Lacking(items)
        /\ Turn(p, done, new, <<>>, o, woken) /\ Fresh(p, done, new, woken)
  BY <1>2
<1>4. PICK m, given, g : m = mode' /\ given = Brought(items) /\ g = offer'
  OBVIOUS
<1>5. Move(done, <<>>, m, given) /\ g = With(p, new, given)
  BY <1>3, <1>4 DEF StoreBlocks
<1>6. /\ ListOK(done) /\ ListOK(new) /\ ListOK(<<>>)
      /\ Splits(items, done, <<>>, new) /\ Apart(done, <<>>)
  BY <1>1, <1>3, SplitProps
<1>7. \A b \in Buckets : p \notin DOMAIN offer[b]
  <2>1. \A pl \in Places : ~Due(p, pl)
    BY <1>1, <1>3, IdleProps DEF Blocks
  <2>2. \A b \in Buckets : <<b, "put">> \in Places
    BY DEF Places, Sides
  <2> QED BY <1>1, <2>1, <2>2 DEF OfferRecords, OfferRecorded
<1>8. PICK u, v, e, M : u = objs' /\ v = taken' /\ e = dropped' /\ M = made'
  OBVIOUS
<1>9. Handed(offer, g, p, new, given) /\ PutsOf(<<>>) = {}
  BY <1>1, <1>5, <1>6, WithHanded, NoneHanded
<1>10. made + Total(items) \in Nat /\ Placed(u, g, v, e, made + Total(items))
  BY <1>1, <1>4, <1>5, <1>6, <1>7, <1>8, <1>9, FreshPlaced
<1>11. M = made + Total(items)
  BY <1>1, <1>8 DEF Arrive
<1>12. Placed(objs, offer, taken, dropped, made)'
  <2>1. Placed(u, g, v, e, M)
    BY <1>10, <1>11
  <2> QED BY <1>4, <1>8, <2>1, PlacedNext
<1>13. OfferRecords'
  <2>1. ASSUME NEW k \in DOMAIN new, new[k].side = "put"
        PROVE  /\ p \in DOMAIN g[new[k].b] /\ g[new[k].b][p] = given[new[k]]
               /\ IsSeq(given[new[k]]) /\ Len(given[new[k]]) = Count(new[k])
    <3>1. new[k].b \in PutsOf(new) /\ new[k].b \in Buckets
      BY <1>1, <1>6, <2>1, PutsProps
    <3>2. p \in DOMAIN g[new[k].b] /\ g[new[k].b][p] = given[new[k]]
      BY <1>9, <2>1, <3>1 DEF Handed
    <3>3. PICK l \in DOMAIN items : new[k] = items[l]
      BY <1>6 DEF Splits
    <3>4. IsSeq(given[items[l]]) /\ Len(given[items[l]]) = Count(items[l])
      BY <1>1, <1>4, <2>1, <3>3, BroughtProps
    <3> QED BY <3>2, <3>3, <3>4
  <2>2. Hands(g, p, new, given)
    BY <2>1 DEF Hands
  <2>3. /\ \A b \in Buckets, q \in Procs : q \in DOMAIN g[b] <=>
             \/ q \in DOMAIN offer[b] /\ ~(q = p /\ b \in PutsOf(done) \cup PutsOf(<<>>))
             \/ q = p /\ b \in PutsOf(new)
        /\ \A b \in Buckets : \A q \in DOMAIN g[b] :
             ~(q = p /\ b \in PutsOf(new)) => g[b][q] = offer[b][q]
    BY <1>7, <1>9 DEF Handed
  <2> QED BY <1>1, <1>3, <1>4, <2>2, <2>3, TurnOffers
<1>14. made' \in Nat
  BY <1>8, <1>10, <1>11
<1> QED BY <1>12, <1>13, <1>14 DEF PlaceInv

\* Two lists together.
Together(done, off, over) ==
  /\ PutsOf(over) = PutsOf(done) \cup PutsOf(off)
  /\ \A k \in DOMAIN done : \E n \in DOMAIN over : over[n] = done[k]
  /\ \A k \in DOMAIN off : \E n \in DOMAIN over : over[n] = off[k]

LEMMA JoinedLists ==
  ASSUME NEW done, ListOK(done), NEW off, ListOK(off), NEW over, over = done \o off
  PROVE  Together(done, off, over)
<1>1. IsSeq(done) /\ IsSeq(off)
  BY DEF ListOK, IsSeq
<1>2. ASSUME NEW k
      PROVE  /\ k \in DOMAIN over <=> k \in DOMAIN done \/ (k \in Nat /\ k - Len(done) \in DOMAIN off)
             /\ k \in DOMAIN done => over[k] = done[k]
             /\ k \in Nat /\ k - Len(done) \in DOMAIN off => over[k] = off[k - Len(done)]
  BY <1>1, JoinedAt
<1>3. \A k \in DOMAIN done : k \in DOMAIN over /\ over[k] = done[k]
  BY <1>2
<1>4. ASSUME NEW k \in DOMAIN off
      PROVE  \E n \in DOMAIN over : over[n] = off[k]
  <2>1. off \in Seq(ToSet(off)) /\ done \in Seq(ToSet(done))
    BY DEF ListOK
  <2>2. k \in Nat /\ Len(done) \in Nat
    BY <2>1
  <2>3. PICK n : n = Len(done) + k
    OBVIOUS
  <2>4. n \in Nat /\ n - Len(done) = k
    BY <2>2, <2>3
  <2> QED BY <1>2, <2>4
<1>5. ASSUME NEW n \in DOMAIN over
      PROVE  (\E k \in DOMAIN done : over[n] = done[k]) \/ (\E k \in DOMAIN off : over[n] = off[k])
  BY <1>2
<1>6. \A b : PutAt(over, b) <=> PutAt(done, b) \/ PutAt(off, b)
  BY <1>3, <1>4, <1>5 DEF PutAt
<1> QED BY <1>3, <1>4, <1>6 DEF Together, PutsOf

LEMMA OfferedAt ==
  ASSUME NEW p, NEW over, NEW list, \A k \in DOMAIN list : \E n \in DOMAIN over : over[n] = list[k],
         NEW given, given = Offered(p, over)
  PROVE  \A k \in DOMAIN list : list[k].side = "put" => given[list[k]] = offer[list[k].b][p]
<1>1. ASSUME NEW k \in DOMAIN list, list[k].side = "put" PROVE given[list[k]] = offer[list[k].b][p]
  <2>1. list[k] \in Puts(over)
    BY <1>1 DEF Puts, ToSet
  <2> QED BY <2>1 DEF Offered
<1> QED BY <1>1

\* What p gets or puts when it resumes, and what it withdraws from.
LEMMA WithdrawnProps ==
  ASSUME Base, NEW p \in Procs, cur = p, InWait(p), NEW done, done = Resumed(p), NEW off, off = Withdrawn(p)
  PROVE  /\ ListOK(done) /\ ListOK(off) /\ Apart(done, off)
         /\ \A k \in DOMAIN done : /\ Due(p, Place(done[k]))
                                   /\ \E l \in DOMAIN call[p].items : done[k] = call[p].items[l]
         /\ \A k \in DOMAIN off : /\ Due(p, Place(off[k]))
                                  /\ \E l \in DOMAIN call[p].items : off[k] = call[p].items[l]
<1>1. /\ ListOK(call[p].items) /\ ListOK(done) /\ BucketAssumption
      /\ \A k \in DOMAIN done : /\ Due(p, Place(done[k]))
                                /\ \E l \in DOMAIN call[p].items : done[k] = call[p].items[l]
  BY WaitProps DEF Base
<1> DEFINE I == {k \in DOMAIN call[p].items : Place(call[p].items[k]) \notin Got(p)}
<1>2. off = S!AtPlaces(call[p].items, I) /\ I \in SUBSET DOMAIN call[p].items
  BY DEF Withdrawn
<1>3. \A k \in I : Place(call[p].items[k]) \notin call[p].got \cup PlacesOf(done)
  BY DEF Got
<1> HIDE DEF I
<1>4. ListOK(off) /\ \A k \in DOMAIN off : \E l \in I : off[k] = call[p].items[l]
  BY <1>1, <1>2, PartOK
<1>5. ASSUME NEW k \in DOMAIN off
      PROVE  /\ Due(p, Place(off[k])) /\ Place(off[k]) \notin PlacesOf(done)
             /\ \E l \in DOMAIN call[p].items : off[k] = call[p].items[l]
  <2>1. PICK l \in I : off[k] = call[p].items[l]
    BY <1>4
  <2>2. Place(call[p].items[l]) \in PlacesOf(call[p].items)
    BY <1>1, <1>2, ItemProps
  <2> QED BY <1>2, <1>3, <2>1, <2>2 DEF Due
<1>6. ASSUME NEW k \in DOMAIN done, NEW n \in DOMAIN off, done[k].b = off[n].b PROVE FALSE
  <2>1. PICK l \in DOMAIN call[p].items : done[k] = call[p].items[l]
    BY <1>1
  <2>2. PICK m \in DOMAIN call[p].items : off[n] = call[p].items[m]
    BY <1>5
  <2>3. l = m
    BY <1>1, <1>6, <2>1, <2>2, ItemProps
  <2>4. Place(done[k]) \in PlacesOf(done)
    BY <1>1, ItemProps
  <2> QED BY <1>5, <2>1, <2>2, <2>3, <2>4
<1> QED BY <1>1, <1>4, <1>5, <1>6 DEF Apart

LEMMA StoreReturnPlaced ==
  ASSUME Base, ObjInv, PlaceInv, NEW p \in Procs, StoreReturn(p)
  PROVE  PlaceInv'
<1>1. /\ Return(p) /\ made' = made
      /\ BucketAssumption /\ OfferRecords /\ made \in Nat /\ Placed(objs, offer, taken, dropped, made)
      /\ \A b \in Buckets : IsSeq(objs[b])
  BY DEF StoreReturn, Base, PlaceInv, ObjInv, LevelsOK
<1>2. cur = p /\ InWait(p) /\ OfferRecorded(p)
  BY <1>1 DEF Return, OfferRecords
<1>3. PICK done, off, o, woken :
        /\ done = Resumed(p) /\ off = Withdrawn(p)
        /\ Turn(p, done, <<>>, off, o, woken) /\ Resumes(p, done, <<>>, woken)
  BY <1>1, ReturnProps
<1>4. PICK over : over = done \o off
  OBVIOUS
<1>5. PICK m, given, g : m = mode /\ given = Offered(p, over) /\ g = offer'
  OBVIOUS
<1>6. Move(done, off, m, given) /\ g = Without(p, over)
  BY <1>3, <1>4, <1>5 DEF StoreReturn
<1>7. /\ ListOK(done) /\ ListOK(off) /\ Apart(done, off)
      /\ \A k \in DOMAIN done : /\ Due(p, Place(done[k]))
                                /\ \E l \in DOMAIN call[p].items : done[k] = call[p].items[l]
      /\ \A k \in DOMAIN off : /\ Due(p, Place(off[k]))
                               /\ \E l \in DOMAIN call[p].items : off[k] = call[p].items[l]
  BY <1>2, <1>3, WithdrawnProps
<1>8. /\ PutsOf(over) = PutsOf(done) \cup PutsOf(off)
      /\ \A k \in DOMAIN done : \E n \in DOMAIN over : over[n] = done[k]
      /\ \A k \in DOMAIN off : \E n \in DOMAIN over : over[n] = off[k]
  <2>1. Together(done, off, over)
    BY <1>4, <1>7, JoinedLists
  <2> QED BY <2>1 DEF Together
<1>9. /\ \A k \in DOMAIN done : done[k].side = "put" => given[done[k]] = offer[done[k].b][p]
      /\ \A k \in DOMAIN off : off[k].side = "put" => given[off[k]] = offer[off[k].b][p]
  BY <1>5, <1>8, OfferedAt
<1>10. Hands(offer, p, done, given) /\ Hands(offer, p, off, given)
  BY <1>1, <1>2, <1>7, <1>9, HandsProps
<1>11. PICK u, v, e, M : u = objs' /\ v = taken' /\ e = dropped' /\ M = made'
  OBVIOUS
<1>12. Placed(u, g, v, e, made)
  BY <1>1, <1>6, <1>7, <1>8, <1>10, <1>11, WaitPlaced
<1>13. Placed(objs, offer, taken, dropped, made)'
  <2>1. Placed(u, g, v, e, M)
    BY <1>1, <1>11, <1>12
  <2> QED BY <1>5, <1>11, <2>1, PlacedNext
<1>14. OfferRecords'
  <2>1. Hands(g, p, <<>>, given) /\ PutsOf(<<>>) = {}
    BY EmptyList, NoneHanded DEF Hands
  <2>2. Drops(offer, g, p, done, off)
    BY <1>6, <1>8, WithoutDrops
  <2>3. /\ \A b \in Buckets, q \in Procs : q \in DOMAIN g[b] <=>
             \/ q \in DOMAIN offer[b] /\ ~(q = p /\ b \in PutsOf(done) \cup PutsOf(off))
             \/ q = p /\ b \in PutsOf(<<>>)
        /\ \A b \in Buckets : \A q \in DOMAIN g[b] :
             ~(q = p /\ b \in PutsOf(<<>>)) => g[b][q] = offer[b][q]
    BY <2>1, <2>2 DEF Drops
  <2> QED BY <1>1, <1>3, <1>5, <2>1, <2>3, TurnOffers
<1> QED BY <1>1, <1>13, <1>14 DEF PlaceInv

LEMMA StoreAgainPlaced ==
  ASSUME Base, ObjInv, PlaceInv, NEW p \in Procs, StoreAgain(p)
  PROVE  PlaceInv'
<1>1. /\ Again(p) /\ made' = made
      /\ BucketAssumption /\ OfferRecords /\ made \in Nat /\ Placed(objs, offer, taken, dropped, made)
      /\ \A b \in Buckets : IsSeq(objs[b])
  BY DEF StoreAgain, Base, PlaceInv, ObjInv, LevelsOK
<1>2. cur = p /\ InWait(p) /\ OfferRecorded(p)
  BY <1>1 DEF Again, OfferRecords
<1>3. PICK done, o, woken :
        /\ done = Resumed(p)
        /\ Turn(p, done, <<>>, <<>>, o, woken) /\ Resumes(p, done, <<>>, woken)
  BY <1>1, AgainProps
<1>5. PICK m, given, g, none : m = mode /\ given = Offered(p, done) /\ g = offer' /\ none = <<>>
  OBVIOUS
<1>6. Move(done, none, m, given) /\ g = Without(p, done)
  BY <1>3, <1>5 DEF StoreAgain
<1>7. /\ ListOK(done)
      /\ \A k \in DOMAIN done : /\ Due(p, Place(done[k]))
                                /\ \E l \in DOMAIN call[p].items : done[k] = call[p].items[l]
  BY <1>2, <1>3, WithdrawnProps
<1>8. /\ ListOK(none) /\ DOMAIN none = {} /\ PutsOf(none) = {} /\ Apart(done, none)
      /\ PutsOf(done) = PutsOf(done) \cup PutsOf(none)
  BY <1>5, EmptyList, NoneHanded DEF Apart
<1>9. \A k \in DOMAIN done : done[k].side = "put" => given[done[k]] = offer[done[k].b][p]
  BY <1>5, OfferedAt
<1>10. Hands(offer, p, done, given) /\ Hands(offer, p, none, given)
  <2>1. Hands(offer, p, done, given)
    BY <1>1, <1>2, <1>7, <1>9, HandsProps
  <2> QED BY <1>8, <2>1 DEF Hands
<1>11. PICK u, v, e, M : u = objs' /\ v = taken' /\ e = dropped' /\ M = made'
  OBVIOUS
<1>12. Placed(u, g, v, e, made)
  BY <1>1, <1>6, <1>7, <1>8, <1>10, <1>11, WaitPlaced
<1>13. Placed(objs, offer, taken, dropped, made)'
  <2>1. Placed(u, g, v, e, M)
    BY <1>1, <1>11, <1>12
  <2> QED BY <1>5, <1>11, <2>1, PlacedNext
<1>14. OfferRecords'
  <2>1. Hands(g, p, none, given)
    BY <1>8 DEF Hands
  <2>2. Drops(offer, g, p, done, none)
    BY <1>6, <1>8, WithoutDrops
  <2>3. /\ \A b \in Buckets, q \in Procs : q \in DOMAIN g[b] <=>
             \/ q \in DOMAIN offer[b] /\ ~(q = p /\ b \in PutsOf(done) \cup PutsOf(none))
             \/ q = p /\ b \in PutsOf(none)
        /\ \A b \in Buckets : \A q \in DOMAIN g[b] :
             ~(q = p /\ b \in PutsOf(none)) => g[b][q] = offer[b][q]
    BY <1>8, <2>2 DEF Drops
  <2>4. Turn(p, done, none, none, o, woken)
    BY <1>3, <1>5
  <2> QED BY <1>1, <1>5, <2>1, <2>3, <2>4, TurnOffers
<1> QED BY <1>1, <1>13, <1>14 DEF PlaceInv

LEMMA StoreElsewherePlaced ==
  ASSUME Base, PlaceInv, StoreElsewhere
  PROVE  PlaceInv'
<1>1. Quiet /\ offer' = offer /\ objs' = objs /\ taken' = taken /\ dropped' = dropped /\ made' = made
  BY ElsewhereStep DEF StoreElsewhere, objVars
<1>2. OfferRecords'
  BY <1>1, QuietOffers DEF PlaceInv
<1>3. Placed(objs, offer, taken, dropped, made)'
  BY <1>1, PlacedNext DEF PlaceInv
<1> QED BY <1>1, <1>2, <1>3 DEF PlaceInv

\* At most one store starts with objects, those of the first numbers.
LEMMA InitPlaced == BucketAssumption /\ StoreInit => PlaceInv
<1> SUFFICES ASSUME BucketAssumption, StoreInit PROVE PlaceInv
  OBVIOUS
<1>1. /\ Init /\ taken = {} /\ dropped = {}
      /\ objs = [s \in Buckets |-> IF s \in InitObj THEN [k \in 1..InitLevel[s] |-> k] ELSE <<>>]
      /\ offer = [s \in Buckets |-> [p \in {} |-> <<>>]]
      /\ made = IF InitObj = {} THEN 0 ELSE InitLevel[CHOOSE s \in InitObj : TRUE]
  BY DEF StoreInit
<1>2. \A p \in Procs : call[p] = Idle
  BY <1>1 DEF Init
<1>3. \A b \in Buckets : DOMAIN offer[b] = {}
  BY <1>1
<1>4. OfferRecords
  BY <1>2, <1>3 DEF OfferRecords, OfferRecorded, Due, InWait, Idle
<1>5. \A n : NoOffer(offer, n)
  BY <1>3 DEF NoOffer, InOffer
<1>6. InitObj = {} \/ \E s \in Buckets : InitObj = {s}
  <2>1. IsFiniteSet(Buckets) /\ InitObj \subseteq Buckets /\ Cardinality(InitObj) <= 1
    BY StoreAssumption
  <2>2. IsFiniteSet(InitObj)
    BY <2>1, FS_Subset
  <2>3. Cardinality(InitObj) \in Nat
    BY <2>2, FS_CardinalityType
  <2>4. Cardinality(InitObj) = 0 \/ Cardinality(InitObj) = 1
    BY <2>1, <2>3
  <2>5. CASE Cardinality(InitObj) = 0
    BY <2>2, <2>5, FS_EmptySet
  <2>6. CASE Cardinality(InitObj) = 1
    <3>1. \E s : InitObj = {s}
      BY <2>2, <2>6, FS_Singleton
    <3> QED BY <2>1, <3>1
  <2> QED BY <2>4, <2>5, <2>6
<1>7. \A b \in Buckets : b \notin InitObj => DOMAIN objs[b] = {}
  BY <1>1
<1>8. CASE InitObj = {}
  <2>1. \A n : NoStore(objs, n)
    BY <1>7, <1>8 DEF NoStore, InStore
  <2>2. made = 0 /\ 1..made = {}
    BY <1>1, <1>8
  <2>3. Placed(objs, offer, taken, dropped, made)
    BY <1>1, <1>5, <2>1, <2>2 DEF Placed, Nowhere
  <2> QED BY <1>4, <2>2, <2>3 DEF PlaceInv
<1>9. ASSUME NEW s \in Buckets, InitObj = {s} PROVE PlaceInv
  <2>1. (CHOOSE x \in InitObj : TRUE) = s
    BY <1>9
  <2>2. made = InitLevel[s] /\ made \in Nat
    BY <1>1, <1>9, <2>1 DEF BucketAssumption
  <2>3. DOMAIN objs[s] = 1..made /\ \A k \in 1..made : objs[s][k] = k
    BY <1>1, <1>9, <2>2
  <2>4. \A n, b, k : InStore(objs, n, b, k) <=> b = s /\ k \in 1..made /\ n = k
    BY <1>7, <1>9, <2>3 DEF InStore
  <2>5. ASSUME NEW n \in 1..made PROVE OneStore(objs, n)
    BY <2>4 DEF OneStore
  <2>6. ASSUME NEW n, n \notin 1..made PROVE NoStore(objs, n)
    BY <2>4, <2>6 DEF NoStore
  <2>7. Placed(objs, offer, taken, dropped, made)
    BY <1>1, <1>5, <2>5, <2>6 DEF Placed, Somewhere, Nowhere
  <2> QED BY <1>4, <2>2, <2>7 DEF PlaceInv
<1> QED BY <1>6, <1>8, <1>9

LEMMA RefusePlaced ==
  ASSUME PlaceInv, NEW p, NEW tried, NEW blocked, Refusal(p, tried, blocked)
  PROVE  PlaceInv'
<1>1. /\ offer' = offer /\ objs' = objs /\ taken' = taken /\ dropped' = dropped /\ made' = made
      /\ call' = call
  BY DEF Refusal
<1>2. Placed(objs, offer, taken, dropped, made)'
  BY <1>1, PlacedNext DEF PlaceInv
<1>3. OfferRecords'
  BY <1>1 DEF PlaceInv, OfferRecords, OfferRecorded, Due, InWait
<1> QED BY <1>1, <1>2, <1>3 DEF PlaceInv

LEMMA NextPlaced == BucketsOK /\ StoreInv /\ PlaceInv /\ [StoreNext]_storeVars => PlaceInv'
<1> SUFFICES ASSUME BucketsOK, StoreInv, PlaceInv, [StoreNext]_storeVars PROVE PlaceInv'
  OBVIOUS
<1>0. Goes => IInv /\ Base /\ BucketAssumption /\ ObjInv
  BY DEF BucketsOK, Running, Goes, IInv, Base, StoreInv
<1>1. ASSUME NEW items \in Lists, NEW every, StoreAtOnce(items, every) PROVE PlaceInv'
  <2>1. Goes
    BY <1>1 DEF StoreAtOnce, Arrive
  <2> QED BY <1>0, <1>1, <2>1, StoreAtOncePlaced
<1>2. ASSUME NEW op \in {"direct", "cond"}, NEW items \in Lists,
             NEW every \in BOOLEAN, NEW timed \in BOOLEAN,
             op = "direct" => (\E i \in Items : items = <<i>>) /\ every /\ ~timed,
             StoreBlocks(op, items, every, timed)
      PROVE  PlaceInv'
  <2>1. Goes
    BY <1>2 DEF StoreBlocks, Arrive
  <2> QED BY <1>0, <1>2, <2>1, StoreBlocksPlaced
<1>3. ASSUME NEW p \in Procs, StoreReturn(p) PROVE PlaceInv'
  <2>1. Goes
    BY <1>3 DEF StoreReturn
  <2> QED BY <1>0, <1>3, <2>1, StoreReturnPlaced
<1>4. ASSUME NEW p \in Procs, StoreAgain(p) PROVE PlaceInv'
  <2>1. Goes
    BY <1>4 DEF StoreAgain
  <2> QED BY <1>0, <1>4, <2>1, StoreAgainPlaced
<1>5. ASSUME StoreElsewhere PROVE PlaceInv'
  <2>1. Goes
    BY <1>5 DEF StoreElsewhere
  <2> QED BY <1>0, <1>5, <2>1, StoreElsewherePlaced
<1>6. ASSUME UNCHANGED storeVars PROVE PlaceInv'
  <2>1. /\ offer' = offer /\ objs' = objs /\ taken' = taken /\ dropped' = dropped /\ made' = made
        /\ call' = call
    BY <1>6 DEF storeVars, vars, objVars
  <2>2. Placed(objs, offer, taken, dropped, made)'
    BY <2>1, PlacedNext DEF PlaceInv
  <2>3. OfferRecords'
    BY <2>1 DEF PlaceInv, OfferRecords, OfferRecorded, Due, InWait
  <2> QED BY <2>1, <2>2, <2>3 DEF PlaceInv
<1>7. ASSUME NEW items \in Lists, Refuse(items) PROVE PlaceInv'
  <2>1. Goes
    BY <1>7 DEF Refuse
  <2>2. PICK p \in Procs : \E tried, blocked : Refusal(p, tried, blocked)
    BY <1>0, <1>7, <2>1, RefuseProps
  <2> QED BY <2>2, RefusePlaced
<1>8. CASE Goes
  <2>1. \A i \in Items : <<i>> \in Lists
    BY DEF Lists
  <2>2. \A w \in Waits : w.items \in Lists /\ w.every \in BOOLEAN /\ w.timed \in BOOLEAN
    BY <1>0, <1>8 DEF Lists, BucketAssumption
  <2>3. ASSUME NEW i \in Items, Get(i) \/ Put(i) PROVE PlaceInv'
    <3>1. \/ StoreAtOnce(<<i>>, TRUE) \/ StoreBlocks("direct", <<i>>, TRUE, FALSE)
          \/ Refuse(<<i>>)
      BY <2>3 DEF Get, Put
    <3> QED BY <1>1, <1>2, <1>7, <2>1, <3>1
  <2>4. ASSUME NEW w \in Waits, Wait(w) PROVE PlaceInv'
    <3>1. \/ StoreAtOnce(w.items, w.every) \/ StoreBlocks("cond", w.items, w.every, w.timed)
          \/ Refuse(w.items)
      BY <2>4 DEF Wait
    <3> QED BY <1>1, <1>2, <1>7, <2>2, <3>1
  <2> QED BY <1>3, <1>4, <1>5, <1>6, <2>3, <2>4 DEF StoreNext, Ended
<1>9. CASE ~Goes
  BY <1>6, <1>9, NothingAfter
<1> QED BY <1>8, <1>9

\* The places of an object, counted.
LEMMA PlacedCounts ==
  ASSUME made \in Nat, Placed(objs, offer, taken, dropped, made), NEW n
  PROVE  IF n \in 1..made
         THEN Cardinality(InStores(n)) + Cardinality(InOffers(n)) + Cardinality(Gone(n)) = 1
         ELSE InStores(n) = {} /\ InOffers(n) = {} /\ Gone(n) = {}
<1>1. \A x : x \in InStores(n) <=> \E b, k : InStore(objs, n, b, k) /\ x = <<b, k>>
  BY DEF InStores, InStore
<1>2. \A x : x \in Offers <=> \E b \in Buckets : \E q \in DOMAIN offer[b] : x = <<b, q>>
  BY DEF Offers
<1>3. \A x : x \in InOffers(n) <=> \E b, q, k : InOffer(offer, n, b, q, k) /\ x = <<<<b, q>>, k>>
  <2>1. ASSUME NEW x
        PROVE  x \in InOffers(n) <=> \E o \in Offers : \E k \in DOMAIN offer[o[1]][o[2]] :
                                       offer[o[1]][o[2]][k] = n /\ x = <<o, k>>
    BY DEF InOffers
  <2> QED BY <1>2, <2>1 DEF InOffer
<1>4. NoStore(objs, n) => InStores(n) = {}
  BY <1>1 DEF NoStore
<1>5. OneStore(objs, n) => \E x : InStores(n) = {x}
  <2>1. ASSUME NEW b, NEW k, InStore(objs, n, b, k), \A c, j : InStore(objs, n, c, j) => c = b /\ j = k
        PROVE  InStores(n) = {<<b, k>>}
    BY <1>1, <2>1
  <2> QED BY <2>1 DEF OneStore
<1>6. NoOffer(offer, n) => InOffers(n) = {}
  BY <1>3 DEF NoOffer
<1>7. OneOffer(offer, n) => \E x : InOffers(n) = {x}
  <2>1. ASSUME NEW b, NEW q, NEW k, InOffer(offer, n, b, q, k),
               \A c, r, j : InOffer(offer, n, c, r, j) => c = b /\ r = q /\ j = k
        PROVE  InOffers(n) = {<<<<b, q>>, k>>}
    BY <1>3, <2>1
  <2> QED BY <2>1 DEF OneOffer
<1>8. \A k : k \in Gone(n) <=> (k = 1 /\ n \in taken) \/ (k = 2 /\ n \in dropped)
  BY DEF Gone
<1>9. /\ n \notin taken /\ n \notin dropped => Gone(n) = {}
      /\ n \in taken /\ n \notin dropped => Gone(n) = {1}
      /\ n \notin taken /\ n \in dropped => Gone(n) = {2}
  BY <1>8
<1>10. Cardinality({}) = 0 /\ \A x : Cardinality({x}) = 1
  BY FS_EmptySet, FS_Singleton
<1>11. CASE n \in 1..made
  <2>1. Somewhere(n, objs, offer, taken, dropped)
    BY <1>11 DEF Placed
  <2>2. CASE OneStore(objs, n) /\ NoOffer(offer, n) /\ n \notin taken /\ n \notin dropped
    <3>1. Cardinality(InStores(n)) = 1 /\ Cardinality(InOffers(n)) = 0 /\ Cardinality(Gone(n)) = 0
      BY <1>5, <1>6, <1>9, <1>10, <2>2
    <3> QED BY <1>11, <3>1
  <2>3. CASE NoStore(objs, n) /\ OneOffer(offer, n) /\ n \notin taken /\ n \notin dropped
    <3>1. Cardinality(InStores(n)) = 0 /\ Cardinality(InOffers(n)) = 1 /\ Cardinality(Gone(n)) = 0
      BY <1>4, <1>7, <1>9, <1>10, <2>3
    <3> QED BY <1>11, <3>1
  <2>4. CASE NoStore(objs, n) /\ NoOffer(offer, n) /\ (n \in taken <=> n \notin dropped)
    <3>1. Cardinality(InStores(n)) = 0 /\ Cardinality(InOffers(n)) = 0 /\ Cardinality(Gone(n)) = 1
      BY <1>4, <1>6, <1>9, <1>10, <2>4
    <3> QED BY <1>11, <3>1
  <2> QED BY <2>1, <2>2, <2>3, <2>4 DEF Somewhere
<1>12. CASE n \notin 1..made
  <2>1. Nowhere(n, objs, offer, taken, dropped)
    BY <1>12 DEF Placed
  <2> QED BY <1>4, <1>6, <1>9, <1>12, <2>1 DEF Nowhere
<1> QED BY <1>11, <1>12

LEMMA PlacedConserved == StoreInv /\ PlaceInv => ObjectsConserved
<1> SUFFICES ASSUME StoreInv, PlaceInv PROVE ObjectsConserved
  OBVIOUS
<1> DEFINE held == UNION {ToSet(objs[s]) : s \in Buckets}
           offered == UNION {ToSet(offer[o[1]][o[2]]) : o \in Offers}
<1>1. made \in Nat /\ Placed(objs, offer, taken, dropped, made)
  BY DEF PlaceInv
<1>2. \A n \in 1..made : Cardinality(InStores(n)) + Cardinality(InOffers(n)) + Cardinality(Gone(n)) = 1
  BY <1>1, PlacedCounts
<1>3. ~failed => \A s \in Buckets : mode[s] = "objects" => Len(objs[s]) = level[s]
  BY DEF StoreInv, ObjInv, LevelsOK
<1>4. ASSUME NEW n
      PROVE  /\ n \in held <=> \E b, k : InStore(objs, n, b, k)
             /\ n \in offered <=> \E b, q, k : InOffer(offer, n, b, q, k)
  <2>1. n \in held <=> \E b, k : InStore(objs, n, b, k)
    BY DEF ToSet, InStore
  <2>2. \A x : x \in Offers <=> \E b \in Buckets : \E q \in DOMAIN offer[b] : x = <<b, q>>
    BY DEF Offers
  <2>3. n \in offered <=> \E o \in Offers : \E k \in DOMAIN offer[o[1]][o[2]] : offer[o[1]][o[2]][k] = n
    BY DEF ToSet
  <2> HIDE DEF offered
  <2>4. ASSUME n \in offered PROVE \E b, q, k : InOffer(offer, n, b, q, k)
    <3>1. PICK o \in Offers : \E k \in DOMAIN offer[o[1]][o[2]] : offer[o[1]][o[2]][k] = n
      BY <2>3, <2>4
    <3>2. PICK b \in Buckets : \E q \in DOMAIN offer[b] : o = <<b, q>>
      BY <2>2
    <3> QED BY <3>1, <3>2 DEF InOffer
  <2>5. ASSUME NEW b, NEW q, NEW k, InOffer(offer, n, b, q, k) PROVE n \in offered
    <3>1. <<b, q>> \in Offers
      BY <2>2, <2>5 DEF InOffer
    <3>2. PICK o : o = <<b, q>>
      OBVIOUS
    <3> QED BY <2>3, <2>5, <3>1, <3>2 DEF InOffer
  <2> QED BY <2>1, <2>4, <2>5
<1> HIDE DEF held, offered
<1>5. ASSUME NEW n
      PROVE  n \in held \cup offered \cup taken \cup dropped <=> n \in 1..made
  <2>1. CASE n \in 1..made
    <3>1. Somewhere(n, objs, offer, taken, dropped)
      BY <1>1, <2>1 DEF Placed
    <3> QED BY <1>4, <2>1, <3>1 DEF Somewhere, OneStore, OneOffer
  <2>2. CASE n \notin 1..made
    <3>1. Nowhere(n, objs, offer, taken, dropped)
      BY <1>1, <2>2 DEF Placed
    <3> QED BY <1>4, <2>2, <3>1 DEF Nowhere, NoStore, NoOffer
  <2> QED BY <2>1, <2>2
<1>6. held \cup offered \cup taken \cup dropped = 1..made
  BY <1>5
<1> QED BY <1>2, <1>3, <1>6 DEF ObjectsConserved, held, offered

\* No object of a store is lost or delivered twice: as put() and get() move them, each
\* one is in one store, on offer by one producer that waits, with a consumer, or
\* withdrawn with its put, whatever fails, reneges or is killed.
THEOREM ObjectsAlwaysConserved == BucketAssumption /\ StoreSpec => []ObjectsConserved
<1>1. BucketAssumption /\ StoreSpec => []PlaceInv
  BY AlwaysBuckets, AlwaysStoreInv, InitPlaced, NextPlaced, PTL DEF StoreSpec
<1> QED BY <1>1, AlwaysStoreInv, PlacedConserved, PTL
=============================================================================
