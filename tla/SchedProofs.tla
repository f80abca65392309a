------------------------------ MODULE SchedProofs ------------------------------
(***************************************************************************)
(* Theorems about Sched, for every set of processes; and the lemmas about  *)
(* sequences and finite sets that the proofs about the facilities share:   *)
(* the members of a sequence, its length, that a sequence with no          *)
(* repetition stays one, and how a count changes.                          *)
(***************************************************************************)
EXTENDS Sched, FiniteSetTheorems, SequenceTheorems, TLAPS

-----------------------------------------------------------------------------
(* Sequences and counts *)

\* A process is appended to a queue that it is not in.
LEMMA AppendProps ==
  ASSUME NEW S, NEW s \in Seq(S), NEW x \in S
  PROVE  /\ Append(s, x) \in Seq(S)
         /\ Len(Append(s, x)) = Len(s) + 1
         /\ ToSet(Append(s, x)) = ToSet(s) \cup {x}
         /\ IsInjective(s) /\ x \notin ToSet(s) => IsInjective(Append(s, x))
<1> DEFINE a == Append(s, x)
<1>1. /\ a \in Seq(S) /\ Len(a) = Len(s) + 1 /\ DOMAIN a = 1..(Len(s) + 1)
      /\ \A i \in DOMAIN a : a[i] = IF i <= Len(s) THEN s[i] ELSE x
  OBVIOUS
<1>2. DOMAIN s = 1..Len(s) /\ Len(s) \in Nat
  OBVIOUS
<1> HIDE DEF a
<1>3. ToSet(a) = ToSet(s) \cup {x}
  <2>1. ASSUME NEW y \in ToSet(s) \cup {x} PROVE y \in ToSet(a)
    <3>1. CASE y = x
      BY <1>1, <1>2, <3>1 DEF ToSet
    <3>2. ASSUME NEW i \in DOMAIN s, y = s[i] PROVE y \in ToSet(a)
      BY <1>1, <1>2, <3>2 DEF ToSet
    <3> QED BY <2>1, <3>1, <3>2 DEF ToSet
  <2>2. ASSUME NEW i \in DOMAIN a PROVE a[i] \in ToSet(s) \cup {x}
    BY <1>1, <1>2 DEF ToSet
  <2> QED BY <2>1, <2>2 DEF ToSet
<1>4. ASSUME IsInjective(s), x \notin ToSet(s) PROVE IsInjective(a)
  BY <1>1, <1>2, <1>4 DEF IsInjective, ToSet
<1> QED BY <1>1, <1>3, <1>4 DEF a

\* A place is taken out of a sequence.
LEMMA RemoveAtProps ==
  ASSUME NEW S, NEW s \in Seq(S), NEW i \in 1..Len(s)
  PROVE  /\ RemoveAt(s, i) \in Seq(S)
         /\ Len(RemoveAt(s, i)) = Len(s) - 1
         /\ IsInjective(s) => /\ IsInjective(RemoveAt(s, i))
                              /\ ToSet(RemoveAt(s, i)) = ToSet(s) \ {s[i]}
<1> DEFINE r == RemoveAt(s, i)
           a == SubSeq(s, 1, i - 1)
           b == SubSeq(s, i + 1, Len(s))
<1>0. DOMAIN s = 1..Len(s) /\ Len(s) \in Nat
  OBVIOUS
<1>a. /\ a \in Seq(S) /\ Len(a) = i - 1
      /\ \A k \in 1..(i - 1) : a[k] = s[k]
  OBVIOUS
<1>b. /\ b \in Seq(S) /\ Len(b) = Len(s) - i
      /\ \A k \in 1..(Len(s) - i) : b[k] = s[i + k]
  OBVIOUS
<1>1. r = a \o b
  BY DEF RemoveAt
<1> HIDE DEF a, b
<1> HIDE DEF r
<1>2. /\ r \in Seq(S) /\ Len(r) = Len(s) - 1 /\ DOMAIN r = 1..(Len(s) - 1)
      /\ \A k \in DOMAIN r : r[k] = IF k < i THEN a[k] ELSE b[k - (i - 1)]
  <2>1. r \in Seq(S) /\ Len(r) = Len(a) + Len(b)
    BY <1>1, <1>a, <1>b, ConcatProperties
  <2>3. DOMAIN r = 1..(Len(a) + Len(b))
    BY <2>1
  <2>2. \A k \in 1..(Len(a) + Len(b)) : r[k] = IF k <= Len(a) THEN a[k] ELSE b[k - Len(a)]
    BY <1>1, <1>a, <1>b
  <2> QED BY <1>0, <1>a, <1>b, <2>1, <2>2, <2>3
<1>3. \A k \in DOMAIN r : r[k] = IF k < i THEN s[k] ELSE s[k + 1]
  <2> SUFFICES ASSUME NEW k \in DOMAIN r
               PROVE  r[k] = IF k < i THEN s[k] ELSE s[k + 1]
    OBVIOUS
  <2>1. CASE k < i
    BY <1>2, <1>a, <2>1
  <2>2. CASE ~(k < i)
    <3>1. k - (i - 1) \in 1..(Len(s) - i) /\ i + (k - (i - 1)) = k + 1
      BY <1>0, <1>2, <2>2
    <3> QED BY <1>2, <1>b, <2>2, <3>1
  <2> QED BY <2>1, <2>2
<1>4. ASSUME IsInjective(s) PROVE IsInjective(r)
  <2> SUFFICES ASSUME NEW j \in DOMAIN r, NEW k \in DOMAIN r, r[j] = r[k]
               PROVE  j = k
    BY DEF IsInjective
  <2> DEFINE at(n) == IF n < i THEN n ELSE n + 1
  <2>1. \A n \in DOMAIN r : at(n) \in DOMAIN s /\ r[n] = s[at(n)]
    BY <1>0, <1>2, <1>3
  <2>2. at(j) = at(k)
    BY <1>4, <2>1 DEF IsInjective
  <2> QED BY <1>2, <2>2
<1>5. ASSUME IsInjective(s) PROVE ToSet(r) = ToSet(s) \ {s[i]}
  <2>1. ASSUME NEW k \in DOMAIN r PROVE r[k] \in ToSet(s) \ {s[i]}
    <3>1. CASE k < i
      BY <1>0, <1>2, <1>3, <1>5, <3>1 DEF IsInjective, ToSet
    <3>2. CASE ~(k < i)
      <4>1. k + 1 \in DOMAIN s /\ k + 1 # i /\ r[k] = s[k + 1]
        BY <1>0, <1>2, <1>3, <3>2
      <4> QED BY <1>0, <1>5, <4>1 DEF IsInjective, ToSet
    <3> QED BY <3>1, <3>2
  <2>2. ASSUME NEW k \in DOMAIN s, k # i PROVE s[k] \in ToSet(r)
    <3>1. CASE k < i
      BY <1>0, <1>2, <1>3, <3>1 DEF ToSet
    <3>2. CASE ~(k < i)
      <4>1. k - 1 \in DOMAIN r /\ r[k - 1] = s[k]
        BY <1>0, <1>2, <1>3, <2>2, <3>2
      <4> QED BY <4>1 DEF ToSet
    <3> QED BY <3>1, <3>2
  <2> QED BY <2>1, <2>2 DEF ToSet
<1> QED BY <1>2, <1>4, <1>5 DEF r

\* A place is taken out of a sequence and the last one put there.
LEMMA SwapOutProps ==
  ASSUME NEW S, NEW s \in Seq(S), NEW i \in 1..Len(s)
  PROVE  LET r == Front([s EXCEPT ![i] = Last(s)])
         IN /\ r \in Seq(S)
            /\ Len(r) = Len(s) - 1
            /\ IsInjective(s) => IsInjective(r) /\ ToSet(r) = ToSet(s) \ {s[i]}
<1> DEFINE e == [s EXCEPT ![i] = s[Len(s)]]
           r == SubSeq(e, 1, Len(s) - 1)
<1>0. DOMAIN s = 1..Len(s) /\ Len(s) \in Nat /\ Len(s) >= 1
  OBVIOUS
<1>1. /\ e \in Seq(S) /\ Len(e) = Len(s) /\ DOMAIN e = 1..Len(s)
      /\ \A k \in 1..Len(s) : e[k] = IF k = i THEN s[Len(s)] ELSE s[k]
  OBVIOUS
<1> HIDE DEF e
<1>2. /\ r \in Seq(S) /\ Len(r) = Len(s) - 1 /\ DOMAIN r = 1..(Len(s) - 1)
      /\ \A k \in 1..(Len(s) - 1) : r[k] = e[k]
  BY <1>0, <1>1
<1>3. Front([s EXCEPT ![i] = Last(s)]) = r
  BY <1>1 DEF Front, Last, e
<1> HIDE DEF r
<1>4. ASSUME IsInjective(s) PROVE IsInjective(r)
  BY <1>0, <1>1, <1>2, <1>4 DEF IsInjective
<1>5. ASSUME IsInjective(s) PROVE ToSet(r) = ToSet(s) \ {s[i]}
  <2>1. ASSUME NEW k \in DOMAIN r PROVE r[k] \in ToSet(s) \ {s[i]}
    BY <1>0, <1>1, <1>2, <1>5 DEF IsInjective, ToSet
  <2>2. ASSUME NEW k \in 1..Len(s), k # i PROVE s[k] \in ToSet(r)
    <3>1. CASE k < Len(s)
      BY <1>0, <1>1, <1>2, <2>2, <3>1 DEF ToSet
    <3>2. CASE ~(k < Len(s))
      <4>1. i \in 1..(Len(s) - 1)
        BY <1>0, <2>2, <3>2
      <4>2. r[i] = s[k]
        BY <1>1, <1>2, <3>2, <4>1
      <4> QED BY <1>2, <4>1, <4>2 DEF ToSet
    <3> QED BY <1>0, <3>1, <3>2
  <2> QED BY <1>0, <2>1, <2>2 DEF ToSet
<1> QED BY <1>2, <1>3, <1>4, <1>5

\* The first place of a member is taken out; that of another one is not.
LEMMA RemoveFirstProps ==
  ASSUME NEW S, NEW s \in Seq(S), NEW x, IsInjective(s)
  PROVE  /\ RemoveFirst(s, x) \in Seq(S)
         /\ IsInjective(RemoveFirst(s, x))
         /\ ToSet(RemoveFirst(s, x)) = ToSet(s) \ {x}
         /\ Len(RemoveFirst(s, x)) = IF x \in ToSet(s) THEN Len(s) - 1 ELSE Len(s)
<1>0. DOMAIN s = 1..Len(s) /\ Len(s) \in Nat
  OBVIOUS
<1>1. CASE x \notin ToSet(s)
  <2>1. RemoveFirst(s, x) = s
    BY <1>0, <1>1 DEF RemoveFirst, ToSet
  <2> QED BY <1>1, <2>1
<1>2. CASE x \in ToSet(s)
  <2>1. PICK i \in 1..Len(s) : s[i] = x
    BY <1>0, <1>2 DEF ToSet
  <2>2. {k \in 1..Len(s) : s[k] = x} = {i}
    BY <1>0, <2>1 DEF IsInjective
  <2>3. Min({i}) = i
    BY DEF Min
  <2>4. SelectInSeq(s, LAMBDA v : v = x) = i
    BY <2>2, <2>3 DEF SelectInSeq
  <2>5. RemoveFirst(s, x) = RemoveAt(s, i)
    BY <2>1, <2>4 DEF RemoveFirst
  <2> DEFINE r == RemoveAt(s, i)
  <2>6. r \in Seq(S) /\ Len(r) = Len(s) - 1 /\ IsInjective(r) /\ ToSet(r) = ToSet(s) \ {s[i]}
    BY RemoveAtProps
  <2> HIDE DEF r
  <2>7. RemoveFirst(s, x) = r
    BY <2>5 DEF r
  <2> QED BY <1>2, <2>1, <2>6, <2>7
<1> QED BY <1>1, <1>2

\* A count changes by one when one member comes or goes.
LEMMA CountChanges ==
  ASSUME NEW A, NEW B, IsFiniteSet(A), NEW x, A \ {x} = B \ {x}
  PROVE  /\ IsFiniteSet(B) /\ Cardinality(A) \in Nat /\ Cardinality(B) \in Nat
         /\ Cardinality(B) + (IF x \in A THEN 1 ELSE 0)
              = Cardinality(A) + (IF x \in B THEN 1 ELSE 0)
<1> DEFINE C == A \ {x}
<1>1. IsFiniteSet(C) /\ Cardinality(C) \in Nat
  BY FS_Subset, FS_CardinalityType
<1>2. ASSUME NEW D, D \ {x} = C
      PROVE  IsFiniteSet(D) /\ Cardinality(D) = Cardinality(C) + (IF x \in D THEN 1 ELSE 0)
  <2>1. x \notin C
    OBVIOUS
  <2> HIDE DEF C
  <2>2. CASE x \in D
    <3>1. D = C \cup {x}
      BY <1>2, <2>2
    <3> QED BY <1>1, <2>1, <2>2, <3>1, FS_AddElement
  <2>3. CASE x \notin D
    <3>1. D = C
      BY <1>2, <2>3
    <3> QED BY <1>1, <2>3, <3>1
  <2> QED BY <2>2, <2>3
<1>3. /\ Cardinality(A) = Cardinality(C) + (IF x \in A THEN 1 ELSE 0)
      /\ IsFiniteSet(B)
      /\ Cardinality(B) = Cardinality(C) + (IF x \in B THEN 1 ELSE 0)
  BY <1>2
<1> HIDE DEF C
<1> QED BY <1>1, <1>3, FS_CardinalityType

-----------------------------------------------------------------------------
(* The scheduler *)

\* The main program, the loop and the handlers are not processes.
LEMMA ProcsApart == Procs \cap NoProc = {}
BY ProcsAssumption DEF ProcsOK

\* A batch is a sequence of distinct members of the set.
LEMMA BatchProps ==
  ASSUME NEW q \in Batches(Procs)
  PROVE  /\ q \in Seq(Procs)
         /\ ToSet(q) \subseteq Procs
         /\ \A i, j \in DOMAIN q : q[i] = q[j] => i = j
<1>1. PICK n \in 0..Cardinality(Procs) : q \in [1..n -> Procs]
  BY DEF Batches
<1> QED BY <1>1 DEF Batches, ToSet

\* The batches of one process and of none, with which Fire wakes a process.
LEMMA OneProps ==
  ASSUME NEW p \in Procs
  PROVE  /\ <<p>> \in Seq(Procs) /\ ToSet(<<p>>) = {p}
         /\ <<>> \in Seq(Procs) /\ ToSet(<<>>) = {}
BY DEF ToSet

\* The members of a sequence that is appended to, and of one that is taken from.
LEMMA AppendSet ==
  ASSUME NEW s \in Seq(Procs), NEW q \in Seq(Procs)
  PROVE  ToSet(s \o q) = ToSet(s) \cup ToSet(q)
<1>1. ASSUME NEW x \in ToSet(s) \cup ToSet(q) PROVE x \in ToSet(s \o q)
  <2>1. CASE x \in ToSet(s)
    <3>1. PICK i \in 1..Len(s) : s[i] = x
      BY <2>1 DEF ToSet
    <3> QED BY <3>1 DEF ToSet
  <2>2. CASE x \in ToSet(q)
    <3>1. PICK i \in 1..Len(q) : q[i] = x
      BY <2>2 DEF ToSet
    <3>2. Len(s) + i \in 1..Len(s \o q) /\ (s \o q)[Len(s) + i] = x
      BY <3>1
    <3> QED BY <3>2 DEF ToSet
  <2> QED BY <1>1, <2>1, <2>2
<1>2. ASSUME NEW x \in ToSet(s \o q) PROVE x \in ToSet(s) \cup ToSet(q)
  <2>1. PICK i \in 1..Len(s \o q) : (s \o q)[i] = x
    BY <1>2 DEF ToSet
  <2>2. CASE i <= Len(s)
    BY <2>1, <2>2 DEF ToSet
  <2>3. CASE i > Len(s)
    <3>1. i - Len(s) \in 1..Len(q) /\ q[i - Len(s)] = x
      BY <2>1, <2>3
    <3> QED BY <3>1 DEF ToSet
  <2> QED BY <2>1, <2>2, <2>3
<1> QED BY <1>1, <1>2

Distinct(s) == \A i, j \in DOMAIN s : s[i] = s[j] => i = j

\* Appending distinct processes that are not in the queue keeps it distinct.
LEMMA AppendDistinct ==
  ASSUME NEW s \in Seq(Procs), NEW q \in Seq(Procs), Distinct(s), Distinct(q),
         ToSet(s) \cap ToSet(q) = {}
  PROVE  Distinct(s \o q)
<1> SUFFICES ASSUME NEW i \in 1..Len(s \o q), NEW j \in 1..Len(s \o q),
                    (s \o q)[i] = (s \o q)[j]
             PROVE  i = j
  BY DEF Distinct
<1>1. ASSUME NEW k \in 1..Len(s \o q)
      PROVE  \/ k \in 1..Len(s) /\ (s \o q)[k] = s[k] /\ s[k] \in ToSet(s)
             \/ /\ k - Len(s) \in 1..Len(q)
                /\ (s \o q)[k] = q[k - Len(s)] /\ q[k - Len(s)] \in ToSet(q)
  BY DEF ToSet
<1>2. CASE i <= Len(s) /\ j <= Len(s)
  BY <1>2 DEF Distinct
<1>3. CASE i > Len(s) /\ j > Len(s)
  <2>1. q[i - Len(s)] = q[j - Len(s)]
    BY <1>3
  <2> QED BY <1>3, <2>1 DEF Distinct
<1> QED BY <1>1, <1>2, <1>3

\* Taking the head off a queue.
LEMMA TailProps ==
  ASSUME NEW s \in Seq(Procs), s # <<>>, Distinct(s)
  PROVE  /\ Tail(s) \in Seq(Procs) /\ Head(s) \in Procs
         /\ Distinct(Tail(s))
         /\ ToSet(s) = ToSet(Tail(s)) \cup {Head(s)}
         /\ Head(s) \notin ToSet(Tail(s))
<1>1. \A i \in DOMAIN Tail(s) : i + 1 \in DOMAIN s /\ Tail(s)[i] = s[i + 1]
  OBVIOUS
<1>2. 1 \in DOMAIN s /\ Head(s) = s[1]
  OBVIOUS
<1>3. Distinct(Tail(s))
  BY <1>1 DEF Distinct
<1>4. Head(s) \notin ToSet(Tail(s))
  BY <1>1, <1>2 DEF Distinct, ToSet
<1>5. ToSet(Tail(s)) \cup {Head(s)} \subseteq ToSet(s)
  BY <1>1, <1>2 DEF ToSet
<1>6. ASSUME NEW i \in DOMAIN s PROVE s[i] \in ToSet(Tail(s)) \cup {Head(s)}
  <2>1. CASE i = 1
    BY <2>1, <1>2
  <2>2. CASE i # 1
    <3>1. i - 1 \in DOMAIN Tail(s) /\ Tail(s)[i - 1] = s[i]
      BY <2>2
    <3> QED BY <3>1 DEF ToSet
  <2> QED BY <2>1, <2>2
<1>7. ToSet(s) \subseteq ToSet(Tail(s)) \cup {Head(s)}
  BY <1>6 DEF ToSet
<1> QED BY <1>3, <1>4, <1>5, <1>7

-----------------------------------------------------------------------------

\* Every place of a finite set of numbers has its rank, and every rank its place.
LEMMA NthProps ==
  ASSUME NEW I, I \subseteq Int, IsFiniteSet(I)
  PROVE  /\ Cardinality(I) \in Nat
         /\ \A k \in 1..Cardinality(I) : Nth(I, k) \in I
         /\ \A k, l \in 1..Cardinality(I) : Nth(I, k) = Nth(I, l) => k = l
         /\ \A i \in I : \E k \in 1..Cardinality(I) : Nth(I, k) = i
         /\ I # {} => Nth(I, 1) \in I /\ \A j \in I : ~(j < Nth(I, 1))
<1> DEFINE below(i) == {j \in I : j < i}
           n == Cardinality(I)
           rank == [i \in I |-> Cardinality(below(i)) + 1]
<1>1. n \in Nat /\ IsFiniteSet(1..n) /\ Cardinality(1..n) = n
  BY FS_CardinalityType, FS_Interval
\* A place and those below it are not more than any set that holds them.
<1>2. ASSUME NEW i \in I, NEW X \in SUBSET I, below(i) \cup {i} \subseteq X
      PROVE  /\ Cardinality(below(i)) \in Nat /\ Cardinality(X) \in Nat
             /\ Cardinality(below(i)) + 1 <= Cardinality(X)
  <2>1. IsFiniteSet(X) /\ IsFiniteSet(below(i))
    BY FS_Subset
  <2>2. Cardinality(below(i) \cup {i}) = Cardinality(below(i)) + 1
    <3>1. i \notin below(i)
      OBVIOUS
    <3> HIDE DEF below
    <3> QED BY <2>1, <3>1, FS_AddElement
  <2>3. Cardinality(below(i) \cup {i}) <= Cardinality(X)
    BY <1>2, <2>1, FS_Subset
  <2> HIDE DEF below
  <2> QED BY <2>1, <2>2, <2>3, FS_CardinalityType
<1>r. /\ \A i \in I : rank[i] = Cardinality(below(i)) + 1
      /\ DOMAIN rank = I
      /\ rank \in [I -> {rank[i] : i \in I}]
  OBVIOUS
<1> HIDE DEF rank
<1>3. ASSUME NEW i \in I, NEW m \in I, i < m
      PROVE  rank[i] < rank[m]
  <2>1. below(i) \cup {i} \subseteq below(m)
    <3>1. ASSUME NEW j \in I, j < i PROVE j < m
      <4>1. i \in Int /\ m \in Int /\ j \in Int
        OBVIOUS
      <4> QED BY <1>3, <3>1, <4>1
    <3> QED BY <1>3, <3>1
  <2>2. below(m) \in SUBSET I
    OBVIOUS
  <2>3. Cardinality(below(i)) \in Nat /\ Cardinality(below(m)) \in Nat
        /\ Cardinality(below(i)) + 1 <= Cardinality(below(m))
    BY <1>2, <2>1, <2>2
  <2> HIDE DEF below
  <2> QED BY <1>r, <2>3
<1>4. ASSUME NEW i \in I PROVE rank[i] \in 1..n /\ Cardinality(below(i)) \in Nat
  <2>1. /\ Cardinality(below(i)) \in Nat
        /\ Cardinality(below(i)) + 1 <= n
    BY <1>2
  <2> HIDE DEF below, n
  <2> QED BY <1>r, <1>1, <2>1
<1>5. rank \in Injection(I, 1..n)
  <2>1. rank \in [I -> 1..n]
    BY <1>4, <1>r
  <2>2. ASSUME NEW i \in I, NEW m \in I, rank[i] = rank[m] PROVE i = m
    <3>0. rank[i] \in 1..n
      BY <1>4
    <3>1. rank[i] \in Int /\ i \in Int /\ m \in Int
      BY <1>1, <3>0
    <3>2. ~(i < m) /\ ~(m < i)
      BY <1>3, <2>2, <3>1
    <3> QED BY <3>1, <3>2
  <2> QED BY <2>1, <2>2 DEF Injection, IsInjective
<1>6. rank \in Surjection(I, 1..n)
  BY <1>1, <1>5, FS_Injection
<1>7. ASSUME NEW k \in 1..n
      PROVE  /\ Nth(I, k) \in I
             /\ rank[Nth(I, k)] = k
             /\ \A i \in I : rank[i] = k => Nth(I, k) = i
  <2>1. PICK i \in I : rank[i] = k
    BY <1>6 DEF Surjection
  <2>2. Cardinality(below(i)) = k - 1
    <3> HIDE DEF below
    <3> QED BY <1>r, <1>4, <2>1
  <2>3. Nth(I, k) \in I /\ Cardinality(below(Nth(I, k))) = k - 1
    BY <2>2 DEF Nth
  <2>4. rank[Nth(I, k)] = k
    <3> HIDE DEF below
    <3> QED BY <1>r, <1>4, <2>3
  <2> QED BY <1>5, <2>3, <2>4 DEF Injection, IsInjective
<1>8. ASSUME NEW i \in I PROVE \E k \in 1..n : Nth(I, k) = i
  BY <1>4, <1>7
<1>9. ASSUME I # {} PROVE Nth(I, 1) \in I /\ \A j \in I : ~(j < Nth(I, 1))
  <2> DEFINE m == Nth(I, 1)
  <2>1. n >= 1 /\ 1 \in 1..n
    <3>1. PICK i \in I : TRUE
      BY <1>9
    <3>2. PICK k \in 1..n : Nth(I, k) = i
      BY <1>8
    <3> HIDE DEF n
    <3> QED BY <1>1, <3>2
  <2>2. m \in I /\ rank[m] = 1
    BY <1>7, <2>1
  <2>3. rank[m] = Cardinality(below(m)) + 1 /\ Cardinality(below(m)) \in Nat
    BY <1>r, <1>4, <2>2
  <2>4. Cardinality(below(m)) = 0
    <3> HIDE DEF below, m
    <3> QED BY <2>2, <2>3
  <2>5. IsFiniteSet(below(m))
    BY FS_Subset
  <2>6. below(m) = {}
    <3> HIDE DEF below, m
    <3> QED BY <2>4, <2>5, FS_EmptySet
  <2> QED BY <2>2, <2>6
<1> QED BY <1>1, <1>7, <1>8, <1>9

\* A part of a sequence, at a set of its places.
LEMMA AtPlacesProps ==
  ASSUME NEW S, NEW s \in Seq(S), NEW I \in SUBSET DOMAIN s
  PROVE  /\ AtPlaces(s, I) \in Seq(S)
         /\ Len(AtPlaces(s, I)) = Cardinality(I)
         /\ ToSet(AtPlaces(s, I)) = {s[i] : i \in I}
         /\ (\A i, j \in I : s[i] = s[j] => i = j) => IsInjective(AtPlaces(s, I))
<1> DEFINE n == Cardinality(I)
           a == AtPlaces(s, I)
<1>1. IsFiniteSet(I) /\ I \subseteq Int
  <2>1. DOMAIN s = 1..Len(s) /\ Len(s) \in Nat
    OBVIOUS
  <2>2. IsFiniteSet(DOMAIN s)
    BY <2>1, FS_Interval
  <2> QED BY <2>1, <2>2, FS_Subset
<1>2. /\ n \in Nat
      /\ \A k \in 1..n : Nth(I, k) \in I
      /\ \A k, l \in 1..n : Nth(I, k) = Nth(I, l) => k = l
      /\ \A i \in I : \E k \in 1..n : Nth(I, k) = i
  BY <1>1, NthProps
<1>3. a = [k \in 1..n |-> s[Nth(I, k)]]
  BY DEF AtPlaces
<1> HIDE DEF a, n
<1>4. \A k \in 1..n : a[k] = s[Nth(I, k)] /\ a[k] \in S
  BY <1>2, <1>3
<1>5. a \in Seq(S) /\ Len(a) = n /\ DOMAIN a = 1..n
  BY <1>2, <1>3, <1>4
<1>6. ToSet(a) = {s[i] : i \in I}
  BY <1>2, <1>4, <1>5 DEF ToSet
<1>7. ASSUME \A i, j \in I : s[i] = s[j] => i = j PROVE IsInjective(a)
  BY <1>2, <1>4, <1>5, <1>7 DEF IsInjective
<1> QED BY <1>5, <1>6, <1>7 DEF a, n
\* What a run of activate() calls moves: distinct processes, those of the
\* sequence that may be woken up, as a batch of the scheduler.
LEMMA WokenProps ==
  ASSUME ProcsOK, NEW states \in [Procs -> States], NEW s \in Seq(Procs)
  PROVE  /\ Woken(states, s) \in Batches(Procs)
         /\ Woken(states, s) \in Seq(Procs)
         /\ IsInjective(Woken(states, s))
         /\ CanWake(states, Woken(states, s))
         /\ ToSet(Woken(states, s)) = {p \in ToSet(s) : states[p] \in Wakeable}
<1> DEFINE I == {i \in DOMAIN s : /\ states[s[i]] \in Wakeable
                                  /\ \A j \in 1..(i - 1) : s[j] # s[i]}
           w == AtPlaces(s, I)
<1>0. DOMAIN s = 1..Len(s) /\ Len(s) \in Nat
  OBVIOUS
<1>1. ASSUME NEW i \in I, NEW j \in I, s[i] = s[j] PROVE i = j
  BY <1>0, <1>1
<1>2. /\ w \in Seq(Procs) /\ Len(w) = Cardinality(I)
      /\ ToSet(w) = {s[i] : i \in I}
      /\ IsInjective(w)
  <2>1. I \in SUBSET DOMAIN s
    OBVIOUS
  <2> HIDE DEF I
  <2> QED BY <1>1, <2>1, AtPlacesProps
<1>3. ASSUME NEW p \in ToSet(s), states[p] \in Wakeable PROVE p \in ToSet(w)
  <2> DEFINE J == {i \in DOMAIN s : s[i] = p}
             m == Nth(J, 1)
  <2>1. J # {}
    BY DEF ToSet
  <2>2. J \subseteq Int /\ IsFiniteSet(J)
    <3>1. IsFiniteSet(1..Len(s)) /\ J \subseteq 1..Len(s)
      BY <1>0, FS_Interval
    <3>2. IsFiniteSet(J)
      BY <3>1, FS_Subset
    <3> QED BY <1>0, <3>1, <3>2
  <2>3. m \in J /\ \A j \in J : ~(j < m)
    <3> HIDE DEF J
    <3> QED BY <2>1, <2>2, NthProps
  <2>4. m \in I
    <3>1. ASSUME NEW j \in 1..(m - 1) PROVE s[j] # s[m]
      <4>1. j \in DOMAIN s /\ j < m
        BY <1>0, <2>3
      <4> HIDE DEF m
      <4> QED BY <2>3, <4>1
    <3> QED BY <1>3, <2>3, <3>1
  <2> QED BY <1>2, <2>3, <2>4
<1>4. ToSet(w) = {p \in ToSet(s) : states[p] \in Wakeable}
  BY <1>2, <1>3 DEF ToSet
<1>5. w \in Batches(Procs)
  <2> HIDE DEF w
  <2> DEFINE n == Len(w)
  <2>0. w \in Seq(Procs)
    BY <1>2
  <2>1. n \in Nat /\ DOMAIN w = 1..n /\ w \in [1..n -> Procs]
    BY <2>0
  <2>2. w \in Injection(1..n, Procs)
    BY <1>2, <2>1 DEF Injection, IsInjective
  <2>3. IsFiniteSet(Procs)
    BY DEF ProcsOK
  <2>4. Cardinality(1..n) <= Cardinality(Procs) /\ Cardinality(1..n) = n
    <3> HIDE DEF n
    <3>1. Cardinality(1..n) <= Cardinality(Procs)
      BY <2>2, <2>3, FS_Injection
    <3>2. Cardinality(1..n) = n
      BY <2>1, FS_Interval
    <3> QED BY <3>1, <3>2
  <2>5. n \in 0..Cardinality(Procs)
    BY <2>1, <2>3, <2>4, FS_CardinalityType
  <2> HIDE DEF n
  <2> QED BY <1>2, <2>1, <2>5 DEF Batches, IsInjective
<1>6. Woken(states, s) = w
  BY DEF Woken
<1>7. CanWake(states, w)
  BY <1>4 DEF CanWake
<1> HIDE DEF w
<1> QED BY <1>2, <1>4, <1>5, <1>6, <1>7

\* The batch of nobody, which is woken up in every state.
LEMMA WokenNone ==
  ASSUME ProcsOK
  PROVE  /\ <<>> \in Batches(Procs) /\ <<>> \in Seq(Procs)
         /\ ToSet(<<>>) = {} /\ \A states : CanWake(states, <<>>)
<1>1. 0 \in 0..Cardinality(Procs)
  BY FS_CardinalityType DEF ProcsOK
<1>2. <<>> \in [1..0 -> Procs] /\ \A i \in DOMAIN <<>> : FALSE
  OBVIOUS
<1>3. <<>> \in Batches(Procs)
  BY <1>1, <1>2 DEF Batches
<1>4. ToSet(<<>>) = {} /\ <<>> \in Seq(Procs)
  BY DEF ToSet
<1> QED BY <1>3, <1>4 DEF CanWake

\* One process is woken up if it is asleep, and left alone if not.
LEMMA WokenOne ==
  ASSUME ProcsOK, NEW states \in [Procs -> States], NEW p \in Procs
  PROVE  /\ Woken(states, <<p>>) \in Batches(Procs)
         /\ CanWake(states, Woken(states, <<p>>))
         /\ ToSet(Woken(states, <<p>>)) = {q \in {p} : states[q] \in Wakeable}
<1>1. <<p>> \in Seq(Procs) /\ ToSet(<<p>>) = {p}
  BY DEF ToSet
<1> QED BY <1>1, WokenProps

-----------------------------------------------------------------------------

\* The inductive invariant.
IInv == TypeOK /\ QueuedOnce /\ RunningIsReady

\* Waking a batch up: its processes are made ready and running, no process
\* comes into the queue twice, and the others keep the given states.
LEMMA WakeProps ==
  ASSUME NEW states \in [Procs -> States], NEW q \in Seq(Procs), Distinct(q),
         readyq \in Seq(Procs), Distinct(readyq),
         \A p \in ToSet(readyq) : states[p] \in {"running", "terminated"},
         CanWake(states, q), Wake(states, q)
  PROVE  /\ st' \in [Procs -> States]
         /\ readyq' \in Seq(Procs) /\ Distinct(readyq')
         /\ ToSet(readyq') = ToSet(readyq) \cup ToSet(q)
         /\ \A p \in Procs : st'[p] = IF p \in ToSet(q) THEN "running" ELSE states[p]
<1>1. ToSet(readyq) \cap ToSet(q) = {}
  BY DEF CanWake, Wakeable
<1>2. readyq' = readyq \o q
  BY DEF Wake
<1>3. readyq' \in Seq(Procs) /\ Distinct(readyq')
  BY <1>1, <1>2, AppendDistinct
<1>4. ToSet(readyq') = ToSet(readyq) \cup ToSet(q)
  BY <1>2, AppendSet
<1> QED BY <1>3, <1>4 DEF Wake, States

\* A step that wakes a batch up keeps the invariant, provided the states it
\* starts from agree with the queue and with whom it gives the control to.
LEMMA WakeIInv ==
  ASSUME TypeOK, NEW states \in [Procs -> States], NEW q \in Seq(Procs), Distinct(q),
         Distinct(readyq), cur \notin ToSet(readyq),
         \A p \in ToSet(readyq) \cup ({cur'} \cap Procs) :
           states[p] \in {"running", "terminated"},
         \A p \in Procs : states[p] = "running" => p = cur' \/ p \in ToSet(readyq),
         CanWake(states, q), Wake(states, q),
         cur' = cur \/ cur' \in NoProc
  PROVE  IInv'
<1>1. /\ st' \in [Procs -> States]
      /\ readyq' \in Seq(Procs) /\ Distinct(readyq')
      /\ ToSet(readyq') = ToSet(readyq) \cup ToSet(q)
      /\ \A p \in Procs : st'[p] = IF p \in ToSet(q) THEN "running" ELSE states[p]
  BY WakeProps DEF TypeOK
<1>2. ToSet(readyq) \subseteq Procs /\ ToSet(q) \subseteq Procs
  BY DEF TypeOK, ToSet
<1>3. \A p \in ToSet(q) : states[p] \in {"started", "suspended"}
  BY DEF CanWake, Wakeable
<1>4. TypeOK'
  BY <1>1 DEF TypeOK
<1>5. cur' \notin ToSet(readyq')
  BY <1>1, <1>2, <1>3, ProcsApart
<1>6. QueuedOnce'
  BY <1>1, <1>5 DEF QueuedOnce, Distinct
<1>7. RunningIsReady'
  BY <1>1, <1>2, <1>3 DEF RunningIsReady
<1> QED BY <1>4, <1>6, <1>7 DEF IInv

\* It holds at first.
LEMMA InitIInv == Init => IInv
BY ProcsApart DEF Init, IInv, TypeOK, QueuedOnce, RunningIsReady, States, NoProc, ToSet

\* What the invariant says, in the terms of the lemmas.
LEMMA IInvFacts ==
  ASSUME IInv
  PROVE  /\ TypeOK /\ st \in [Procs -> States] /\ readyq \in Seq(Procs)
         /\ Distinct(readyq) /\ cur \notin ToSet(readyq)
         /\ ToSet(readyq) \subseteq Procs
         /\ \A p \in ToSet(readyq) \cup ({cur} \cap Procs) :
              st[p] \in {"running", "terminated"}
         /\ \A p \in Procs : st[p] = "running" => p = cur \/ p \in ToSet(readyq)
BY DEF IInv, TypeOK, QueuedOnce, RunningIsReady, Distinct, ToSet

\* Every step of the scheduler keeps the invariant.
LEMMA NextIInv == IInv /\ [Next]_vars => IInv'
<1> SUFFICES ASSUME IInv, [Next]_vars PROVE IInv'
  OBVIOUS
<1>f. /\ TypeOK /\ st \in [Procs -> States] /\ readyq \in Seq(Procs)
      /\ Distinct(readyq) /\ cur \notin ToSet(readyq)
      /\ ToSet(readyq) \subseteq Procs
      /\ \A p \in ToSet(readyq) \cup ({cur} \cap Procs) :
           st[p] \in {"running", "terminated"}
      /\ \A p \in Procs : st[p] = "running" => p = cur \/ p \in ToSet(readyq)
  BY IInvFacts
\* A step that only hands the control on between the loop and its callers.
<1>1. ASSUME cur \in NoProc, cur' \in NoProc, UNCHANGED <<st, readyq>> PROVE IInv'
  BY <1>f, <1>1, ProcsApart DEF IInv, TypeOK, QueuedOnce, RunningIsReady, Distinct
<1>2. CASE RunBegin \/ RunEnd \/ HandlerReturn \/ DrainEnd("pick") \/ DrainEnd("main")
  BY <1>1, <1>2 DEF RunBegin, RunEnd, HandlerReturn, DrainEnd, NoProc
<1>3. CASE Dispatch
  <2>1. /\ Tail(readyq) \in Seq(Procs) /\ Head(readyq) \in Procs
        /\ Distinct(Tail(readyq))
        /\ ToSet(readyq) = ToSet(Tail(readyq)) \cup {Head(readyq)}
        /\ Head(readyq) \notin ToSet(Tail(readyq))
    BY <1>3, <1>f, TailProps DEF Dispatch
  <2>2. /\ readyq' = Tail(readyq) /\ st' = st
        /\ cur = "drain" /\ cur \notin Procs
        /\ cur' = IF st[Head(readyq)] = "running" THEN Head(readyq) ELSE "drain"
    BY <1>3, ProcsApart DEF Dispatch, NoProc
  <2>3. TypeOK'
    BY <1>f, <2>1, <2>2 DEF TypeOK, NoProc
  <2>4. QueuedOnce'
    BY <1>f, <2>1, <2>2 DEF QueuedOnce, Distinct
  <2>5. RunningIsReady'
    BY <1>f, <2>1, <2>2 DEF RunningIsReady
  <2> QED BY <2>3, <2>4, <2>5 DEF IInv
<1>4. ASSUME NEW p \in Procs, Fire(p) PROVE IInv'
  <2>1. /\ cur = "pick" /\ cur' = "drain" /\ cur \notin Procs /\ cur' \notin Procs
        /\ cur' \in NoProc
    BY <1>4, ProcsApart DEF Fire, NoProc
  <2>2. CASE st[p] \in Wakeable
    <3>1. Wake(st, <<p>>) /\ CanWake(st, <<p>>) /\ Distinct(<<p>>)
      BY <1>4, <2>2, OneProps DEF Fire, CanWake, Distinct
    <3> QED BY <1>f, <2>1, <3>1, OneProps, WakeIInv
  <2>3. CASE st[p] \notin Wakeable
    <3>1. Wake(st, <<>>)
      BY <1>4, <2>3 DEF Fire
    <3>2. CanWake(st, <<>>)
      BY OneProps DEF CanWake
    <3>3. Distinct(<<>>)
      BY DEF Distinct
    <3> QED BY <1>f, <2>1, <3>1, <3>2, <3>3, OneProps, WakeIInv
  <2> QED BY <2>2, <2>3
<1>5. ASSUME NEW p \in Procs, Create(p) PROVE IInv'
  <2>1. p \notin ToSet(readyq) /\ p # cur
    BY <1>5, <1>f DEF Create
  <2> QED BY <1>5, <1>f, <2>1
          DEF Create, IInv, TypeOK, QueuedOnce, RunningIsReady, Distinct, States
<1>6. ASSUME NEW p \in Procs, Suspend(p) PROVE IInv'
  <2>1. p \notin ToSet(readyq) /\ p = cur /\ cur' = "drain" /\ cur' \notin Procs
    BY <1>6, <1>f, ProcsApart DEF Suspend, NoProc
  <2> QED BY <1>6, <1>f, <2>1
          DEF Suspend, IInv, TypeOK, QueuedOnce, RunningIsReady, Distinct, States, NoProc
<1>7. ASSUME NEW q \in Batches(Procs), CanWake(st, q), Handle(q) \/ Signal(q)
      PROVE  IInv'
  <2>1. q \in Seq(Procs) /\ Distinct(q) /\ Wake(st, q)
    BY <1>7, BatchProps DEF Distinct, Handle, Signal
  <2>2. CASE Handle(q)
    <3>1. cur = "pick" /\ cur' = "handler" /\ cur \notin Procs /\ cur' \notin Procs
          /\ cur' \in NoProc
      BY <2>2, ProcsApart DEF Handle, NoProc
    <3> QED BY <1>7, <1>f, <2>1, <3>1, WakeIInv
  <2>3. CASE Signal(q)
    <3>1. cur' = cur
      BY <2>3 DEF Signal
    <3> QED BY <1>7, <1>f, <2>1, <3>1, WakeIInv
  <2> QED BY <1>7, <2>2, <2>3
<1>8. ASSUME NEW p \in Procs, NEW q \in Batches(Procs),
             CanWake([st EXCEPT ![p] = "terminated"], q), Kill(p, q)
      PROVE  IInv'
  <2> DEFINE dead == [st EXCEPT ![p] = "terminated"]
  <2>1. q \in Seq(Procs) /\ Distinct(q)
    BY BatchProps DEF Distinct
  <2>2. Wake(dead, q) /\ CanWake(dead, q) /\ cur' = cur
    BY <1>8 DEF Kill
  <2>3. dead \in [Procs -> States]
        /\ \A r \in Procs : dead[r] = IF r = p THEN "terminated" ELSE st[r]
    BY <1>f DEF States
  <2> HIDE DEF dead
  <2> QED BY <1>f, <2>1, <2>2, <2>3, WakeIInv
<1>9. ASSUME NEW p \in Procs, NEW q \in Batches(Procs),
             CanWake([st EXCEPT ![p] = "terminated"], q), Terminate(p, q)
      PROVE  IInv'
  <2> DEFINE dead == [st EXCEPT ![p] = "terminated"]
  <2>1. q \in Seq(Procs) /\ Distinct(q)
    BY BatchProps DEF Distinct
  <2>2. cur = p /\ cur' = "drain" /\ cur' \in NoProc /\ cur' \notin Procs
    BY <1>9, ProcsApart DEF Terminate, NoProc
  <2>3. CASE Wake(dead, q)
    <3>1. CanWake(dead, q)
      BY <1>9
    <3>2. dead \in [Procs -> States]
          /\ \A r \in Procs : dead[r] = IF r = p THEN "terminated" ELSE st[r]
      BY <1>f DEF States
    <3> HIDE DEF dead
    <3> QED BY <1>f, <2>1, <2>2, <2>3, <3>1, <3>2, WakeIInv
  <2>4. CASE st[p] = "terminated" /\ UNCHANGED <<st, readyq>>
    BY <1>f, <2>2, <2>4 DEF IInv, TypeOK, QueuedOnce, RunningIsReady, Distinct
  <2> QED BY <1>9, <2>3, <2>4 DEF Terminate
<1>10. CASE UNCHANGED vars
  BY <1>10 DEF vars, IInv, TypeOK, QueuedOnce, RunningIsReady
<1> QED BY <1>2, <1>3, <1>4, <1>5, <1>6, <1>7, <1>8, <1>9, <1>10
        DEF Next, LoopStep, Yield

\* A process that is dead stays dead, and is not given the control.
LEMMA NextDeath ==
  ASSUME IInv, Next, NEW p \in Procs, st[p] = "terminated"
  PROVE  st'[p] = "terminated" /\ (cur' = p => cur = p)
<1>f. st \in [Procs -> States] /\ readyq \in Seq(Procs)
  BY IInvFacts
<1>1. ASSUME NEW q \in Seq(Procs), NEW states \in [Procs -> States],
             states[p] = "terminated", CanWake(states, q), Wake(states, q)
      PROVE  st'[p] = "terminated"
  BY <1>1 DEF CanWake, Wake, Wakeable
<1>2. CASE RunBegin \/ RunEnd \/ HandlerReturn \/ DrainEnd("pick") \/ DrainEnd("main")
  BY <1>2, ProcsApart DEF RunBegin, RunEnd, HandlerReturn, DrainEnd, NoProc
<1>3. CASE Dispatch
  BY <1>3, <1>f, ProcsApart DEF Dispatch, NoProc
<1>4. ASSUME NEW r \in Procs, Fire(r) PROVE st'[p] = "terminated" /\ cur' # p
  <2>1. cur' # p
    BY <1>4, ProcsApart DEF Fire, NoProc
  <2>2. CASE st[r] \in Wakeable
    <3>1. Wake(st, <<r>>) /\ CanWake(st, <<r>>)
      BY <1>4, <2>2, OneProps DEF Fire, CanWake
    <3> QED BY <1>f, <1>1, <2>1, <3>1, OneProps
  <2>3. CASE st[r] \notin Wakeable
    <3>1. Wake(st, <<>>)
      BY <1>4, <2>3 DEF Fire
    <3>2. CanWake(st, <<>>)
      BY OneProps DEF CanWake
    <3> QED BY <1>f, <1>1, <2>1, <3>1, <3>2, OneProps
  <2> QED BY <2>2, <2>3
<1>5. ASSUME NEW r \in Procs, Create(r) \/ Suspend(r)
      PROVE  st'[p] = "terminated" /\ (cur' = p => cur = p)
  BY <1>5, <1>f, ProcsApart DEF Create, Suspend, NoProc
<1>6. ASSUME NEW q \in Batches(Procs), CanWake(st, q), Handle(q) \/ Signal(q)
      PROVE  st'[p] = "terminated" /\ (cur' = p => cur = p)
  <2>1. Wake(st, q) /\ (cur' = p => cur = p)
    BY <1>6, ProcsApart DEF Handle, Signal, NoProc
  <2> QED BY <1>f, <1>1, <1>6, <2>1, BatchProps
<1>7. ASSUME NEW r \in Procs, NEW q \in Batches(Procs),
             CanWake([st EXCEPT ![r] = "terminated"], q), Kill(r, q) \/ Terminate(r, q)
      PROVE  st'[p] = "terminated" /\ (cur' = p => cur = p)
  <2> DEFINE dead == [st EXCEPT ![r] = "terminated"]
  <2>1. /\ Wake(dead, q) \/ UNCHANGED st
        /\ cur' = p => cur = p
    BY <1>7, ProcsApart DEF Kill, Terminate, NoProc
  <2>2. dead \in [Procs -> States] /\ dead[p] = "terminated" /\ CanWake(dead, q)
    BY <1>f, <1>7 DEF States
  <2> HIDE DEF dead
  <2> QED BY <1>1, <2>1, <2>2, BatchProps
<1> QED BY <1>2, <1>3, <1>4, <1>5, <1>6, <1>7 DEF Next, LoopStep, Yield

-----------------------------------------------------------------------------

\* The states, the queue and the control keep their types.
THEOREM TypeCorrect == Spec => []TypeOK
<1>1. IInv => TypeOK
  BY DEF IInv
<1> QED BY <1>1, InitIInv, NextIInv, PTL DEF Spec

\* No process is ever twice in the ready queue, or there while it runs.
THEOREM NeverQueuedTwice == Spec => []QueuedOnce
<1>1. IInv => QueuedOnce
  BY DEF IInv
<1> QED BY <1>1, InitIInv, NextIInv, PTL DEF Spec

\* Process states, ready queue and control always agree.
THEOREM NoWakeupLost == Spec => []RunningIsReady
<1>1. IInv => RunningIsReady
  BY DEF IInv
<1> QED BY <1>1, InitIInv, NextIInv, PTL DEF Spec

\* No dead process comes back to life or gets the control.
THEOREM DeadStayDead == Spec => DeathIsFinal
<1>1. IInv /\ [Next]_vars =>
        [\A p \in Procs : st[p] = "terminated" =>
           /\ st'[p] = "terminated"
           /\ cur' = p => cur = p]_vars
  BY NextDeath
<1> QED BY <1>1, InitIInv, NextIInv, PTL DEF Spec, DeathIsFinal
=============================================================================
