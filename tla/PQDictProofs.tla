----------------------------- MODULE PQDictProofs -----------------------------
(***************************************************************************)
(* Theorems about PQDict, for every set of events and every bound on the   *)
(* times: the entries of the array keep the heap order, the positions are  *)
(* those of the events, and the heap implements EventList, whose own       *)
(* theorems are at the end.  The proofs are about a state s of the array   *)
(* and the positions, and about times t, as the operators of the heap are. *)
(***************************************************************************)
EXTENDS PQDict, FiniteSetTheorems, WellFoundedInduction, TLAPS

-----------------------------------------------------------------------------
(* Recursion *)

\* A set that has 0 and the successor of every member has all natural numbers.
LEMMA AllNat ==
  ASSUME NEW G, 0 \in G, \A n \in Nat : n \in G => n + 1 \in G
  PROVE  \A n \in Nat : n \in G
<1> SUFFICES ASSUME NEW n \in Nat, n \notin G PROVE FALSE
  OBVIOUS
<1> DEFINE B == {m \in Nat : m \notin G}
           T == {0..m : m \in B}
           R == StrictSubsetOrdering(Nat)
<1>1. IsWellFoundedOn(R, FiniteSubsetsOf(Nat))
  BY FS_StrictSubsetOrderingWellFounded
<1>2. T \subseteq FiniteSubsetsOf(Nat) /\ T # {}
  <2>1. ASSUME NEW m \in B PROVE 0..m \subseteq Nat /\ IsFiniteSet(0..m)
    BY FS_Interval
  <2> QED BY <2>1 DEF FiniteSubsetsOf
<1>3. PICK x \in T : \A y \in T : ~(<<y, x>> \in R)
  <2> HIDE DEF T, R
  <2> QED BY <1>1, <1>2, WFMin
<1>4. PICK m \in B : x = 0..m
  BY <1>3
<1>5. m # 0 /\ m - 1 \in B
  <2>1. m # 0
    OBVIOUS
  <2>2. m - 1 \in Nat /\ (m - 1) + 1 = m
    BY <2>1
  <2> QED BY <2>1, <2>2
<1>6. 0..(m - 1) \in T /\ 0..(m - 1) \subseteq 0..m /\ 0..(m - 1) # 0..m
  BY <1>5
<1>7. <<0..(m - 1), 0..m>> \in R
  BY <1>6 DEF StrictSubsetOrdering
<1> QED BY <1>3, <1>4, <1>6, <1>7

\* A recursion on D: places in K go by what is at the place next[j], which has
\* a lower rank, the others have b[j].
Ranked(D, K, next, rank, N) ==
  /\ K \in SUBSET D /\ next \in [K -> D] /\ rank \in [D -> Nat] /\ N \in Nat
  /\ \A j \in K : rank[next[j]] < rank[j]
  /\ \A j \in D : rank[j] < N
Solves(f, D, K, V, next, g, b) ==
  /\ f \in [D -> V]
  /\ \A j \in D : f[j] = IF j \in K THEN g[<<j, f[next[j]]>>] ELSE b[j]

\* There is a function that is defined by such a recursion.
LEMMA Recursion ==
  ASSUME NEW D, NEW K, NEW V, NEW next, NEW rank, NEW N, Ranked(D, K, next, rank, N),
         NEW g \in [D \X V -> V], NEW b \in [D -> V]
  PROVE  \E f : Solves(f, D, K, V, next, g, b)
<1>0. /\ K \in SUBSET D /\ next \in [K -> D] /\ rank \in [D -> Nat] /\ N \in Nat
      /\ \A j \in K : rank[next[j]] < rank[j]
      /\ \A j \in D : rank[j] < N
  BY DEF Ranked
<1> USE <1>0
<1> DEFINE Fits(f, n) == \A j \in D : rank[j] < n =>
                           f[j] = IF j \in K THEN g[<<j, f[next[j]]>>] ELSE b[j]
           G == {n \in Nat : \E f \in [D -> V] : Fits(f, n)}
<1>1. 0 \in G
  OBVIOUS
<1>2. ASSUME NEW n \in Nat, n \in G PROVE n + 1 \in G
  <2>1. PICK f \in [D -> V] : Fits(f, n)
    BY <1>2
  <2> DEFINE h == [j \in D |-> IF rank[j] = n /\ j \in K THEN g[<<j, f[next[j]]>>]
                               ELSE IF rank[j] = n THEN b[j] ELSE f[j]]
  <2>2. h \in [D -> V]
    OBVIOUS
  <2>3. ASSUME NEW j \in D, rank[j] < n + 1
        PROVE  h[j] = IF j \in K THEN g[<<j, h[next[j]]>>] ELSE b[j]
    <3>1. j \in K => next[j] \in D /\ rank[next[j]] # n /\ h[next[j]] = f[next[j]]
      BY <2>3
    <3>2. CASE rank[j] = n
      BY <3>1, <3>2
    <3>3. CASE rank[j] # n
      <4>1. rank[j] < n
        BY <2>3, <3>3
      <4>2. h[j] = f[j]
        BY <3>3
      <4>3. f[j] = IF j \in K THEN g[<<j, f[next[j]]>>] ELSE b[j]
        BY <2>1, <4>1
      <4> QED BY <3>1, <4>2, <4>3
    <3> QED BY <3>2, <3>3
  <2>4. Fits(h, n + 1)
    BY <2>3
  <2> HIDE DEF h, Fits
  <2> QED BY <2>2, <2>4
<1>3. N \in G
  <2> HIDE DEF G
  <2> QED BY <1>1, <1>2, AllNat
<1> QED BY <1>3 DEF Solves

-----------------------------------------------------------------------------
(* The way up *)

\* The parent of a place is before it, and is one of two.
LEMMA ParentProps ==
  /\ Parent(0) \in Int /\ Parent(0) < 0
  /\ \A j \in Nat \ {0} : Parent(j) \in Nat /\ Parent(j) < j
  /\ \A j \in Nat : Parent(j) \in Int /\ Parent(j) < j
  /\ \A k \in Nat : Parent(2*k + 1) = k /\ Parent(2*k + 2) = k
  /\ \A j \in Nat \ {0} : j = 2 * Parent(j) + 1 \/ j = 2 * Parent(j) + 2
<1>1. Parent(0) \in Int /\ Parent(0) < 0
  <2>1. ASSUME NEW j \in Int, j = 0 PROVE Parent(j) \in Int /\ Parent(j) < 0
    <3>1. j - 1 \in Int /\ j - 1 < 0
      BY <2>1
    <3>2. \A x \in Int : x < 0 => x \div 2 \in Int /\ x \div 2 < 0
      OBVIOUS
    <3> QED BY <3>1, <3>2 DEF Parent
  <2> QED BY <2>1
<1>2. \A j \in Nat \ {0} : Parent(j) \in Nat /\ Parent(j) < j
  BY DEF Parent
<1>3. \A k \in Nat : Parent(2*k + 1) = k /\ Parent(2*k + 2) = k
  <2>1. ASSUME NEW k \in Nat PROVE (2*k + 1 - 1) \div 2 = k /\ (2*k + 2 - 1) \div 2 = k
    OBVIOUS
  <2> QED BY <2>1 DEF Parent
<1>4. \A j \in Nat \ {0} : j = 2 * Parent(j) + 1 \/ j = 2 * Parent(j) + 2
  BY DEF Parent
<1>5. \A j \in Nat : Parent(j) \in Int /\ Parent(j) < j
  BY <1>1, <1>2
<1> QED BY <1>1, <1>2, <1>3, <1>4, <1>5

\* P is the way from place j to an ancestor of it, on which places in C have a
\* next one, and the last one has not.
Climbs(P, C, j) ==
  /\ P \subseteq 0..j /\ j \in P
  /\ \A k \in P : k \in C <=> Parent(k) \in P
  /\ \A k \in P \ {j} : \E c \in P \cap C : Parent(c) = k
  /\ \A c, d \in P : Parent(c) = Parent(d) => c = d
  /\ \E k \in P : k \notin C
  /\ \A k \in P \ C : \A m \in P : k <= m
  /\ \A D : j \in D /\ (\A k \in D \cap C : Parent(k) \in D) => P \subseteq D

\* The way from a place to itself, and a longer one.
LEMMA ClimbSteps ==
  ASSUME NEW C \in SUBSET (Nat \ {0}), NEW j \in Nat
  PROVE  /\ j \notin C => Climbs({j}, C, j)
         /\ \A Q : j \in C /\ Climbs(Q, C, Parent(j)) => Climbs({j} \cup Q, C, j)
<1>1. ASSUME j \notin C PROVE Climbs({j}, C, j)
  BY <1>1, ParentProps DEF Climbs
<1>2. ASSUME NEW Q, j \in C, Climbs(Q, C, Parent(j)) PROVE Climbs({j} \cup Q, C, j)
  <2> DEFINE P == {j} \cup Q
             k == Parent(j)
  <2>1. k \in Nat /\ k < j
    BY <1>2, ParentProps
  <2>2. Q \subseteq 0..k /\ k \in Q /\ j \notin Q
    BY <1>2, <2>1 DEF Climbs
  <2>3. P \subseteq 0..j /\ j \in P
    BY <2>1, <2>2
  <2>4. \A m \in Q : m \in Nat /\ m <= k /\ Parent(m) \in Int /\ Parent(m) < m
    BY <2>2, ParentProps
  <2>5. ASSUME NEW m \in P PROVE m \in C <=> Parent(m) \in P
    <3>1. CASE m = j
      BY <1>2, <2>2, <3>1
    <3>2. CASE m \in Q
      <4>1. Parent(m) # j
        BY <2>1, <2>4, <3>2
      <4> QED BY <1>2, <3>2, <4>1 DEF Climbs
    <3> QED BY <3>1, <3>2
  <2>6. ASSUME NEW m \in P \ {j} PROVE \E c \in P \cap C : Parent(c) = m
    <3>1. CASE m = k
      BY <1>2, <3>1
    <3>2. CASE m # k
      BY <1>2, <2>6, <3>2 DEF Climbs
    <3> QED BY <3>1, <3>2
  <2>7. ASSUME NEW c \in P, NEW d \in P, Parent(c) = Parent(d) PROVE c = d
    <3>1. ASSUME NEW m \in Q PROVE Parent(m) # Parent(j)
      BY <2>1, <2>4
    <3>2. \A x, y \in Q : Parent(x) = Parent(y) => x = y
      BY <1>2 DEF Climbs
    <3> QED BY <2>7, <3>1, <3>2
  <2>8. \E m \in P : m \notin C
    BY <1>2 DEF Climbs
  <2>9. ASSUME NEW m \in P \ C, NEW o \in P PROVE m <= o
    <3>1. m \in Q
      BY <1>2, <2>9
    <3>2. CASE o = j
      BY <2>1, <2>4, <3>1, <3>2
    <3>3. CASE o \in Q
      BY <1>2, <2>9, <3>1, <3>3 DEF Climbs
    <3> QED BY <3>2, <3>3
  <2>10. ASSUME NEW D, j \in D, \A m \in D \cap C : Parent(m) \in D PROVE P \subseteq D
    <3>1. k \in D
      BY <1>2, <2>10
    <3>2. \A E : k \in E /\ (\A m \in E \cap C : Parent(m) \in E) => Q \subseteq E
      BY <1>2, Zenon DEF Climbs
    <3>3. Q \subseteq D
      BY <2>10, <3>1, <3>2
    <3> QED BY <2>10, <3>3
  <2> HIDE DEF P
  <2>11. Climbs(P, C, j)
    BY <2>3, <2>5, <2>6, <2>7, <2>8, <2>9, <2>10 DEF Climbs
  <2> QED BY <2>11 DEF P
<1> QED BY <1>1, <1>2

\* The recursive function of swim() gives the way up.
LEMMA Climbing ==
  ASSUME NEW C \in SUBSET (Nat \ {0}), NEW n \in Nat, NEW f,
         \A j \in 0..n : f[j] = IF j \in C THEN {j} \cup f[Parent(j)] ELSE {j}
  PROVE  \A j \in 0..n : Climbs(f[j], C, j)
<1> DEFINE G == {m \in Nat : \A j \in 0..n : j < m => Climbs(f[j], C, j)}
<1>1. 0 \in G
  OBVIOUS
<1>2. ASSUME NEW m \in Nat, m \in G PROVE m + 1 \in G
  <2>1. ASSUME NEW j \in 0..n, j < m + 1 PROVE Climbs(f[j], C, j)
    <3>0. j \in Nat /\ (j \in C => j \in Nat \ {0})
      OBVIOUS
    <3>1. f[j] = IF j \in C THEN {j} \cup f[Parent(j)] ELSE {j}
      OBVIOUS
    <3>2. CASE j \notin C
      <4>1. f[j] = {j}
        BY <3>1, <3>2
      <4>2. Climbs({j}, C, j)
        BY <3>0, <3>2, ClimbSteps
      <4> QED BY <4>1, <4>2
    <3>3. CASE j \in C
      <4>1. Parent(j) \in Nat /\ Parent(j) < j
        BY <3>0, <3>3, ParentProps
      <4>2. Parent(j) \in 0..n /\ Parent(j) < m
        BY <2>1, <3>0, <4>1
      <4>3. Climbs(f[Parent(j)], C, Parent(j))
        BY <1>2, <4>2
      <4>4. f[j] = {j} \cup f[Parent(j)]
        BY <3>1, <3>3
      <4>5. Climbs({j} \cup f[Parent(j)], C, j)
        BY <3>0, <3>3, <4>3, ClimbSteps
      <4> QED BY <4>4, <4>5
    <3> QED BY <3>2, <3>3
  <2> QED BY <2>1
<1>3. n + 1 \in G
  <2> HIDE DEF G
  <2>1. n + 1 \in Nat
    OBVIOUS
  <2> QED BY <1>1, <1>2, <2>1, AllNat
<1> QED BY <1>3

\* There is such a function.
LEMMA ClimbExists ==
  ASSUME NEW C \in SUBSET (Nat \ {0}), NEW n \in Nat
  PROVE  \E f : f = [j \in 0..n |-> IF j \in C THEN {j} \cup f[Parent(j)] ELSE {j}]
<1> DEFINE D == 0..n
           K == C \cap D
           V == SUBSET Nat
           next == [j \in K |-> Parent(j)]
           rank == [j \in D |-> j]
           g == [x \in D \X V |-> {x[1]} \cup x[2]]
           b == [j \in D |-> {j}]
<1>0. \A j \in K : j \in Nat \ {0} /\ Parent(j) \in D /\ Parent(j) < j
  <2>1. \A j \in K : j \in Nat \ {0} /\ j <= n
    OBVIOUS
  <2>2. \A j \in K : Parent(j) \in Nat /\ Parent(j) < j
    BY <2>1, ParentProps
  <2> QED BY <2>1, <2>2
<1>1. next \in [K -> D]
  BY <1>0
<1>2. Ranked(D, K, next, rank, n + 1)
  BY <1>0, <1>1 DEF Ranked
<1>3. g \in [D \X V -> V] /\ b \in [D -> V]
  OBVIOUS
<1>4. \E f : Solves(f, D, K, V, next, g, b)
  <2> HIDE DEF D, K, V, next, rank, g, b
  <2> QED BY <1>2, <1>3, Recursion
<1>5. PICK f \in [D -> V] : \A j \in D : f[j] = IF j \in K THEN g[<<j, f[next[j]]>>] ELSE b[j]
  BY <1>4 DEF Solves
<1>6. ASSUME NEW j \in D PROVE f[j] = IF j \in C THEN {j} \cup f[Parent(j)] ELSE {j}
  <2>1. CASE j \in C
    <3>1. j \in K /\ next[j] = Parent(j) /\ Parent(j) \in D
      BY <1>1, <2>1
    <3>2. g[<<j, f[Parent(j)]>>] = {j} \cup f[Parent(j)]
      BY <3>1
    <3> QED BY <1>5, <2>1, <3>1, <3>2
  <2>2. CASE j \notin C
    BY <1>5, <2>2
  <2> QED BY <2>1, <2>2
<1>7. f = [j \in D |-> IF j \in C THEN {j} \cup f[Parent(j)] ELSE {j}]
  <2> HIDE DEF D, V
  <2> QED BY <1>6
<1> QED BY <1>7

-----------------------------------------------------------------------------
(* The way down *)

\* F and l are the places on the way from top down to a leaf l, along the
\* children ch of the places K that have some, among n places.
Falls(F, l, n, K, ch, top) ==
  /\ F \in SUBSET K /\ l \in 0..n - 1 /\ l \notin K
  /\ top \in F \cup {l} /\ \A j \in F \cup {l} : top <= j
  /\ \A j \in F : ch[j] \in F \cup {l}
  /\ \A j \in F \cup {l} : j # top => Parent(j) \in F /\ ch[Parent(j)] = j

\* The places that have children, and the child that is chosen of each.
Children(n, K, ch) ==
  /\ n \in Nat /\ K \in SUBSET (0..n - 1) /\ ch \in [K -> 0..n - 1]
  /\ \A j \in K : j < ch[j] /\ Parent(ch[j]) = j

\* The way from a child, and the place above it.
LEMMA FallStep ==
  ASSUME NEW n, NEW K, NEW ch, Children(n, K, ch), NEW j \in K, NEW F, NEW l,
         Falls(F, l, n, K, ch, ch[j])
  PROVE  Falls({j} \cup F, l, n, K, ch, j)
<1> DEFINE E == {j} \cup F
           c == ch[j]
<1>1. j \in Nat /\ c \in Nat /\ j < c /\ Parent(c) = j /\ K \in SUBSET (0..n - 1)
  BY DEF Children
<1>2. F \in SUBSET K /\ l \in 0..n - 1 /\ l \notin K /\ c \in F \cup {l}
  BY DEF Falls
<1>3. \A k \in F \cup {l} : k \in Nat /\ c <= k
  BY <1>1, <1>2 DEF Falls, Children
<1>4. \A k \in E \cup {l} : j <= k
  BY <1>1, <1>3
<1>5. \A k \in E : ch[k] \in E \cup {l}
  BY <1>2 DEF Falls
<1>6. ASSUME NEW k \in E \cup {l}, k # j PROVE Parent(k) \in E /\ ch[Parent(k)] = k
  <2>1. CASE k = c
    BY <1>1, <2>1
  <2>2. CASE k # c
    <3>1. k \in F \cup {l}
      BY <1>6
    <3> QED BY <2>2, <3>1 DEF Falls
  <2> QED BY <2>1, <2>2
<1>7. E \in SUBSET K /\ j \in E
  BY <1>2
<1> HIDE DEF E
<1>8. Falls(E, l, n, K, ch, j)
  BY <1>2, <1>4, <1>5, <1>6, <1>7 DEF Falls
<1> QED BY <1>8 DEF E

\* The recursive functions of sink() give the way down.
LEMMA Falling ==
  ASSUME NEW n, NEW K, NEW ch, Children(n, K, ch), NEW leaf, NEW fall,
         \A j \in 0..n - 1 : leaf[j] = IF j \in K THEN leaf[ch[j]] ELSE j,
         \A j \in 0..n - 1 : fall[j] = IF j \in K THEN {j} \cup fall[ch[j]] ELSE {}
  PROVE  \A j \in 0..n - 1 : Falls(fall[j], leaf[j], n, K, ch, j)
<1> DEFINE G == {m \in Nat : \A j \in 0..n - 1 : n - j <= m => Falls(fall[j], leaf[j], n, K, ch, j)}
<1>0. n \in Nat /\ K \in SUBSET (0..n - 1) /\ ch \in [K -> 0..n - 1] /\ \A j \in K : j < ch[j]
  BY DEF Children
<1>1. 0 \in G
  BY <1>0
<1>2. ASSUME NEW m \in Nat, m \in G PROVE m + 1 \in G
  <2>1. ASSUME NEW j \in 0..n - 1, n - j <= m + 1 PROVE Falls(fall[j], leaf[j], n, K, ch, j)
    <3>1. CASE j \in K
      <4>1. ch[j] \in 0..n - 1 /\ n - ch[j] <= m
        BY <1>0, <2>1, <3>1
      <4>2. Falls(fall[ch[j]], leaf[ch[j]], n, K, ch, ch[j])
        BY <1>2, <4>1
      <4>3. fall[j] = {j} \cup fall[ch[j]] /\ leaf[j] = leaf[ch[j]]
        BY <3>1
      <4>4. Falls({j} \cup fall[ch[j]], leaf[ch[j]], n, K, ch, j)
        BY <3>1, <4>2, FallStep
      <4> QED BY <4>3, <4>4
    <3>2. CASE j \notin K
      <4>0. j \in Int /\ j <= j
        BY <1>0
      <4>1. fall[j] = {} /\ leaf[j] = j
        BY <3>2
      <4>2. Falls({}, j, n, K, ch, j)
        BY <1>0, <3>2, <4>0 DEF Falls
      <4> QED BY <4>1, <4>2
    <3> QED BY <3>1, <3>2
  <2> QED BY <2>1
<1>3. n \in G
  <2> HIDE DEF G
  <2> QED BY <1>0, <1>1, <1>2, AllNat
<1> QED BY <1>0, <1>3

FallOf(f, n, K, ch) == f = [j \in 0..n - 1 |-> IF j \in K THEN {j} \cup f[ch[j]] ELSE {}]

\* There are such functions.
LEMMA FallExists ==
  ASSUME NEW n, NEW K, NEW ch, Children(n, K, ch)
  PROVE  /\ \E f : f = [j \in 0..n - 1 |-> IF j \in K THEN f[ch[j]] ELSE j]
         /\ \E f : FallOf(f, n, K, ch)
<1> DEFINE D == 0..n - 1
           V == SUBSET D
           rank == [j \in D |-> n - j]
           gl == [x \in D \X D |-> x[2]]
           bl == [j \in D |-> j]
           gf == [x \in D \X V |-> {x[1]} \cup x[2]]
           bf == [j \in D |-> {}]
<1>0. n \in Nat /\ K \in SUBSET D /\ ch \in [K -> D] /\ \A j \in K : j < ch[j]
  BY DEF Children
<1>1. Ranked(D, K, ch, rank, n + 1)
  BY <1>0 DEF Ranked
<1>2. gl \in [D \X D -> D] /\ bl \in [D -> D] /\ gf \in [D \X V -> V] /\ bf \in [D -> V]
  OBVIOUS
<1>3. (\E f : Solves(f, D, K, D, ch, gl, bl)) /\ \E f : Solves(f, D, K, V, ch, gf, bf)
  <2> HIDE DEF D, V, rank, gl, bl, gf, bf
  <2> QED BY <1>1, <1>2, Recursion
<1>4. PICK f \in [D -> D] : \A j \in D : f[j] = IF j \in K THEN gl[<<j, f[ch[j]]>>] ELSE bl[j]
  BY <1>3 DEF Solves
<1>5. ASSUME NEW j \in D PROVE f[j] = IF j \in K THEN f[ch[j]] ELSE j
  <2>1. j \in K => ch[j] \in D /\ gl[<<j, f[ch[j]]>>] = f[ch[j]]
    BY <1>0
  <2> QED BY <1>4, <2>1
<1>6. f = [j \in D |-> IF j \in K THEN f[ch[j]] ELSE j]
  <2> HIDE DEF D
  <2> QED BY <1>5
<1>7. PICK g \in [D -> V] : \A j \in D : g[j] = IF j \in K THEN gf[<<j, g[ch[j]]>>] ELSE bf[j]
  BY <1>3 DEF Solves
<1>8. ASSUME NEW j \in D PROVE g[j] = IF j \in K THEN {j} \cup g[ch[j]] ELSE {}
  <2>1. j \in K => ch[j] \in D /\ gf[<<j, g[ch[j]]>>] = {j} \cup g[ch[j]]
    BY <1>0
  <2> QED BY <1>7, <2>1
<1>9. g = [j \in D |-> IF j \in K THEN {j} \cup g[ch[j]] ELSE {}]
  <2> HIDE DEF D, V
  <2> QED BY <1>8
<1>10. FallOf(g, n, K, ch)
  BY <1>9 DEF FallOf
<1> QED BY <1>6, <1>10

-----------------------------------------------------------------------------
(* Exact positions and the order of the entries *)

\* There are n entries, each in one place, which is its position.
Exact(s, n) ==
  /\ n \in Nat
  /\ s.h \in [0..n - 1 -> Events]
  /\ s.pos \in [Range(s.h) -> 0..n - 1]
  /\ \A j \in 0..n - 1 : s.pos[s.h[j]] = j

\* No entry is earlier than its parent.
Ordered(s, t, n) == \A j \in 1..n - 1 : t[s.h[Parent(j)]] <= t[s.h[j]]

\* The same entries are at the places P of h as in s, in any order, and nothing
\* else is changed.
Moved(s, h, P, n) ==
  /\ P \in SUBSET (0..n - 1)
  /\ h \in [0..n - 1 -> Events]
  /\ \A j \in (0..n - 1) \ P : h[j] = s.h[j]
  /\ \A j \in P : \E k \in P : h[j] = s.h[k]
  /\ \A k \in P : \E j \in P : h[j] = s.h[k]
  /\ \A j, k \in P : h[j] = h[k] => j = k

\* The entries of s and their positions.
LEMMA ExactProps ==
  ASSUME NEW s, NEW n, Exact(s, n)
  PROVE  /\ DOMAIN s.h = 0..n - 1
         /\ DOMAIN s.pos = Range(s.h)
         /\ \A j \in 0..n - 1 : s.h[j] \in Range(s.h) /\ s.h[j] \in Events
         /\ \A j, k \in 0..n - 1 : s.h[j] = s.h[k] => j = k
         /\ \A e \in Range(s.h) : s.pos[e] \in 0..n - 1 /\ s.h[s.pos[e]] = e
<1>1. DOMAIN s.h = 0..n - 1 /\ DOMAIN s.pos = Range(s.h)
  BY DEF Exact
<1>2. \A j \in 0..n - 1 : s.h[j] \in Range(s.h) /\ s.h[j] \in Events
  BY DEF Exact, Range
<1>3. \A j, k \in 0..n - 1 : s.h[j] = s.h[k] => j = k
  BY DEF Exact
<1>4. ASSUME NEW e \in Range(s.h) PROVE s.pos[e] \in 0..n - 1 /\ s.h[s.pos[e]] = e
  <2>1. PICK j \in 0..n - 1 : s.h[j] = e
    BY <1>1 DEF Range
  <2> QED BY <2>1 DEF Exact
<1> QED BY <1>1, <1>2, <1>3, <1>4

\* Entries that trade places and whose positions are written.
LEMMA WriteExact ==
  ASSUME NEW s, NEW n, Exact(s, n), NEW h, NEW P, Moved(s, h, P, n)
  PROVE  Exact(Write(s, h, P), n) /\ Range(h) = Range(s.h)
<1> DEFINE w == Write(s, h, P)
<1>1. w.h = h /\ DOMAIN w.pos = Range(s.h) /\ DOMAIN s.pos = Range(s.h)
  BY ExactProps DEF Write
<1>2. /\ n \in Nat /\ DOMAIN h = 0..n - 1 /\ h \in [0..n - 1 -> Events] /\ P \in SUBSET (0..n - 1)
      /\ \A j \in (0..n - 1) \ P : h[j] = s.h[j]
      /\ \A j \in P : \E k \in P : h[j] = s.h[k]
      /\ \A k \in P : \E j \in P : h[j] = s.h[k]
      /\ \A j, k \in P : h[j] = h[k] => j = k
  BY DEF Moved, Exact
<1>3. /\ DOMAIN s.h = 0..n - 1
      /\ \A j, k \in 0..n - 1 : s.h[j] = s.h[k] => j = k
      /\ \A e \in Range(s.h) : s.pos[e] \in 0..n - 1 /\ s.h[s.pos[e]] = e
  BY ExactProps
<1>4. Range(h) = Range(s.h)
  <2>1. ASSUME NEW j \in 0..n - 1 PROVE \E k \in 0..n - 1 : h[j] = s.h[k]
    BY <1>2
  <2>2. ASSUME NEW k \in 0..n - 1 PROVE \E j \in 0..n - 1 : h[j] = s.h[k]
    BY <1>2
  <2>3. Range(h) = {h[j] : j \in 0..n - 1} /\ Range(s.h) = {s.h[j] : j \in 0..n - 1}
    BY <1>2, <1>3 DEF Range
  <2> HIDE <1>2, <1>3
  <2> QED BY <2>1, <2>2, <2>3
<1>5. ASSUME NEW j \in 0..n - 1 PROVE w.pos[h[j]] = j
  <2>1. h[j] \in Range(s.h) /\ h[j] \in DOMAIN s.pos
    <3>1. h[j] \in Range(h)
      BY <1>2 DEF Range
    <3> QED BY <1>1, <1>4, <3>1
  <2>2. w.pos[h[j]] = IF \E i \in P : h[i] = h[j] THEN CHOOSE i \in P : h[i] = h[j] ELSE s.pos[h[j]]
    BY <2>1 DEF Write
  <2>3. CASE j \in P
    <3>1. (CHOOSE i \in P : h[i] = h[j]) = j
      BY <1>2, <2>3
    <3> QED BY <2>2, <2>3, <3>1
  <2>4. CASE j \notin P
    <3>1. h[j] = s.h[j]
      BY <1>2, <2>4
    <3>2. ASSUME NEW i \in P PROVE h[i] # h[j]
      <4>1. PICK k \in P : h[i] = s.h[k]
        BY <1>2
      <4>2. k \in 0..n - 1 /\ k # j
        BY <1>2, <2>4
      <4> QED BY <1>3, <3>1, <4>1, <4>2
    <3>3. s.pos[s.h[j]] = j
      BY DEF Exact
    <3> QED BY <2>2, <3>1, <3>2, <3>3
  <2> QED BY <2>3, <2>4
<1>6. ASSUME NEW e \in Range(s.h) PROVE w.pos[e] \in 0..n - 1
  <2>1. PICK j \in 0..n - 1 : h[j] = e
    BY <1>2, <1>4 DEF Range
  <2> QED BY <1>5, <2>1
<1>7. w.pos \in [Range(h) -> 0..n - 1]
  <2>1. w.pos = [e \in DOMAIN s.pos |-> w.pos[e]]
    BY DEF Write
  <2>2. DOMAIN s.pos = Range(h)
    BY <1>4, ExactProps
  <2> HIDE DEF w
  <2> QED BY <1>4, <1>6, <2>1, <2>2
<1> HIDE DEF w
<1>8. Exact(w, n)
  BY <1>1, <1>2, <1>5, <1>7 DEF Exact
<1> QED BY <1>4, <1>8 DEF w

\* The array after an entry went up along P is the old one with the entries of
\* P moved, when the way P has the entry's place i at its lower end.
LEMMA UpMoved ==
  ASSUME NEW s, NEW n, Exact(s, n), NEW i \in 0..n - 1, NEW C \in SUBSET (Nat \ {0}),
         NEW P, Climbs(P, C, i), NEW h,
         h = [j \in DOMAIN s.h |-> IF j \notin P THEN s.h[j]
                                   ELSE IF Parent(j) \in P THEN s.h[Parent(j)] ELSE s.h[i]]
  PROVE  Moved(s, h, P, n)
<1>1. /\ n \in Nat /\ DOMAIN s.h = 0..n - 1 /\ i \in Nat
      /\ \A j \in 0..n - 1 : s.h[j] \in Events
      /\ \A j, k \in 0..n - 1 : s.h[j] = s.h[k] => j = k
  BY ExactProps DEF Exact
<1>2. P \in SUBSET (0..n - 1) /\ i \in P
  BY <1>1 DEF Climbs
<1>3. \A j \in 0..n - 1 : h[j] = IF j \notin P THEN s.h[j]
                               ELSE IF Parent(j) \in P THEN s.h[Parent(j)] ELSE s.h[i]
  BY <1>1
<1>4. \A j \in P : \E k \in P : h[j] = s.h[k]
  <2>1. ASSUME NEW j \in P PROVE h[j] = s.h[IF Parent(j) \in P THEN Parent(j) ELSE i]
    BY <1>2, <1>3
  <2> QED BY <1>2, <2>1
<1>5. ASSUME NEW k \in P PROVE \E j \in P : h[j] = s.h[k]
  <2>1. CASE k = i
    <3>1. PICK z \in P : z \notin C
      BY DEF Climbs
    <3>2. Parent(z) \notin P
      BY <3>1 DEF Climbs
    <3> QED BY <1>2, <1>3, <2>1, <3>1, <3>2
  <2>2. CASE k # i
    <3>1. PICK c \in P : Parent(c) = k
      BY <2>2 DEF Climbs
    <3>2. h[c] = s.h[k]
      BY <1>2, <1>3, <3>1
    <3> QED BY <3>2
  <2> QED BY <2>1, <2>2
<1>6. ASSUME NEW c \in P, NEW d \in P, h[c] = h[d], Parent(c) \in P, Parent(d) \notin P PROVE FALSE
  <2>1. h[c] = s.h[Parent(c)] /\ h[d] = s.h[i]
    BY <1>2, <1>3, <1>6
  <2>2. Parent(c) = i
    BY <1>1, <1>2, <1>6, <2>1
  <2>3. c \in Nat /\ c <= i
    BY <1>1 DEF Climbs
  <2> QED BY <2>2, <2>3, <1>1, ParentProps
<1>7. ASSUME NEW c \in P, NEW d \in P, h[c] = h[d] PROVE c = d
  <2>1. CASE Parent(c) \in P /\ Parent(d) \in P
    <3>1. h[c] = s.h[Parent(c)] /\ h[d] = s.h[Parent(d)]
      BY <1>2, <1>3, <2>1
    <3>2. Parent(c) = Parent(d)
      BY <1>1, <1>2, <1>7, <2>1, <3>1
    <3> QED BY <3>2 DEF Climbs
  <2>2. CASE Parent(c) \notin P /\ Parent(d) \notin P
    <3>1. c \in P \ C /\ d \in P \ C
      BY <2>2 DEF Climbs
    <3>2. c <= d /\ d <= c /\ c \in Nat /\ d \in Nat
      BY <1>2, <3>1 DEF Climbs
    <3> QED BY <3>2
  <2>3. CASE Parent(c) \in P /\ Parent(d) \notin P
    BY <1>6, <1>7, <2>3
  <2>4. CASE Parent(c) \notin P /\ Parent(d) \in P
    BY <1>6, <1>7, <2>4
  <2> QED BY <2>1, <2>2, <2>3, <2>4
<1>8. h \in [0..n - 1 -> Events]
  <2>1. ASSUME NEW j \in 0..n - 1 PROVE h[j] \in Events
    BY <1>1, <1>2, <1>3
  <2>2. h = [j \in 0..n - 1 |-> h[j]]
    BY <1>1
  <2> QED BY <2>1, <2>2
<1>9. \A j \in (0..n - 1) \ P : h[j] = s.h[j]
  BY <1>3
<1> QED BY <1>2, <1>4, <1>5, <1>7, <1>8, <1>9 DEF Moved

-----------------------------------------------------------------------------
(* swim() *)

\* The entry at place i may be too low, but not above top, and no other entry
\* is.  D has the places on the way from i to top.
CanSwim(s, t, n, i, top, D) ==
  /\ i \in 0..n - 1 /\ top \in 0..n - 1
  /\ i \in D
  /\ \A j \in D : top <= j /\ (j > top => Parent(j) \in D)
  /\ \A j \in 1..n - 1 : j # i => t[s.h[Parent(j)]] <= t[s.h[j]]
  /\ i > top => \A j \in 1..n - 1 : Parent(j) = i => t[s.h[Parent(i)]] <= t[s.h[j]]
  /\ top > 0 => t[s.h[Parent(top)]] <= t[s.h[i]]

\* The places whose parents the entry at place i has to pass.
Later(s, t, i, top) == {j \in 0..i : j > top /\ t[s.h[i]] < t[s.h[Parent(j)]]}

\* When the entry has gone up along P, all entries are in order.
LEMMA UpOrdered ==
  ASSUME NEW s, NEW n, Exact(s, n), NEW t \in [Events -> Int], NEW i, NEW top, NEW D,
         CanSwim(s, t, n, i, top, D), NEW P, Climbs(P, Later(s, t, i, top), i), NEW w,
         \A j \in 0..n - 1 : w.h[j] = IF j \notin P THEN s.h[j]
                                      ELSE IF Parent(j) \in P THEN s.h[Parent(j)] ELSE s.h[i]
  PROVE  Ordered(w, t, n)
<1> DEFINE h == s.h
           C == Later(s, t, i, top)
           u == [j \in 0..n - 1 |-> t[h[j]]]
           v == [j \in 0..n - 1 |-> t[w.h[j]]]
<1>1. n \in Nat /\ i \in 0..n - 1 /\ top \in 0..n - 1 /\ i \in Nat /\ top \in Nat
  BY DEF CanSwim, Exact
<1>2. P \in SUBSET (0..n - 1) /\ i \in P /\ \A j \in P : top <= j
  <2>1. P \subseteq 0..i /\ i \in P
    BY DEF Climbs
  <2>2. \A j \in D \cap C : Parent(j) \in D
    BY DEF CanSwim, Later
  <2>3. i \in D
    BY DEF CanSwim
  <2>4. \A E : i \in E /\ (\A k \in E \cap C : Parent(k) \in E) => P \subseteq E
    BY Zenon DEF Climbs
  <2>5. P \subseteq D
    BY <2>2, <2>3, <2>4
  <2> QED BY <1>1, <2>1, <2>5 DEF CanSwim
<1>3. \A j \in 0..n - 1 : u[j] \in Int
  BY ExactProps
<1>4. \A j \in 1..n - 1 : j \in 0..n - 1 /\ Parent(j) \in 0..n - 1 /\ Parent(j) < j /\ j > 0
  <2>1. \A j \in 1..n - 1 : j \in Nat \ {0} /\ j <= n - 1
    BY <1>1
  <2>2. \A j \in 1..n - 1 : Parent(j) \in Nat /\ Parent(j) < j
    BY <2>1, ParentProps
  <2> QED BY <1>1, <2>1, <2>2
<1>5. \A j \in P : j \in C <=> j > top /\ u[i] < u[Parent(j)]
  <2>1. \A j \in P : j > top => j \in 1..n - 1
    BY <1>1, <1>2
  <2>2. \A j \in P : j > top => u[Parent(j)] = t[h[Parent(j)]]
    BY <1>4, <2>1
  <2>3. P \subseteq 0..i /\ u[i] = t[h[i]]
    BY <1>1 DEF Climbs
  <2> QED BY <2>2, <2>3 DEF Later
<1>6. \A j \in P : j \in C <=> Parent(j) \in P
  BY DEF Climbs
<1>7. \A j \in 0..n - 1 : v[j] = IF j \notin P THEN u[j] ELSE IF Parent(j) \in P THEN u[Parent(j)] ELSE u[i]
  BY <1>1, <1>2
<1>8. \A j \in 1..n - 1 : j # i => u[Parent(j)] <= u[j]
  BY <1>4 DEF CanSwim
<1>9. i > top => \A j \in 1..n - 1 : Parent(j) = i => u[Parent(i)] <= u[j]
  <2>1. i > top => i \in 1..n - 1
    BY <1>1
  <2>2. i > top => u[Parent(i)] = t[h[Parent(i)]]
    BY <1>4, <2>1
  <2> QED BY <1>4, <2>2 DEF CanSwim
<1>10. top > 0 => u[Parent(top)] <= u[i]
  <2>1. top > 0 => top \in 1..n - 1
    BY <1>1
  <2>2. top > 0 => u[Parent(top)] = t[h[Parent(top)]] /\ u[i] = t[h[i]]
    BY <1>1, <1>4, <2>1
  <2> QED BY <2>2 DEF CanSwim
<1>11. \A k \in P \ C : \A m \in P : k <= m
  BY DEF Climbs
<1>12. \A k \in P \ {i} : \E c \in P \cap C : Parent(c) = k
  BY DEF Climbs
<1>13. \A j \in 1..n - 1 : v[j] = t[w.h[j]] /\ v[Parent(j)] = t[w.h[Parent(j)]]
  BY <1>4
<1>14. ASSUME NEW j \in 1..n - 1 PROVE v[Parent(j)] <= v[j]
  <2> DEFINE p == Parent(j)
  <2> HIDE DEF C, u, v
  <2>0. j \in 0..n - 1 /\ p \in 0..n - 1 /\ p < j /\ j > 0 /\ p \in Nat /\ j \in Nat
    BY <1>4
  <2>1. CASE j \in P /\ j \in C
    <3>1. p \in P /\ v[j] = u[p] /\ u[i] < u[p]
      BY <1>5, <1>6, <1>7, <2>0, <2>1
    <3>2. CASE Parent(p) \in P
      <4>1. v[p] = u[Parent(p)] /\ p \in C /\ p > top
        BY <1>5, <1>6, <1>7, <2>0, <3>1, <3>2
      <4>2. p \in 1..n - 1 /\ p # i
        <5>1. j <= i
          BY <2>1 DEF Climbs
        <5> QED BY <1>1, <2>0, <4>1, <5>1
      <4> QED BY <1>8, <3>1, <4>1, <4>2
    <3>3. CASE Parent(p) \notin P
      <4>1. v[p] = u[i]
        BY <1>7, <2>0, <3>1, <3>3
      <4> QED BY <1>1, <1>3, <2>0, <3>1, <4>1
    <3> QED BY <3>2, <3>3
  <2>2. CASE j \in P /\ j \notin C
    <3>1. p \notin P /\ v[j] = u[i] /\ v[p] = u[p]
      BY <1>6, <1>7, <2>0, <2>2
    <3>2. CASE j > top
      <4>1. ~(u[i] < u[p])
        BY <1>5, <2>2, <3>2
      <4> QED BY <1>1, <1>3, <2>0, <3>1, <4>1
    <3>3. CASE j = top
      BY <1>10, <2>0, <3>1, <3>3
    <3>4. j >= top
      BY <1>2, <2>2
    <3> QED BY <1>1, <2>0, <3>2, <3>3, <3>4
  <2>3. CASE j \notin P
    <3>1. v[j] = u[j] /\ j # i /\ u[p] <= u[j]
      BY <1>2, <1>7, <1>8, <2>0, <2>3
    <3>2. CASE p \notin P
      BY <1>7, <2>0, <3>1, <3>2
    <3>3. CASE p \in P /\ p \in C
      <4>1. Parent(p) \in P /\ v[p] = u[Parent(p)] /\ p > top
        BY <1>5, <1>6, <1>7, <2>0, <3>3
      <4>2. CASE p = i
        BY <1>9, <3>1, <4>1, <4>2
      <4>3. CASE p # i
        <5>1. p \in 1..n - 1
          BY <1>1, <2>0, <4>1
        <5>2. u[Parent(p)] <= u[p]
          BY <1>8, <4>3, <5>1
        <5>3. Parent(p) \in 0..n - 1
          BY <1>4, <5>1
        <5>4. u[Parent(p)] \in Int /\ u[p] \in Int /\ u[j] \in Int
          BY <1>3, <2>0, <5>3
        <5> QED BY <3>1, <4>1, <5>2, <5>4
      <4> QED BY <4>2, <4>3
    <3>4. CASE p \in P /\ p \notin C
      <4>1. v[p] = u[i]
        BY <1>6, <1>7, <2>0, <3>4
      <4>2. CASE p = i
        BY <3>1, <4>1, <4>2
      <4>3. CASE p # i
        <5>1. PICK c \in P \cap C : Parent(c) = p
          BY <1>12, <3>4, <4>3
        <5>2. u[i] < u[p]
          BY <1>5, <5>1
        <5>3. u[i] \in Int /\ u[p] \in Int /\ u[j] \in Int
          BY <1>1, <1>3, <2>0
        <5> QED BY <3>1, <4>1, <5>2, <5>3
      <4> QED BY <4>2, <4>3
    <3> QED BY <3>2, <3>3, <3>4
  <2> QED BY <2>1, <2>2, <2>3
<1> QED BY <1>13, <1>14 DEF Ordered

\* swim() puts an array in order in which only the entry at place i is too low.
LEMMA SwimSorts ==
  ASSUME NEW s, NEW n, Exact(s, n), NEW t \in [Events -> Int], NEW i, NEW top, NEW D,
         CanSwim(s, t, n, i, top, D)
  PROVE  /\ Exact(Swim(s, t, i, top), n)
         /\ Range(Swim(s, t, i, top).h) = Range(s.h)
         /\ Ordered(Swim(s, t, i, top), t, n)
<1> DEFINE C == Later(s, t, i, top)
           up[j \in 0..i] == IF j > top /\ t[s.h[i]] < t[s.h[Parent(j)]]
                             THEN {j} \cup up[Parent(j)] ELSE {j}
           P == up[i]
           h == [j \in DOMAIN s.h |-> IF j \notin P THEN s.h[j]
                                      ELSE IF Parent(j) \in P THEN s.h[Parent(j)] ELSE s.h[i]]
           w == Write(s, h, P)
<1>1. i \in 0..n - 1 /\ i \in Nat /\ top \in Nat
  BY DEF CanSwim, Exact
<1>2. C \in SUBSET (Nat \ {0})
  BY <1>1 DEF Later
<1>3. PICK f : f = [j \in 0..i |-> IF j \in C THEN {j} \cup f[Parent(j)] ELSE {j}]
  <2> HIDE DEF C
  <2> QED BY <1>1, <1>2, ClimbExists
<1>4. f = [j \in 0..i |-> IF j > top /\ t[s.h[i]] < t[s.h[Parent(j)]]
                          THEN {j} \cup f[Parent(j)] ELSE {j}]
  <2>1. \A j \in 0..i : j \in C <=> j > top /\ t[s.h[i]] < t[s.h[Parent(j)]]
    BY DEF Later
  <2> HIDE DEF C
  <2> QED BY <1>3, <2>1, Zenon
<1>5. up = [j \in 0..i |-> IF j > top /\ t[s.h[i]] < t[s.h[Parent(j)]]
                           THEN {j} \cup up[Parent(j)] ELSE {j}]
  BY <1>4, Zenon
<1> HIDE <1>3, <1>4, <1>5
<1>6. \A j \in 0..i : up[j] = IF j \in C THEN {j} \cup up[Parent(j)] ELSE {j}
  <2>1. \A j \in 0..i : j \in C <=> j > top /\ t[s.h[i]] < t[s.h[Parent(j)]]
    BY DEF Later
  <2>2. \A j \in 0..i : up[j] = IF j > top /\ t[s.h[i]] < t[s.h[Parent(j)]]
                                THEN {j} \cup up[Parent(j)] ELSE {j}
    <3> HIDE DEF up, C
    <3> QED BY <1>5, Zenon
  <2> HIDE DEF up, C
  <2> QED BY <2>1, <2>2, Zenon
<1>7. Swim(s, t, i, top) = w
  BY Zenon DEF Swim
<1> HIDE DEF up, P
<1>8. Climbs(P, C, i)
  <2> HIDE DEF C
  <2>1. \A j \in 0..i : Climbs(up[j], C, j)
    BY <1>1, <1>2, <1>6, Climbing
  <2> QED BY <1>1, <2>1 DEF P
<1>9. Moved(s, h, P, n)
  <2> HIDE DEF C
  <2> QED BY <1>1, <1>2, <1>8, UpMoved
<1>10. Exact(w, n) /\ Range(h) = Range(s.h) /\ w.h = h
  <2>1. w.h = h
    BY DEF Write
  <2> HIDE DEF h
  <2> QED BY <1>9, <2>1, WriteExact
<1>11. \A j \in 0..n - 1 : w.h[j] = IF j \notin P THEN s.h[j]
                                    ELSE IF Parent(j) \in P THEN s.h[Parent(j)] ELSE s.h[i]
  <2>1. DOMAIN s.h = 0..n - 1
    BY ExactProps
  <2> HIDE DEF w
  <2> QED BY <1>10, <2>1
<1>12. Ordered(w, t, n)
  <2> HIDE DEF w
  <2> QED BY <1>8, <1>11, UpOrdered
<1> HIDE DEF w
<1> QED BY <1>7, <1>10, <1>12

-----------------------------------------------------------------------------
(* sink() *)

\* The places of an array with n entries that have children.
Inner(s, n) == {j \in 0..n - 1 : HasChild(s.h, j)}

\* The child that is chosen is one, and the other one is not earlier.
LEMMA ChildProps ==
  ASSUME NEW s, NEW n, Exact(s, n), NEW t \in [Events -> Int]
  PROVE  /\ Children(n, Inner(s, n), [j \in Inner(s, n) |-> Child(s.h, t, j)])
         /\ \A k \in 1..n - 1 : /\ Parent(k) \in Inner(s, n)
                                /\ t[s.h[Child(s.h, t, Parent(k))]] <= t[s.h[k]]
<1> DEFINE K == Inner(s, n)
<1>1. n \in Nat /\ DOMAIN s.h = 0..n - 1 /\ K \in SUBSET (0..n - 1)
  BY ExactProps DEF Exact, Inner
<1>2. \A j \in 0..n - 1 : t[s.h[j]] \in Int
  BY ExactProps
<1>3. ASSUME NEW j \in K
      PROVE  /\ Child(s.h, t, j) \in 0..n - 1 /\ j < Child(s.h, t, j)
             /\ Parent(Child(s.h, t, j)) = j
  <2>1. j \in Nat /\ 2*j + 1 \in 0..n - 1
    BY <1>1 DEF Inner, HasChild
  <2>2. \/ Child(s.h, t, j) = 2*j + 2 /\ 2*j + 2 \in 0..n - 1
        \/ Child(s.h, t, j) = 2*j + 1
    BY <1>1 DEF Child
  <2>3. j < 2*j + 1 /\ j < 2*j + 2
    BY <2>1
  <2> QED BY <2>1, <2>2, <2>3, ParentProps
<1>4. ASSUME NEW k \in 1..n - 1
      PROVE  Parent(k) \in K /\ t[s.h[Child(s.h, t, Parent(k))]] <= t[s.h[k]]
  <2> DEFINE p == Parent(k)
  <2>1. k \in Nat \ {0} /\ k <= n - 1 /\ k \in 0..n - 1
    BY <1>1
  <2>2. p \in Nat /\ p < k /\ (k = 2*p + 1 \/ k = 2*p + 2)
    BY <2>1, ParentProps
  <2> HIDE DEF p
  <2>3. 2*p + 1 \in 0..n - 1 /\ p \in 0..n - 1
    BY <1>1, <2>1, <2>2
  <2>4. t[s.h[2*p + 1]] \in Int /\ t[s.h[k]] \in Int
    BY <1>2, <2>1, <2>3
  <2>5. p \in K
    BY <1>1, <2>3 DEF Inner, HasChild
  <2>6. CASE k = 2*p + 1
    <3>1. CASE 2*p + 2 \in 0..n - 1 /\ ~(t[s.h[2*p + 1]] < t[s.h[2*p + 2]])
      <4>1. Child(s.h, t, p) = 2*p + 2 /\ t[s.h[2*p + 2]] \in Int
        BY <1>1, <1>2, <3>1 DEF Child
      <4> QED BY <2>4, <2>5, <2>6, <3>1, <4>1 DEF p
    <3>2. CASE ~(2*p + 2 \in 0..n - 1 /\ ~(t[s.h[2*p + 1]] < t[s.h[2*p + 2]]))
      <4>1. Child(s.h, t, p) = k
        BY <1>1, <2>6, <3>2 DEF Child
      <4> QED BY <2>4, <2>5, <4>1 DEF p
    <3> QED BY <3>1, <3>2
  <2>7. CASE k = 2*p + 2
    <3>1. CASE t[s.h[2*p + 1]] < t[s.h[k]]
      <4>1. Child(s.h, t, p) = 2*p + 1
        BY <1>1, <2>7, <3>1 DEF Child
      <4> QED BY <2>4, <2>5, <3>1, <4>1 DEF p
    <3>2. CASE ~(t[s.h[2*p + 1]] < t[s.h[k]])
      <4>1. Child(s.h, t, p) = k
        BY <1>1, <2>1, <2>7, <3>2 DEF Child
      <4> QED BY <2>4, <2>5, <4>1 DEF p
    <3> QED BY <3>1, <3>2
  <2> QED BY <2>2, <2>6, <2>7
<1>5. Children(n, K, [j \in K |-> Child(s.h, t, j)])
  <2> HIDE DEF K
  <2> QED BY <1>1, <1>3 DEF Children
<1> QED BY <1>4, <1>5

\* The array after an entry went down along F to the leaf l: the old one with
\* the entries of these places moved.
LEMMA DownMoved ==
  ASSUME NEW s, NEW n, Exact(s, n), NEW K, NEW ch, Children(n, K, ch),
         NEW top \in 0..n - 1, NEW F, NEW l, Falls(F, l, n, K, ch, top), NEW d,
         d = [j \in DOMAIN s.h |-> IF j \in F THEN s.h[ch[j]]
                                   ELSE IF j = l THEN s.h[top] ELSE s.h[j]]
  PROVE  Moved(s, d, F \cup {l}, n)
<1> DEFINE P == F \cup {l}
<1>1. /\ n \in Nat /\ DOMAIN s.h = 0..n - 1
      /\ \A j \in 0..n - 1 : s.h[j] \in Events
      /\ \A j, k \in 0..n - 1 : s.h[j] = s.h[k] => j = k
  BY ExactProps DEF Exact
<1>2. /\ P \in SUBSET (0..n - 1) /\ top \in P /\ l \notin F /\ l \in P
      /\ \A j \in P : top <= j
      /\ \A j \in F : ch[j] \in P /\ j < ch[j] /\ Parent(ch[j]) = j
      /\ \A j \in P : j # top => Parent(j) \in F /\ ch[Parent(j)] = j
  BY DEF Falls, Children
<1>3. \A j \in 0..n - 1 : d[j] = IF j \in F THEN s.h[ch[j]]
                               ELSE IF j = l THEN s.h[top] ELSE s.h[j]
  BY <1>1
<1>4. \A j \in P : \E k \in P : d[j] = s.h[k]
  <2>1. ASSUME NEW j \in P PROVE d[j] = s.h[IF j \in F THEN ch[j] ELSE top]
    BY <1>2, <1>3
  <2> QED BY <1>2, <2>1
<1>5. ASSUME NEW k \in P PROVE \E j \in P : d[j] = s.h[k]
  <2>1. CASE k = top
    BY <1>2, <1>3, <2>1
  <2>2. CASE k # top
    <3>1. Parent(k) \in F /\ Parent(k) \in 0..n - 1 /\ ch[Parent(k)] = k
      BY <1>2, <2>2
    <3>2. d[Parent(k)] = s.h[k]
      BY <1>3, <3>1
    <3> QED BY <3>1, <3>2
  <2> QED BY <2>1, <2>2
<1>6. ASSUME NEW j \in F, NEW k \in P, d[j] = d[k] PROVE j = k
  <2>0. j \in 0..n - 1 /\ ch[j] \in 0..n - 1 /\ top \in 0..n - 1 /\ top < ch[j]
    BY <1>2
  <2>1. d[j] = s.h[ch[j]]
    BY <1>3, <2>0
  <2>2. CASE k \in F
    <3>1. d[k] = s.h[ch[k]] /\ ch[k] \in 0..n - 1
      BY <1>2, <1>3, <2>2
    <3>2. ch[j] = ch[k]
      BY <1>1, <1>6, <2>0, <2>1, <3>1
    <3> QED BY <1>2, <2>2, <3>2
  <2>3. CASE k = l
    <3>1. d[k] = s.h[top]
      BY <1>2, <1>3, <2>3
    <3>2. ch[j] = top
      BY <1>1, <1>6, <2>0, <2>1, <3>1
    <3> QED BY <2>0, <3>2
  <2> QED BY <2>2, <2>3
<1>7. ASSUME NEW j \in P, NEW k \in P, d[j] = d[k] PROVE j = k
  BY <1>6, <1>7
<1>8. d \in [0..n - 1 -> Events]
  <2>1. ASSUME NEW j \in 0..n - 1 PROVE d[j] \in Events
    <3>1. j \in F => ch[j] \in 0..n - 1
      BY <1>2
    <3> QED BY <1>1, <1>3, <3>1
  <2>2. d = [j \in 0..n - 1 |-> d[j]]
    BY <1>1
  <2> QED BY <2>1, <2>2
<1>9. \A j \in (0..n - 1) \ P : d[j] = s.h[j]
  BY <1>3
<1> QED BY <1>2, <1>4, <1>5, <1>7, <1>8, <1>9 DEF Moved

\* Only the entry at place i may be out of order, in either direction.
Near(s, t, n, i) ==
  /\ i \in 0..n - 1
  /\ \A j \in 1..n - 1 : j # i /\ Parent(j) # i => t[s.h[Parent(j)]] <= t[s.h[j]]
  /\ i > 0 => \A j \in 1..n - 1 : Parent(j) = i => t[s.h[Parent(i)]] <= t[s.h[j]]

\* Once the entry is in the leaf, it can only be too low.
LEMMA DownOrdered ==
  ASSUME NEW s, NEW n, Exact(s, n), NEW t \in [Events -> Int], NEW K, NEW ch,
         Children(n, K, ch),
         \A k \in 1..n - 1 : Parent(k) \in K /\ t[s.h[ch[Parent(k)]]] <= t[s.h[k]],
         NEW top, Near(s, t, n, top), top > 0 => t[s.h[Parent(top)]] <= t[s.h[top]],
         NEW F, NEW l, Falls(F, l, n, K, ch, top), NEW w,
         \A j \in 0..n - 1 : w.h[j] = IF j \in F THEN s.h[ch[j]]
                                      ELSE IF j = l THEN s.h[top] ELSE s.h[j]
  PROVE  CanSwim(w, t, n, l, top, F \cup {l})
<1> DEFINE P == F \cup {l}
           u == [j \in 0..n - 1 |-> t[s.h[j]]]
           v == [j \in 0..n - 1 |-> t[w.h[j]]]
<1>1. n \in Nat /\ top \in 0..n - 1 /\ \A j \in 0..n - 1 : u[j] \in Int
  BY ExactProps DEF Exact, Near
<1>2. /\ P \in SUBSET (0..n - 1) /\ top \in P /\ l \notin F /\ l \in P /\ l \notin K /\ F \in SUBSET K
      /\ \A j \in P : top <= j
      /\ \A j \in F : ch[j] \in P /\ j < ch[j] /\ Parent(ch[j]) = j
      /\ \A j \in P : j # top => Parent(j) \in F /\ ch[Parent(j)] = j
  BY DEF Falls, Children
<1>3. \A j \in 0..n - 1 : v[j] = IF j \in F THEN u[ch[j]] ELSE IF j = l THEN u[top] ELSE u[j]
  BY <1>1, <1>2
<1>4. \A j \in 1..n - 1 : j \in 0..n - 1 /\ Parent(j) \in 0..n - 1 /\ Parent(j) < j /\ j > 0
  <2>1. \A j \in 1..n - 1 : j \in Nat \ {0} /\ j <= n - 1
    BY <1>1
  <2>2. \A j \in 1..n - 1 : Parent(j) \in Nat /\ Parent(j) < j
    BY <2>1, ParentProps
  <2> QED BY <1>1, <2>1, <2>2
<1>5. \A k \in 1..n - 1 : Parent(k) \in K /\ (Parent(k) \in F => u[ch[Parent(k)]] <= u[k])
  BY <1>2, <1>4
<1>6. \A j \in 1..n - 1 : j # top /\ Parent(j) # top => u[Parent(j)] <= u[j]
  BY <1>4 DEF Near
<1>7. top > 0 => (\A j \in 1..n - 1 : Parent(j) = top => u[Parent(top)] <= u[j]) /\ u[Parent(top)] <= u[top]
  <2>1. top > 0 => top \in 1..n - 1
    BY <1>1
  <2>2. top > 0 => u[Parent(top)] = t[s.h[Parent(top)]] /\ u[top] = t[s.h[top]]
    BY <1>1, <1>4, <2>1
  <2> QED BY <1>4, <2>2 DEF Near
<1>8. \A j \in 1..n - 1 : v[j] = t[w.h[j]] /\ v[Parent(j)] = t[w.h[Parent(j)]]
  BY <1>4
<1>9. ASSUME NEW j \in 1..n - 1, j # l PROVE v[Parent(j)] <= v[j]
  <2> DEFINE p == Parent(j)
  <2> HIDE DEF u, v
  <2>0. j \in 0..n - 1 /\ p \in 0..n - 1 /\ p < j /\ j > 0 /\ p \in Nat /\ j \in Nat
    BY <1>4
  <2>1. CASE j \in F /\ j = top
    <3>1. p \notin P
      BY <1>2, <2>0, <2>1
    <3>2. v[p] = u[p] /\ v[j] = u[ch[j]]
      BY <1>3, <2>0, <2>1, <3>1
    <3>3. ch[j] \in 1..n - 1 /\ Parent(ch[j]) = top
      BY <1>1, <1>2, <2>0, <2>1
    <3> QED BY <1>7, <2>0, <2>1, <3>2, <3>3
  <2>2. CASE j \in F /\ j # top
    <3>1. p \in F /\ ch[p] = j /\ ch[j] \in P /\ j < ch[j] /\ Parent(ch[j]) = j /\ top <= j
      BY <1>2, <2>2
    <3>2. v[p] = u[j] /\ v[j] = u[ch[j]]
      BY <1>3, <2>0, <2>2, <3>1
    <3>3. ch[j] \in 1..n - 1 /\ ch[j] # top
      BY <1>1, <1>2, <2>0, <3>1
    <3> QED BY <1>6, <2>2, <3>1, <3>2, <3>3
  <2>3. CASE j \notin P
    <3>1. v[j] = u[j] /\ j # top
      BY <1>2, <1>3, <2>0, <2>3
    <3>2. CASE p \in F
      BY <1>3, <1>5, <2>0, <3>1, <3>2
    <3>3. CASE p \notin P
      <4>1. p # top /\ v[p] = u[p]
        BY <1>2, <1>3, <2>0, <3>3
      <4> QED BY <1>6, <3>1, <4>1
    <3>4. p # l
      BY <1>2, <1>5
    <3> QED BY <3>2, <3>3, <3>4
  <2> QED BY <1>9, <2>1, <2>2, <2>3
<1>10. top > 0 => v[Parent(top)] <= v[l]
  <2> HIDE DEF u, v
  <2>1. ASSUME top > 0 PROVE v[Parent(top)] <= v[l]
    <3>1. top \in 1..n - 1 /\ Parent(top) \in 0..n - 1 /\ Parent(top) < top
      BY <1>1, <1>4, <2>1
    <3>2. Parent(top) \notin P
      BY <1>1, <1>2, <3>1
    <3>3. v[Parent(top)] = u[Parent(top)] /\ v[l] = u[top]
      BY <1>2, <1>3, <3>1, <3>2
    <3> QED BY <1>7, <2>1, <3>3
  <2> QED BY <2>1
<1>11. \A j \in P : top <= j /\ (j > top => Parent(j) \in P)
  BY <1>1, <1>2
<1>12. \A j \in 1..n - 1 : j # l => t[w.h[Parent(j)]] <= t[w.h[j]]
  BY <1>8, <1>9
<1>13. \A j \in 1..n - 1 : Parent(j) # l
  BY <1>2, <1>5
<1>14. top > 0 => t[w.h[Parent(top)]] <= t[w.h[l]]
  <2>1. top > 0 => top \in 1..n - 1
    BY <1>1
  <2>2. top > 0 => v[Parent(top)] = t[w.h[Parent(top)]]
    BY <1>8, <2>1
  <2>3. v[l] = t[w.h[l]]
    BY <1>2
  <2> HIDE DEF u, v
  <2> QED BY <1>10, <2>2, <2>3
<1> QED BY <1>1, <1>2, <1>11, <1>12, <1>13, <1>14 DEF CanSwim

\* sink() puts an array in order in which only the entry at place top is out of
\* order, and not too low.
LEMMA SinkSorts ==
  ASSUME NEW s, NEW n, Exact(s, n), NEW t \in [Events -> Int], NEW top,
         Near(s, t, n, top), top > 0 => t[s.h[Parent(top)]] <= t[s.h[top]]
  PROVE  /\ Exact(Sink(s, t, top), n)
         /\ Range(Sink(s, t, top).h) = Range(s.h)
         /\ Ordered(Sink(s, t, top), t, n)
<1> DEFINE D == DOMAIN s.h
           K == Inner(s, n)
           ch == [j \in K |-> Child(s.h, t, j)]
           leaf[i \in D] == IF HasChild(s.h, i) THEN leaf[Child(s.h, t, i)] ELSE i
           fall[i \in D] == IF HasChild(s.h, i) THEN {i} \cup fall[Child(s.h, t, i)] ELSE {}
           F == fall[top]
           l == leaf[top]
           d == [j \in D |-> IF j \in F THEN s.h[Child(s.h, t, j)]
                             ELSE IF j = l THEN s.h[top] ELSE s.h[j]]
           w == Write(s, d, F \cup {l})
<1>0. D = 0..n - 1 /\ n \in Nat /\ top \in 0..n - 1
  BY ExactProps DEF Exact, Near
<1>1. /\ Children(n, K, ch)
      /\ \A k \in 1..n - 1 : Parent(k) \in K /\ t[s.h[ch[Parent(k)]]] <= t[s.h[k]]
  BY ChildProps
<1>2. \A j \in D : (j \in K <=> HasChild(s.h, j)) /\ (j \in K => ch[j] = Child(s.h, t, j))
  BY <1>0 DEF Inner
<1>3. leaf = [i \in D |-> IF HasChild(s.h, i) THEN leaf[Child(s.h, t, i)] ELSE i]
  <2> HIDE DEF K, ch
  <2>1. PICK f : f = [j \in 0..n - 1 |-> IF j \in K THEN f[ch[j]] ELSE j]
    BY <1>1, FallExists
  <2>2. f = [i \in D |-> IF HasChild(s.h, i) THEN f[Child(s.h, t, i)] ELSE i]
    <3> HIDE DEF D
    <3> QED BY <1>0, <1>2, <2>1, Zenon
  <2> QED BY <2>2, Zenon
<1>4. fall = [i \in D |-> IF HasChild(s.h, i) THEN {i} \cup fall[Child(s.h, t, i)] ELSE {}]
  <2> HIDE DEF K, ch
  <2>1. PICK f : FallOf(f, n, K, ch)
    BY <1>1, FallExists
  <2>2. f = [j \in 0..n - 1 |-> IF j \in K THEN {j} \cup f[ch[j]] ELSE {}]
    BY <2>1, Zenon DEF FallOf
  <2>3. f = [i \in D |-> IF HasChild(s.h, i) THEN {i} \cup f[Child(s.h, t, i)] ELSE {}]
    <3> HIDE DEF D
    <3> QED BY <1>0, <1>2, <2>2, Zenon
  <2> QED BY <2>3, Zenon
<1> HIDE <1>3, <1>4
<1>5. /\ \A j \in 0..n - 1 : leaf[j] = IF j \in K THEN leaf[ch[j]] ELSE j
      /\ \A j \in 0..n - 1 : fall[j] = IF j \in K THEN {j} \cup fall[ch[j]] ELSE {}
  <2> HIDE DEF leaf, fall, D, K, ch
  <2>1. \A j \in D : leaf[j] = IF HasChild(s.h, j) THEN leaf[Child(s.h, t, j)] ELSE j
    BY <1>3, Zenon
  <2>2. \A j \in D : fall[j] = IF HasChild(s.h, j) THEN {j} \cup fall[Child(s.h, t, j)] ELSE {}
    BY <1>4, Zenon
  <2> QED BY <1>0, <1>2, <2>1, <2>2, Zenon
<1>6. Sink(s, t, top) = Swim(w, t, l, top)
  BY Zenon DEF Sink
<1> HIDE DEF leaf, fall, F, l
<1>7. Falls(F, l, n, K, ch, top)
  <2> HIDE DEF K, ch
  <2>1. \A j \in 0..n - 1 : Falls(fall[j], leaf[j], n, K, ch, j)
    BY <1>1, <1>5, Falling
  <2> QED BY <1>0, <2>1 DEF F, l
<1>8. F \in SUBSET K
  BY <1>7 DEF Falls
<1>9. d = [j \in D |-> IF j \in F THEN s.h[ch[j]] ELSE IF j = l THEN s.h[top] ELSE s.h[j]]
  BY <1>8
<1> HIDE DEF K, ch, d
<1>10. Moved(s, d, F \cup {l}, n)
  <2>1. \A x : x = [j \in DOMAIN s.h |-> IF j \in F THEN s.h[ch[j]]
                                   ELSE IF j = l THEN s.h[top] ELSE s.h[j]]
               => Moved(s, x, F \cup {l}, n)
    <3>1. Children(n, K, ch) /\ top \in 0..n - 1
      BY <1>0, <1>1
    <3> QED BY <3>1, <1>7, DownMoved
  <2> QED BY <1>9, <2>1, Zenon
<1>11. w.h = d
  BY DEF Write
<1> HIDE DEF w
<1>12. Exact(w, n) /\ Range(w.h) = Range(s.h)
  BY <1>10, <1>11, WriteExact DEF w
<1>13. \A j \in 0..n - 1 : w.h[j] = IF j \in F THEN s.h[ch[j]]
                                    ELSE IF j = l THEN s.h[top] ELSE s.h[j]
  BY <1>0, <1>9, <1>11
<1>14. CanSwim(w, t, n, l, top, F \cup {l})
  BY <1>1, <1>7, <1>13, DownOrdered
<1> QED BY <1>6, <1>12, <1>14, SwimSorts

-----------------------------------------------------------------------------
(* The operations of the dictionary *)

\* What the operations keep of n entries.
Sorted(s, t, n) == Exact(s, n) /\ Ordered(s, t, n)

\* The parents of places are places.
LEMMA Parents ==
  ASSUME NEW n \in Nat
  PROVE  \A j \in 1..n - 1 : j \in 0..n - 1 /\ Parent(j) \in 0..n - 1 /\ Parent(j) < j /\ j > 0
<1>1. \A j \in 1..n - 1 : j \in Nat \ {0} /\ j <= n - 1
  OBVIOUS
<1>2. \A j \in 1..n - 1 : Parent(j) \in Nat /\ Parent(j) < j
  BY <1>1, ParentProps
<1> QED BY <1>1, <1>2

\* There are n places.
LEMMA Places ==
  ASSUME NEW n \in Nat
  PROVE  Cardinality(0..n - 1) = n
<1>1. 0 \in Int /\ n - 1 \in Int
  OBVIOUS
<1>2. Cardinality(0..n - 1) = IF 0 > n - 1 THEN 0 ELSE n - 1 - 0 + 1
  BY <1>1, FS_Interval
<1> QED BY <1>2

\* An entry that is out of order settles, whichever way it has to go.
LEMMA SettleSorts ==
  ASSUME NEW s, NEW n, Exact(s, n), NEW t \in [Events -> Int], NEW i, Near(s, t, n, i)
  PROVE  /\ Sorted(Settle(s, t, i), t, n)
         /\ Range(Settle(s, t, i).h) = Range(s.h)
<1>1. /\ n \in Nat /\ i \in 0..n - 1 /\ i \in Nat /\ DOMAIN s.h = 0..n - 1
      /\ \A j \in 0..n - 1 : t[s.h[j]] \in Int
      /\ \A j \in 1..n - 1 : t[s.h[j]] \in Int /\ t[s.h[Parent(j)]] \in Int
  BY ExactProps, Parents DEF Exact, Near
<1>2. CASE i > 0 /\ t[s.h[i]] < t[s.h[Parent(i)]]
  <2>1. Settle(s, t, i) = Swim(s, t, i, 0)
    BY <1>2 DEF Settle
  <2>2. \A j \in 0..i : 0 <= j /\ (j > 0 => Parent(j) \in 0..i)
    <3>1. \A j \in 0..i : j > 0 => j \in Nat \ {0} /\ j <= i
      BY <1>1
    <3>2. \A j \in 0..i : j > 0 => Parent(j) \in Nat /\ Parent(j) < j
      BY <3>1, ParentProps
    <3> QED BY <1>1, <3>1, <3>2
  <2>3. i \in 1..n - 1 /\ t[s.h[i]] \in Int /\ t[s.h[Parent(i)]] \in Int
    BY <1>1, <1>2
  <2>4. ASSUME NEW j \in 1..n - 1, j # i PROVE t[s.h[Parent(j)]] <= t[s.h[j]]
    <3>1. CASE Parent(j) = i
      <4>1. t[s.h[Parent(i)]] <= t[s.h[j]]
        BY <1>2, <3>1 DEF Near
      <4> QED BY <1>1, <1>2, <2>3, <3>1, <4>1
    <3>2. CASE Parent(j) # i
      BY <2>4, <3>2 DEF Near
    <3> QED BY <3>1, <3>2
  <2>5. \A j \in 1..n - 1 : Parent(j) = i => t[s.h[Parent(i)]] <= t[s.h[j]]
    BY <1>2 DEF Near
  <2>6. CanSwim(s, t, n, i, 0, 0..i)
    BY <1>1, <2>2, <2>4, <2>5 DEF CanSwim
  <2> QED BY <2>1, <2>6, SwimSorts DEF Sorted
<1>3. CASE ~(i > 0 /\ t[s.h[i]] < t[s.h[Parent(i)]])
  <2>1. i > 0 => t[s.h[Parent(i)]] <= t[s.h[i]]
    BY <1>1, <1>3
  <2>2. CASE HasChild(s.h, i) /\ t[s.h[Child(s.h, t, i)]] < t[s.h[i]]
    <3>1. Settle(s, t, i) = Sink(s, t, i)
      BY <1>3, <2>2 DEF Settle
    <3> QED BY <2>1, <3>1, SinkSorts DEF Sorted
  <2>3. CASE ~(HasChild(s.h, i) /\ t[s.h[Child(s.h, t, i)]] < t[s.h[i]])
    <3>1. Settle(s, t, i) = s
      BY <1>3, <2>3 DEF Settle
    <3>2. ASSUME NEW j \in 1..n - 1 PROVE t[s.h[Parent(j)]] <= t[s.h[j]]
      <4>1. CASE j = i
        BY <1>1, <2>1, <4>1
      <4>2. CASE Parent(j) = i
        <5>1. i \in Inner(s, n) /\ t[s.h[Child(s.h, t, i)]] <= t[s.h[j]]
          BY <4>2, ChildProps
        <5>2. ~(t[s.h[Child(s.h, t, i)]] < t[s.h[i]])
          BY <2>3, <5>1 DEF Inner
        <5>3. Child(s.h, t, i) \in 0..n - 1
          BY <5>1, ChildProps DEF Children
        <5> QED BY <1>1, <4>2, <5>1, <5>2, <5>3
      <4>3. CASE j # i /\ Parent(j) # i
        BY <4>3 DEF Near
      <4> QED BY <4>1, <4>2, <4>3
    <3> QED BY <3>1, <3>2 DEF Sorted, Ordered
  <2> QED BY <2>2, <2>3
<1> QED BY <1>2, <1>3

\* A new entry comes in.
LEMMA AddedProps ==
  ASSUME NEW s, NEW n \in Nat, NEW t \in [Events -> Int], Sorted(s, t, n),
         NEW e \in Events, e \notin Range(s.h)
  PROVE  /\ Sorted(Added(s, t, e), t, n + 1)
         /\ Range(Added(s, t, e).h) = Range(s.h) \cup {e}
<1> DEFINE h == [i \in 0..n |-> IF i = n THEN e ELSE s.h[i]]
           pos == [f \in DOMAIN s.pos \cup {e} |-> IF f = e THEN n ELSE s.pos[f]]
           r == [h |-> h, pos |-> pos]
<1>1. /\ n \in Nat /\ DOMAIN s.h = 0..n - 1 /\ DOMAIN s.pos = Range(s.h)
      /\ \A j \in 0..n - 1 : s.h[j] \in Range(s.h) /\ s.h[j] \in Events /\ s.pos[s.h[j]] = j
      /\ \A f \in Range(s.h) : s.pos[f] \in 0..n - 1
  BY ExactProps DEF Exact, Sorted
<1>2. Cardinality(0..n - 1) = n
  BY <1>1, Places
<1>3. Added(s, t, e) = Swim(r, t, n, 0)
  BY <1>1, <1>2, Zenon DEF Added
<1>4. /\ DOMAIN h = 0..n /\ h[n] = e /\ \A j \in 0..n - 1 : h[j] = s.h[j]
      /\ h \in [0..n -> Events]
  BY <1>1
<1>5. Range(h) = Range(s.h) \cup {e}
  <2>1. Range(h) = {h[j] : j \in 0..n} /\ Range(s.h) = {s.h[j] : j \in 0..n - 1}
    BY <1>1, <1>4 DEF Range
  <2>2. 0..n = (0..n - 1) \cup {n}
    BY <1>1
  <2> HIDE DEF h
  <2> QED BY <1>4, <2>1, <2>2
<1>6. Exact(r, n + 1)
  <2>1. pos \in [Range(h) -> 0..n]
    BY <1>1, <1>5
  <2>2. \A j \in 0..n : pos[h[j]] = j
    BY <1>1
  <2>3. n + 1 \in Nat /\ (n + 1) - 1 = n
    BY <1>1
  <2> HIDE DEF h, pos
  <2> QED BY <1>4, <2>1, <2>2, <2>3 DEF Exact
<1>7. CanSwim(r, t, n + 1, n, 0, 0..n)
  <2>1. n \in 0..(n + 1) - 1 /\ 0 \in 0..(n + 1) - 1 /\ n \in 0..n
    BY <1>1
  <2>2. \A j \in 0..n : 0 <= j /\ (j > 0 => Parent(j) \in 0..n)
    <3>1. \A j \in 0..n : j > 0 => j \in 1..(n + 1) - 1
      BY <1>1
    <3>2. n + 1 \in Nat
      BY <1>1
    <3>3. \A j \in 1..(n + 1) - 1 : Parent(j) \in 0..(n + 1) - 1
      BY <3>2, Parents
    <3> QED BY <1>1, <3>1, <3>3
  <2>3. ASSUME NEW j \in 1..(n + 1) - 1 PROVE j # n => t[r.h[Parent(j)]] <= t[r.h[j]]
    <3>1. ASSUME j # n PROVE t[r.h[Parent(j)]] <= t[r.h[j]]
      <4>1. j \in 1..n - 1
        BY <1>1, <3>1
      <4>2. j \in 0..n - 1 /\ Parent(j) \in 0..n - 1
        BY <1>1, <4>1, Parents
      <4>3. t[s.h[Parent(j)]] <= t[s.h[j]]
        BY <4>1 DEF Sorted, Ordered
      <4> QED BY <1>4, <4>2, <4>3
    <3> QED BY <3>1
  <2>4. \A j \in 1..(n + 1) - 1 : Parent(j) # n
    <3>1. \A j \in 1..(n + 1) - 1 : j <= n /\ j \in Nat /\ Parent(j) < j /\ Parent(j) \in Nat
      <4>1. n + 1 \in Nat
        BY <1>1
      <4>2. \A j \in 1..(n + 1) - 1 : Parent(j) \in 0..(n + 1) - 1 /\ Parent(j) < j
        BY <4>1, Parents
      <4> QED BY <1>1, <4>2
    <3> QED BY <1>1, <3>1
  <2> HIDE DEF r
  <2> QED BY <2>1, <2>2, <2>3, <2>4 DEF CanSwim
<1>8. r.h = h
  OBVIOUS
<1> HIDE DEF r
<1> QED BY <1>3, <1>5, <1>6, <1>7, <1>8, SwimSorts DEF Sorted

\* The last entry takes the place of another one, or of itself, which goes.
LEMMA VacatedProps ==
  ASSUME NEW n, Sorted(Here, time, n), time \in [Events -> Int], NEW i \in 0..n - 1
  PROVE  /\ Size = n /\ n - 1 \in Nat
         /\ Exact(Vacated(i), n - 1)
         /\ Range(Vacated(i).h) = Range(heap) \ {heap[i]}
         /\ i = n - 1 => Ordered(Vacated(i), time, n - 1)
         /\ i # n - 1 => Near(Vacated(i), time, n - 1, i)
<1> DEFINE m == n - 1
           h == [j \in 0..m - 1 |-> IF j = i THEN heap[m] ELSE heap[j]]
           pos == [f \in DOMAIN position \ {heap[i]} |-> IF f = heap[m] THEN i ELSE position[f]]
           r == [h |-> h, pos |-> pos]
           u == [j \in 0..m |-> time[heap[j]]]
<1>1. /\ n \in Nat /\ m \in Nat /\ n - 1 = m /\ n - 2 = m - 1 /\ i \in Nat /\ i <= m
      /\ i \in 0..m /\ m \in 0..m
  BY DEF Sorted, Exact
<1> HIDE DEF m
<1>2. /\ DOMAIN heap = 0..m /\ DOMAIN position = Range(heap)
      /\ \A j \in 0..m : heap[j] \in Range(heap) /\ heap[j] \in Events /\ position[heap[j]] = j
      /\ \A j, k \in 0..m : heap[j] = heap[k] => j = k
  <2>1. Here.h = heap /\ Here.pos = position /\ Exact(Here, n)
    BY DEF Here, Sorted
  <2>2. \A j \in 0..m : position[heap[j]] = j
    BY <1>1, <2>1 DEF Exact
  <2> QED BY <1>1, <2>1, <2>2, ExactProps
<1>3. Size = n
  BY <1>1, <1>2, Places DEF Size
<1>4. Vacated(i) = r
  BY <1>1, <1>3, Zenon DEF Vacated
<1>5. Range(heap) = {heap[j] : j \in 0..m}
  BY <1>2 DEF Range
<1>6. DOMAIN h = 0..m - 1 /\ \A j \in 0..m - 1 : h[j] = (IF j = i THEN heap[m] ELSE heap[j]) /\ j \in 0..m
  BY <1>1
<1>7. h \in [0..m - 1 -> Events]
  BY <1>1, <1>2
<1>8. Range(h) = Range(heap) \ {heap[i]}
  <2>1. Range(h) = {h[j] : j \in 0..m - 1}
    BY <1>6 DEF Range
  <2> HIDE DEF h
  <2>2. ASSUME NEW j \in 0..m - 1 PROVE h[j] \in Range(heap) \ {heap[i]}
    <3>1. m # j
      BY <1>1
    <3> QED BY <1>1, <1>2, <1>6, <3>1
  <2>3. ASSUME NEW j \in 0..m, j # i PROVE \E k \in 0..m - 1 : h[k] = heap[j]
    <3>1. CASE j = m
      <4>1. i \in 0..m - 1
        BY <1>1, <2>3, <3>1
      <4> QED BY <1>6, <3>1, <4>1
    <3>2. CASE j # m
      <4>1. j \in 0..m - 1
        BY <1>1, <3>2
      <4> QED BY <1>6, <2>3, <4>1
    <3> QED BY <3>1, <3>2
  <2> QED BY <1>5, <2>1, <2>2, <2>3
<1>9. pos \in [Range(h) -> 0..m - 1] /\ \A j \in 0..m - 1 : pos[h[j]] = j
  <2>1. \A f \in Range(heap) \ {heap[i]} : pos[f] = IF f = heap[m] THEN i ELSE position[f]
    BY <1>2
  <2>2. ASSUME NEW j \in 0..m - 1 PROVE pos[h[j]] = j
    <3>1. h[j] \in Range(heap) \ {heap[i]}
      BY <1>6, <1>8 DEF Range
    <3>2. m # j
      BY <1>1
    <3> HIDE DEF pos, h
    <3> QED BY <1>1, <1>2, <1>6, <2>1, <3>1, <3>2
  <2>3. ASSUME NEW f \in Range(h) PROVE pos[f] \in 0..m - 1
    <3>1. PICK j \in 0..m - 1 : h[j] = f
      BY <1>6 DEF Range
    <3> HIDE DEF pos, h
    <3> QED BY <2>2, <3>1
  <2>4. DOMAIN pos = Range(h) /\ pos = [f \in DOMAIN pos |-> pos[f]]
    BY <1>2, <1>8
  <2> HIDE DEF pos, h
  <2> QED BY <2>2, <2>3, <2>4
<1>10. r.h = h /\ r.pos = pos
  OBVIOUS
<1> HIDE DEF r, h, pos
<1>11. Exact(r, n - 1)
  BY <1>1, <1>7, <1>9, <1>10 DEF Exact
<1>12. \A j \in 1..m : u[Parent(j)] <= u[j] /\ j \in 0..m /\ Parent(j) \in 0..m /\ Parent(j) < j /\ j > 0
  <2>1. \A j \in 1..n - 1 : j \in 0..n - 1 /\ Parent(j) \in 0..n - 1 /\ Parent(j) < j /\ j > 0
    BY <1>1, Parents
  <2>2. \A j \in 1..m : time[heap[Parent(j)]] <= time[heap[j]]
    BY <1>1 DEF Sorted, Ordered, Here
  <2> QED BY <1>1, <2>1, <2>2
<1>13. \A j \in 0..m : u[j] \in Int
  BY <1>2
<1>14. \A j \in 0..m - 1 : time[r.h[j]] = IF j = i THEN u[m] ELSE u[j]
  BY <1>1, <1>6, <1>10
<1>15. \A j \in 1..m - 1 : j \in 1..m /\ j \in 0..m - 1 /\ Parent(j) \in 0..m - 1
  <2>1. \A j \in 1..m - 1 : j \in 1..m /\ j \in 0..m - 1
    BY <1>1
  <2>2. \A x \in 0..m, j \in 1..m - 1 : x < j => x \in 0..m - 1
    BY <1>1
  <2>3. ASSUME NEW j \in 1..m - 1 PROVE Parent(j) \in 0..m - 1
    <3>1. Parent(j) \in 0..m /\ Parent(j) < j
      BY <1>12, <2>1
    <3> QED BY <2>2, <3>1
  <2> QED BY <2>1, <2>3
<1>16. ASSUME NEW j \in 1..m - 1, j # i, Parent(j) # i PROVE time[r.h[Parent(j)]] <= time[r.h[j]]
  <2> HIDE DEF u
  <2> QED BY <1>12, <1>14, <1>15, <1>16
<1>17. ASSUME i = n - 1 PROVE Ordered(r, time, n - 1)
  <2>1. \A j \in 1..m - 1 : j # i /\ Parent(j) # i
    BY <1>1, <1>15, <1>17
  <2>2. \A j \in 1..m - 1 : time[r.h[Parent(j)]] <= time[r.h[j]]
    BY <1>16, <2>1
  <2> QED BY <1>1, <2>2 DEF Ordered
<1>18. ASSUME i # n - 1 PROVE Near(r, time, n - 1, i)
  <2>1. i \in 0..m - 1
    BY <1>1, <1>18
  <2>2. ASSUME NEW j \in 1..m - 1, i > 0, Parent(j) = i PROVE time[r.h[Parent(i)]] <= time[r.h[j]]
    <3>0. i \in 1..m - 1
      BY <1>1, <2>1, <2>2
    <3>1. i \in 1..m - 1 /\ i # j /\ Parent(i) \in 0..m - 1 /\ Parent(i) # i
      <4>1. Parent(i) < i /\ Parent(j) < j /\ Parent(i) \in 0..m - 1
        BY <1>12, <1>15, <3>0
      <4> QED BY <1>1, <2>2, <3>0, <4>1
    <3>2. time[r.h[Parent(i)]] = u[Parent(i)] /\ time[r.h[j]] = u[j]
      BY <1>14, <1>15, <3>1
    <3>3. u[Parent(i)] <= u[i] /\ u[i] <= u[j]
      BY <1>12, <1>15, <2>2, <3>1
    <3>4. u[Parent(i)] \in Int /\ u[i] \in Int /\ u[j] \in Int
      BY <1>12, <1>13, <1>15, <3>1
    <3> HIDE DEF u
    <3> QED BY <3>2, <3>3, <3>4
  <2> QED BY <1>1, <1>16, <2>1, <2>2 DEF Near
<1> QED BY <1>1, <1>3, <1>4, <1>8, <1>10, <1>11, <1>17, <1>18

\* An entry is deleted.
LEMMA RemovedProps ==
  ASSUME NEW n, Sorted(Here, time, n), time \in [Events -> Int], NEW e \in Range(heap)
  PROVE  /\ n - 1 \in Nat /\ Sorted(Removed(e), time, n - 1)
         /\ Range(Removed(e).h) = Range(heap) \ {e}
<1> DEFINE i == position[e]
<1>1. i \in 0..n - 1 /\ heap[i] = e
  BY ExactProps DEF Sorted, Here
<1>2. CASE i = n - 1
  <2>1. Removed(e) = Vacated(i)
    BY <1>1, <1>2, VacatedProps DEF Removed
  <2> QED BY <1>1, <1>2, <2>1, VacatedProps DEF Sorted
<1>3. CASE i # n - 1
  <2>1. Removed(e) = Settle(Vacated(i), time, i)
    BY <1>1, <1>3, VacatedProps DEF Removed
  <2>2. /\ n - 1 \in Nat /\ Exact(Vacated(i), n - 1) /\ Near(Vacated(i), time, n - 1, i)
        /\ Range(Vacated(i).h) = Range(heap) \ {e}
    BY <1>1, <1>3, VacatedProps
  <2> QED BY <2>1, <2>2, SettleSorts
<1> QED BY <1>2, <1>3

\* The first entry is taken.
LEMMA PoppedProps ==
  ASSUME NEW n, Sorted(Here, time, n), time \in [Events -> Int], n > 0
  PROVE  /\ n - 1 \in Nat /\ Sorted(Popped, time, n - 1)
         /\ Range(Popped.h) = Range(heap) \ {heap[0]}
<1>1. 0 \in 0..n - 1
  BY DEF Sorted, Exact
<1>2. CASE n = 1
  <2>1. Popped = Vacated(0) /\ 0 = n - 1
    BY <1>1, <1>2, VacatedProps DEF Popped
  <2> QED BY <1>1, <2>1, VacatedProps DEF Sorted
<1>3. CASE n # 1
  <2>1. Popped = Sink(Vacated(0), time, 0)
    BY <1>1, <1>3, VacatedProps DEF Popped
  <2>2. 0 # n - 1
    BY <1>3 DEF Sorted, Exact
  <2>3. /\ n - 1 \in Nat /\ Exact(Vacated(0), n - 1) /\ Near(Vacated(0), time, n - 1, 0)
        /\ Range(Vacated(0).h) = Range(heap) \ {heap[0]}
    BY <1>1, <2>2, VacatedProps
  <2>4. 0 > 0 => time[Vacated(0).h[Parent(0)]] <= time[Vacated(0).h[0]]
    OBVIOUS
  <2> QED BY <2>1, <2>3, <2>4, SinkSorts DEF Sorted
<1> QED BY <1>2, <1>3

\* The first entry is one of the earliest.
LEMMA FirstIsEarliest ==
  ASSUME NEW s, NEW n, NEW t \in [Events -> Int], Sorted(s, t, n)
  PROVE  \A j \in 0..n - 1 : t[s.h[0]] <= t[s.h[j]]
<1> DEFINE G == {m \in Nat : \A j \in 0..n - 1 : j < m => t[s.h[0]] <= t[s.h[j]]}
<1>1. n \in Nat /\ \A j \in 0..n - 1 : t[s.h[j]] \in Int
  BY ExactProps DEF Sorted, Exact
<1>2. 0 \in G
  OBVIOUS
<1>3. ASSUME NEW m \in Nat, m \in G PROVE m + 1 \in G
  <2>1. ASSUME NEW j \in 0..n - 1, j < m + 1 PROVE t[s.h[0]] <= t[s.h[j]]
    <3>1. CASE j = 0
      BY <1>1, <3>1
    <3>2. CASE j # 0
      <4>1. j \in 1..n - 1
        BY <1>1, <3>2
      <4>2. Parent(j) \in 0..n - 1 /\ Parent(j) < m
        BY <1>1, <2>1, <4>1, Parents
      <4>3. t[s.h[0]] <= t[s.h[Parent(j)]]
        BY <1>3, <4>2
      <4>4. t[s.h[Parent(j)]] <= t[s.h[j]]
        BY <4>1 DEF Sorted, Ordered
      <4>5. t[s.h[0]] \in Int /\ t[s.h[Parent(j)]] \in Int /\ t[s.h[j]] \in Int
        BY <1>1, <4>2
      <4> QED BY <4>3, <4>4, <4>5
    <3> QED BY <3>1, <3>2
  <2> QED BY <2>1
<1>4. n \in G
  <2> HIDE DEF G
  <2> QED BY <1>1, <1>2, <1>3, AllNat
<1> QED BY <1>1, <1>4

\* Entries stay in order when others change their times.
LEMMA OthersMoved ==
  ASSUME NEW s, NEW n, NEW t, NEW t2, Sorted(s, t, n), \A e \in Range(s.h) : t2[e] = t[e]
  PROVE  Sorted(s, t2, n)
<1>1. \A j \in 1..n - 1 : s.h[j] \in Range(s.h) /\ s.h[Parent(j)] \in Range(s.h)
  BY ExactProps, Parents DEF Sorted, Exact
<1> QED BY <1>1 DEF Sorted, Ordered

\* When one entry changes its time, only that one may be out of order.
LEMMA OneMoved ==
  ASSUME NEW s, NEW n, NEW t \in [Events -> Int], NEW t2, Sorted(s, t, n), NEW i \in 0..n - 1,
         \A e \in Range(s.h) : e # s.h[i] => t2[e] = t[e]
  PROVE  Near(s, t2, n, i)
<1> DEFINE u == [j \in 0..n - 1 |-> t[s.h[j]]]
<1>1. n \in Nat /\ \A j \in 0..n - 1 : s.h[j] \in Range(s.h) /\ u[j] \in Int
  BY ExactProps DEF Sorted, Exact
<1>2. \A j \in 1..n - 1 : j \in 0..n - 1 /\ Parent(j) \in 0..n - 1 /\ Parent(j) < j
  BY <1>1, Parents
<1>3. \A j \in 1..n - 1 : u[Parent(j)] <= u[j]
  BY <1>2 DEF Sorted, Ordered
<1>4. \A j \in 0..n - 1 : j # i => t2[s.h[j]] = u[j]
  <2>1. \A j \in 0..n - 1 : j # i => s.h[j] # s.h[i]
    BY ExactProps DEF Sorted
  <2> QED BY <1>1, <2>1
<1> HIDE DEF u
<1>5. \A j \in 1..n - 1 : j # i /\ Parent(j) # i => t2[s.h[Parent(j)]] <= t2[s.h[j]]
  BY <1>2, <1>3, <1>4
<1>6. ASSUME i > 0, NEW j \in 1..n - 1, Parent(j) = i PROVE t2[s.h[Parent(i)]] <= t2[s.h[j]]
  <2>1. i \in 1..n - 1 /\ Parent(i) \in 0..n - 1 /\ Parent(i) < i /\ i < j
    BY <1>1, <1>2, <1>6
  <2>2. u[Parent(i)] <= u[i] /\ u[i] <= u[j]
    BY <1>3, <1>6, <2>1
  <2>3. u[Parent(i)] \in Int /\ u[i] \in Int /\ u[j] \in Int
    BY <1>1, <1>2, <2>1
  <2>4. Parent(i) # i /\ j # i
    BY <1>1, <1>2, <2>1
  <2> QED BY <1>2, <1>4, <2>1, <2>2, <2>3, <2>4
<1> QED BY <1>5, <1>6 DEF Near

-----------------------------------------------------------------------------
(* The invariant *)

\* Every event has a time, and the entries are in order, their positions exact.
IInv == /\ time \in [Events -> Times]
        /\ last \in Times
        /\ Sorted(Here, time, Size)

\* Times are integers.
LEMMA TimesInt ==
  /\ InitLast \in Times /\ Times \subseteq Int
  /\ \A t \in [Events -> Times] : t \in [Events -> Int]
<1>1. InitLast \in Int /\ MaxTime \in Int /\ InitLast <= MaxTime
  BY HeapAssumption DEF EL!TimeAssumption
<1>2. InitLast \in Times /\ Times \subseteq Int
  BY <1>1 DEF Times
<1> QED BY <1>2

\* What the invariant says of the variables.
LEMMA IInvProps ==
  ASSUME IInv
  PROVE  /\ Size \in Nat /\ DOMAIN heap = 0..Size - 1 /\ DOMAIN position = Range(heap)
         /\ time \in [Events -> Int] /\ Range(heap) \in SUBSET Events
         /\ \A j \in 0..Size - 1 : heap[j] \in Range(heap)
         /\ \A j, k \in 0..Size - 1 : heap[j] = heap[k] => j = k
         /\ \A e \in Range(heap) : position[e] \in 0..Size - 1 /\ heap[position[e]] = e
         /\ Size > 0 => \A e \in Range(heap) : time[heap[0]] <= time[e]
<1>1. Exact(Here, Size) /\ Here.h = heap /\ Here.pos = position /\ time \in [Events -> Int]
  BY TimesInt DEF IInv, Sorted, Here
<1>2. Size \in Nat
  BY <1>1 DEF Exact
<1>3. /\ DOMAIN heap = 0..Size - 1 /\ DOMAIN position = Range(heap)
      /\ \A j \in 0..Size - 1 : heap[j] \in Range(heap) /\ heap[j] \in Events
      /\ \A j, k \in 0..Size - 1 : heap[j] = heap[k] => j = k
      /\ \A e \in Range(heap) : position[e] \in 0..Size - 1 /\ heap[position[e]] = e
  BY <1>1, ExactProps
<1>4. Range(heap) \in SUBSET Events
  BY <1>3
<1>5. \A j \in 0..Size - 1 : time[heap[0]] <= time[heap[j]]
  BY <1>1, FirstIsEarliest DEF IInv
<1> QED BY <1>1, <1>2, <1>3, <1>4, <1>5

\* The invariant holds of what an operation leaves in the array.
LEMMA PutIInv ==
  ASSUME NEW s, NEW m, Put(s), Sorted(s, time', m), time' \in [Events -> Times], last' \in Times
  PROVE  IInv' /\ Range(heap') = Range(s.h)
<1>1. heap' = s.h /\ position' = s.pos /\ m \in Nat
  BY DEF Put, Sorted, Exact
<1>2. DOMAIN heap' = 0..m - 1
  BY <1>1, ExactProps DEF Sorted
<1>3. Size' = m
  BY <1>1, <1>2, Places DEF Size
<1>4. Sorted([h |-> heap', pos |-> position'], time', m)
  BY <1>1 DEF Sorted, Exact, Ordered
<1> QED BY <1>1, <1>3, <1>4 DEF IInv, Here

\* In the initial state the array is empty.
LEMMA InitIInv == Init => IInv
<1> SUFFICES ASSUME Init PROVE IInv
  OBVIOUS
<1>1. /\ DOMAIN heap = {} /\ DOMAIN position = {} /\ time = [e \in Events |-> InitLast]
      /\ heap = [i \in {} |-> 0] /\ position = [e \in {} |-> 0] /\ last = InitLast
  BY DEF Init
<1>2. Size = 0
  BY <1>1, FS_EmptySet DEF Size
<1>3. Range(heap) = {} /\ 0..(0 - 1) = {}
  BY <1>1 DEF Range
<1>4. heap \in [0..(0 - 1) -> Events] /\ position \in [Range(heap) -> 0..(0 - 1)]
  BY <1>1, <1>3
<1>5. Exact(Here, 0)
  BY <1>3, <1>4 DEF Exact, Here
<1>6. Ordered(Here, time, 0)
  BY DEF Ordered
<1>7. time \in [Events -> Times] /\ last \in Times
  BY <1>1, TimesInt
<1> QED BY <1>2, <1>5, <1>6, <1>7 DEF IInv, Sorted

-----------------------------------------------------------------------------
(* The steps: each keeps the invariant and is one of the event list *)

\* An event is put on the list with a time, or has another one.
LEMMA EvlistWith ==
  ASSUME IInv, NEW e \in Events, NEW t \in Times, time' = [time EXCEPT ![e] = t],
         Range(heap') = Range(heap) \cup {e}
  PROVE  [f \in Range(heap') |-> time'[f]] = EL!With(e, t)
<1>1. \A f \in Events : time'[f] = IF f = e THEN t ELSE time[f]
  BY DEF IInv
<1>2. Range(heap) \in SUBSET Events
  BY IInvProps
<1>3. EL!With(e, t) = [f \in Range(heap) \cup {e} |-> IF f = e THEN t ELSE [x \in Range(heap) |-> time[x]][f]]
  BY DEF EL!With, EL!Pending
<1>4. \A f \in Range(heap) \cup {e} :
        time'[f] = IF f = e THEN t ELSE [x \in Range(heap) |-> time[x]][f]
  BY <1>1, <1>2
<1> QED BY <1>3, <1>4

\* An event is taken off the list.
LEMMA EvlistWithout ==
  ASSUME NEW e, time' = time, Range(heap') = Range(heap) \ {e}
  PROVE  [f \in Range(heap') |-> time'[f]] = EL!Without({e})
BY DEF EL!Without, EL!Pending

\* The time of one event changes.
LEMMA TimeSet ==
  ASSUME IInv, NEW e \in Events, NEW t \in Times, time' = [time EXCEPT ![e] = t]
  PROVE  /\ time' \in [Events -> Times] /\ time' \in [Events -> Int]
         /\ \A f \in Range(heap) : f # e => time'[f] = time[f]
<1>1. time' \in [Events -> Times] /\ \A f \in Events : f # e => time'[f] = time[f]
  BY DEF IInv
<1> QED BY <1>1, TimesInt, IInvProps

\* insert()
LEMMA InsertStep ==
  ASSUME IInv, NEW e \in Events, NEW t \in Times, Insert(e, t)
  PROVE  IInv' /\ EL!Next
<1>1. /\ e \notin Range(heap) /\ last <= t /\ time' = [time EXCEPT ![e] = t]
      /\ Put(Added(Here, time', e)) /\ last' = last
  BY IInvProps DEF Insert, InHeap
<1>2. time' \in [Events -> Times] /\ time' \in [Events -> Int]
  BY <1>1, TimeSet
<1>3. Here.h = heap /\ Sorted(Here, time, Size)
  BY DEF Here, IInv
<1>4. Sorted(Here, time', Size)
  <2>1. \A f \in Range(Here.h) : time'[f] = time[f]
    BY <1>1, <1>3, TimeSet
  <2> QED BY <1>3, <2>1, OthersMoved
<1>5. /\ Sorted(Added(Here, time', e), time', Size + 1)
      /\ Range(Added(Here, time', e).h) = Range(heap) \cup {e}
  <2>1. Size \in Nat
    BY IInvProps
  <2> QED BY <1>1, <1>2, <1>3, <1>4, <2>1, AddedProps
<1>6. IInv' /\ Range(heap') = Range(heap) \cup {e}
  <2>1. last' \in Times
    BY <1>1 DEF IInv
  <2> QED BY <1>1, <1>2, <1>5, <2>1, PutIInv
<1>7. EL!Insert(e, t) /\ e \notin EL!Pending
  <2>1. [f \in Range(heap') |-> time'[f]] = EL!With(e, t)
    BY <1>1, <1>6, EvlistWith
  <2> QED BY <1>1, <2>1 DEF EL!Insert, EL!Pending
<1> QED BY <1>6, <1>7 DEF EL!Next, EL!Times, Times

\* update()
LEMMA UpdateStep ==
  ASSUME IInv, NEW e \in Events, NEW t \in Times, Update(e, t)
  PROVE  IInv' /\ EL!Next
<1> DEFINE i == position[e]
<1>1. /\ e \in Range(heap) /\ last <= t /\ time' = [time EXCEPT ![e] = t]
      /\ Put(Settle(Here, time', i)) /\ last' = last
  BY IInvProps DEF Update, InHeap
<1>2. time' \in [Events -> Times] /\ time' \in [Events -> Int]
  BY <1>1, TimeSet
<1>3. Here.h = heap /\ Sorted(Here, time, Size) /\ i \in 0..Size - 1 /\ heap[i] = e
      /\ time \in [Events -> Int]
  BY <1>1, IInvProps DEF Here, IInv
<1>4. Near(Here, time', Size, i)
  <2>1. \A f \in Range(Here.h) : f # Here.h[i] => time'[f] = time[f]
    BY <1>1, <1>3, TimeSet
  <2> QED BY <1>3, <2>1, OneMoved
<1>5. /\ Sorted(Settle(Here, time', i), time', Size)
      /\ Range(Settle(Here, time', i).h) = Range(heap)
  BY <1>2, <1>3, <1>4, SettleSorts DEF Sorted
<1>6. IInv' /\ Range(heap') = Range(heap) \cup {e}
  <2>1. last' \in Times
    BY <1>1 DEF IInv
  <2> QED BY <1>1, <1>2, <1>5, <2>1, PutIInv
<1>7. EL!Update(e, t)
  <2>1. [f \in Range(heap') |-> time'[f]] = EL!With(e, t)
    BY <1>1, <1>6, EvlistWith
  <2> QED BY <1>1, <2>1 DEF EL!Update, EL!Current, EL!Pending
<1> QED BY <1>6, <1>7 DEF EL!Next, EL!Times, Times

\* cancel()
LEMMA CancelStep ==
  ASSUME IInv, NEW e \in Events, Cancel(e)
  PROVE  IInv' /\ EL!Next
<1>1. e \in Range(heap) /\ Put(Removed(e)) /\ time' = time /\ last' = last
  BY IInvProps DEF Cancel, InHeap
<1>2. /\ Sorted(Removed(e), time, Size - 1)
      /\ Range(Removed(e).h) = Range(heap) \ {e}
  BY <1>1, IInvProps, RemovedProps DEF IInv
<1>3. IInv' /\ Range(heap') = Range(heap) \ {e}
  <2>1. last' \in Times /\ time' \in [Events -> Times] /\ Sorted(Removed(e), time', Size - 1)
    BY <1>1, <1>2 DEF IInv
  <2> QED BY <1>1, <1>2, <2>1, PutIInv
<1>4. EL!Cancel(e)
  <2>1. [f \in Range(heap') |-> time'[f]] = EL!Without({e})
    BY <1>1, <1>3, EvlistWithout
  <2> QED BY <1>1, <2>1 DEF EL!Cancel, EL!Current, EL!Pending
<1> QED BY <1>3, <1>4 DEF EL!Next

\* delete_min() takes one of the earliest events of the list.
LEMMA TakesMin ==
  ASSUME IInv, Size > 0
  PROVE  /\ heap[0] \in Range(heap) /\ heap[0] \in Events /\ time[heap[0]] \in Times
         /\ EL!IsMin(heap[0])
         /\ Sorted(Popped, time, Size - 1)
         /\ Range(Popped.h) = Range(heap) \ {heap[0]}
<1>1. heap[0] \in Range(heap) /\ Range(heap) \in SUBSET Events
  BY IInvProps
<1>2. \A e \in Range(heap) : time[heap[0]] <= time[e]
  BY IInvProps
<1>3. EL!IsMin(heap[0])
  BY <1>1, <1>2 DEF EL!IsMin, EL!Pending
<1>4. Sorted(Popped, time, Size - 1) /\ Range(Popped.h) = Range(heap) \ {heap[0]}
  BY IInvProps, PoppedProps DEF IInv
<1> QED BY <1>1, <1>3, <1>4 DEF IInv

\* delete_min()
LEMMA DeleteMinStep ==
  ASSUME IInv, DeleteMin
  PROVE  IInv' /\ EL!Next
<1>0. PICK e : e = heap[0]
  OBVIOUS
<1>1. Size > 0 /\ Put(Popped) /\ time' = time /\ last' = time[e]
  BY <1>0 DEF DeleteMin
<1>2. /\ e \in Range(heap) /\ e \in Events /\ time[e] \in Times /\ EL!IsMin(e)
      /\ Sorted(Popped, time, Size - 1) /\ Range(Popped.h) = Range(heap) \ {e}
  BY <1>0, <1>1, TakesMin
<1>3. IInv' /\ Range(heap') = Range(heap) \ {e}
  <2>1. last' \in Times /\ time' \in [Events -> Times] /\ Sorted(Popped, time', Size - 1)
    BY <1>1, <1>2 DEF IInv
  <2> QED BY <1>1, <1>2, <2>1, PutIInv
<1>4. EL!DeleteMin(e)
  <2>1. [f \in Range(heap') |-> time'[f]] = EL!Without({e})
    BY <1>1, <1>3, EvlistWithout
  <2> QED BY <1>1, <1>2, <2>1 DEF EL!DeleteMin
<1>5. \E x \in Events : EL!DeleteMin(x)
  BY <1>2, <1>4
<1> QED BY <1>3, <1>5 DEF EL!Next

\* delete_min() of a repeating event
LEMMA RenewStep ==
  ASSUME IInv, NEW t \in Times, DeleteMinAndRenew(t)
  PROVE  IInv' /\ EL!Next
<1>0. PICK e : e = heap[0]
  OBVIOUS
<1>1. /\ Size > 0 /\ time[e] <= t /\ last' = time[e] /\ time' = [time EXCEPT ![e] = t]
      /\ Put(Added(Popped, time', e))
  BY <1>0 DEF DeleteMinAndRenew
<1>2. /\ e \in Range(heap) /\ e \in Events /\ time[e] \in Times /\ EL!IsMin(e)
      /\ Sorted(Popped, time, Size - 1) /\ Range(Popped.h) = Range(heap) \ {e}
  BY <1>0, <1>1, TakesMin
<1>3. time' \in [Events -> Times] /\ time' \in [Events -> Int]
  BY <1>1, <1>2, TimeSet
<1>4. Sorted(Popped, time', Size - 1)
  <2>1. \A f \in Range(Popped.h) : time'[f] = time[f]
    BY <1>1, <1>2, TimeSet
  <2> QED BY <1>2, <2>1, OthersMoved
<1>5. /\ Sorted(Added(Popped, time', e), time', (Size - 1) + 1)
      /\ Range(Added(Popped, time', e).h) = Range(heap) \cup {e}
  <2>1. e \in Events /\ e \notin Range(Popped.h)
    BY <1>2
  <2>2. Size - 1 \in Nat
    BY <1>1, IInvProps
  <2> QED BY <1>2, <1>3, <1>4, <2>1, <2>2, AddedProps
<1>6. IInv' /\ Range(heap') = Range(heap) \cup {e}
  <2>1. last' \in Times
    BY <1>1, <1>2
  <2> QED BY <1>1, <1>3, <1>5, <2>1, PutIInv
<1>7. EL!DeleteMinAndRenew(e, t)
  <2>1. [f \in Range(heap') |-> time'[f]] = EL!With(e, t)
    BY <1>1, <1>2, <1>6, EvlistWith
  <2> QED BY <1>1, <1>2, <2>1 DEF EL!DeleteMinAndRenew
<1> QED BY <1>2, <1>6, <1>7 DEF EL!Next, EL!Times, Times

\* The end of a run
LEMMA AdvanceStep ==
  ASSUME IInv, NEW t \in Times, AdvanceTo(t)
  PROVE  IInv' /\ EL!Next
<1>1. /\ last <= t /\ (Size > 0 => t <= time[heap[0]]) /\ last' = t
      /\ heap' = heap /\ position' = position /\ time' = time
  BY DEF AdvanceTo
<1>2. IInv'
  <2>1. Size' = Size /\ Here' = Here
    BY <1>1 DEF Size, Here
  <2> QED BY <1>1, <2>1 DEF IInv
<1>3. ASSUME NEW e \in Range(heap) PROVE t <= time[e]
  <2>1. Size > 0 /\ heap[0] \in Range(heap) /\ Range(heap) \in SUBSET Events /\ time[heap[0]] <= time[e]
    BY IInvProps
  <2>2. time[heap[0]] \in Int /\ time[e] \in Int /\ t \in Int
    BY <2>1, TimesInt, IInvProps
  <2> QED BY <1>1, <2>1, <2>2
<1>4. EL!AdvanceTo(t)
  BY <1>1, <1>3 DEF EL!AdvanceTo, EL!Pending
<1> QED BY <1>2, <1>4 DEF EL!Next, EL!Times, Times

\* Every step.
LEMMA NextStep == IInv /\ [Next]_vars => IInv' /\ [EL!Next]_EL!vars
<1> SUFFICES ASSUME IInv, [Next]_vars PROVE IInv' /\ [EL!Next]_EL!vars
  OBVIOUS
<1>1. ASSUME Next PROVE IInv' /\ EL!Next
  BY <1>1, InsertStep, UpdateStep, CancelStep, DeleteMinStep, RenewStep, AdvanceStep DEF Next
<1>2. ASSUME UNCHANGED vars PROVE IInv' /\ UNCHANGED EL!vars
  <2>1. Size' = Size /\ Here' = Here /\ time' = time /\ last' = last /\ heap' = heap
    BY <1>2 DEF vars, Size, Here
  <2> QED BY <2>1 DEF IInv, EL!vars
<1> QED BY <1>1, <1>2

-----------------------------------------------------------------------------
(* The theorems *)

\* No event is earlier than its parent in the array, whatever was inserted,
\* rescheduled, cancelled, taken or renewed: swim() and sink() repair every
\* array that an operation of the dictionary leaves.
THEOREM HeapAlwaysOrdered == Spec => []HeapOrder
<1>1. IInv => HeapOrder
  <2> SUFFICES ASSUME IInv, NEW i \in DOMAIN heap \ {0}
               PROVE  ~(time[heap[i]] < time[heap[Parent(i)]])
    BY DEF HeapOrder
  <2>1. i \in 1..Size - 1 /\ Size \in Nat /\ i \in 0..Size - 1
    BY IInvProps
  <2>2. time[heap[Parent(i)]] <= time[heap[i]]
    BY <2>1 DEF IInv, Sorted, Ordered, Here
  <2>3. time[heap[Parent(i)]] \in Int /\ time[heap[i]] \in Int
    <3>1. Parent(i) \in 0..Size - 1
      BY <2>1, Parents
    <3> QED BY <2>1, <3>1, IInvProps
  <2> QED BY <2>2, <2>3
<1> QED BY <1>1, InitIInv, NextStep, PTL DEF Spec

\* The position of every event in the array is its place, and it has no other.
THEOREM PositionsAlwaysExact == Spec => []PositionsExact
<1>1. IInv => PositionsExact
  <2> SUFFICES ASSUME IInv PROVE PositionsExact
    OBVIOUS
  <2>1. \A e \in DOMAIN position : heap[position[e]] = e
    BY IInvProps
  <2>2. IsInjective(heap)
    BY IInvProps DEF IsInjective
  <2> QED BY <2>1, <2>2 DEF PositionsExact
<1> QED BY <1>1, InitIInv, NextStep, PTL DEF Spec

\* The heap implements the event list: what get_min() and delete_min() find at
\* the root is one of the earliest pending events, and every operation changes
\* the pending events and their times as the event list promises.
THEOREM ImplementsEventList == Spec => EventListSpec
<1>1. Init => EL!Init
  <2> SUFFICES ASSUME Init PROVE EL!Init
    OBVIOUS
  <2>1. Range(heap) = {} /\ last = InitLast
    BY DEF Init, Range
  <2>2. [e \in Range(heap) |-> time[e]] = [e \in {} |-> InitLast]
    BY <2>1
  <2> QED BY <2>1, <2>2 DEF EL!Init
<1> QED BY <1>1, InitIInv, NextStep, PTL DEF Spec, EventListSpec, EL!Spec

-----------------------------------------------------------------------------
(* The event list itself, for every implementation of it *)

VARIABLE evlist

AL == INSTANCE EventList

\* The list with one event added or moved: its pending events and times.
LEMMA ListWith ==
  ASSUME AL!TypeOK, NEW e \in Events, NEW t \in AL!Times
  PROVE  /\ DOMAIN AL!With(e, t) = AL!Pending \cup {e}
         /\ AL!With(e, t) \in [AL!Pending \cup {e} -> AL!Times]
         /\ AL!With(e, t)[e] = t
         /\ \A f \in AL!Pending \ {e} : AL!With(e, t)[f] = evlist[f]
BY DEF AL!With, AL!TypeOK, AL!Pending

\* The list without some of its events.
LEMMA ListWithout ==
  ASSUME AL!TypeOK, NEW X
  PROVE  /\ DOMAIN AL!Without(X) = AL!Pending \ X
         /\ AL!Without(X) \in [AL!Pending \ X -> AL!Times]
         /\ \A f \in AL!Pending \ X : AL!Without(X)[f] = evlist[f]
BY DEF AL!Without, AL!TypeOK, AL!Pending

\* What the checks call TypeOK and NothingInThePast is inductive.
ListIInv == AL!TypeOK /\ AL!NothingInThePast

\* Times are integers.
LEMMA ListTimes ==
  ASSUME AL!TimeAssumption
  PROVE  AL!Times \subseteq Int
BY DEF AL!Times, AL!TimeAssumption

\* In the initial state there are no events.
LEMMA ListInit ==
  ASSUME AL!TimeAssumption
  PROVE  AL!Init => ListIInv
BY DEF AL!TimeAssumption, AL!Init, ListIInv, AL!TypeOK, AL!NothingInThePast, AL!Pending, AL!Times

\* What becomes of the parts of ListIInv when an event is put at a time t that is
\* not before the new last, and last is not after any other pending event.
LEMMA ListWithIInv ==
  ASSUME AL!TimeAssumption, ListIInv, NEW e \in Events, NEW t \in AL!Times,
         evlist' = AL!With(e, t), last' \in AL!Times, last' <= t,
         \A f \in AL!Pending : last' <= evlist[f] \/ f = e
  PROVE  ListIInv'
<1>1. /\ AL!Pending' = AL!Pending \cup {e}
      /\ evlist' \in [AL!Pending' -> AL!Times]
      /\ evlist'[e] = t
      /\ \A f \in AL!Pending \ {e} : evlist'[f] = evlist[f]
  BY ListWith DEF ListIInv, AL!Pending
<1>2. AL!TypeOK'
  BY <1>1 DEF ListIInv, AL!TypeOK
<1>3. AL!NothingInThePast'
  BY <1>1 DEF AL!NothingInThePast
<1> QED BY <1>2, <1>3 DEF ListIInv

\* The same when an event is taken off.
LEMMA ListWithoutIInv ==
  ASSUME AL!TimeAssumption, ListIInv, NEW e \in Events, evlist' = AL!Without({e}), last' \in AL!Times,
         \A f \in AL!Pending : last' <= evlist[f]
  PROVE  ListIInv'
<1>1. /\ AL!Pending' = AL!Pending \ {e}
      /\ evlist' \in [AL!Pending' -> AL!Times]
      /\ \A f \in AL!Pending \ {e} : evlist'[f] = evlist[f]
  BY ListWithout DEF ListIInv, AL!Pending
<1>2. AL!TypeOK'
  BY <1>1 DEF ListIInv, AL!TypeOK
<1>3. AL!NothingInThePast'
  BY <1>1 DEF AL!NothingInThePast
<1> QED BY <1>2, <1>3 DEF ListIInv

\* Every operation keeps the types and leaves nothing in the past.
LEMMA ListNext ==
  ASSUME AL!TimeAssumption
  PROVE  ListIInv /\ [AL!Next]_AL!vars => ListIInv'
<1> SUFFICES ASSUME ListIInv, [AL!Next]_AL!vars PROVE ListIInv'
  OBVIOUS
<1>0. /\ last \in AL!Times
      /\ \A f \in AL!Pending : evlist[f] \in AL!Times /\ last <= evlist[f]
  BY DEF ListIInv, AL!TypeOK, AL!NothingInThePast
<1>1. ASSUME NEW e \in Events, NEW t \in AL!Times, AL!Insert(e, t) PROVE ListIInv'
  BY <1>0, <1>1, ListWithIInv DEF AL!Insert
<1>2. ASSUME NEW e \in Events, NEW t \in AL!Times, AL!Update(e, t) PROVE ListIInv'
  BY <1>0, <1>2, ListWithIInv DEF AL!Update
<1>3. ASSUME NEW e \in Events, NEW t \in AL!Times, AL!DeleteMinAndRenew(e, t)
      PROVE ListIInv'
  BY <1>0, <1>3, ListWithIInv DEF AL!DeleteMinAndRenew, AL!IsMin
<1>4. ASSUME NEW e \in Events, AL!Cancel(e) PROVE ListIInv'
  BY <1>0, <1>4, ListWithoutIInv DEF AL!Cancel
<1>5. ASSUME NEW e \in Events, AL!DeleteMin(e) PROVE ListIInv'
  BY <1>0, <1>5, ListWithoutIInv DEF AL!DeleteMin, AL!IsMin
<1>6. ASSUME NEW t \in AL!Times, AL!AdvanceTo(t) PROVE ListIInv'
  BY <1>6 DEF AL!AdvanceTo, ListIInv, AL!TypeOK, AL!NothingInThePast, AL!Pending
<1>7. CASE UNCHANGED AL!vars
  BY <1>7 DEF AL!vars, ListIInv, AL!TypeOK, AL!NothingInThePast, AL!Pending
<1> QED BY <1>1, <1>2, <1>3, <1>4, <1>5, <1>6, <1>7 DEF AL!Next

\* Every step of the event list leaves last where it is or moves it forward.
LEMMA ListLast ==
  ASSUME AL!TimeAssumption
  PROVE  ListIInv /\ [AL!Next]_AL!vars => [last <= last']_AL!vars
<1> SUFFICES ASSUME ListIInv, [AL!Next]_AL!vars PROVE last <= last'
  OBVIOUS
<1>1. last \in Int /\ \A e \in AL!Pending : evlist[e] \in Int /\ last <= evlist[e]
  BY ListTimes DEF ListIInv, AL!TypeOK, AL!NothingInThePast
<1>2. ASSUME UNCHANGED last PROVE last <= last'
  BY <1>1, <1>2
<1>3. ASSUME NEW e \in AL!Pending, last' = evlist[e] PROVE last <= last'
  BY <1>1, <1>3
<1> QED BY <1>2, <1>3 DEF AL!Next, AL!vars, AL!Insert, AL!Update, AL!DeleteMinAndRenew, AL!Cancel,
                          AL!DeleteMin, AL!AdvanceTo, AL!IsMin

-----------------------------------------------------------------------------

\* The pending events and last keep their types.
THEOREM TypeCorrect ==
  ASSUME AL!TimeAssumption
  PROVE  AL!Spec => []AL!TypeOK
<1>1. ListIInv => AL!TypeOK
  BY DEF ListIInv
<1> QED BY <1>1, ListInit, ListNext, PTL DEF AL!Spec

\* delete_min() never meets its assertion: no pending event is in the past.
THEOREM NoPastEvents ==
  ASSUME AL!TimeAssumption
  PROVE  AL!Spec => []AL!NothingInThePast
<1>1. ListIInv => AL!NothingInThePast
  BY DEF ListIInv
<1> QED BY <1>1, ListInit, ListNext, PTL DEF AL!Spec

\* Events are delivered in the order of their times, whatever is inserted,
\* moved, cancelled or renewed in between.
THEOREM InOrder ==
  ASSUME AL!TimeAssumption
  PROVE  AL!Spec => AL!DeliveryInOrder
<1> QED BY ListInit, ListNext, ListLast, PTL DEF AL!Spec, AL!DeliveryInOrder
=============================================================================
