------------------------------ MODULE SyncProofs ------------------------------
(***************************************************************************)
(* Theorems about Sync, for every group of simulators: any ranks, ways,    *)
(* clocks, delays and limits.                                              *)
(***************************************************************************)
EXTENDS Sync, FiniteSetTheorems, SequenceTheorems, WellFoundedInduction, TLAPS

-----------------------------------------------------------------------------
(* Minima *)

\* A set of natural numbers has a smallest member.
LEMMA MinProps ==
  ASSUME NEW M, M \subseteq Nat, M # {}
  PROVE  Min(M) \in M /\ \A x \in M : Min(M) <= x
<1> DEFINE T == {0..x : x \in M}
           R == StrictSubsetOrdering(Nat)
<1>1. IsWellFoundedOn(R, FiniteSubsetsOf(Nat))
  BY FS_StrictSubsetOrderingWellFounded
<1>2. T \subseteq FiniteSubsetsOf(Nat) /\ T # {}
  <2>1. ASSUME NEW x \in M PROVE 0..x \subseteq Nat /\ IsFiniteSet(0..x)
    BY FS_Interval
  <2> QED BY <2>1 DEF FiniteSubsetsOf
<1>3. PICK s \in T : \A t \in T : ~(<<t, s>> \in R)
  <2> HIDE DEF T, R
  <2> QED BY <1>1, <1>2, WFMin
<1>4. PICK m \in M : s = 0..m
  BY <1>3
<1>5. ASSUME NEW x \in M PROVE m <= x
  <2>1. SUFFICES ASSUME x < m PROVE FALSE
    OBVIOUS
  <2>2. 0..x \in T /\ 0..x \subseteq 0..m /\ 0..x # 0..m
    BY <2>1
  <2>3. <<0..x, 0..m>> \in R
    BY <2>2 DEF StrictSubsetOrdering
  <2> QED BY <1>3, <1>4, <2>2, <2>3
<1>6. \E z \in M : \A x \in M : z <= x
  BY <1>5
<1> QED BY <1>6 DEF Min

\* The smaller of two numbers.
LEMMA MinPair ==
  ASSUME NEW a \in Int, NEW b \in Int
  PROVE  Min({a, b}) = IF a <= b THEN a ELSE b
<1> DEFINE m == IF a <= b THEN a ELSE b
<1>1. m \in {a, b} /\ \A x \in {a, b} : m <= x
  OBVIOUS
<1>2. Min({a, b}) \in {a, b} /\ \A x \in {a, b} : Min({a, b}) <= x
  <2> HIDE DEF m
  <2> QED BY <1>1 DEF Min
<1> QED BY <1>1, <1>2

\* A bounded set of natural numbers has a largest member.
LEMMA MaxProps ==
  ASSUME NEW b \in Nat, NEW M, M \subseteq 0..b, M # {}
  PROVE  Max(M) \in M /\ \A x \in M : x <= Max(M)
<1> DEFINE D == {b - x : x \in M}
<1>1. D \subseteq Nat /\ D # {}
  <2>1. ASSUME NEW x \in M PROVE b - x \in Nat
    OBVIOUS
  <2> QED BY <2>1
<1>2. Min(D) \in D /\ \A y \in D : Min(D) <= y
  <2> HIDE DEF D
  <2> QED BY <1>1, MinProps
<1>3. PICK m \in M : Min(D) = b - m
  BY <1>2
<1>4. ASSUME NEW x \in M PROVE x <= m
  <2>1. b - m <= b - x /\ x \in 0..b /\ m \in 0..b
    BY <1>2, <1>3
  <2> QED BY <2>1
<1>5. \A x \in M : m >= x
  BY <1>4
<1>6. Max(M) \in M /\ \A x \in M : Max(M) >= x
  BY <1>5 DEF Max
<1> QED BY <1>6

-----------------------------------------------------------------------------
(* The division of the simulators *)

\* The places where w pieces of n simulators end: m of them are longer by one.
LEMMA Cuts ==
  ASSUME NEW n \in Nat \ {0}, NEW w \in Nat \ {0}
  PROVE  LET k == n \div w
             m == n % w
             from(i) == i * k + Min({i, m})
             N == Min({w, n})
         IN /\ N \in Nat /\ N > 0
            /\ \A i \in Nat : from(i) \in Nat
            /\ \A i, j \in Nat : i <= j => from(i) <= from(j)
            /\ from(0) = 0 /\ from(N) = n /\ from(1) >= 1
<1> DEFINE k == n \div w
           m == n % w
           from(i) == i * k + Min({i, m})
           N == Min({w, n})
<1>1. k \in Nat /\ m \in Nat /\ m < w /\ n = w * k + m
  OBVIOUS
<1>2. N \in Nat /\ N > 0 /\ (N = w \/ (N = n /\ n < w))
  BY MinPair
<1>3. n < w => k = 0 /\ m = n
  OBVIOUS
<1>4. \A i \in Nat : Min({i, m}) = IF i <= m THEN i ELSE m
  BY <1>1, MinPair
<1> HIDE DEF N, k, m
<1>5. ASSUME NEW i \in Nat PROVE from(i) \in Nat
  BY <1>1, <1>4
<1>6. ASSUME NEW i \in Nat, NEW j \in Nat, i <= j PROVE from(i) <= from(j)
  <2>1. i * k <= j * k /\ i * k \in Nat /\ j * k \in Nat
    BY <1>1, <1>6
  <2>2. Min({i, m}) <= Min({j, m}) /\ Min({i, m}) \in Nat /\ Min({j, m}) \in Nat
    BY <1>1, <1>4, <1>6
  <2> QED BY <2>1, <2>2
<1>7. from(0) = 0
  BY <1>1, <1>4
<1>8. from(N) = n
  <2>1. CASE N = w
    <3>1. Min({w, m}) = m
      BY <1>1, <1>4
    <3> QED BY <1>1, <2>1, <3>1
  <2>2. CASE N = n /\ n < w
    <3>1. Min({n, m}) = n /\ n * k = 0
      BY <1>1, <1>3, <1>4, <2>2
    <3> QED BY <2>2, <3>1
  <2> QED BY <1>2, <2>1, <2>2
<1>9. from(1) >= 1
  <2>1. k # 0 \/ m # 0
    <3>1. k = 0 => w * k = 0
      OBVIOUS
    <3> QED BY <1>1, <3>1
  <2>2. Min({1, m}) = IF 1 <= m THEN 1 ELSE m
    BY <1>4
  <2>3. 1 * k = k
    BY <1>1
  <2> QED BY <1>1, <2>1, <2>2, <2>3
<1> QED BY <1>2, <1>5, <1>6, <1>7, <1>8, <1>9 DEF N, k, m

\* The pieces of a rank are all of its simulators, each once, and its first
\* process has some.
LEMMA SplitProps ==
  ASSUME NEW sq \in Seq(Sims), sq # <<>>, NEW w \in Nat \ {0}
  PROVE  LET P == Split(sq, w)
             D == DOMAIN P
         IN /\ 1 \in D /\ D \subseteq Nat /\ IsFiniteSet(D)
            /\ \A i \in D : P[i] \in Seq(Sims) /\ ToSet(P[i]) \subseteq ToSet(sq)
            /\ \A x \in ToSet(sq) : \E i \in D : x \in ToSet(P[i])
            /\ IsInjective(sq) =>
                 \A i, j \in D : i # j => ToSet(P[i]) \cap ToSet(P[j]) = {}
            /\ ToSet(P[1]) # {}
<1> DEFINE n == Len(sq)
           from(i) == i * (n \div w) + Min({i, n % w})
           N == Min({w, n})
           P == [i \in 1..N |-> SubSeq(sq, from(i - 1) + 1, from(i))]
<1>1. n \in Nat \ {0} /\ DOMAIN sq = 1..n
  OBVIOUS
<1>2. Split(sq, w) = P
  BY DEF Split
<1>3. /\ N \in Nat /\ N > 0
      /\ \A i \in Nat : from(i) \in Nat
      /\ \A i, j \in Nat : i <= j => from(i) <= from(j)
      /\ from(0) = 0 /\ from(N) = n /\ from(1) >= 1
  <2> HIDE DEF n
  <2> QED BY <1>1, Cuts
<1>4. DOMAIN P = 1..N /\ \A i \in 1..N : P[i] = SubSeq(sq, from(i - 1) + 1, from(i))
  OBVIOUS
<1> HIDE DEF n, N, from, P
\* What a piece holds.
<1>7. ASSUME NEW i \in 1..N
      PROVE  /\ P[i] \in Seq(Sims)
             /\ ToSet(P[i]) = {sq[j] : j \in from(i - 1) + 1..from(i)}
             /\ i - 1 \in Nat /\ from(i - 1) \in Nat /\ from(i) \in Nat
             /\ from(i - 1) + 1..from(i) \subseteq 1..n
  <2>1. i - 1 \in Nat /\ i \in Nat /\ i <= N /\ N \in Nat
    BY <1>3
  <2>2. from(i - 1) \in Nat /\ from(i) \in Nat /\ from(i) <= from(N)
    BY <1>3, <2>1
  <2>3. ASSUME NEW j \in from(i - 1) + 1..from(i) PROVE j \in 1..n
    BY <1>1, <1>3, <2>2
  <2> DEFINE a == from(i - 1) + 1
             b == from(i)
  <2>4. P[i] = SubSeq(sq, a, b) /\ a \in Nat /\ a > 0 /\ b \in Nat /\ a..b \subseteq 1..Len(sq)
    <3>1. a \in Nat /\ a > 0 /\ b \in Nat /\ a..b \subseteq 1..n
      BY <2>2, <2>3
    <3>2. P[i] = SubSeq(sq, a, b)
      BY <1>4
    <3> HIDE DEF a, b
    <3> QED BY <3>1, <3>2 DEF n
  <2> HIDE DEF a, b
  <2>5. /\ SubSeq(sq, a, b) \in Seq(Sims)
        /\ Len(SubSeq(sq, a, b)) = IF a <= b THEN b - a + 1 ELSE 0
        /\ \A j \in 1..(b - a + 1) : SubSeq(sq, a, b)[j] = sq[a + j - 1]
    <3>1. a \in Int /\ b \in Int /\ \A l \in a..b : sq[l] \in Sims
      BY <2>4
    <3> QED BY <3>1, SubSeqProperties
  <2>6. DOMAIN SubSeq(sq, a, b) = 1..Len(SubSeq(sq, a, b))
    BY <2>5
  <2>7. ToSet(SubSeq(sq, a, b)) = {sq[j] : j \in a..b}
    <3>1. ASSUME NEW j \in a..b PROVE sq[j] \in ToSet(SubSeq(sq, a, b))
      <4> DEFINE l == j - a + 1
      <4>1. l \in 1..(b - a + 1) /\ a <= b /\ a + l - 1 = j
        BY <2>4
      <4> HIDE DEF l
      <4>2. l \in DOMAIN SubSeq(sq, a, b) /\ SubSeq(sq, a, b)[l] = sq[j]
        BY <2>5, <2>6, <4>1
      <4> QED BY <4>2 DEF ToSet
    <3>2. ASSUME NEW j \in DOMAIN SubSeq(sq, a, b)
          PROVE  \E l \in a..b : SubSeq(sq, a, b)[j] = sq[l]
      <4>1. a <= b /\ j \in 1..(b - a + 1)
        BY <2>4, <2>5, <2>6
      <4>2. a + j - 1 \in a..b
        BY <2>4, <4>1
      <4> QED BY <2>5, <4>1, <4>2
    <3>3. ToSet(SubSeq(sq, a, b)) = {SubSeq(sq, a, b)[j] : j \in DOMAIN SubSeq(sq, a, b)}
      BY DEF ToSet
    <3> HIDE DEF a, b
    <3> QED BY <3>1, <3>2, <3>3
  <2> QED BY <2>1, <2>2, <2>3, <2>4, <2>5, <2>7 DEF a, b
<1>8. ASSUME NEW i \in 1..N PROVE ToSet(P[i]) \subseteq ToSet(sq)
  <2>1. ASSUME NEW j \in from(i - 1) + 1..from(i) PROVE sq[j] \in ToSet(sq)
    <3>1. j \in DOMAIN sq
      BY <1>1, <1>7
    <3> QED BY <3>1 DEF ToSet
  <2>2. ASSUME NEW x \in ToSet(P[i]) PROVE x \in ToSet(sq)
    <3>1. x \in {sq[j] : j \in from(i - 1) + 1..from(i)}
      BY <1>7, <2>2
    <3> QED BY <2>1, <3>1
  <2> QED BY <2>2
\* The place j is in the first piece that does not end before it.
<1>9. ASSUME NEW j \in 1..n
      PROVE  \E i \in 1..N : j \in from(i - 1) + 1..from(i)
  <2> DEFINE I == {i \in 1..N : j <= from(i)}
  <2>1. I \subseteq Nat /\ N \in I
    <3>1. N \in 1..N /\ j <= from(N)
      BY <1>1, <1>3
    <3> QED BY <1>3, <3>1
  <2>2. Min(I) \in I /\ \A x \in I : Min(I) <= x
    <3> HIDE DEF I
    <3> QED BY <2>1, MinProps
  <2>3. PICK i \in I : \A x \in I : i <= x
    BY <2>2
  <2>4. i \in 1..N /\ j <= from(i) /\ i - 1 \in Nat /\ from(i) \in Nat /\ from(i - 1) \in Nat
    BY <2>3, <1>7
  <2>5. from(i - 1) < j
    <3>1. CASE i = 1
      BY <1>1, <1>3, <3>1
    <3>2. CASE i # 1
      <4>1. i - 1 \in 1..N /\ ~(i <= i - 1)
        BY <1>3, <2>4, <3>2
      <4>2. i - 1 \notin I
        BY <2>3, <4>1
      <4> QED BY <2>4, <4>1, <4>2, <1>1
    <3> QED BY <3>1, <3>2
  <2>6. j \in from(i - 1) + 1..from(i)
    BY <1>1, <2>4, <2>5
  <2> QED BY <2>4, <2>6
<1>10. ASSUME NEW x \in ToSet(sq) PROVE \E i \in 1..N : x \in ToSet(P[i])
  <2>1. PICK j \in 1..n : x = sq[j]
    BY <1>1 DEF ToSet
  <2> QED BY <2>1, <1>7, <1>9
<1>11. ASSUME IsInjective(sq), NEW i \in 1..N, NEW j \in 1..N, i < j,
              NEW x \in ToSet(P[i]) \cap ToSet(P[j])
       PROVE  FALSE
  <2>1. PICK a \in from(i - 1) + 1..from(i) : x = sq[a]
    BY <1>7, <1>11
  <2>2. PICK b \in from(j - 1) + 1..from(j) : x = sq[b]
    BY <1>7, <1>11
  <2>3. from(i) \in Nat /\ from(j - 1) \in Nat /\ from(i) <= from(j - 1)
    <3>1. i \in Nat /\ j - 1 \in Nat /\ i <= j - 1
      BY <1>3, <1>11
    <3> QED BY <1>3, <3>1
  <2>4. a \in 1..n /\ b \in 1..n
    BY <1>7
  <2>5. a = b
    BY <1>1, <1>11, <2>1, <2>2, <2>4 DEF IsInjective
  <2> QED BY <2>3, <2>4, <2>5
<1>12. ASSUME IsInjective(sq), NEW i \in 1..N, NEW j \in 1..N, i # j
       PROVE  ToSet(P[i]) \cap ToSet(P[j]) = {}
  <2>1. i < j \/ j < i
    BY <1>3, <1>12
  <2> QED BY <2>1, <1>11, <1>12
<1>13. 1 \in 1..N /\ ToSet(P[1]) # {}
  <2>1. 1 \in 1..N /\ 1 - 1 = 0 /\ from(1) \in Nat
    BY <1>3
  <2>2. 1 \in from(1 - 1) + 1..from(1)
    BY <1>3, <2>1
  <2>3. sq[1] \in {sq[j] : j \in from(1 - 1) + 1..from(1)}
    BY <2>2
  <2>4. ToSet(P[1]) = {sq[j] : j \in from(1 - 1) + 1..from(1)}
    BY <1>7, <2>1
  <2> HIDE DEF P
  <2> QED BY <2>1, <2>3, <2>4
<1>14. 1..N \subseteq Nat /\ IsFiniteSet(1..N)
  BY <1>3, FS_Interval
<1> QED BY <1>2, <1>4, <1>7, <1>8, <1>10, <1>12, <1>13, <1>14

-----------------------------------------------------------------------------
(* Types *)

\* The group never changes: every simulator is in one process, process 0 of
\* every rank is there, and the one of rank 0 has a simulator.
SetupOK ==
  /\ smp \in BOOLEAN
  /\ Procs \subseteq Nat \X Nat
  /\ Lead(0) \in Procs /\ Leads \subseteq Procs
  /\ \A r \in Ranks : IsFiniteSet(Children(r))
  /\ parts \in [Procs -> Seq(Sims)]
  /\ home \in [Sims -> Procs]
  /\ \A p \in Procs, s \in Sims : s \in ToSet(parts[p]) <=> home[s] = p
  /\ \E s \in Sims : home[s] = Lead(0)

Limits == 0..Inf
Items == Evs \cup Msgs
Lists == UNION {[D -> Times] : D \in SUBSET Items}
Mails == [m : Msgs, to : Boxes, at : Times]
Figures == {Cardinality(X) : X \in SUBSET Items}
Entries == [kind : {"run"}, val : Limits \X BOOLEAN]
             \cup [kind : {"horizon"}, val : Limits]
             \cup [kind : {"sent", "incoming"}, val : SUBSET Mails]
             \cup [kind : {"figures"}, val : Figures]
             \cup [kind : {"report", "stop"}, val : {0}]
Commands == {"run", "report", "stop"}
Places == {"create", "main", "agree", "listen", "tell", "report", "join", "exit", "ended",
           "unborn", "start", "cmd", "peek", "window", "run", "exchange"}

SimsTyped == /\ now \in [Sims -> Limits]
             /\ list \in [Sims -> Lists]
             /\ fresh \subseteq Items
             /\ DOMAIN done \subseteq Items
BufsTyped == /\ buf \in [Procs -> SUBSET Mails]
             /\ future \in [Procs -> Limits]
ChansTyped == /\ queue \in [Procs -> Seq(Entries)]
              /\ cmds \in [Ranks -> Seq(Commands)]
PlacesTyped == /\ pc \in [Procs -> Places]
               /\ got \in [Ranks -> Nat]
               /\ exits \in [Ranks -> Nat]
ArgsTyped == /\ upper \in [Procs -> Limits]
             /\ spec \in [Procs -> BOOLEAN]
WindowTyped == /\ horizon \in [Procs -> Limits]
               /\ todo \in [Procs -> Seq(Sims)]

TypeOK == /\ SetupOK
          /\ SimsTyped
          /\ BufsTyped
          /\ ChansTyped
          /\ PlacesTyped
          /\ ArgsTyped
          /\ WindowTyped

\* The times and bounds are numbers, and no lookahead is negative.
LEMMA TimeFacts ==
  /\ MaxTime \in Nat /\ Inf \in Nat /\ Times \subseteq Limits /\ MaxTime < Inf
  /\ Limits \subseteq Nat /\ Times \subseteq Nat /\ Inf \in Limits /\ 0 \in Limits
  /\ Lookahead \in 1..Inf /\ Lookahead \in Nat
  /\ \A d \in Boxes : MinDelay[d] \in Nat /\ Lookahead <= MinDelay[d]
<1>1. /\ MaxTime \in Nat /\ Inf \in Nat /\ Times \subseteq Limits /\ MaxTime < Inf
      /\ Limits \subseteq Nat /\ Times \subseteq Nat /\ Inf \in Limits /\ 0 \in Limits
  BY SyncAssumption DEF Inf, Times, Limits
<1>2. Lookahead \in 1..Inf /\ Lookahead \in Nat
  <2>1. Lookahead \in 1..MaxTime \cup {Inf}
    BY SyncAssumption
  <2>2. Inf >= 1 /\ MaxTime <= Inf
    BY SyncAssumption DEF Inf
  <2> QED BY <1>1, <2>1, <2>2
<1>3. ASSUME NEW d \in Boxes PROVE MinDelay[d] \in Nat /\ Lookahead <= MinDelay[d]
  <2> DEFINE M == {UserLook} \cup {MinDelay[s] : s \in Boxes}
  <2>1. MinDelay \in [Boxes -> Nat] /\ UserLook \in Nat
    BY SyncAssumption
  <2>2. M \subseteq Nat /\ MinDelay[d] \in M
    BY <2>1
  <2>3. Lookahead = Min(M)
    BY DEF Lookahead
  <2> HIDE DEF M
  <2>4. Lookahead <= MinDelay[d]
    BY <2>2, <2>3, MinProps
  <2> QED BY <2>1, <2>4
<1> QED BY <1>1, <1>2, <1>3

\* The places of the group's processes do not change.
LEMMA Frame ==
  ASSUME UNCHANGED setup
  PROVE  /\ smp' = smp /\ parts' = parts /\ home' = home
         /\ Procs' = Procs /\ Ranks' = Ranks /\ Leads' = Leads
         /\ \A r : Children(r)' = Children(r)
         /\ \A s : Rank(s)' = Rank(s)
         /\ SetupOK => SetupOK'
<1>1. smp' = smp /\ parts' = parts /\ home' = home
  BY DEF setup
<1>2. Procs' = Procs
  BY <1>1 DEF Procs
<1>3. Ranks' = Ranks
  BY <1>2 DEF Ranks
<1>4. Leads' = Leads
  BY <1>3 DEF Leads
<1>5. \A r : Children(r)' = Children(r)
  BY <1>2 DEF Children
<1>6. \A s : Rank(s)' = Rank(s)
  BY <1>1 DEF Rank
<1> QED BY <1>1, <1>2, <1>3, <1>4, <1>5, <1>6 DEF SetupOK

\* Ranks, processes 0 and the others.
LEMMA LeadFacts ==
  ASSUME SetupOK
  PROVE  /\ \A r : Lead(r)[1] = r /\ Lead(r)[2] = 0
         /\ 0 \in Ranks /\ Ranks \subseteq Nat
         /\ \A r \in Ranks : Lead(r) \in Procs /\ Lead(r) \in Leads
         /\ \A l \in Leads : l \in Procs /\ l[1] \in Ranks /\ l = Lead(l[1])
         /\ \A p \in Procs : p[1] \in Ranks /\ Lead(p[1]) \in Leads
         /\ \A r \in Ranks : \A c \in Children(r) : c \in Procs /\ c[1] = r /\ c \notin Leads
         /\ \A p \in Procs : p \notin Leads => p \in Children(p[1])
         /\ \A q, r : Lead(q) = Lead(r) => q = r
<1>1. \A r : Lead(r)[1] = r /\ Lead(r)[2] = 0
  BY DEF Lead
<1>2. \A p \in Procs : p[1] \in Ranks /\ p[1] \in Nat
  BY DEF SetupOK, Ranks
<1>3. Ranks \subseteq Nat
  BY <1>2 DEF Ranks
<1>4. 0 \in Ranks
  BY <1>1, <1>2 DEF SetupOK
<1>5. \A r \in Ranks : Lead(r) \in Procs /\ Lead(r) \in Leads
  BY DEF SetupOK, Leads
<1>6. \A l \in Leads : l \in Procs /\ l[1] \in Ranks /\ l = Lead(l[1])
  BY <1>1, <1>5 DEF Leads
<1>7. \A r \in Ranks : \A c \in Children(r) : c \in Procs /\ c[1] = r /\ c \notin Leads
  BY <1>6 DEF Children
<1>8. \A p \in Procs : p \notin Leads => p \in Children(p[1])
  BY <1>2, <1>5 DEF Children
<1> QED BY <1>1, <1>2, <1>3, <1>4, <1>5, <1>6, <1>7, <1>8

\* What is in the queues.
LEMMA EntryProps ==
  /\ \A k, v : Entry(k, v).kind = k /\ Entry(k, v).val = v
  /\ \A u \in Limits, g \in BOOLEAN : Entry("run", <<u, g>>) \in Entries
  /\ \A h \in Limits : Entry("horizon", h) \in Entries
  /\ \A k \in {"sent", "incoming"}, in \in SUBSET Mails : Entry(k, in) \in Entries
  /\ \A n \in Figures : Entry("figures", n) \in Entries
  /\ \A k \in {"report", "stop"} : Entry(k, 0) \in Entries
  /\ \A e \in Entries :
       /\ e.kind = "run" => e.val[1] \in Limits /\ e.val[2] \in BOOLEAN
       /\ e.kind = "horizon" => e.val \in Limits
       /\ e.kind \in {"sent", "incoming"} => e.val \in SUBSET Mails
<1>1. \A e \in Entries :
       /\ e.kind = "run" => e.val[1] \in Limits /\ e.val[2] \in BOOLEAN
       /\ e.kind = "horizon" => e.val \in Limits
       /\ e.kind \in {"sent", "incoming"} => e.val \in SUBSET Mails
  BY DEF Entries
<1> QED BY <1>1 DEF Entry, Entries

\* The fields of a message.
LEMMA MailFields == \A x \in Mails : x.m \in Msgs /\ x.to \in Boxes /\ x.to \in Sims /\ x.at \in Times
BY SyncAssumption DEF Mails

-----------------------------------------------------------------------------
(* The initial states *)

\* What the constructor divides: every simulator is in one process, of its rank.
LEMMA PartitionProps ==
  ASSUME NEW g, GroupOK(g)
  PROVE  LET P == Partition(g)
             D == DOMAIN P
         IN /\ D \subseteq Nat \X Nat
            /\ \A p \in D : /\ p[1] \in DOMAIN g.sims
                            /\ P[p] \in Seq(Sims) /\ ToSet(P[p]) \subseteq ToSet(g.sims[p[1]])
            /\ \A r \in DOMAIN g.sims : /\ <<r, 0>> \in D
                                        /\ IsFiniteSet({p \in D : p[1] = r})
            /\ ToSet(P[<<0, 0>>]) # {}
            /\ \A s \in Sims : \E p \in D : s \in ToSet(P[p])
            /\ \A p, q \in D : p # q => ToSet(P[p]) \cap ToSet(P[q]) = {}
<1> DEFINE ways(r) == IF g.smp THEN g.ways[r] ELSE 1
           pieces(r) == Split(g.sims[r], ways(r))
           R == DOMAIN g.sims
           D == UNION {{<<r, k - 1>> : k \in DOMAIN pieces(r)} : r \in R}
           P == Partition(g)
<1>1. ASSUME NEW r \in R
      PROVE  /\ 1 \in DOMAIN pieces(r) /\ DOMAIN pieces(r) \subseteq Nat \ {0}
             /\ IsFiniteSet(DOMAIN pieces(r))
             /\ \A i \in DOMAIN pieces(r) : /\ pieces(r)[i] \in Seq(Sims)
                                            /\ ToSet(pieces(r)[i]) \subseteq ToSet(g.sims[r])
             /\ \A x \in ToSet(g.sims[r]) : \E i \in DOMAIN pieces(r) : x \in ToSet(pieces(r)[i])
             /\ \A i, j \in DOMAIN pieces(r) :
                  i # j => ToSet(pieces(r)[i]) \cap ToSet(pieces(r)[j]) = {}
             /\ ToSet(pieces(r)[1]) # {}
  <2>1. /\ g.sims[r] \in Seq(Sims) /\ g.sims[r] # <<>> /\ IsInjective(g.sims[r])
        /\ ways(r) \in Nat \ {0}
    BY DEF GroupOK
  <2> HIDE DEF ways
  <2>2. DOMAIN pieces(r) \subseteq Nat \ {0}
    <3>1. DOMAIN pieces(r) = 1..Min({ways(r), Len(g.sims[r])})
      BY DEF Split
    <3>2. Min({ways(r), Len(g.sims[r])}) \in Int
      BY <2>1, MinPair
    <3> QED BY <3>1, <3>2
  <2> QED BY <2>1, <2>2, SplitProps
<1>2. P = [p \in D |-> pieces(p[1])[p[2] + 1]]
  BY DEF Partition
<1>3. DOMAIN P = D /\ \A p \in D : P[p] = pieces(p[1])[p[2] + 1]
  BY <1>2
<1> HIDE DEF pieces, P
<1>4. R \subseteq Nat /\ 0 \in R
  BY DEF GroupOK
<1>5. ASSUME NEW p \in D
      PROVE  /\ p[1] \in R /\ p[2] + 1 \in DOMAIN pieces(p[1]) /\ p = <<p[1], p[2]>>
             /\ p[2] \in Nat
  <2>1. PICK r \in R : \E k \in DOMAIN pieces(r) : p = <<r, k - 1>>
    OBVIOUS
  <2>2. PICK k \in DOMAIN pieces(r) : p = <<r, k - 1>>
    BY <2>1
  <2>3. k \in Nat \ {0}
    BY <1>1
  <2> QED BY <2>2, <2>3
<1>6. ASSUME NEW r \in R, NEW k \in DOMAIN pieces(r)
      PROVE  <<r, k - 1>> \in D /\ P[<<r, k - 1>>] = pieces(r)[k]
  <2>1. <<r, k - 1>> \in D
    OBVIOUS
  <2>2. k \in Nat /\ k - 1 + 1 = k
    BY <1>1
  <2> HIDE DEF D
  <2> QED BY <1>3, <2>1, <2>2
<1>7. ASSUME NEW r \in R PROVE IsFiniteSet({p \in D : p[1] = r})
  <2> DEFINE S == {<<r, k - 1>> : k \in DOMAIN pieces(r)}
             f == [k \in DOMAIN pieces(r) |-> <<r, k - 1>>]
  <2>1. f \in Surjection(DOMAIN pieces(r), S)
    BY DEF Surjection
  <2>2. IsFiniteSet(S)
    <3> HIDE DEF f, S
    <3> QED BY <1>1, <2>1, FS_Surjection
  <2>3. {p \in D : p[1] = r} \subseteq S
    <3>1. ASSUME NEW p \in D, p[1] = r PROVE p \in S
      <4>1. p = <<r, p[2]>> /\ p[2] + 1 \in DOMAIN pieces(r) /\ p[2] = p[2] + 1 - 1
        BY <1>5, <3>1
      <4> QED BY <4>1
    <3> QED BY <3>1
  <2> HIDE DEF S, D
  <2> QED BY <2>2, <2>3, FS_Subset
<1>8. D \subseteq Nat \X Nat
  BY <1>4, <1>5
<1>9. ASSUME NEW p \in D
      PROVE  P[p] \in Seq(Sims) /\ ToSet(P[p]) \subseteq ToSet(g.sims[p[1]])
  <2>1. p[1] \in R /\ p[2] + 1 \in DOMAIN pieces(p[1])
    BY <1>5
  <2>2. P[p] = pieces(p[1])[p[2] + 1]
    BY <1>3
  <2> HIDE DEF D, R
  <2> QED BY <1>1, <2>1, <2>2
<1>10. ASSUME NEW r \in R PROVE <<r, 0>> \in D
  <2>1. 1 - 1 = 0
    OBVIOUS
  <2> QED BY <1>1, <1>6, <2>1
<1>11. ToSet(P[<<0, 0>>]) # {}
  <2>1. 1 \in DOMAIN pieces(0) /\ ToSet(pieces(0)[1]) # {}
    BY <1>1, <1>4
  <2>2. P[<<0, 1 - 1>>] = pieces(0)[1]
    BY <1>4, <1>6, <2>1
  <2>3. 1 - 1 = 0
    OBVIOUS
  <2> HIDE DEF D, R
  <2> QED BY <2>1, <2>2, <2>3
<1>12. ASSUME NEW s \in Sims PROVE \E p \in D : s \in ToSet(P[p])
  <2>1. PICK r \in R : s \in ToSet(g.sims[r])
    BY DEF GroupOK
  <2>2. PICK k \in DOMAIN pieces(r) : s \in ToSet(pieces(r)[k])
    BY <1>1, <2>1
  <2> QED BY <1>6, <2>2
<1>13. ASSUME NEW p \in D, NEW q \in D, p # q PROVE ToSet(P[p]) \cap ToSet(P[q]) = {}
  <2>1. CASE p[1] # q[1]
    <3>1. ToSet(g.sims[p[1]]) \cap ToSet(g.sims[q[1]]) = {}
      BY <1>5, <2>1 DEF GroupOK
    <3>2. ToSet(P[p]) \subseteq ToSet(g.sims[p[1]]) /\ ToSet(P[q]) \subseteq ToSet(g.sims[q[1]])
      BY <1>9
    <3> QED BY <3>1, <3>2
  <2>2. CASE p[1] = q[1]
    <3>1. p[2] # q[2] /\ p[2] \in Nat /\ q[2] \in Nat
      BY <1>5, <1>13, <2>2
    <3>2. p[2] + 1 # q[2] + 1
      BY <3>1
    <3>3. p[1] \in R /\ p[2] + 1 \in DOMAIN pieces(p[1]) /\ q[2] + 1 \in DOMAIN pieces(p[1])
      BY <1>5, <2>2
    <3>4. P[p] = pieces(p[1])[p[2] + 1] /\ P[q] = pieces(p[1])[q[2] + 1]
      BY <1>3, <2>2
    <3> QED BY <1>1, <3>2, <3>3, <3>4
  <2> QED BY <2>1, <2>2
<1>14. \A p \in D : p[1] \in R
  BY <1>5
<1> HIDE DEF R, D
<1> QED BY <1>3, <1>7, <1>8, <1>9, <1>10, <1>11, <1>12, <1>13, <1>14 DEF P, R

\* The group is divided, and process 0 of every rank is to bring all simulators
\* of the rank to the latest clock.
LEMMA InitSetup ==
  ASSUME Init
  PROVE  /\ SetupOK
         /\ todo \in [Procs -> Seq(Sims)]
         /\ \A l \in Leads, s \in Sims : s \in ToSet(todo[l]) <=> Rank(s) = l[1]
<1>1. PICK g \in Groups :
        /\ smp = g.smp
        /\ parts = Partition(g)
        /\ home = [s \in Sims |-> CHOOSE p \in Procs : s \in ToSet(parts[p])]
        /\ todo = [p \in Procs |-> IF p \in Leads THEN g.sims[p[1]] ELSE <<>>]
  BY DEF Init
<1>2. GroupOK(g)
  BY SyncAssumption
<1> DEFINE R == DOMAIN g.sims
<1>3. /\ Procs \subseteq Nat \X Nat
      /\ \A p \in Procs : /\ p[1] \in R
                          /\ parts[p] \in Seq(Sims) /\ ToSet(parts[p]) \subseteq ToSet(g.sims[p[1]])
      /\ \A r \in R : <<r, 0>> \in Procs /\ IsFiniteSet({p \in Procs : p[1] = r})
      /\ ToSet(parts[<<0, 0>>]) # {}
      /\ \A s \in Sims : \E p \in Procs : s \in ToSet(parts[p])
      /\ \A p, q \in Procs : p # q => ToSet(parts[p]) \cap ToSet(parts[q]) = {}
  <2>1. parts = Partition(g) /\ Procs = DOMAIN Partition(g)
    BY <1>1 DEF Procs
  <2> DEFINE P == Partition(g)
             D == DOMAIN P
  <2>2. /\ D \subseteq Nat \X Nat
        /\ \A p \in D : /\ p[1] \in R
                        /\ P[p] \in Seq(Sims) /\ ToSet(P[p]) \subseteq ToSet(g.sims[p[1]])
        /\ \A r \in R : <<r, 0>> \in D /\ IsFiniteSet({p \in D : p[1] = r})
        /\ ToSet(P[<<0, 0>>]) # {}
        /\ \A s \in Sims : \E p \in D : s \in ToSet(P[p])
        /\ \A p, q \in D : p # q => ToSet(P[p]) \cap ToSet(P[q]) = {}
    BY <1>2, PartitionProps
  <2>3. parts = P /\ Procs = D
    BY <2>1
  <2> HIDE DEF P, D, R
  <2> QED BY <2>2, <2>3
<1>4. Ranks \subseteq R /\ 0 \in Ranks
  <2>1. <<0, 0>> \in Procs
    BY <1>2, <1>3 DEF GroupOK
  <2> QED BY <1>3, <2>1 DEF Ranks
<1>5. \A r \in Ranks : Lead(r) \in Procs
  BY <1>3, <1>4 DEF Lead
<1>6. Leads \subseteq Procs /\ Lead(0) \in Procs
  BY <1>4, <1>5 DEF Leads
<1>7. ASSUME NEW r \in Ranks PROVE IsFiniteSet(Children(r))
  <2>1. IsFiniteSet({p \in Procs : p[1] = r}) /\ Children(r) \subseteq {p \in Procs : p[1] = r}
    BY <1>3, <1>4 DEF Children
  <2> QED BY <2>1, FS_Subset
<1>8. parts \in [Procs -> Seq(Sims)]
  <2>1. parts = [p \in Procs |-> parts[p]]
    BY <1>1 DEF Partition, Procs
  <2> QED BY <1>3, <2>1
<1>9. ASSUME NEW s \in Sims PROVE home[s] \in Procs /\ s \in ToSet(parts[home[s]])
  BY <1>1, <1>3
<1>10. home \in [Sims -> Procs]
  BY <1>1, <1>9
<1>11. ASSUME NEW p \in Procs, NEW s \in Sims PROVE s \in ToSet(parts[p]) <=> home[s] = p
  BY <1>3, <1>9
<1>12. \E s \in Sims : home[s] = Lead(0)
  <2>1. PICK s \in ToSet(parts[Lead(0)]) : TRUE
    BY <1>3 DEF Lead
  <2>2. parts[Lead(0)] \in Seq(Sims)
    BY <1>6, <1>8
  <2>3. s \in Sims
    BY <2>1, <2>2 DEF ToSet
  <2> QED BY <1>6, <1>11, <2>1, <2>3
<1>13. smp \in BOOLEAN
  BY <1>1, <1>2 DEF GroupOK
<1>14. SetupOK
  BY <1>3, <1>6, <1>7, <1>8, <1>10, <1>11, <1>12, <1>13 DEF SetupOK
<1>15. ASSUME NEW r \in R PROVE g.sims[r] \in Seq(Sims)
  BY <1>2 DEF GroupOK
<1>16. ASSUME NEW p \in Procs
       PROVE  todo[p] \in Seq(Sims) /\ (p \in Leads => todo[p] = g.sims[p[1]])
  <2>1. p[1] \in R
    BY <1>3
  <2> QED BY <1>1, <1>15, <2>1
<1>17. todo \in [Procs -> Seq(Sims)]
  BY <1>1, <1>16
<1>18. ASSUME NEW l \in Leads, NEW s \in Sims PROVE s \in ToSet(todo[l]) <=> Rank(s) = l[1]
  <2>1. l \in Procs /\ l[1] \in R /\ todo[l] = g.sims[l[1]]
    BY <1>3, <1>6, <1>16
  <2>2. home[s][1] \in R /\ s \in ToSet(g.sims[home[s][1]])
    BY <1>3, <1>9
  <2>3. home[s][1] # l[1] => ToSet(g.sims[home[s][1]]) \cap ToSet(g.sims[l[1]]) = {}
    BY <1>2, <2>1, <2>2 DEF GroupOK
  <2> QED BY <2>1, <2>2, <2>3 DEF Rank
<1> QED BY <1>14, <1>17, <1>18

\* The latest clock is not before any other, and it is that of the first window.
LEMMA InitClocks ==
  ASSUME Init
  PROVE  LET T == Max({now[s] : s \in Sims})
         IN T \in Times /\ \A s \in Sims : now[s] \in Times /\ now[s] <= T
<1> DEFINE M == {now[s] : s \in Sims}
<1>1. now \in [Sims -> Times]
  BY SyncAssumption DEF Init
<1>2. \E s \in Sims : TRUE
  BY InitSetup DEF SetupOK
<1>3. M \subseteq 0..MaxTime /\ M # {} /\ MaxTime \in Nat
  BY <1>1, <1>2, TimeFacts DEF Times
<1>4. Max(M) \in M /\ \A x \in M : x <= Max(M)
  <2> HIDE DEF M
  <2> QED BY <1>3, MaxProps
<1> QED BY <1>1, <1>4

\* Everything has its type from the start.
LEMMA InitTyped == Init => TypeOK
<1> SUFFICES ASSUME Init PROVE TypeOK
  OBVIOUS
<1>1. SetupOK /\ todo \in [Procs -> Seq(Sims)]
  BY InitSetup
<1>2. SimsTyped
  <2>1. now \in [Sims -> Limits]
    BY SyncAssumption, TimeFacts DEF Init
  <2>2. [i \in {} |-> 0] \in Lists
    <3>1. [i \in {} |-> 0] \in [{} -> Times] /\ {} \in SUBSET Items
      OBVIOUS
    <3> QED BY <3>1 DEF Lists
  <2>3. ASSUME NEW i \in Evs, NEW t \in Times PROVE [j \in {i} |-> t] \in Lists
    <3>1. [j \in {i} |-> t] \in [{i} -> Times] /\ {i} \in SUBSET Items
      BY DEF Items
    <3> QED BY <3>1 DEF Lists
  <2>4. [j \in {} |-> 0] \in Lists
    BY <2>2
  <2>5. CASE list = [s \in Sims |-> [i \in {} |-> 0]] /\ fresh = Evs \cup Msgs
    BY <2>1, <2>2, <2>5 DEF Init, SimsTyped, Items
  <2>6. ASSUME NEW s \in Sims, NEW i \in Evs, NEW t \in Times,
               list = [r \in Sims |-> IF r = s THEN [j \in {i} |-> t] ELSE [j \in {} |-> 0]],
               fresh = (Evs \cup Msgs) \ {i}
        PROVE  SimsTyped
    BY <2>1, <2>3, <2>4, <2>6 DEF Init, SimsTyped, Items
  <2>7. \/ list = [s \in Sims |-> [i \in {} |-> 0]] /\ fresh = Evs \cup Msgs
        \/ \E s \in Sims, i \in Evs, t \in Times :
             /\ list = [r \in Sims |-> IF r = s THEN [j \in {i} |-> t] ELSE [j \in {} |-> 0]]
             /\ fresh = (Evs \cup Msgs) \ {i}
    BY DEF Init
  <2> QED BY <2>5, <2>6, <2>7
<1>3. BufsTyped
  BY TimeFacts DEF Init, BufsTyped
<1>4. ChansTyped
  BY DEF Init, ChansTyped
<1>5. PlacesTyped
  BY DEF Init, PlacesTyped, Places
<1>6. ArgsTyped
  BY TimeFacts DEF Init, ArgsTyped
<1>7. WindowTyped
  BY <1>1, InitClocks, TimeFacts DEF Init, WindowTyped
<1> QED BY <1>1, <1>2, <1>3, <1>4, <1>5, <1>6, <1>7 DEF TypeOK

-----------------------------------------------------------------------------
(* What the operators do *)

\* Somebody of the rank reports to its process 0.
LEMMA ReportProps ==
  ASSUME SetupOK, ChansTyped, NEW p \in Procs, NEW kind, NEW val, Entry(kind, val) \in Entries
  PROVE  LET q == Report(p, kind, val)
             l == Lead(p[1])
         IN /\ q \in [Procs -> Seq(Entries)]
            /\ p \in Leads => q = queue
            /\ p \notin Leads => /\ q[l] = Append(queue[l], Entry(kind, val))
                                 /\ \A o \in Procs : o # l => q[o] = queue[o]
<1>1. Lead(p[1]) \in Procs
  BY LeadFacts
<1>2. queue \in [Procs -> Seq(Entries)]
  BY DEF ChansTyped
<1> QED BY <1>1, <1>2 DEF Report

\* Processes 0 tell the others.
LEMMA InstructProps ==
  ASSUME SetupOK, ChansTyped, NEW R, NEW kind, NEW vals,
         \A p \in Procs \ Leads : Entry(kind, vals[p]) \in Entries
  PROVE  LET q == Instruct(R, kind, vals)
         IN /\ q \in [Procs -> Seq(Entries)]
            /\ \A p \in Procs : IF p[1] \in R /\ p \notin Leads
                                THEN q[p] = Append(queue[p], Entry(kind, vals[p]))
                                ELSE q[p] = queue[p]
<1>1. queue \in [Procs -> Seq(Entries)]
  BY DEF ChansTyped
<1> QED BY <1>1 DEF Instruct

\* Rank 0 tells the others.
LEMMA BcastProps ==
  ASSUME SetupOK, ChansTyped, NEW cmd \in Commands
  PROVE  LET b == Bcast(cmd)
         IN /\ b \in [Ranks -> Seq(Commands)]
            /\ \A r \in Ranks : b[r] = IF r = 0 THEN cmds[r] ELSE Append(cmds[r], cmd)
<1>1. cmds \in [Ranks -> Seq(Commands)]
  BY DEF ChansTyped
<1> QED BY <1>1 DEF Bcast

\* The smallest of what the processes 0 have, and all of them have, is a limit.
LEMMA LeastProps ==
  ASSUME SetupOK, NEW f \in [Procs -> Limits]
  PROVE  LET m == Min({f[p] : p \in Leads})
         IN /\ m \in Limits
            /\ \A l \in Leads : m <= f[l]
            /\ \A T : (\A l \in Leads : T <= f[l]) => T <= m
<1> DEFINE M == {f[p] : p \in Leads}
<1>1. M \subseteq Limits /\ M # {}
  BY LeadFacts
<1>2. Min(M) \in M /\ \A x \in M : Min(M) <= x
  <2>1. M \subseteq Nat
    BY <1>1, TimeFacts
  <2> HIDE DEF M
  <2> QED BY <1>1, <2>1, MinProps
<1>3. \A l \in Leads : f[l] \in M
  OBVIOUS
<1>4. \A T : (\A l \in Leads : T <= f[l]) => \A x \in M : T <= x
  OBVIOUS
<1>5. Min(M) \in Limits
  BY <1>1, <1>2
<1> HIDE DEF M
<1> QED BY <1>2, <1>3, <1>4, <1>5 DEF M

\* The window ends no later than an event can have a consequence elsewhere, the
\* first message not sent yet, and the end of the run.
LEMMA WindowProps ==
  ASSUME TypeOK, NEW p \in Procs
  PROVE  LET w == Window(p)
         IN /\ w \in Limits /\ w <= future[p] /\ w <= upper[p]
            /\ \A s \in ToSet(parts[p]) : \A i \in DOMAIN list[s] : w <= list[s][i] + Lookahead
            /\ \A T \in Limits :
                 /\ T <= future[p] /\ T <= upper[p]
                 /\ \A s \in ToSet(parts[p]) : \A i \in DOMAIN list[s] : T <= list[s][i] + Lookahead
                 => T <= w
<1> DEFINE at(t) == IF Lookahead = Inf THEN Inf ELSE t + Lookahead
           M == {at(t) : t \in Pending(p)} \cup {future[p], upper[p]}
<1>1. Window(p) = Min(M)
  BY DEF Window
<1>2. future[p] \in Limits /\ upper[p] \in Limits
  BY DEF TypeOK, BufsTyped, ArgsTyped
<1>3. ASSUME NEW s \in ToSet(parts[p]), NEW i \in DOMAIN list[s]
      PROVE  list[s][i] \in Times /\ list[s][i] \in Pending(p)
  <2>1. parts[p] \in Seq(Sims)
    BY DEF TypeOK, SetupOK
  <2>2. s \in Sims
    BY <2>1 DEF ToSet
  <2>3. list[s] \in Lists
    BY <2>2 DEF TypeOK, SimsTyped
  <2>4. list[s][i] \in Times
    BY <2>3 DEF Lists
  <2> QED BY <2>4 DEF Pending
<1>4. ASSUME NEW t \in Pending(p)
      PROVE  t \in Times /\ \E s \in ToSet(parts[p]) : \E i \in DOMAIN list[s] : t = list[s][i]
  <2>1. PICK s \in ToSet(parts[p]) : t \in {list[s][i] : i \in DOMAIN list[s]}
    BY DEF Pending
  <2> QED BY <1>3, <2>1
<1>5. ASSUME NEW t \in Times
      PROVE  at(t) \in Nat /\ at(t) <= t + Lookahead /\ (at(t) = Inf \/ at(t) = t + Lookahead)
  BY TimeFacts
<1>6. M \subseteq Nat /\ M # {}
  BY <1>2, <1>4, <1>5, TimeFacts
<1>7. /\ future[p] \in M /\ upper[p] \in M
      /\ \A t \in Pending(p) : at(t) \in M
      /\ \A x \in M : x = future[p] \/ x = upper[p] \/ \E t \in Pending(p) : x = at(t)
  OBVIOUS
<1> HIDE DEF M, at
<1>8. Min(M) \in M /\ \A x \in M : Min(M) <= x
  BY <1>6, MinProps
<1>9. Min(M) \in Limits
  <2>1. Min(M) \in Nat /\ Min(M) <= upper[p]
    BY <1>6, <1>7, <1>8
  <2> QED BY <1>2, <2>1, TimeFacts DEF Limits
<1>10. ASSUME NEW s \in ToSet(parts[p]), NEW i \in DOMAIN list[s]
       PROVE  Min(M) <= list[s][i] + Lookahead
  <2>1. list[s][i] \in Times /\ Min(M) <= at(list[s][i])
    BY <1>3, <1>7, <1>8
  <2>2. at(list[s][i]) \in Nat /\ at(list[s][i]) <= list[s][i] + Lookahead
    BY <1>5, <2>1
  <2>3. Min(M) \in Nat /\ list[s][i] + Lookahead \in Nat
    <3>1. Min(M) \in Nat
      BY <1>6, <1>8
    <3>2. list[s][i] \in Nat /\ Lookahead \in Nat
      BY <2>1, TimeFacts
    <3> QED BY <3>1, <3>2
  <2> QED BY <2>1, <2>2, <2>3
<1>11. ASSUME NEW T \in Limits, T <= future[p], T <= upper[p],
              \A s \in ToSet(parts[p]) : \A i \in DOMAIN list[s] : T <= list[s][i] + Lookahead
       PROVE  T <= Min(M)
  <2>1. ASSUME NEW t \in Pending(p) PROVE T <= at(t)
    <3>1. T <= t + Lookahead /\ T <= Inf
      BY <1>4, <1>11 DEF Limits
    <3> QED BY <1>4, <1>5, <3>1
  <2> QED BY <1>7, <1>8, <1>11, <2>1
<1> QED BY <1>1, <1>7, <1>8, <1>9, <1>10, <1>11

\* An event list is a function from events and messages to times.
LEMMA ListFields ==
  /\ \A D \in SUBSET Items : \A f : f \in [D -> Times] => f \in Lists
  /\ \A f \in Lists : /\ DOMAIN f \subseteq Items /\ f \in [DOMAIN f -> Times]
                      /\ \A i \in DOMAIN f : f[i] \in Times /\ f[i] \in Nat
BY TimeFacts DEF Lists

\* The event lists are those of l, but for events of the simulator d at a time at.
Grown(l, d, at) ==
  /\ list' \in [Sims -> Lists]
  /\ \A r \in Sims : \A j \in DOMAIN list'[r] :
       \/ j \in DOMAIN l[r] /\ list'[r][j] = l[r][j]
       \/ r = d /\ list'[r][j] = at

LEMMA AddProps ==
  ASSUME NEW l \in [Sims -> Lists], NEW s \in Sims, NEW i \in Items, NEW t \in Times,
         list' = Add(l, s, i, t)
  PROVE  Grown(l, s, t)
<1> DEFINE D == DOMAIN l[s] \cup {i}
           f == [j \in D |-> IF j = i THEN t ELSE l[s][j]]
<1>1. list' = [l EXCEPT ![s] = f]
  BY DEF Add
<1>2. D \subseteq Items /\ f \in [D -> Times]
  <2>1. l[s] \in Lists
    OBVIOUS
  <2> QED BY <2>1, ListFields
<1>3. f \in Lists
  <2> HIDE DEF D, f
  <2> QED BY <1>2, ListFields
<1>4. DOMAIN f = D /\ \A j \in DOMAIN f : (j \in DOMAIN l[s] /\ f[j] = l[s][j]) \/ f[j] = t
  OBVIOUS
<1> HIDE DEF D, f
<1> QED BY <1>1, <1>3, <1>4 DEF Grown

\* The event i is taken from the list of s.
LEMMA TakeProps ==
  ASSUME SimsTyped, NEW s \in Sims, NEW i
  PROVE  LET l == [list EXCEPT ![s] = [j \in DOMAIN @ \ {i} |-> @[j]]]
         IN /\ l \in [Sims -> Lists]
            /\ \A r \in Sims : \A j \in DOMAIN l[r] :
                 /\ j \in DOMAIN list[r] /\ l[r][j] = list[r][j]
                 /\ r = s => j # i
<1> DEFINE D == DOMAIN list[s] \ {i}
           f == [j \in D |-> list[s][j]]
           l == [list EXCEPT ![s] = f]
<1>1. list \in [Sims -> Lists]
  BY DEF SimsTyped
<1>2. D \subseteq Items /\ f \in [D -> Times]
  <2>1. list[s] \in Lists
    BY <1>1
  <2> QED BY <2>1, ListFields
<1>3. f \in Lists
  <2> HIDE DEF D, f
  <2> QED BY <1>2, ListFields
<1>4. DOMAIN f = DOMAIN list[s] \ {i} /\ \A j \in DOMAIN f : f[j] = list[s][j]
  OBVIOUS
<1> HIDE DEF D, f
<1>5. /\ l \in [Sims -> Lists]
      /\ \A r \in Sims : \A j \in DOMAIN l[r] :
           /\ j \in DOMAIN list[r] /\ l[r][j] = list[r][j]
           /\ r = s => j # i
  BY <1>1, <1>3, <1>4
<1> QED BY <1>5 DEF f, D

\* sched() of an event by the simulator s at time t.
LEMMA SchedProps ==
  ASSUME SimsTyped, NEW l \in [Sims -> Lists], NEW s \in Sims, NEW t \in Limits, Sched(l, s, t)
  PROVE  /\ fresh' \subseteq Items
         /\ UNCHANGED <<bufs, late>>
         /\ \E at \in Times : t <= at /\ Grown(l, s, at)
<1>1. PICK i \in fresh \cap Evs, at \in t..MaxTime :
        list' = Add(l, s, i, at) /\ fresh' = fresh \ {i} /\ UNCHANGED <<bufs, late>>
  BY DEF Sched
<1>2. i \in Items /\ at \in Times /\ t <= at
  BY TimeFacts DEF Items, Times, Limits
<1> QED BY <1>1, <1>2, AddProps DEF SimsTyped

\* send() by the simulator s of process p at time t: to a simulator, no sooner
\* than the lookahead.
LEMMA SendProps ==
  ASSUME SimsTyped, BufsTyped, Procs' = Procs, NEW l \in [Sims -> Lists], NEW p \in Procs, NEW s \in Sims,
         NEW t \in Limits, Send(l, p, s, t)
  PROVE  /\ fresh' \subseteq Items /\ BufsTyped'
         /\ \E at \in Times, d \in Sims :
              /\ t + Lookahead <= at
              /\ Grown(l, d, at)
              /\ late' => late \/ at < now'[d]
              /\ \A q \in Procs : \A x \in buf'[q] : x \in buf[q] \/ (q = p /\ x.at = at)
              /\ \A q \in Procs : q # p => buf'[q] = buf[q] /\ future'[q] = future[q]
              /\ \/ buf'[p] = buf[p] /\ future'[p] = future[p]
                 \/ future'[p] \in {future[p], at} /\ future'[p] <= future[p] /\ future'[p] <= at
<1>1. PICK d \in Boxes : \E at \in t + MinDelay[d]..MaxTime :
        /\ fresh' = fresh \ {NextMsg}
        /\ IF (~smp /\ Rank(d) = Rank(s)) \/ d = s
           THEN /\ list' = Add(l, d, NextMsg, at)
                /\ late' = (late \/ at < now'[d])
                /\ UNCHANGED bufs
           ELSE /\ buf' = [buf EXCEPT ![p] = @ \cup {[m |-> NextMsg, to |-> d, at |-> at]}]
                /\ future' = [future EXCEPT ![p] = Min({@, at})]
                /\ list' = l
                /\ UNCHANGED late
  BY DEF Send
<1>2. PICK at \in t + MinDelay[d]..MaxTime :
        /\ fresh' = fresh \ {NextMsg}
        /\ IF (~smp /\ Rank(d) = Rank(s)) \/ d = s
           THEN /\ list' = Add(l, d, NextMsg, at)
                /\ late' = (late \/ at < now'[d])
                /\ UNCHANGED bufs
           ELSE /\ buf' = [buf EXCEPT ![p] = @ \cup {[m |-> NextMsg, to |-> d, at |-> at]}]
                /\ future' = [future EXCEPT ![p] = Min({@, at})]
                /\ list' = l
                /\ UNCHANGED late
  BY <1>1
<1>3. NextMsg \in Msgs /\ NextMsg \in Items
  <2>1. fresh \cap Msgs # {}
    BY DEF Send
  <2> QED BY <2>1 DEF NextMsg, Items
<1>4. at \in Times /\ t + Lookahead <= at /\ d \in Sims
  <2>1. MinDelay[d] \in Nat /\ Lookahead <= MinDelay[d] /\ Lookahead \in Nat /\ t \in Nat /\ MaxTime \in Nat
    BY TimeFacts
  <2>2. at \in Nat /\ at <= MaxTime
    BY <2>1
  <2> QED BY <2>1, <2>2, SyncAssumption DEF Times
<1>5. fresh' \subseteq Items
  BY <1>2 DEF SimsTyped
<1>6. CASE (~smp /\ Rank(d) = Rank(s)) \/ d = s
  <2>1. list' = Add(l, d, NextMsg, at) /\ late' = (late \/ at < now'[d]) /\ buf' = buf /\ future' = future
    BY <1>2, <1>6 DEF bufs
  <2>2. Grown(l, d, at)
    BY <1>3, <1>4, <2>1, AddProps
  <2> QED BY <1>4, <1>5, <2>1, <2>2 DEF BufsTyped
<1>7. CASE ~((~smp /\ Rank(d) = Rank(s)) \/ d = s)
  <2> DEFINE x == [m |-> NextMsg, to |-> d, at |-> at]
  <2>1. /\ buf' = [buf EXCEPT ![p] = @ \cup {x}]
        /\ future' = [future EXCEPT ![p] = Min({@, at})]
        /\ list' = l
        /\ late' = late
    BY <1>2, <1>7
  <2>2. x \in Mails /\ x.at = at
    BY <1>3, <1>4 DEF Mails
  <2> HIDE DEF x
  <2>3. future[p] \in Limits /\ at \in Limits /\ future[p] \in Nat /\ at \in Nat
    BY <1>4, TimeFacts DEF BufsTyped
  <2>4. Min({future[p], at}) = IF future[p] <= at THEN future[p] ELSE at
    BY <2>3, MinPair
  <2>5. Grown(l, d, at)
    BY <2>1 DEF Grown
  <2>6. buf' \in [Procs -> SUBSET Mails] /\ future' \in [Procs -> Limits]
    BY <2>1, <2>2, <2>3, <2>4 DEF BufsTyped
  <2>7. future'[p] \in {future[p], at} /\ future'[p] <= future[p] /\ future'[p] <= at
    BY <2>1, <2>3, <2>4 DEF BufsTyped
  <2>8. \A q \in Procs : \A y \in buf'[q] : y \in buf[q] \/ (q = p /\ y.at = at)
    BY <2>1, <2>2 DEF BufsTyped
  <2>9. \A q \in Procs : q # p => buf'[q] = buf[q] /\ future'[q] = future[q]
    BY <2>1 DEF BufsTyped
  <2> QED BY <1>4, <1>5, <2>1, <2>5, <2>6, <2>7, <2>8, <2>9 DEF BufsTyped
<1> QED BY <1>6, <1>7

\* The messages that are delivered to the processes of P.
LEMMA DeliverProps ==
  ASSUME TypeOK, NEW P, NEW in \in SUBSET Mails, Deliver(P, in)
  PROVE  /\ list' \in [Sims -> Lists]
         /\ \A s \in Sims : \A j \in DOMAIN list'[s] :
              \/ j \in DOMAIN list[s] /\ list'[s][j] = list[s][j]
              \/ home[s] \in P /\ \E x \in in : list'[s][j] = x.at
         /\ \A s \in Sims : home[s] \notin P => list'[s] = list[s]
         /\ late' => late \/ \E x \in in : x.at < now[x.to]
         /\ BufsTyped' /\ PlacesTyped'
<1> DEFINE mine == {x \in in : home[x.to] \in P}
           mails(s) == {x.m : x \in {y \in mine : y.to = s}}
           f(s) == [i \in DOMAIN list[s] \cup mails(s) |->
                      IF \E x \in mine : x.m = i /\ x.to = s
                      THEN (CHOOSE x \in mine : x.m = i).at ELSE list[s][i]]
<1>1. /\ list' = [s \in Sims |-> f(s)]
      /\ late' = (late \/ \E x \in mine : x.at < now[x.to])
      /\ buf' = [p \in Procs |-> IF p \in P THEN {} ELSE buf[p]]
      /\ future' = [p \in Procs |-> IF p \in P THEN Inf ELSE future[p]]
      /\ pc' = [p \in Procs |-> IF p \notin P THEN pc[p]
                                ELSE IF horizon[p] >= upper[p] THEN Over(p) ELSE "peek"]
      /\ UNCHANGED <<setup, got, exits>>
  BY DEF Deliver, reports
<1>2. \A x \in mine : x \in in /\ x.m \in Items /\ x.at \in Times /\ home[x.to] \in P
  BY MailFields DEF Items
<1>3. ASSUME NEW s \in Sims
      PROVE  /\ f(s) \in Lists
             /\ \A j \in DOMAIN f(s) :
                  \/ j \in DOMAIN list[s] /\ f(s)[j] = list[s][j]
                  \/ home[s] \in P /\ \E x \in in : f(s)[j] = x.at
  <2>1. list[s] \in Lists
    BY DEF TypeOK, SimsTyped
  <2> DEFINE D == DOMAIN list[s] \cup mails(s)
             g(i) == IF \E x \in mine : x.m = i /\ x.to = s
                     THEN (CHOOSE x \in mine : x.m = i).at ELSE list[s][i]
  <2>2. D \subseteq Items
    BY <1>2, <2>1, ListFields
  <2>3. ASSUME NEW i \in D, \E x \in mine : x.m = i /\ x.to = s
        PROVE  home[s] \in P /\ \E x \in in : g(i) = x.at /\ x.at \in Times
    <3>1. (CHOOSE x \in mine : x.m = i) \in mine
      BY <2>3
    <3> QED BY <1>2, <2>3, <3>1
  <2>4. ASSUME NEW i \in D, ~\E x \in mine : x.m = i /\ x.to = s
        PROVE  i \in DOMAIN list[s] /\ g(i) = list[s][i] /\ g(i) \in Times
    <3>1. i \notin mails(s)
      BY <2>4
    <3> QED BY <2>1, <2>4, <3>1, ListFields
  <2>5. f(s) = [i \in D |-> g(i)]
    OBVIOUS
  <2>6. \A i \in D : g(i) \in Times
    BY <2>3, <2>4
  <2> HIDE DEF D, g
  <2>7. f(s) \in [D -> Times] /\ DOMAIN f(s) = D /\ \A j \in D : f(s)[j] = g(j)
    BY <2>5, <2>6
  <2> HIDE DEF f, mine
  <2>8. f(s) \in Lists
    BY <2>2, <2>7, ListFields
  <2>9. ASSUME NEW j \in D
        PROVE  \/ j \in DOMAIN list[s] /\ f(s)[j] = list[s][j]
               \/ home[s] \in P /\ \E x \in in : f(s)[j] = x.at
    BY <2>3, <2>4, <2>7
  <2> QED BY <2>7, <2>8, <2>9
<1>8. ASSUME NEW s \in Sims, home[s] \notin P PROVE f(s) = list[s]
  <2>1. {y \in mine : y.to = s} = {} /\ ~\E x \in mine : x.to = s
    BY <1>8
  <2>2. f(s) = [i \in DOMAIN list[s] |-> list[s][i]]
    <3>1. DOMAIN list[s] \cup mails(s) = DOMAIN list[s]
      BY <2>1
    <3> QED BY <2>1, <3>1
  <2>3. list[s] \in Lists
    BY DEF TypeOK, SimsTyped
  <2>4. list[s] = [i \in DOMAIN list[s] |-> list[s][i]]
    BY <2>3, ListFields
  <2> QED BY <2>2, <2>4
<1> HIDE DEF f
<1>4. DOMAIN list' = Sims /\ \A s \in Sims : list'[s] = f(s)
  BY <1>1
<1>5. list' \in [Sims -> Lists]
  BY <1>1, <1>3
<1>6. late' => late \/ \E x \in in : x.at < now[x.to]
  BY <1>1
<1>7. BufsTyped' /\ PlacesTyped'
  <2>1. Procs' = Procs /\ Ranks' = Ranks
    BY <1>1, Frame
  <2>2. \A p : Over(p) \in Places
    BY DEF Over, Places
  <2>3. "peek" \in Places
    BY DEF Places
  <2>4. BufsTyped'
    BY <1>1, <2>1, TimeFacts DEF TypeOK, BufsTyped
  <2>5. pc' \in [Procs -> Places]
    BY <1>1, <2>2, <2>3 DEF TypeOK, PlacesTyped
  <2> QED BY <1>1, <2>1, <2>4, <2>5 DEF TypeOK, PlacesTyped
<1> QED BY <1>3, <1>4, <1>5, <1>6, <1>7, <1>8

-----------------------------------------------------------------------------
(* Every step keeps the types *)

\* What is left alone keeps its type.
LEMMA KeptTyped ==
  ASSUME TypeOK, UNCHANGED setup
  PROVE  /\ SetupOK'
         /\ UNCHANGED <<now, list, fresh, done>> => SimsTyped'
         /\ UNCHANGED bufs => BufsTyped'
         /\ UNCHANGED chans => ChansTyped'
         /\ UNCHANGED <<pc, got, exits>> => PlacesTyped'
         /\ UNCHANGED args => ArgsTyped'
         /\ UNCHANGED window => WindowTyped'
<1>1. Procs' = Procs /\ Ranks' = Ranks /\ SetupOK'
  BY Frame DEF TypeOK
<1>2. UNCHANGED <<now, list, fresh, done>> => SimsTyped'
  BY DEF TypeOK, SimsTyped
<1>3. UNCHANGED bufs => BufsTyped'
  BY <1>1 DEF TypeOK, BufsTyped, bufs
<1>4. UNCHANGED chans => ChansTyped'
  BY <1>1 DEF TypeOK, ChansTyped, chans
<1>5. UNCHANGED <<pc, got, exits>> => PlacesTyped'
  BY <1>1 DEF TypeOK, PlacesTyped
<1>6. UNCHANGED args => ArgsTyped'
  BY <1>1 DEF TypeOK, ArgsTyped, args
<1>7. UNCHANGED window => WindowTyped'
  BY <1>1 DEF TypeOK, WindowTyped, window
<1> QED BY <1>1, <1>2, <1>3, <1>4, <1>5, <1>6, <1>7

LEMMA UserTyped ==
  ASSUME TypeOK, NEW s \in Sims, MainCall(s)
  PROVE  TypeOK'
<1> DEFINE p == Lead(Rank(s))
<1>1. /\ Sched(list, s, now[s]) \/ Send(list, p, s, now[s])
      /\ UNCHANGED <<now, done>>
      /\ UNCHANGED <<setup, chans, pc, got, args, window, reports>>
  BY DEF MainCall
<1>2. /\ p \in Procs /\ now[s] \in Limits /\ list \in [Sims -> Lists] /\ Procs' = Procs
      /\ SimsTyped /\ BufsTyped
  <2>1. home[s] \in Procs
    BY DEF TypeOK, SetupOK
  <2>2. p \in Procs
    BY <2>1, LeadFacts DEF TypeOK, Rank
  <2>3. Procs' = Procs
    BY <1>1, Frame
  <2> QED BY <2>2, <2>3 DEF TypeOK, SimsTyped
<1>3. /\ SetupOK' /\ ChansTyped' /\ PlacesTyped' /\ ArgsTyped' /\ WindowTyped'
      /\ UNCHANGED bufs => BufsTyped'
  BY <1>1, KeptTyped DEF reports
<1>4. SimsTyped' /\ BufsTyped'
  <2>1. CASE Sched(list, s, now[s])
    BY <1>1, <1>2, <1>3, <2>1, SchedProps DEF SimsTyped, Grown, bufs
  <2>2. CASE Send(list, p, s, now[s])
    BY <1>1, <1>2, <1>3, <2>2, SendProps DEF SimsTyped, Grown
  <2> QED BY <1>1, <2>1, <2>2
<1> QED BY <1>3, <1>4 DEF TypeOK

LEMMA ExecuteTyped ==
  ASSUME TypeOK, NEW p \in Procs, Execute(p)
  PROVE  TypeOK'
<1> DEFINE s == Head(todo[p])
           l(i) == [list EXCEPT ![s] = [j \in DOMAIN @ \ {i} |-> @[j]]]
<1>1. PICK i \in DOMAIN list[s] :
        /\ now' = [now EXCEPT ![s] = list[s][i]]
        /\ done' = [j \in DOMAIN done \cup {i} |-> IF j = i THEN s ELSE done[j]]
        /\ \/ Sched(l(i), s, list[s][i])
           \/ pc[p] = "run" /\ Send(l(i), p, s, list[s][i])
           \/ list' = l(i) /\ UNCHANGED <<fresh, bufs, late>>
  BY DEF Execute
<1>2. UNCHANGED <<setup, chans, pc, got, args, window, reports>>
  BY DEF Execute
<1>3. s \in Sims
  BY DEF Execute, TypeOK, WindowTyped
<1>4. i \in Items /\ list[s][i] \in Limits
  BY <1>3, ListFields, TimeFacts DEF TypeOK, SimsTyped
<1>5. l(i) \in [Sims -> Lists]
  BY <1>3, TakeProps DEF TypeOK
<1>6. SimsTyped /\ BufsTyped /\ Procs' = Procs
  BY <1>2, Frame DEF TypeOK
<1>7. /\ SetupOK' /\ ChansTyped' /\ PlacesTyped' /\ ArgsTyped' /\ WindowTyped'
      /\ UNCHANGED bufs => BufsTyped'
  BY <1>2, KeptTyped DEF reports
<1>8. now' \in [Sims -> Limits] /\ DOMAIN done' \subseteq Items
  BY <1>1, <1>3, <1>4, <1>6 DEF SimsTyped
<1> HIDE DEF s, l
<1>9. list' \in [Sims -> Lists] /\ fresh' \subseteq Items /\ BufsTyped'
  <2>1. CASE Sched(l(i), s, list[s][i])
    BY <1>3, <1>4, <1>5, <1>6, <1>7, <2>1, SchedProps DEF Grown, bufs
  <2>2. CASE Send(l(i), p, s, list[s][i])
    BY <1>3, <1>4, <1>5, <1>6, <2>2, SendProps DEF Grown
  <2>3. CASE list' = l(i) /\ UNCHANGED <<fresh, bufs, late>>
    BY <1>5, <1>6, <1>7, <2>3 DEF SimsTyped
  <2> QED BY <1>1, <2>1, <2>2, <2>3
<1> QED BY <1>7, <1>8, <1>9 DEF TypeOK, SimsTyped

\* The other steps of the program of a rank.
LEMMA MainTyped ==
  ASSUME TypeOK, NEW r \in Ranks, NEW u \in Limits, NEW given \in BOOLEAN,
         \/ Created(r) \/ Run(u, given) \/ Command(r) \/ ShowReport \/ RunFinish(r) \/ Join(r)
  PROVE  TypeOK'
<1>t. /\ pc \in [Procs -> Places] /\ exits \in [Ranks -> Nat] /\ got \in [Ranks -> Nat]
      /\ upper \in [Procs -> Limits] /\ spec \in [Procs -> BOOLEAN]
      /\ cmds \in [Ranks -> Seq(Commands)] /\ SetupOK /\ ChansTyped
      /\ Lead(r) \in Procs /\ Lead(0) \in Procs /\ 0 \in Ranks
      /\ {"main", "agree", "tell", "join", "exit", "ended"} \subseteq Places
      /\ Inf \in Limits
  BY LeadFacts, TimeFacts DEF TypeOK, PlacesTyped, ArgsTyped, ChansTyped, SetupOK, Places
<1>1. CASE Created(r)
  BY <1>t, <1>1, KeptTyped, Frame
     DEF Created, TypeOK, PlacesTyped, sims, reports
<1>2. CASE Run(u, given)
  <2>1. UNCHANGED setup /\ Procs' = Procs /\ Ranks' = Ranks
    BY <1>2, Frame DEF Run
  <2>2. PlacesTyped' /\ ArgsTyped'
    BY <1>t, <1>2, <2>1 DEF Run, PlacesTyped, ArgsTyped
  <2>3. ChansTyped'
    BY <1>t, <1>2, <2>1, BcastProps DEF Run, ChansTyped, Commands
  <2> QED BY <1>2, <2>1, <2>2, <2>3, KeptTyped DEF Run, TypeOK, sims
<1>3. CASE Command(r)
  <2>1. UNCHANGED setup /\ Procs' = Procs /\ Ranks' = Ranks
    BY <1>3, Frame DEF Command
  <2>2. cmds[r] # <<>> /\ cmds[r] \in Seq(Commands) /\ Head(cmds[r]) \in Commands
    BY <1>t, <1>3 DEF Command
  <2>3. PlacesTyped'
    BY <1>t, <1>3, <2>1, <2>2 DEF Command, PlacesTyped, Commands
  <2>4. ChansTyped'
    BY <1>t, <1>3, <2>1, <2>2 DEF Command, ChansTyped
  <2>5. ArgsTyped'
    BY <1>t, <1>3, <2>1 DEF Command, ArgsTyped, args
  <2> QED BY <1>3, <2>1, <2>3, <2>4, <2>5, KeptTyped DEF Command, TypeOK, sims
<1>4. CASE ShowReport
  <2>1. UNCHANGED setup /\ Procs' = Procs /\ Ranks' = Ranks
    BY <1>4, Frame DEF ShowReport
  <2>2. ChansTyped'
    BY <1>t, <1>4, <2>1, BcastProps DEF ShowReport, ChansTyped, Commands
  <2>3. PlacesTyped'
    BY <1>t, <1>4, <2>1 DEF ShowReport, PlacesTyped, reports
  <2> QED BY <1>4, <2>1, <2>2, <2>3, KeptTyped DEF ShowReport, TypeOK, sims
<1>5. CASE RunFinish(r)
  <2>1. UNCHANGED setup /\ Procs' = Procs /\ Ranks' = Ranks
    BY <1>5, Frame DEF RunFinish
  <2>2. cmds' \in [Ranks -> Seq(Commands)]
    BY <1>t, <1>5, BcastProps DEF RunFinish, Commands
  <2>3. queue' \in [Procs -> Seq(Entries)]
    BY <1>t, <1>5, InstructProps, EntryProps DEF RunFinish
  <2>4. PlacesTyped'
    BY <1>t, <1>5, <2>1 DEF RunFinish, PlacesTyped
  <2> QED BY <1>5, <2>1, <2>2, <2>3, <2>4, KeptTyped DEF RunFinish, TypeOK, sims, ChansTyped
<1>6. CASE Join(r)
  BY <1>t, <1>6, KeptTyped, Frame DEF Join, TypeOK, PlacesTyped, sims, reports
<1> QED BY <1>1, <1>2, <1>3, <1>4, <1>5, <1>6

\* What a process takes from its queue, and what is left.
LEMMA HeadProps ==
  ASSUME ChansTyped, NEW p \in Procs, queue[p] # <<>>
  PROVE  /\ queue[p] \in Seq(Entries) /\ Head(queue[p]) \in Entries
         /\ [queue EXCEPT ![p] = Tail(@)] \in [Procs -> Seq(Entries)]
BY DEF ChansTyped

\* The steps of a process other than 0.
LEMMA ChildTyped ==
  ASSUME TypeOK, NEW p \in Procs,
         ChildStart(p) \/ ChildCommand(p) \/ ChildWindow(p) \/ ChildIncoming(p),
         queue[p] # <<>> => \/ pc[p] = "cmd" /\ Head(queue[p]).kind \in Commands
                            \/ pc[p] = "window" /\ Head(queue[p]).kind = "horizon"
                            \/ pc[p] = "exchange" /\ Head(queue[p]).kind = "incoming"
                            \/ pc[p] = "start"
  PROVE  TypeOK'
<1>t. /\ pc \in [Procs -> Places] /\ SetupOK /\ ChansTyped
      /\ upper \in [Procs -> Limits] /\ spec \in [Procs -> BOOLEAN]
      /\ {"cmd", "peek", "tell", "ended", "main", "listen", "run"} \subseteq Places
  BY DEF TypeOK, PlacesTyped, ArgsTyped, Places
<1>1. CASE ChildStart(p)
  <2>1. UNCHANGED setup /\ Procs' = Procs /\ Ranks' = Ranks
    BY <1>1, Frame DEF ChildStart
  <2>2. BufsTyped'
    BY <1>1, <2>1, TimeFacts DEF ChildStart, TypeOK, BufsTyped
  <2>3. PlacesTyped'
    BY <1>t, <1>1, <2>1 DEF ChildStart, TypeOK, PlacesTyped, reports
  <2> QED BY <1>1, <2>1, <2>2, <2>3, KeptTyped DEF ChildStart, TypeOK, sims
<1>2. CASE ChildCommand(p)
  <2>1. UNCHANGED setup /\ Procs' = Procs /\ Ranks' = Ranks
    BY <1>2, Frame DEF ChildCommand
  <2>2. /\ Head(queue[p]).kind \in Commands
        /\ Head(queue[p]).kind = "run" =>
             Head(queue[p]).val[1] \in Limits /\ Head(queue[p]).val[2] \in BOOLEAN
        /\ [queue EXCEPT ![p] = Tail(@)] \in [Procs -> Seq(Entries)]
    BY <1>t, <1>2, HeadProps, EntryProps DEF ChildCommand
  <2>3. PlacesTyped'
    BY <1>t, <1>2, <2>1, <2>2 DEF ChildCommand, TypeOK, PlacesTyped, reports, Commands
  <2>4. ArgsTyped'
    BY <1>t, <1>2, <2>1, <2>2 DEF ChildCommand, TypeOK, ArgsTyped, args
  <2>5. ChansTyped'
    BY <1>t, <1>2, <2>1, <2>2 DEF ChildCommand, TypeOK, ChansTyped
  <2> QED BY <1>2, <2>1, <2>3, <2>4, <2>5, KeptTyped DEF ChildCommand, TypeOK, sims
<1>3. CASE ChildWindow(p)
  <2>1. UNCHANGED setup /\ Procs' = Procs /\ Ranks' = Ranks
    BY <1>3, Frame DEF ChildWindow
  <2>2. /\ Head(queue[p]).val \in Limits
        /\ [queue EXCEPT ![p] = Tail(@)] \in [Procs -> Seq(Entries)]
    BY <1>t, <1>3, HeadProps, EntryProps DEF ChildWindow
  <2>3. \A h : Opened(p, h) \in Places
    BY <1>t DEF Opened, Over
  <2>4. PlacesTyped'
    BY <1>t, <1>3, <2>1, <2>3 DEF ChildWindow, TypeOK, PlacesTyped, reports
  <2>5. WindowTyped'
    BY <1>t, <1>3, <2>1, <2>2 DEF ChildWindow, TypeOK, WindowTyped
  <2>6. ChansTyped'
    BY <1>t, <1>3, <2>1, <2>2 DEF ChildWindow, TypeOK, ChansTyped
  <2> QED BY <1>3, <2>1, <2>4, <2>5, <2>6, KeptTyped DEF ChildWindow, TypeOK, sims
<1>4. CASE ChildIncoming(p)
  <2>1. UNCHANGED <<setup, now, fresh, done, cmds, args, window>>
    BY <1>4 DEF ChildIncoming, Deliver
  <2>2. /\ Head(queue[p]).val \in SUBSET Mails
        /\ [queue EXCEPT ![p] = Tail(@)] \in [Procs -> Seq(Entries)]
    BY <1>t, <1>4, HeadProps, EntryProps DEF ChildIncoming
  <2>3. list' \in [Sims -> Lists] /\ BufsTyped' /\ PlacesTyped'
    BY <1>4, <2>2, DeliverProps DEF ChildIncoming
  <2>4. ChansTyped'
    BY <1>t, <1>4, <2>1, <2>2, Frame DEF ChildIncoming, TypeOK, ChansTyped
  <2> QED BY <2>1, <2>3, <2>4, KeptTyped DEF TypeOK, SimsTyped
<1> QED BY <1>1, <1>2, <1>3, <1>4

\* A process reports or runs.
LEMMA ProcTyped ==
  ASSUME TypeOK, NEW p \in Procs, Peek(p) \/ Finish(p) \/ HandOver(p) \/ Tell(p)
  PROVE  TypeOK'
<1>t. /\ pc \in [Procs -> Places] /\ got \in [Ranks -> Nat] /\ SetupOK /\ ChansTyped
      /\ {"window", "exchange", "report", "cmd"} \subseteq Places
      /\ now \in [Sims -> Limits] /\ horizon \in [Procs -> Limits] /\ todo \in [Procs -> Seq(Sims)]
      /\ p[1] \in Ranks
  BY LeadFacts DEF TypeOK, PlacesTyped, WindowTyped, SimsTyped, Places
<1>1. CASE Peek(p)
  <2>1. UNCHANGED setup /\ Procs' = Procs /\ Ranks' = Ranks
    BY <1>1, Frame DEF Peek
  <2>2. Window(p) \in Limits /\ parts[p] \in Seq(Sims)
    BY <1>t, WindowProps DEF SetupOK
  <2>3. queue' \in [Procs -> Seq(Entries)]
    BY <1>t, <1>1, <2>2, ReportProps, EntryProps DEF Peek
  <2>4. PlacesTyped'
    BY <1>t, <1>1, <2>1 DEF Peek, TypeOK, PlacesTyped, reports
  <2>5. WindowTyped'
    BY <1>t, <1>1, <2>1, <2>2 DEF Peek, WindowTyped
  <2>6. ChansTyped'
    BY <1>t, <1>1, <2>1, <2>3 DEF Peek, ChansTyped
  <2> QED BY <1>1, <2>1, <2>4, <2>5, <2>6, KeptTyped DEF Peek, TypeOK, sims
<1>2. CASE Finish(p)
  <2>1. /\ UNCHANGED <<setup, list, fresh, done, bufs, chans, pc, got, args, horizon, reports>>
        /\ Procs' = Procs
    BY <1>2, Frame DEF Finish
  <2>2. now' \in [Sims -> Limits] /\ todo' \in [Procs -> Seq(Sims)]
    BY <1>t, <1>2 DEF Finish
  <2>3. WindowTyped' /\ SimsTyped'
    BY <2>1, <2>2 DEF TypeOK, WindowTyped, SimsTyped
  <2> QED BY <2>1, <2>3, KeptTyped DEF TypeOK, reports
<1>3. CASE HandOver(p)
  <2>1. UNCHANGED setup /\ Procs' = Procs /\ Ranks' = Ranks
    BY <1>3, Frame DEF HandOver
  <2>2. queue' \in [Procs -> Seq(Entries)]
    BY <1>t, <1>3, ReportProps, EntryProps DEF HandOver, TypeOK, BufsTyped
  <2>3. PlacesTyped'
    BY <1>t, <1>3, <2>1 DEF HandOver, TypeOK, PlacesTyped, reports
  <2>4. ChansTyped'
    BY <1>t, <1>3, <2>1, <2>2 DEF HandOver, ChansTyped
  <2> QED BY <1>3, <2>1, <2>3, <2>4, KeptTyped DEF HandOver, TypeOK, sims
<1>4. CASE Tell(p)
  <2>1. UNCHANGED setup /\ Procs' = Procs /\ Ranks' = Ranks
    BY <1>4, Frame DEF Tell
  <2>2. Executed(p) \in Figures
    <3>1. {i \in DOMAIN done : done[i] \in ToSet(parts[p])} \in SUBSET Items
      BY DEF TypeOK, SimsTyped
    <3> QED BY <3>1 DEF Executed, Figures
  <2>3. queue' \in [Procs -> Seq(Entries)]
    <3>1. CASE p \in Leads
      <4>1. \A q \in Procs \ Leads : Entry("report", [o \in Procs |-> 0][q]) \in Entries
        BY EntryProps
      <4> QED BY <1>t, <1>4, <3>1, <4>1, InstructProps DEF Tell
    <3>2. CASE p \notin Leads
      BY <1>t, <1>4, <2>2, <3>2, ReportProps, EntryProps DEF Tell
    <3> QED BY <3>1, <3>2
  <2>4. PlacesTyped'
    <3>1. pc' \in [Procs -> Places] /\ got' \in [Ranks -> Nat] /\ exits' = exits
      <4>1. CASE p \in Leads
        <5>1. /\ pc' = [pc EXCEPT ![p] = "report"] /\ got' = [got EXCEPT ![p[1]] = 0]
              /\ exits' = exits
          BY <1>4, <4>1 DEF Tell
        <5>2. pc' \in [Procs -> Places]
          BY <1>t, <5>1
        <5>3. got' \in [Ranks -> Nat]
          BY <1>t, <5>1
        <5> QED BY <5>1, <5>2, <5>3
      <4>2. CASE p \notin Leads
        BY <1>t, <1>4, <4>2 DEF Tell
      <4> QED BY <4>1, <4>2
    <3> QED BY <2>1, <3>1 DEF TypeOK, PlacesTyped
  <2>5. ChansTyped'
    BY <1>t, <1>4, <2>1, <2>3 DEF Tell, ChansTyped
  <2> QED BY <1>4, <2>1, <2>4, <2>5, KeptTyped DEF Tell, TypeOK, sims
<1> QED BY <1>1, <1>2, <1>3, <1>4

\* Process 0 of a rank takes an answer.
LEMMA LeadTyped ==
  ASSUME TypeOK, NEW r \in Ranks, Gather(r) \/ Collect(r) \/ Sum(r),
         LET l == Lead(r)
         IN queue[l] # <<>> => /\ pc[l] = "window" => Head(queue[l]).kind = "horizon"
                               /\ pc[l] = "exchange" => Head(queue[l]).kind = "sent"
  PROVE  TypeOK'
<1> DEFINE l == Lead(r)
<1>t. /\ pc \in [Procs -> Places] /\ got \in [Ranks -> Nat] /\ SetupOK /\ ChansTyped /\ l \in Procs
      /\ horizon \in [Procs -> Limits] /\ todo \in [Procs -> Seq(Sims)]
      /\ buf \in [Procs -> SUBSET Mails]
  BY LeadFacts DEF TypeOK, PlacesTyped, WindowTyped, BufsTyped
<1>1. /\ UNCHANGED <<setup, sims, future, cmds, pc, args, todo, exits>>
      /\ Procs' = Procs /\ Ranks' = Ranks
      /\ queue[l] # <<>> /\ queue' = [queue EXCEPT ![l] = Tail(@)]
      /\ got' = [got EXCEPT ![r] = @ + 1]
  <2>1. CASE Gather(r)
    BY <2>1, Frame DEF Gather, bufs, reports
  <2>2. CASE Collect(r)
    BY <2>2, Frame DEF Collect, window, reports
  <2>3. CASE Sum(r)
    BY <2>3, Frame DEF Sum, bufs, window
  <2> QED BY <2>1, <2>2, <2>3
<1>2. ChansTyped' /\ PlacesTyped'
  <2>1. queue' \in [Procs -> Seq(Entries)]
    BY <1>t, <1>1, HeadProps
  <2>2. got' \in [Ranks -> Nat]
    BY <1>t, <1>1
  <2> QED BY <1>1, <2>1, <2>2 DEF TypeOK, ChansTyped, PlacesTyped
<1>3. WindowTyped'
  <2>1. CASE Gather(r)
    <3>1. Head(queue[l]).val \in Limits /\ horizon[l] \in Limits
      BY <1>t, <1>1, <2>1, HeadProps, EntryProps DEF Gather
    <3>2. \A a, b \in Limits : Min({a, b}) \in Limits
      <4>1. ASSUME NEW a \in Limits PROVE a \in Int
        <5>1. a \in Nat
          BY TimeFacts
        <5> QED BY <5>1
      <4> QED BY <4>1, MinPair
    <3>3. Min({horizon[l], Head(queue[l]).val}) \in Limits
      BY <3>1, <3>2
    <3> QED BY <1>t, <1>1, <2>1, <3>3 DEF Gather, WindowTyped
  <2>2. CASE Collect(r) \/ Sum(r)
    BY <1>t, <1>1, <2>2 DEF Collect, Sum, WindowTyped, window
  <2> QED BY <2>1, <2>2
<1>4. BufsTyped'
  <2>1. CASE Collect(r)
    <3>1. Head(queue[l]).val \in SUBSET Mails
      BY <1>t, <1>1, <2>1, HeadProps, EntryProps DEF Collect
    <3> QED BY <1>t, <1>1, <2>1, <3>1 DEF Collect, BufsTyped, TypeOK
  <2>2. CASE Gather(r) \/ Sum(r)
    BY <1>t, <1>1, <2>2 DEF Gather, Sum, BufsTyped, bufs, TypeOK
  <2> QED BY <2>1, <2>2
<1> QED BY <1>1, <1>2, <1>3, <1>4, KeptTyped DEF TypeOK, sims

\* All ranks take a step together.
LEMMA TogetherTyped ==
  ASSUME TypeOK, Together
  PROVE  TypeOK'
<1>t. /\ pc \in [Procs -> Places] /\ got \in [Ranks -> Nat] /\ SetupOK /\ ChansTyped
      /\ upper \in [Procs -> Limits] /\ spec \in [Procs -> BOOLEAN]
      /\ horizon \in [Procs -> Limits] /\ todo \in [Procs -> Seq(Sims)]
      /\ buf \in [Procs -> SUBSET Mails] /\ future \in [Procs -> Limits]
      /\ {"peek", "start", "main", "listen", "run", "cmd"} \subseteq Places
      /\ \A p \in Procs : Lead(p[1]) \in Procs
  BY LeadFacts DEF TypeOK, PlacesTyped, WindowTyped, BufsTyped, ArgsTyped, Places
<1>1. CASE Agree
  <2> DEFINE u == Min({upper[p] : p \in Leads})
             given == \E p \in Leads : spec[p]
  <2>1. UNCHANGED setup /\ Procs' = Procs /\ Ranks' = Ranks
    BY <1>1, Frame DEF Agree
  <2>2. u \in Limits /\ given \in BOOLEAN
    BY <1>t, LeastProps
  <2> HIDE DEF u, given
  <2>3. /\ upper' = [p \in Procs |-> IF p \in Leads THEN u ELSE upper[p]]
        /\ spec' = [p \in Procs |-> IF p \in Leads THEN given ELSE spec[p]]
        /\ queue' = Instruct(Ranks, "run", [p \in Procs |-> <<u, given>>])
    BY <1>1 DEF Agree, u, given
  <2>4. queue' \in [Procs -> Seq(Entries)]
    BY <1>t, <2>2, <2>3, InstructProps, EntryProps
  <2>5. ArgsTyped'
    BY <1>t, <2>1, <2>2, <2>3 DEF ArgsTyped
  <2>6. PlacesTyped'
    BY <1>t, <1>1, <2>1 DEF Agree, TypeOK, PlacesTyped, reports
  <2>7. BufsTyped'
    BY <1>t, <1>1, <2>1 DEF Agree, BufsTyped
  <2>8. ChansTyped'
    BY <1>t, <1>1, <2>1, <2>4 DEF Agree, ChansTyped
  <2> QED BY <1>1, <2>1, <2>5, <2>6, <2>7, <2>8, KeptTyped DEF Agree, TypeOK, sims
<1>2. CASE Announce
  <2> DEFINE h == Min({horizon[p] : p \in Leads})
  <2>1. UNCHANGED setup /\ Procs' = Procs /\ Ranks' = Ranks
    BY <1>2, Frame DEF Announce
  <2>2. h \in Limits
    BY <1>t, LeastProps
  <2> HIDE DEF h
  <2>3. /\ horizon' = [p \in Procs |-> IF p \in Leads THEN h ELSE horizon[p]]
        /\ pc' = [p \in Procs |-> IF p \in Leads THEN Opened(p, h) ELSE pc[p]]
        /\ queue' = Instruct(Ranks, "horizon", [p \in Procs |-> h])
    BY <1>2 DEF Announce, h
  <2>4. queue' \in [Procs -> Seq(Entries)]
    BY <1>t, <2>2, <2>3, InstructProps, EntryProps
  <2>5. WindowTyped'
    BY <1>t, <1>2, <2>1, <2>2, <2>3 DEF Announce, WindowTyped
  <2>6. \A p \in Procs : Opened(p, h) \in Places
    BY <1>t DEF Opened, Over
  <2>7. PlacesTyped'
    <3>1. pc' \in [Procs -> Places]
      BY <1>t, <2>3, <2>6
    <3>2. got' = got /\ exits' = exits /\ count' = count
      BY <1>2 DEF Announce, reports
    <3> QED BY <2>1, <3>1, <3>2 DEF TypeOK, PlacesTyped
  <2>8. ChansTyped'
    BY <1>t, <1>2, <2>1, <2>4 DEF Announce, ChansTyped
  <2> QED BY <1>2, <2>1, <2>5, <2>7, <2>8, KeptTyped DEF Announce, TypeOK, sims
<1>3. CASE Distribute
  <2>1. UNCHANGED <<setup, now, fresh, done, cmds, args, window>>
    BY <1>3 DEF Distribute, Deliver
  <2>2. UNION {buf[q] : q \in Leads} \in SUBSET Mails
    BY <1>t DEF SetupOK
  <2>3. list' \in [Sims -> Lists] /\ BufsTyped' /\ PlacesTyped'
    BY <1>3, <2>2, DeliverProps DEF Distribute
  <2>4. \A p : For(p) \in SUBSET Mails
    BY <2>2 DEF For
  <2>5. queue' \in [Procs -> Seq(Entries)]
    BY <1>t, <1>3, <2>4, InstructProps, EntryProps DEF Distribute
  <2>6. ChansTyped'
    BY <1>t, <2>1, <2>5, Frame DEF ChansTyped
  <2> QED BY <2>1, <2>3, <2>6, KeptTyped DEF TypeOK, SimsTyped
<1>4. CASE Reported
  <2>1. UNCHANGED setup /\ Procs' = Procs /\ Ranks' = Ranks
    BY <1>4, Frame DEF Reported
  <2>2. \A p : Over(p) \in Places
    BY <1>t DEF Over
  <2>3. PlacesTyped'
    BY <1>t, <1>4, <2>1, <2>2 DEF Reported, TypeOK, PlacesTyped
  <2> QED BY <1>4, <2>1, <2>3, KeptTyped DEF Reported, TypeOK, sims
<1> QED BY <1>1, <1>2, <1>3, <1>4 DEF Together

-----------------------------------------------------------------------------
(* Where the processes are, and what is in the queues *)

Resting == {"create", "main", "agree", "listen", "tell", "report", "join", "exit", "ended"}
Opening == {"peek", "window"}
Running == {"run", "exchange"}
Leaving == {"join", "exit", "ended"}

\* The processes 0 of all ranks are between windows, or about to open one, or in
\* one; then they agree on its end and on the limit of the run.
Stage == \/ \A l \in Leads : pc[l] \in Resting
         \/ /\ \/ \A l \in Leads : pc[l] \in Opening
               \/ /\ \A l \in Leads : pc[l] \in Running
                  /\ \A l \in Leads : horizon[l] = horizon[Lead(0)]
            /\ \A l \in Leads : upper[l] = upper[Lead(0)] /\ spec[l] = spec[Lead(0)]

Stop == Entry("stop", 0)
Ask == Entry("report", 0)
RunCmd(u, s) == Entry("run", <<u, s>>)
Stops == Seq({Stop}) \ {<<>>}

\* Another process, at place p with queue q, takes part in the end of a run, and
\* then has one of the queues in R before it.
Closing(p, q, h, u, s, R) ==
  \/ p = "cmd" /\ q \in R
  \/ /\ p = "exchange" /\ h >= u
     /\ q # <<>> /\ Head(q).kind = "incoming" /\ Tail(q) \in R
  \/ /\ p = "window" /\ ~s
     /\ q # <<>> /\ Head(q) = Entry("horizon", Inf) /\ Tail(q) \in R

\* How another process fits in when process 0 of its rank is at place lp between
\* windows, about to open one, and in one.
FitsRest(lp, e, p, q, h, u, s) ==
  \/ lp \notin {"report"} \cup Leaving /\ Closing(p, q, h, u, s, {<<>>})
  \/ /\ lp = "report"
     /\ \/ Closing(p, q, h, u, s, {<<Ask>>})
        \/ p \in {"tell", "cmd"} /\ q = <<>>
  \/ /\ lp \in Leaving
     /\ \/ Closing(p, q, h, u, s, Stops)
        \/ p = "ended" /\ q \in Seq({Stop})
  \/ /\ p = "unborn" /\ q = <<>>
     /\ lp \in {"create", "main", "agree"}
     /\ lp # "agree" => e = 0
FitsOpen(lu, ls, p, q, h, u, s) ==
  \/ Closing(p, q, h, u, s, {<<RunCmd(lu, ls)>>})
  \/ p = "start" /\ q = <<RunCmd(lu, ls)>>
  \/ /\ u = lu /\ s = ls
     /\ \/ /\ p = "exchange" /\ h < u
           /\ q # <<>> /\ Head(q).kind = "incoming" /\ Tail(q) = <<>>
        \/ p \in Opening /\ q = <<>>
FitsRun(lh, lu, ls, p, q, h, u, s) ==
  /\ u = lu /\ s = ls
  /\ \/ p = "window" /\ q = <<Entry("horizon", lh)>> /\ (lh < Inf \/ ls)
     \/ p \in Running /\ q = <<>> /\ h = lh

Fits(lp, lh, lu, ls, e, p, q, h, u, s) ==
  \/ lp \in Resting /\ FitsRest(lp, e, p, q, h, u, s)
  \/ lp \in Opening /\ FitsOpen(lu, ls, p, q, h, u, s)
  \/ lp \in Running /\ FitsRun(lh, lu, ls, p, q, h, u, s)

\* The other process c of rank r fits in.
ChildOK(r, c) ==
  Fits(pc[Lead(r)], horizon[Lead(r)], upper[Lead(r)], spec[Lead(r)], exits[r],
       pc[c], queue[c], horizon[c], upper[c], spec[c])

\* A process at place p with queue q has answered process 0 at place lp.
Replied(lp, p, q) ==
  \/ lp \in Opening /\ p = "window" /\ q = <<>>
  \/ lp \in Running /\ p = "exchange"
  \/ lp = "report" /\ p = "cmd" /\ q = <<>>
Answered(r) == {c \in Children(r) : Replied(pc[Lead(r)], pc[c], queue[c])}

\* What process 0 at place lp is answered, and how many of the answers it has.
Reply(lp) == CASE lp \in Opening -> "horizon" [] lp \in Running -> "sent" [] OTHER -> "figures"
Collecting == {"window", "exchange", "report"}
Counted(lp, n) == IF lp \in Collecting THEN n ELSE 0

\* The answers of the processes in A are in the queue of process 0, or counted.
Tally(lp, q, n, A) == /\ Len(q) + Counted(lp, n) = Cardinality(A)
                      /\ \A k \in DOMAIN q : q[k].kind = Reply(lp)
TallyOK(r) == Tally(pc[Lead(r)], queue[Lead(r)], got[r], Answered(r))

\* Rank 0 at place p after e runs, with the broadcasts q.
Cast0(p, e, q) ==
  /\ q = <<>> /\ p # "listen"
  /\ p = "create" => e = 0
  /\ p \notin {"create", "main"} \cup Leaving => e > 0

\* Another rank, at place p with the broadcasts q, follows rank 0 at place z.
Cast(z, e0, p, e, q) ==
  /\ p = "create" => e = 0
  /\ z \in {"create", "main"} =>
       q = <<>> /\ IF e0 = 0 THEN p \in {"create", "main"} /\ e = 0 ELSE p = "listen"
  /\ z = "agree" => \/ q = <<"run">> /\ p \in {"listen", "create", "main"} /\ (p # "listen" => e = 0)
                    \/ q = <<>> /\ p = "agree"
  /\ z \in Opening \cup Running => q = <<>>
  /\ z \in {"tell", "report"} => \/ q = <<"report">> /\ p = "listen"
                                 \/ q = <<>> /\ p \in {"tell", "report"}
  /\ z \in Leaving => /\ q \in Seq({"stop"})
                      /\ p \in {"listen", "main"} \cup Leaving
                      /\ p = "main" => e = 1
                      /\ p = "listen" => q # <<>>
CastOK(r) == IF r = 0 THEN Cast0(pc[Lead(0)], exits[0], cmds[0])
             ELSE Cast(pc[Lead(0)], exits[0], pc[Lead(r)], exits[r], cmds[r])

Control == /\ Stage
           /\ \A r \in Ranks : CastOK(r)
           /\ \A r \in Ranks : TallyOK(r)
           /\ \A r \in Ranks : \A c \in Children(r) : ChildOK(r, c)

\* A queue with something in it.
LEMMA QueueFacts ==
  /\ \A x : /\ <<x>> # <<>> /\ Head(<<x>>) = x /\ Tail(<<x>>) = <<>>
            /\ Len(<<x>>) = 1 /\ Append(<<>>, x) = <<x>>
  /\ \A q \in Seq(Entries) : \A x \in Entries :
       /\ Append(q, x) \in Seq(Entries) /\ Append(q, x) # <<>>
       /\ q # <<>> => Head(Append(q, x)) = Head(q) /\ Tail(Append(q, x)) = Append(Tail(q), x)
       /\ q = <<>> => Head(Append(q, x)) = x /\ Tail(Append(q, x)) = <<>>
  /\ \A q \in Stops : q # <<>> /\ Head(q) = Stop /\ Tail(q) \in Seq({Stop})
  /\ \A q \in Seq({Stop}) : q = <<>> \/ q \in Stops
  /\ \A q \in Seq({Stop}) : Append(q, Stop) \in Stops
  /\ Stop.kind = "stop" /\ Ask.kind = "report" /\ Stop \in Entries /\ Ask \in Entries
  /\ \A u, s : RunCmd(u, s).kind = "run" /\ RunCmd(u, s).val = <<u, s>>
  /\ \A k, v : Entry(k, v).kind = k /\ Entry(k, v).val = v
<1>1. ASSUME NEW q \in Seq(Entries), NEW x \in Entries, q # <<>>
      PROVE  Head(Append(q, x)) = Head(q) /\ Tail(Append(q, x)) = Append(Tail(q), x)
  BY <1>1, HeadTailAppend
<1>2. /\ \A k, v : Entry(k, v).kind = k /\ Entry(k, v).val = v
      /\ Stop.kind = "stop" /\ Ask.kind = "report" /\ Stop \in Entries /\ Ask \in Entries
      /\ \A u, s : RunCmd(u, s).kind = "run" /\ RunCmd(u, s).val = <<u, s>>
  BY EntryProps DEF Stop, Ask, RunCmd
<1>3. ASSUME NEW q \in Stops PROVE q # <<>> /\ Head(q) = Stop /\ Tail(q) \in Seq({Stop})
  BY DEF Stops
<1>4. ASSUME NEW q \in Seq({Stop}) PROVE Append(q, Stop) \in Stops
  <2>1. Stop \in {Stop}
    OBVIOUS
  <2> HIDE DEF Stop
  <2>2. Append(q, Stop) \in Seq({Stop}) /\ Append(q, Stop) # <<>>
    BY <2>1, AppendProperties
  <2> QED BY <2>2 DEF Stops
<1>5. \A q \in Seq({Stop}) : q = <<>> \/ q \in Stops
  BY DEF Stops
<1>6. \A x : /\ <<x>> # <<>> /\ Head(<<x>>) = x /\ Tail(<<x>>) = <<>>
             /\ Len(<<x>>) = 1 /\ Append(<<>>, x) = <<x>>
  OBVIOUS
<1>7. \A q \in Seq(Entries) : \A x \in Entries :
        /\ Append(q, x) \in Seq(Entries) /\ Append(q, x) # <<>>
        /\ q = <<>> => Head(Append(q, x)) = x /\ Tail(Append(q, x)) = <<>>
  OBVIOUS
<1> QED BY <1>1, <1>2, <1>3, <1>4, <1>5, <1>6, <1>7

\* The steps of another process, as far as its place and its queue go.
LEMMA FitStart ==
  ASSUME NEW lp, NEW lh, NEW lu, NEW ls, NEW e, NEW q, NEW h, NEW u, NEW s,
         Fits(lp, lh, lu, ls, e, "start", q, h, u, s)
  PROVE  /\ Fits(lp, lh, lu, ls, e, "cmd", q, h, u, s)
         /\ ~Replied(lp, "start", q) /\ ~Replied(lp, "cmd", q)
<1>1. lp \in Opening /\ q = <<RunCmd(lu, ls)>>
  BY DEF Fits, FitsRest, FitsOpen, FitsRun, Closing, Opening, Running
<1> QED BY <1>1, QueueFacts DEF Fits, FitsOpen, Closing, Replied, Opening, Running

LEMMA FitCommand ==
  ASSUME NEW lp, NEW lh, NEW lu, NEW ls, NEW e, NEW q, NEW h, NEW u, NEW s, q # <<>>,
         Fits(lp, lh, lu, ls, e, "cmd", q, h, u, s)
  PROVE  LET c == Head(q)
         IN /\ \/ /\ c.kind = "run" /\ Fits(lp, lh, lu, ls, e, "peek", Tail(q), h, c.val[1], c.val[2])
                  /\ ~Replied(lp, "peek", Tail(q))
               \/ /\ c.kind = "report" /\ Fits(lp, lh, lu, ls, e, "tell", Tail(q), h, u, s)
                  /\ ~Replied(lp, "tell", Tail(q))
               \/ /\ c.kind = "stop" /\ Fits(lp, lh, lu, ls, e, "ended", Tail(q), h, u, s)
                  /\ ~Replied(lp, "ended", Tail(q))
            /\ ~Replied(lp, "cmd", q)
<1>1. CASE lp \in Resting
  <2>1. FitsRest(lp, e, "cmd", q, h, u, s)
    BY <1>1 DEF Fits, Resting, Opening, Running
  <2>2. \/ lp = "report" /\ q = <<Ask>>
        \/ lp \in Leaving /\ q \in Stops
    BY <2>1 DEF FitsRest, Closing
  <2>3. CASE lp = "report" /\ q = <<Ask>>
    BY <1>1, <2>3, QueueFacts DEF Fits, FitsRest, Replied, Opening, Running
  <2>4. CASE lp \in Leaving /\ q \in Stops
    <3>1. Head(q).kind = "stop" /\ Tail(q) \in Seq({Stop})
      BY <2>4, QueueFacts
    <3> QED BY <1>1, <2>4, <3>1 DEF Fits, FitsRest, Replied, Opening, Running, Leaving
  <2> QED BY <2>2, <2>3, <2>4
<1>2. CASE lp \in Opening
  <2>1. q = <<RunCmd(lu, ls)>>
    BY <1>2 DEF Fits, FitsOpen, Closing, Resting, Opening, Running
  <2> QED BY <1>2, <2>1, QueueFacts DEF Fits, FitsOpen, Replied, Opening, Running
<1>3. CASE lp \in Running
  BY <1>3 DEF Fits, FitsRun, Resting, Opening, Running
<1> QED BY <1>1, <1>2, <1>3 DEF Fits

LEMMA FitPeek ==
  ASSUME NEW lp, NEW lh, NEW lu, NEW ls, NEW e, NEW q, NEW h, NEW u, NEW s, NEW v,
         Fits(lp, lh, lu, ls, e, "peek", q, h, u, s)
  PROVE  /\ lp \in Opening /\ Fits(lp, lh, lu, ls, e, "window", q, v, u, s)
         /\ ~Replied(lp, "peek", q) /\ Replied(lp, "window", q)
<1>1. lp \in Opening /\ q = <<>> /\ u = lu /\ s = ls
  BY DEF Fits, FitsRest, FitsOpen, FitsRun, Closing, Opening, Running
<1> QED BY <1>1 DEF Fits, FitsOpen, Replied, Opening, Running

LEMMA FitWindow ==
  ASSUME NEW lp, NEW lh, NEW lu, NEW ls, NEW e, NEW q, NEW h, NEW u, NEW s, q # <<>>,
         Fits(lp, lh, lu, ls, e, "window", q, h, u, s)
  PROVE  LET v == Head(q).val
             p == IF v = Inf /\ ~s THEN "cmd" ELSE "run"
         IN /\ Head(q).kind = "horizon"
            /\ Fits(lp, lh, lu, ls, e, p, Tail(q), v, u, s)
            /\ ~Replied(lp, "window", q) /\ ~Replied(lp, p, Tail(q))
<1>1. ASSUME NEW R, Closing("window", q, h, u, s, R)
      PROVE  /\ Head(q).kind = "horizon" /\ Head(q).val = Inf /\ ~s
             /\ Closing("cmd", Tail(q), Inf, u, s, R)
  BY <1>1, QueueFacts DEF Closing
<1>2. CASE lp \in Resting
  <2>1. FitsRest(lp, e, "window", q, h, u, s)
    BY <1>2 DEF Fits, Resting, Opening, Running
  <2>2. CASE lp \notin {"report"} \cup Leaving /\ Closing("window", q, h, u, s, {<<>>})
    BY <1>1, <1>2, <2>2 DEF Fits, FitsRest, Replied, Resting, Opening, Running
  <2>3. CASE lp = "report" /\ Closing("window", q, h, u, s, {<<Ask>>})
    <3>1. Tail(q) # <<>>
      BY <2>3, QueueFacts DEF Closing
    <3> QED BY <1>1, <1>2, <2>3, <3>1 DEF Fits, FitsRest, Replied, Opening, Running
  <2>4. CASE lp \in Leaving /\ Closing("window", q, h, u, s, Stops)
    BY <1>1, <1>2, <2>4 DEF Fits, FitsRest, Replied, Leaving, Opening, Running
  <2> QED BY <2>1, <2>2, <2>3, <2>4 DEF FitsRest
<1>3. CASE lp \in Opening
  <2>1. Closing("window", q, h, u, s, {<<RunCmd(lu, ls)>>})
    BY <1>3 DEF Fits, FitsOpen, Resting, Opening, Running
  <2> QED BY <1>1, <1>3, <2>1 DEF Fits, FitsOpen, Replied, Opening, Running
<1>4. CASE lp \in Running
  <2>1. u = lu /\ s = ls /\ q = <<Entry("horizon", lh)>> /\ (lh < Inf \/ ls)
    BY <1>4 DEF Fits, FitsRun, Resting, Opening, Running
  <2>2. ~(lh = Inf /\ ~s)
    BY <2>1, TimeFacts
  <2> QED BY <1>4, <2>1, <2>2, QueueFacts DEF Fits, FitsRun, Replied, Opening, Running
<1> QED BY <1>2, <1>3, <1>4 DEF Fits

LEMMA FitHand ==
  ASSUME NEW lp, NEW lh, NEW lu, NEW ls, NEW e, NEW q, NEW h, NEW u, NEW s,
         Fits(lp, lh, lu, ls, e, "run", q, h, u, s)
  PROVE  /\ lp \in Running /\ Fits(lp, lh, lu, ls, e, "exchange", q, h, u, s)
         /\ ~Replied(lp, "run", q) /\ Replied(lp, "exchange", q)
<1>1. lp \in Running
  BY DEF Fits, FitsRest, FitsOpen, Closing, Opening
<1> QED BY <1>1 DEF Fits, FitsRun, Replied, Resting, Opening, Running

LEMMA FitIncoming ==
  ASSUME NEW lp, NEW lh, NEW lu, NEW ls, NEW e, NEW q, NEW h \in Int, NEW u \in Int, NEW s, q # <<>>,
         Fits(lp, lh, lu, ls, e, "exchange", q, h, u, s)
  PROVE  LET p == IF h >= u THEN "cmd" ELSE "peek"
         IN /\ Head(q).kind = "incoming"
            /\ Fits(lp, lh, lu, ls, e, p, Tail(q), h, u, s)
            /\ ~Replied(lp, "exchange", q) /\ ~Replied(lp, p, Tail(q))
<1>1. ASSUME NEW R, Closing("exchange", q, h, u, s, R)
      PROVE  /\ Head(q).kind = "incoming" /\ h >= u
             /\ Closing("cmd", Tail(q), h, u, s, R)
  BY <1>1 DEF Closing
<1>2. CASE lp \in Resting
  <2>1. FitsRest(lp, e, "exchange", q, h, u, s)
    BY <1>2 DEF Fits, Resting, Opening, Running
  <2>2. CASE lp \notin {"report"} \cup Leaving /\ Closing("exchange", q, h, u, s, {<<>>})
    BY <1>1, <1>2, <2>2 DEF Fits, FitsRest, Replied, Resting, Opening, Running
  <2>3. CASE lp = "report" /\ Closing("exchange", q, h, u, s, {<<Ask>>})
    <3>1. Tail(q) # <<>>
      BY <2>3, QueueFacts DEF Closing
    <3> QED BY <1>1, <1>2, <2>3, <3>1 DEF Fits, FitsRest, Replied, Opening, Running
  <2>4. CASE lp \in Leaving /\ Closing("exchange", q, h, u, s, Stops)
    BY <1>1, <1>2, <2>4 DEF Fits, FitsRest, Replied, Leaving, Opening, Running
  <2> QED BY <2>1, <2>2, <2>3, <2>4 DEF FitsRest
<1>3. CASE lp \in Opening
  <2>1. FitsOpen(lu, ls, "exchange", q, h, u, s)
    BY <1>3 DEF Fits, Resting, Opening, Running
  <2>2. CASE Closing("exchange", q, h, u, s, {<<RunCmd(lu, ls)>>})
    BY <1>1, <1>3, <2>2 DEF Fits, FitsOpen, Replied, Opening, Running
  <2>3. CASE /\ u = lu /\ s = ls /\ h < u
             /\ Head(q).kind = "incoming" /\ Tail(q) = <<>>
    BY <1>3, <2>3 DEF Fits, FitsOpen, Replied, Opening, Running
  <2> QED BY <2>1, <2>2, <2>3 DEF FitsOpen, Opening
<1>4. CASE lp \in Running
  BY <1>4 DEF Fits, FitsRun, Resting, Opening, Running
<1> QED BY <1>2, <1>3, <1>4 DEF Fits

LEMMA FitTell ==
  ASSUME NEW lp, NEW lh, NEW lu, NEW ls, NEW e, NEW q, NEW h, NEW u, NEW s,
         Fits(lp, lh, lu, ls, e, "tell", q, h, u, s)
  PROVE  /\ lp = "report" /\ Fits(lp, lh, lu, ls, e, "cmd", q, h, u, s)
         /\ ~Replied(lp, "tell", q) /\ Replied(lp, "cmd", q)
<1>1. lp = "report" /\ q = <<>>
  BY DEF Fits, FitsRest, FitsOpen, FitsRun, Closing, Opening, Running
<1> QED BY <1>1 DEF Fits, FitsRest, Replied, Resting, Opening, Running

\* The answers to process 0.
LEMMA TallyAnswer ==
  ASSUME NEW lp, NEW q \in Seq(Entries), NEW n \in Nat, NEW A, IsFiniteSet(A), NEW c, c \notin A,
         NEW x \in Entries, x.kind = Reply(lp), Tally(lp, q, n, A)
  PROVE  Tally(lp, Append(q, x), n, A \cup {c})
<1>1. Len(Append(q, x)) = Len(q) + 1 /\ DOMAIN Append(q, x) = 1..Len(q) + 1 /\ Len(q) \in Nat
  OBVIOUS
<1>2. \A k \in DOMAIN Append(q, x) : Append(q, x)[k].kind = Reply(lp)
  <2>1. ASSUME NEW k \in 1..Len(q) + 1 PROVE Append(q, x)[k] = IF k <= Len(q) THEN q[k] ELSE x
    OBVIOUS
  <2>2. \A k \in 1..Len(q) : q[k].kind = Reply(lp)
    BY DEF Tally
  <2> QED BY <1>1, <2>1, <2>2
<1>3. Cardinality(A \cup {c}) = Cardinality(A) + 1 /\ Cardinality(A) \in Nat
  BY FS_AddElement, FS_CardinalityType
<1>4. Counted(lp, n) \in Nat
  BY DEF Counted
<1>5. Len(q) + Counted(lp, n) = Cardinality(A)
  BY DEF Tally
<1>6. Len(Append(q, x)) + Counted(lp, n) = Cardinality(A \cup {c})
  BY <1>1, <1>3, <1>4, <1>5
<1> QED BY <1>2, <1>6 DEF Tally

LEMMA TallyTake ==
  ASSUME NEW lp \in Collecting, NEW q \in Seq(Entries), q # <<>>, NEW n \in Nat, NEW A,
         Tally(lp, q, n, A)
  PROVE  Head(q).kind = Reply(lp) /\ Tally(lp, Tail(q), n + 1, A)
<1>1. Len(Tail(q)) = Len(q) - 1 /\ 1 \in DOMAIN q /\ Head(q) = q[1] /\ Len(q) \in Nat
  OBVIOUS
<1>2. ASSUME NEW k \in DOMAIN Tail(q) PROVE Tail(q)[k].kind = Reply(lp)
  <2>1. Tail(q)[k] = q[k + 1] /\ k + 1 \in DOMAIN q
    OBVIOUS
  <2> QED BY <2>1 DEF Tally
<1>3. Len(Tail(q)) + Counted(lp, n + 1) = Cardinality(A)
  BY <1>1 DEF Tally, Counted
<1> QED BY <1>1, <1>2, <1>3 DEF Tally

LEMMA TallyFull ==
  ASSUME NEW lp \in Collecting, NEW q \in Seq(Entries), NEW C, IsFiniteSet(C), NEW A, A \subseteq C,
         Tally(lp, q, Cardinality(C), A)
  PROVE  A = C /\ q = <<>>
<1>1. IsFiniteSet(A) /\ Cardinality(A) <= Cardinality(C) /\ Cardinality(C) \in Nat
      /\ Cardinality(A) \in Nat
  BY FS_Subset, FS_CardinalityType
<1>2. Len(q) + Cardinality(C) = Cardinality(A) /\ Len(q) \in Nat
  BY DEF Tally, Counted
<1>3. Len(q) = 0 /\ Cardinality(A) = Cardinality(C)
  BY <1>1, <1>2
<1>4. q = <<>>
  BY <1>3
<1> QED BY <1>1, <1>3, <1>4, FS_Subset

LEMMA TallyNone ==
  /\ \A lp, n : lp \notin Collecting \/ n = 0 => Tally(lp, <<>>, n, {})
  /\ \A lp, n : \A q \in Seq(Entries) : lp \notin Collecting /\ Tally(lp, q, n, {}) => q = <<>>
<1>1. Cardinality({}) = 0
  BY FS_EmptySet
<1>2. ASSUME NEW lp, NEW n, lp \notin Collecting \/ n = 0 PROVE Tally(lp, <<>>, n, {})
  BY <1>1, <1>2 DEF Tally, Counted
<1>3. ASSUME NEW lp, NEW n, NEW q \in Seq(Entries), lp \notin Collecting, Tally(lp, q, n, {})
      PROVE  q = <<>>
  <2>1. Len(q) + 0 = 0 /\ Len(q) \in Nat
    BY <1>1, <1>3 DEF Tally, Counted
  <2> QED BY <2>1
<1> QED BY <1>2, <1>3

\* When process 0 of every rank has all answers, all have answered, and none is
\* left in a queue.
LEMMA AllAnswered ==
  ASSUME TypeOK, Control, NEW where \in Collecting, Complete(where), NEW r \in Ranks
  PROVE  /\ queue[Lead(r)] = <<>>
         /\ \A c \in Children(r) : Replied(where, pc[c], queue[c])
<1>1. /\ IsFiniteSet(Children(r)) /\ Lead(r) \in Procs /\ queue[Lead(r)] \in Seq(Entries)
      /\ Answered(r) \subseteq Children(r)
  BY LeadFacts DEF TypeOK, SetupOK, ChansTyped, Answered
<1>2. pc[Lead(r)] = where /\ got[r] = Cardinality(Children(r))
  BY DEF Complete
<1>3. Tally(where, queue[Lead(r)], Cardinality(Children(r)), Answered(r))
  BY <1>2 DEF Control, TallyOK
<1>4. Answered(r) = Children(r) /\ queue[Lead(r)] = <<>>
  BY <1>1, <1>3, TallyFull
<1> QED BY <1>2, <1>4 DEF Answered

\* No process has answered before it is asked.
LEMMA NoneAnswered ==
  ASSUME TypeOK, Control, NEW r \in Ranks, pc[Lead(r)] \in Resting \ {"report"}
  PROVE  Answered(r) = {} /\ queue[Lead(r)] = <<>>
<1>1. Answered(r) = {} /\ pc[Lead(r)] \notin Collecting
  BY DEF Answered, Replied, Resting, Opening, Running, Collecting
<1>2. queue[Lead(r)] \in Seq(Entries)
  BY LeadFacts DEF TypeOK, ChansTyped
<1> QED BY <1>1, <1>2, TallyNone DEF Control, TallyOK

\* Control keeps the queues in step.
LEMMA InStep ==
  ASSUME TypeOK, Control
  PROVE  QueuesInStep
<1>1. ASSUME NEW p \in Procs, queue[p] # <<>> PROVE Head(queue[p]).kind \in Expected(p)
  <2>1. queue[p] \in Seq(Entries)
    BY DEF TypeOK, ChansTyped
  <2>2. CASE p \in Leads
    <3>1. PICK r \in Ranks : p = Lead(r)
      BY <2>2 DEF Leads
    <3>2. pc[p] \in Resting \cup Opening \cup Running
      BY <2>2 DEF Control, Stage
    <3>3. pc[p] = "report" \/ pc[p] \in Opening \cup Running
      BY <1>1, <3>1, <3>2, NoneAnswered
    <3>4. Head(queue[p]).kind = Reply(pc[p])
      <4>1. 1 \in DOMAIN queue[p] /\ Head(queue[p]) = queue[p][1]
        BY <1>1, <2>1
      <4> QED BY <3>1, <4>1 DEF Control, TallyOK, Tally
    <3> QED BY <2>2, <3>3, <3>4 DEF Expected, Reply, Opening, Running
  <2>3. CASE p \notin Leads
    <3> DEFINE r == p[1]
    <3>1. r \in Ranks /\ p \in Children(r)
      BY <2>3, LeadFacts DEF TypeOK
    <3>2. Fits(pc[Lead(r)], horizon[Lead(r)], upper[Lead(r)], spec[Lead(r)], exits[r],
               pc[p], queue[p], horizon[p], upper[p], spec[p])
      BY <3>1 DEF Control, ChildOK
    <3>3. horizon[p] \in Int /\ upper[p] \in Int
      <4>1. horizon[p] \in Limits /\ upper[p] \in Limits
        BY DEF TypeOK, WindowTyped, ArgsTyped
      <4>2. horizon[p] \in Nat /\ upper[p] \in Nat
        BY <4>1, TimeFacts
      <4> QED BY <4>2
    <3>4. CASE pc[p] \in {"cmd", "start"}
      <4>1. Fits(pc[Lead(r)], horizon[Lead(r)], upper[Lead(r)], spec[Lead(r)], exits[r],
                 "cmd", queue[p], horizon[p], upper[p], spec[p])
        BY <3>2, <3>4, FitStart
      <4> QED BY <1>1, <3>4, <4>1, FitCommand DEF Expected
    <3>5. CASE pc[p] = "window"
      BY <1>1, <3>2, <3>5, FitWindow DEF Expected
    <3>6. CASE pc[p] = "exchange"
      BY <1>1, <2>3, <3>2, <3>3, <3>6, FitIncoming DEF Expected
    <3>7. CASE pc[p] = "ended"
      <4>1. queue[p] \in Seq({Stop})
        BY <3>2, <3>7 DEF Fits, FitsRest, FitsOpen, FitsRun, Closing, Opening, Running
      <4>2. Head(queue[p]).kind = "stop"
        BY <1>1, <4>1, QueueFacts
      <4> QED BY <3>7, <4>2 DEF Expected
    <3>8. CASE pc[p] \notin {"cmd", "start", "window", "exchange", "ended"}
      BY <1>1, <3>2, <3>8 DEF Fits, FitsRest, FitsOpen, FitsRun, Closing, Opening, Running
    <3> QED BY <3>4, <3>5, <3>6, <3>7, <3>8
  <2> QED BY <2>2, <2>3
<1>2. ASSUME NEW r \in Ranks, cmds[r] # <<>>, pc[Lead(r)] = "main", exits[r] = 0
      PROVE  Head(cmds[r]) = "run"
  <2>1. CASE r = 0
    BY <1>2, <2>1 DEF Control, CastOK, Cast0
  <2>2. CASE r # 0
    <3>1. Cast(pc[Lead(0)], exits[0], "main", 0, cmds[r])
      BY <1>2, <2>2 DEF Control, CastOK
    <3>2. pc[Lead(0)] \in Resting \cup Opening \cup Running
      BY LeadFacts DEF TypeOK, Control, Stage
    <3>3. CASE pc[Lead(0)] \in {"create", "main", "listen"}
      <4>1. pc[Lead(0)] # "listen"
        BY LeadFacts DEF TypeOK, Control, CastOK, Cast0
      <4> QED BY <1>2, <3>1, <3>3, <4>1 DEF Cast
    <3>4. CASE pc[Lead(0)] \notin {"create", "main", "listen"}
      BY <1>2, <3>1, <3>2, <3>4 DEF Cast, Resting, Leaving
    <3> QED BY <3>3, <3>4
  <2> QED BY <2>1, <2>2
<1> QED BY <1>1, <1>2 DEF QueuesInStep

-----------------------------------------------------------------------------
(* Every step keeps control *)

\* A part of the group stays where it is.
LEMMA SameControl ==
  ASSUME UNCHANGED <<setup, chans, pc, got, args, exits, horizon>>
  PROVE  Control => Control'
<1>1. /\ queue' = queue /\ cmds' = cmds /\ pc' = pc /\ got' = got /\ upper' = upper /\ spec' = spec
      /\ exits' = exits /\ horizon' = horizon
  BY DEF chans, args
<1>2. Leads' = Leads /\ Ranks' = Ranks /\ \A r : Children(r)' = Children(r)
  BY Frame
<1>3. \A r : CastOK(r)' = CastOK(r)
  BY <1>1 DEF CastOK
<1>4. \A r : Answered(r)' = Answered(r)
  BY <1>1, <1>2 DEF Answered
<1>5. \A r : TallyOK(r)' = TallyOK(r)
  BY <1>1, <1>4 DEF TallyOK
<1>6. \A r, c : ChildOK(r, c)' = ChildOK(r, c)
  BY <1>1 DEF ChildOK
<1>7. Stage => Stage'
  BY <1>1, <1>2 DEF Stage
<1> QED BY <1>2, <1>3, <1>5, <1>6, <1>7 DEF Control

\* An answer to the process 0 at place lp is put in its queue q.
Sent(lp, q, nq) == \E x \in Entries : x.kind = Reply(lp) /\ nq = Append(q, x)

\* A process other than 0 takes a step, and may send an answer.
LEMMA ChildControl ==
  ASSUME TypeOK, Control, UNCHANGED <<setup, cmds, got, exits>>,
         NEW p \in Procs, p \notin Leads,
         NEW np, NEW nq, NEW nh, NEW nu, NEW ns,
         pc' = [pc EXCEPT ![p] = np],
         horizon' = [horizon EXCEPT ![p] = nh],
         upper' = [upper EXCEPT ![p] = nu],
         spec' = [spec EXCEPT ![p] = ns],
         LET r == p[1]
             l == Lead(r)
         IN /\ queue'[p] = nq
            /\ \A o \in Procs : o # p /\ o # l => queue'[o] = queue[o]
            /\ Fits(pc[l], horizon[l], upper[l], spec[l], exits[r], np, nq, nh, nu, ns)
            /\ ~Replied(pc[l], pc[p], queue[p])
            /\ \/ queue'[l] = queue[l] /\ ~Replied(pc[l], np, nq)
               \/ Replied(pc[l], np, nq) /\ Sent(pc[l], queue[l], queue'[l])
  PROVE  Control'
<1> DEFINE r == p[1]
           l == Lead(r)
<1>1. /\ Leads' = Leads /\ Ranks' = Ranks /\ \A o : Children(o)' = Children(o)
      /\ cmds' = cmds /\ got' = got /\ exits' = exits
  BY Frame
<1>2. /\ r \in Ranks /\ p \in Children(r) /\ l \in Procs /\ l \in Leads /\ l # p
      /\ \A o \in Ranks : Lead(o) \in Procs /\ Lead(o) \in Leads
      /\ \A o \in Ranks : o # r => p \notin Children(o) /\ Lead(o) # l /\ l \notin Children(o)
      /\ \A o \in Ranks : \A c \in Children(o) : c \in Procs /\ c \notin Leads
      /\ Leads \subseteq Procs
  BY LeadFacts DEF TypeOK, SetupOK
<1>3. \A o \in Procs : o # p => /\ pc'[o] = pc[o] /\ horizon'[o] = horizon[o]
                                /\ upper'[o] = upper[o] /\ spec'[o] = spec[o]
                                /\ o # l => queue'[o] = queue[o]
  BY DEF TypeOK, PlacesTyped, WindowTyped, ArgsTyped
<1>4. pc'[p] = np /\ horizon'[p] = nh /\ upper'[p] = nu /\ spec'[p] = ns /\ queue'[p] = nq
  BY DEF TypeOK, PlacesTyped, WindowTyped, ArgsTyped
<1>5. \A o \in Ranks : /\ pc'[Lead(o)] = pc[Lead(o)] /\ horizon'[Lead(o)] = horizon[Lead(o)]
                       /\ upper'[Lead(o)] = upper[Lead(o)] /\ spec'[Lead(o)] = spec[Lead(o)]
  BY <1>2, <1>3
<1>6. Lead(0) \in Leads /\ 0 \in Ranks
  BY LeadFacts DEF TypeOK
<1>7. Stage'
  <2>1. \A o \in Leads : /\ pc'[o] = pc[o] /\ horizon'[o] = horizon[o]
                         /\ upper'[o] = upper[o] /\ spec'[o] = spec[o]
    BY <1>2, <1>3
  <2> QED BY <1>1, <1>6, <2>1 DEF Control, Stage
<1>8. \A o \in Ranks : CastOK(o)'
  BY <1>1, <1>5, <1>6 DEF Control, CastOK
<1>9. ASSUME NEW o \in Ranks, NEW c \in Children(o) PROVE ChildOK(o, c)'
  <2>1. CASE c = p
    <3>1. o = r
      BY <1>2, <2>1
    <3> QED BY <1>1, <1>4, <1>5, <2>1, <3>1 DEF ChildOK
  <2>2. CASE c # p
    <3>1. c # l
      BY <1>2
    <3>2. /\ pc'[c] = pc[c] /\ horizon'[c] = horizon[c] /\ upper'[c] = upper[c]
          /\ spec'[c] = spec[c] /\ queue'[c] = queue[c]
      BY <1>2, <1>3, <2>2, <3>1
    <3>3. ChildOK(o, c)
      BY DEF Control
    <3> QED BY <1>1, <1>5, <3>2, <3>3 DEF ChildOK
  <2> QED BY <2>1, <2>2
<1>10. ASSUME NEW o \in Ranks, NEW c \in Children(o), c # p
       PROVE  Replied(pc[Lead(o)], pc[c], queue[c])' = Replied(pc[Lead(o)], pc[c], queue[c])
  <2>1. c # l /\ c \in Procs
    BY <1>2
  <2>2. pc'[c] = pc[c] /\ queue'[c] = queue[c] /\ pc'[Lead(o)] = pc[Lead(o)]
    BY <1>3, <1>5, <1>10, <2>1
  <2> QED BY <2>2
<1>11. ASSUME NEW o \in Ranks PROVE TallyOK(o)'
  <2>1. TallyOK(o)
    BY DEF Control
  <2>2. CASE o # r
    <3>1. Answered(o)' = Answered(o)
      BY <1>1, <1>2, <1>10, <2>2 DEF Answered
    <3>2. queue'[Lead(o)] = queue[Lead(o)]
      BY <1>2, <1>3, <2>2
    <3> QED BY <1>1, <1>5, <2>1, <3>1, <3>2 DEF TallyOK
  <2>3. CASE o = r /\ queue'[l] = queue[l] /\ ~Replied(pc[l], np, nq)
    <3>1. Answered(r)' = Answered(r)
      BY <1>1, <1>2, <1>4, <1>5, <1>10, <2>3 DEF Answered
    <3> QED BY <1>1, <1>5, <2>1, <2>3, <3>1 DEF TallyOK
  <2>4. ASSUME o = r, Replied(pc[l], np, nq),
               NEW x \in Entries, x.kind = Reply(pc[l]), queue'[l] = Append(queue[l], x)
        PROVE  TallyOK(o)'
    <3>1. Answered(r)' = Answered(r) \cup {p} /\ p \notin Answered(r)
      BY <1>1, <1>2, <1>4, <1>5, <1>10, <2>4 DEF Answered
    <3>2. IsFiniteSet(Answered(r))
      <4>1. IsFiniteSet(Children(r)) /\ Answered(r) \subseteq Children(r)
        BY <1>2 DEF TypeOK, SetupOK, Answered
      <4> QED BY <4>1, FS_Subset
    <3>3. queue[l] \in Seq(Entries) /\ got[r] \in Nat
      BY <1>2 DEF TypeOK, ChansTyped, PlacesTyped
    <3>4. Tally(pc[l], queue[l], got[r], Answered(r))
      BY <2>1, <2>4 DEF TallyOK
    <3>5. Tally(pc[l], Append(queue[l], x), got[r], Answered(r) \cup {p})
      BY <2>4, <3>1, <3>2, <3>3, <3>4, TallyAnswer
    <3> QED BY <1>1, <1>5, <1>2, <2>4, <3>1, <3>5 DEF TallyOK
  <2> QED BY <2>2, <2>3, <2>4 DEF Sent
<1> QED BY <1>1, <1>7, <1>8, <1>9, <1>11 DEF Control

\* The steps of a process other than 0.
LEMMA ChildSteps ==
  ASSUME TypeOK, Control, NEW p \in Procs, p \notin Leads,
         \/ ChildStart(p) \/ ChildCommand(p) \/ Peek(p) \/ ChildWindow(p)
         \/ HandOver(p) \/ ChildIncoming(p) \/ Tell(p)
  PROVE  Control'
<1> DEFINE r == p[1]
           l == Lead(r)
           lp == pc[l]
           fits(P, q, h, u, s) == Fits(lp, horizon[l], upper[l], spec[l], exits[r], P, q, h, u, s)
<1>1. /\ r \in Ranks /\ p \in Children(r) /\ l \in Procs /\ l # p
      /\ pc \in [Procs -> Places] /\ queue \in [Procs -> Seq(Entries)]
      /\ horizon \in [Procs -> Limits] /\ upper \in [Procs -> Limits] /\ spec \in [Procs -> BOOLEAN]
      /\ got \in [Ranks -> Nat] /\ SetupOK /\ ChansTyped
  <2>1. SetupOK /\ ChansTyped
    BY DEF TypeOK
  <2>2. r \in Ranks /\ p \in Children(r) /\ l \in Procs
    BY <2>1, LeadFacts
  <2>3. l # p
    BY <2>1, <2>2, LeadFacts
  <2>4. /\ pc \in [Procs -> Places] /\ queue \in [Procs -> Seq(Entries)]
        /\ horizon \in [Procs -> Limits] /\ upper \in [Procs -> Limits] /\ spec \in [Procs -> BOOLEAN]
        /\ got \in [Ranks -> Nat]
    BY DEF TypeOK, ChansTyped, PlacesTyped, WindowTyped, ArgsTyped
  <2> QED BY <2>1, <2>2, <2>3, <2>4
<1>2. fits(pc[p], queue[p], horizon[p], upper[p], spec[p])
  BY <1>1 DEF Control, ChildOK
<1> DEFINE hp == horizon[p]
           up == upper[p]
           sp == spec[p]
           qp == queue[p]
\* A step that takes an entry or leaves the queues alone.
<1>3. ASSUME UNCHANGED <<setup, cmds, got, exits>>, NEW np, NEW nq, NEW nh, NEW nu, NEW ns,
             pc' = [pc EXCEPT ![p] = np],
             horizon' = [horizon EXCEPT ![p] = nh],
             upper' = [upper EXCEPT ![p] = nu],
             spec' = [spec EXCEPT ![p] = ns],
             queue' = [queue EXCEPT ![p] = nq],
             fits(np, nq, nh, nu, ns), ~Replied(lp, pc[p], qp), ~Replied(lp, np, nq)
      PROVE  Control'
  <2>1. queue'[p] = nq /\ \A o \in Procs : o # p => queue'[o] = queue[o]
    BY <1>1, <1>3
  <2> QED BY <1>1, <1>3, <2>1, ChildControl
\* A step that sends an answer.
<1>4. ASSUME UNCHANGED <<setup, cmds, got, exits>>, NEW np, NEW nq, NEW nh, NEW nu, NEW ns,
             pc' = [pc EXCEPT ![p] = np],
             horizon' = [horizon EXCEPT ![p] = nh],
             upper' = [upper EXCEPT ![p] = nu],
             spec' = [spec EXCEPT ![p] = ns],
             qp = nq, NEW val, queue' = Report(p, Reply(lp), val), Entry(Reply(lp), val) \in Entries,
             fits(np, nq, nh, nu, ns), ~Replied(lp, pc[p], qp), Replied(lp, np, nq)
      PROVE  Control'
  <2>1. /\ queue'[l] = Append(queue[l], Entry(Reply(lp), val))
        /\ \A o \in Procs : o # l => queue'[o] = queue[o]
    BY <1>1, <1>4, ReportProps
  <2>2. queue'[p] = nq /\ Sent(lp, queue[l], queue'[l])
    BY <1>1, <1>4, <2>1, QueueFacts DEF Sent
  <2>3. \A o \in Procs : o # p /\ o # l => queue'[o] = queue[o]
    BY <2>1
  <2> QED BY <1>4, <2>2, <2>3, ChildControl
<1>5. horizon = [horizon EXCEPT ![p] = hp] /\ upper = [upper EXCEPT ![p] = up]
      /\ spec = [spec EXCEPT ![p] = sp] /\ queue = [queue EXCEPT ![p] = qp]
  BY <1>1
<1>6. hp \in Int /\ up \in Int
  <2>1. hp \in Nat /\ up \in Nat
    BY <1>1, TimeFacts
  <2> QED BY <2>1
<1> HIDE DEF fits, lp
<1>7. CASE ChildStart(p)
  <2>1. pc[p] = "start" /\ fits("cmd", qp, hp, up, sp) /\ ~Replied(lp, "start", qp) /\ ~Replied(lp, "cmd", qp)
    BY <1>2, <1>7, FitStart DEF ChildStart, fits
  <2>2. /\ pc' = [pc EXCEPT ![p] = "cmd"]
        /\ UNCHANGED <<setup, cmds, got, exits>>
        /\ horizon' = [horizon EXCEPT ![p] = hp] /\ upper' = [upper EXCEPT ![p] = up]
        /\ spec' = [spec EXCEPT ![p] = sp] /\ queue' = [queue EXCEPT ![p] = qp]
    BY <1>5, <1>7 DEF ChildStart, chans, args, window, reports
  <2> HIDE DEF hp, up, sp, qp
  <2> QED BY <1>3, <2>1, <2>2
<1>8. CASE ChildCommand(p)
  <2> DEFINE cmd == Head(qp)
             np == CASE cmd.kind = "run" -> "peek"
                     [] cmd.kind = "report" -> "tell"
                     [] cmd.kind = "stop" -> "ended"
             nu == IF cmd.kind = "run" THEN cmd.val[1] ELSE up
             ns == IF cmd.kind = "run" THEN cmd.val[2] ELSE sp
  <2>1. /\ pc[p] = "cmd" /\ qp # <<>>
        /\ pc' = [pc EXCEPT ![p] = np]
        /\ queue' = [queue EXCEPT ![p] = Tail(qp)]
        /\ UNCHANGED <<setup, cmds, got, exits>>
        /\ horizon' = horizon
    BY <1>8 DEF ChildCommand, window, reports
  <2>2. upper' = [upper EXCEPT ![p] = nu] /\ spec' = [spec EXCEPT ![p] = ns]
    BY <1>5, <1>8 DEF ChildCommand, args
  <2>3. fits(np, Tail(qp), hp, nu, ns) /\ ~Replied(lp, "cmd", qp) /\ ~Replied(lp, np, Tail(qp))
    <3>1. fits("cmd", qp, hp, up, sp)
      BY <1>2, <2>1
    <3> HIDE DEF hp, up, sp, qp
    <3> QED BY <2>1, <3>1, FitCommand DEF fits
  <2> HIDE DEF hp, up, sp, qp, np, nu, ns
  <2> QED BY <1>3, <1>5, <2>1, <2>2, <2>3
<1>9. CASE Peek(p)
  <2> DEFINE nh == Window(p)
  <2>1. /\ pc[p] = "peek"
        /\ pc' = [pc EXCEPT ![p] = "window"]
        /\ horizon' = [horizon EXCEPT ![p] = nh]
        /\ queue' = Report(p, "horizon", nh)
        /\ UNCHANGED <<setup, cmds, got, exits>> /\ upper' = upper /\ spec' = spec
    BY <1>9 DEF Peek, args, reports
  <2>2. /\ lp \in Opening /\ fits("window", qp, nh, up, sp)
        /\ ~Replied(lp, "peek", qp) /\ Replied(lp, "window", qp)
    <3>1. fits("peek", qp, hp, up, sp)
      BY <1>2, <2>1
    <3> HIDE DEF hp, up, sp, qp, nh
    <3> QED BY <3>1, FitPeek DEF fits
  <2>3. Reply(lp) = "horizon" /\ Entry("horizon", nh) \in Entries
    <3>1. nh \in Limits
      BY WindowProps
    <3> HIDE DEF nh
    <3> QED BY <2>2, <3>1, EntryProps DEF Reply, Opening, Running
  <2> HIDE DEF hp, up, sp, qp, nh
  <2> QED BY <1>4, <1>5, <2>1, <2>2, <2>3
<1>10. CASE ChildWindow(p)
  <2> DEFINE v == Head(qp).val
             np == Opened(p, v)
  <2>1. /\ pc[p] = "window" /\ qp # <<>>
        /\ pc' = [pc EXCEPT ![p] = np]
        /\ horizon' = [horizon EXCEPT ![p] = v]
        /\ queue' = [queue EXCEPT ![p] = Tail(qp)]
        /\ UNCHANGED <<setup, cmds, got, exits>> /\ upper' = upper /\ spec' = spec
    BY <1>10 DEF ChildWindow, args, reports
  <2>2. np = IF v = Inf /\ ~sp THEN "cmd" ELSE "run"
    BY DEF Opened, Over
  <2>3. fits(np, Tail(qp), v, up, sp) /\ ~Replied(lp, "window", qp) /\ ~Replied(lp, np, Tail(qp))
    <3>1. fits("window", qp, hp, up, sp)
      BY <1>2, <2>1
    <3> HIDE DEF hp, up, sp, qp, np
    <3> QED BY <2>1, <2>2, <3>1, FitWindow DEF fits
  <2> HIDE DEF hp, up, sp, qp, np, v
  <2> QED BY <1>3, <1>5, <2>1, <2>3
<1>11. CASE HandOver(p)
  <2>1. /\ pc[p] = "run"
        /\ pc' = [pc EXCEPT ![p] = "exchange"]
        /\ queue' = Report(p, "sent", buf[p])
        /\ UNCHANGED <<setup, cmds, got, exits>> /\ upper' = upper /\ spec' = spec /\ horizon' = horizon
    BY <1>11 DEF HandOver, args, window, reports
  <2>2. /\ lp \in Running /\ fits("exchange", qp, hp, up, sp)
        /\ ~Replied(lp, "run", qp) /\ Replied(lp, "exchange", qp)
    <3>1. fits("run", qp, hp, up, sp)
      BY <1>2, <2>1
    <3> HIDE DEF hp, up, sp, qp
    <3> QED BY <3>1, FitHand DEF fits
  <2>3. Reply(lp) = "sent" /\ Entry("sent", buf[p]) \in Entries
    BY <2>2, EntryProps DEF Reply, Running, Opening, TypeOK, BufsTyped
  <2> HIDE DEF hp, up, sp, qp
  <2> QED BY <1>4, <1>5, <2>1, <2>2, <2>3
<1>12. CASE ChildIncoming(p)
  <2> DEFINE np == IF hp >= up THEN "cmd" ELSE "peek"
  <2>1. /\ pc[p] = "exchange" /\ qp # <<>>
        /\ queue' = [queue EXCEPT ![p] = Tail(qp)]
        /\ UNCHANGED <<setup, cmds, got, exits>>
        /\ horizon' = [horizon EXCEPT ![p] = hp] /\ upper' = [upper EXCEPT ![p] = up]
        /\ spec' = [spec EXCEPT ![p] = sp]
    BY <1>5, <1>12 DEF ChildIncoming, Deliver, args, window, reports
  <2>2. pc' = [pc EXCEPT ![p] = np]
    BY <1>1, <1>12 DEF ChildIncoming, Deliver, Over
  <2>3. fits(np, Tail(qp), hp, up, sp) /\ ~Replied(lp, "exchange", qp) /\ ~Replied(lp, np, Tail(qp))
    <3>1. fits("exchange", qp, hp, up, sp)
      BY <1>2, <2>1
    <3> HIDE DEF hp, up, sp, qp
    <3> QED BY <1>6, <2>1, <3>1, FitIncoming DEF fits
  <2> HIDE DEF hp, up, sp, qp, np
  <2> QED BY <1>3, <2>1, <2>2, <2>3
<1>13. CASE Tell(p)
  <2>1. /\ pc[p] = "tell"
        /\ pc' = [pc EXCEPT ![p] = "cmd"]
        /\ queue' = Report(p, "figures", Executed(p))
        /\ UNCHANGED <<setup, cmds, got, exits>> /\ upper' = upper /\ spec' = spec /\ horizon' = horizon
    BY <1>13 DEF Tell, args, window
  <2>2. /\ lp = "report" /\ fits("cmd", qp, hp, up, sp)
        /\ ~Replied(lp, "tell", qp) /\ Replied(lp, "cmd", qp)
    <3>1. fits("tell", qp, hp, up, sp)
      BY <1>2, <2>1
    <3> HIDE DEF hp, up, sp, qp
    <3> QED BY <3>1, FitTell DEF fits
  <2>3. Reply(lp) = "figures" /\ Entry("figures", Executed(p)) \in Entries
    <3>1. {i \in DOMAIN done : done[i] \in ToSet(parts[p])} \in SUBSET Items
      BY DEF TypeOK, SimsTyped
    <3>2. Executed(p) \in Figures
      BY <3>1 DEF Executed, Figures
    <3> QED BY <2>2, <3>2, EntryProps DEF Reply, Running, Opening
  <2> HIDE DEF hp, up, sp, qp
  <2> QED BY <1>4, <1>5, <2>1, <2>2, <2>3
<1> QED BY <1>7, <1>8, <1>9, <1>10, <1>11, <1>12, <1>13

\* Between windows only the place of process 0 and its number of runs matter.
LEMMA RestFits ==
  \A lp \in Resting : \A lh, lu, ls, e, p, q, h, u, s :
    Fits(lp, lh, lu, ls, e, p, q, h, u, s) <=> FitsRest(lp, e, p, q, h, u, s)
BY DEF Fits, Resting, Opening, Running

\* Process 0 goes on, and the others fit in as before.
LEMMA RestMoves ==
  ASSUME NEW lp, NEW e, NEW p, NEW q, NEW h, NEW u, NEW s, NEW ne,
         FitsRest(lp, e, p, q, h, u, s)
  PROVE  /\ lp = "create" => FitsRest("main", e, p, q, h, u, s)
         /\ lp \in {"main", "listen"} => FitsRest("agree", ne, p, q, h, u, s)
         /\ lp \in {"main", "listen"} /\ (lp = "main" => e # 0) =>
              FitsRest("tell", ne, p, q, h, u, s)
         /\ lp = "listen" => FitsRest("main", ne, p, q, h, u, s)
         /\ lp = "join" => FitsRest("exit", ne, p, q, h, u, s) /\ FitsRest("ended", ne, p, q, h, u, s)
         /\ lp = "report" /\ Replied(lp, p, q) =>
              FitsRest("main", ne, p, q, h, u, s) /\ FitsRest("listen", ne, p, q, h, u, s)
<1>1. lp = "report" /\ Replied(lp, p, q) =>
        FitsRest("main", ne, p, q, h, u, s) /\ FitsRest("listen", ne, p, q, h, u, s)
  BY DEF FitsRest, Leaving, Closing, Replied, Opening, Running
<1>2. lp \in {"main", "listen"} /\ (lp = "main" => e # 0) => FitsRest("tell", ne, p, q, h, u, s)
  BY DEF FitsRest, Leaving
<1> QED BY <1>1, <1>2 DEF FitsRest, Leaving

LEMMA ClosingAppend ==
  ASSUME NEW p, NEW q \in Seq(Entries), NEW h, NEW u, NEW s, NEW x \in Entries, NEW R, NEW S,
         Closing(p, q, h, u, s, R),
         \A t \in Seq(Entries) : t \in R => Append(t, x) \in S
  PROVE  Closing(p, Append(q, x), h, u, s, S)
<1>1. CASE p = "cmd" /\ q \in R
  BY <1>1 DEF Closing
<1>2. CASE q # <<>> /\ Tail(q) \in R
  <2>1. Append(q, x) # <<>> /\ Head(Append(q, x)) = Head(q) /\ Tail(Append(q, x)) = Append(Tail(q), x)
    BY <1>2, QueueFacts
  <2>2. Tail(q) \in Seq(Entries)
    BY <1>2, HeadTailProperties
  <2>3. Tail(Append(q, x)) \in S
    BY <1>2, <2>1, <2>2
  <2> QED BY <1>2, <2>1, <2>3 DEF Closing
<1> QED BY <1>1, <1>2 DEF Closing

\* Process 0 goes on and puts something in the queues of the others: the command
\* to run, to report, or to stop.
LEMMA RestTold ==
  ASSUME NEW lp, NEW e, NEW p, NEW q \in Seq(Entries), NEW h, NEW u, NEW s, NEW ne,
         FitsRest(lp, e, p, q, h, u, s)
  PROVE  /\ \A nu \in Limits, ns \in BOOLEAN : lp = "agree" =>
              FitsOpen(nu, ns, IF p = "unborn" THEN "start" ELSE p, Append(q, RunCmd(nu, ns)), h, u, s)
         /\ lp = "tell" => FitsRest("report", ne, p, Append(q, Ask), h, u, s)
         /\ lp \in {"main"} \cup Leaving /\ (lp = "main" => e # 0) =>
              FitsRest("join", ne, p, Append(q, Stop), h, u, s)
<1>1. Ask \in Entries /\ Stop \in Entries
  BY QueueFacts
<1>2. ASSUME NEW x
      PROVE  \A t \in Seq(Entries) : t \in {<<>>} => Append(t, x) \in {<<x>>}
  BY QueueFacts
<1>3. ASSUME lp = "agree", NEW nu \in Limits, NEW ns \in BOOLEAN
      PROVE  FitsOpen(nu, ns, IF p = "unborn" THEN "start" ELSE p, Append(q, RunCmd(nu, ns)), h, u, s)
  <2>1. RunCmd(nu, ns) \in Entries
    BY EntryProps DEF RunCmd
  <2>2. CASE Closing(p, q, h, u, s, {<<>>})
    <3>1. Closing(p, Append(q, RunCmd(nu, ns)), h, u, s, {<<RunCmd(nu, ns)>>})
      BY <1>2, <2>1, <2>2, ClosingAppend
    <3> QED BY <2>2, <3>1 DEF FitsOpen, Closing
  <2>3. CASE p = "unborn" /\ q = <<>>
    BY <2>3, QueueFacts DEF FitsOpen
  <2> QED BY <1>3, <2>2, <2>3 DEF FitsRest, Leaving
<1>4. ASSUME lp = "tell" PROVE FitsRest("report", ne, p, Append(q, Ask), h, u, s)
  <2>1. Closing(p, q, h, u, s, {<<>>})
    BY <1>4 DEF FitsRest, Leaving
  <2>2. Closing(p, Append(q, Ask), h, u, s, {<<Ask>>})
    BY <1>1, <1>2, <2>1, ClosingAppend
  <2> QED BY <2>2 DEF FitsRest
<1>5. ASSUME lp \in {"main"} \cup Leaving, lp = "main" => e # 0
      PROVE  FitsRest("join", ne, p, Append(q, Stop), h, u, s)
  <2>1. <<>> \in Seq({Stop}) /\ Stops \subseteq Seq({Stop})
    BY DEF Stops
  <2>2. ASSUME NEW R, R \in {{<<>>}, Stops}, Closing(p, q, h, u, s, R)
        PROVE  Closing(p, Append(q, Stop), h, u, s, Stops)
    <3> DEFINE x == Stop
               S == Stops
    <3>1. \A t \in Seq(Entries) : t \in R => Append(t, x) \in S
      BY <2>1, <2>2, QueueFacts
    <3>2. x \in Entries
      BY <1>1
    <3> HIDE DEF x, S
    <3>3. Closing(p, Append(q, x), h, u, s, S)
      BY <2>2, <3>1, <3>2, ClosingAppend
    <3> QED BY <3>3 DEF x, S
  <2>3. Closing(p, Append(q, Stop), h, u, s, Stops) \/ (p = "ended" /\ q \in Seq({Stop}))
    BY <1>5, <2>2 DEF FitsRest, Leaving
  <2>4. q \in Seq({Stop}) => Append(q, Stop) \in Seq({Stop})
    BY <2>1, QueueFacts
  <2> QED BY <2>3, <2>4 DEF FitsRest, Leaving
<1> QED BY <1>3, <1>4, <1>5

\* Process 0 has all answers and tells the others the window.
LEMMA FitAnnounced ==
  ASSUME NEW lh, NEW lu, NEW ls, NEW e, NEW p, NEW q, NEW h, NEW u, NEW s, NEW nh \in Limits,
         Fits("window", lh, lu, ls, e, p, q, h, u, s), Replied("window", p, q),
         NEW np, IF nh = Inf /\ ~ls THEN np \in {"main", "listen"} ELSE np = "run"
  PROVE  Fits(np, nh, lu, ls, e, p, Append(q, Entry("horizon", nh)), h, u, s)
<1>1. p = "window" /\ q = <<>>
  BY DEF Replied, Opening, Running
<1>2. u = lu /\ s = ls
  BY <1>1, QueueFacts DEF Fits, FitsOpen, Closing, Resting, Opening, Running
<1>3. Append(q, Entry("horizon", nh)) = <<Entry("horizon", nh)>>
  BY <1>1, QueueFacts
<1>4. CASE nh = Inf /\ ~ls
  BY <1>1, <1>2, <1>3, <1>4, QueueFacts DEF Fits, FitsRest, Closing, Resting, Leaving
<1>5. CASE ~(nh = Inf /\ ~ls)
  <2>1. nh < Inf \/ ls
    BY <1>5, TimeFacts DEF Limits
  <2> QED BY <1>1, <1>2, <1>3, <1>5, <2>1 DEF Fits, FitsRun, Running
<1> QED BY <1>4, <1>5

\* Process 0 has all answers and hands out the messages.
LEMMA FitDistributed ==
  ASSUME NEW lh \in Int, NEW lu \in Int, NEW ls, NEW e, NEW p, NEW q, NEW h, NEW u, NEW s, NEW in,
         Fits("exchange", lh, lu, ls, e, p, q, h, u, s), Replied("exchange", p, q),
         NEW np, IF lh >= lu THEN np \in {"main", "listen"} ELSE np = "peek"
  PROVE  Fits(np, lh, lu, ls, e, p, Append(q, Entry("incoming", in)), h, u, s)
<1>1. p = "exchange"
  BY DEF Replied, Opening, Running
<1>2. u = lu /\ s = ls /\ h = lh /\ q = <<>>
  BY <1>1 DEF Fits, FitsRun, Resting, Opening, Running
<1>3. Append(q, Entry("incoming", in)) = <<Entry("incoming", in)>>
  BY <1>2, QueueFacts
<1>4. CASE lh >= lu
  BY <1>1, <1>2, <1>3, <1>4, QueueFacts DEF Fits, FitsRest, Closing, Resting, Leaving
<1>5. CASE ~(lh >= lu)
  <2>1. h < u
    BY <1>2, <1>5
  <2> QED BY <1>1, <1>2, <1>3, <1>5, <2>1, QueueFacts DEF Fits, FitsOpen, Opening
<1> QED BY <1>4, <1>5

\* Process 0 of rank r goes to np.
LEMMA LeadControl ==
  ASSUME TypeOK, Control, UNCHANGED setup, NEW r \in Ranks, NEW np,
         pc' = [pc EXCEPT ![Lead(r)] = np],
         \A p \in Procs : p[1] # r => /\ horizon'[p] = horizon[p] /\ upper'[p] = upper[p]
                                      /\ spec'[p] = spec[p] /\ queue'[p] = queue[p],
         \A o \in Ranks : o # r => exits'[o] = exits[o] /\ got'[o] = got[o],
         Stage', \A o \in Ranks : CastOK(o)', TallyOK(r)',
         \A c \in Children(r) :
           /\ horizon'[c] = horizon[c] /\ upper'[c] = upper[c] /\ spec'[c] = spec[c]
           /\ Fits(np, horizon'[Lead(r)], upper'[Lead(r)], spec'[Lead(r)], exits'[r],
                   pc[c], queue'[c], horizon[c], upper[c], spec[c])
  PROVE  Control'
<1>1. Leads' = Leads /\ Ranks' = Ranks /\ \A o : Children(o)' = Children(o)
  BY Frame
<1>2. /\ Lead(r) \in Procs /\ Lead(r)[1] = r
      /\ \A o \in Ranks : Lead(o) \in Procs /\ Lead(o)[1] = o
      /\ \A o \in Ranks : \A c \in Children(o) : c \in Procs /\ c[1] = o /\ c # Lead(r)
  BY LeadFacts DEF TypeOK
<1>3. pc'[Lead(r)] = np /\ \A p \in Procs : p # Lead(r) => pc'[p] = pc[p]
  BY <1>2 DEF TypeOK, PlacesTyped
<1>4. ASSUME NEW c \in Children(r) PROVE ChildOK(r, c)'
  BY <1>1, <1>2, <1>3 DEF ChildOK
<1>5. ASSUME NEW o \in Ranks, o # r PROVE TallyOK(o)' /\ \A c \in Children(o) : ChildOK(o, c)'
  <2>1. /\ pc'[Lead(o)] = pc[Lead(o)] /\ horizon'[Lead(o)] = horizon[Lead(o)]
        /\ upper'[Lead(o)] = upper[Lead(o)] /\ spec'[Lead(o)] = spec[Lead(o)]
        /\ queue'[Lead(o)] = queue[Lead(o)] /\ exits'[o] = exits[o] /\ got'[o] = got[o]
    BY <1>2, <1>3, <1>5
  <2>2. \A c \in Children(o) :
          /\ pc'[c] = pc[c] /\ horizon'[c] = horizon[c] /\ upper'[c] = upper[c]
          /\ spec'[c] = spec[c] /\ queue'[c] = queue[c]
    BY <1>2, <1>3, <1>5
  <2>3. \A c \in Children(o) : ChildOK(o, c)'
    BY <2>1, <2>2 DEF Control, ChildOK
  <2>4. Answered(o)' = Answered(o)
    BY <1>1, <2>1, <2>2 DEF Answered
  <2>5. TallyOK(o)'
    BY <2>1, <2>4 DEF Control, TallyOK
  <2> QED BY <2>3, <2>5
<1>6. \A o \in Ranks : TallyOK(o)' /\ \A c \in Children(o) : ChildOK(o, c)'
  BY <1>4, <1>5
<1> QED BY <1>1, <1>6 DEF Control

\* It goes to another place between windows.
LEMMA RestControl ==
  ASSUME TypeOK, Control, UNCHANGED <<setup, horizon>>, NEW r \in Ranks, NEW np \in Resting,
         pc[Lead(r)] \in Resting \ {"report"},
         pc' = [pc EXCEPT ![Lead(r)] = np],
         \A p \in Procs : p # Lead(r) => upper'[p] = upper[p] /\ spec'[p] = spec[p],
         \A p \in Procs : p[1] # r \/ p \in Leads => queue'[p] = queue[p],
         \A o \in Ranks : o # r => exits'[o] = exits[o] /\ got'[o] = got[o],
         np = "report" => got'[r] = 0 /\ \A c \in Children(r) : queue'[c] # <<>>,
         \A o \in Ranks : CastOK(o)',
         \A c \in Children(r) : FitsRest(np, exits'[r], pc[c], queue'[c], horizon[c], upper[c], spec[c])
  PROVE  Control'
<1>1. Leads' = Leads /\ Children(r)' = Children(r)
  BY Frame
<1>2. /\ Lead(r) \in Procs /\ Lead(r)[1] = r /\ Lead(r) \in Leads /\ Leads \subseteq Procs
      /\ \A c \in Children(r) : c \in Procs /\ c # Lead(r)
  BY LeadFacts DEF TypeOK, SetupOK
<1>3. pc'[Lead(r)] = np /\ \A p \in Procs : p # Lead(r) => pc'[p] = pc[p]
  BY <1>2 DEF TypeOK, PlacesTyped
<1>4. Stage'
  <2>1. \A l \in Leads : pc[l] \in Resting
    BY <1>2 DEF Control, Stage, Resting, Opening, Running
  <2> QED BY <1>1, <1>2, <1>3, <2>1 DEF Stage
<1>5. TallyOK(r)'
  <2>1. queue'[Lead(r)] = <<>>
    BY <1>2, NoneAnswered
  <2>2. Answered(r)' = {}
    BY <1>1, <1>3 DEF Answered, Replied, Resting, Opening, Running
  <2>3. np \notin Collecting \/ got'[r] = 0
    BY DEF Resting, Collecting
  <2> QED BY <1>3, <2>1, <2>2, <2>3, TallyNone DEF TallyOK
<1>6. \A p \in Procs : p[1] # r => /\ horizon'[p] = horizon[p] /\ upper'[p] = upper[p]
                                   /\ spec'[p] = spec[p] /\ queue'[p] = queue[p]
  BY <1>2
<1>7. \A c \in Children(r) :
        /\ horizon'[c] = horizon[c] /\ upper'[c] = upper[c] /\ spec'[c] = spec[c]
        /\ Fits(np, horizon'[Lead(r)], upper'[Lead(r)], spec'[Lead(r)], exits'[r],
                pc[c], queue'[c], horizon[c], upper[c], spec[c])
  BY <1>2, RestFits
<1> QED BY <1>4, <1>5, <1>6, <1>7, LeadControl

\* The steps of the program of a rank.
LEMMA MainControl ==
  ASSUME TypeOK, Control, NEW r \in Ranks, NEW u, NEW given,
         \/ Created(r) \/ (r = 0 /\ Run(u, given)) \/ Command(r) \/ (r = 0 /\ ShowReport)
         \/ RunFinish(r) \/ Join(r) \/ Tell(Lead(r))
  PROVE  Control'
<1> DEFINE l == Lead(r)
           z == Lead(0)
<1>1. /\ l \in Procs /\ z \in Procs /\ 0 \in Ranks /\ l[1] = r /\ l \in Leads
      /\ \A o \in Ranks : Lead(o) \in Procs /\ Lead(o)[1] = o
      /\ \A c \in Children(r) : c \in Procs /\ c[1] = r /\ c \notin Leads
      /\ pc \in [Procs -> Places] /\ exits \in [Ranks -> Nat] /\ cmds \in [Ranks -> Seq(Commands)]
      /\ queue \in [Procs -> Seq(Entries)] /\ got \in [Ranks -> Nat]
      /\ upper \in [Procs -> Limits] /\ spec \in [Procs -> BOOLEAN]
      /\ SetupOK /\ ChansTyped
  BY LeadFacts DEF TypeOK, PlacesTyped, ChansTyped, ArgsTyped
<1>2. /\ CastOK(0) /\ CastOK(r)
      /\ \A o \in Ranks : CastOK(o)
      /\ pc[l] \in Resting =>
           \A c \in Children(r) : FitsRest(pc[l], exits[r], pc[c], queue[c], horizon[c], upper[c], spec[c])
  BY <1>1, RestFits DEF Control, ChildOK
<1>3. \A o \in Ranks : o # r => Lead(o) # l
  BY <1>1
<1>4. \A p \in Procs : p # l => [upper EXCEPT ![l] = u][p] = upper[p]
  BY <1>1
\* What the broadcasts say, for a rank that has moved to np.
<1>5. ASSUME NEW np, pc' = [pc EXCEPT ![l] = np]
      PROVE  pc'[l] = np /\ \A o \in Ranks : o # r => pc'[Lead(o)] = pc[Lead(o)]
  BY <1>1, <1>3, <1>5
<1>6. CASE Created(r)
  <2>1. /\ pc[l] = "create" /\ pc' = [pc EXCEPT ![l] = "main"]
        /\ UNCHANGED <<setup, horizon, upper, spec, queue, cmds, got, exits>>
    BY <1>6 DEF Created, args, window, reports, chans
  <2>2. \A o \in Ranks : CastOK(o)'
    BY <1>1, <1>2, <1>5, <2>1 DEF CastOK, Cast, Cast0, Opening, Running, Leaving
  <2>3. \A c \in Children(r) : FitsRest("main", exits[r], pc[c], queue[c], horizon[c], upper[c], spec[c])
    BY <1>2, <2>1, RestMoves DEF Resting
  <2>4. "main" \in Resting /\ pc[l] \in Resting \ {"report"}
    BY <2>1 DEF Resting
  <2> QED BY <2>1, <2>2, <2>3, <2>4, RestControl
<1>7. CASE r = 0 /\ Run(u, given)
  <2>1. /\ pc[l] = "main" /\ pc' = [pc EXCEPT ![l] = "agree"]
        /\ cmds' = Bcast("run") /\ exits' = [exits EXCEPT ![0] = @ + 1]
        /\ UNCHANGED <<setup, horizon, queue, got>>
        /\ upper' = [upper EXCEPT ![l] = u] /\ spec' = [spec EXCEPT ![l] = given]
    BY <1>7 DEF Run, window
  <2>2. \A o \in Ranks : CastOK(o)'
    <3>1. exits'[0] > 0 /\ \A o \in Ranks : o # 0 => exits'[o] = exits[o]
      BY <1>1, <2>1
    <3>2. \A o \in Ranks : cmds'[o] = IF o = 0 THEN cmds[o] ELSE Append(cmds[o], "run")
      BY <1>1, <2>1, BcastProps DEF Commands
    <3>3. Append(<<>>, "run") = <<"run">>
      OBVIOUS
    <3>4. CastOK(0)'
      BY <1>1, <1>2, <1>5, <1>7, <2>1, <3>1, <3>2 DEF CastOK, Cast0
    <3>5. ASSUME NEW o \in Ranks, o # 0 PROVE CastOK(o)'
      <4>1. Cast("main", exits[0], pc[Lead(o)], exits[o], cmds[o])
        BY <1>2, <1>7, <2>1, <3>5 DEF CastOK
      <4>2. pc'[z] = "agree" /\ pc'[Lead(o)] = pc[Lead(o)]
        BY <1>5, <1>7, <2>1, <3>5
      <4>3. Cast("agree", exits'[0], pc[Lead(o)], exits[o], cmds'[o])
        BY <4>1, <3>2, <3>3, <3>5 DEF Cast, Opening, Running, Leaving
      <4> QED BY <3>1, <3>5, <4>2, <4>3 DEF CastOK
    <3> QED BY <3>4, <3>5
  <2>3. \A c \in Children(r) : FitsRest("agree", exits'[r], pc[c], queue[c], horizon[c], upper[c], spec[c])
    BY <1>2, <2>1, RestMoves DEF Resting
  <2>4. "agree" \in Resting /\ pc[l] \in Resting \ {"report"}
    BY <2>1 DEF Resting
  <2>5. \A o \in Ranks : o # r => exits'[o] = exits[o] /\ got'[o] = got[o]
    BY <1>1, <1>7, <2>1
  <2>6. \A p \in Procs : p # l => upper'[p] = upper[p] /\ spec'[p] = spec[p]
    BY <1>1, <2>1
  <2> QED BY <2>1, <2>2, <2>3, <2>4, <2>5, <2>6, RestControl
<1>8. CASE Command(r)
  <2> DEFINE cmd == IF pc[l] = "main" THEN "run" ELSE Head(cmds[r])
             np == CASE cmd = "run" -> "agree" [] cmd = "report" -> "tell" [] cmd = "stop" -> "main"
  <2>1. /\ r # 0 /\ pc[l] \in {"main", "listen"} /\ cmds[r] # <<>>
        /\ pc[l] = "main" => exits[r] = 0
        /\ pc' = [pc EXCEPT ![l] = np]
        /\ exits' = [exits EXCEPT ![r] = 1]
        /\ cmds' = [cmds EXCEPT ![r] = Tail(@)]
        /\ UNCHANGED <<setup, horizon, queue, got>>
    BY <1>8 DEF Command, window
  <2>2. \A p \in Procs : p # l => upper'[p] = upper[p] /\ spec'[p] = spec[p]
    BY <1>1, <1>8 DEF Command, args
  <2>3. /\ \A o \in Ranks : o # r => exits'[o] = exits[o] /\ cmds'[o] = cmds[o]
        /\ exits'[r] = 1 /\ cmds'[r] = Tail(cmds[r]) /\ r # 0 /\ z # l
    BY <1>1, <1>3, <2>1
  <2>4. Cast(pc[z], exits[0], pc[l], exits[r], cmds[r]) /\ pc[z] # "listen"
        /\ pc[z] \in Resting
    <3>1. pc[l] \in Resting /\ z \in Leads
      BY <1>1, <2>1, LeadFacts DEF Resting
    <3> QED BY <1>1, <1>2, <2>1, <3>1 DEF CastOK, Cast0, Control, Stage, Resting, Opening, Running
  <2>5. \/ cmd = "run" /\ pc[z] = "agree" /\ cmds[r] = <<"run">>
        \/ cmd = "report" /\ pc[z] \in {"tell", "report"} /\ cmds[r] = <<"report">> /\ pc[l] = "listen"
        \/ cmd = "stop" /\ pc[z] \in Leaving /\ pc[l] = "listen" /\ cmds[r] \in Seq({"stop"})
    <3>1. ASSUME cmds[r] \in Seq({"stop"}) PROVE Head(cmds[r]) = "stop"
      BY <2>1, <3>1
    <3>2. Head(<<"run">>) = "run" /\ Head(<<"report">>) = "report"
      OBVIOUS
    <3> QED BY <2>1, <2>4, <3>1, <3>2 DEF Cast, Resting, Leaving
  <2>6. Cast(pc[z], exits[0], np, 1, Tail(cmds[r]))
    <3>1. Tail(<<"run">>) = <<>> /\ Tail(<<"report">>) = <<>>
      OBVIOUS
    <3>2. cmds[r] \in Seq({"stop"}) => Tail(cmds[r]) \in Seq({"stop"})
      BY <2>1
    <3> QED BY <2>5, <3>1, <3>2 DEF Cast, Opening, Running, Leaving
  <2>7. \A o \in Ranks : CastOK(o)'
    <3>1. CastOK(r)'
      BY <1>1, <1>5, <2>1, <2>3, <2>6 DEF CastOK
    <3>2. ASSUME NEW o \in Ranks, o # r PROVE CastOK(o)'
      BY <1>1, <1>2, <1>5, <2>1, <2>3, <3>2 DEF CastOK
    <3> QED BY <3>1, <3>2
  <2>8. \A c \in Children(r) : FitsRest(np, exits'[r], pc[c], queue[c], horizon[c], upper[c], spec[c])
    <3>1. \/ np = "agree" /\ pc[l] \in {"main", "listen"}
          \/ np \in {"tell", "main"} /\ pc[l] = "listen"
      BY <2>1, <2>5
    <3>2. pc[l] \in Resting
      BY <2>1 DEF Resting
    <3> HIDE DEF np
    <3>3. ASSUME NEW c \in Children(r)
          PROVE  FitsRest(np, exits'[r], pc[c], queue[c], horizon[c], upper[c], spec[c])
      <4>1. FitsRest(pc[l], exits[r], pc[c], queue[c], horizon[c], upper[c], spec[c])
        BY <1>2, <3>2
      <4>2. CASE np = "agree"
        BY <3>1, <4>1, <4>2, RestMoves
      <4>3. CASE np = "tell"
        BY <3>1, <4>1, <4>3, RestMoves
      <4>4. CASE np = "main"
        BY <3>1, <4>1, <4>4, RestMoves
      <4> QED BY <3>1, <4>2, <4>3, <4>4
    <3> QED BY <3>3
  <2>9. np \in Resting /\ np # "report" /\ pc[l] \in Resting \ {"report"}
    BY <2>1, <2>5 DEF Resting
  <2> HIDE DEF np
  <2> QED BY <2>1, <2>2, <2>3, <2>7, <2>8, <2>9, RestControl
<1>9. CASE r = 0 /\ ShowReport
  <2>1. /\ pc[l] = "main" /\ exits[r] > 0 /\ pc' = [pc EXCEPT ![l] = "tell"]
        /\ cmds' = Bcast("report")
        /\ UNCHANGED <<setup, horizon, queue, got, exits, upper, spec>>
    BY <1>9 DEF ShowReport, window, args, reports
  <2>2. \A o \in Ranks : CastOK(o)'
    <3>2. \A o \in Ranks : cmds'[o] = IF o = 0 THEN cmds[o] ELSE Append(cmds[o], "report")
      BY <1>1, <2>1, BcastProps DEF Commands
    <3>3. Append(<<>>, "report") = <<"report">> /\ exits[r] # 0
      BY <1>1, <2>1
    <3>4. CastOK(0)'
      BY <1>1, <1>2, <1>5, <1>9, <2>1, <3>2 DEF CastOK, Cast0
    <3>5. ASSUME NEW o \in Ranks, o # 0 PROVE CastOK(o)'
      <4>1. Cast("main", exits[0], pc[Lead(o)], exits[o], cmds[o])
        BY <1>2, <1>9, <2>1, <3>5 DEF CastOK
      <4>2. pc'[z] = "tell" /\ pc'[Lead(o)] = pc[Lead(o)]
        BY <1>5, <1>9, <2>1, <3>5
      <4>3. Cast("tell", exits[0], pc[Lead(o)], exits[o], cmds'[o])
        BY <1>9, <2>1, <4>1, <3>2, <3>3, <3>5 DEF Cast, Opening, Running, Leaving
      <4> QED BY <2>1, <3>5, <4>2, <4>3 DEF CastOK
    <3> QED BY <3>4, <3>5
  <2>3. \A c \in Children(r) : FitsRest("tell", exits[r], pc[c], queue[c], horizon[c], upper[c], spec[c])
    <3>1. exits[r] # 0
      BY <1>1, <2>1
    <3> QED BY <1>2, <2>1, <3>1, RestMoves DEF Resting
  <2>4. "tell" \in Resting /\ pc[l] \in Resting \ {"report"}
    BY <2>1 DEF Resting
  <2> QED BY <2>1, <2>2, <2>3, <2>4, RestControl
<1>10. CASE RunFinish(r)
  <2>1. /\ pc[l] \in {"main", "exit"} /\ exits[r] > 0
        /\ pc' = [pc EXCEPT ![l] = "join"]
        /\ cmds' = IF r = 0 THEN Bcast("stop") ELSE cmds
        /\ queue' = Instruct({r}, "stop", [p \in Procs |-> 0])
        /\ exits' = [exits EXCEPT ![r] = @ - 1]
        /\ UNCHANGED <<setup, horizon, got, upper, spec>>
    BY <1>10 DEF RunFinish, window, args
  <2>2. \A p \in Procs : IF p[1] = r /\ p \notin Leads THEN queue'[p] = Append(queue[p], Stop)
                         ELSE queue'[p] = queue[p]
    <3> DEFINE v == [o \in Procs |-> 0]
    <3>1. \A p \in Procs : v[p] = 0
      OBVIOUS
    <3>2. queue' = Instruct({r}, "stop", v)
      BY <2>1
    <3> HIDE DEF v
    <3>3. \A p \in Procs \ Leads : Entry("stop", v[p]) \in Entries
      BY <3>1, EntryProps
    <3>4. \A p \in Procs : IF p[1] \in {r} /\ p \notin Leads
                           THEN queue'[p] = Append(queue[p], Entry("stop", v[p]))
                           ELSE queue'[p] = queue[p]
      BY <3>2 DEF Instruct
    <3> QED BY <3>1, <3>4 DEF Stop
  <2>3. \A o \in Ranks : o # r => exits'[o] = exits[o]
    BY <1>1, <2>1
  <2>4. pc[z] \in {"main"} \cup Leaving
    <3>1. CASE r = 0
      BY <2>1, <3>1 DEF Leaving
    <3>2. CASE r # 0
      <4>1. Cast(pc[z], exits[0], pc[l], exits[r], cmds[r]) /\ pc[z] # "listen" /\ exits[r] # 0
        BY <1>1, <1>2, <2>1, <3>2 DEF CastOK, Cast0
      <4>2. pc[z] \in Resting
        <5>1. pc[l] \in Resting /\ z \in Leads
          BY <1>1, <2>1, LeadFacts DEF Resting
        <5> QED BY <1>1, <5>1 DEF Control, Stage, Resting, Opening, Running
      <4> QED BY <2>1, <4>1, <4>2 DEF Cast, Resting, Leaving
    <3> QED BY <3>1, <3>2
  <2>5. \A o \in Ranks : CastOK(o)'
    <3>1. CASE r = 0
      <4>1. \A o \in Ranks : cmds'[o] = IF o = 0 THEN cmds[o] ELSE Append(cmds[o], "stop")
        BY <1>1, <2>1, <3>1, BcastProps DEF Commands
      <4>2. CastOK(0)'
        BY <1>1, <1>2, <1>5, <2>1, <3>1, <4>1 DEF CastOK, Cast0, Leaving
      <4>3. ASSUME NEW o \in Ranks, o # 0 PROVE CastOK(o)'
        <5>1. Cast(pc[z], exits[0], pc[Lead(o)], exits[o], cmds[o]) /\ exits[0] # 0
          <6>1. exits[0] # 0
            BY <1>1, <2>1, <3>1
          <6> QED BY <1>2, <4>3, <6>1 DEF CastOK
        <5>2. pc'[z] = "join" /\ pc'[Lead(o)] = pc[Lead(o)] /\ cmds'[o] = Append(cmds[o], "stop")
              /\ exits'[o] = exits[o]
          BY <1>5, <2>1, <2>3, <3>1, <4>1, <4>3
        <5>3. /\ cmds[o] \in Seq({"stop"})
              /\ pc[Lead(o)] \in {"listen", "main"} \cup Leaving
              /\ pc[Lead(o)] = "main" => exits[o] = 1
          <6>1. <<>> \in Seq({"stop"})
            OBVIOUS
          <6>2. CASE pc[z] = "main"
            BY <5>1, <6>1, <6>2 DEF Cast
          <6>3. CASE pc[z] \in Leaving
            BY <5>1, <6>3 DEF Cast
          <6> QED BY <2>4, <6>2, <6>3
        <5>4. Append(cmds[o], "stop") \in Seq({"stop"}) /\ Append(cmds[o], "stop") # <<>>
          BY <5>3
        <5>5. Cast("join", exits'[0], pc[Lead(o)], exits[o], Append(cmds[o], "stop"))
          BY <5>3, <5>4 DEF Cast, Opening, Running, Leaving
        <5> QED BY <4>3, <5>2, <5>5 DEF CastOK
      <4> QED BY <4>2, <4>3
    <3>2. CASE r # 0
      <4>1. z # l /\ cmds' = cmds
        BY <1>3, <1>1, <2>1, <3>2
      <4>2. ASSUME NEW o \in Ranks, o # r PROVE CastOK(o)'
        BY <1>1, <1>2, <1>5, <2>1, <2>3, <3>2, <4>1, <4>2 DEF CastOK
      <4>3. Cast(pc[z], exits[0], pc[l], exits[r], cmds[r]) /\ exits[r] # 0
        BY <1>1, <1>2, <2>1, <3>2 DEF CastOK
      <4>4. Cast(pc[z], exits[0], "join", exits'[r], cmds[r])
        BY <2>1, <2>4, <4>3 DEF Cast, Opening, Running, Leaving
      <4>5. CastOK(r)'
        BY <1>1, <1>3, <1>5, <2>1, <2>3, <3>2, <4>1, <4>4 DEF CastOK
      <4> QED BY <4>2, <4>5
    <3> QED BY <3>1, <3>2
  <2>6. \A c \in Children(r) : FitsRest("join", exits'[r], pc[c], queue'[c], horizon[c], upper[c], spec[c])
    <3>1. \A c \in Children(r) : queue'[c] = Append(queue[c], Stop) /\ queue[c] \in Seq(Entries)
      BY <1>1, <2>2
    <3>2. exits[r] # 0
      BY <1>1, <2>1
    <3>3. pc[l] \in Resting /\ pc[l] \in {"main"} \cup Leaving
      BY <2>1 DEF Resting, Leaving
    <3>4. ASSUME NEW c \in Children(r)
          PROVE  FitsRest("join", exits'[r], pc[c], queue'[c], horizon[c], upper[c], spec[c])
      <4>1. FitsRest(pc[l], exits[r], pc[c], queue[c], horizon[c], upper[c], spec[c])
        BY <1>2, <3>3
      <4>2. queue[c] \in Seq(Entries) /\ queue'[c] = Append(queue[c], Stop)
        BY <3>1
      <4>3. FitsRest("join", exits'[r], pc[c], Append(queue[c], Stop), horizon[c], upper[c], spec[c])
        BY <3>2, <3>3, <4>1, <4>2, RestTold
      <4> QED BY <4>2, <4>3
    <3> QED BY <3>4
  <2>7. "join" \in Resting /\ pc[l] \in Resting \ {"report"}
    BY <2>1 DEF Resting
  <2>8. \A p \in Procs : p[1] # r \/ p \in Leads => queue'[p] = queue[p]
    BY <2>2
  <2> QED BY <2>1, <2>3, <2>5, <2>6, <2>7, <2>8, RestControl
<1>11. CASE Join(r)
  <2> DEFINE np == IF exits[r] > 0 THEN "exit" ELSE "ended"
  <2>1. /\ pc[l] = "join" /\ pc' = [pc EXCEPT ![l] = np]
        /\ UNCHANGED <<setup, horizon, upper, spec, queue, cmds, got, exits>>
    BY <1>11 DEF Join, args, window, reports, chans
  <2>2. \A o \in Ranks : CastOK(o)'
    <3>1. np \in {"exit", "ended"}
      OBVIOUS
    <3> HIDE DEF np
    <3>2. ASSUME NEW o \in Ranks PROVE CastOK(o)'
      <4>1. CASE r = 0 /\ o = 0
        BY <1>1, <1>2, <1>5, <2>1, <3>1, <4>1 DEF CastOK, Cast0, Leaving
      <4>2. CASE r = 0 /\ o # 0
        <5>1. Cast("join", exits[0], pc[Lead(o)], exits[o], cmds[o])
          BY <1>2, <2>1, <4>2 DEF CastOK
        <5>2. Cast(np, exits[0], pc[Lead(o)], exits[o], cmds[o])
          BY <3>1, <5>1 DEF Cast, Opening, Running, Leaving
        <5>3. pc'[z] = np /\ pc'[Lead(o)] = pc[Lead(o)] /\ cmds' = cmds /\ exits' = exits
          BY <1>5, <2>1, <4>2
        <5> QED BY <4>2, <5>2, <5>3 DEF CastOK
      <4>3. CASE r # 0 /\ o # r
        BY <1>1, <1>2, <1>3, <1>5, <2>1, <4>3 DEF CastOK
      <4>4. CASE r # 0 /\ o = r
        <5>1. Cast(pc[z], exits[0], "join", exits[r], cmds[r]) /\ z # l
          BY <1>1, <1>2, <1>3, <2>1, <4>4 DEF CastOK
        <5>2. Cast(pc[z], exits[0], np, exits[r], cmds[r])
          BY <3>1, <5>1 DEF Cast, Leaving
        <5>3. pc'[z] = pc[z] /\ pc'[l] = np /\ cmds' = cmds /\ exits' = exits
          BY <1>1, <1>5, <2>1, <4>4
        <5> QED BY <4>4, <5>2, <5>3 DEF CastOK
      <4> QED BY <4>1, <4>2, <4>3, <4>4
    <3> QED BY <3>2
  <2>3. \A c \in Children(r) : FitsRest(np, exits[r], pc[c], queue[c], horizon[c], upper[c], spec[c])
    BY <1>2, <2>1, RestMoves DEF Resting
  <2>4. np \in Resting /\ np # "report" /\ pc[l] \in Resting \ {"report"}
    BY <2>1 DEF Resting
  <2> HIDE DEF np
  <2> QED BY <2>1, <2>2, <2>3, <2>4, RestControl
<1>12. CASE Tell(Lead(r))
  <2>1. /\ pc[l] = "tell" /\ pc' = [pc EXCEPT ![l] = "report"]
        /\ queue' = Instruct({r}, "report", [q \in Procs |-> 0])
        /\ got' = [got EXCEPT ![r] = 0]
        /\ UNCHANGED <<setup, horizon, exits, cmds, upper, spec>>
    BY <1>1, <1>12 DEF Tell, window, args
  <2>2. \A p \in Procs : IF p[1] = r /\ p \notin Leads THEN queue'[p] = Append(queue[p], Ask)
                         ELSE queue'[p] = queue[p]
    <3> DEFINE v == [o \in Procs |-> 0]
    <3>1. \A p \in Procs : v[p] = 0
      OBVIOUS
    <3>2. queue' = Instruct({r}, "report", v)
      BY <2>1
    <3> HIDE DEF v
    <3>3. \A p \in Procs \ Leads : Entry("report", v[p]) \in Entries
      BY <3>1, EntryProps
    <3>4. \A p \in Procs : IF p[1] \in {r} /\ p \notin Leads
                           THEN queue'[p] = Append(queue[p], Entry("report", v[p]))
                           ELSE queue'[p] = queue[p]
      BY <3>2 DEF Instruct
    <3> QED BY <3>1, <3>4 DEF Ask
  <2>3. \A o \in Ranks : CastOK(o)'
    <3>1. ASSUME NEW o \in Ranks PROVE CastOK(o)'
      <4>1. CASE r = 0 /\ o = 0
        BY <1>1, <1>2, <1>5, <2>1, <4>1 DEF CastOK, Cast0, Leaving
      <4>2. CASE r = 0 /\ o # 0
        <5>1. Cast("tell", exits[0], pc[Lead(o)], exits[o], cmds[o])
          BY <1>2, <2>1, <4>2 DEF CastOK
        <5>2. Cast("report", exits[0], pc[Lead(o)], exits[o], cmds[o])
          BY <5>1 DEF Cast, Opening, Running, Leaving
        <5>3. pc'[z] = "report" /\ pc'[Lead(o)] = pc[Lead(o)] /\ cmds' = cmds /\ exits' = exits
          BY <1>5, <2>1, <4>2
        <5> QED BY <4>2, <5>2, <5>3 DEF CastOK
      <4>3. CASE r # 0 /\ o # r
        BY <1>1, <1>2, <1>3, <1>5, <2>1, <4>3 DEF CastOK
      <4>4. CASE r # 0 /\ o = r
        <5>1. Cast(pc[z], exits[0], "tell", exits[r], cmds[r]) /\ z # l
          BY <1>1, <1>2, <1>3, <2>1, <4>4 DEF CastOK
        <5>2. Cast(pc[z], exits[0], "report", exits[r], cmds[r])
          BY <5>1 DEF Cast, Leaving
        <5>3. pc'[z] = pc[z] /\ pc'[l] = "report" /\ cmds' = cmds /\ exits' = exits
          BY <1>1, <1>5, <2>1, <4>4
        <5> QED BY <4>4, <5>2, <5>3 DEF CastOK
      <4> QED BY <4>1, <4>2, <4>3, <4>4
    <3> QED BY <3>1
  <2>4. \A c \in Children(r) :
          queue'[c] = Append(queue[c], Ask) /\ queue[c] \in Seq(Entries) /\ queue'[c] # <<>>
    BY <1>1, <2>2, QueueFacts
  <2>5. \A c \in Children(r) : FitsRest("report", exits[r], pc[c], queue'[c], horizon[c], upper[c], spec[c])
    BY <1>2, <2>1, <2>4, RestTold DEF Resting
  <2>6. "report" \in Resting /\ pc[l] \in Resting \ {"report"}
    BY <2>1 DEF Resting
  <2>7. /\ \A p \in Procs : p[1] # r \/ p \in Leads => queue'[p] = queue[p]
        /\ got'[r] = 0 /\ \A o \in Ranks : o # r => got'[o] = got[o]
    BY <1>1, <2>1, <2>2
  <2> QED BY <2>1, <2>3, <2>4, <2>5, <2>6, <2>7, RestControl
<1> QED BY <1>6, <1>7, <1>8, <1>9, <1>10, <1>11, <1>12

-----------------------------------------------------------------------------
(* Process 0 inside a phase *)

\* While a run goes on, where exactly the processes 0 are does not matter for
\* the broadcasts.
LEMMA PhaseCasts ==
  ASSUME TypeOK, Control, UNCHANGED <<setup, cmds, exits>>,
         \A l \in Leads : \/ pc'[l] = pc[l]
                          \/ pc[l] \in Opening \cup Running /\ pc'[l] \in Opening \cup Running
  PROVE  \A o \in Ranks : CastOK(o)'
<1>1. /\ Ranks' = Ranks /\ cmds' = cmds /\ exits' = exits
      /\ Lead(0) \in Leads /\ 0 \in Ranks /\ \A o \in Ranks : Lead(o) \in Leads
  BY Frame, LeadFacts DEF TypeOK
<1>2. CASE \A l \in Leads : pc[l] \in Resting
  <2>1. \A l \in Leads : pc'[l] = pc[l]
    BY <1>2 DEF Resting, Opening, Running
  <2>2. \A o \in Ranks : CastOK(o)' <=> CastOK(o)
    BY <1>1, <2>1 DEF CastOK
  <2> QED BY <2>2 DEF Control
<1>3. CASE \A l \in Leads : pc[l] \in Opening \cup Running
  <2>1. \A l \in Leads : pc'[l] \in Opening \cup Running
    BY <1>3
  <2>2. ASSUME NEW o \in Ranks PROVE CastOK(o)'
    <3>1. CASE o = 0
      BY <1>1, <1>3, <2>1, <3>1 DEF Control, CastOK, Cast0, Opening, Running, Leaving
    <3>2. CASE o # 0
      <4>1. Cast(pc[Lead(0)], exits[0], pc[Lead(o)], exits[o], cmds[o])
        BY <3>2 DEF Control, CastOK
      <4>2. cmds[o] = <<>>
        BY <1>1, <1>3, <4>1 DEF Cast
      <4>3. Cast(pc'[Lead(0)], exits[0], pc'[Lead(o)], exits[o], cmds[o])
        BY <1>1, <2>1, <4>2 DEF Cast, Opening, Running, Leaving
      <4> QED BY <1>1, <3>2, <4>3 DEF CastOK
    <3> QED BY <3>1, <3>2
  <2> QED BY <2>2
<1> QED BY <1>2, <1>3 DEF Control, Stage

\* Process 0 of rank r moves on inside a phase, or takes an answer.
LEMMA PhaseControl ==
  ASSUME TypeOK, Control, UNCHANGED <<setup, cmds, exits, args>>, NEW r \in Ranks, NEW np,
         pc' = [pc EXCEPT ![Lead(r)] = np],
         \/ np = pc[Lead(r)]
         \/ pc[Lead(r)] \in Opening /\ np \in Opening
         \/ pc[Lead(r)] \in Running /\ np \in Running,
         \A p \in Procs : p # Lead(r) => horizon'[p] = horizon[p] /\ queue'[p] = queue[p],
         pc[Lead(r)] \in Opening \/ horizon'[Lead(r)] = horizon[Lead(r)],
         \A o \in Ranks : o # r => got'[o] = got[o],
         Tally(np, queue'[Lead(r)], got'[r], Answered(r))
  PROVE  Control'
<1> DEFINE l == Lead(r)
<1>1. /\ Leads' = Leads /\ Children(r)' = Children(r)
      /\ cmds' = cmds /\ exits' = exits /\ upper' = upper /\ spec' = spec
  BY Frame DEF args
<1>2. /\ l \in Procs /\ l[1] = r /\ l \in Leads /\ Leads \subseteq Procs /\ Lead(0) \in Leads
      /\ \A c \in Children(r) : c \in Procs /\ c # l
  BY LeadFacts DEF TypeOK, SetupOK
<1>3. pc'[l] = np /\ \A p \in Procs : p # l => pc'[p] = pc[p]
  BY <1>2 DEF TypeOK, PlacesTyped
<1>4. \A o \in Ranks : CastOK(o)'
  BY <1>2, <1>3, PhaseCasts
<1>5. Stage'
  <2>1. CASE \A k \in Leads : pc[k] \in Resting
    <3>1. np = pc[l]
      BY <1>2, <2>1 DEF Resting, Opening, Running
    <3> QED BY <1>1, <1>2, <1>3, <2>1, <3>1 DEF Stage
  <2>2. CASE \A k \in Leads : pc[k] \in Opening
    <3>1. \A k \in Leads : pc'[k] \in Opening
      BY <1>2, <1>3, <2>2 DEF Opening, Running
    <3>2. \A k \in Leads : upper[k] = upper[Lead(0)] /\ spec[k] = spec[Lead(0)]
      BY <1>2, <2>2 DEF Control, Stage, Resting, Opening, Running
    <3> QED BY <1>1, <3>1, <3>2 DEF Stage
  <2>3. CASE \A k \in Leads : pc[k] \in Running
    <3>1. \A k \in Leads : pc'[k] \in Running
      BY <1>2, <1>3, <2>3 DEF Opening, Running
    <3>2. \A k \in Leads : /\ upper[k] = upper[Lead(0)] /\ spec[k] = spec[Lead(0)]
                           /\ horizon[k] = horizon[Lead(0)]
      BY <1>2, <2>3 DEF Control, Stage, Resting, Opening, Running
    <3>3. \A k \in Leads : horizon'[k] = horizon[k]
      BY <1>2, <2>3 DEF Opening, Running
    <3> QED BY <1>1, <1>2, <3>1, <3>2, <3>3 DEF Stage
  <2> QED BY <2>1, <2>2, <2>3 DEF Control, Stage
<1>6. Answered(r)' = Answered(r)
  <2>1. \A c \in Children(r) : pc'[c] = pc[c] /\ queue'[c] = queue[c]
    BY <1>2, <1>3
  <2>2. \A c \in Children(r) : Replied(np, pc[c], queue[c]) <=> Replied(pc[l], pc[c], queue[c])
    BY DEF Replied, Opening, Running
  <2> QED BY <1>1, <1>3, <2>1, <2>2 DEF Answered
<1>7. TallyOK(r)'
  BY <1>3, <1>6 DEF TallyOK
<1>8. ASSUME NEW c \in Children(r)
      PROVE  /\ horizon'[c] = horizon[c] /\ upper'[c] = upper[c] /\ spec'[c] = spec[c]
             /\ Fits(np, horizon'[l], upper'[l], spec'[l], exits'[r],
                     pc[c], queue'[c], horizon[c], upper[c], spec[c])
  <2>1. Fits(pc[l], horizon[l], upper[l], spec[l], exits[r],
             pc[c], queue[c], horizon[c], upper[c], spec[c])
    BY DEF Control, ChildOK
  <2>2. horizon'[c] = horizon[c] /\ queue'[c] = queue[c]
    BY <1>2
  <2>3. ASSUME NEW nh, pc[l] \in Opening \/ nh = horizon[l]
        PROVE  Fits(np, nh, upper[l], spec[l], exits[r],
                    pc[c], queue[c], horizon[c], upper[c], spec[c])
    BY <2>1, <2>3 DEF Fits, Resting, Opening, Running
  <2>4. Fits(np, horizon'[l], upper[l], spec[l], exits[r],
             pc[c], queue[c], horizon[c], upper[c], spec[c])
    BY <2>3
  <2> QED BY <1>1, <2>2, <2>4
<1>9. \A p \in Procs : p[1] # r => /\ horizon'[p] = horizon[p] /\ upper'[p] = upper[p]
                                   /\ spec'[p] = spec[p] /\ queue'[p] = queue[p]
  BY <1>1, <1>2
<1> QED BY <1>1, <1>4, <1>5, <1>7, <1>8, <1>9, LeadControl

\* The steps of process 0 of a rank inside a phase.
LEMMA PhaseSteps ==
  ASSUME TypeOK, Control, NEW r \in Ranks,
         Peek(Lead(r)) \/ Gather(r) \/ HandOver(Lead(r)) \/ Collect(r) \/ Sum(r)
  PROVE  Control'
<1> DEFINE l == Lead(r)
<1>1. /\ l \in Procs /\ l[1] = r /\ l \in Leads
      /\ queue \in [Procs -> Seq(Entries)] /\ got \in [Ranks -> Nat] /\ pc \in [Procs -> Places]
      /\ horizon \in [Procs -> Limits]
  BY LeadFacts DEF TypeOK, ChansTyped, PlacesTyped, WindowTyped
<1>2. Tally(pc[l], queue[l], got[r], Answered(r))
  BY DEF Control, TallyOK
<1>3. ASSUME NEW np,
             \/ pc[l] = "peek" /\ np = "window"
             \/ pc[l] = "run" /\ np = "exchange",
             UNCHANGED <<setup, cmds, exits, args>>,
             pc' = [pc EXCEPT ![l] = np], queue' = queue, got' = [got EXCEPT ![r] = 0],
             \A p \in Procs : p # l => horizon'[p] = horizon[p],
             pc[l] = "peek" \/ horizon'[l] = horizon[l]
      PROVE  Control'
  <2>1. Tally(np, queue[l], 0, Answered(r))
    BY <1>2, <1>3 DEF Tally, Counted, Collecting, Reply, Opening, Running
  <2>2. got'[r] = 0 /\ \A o \in Ranks : o # r => got'[o] = got[o]
    BY <1>1, <1>3
  <2>3. \/ pc[l] \in Opening /\ np \in Opening
        \/ pc[l] \in Running /\ np \in Running
    BY <1>3 DEF Opening, Running
  <2>4. \A p \in Procs : p # l => horizon'[p] = horizon[p] /\ queue'[p] = queue[p]
    BY <1>3
  <2>5. pc[l] \in Opening \/ horizon'[l] = horizon[l]
    BY <1>3 DEF Opening
  <2>6. Tally(np, queue'[l], got'[r], Answered(r))
    BY <1>3, <2>1, <2>2
  <2> QED BY <1>3, <2>2, <2>3, <2>4, <2>5, <2>6, PhaseControl
<1>4. ASSUME pc[l] \in Collecting, queue[l] # <<>>,
             UNCHANGED <<setup, cmds, exits, args, pc>>,
             queue' = [queue EXCEPT ![l] = Tail(@)], got' = [got EXCEPT ![r] = @ + 1],
             \A p \in Procs : p # l => horizon'[p] = horizon[p],
             pc[l] = "window" \/ horizon'[l] = horizon[l]
      PROVE  Control'
  <2>1. Tally(pc[l], Tail(queue[l]), got[r] + 1, Answered(r))
    <3>1. queue[l] \in Seq(Entries) /\ got[r] \in Nat
      BY <1>1
    <3> QED BY <1>2, <1>4, <3>1, TallyTake
  <2>2. got'[r] = got[r] + 1 /\ queue'[l] = Tail(queue[l])
        /\ \A o \in Ranks : o # r => got'[o] = got[o]
    BY <1>1, <1>4
  <2>3. \A p \in Procs : p # l => horizon'[p] = horizon[p] /\ queue'[p] = queue[p]
    BY <1>1, <1>4
  <2>4. pc[l] \in Opening \/ horizon'[l] = horizon[l]
    BY <1>4 DEF Opening
  <2>5. pc' = [pc EXCEPT ![l] = pc[l]]
    BY <1>1, <1>4
  <2>6. Tally(pc[l], queue'[l], got'[r], Answered(r))
    BY <2>1, <2>2
  <2> QED BY <1>4, <2>2, <2>3, <2>4, <2>5, <2>6, PhaseControl
<1>5. CASE Peek(l)
  <2>1. /\ pc[l] = "peek" /\ pc' = [pc EXCEPT ![l] = "window"]
        /\ queue' = queue /\ got' = [got EXCEPT ![r] = 0]
        /\ \A p \in Procs : p # l => horizon'[p] = horizon[p]
        /\ UNCHANGED <<setup, cmds, exits, args>>
    <3>1. /\ pc[l] = "peek" /\ pc' = [pc EXCEPT ![l] = "window"]
          /\ queue' = Report(l, "horizon", Window(l)) /\ got' = [got EXCEPT ![r] = 0]
          /\ horizon' = [horizon EXCEPT ![l] = Window(l)]
          /\ UNCHANGED <<setup, cmds, exits, args>>
      BY <1>1, <1>5 DEF Peek, reports
    <3>2. queue' = queue
      BY <1>1, <3>1 DEF Report
    <3> QED BY <1>1, <3>1, <3>2
  <2> QED BY <1>3, <2>1
<1>6. CASE HandOver(l)
  <2>1. /\ pc[l] = "run" /\ pc' = [pc EXCEPT ![l] = "exchange"]
        /\ queue' = queue /\ got' = [got EXCEPT ![r] = 0] /\ horizon' = horizon
        /\ UNCHANGED <<setup, cmds, exits, args>>
    <3>1. /\ pc[l] = "run" /\ pc' = [pc EXCEPT ![l] = "exchange"]
          /\ queue' = Report(l, "sent", buf[l]) /\ got' = [got EXCEPT ![r] = 0]
          /\ horizon' = horizon
          /\ UNCHANGED <<setup, cmds, exits, args>>
      BY <1>1, <1>6 DEF HandOver, reports, window
    <3>2. queue' = queue
      BY <1>1, <3>1 DEF Report
    <3> QED BY <1>1, <3>1, <3>2
  <2> QED BY <1>3, <2>1
<1>7. CASE Gather(r)
  <2>1. /\ pc[l] \in Collecting /\ pc[l] = "window" /\ queue[l] # <<>>
        /\ queue' = [queue EXCEPT ![l] = Tail(@)] /\ got' = [got EXCEPT ![r] = @ + 1]
        /\ \A p \in Procs : p # l => horizon'[p] = horizon[p]
        /\ UNCHANGED <<setup, cmds, exits, args, pc>>
    BY <1>1, <1>7 DEF Gather, reports, Collecting
  <2> QED BY <1>4, <2>1
<1>8. CASE Collect(r)
  <2>1. /\ pc[l] \in Collecting /\ queue[l] # <<>>
        /\ queue' = [queue EXCEPT ![l] = Tail(@)] /\ got' = [got EXCEPT ![r] = @ + 1]
        /\ horizon' = horizon
        /\ UNCHANGED <<setup, cmds, exits, args, pc>>
    BY <1>8 DEF Collect, reports, window, Collecting
  <2> QED BY <1>4, <2>1
<1>9. CASE Sum(r)
  <2>1. /\ pc[l] \in Collecting /\ queue[l] # <<>>
        /\ queue' = [queue EXCEPT ![l] = Tail(@)] /\ got' = [got EXCEPT ![r] = @ + 1]
        /\ horizon' = horizon
        /\ UNCHANGED <<setup, cmds, exits, args, pc>>
    BY <1>9 DEF Sum, window, Collecting
  <2> QED BY <1>4, <2>1
<1> QED BY <1>5, <1>6, <1>7, <1>8, <1>9

-----------------------------------------------------------------------------
(* The steps the processes 0 of all ranks take together *)

LEMMA TogetherControl ==
  ASSUME TypeOK, Control, UNCHANGED <<setup, cmds, exits>>, Stage', \A o \in Ranks : CastOK(o)',
         \A r \in Ranks : queue'[Lead(r)] = <<>> /\ pc'[Lead(r)] \notin Collecting,
         \A r \in Ranks : \A c \in Children(r) :
           /\ Fits(pc'[Lead(r)], horizon'[Lead(r)], upper'[Lead(r)], spec'[Lead(r)], exits[r],
                   pc'[c], queue'[c], horizon'[c], upper'[c], spec'[c])
           /\ ~Replied(pc'[Lead(r)], pc'[c], queue'[c])
  PROVE  Control'
<1>1. Ranks' = Ranks /\ (\A r : Children(r)' = Children(r)) /\ exits' = exits
  BY Frame
<1>2. ASSUME NEW r \in Ranks PROVE TallyOK(r)' /\ \A c \in Children(r) : ChildOK(r, c)'
  <2>1. Answered(r)' = {}
    BY <1>1 DEF Answered
  <2>2. Tally(pc'[Lead(r)], <<>>, got'[r], {})
    BY TallyNone
  <2> QED BY <1>1, <2>1, <2>2 DEF TallyOK, ChildOK
<1> QED BY <1>1, <1>2 DEF Control

\* A run or a report comes to its end.
LEMMA OverCasts ==
  ASSUME TypeOK, Control, UNCHANGED <<setup, cmds, exits>>, NEW where \in Collecting,
         \A l \in Leads : pc[l] = where /\ pc'[l] = Over(l)
  PROVE  \A o \in Ranks : CastOK(o)'
<1>1. /\ Ranks' = Ranks /\ cmds' = cmds /\ exits' = exits
      /\ Lead(0) \in Leads /\ 0 \in Ranks /\ \A o \in Ranks : Lead(o) \in Leads
      /\ \A o \in Ranks : o # 0 => Lead(o) # Lead(0)
  BY Frame, LeadFacts DEF TypeOK
<1>2. pc'[Lead(0)] = "main" /\ \A o \in Ranks : o # 0 => pc'[Lead(o)] = "listen"
  BY <1>1 DEF Over
<1>3. CastOK(0)' /\ exits[0] > 0
  BY <1>1, <1>2 DEF Control, CastOK, Cast0, Collecting, Leaving
<1>4. ASSUME NEW o \in Ranks, o # 0 PROVE CastOK(o)'
  <2>1. Cast(where, exits[0], where, exits[o], cmds[o])
    BY <1>1, <1>4 DEF Control, CastOK
  <2>2. cmds[o] = <<>>
    BY <2>1 DEF Cast, Collecting, Opening, Running
  <2>3. exits[0] # 0
    BY <1>3
  <2>4. Cast("main", exits[0], "listen", exits[o], cmds[o])
    BY <2>2, <2>3 DEF Cast, Opening, Running, Leaving
  <2> QED BY <1>1, <1>2, <1>4, <2>4 DEF CastOK
<1> QED BY <1>1, <1>3, <1>4

LEMMA AgreeControl ==
  ASSUME TypeOK, Control, Agree
  PROVE  Control'
<1> DEFINE u == Min({upper[p] : p \in Leads})
           given == \E p \in Leads : spec[p]
<1>1. /\ \A p \in Leads : pc[p] = "agree"
      /\ upper' = [p \in Procs |-> IF p \in Leads THEN u ELSE upper[p]]
      /\ spec' = [p \in Procs |-> IF p \in Leads THEN given ELSE spec[p]]
      /\ queue' = Instruct(Ranks, "run", [p \in Procs |-> <<u, given>>])
      /\ pc' = [p \in Procs |-> CASE p \in Leads -> "peek"
                                  [] p \in {q \in Procs : pc[q] = "unborn"} -> "start"
                                  [] OTHER -> pc[p]]
      /\ UNCHANGED <<setup, cmds, exits, horizon>>
  BY DEF Agree, window, reports
<1>2. u \in Limits /\ given \in BOOLEAN
  BY LeastProps DEF TypeOK, ArgsTyped
<1> HIDE DEF u, given
<1>3. /\ Leads' = Leads /\ Ranks' = Ranks /\ cmds' = cmds /\ exits' = exits /\ horizon' = horizon
      /\ Lead(0) \in Leads /\ 0 \in Ranks /\ Leads \subseteq Procs
      /\ \A o \in Ranks : Lead(o) \in Leads /\ Lead(o) \in Procs
      /\ \A o \in Ranks : \A c \in Children(o) : c \in Procs /\ c[1] = o /\ c \notin Leads
  BY <1>1, Frame, LeadFacts DEF TypeOK, SetupOK
<1>4. \A l \in Leads : pc'[l] = "peek" /\ upper'[l] = u /\ spec'[l] = given
  BY <1>1, <1>3
<1>5. Stage'
  BY <1>3, <1>4 DEF Stage, Opening
<1>6. ASSUME NEW o \in Ranks PROVE CastOK(o)'
  <2>1. CASE o = 0
    BY <1>1, <1>3, <1>4, <2>1 DEF Control, CastOK, Cast0, Leaving
  <2>2. CASE o # 0
    <3>1. Cast("agree", exits[0], "agree", exits[o], cmds[o])
      BY <1>1, <1>3, <2>2 DEF Control, CastOK
    <3>2. Cast("peek", exits[0], "peek", exits[o], cmds[o])
      BY <3>1 DEF Cast, Opening, Running, Leaving
    <3> QED BY <1>3, <1>4, <2>2, <3>2 DEF CastOK
  <2> QED BY <2>1, <2>2
<1>7. ASSUME NEW r \in Ranks PROVE queue'[Lead(r)] = <<>> /\ pc'[Lead(r)] \notin Collecting
  <2>1. queue[Lead(r)] = <<>>
    BY <1>1, <1>3, NoneAnswered DEF Resting
  <2>2. queue'[Lead(r)] = queue[Lead(r)]
    BY <1>1, <1>3 DEF Instruct
  <2> QED BY <1>3, <1>4, <2>1, <2>2 DEF Collecting
<1>8. ASSUME NEW r \in Ranks, NEW c \in Children(r)
      PROVE  /\ Fits(pc'[Lead(r)], horizon'[Lead(r)], upper'[Lead(r)], spec'[Lead(r)], exits[r],
                     pc'[c], queue'[c], horizon'[c], upper'[c], spec'[c])
             /\ ~Replied(pc'[Lead(r)], pc'[c], queue'[c])
  <2> DEFINE np == IF pc[c] = "unborn" THEN "start" ELSE pc[c]
             nq == Append(queue[c], RunCmd(u, given))
  <2>1. pc'[c] = np /\ upper'[c] = upper[c] /\ spec'[c] = spec[c] /\ horizon'[c] = horizon[c]
    BY <1>1, <1>3
  <2>2. queue'[c] = nq /\ queue[c] \in Seq(Entries)
    <3>1. queue'[c] = Append(queue[c], Entry("run", <<u, given>>))
      BY <1>1, <1>3 DEF Instruct
    <3>2. queue[c] \in Seq(Entries)
      BY <1>3 DEF TypeOK, ChansTyped
    <3> QED BY <3>1, <3>2 DEF RunCmd
  <2>3. FitsRest("agree", exits[r], pc[c], queue[c], horizon[c], upper[c], spec[c])
    <3>1. Fits("agree", horizon[Lead(r)], upper[Lead(r)], spec[Lead(r)], exits[r],
               pc[c], queue[c], horizon[c], upper[c], spec[c])
      BY <1>1, <1>3 DEF Control, ChildOK
    <3> QED BY <3>1, RestFits DEF Resting
  <2>4. FitsOpen(u, given, np, nq, horizon[c], upper[c], spec[c])
    BY <1>2, <2>2, <2>3, RestTold
  <2>5. nq # <<>>
    <3>1. RunCmd(u, given) \in Entries
      BY <1>2, EntryProps DEF RunCmd
    <3> QED BY <2>2, <3>1, QueueFacts
  <2> HIDE DEF np, nq
  <2>6. pc'[Lead(r)] = "peek" /\ upper'[Lead(r)] = u /\ spec'[Lead(r)] = given
    BY <1>3, <1>4
  <2>7. ~Replied("peek", np, nq)
    BY <2>5 DEF Replied, Opening, Running
  <2>8. \A lh : Fits("peek", lh, u, given, exits[r], np, nq, horizon[c], upper[c], spec[c])
    BY <2>4 DEF Fits, Opening
  <2> QED BY <2>1, <2>2, <2>6, <2>7, <2>8
<1> QED BY <1>1, <1>5, <1>6, <1>7, <1>8, TogetherControl

LEMMA AnnounceControl ==
  ASSUME TypeOK, Control, Announce
  PROVE  Control'
<1> DEFINE h == Min({horizon[p] : p \in Leads})
           g == spec[Lead(0)]
<1>1. /\ Complete("window")
      /\ horizon' = [p \in Procs |-> IF p \in Leads THEN h ELSE horizon[p]]
      /\ pc' = [p \in Procs |-> IF p \in Leads THEN Opened(p, h) ELSE pc[p]]
      /\ queue' = Instruct(Ranks, "horizon", [p \in Procs |-> h])
      /\ UNCHANGED <<setup, cmds, exits, args>>
  BY DEF Announce, reports
<1>2. h \in Limits
  BY LeastProps DEF TypeOK, WindowTyped
<1> HIDE DEF h
<1>3. /\ Leads' = Leads /\ Ranks' = Ranks /\ cmds' = cmds /\ exits' = exits
      /\ upper' = upper /\ spec' = spec
      /\ Lead(0) \in Leads /\ 0 \in Ranks /\ Leads \subseteq Procs
      /\ \A o \in Ranks : Lead(o) \in Leads /\ Lead(o) \in Procs
      /\ \A l \in Leads : l[1] \in Ranks /\ l = Lead(l[1])
      /\ \A o \in Ranks : \A c \in Children(o) : c \in Procs /\ c[1] = o /\ c \notin Leads
  BY <1>1, Frame, LeadFacts DEF TypeOK, SetupOK, args
<1>4. \A l \in Leads : /\ pc[l] = "window" /\ spec[l] = g /\ upper[l] = upper[Lead(0)]
                       /\ horizon'[l] = h
                       /\ pc'[l] = IF h = Inf /\ ~g THEN Over(l) ELSE "run"
  <2>1. \A l \in Leads : pc[l] = "window"
    BY <1>1, <1>3 DEF Complete
  <2>2. \A l \in Leads : spec[l] = g /\ upper[l] = upper[Lead(0)]
    BY <1>3, <2>1 DEF Control, Stage, Resting
  <2>3. \A l \in Leads : horizon'[l] = h /\ pc'[l] = Opened(l, h)
    BY <1>1, <1>3
  <2> QED BY <2>1, <2>2, <2>3 DEF Opened
<1>5. \A l \in Leads : Over(l) \in {"main", "listen"}
  BY DEF Over
<1>6. Stage'
  <2>1. CASE h = Inf /\ ~g
    BY <1>3, <1>4, <1>5, <2>1 DEF Stage, Resting
  <2>2. CASE ~(h = Inf /\ ~g)
    <3>1. \A l \in Leads : pc'[l] \in Running /\ horizon'[l] = horizon'[Lead(0)]
      BY <1>3, <1>4, <2>2 DEF Running
    <3> QED BY <1>3, <1>4, <3>1 DEF Stage
  <2> QED BY <2>1, <2>2
<1>7. \A o \in Ranks : CastOK(o)'
  <2>1. CASE h = Inf /\ ~g
    <3>1. \A l \in Leads : pc[l] = "window" /\ pc'[l] = Over(l)
      BY <1>4, <2>1
    <3>2. "window" \in Collecting
      BY DEF Collecting
    <3> QED BY <1>1, <3>1, <3>2, OverCasts
  <2>2. CASE ~(h = Inf /\ ~g)
    <3>1. \A l \in Leads : pc[l] \in Opening \cup Running /\ pc'[l] \in Opening \cup Running
      BY <1>4, <2>2 DEF Opening, Running
    <3> QED BY <1>1, <3>1, PhaseCasts
  <2> QED BY <2>1, <2>2
<1>8. ASSUME NEW r \in Ranks
      PROVE  /\ queue'[Lead(r)] = <<>> /\ pc'[Lead(r)] \notin Collecting
             /\ \A c \in Children(r) : Replied("window", pc[c], queue[c])
  <2>1. queue[Lead(r)] = <<>> /\ \A c \in Children(r) : Replied("window", pc[c], queue[c])
    BY <1>1, AllAnswered DEF Collecting
  <2>2. queue'[Lead(r)] = queue[Lead(r)]
    BY <1>1, <1>3 DEF Instruct
  <2> QED BY <1>3, <1>4, <1>5, <2>1, <2>2 DEF Collecting
<1>9. ASSUME NEW r \in Ranks, NEW c \in Children(r)
      PROVE  /\ Fits(pc'[Lead(r)], horizon'[Lead(r)], upper'[Lead(r)], spec'[Lead(r)], exits[r],
                     pc'[c], queue'[c], horizon'[c], upper'[c], spec'[c])
             /\ ~Replied(pc'[Lead(r)], pc'[c], queue'[c])
  <2>1. /\ pc'[c] = pc[c] /\ upper'[c] = upper[c] /\ spec'[c] = spec[c] /\ horizon'[c] = horizon[c]
        /\ queue'[c] = Append(queue[c], Entry("horizon", h)) /\ queue[c] \in Seq(Entries)
    <3>1. queue'[c] = Append(queue[c], Entry("horizon", h))
      BY <1>1, <1>3 DEF Instruct
    <3>2. queue[c] \in Seq(Entries)
      BY <1>3 DEF TypeOK, ChansTyped
    <3> QED BY <1>1, <1>3, <3>1, <3>2
  <2>2. Replied("window", pc[c], queue[c])
    BY <1>8
  <2>3. Fits("window", horizon[Lead(r)], upper[Lead(r)], spec[Lead(r)], exits[r],
             pc[c], queue[c], horizon[c], upper[c], spec[c])
    BY <1>3, <1>4 DEF Control, ChildOK
  <2>4. ASSUME NEW np, IF h = Inf /\ ~spec[Lead(r)] THEN np \in {"main", "listen"} ELSE np = "run"
        PROVE  Fits(np, h, upper[Lead(r)], spec[Lead(r)], exits[r],
                    pc[c], Append(queue[c], Entry("horizon", h)), horizon[c], upper[c], spec[c])
    BY <1>2, <2>2, <2>3, <2>4, FitAnnounced
  <2>5. IF h = Inf /\ ~spec[Lead(r)] THEN pc'[Lead(r)] \in {"main", "listen"}
                                     ELSE pc'[Lead(r)] = "run"
    BY <1>3, <1>4, <1>5
  <2>6. Fits(pc'[Lead(r)], h, upper[Lead(r)], spec[Lead(r)], exits[r],
             pc[c], Append(queue[c], Entry("horizon", h)), horizon[c], upper[c], spec[c])
    BY <2>4, <2>5
  <2>7. pc[c] = "window"
    BY <2>2 DEF Replied, Opening, Running
  <2>8. ~Replied(pc'[Lead(r)], "window", queue'[c])
    BY <2>5 DEF Replied, Opening, Running
  <2>9. upper'[Lead(r)] = upper[Lead(r)] /\ spec'[Lead(r)] = spec[Lead(r)] /\ horizon'[Lead(r)] = h
    BY <1>3, <1>4
  <2> QED BY <2>1, <2>6, <2>7, <2>8, <2>9
<1> QED BY <1>1, <1>6, <1>7, <1>8, <1>9, TogetherControl

LEMMA DistributeControl ==
  ASSUME TypeOK, Control, Distribute
  PROVE  Control'
<1> DEFINE h == horizon[Lead(0)]
           u == upper[Lead(0)]
           v == [p \in Procs |-> For(p)]
<1>1. /\ Complete("exchange")
      /\ pc' = [p \in Procs |-> IF p \notin Leads THEN pc[p]
                                ELSE IF horizon[p] >= upper[p] THEN Over(p) ELSE "peek"]
      /\ queue' = Instruct(Ranks, "incoming", v)
      /\ UNCHANGED <<setup, cmds, exits, args, horizon>>
  BY DEF Distribute, Deliver, reports, window
<1> HIDE DEF v
<1>3. /\ Leads' = Leads /\ Ranks' = Ranks /\ cmds' = cmds /\ exits' = exits
      /\ upper' = upper /\ spec' = spec /\ horizon' = horizon
      /\ Lead(0) \in Leads /\ 0 \in Ranks /\ Leads \subseteq Procs
      /\ \A o \in Ranks : Lead(o) \in Leads /\ Lead(o) \in Procs
      /\ \A l \in Leads : l[1] \in Ranks /\ l = Lead(l[1])
      /\ \A o \in Ranks : \A c \in Children(o) : c \in Procs /\ c[1] = o /\ c \notin Leads
  BY <1>1, Frame, LeadFacts DEF TypeOK, SetupOK, args
<1>4. \A l \in Leads : /\ pc[l] = "exchange" /\ horizon[l] = h /\ upper[l] = u
                       /\ spec[l] = spec[Lead(0)]
                       /\ pc'[l] = IF h >= u THEN Over(l) ELSE "peek"
  <2>1. \A l \in Leads : pc[l] = "exchange"
    BY <1>1, <1>3 DEF Complete
  <2>2. \A l \in Leads : spec[l] = spec[Lead(0)] /\ upper[l] = u /\ horizon[l] = h
    BY <1>3, <2>1 DEF Control, Stage, Resting, Opening
  <2>3. \A l \in Leads : pc'[l] = IF horizon[l] >= upper[l] THEN Over(l) ELSE "peek"
    BY <1>1, <1>3
  <2> QED BY <2>1, <2>2, <2>3
<1>2. h \in Int /\ u \in Int
  <2>1. h \in Limits /\ u \in Limits
    BY <1>3 DEF TypeOK, WindowTyped, ArgsTyped
  <2>2. h \in Nat /\ u \in Nat
    BY <2>1, TimeFacts
  <2> QED BY <2>2
<1> HIDE DEF h, u
<1>5. \A l \in Leads : Over(l) \in {"main", "listen"}
  BY DEF Over
<1>6. Stage'
  <2>1. CASE h >= u
    BY <1>3, <1>4, <1>5, <2>1 DEF Stage, Resting
  <2>2. CASE ~(h >= u)
    <3>1. \A l \in Leads : pc'[l] \in Opening
      BY <1>4, <2>2 DEF Opening
    <3> QED BY <1>3, <1>4, <3>1 DEF Stage
  <2> QED BY <2>1, <2>2
<1>7. \A o \in Ranks : CastOK(o)'
  <2>1. CASE h >= u
    <3>1. \A l \in Leads : pc[l] = "exchange" /\ pc'[l] = Over(l)
      BY <1>4, <2>1
    <3>2. "exchange" \in Collecting
      BY DEF Collecting
    <3> QED BY <1>1, <3>1, <3>2, OverCasts
  <2>2. CASE ~(h >= u)
    <3>1. \A l \in Leads : pc[l] \in Opening \cup Running /\ pc'[l] \in Opening \cup Running
      BY <1>4, <2>2 DEF Opening, Running
    <3> QED BY <1>1, <3>1, PhaseCasts
  <2> QED BY <2>1, <2>2
<1>8. ASSUME NEW r \in Ranks
      PROVE  /\ queue'[Lead(r)] = <<>> /\ pc'[Lead(r)] \notin Collecting
             /\ \A c \in Children(r) : Replied("exchange", pc[c], queue[c])
  <2>1. queue[Lead(r)] = <<>> /\ \A c \in Children(r) : Replied("exchange", pc[c], queue[c])
    BY <1>1, AllAnswered DEF Collecting
  <2>2. queue'[Lead(r)] = queue[Lead(r)]
    BY <1>1, <1>3 DEF Instruct
  <2> QED BY <1>3, <1>4, <1>5, <2>1, <2>2 DEF Collecting
<1>9. ASSUME NEW r \in Ranks, NEW c \in Children(r)
      PROVE  /\ Fits(pc'[Lead(r)], horizon'[Lead(r)], upper'[Lead(r)], spec'[Lead(r)], exits[r],
                     pc'[c], queue'[c], horizon'[c], upper'[c], spec'[c])
             /\ ~Replied(pc'[Lead(r)], pc'[c], queue'[c])
  <2>1. /\ pc'[c] = pc[c] /\ upper'[c] = upper[c] /\ spec'[c] = spec[c] /\ horizon'[c] = horizon[c]
        /\ queue'[c] = Append(queue[c], Entry("incoming", v[c]))
    <3>1. queue'[c] = Append(queue[c], Entry("incoming", v[c]))
      BY <1>1, <1>3 DEF Instruct
    <3> QED BY <1>1, <1>3, <3>1
  <2>2. Replied("exchange", pc[c], queue[c])
    BY <1>8
  <2>3. Fits("exchange", h, u, spec[Lead(r)], exits[r],
             pc[c], queue[c], horizon[c], upper[c], spec[c])
    BY <1>3, <1>4 DEF Control, ChildOK
  <2>4. ASSUME NEW np, IF h >= u THEN np \in {"main", "listen"} ELSE np = "peek"
        PROVE  Fits(np, h, u, spec[Lead(r)], exits[r],
                    pc[c], Append(queue[c], Entry("incoming", v[c])), horizon[c], upper[c], spec[c])
    BY <1>2, <2>2, <2>3, <2>4, FitDistributed
  <2>5. IF h >= u THEN pc'[Lead(r)] \in {"main", "listen"} ELSE pc'[Lead(r)] = "peek"
    BY <1>3, <1>4, <1>5
  <2>6. Fits(pc'[Lead(r)], h, u, spec[Lead(r)], exits[r],
             pc[c], Append(queue[c], Entry("incoming", v[c])), horizon[c], upper[c], spec[c])
    BY <2>4, <2>5
  <2>7. pc[c] = "exchange"
    BY <2>2 DEF Replied, Opening, Running
  <2>8. ~Replied(pc'[Lead(r)], "exchange", queue'[c])
    BY <2>5 DEF Replied, Opening, Running
  <2>9. upper'[Lead(r)] = u /\ spec'[Lead(r)] = spec[Lead(r)] /\ horizon'[Lead(r)] = h
    BY <1>3, <1>4
  <2> QED BY <2>1, <2>6, <2>7, <2>8, <2>9
<1> QED BY <1>1, <1>6, <1>7, <1>8, <1>9, TogetherControl

LEMMA ReportedControl ==
  ASSUME TypeOK, Control, Reported
  PROVE  Control'
<1>1. /\ Complete("report")
      /\ pc' = [p \in Procs |-> IF p \in Leads THEN Over(p) ELSE pc[p]]
      /\ UNCHANGED <<setup, chans, exits, args, horizon>>
  BY DEF Reported, window
<1>2. UNCHANGED <<setup, cmds, exits>>
  BY <1>1 DEF chans
<1>3. /\ Leads' = Leads /\ Ranks' = Ranks /\ queue' = queue
      /\ upper' = upper /\ spec' = spec /\ horizon' = horizon
      /\ Lead(0) \in Leads /\ Leads \subseteq Procs
      /\ \A o \in Ranks : Lead(o) \in Leads /\ Lead(o) \in Procs
      /\ \A l \in Leads : l[1] \in Ranks /\ l = Lead(l[1])
      /\ \A o \in Ranks : \A c \in Children(o) : c \in Procs /\ c \notin Leads
  BY <1>1, Frame, LeadFacts DEF TypeOK, SetupOK, args, chans
<1>4. \A l \in Leads : pc[l] = "report" /\ pc'[l] = Over(l) /\ pc'[l] \in {"main", "listen"}
  BY <1>1, <1>3 DEF Complete, Over
<1>5. Stage'
  BY <1>3, <1>4 DEF Stage, Resting
<1>6. \A o \in Ranks : CastOK(o)'
  <2>1. "report" \in Collecting
    BY DEF Collecting
  <2> QED BY <1>2, <1>4, <2>1, OverCasts
<1>7. ASSUME NEW r \in Ranks
      PROVE  /\ queue'[Lead(r)] = <<>> /\ pc'[Lead(r)] \notin Collecting
             /\ \A c \in Children(r) : Replied("report", pc[c], queue[c])
  <2>1. queue[Lead(r)] = <<>> /\ \A c \in Children(r) : Replied("report", pc[c], queue[c])
    BY <1>1, AllAnswered DEF Collecting
  <2> QED BY <1>3, <1>4, <2>1 DEF Collecting
<1>8. ASSUME NEW r \in Ranks, NEW c \in Children(r)
      PROVE  /\ Fits(pc'[Lead(r)], horizon'[Lead(r)], upper'[Lead(r)], spec'[Lead(r)], exits[r],
                     pc'[c], queue'[c], horizon'[c], upper'[c], spec'[c])
             /\ ~Replied(pc'[Lead(r)], pc'[c], queue'[c])
  <2>1. pc'[c] = pc[c]
    BY <1>1, <1>3
  <2>2. Replied("report", pc[c], queue[c])
    BY <1>7
  <2>3. Fits("report", horizon[Lead(r)], upper[Lead(r)], spec[Lead(r)], exits[r],
             pc[c], queue[c], horizon[c], upper[c], spec[c])
    BY <1>3, <1>4 DEF Control, ChildOK
  <2>4. FitsRest("report", exits[r], pc[c], queue[c], horizon[c], upper[c], spec[c])
    BY <2>3, RestFits DEF Resting
  <2>5. \A np \in {"main", "listen"} :
          FitsRest(np, exits[r], pc[c], queue[c], horizon[c], upper[c], spec[c])
    BY <2>2, <2>4, RestMoves
  <2>6. \A np \in {"main", "listen"} : \A lh, lu, ls :
          Fits(np, lh, lu, ls, exits[r], pc[c], queue[c], horizon[c], upper[c], spec[c])
    BY <2>5 DEF Fits, Resting
  <2>7. \A np \in {"main", "listen"} : ~Replied(np, pc[c], queue[c])
    BY DEF Replied, Opening, Running
  <2>8. pc'[Lead(r)] \in {"main", "listen"}
    BY <1>3, <1>4
  <2> QED BY <1>3, <2>1, <2>6, <2>7, <2>8
<1> QED BY <1>2, <1>5, <1>6, <1>7, <1>8, TogetherControl

-----------------------------------------------------------------------------
(* The queues are in step *)

LEMMA InitControl == Init => Control
<1> SUFFICES ASSUME Init PROVE Control
  OBVIOUS
<1>1. SetupOK
  BY InitSetup
<1>2. /\ queue = [p \in Procs |-> <<>>] /\ cmds = [r \in Ranks |-> <<>>]
      /\ pc = [p \in Procs |-> IF p \in Leads THEN "create" ELSE "unborn"]
      /\ got = [r \in Ranks |-> 0] /\ exits = [r \in Ranks |-> 0]
  BY DEF Init
<1>3. /\ \A o \in Ranks : Lead(o) \in Leads /\ Lead(o) \in Procs
      /\ \A o \in Ranks : \A c \in Children(o) : c \in Procs /\ c \notin Leads
      /\ Leads \subseteq Procs /\ 0 \in Ranks
  BY <1>1, LeadFacts DEF SetupOK
<1>4. \A l \in Leads : pc[l] = "create" /\ queue[l] = <<>>
  BY <1>2, <1>3
<1>5. Stage
  BY <1>4 DEF Stage, Resting
<1>6. \A r \in Ranks : CastOK(r)
  BY <1>2, <1>3, <1>4 DEF CastOK, Cast0, Cast, Opening, Running, Leaving
<1>7. ASSUME NEW r \in Ranks PROVE TallyOK(r) /\ \A c \in Children(r) : ChildOK(r, c)
  <2>1. Answered(r) = {}
    BY <1>3, <1>4 DEF Answered, Replied, Opening, Running
  <2>2. Tally("create", <<>>, got[r], {})
    BY TallyNone DEF Collecting
  <2>3. TallyOK(r)
    BY <1>3, <1>4, <2>1, <2>2 DEF TallyOK
  <2>4. ASSUME NEW c \in Children(r) PROVE ChildOK(r, c)
    <3>1. pc[c] = "unborn" /\ queue[c] = <<>> /\ exits[r] = 0 /\ pc[Lead(r)] = "create"
      BY <1>2, <1>3, <1>4
    <3> QED BY <3>1 DEF ChildOK, Fits, FitsRest, Resting, Leaving
  <2> QED BY <2>3, <2>4
<1> QED BY <1>5, <1>6, <1>7 DEF Control

\* Every step keeps the types and Control.
LEMMA ControlStep ==
  ASSUME TypeOK, Control, [Next]_vars
  PROVE  TypeOK' /\ Control'
<1>1. /\ \A p \in Procs : p \notin Leads => p[1] \in Ranks
      /\ \A p \in Leads : p[1] \in Ranks /\ p = Lead(p[1]) /\ p \in Procs
      /\ 0 \in Ranks
  BY LeadFacts DEF TypeOK
<1>2. QueuesInStep
  BY InStep
<1>3. CASE UNCHANGED vars
  <2>1. UNCHANGED <<setup, chans, pc, got, args, exits, horizon>>
    BY <1>3 DEF vars, window, reports
  <2>2. TypeOK'
    BY <1>3, KeptTyped DEF vars, sims, reports, TypeOK
  <2> QED BY <2>1, <2>2, SameControl
<1>4. ASSUME NEW s \in Sims, MainCall(s) PROVE TypeOK' /\ Control'
  <2>1. UNCHANGED <<setup, chans, pc, got, args, exits, horizon>>
    BY <1>4 DEF MainCall, window, reports
  <2> QED BY <1>4, <2>1, SameControl, UserTyped
<1>5. ASSUME NEW u \in Limits, NEW given \in BOOLEAN, Run(u, given) PROVE TypeOK' /\ Control'
  BY <1>1, <1>5, MainControl, MainTyped
<1>6. CASE ShowReport
  <2>1. Inf \in Limits /\ FALSE \in BOOLEAN
    BY TimeFacts DEF Limits
  <2>2. TypeOK'
    BY <1>1, <1>6, <2>1, MainTyped
  <2>3. Control'
    BY <1>1, <1>6, <2>1, MainControl
  <2> QED BY <2>2, <2>3
<1>7. CASE Together
  <2>1. TypeOK'
    BY <1>7, TogetherTyped
  <2> QED BY <1>7, <2>1, AgreeControl, AnnounceControl, DistributeControl, ReportedControl DEF Together
<1>8. ASSUME NEW p \in Procs, Execute(p) \/ Finish(p) PROVE TypeOK' /\ Control'
  <2>1. UNCHANGED <<setup, chans, pc, got, args, exits, horizon>>
    BY <1>8 DEF Execute, Finish, window, reports
  <2>2. TypeOK'
    BY <1>8, ExecuteTyped, ProcTyped
  <2> QED BY <2>1, <2>2, SameControl
<1>9. ASSUME NEW p \in Procs, ChildStart(p) \/ ChildCommand(p) \/ ChildWindow(p) \/ ChildIncoming(p)
      PROVE  TypeOK' /\ Control'
  <2>1. p \notin Leads
    <3>1. pc[p] \in {"start", "cmd"} \/ p \notin Leads
      BY <1>9 DEF ChildStart, ChildCommand, ChildWindow, ChildIncoming
    <3> QED BY <3>1 DEF Control, Stage, Resting, Opening, Running
  <2>2. pc[p] \in {"start", "cmd", "window", "exchange"}
    BY <1>9 DEF ChildStart, ChildCommand, ChildWindow, ChildIncoming
  <2>3. queue[p] # <<>> => \/ pc[p] = "cmd" /\ Head(queue[p]).kind \in Commands
                           \/ pc[p] = "window" /\ Head(queue[p]).kind = "horizon"
                           \/ pc[p] = "exchange" /\ Head(queue[p]).kind = "incoming"
                           \/ pc[p] = "start"
    BY <1>2, <2>1, <2>2 DEF QueuesInStep, Expected, Commands
  <2>4. TypeOK'
    BY <1>9, <2>3, ChildTyped
  <2> QED BY <1>9, <2>1, <2>4, ChildSteps
<1>10. ASSUME NEW p \in Procs, Peek(p) \/ HandOver(p) \/ Tell(p) PROVE TypeOK' /\ Control'
  <2>1. TypeOK'
    BY <1>10, ProcTyped
  <2>2. CASE p \notin Leads
    BY <1>10, <2>1, <2>2, ChildSteps
  <2>3. CASE p \in Leads
    <3> DEFINE r == p[1]
    <3>1. r \in Ranks /\ p = Lead(r)
      BY <1>1, <2>3
    <3> HIDE DEF r
    <3>2. Peek(Lead(r)) \/ HandOver(Lead(r)) \/ Tell(Lead(r))
      BY <1>10, <3>1
    <3> QED BY <2>1, <3>1, <3>2, PhaseSteps, MainControl
  <2> QED BY <2>2, <2>3
<1>11. ASSUME NEW r \in Ranks, Created(r) \/ Command(r) \/ RunFinish(r) \/ Join(r)
       PROVE  TypeOK' /\ Control'
  <2>1. Inf \in Limits /\ FALSE \in BOOLEAN
    BY TimeFacts DEF Limits
  <2> QED BY <1>11, <2>1, MainControl, MainTyped
<1>12. ASSUME NEW r \in Ranks, Gather(r) \/ Collect(r) \/ Sum(r) PROVE TypeOK' /\ Control'
  <2>1. Lead(r) \in Procs /\ Lead(r) \in Leads
    BY LeadFacts DEF TypeOK
  <2>2. queue[Lead(r)] # <<>> =>
          /\ pc[Lead(r)] = "window" => Head(queue[Lead(r)]).kind = "horizon"
          /\ pc[Lead(r)] = "exchange" => Head(queue[Lead(r)]).kind = "sent"
    BY <1>2, <2>1 DEF QueuesInStep, Reply, Expected, Opening, Running
  <2>3. TypeOK'
    BY <1>12, <2>2, LeadTyped
  <2> QED BY <1>12, <2>3, PhaseSteps
<1>13. ASSUME NEW p \in Procs, Step(p) PROVE TypeOK' /\ Control'
  BY <1>1, <1>8, <1>9, <1>10, <1>11, <1>12, <1>13 DEF Step
<1>14. CASE Main
  <2>1. Times \subseteq Limits /\ Inf \in Limits
    BY TimeFacts DEF Limits
  <2> QED BY <1>4, <1>5, <1>6, <1>14, <2>1 DEF Main
<1>15. CASE Ended
  BY <1>3, <1>15 DEF Ended
<1> QED BY <1>3, <1>7, <1>13, <1>14, <1>15 DEF Next

\* The types, and where the processes are, in every reachable state.
THEOREM GroupControlled == Spec => [](TypeOK /\ Control)
<1>1. Init => TypeOK /\ Control
  BY InitTyped, InitControl
<1>2. TypeOK /\ Control /\ [Next]_vars => (TypeOK /\ Control)'
  BY ControlStep
<1> QED BY <1>1, <1>2, PTL DEF Spec

\* What a process takes from its queue is always what it expects, for any
\* division of any simulators among any processes of any ranks.
THEOREM QueuesAlwaysInStep == Spec => []QueuesInStep
<1>1. TypeOK /\ Control => QueuesInStep
  BY InStep
<1> QED BY <1>1, GroupControlled, PTL

-----------------------------------------------------------------------------
(* The clocks, with the processes at the time T *)

\* The simulators that still have to get to the end of the window.
Behind(s) ==
  LET p == home[s]
      l == Lead(p[1])
  IN \/ pc[l] = "create" /\ s \in ToSet(todo[l])
     \/ pc[p] = "run" /\ s \in ToSet(todo[p])
     \/ pc[l] \in Running /\ pc[p] = "window"

TodoOK ==
  \A p \in Procs :
    /\ pc[p] = "create" => \A s \in ToSet(todo[p]) : Rank(s) = p[1]
    /\ pc[p] = "window" => todo[p] = parts[p]
    /\ pc[p] = "run" => ToSet(todo[p]) \subseteq ToSet(parts[p])

\* No message is forgotten when a window is opened.
FutureOK ==
  \A p \in Procs : p \notin Leads \/ pc[p] \notin Running => \A x \in buf[p] : future[p] <= x.at

\* All simulators are at T or on the way there, and none has passed an event.
ClocksOK(T) == \A s \in Sims : now[s] <= T /\ (Behind(s) \/ now[s] = T)
EventsOK == \A s \in Sims : \A i \in DOMAIN list[s] : now[s] <= list[s][i]

\* T is the end of the window, which the run does not exceed; between runs it is
\* the limit of the last one.
LimitsOK(T) ==
  /\ \A l \in Leads : /\ pc[l] \in {"create"} \cup Running => horizon[l] = T
                      /\ pc[l] \in {"agree"} \cup Opening \cup Running => T <= upper[l]
  /\ pc[Lead(0)] \in Resting \ {"agree"} /\ spec[Lead(0)] => T = upper[Lead(0)]

\* What an event in the window causes elsewhere comes after the window.
NearOK(T) ==
  pc[Lead(0)] \in Running => \A s \in Sims : \A i \in DOMAIN list[s] : T <= list[s][i] + Lookahead

\* No message under way is for a time before T.
MailsOK(T) ==
  \A p \in Procs :
    /\ T <= future[p] /\ \A x \in buf[p] : T <= x.at
    /\ \A k \in DOMAIN queue[p] :
         queue[p][k].kind \in {"sent", "incoming"} => \A x \in queue[p][k].val : T <= x.at

\* A window until h is safe for process p.
Bound(h, p) ==
  /\ h <= upper[p] /\ h <= future[p]
  /\ \A s \in ToSet(parts[p]) : \A i \in DOMAIN list[s] : h <= list[s][i] + Lookahead

\* The window that process 0 of a rank is about to open is safe for all processes
\* of the rank that have answered.
WindowOK(T, r) ==
  LET l == Lead(r)
  IN /\ \A k \in DOMAIN queue[l] : T <= queue[l][k].val
     /\ pc[l] = "window" => T <= horizon[l] /\ Bound(horizon[l], l)
     /\ \A c \in Answered(r) : \/ \E k \in DOMAIN queue[l] : Bound(queue[l][k].val, c)
                               \/ pc[l] = "window" /\ Bound(horizon[l], c)
WindowsOK(T) == \A r \in Ranks : pc[Lead(r)] \in Opening => WindowOK(T, r)

TimeAt(T) == /\ TodoOK /\ FutureOK /\ EventsOK /\ ~late
             /\ ClocksOK(T) /\ LimitsOK(T) /\ NearOK(T) /\ MailsOK(T) /\ WindowsOK(T)

\* The group is at some time.
Timely == \E T \in Limits : TimeAt(T)

-----------------------------------------------------------------------------
(* Every step keeps the group timely *)

\* Times are numbers.
LEMMA Numbers ==
  ASSUME TypeOK
  PROVE  /\ \A T \in Limits : T \in Int /\ T <= Inf
         /\ Lookahead \in Int /\ 0 <= Lookahead /\ Inf \in Int /\ Inf \in Limits
         /\ \A s \in Sims : /\ now[s] \in Int
                            /\ \A i \in DOMAIN list[s] : list[s][i] \in Int
         /\ \A p \in Procs : /\ horizon[p] \in Int /\ upper[p] \in Int /\ future[p] \in Int
                             /\ \A x \in buf[p] : x.at \in Int
<1>1. \A T \in Limits : T \in Int /\ T <= Inf
  <2>1. Limits \subseteq Nat
    BY TimeFacts
  <2>2. \A T \in Limits : T <= Inf
    BY TimeFacts DEF Limits
  <2> QED BY <2>1, <2>2
<1>2. Lookahead \in Int /\ 0 <= Lookahead /\ Inf \in Int /\ Inf \in Limits
  <2>1. Lookahead \in Nat /\ Inf \in Nat /\ Inf \in Limits
    BY TimeFacts
  <2> QED BY <2>1
<1>3. ASSUME NEW t \in Times PROVE t \in Int
  <2>1. t \in Nat
    BY TimeFacts
  <2> QED BY <2>1
<1>4. \A s \in Sims : now[s] \in Int
  <2>1. \A s \in Sims : now[s] \in Limits
    BY DEF TypeOK, SimsTyped
  <2> QED BY <1>1, <2>1
<1>5. \A s \in Sims : \A i \in DOMAIN list[s] : list[s][i] \in Int
  <2>1. \A s \in Sims : list[s] \in Lists
    BY DEF TypeOK, SimsTyped
  <2> QED BY <1>3, <2>1, ListFields
<1>6. \A p \in Procs : horizon[p] \in Int /\ upper[p] \in Int /\ future[p] \in Int
  <2>1. \A p \in Procs : horizon[p] \in Limits /\ upper[p] \in Limits /\ future[p] \in Limits
    BY DEF TypeOK, WindowTyped, ArgsTyped, BufsTyped
  <2> QED BY <1>1, <2>1
<1>7. \A p \in Procs : \A x \in buf[p] : x.at \in Int
  <2>1. \A p \in Procs : buf[p] \subseteq Mails
    BY DEF TypeOK, BufsTyped
  <2> QED BY <1>3, <2>1, MailFields
<1> QED BY <1>1, <1>2, <1>4, <1>5, <1>6, <1>7

\* The processes 0 of all ranks are in the same phase, and the others follow: one
\* that runs is in the window of process 0.
LEMMA Phases ==
  ASSUME TypeOK, Control
  PROVE  /\ Lead(0) \in Leads
         /\ \A k, l \in Leads : /\ pc[k] \in Resting => pc[l] \in Resting
                                /\ pc[k] \in Opening => pc[l] \in Opening
                                /\ pc[k] \in Running => pc[l] \in Running /\ horizon[l] = horizon[k]
                                /\ pc[k] \in Opening \cup Running =>
                                     upper[l] = upper[k] /\ spec[l] = spec[k]
         /\ \A l \in Leads : pc[l] \in Resting \cup Opening \cup Running
         /\ \A p \in Procs : pc[p] = "run" => LET l == Lead(p[1])
                                              IN pc[l] \in Running /\ horizon[p] = horizon[l]
<1>1. Lead(0) \in Leads
  BY LeadFacts DEF TypeOK
<1>2. ASSUME NEW k \in Leads, NEW l \in Leads
      PROVE  /\ pc[k] \in Resting => pc[l] \in Resting
             /\ pc[k] \in Opening => pc[l] \in Opening
             /\ pc[k] \in Running => pc[l] \in Running /\ horizon[l] = horizon[k]
             /\ pc[k] \in Opening \cup Running => upper[l] = upper[k] /\ spec[l] = spec[k]
  <2>1. CASE \A o \in Leads : pc[o] \in Resting
    BY <2>1 DEF Resting, Opening, Running
  <2>2. CASE ~\A o \in Leads : pc[o] \in Resting
    <3>1. /\ \/ \A o \in Leads : pc[o] \in Opening
             \/ /\ \A o \in Leads : pc[o] \in Running
                /\ \A o \in Leads : horizon[o] = horizon[Lead(0)]
          /\ \A o \in Leads : upper[o] = upper[Lead(0)] /\ spec[o] = spec[Lead(0)]
      BY <2>2 DEF Control, Stage
    <3> QED BY <3>1 DEF Resting, Opening, Running
  <2> QED BY <2>1, <2>2
<1>3. \A l \in Leads : pc[l] \in Resting \cup Opening \cup Running
  BY DEF Control, Stage
<1>4. ASSUME NEW p \in Procs, pc[p] = "run"
      PROVE  pc[Lead(p[1])] \in Running /\ horizon[p] = horizon[Lead(p[1])]
  <2>1. CASE p \in Leads
    BY <1>4, <2>1, LeadFacts DEF TypeOK, Running
  <2>2. CASE p \notin Leads
    <3> DEFINE r == p[1]
    <3>1. r \in Ranks /\ p \in Children(r)
      BY <2>2, LeadFacts DEF TypeOK
    <3>2. Fits(pc[Lead(r)], horizon[Lead(r)], upper[Lead(r)], spec[Lead(r)], exits[r],
               "run", queue[p], horizon[p], upper[p], spec[p])
      BY <1>4, <3>1 DEF Control, ChildOK
    <3> QED BY <3>2 DEF Fits, FitsRest, FitsOpen, FitsRun, Closing, Opening
  <2> QED BY <2>1, <2>2
<1> QED BY <1>1, <1>2, <1>3, <1>4

\* Outside of a window no simulator is behind.
LEMMA Settled ==
  ASSUME TypeOK, Control, NEW s \in Sims, pc[Lead(home[s][1])] \notin {"create"} \cup Running
  PROVE  ~Behind(s)
<1>1. home[s] \in Procs
  BY DEF TypeOK, SetupOK
<1>2. pc[home[s]] # "run"
  BY <1>1, Phases
<1> QED BY <1>2 DEF Behind

\* A queue loses its first entry, or gets one more.
Onward(T, q, nq) ==
  \/ nq = q
  \/ q # <<>> /\ nq = Tail(q)
  \/ \E x \in Entries : /\ nq = Append(q, x)
                        /\ x.kind \in {"sent", "incoming"} => \A y \in x.val : T <= y.at

LEMMA MailsKept ==
  ASSUME TypeOK, NEW T \in Limits, MailsOK(T), UNCHANGED setup,
         \A p \in Procs : T <= future'[p] /\ \A x \in buf'[p] : T <= x.at,
         \A p \in Procs : Onward(T, queue[p], queue'[p])
  PROVE  MailsOK(T)'
<1>1. Procs' = Procs
  BY Frame
<1>2. ASSUME NEW p \in Procs, NEW k \in DOMAIN queue'[p], queue'[p][k].kind \in {"sent", "incoming"}
      PROVE  \A y \in queue'[p][k].val : T <= y.at
  <2>1. /\ queue[p] \in Seq(Entries)
        /\ \A j \in DOMAIN queue[p] : queue[p][j].kind \in {"sent", "incoming"} =>
                                        \A y \in queue[p][j].val : T <= y.at
    BY DEF TypeOK, ChansTyped, MailsOK
  <2>2. CASE queue'[p] = queue[p]
    BY <1>2, <2>1, <2>2
  <2>3. CASE queue[p] # <<>> /\ queue'[p] = Tail(queue[p])
    <3>1. k + 1 \in DOMAIN queue[p] /\ queue'[p][k] = queue[p][k + 1]
      BY <2>1, <2>3
    <3> QED BY <1>2, <2>1, <3>1
  <2>4. ASSUME NEW x \in Entries, queue'[p] = Append(queue[p], x),
               x.kind \in {"sent", "incoming"} => \A y \in x.val : T <= y.at
        PROVE  \A y \in queue'[p][k].val : T <= y.at
    <3>1. (k \in DOMAIN queue[p] /\ queue'[p][k] = queue[p][k]) \/ queue'[p][k] = x
      BY <2>1, <2>4
    <3> QED BY <1>2, <2>1, <2>4, <3>1
  <2> QED BY <2>2, <2>3, <2>4 DEF Onward
<1> QED BY <1>1, <1>2 DEF MailsOK

\* Sending moves the queue on.
LEMMA OnwardFacts ==
  /\ \A T, q : Onward(T, q, q)
  /\ \A T, q : q # <<>> => Onward(T, q, Tail(q))
  /\ \A T, q, v : \A k \in {"run", "horizon", "figures", "report", "stop"} :
       Entry(k, v) \in Entries => Onward(T, q, Append(q, Entry(k, v)))
  /\ \A T, q, v : \A k \in {"sent", "incoming"} :
       Entry(k, v) \in Entries /\ (\A y \in v : T <= y.at) => Onward(T, q, Append(q, Entry(k, v)))
BY EntryProps DEF Onward

\* Between windows: processes 0 go on, and no clock moves.
LEMMA CalmTime ==
  ASSUME TypeOK, Control, NEW T \in Limits, TimeAt(T),
         UNCHANGED <<setup, now, list, late, bufs, todo, horizon>>,
         \A l \in Leads : pc[l] \in Resting /\ pc'[l] \in Resting,
         \A p \in Procs : p \notin Leads => pc'[p] = pc[p],
         \A l \in Leads : /\ pc'[l] = "create" => pc[l] = "create"
                          /\ pc[l] = "create" => pc'[l] = "create" \/ todo[l] = <<>>
                          /\ pc'[l] = "agree" => T <= upper'[l],
         pc'[Lead(0)] # "agree" /\ spec'[Lead(0)] => T = upper'[Lead(0)],
         \A p \in Procs : Onward(T, queue[p], queue'[p])
  PROVE  TimeAt(T)'
<1>1. /\ Procs' = Procs /\ Ranks' = Ranks /\ Leads' = Leads /\ \A s : Rank(s)' = Rank(s)
      /\ parts' = parts /\ home' = home
      /\ now' = now /\ list' = list /\ late' = late /\ buf' = buf /\ future' = future
      /\ todo' = todo /\ horizon' = horizon
      /\ Lead(0) \in Leads /\ Leads \subseteq Procs /\ \A r \in Ranks : Lead(r) \in Leads
      /\ \A s \in Sims : home[s] \in Procs /\ Lead(home[s][1]) \in Leads
  BY Frame, LeadFacts DEF TypeOK, SetupOK, bufs
<1>2. TodoOK'
  <2>1. \A p \in Procs : p \in Leads => pc'[p] \notin {"window", "run"}
    BY DEF Resting
  <2>2. \A p \in Procs : pc'[p] = "create" => pc[p] = "create"
    BY <1>1
  <2>3. ASSUME NEW p \in Procs
        PROVE  /\ pc'[p] = "create" => \A s \in ToSet(todo[p]) : Rank(s) = p[1]
               /\ pc'[p] = "window" => todo[p] = parts[p]
               /\ pc'[p] = "run" => ToSet(todo[p]) \subseteq ToSet(parts[p])
    BY <2>1, <2>2 DEF TimeAt, TodoOK
  <2> QED BY <1>1, <2>3 DEF TodoOK
<1>3. FutureOK'
  <2>1. \A l \in Leads : pc[l] \notin Running
    BY DEF Resting, Running
  <2> QED BY <1>1, <2>1 DEF TimeAt, FutureOK
<1>4. ClocksOK(T)'
  <2>1. ASSUME NEW s \in Sims, Behind(s) PROVE Behind(s)'
    <3> DEFINE l == Lead(home[s][1])
    <3>1. home[s] \in Procs /\ l \in Leads /\ pc[l] \notin Running /\ pc[home[s]] # "run"
      BY <1>1, Phases DEF Resting, Running
    <3>2. pc[l] = "create" /\ s \in ToSet(todo[l])
      BY <2>1, <3>1 DEF Behind
    <3>3. todo[l] # <<>>
      BY <3>2 DEF ToSet
    <3>4. pc'[l] = "create"
      BY <3>1, <3>2, <3>3
    <3> QED BY <1>1, <3>2, <3>4 DEF Behind
  <2> QED BY <1>1, <2>1 DEF TimeAt, ClocksOK
<1>5. LimitsOK(T)'
  BY <1>1 DEF TimeAt, LimitsOK, Resting, Opening, Running
<1>6. EventsOK' /\ ~late'
  BY <1>1 DEF TimeAt, EventsOK
<1>7. NearOK(T)' /\ WindowsOK(T)'
  BY <1>1 DEF NearOK, WindowsOK, Resting, Opening, Running
<1>8. MailsOK(T)'
  <2>1. \A p \in Procs : T <= future'[p] /\ \A x \in buf'[p] : T <= x.at
    BY <1>1 DEF TimeAt, MailsOK
  <2> QED BY <2>1, MailsKept DEF TimeAt
<1> QED BY <1>2, <1>3, <1>4, <1>5, <1>6, <1>7, <1>8 DEF TimeAt

\* Another process takes a step, may deliver messages to its simulators, and may
\* tell process 0 a window.
LEMMA ChildTime ==
  ASSUME TypeOK, Control, NEW T \in Limits, TimeAt(T), UNCHANGED <<setup, now>>, late' => late,
         NEW p \in Procs, p \notin Leads, NEW np, np # "create",
         pc' = [pc EXCEPT ![p] = np],
         \A o \in Procs : o # p => /\ buf'[o] = buf[o] /\ future'[o] = future[o]
                                   /\ todo'[o] = todo[o] /\ horizon'[o] = horizon[o]
                                   /\ upper'[o] = upper[o] /\ spec'[o] = spec[o]
                                   /\ o # Lead(p[1]) => queue'[o] = queue[o],
         np = "window" => todo'[p] = parts[p],
         np = "run" => ToSet(todo'[p]) \subseteq ToSet(parts[p]),
         \A x \in buf'[p] : future'[p] <= x.at /\ T <= x.at,
         T <= future'[p],
         Onward(T, queue[p], queue'[p]), Onward(T, queue[Lead(p[1])], queue'[Lead(p[1])]),
         \A s \in Sims : home[s] # p => list'[s] = list[s],
         \A s \in Sims : \A i \in DOMAIN list'[s] :
           (i \in DOMAIN list[s] /\ list'[s][i] = list[s][i]) \/ T <= list'[s][i],
         \A s \in Sims : \A i \in DOMAIN list'[s] : list'[s][i] \in Int,
         pc[p] \in {"run", "window"} =>
           \A s \in Sims : home[s] = p /\ Behind(s) /\ pc[Lead(p[1])] \in Running =>
             np = "run" /\ s \in ToSet(todo'[p]),
         pc[Lead(p[1])] \in Opening =>
           /\ pc[p] # "window" \/ queue[p] # <<>>
           /\ \/ queue'[Lead(p[1])] = queue[Lead(p[1])] /\ ~(np = "window" /\ queue'[p] = <<>>)
              \/ \E w \in Limits : /\ queue'[Lead(p[1])] = Append(queue[Lead(p[1])], Entry("horizon", w))
                                   /\ T <= w /\ Bound(w, p)'
  PROVE  TimeAt(T)'
<1> DEFINE r == p[1]
           l == Lead(r)
<1>1. /\ Procs' = Procs /\ Ranks' = Ranks /\ Leads' = Leads /\ \A s : Rank(s)' = Rank(s)
      /\ parts' = parts /\ home' = home /\ now' = now /\ \A o : Children(o)' = Children(o)
  BY Frame
<1>2. /\ Lead(0) \in Leads /\ Leads \subseteq Procs
      /\ r \in Ranks /\ l \in Leads /\ l \in Procs /\ l # p /\ p \in Children(r)
      /\ \A o \in Ranks : /\ Lead(o) \in Leads /\ Lead(o) # p
                          /\ o # r => Lead(o) # l /\ p \notin Children(o)
                          /\ \A c \in Children(o) : c \in Procs /\ c \notin Leads
      /\ \A s \in Sims : home[s] \in Procs /\ Lead(home[s][1]) \in Leads
      /\ \A o \in Procs, s \in Sims : s \in ToSet(parts[o]) <=> home[s] = o
      /\ \A o \in Procs : ToSet(parts[o]) \subseteq Sims
  <2>1. \A o \in Procs : parts[o] \in Seq(Sims)
    BY DEF TypeOK, SetupOK
  <2>2. \A o \in Procs : ToSet(parts[o]) \subseteq Sims
    BY <2>1 DEF ToSet
  <2> QED BY <2>2, LeadFacts DEF TypeOK, SetupOK
<1>3. pc'[p] = np /\ \A o \in Procs : o # p => pc'[o] = pc[o]
  BY DEF TypeOK, PlacesTyped
<1>4. \A o \in Leads : /\ pc'[o] = pc[o] /\ horizon'[o] = horizon[o] /\ upper'[o] = upper[o]
                       /\ spec'[o] = spec[o] /\ future'[o] = future[o] /\ buf'[o] = buf[o]
                       /\ todo'[o] = todo[o]
  BY <1>2, <1>3
<1>5. TodoOK'
  <2>1. ASSUME NEW o \in Procs
        PROVE  /\ pc'[o] = "create" => \A s \in ToSet(todo'[o]) : Rank(s) = o[1]
               /\ pc'[o] = "window" => todo'[o] = parts[o]
               /\ pc'[o] = "run" => ToSet(todo'[o]) \subseteq ToSet(parts[o])
    <3>1. CASE o = p
      BY <1>3, <3>1
    <3>2. CASE o # p
      <4>1. pc'[o] = pc[o] /\ todo'[o] = todo[o] /\ TodoOK
        BY <1>3, <3>2 DEF TimeAt
      <4> QED BY <4>1 DEF TodoOK
    <3> QED BY <3>1, <3>2
  <2> QED BY <1>1, <2>1 DEF TodoOK
<1>6. FutureOK'
  <2>1. ASSUME NEW o \in Procs, o \notin Leads \/ pc'[o] \notin Running
        PROVE  \A x \in buf'[o] : future'[o] <= x.at
    BY <1>3, <2>1 DEF TimeAt, FutureOK
  <2> QED BY <1>1, <2>1 DEF FutureOK
<1>7. ClocksOK(T)'
  <2>1. ASSUME NEW s \in Sims, Behind(s) PROVE Behind(s)'
    <3> DEFINE h == home[s]
               k == Lead(h[1])
    <3>1. h \in Procs /\ k \in Leads /\ k \in Procs /\ pc'[k] = pc[k] /\ todo'[k] = todo[k]
      BY <1>2, <1>4
    <3>2. CASE pc[k] = "create" /\ s \in ToSet(todo[k])
      BY <1>1, <3>1, <3>2 DEF Behind
    <3>3. CASE h # p
      <4>1. pc'[h] = pc[h] /\ todo'[h] = todo[h]
        BY <1>3, <3>1, <3>3
      <4> QED BY <1>1, <2>1, <3>1, <4>1 DEF Behind
    <3>4. CASE h = p /\ ~(pc[k] = "create" /\ s \in ToSet(todo[k]))
      <4>1. pc[p] \in {"run", "window"}
        BY <2>1, <3>4 DEF Behind
      <4>2. pc[k] \in Running /\ k = l
        BY <2>1, <3>4, Phases DEF Behind
      <4>3. np = "run" /\ s \in ToSet(todo'[p])
        BY <2>1, <3>4, <4>1, <4>2
      <4> QED BY <1>1, <1>3, <3>4, <4>3 DEF Behind
    <3> QED BY <3>2, <3>3, <3>4
  <2> QED BY <1>1, <2>1 DEF TimeAt, ClocksOK
<1>8. LimitsOK(T)'
  BY <1>1, <1>2, <1>4 DEF TimeAt, LimitsOK
<1>9. EventsOK' /\ ~late'
  <2>1. ASSUME NEW s \in Sims, NEW i \in DOMAIN list'[s] PROVE now[s] <= list'[s][i]
    <3>1. CASE i \in DOMAIN list[s] /\ list'[s][i] = list[s][i]
      BY <3>1 DEF TimeAt, EventsOK
    <3>2. CASE T <= list'[s][i]
      <4>1. now[s] <= T /\ now[s] \in Int /\ T \in Int
        BY Numbers DEF TimeAt, ClocksOK
      <4> QED BY <3>2, <4>1
    <3> QED BY <3>1, <3>2
  <2> QED BY <1>1, <2>1 DEF TimeAt, EventsOK
<1>10. NearOK(T)'
  <2>1. ASSUME NEW s \in Sims, NEW i \in DOMAIN list'[s], pc[Lead(0)] \in Running
        PROVE  T <= list'[s][i] + Lookahead
    <3>1. CASE i \in DOMAIN list[s] /\ list'[s][i] = list[s][i]
      BY <2>1, <3>1 DEF TimeAt, NearOK
    <3>2. CASE T <= list'[s][i]
      <4>1. list'[s][i] \in Int /\ T \in Int /\ Lookahead \in Int /\ 0 <= Lookahead
        BY Numbers
      <4> QED BY <3>2, <4>1
    <3> QED BY <3>1, <3>2
  <2> QED BY <1>1, <1>2, <1>4, <2>1 DEF NearOK
<1>11. MailsOK(T)'
  <2>1. \A o \in Procs : T <= future'[o] /\ \A x \in buf'[o] : T <= x.at
    BY DEF TimeAt, MailsOK
  <2>2. \A o \in Procs : Onward(T, queue[o], queue'[o])
    BY OnwardFacts
  <2> QED BY <2>1, <2>2, MailsKept DEF TimeAt
<1>12. WindowsOK(T)'
  <2>1. ASSUME NEW h, NEW o \in Procs, o # p, Bound(h, o) PROVE Bound(h, o)'
    <3>1. \A s \in ToSet(parts[o]) : list'[s] = list[s]
      BY <1>2, <2>1
    <3>2. upper'[o] = upper[o] /\ future'[o] = future[o]
      BY <2>1
    <3> QED BY <1>1, <2>1, <3>1, <3>2 DEF Bound
  <2>2. ASSUME NEW o \in Ranks, pc[Lead(o)] \in Opening PROVE WindowOK(T, o)'
    <3>1. WindowOK(T, o)
      BY <2>2 DEF TimeAt, WindowsOK
    <3>2. /\ pc'[Lead(o)] = pc[Lead(o)] /\ horizon'[Lead(o)] = horizon[Lead(o)] /\ Lead(o) \in Procs
          /\ Lead(o) # p
      BY <1>2, <1>4
    <3>3. pc'[Lead(o)] = "window" => T <= horizon'[Lead(o)] /\ Bound(horizon[Lead(o)], Lead(o))'
      BY <2>1, <3>1, <3>2 DEF WindowOK
    <3>4. \A c \in Children(o) : c # p => /\ c \in Procs
                                          /\ pc'[c] = pc[c] /\ queue'[c] = queue[c]
      BY <1>2, <1>3
    <3>5. p \notin Answered(o)
      <4>1. CASE o = r
        BY <2>2, <4>1 DEF Answered, Replied, Opening, Running
      <4>2. CASE o # r
        BY <1>2, <4>2 DEF Answered
      <4> QED BY <4>1, <4>2
    <3>6. Answered(o)' \subseteq Answered(o) \cup {p} /\ Answered(o) \subseteq Procs
      BY <1>1, <1>2, <3>2, <3>4 DEF Answered
    <3>7. ASSUME queue'[Lead(o)] = queue[Lead(o)], p \notin Answered(o)'
          PROVE  WindowOK(T, o)'
      <4>1. \A c \in Answered(o)' :
              \/ \E k \in DOMAIN queue[Lead(o)] : Bound(queue[Lead(o)][k].val, c)'
              \/ pc[Lead(o)] = "window" /\ Bound(horizon[Lead(o)], c)'
        <5>1. ASSUME NEW c \in Answered(o)' PROVE c \in Answered(o) /\ c # p /\ c \in Procs
          BY <3>5, <3>6, <3>7
        <5> QED BY <2>1, <3>1, <3>2, <3>7, <5>1 DEF WindowOK
      <4> QED BY <3>1, <3>2, <3>3, <3>7, <4>1 DEF WindowOK
    <3>8. CASE o # r
      <4>1. queue'[Lead(o)] = queue[Lead(o)] /\ p \notin Answered(o)'
        BY <1>1, <1>2, <3>2, <3>8 DEF Answered
      <4> QED BY <3>7, <4>1
    <3>9. CASE o = r /\ queue'[l] = queue[l] /\ ~(np = "window" /\ queue'[p] = <<>>)
      <4>1. p \notin Answered(o)'
        BY <1>3, <2>2, <3>2, <3>9 DEF Answered, Replied, Opening, Running
      <4> QED BY <3>7, <3>9, <4>1
    <3>10. ASSUME o = r, NEW w \in Limits, queue'[l] = Append(queue[l], Entry("horizon", w)),
                  T <= w, Bound(w, p)'
           PROVE  WindowOK(T, o)'
      <4> DEFINE q == queue[l]
                 nq == Append(q, Entry("horizon", w))
      <4>1. q \in Seq(Entries) /\ Entry("horizon", w) \in Entries /\ Entry("horizon", w).val = w
        BY <1>2, <3>10, EntryProps DEF TypeOK, ChansTyped
      <4>2. /\ \A k \in DOMAIN q : k \in DOMAIN nq /\ nq[k].val = q[k].val
            /\ \A k \in DOMAIN nq : k \in DOMAIN q \/ nq[k].val = w
            /\ \E k \in DOMAIN nq : nq[k].val = w
        <5>1. Len(q) + 1 \in DOMAIN nq /\ nq[Len(q) + 1] = Entry("horizon", w)
          BY <4>1
        <5>2. DOMAIN nq = 1..Len(q) + 1 /\ DOMAIN q = 1..Len(q)
              /\ \A k \in 1..Len(q) : nq[k] = q[k]
          BY <4>1
        <5>3. \A k \in DOMAIN nq : k \in DOMAIN q \/ k = Len(q) + 1
          BY <4>1, <5>2
        <5>4. \A k \in DOMAIN q : k \in DOMAIN nq
          BY <4>1, <5>2
        <5> HIDE DEF nq
        <5> QED BY <4>1, <5>1, <5>2, <5>3, <5>4
      <4> HIDE DEF nq
      <4>3. \A k \in DOMAIN nq : T <= nq[k].val
        BY <3>1, <3>10, <4>2 DEF WindowOK
      <4>4. ASSUME NEW c \in Answered(o)'
            PROVE  \/ \E k \in DOMAIN nq : \E h : h = nq[k].val /\ Bound(h, c)'
                   \/ pc[l] = "window" /\ \E h : h = horizon[l] /\ Bound(h, c)'
        <5>1. CASE c = p
          BY <3>10, <4>2, <5>1
        <5>2. CASE c # p
          <6>1. c \in Answered(o) /\ c \in Procs
            BY <3>6, <5>2
          <6>2. CASE pc[l] = "window" /\ Bound(horizon[l], c)
            BY <2>1, <5>2, <6>1, <6>2
          <6>3. ASSUME NEW k \in DOMAIN q, Bound(q[k].val, c)
                PROVE  \E j \in DOMAIN nq : \E h : h = nq[j].val /\ Bound(h, c)'
            <7>1. k \in DOMAIN nq /\ nq[k].val = q[k].val
              BY <4>2, <6>3
            <7>2. \E h : h = q[k].val /\ Bound(h, c)
              BY <6>3
            <7> QED BY <2>1, <5>2, <6>1, <7>1, <7>2
          <6>4. \/ \E k \in DOMAIN q : Bound(q[k].val, c)
                \/ pc[l] = "window" /\ Bound(horizon[l], c)
            <7>1. WindowOK(T, r)
              BY <3>1, <3>10
            <7>2. c \in Answered(r)
              BY <3>10, <6>1
            <7> HIDE DEF l, q
            <7>3. \A d \in Answered(r) : \/ \E k \in DOMAIN q : Bound(q[k].val, d)
                                         \/ pc[l] = "window" /\ Bound(horizon[l], d)
              BY <7>1, Zenon DEF WindowOK, l, q
            <7> QED BY <7>2, <7>3
          <6> QED BY <6>2, <6>3, <6>4
        <5> QED BY <5>1, <5>2
      <4>5. queue'[l] = nq
        BY <3>10 DEF nq
      <4>6. l = Lead(o)
        BY <3>10
      <4>7. \A k \in DOMAIN queue'[Lead(o)] : T <= queue'[Lead(o)][k].val
        BY <4>3, <4>5, <4>6
      <4>8. ASSUME NEW c \in Answered(o)'
            PROVE  \/ \E k \in DOMAIN queue'[Lead(o)] : Bound(queue[Lead(o)][k].val, c)'
                   \/ pc'[Lead(o)] = "window" /\ Bound(horizon[Lead(o)], c)'
        <5>1. CASE \E k \in DOMAIN nq : \E h : h = nq[k].val /\ Bound(h, c)'
          <6>1. PICK k \in DOMAIN nq : \E h : h = nq[k].val /\ Bound(h, c)'
            BY <5>1
          <6>2. PICK h : h = nq[k].val /\ Bound(h, c)'
            BY <6>1
          <6>3. k \in DOMAIN queue'[Lead(o)] /\ h = queue'[Lead(o)][k].val
            BY <4>5, <4>6, <6>2
          <6> QED BY <6>2, <6>3
        <5>2. CASE pc[l] = "window" /\ \E h : h = horizon[l] /\ Bound(h, c)'
          <6>1. PICK h : h = horizon[l] /\ Bound(h, c)'
            BY <5>2
          <6>2. h = horizon'[Lead(o)] /\ pc'[Lead(o)] = "window"
            BY <3>2, <4>6, <5>2, <6>1
          <6> QED BY <6>1, <6>2
        <5> QED BY <4>4, <5>1, <5>2
      <4> QED BY <3>3, <4>7, <4>8 DEF WindowOK
    <3> QED BY <2>2, <3>8, <3>9, <3>10
  <2>3. \A o \in Ranks : pc'[Lead(o)] = pc[Lead(o)]
    BY <1>2, <1>4
  <2> QED BY <1>1, <2>2, <2>3 DEF WindowsOK
<1> QED BY <1>5, <1>6, <1>7, <1>8, <1>9, <1>10, <1>11, <1>12 DEF TimeAt

\* A window is safe for the process that has worked it out, and not before the
\* time the group is at.
LEMMA PeekBound ==
  ASSUME TypeOK, Control, NEW T \in Limits, TimeAt(T), NEW p \in Procs,
         pc[Lead(p[1])] \in Opening, upper[p] = upper[Lead(p[1])]
  PROVE  Window(p) \in Limits /\ T <= Window(p) /\ Bound(Window(p), p)
<1> DEFINE l == Lead(p[1])
<1>1. l \in Leads /\ T <= upper[p] /\ T <= future[p]
  BY LeadFacts DEF TypeOK, TimeAt, LimitsOK, MailsOK
<1>2. ASSUME NEW s \in ToSet(parts[p]), NEW i \in DOMAIN list[s]
      PROVE  T <= list[s][i] + Lookahead
  <2>1. s \in Sims /\ home[s] = p
    <3>1. parts[p] \in Seq(Sims)
      BY DEF TypeOK, SetupOK
    <3>2. s \in Sims
      BY <3>1 DEF ToSet
    <3> QED BY <3>2 DEF TypeOK, SetupOK
  <2>2. ~Behind(s)
    BY <2>1, Settled DEF Opening, Running
  <2>3. now[s] = T /\ now[s] <= list[s][i]
    BY <2>1, <2>2 DEF TimeAt, ClocksOK, EventsOK
  <2>4. list[s][i] \in Int /\ T \in Int /\ Lookahead \in Int /\ 0 <= Lookahead
    BY <2>1, Numbers
  <2> QED BY <2>3, <2>4
<1>3. Window(p) \in Limits /\ T <= Window(p)
  BY <1>1, <1>2, WindowProps
<1>4. Bound(Window(p), p)
  BY WindowProps DEF Bound
<1> QED BY <1>3, <1>4

LEMMA ChildTimes ==
  ASSUME TypeOK, Control, TypeOK', NEW T \in Limits, TimeAt(T), NEW p \in Procs, p \notin Leads,
         \/ ChildStart(p) \/ ChildCommand(p) \/ Peek(p) \/ ChildWindow(p)
         \/ HandOver(p) \/ ChildIncoming(p) \/ Tell(p)
  PROVE  TimeAt(T)'
<1> DEFINE r == p[1]
           l == Lead(r)
<1>1. /\ r \in Ranks /\ p \in Children(r) /\ l \in Procs /\ l # p /\ l \in Leads
      /\ pc \in [Procs -> Places] /\ queue \in [Procs -> Seq(Entries)] /\ SetupOK /\ ChansTyped
      /\ buf \in [Procs -> SUBSET Mails] /\ future \in [Procs -> Limits]
      /\ upper \in [Procs -> Limits] /\ spec \in [Procs -> BOOLEAN]
      /\ horizon \in [Procs -> Limits] /\ todo \in [Procs -> Seq(Sims)]
  <2>1. SetupOK
    BY DEF TypeOK
  <2>2. r \in Ranks /\ p \in Children(r) /\ l \in Procs /\ l \in Leads /\ l # p
    BY <2>1, LeadFacts
  <2> QED BY <2>1, <2>2 DEF TypeOK, ChansTyped, PlacesTyped, BufsTyped, ArgsTyped, WindowTyped
<1>2. Fits(pc[l], horizon[l], upper[l], spec[l], exits[r],
           pc[p], queue[p], horizon[p], upper[p], spec[p])
  BY <1>1 DEF Control, ChildOK
<1>3. /\ \A s \in Sims : \A i \in DOMAIN list[s] : list[s][i] \in Int
      /\ T <= future[p] /\ \A x \in buf[p] : future[p] <= x.at /\ T <= x.at
      /\ T <= Inf
  BY Numbers DEF TimeAt, MailsOK, FutureOK
\* A step that leaves the clocks and the event lists alone.
<1>4. ASSUME UNCHANGED <<setup, now, list, late>>, NEW np, np # "create", pc' = [pc EXCEPT ![p] = np],
             \A o \in Procs : o # p => /\ buf'[o] = buf[o] /\ future'[o] = future[o]
                                       /\ todo'[o] = todo[o] /\ horizon'[o] = horizon[o]
                                       /\ upper'[o] = upper[o] /\ spec'[o] = spec[o]
                                       /\ o # l => queue'[o] = queue[o],
             np = "window" => todo'[p] = parts[p],
             np = "run" => ToSet(todo'[p]) \subseteq ToSet(parts[p]),
             \A x \in buf'[p] : future'[p] <= x.at /\ T <= x.at,
             T <= future'[p],
             Onward(T, queue[p], queue'[p]), Onward(T, queue[l], queue'[l]),
             pc[p] \in {"run", "window"} =>
               \A s \in Sims : home[s] = p /\ Behind(s) /\ pc[l] \in Running =>
                 np = "run" /\ s \in ToSet(todo'[p]),
             pc[l] \in Opening =>
               /\ pc[p] # "window" \/ queue[p] # <<>>
               /\ \/ queue'[l] = queue[l] /\ ~(np = "window" /\ queue'[p] = <<>>)
                  \/ \E w \in Limits : /\ queue'[l] = Append(queue[l], Entry("horizon", w))
                                       /\ T <= w /\ Bound(w, p)'
      PROVE  TimeAt(T)'
  <2>1. list' = list /\ (late' => late) /\ UNCHANGED <<setup, now>>
    BY <1>4
  <2>2. /\ \A s \in Sims : \A i \in DOMAIN list'[s] :
             (i \in DOMAIN list[s] /\ list'[s][i] = list[s][i]) \/ T <= list'[s][i]
        /\ \A s \in Sims : \A i \in DOMAIN list'[s] : list'[s][i] \in Int
        /\ \A s \in Sims : home[s] # p => list'[s] = list[s]
    BY <1>3, <2>1
  <2> QED BY <1>4, <2>1, <2>2, ChildTime
<1>5. CASE ChildStart(p)
  <2>1. /\ pc[p] = "start" /\ pc' = [pc EXCEPT ![p] = "cmd"]
        /\ buf' = [buf EXCEPT ![p] = {}] /\ future' = [future EXCEPT ![p] = Inf]
        /\ UNCHANGED <<setup, now, list, late>>
        /\ queue' = queue /\ todo' = todo /\ horizon' = horizon /\ upper' = upper /\ spec' = spec
    BY <1>5 DEF ChildStart, sims, chans, args, window
  <2>2. Onward(T, queue[p], queue'[p]) /\ Onward(T, queue[l], queue'[l])
    BY <2>1, OnwardFacts
  <2> QED BY <1>1, <1>3, <1>4, <2>1, <2>2
<1>6. CASE ChildCommand(p)
  <2> DEFINE np == CASE Head(queue[p]).kind = "run" -> "peek"
                     [] Head(queue[p]).kind = "report" -> "tell"
                     [] Head(queue[p]).kind = "stop" -> "ended"
  <2>1. /\ pc[p] = "cmd" /\ queue[p] # <<>> /\ pc' = [pc EXCEPT ![p] = np]
        /\ queue' = [queue EXCEPT ![p] = Tail(@)]
        /\ UNCHANGED <<setup, now, list, late>>
        /\ buf' = buf /\ future' = future /\ todo' = todo /\ horizon' = horizon
        /\ \A o \in Procs : o # p => upper'[o] = upper[o] /\ spec'[o] = spec[o]
    BY <1>1, <1>6 DEF ChildCommand, sims, bufs, args, window
  <2>2. np \in {"peek", "tell", "ended"}
    <3>1. Head(queue[p]).kind \in {"run", "report", "stop"}
      BY <2>1, InStep DEF QueuesInStep, Expected
    <3> QED BY <3>1
  <2>3. queue'[p] = Tail(queue[p]) /\ \A o \in Procs : o # p => queue'[o] = queue[o]
    BY <1>1, <2>1
  <2>4. Onward(T, queue[p], queue'[p]) /\ Onward(T, queue[l], queue'[l])
    BY <1>1, <2>1, <2>3, OnwardFacts
  <2> HIDE DEF np
  <2> QED BY <1>1, <1>3, <1>4, <2>1, <2>2, <2>3, <2>4
<1>7. CASE Peek(p)
  <2> DEFINE w == Window(p)
  <2>1. /\ pc[p] = "peek" /\ pc' = [pc EXCEPT ![p] = "window"]
        /\ queue' = Report(p, "horizon", w)
        /\ UNCHANGED <<setup, now, list, late>> /\ upper' = upper /\ spec' = spec
        /\ buf' = buf /\ future' = future
        /\ todo' = [todo EXCEPT ![p] = parts[p]] /\ horizon' = [horizon EXCEPT ![p] = w]
    BY <1>7 DEF Peek, sims, bufs, args
  <2>2. pc[l] \in Opening /\ upper[p] = upper[l]
    BY <1>2, <2>1 DEF Fits, FitsRest, FitsOpen, FitsRun, Closing, Opening, Running
  <2>3. w \in Limits /\ T <= w /\ Bound(w, p)
    BY <2>2, PeekBound
  <2>5. /\ queue'[l] = Append(queue[l], Entry("horizon", w)) /\ Entry("horizon", w) \in Entries
        /\ \A o \in Procs : o # l => queue'[o] = queue[o]
    <3>1. Entry("horizon", w) \in Entries
      BY <2>3, EntryProps
    <3> HIDE DEF w
    <3> QED BY <1>1, <2>1, <3>1, ReportProps
  <2>6. Onward(T, queue[p], queue'[p]) /\ Onward(T, queue[l], queue'[l])
    BY <1>1, <2>5, OnwardFacts
  <2>7. \A o \in Procs : o # p => todo'[o] = todo[o] /\ horizon'[o] = horizon[o]
    BY <1>1, <2>1
  <2>8. todo'[p] = parts[p]
    BY <1>1, <2>1
  <2>9. \E h \in Limits : /\ queue'[l] = Append(queue[l], Entry("horizon", h))
                          /\ T <= h /\ Bound(h, p)'
    <3>1. ASSUME NEW h, h = w PROVE Bound(h, p)'
      BY <2>1, <2>3, <3>1, Frame DEF Bound
    <3> QED BY <2>3, <2>5, <3>1
  <2> HIDE DEF w
  <2>10. pc[p] \notin {"run", "window"} /\ (\A x \in buf'[p] : future'[p] <= x.at /\ T <= x.at)
         /\ T <= future'[p]
    BY <1>3, <2>1
  <2> QED BY <1>1, <1>4, <2>1, <2>5, <2>6, <2>7, <2>8, <2>9, <2>10
<1>8. CASE ChildWindow(p)
  <2> DEFINE v == Head(queue[p]).val
             np == IF v = Inf /\ ~spec[p] THEN "cmd" ELSE "run"
  <2>1. /\ pc[p] = "window" /\ queue[p] # <<>> /\ pc' = [pc EXCEPT ![p] = np]
        /\ queue' = [queue EXCEPT ![p] = Tail(@)]
        /\ UNCHANGED <<setup, now, list, late>> /\ upper' = upper /\ spec' = spec
        /\ buf' = buf /\ future' = future /\ todo' = todo /\ horizon' = [horizon EXCEPT ![p] = v]
    BY <1>8 DEF ChildWindow, Opened, Over, sims, bufs, args
  <2>2. queue'[p] = Tail(queue[p]) /\ \A o \in Procs : o # p => queue'[o] = queue[o]
    BY <1>1, <2>1
  <2>3. Onward(T, queue[p], queue'[p]) /\ Onward(T, queue[l], queue'[l])
    BY <1>1, <2>1, <2>2, OnwardFacts
  <2>4. todo'[p] = parts[p]
    BY <2>1 DEF TimeAt, TodoOK
  <2>5. pc[l] \in Running => np = "run"
    <3>1. ASSUME pc[l] \in Running PROVE queue[p] = <<Entry("horizon", horizon[l])>>
                                         /\ (horizon[l] < Inf \/ spec[p])
      BY <1>2, <2>1, <3>1 DEF Fits, FitsRun, Resting, Opening, Running
    <3>2. pc[l] \in Running => v = horizon[l]
      BY <3>1, QueueFacts
    <3>3. horizon[l] < Inf => horizon[l] # Inf
      BY TimeFacts
    <3> QED BY <3>1, <3>2, <3>3
  <2>6. \A s \in Sims : home[s] = p => s \in ToSet(todo'[p])
    BY <1>1, <2>4 DEF SetupOK
  <2>7. \A o \in Procs : o # p => horizon'[o] = horizon[o]
    BY <1>1, <2>1
  <2>8. (\A x \in buf'[p] : future'[p] <= x.at /\ T <= x.at) /\ T <= future'[p]
    BY <1>3, <2>1
  <2>9. np \in {"cmd", "run"}
    OBVIOUS
  <2> HIDE DEF np, v
  <2> QED BY <1>1, <1>4, <2>1, <2>2, <2>3, <2>4, <2>5, <2>6, <2>7, <2>8, <2>9
<1>9. CASE HandOver(p)
  <2>1. /\ pc[p] = "run" /\ todo[p] = <<>> /\ pc' = [pc EXCEPT ![p] = "exchange"]
        /\ queue' = Report(p, "sent", buf[p])
        /\ UNCHANGED <<setup, now, list, late>> /\ upper' = upper /\ spec' = spec
        /\ buf' = buf /\ future' = future /\ todo' = todo /\ horizon' = horizon
    BY <1>9 DEF HandOver, sims, bufs, args, window
  <2>2. /\ queue'[l] = Append(queue[l], Entry("sent", buf[p])) /\ Entry("sent", buf[p]) \in Entries
        /\ \A o \in Procs : o # l => queue'[o] = queue[o]
    <3>1. Entry("sent", buf[p]) \in Entries
      BY <1>1, EntryProps
    <3> QED BY <1>1, <2>1, <3>1, ReportProps
  <2>6. Onward(T, queue[l], Append(queue[l], Entry("sent", buf[p])))
    <3>1. \A y \in buf[p] : T <= y.at
      BY <1>3
    <3> QED BY <2>2, <3>1, EntryProps, OnwardFacts
  <2>3. Onward(T, queue[p], queue'[p]) /\ Onward(T, queue[l], queue'[l])
    <3>1. queue'[p] = queue[p]
      BY <1>1, <2>2
    <3> QED BY <2>2, <2>6, <3>1, OnwardFacts
  <2>4. \A s \in Sims : ~(home[s] = p /\ Behind(s) /\ pc[l] \in Running)
    <3>1. \A s : s \notin ToSet(todo[p])
      BY <2>1 DEF ToSet
    <3> QED BY <2>1, <3>1 DEF Behind, Running
  <2>5. pc[l] \notin Opening
    BY <2>1, Phases DEF Opening, Running
  <2> QED BY <1>1, <1>3, <1>4, <2>1, <2>2, <2>3, <2>4, <2>5
<1>10. CASE Tell(p)
  <2>1. /\ pc[p] = "tell" /\ pc' = [pc EXCEPT ![p] = "cmd"]
        /\ queue' = Report(p, "figures", Executed(p))
        /\ UNCHANGED <<setup, now, list, late>> /\ upper' = upper /\ spec' = spec
        /\ buf' = buf /\ future' = future /\ todo' = todo /\ horizon' = horizon
    BY <1>10 DEF Tell, sims, bufs, args, window
  <2>2. Entry("figures", Executed(p)) \in Entries
    <3>1. {i \in DOMAIN done : done[i] \in ToSet(parts[p])} \in SUBSET Items
      BY DEF TypeOK, SimsTyped
    <3>2. Executed(p) \in Figures
      BY <3>1 DEF Executed, Figures
    <3> QED BY <3>2, EntryProps
  <2>3. /\ queue'[l] = Append(queue[l], Entry("figures", Executed(p)))
        /\ \A o \in Procs : o # l => queue'[o] = queue[o]
    BY <1>1, <2>1, <2>2, ReportProps
  <2>4. Onward(T, queue[p], queue'[p]) /\ Onward(T, queue[l], queue'[l])
    BY <1>1, <2>2, <2>3, OnwardFacts
  <2>5. pc[l] \notin Opening
    BY <1>2, <2>1 DEF Fits, FitsRest, FitsOpen, FitsRun, Closing, Resting, Leaving, Opening, Running
  <2> QED BY <1>1, <1>3, <1>4, <2>1, <2>3, <2>4, <2>5
<1>11. CASE ChildIncoming(p)
  <2> DEFINE in == Head(queue[p]).val
             np == IF horizon[p] >= upper[p] THEN "cmd" ELSE "peek"
  <2>1. /\ pc[p] = "exchange" /\ queue[p] # <<>>
        /\ queue' = [queue EXCEPT ![p] = Tail(@)]
        /\ Deliver({p}, in)
    BY <1>11 DEF ChildIncoming
  <2>2. /\ UNCHANGED <<setup, now>> /\ upper' = upper /\ spec' = spec
        /\ todo' = todo /\ horizon' = horizon
        /\ buf' = [o \in Procs |-> IF o \in {p} THEN {} ELSE buf[o]]
        /\ future' = [o \in Procs |-> IF o \in {p} THEN Inf ELSE future[o]]
        /\ pc' = [pc EXCEPT ![p] = np]
    BY <1>1, <2>1 DEF Deliver, Over, args, window
  <2>3. Head(queue[p]) \in Entries /\ Head(queue[p]).kind = "incoming" /\ in \in SUBSET Mails
    <3>1. Head(queue[p]).kind = "incoming"
      BY <2>1, InStep DEF QueuesInStep, Expected
    <3>2. Head(queue[p]) \in Entries
      BY <1>1, <2>1
    <3> QED BY <3>1, <3>2, EntryProps
  <2>4. \A x \in in : T <= x.at /\ x.at \in Int /\ x.to \in Sims
    <3>1. 1 \in DOMAIN queue[p] /\ Head(queue[p]) = queue[p][1]
      BY <1>1, <2>1
    <3>2. \A x \in in : T <= x.at
      BY <2>3, <3>1 DEF TimeAt, MailsOK
    <3>3. \A x \in in : x.at \in Nat /\ x.to \in Sims
      BY <2>3, MailFields, TimeFacts
    <3> QED BY <3>2, <3>3
  <2>5. /\ \A s \in Sims : \A j \in DOMAIN list'[s] :
             \/ j \in DOMAIN list[s] /\ list'[s][j] = list[s][j]
             \/ home[s] \in {p} /\ \E x \in in : list'[s][j] = x.at
        /\ \A s \in Sims : home[s] \notin {p} => list'[s] = list[s]
        /\ late' => late \/ \E x \in in : x.at < now[x.to]
    <3> HIDE DEF in
    <3> QED BY <2>1, <2>3, DeliverProps
  <2>6. late' => late
    <3>1. ASSUME NEW x \in in PROVE ~(x.at < now[x.to])
      <4>1. now[x.to] <= T /\ now[x.to] \in Int /\ T \in Int
        BY <2>4, Numbers DEF TimeAt, ClocksOK
      <4> QED BY <2>4, <4>1
    <3> QED BY <2>5, <3>1
  <2>7. \A s \in Sims : home[s] # p => list'[s] = list[s]
    BY <2>5
  <2>8. /\ \A s \in Sims : \A i \in DOMAIN list'[s] :
             (i \in DOMAIN list[s] /\ list'[s][i] = list[s][i]) \/ T <= list'[s][i]
        /\ \A s \in Sims : \A i \in DOMAIN list'[s] : list'[s][i] \in Int
    <3> HIDE DEF in
    <3> QED BY <1>3, <2>4, <2>5
  <2>9. queue'[p] = Tail(queue[p]) /\ \A o \in Procs : o # p => queue'[o] = queue[o]
    BY <1>1, <2>1
  <2>10. Onward(T, queue[p], queue'[p]) /\ Onward(T, queue[l], queue'[l])
    BY <1>1, <2>1, <2>9, OnwardFacts
  <2>11. buf'[p] = {} /\ T <= future'[p] /\ \A o \in Procs : o # p => buf'[o] = buf[o] /\ future'[o] = future[o]
    BY <1>3, <2>2
  <2>12. np \in {"cmd", "peek"}
    OBVIOUS
  <2>13. \A x \in buf'[p] : future'[p] <= x.at /\ T <= x.at
    BY <2>11
  <2> HIDE DEF np, in
  <2> QED BY <1>1, <2>1, <2>2, <2>6, <2>7, <2>8, <2>9, <2>10, <2>11, <2>12, <2>13, ChildTime
<1> QED BY <1>5, <1>6, <1>7, <1>8, <1>9, <1>10, <1>11

\* Process 0 of a rank goes on between windows.
LEMMA RestTime ==
  ASSUME TypeOK, Control, NEW T \in Limits, TimeAt(T),
         UNCHANGED <<setup, now, list, late, bufs, todo, horizon>>,
         NEW k \in Leads, NEW np, pc' = [pc EXCEPT ![k] = np],
         pc[k] \in Resting \ {"agree"}, np \in Resting \ {"create"},
         pc[k] = "create" => todo[k] = <<>>,
         \A l \in Leads : l # k => upper'[l] = upper[l] /\ spec'[l] = spec[l],
         np = "agree" => T <= upper'[k],
         k = Lead(0) /\ np # "agree" => upper'[k] = upper[k] /\ spec'[k] = spec[k],
         \A p \in Procs : Onward(T, queue[p], queue'[p])
  PROVE  TimeAt(T)'
<1>1. Leads \subseteq Procs /\ pc \in [Procs -> Places] /\ Lead(0) \in Leads
  BY LeadFacts DEF TypeOK, PlacesTyped
<1>2. pc'[k] = np /\ \A p \in Procs : p # k => pc'[p] = pc[p]
  BY <1>1
<1>3. \A l \in Leads : pc[l] \in Resting
  BY Phases
<1>4. \A l \in Leads : pc'[l] \in Resting
  BY <1>1, <1>2, <1>3
<1>5. \A l \in Leads : /\ pc'[l] = "create" => pc[l] = "create"
                       /\ pc[l] = "create" => pc'[l] = "create" \/ todo[l] = <<>>
  BY <1>1, <1>2
<1>6. \A l \in Leads : pc'[l] = "agree" => T <= upper'[l]
  BY <1>1, <1>2 DEF TimeAt, LimitsOK
<1>7. pc'[Lead(0)] # "agree" /\ spec'[Lead(0)] => T = upper'[Lead(0)]
  <2>1. pc[Lead(0)] # "agree" /\ spec[Lead(0)] => T = upper[Lead(0)]
    BY <1>1, <1>3 DEF TimeAt, LimitsOK
  <2> QED BY <1>1, <1>2, <2>1
<1>8. \A p \in Procs : p \notin Leads => pc'[p] = pc[p]
  BY <1>2
<1> QED BY <1>3, <1>4, <1>5, <1>6, <1>7, <1>8, CalmTime

LEMMA RestTimes ==
  ASSUME TypeOK, Control, NEW T \in Limits, TimeAt(T),
         \/ \E r \in Ranks : \/ Created(r) \/ Command(r) \/ Sum(r) \/ RunFinish(r) \/ Join(r)
                             \/ Tell(Lead(r))
         \/ \E u \in Limits, given \in BOOLEAN : Run(u, given)
         \/ ShowReport \/ Reported
  PROVE  TimeAt(T)'
<1>1. /\ \A r \in Ranks : Lead(r) \in Procs /\ Lead(r) \in Leads /\ Lead(r)[1] = r
      /\ Lead(0) \in Leads /\ 0 \in Ranks
      /\ pc \in [Procs -> Places] /\ queue \in [Procs -> Seq(Entries)]
      /\ upper \in [Procs -> Limits] /\ spec \in [Procs -> BOOLEAN]
      /\ SetupOK /\ ChansTyped /\ Leads \subseteq Procs
  <2>1. SetupOK
    BY DEF TypeOK
  <2> QED BY <2>1, LeadFacts DEF TypeOK, PlacesTyped, ChansTyped, ArgsTyped, SetupOK
<1>2. \A q, r : Lead(q) = Lead(r) => q = r
  BY <1>1, LeadFacts
<1>3. T <= Inf /\ T \in Int
  BY Numbers
\* Processes 0 tell the others of their rank something, or nothing.
<1>4. ASSUME NEW R, NEW kind \in {"report", "stop"},
             queue' = Instruct(R, kind, [p \in Procs |-> 0])
      PROVE  \A p \in Procs : Onward(T, queue[p], queue'[p])
  <2>1. ASSUME NEW p \in Procs
        PROVE  queue'[p] = Append(queue[p], Entry(kind, 0)) \/ queue'[p] = queue[p]
    BY <1>4 DEF Instruct
  <2>2. Entry(kind, 0) \in Entries
    BY EntryProps
  <2> QED BY <2>1, <2>2, OnwardFacts
<1>5. queue' = queue => \A p \in Procs : Onward(T, queue[p], queue'[p])
  BY OnwardFacts
<1>6. ASSUME NEW r \in Ranks, Created(r) PROVE TimeAt(T)'
  <2>1. /\ pc[Lead(r)] = "create" /\ todo[Lead(r)] = <<>> /\ pc' = [pc EXCEPT ![Lead(r)] = "main"]
        /\ UNCHANGED <<setup, now, list, late, bufs, todo, horizon>>
        /\ queue' = queue /\ upper' = upper /\ spec' = spec
    BY <1>6 DEF Created, sims, chans, args, window
  <2> QED BY <1>1, <1>5, <2>1, RestTime DEF Resting
<1>7. ASSUME NEW r \in Ranks, Command(r) PROVE TimeAt(T)'
  <2> DEFINE cmd == IF pc[Lead(r)] = "main" THEN "run" ELSE Head(cmds[r])
             np == CASE cmd = "run" -> "agree" [] cmd = "report" -> "tell" [] cmd = "stop" -> "main"
  <2>1. /\ r # 0 /\ pc[Lead(r)] \in {"main", "listen"} /\ cmds[r] # <<>>
        /\ pc' = [pc EXCEPT ![Lead(r)] = np]
        /\ IF cmd = "run"
           THEN /\ upper' = [upper EXCEPT ![Lead(r)] = Inf]
                /\ spec' = [spec EXCEPT ![Lead(r)] = FALSE]
           ELSE upper' = upper /\ spec' = spec
        /\ UNCHANGED <<setup, now, list, late, bufs, todo, horizon>>
        /\ queue' = queue
    BY <1>7 DEF Command, sims, args, window
  <2>2. cmd \in Commands
    <3>1. cmds[r] \in Seq(Commands)
      BY <1>1 DEF ChansTyped
    <3> QED BY <2>1, <3>1 DEF Commands
  <2>3. np \in {"agree", "tell", "main"} /\ (np = "agree" => cmd = "run")
    BY <2>2 DEF Commands
  <2> HIDE DEF np, cmd
  <2>4. \A l \in Leads : l # Lead(r) => upper'[l] = upper[l] /\ spec'[l] = spec[l]
    BY <1>1, <2>1
  <2>5. np = "agree" => T <= upper'[Lead(r)]
    BY <1>1, <1>3, <2>1, <2>3
  <2>6. Lead(r) # Lead(0) /\ pc[Lead(r)] \in Resting \ {"agree", "create"} /\ np \in Resting \ {"create"}
    BY <1>2, <2>1, <2>3 DEF Resting
  <2> QED BY <1>1, <1>5, <2>1, <2>4, <2>5, <2>6, RestTime
<1>8. ASSUME NEW r \in Ranks, Sum(r) PROVE TimeAt(T)'
  <2>1. /\ pc[Lead(r)] = "report" /\ queue[Lead(r)] # <<>>
        /\ queue' = [queue EXCEPT ![Lead(r)] = Tail(@)]
        /\ UNCHANGED <<setup, now, list, late, bufs, todo, horizon>>
        /\ pc' = pc /\ upper' = upper /\ spec' = spec
    BY <1>8 DEF Sum, sims, args, window
  <2>2. \A p \in Procs : Onward(T, queue[p], queue'[p])
    BY <1>1, <2>1, OnwardFacts
  <2>3. pc' = [pc EXCEPT ![Lead(r)] = "report"]
    BY <1>1, <2>1
  <2> QED BY <1>1, <2>1, <2>2, <2>3, RestTime DEF Resting
<1>9. ASSUME NEW r \in Ranks, RunFinish(r) PROVE TimeAt(T)'
  <2>1. /\ pc[Lead(r)] \in {"main", "exit"} /\ pc' = [pc EXCEPT ![Lead(r)] = "join"]
        /\ queue' = Instruct({r}, "stop", [p \in Procs |-> 0])
        /\ UNCHANGED <<setup, now, list, late, bufs, todo, horizon>>
        /\ upper' = upper /\ spec' = spec
    BY <1>9 DEF RunFinish, sims, args, window
  <2>2. \A p \in Procs : Onward(T, queue[p], queue'[p])
    BY <1>4, <2>1
  <2> QED BY <1>1, <2>1, <2>2, RestTime DEF Resting
<1>10. ASSUME NEW r \in Ranks, Join(r) PROVE TimeAt(T)'
  <2> DEFINE np == IF exits[r] > 0 THEN "exit" ELSE "ended"
  <2>1. /\ pc[Lead(r)] = "join" /\ pc' = [pc EXCEPT ![Lead(r)] = np]
        /\ UNCHANGED <<setup, now, list, late, bufs, todo, horizon>>
        /\ queue' = queue /\ upper' = upper /\ spec' = spec
    BY <1>10 DEF Join, sims, chans, args, window
  <2>2. np \in Resting \ {"create", "agree"}
    BY DEF Resting
  <2> HIDE DEF np
  <2> QED BY <1>1, <1>5, <2>1, <2>2, RestTime DEF Resting
<1>11. ASSUME NEW r \in Ranks, Tell(Lead(r)) PROVE TimeAt(T)'
  <2>1. /\ pc[Lead(r)] = "tell" /\ pc' = [pc EXCEPT ![Lead(r)] = "report"]
        /\ queue' = Instruct({r}, "report", [q \in Procs |-> 0])
        /\ UNCHANGED <<setup, now, list, late, bufs, todo, horizon>>
        /\ upper' = upper /\ spec' = spec
    BY <1>1, <1>11 DEF Tell, sims, args, window
  <2>2. \A p \in Procs : Onward(T, queue[p], queue'[p])
    BY <1>4, <2>1
  <2> QED BY <1>1, <2>1, <2>2, RestTime DEF Resting
<1>12. ASSUME NEW u \in Limits, NEW given \in BOOLEAN, Run(u, given) PROVE TimeAt(T)'
  <2>1. /\ pc[Lead(0)] = "main" /\ pc' = [pc EXCEPT ![Lead(0)] = "agree"]
        /\ \A s \in Sims : home[s] = Lead(0) => now[s] <= u
        /\ upper' = [upper EXCEPT ![Lead(0)] = u] /\ spec' = [spec EXCEPT ![Lead(0)] = given]
        /\ UNCHANGED <<setup, now, list, late, bufs, todo, horizon>>
        /\ queue' = queue
    BY <1>12 DEF Run, sims, window
  <2>2. T <= u
    <3>1. PICK s \in Sims : home[s] = Lead(0)
      BY <1>1 DEF SetupOK
    <3>2. pc[Lead(home[s][1])] \notin {"create"} \cup Running
      BY <1>1, <2>1, <3>1 DEF Running
    <3>3. now[s] = T
      BY <3>2, Settled DEF TimeAt, ClocksOK
    <3> QED BY <2>1, <3>1, <3>3
  <2>3. /\ \A l \in Leads : l # Lead(0) => upper'[l] = upper[l] /\ spec'[l] = spec[l]
        /\ T <= upper'[Lead(0)]
    BY <1>1, <2>1, <2>2
  <2> QED BY <1>1, <1>5, <2>1, <2>3, RestTime DEF Resting
<1>13. CASE ShowReport
  <2>1. /\ pc[Lead(0)] = "main" /\ pc' = [pc EXCEPT ![Lead(0)] = "tell"]
        /\ UNCHANGED <<setup, now, list, late, bufs, todo, horizon>>
        /\ queue' = queue /\ upper' = upper /\ spec' = spec
    BY <1>13 DEF ShowReport, sims, args, window
  <2> QED BY <1>1, <1>5, <2>1, RestTime DEF Resting
<1>14. CASE Reported
  <2>1. /\ Complete("report")
        /\ pc' = [p \in Procs |-> IF p \in Leads THEN Over(p) ELSE pc[p]]
        /\ UNCHANGED <<setup, now, list, late, bufs, todo, horizon>>
        /\ queue' = queue /\ upper' = upper /\ spec' = spec
    BY <1>14 DEF Reported, sims, chans, args, window
  <2>2. \A l \in Leads : pc[l] = "report"
    <3>1. \A r \in Ranks : pc[Lead(r)] = "report"
      BY <2>1 DEF Complete
    <3> QED BY <3>1 DEF Leads
  <2>3. /\ \A l \in Leads : pc'[l] \in {"main", "listen"}
        /\ \A p \in Procs : p \notin Leads => pc'[p] = pc[p]
    BY <1>1, <2>1 DEF Over
  <2>4. /\ \A l \in Leads : pc[l] \in Resting /\ pc'[l] \in Resting
        /\ spec'[Lead(0)] => T = upper'[Lead(0)]
    <3>1. pc[Lead(0)] = "report" /\ (spec[Lead(0)] => T = upper[Lead(0)])
      BY <1>1, <2>2 DEF TimeAt, LimitsOK, Resting
    <3> QED BY <2>1, <2>2, <2>3, <3>1 DEF Resting
  <2> QED BY <1>1, <1>5, <2>1, <2>2, <2>3, <2>4, CalmTime
<1> QED BY <1>6, <1>7, <1>8, <1>9, <1>10, <1>11, <1>12, <1>13, <1>14

\* What bounds a window bounds a smaller one.
LEMMA BoundLess ==
  ASSUME TypeOK, NEW g \in Limits, NEW h \in Limits, g <= h, NEW p \in Procs, Bound(h, p)
  PROVE  Bound(g, p)
<1>1. g \in Int /\ h \in Int /\ upper[p] \in Int /\ future[p] \in Int /\ Lookahead \in Int
  BY Numbers
<1>2. ASSUME NEW s \in ToSet(parts[p]), NEW i \in DOMAIN list[s]
      PROVE  g <= list[s][i] + Lookahead
  <2>1. s \in Sims
    <3>1. parts[p] \in Seq(Sims)
      BY DEF TypeOK, SetupOK
    <3> QED BY <3>1 DEF ToSet
  <2>2. list[s][i] \in Int
    BY <2>1, Numbers
  <2>3. h <= list[s][i] + Lookahead
    BY DEF Bound
  <2> QED BY <1>1, <2>2, <2>3
<1> QED BY <1>1, <1>2 DEF Bound

\* Process 0 of a rank, with the answers q of the processes in A, can open a window
\* until h, or until the earliest of the answers.
Opens(T, q, h, l, A) ==
  /\ \A k \in DOMAIN q : T <= q[k].val
  /\ T <= h /\ Bound(h, l)
  /\ \A c \in A : (\E k \in DOMAIN q : Bound(q[k].val, c)) \/ Bound(h, c)

\* Process 0 of a rank gets to know of a window.
LEMMA OpenTime ==
  ASSUME TypeOK, Control, NEW T \in Limits, TimeAt(T),
         NEW r \in Ranks, pc[Lead(r)] \in Opening, pc' = [pc EXCEPT ![Lead(r)] = "window"],
         UNCHANGED <<setup, now, list, late, bufs, upper, spec>>,
         todo'[Lead(r)] = parts[Lead(r)],
         \A o \in Procs : o # Lead(r) => /\ todo'[o] = todo[o] /\ horizon'[o] = horizon[o]
                                         /\ queue'[o] = queue[o],
         Onward(T, queue[Lead(r)], queue'[Lead(r)]),
         Opens(T, queue'[Lead(r)], horizon'[Lead(r)], Lead(r), Answered(r))
  PROVE  TimeAt(T)'
<1> DEFINE l == Lead(r)
<1>1. /\ Procs' = Procs /\ Ranks' = Ranks /\ Leads' = Leads /\ \A s : Rank(s)' = Rank(s)
      /\ parts' = parts /\ home' = home /\ \A o : Children(o)' = Children(o)
      /\ now' = now /\ list' = list /\ late' = late /\ buf' = buf /\ future' = future
      /\ upper' = upper /\ spec' = spec
  BY Frame DEF bufs
<1>2. /\ Lead(0) \in Leads /\ Leads \subseteq Procs /\ l \in Leads /\ l \in Procs /\ 0 \in Ranks
      /\ \A o \in Ranks : /\ Lead(o) \in Leads /\ Lead(o) \in Procs
                          /\ o # r => Lead(o) # l
                          /\ \A c \in Children(o) : c \in Procs /\ c \notin Leads /\ c # l
      /\ \A s \in Sims : home[s] \in Procs /\ Lead(home[s][1]) \in Leads
      /\ pc \in [Procs -> Places]
  <2>1. SetupOK /\ pc \in [Procs -> Places]
    BY DEF TypeOK, PlacesTyped
  <2>2. Leads \subseteq Procs /\ 0 \in Ranks /\ \A o \in Ranks : Lead(o) \in Leads
    BY <2>1, LeadFacts
  <2>3. \A o \in Ranks : o # r => Lead(o) # l
    BY <2>1, LeadFacts
  <2>4. l \in Leads
    BY <2>2
  <2>5. \A o \in Ranks : \A c \in Children(o) : c \in Procs /\ c \notin Leads
    BY <2>1, LeadFacts
  <2>6. \A s \in Sims : home[s] \in Procs /\ Lead(home[s][1]) \in Leads
    BY <2>1, LeadFacts DEF SetupOK
  <2> HIDE DEF l
  <2> QED BY <2>1, <2>2, <2>3, <2>4, <2>5, <2>6
<1>3. pc'[l] = "window" /\ \A o \in Procs : o # l => pc'[o] = pc[o]
  BY <1>2
<1>4. \A o \in Leads : pc[o] \in Opening /\ pc'[o] \in Opening
  BY <1>2, <1>3, Phases DEF Opening
<1>5. TodoOK'
  <2>1. ASSUME NEW o \in Procs
        PROVE  /\ pc'[o] = "create" => \A s \in ToSet(todo'[o]) : Rank(s) = o[1]
               /\ pc'[o] = "window" => todo'[o] = parts[o]
               /\ pc'[o] = "run" => ToSet(todo'[o]) \subseteq ToSet(parts[o])
    <3>1. CASE o = l
      BY <1>3, <3>1
    <3>2. CASE o # l
      BY <1>3, <3>2 DEF TimeAt, TodoOK
    <3> QED BY <3>1, <3>2
  <2> QED BY <1>1, <2>1 DEF TodoOK
<1>6. FutureOK'
  <2>1. ASSUME NEW o \in Procs, o \notin Leads \/ pc'[o] \notin Running
        PROVE  \A x \in buf[o] : future[o] <= x.at
    <3>1. o \notin Leads \/ pc[o] \notin Running
      BY <1>4 DEF Opening, Running
    <3> QED BY <3>1 DEF TimeAt, FutureOK
  <2> QED BY <1>1, <2>1 DEF FutureOK
<1>7. ClocksOK(T)'
  <2>1. ASSUME NEW s \in Sims PROVE now[s] = T
    <3>1. pc[Lead(home[s][1])] \notin {"create"} \cup Running
      BY <1>2, <1>4 DEF Opening, Running
    <3> QED BY <3>1, Settled DEF TimeAt, ClocksOK
  <2>2. T <= T
    BY Numbers
  <2> QED BY <1>1, <2>1, <2>2 DEF ClocksOK
<1>8. LimitsOK(T)'
  <2>1. \A o \in Leads : /\ pc'[o] \notin {"create"} \cup Running
                         /\ T <= upper[o]
    BY <1>4 DEF TimeAt, LimitsOK, Opening, Running
  <2>2. pc'[Lead(0)] \notin Resting
    BY <1>2, <1>4 DEF Opening, Resting
  <2> QED BY <1>1, <2>1, <2>2 DEF LimitsOK
<1>9. EventsOK' /\ ~late'
  BY <1>1 DEF TimeAt, EventsOK
<1>10. NearOK(T)'
  <2>1. pc'[Lead(0)] \notin Running
    BY <1>2, <1>4 DEF Opening, Running
  <2> QED BY <2>1 DEF NearOK
<1>11. MailsOK(T)'
  <2>1. \A o \in Procs : T <= future'[o] /\ \A x \in buf'[o] : T <= x.at
    BY <1>1 DEF TimeAt, MailsOK
  <2>2. \A o \in Procs : Onward(T, queue[o], queue'[o])
    BY OnwardFacts
  <2> QED BY <2>1, <2>2, MailsKept DEF TimeAt
<1>12. WindowsOK(T)'
  <2>1. ASSUME NEW h, NEW o, Bound(h, o) PROVE Bound(h, o)'
    BY <1>1, <2>1 DEF Bound
  <2>2. \A o \in Ranks : Answered(o)' = Answered(o)
    <3>1. ASSUME NEW o \in Ranks, NEW c \in Children(o)
          PROVE  Replied(pc'[Lead(o)], pc'[c], queue'[c]) <=> Replied(pc[Lead(o)], pc[c], queue[c])
      <4>1. pc'[c] = pc[c] /\ queue'[c] = queue[c] /\ pc[Lead(o)] \in Opening /\ pc'[Lead(o)] \in Opening
        BY <1>2, <1>3, <1>4
      <4> QED BY <4>1 DEF Replied, Opening, Running
    <3> QED BY <1>1, <3>1 DEF Answered
  <2>3. WindowOK(T, r)'
    <3>1. \A c \in Answered(r) : \/ \E k \in DOMAIN queue'[l] : \E h : h = queue'[l][k].val /\ Bound(h, c)'
                                 \/ \E h : h = horizon'[l] /\ Bound(h, c)'
      <4>1. ASSUME NEW c \in Answered(r), NEW k \in DOMAIN queue'[l], Bound(queue'[l][k].val, c)
            PROVE  \E h : h = queue'[l][k].val /\ Bound(h, c)'
        <5>1. PICK h : h = queue'[l][k].val
          OBVIOUS
        <5> QED BY <2>1, <4>1, <5>1
      <4>2. ASSUME NEW c \in Answered(r), Bound(horizon'[l], c)
            PROVE  \E h : h = horizon'[l] /\ Bound(h, c)'
        <5>1. PICK h : h = horizon'[l]
          OBVIOUS
        <5> QED BY <2>1, <4>2, <5>1
      <4> QED BY <4>1, <4>2 DEF Opens
    <3>2. \E h : h = horizon'[l] /\ Bound(h, l)'
      <4>1. PICK h : h = horizon'[l]
        OBVIOUS
      <4>2. Bound(h, l)
        BY <4>1 DEF Opens
      <4> QED BY <2>1, <4>1, <4>2
    <3>3. T <= horizon'[l] /\ \A k \in DOMAIN queue'[l] : T <= queue'[l][k].val
      BY DEF Opens
    <3> QED BY <1>3, <2>2, <3>1, <3>2, <3>3 DEF WindowOK
  <2>4. ASSUME NEW o \in Ranks, o # r PROVE WindowOK(T, o)'
    <3>1. WindowOK(T, o)
      BY <1>2, <1>4 DEF TimeAt, WindowsOK
    <3>2. /\ pc'[Lead(o)] = pc[Lead(o)] /\ horizon'[Lead(o)] = horizon[Lead(o)]
          /\ queue'[Lead(o)] = queue[Lead(o)]
      BY <1>2, <1>3, <2>4
    <3>3. \A c \in Answered(o) :
            \/ \E k \in DOMAIN queue[Lead(o)] : Bound(queue[Lead(o)][k].val, c)'
            \/ pc[Lead(o)] = "window" /\ Bound(horizon[Lead(o)], c)'
      BY <2>1, <3>1, <3>2 DEF WindowOK
    <3>4. pc'[Lead(o)] = "window" => T <= horizon'[Lead(o)] /\ Bound(horizon[Lead(o)], Lead(o))'
      BY <2>1, <3>1, <3>2 DEF WindowOK
    <3> QED BY <2>2, <3>1, <3>2, <3>3, <3>4 DEF WindowOK
  <2> QED BY <1>1, <2>3, <2>4 DEF WindowsOK
<1> QED BY <1>5, <1>6, <1>7, <1>8, <1>9, <1>10, <1>11, <1>12 DEF TimeAt

LEMMA OpenTimes ==
  ASSUME TypeOK, Control, NEW T \in Limits, TimeAt(T), NEW r \in Ranks, Peek(Lead(r)) \/ Gather(r)
  PROVE  TimeAt(T)'
<1> DEFINE l == Lead(r)
<1>1. /\ l \in Procs /\ l \in Leads /\ l[1] = r
      /\ pc \in [Procs -> Places] /\ queue \in [Procs -> Seq(Entries)]
      /\ horizon \in [Procs -> Limits] /\ todo \in [Procs -> Seq(Sims)]
      /\ \A c \in Answered(r) : c \in Procs
  <2>1. l \in Procs /\ l \in Leads /\ l[1] = r /\ \A c \in Children(r) : c \in Procs
    BY LeadFacts DEF TypeOK
  <2> QED BY <2>1 DEF TypeOK, PlacesTyped, ChansTyped, WindowTyped, Answered
<1>2. CASE Peek(l)
  <2> DEFINE w == Window(l)
  <2>1. /\ pc[l] = "peek" /\ pc' = [pc EXCEPT ![l] = "window"]
        /\ queue' = Report(l, "horizon", w)
        /\ UNCHANGED <<setup, now, list, late, bufs, upper, spec>>
        /\ todo' = [todo EXCEPT ![l] = parts[l]] /\ horizon' = [horizon EXCEPT ![l] = w]
    BY <1>2 DEF Peek, sims, args
  <2>2. T <= w /\ Bound(w, l)
    BY <1>1, <2>1, PeekBound DEF Opening
  <2> HIDE DEF w
  <2>3. queue' = queue
    BY <1>1, <2>1 DEF Report
  <2>4. WindowOK(T, r)
    BY <1>1, <2>1 DEF TimeAt, WindowsOK, Opening
  <2>5. horizon'[l] = w /\ todo'[l] = parts[l]
    BY <1>1, <2>1
  <2>6. Opens(T, queue'[l], horizon'[l], l, Answered(r))
    <3>1. /\ \A k \in DOMAIN queue[l] : T <= queue[l][k].val
          /\ \A c \in Answered(r) : \E k \in DOMAIN queue[l] : Bound(queue[l][k].val, c)
      BY <2>1, <2>4 DEF WindowOK
    <3> QED BY <2>2, <2>3, <2>5, <3>1 DEF Opens
  <2> QED BY <1>1, <2>1, <2>3, <2>5, <2>6, OnwardFacts, OpenTime DEF Opening
<1>3. CASE Gather(r)
  <2> DEFINE q == queue[l]
             v == Head(q).val
             h == Min({horizon[l], v})
  <2>1. /\ pc[l] = "window" /\ q # <<>>
        /\ horizon' = [horizon EXCEPT ![l] = h] /\ queue' = [queue EXCEPT ![l] = Tail(q)]
        /\ UNCHANGED <<setup, now, list, late, bufs, upper, spec>> /\ pc' = pc /\ todo' = todo
    BY <1>1, <1>3 DEF Gather, sims, args
  <2>2. q \in Seq(Entries) /\ Head(q) = q[1] /\ 1 \in DOMAIN q
        /\ \A k \in DOMAIN q : q[k].kind = "horizon"
    <3>1. TallyOK(r)
      BY DEF Control
    <3>2. \A k \in DOMAIN q : q[k].kind = "horizon"
      <4>1. Reply(pc[l]) = "horizon"
        BY <2>1 DEF Reply, Opening, Running
      <4> QED BY <3>1, <4>1 DEF TallyOK, Tally
    <3> QED BY <1>1, <2>1, <3>2
  <2>3. WindowOK(T, r)
    BY <1>1, <2>1 DEF TimeAt, WindowsOK, Opening
  <2>4. horizon[l] \in Limits /\ v \in Limits /\ \A k \in DOMAIN q : q[k].val \in Limits
    <3>1. \A k \in DOMAIN q : q[k] \in Entries
      BY <2>2
    <3> QED BY <1>1, <2>2, <3>1, EntryProps
  <2>5. h \in {horizon[l], v} /\ h \in Limits /\ h <= horizon[l] /\ h <= v
    <3>1. horizon[l] \in Int /\ v \in Int
      BY <2>4, Numbers
    <3>2. Min({horizon[l], v}) = IF horizon[l] <= v THEN horizon[l] ELSE v
      BY <3>1, MinPair
    <3> QED BY <2>4, <3>1, <3>2
  <2>6. T <= h
    BY <2>1, <2>2, <2>3, <2>5 DEF WindowOK
  <2>7. Bound(h, l)
    <3>1. Bound(horizon[l], l)
      BY <2>1, <2>3 DEF WindowOK
    <3> HIDE DEF h
    <3> QED BY <1>1, <2>4, <2>5, <3>1, BoundLess
  <2>8. /\ \A k \in DOMAIN Tail(q) : k + 1 \in DOMAIN q /\ Tail(q)[k] = q[k + 1]
        /\ \A k \in DOMAIN q : k # 1 => k - 1 \in DOMAIN Tail(q) /\ Tail(q)[k - 1] = q[k]
    BY <2>1, <2>2
  <2>9. ASSUME NEW c \in Answered(r)
        PROVE  (\E k \in DOMAIN Tail(q) : Bound(Tail(q)[k].val, c)) \/ Bound(h, c)
    <3>1. c \in Procs
      BY <1>1
    <3> HIDE DEF h
    <3>2. CASE Bound(horizon[l], c)
      BY <2>4, <2>5, <3>1, <3>2, BoundLess
    <3>3. ASSUME NEW k \in DOMAIN q, Bound(q[k].val, c)
          PROVE  (\E j \in DOMAIN Tail(q) : Bound(Tail(q)[j].val, c)) \/ Bound(h, c)
      <4>1. CASE k = 1
        <5>1. Bound(v, c)
          BY <2>2, <3>3, <4>1
        <5> HIDE DEF v
        <5> QED BY <2>4, <2>5, <3>1, <5>1, BoundLess
      <4>2. CASE k # 1
        BY <2>8, <3>3, <4>2
      <4> QED BY <4>1, <4>2
    <3> QED BY <2>3, <3>2, <3>3 DEF WindowOK
  <2>10. horizon'[l] = h /\ queue'[l] = Tail(q)
    BY <1>1, <2>1
  <2>11. \A k \in DOMAIN Tail(q) : T <= Tail(q)[k].val
    BY <2>3, <2>8 DEF WindowOK
  <2>12. Opens(T, queue'[l], horizon'[l], l, Answered(r))
    <3> HIDE DEF h, q
    <3> QED BY <2>6, <2>7, <2>9, <2>10, <2>11 DEF Opens
  <2>13. todo'[l] = parts[l]
    BY <1>1, <2>1 DEF TimeAt, TodoOK
  <2>14. Onward(T, queue[l], queue'[l])
    BY <2>1, <2>10, OnwardFacts
  <2>15. pc' = [pc EXCEPT ![l] = "window"]
    BY <1>1, <2>1
  <2>16. \A o \in Procs : o # l => /\ todo'[o] = todo[o] /\ horizon'[o] = horizon[o]
                                   /\ queue'[o] = queue[o]
    BY <1>1, <2>1
  <2> HIDE DEF h, v, q
  <2> QED BY <2>1, <2>12, <2>13, <2>14, <2>15, <2>16, OpenTime DEF Opening
<1> QED BY <1>2, <1>3

\* Process 0 of a rank comes to the end of the window, and is handed messages.
LEMMA RunTimes ==
  ASSUME TypeOK, Control, NEW T \in Limits, TimeAt(T), NEW r \in Ranks, HandOver(Lead(r)) \/ Collect(r)
  PROVE  TimeAt(T)'
<1> DEFINE l == Lead(r)
<1>1. /\ l \in Procs /\ l \in Leads /\ l[1] = r
      /\ pc \in [Procs -> Places] /\ queue \in [Procs -> Seq(Entries)]
      /\ buf \in [Procs -> SUBSET Mails]
      /\ Lead(0) \in Leads /\ Leads \subseteq Procs /\ \A o \in Ranks : Lead(o) \in Leads
      /\ \A s \in Sims : home[s] \in Procs /\ Lead(home[s][1]) \in Leads
  <2>1. /\ l \in Procs /\ l \in Leads /\ l[1] = r
        /\ Lead(0) \in Leads /\ Leads \subseteq Procs /\ \A o \in Ranks : Lead(o) \in Leads
        /\ \A s \in Sims : home[s] \in Procs /\ Lead(home[s][1]) \in Leads
    BY LeadFacts DEF TypeOK, SetupOK
  <2> QED BY <2>1 DEF TypeOK, PlacesTyped, ChansTyped, BufsTyped
<1>2. ASSUME pc[l] \in Running, pc[l] = "run" => todo[l] = <<>>, pc' = [pc EXCEPT ![l] = "exchange"],
             UNCHANGED <<setup, now, list, late, future, todo, horizon, upper, spec>>,
             \A o \in Procs : o # l => buf'[o] = buf[o],
             \A x \in buf'[l] : T <= x.at,
             \A o \in Procs : Onward(T, queue[o], queue'[o])
      PROVE  TimeAt(T)'
  <2>1. /\ Procs' = Procs /\ Ranks' = Ranks /\ Leads' = Leads /\ \A s : Rank(s)' = Rank(s)
        /\ parts' = parts /\ home' = home
        /\ now' = now /\ list' = list /\ late' = late /\ future' = future
        /\ todo' = todo /\ horizon' = horizon /\ upper' = upper /\ spec' = spec
    BY <1>2, Frame
  <2>2. pc'[l] = "exchange" /\ \A o \in Procs : o # l => pc'[o] = pc[o]
    BY <1>1, <1>2
  <2>3. \A o \in Leads : pc[o] \in Running /\ pc'[o] \in Running
    BY <1>1, <1>2, <2>2, Phases DEF Running
  <2>4. TodoOK'
    <3>1. ASSUME NEW o \in Procs
          PROVE  /\ pc'[o] = "create" => \A s \in ToSet(todo[o]) : Rank(s) = o[1]
                 /\ pc'[o] = "window" => todo[o] = parts[o]
                 /\ pc'[o] = "run" => ToSet(todo[o]) \subseteq ToSet(parts[o])
      <4>1. CASE o = l
        BY <2>2, <4>1
      <4>2. CASE o # l
        BY <2>2, <4>2 DEF TimeAt, TodoOK
      <4> QED BY <4>1, <4>2
    <3> QED BY <2>1, <3>1 DEF TodoOK
  <2>5. FutureOK'
    <3>1. ASSUME NEW o \in Procs, o \notin Leads \/ pc'[o] \notin Running
          PROVE  \A x \in buf'[o] : future[o] <= x.at
      <4>1. o \notin Leads
        BY <2>3, <3>1
      <4> QED BY <1>1, <1>2, <4>1 DEF TimeAt, FutureOK
    <3> QED BY <2>1, <3>1 DEF FutureOK
  <2>6. ClocksOK(T)'
    <3>1. ASSUME NEW s \in Sims, Behind(s) PROVE Behind(s)'
      <4>1. pc[Lead(home[s][1])] \in Running /\ pc'[Lead(home[s][1])] \in Running
        BY <1>1, <2>3
      <4>2. home[s] # l
        <5>1. ASSUME home[s] = l PROVE FALSE
          <6>1. pc[l] = "run" /\ s \in ToSet(todo[l])
            BY <1>2, <3>1, <4>1, <5>1 DEF Behind, Running
          <6>2. ToSet(<<>>) = {}
            BY DEF ToSet
          <6> QED BY <1>2, <6>1, <6>2
        <5> QED BY <5>1
      <4>3. pc'[home[s]] = pc[home[s]]
        BY <1>1, <2>2, <4>2
      <4> QED BY <2>1, <3>1, <4>1, <4>3 DEF Behind, Running
    <3> QED BY <2>1, <3>1 DEF TimeAt, ClocksOK
  <2>7. LimitsOK(T)'
    <3>1. \A o \in Leads : horizon[o] = T /\ T <= upper[o]
      BY <2>3 DEF TimeAt, LimitsOK
    <3>2. pc'[Lead(0)] \notin Resting
      BY <1>1, <2>3 DEF Resting, Running
    <3> QED BY <2>1, <3>1, <3>2 DEF LimitsOK
  <2>8. EventsOK' /\ ~late'
    BY <2>1 DEF TimeAt, EventsOK
  <2>9. NearOK(T)'
    <3>1. pc[Lead(0)] \in Running
      BY <1>1, <2>3
    <3> QED BY <2>1, <3>1 DEF TimeAt, NearOK
  <2>10. MailsOK(T)'
    <3>1. \A o \in Procs : T <= future'[o] /\ \A x \in buf'[o] : T <= x.at
      BY <1>2, <2>1 DEF TimeAt, MailsOK
    <3> QED BY <1>2, <3>1, MailsKept DEF TimeAt
  <2>11. WindowsOK(T)'
    <3>1. \A o \in Ranks : pc'[Lead(o)] \notin Opening
      BY <1>1, <2>3 DEF Opening, Running
    <3> QED BY <2>1, <3>1 DEF WindowsOK
  <2> QED BY <2>4, <2>5, <2>6, <2>7, <2>8, <2>9, <2>10, <2>11 DEF TimeAt
<1>3. CASE HandOver(l)
  <2>1. /\ pc[l] = "run" /\ todo[l] = <<>> /\ pc' = [pc EXCEPT ![l] = "exchange"]
        /\ queue' = Report(l, "sent", buf[l])
        /\ UNCHANGED <<setup, now, list, late, future, todo, horizon, upper, spec>> /\ buf' = buf
    BY <1>3 DEF HandOver, sims, bufs, args, window
  <2>2. queue' = queue
    BY <1>1, <2>1 DEF Report
  <2>3. \A x \in buf'[l] : T <= x.at
    BY <1>1, <2>1 DEF TimeAt, MailsOK
  <2>4. \A o \in Procs : Onward(T, queue[o], queue'[o])
    BY <2>2, OnwardFacts
  <2> QED BY <1>2, <2>1, <2>3, <2>4 DEF Running
<1>4. CASE Collect(r)
  <2>1. /\ pc[l] = "exchange" /\ pc' = pc /\ queue[l] # <<>>
        /\ buf' = [buf EXCEPT ![l] = @ \cup Head(queue[l]).val]
        /\ queue' = [queue EXCEPT ![l] = Tail(@)]
        /\ UNCHANGED <<setup, now, list, late, future, todo, horizon, upper, spec>>
    BY <1>4 DEF Collect, sims, args, window
  <2>2. Head(queue[l]) = queue[l][1] /\ 1 \in DOMAIN queue[l]
    BY <1>1, <2>1
  <2>3. Head(queue[l]).kind = "sent"
    BY <1>1, <2>1, InStep DEF QueuesInStep, Expected
  <2>4. \A x \in Head(queue[l]).val : T <= x.at
    BY <1>1, <2>2, <2>3 DEF TimeAt, MailsOK
  <2>5. \A x \in buf[l] : T <= x.at
    BY <1>1 DEF TimeAt, MailsOK
  <2>6. buf'[l] = buf[l] \cup Head(queue[l]).val /\ \A o \in Procs : o # l => buf'[o] = buf[o]
    BY <1>1, <2>1
  <2>7. \A x \in buf'[l] : T <= x.at
    BY <2>4, <2>5, <2>6
  <2>8. \A o \in Procs : Onward(T, queue[o], queue'[o])
    BY <1>1, <2>1, OnwardFacts
  <2>9. pc' = [pc EXCEPT ![l] = "exchange"]
    BY <1>1, <2>1
  <2> QED BY <1>2, <2>1, <2>6, <2>7, <2>8, <2>9 DEF Running
<1> QED BY <1>3, <1>4

\* All ranks turn to something else between two windows.
LEMMA TurnTime ==
  ASSUME TypeOK, Control, NEW T \in Limits, TimeAt(T), UNCHANGED <<setup, now, todo>>, late' => late,
         \A s \in Sims : ~Behind(s),
         \A l \in Leads : pc'[l] \in {"main", "listen", "peek"},
         \A l \in Leads : pc'[l] = "peek" => T <= upper'[l],
         \A p \in Procs : p \notin Leads => pc'[p] \in {pc[p], "start"},
         pc'[Lead(0)] \in {"main", "listen"} /\ spec'[Lead(0)] => T = upper'[Lead(0)],
         \A s \in Sims : \A i \in DOMAIN list'[s] :
           (i \in DOMAIN list[s] /\ list'[s][i] = list[s][i]) \/ T <= list'[s][i],
         \A p \in Procs : T <= future'[p] /\ \A x \in buf'[p] : future'[p] <= x.at /\ T <= x.at,
         \A p \in Procs : Onward(T, queue[p], queue'[p]),
         \A r \in Ranks : pc'[Lead(r)] = "peek" =>
           /\ queue'[Lead(r)] = <<>>
           /\ \A c \in Children(r) : ~Replied("peek", pc'[c], queue'[c])
  PROVE  TimeAt(T)'
<1>1. /\ Procs' = Procs /\ Ranks' = Ranks /\ Leads' = Leads /\ \A s : Rank(s)' = Rank(s)
      /\ parts' = parts /\ home' = home /\ \A o : Children(o)' = Children(o)
      /\ now' = now /\ todo' = todo
      /\ Lead(0) \in Leads /\ Leads \subseteq Procs /\ \A o \in Ranks : Lead(o) \in Leads
  BY Frame, LeadFacts DEF TypeOK
<1>2. TodoOK'
  <2>1. ASSUME NEW o \in Procs
        PROVE  /\ pc'[o] = "create" => \A s \in ToSet(todo[o]) : Rank(s) = o[1]
               /\ pc'[o] = "window" => todo[o] = parts[o]
               /\ pc'[o] = "run" => ToSet(todo[o]) \subseteq ToSet(parts[o])
    <3>1. CASE o \in Leads
      BY <3>1
    <3>2. CASE o \notin Leads
      BY <3>2 DEF TimeAt, TodoOK
    <3> QED BY <3>1, <3>2
  <2> QED BY <1>1, <2>1 DEF TodoOK
<1>3. FutureOK'
  BY <1>1 DEF FutureOK
<1>4. \A s \in Sims : now[s] = T
  BY DEF TimeAt, ClocksOK
<1>5. ClocksOK(T)'
  <2>1. T <= T
    BY Numbers
  <2> QED BY <1>1, <1>4, <2>1 DEF ClocksOK
<1>6. LimitsOK(T)'
  <2>1. \A l \in Leads : pc'[l] \notin {"create", "agree"} \cup Running /\ (pc'[l] \in Opening => pc'[l] = "peek")
    BY DEF Opening, Running
  <2>2. pc'[Lead(0)] \in Resting => pc'[Lead(0)] \in {"main", "listen"}
    BY <1>1 DEF Resting
  <2> QED BY <1>1, <2>1, <2>2 DEF LimitsOK
<1>7. EventsOK' /\ ~late'
  <2>1. T <= T
    BY Numbers
  <2> QED BY <1>1, <1>4, <2>1 DEF TimeAt, EventsOK
<1>8. NearOK(T)'
  <2>1. pc'[Lead(0)] \notin Running
    BY <1>1 DEF Running
  <2> QED BY <2>1 DEF NearOK
<1>9. MailsOK(T)'
  BY MailsKept DEF TimeAt
<1>10. WindowsOK(T)'
  <2>1. ASSUME NEW r \in Ranks, pc'[Lead(r)] \in Opening PROVE WindowOK(T, r)'
    <3>1. pc'[Lead(r)] = "peek"
      BY <1>1, <2>1 DEF Opening
    <3>2. queue'[Lead(r)] = <<>> /\ Answered(r)' = {}
      BY <1>1, <3>1 DEF Answered
    <3> QED BY <3>1, <3>2 DEF WindowOK
  <2> QED BY <1>1, <2>1 DEF WindowsOK
<1> QED BY <1>2, <1>3, <1>5, <1>6, <1>7, <1>8, <1>9, <1>10 DEF TimeAt

LEMMA AgreeTime ==
  ASSUME TypeOK, Control, NEW T \in Limits, TimeAt(T), Agree
  PROVE  TimeAt(T)'
<1> DEFINE u == Min({upper[p] : p \in Leads})
           given == \E p \in Leads : spec[p]
           born == {p \in Procs : pc[p] = "unborn"}
<1>1. /\ \A p \in Leads : pc[p] = "agree"
      /\ upper' = [p \in Procs |-> IF p \in Leads THEN u ELSE upper[p]]
      /\ queue' = Instruct(Ranks, "run", [p \in Procs |-> <<u, given>>])
      /\ pc' = [p \in Procs |-> CASE p \in Leads -> "peek"
                                  [] p \in born -> "start"
                                  [] OTHER -> pc[p]]
      /\ buf' = [p \in Procs |-> IF p \in born THEN buf[Lead(p[1])] ELSE buf[p]]
      /\ future' = [p \in Procs |-> IF p \in born THEN future[Lead(p[1])] ELSE future[p]]
      /\ UNCHANGED <<setup, now, todo, list, late>>
  BY DEF Agree, window, sims
<1>2. u \in Limits /\ given \in BOOLEAN /\ T <= u
  <2>1. \A l \in Leads : T <= upper[l]
    BY <1>1 DEF TimeAt, LimitsOK
  <2> QED BY <2>1, LeastProps DEF TypeOK, ArgsTyped
<1> HIDE DEF u, given
<1>3. /\ Lead(0) \in Leads /\ Leads \subseteq Procs
      /\ \A o \in Ranks : Lead(o) \in Leads /\ Lead(o) \in Procs
      /\ \A o \in Ranks : \A c \in Children(o) : c \in Procs /\ c[1] = o /\ c \notin Leads
      /\ \A p \in Procs : p[1] \in Ranks /\ Lead(p[1]) \in Leads
      /\ \A s \in Sims : home[s] \in Procs
      /\ queue \in [Procs -> Seq(Entries)]
  BY LeadFacts DEF TypeOK, SetupOK, ChansTyped
<1>4. \A s \in Sims : ~Behind(s)
  <2>1. ASSUME NEW s \in Sims PROVE pc[Lead(home[s][1])] \notin {"create"} \cup Running
    BY <1>1, <1>3 DEF Running
  <2> QED BY <2>1, Settled
<1>5. \A l \in Leads : pc'[l] = "peek" /\ upper'[l] = u
  BY <1>1, <1>3
<1>6. \A p \in Procs : p \notin Leads => pc'[p] \in {pc[p], "start"}
  BY <1>1
<1>7. \A p \in Procs : T <= future'[p] /\ \A x \in buf'[p] : future'[p] <= x.at /\ T <= x.at
  <2>1. ASSUME NEW p \in Procs PROVE T <= future[p] /\ \A x \in buf[p] : future[p] <= x.at /\ T <= x.at
    <3>1. p \notin Leads \/ pc[p] \notin Running
      BY <1>1 DEF Running
    <3> QED BY <3>1 DEF TimeAt, FutureOK, MailsOK
  <2>2. ASSUME NEW p \in Procs
        PROVE  \E q \in Procs : buf'[p] = buf[q] /\ future'[p] = future[q]
    <3>1. Lead(p[1]) \in Procs
      BY <1>3
    <3> QED BY <1>1, <3>1
  <2> QED BY <2>1, <2>2
<1>8. Entry("run", <<u, given>>) \in Entries
  BY <1>2, EntryProps
<1>9. ASSUME NEW p \in Procs
      PROVE  queue'[p] = IF p \in Leads THEN queue[p] ELSE Append(queue[p], Entry("run", <<u, given>>))
  BY <1>1, <1>3 DEF Instruct
<1>10. \A p \in Procs : Onward(T, queue[p], queue'[p])
  BY <1>8, <1>9, OnwardFacts
<1>11. ASSUME NEW r \in Ranks
       PROVE  /\ queue'[Lead(r)] = <<>>
              /\ \A c \in Children(r) : ~Replied("peek", pc'[c], queue'[c])
  <2>1. queue[Lead(r)] = <<>>
    BY <1>1, <1>3, NoneAnswered DEF Resting
  <2>2. queue'[Lead(r)] = <<>>
    BY <1>3, <1>9, <2>1
  <2>3. \A c \in Children(r) : queue'[c] # <<>>
    <3>1. ASSUME NEW c \in Children(r) PROVE queue'[c] # <<>>
      <4>1. c \in Procs /\ c \notin Leads /\ queue[c] \in Seq(Entries)
        BY <1>3
      <4>2. queue'[c] = Append(queue[c], Entry("run", <<u, given>>))
        BY <1>9, <4>1
      <4> QED BY <1>8, <4>1, <4>2, QueueFacts
    <3> QED BY <3>1
  <2> QED BY <2>2, <2>3 DEF Replied, Opening, Running
<1>12. \A s \in Sims : \A i \in DOMAIN list'[s] : i \in DOMAIN list[s] /\ list'[s][i] = list[s][i]
  BY <1>1
<1>13. \A l \in Leads : pc'[l] \in {"main", "listen", "peek"}
  BY <1>5
<1>18. \A l \in Leads : pc'[l] = "peek" => T <= upper'[l]
  BY <1>2, <1>5
<1>14. UNCHANGED <<setup, now, todo, late>>
  BY <1>1
<1>15. \A r \in Ranks : pc'[Lead(r)] = "peek" =>
         /\ queue'[Lead(r)] = <<>>
         /\ \A c \in Children(r) : ~Replied("peek", pc'[c], queue'[c])
  BY <1>11
<1>16. \A s \in Sims : \A i \in DOMAIN list'[s] :
         (i \in DOMAIN list[s] /\ list'[s][i] = list[s][i]) \/ T <= list'[s][i]
  BY <1>12
<1>17. pc'[Lead(0)] \in {"main", "listen"} /\ spec'[Lead(0)] => T = upper'[Lead(0)]
  BY <1>3, <1>5
<1> HIDE DEF born
<1> QED BY <1>4, <1>6, <1>7, <1>10, <1>13, <1>14, <1>15, <1>16, <1>17,
            <1>18, TurnTime

LEMMA AnnounceTime ==
  ASSUME TypeOK, Control, NEW T \in Limits, TimeAt(T), Announce
  PROVE  \E U \in Limits : TimeAt(U)'
<1> DEFINE h == Min({horizon[p] : p \in Leads})
           g == spec[Lead(0)]
<1>1. /\ Complete("window")
      /\ horizon' = [p \in Procs |-> IF p \in Leads THEN h ELSE horizon[p]]
      /\ pc' = [p \in Procs |-> IF p \in Leads THEN Opened(p, h) ELSE pc[p]]
      /\ queue' = Instruct(Ranks, "horizon", [p \in Procs |-> h])
      /\ UNCHANGED <<setup, now, list, late, buf, future, todo, upper, spec>>
  BY DEF Announce, sims, bufs, args
<1>2. /\ Lead(0) \in Leads /\ Leads \subseteq Procs
      /\ \A o \in Ranks : Lead(o) \in Leads /\ Lead(o) \in Procs
      /\ \A l \in Leads : l[1] \in Ranks /\ l = Lead(l[1])
      /\ \A o \in Ranks : \A c \in Children(o) : c \in Procs /\ c[1] = o /\ c \notin Leads
      /\ \A p \in Procs : p \notin Leads => p[1] \in Ranks /\ p \in Children(p[1])
      /\ \A s \in Sims : home[s] \in Procs /\ Lead(home[s][1]) \in Leads
      /\ \A p \in Procs, s \in Sims : s \in ToSet(parts[p]) <=> home[s] = p
      /\ queue \in [Procs -> Seq(Entries)]
  BY LeadFacts DEF TypeOK, SetupOK, ChansTyped
<1>3. \A l \in Leads : pc[l] = "window" /\ spec[l] = g
  <2>1. \A r \in Ranks : pc[Lead(r)] = "window"
    BY <1>1 DEF Complete
  <2>2. \A l \in Leads : pc[l] = "window"
    BY <1>2, <2>1
  <2> QED BY <1>2, <2>2, Phases DEF Opening
<1>4. \A r \in Ranks : /\ queue[Lead(r)] = <<>>
                       /\ \A c \in Children(r) : pc[c] = "window" /\ queue[c] = <<>> /\ c \in Answered(r)
  <2>1. ASSUME NEW r \in Ranks
        PROVE  /\ queue[Lead(r)] = <<>>
               /\ \A c \in Children(r) : Replied("window", pc[c], queue[c])
    BY <1>1, AllAnswered DEF Collecting
  <2>2. \A p, q : Replied("window", p, q) => p = "window" /\ q = <<>>
    BY DEF Replied, Opening, Running
  <2> QED BY <1>2, <1>3, <2>1, <2>2 DEF Answered
<1>5. /\ h \in Limits /\ T <= h /\ \A l \in Leads : h <= horizon[l]
  <2>1. \A l \in Leads : T <= horizon[l]
    BY <1>2, <1>3 DEF TimeAt, WindowsOK, WindowOK, Opening
  <2> QED BY <2>1, LeastProps DEF TypeOK, WindowTyped
<1> HIDE DEF h
<1>6. \A l \in Leads : horizon'[l] = h /\ pc'[l] = IF h = Inf /\ ~g THEN Over(l) ELSE "run"
  BY <1>1, <1>2, <1>3 DEF Opened
<1>7. \A p \in Procs : p \notin Leads => pc'[p] = pc[p]
  BY <1>1
<1>8. \A p \in Procs : queue'[p] = IF p \in Leads THEN queue[p] ELSE Append(queue[p], Entry("horizon", h))
  BY <1>1, <1>2 DEF Instruct
<1>9. Entry("horizon", h) \in Entries
  BY <1>5, EntryProps
<1>10. \A s \in Sims : ~Behind(s)
  <2>1. ASSUME NEW s \in Sims PROVE pc[Lead(home[s][1])] \notin {"create"} \cup Running
    BY <1>2, <1>3 DEF Running
  <2> QED BY <2>1, Settled
<1>11. \A p \in Procs : T <= future[p] /\ \A x \in buf[p] : future[p] <= x.at /\ T <= x.at
  <2>1. \A p \in Procs : p \notin Leads \/ pc[p] \notin Running
    BY <1>3 DEF Running
  <2> QED BY <2>1 DEF TimeAt, FutureOK, MailsOK
<1>12. CASE h = Inf /\ ~g
  <2>1. \A l \in Leads : pc'[l] \in {"main", "listen"}
    BY <1>6, <1>12 DEF Over
  <2>2. \A p \in Procs : Onward(T, queue[p], queue'[p])
    BY <1>8, <1>9, OnwardFacts
  <2>3. ~spec'[Lead(0)]
    BY <1>1, <1>12
  <2>4. \A s \in Sims : \A i \in DOMAIN list'[s] : i \in DOMAIN list[s] /\ list'[s][i] = list[s][i]
    BY <1>1
  <2>5. /\ \A l \in Leads : pc'[l] \in {"main", "listen", "peek"}
        /\ \A l \in Leads : pc'[l] = "peek" => T <= upper'[l]
        /\ \A p \in Procs : p \notin Leads => pc'[p] \in {pc[p], "start"}
        /\ \A r \in Ranks : pc'[Lead(r)] # "peek"
    BY <1>2, <1>7, <2>1
  <2>6. \A p \in Procs : T <= future'[p] /\ \A x \in buf'[p] : future'[p] <= x.at /\ T <= x.at
    BY <1>1, <1>11
  <2>7. TimeAt(T)'
    BY <1>1, <1>10, <2>2, <2>3, <2>4, <2>5, <2>6, TurnTime
  <2> QED BY <2>7
<1>13. ASSUME ~(h = Inf /\ ~g), NEW H \in Limits, H = h PROVE TimeAt(H)'
  <2>1. \A l \in Leads : pc'[l] = "run" /\ horizon'[l] = H
    BY <1>6, <1>13
  <2>12. /\ T <= H /\ \A l \in Leads : H <= horizon[l]
         /\ \A p \in Procs : queue'[p] = IF p \in Leads THEN queue[p] ELSE Append(queue[p], Entry("horizon", H))
         /\ Entry("horizon", H) \in Entries
    BY <1>5, <1>8, <1>9, <1>13
  <2>2. /\ Procs' = Procs /\ Ranks' = Ranks /\ Leads' = Leads /\ \A s : Rank(s)' = Rank(s)
        /\ parts' = parts /\ home' = home
        /\ now' = now /\ list' = list /\ late' = late /\ buf' = buf /\ future' = future
        /\ todo' = todo /\ upper' = upper /\ spec' = spec
    BY <1>1, Frame
  \* The window is safe for all processes.
  <2>3. ASSUME NEW p \in Procs PROVE Bound(H, p)
    <3> DEFINE l == Lead(p[1])
    <3>1. l \in Leads /\ p[1] \in Ranks
      BY <1>2, LeadFacts DEF TypeOK
    <3>2. WindowOK(T, p[1])
      BY <1>3, <3>1 DEF TimeAt, WindowsOK, Opening
    <3>3. Bound(horizon[l], p)
      <4>1. CASE p \in Leads
        BY <1>2, <1>3, <3>1, <3>2, <4>1 DEF WindowOK
      <4>2. CASE p \notin Leads
        BY <1>2, <1>4, <3>1, <3>2, <4>2 DEF WindowOK
      <4> QED BY <4>1, <4>2
    <3>4. horizon[l] \in Limits /\ H <= horizon[l]
      BY <1>2, <2>12, <3>1 DEF TypeOK, WindowTyped
    <3> QED BY <2>12, <3>3, <3>4, BoundLess
  <2>4. TodoOK'
    <3>1. ASSUME NEW p \in Procs
          PROVE  /\ pc'[p] = "create" => \A s \in ToSet(todo[p]) : Rank(s) = p[1]
                 /\ pc'[p] = "window" => todo[p] = parts[p]
                 /\ pc'[p] = "run" => ToSet(todo[p]) \subseteq ToSet(parts[p])
      <4>1. CASE p \in Leads
        <5>1. todo[p] = parts[p]
          BY <1>3, <4>1 DEF TimeAt, TodoOK
        <5> QED BY <2>1, <4>1, <5>1
      <4>2. CASE p \notin Leads
        BY <1>7, <4>2 DEF TimeAt, TodoOK
      <4> QED BY <4>1, <4>2
    <3> QED BY <2>2, <3>1 DEF TodoOK
  <2>5. FutureOK'
    BY <1>11, <2>2 DEF FutureOK
  <2>6. ClocksOK(H)'
    <3>1. ASSUME NEW s \in Sims PROVE now[s] <= H
      BY <2>12, <1>10 DEF TimeAt, ClocksOK
    <3>2. ASSUME NEW s \in Sims PROVE Behind(s)'
      <4> DEFINE p == home[s]
      <4>1. p \in Procs /\ pc'[Lead(p[1])] \in Running /\ s \in ToSet(parts[p])
        BY <1>2, <2>1 DEF Running
      <4>2. CASE p \in Leads
        <5>1. pc'[p] = "run" /\ todo[p] = parts[p]
          BY <1>3, <2>1, <4>1, <4>2 DEF TimeAt, TodoOK
        <5> QED BY <2>2, <4>1, <5>1 DEF Behind
      <4>3. CASE p \notin Leads
        <5>1. pc'[p] = "window"
          BY <1>2, <1>4, <1>7, <4>1, <4>3
        <5> QED BY <2>2, <4>1, <5>1 DEF Behind
      <4> QED BY <4>2, <4>3
    <3> QED BY <2>2, <3>1, <3>2 DEF ClocksOK
  <2>7. LimitsOK(H)'
    <3>1. \A l \in Leads : horizon'[l] = H /\ H <= upper[l]
      BY <1>2, <2>1, <2>3 DEF Bound
    <3>2. pc'[Lead(0)] \notin Resting
      BY <1>2, <2>1 DEF Resting
    <3> QED BY <2>2, <3>1, <3>2 DEF LimitsOK
  <2>8. EventsOK' /\ ~late'
    BY <2>2 DEF TimeAt, EventsOK
  <2>9. NearOK(H)'
    <3>1. ASSUME NEW s \in Sims, NEW i \in DOMAIN list[s] PROVE H <= list[s][i] + Lookahead
      <4>1. home[s] \in Procs /\ s \in ToSet(parts[home[s]])
        BY <1>2
      <4>2. Bound(H, home[s])
        BY <2>3, <4>1
      <4> QED BY <4>1, <4>2 DEF Bound
    <3> QED BY <2>2, <3>1 DEF NearOK
  <2>10. MailsOK(H)'
    <3>1. ASSUME NEW p \in Procs
          PROVE  H <= future[p] /\ \A x \in buf[p] : H <= x.at
      <4>1. H <= future[p]
        BY <2>3 DEF Bound
      <4>2. ASSUME NEW x \in buf[p] PROVE H <= x.at
        <5>1. future[p] \in Int /\ x.at \in Int /\ H \in Int /\ future[p] <= x.at
          BY <2>12, <1>11, Numbers
        <5> QED BY <4>1, <5>1
      <4> QED BY <4>1, <4>2
    <3>2. ASSUME NEW p \in Procs, NEW k \in DOMAIN queue'[p] PROVE queue'[p][k].kind = "horizon"
      <4>1. CASE p \in Leads
        <5>1. queue'[p] = <<>>
          BY <1>2, <1>4, <2>12, <4>1
        <5> QED BY <5>1
      <4>2. CASE p \notin Leads
        <5>1. queue'[p] = <<Entry("horizon", H)>>
          <6>1. queue[p] = <<>>
            BY <1>2, <1>4, <4>2
          <6>2. Append(<<>>, Entry("horizon", H)) = <<Entry("horizon", H)>>
            BY QueueFacts
          <6> QED BY <2>12, <4>2, <6>1, <6>2
        <5>2. k = 1
          BY <5>1
        <5> QED BY <5>1, <5>2, EntryProps
      <4> QED BY <4>1, <4>2
    <3> QED BY <2>2, <3>1, <3>2 DEF MailsOK
  <2>11. WindowsOK(H)'
    <3>1. \A r \in Ranks : pc'[Lead(r)] \notin Opening
      BY <1>2, <2>1 DEF Opening
    <3> QED BY <2>2, <3>1 DEF WindowsOK
  <2> QED BY <2>4, <2>5, <2>6, <2>7, <2>8, <2>9, <2>10, <2>11 DEF TimeAt
<1>14. CASE ~(h = Inf /\ ~g)
  <2>1. PICK H \in Limits : H = h
    BY <1>5
  <2> QED BY <1>13, <1>14, <2>1
<1> QED BY <1>12, <1>14

LEMMA DistributeTime ==
  ASSUME TypeOK, Control, NEW T \in Limits, TimeAt(T), Distribute
  PROVE  TimeAt(T)'
<1> DEFINE in == UNION {buf[q] : q \in Leads}
           v == [p \in Procs |-> For(p)]
<1>1. /\ Complete("exchange") /\ Deliver(Leads, in)
      /\ queue' = Instruct(Ranks, "incoming", v)
  BY DEF Distribute
<1>2. /\ buf' = [p \in Procs |-> IF p \in Leads THEN {} ELSE buf[p]]
      /\ future' = [p \in Procs |-> IF p \in Leads THEN Inf ELSE future[p]]
      /\ pc' = [p \in Procs |-> IF p \notin Leads THEN pc[p]
                                ELSE IF horizon[p] >= upper[p] THEN Over(p) ELSE "peek"]
      /\ UNCHANGED <<setup, now, todo, upper, spec>>
  BY <1>1 DEF Deliver, args, window
<1>3. /\ Lead(0) \in Leads /\ Leads \subseteq Procs
      /\ \A o \in Ranks : Lead(o) \in Leads /\ Lead(o) \in Procs
      /\ \A o \in Ranks : \A c \in Children(o) : c \in Procs /\ c[1] = o /\ c \notin Leads
      /\ \A p \in Procs : p[1] \in Ranks /\ (p \notin Leads => p \in Children(p[1]))
      /\ \A s \in Sims : home[s] \in Procs
      /\ queue \in [Procs -> Seq(Entries)] /\ buf \in [Procs -> SUBSET Mails]
  BY LeadFacts DEF TypeOK, SetupOK, ChansTyped, BufsTyped
<1>4. \A l \in Leads : pc[l] = "exchange"
  <2>1. \A r \in Ranks : pc[Lead(r)] = "exchange"
    BY <1>1 DEF Complete
  <2> QED BY <2>1 DEF Leads
<1>5. \A r \in Ranks : /\ queue[Lead(r)] = <<>>
                       /\ \A c \in Children(r) : pc[c] = "exchange"
  <2>1. ASSUME NEW r \in Ranks
        PROVE  /\ queue[Lead(r)] = <<>>
               /\ \A c \in Children(r) : Replied("exchange", pc[c], queue[c])
    BY <1>1, AllAnswered DEF Collecting
  <2>2. \A p, q : Replied("exchange", p, q) => p = "exchange"
    BY DEF Replied, Opening, Running
  <2> QED BY <2>1, <2>2
<1>6. \A p \in Procs : pc[p] = "exchange"
  BY <1>3, <1>4, <1>5
<1>7. \A s \in Sims : ~Behind(s)
  BY <1>3, <1>6 DEF Behind
<1>8. in \in SUBSET Mails /\ \A x \in in : T <= x.at /\ x.at \in Int /\ x.to \in Sims
  <2>1. in \in SUBSET Mails
    BY <1>3
  <2>2. \A x \in in : T <= x.at
    BY <1>3 DEF TimeAt, MailsOK
  <2>3. \A x \in in : x.at \in Nat /\ x.to \in Sims
    BY <2>1, MailFields, TimeFacts
  <2> QED BY <2>1, <2>2, <2>3
<1>9. \A p \in Procs : For(p) \in SUBSET Mails /\ For(p) \subseteq in
  BY <1>8 DEF For
<1> HIDE DEF in
<1>10. /\ \A s \in Sims : \A j \in DOMAIN list'[s] :
            \/ j \in DOMAIN list[s] /\ list'[s][j] = list[s][j]
            \/ home[s] \in Leads /\ \E x \in in : list'[s][j] = x.at
       /\ late' => late \/ \E x \in in : x.at < now[x.to]
  BY <1>1, <1>8, DeliverProps
<1>11. late' => late
  <2>1. ASSUME NEW x \in in PROVE ~(x.at < now[x.to])
    <3>1. now[x.to] <= T /\ now[x.to] \in Int /\ T \in Int
      BY <1>8, Numbers DEF TimeAt, ClocksOK
    <3> QED BY <1>8, <3>1
  <2> QED BY <1>10, <2>1
<1>12. \A s \in Sims : \A i \in DOMAIN list'[s] :
         (i \in DOMAIN list[s] /\ list'[s][i] = list[s][i]) \/ T <= list'[s][i]
  BY <1>8, <1>10
<1>13. \A l \in Leads : T <= upper[l] /\ horizon[l] = T /\ upper[l] \in Int /\ T \in Int
  <2>1. \A l \in Leads : T <= upper[l] /\ horizon[l] = T
    BY <1>4 DEF TimeAt, LimitsOK, Running
  <2> QED BY <1>3, <2>1, Numbers
<1>14. \A l \in Leads : pc'[l] = IF T >= upper[l] THEN Over(l) ELSE "peek"
  BY <1>2, <1>3, <1>13
<1>15. \A l \in Leads : pc'[l] \in {"main", "listen", "peek"}
  BY <1>14 DEF Over
<1>16. \A l \in Leads : pc'[l] = "peek" => T <= upper'[l]
  BY <1>2, <1>13
<1>17. \A p \in Procs : p \notin Leads => pc'[p] \in {pc[p], "start"}
  BY <1>2
<1>18. pc'[Lead(0)] \in {"main", "listen"} /\ spec'[Lead(0)] => T = upper'[Lead(0)]
  <2>1. pc'[Lead(0)] \in {"main", "listen"} => T >= upper[Lead(0)]
    BY <1>3, <1>14
  <2> QED BY <1>2, <1>3, <1>13, <2>1
<1>19. \A p \in Procs : T <= future'[p] /\ \A x \in buf'[p] : future'[p] <= x.at /\ T <= x.at
  <2>1. ASSUME NEW p \in Leads PROVE buf'[p] = {} /\ future'[p] = Inf /\ T <= Inf
    BY <1>2, <1>3, Numbers
  <2>2. ASSUME NEW p \in Procs, p \notin Leads
        PROVE  /\ buf'[p] = buf[p] /\ future'[p] = future[p]
               /\ T <= future[p] /\ \A x \in buf[p] : future[p] <= x.at /\ T <= x.at
    BY <1>2, <2>2 DEF TimeAt, FutureOK, MailsOK
  <2> QED BY <2>1, <2>2
<1>20. \A p \in Procs : queue'[p] = IF p \in Leads THEN queue[p]
                                    ELSE Append(queue[p], Entry("incoming", For(p)))
  BY <1>1, <1>3 DEF Instruct
<1>21. \A p \in Procs : Onward(T, queue[p], queue'[p])
  <2>1. ASSUME NEW p \in Procs PROVE Onward(T, queue[p], Append(queue[p], Entry("incoming", For(p))))
    <3>1. Entry("incoming", For(p)) \in Entries /\ \A y \in For(p) : T <= y.at
      BY <1>8, <1>9, EntryProps
    <3> QED BY <3>1, OnwardFacts
  <2> QED BY <1>20, <2>1, OnwardFacts
<1>22. \A r \in Ranks : pc'[Lead(r)] = "peek" =>
         /\ queue'[Lead(r)] = <<>>
         /\ \A c \in Children(r) : ~Replied("peek", pc'[c], queue'[c])
  <2>1. \A r \in Ranks : queue'[Lead(r)] = <<>>
    BY <1>3, <1>5, <1>20
  <2>2. \A r \in Ranks : \A c \in Children(r) : pc'[c] = "exchange"
    BY <1>2, <1>3, <1>5
  <2> QED BY <2>1, <2>2 DEF Replied, Opening, Running
<1>23. UNCHANGED <<setup, now, todo>>
  BY <1>2
<1> QED BY <1>7, <1>11, <1>12, <1>15, <1>16, <1>17, <1>18, <1>19, <1>21, <1>22, <1>23, TurnTime

\* The events of l are pending, and none of s is before t.
Left(l, s, t) ==
  /\ \A r \in Sims : \A j \in DOMAIN l[r] : j \in DOMAIN list[r] /\ l[r][j] = list[r][j]
  /\ \A j \in DOMAIN l[s] : t <= l[s][j]

\* User code runs at the time t of a simulator s of process p, which is behind or at
\* T: what it causes elsewhere does not come before T.
LEMMA UserTime ==
  ASSUME TypeOK, Control, NEW T \in Limits, TimeAt(T),
         UNCHANGED <<setup, queue, pc, upper, spec, horizon, todo>>,
         \A o \in Leads : pc[o] \notin Opening,
         NEW s \in Sims, NEW t \in Limits, NEW l \in [Sims -> Lists], NEW p \in Procs,
         now' = [now EXCEPT ![s] = t], t <= T, Behind(s) \/ t = T,
         pc[Lead(0)] \in Running => T <= t + Lookahead,
         Left(l, s, t),
         \/ Sched(l, s, t)
         \/ T <= t + Lookahead /\ Send(l, p, s, t)
         \/ list' = l /\ UNCHANGED <<bufs, late>>
  PROVE  TimeAt(T)'
<1>1. /\ Procs' = Procs /\ Ranks' = Ranks /\ Leads' = Leads /\ \A o : Rank(o)' = Rank(o)
      /\ parts' = parts /\ home' = home /\ pc' = pc /\ queue' = queue
      /\ upper' = upper /\ spec' = spec /\ horizon' = horizon /\ todo' = todo
      /\ Lead(0) \in Leads /\ \A o \in Ranks : Lead(o) \in Leads
      /\ SimsTyped /\ BufsTyped
  BY Frame, LeadFacts DEF TypeOK
<1>2. /\ T \in Int /\ t \in Int /\ Lookahead \in Int /\ 0 <= Lookahead
      /\ \A a \in Times : a \in Int
      /\ \A r \in Sims : now[r] \in Int
      /\ \A q \in Procs : future[q] \in Int /\ \A x \in buf[q] : x.at \in Int
  <2>1. ASSUME NEW a \in Times PROVE a \in Int
    <3>1. a \in Nat
      BY TimeFacts
    <3> QED BY <3>1
  <2> QED BY <2>1, Numbers
<1>3. now'[s] = t /\ \A r \in Sims : now'[r] <= T /\ (r # s => now'[r] = now[r])
  <2>1. now \in [Sims -> Limits]
    BY <1>1 DEF SimsTyped
  <2> QED BY <2>1 DEF TimeAt, ClocksOK
<1>4. \A q \in Procs : /\ T <= future[q] /\ \A x \in buf[q] : T <= x.at
                       /\ q \notin Leads \/ pc[q] \notin Running => \A x \in buf[q] : future[q] <= x.at
  BY DEF TimeAt, MailsOK, FutureOK
\* What is new is not before t in s, and not before T elsewhere.
<1>5. /\ \A r \in Sims : \A j \in DOMAIN list'[r] :
           \/ j \in DOMAIN l[r] /\ list'[r][j] = l[r][j]
           \/ /\ list'[r][j] \in Int
              /\ T <= list'[r][j] \/ (r = s /\ t <= list'[r][j])
      /\ late' => late
      /\ \A q \in Procs : T <= future'[q] /\ \A x \in buf'[q] : T <= x.at
      /\ \A q \in Procs : q \notin Leads \/ pc[q] \notin Running => \A x \in buf'[q] : future'[q] <= x.at
  <2>1. CASE Sched(l, s, t)
    <3>1. UNCHANGED <<bufs, late>> /\ \E at \in Times : t <= at /\ Grown(l, s, at)
      BY <1>1, <2>1, SchedProps
    <3>2. PICK at \in Times : t <= at /\ Grown(l, s, at)
      BY <3>1
    <3>3. late' = late /\ buf' = buf /\ future' = future
      BY <3>1 DEF bufs
    <3> QED BY <1>2, <1>4, <3>2, <3>3 DEF Grown
  <2>2. CASE T <= t + Lookahead /\ Send(l, p, s, t)
    <3>1. \E at \in Times, d \in Sims :
              /\ t + Lookahead <= at
              /\ Grown(l, d, at)
              /\ late' => late \/ at < now'[d]
              /\ \A q \in Procs : \A x \in buf'[q] : x \in buf[q] \/ (q = p /\ x.at = at)
              /\ \A q \in Procs : q # p => buf'[q] = buf[q] /\ future'[q] = future[q]
              /\ \/ buf'[p] = buf[p] /\ future'[p] = future[p]
                 \/ future'[p] \in {future[p], at} /\ future'[p] <= future[p] /\ future'[p] <= at
      BY <1>1, <2>2, SendProps
    <3>2. PICK at \in Times, d \in Sims :
              /\ t + Lookahead <= at
              /\ Grown(l, d, at)
              /\ late' => late \/ at < now'[d]
              /\ \A q \in Procs : \A x \in buf'[q] : x \in buf[q] \/ (q = p /\ x.at = at)
              /\ \A q \in Procs : q # p => buf'[q] = buf[q] /\ future'[q] = future[q]
              /\ \/ buf'[p] = buf[p] /\ future'[p] = future[p]
                 \/ future'[p] \in {future[p], at} /\ future'[p] <= future[p] /\ future'[p] <= at
      BY <3>1
    <3>3. at \in Int /\ T <= at
      BY <1>2, <2>2, <3>2
    <3>4. \A r \in Sims : \A j \in DOMAIN list'[r] :
            (j \in DOMAIN l[r] /\ list'[r][j] = l[r][j]) \/ list'[r][j] = at
      BY <3>2 DEF Grown
    <3>5. late' => late
      <4>1. now'[d] <= T /\ now'[d] \in Int
        BY <1>2, <1>3
      <4>2. ~(at < now'[d])
        BY <1>2, <3>3, <4>1
      <4> QED BY <3>2, <4>2
    <3>6. ASSUME NEW q \in Procs PROVE T <= future'[q] /\ \A x \in buf'[q] : T <= x.at
      <4>1. T <= future'[q]
        BY <1>4, <3>2, <3>3
      <4> QED BY <1>4, <3>2, <3>3, <4>1
    <3>7. ASSUME NEW q \in Procs, q \notin Leads \/ pc[q] \notin Running, NEW x \in buf'[q]
          PROVE  future'[q] <= x.at
      <4>1. \A y \in buf[q] : future[q] <= y.at
        BY <1>4, <3>7
      <4>2. CASE q # p \/ (buf'[p] = buf[p] /\ future'[p] = future[p])
        BY <3>2, <4>1, <4>2
      <4>3. CASE q = p /\ future'[p] \in {future[p], at} /\ future'[p] <= future[p] /\ future'[p] <= at
        <5>1. CASE x \in buf[q]
          <6>1. future[q] <= x.at /\ future[q] \in Int /\ x.at \in Int
            BY <1>2, <4>1, <5>1
          <6> QED BY <3>3, <4>3, <6>1
        <5>2. CASE x.at = at
          BY <4>3, <5>2
        <5> QED BY <3>2, <5>1, <5>2
      <4> QED BY <3>2, <4>2, <4>3
    <3> QED BY <3>3, <3>4, <3>5, <3>6, <3>7
  <2>3. CASE list' = l /\ UNCHANGED <<bufs, late>>
    BY <1>4, <2>3 DEF bufs
  <2> QED BY <2>1, <2>2, <2>3
<1>6. TodoOK' /\ FutureOK' /\ LimitsOK(T)'
  <2>1. TodoOK'
    BY <1>1 DEF TimeAt, TodoOK
  <2>2. FutureOK'
    BY <1>1, <1>5 DEF FutureOK
  <2>3. LimitsOK(T)'
    BY <1>1 DEF TimeAt, LimitsOK
  <2> QED BY <2>1, <2>2, <2>3
<1>7. ClocksOK(T)'
  <2>1. \A r \in Sims : Behind(r)' <=> Behind(r)
    BY <1>1 DEF Behind
  <2>2. ASSUME NEW r \in Sims PROVE Behind(r) \/ now'[r] = T
    BY <1>3 DEF TimeAt, ClocksOK
  <2> QED BY <1>3, <2>1, <2>2 DEF ClocksOK
<1>8. EventsOK' /\ ~late'
  <2>1. ASSUME NEW r \in Sims, NEW j \in DOMAIN list'[r] PROVE now'[r] <= list'[r][j]
    <3>1. CASE j \in DOMAIN l[r] /\ list'[r][j] = l[r][j]
      <4>1. CASE r = s
        BY <1>3, <3>1, <4>1 DEF Left
      <4>2. CASE r # s
        BY <1>3, <3>1, <4>2 DEF TimeAt, EventsOK, Left
      <4> QED BY <4>1, <4>2
    <3>2. CASE list'[r][j] \in Int /\ T <= list'[r][j]
      <4>1. now'[r] <= T /\ now'[r] \in Int
        BY <1>2, <1>3
      <4> QED BY <1>2, <3>2, <4>1
    <3>3. CASE r = s /\ t <= list'[r][j]
      BY <1>3, <3>3
    <3> QED BY <1>5, <3>1, <3>2, <3>3
  <2> QED BY <1>1, <1>5, <2>1 DEF TimeAt, EventsOK
<1>9. NearOK(T)'
  <2>1. ASSUME pc[Lead(0)] \in Running, NEW r \in Sims, NEW j \in DOMAIN list'[r]
        PROVE  T <= list'[r][j] + Lookahead
    <3>1. CASE j \in DOMAIN l[r] /\ list'[r][j] = l[r][j]
      BY <2>1, <3>1 DEF TimeAt, NearOK, Left
    <3>2. CASE /\ list'[r][j] \in Int
               /\ T <= list'[r][j] \/ (r = s /\ t <= list'[r][j])
      BY <1>2, <2>1, <3>2
    <3> QED BY <1>5, <3>1, <3>2
  <2> QED BY <1>1, <2>1 DEF NearOK
<1>10. MailsOK(T)'
  BY <1>1, <1>5 DEF TimeAt, MailsOK
<1>11. WindowsOK(T)'
  BY <1>1 DEF WindowsOK
<1> QED BY <1>6, <1>7, <1>8, <1>9, <1>10, <1>11 DEF TimeAt

LEMMA MainTime ==
  ASSUME TypeOK, Control, NEW T \in Limits, TimeAt(T), NEW s \in Sims, MainCall(s)
  PROVE  TimeAt(T)'
<1> DEFINE p == Lead(Rank(s))
<1>1. /\ pc[p] = "main" /\ now' = now
      /\ Sched(list, s, now[s]) \/ Send(list, p, s, now[s])
      /\ UNCHANGED <<setup, queue, pc, upper, spec, horizon, todo>>
  BY DEF MainCall, chans, args, window
<1>2. /\ p \in Procs /\ p \in Leads /\ p = Lead(home[s][1]) /\ Lead(0) \in Leads
      /\ list \in [Sims -> Lists] /\ now \in [Sims -> Limits]
  BY LeadFacts DEF TypeOK, SetupOK, SimsTyped, Rank
<1>3. \A o \in Leads : pc[o] \in Resting
  BY <1>1, <1>2, Phases DEF Resting
<1>4. ~Behind(s)
  BY <1>1, <1>2, Settled DEF Running
<1>5. now[s] = T /\ T <= T /\ T <= T + Lookahead
  <2>1. T \in Int /\ Lookahead \in Int /\ 0 <= Lookahead
    BY Numbers
  <2> QED BY <1>4, <2>1 DEF TimeAt, ClocksOK
<1>6. now' = [now EXCEPT ![s] = T] /\ \A j \in DOMAIN list[s] : T <= list[s][j]
  BY <1>1, <1>2, <1>5 DEF TimeAt, EventsOK
<1>7. \A o \in Leads : pc[o] \notin Opening
  BY <1>3 DEF Resting, Opening
<1>8. pc[Lead(0)] \notin Running
  BY <1>2, <1>3 DEF Resting, Running
<1>9. Sched(list, s, T) \/ Send(list, p, s, T)
  BY <1>1, <1>5
<1>10. Left(list, s, T)
  BY <1>6 DEF Left
<1> HIDE DEF p
<1> QED BY <1>1, <1>2, <1>5, <1>6, <1>7, <1>8, <1>9, <1>10, UserTime

\* A process that runs its simulators runs them until T.
LEMMA RunsUntil ==
  ASSUME TypeOK, Control, NEW T \in Limits, TimeAt(T), NEW p \in Procs, pc[p] \in {"create", "run"}
  PROVE  horizon[p] = T /\ (pc[p] = "create" => p \in Leads)
<1> DEFINE r == p[1]
<1>1. CASE pc[p] = "create"
  <2>1. p \in Leads
    <3>1. SUFFICES ASSUME p \notin Leads PROVE FALSE
      OBVIOUS
    <3>2. r \in Ranks /\ p \in Children(r)
      BY <3>1, LeadFacts DEF TypeOK
    <3>3. Fits(pc[Lead(r)], horizon[Lead(r)], upper[Lead(r)], spec[Lead(r)], exits[r],
               "create", queue[p], horizon[p], upper[p], spec[p])
      BY <1>1, <3>2 DEF Control, ChildOK
    <3> QED BY <3>3 DEF Fits, FitsRest, FitsOpen, FitsRun, Closing, Opening, Running
  <2> QED BY <1>1, <2>1 DEF TimeAt, LimitsOK
<1>2. CASE pc[p] = "run"
  <2>1. Lead(r) \in Leads
    BY LeadFacts DEF TypeOK
  <2>2. pc[Lead(r)] \in Running /\ horizon[p] = horizon[Lead(r)]
    BY <1>2, Phases
  <2> QED BY <1>2, <2>1, <2>2 DEF TimeAt, LimitsOK
<1> QED BY <1>1, <1>2

LEMMA ExecuteTime ==
  ASSUME TypeOK, Control, NEW T \in Limits, TimeAt(T), NEW p \in Procs, Execute(p)
  PROVE  TimeAt(T)'
<1> DEFINE s == Head(todo[p])
<1>1. /\ pc[p] \in {"create", "run"} /\ todo[p] # <<>>
      /\ UNCHANGED <<setup, queue, pc, upper, spec, horizon, todo>>
  BY DEF Execute, chans, args, window
<1>2. PICK i \in DOMAIN list[s] :
        LET t == list[s][i]
            l == [list EXCEPT ![s] = [j \in DOMAIN @ \ {i} |-> @[j]]]
        IN /\ \A j \in DOMAIN list[s] : t <= list[s][j]
           /\ t < horizon[p]
           /\ now' = [now EXCEPT ![s] = t]
           /\ \/ Sched(l, s, t)
              \/ pc[p] = "run" /\ Send(l, p, s, t)
              \/ list' = l /\ UNCHANGED <<fresh, bufs, late>>
  BY DEF Execute
<1> DEFINE t == list[s][i]
           l == [list EXCEPT ![s] = [j \in DOMAIN @ \ {i} |-> @[j]]]
<1>3. s \in Sims /\ s \in ToSet(todo[p])
  <2>1. todo[p] \in Seq(Sims)
    BY DEF TypeOK, WindowTyped
  <2> QED BY <1>1, <2>1 DEF ToSet
<1>4. /\ \A j \in DOMAIN list[s] : t <= list[s][j]
      /\ t < horizon[p]
      /\ now' = [now EXCEPT ![s] = t]
      /\ \/ Sched(l, s, t)
         \/ pc[p] = "run" /\ Send(l, p, s, t)
         \/ list' = l /\ UNCHANGED <<fresh, bufs, late>>
  BY <1>2
<1>5. /\ l \in [Sims -> Lists]
      /\ \A r \in Sims : \A j \in DOMAIN l[r] : j \in DOMAIN list[r] /\ l[r][j] = list[r][j]
  BY <1>3, TakeProps DEF TypeOK
<1>6. t \in Limits /\ t \in Int /\ T \in Int /\ horizon[p] \in Int
  <2>1. list[s] \in Lists
    BY <1>3 DEF TypeOK, SimsTyped
  <2>2. t \in Times
    BY <1>2, <2>1, ListFields
  <2> QED BY <1>3, <2>2, Numbers, TimeFacts
<1> HIDE DEF s, t, l
<1>7. l \in [Sims -> Lists] /\ Left(l, s, t)
  BY <1>3, <1>4, <1>5 DEF Left
<1>8. ASSUME horizon[p] = T, Behind(s), \A o \in Leads : pc[o] \notin Opening,
             pc[Lead(0)] \in Running \/ pc[p] = "run" => T <= t + Lookahead
      PROVE  TimeAt(T)'
  <2>1. t <= T
    BY <1>4, <1>6, <1>8
  <2>2. \/ Sched(l, s, t)
        \/ T <= t + Lookahead /\ Send(l, p, s, t)
        \/ list' = l /\ UNCHANGED <<bufs, late>>
    BY <1>4, <1>8
  <2>3. pc[Lead(0)] \in Running => T <= t + Lookahead
    BY <1>8
  <2>4. t \in Limits /\ now' = [now EXCEPT ![s] = t] /\ (Behind(s) \/ t = T)
    BY <1>4, <1>6, <1>8
  <2>5. UNCHANGED <<setup, queue, pc, upper, spec, horizon, todo>>
    BY <1>1
  <2> QED BY <1>3, <1>7, <1>8, <2>1, <2>2, <2>3, <2>4, <2>5, UserTime
<1>9. CASE pc[p] = "create"
  <2>1. p \in Leads
    BY <1>9, RunsUntil
  <2>2. horizon[p] = T
    BY <1>9, RunsUntil
  <2>3. home[s][1] = p[1] /\ p = Lead(p[1])
    BY <1>3, <1>9, <2>1, LeadFacts DEF TimeAt, TodoOK, Rank, TypeOK
  <2>4. Behind(s)
    BY <1>3, <1>9, <2>3 DEF Behind
  <2>5. \A o \in Leads : pc[o] \in Resting
    BY <1>9, <2>1, Phases DEF Resting
  <2>6. /\ \A o \in Leads : pc[o] \notin Opening
        /\ ~(pc[Lead(0)] \in Running \/ pc[p] = "run")
    <3>1. Lead(0) \in Leads
      BY Phases
    <3> QED BY <1>9, <2>5, <3>1 DEF Resting, Opening, Running
  <2> QED BY <1>8, <2>2, <2>4, <2>6
<1>10. CASE pc[p] = "run"
  <2> DEFINE o == Lead(p[1])
  <2>1. o \in Leads /\ pc[o] \in Running
    <3>1. o \in Leads
      BY LeadFacts DEF TypeOK
    <3> QED BY <1>10, <3>1, Phases
  <2>2. horizon[p] = T
    BY <1>10, RunsUntil
  <2>3. Behind(s)
    <3>1. s \in ToSet(parts[p])
      BY <1>3, <1>10 DEF TimeAt, TodoOK
    <3>2. home[s] = p
      BY <1>3, <3>1 DEF TypeOK, SetupOK
    <3> QED BY <1>3, <1>10, <3>2 DEF Behind
  <2>4. \A k \in Leads : pc[k] \in Running
    BY <2>1, Phases
  <2>5. \A k \in Leads : pc[k] \notin Opening
    BY <2>4 DEF Opening, Running
  <2>6. T <= t + Lookahead
    <3>1. pc[Lead(0)] \in Running
      BY <2>4, Phases
    <3> QED BY <1>2, <1>3, <3>1 DEF TimeAt, NearOK, t
  <2> QED BY <1>8, <2>2, <2>3, <2>5, <2>6
<1> QED BY <1>1, <1>9, <1>10

LEMMA FinishTime ==
  ASSUME TypeOK, Control, NEW T \in Limits, TimeAt(T), NEW p \in Procs, Finish(p)
  PROVE  TimeAt(T)'
<1> DEFINE s == Head(todo[p])
<1>1. /\ pc[p] \in {"create", "run"} /\ todo[p] # <<>>
      /\ \A i \in DOMAIN list[s] : list[s][i] >= horizon[p]
      /\ now' = [now EXCEPT ![s] = horizon[p]]
      /\ todo' = [todo EXCEPT ![p] = Tail(@)]
      /\ UNCHANGED <<setup, list, late, buf, future, queue, pc, upper, spec, horizon>>
  BY DEF Finish, bufs, chans, args
<1>2. /\ Procs' = Procs /\ Ranks' = Ranks /\ Leads' = Leads /\ \A o : Rank(o)' = Rank(o)
      /\ parts' = parts /\ home' = home /\ pc' = pc /\ queue' = queue /\ list' = list
      /\ buf' = buf /\ future' = future /\ late' = late
      /\ upper' = upper /\ spec' = spec /\ horizon' = horizon
      /\ \A r \in Sims : home[r] \in Procs /\ Lead(home[r][1]) \in Procs
  <2>1. SetupOK
    BY DEF TypeOK
  <2>2. \A r \in Sims : home[r] \in Procs /\ Lead(home[r][1]) \in Procs
    BY <2>1, LeadFacts DEF SetupOK
  <2> QED BY <1>1, <2>2, Frame
<1>3. horizon[p] = T
  BY <1>1, RunsUntil
<1>4. /\ s \in Sims /\ todo[p] \in Seq(Sims) /\ Tail(todo[p]) \in Seq(Sims)
      /\ \A r : r \in ToSet(todo[p]) <=> r = s \/ r \in ToSet(Tail(todo[p]))
  <2>1. todo[p] \in Seq(Sims)
    BY DEF TypeOK, WindowTyped
  <2>2. ASSUME NEW r, r \in ToSet(todo[p]) PROVE r = s \/ r \in ToSet(Tail(todo[p]))
    <3>1. PICK k \in DOMAIN todo[p] : r = todo[p][k]
      BY <2>2 DEF ToSet
    <3>2. CASE k = 1
      BY <1>1, <2>1, <3>1, <3>2
    <3>3. CASE k # 1
      <4>1. k - 1 \in DOMAIN Tail(todo[p]) /\ Tail(todo[p])[k - 1] = r
        BY <1>1, <2>1, <3>1, <3>3
      <4> QED BY <4>1 DEF ToSet
    <3> QED BY <3>2, <3>3
  <2>3. ASSUME NEW r, r \in ToSet(Tail(todo[p])) PROVE r \in ToSet(todo[p])
    <3>1. PICK k \in DOMAIN Tail(todo[p]) : r = Tail(todo[p])[k]
      BY <2>3 DEF ToSet
    <3>2. k + 1 \in DOMAIN todo[p] /\ todo[p][k + 1] = r
      BY <1>1, <2>1, <3>1
    <3> QED BY <3>2 DEF ToSet
  <2>4. s \in Sims /\ Tail(todo[p]) \in Seq(Sims)
    BY <1>1, <2>1
  <2>5. s \in ToSet(todo[p])
    <3>1. 1 \in DOMAIN todo[p] /\ s = todo[p][1]
      BY <1>1, <2>1
    <3> QED BY <3>1 DEF ToSet
  <2> QED BY <2>1, <2>2, <2>3, <2>4, <2>5
<1>5. /\ now'[s] = T /\ \A r \in Sims : r # s => now'[r] = now[r]
      /\ todo'[p] = Tail(todo[p]) /\ \A o \in Procs : o # p => todo'[o] = todo[o]
  <2>1. now \in [Sims -> Limits] /\ todo \in [Procs -> Seq(Sims)]
    BY DEF TypeOK, SimsTyped, WindowTyped
  <2> QED BY <1>1, <1>3, <1>4, <2>1
<1> HIDE DEF s
<1>6. TodoOK'
  <2>1. ASSUME NEW o \in Procs
        PROVE  /\ pc[o] = "create" => \A r \in ToSet(todo'[o]) : Rank(r) = o[1]
               /\ pc[o] = "window" => todo'[o] = parts[o]
               /\ pc[o] = "run" => ToSet(todo'[o]) \subseteq ToSet(parts[o])
    <3>1. CASE o = p
      BY <1>1, <1>4, <1>5, <3>1 DEF TimeAt, TodoOK
    <3>2. CASE o # p
      BY <1>5, <3>2 DEF TimeAt, TodoOK
    <3> QED BY <3>1, <3>2
  <2> QED BY <1>2, <2>1 DEF TodoOK
<1>7. FutureOK' /\ LimitsOK(T)' /\ NearOK(T)' /\ MailsOK(T)'
  <2>1. FutureOK'
    BY <1>2 DEF TimeAt, FutureOK
  <2>2. LimitsOK(T)'
    BY <1>2 DEF TimeAt, LimitsOK
  <2>3. NearOK(T)'
    BY <1>2 DEF TimeAt, NearOK
  <2>4. MailsOK(T)'
    BY <1>2 DEF TimeAt, MailsOK
  <2> QED BY <2>1, <2>2, <2>3, <2>4
<1>8. ClocksOK(T)'
  <2>1. ASSUME NEW r \in Sims, r # s, Behind(r) PROVE Behind(r)'
    <3>1. ASSUME NEW o \in Procs, r \in ToSet(todo[o]) PROVE r \in ToSet(todo'[o])
      <4>1. CASE o = p
        BY <1>4, <1>5, <2>1, <3>1, <4>1
      <4>2. CASE o # p
        BY <1>5, <3>1, <4>2
      <4> QED BY <4>1, <4>2
    <3> QED BY <1>2, <2>1, <3>1 DEF Behind
  <2>2. T <= T
    BY Numbers
  <2>3. ASSUME NEW r \in Sims PROVE now'[r] <= T /\ (Behind(r)' \/ now'[r] = T)
    <3>1. CASE r = s
      BY <1>5, <2>2, <3>1
    <3>2. CASE r # s
      BY <1>5, <2>1, <3>2 DEF TimeAt, ClocksOK
    <3> QED BY <3>1, <3>2
  <2> QED BY <2>3 DEF ClocksOK
<1>9. EventsOK' /\ ~late'
  <2>1. \A i \in DOMAIN list[s] : T <= list[s][i]
    <3>1. \A i \in DOMAIN list[s] : list[s][i] >= T /\ list[s][i] \in Int /\ T \in Int
      BY <1>1, <1>3, <1>4, Numbers DEF s
    <3> QED BY <3>1
  <2>2. ASSUME NEW r \in Sims, NEW i \in DOMAIN list[r] PROVE now'[r] <= list[r][i]
    <3>1. CASE r = s
      BY <1>5, <2>1, <3>1
    <3>2. CASE r # s
      BY <1>5, <3>2 DEF TimeAt, EventsOK
    <3> QED BY <3>1, <3>2
  <2> QED BY <1>2, <2>2 DEF TimeAt, EventsOK
<1>10. WindowsOK(T)'
  <2>1. ASSUME NEW o \in Ranks, pc[Lead(o)] \in Opening PROVE FALSE
    <3>1. CASE pc[p] = "create"
      <4>1. p \in Leads /\ Lead(o) \in Leads
        BY <3>1, RunsUntil, LeadFacts DEF TypeOK
      <4>2. pc[Lead(o)] \in Resting
        BY <3>1, <4>1, Phases DEF Resting
      <4> QED BY <2>1, <4>2 DEF Resting, Opening
    <3>2. CASE pc[p] = "run"
      <4>1. Lead(p[1]) \in Leads /\ Lead(o) \in Leads
        BY LeadFacts DEF TypeOK
      <4>2. pc[Lead(o)] \in Running
        BY <3>2, <4>1, Phases
      <4> QED BY <2>1, <4>2 DEF Running, Opening
    <3> QED BY <1>1, <3>1, <3>2
  <2> QED BY <1>2, <2>1 DEF WindowsOK
<1> QED BY <1>6, <1>7, <1>8, <1>9, <1>10 DEF TimeAt

\* When the group is created, all simulators go to the latest clock.
LEMMA InitTime == Init => Timely
<1> SUFFICES ASSUME Init PROVE Timely
  OBVIOUS
<1> DEFINE T == Max({now[s] : s \in Sims})
<1>1. T \in Times /\ T \in Limits /\ T \in Int /\ T <= Inf /\ \A s \in Sims : now[s] \in Times /\ now[s] <= T
  <2>1. T \in Times /\ \A s \in Sims : now[s] \in Times /\ now[s] <= T
    BY InitClocks
  <2> HIDE DEF T
  <2>2. T \in Limits
    BY <2>1, TimeFacts
  <2> QED BY <2>1, <2>2, InitTyped, Numbers
<1>2. /\ Leads \subseteq Procs /\ Lead(0) \in Leads /\ \A s \in Sims : home[s] \in Procs
      /\ \A s \in Sims : Lead(home[s][1]) \in Leads
      /\ \A l \in Leads : l[1] \in Ranks /\ l = Lead(l[1])
      /\ \A l \in Leads, s \in Sims : s \in ToSet(todo[l]) <=> Rank(s) = l[1]
      /\ \A r \in Ranks : Lead(r) \in Leads
      /\ todo \in [Procs -> Seq(Sims)]
      /\ \A r : Lead(r)[1] = r
  <2>1. SetupOK /\ todo \in [Procs -> Seq(Sims)]
        /\ \A l \in Leads, s \in Sims : s \in ToSet(todo[l]) <=> Rank(s) = l[1]
    BY InitSetup
  <2> QED BY <2>1, LeadFacts DEF SetupOK
<1>3. /\ \A p \in Procs : pc[p] = IF p \in Leads THEN "create" ELSE "unborn"
      /\ \A p \in Procs : /\ buf[p] = {} /\ future[p] = Inf /\ queue[p] = <<>>
                          /\ upper[p] = Inf /\ spec[p] = FALSE /\ horizon[p] = T
      /\ late = FALSE
  <2> HIDE DEF T
  <2> QED BY DEF Init, T
<1> HIDE DEF T
<1>4. TodoOK
  <2>1. \A p \in Procs : todo[p] \in Seq(Sims)
    BY <1>2
  <2>2. \A p \in Procs : ToSet(todo[p]) \subseteq Sims
    BY <2>1 DEF ToSet
  <2> QED BY <1>2, <1>3, <2>2 DEF TodoOK
<1>5. FutureOK /\ MailsOK(T)
  BY <1>1, <1>3 DEF FutureOK, MailsOK
<1>6. ClocksOK(T)
  <2>1. ASSUME NEW s \in Sims PROVE Behind(s)
    <3>1. pc[Lead(home[s][1])] = "create" /\ s \in ToSet(todo[Lead(home[s][1])])
      BY <1>2, <1>3 DEF Rank
    <3> QED BY <3>1 DEF Behind
  <2> QED BY <1>1, <2>1 DEF ClocksOK
<1>7. LimitsOK(T) /\ NearOK(T) /\ WindowsOK(T)
  BY <1>2, <1>3 DEF LimitsOK, NearOK, WindowsOK, Opening, Running
<1>8. EventsOK
  <2>1. CASE list = [s \in Sims |-> [i \in {} |-> 0]]
    BY <2>1 DEF EventsOK
  <2>2. ASSUME NEW s \in Sims, NEW i \in Evs, NEW t \in Times, t >= now[s],
               list = [r \in Sims |-> IF r = s THEN [j \in {i} |-> t] ELSE [j \in {} |-> 0]]
        PROVE  EventsOK
    <3>1. t \in Nat /\ now[s] \in Nat
      BY <1>1, TimeFacts
    <3>2. ASSUME NEW r \in Sims, NEW j \in DOMAIN list[r] PROVE r = s /\ list[r][j] = t
      BY <2>2, <3>2
    <3> QED BY <2>2, <3>1, <3>2 DEF EventsOK
  <2>3. \/ list = [s \in Sims |-> [i \in {} |-> 0]]
        \/ \E s \in Sims, i \in Evs, t \in Times :
             /\ t >= now[s]
             /\ list = [r \in Sims |-> IF r = s THEN [j \in {i} |-> t] ELSE [j \in {} |-> 0]]
    BY DEF Init
  <2> QED BY <2>1, <2>2, <2>3
<1> QED BY <1>1, <1>3, <1>4, <1>5, <1>6, <1>7, <1>8 DEF TimeAt, Timely

LEMMA TimeStep ==
  ASSUME TypeOK, Control, TypeOK', Timely, [Next]_vars
  PROVE  Timely'
<1>1. PICK T \in Limits : TimeAt(T)
  BY DEF Timely
<1>2. Limits' = Limits
  OBVIOUS
<1>3. ASSUME NEW U \in Limits, TimeAt(U)' PROVE Timely'
  BY <1>2, <1>3 DEF Timely
<1>4. CASE UNCHANGED vars
  <2>1. UNCHANGED <<setup, now, list, late, buf, future, queue, pc, upper, spec, horizon, todo>>
    BY <1>4 DEF vars, sims, bufs, chans, args, window
  <2>2. /\ Procs' = Procs /\ Ranks' = Ranks /\ Leads' = Leads /\ (\A o : Rank(o)' = Rank(o))
        /\ (\A o : Children(o)' = Children(o)) /\ parts' = parts /\ home' = home
    BY <2>1, Frame
  <2>3. TodoOK' /\ FutureOK' /\ EventsOK' /\ ~late' /\ LimitsOK(T)' /\ NearOK(T)' /\ MailsOK(T)'
    BY <1>1, <2>1, <2>2 DEF TimeAt, TodoOK, FutureOK, EventsOK, LimitsOK, NearOK, MailsOK
  <2>4. ClocksOK(T)'
    BY <1>1, <2>1, <2>2 DEF TimeAt, ClocksOK, Behind
  <2>5. WindowsOK(T)'
    BY <1>1, <2>1, <2>2 DEF TimeAt, WindowsOK, WindowOK, Bound, Answered
  <2> QED BY <1>3, <2>3, <2>4, <2>5 DEF TimeAt
<1>5. ASSUME NEW s \in Sims, MainCall(s) PROVE Timely'
  BY <1>1, <1>3, <1>5, MainTime
<1>6. CASE Together
  <2>1. CASE Announce
    <3>1. PICK U \in Limits : TimeAt(U)'
      BY <1>1, <2>1, AnnounceTime
    <3> QED BY <1>3, <3>1
  <2>2. CASE Agree \/ Distribute \/ Reported
    BY <1>1, <1>3, <2>2, AgreeTime, DistributeTime, RestTimes
  <2> QED BY <1>6, <2>1, <2>2 DEF Together
<1>7. ASSUME NEW u \in Limits, NEW given \in BOOLEAN, Run(u, given) PROVE Timely'
  BY <1>1, <1>3, <1>7, RestTimes
<1>8. CASE ShowReport
  BY <1>1, <1>3, <1>8, RestTimes
<1>9. CASE Main
  <2>1. Times \subseteq Limits /\ Inf \in Limits /\ TRUE \in BOOLEAN /\ FALSE \in BOOLEAN
    BY TimeFacts
  <2> QED BY <1>5, <1>7, <1>8, <1>9, <2>1 DEF Main
<1>10. ASSUME NEW p \in Procs, p \notin Leads, Step(p) PROVE Timely'
  <2>1. CASE Execute(p) \/ Finish(p)
    BY <1>1, <1>3, <2>1, ExecuteTime, FinishTime
  <2>2. CASE \/ ChildStart(p) \/ ChildCommand(p) \/ Peek(p) \/ ChildWindow(p)
             \/ HandOver(p) \/ ChildIncoming(p) \/ Tell(p)
    BY <1>1, <1>3, <1>10, <2>2, ChildTimes
  <2> QED BY <1>10, <2>1, <2>2 DEF Step
<1>11. ASSUME NEW p \in Leads, Step(p) PROVE Timely'
  <2> DEFINE r == p[1]
  <2>1. r \in Ranks /\ p = Lead(r) /\ p \in Procs
    BY LeadFacts DEF TypeOK
  <2> HIDE DEF r
  <2>2. ~ChildStart(p) /\ ~ChildCommand(p)
    <3>1. pc[p] \in Resting \cup Opening \cup Running
      BY Phases
    <3> QED BY <3>1 DEF ChildStart, ChildCommand, Resting, Opening, Running
  <2>3. CASE Execute(p) \/ Finish(p)
    BY <1>1, <1>3, <2>1, <2>3, ExecuteTime, FinishTime
  <2>4. CASE Peek(p) \/ Gather(r)
    BY <1>1, <1>3, <2>1, <2>4, OpenTimes
  <2>5. CASE HandOver(p) \/ Collect(r)
    BY <1>1, <1>3, <2>1, <2>5, RunTimes
  <2>6. CASE Created(r) \/ Command(r) \/ Sum(r) \/ RunFinish(r) \/ Join(r) \/ Tell(p)
    BY <1>1, <1>3, <2>1, <2>6, RestTimes
  <2>7. ~ChildWindow(p) /\ ~ChildIncoming(p)
    BY DEF ChildWindow, ChildIncoming
  <2> QED BY <1>11, <2>1, <2>2, <2>3, <2>4, <2>5, <2>6, <2>7 DEF Step, r
<1>12. CASE Ended
  BY <1>4, <1>12 DEF Ended
<1>13. \A p \in Procs : Step(p) => Timely'
  BY <1>10, <1>11
<1> QED BY <1>4, <1>6, <1>9, <1>12, <1>13 DEF Next

\* The group is at some time in every reachable state.
THEOREM GroupTimely == Spec => []Timely
<1>1. Init => Timely
  BY InitTime
<1>2. TypeOK /\ Control /\ TypeOK' /\ Timely /\ [Next]_vars => Timely'
  BY TimeStep
<1> QED BY <1>1, <1>2, GroupControlled, PTL DEF Spec

\* No simulator receives a message in its past, for any division of any simulators
\* among any processes of any ranks and any lookahead the constructor accepts.
THEOREM AlwaysCausal == Spec => []LocalCausality
<1>1. Timely => LocalCausality
  BY DEF Timely, TimeAt, EventsOK, LocalCausality
<1> QED BY <1>1, GroupTimely, PTL

\* The clocks of all simulators advance together, window by window.
THEOREM ClocksAlwaysTogether == Spec => []ClocksTogether
<1>1. ASSUME TypeOK, Control, Timely PROVE ClocksTogether
  <2>1. PICK T \in Limits : TimeAt(T)
    BY <1>1 DEF Timely
  <2>2. \A p \in Procs : pc[p] = "run" => horizon[p] = T
    BY <1>1, <2>1, RunsUntil
  <2>3. ASSUME AtRest, NEW s \in Sims PROVE now[s] = T
    <3> DEFINE l == Lead(home[s][1])
    <3>1. l \in Leads /\ l \in Procs
      BY <1>1, LeadFacts DEF TypeOK, SetupOK
    <3>2. pc[l] \in {"main", "listen"}
      BY <2>3, <3>1 DEF AtRest
    <3>3. ~Behind(s)
      BY <1>1, <3>2, Settled DEF Running
    <3> QED BY <2>1, <3>3 DEF TimeAt, ClocksOK
  <2>4. AtRest /\ spec[Lead(0)] => T = upper[Lead(0)]
    <3>1. Lead(0) \in Leads /\ Lead(0) \in Procs
      BY <1>1, LeadFacts DEF TypeOK
    <3>2. AtRest => pc[Lead(0)] \in {"main", "listen"}
      BY <3>1 DEF AtRest
    <3> QED BY <2>1, <3>2 DEF TimeAt, LimitsOK, Resting
  <2> QED BY <2>2, <2>3, <2>4 DEF ClocksTogether
<1> QED BY <1>1, GroupControlled, GroupTimely, PTL

-----------------------------------------------------------------------------
(* Where the messages are *)

MailKinds == {"sent", "incoming"}

\* What a process has in its buffer and still has to send: a child that is just
\* started drops its copy, and one that has handed its messages over is done.
Held(p) == pc[p] # "start" /\ (p \in Leads \/ pc[p] # "exchange")
Kept == [p \in Procs |-> IF Held(p) THEN buf[p] ELSE {}]

\* The message x is in the entry k of the queue q.
Carries(q, k, x) == k \in DOMAIN q /\ q[k].kind \in MailKinds /\ x \in q[k].val

\* The message m is on none of the event lists l, or on one; in none of the
\* buffers b, or in one; and on no way through the queues q, or on one.
NoList(l, m) == \A s \in Sims : m \notin DOMAIN l[s]
OneList(l, m) == \E s \in Sims : \A r \in Sims : m \in DOMAIN l[r] <=> r = s
NoBuf(b, m) == \A p \in DOMAIN b : \A x \in b[p] : x.m # m
OneBuf(b, m) == \E p \in DOMAIN b : \E x \in b[p] :
                  x.m = m /\ \A o \in DOMAIN b : \A y \in b[o] : y.m = m => o = p /\ y = x
NoWay(q, m) == \A p \in DOMAIN q : \A k \in Nat : \A x \in Mails : Carries(q[p], k, x) => x.m # m
OneWay(q, m) == \E p \in DOMAIN q, k \in Nat, x \in Mails :
                  /\ Carries(q[p], k, x) /\ x.m = m
                  /\ \A o \in DOMAIN q, j \in Nat, y \in Mails :
                       Carries(q[o], j, y) /\ y.m = m => o = p /\ j = k /\ y = x

Gone(m, l, b, q) == NoList(l, m) /\ NoBuf(b, m) /\ NoWay(q, m)
Once(m, l, b, q) == \/ OneList(l, m) /\ NoBuf(b, m) /\ NoWay(q, m)
                    \/ NoList(l, m) /\ OneBuf(b, m) /\ NoWay(q, m)
                    \/ NoList(l, m) /\ NoBuf(b, m) /\ OneWay(q, m)

\* Of the messages, those in f are not used yet and those in D delivered.
Placed(l, b, q, f, D) ==
  \A m \in Msgs : /\ m \in f \cup D => Gone(m, l, b, q)
                  /\ m \notin f \cup D => Once(m, l, b, q)
                  /\ ~(m \in f /\ m \in D)

\* What is handed out to a process is for its simulators, and a process that does
\* not exist yet has no messages.
Homed == \A p \in Procs : \A k \in DOMAIN queue[p] :
           queue[p][k].kind = "incoming" => \A x \in queue[p][k].val : home[x.to] = p
Unborn == \A p \in Procs : pc[p] = "unborn" => buf[p] = {}

Delivery == Placed(list, Kept, queue, fresh, DOMAIN done) /\ Homed /\ Unborn

\* The entries of a queue when one is appended or taken.
LEMMA QueueMoves ==
  ASSUME NEW q \in Seq(Entries)
  PROVE  /\ \A e \in Entries : /\ DOMAIN Append(q, e) = 1..Len(q) + 1
                               /\ Append(q, e)[Len(q) + 1] = e
                               /\ \A k \in DOMAIN q : Append(q, e)[k] = q[k]
         /\ DOMAIN q = 1..Len(q) /\ Len(q) \in Nat
         /\ q # <<>> => /\ Len(q) > 0 /\ Head(q) = q[1]
                        /\ DOMAIN Tail(q) = 1..Len(q) - 1
                        /\ \A k \in DOMAIN Tail(q) : Tail(q)[k] = q[k + 1]
<1>1. q # <<>> => /\ Len(q) > 0 /\ Head(q) = q[1]
                  /\ DOMAIN Tail(q) = 1..Len(q) - 1
                  /\ \A k \in DOMAIN Tail(q) : Tail(q)[k] = q[k + 1]
  OBVIOUS
<1> QED BY <1>1

\* The messages in a queue when one is appended or taken.
LEMMA CarriesMoves ==
  ASSUME NEW q \in Seq(Entries), NEW k \in Nat, NEW x
  PROVE  /\ \A e \in Entries :
              Carries(Append(q, e), k, x)
                <=> \/ Carries(q, k, x)
                    \/ k = Len(q) + 1 /\ e.kind \in MailKinds /\ x \in e.val
         /\ Carries(q, k, x) => k >= 1 /\ k <= Len(q)
         /\ q # <<>> => /\ Carries(Tail(q), k, x) <=> k >= 1 /\ Carries(q, k + 1, x)
                        /\ Carries(q, 1, x) <=> Head(q).kind \in MailKinds /\ x \in Head(q).val
<1>1. DOMAIN q = 1..Len(q) /\ Len(q) \in Nat
  BY QueueMoves
<1>2. ASSUME NEW e \in Entries
      PROVE  Carries(Append(q, e), k, x)
                <=> \/ Carries(q, k, x)
                    \/ k = Len(q) + 1 /\ e.kind \in MailKinds /\ x \in e.val
  <2> DEFINE a == Append(q, e)
  <2>1. DOMAIN a = 1..Len(q) + 1 /\ a[Len(q) + 1] = e /\ \A j \in DOMAIN q : a[j] = q[j]
    BY QueueMoves
  <2> HIDE DEF a
  <2>2. CASE k = Len(q) + 1
    BY <1>1, <2>1, <2>2 DEF Carries
  <2>3. CASE k # Len(q) + 1
    <3>1. k \in DOMAIN a <=> k \in DOMAIN q
      BY <1>1, <2>1, <2>3
    <3> QED BY <2>1, <2>3, <3>1 DEF Carries
  <2> QED BY <2>2, <2>3 DEF a
<1>3. ASSUME q # <<>>
      PROVE  /\ Carries(Tail(q), k, x) <=> k >= 1 /\ Carries(q, k + 1, x)
             /\ Carries(q, 1, x) <=> Head(q).kind \in MailKinds /\ x \in Head(q).val
  <2> DEFINE t == Tail(q)
  <2>1. /\ Len(q) > 0 /\ Head(q) = q[1] /\ DOMAIN t = 1..Len(q) - 1
        /\ \A j \in DOMAIN t : t[j] = q[j + 1]
    BY <1>3, QueueMoves
  <2> HIDE DEF t
  <2>2. k \in DOMAIN t <=> k >= 1 /\ k + 1 \in DOMAIN q
    BY <1>1, <2>1
  <2>3. Carries(t, k, x) <=> k >= 1 /\ Carries(q, k + 1, x)
    BY <2>1, <2>2 DEF Carries
  <2>4. Carries(q, 1, x) <=> Head(q).kind \in MailKinds /\ x \in Head(q).val
    BY <1>1, <2>1 DEF Carries
  <2> QED BY <2>3, <2>4 DEF t
<1>4. Carries(q, k, x) => k >= 1 /\ k <= Len(q)
  BY <1>1 DEF Carries
<1> QED BY <1>2, <1>3, <1>4

\* A queue to which something other than messages is appended, or of which it is
\* taken, or that stays as it is.
Quiet(q, nq) ==
  \/ nq = q
  \/ \E e \in Entries : e.kind \notin MailKinds /\ nq = Append(q, e)
  \/ q # <<>> /\ Head(q).kind \notin MailKinds /\ nq = Tail(q)

\* The messages in it then stay in their order.
LEMMA QuietShift ==
  ASSUME NEW q \in Seq(Entries), NEW nq, Quiet(q, nq)
  PROVE  \E d \in {0, 1} : \A k \in Nat : \A x :
           /\ Carries(nq, k, x) => Carries(q, k + d, x)
           /\ Carries(q, k, x) => k >= d /\ Carries(nq, k - d, x)
<1>1. CASE nq = q \/ \E e \in Entries : e.kind \notin MailKinds /\ nq = Append(q, e)
  <2>1. ASSUME NEW k \in Nat, NEW x PROVE Carries(nq, k, x) <=> Carries(q, k, x)
    <3>1. CASE nq = q
      BY <3>1
    <3>2. CASE \E e \in Entries : e.kind \notin MailKinds /\ nq = Append(q, e)
      BY <3>2, CarriesMoves
    <3> QED BY <1>1, <3>1, <3>2
  <2>2. \A k \in Nat : k + 0 = k /\ k - 0 = k /\ k >= 0
    OBVIOUS
  <2>3. \A k \in Nat : \A x : /\ Carries(nq, k, x) => Carries(q, k + 0, x)
                              /\ Carries(q, k, x) => k >= 0 /\ Carries(nq, k - 0, x)
    BY <2>1, <2>2
  <2> QED BY <2>3
<1>2. CASE q # <<>> /\ Head(q).kind \notin MailKinds /\ nq = Tail(q)
  <2>1. ASSUME NEW k \in Nat, NEW x
        PROVE  /\ Carries(nq, k, x) => Carries(q, k + 1, x)
               /\ Carries(q, k, x) => k >= 1 /\ Carries(nq, k - 1, x)
    <3>1. Carries(nq, k, x) => Carries(q, k + 1, x)
      BY <1>2, CarriesMoves
    <3>2. ASSUME Carries(q, k, x) PROVE k >= 1 /\ Carries(nq, k - 1, x)
      <4>1. k # 1 /\ k >= 1
        BY <1>2, <3>2, CarriesMoves
      <4>2. k - 1 \in Nat /\ k - 1 >= 1 /\ (k - 1) + 1 = k
        BY <4>1
      <4> QED BY <1>2, <3>2, <4>1, <4>2, CarriesMoves
    <3> QED BY <3>1, <3>2
  <2> QED BY <2>1
<1> QED BY <1>1, <1>2 DEF Quiet

\* When all queues are quiet, the messages on their way stay there.
LEMMA QuietWays ==
  ASSUME NEW P, NEW q \in [P -> Seq(Entries)], NEW nq \in [P -> Seq(Entries)],
         \A p \in P : Quiet(q[p], nq[p]), NEW m
  PROVE  /\ NoWay(q, m) => NoWay(nq, m)
         /\ OneWay(q, m) => OneWay(nq, m)
<1>1. ASSUME NEW p \in P
      PROVE  \E d \in {0, 1} : \A k \in Nat : \A x :
               /\ Carries(nq[p], k, x) => Carries(q[p], k + d, x)
               /\ Carries(q[p], k, x) => k >= d /\ Carries(nq[p], k - d, x)
  <2>1. q[p] \in Seq(Entries) /\ Quiet(q[p], nq[p])
    OBVIOUS
  <2> QED BY <2>1, QuietShift
<1>2. DOMAIN q = P /\ DOMAIN nq = P
  OBVIOUS
<1>3. ASSUME NoWay(q, m), NEW p \in P, NEW k \in Nat, NEW x \in Mails, Carries(nq[p], k, x)
      PROVE  x.m # m
  <2>1. PICK d \in {0, 1} : Carries(q[p], k + d, x)
    BY <1>1, <1>3
  <2>2. k + d \in Nat
    OBVIOUS
  <2> QED BY <1>2, <1>3, <2>1, <2>2 DEF NoWay
<1>4. ASSUME OneWay(q, m) PROVE OneWay(nq, m)
  <2>1. PICK p \in P, k \in Nat, x \in Mails :
          /\ Carries(q[p], k, x) /\ x.m = m
          /\ \A o \in P, j \in Nat, y \in Mails :
               Carries(q[o], j, y) /\ y.m = m => o = p /\ j = k /\ y = x
    BY <1>2, <1>4 DEF OneWay
  <2>2. PICK d \in {0, 1} : \A i \in Nat : \A y :
               /\ Carries(nq[p], i, y) => Carries(q[p], i + d, y)
               /\ Carries(q[p], i, y) => i >= d /\ Carries(nq[p], i - d, y)
    BY <1>1
  <2>3. k >= d /\ k - d \in Nat /\ Carries(nq[p], k - d, x)
    BY <2>1, <2>2
  <2>4. ASSUME NEW o \in P, NEW j \in Nat, NEW y \in Mails, Carries(nq[o], j, y), y.m = m
        PROVE  o = p /\ j = k - d /\ y = x
    <3>1. PICK e \in {0, 1} : Carries(q[o], j + e, y)
      BY <1>1, <2>4
    <3>2. j + e \in Nat
      OBVIOUS
    <3>3. o = p /\ y = x
      BY <2>1, <2>4, <3>1, <3>2
    <3>4. Carries(q[p], j + d, y) /\ j + d \in Nat
      BY <2>2, <2>4, <3>3
    <3>5. j + d = k
      BY <2>1, <2>4, <3>4
    <3> QED BY <3>3, <3>5
  <2> QED BY <1>2, <2>1, <2>3, <2>4 DEF OneWay
<1> QED BY <1>2, <1>3, <1>4 DEF NoWay

\* The event i is taken from the list of the simulator s: a message is delivered.
LEMMA TakePlaced ==
  ASSUME NEW l, NEW nl, NEW b, NEW q, NEW f, NEW D, NEW s \in Sims, NEW i \in DOMAIN l[s],
         Placed(l, b, q, f, D),
         \A r \in Sims : DOMAIN nl[r] = IF r = s THEN DOMAIN l[r] \ {i} ELSE DOMAIN l[r]
  PROVE  Placed(nl, b, q, f, D \cup {i})
<1> SUFFICES ASSUME NEW m \in Msgs
             PROVE  /\ m \in f \cup D \cup {i} => Gone(m, nl, b, q)
                    /\ m \notin f \cup D \cup {i} => Once(m, nl, b, q)
                    /\ ~(m \in f /\ m \in D \cup {i})
  BY DEF Placed
<1>1. /\ m \in f \cup D => Gone(m, l, b, q)
      /\ m \notin f \cup D => Once(m, l, b, q)
      /\ ~(m \in f /\ m \in D)
  BY DEF Placed
<1>2. CASE m = i
  <2>1. ~NoList(l, m)
    BY <1>2 DEF NoList
  <2>2. m \notin f \cup D /\ OneList(l, m) /\ NoBuf(b, m) /\ NoWay(q, m)
    BY <1>1, <2>1 DEF Gone, Once
  <2>3. NoList(nl, m)
    <3>1. PICK r \in Sims : \A o \in Sims : m \in DOMAIN l[o] <=> o = r
      BY <2>2 DEF OneList
    <3>2. r = s
      BY <1>2, <3>1
    <3> QED BY <1>2, <3>1, <3>2 DEF NoList
  <2> QED BY <1>2, <2>2, <2>3 DEF Gone
<1>3. CASE m # i
  <2>1. \A r \in Sims : m \in DOMAIN nl[r] <=> m \in DOMAIN l[r]
    BY <1>3
  <2>2. (NoList(nl, m) <=> NoList(l, m)) /\ (OneList(nl, m) <=> OneList(l, m))
    BY <2>1 DEF NoList, OneList
  <2> QED BY <1>1, <1>3, <2>2 DEF Gone, Once
<1> QED BY <1>2, <1>3

\* What is not used yet is put in the list of the simulator s.
Added(l, nl, s, i) ==
  s \in Sims /\ \A r \in Sims : DOMAIN nl[r] = IF r = s THEN DOMAIN l[r] \cup {i} ELSE DOMAIN l[r]

LEMMA AddPlaced ==
  ASSUME NEW l, NEW nl, NEW b, NEW q, NEW f, NEW D, NEW s, NEW i,
         i \in f, Placed(l, b, q, f, D), Added(l, nl, s, i)
  PROVE  Placed(nl, b, q, f \ {i}, D)
<1>0. s \in Sims /\ \A r \in Sims : DOMAIN nl[r] = IF r = s THEN DOMAIN l[r] \cup {i} ELSE DOMAIN l[r]
  BY DEF Added
<1> SUFFICES ASSUME NEW m \in Msgs
             PROVE  /\ m \in (f \ {i}) \cup D => Gone(m, nl, b, q)
                    /\ m \notin (f \ {i}) \cup D => Once(m, nl, b, q)
                    /\ ~(m \in f \ {i} /\ m \in D)
  BY DEF Placed
<1>1. /\ m \in f \cup D => Gone(m, l, b, q)
      /\ m \notin f \cup D => Once(m, l, b, q)
      /\ ~(m \in f /\ m \in D)
  BY DEF Placed
<1>2. CASE m = i
  <2>1. m \notin D /\ NoList(l, m) /\ NoBuf(b, m) /\ NoWay(q, m)
    BY <1>1, <1>2 DEF Gone
  <2>2. OneList(nl, m)
    <3>1. \A r \in Sims : m \in DOMAIN nl[r] <=> r = s
      BY <1>0, <1>2, <2>1 DEF NoList
    <3> QED BY <1>0, <3>1 DEF OneList
  <2> QED BY <1>2, <2>1, <2>2 DEF Once
<1>3. CASE m # i
  <2>1. \A r \in Sims : m \in DOMAIN nl[r] <=> m \in DOMAIN l[r]
    BY <1>0, <1>3
  <2>2. (NoList(nl, m) <=> NoList(l, m)) /\ (OneList(nl, m) <=> OneList(l, m))
    BY <2>1 DEF NoList, OneList
  <2> QED BY <1>1, <1>3, <2>2 DEF Gone, Once
<1> QED BY <1>2, <1>3

\* A message not used yet is put in the buffer of the process p.
LEMMA PutPlaced ==
  ASSUME NEW l, NEW P, NEW b \in [P -> SUBSET Mails], NEW nb, NEW q, NEW f, NEW D,
         NEW p \in P, NEW x \in Mails, x.m \in f,
         Placed(l, b, q, f, D), nb = [b EXCEPT ![p] = @ \cup {x}]
  PROVE  Placed(l, nb, q, f \ {x.m}, D)
<1> SUFFICES ASSUME NEW m \in Msgs
             PROVE  /\ m \in (f \ {x.m}) \cup D => Gone(m, l, nb, q)
                    /\ m \notin (f \ {x.m}) \cup D => Once(m, l, nb, q)
                    /\ ~(m \in f \ {x.m} /\ m \in D)
  BY DEF Placed
<1>1. /\ m \in f \cup D => Gone(m, l, b, q)
      /\ m \notin f \cup D => Once(m, l, b, q)
      /\ ~(m \in f /\ m \in D)
  BY DEF Placed
<1>2. /\ DOMAIN b = P /\ DOMAIN nb = P /\ nb[p] = b[p] \cup {x}
      /\ \A o \in P : o # p => nb[o] = b[o]
  OBVIOUS
<1>3. CASE m = x.m
  <2>1. m \notin D /\ NoList(l, m) /\ NoBuf(b, m) /\ NoWay(q, m)
    BY <1>1, <1>3 DEF Gone
  <2>2. OneBuf(nb, m)
    <3>1. \A o \in P : \A y \in nb[o] : y.m = m => o = p /\ y = x
      BY <1>2, <2>1 DEF NoBuf
    <3> QED BY <1>2, <1>3, <3>1 DEF OneBuf
  <2> QED BY <1>3, <2>1, <2>2 DEF Once
<1>4. CASE m # x.m
  <2>1. \A o \in P : \A y : y.m = m => (y \in nb[o] <=> y \in b[o])
    BY <1>2, <1>4
  <2>2. NoBuf(b, m) => NoBuf(nb, m)
    BY <1>2, <2>1 DEF NoBuf
  <2>3. OneBuf(b, m) => OneBuf(nb, m)
    BY <1>2, <2>1 DEF OneBuf
  <2> QED BY <1>1, <1>4, <2>2, <2>3 DEF Gone, Once
<1> QED BY <1>3, <1>4

\* The process p puts the messages in its buffer in the queue of the process o.
Handed(P, b, nb, q, nq, p, o) ==
  /\ b \in [P -> SUBSET Mails] /\ q \in [P -> Seq(Entries)] /\ p \in P /\ o \in P
  /\ nb = [b EXCEPT ![p] = {}] /\ nq = [q EXCEPT ![o] = Append(@, Entry("sent", b[p]))]

LEMMA HandPlaced ==
  ASSUME NEW l, NEW P, NEW b, NEW nb, NEW q, NEW nq, NEW f, NEW D, NEW p, NEW o,
         Handed(P, b, nb, q, nq, p, o), Placed(l, b, q, f, D)
  PROVE  Placed(l, nb, nq, f, D)
<1>0. /\ b \in [P -> SUBSET Mails] /\ q \in [P -> Seq(Entries)] /\ p \in P /\ o \in P
      /\ nb = [b EXCEPT ![p] = {}] /\ nq = [q EXCEPT ![o] = Append(@, Entry("sent", b[p]))]
  BY DEF Handed
<1> DEFINE e == Entry("sent", b[p])
           n == Len(q[o]) + 1
<1>1. /\ DOMAIN b = P /\ DOMAIN nb = P /\ nb[p] = {}
      /\ \A r \in P : r # p => nb[r] = b[r]
      /\ DOMAIN q = P /\ DOMAIN nq = P /\ nq[o] = Append(q[o], e)
      /\ \A r \in P : r # o => nq[r] = q[r]
      /\ q[o] \in Seq(Entries) /\ n \in Nat /\ b[p] \subseteq Mails /\ p \in P /\ o \in P
  BY <1>0
<1>2. e \in Entries /\ e.kind \in MailKinds /\ e.val = b[p]
  BY <1>1, EntryProps DEF MailKinds
<1> HIDE DEF e
<1>3. ASSUME NEW k \in Nat, NEW x
      PROVE  Carries(nq[o], k, x) <=> Carries(q[o], k, x) \/ (k = n /\ x \in b[p])
  <2>1. Carries(Append(q[o], e), k, x)
          <=> Carries(q[o], k, x) \/ (k = Len(q[o]) + 1 /\ e.kind \in MailKinds /\ x \in e.val)
    BY <1>1, <1>2, CarriesMoves
  <2> QED BY <1>1, <1>2, <2>1
<1>4. \A x : ~Carries(q[o], n, x)
  BY <1>1, QueueMoves DEF Carries
<1> HIDE DEF n
<1>5. ASSUME NEW m, NoBuf(b, m)
      PROVE  NoBuf(nb, m) /\ (NoWay(q, m) => NoWay(nq, m)) /\ (OneWay(q, m) => OneWay(nq, m))
  <2>1. NoBuf(nb, m) /\ \A x \in b[p] : x.m # m
    BY <1>1, <1>5 DEF NoBuf
  <2>2. \A r \in P, k \in Nat, x \in Mails : x.m = m => (Carries(nq[r], k, x) <=> Carries(q[r], k, x))
    BY <1>1, <1>3, <2>1
  <2>3. NoWay(q, m) => NoWay(nq, m)
    BY <1>1, <2>2 DEF NoWay
  <2>4. OneWay(q, m) => OneWay(nq, m)
    BY <1>1, <2>2 DEF OneWay
  <2> QED BY <2>1, <2>3, <2>4
<1>6. ASSUME NEW m, OneBuf(b, m), NoWay(q, m)
      PROVE  \/ OneBuf(nb, m) /\ NoWay(nq, m)
             \/ NoBuf(nb, m) /\ OneWay(nq, m)
  <2>1. PICK r \in P : \E x \in b[r] :
          x.m = m /\ \A t \in P : \A y \in b[t] : y.m = m => t = r /\ y = x
    BY <1>1, <1>6 DEF OneBuf
  <2>2. PICK x \in b[r] : x.m = m /\ \A t \in P : \A y \in b[t] : y.m = m => t = r /\ y = x
    BY <2>1
  <2>3. CASE r # p
    <3>1. OneBuf(nb, m)
      BY <1>1, <2>2, <2>3 DEF OneBuf
    <3>2. \A y \in b[p] : y.m # m
      BY <1>1, <2>2, <2>3
    <3>3. NoWay(nq, m)
      BY <1>1, <1>3, <1>6, <3>2 DEF NoWay
    <3> QED BY <3>1, <3>3
  <2>4. CASE r = p
    <3>1. NoBuf(nb, m)
      BY <1>1, <2>2, <2>4 DEF NoBuf
    <3>2. x \in Mails /\ Carries(nq[o], n, x)
      BY <1>1, <1>3, <2>4
    <3>3. ASSUME NEW t \in P, NEW j \in Nat, NEW y \in Mails, Carries(nq[t], j, y), y.m = m
          PROVE  t = o /\ j = n /\ y = x
      <4>1. ~Carries(q[t], j, y)
        BY <1>1, <1>6, <3>3 DEF NoWay
      <4>2. t = o /\ j = n /\ y \in b[p]
        BY <1>1, <1>3, <3>3, <4>1
      <4> QED BY <1>1, <2>2, <3>3, <4>2
    <3>4. OneWay(nq, m)
      <4>1. o \in DOMAIN nq /\ n \in Nat /\ x \in Mails /\ Carries(nq[o], n, x) /\ x.m = m
        BY <1>1, <2>2, <3>2
      <4>2. \A t \in DOMAIN nq, j \in Nat, y \in Mails :
              Carries(nq[t], j, y) /\ y.m = m => t = o /\ j = n /\ y = x
        BY <1>1, <3>3
      <4> QED BY <4>1, <4>2 DEF OneWay
    <3> QED BY <3>1, <3>4
  <2> QED BY <2>3, <2>4
<1> QED BY <1>5, <1>6 DEF Placed, Gone, Once

\* The messages in V are taken from the head of the queue of p.
Taken(P, q, nq, p, V) ==
  /\ q \in [P -> Seq(Entries)] /\ p \in P /\ q[p] # <<>>
  /\ Head(q[p]).kind \in MailKinds /\ V = Head(q[p]).val
  /\ nq = [q EXCEPT ![p] = Tail(@)]

\* The message m may be one of them.
Passes(q, nq, V, m) ==
  /\ NoWay(q, m) => NoWay(nq, m) /\ \A x \in V : x.m # m
  /\ OneWay(q, m) =>
       \/ OneWay(nq, m) /\ \A x \in V : x.m # m
       \/ NoWay(nq, m) /\ \E x \in V : x.m = m /\ \A y \in V : y.m = m => y = x

LEMMA TailWays ==
  ASSUME NEW P, NEW q, NEW nq, NEW p, NEW V, NEW m, Taken(P, q, nq, p, V)
  PROVE  V \subseteq Mails /\ Passes(q, nq, V, m)
<1>0. /\ q \in [P -> Seq(Entries)] /\ p \in P /\ q[p] # <<>>
      /\ Head(q[p]).kind \in MailKinds /\ V = Head(q[p]).val
      /\ nq = [q EXCEPT ![p] = Tail(@)]
  BY DEF Taken
<1>1. Head(q[p]) \in Entries /\ q[p] \in Seq(Entries)
  BY <1>0
<1>2. V \subseteq Mails
  BY <1>0, <1>1, EntryProps DEF MailKinds
<1>3. \A x : Carries(q[p], 1, x) <=> x \in V
  BY <1>0, <1>1, CarriesMoves
<1>4. ASSUME NEW k \in Nat, NEW x PROVE Carries(nq[p], k, x) <=> k >= 1 /\ Carries(q[p], k + 1, x)
  <2>1. nq[p] = Tail(q[p])
    BY <1>0
  <2> QED BY <1>0, <1>1, <1>4, <2>1, CarriesMoves
<1>5. DOMAIN q = P /\ DOMAIN nq = P /\ \A r \in P : r # p => nq[r] = q[r]
  BY <1>0
<1>6. ASSUME NoWay(q, m) PROVE NoWay(nq, m) /\ \A x \in V : x.m # m
  <2>1. \A x \in V : x.m # m
    BY <1>0, <1>2, <1>3, <1>5, <1>6 DEF NoWay
  <2>4. ASSUME NEW r \in P, NEW k \in Nat, NEW x \in Mails, Carries(nq[r], k, x) PROVE x.m # m
    <3>1. CASE r = p
      <4>1. Carries(q[p], k + 1, x) /\ k + 1 \in Nat
        BY <1>4, <2>4, <3>1
      <4> QED BY <1>0, <1>5, <1>6, <4>1 DEF NoWay
    <3>2. CASE r # p
      BY <1>5, <1>6, <2>4, <3>2 DEF NoWay
    <3> QED BY <3>1, <3>2
  <2> QED BY <1>5, <2>1, <2>4 DEF NoWay
<1>7. ASSUME OneWay(q, m)
      PROVE  \/ OneWay(nq, m) /\ \A x \in V : x.m # m
             \/ NoWay(nq, m) /\ \E x \in V : x.m = m /\ \A y \in V : y.m = m => y = x
  <2>1. PICK r \in P, k \in Nat, x \in Mails :
          /\ Carries(q[r], k, x) /\ x.m = m
          /\ \A t \in P, j \in Nat, y \in Mails :
               Carries(q[t], j, y) /\ y.m = m => t = r /\ j = k /\ y = x
    BY <1>5, <1>7 DEF OneWay
  <2>2. k >= 1
    <3>1. q[r] \in Seq(Entries)
      BY <1>0
    <3> QED BY <2>1, <3>1, CarriesMoves
  <2>3. ASSUME NEW t \in P, NEW j \in Nat, NEW y \in Mails, Carries(nq[t], j, y), y.m = m
        PROVE  t = r /\ y = x /\ k = IF r = p THEN j + 1 ELSE j
    <3>1. CASE t = p
      <4>1. Carries(q[p], j + 1, y) /\ j + 1 \in Nat
        BY <1>4, <2>3, <3>1
      <4> QED BY <2>1, <2>3, <3>1, <4>1
    <3>2. CASE t # p
      BY <1>5, <2>1, <2>3, <3>2
    <3> QED BY <3>1, <3>2
  <2>4. CASE r = p /\ k = 1
    <3>1. x \in V /\ \A y \in V : y.m = m => y = x
      BY <1>0, <1>2, <1>3, <2>1, <2>4
    <3>2. ASSUME NEW t \in P, NEW j \in Nat, NEW y \in Mails, Carries(nq[t], j, y), y.m = m
          PROVE FALSE
      <4>1. t = p /\ j = 0
        BY <2>3, <2>4, <3>2
      <4>2. j >= 1
        BY <1>4, <3>2, <4>1
      <4> QED BY <4>1, <4>2
    <3> QED BY <1>5, <2>1, <3>1, <3>2 DEF NoWay
  <2>5. CASE ~(r = p /\ k = 1)
    <3>1. \A y \in V : y.m # m
      BY <1>0, <1>2, <1>3, <2>1, <2>5
    <3>2. CASE r = p
      <4>1. k - 1 \in Nat /\ k - 1 >= 1 /\ (k - 1) + 1 = k
        BY <2>2, <2>5, <3>2
      <4>2. Carries(nq[p], k - 1, x)
        BY <1>4, <2>1, <3>2, <4>1
      <4>3. \A t \in P, j \in Nat, y \in Mails : Carries(nq[t], j, y) /\ y.m = m => t = p /\ j = k - 1 /\ y = x
        BY <2>3, <3>2
      <4> QED BY <1>5, <2>1, <3>1, <4>1, <4>2, <4>3 DEF OneWay
    <3>3. CASE r # p
      <4>1. Carries(nq[r], k, x)
        BY <1>5, <2>1, <3>3
      <4>2. \A t \in P, j \in Nat, y \in Mails : Carries(nq[t], j, y) /\ y.m = m => t = r /\ j = k /\ y = x
        BY <2>3, <3>3
      <4> QED BY <1>5, <2>1, <3>1, <4>1, <4>2 DEF OneWay
    <3> QED BY <3>2, <3>3
  <2> QED BY <2>4, <2>5
<1> QED BY <1>2, <1>6, <1>7 DEF Passes

\* Process p takes the messages at the head of its queue into its buffer.
LEMMA CollectPlaced ==
  ASSUME NEW l, NEW P, NEW b, NEW nb, NEW q, NEW nq, NEW f, NEW D, NEW p, NEW V,
         Taken(P, q, nq, p, V), Placed(l, b, q, f, D), b \in [P -> SUBSET Mails],
         nb = [b EXCEPT ![p] = @ \cup V]
  PROVE  Placed(l, nb, nq, f, D)
<1>1. \A m : Passes(q, nq, V, m)
  BY TailWays
<1>2. /\ DOMAIN b = P /\ DOMAIN nb = P /\ nb[p] = b[p] \cup V /\ p \in P
      /\ \A r \in P : r # p => nb[r] = b[r]
  BY DEF Taken
<1>3. ASSUME NEW m, \A x \in V : x.m # m
      PROVE  (NoBuf(b, m) => NoBuf(nb, m)) /\ (OneBuf(b, m) => OneBuf(nb, m))
  <2>0. \A t \in P : \A y : y.m = m => (y \in nb[t] <=> y \in b[t])
    BY <1>2, <1>3
  <2>1. NoBuf(b, m) => NoBuf(nb, m)
    BY <1>2, <2>0 DEF NoBuf
  <2>2. OneBuf(b, m) => OneBuf(nb, m)
    BY <1>2, <2>0 DEF OneBuf
  <2> QED BY <2>1, <2>2
<1>4. ASSUME NEW m, NoBuf(b, m), NEW x \in V, x.m = m, \A y \in V : y.m = m => y = x
      PROVE  OneBuf(nb, m)
  <2>1. \A t \in P : \A y \in nb[t] : y.m = m => t = p /\ y = x
    BY <1>2, <1>4 DEF NoBuf
  <2> QED BY <1>2, <1>4, <2>1 DEF OneBuf
<1>5. ASSUME NEW m \in Msgs
      PROVE  /\ Gone(m, l, b, q) => Gone(m, l, nb, nq)
             /\ Once(m, l, b, q) => Once(m, l, nb, nq)
  BY <1>1, <1>3, <1>4 DEF Gone, Once, Passes
<1> QED BY <1>5 DEF Placed

\* Process p takes the messages at the head of its queue, and puts them in the
\* lists of its simulators.
LEMMA IncomingPlaced ==
  ASSUME NEW l, NEW nl, NEW P, NEW b, NEW q, NEW nq, NEW f, NEW D, NEW p, NEW V,
         Taken(P, q, nq, p, V), Placed(l, b, q, f, D),
         \A s \in Sims : DOMAIN nl[s] = DOMAIN l[s] \cup {x.m : x \in {y \in V : y.to = s}}
  PROVE  Placed(nl, b, nq, f, D)
<1>1. V \subseteq Mails /\ \A m : Passes(q, nq, V, m)
  BY TailWays
<1>2. ASSUME NEW m, \A x \in V : x.m # m
      PROVE  (NoList(l, m) => NoList(nl, m)) /\ (OneList(l, m) => OneList(nl, m))
  <2>1. \A s \in Sims : m \in DOMAIN nl[s] <=> m \in DOMAIN l[s]
    BY <1>2
  <2> QED BY <2>1 DEF NoList, OneList
<1>3. ASSUME NEW m, NoList(l, m), NEW x \in V, x.m = m, \A y \in V : y.m = m => y = x
      PROVE  OneList(nl, m)
  <2>1. x.to \in Sims
    BY <1>1, MailFields
  <2>2. ASSUME NEW s \in Sims PROVE m \in DOMAIN nl[s] <=> s = x.to
    <3>1. m \in DOMAIN nl[s] <=> \E y \in V : y.to = s /\ y.m = m
      BY <1>3 DEF NoList
    <3> QED BY <1>3, <3>1
  <2> QED BY <2>1, <2>2 DEF OneList
<1>4. ASSUME NEW m \in Msgs
      PROVE  /\ Gone(m, l, b, q) => Gone(m, nl, b, nq)
             /\ Once(m, l, b, q) => Once(m, nl, b, nq)
  BY <1>1, <1>2, <1>3 DEF Gone, Once, Passes
<1> QED BY <1>4 DEF Placed

\* The messages in the buffers of the processes in L, which are all messages there
\* are in buffers, go to the lists of their simulators, and in the queues of the
\* others.
Distributed(P, l, nl, b, nb, q, nq, L, h, in) ==
  /\ b \in [P -> SUBSET Mails] /\ q \in [P -> Seq(Entries)] /\ h \in [Sims -> P]
  /\ in = UNION {b[p] : p \in L} /\ L \subseteq P /\ \A p \in P : p \notin L => b[p] = {}
  /\ DOMAIN nb = P /\ (\A p \in P : nb[p] = {}) /\ DOMAIN nq = P
  /\ \A p \in P : nq[p] = IF p \in L THEN q[p]
                          ELSE Append(q[p], Entry("incoming", {x \in in : h[x.to] = p}))
  /\ \A s \in Sims : DOMAIN nl[s] =
        DOMAIN l[s] \cup {x.m : x \in {y \in in : h[y.to] \in L /\ y.to = s}}

LEMMA DistributePlaced ==
  ASSUME NEW l, NEW nl, NEW P, NEW b, NEW nb, NEW q, NEW nq, NEW f, NEW D, NEW L, NEW h, NEW in,
         Distributed(P, l, nl, b, nb, q, nq, L, h, in), Placed(l, b, q, f, D)
  PROVE  Placed(nl, nb, nq, f, D)
<1> SUFFICES
      ASSUME b \in [P -> SUBSET Mails], q \in [P -> Seq(Entries)], h \in [Sims -> P],
             in = UNION {b[p] : p \in L}, L \subseteq P, \A p \in P : p \notin L => b[p] = {},
             DOMAIN nb = P, \A p \in P : nb[p] = {}, DOMAIN nq = P,
             \A p \in P : nq[p] = IF p \in L THEN q[p]
                                  ELSE Append(q[p], Entry("incoming", {x \in in : h[x.to] = p})),
             \A s \in Sims : DOMAIN nl[s] =
                DOMAIN l[s] \cup {x.m : x \in {y \in in : h[y.to] \in L /\ y.to = s}}
      PROVE  Placed(nl, nb, nq, f, D)
  BY DEF Distributed
<1> DEFINE for(p) == {x \in in : h[x.to] = p}
<1>1. in \subseteq Mails /\ \A x \in in : x.to \in Sims /\ h[x.to] \in P
  BY MailFields
<1>2. ASSUME NEW p \in P, NEW k \in Nat, NEW x
      PROVE  Carries(nq[p], k, x) <=> \/ Carries(q[p], k, x)
                                      \/ p \notin L /\ k = Len(q[p]) + 1 /\ x \in for(p)
  <2> DEFINE e == Entry("incoming", for(p))
  <2>1. e \in Entries /\ e.kind \in MailKinds /\ e.val = for(p) /\ q[p] \in Seq(Entries)
    <3>1. for(p) \in SUBSET Mails
      BY <1>1
    <3> HIDE DEF for
    <3> QED BY <3>1, EntryProps DEF MailKinds
  <2>2. nq[p] = IF p \in L THEN q[p] ELSE Append(q[p], e)
    OBVIOUS
  <2> HIDE DEF e, for
  <2>3. Carries(Append(q[p], e), k, x) <=> \/ Carries(q[p], k, x)
                                           \/ k = Len(q[p]) + 1 /\ e.kind \in MailKinds /\ x \in e.val
    BY <2>1, CarriesMoves
  <2> QED BY <2>1, <2>2, <2>3
<1>3. ASSUME NEW m, \A x \in in : x.m # m
      PROVE  /\ NoBuf(nb, m)
             /\ (NoList(l, m) => NoList(nl, m)) /\ (OneList(l, m) => OneList(nl, m))
             /\ (NoWay(q, m) => NoWay(nq, m)) /\ (OneWay(q, m) => OneWay(nq, m))
  <2>1. \A s \in Sims : m \in DOMAIN nl[s] <=> m \in DOMAIN l[s]
    BY <1>3
  <2>2. (NoList(l, m) => NoList(nl, m)) /\ (OneList(l, m) => OneList(nl, m))
    BY <2>1 DEF NoList, OneList
  <2>3. \A p \in P, k \in Nat, x \in Mails : x.m = m => (Carries(nq[p], k, x) <=> Carries(q[p], k, x))
    BY <1>2, <1>3
  <2>4. DOMAIN q = P /\ NoBuf(nb, m)
    BY DEF NoBuf
  <2>5. NoWay(q, m) => NoWay(nq, m)
    BY <2>3, <2>4 DEF NoWay
  <2>6. OneWay(q, m) => OneWay(nq, m)
    BY <2>3, <2>4 DEF OneWay
  <2> QED BY <2>2, <2>4, <2>5, <2>6
<1>4. ASSUME NEW m, NoBuf(b, m) PROVE \A x \in in : x.m # m
  BY <1>4 DEF NoBuf
<1>5. ASSUME NEW m, OneBuf(b, m), NoList(l, m), NoWay(q, m)
      PROVE  NoBuf(nb, m) /\ (\/ OneList(nl, m) /\ NoWay(nq, m)
                              \/ NoList(nl, m) /\ OneWay(nq, m))
  <2>1. PICK x \in in : x.m = m /\ \A y \in in : y.m = m => y = x
    <3>1. PICK p \in P : \E x \in b[p] :
            x.m = m /\ \A t \in P : \A y \in b[t] : y.m = m => t = p /\ y = x
      BY <1>5 DEF OneBuf
    <3>2. PICK x \in b[p] : x.m = m /\ \A t \in P : \A y \in b[t] : y.m = m => t = p /\ y = x
      BY <3>1
    <3>3. x \in in
      OBVIOUS
    <3>4. \A y \in in : y.m = m => y = x
      BY <3>2
    <3> QED BY <3>2, <3>3, <3>4
  <2>2. x.to \in Sims /\ h[x.to] \in P /\ x \in Mails
    BY <1>1
  <2>3. NoBuf(nb, m) /\ DOMAIN q = P
    BY DEF NoBuf
  <2>6. ASSUME NEW s \in Sims
        PROVE  m \in DOMAIN nl[s] <=> \E y \in in : h[y.to] \in L /\ y.to = s /\ y.m = m
    <3>1. m \notin DOMAIN l[s]
      BY <1>5 DEF NoList
    <3>2. DOMAIN nl[s] = DOMAIN l[s] \cup {y.m : y \in {z \in in : h[z.to] \in L /\ z.to = s}}
      OBVIOUS
    <3> QED BY <3>1, <3>2
  <2>4. CASE h[x.to] \in L
    <3>1. ASSUME NEW s \in Sims PROVE m \in DOMAIN nl[s] <=> s = x.to
      BY <2>1, <2>4, <2>6
    <3>2. NoWay(nq, m)
      <4>1. ASSUME NEW p \in P, NEW k \in Nat, NEW y \in Mails, Carries(nq[p], k, y), y.m = m
            PROVE  FALSE
        <5>1. ~Carries(q[p], k, y)
          BY <1>5, <2>3, <4>1 DEF NoWay
        <5>2. p \notin L /\ y \in in /\ h[y.to] = p
          BY <1>2, <4>1, <5>1
        <5> QED BY <2>1, <2>4, <4>1, <5>2
      <4> QED BY <4>1 DEF NoWay
    <3> QED BY <2>2, <2>3, <3>1, <3>2 DEF OneList
  <2>5. CASE h[x.to] \notin L
    <3> DEFINE p == h[x.to]
               n == Len(q[p]) + 1
    <3>1. NoList(nl, m)
      BY <2>1, <2>5, <2>6 DEF NoList
    <3>2. n \in Nat /\ Carries(nq[p], n, x)
      <4>1. q[p] \in Seq(Entries) /\ p \in P /\ p \notin L
        BY <2>2, <2>5
      <4>2. x \in for(p)
        BY <2>1
      <4> HIDE DEF p, for
      <4>3. n \in Nat
        BY <4>1
      <4> QED BY <1>2, <4>1, <4>2, <4>3
    <3>3. ASSUME NEW o \in P, NEW j \in Nat, NEW y \in Mails, Carries(nq[o], j, y), y.m = m
          PROVE  o = p /\ j = n /\ y = x
      <4>1. ~Carries(q[o], j, y)
        BY <1>5, <2>3, <3>3 DEF NoWay
      <4>2. j = Len(q[o]) + 1 /\ y \in for(o)
        BY <1>2, <3>3, <4>1
      <4> QED BY <2>1, <3>3, <4>2
    <3>4. p \in P /\ DOMAIN nq = P
      BY <2>2
    <3> HIDE DEF p, n, for
    <3>5. OneWay(nq, m)
      BY <2>1, <2>2, <3>2, <3>3, <3>4 DEF OneWay
    <3> QED BY <2>3, <3>1, <3>5
  <2> QED BY <2>3, <2>4, <2>5
<1>6. ASSUME NEW m \in Msgs
      PROVE  /\ Gone(m, l, b, q) => Gone(m, nl, nb, nq)
             /\ Once(m, l, b, q) => Once(m, nl, nb, nq)
  <2> HIDE DEF for
  <2> QED BY <1>3, <1>4, <1>5 DEF Gone, Once
<1> QED BY <1>6 DEF Placed

-----------------------------------------------------------------------------
(* Every step keeps the messages *)

\* What is in the queues stays for the processes it is for.
LEMMA HomedStep ==
  ASSUME TypeOK, UNCHANGED setup, Homed,
         \A p \in Procs :
           \/ queue'[p] = queue[p]
           \/ queue[p] # <<>> /\ queue'[p] = Tail(queue[p])
           \/ \E e \in Entries : /\ queue'[p] = Append(queue[p], e)
                                 /\ e.kind = "incoming" => \A x \in e.val : home[x.to] = p
  PROVE  Homed'
<1>1. Procs' = Procs /\ home' = home
  BY Frame
<1>2. ASSUME NEW p \in Procs, NEW k \in DOMAIN queue'[p]
      PROVE  \/ \E j \in DOMAIN queue[p] : queue'[p][k] = queue[p][j]
             \/ queue'[p][k].kind = "incoming" => \A x \in queue'[p][k].val : home[x.to] = p
  <2> DEFINE q == queue[p]
             nq == queue'[p]
  <2>1. q \in Seq(Entries)
    BY DEF TypeOK, ChansTyped
  <2>2. CASE nq = q
    BY <1>2, <2>2
  <2>3. CASE q # <<>> /\ nq = Tail(q)
    <3>1. nq[k] = q[k + 1] /\ DOMAIN nq = 1..Len(q) - 1 /\ DOMAIN q = 1..Len(q) /\ Len(q) \in Nat
      BY <1>2, <2>1, <2>3, QueueMoves
    <3> HIDE DEF q, nq
    <3>2. k \in 1..Len(q) - 1
      BY <1>2, <3>1 DEF nq
    <3>3. k + 1 \in DOMAIN q
      BY <3>1, <3>2
    <3> QED BY <3>1, <3>3 DEF q, nq
  <2>4. CASE \E e \in Entries : /\ nq = Append(q, e)
                                /\ e.kind = "incoming" => \A x \in e.val : home[x.to] = p
    <3>1. PICK e \in Entries : /\ nq = Append(q, e)
                               /\ e.kind = "incoming" => \A x \in e.val : home[x.to] = p
      BY <2>4
    <3>2. /\ DOMAIN nq = 1..Len(q) + 1 /\ nq[Len(q) + 1] = e
          /\ \A j \in DOMAIN q : nq[j] = q[j]
          /\ DOMAIN q = 1..Len(q) /\ Len(q) \in Nat
      BY <2>1, <3>1, QueueMoves
    <3> HIDE DEF q, nq
    <3>3. k \in 1..Len(q) + 1
      BY <1>2, <3>2 DEF nq
    <3>4. k = Len(q) + 1 \/ k \in DOMAIN q
      BY <3>2, <3>3
    <3> QED BY <3>1, <3>2, <3>4 DEF q, nq
  <2> QED BY <2>2, <2>3, <2>4
<1> QED BY <1>1, <1>2 DEF Homed

\* The messages in the buffers and in the queues.
LEMMA KeptProps ==
  ASSUME TypeOK
  PROVE  /\ Kept \in [Procs -> SUBSET Mails] /\ DOMAIN Kept = Procs
         /\ \A p \in Procs : Held(p) => Kept[p] = buf[p]
         /\ \A p \in Procs : ~Held(p) => Kept[p] = {}
         /\ queue \in [Procs -> Seq(Entries)]
<1>1. buf \in [Procs -> SUBSET Mails] /\ queue \in [Procs -> Seq(Entries)]
  BY DEF TypeOK, BufsTyped, ChansTyped
<1> QED BY <1>1 DEF Kept

\* Process 0 of a rank holds its messages.
LEMMA LeadHeld ==
  ASSUME TypeOK, Control, NEW p \in Leads
  PROVE  Held(p) /\ pc[p] \notin {"start", "unborn", "cmd"} /\ p \in Procs
<1>1. pc[p] \in Resting \cup Opening \cup Running
  BY DEF Control, Stage
<1> QED BY <1>1, LeadFacts DEF TypeOK, Held, Resting, Opening, Running

AllHeld == \A p \in Leads : Held(p) /\ pc[p] # "unborn"

LEMMA LeadsHeld == TypeOK' /\ Control' => AllHeld'
<1>1. TypeOK /\ Control => AllHeld
  BY LeadHeld DEF AllHeld
<1> QED BY <1>1, PTL

\* Steps that move no message.
LEMMA QuietPlaces ==
  ASSUME TypeOK, Delivery, TypeOK', UNCHANGED setup, UNCHANGED <<list, fresh, done>>,
         Kept' = Kept, Unborn', \A p \in Procs : Quiet(queue[p], queue'[p])
  PROVE  Delivery'
<1>1. Procs' = Procs
  BY Frame
<1>2. queue \in [Procs -> Seq(Entries)] /\ queue' \in [Procs -> Seq(Entries)]
  BY <1>1 DEF TypeOK, ChansTyped
<1>4. Placed(list, Kept, queue', fresh, DOMAIN done)
  <2>1. ASSUME NEW m
        PROVE  /\ NoWay(queue, m) => NoWay(queue', m)
               /\ OneWay(queue, m) => OneWay(queue', m)
    BY <1>2, QuietWays
  <2> QED BY <2>1 DEF Delivery, Placed, Gone, Once
<1>5. Placed(list, Kept, queue, fresh, DOMAIN done)'
  <2>1. list' = list /\ fresh' = fresh /\ done' = done
    OBVIOUS
  <2> QED BY <1>4, <2>1 DEF Placed, Gone, Once
<1>6. Homed'
  <2>1. ASSUME NEW p \in Procs
        PROVE  \/ queue'[p] = queue[p]
               \/ queue[p] # <<>> /\ queue'[p] = Tail(queue[p])
               \/ \E e \in Entries : /\ queue'[p] = Append(queue[p], e)
                                     /\ e.kind = "incoming" => \A x \in e.val : home[x.to] = p
    BY DEF Quiet, MailKinds
  <2> QED BY <2>1, HomedStep DEF Delivery
<1> QED BY <1>5, <1>6 DEF Delivery

LEMMA QuietStep ==
  ASSUME TypeOK, Control, Delivery, TypeOK', Control', UNCHANGED setup,
         UNCHANGED <<list, fresh, done, buf>>,
         \A p \in Procs : Quiet(queue[p], queue'[p]),
         \A p \in Procs : \/ p \in Leads \/ pc'[p] = pc[p]
                          \/ /\ pc[p] \notin {"start", "exchange", "unborn"}
                             /\ pc'[p] \notin {"start", "exchange", "unborn"}
  PROVE  Delivery'
<1>1. Procs' = Procs /\ Leads' = Leads
  BY Frame
<1>3. Kept' = Kept
  <2>1. ASSUME NEW p \in Procs PROVE Held(p)' <=> Held(p)
    <3>1. CASE p \in Leads
      <4>1. Held(p) /\ Held(p)'
        BY <1>1, <3>1, LeadHeld, LeadsHeld DEF AllHeld
      <4> QED BY <4>1
    <3>2. CASE p \notin Leads
      BY <1>1, <3>2 DEF Held
    <3> QED BY <3>1, <3>2
  <2> QED BY <1>1, <2>1 DEF Kept
<1>7. Unborn'
  <2>1. ASSUME NEW p \in Procs, pc'[p] = "unborn" PROVE buf'[p] = {}
    <3>1. CASE p \in Leads
      BY <1>1, <2>1, <3>1, LeadsHeld DEF AllHeld
    <3>2. CASE p \notin Leads
      BY <2>1, <3>2 DEF Delivery, Unborn
    <3> QED BY <3>1, <3>2
  <2> QED BY <1>1, <2>1 DEF Unborn
<1> QED BY <1>3, <1>7, QuietPlaces

\* Instructions that are not messages, and answers that are not.
LEMMA QuietQueues ==
  ASSUME TypeOK
  PROVE  /\ \A q : Quiet(q, q)
         /\ \A R, kind, vals : kind \notin MailKinds =>
              \A p \in Procs : Entry(kind, vals[p]) \in Entries => Quiet(queue[p], Instruct(R, kind, vals)[p])
         /\ \A p \in Procs : \A kind, val : kind \notin MailKinds /\ Entry(kind, val) \in Entries =>
              \A o \in Procs : Quiet(queue[o], Report(p, kind, val)[o])
<1>1. \A k, v : Entry(k, v).kind = k
  BY EntryProps
<1>2. queue \in [Procs -> Seq(Entries)] /\ SetupOK /\ ChansTyped
  BY DEF TypeOK, ChansTyped
<1>3. ASSUME NEW R, NEW kind, NEW vals, kind \notin MailKinds, NEW p \in Procs, Entry(kind, vals[p]) \in Entries
      PROVE  Quiet(queue[p], Instruct(R, kind, vals)[p])
  <2>1. Instruct(R, kind, vals)[p] = IF p[1] \in R /\ p \notin Leads
                                     THEN Append(queue[p], Entry(kind, vals[p])) ELSE queue[p]
    BY DEF Instruct
  <2> QED BY <1>1, <1>3, <2>1 DEF Quiet
<1>4. ASSUME NEW p \in Procs, NEW kind, NEW val, kind \notin MailKinds, Entry(kind, val) \in Entries, NEW o \in Procs
      PROVE  Quiet(queue[o], Report(p, kind, val)[o])
  <2>1. \/ Report(p, kind, val)[o] = queue[o]
        \/ Report(p, kind, val)[o] = Append(queue[o], Entry(kind, val))
    BY <1>2, <1>4 DEF Report
  <2> QED BY <1>1, <1>4, <2>1 DEF Quiet
<1> QED BY <1>3, <1>4 DEF Quiet

\* The steps of the program of a rank, and the end of a report.
LEMMA MainQuiet ==
  ASSUME TypeOK, Control, Delivery, TypeOK', Control', NEW r \in Ranks, NEW u, NEW given,
         \/ Created(r) \/ Run(u, given) \/ Command(r) \/ ShowReport \/ RunFinish(r) \/ Join(r)
         \/ Reported
  PROVE  Delivery'
<1>1. /\ UNCHANGED setup /\ UNCHANGED <<list, fresh, done, buf>>
      /\ queue' = queue \/ queue' = Instruct({r}, "stop", [p \in Procs |-> 0])
  BY DEF Created, Run, Command, ShowReport, RunFinish, Join, Reported, sims, bufs, chans
<1>2. ASSUME NEW p \in Procs PROVE p \in Leads \/ pc'[p] = pc[p]
  <2>1. pc \in [Procs -> Places] /\ Lead(0) \in Leads /\ Lead(r) \in Leads
    BY LeadFacts DEF TypeOK, PlacesTyped
  <2> QED BY <2>1 DEF Created, Run, Command, ShowReport, RunFinish, Join, Reported
<1>3. ASSUME NEW p \in Procs PROVE Quiet(queue[p], queue'[p])
  <2>1. Entry("stop", [o \in Procs |-> 0][p]) \in Entries /\ "stop" \notin MailKinds
    BY EntryProps DEF MailKinds
  <2>2. Quiet(queue[p], Instruct({r}, "stop", [o \in Procs |-> 0])[p]) /\ Quiet(queue[p], queue[p])
    BY <2>1, QuietQueues
  <2> QED BY <1>1, <2>2
<1> QED BY <1>1, <1>2, <1>3, QuietStep

\* The other steps of a process that move no messages.
LEMMA ProcQuiet ==
  ASSUME TypeOK, Control, Delivery, TypeOK', Control', NEW p \in Procs,
         \/ ChildCommand(p) \/ ChildWindow(p) \/ Peek(p) \/ Finish(p) \/ Tell(p)
         \/ p \in Leads /\ HandOver(p)
  PROVE  Delivery'
<1>0. pc \in [Procs -> Places] /\ queue \in [Procs -> Seq(Entries)]
  BY DEF TypeOK, PlacesTyped, ChansTyped
<1>1. UNCHANGED setup /\ UNCHANGED <<list, fresh, done, buf>>
  BY DEF ChildCommand, ChildWindow, Peek, Finish, Tell, HandOver, sims, bufs
<1>2. queue[p] # <<>> => /\ pc[p] = "cmd" => Head(queue[p]).kind \in {"run", "report", "stop"}
                         /\ pc[p] = "window" /\ p \notin Leads => Head(queue[p]).kind = "horizon"
  BY InStep DEF QueuesInStep, Expected
<1>3. ASSUME NEW o \in Procs
      PROVE  \/ o \in Leads \/ pc'[o] = pc[o]
             \/ /\ pc[o] \notin {"start", "exchange", "unborn"}
                /\ pc'[o] \notin {"start", "exchange", "unborn"}
  <2>1. CASE ChildCommand(p)
    <3>1. /\ Head(queue[p]).kind \in {"run", "report", "stop"} /\ pc[p] = "cmd"
          /\ pc' = [pc EXCEPT ![p] = CASE Head(queue[p]).kind = "run" -> "peek"
                                     [] Head(queue[p]).kind = "report" -> "tell"
                                     [] Head(queue[p]).kind = "stop" -> "ended"]
      BY <1>2, <2>1 DEF ChildCommand
    <3>2. pc'[p] \in {"peek", "tell", "ended"} /\ (o # p => pc'[o] = pc[o])
      BY <1>0, <3>1
    <3> QED BY <3>1, <3>2
  <2>2. CASE ChildWindow(p)
    BY <1>0, <2>2 DEF ChildWindow, Opened, Over
  <2>3. CASE Peek(p)
    BY <1>0, <2>3 DEF Peek
  <2>4. CASE Finish(p)
    BY <1>0, <2>4 DEF Finish
  <2>5. CASE Tell(p)
    BY <1>0, <2>5 DEF Tell
  <2>6. CASE p \in Leads /\ HandOver(p)
    BY <1>0, <2>6 DEF HandOver
  <2> QED BY <2>1, <2>2, <2>3, <2>4, <2>5, <2>6
<1>4. ASSUME NEW o \in Procs PROVE Quiet(queue[o], queue'[o])
  <2>0. Quiet(queue[o], queue[o])
    BY QuietQueues
  <2>1. CASE ChildCommand(p) \/ ChildWindow(p)
    <3>1. queue[p] # <<>> /\ queue' = [queue EXCEPT ![p] = Tail(@)] /\ Head(queue[p]).kind \notin MailKinds
      BY <1>2, <2>1 DEF ChildCommand, ChildWindow, MailKinds
    <3>2. IF o = p THEN queue'[o] = Tail(queue[o]) ELSE queue'[o] = queue[o]
      BY <1>0, <3>1
    <3> QED BY <2>0, <3>1, <3>2 DEF Quiet
  <2>2. CASE Peek(p)
    <3>1. Window(p) \in Limits
      BY WindowProps DEF TypeOK
    <3>2. Entry("horizon", Window(p)) \in Entries /\ "horizon" \notin MailKinds
      BY <3>1, EntryProps DEF MailKinds
    <3> QED BY <2>2, <3>2, QuietQueues DEF Peek
  <2>3. CASE Finish(p)
    BY <2>0, <2>3 DEF Finish, chans
  <2>4. CASE Tell(p)
    <3>1. Executed(p) \in Figures
      <4>1. {i \in DOMAIN done : done[i] \in ToSet(parts[p])} \in SUBSET Items
        BY DEF TypeOK, SimsTyped
      <4> QED BY <4>1 DEF Executed, Figures
    <3>2. Entry("figures", Executed(p)) \in Entries /\ "figures" \notin MailKinds
      BY <3>1, EntryProps DEF MailKinds
    <3>3. Entry("report", [q \in Procs |-> 0][o]) \in Entries /\ "report" \notin MailKinds
      BY EntryProps DEF MailKinds
    <3>4. queue' = Instruct({p[1]}, "report", [q \in Procs |-> 0]) \/ queue' = Report(p, "figures", Executed(p))
      BY <2>4 DEF Tell
    <3>5. Quiet(queue[o], Instruct({p[1]}, "report", [q \in Procs |-> 0])[o])
      BY <3>3, QuietQueues
    <3>6. Quiet(queue[o], Report(p, "figures", Executed(p))[o])
      BY <3>2, QuietQueues
    <3> QED BY <3>4, <3>5, <3>6
  <2>5. CASE p \in Leads /\ HandOver(p)
    <3>1. queue' = queue
      BY <1>0, <2>5 DEF HandOver, Report
    <3> QED BY <2>0, <3>1
  <2> QED BY <2>1, <2>2, <2>3, <2>4, <2>5
<1> QED BY <1>1, <1>3, <1>4, QuietStep

\* Process 0 of a rank counts an answer that is no message.
LEMMA GatherQuiet ==
  ASSUME TypeOK, Control, Delivery, TypeOK', Control', NEW r \in Ranks, Gather(r) \/ Sum(r)
  PROVE  Delivery'
<1> DEFINE p == Lead(r)
<1>0. queue \in [Procs -> Seq(Entries)] /\ p \in Procs /\ p \in Leads
  BY LeadFacts DEF TypeOK, ChansTyped
<1>1. /\ UNCHANGED setup /\ UNCHANGED <<list, fresh, done, buf>> /\ pc' = pc
      /\ queue[p] # <<>> /\ queue' = [queue EXCEPT ![p] = Tail(@)]
      /\ pc[p] \in {"window", "report"}
  BY DEF Gather, Sum, sims, bufs
<1>2. Head(queue[p]).kind \notin MailKinds
  BY <1>0, <1>1, InStep DEF QueuesInStep, Expected, MailKinds
<1>3. ASSUME NEW o \in Procs PROVE Quiet(queue[o], queue'[o])
  <2>1. IF o = p THEN queue'[o] = Tail(queue[o]) ELSE queue'[o] = queue[o]
    BY <1>0, <1>1
  <2> QED BY <1>1, <1>2, <2>1 DEF Quiet
<1> HIDE DEF p
<1> QED BY <1>1, <1>3, QuietStep

\* The ranks agree on a window.
LEMMA AnnounceQuiet ==
  ASSUME TypeOK, Control, Delivery, TypeOK', Control', Announce
  PROVE  Delivery'
<1> DEFINE h == Min({horizon[p] : p \in Leads})
<1>1. /\ UNCHANGED setup /\ UNCHANGED <<list, fresh, done, buf>>
      /\ queue' = Instruct(Ranks, "horizon", [p \in Procs |-> h])
      /\ pc' = [p \in Procs |-> IF p \in Leads THEN Opened(p, h) ELSE pc[p]]
  BY DEF Announce, sims, bufs
<1>2. h \in Limits
  <2>1. horizon \in [Procs -> Limits] /\ SetupOK
    BY DEF TypeOK, WindowTyped
  <2> QED BY <2>1, LeastProps
<1>3. Entry("horizon", h) \in Entries /\ "horizon" \notin MailKinds
  BY <1>2, EntryProps DEF MailKinds
<1> HIDE DEF h
<1>4. ASSUME NEW o \in Procs PROVE Quiet(queue[o], queue'[o])
  <2>1. Entry("horizon", [p \in Procs |-> h][o]) \in Entries
    BY <1>3
  <2> QED BY <1>1, <1>3, <2>1, QuietQueues
<1>5. \A o \in Procs : o \in Leads \/ pc'[o] = pc[o]
  BY <1>1
<1> QED BY <1>1, <1>4, <1>5, QuietStep

\* The processes start their simulators: those that are born get copies of the
\* messages of process 0, which they do not send.
LEMMA AgreePlaced ==
  ASSUME TypeOK, Control, Delivery, TypeOK', Control', Agree
  PROVE  Delivery'
<1> DEFINE u == Min({upper[p] : p \in Leads})
           given == \E p \in Leads : spec[p]
           born == {p \in Procs : pc[p] = "unborn"}
<1>1. /\ UNCHANGED setup /\ UNCHANGED <<list, fresh, done>>
      /\ \A p \in Leads : pc[p] = "agree"
      /\ queue' = Instruct(Ranks, "run", [p \in Procs |-> <<u, given>>])
      /\ pc' = [p \in Procs |-> CASE p \in Leads -> "peek"
                                  [] p \in born -> "start"
                                  [] OTHER -> pc[p]]
      /\ buf' = [p \in Procs |-> IF p \in born THEN buf[Lead(p[1])] ELSE buf[p]]
  BY DEF Agree, sims
<1>2. Procs' = Procs /\ Leads' = Leads
  BY <1>1, Frame
<1>3. ASSUME NEW p \in Procs
      PROVE  /\ p \in Leads => pc'[p] = "peek" /\ buf'[p] = buf[p]
             /\ p \notin Leads /\ pc[p] = "unborn" => pc'[p] = "start" /\ buf[p] = {}
             /\ p \notin Leads /\ pc[p] # "unborn" => pc'[p] = pc[p] /\ buf'[p] = buf[p]
  BY <1>1 DEF Delivery, Unborn
<1>4. Kept' = Kept
  <2>1. ASSUME NEW p \in Procs
        PROVE  (IF Held(p)' THEN buf'[p] ELSE {}) = (IF Held(p) THEN buf[p] ELSE {})
    <3>1. CASE p \in Leads
      BY <1>1, <1>2, <1>3, <3>1 DEF Held
    <3>2. CASE p \notin Leads
      BY <1>2, <1>3, <3>2 DEF Held
    <3> QED BY <3>1, <3>2
  <2> QED BY <1>2, <2>1 DEF Kept
<1>5. Unborn'
  <2>1. ASSUME NEW p \in Procs PROVE pc'[p] # "unborn"
    BY <1>1, <1>3
  <2> QED BY <1>2, <2>1 DEF Unborn
<1>6. ASSUME NEW o \in Procs PROVE Quiet(queue[o], queue'[o])
  <2>1. u \in Limits
    <3>1. upper \in [Procs -> Limits] /\ SetupOK
      BY DEF TypeOK, ArgsTyped
    <3> QED BY <3>1, LeastProps
  <2>2. given \in BOOLEAN
    OBVIOUS
  <2> HIDE DEF u, given
  <2>3. Entry("run", <<u, given>>) \in Entries /\ "run" \notin MailKinds
    BY <2>1, <2>2, EntryProps DEF MailKinds
  <2>4. Entry("run", [p \in Procs |-> <<u, given>>][o]) \in Entries
    BY <2>3
  <2> QED BY <1>1, <2>3, <2>4, QuietQueues
<1> QED BY <1>1, <1>4, <1>5, <1>6, QuietPlaces

\* A child drops its copies.
LEMMA StartPlaced ==
  ASSUME TypeOK, Control, Delivery, TypeOK', Control', NEW p \in Procs, ChildStart(p)
  PROVE  Delivery'
<1>1. /\ UNCHANGED setup /\ UNCHANGED <<list, fresh, done, queue>>
      /\ pc[p] = "start" /\ pc' = [pc EXCEPT ![p] = "cmd"] /\ buf' = [buf EXCEPT ![p] = {}]
  BY DEF ChildStart, sims, chans
<1>2. Procs' = Procs /\ Leads' = Leads
  BY <1>1, Frame
<1>3. ASSUME NEW o \in Procs
      PROVE  IF o = p THEN pc'[o] = "cmd" /\ buf'[o] = {} ELSE pc'[o] = pc[o] /\ buf'[o] = buf[o]
  <2>1. pc \in [Procs -> Places] /\ buf \in [Procs -> SUBSET Mails]
    BY DEF TypeOK, PlacesTyped, BufsTyped
  <2> QED BY <1>1, <2>1
<1>4. Kept' = Kept
  <2>1. ASSUME NEW o \in Procs
        PROVE  (IF Held(o)' THEN buf'[o] ELSE {}) = (IF Held(o) THEN buf[o] ELSE {})
    <3>1. CASE o = p
      BY <1>1, <1>3, <3>1 DEF Held
    <3>2. CASE o # p
      BY <1>2, <1>3, <3>2 DEF Held
    <3> QED BY <3>1, <3>2
  <2> QED BY <1>2, <2>1 DEF Kept
<1>5. Unborn'
  BY <1>2, <1>3 DEF Delivery, Unborn
<1>6. \A o \in Procs : Quiet(queue[o], queue'[o])
  BY <1>1 DEF Quiet
<1> QED BY <1>1, <1>4, <1>5, <1>6, QuietPlaces

\* Process 0 of a rank takes the messages of a child.
LEMMA CollectKeeps ==
  ASSUME TypeOK, Control, Delivery, TypeOK', Control', NEW r \in Ranks, Collect(r)
  PROVE  Delivery'
<1> DEFINE p == Lead(r)
           V == Head(queue[p]).val
<1>0. p \in Procs /\ p \in Leads
  BY LeadFacts DEF TypeOK
<1>1. /\ UNCHANGED setup /\ UNCHANGED <<list, fresh, done, pc>>
      /\ pc[p] = "exchange" /\ queue[p] # <<>>
      /\ buf' = [buf EXCEPT ![p] = @ \cup V] /\ queue' = [queue EXCEPT ![p] = Tail(@)]
  BY DEF Collect, sims
<1>2. Procs' = Procs /\ Leads' = Leads
  BY <1>1, Frame
<1>3. Head(queue[p]).kind = "sent" /\ Head(queue[p]).kind \in MailKinds
  BY <1>0, <1>1, InStep DEF QueuesInStep, Expected, MailKinds
<1> HIDE DEF p, V
<1>4. /\ buf \in [Procs -> SUBSET Mails] /\ Held(p)
      /\ Kept \in [Procs -> SUBSET Mails] /\ queue \in [Procs -> Seq(Entries)]
      /\ \A o \in Procs : Held(o)' <=> Held(o)
  BY <1>0, <1>1, <1>2, KeptProps, LeadHeld DEF TypeOK, BufsTyped, Held
<1>5. Kept' = [Kept EXCEPT ![p] = @ \cup V]
  <2>1. ASSUME NEW o \in Procs PROVE Kept'[o] = IF o = p THEN Kept[o] \cup V ELSE Kept[o]
    BY <1>1, <1>2, <1>4 DEF Kept
  <2>2. DOMAIN Kept' = Procs /\ Kept' = [o \in Procs |-> Kept'[o]]
    BY <1>2 DEF Kept
  <2> QED BY <1>4, <2>1, <2>2
<1>6. Placed(list, Kept', queue', fresh, DOMAIN done)
  <2>1. Placed(list, Kept, queue, fresh, DOMAIN done)
    BY DEF Delivery
  <2>2. Taken(Procs, queue, queue', p, V)
    BY <1>0, <1>1, <1>3, <1>4 DEF Taken, V, p
  <2> QED BY <1>4, <1>5, <2>1, <2>2, CollectPlaced
<1>7. Placed(list, Kept, queue, fresh, DOMAIN done)'
  <2>1. list' = list /\ fresh' = fresh /\ done' = done
    BY <1>1
  <2> QED BY <1>6, <2>1 DEF Placed, Gone, Once
<1>8. Homed'
  <2>1. \A o \in Procs : queue'[o] = queue[o] \/ (queue[o] # <<>> /\ queue'[o] = Tail(queue[o]))
    BY <1>0, <1>1, <1>4
  <2> QED BY <1>1, <2>1, HomedStep DEF Delivery
<1>9. Unborn'
  BY <1>0, <1>1, <1>2, <1>4 DEF Delivery, Unborn
<1> QED BY <1>7, <1>8, <1>9 DEF Delivery

\* A child hands its messages over.
LEMMA HandKeeps ==
  ASSUME TypeOK, Control, Delivery, TypeOK', Control', NEW p \in Procs, p \notin Leads, HandOver(p)
  PROVE  Delivery'
<1> DEFINE o == Lead(p[1])
           e == Entry("sent", buf[p])
<1>0. /\ buf \in [Procs -> SUBSET Mails] /\ pc \in [Procs -> Places]
      /\ Kept \in [Procs -> SUBSET Mails] /\ queue \in [Procs -> Seq(Entries)]
      /\ o \in Procs
  BY KeptProps, LeadFacts DEF TypeOK, BufsTyped, PlacesTyped
<1>1. /\ UNCHANGED setup /\ UNCHANGED <<list, fresh, done, buf>>
      /\ pc[p] = "run" /\ pc' = [pc EXCEPT ![p] = "exchange"]
      /\ queue' = [queue EXCEPT ![o] = Append(@, e)]
  BY DEF HandOver, Report, sims, bufs
<1>2. Procs' = Procs /\ Leads' = Leads
  BY <1>1, Frame
<1> HIDE DEF o, e
<1>3. Kept[p] = buf[p]
  BY <1>1, KeptProps DEF Held
<1>4. Kept' = [Kept EXCEPT ![p] = {}]
  <2>1. ASSUME NEW t \in Procs PROVE Kept'[t] = IF t = p THEN {} ELSE Kept[t]
    <3>1. pc'[t] = IF t = p THEN "exchange" ELSE pc[t]
      BY <1>0, <1>1
    <3>2. t # p => (Held(t)' <=> Held(t))
      BY <1>2, <3>1 DEF Held
    <3>3. ~Held(p)'
      BY <1>0, <1>1, <1>2 DEF Held
    <3> QED BY <1>1, <1>2, <3>2, <3>3 DEF Kept
  <2>2. DOMAIN Kept' = Procs /\ Kept' = [t \in Procs |-> Kept'[t]]
    BY <1>2 DEF Kept
  <2> QED BY <1>0, <2>1, <2>2
<1>5. Placed(list, Kept', queue', fresh, DOMAIN done)
  <2>1. Placed(list, Kept, queue, fresh, DOMAIN done)
    BY DEF Delivery
  <2>2. queue' = [queue EXCEPT ![o] = Append(@, Entry("sent", Kept[p]))]
    BY <1>1, <1>3 DEF e
  <2>3. Handed(Procs, Kept, Kept', queue, queue', p, o)
    BY <1>0, <1>4, <2>2 DEF Handed
  <2> QED BY <2>1, <2>3, HandPlaced
<1>6. Placed(list, Kept, queue, fresh, DOMAIN done)'
  <2>1. list' = list /\ fresh' = fresh /\ done' = done
    BY <1>1
  <2> QED BY <1>5, <2>1 DEF Placed, Gone, Once
<1>7. Homed'
  <2>1. e \in Entries /\ e.kind # "incoming"
    BY <1>0, EntryProps DEF e
  <2>2. \A t \in Procs : queue'[t] = queue[t] \/ queue'[t] = Append(queue[t], e)
    BY <1>0, <1>1
  <2> QED BY <1>1, <2>1, <2>2, HomedStep DEF Delivery
<1>8. Unborn'
  <2>1. \A t \in Procs : pc'[t] = "unborn" => pc[t] = "unborn"
    BY <1>0, <1>1
  <2> QED BY <1>1, <1>2, <2>1 DEF Delivery, Unborn
<1> QED BY <1>6, <1>7, <1>8 DEF Delivery

\* The lists, buffers and places after a delivery to the processes of P.
LEMMA DeliverPlaces ==
  ASSUME TypeOK, NEW P, NEW in, Deliver(P, in)
  PROVE  /\ UNCHANGED setup /\ UNCHANGED <<fresh, done>>
         /\ \A s \in Sims : DOMAIN list'[s] =
              DOMAIN list[s] \cup {x.m : x \in {y \in in : home[y.to] \in P /\ y.to = s}}
         /\ \A p \in Procs : p \in P => buf'[p] = {} /\ pc'[p] \notin {"start", "exchange", "unborn"}
         /\ \A p \in Procs : p \notin P => buf'[p] = buf[p] /\ pc'[p] = pc[p]
<1> DEFINE mine == {x \in in : home[x.to] \in P}
           mails(s) == {x.m : x \in {y \in mine : y.to = s}}
           f(s) == [i \in DOMAIN list[s] \cup mails(s) |->
                      IF \E x \in mine : x.m = i /\ x.to = s
                      THEN (CHOOSE x \in mine : x.m = i).at ELSE list[s][i]]
<1>1. /\ list' = [s \in Sims |-> f(s)]
      /\ buf' = [p \in Procs |-> IF p \in P THEN {} ELSE buf[p]]
      /\ pc' = [p \in Procs |-> IF p \notin P THEN pc[p]
                                ELSE IF horizon[p] >= upper[p] THEN Over(p) ELSE "peek"]
      /\ UNCHANGED setup /\ UNCHANGED <<fresh, done>>
  BY DEF Deliver
<1>2. ASSUME NEW s \in Sims
      PROVE  DOMAIN list'[s] =
               DOMAIN list[s] \cup {x.m : x \in {y \in in : home[y.to] \in P /\ y.to = s}}
  <2>1. list'[s] = f(s) /\ DOMAIN f(s) = DOMAIN list[s] \cup mails(s)
    BY <1>1
  <2>2. {y \in mine : y.to = s} = {y \in in : home[y.to] \in P /\ y.to = s}
    OBVIOUS
  <2> HIDE DEF f
  <2> QED BY <2>1, <2>2
<1>3. \A p : Over(p) \notin {"start", "exchange", "unborn"}
  BY DEF Over
<1> HIDE DEF f
<1> QED BY <1>1, <1>2, <1>3

\* The messages are handed out.
LEMMA DistributeKeeps ==
  ASSUME TypeOK, Control, Delivery, TypeOK', Control', Distribute
  PROVE  Delivery'
<1> DEFINE in == UNION {buf[q] : q \in Leads}
<1>1. Deliver(Leads, in) /\ queue' = Instruct(Ranks, "incoming", [p \in Procs |-> For(p)])
  BY DEF Distribute
<1>2. /\ UNCHANGED setup /\ UNCHANGED <<fresh, done>>
      /\ \A s \in Sims : DOMAIN list'[s] =
           DOMAIN list[s] \cup {x.m : x \in {y \in in : home[y.to] \in Leads /\ y.to = s}}
      /\ \A p \in Procs : p \in Leads => buf'[p] = {} /\ pc'[p] \notin {"start", "exchange", "unborn"}
      /\ \A p \in Procs : p \notin Leads => buf'[p] = buf[p] /\ pc'[p] = pc[p]
  BY <1>1, DeliverPlaces
<1>3. Procs' = Procs /\ Leads' = Leads /\ home' = home
  BY <1>2, Frame
<1>4. ASSUME NEW p \in Procs, p \notin Leads PROVE pc[p] = "exchange"
  <2>1. p[1] \in Ranks /\ p \in Children(p[1]) /\ "exchange" \in Collecting /\ Complete("exchange")
    BY <1>4, LeadFacts DEF TypeOK, Collecting, Distribute
  <2>2. Replied("exchange", pc[p], queue[p])
    BY <2>1, AllAnswered
  <2> QED BY <2>2 DEF Replied, Opening, Running
<1>5. /\ Kept \in [Procs -> SUBSET Mails] /\ queue \in [Procs -> Seq(Entries)]
      /\ Leads \subseteq Procs /\ home \in [Sims -> Procs]
      /\ \A p \in Leads : Kept[p] = buf[p]
      /\ \A p \in Procs : p \notin Leads => Kept[p] = {}
  BY <1>4, KeptProps, LeadFacts, LeadHeld DEF TypeOK, SetupOK, Held
<1>6. in = UNION {Kept[p] : p \in Leads}
  BY <1>5
<1>7. DOMAIN Kept' = Procs /\ \A p \in Procs : Kept'[p] = {}
  BY <1>2, <1>3, <1>4 DEF Kept, Held
<1>8. \A p : For(p) = {x \in in : home[x.to] = p}
  BY DEF For
<1> HIDE DEF in
<1>9. ASSUME NEW p \in Procs
      PROVE  queue'[p] = IF p \in Leads THEN queue[p]
                         ELSE Append(queue[p], Entry("incoming", {x \in in : home[x.to] = p}))
  <2>1. p \notin Leads => p[1] \in Ranks
    BY LeadFacts DEF TypeOK
  <2> QED BY <1>1, <1>8, <2>1 DEF Instruct
<1>10. Placed(list', Kept', queue', fresh, DOMAIN done)
  <2>1. Placed(list, Kept, queue, fresh, DOMAIN done)
    BY DEF Delivery
  <2>2. DOMAIN queue' = Procs
    BY <1>1 DEF Instruct
  <2>3. Distributed(Procs, list, list', Kept, Kept', queue, queue', Leads, home, in)
    BY <1>2, <1>5, <1>6, <1>7, <1>9, <2>2 DEF Distributed
  <2> QED BY <2>1, <2>3, DistributePlaced
<1>11. Placed(list, Kept, queue, fresh, DOMAIN done)'
  <2>1. fresh' = fresh /\ done' = done
    BY <1>2
  <2> QED BY <1>10, <2>1 DEF Placed, Gone, Once
<1>12. Homed'
  <2>1. ASSUME NEW p \in Procs
        PROVE  \/ queue'[p] = queue[p]
               \/ \E e \in Entries : /\ queue'[p] = Append(queue[p], e)
                                     /\ e.kind = "incoming" => \A x \in e.val : home[x.to] = p
    <3> DEFINE V == {x \in in : home[x.to] = p}
    <3>1. V \in SUBSET Mails
      BY <1>5, <1>6
    <3>2. \A x \in V : home[x.to] = p
      OBVIOUS
    <3>3. queue'[p] = queue[p] \/ queue'[p] = Append(queue[p], Entry("incoming", V))
      BY <1>9
    <3> HIDE DEF V
    <3>4. Entry("incoming", V) \in Entries /\ Entry("incoming", V).val = V
      BY <3>1, EntryProps
    <3> QED BY <3>2, <3>3, <3>4
  <2> QED BY <1>2, <2>1, HomedStep DEF Delivery
<1>13. Unborn'
  BY <1>2, <1>3, <1>4 DEF Unborn
<1> QED BY <1>11, <1>12, <1>13 DEF Delivery

\* A child takes its messages.
LEMMA IncomingKeeps ==
  ASSUME TypeOK, Control, Delivery, TypeOK', Control', NEW p \in Procs, ChildIncoming(p)
  PROVE  Delivery'
<1> DEFINE V == Head(queue[p]).val
<1>1. /\ p \notin Leads /\ pc[p] = "exchange" /\ queue[p] # <<>>
      /\ queue' = [queue EXCEPT ![p] = Tail(@)] /\ Deliver({p}, V)
  BY DEF ChildIncoming
<1>2. /\ UNCHANGED setup /\ UNCHANGED <<fresh, done>>
      /\ \A s \in Sims : DOMAIN list'[s] =
           DOMAIN list[s] \cup {x.m : x \in {y \in V : home[y.to] \in {p} /\ y.to = s}}
      /\ \A o \in Procs : o \in {p} => buf'[o] = {} /\ pc'[o] \notin {"start", "exchange", "unborn"}
      /\ \A o \in Procs : o \notin {p} => buf'[o] = buf[o] /\ pc'[o] = pc[o]
  BY <1>1, DeliverPlaces
<1>3. Procs' = Procs /\ Leads' = Leads
  BY <1>2, Frame
<1>4. Head(queue[p]).kind = "incoming" /\ Head(queue[p]).kind \in MailKinds
  BY <1>1, InStep DEF QueuesInStep, Expected, MailKinds
<1>5. queue \in [Procs -> Seq(Entries)]
  BY DEF TypeOK, ChansTyped
<1>6. \A x \in V : home[x.to] = p
  <2>1. queue[p] \in Seq(Entries)
    BY <1>5
  <2>2. 1 \in DOMAIN queue[p] /\ Head(queue[p]) = queue[p][1]
    BY <1>1, <2>1, QueueMoves
  <2> QED BY <1>4, <2>2 DEF Delivery, Homed
<1>7. Kept' = Kept
  <2>1. ASSUME NEW o \in Procs
        PROVE  (IF Held(o)' THEN buf'[o] ELSE {}) = (IF Held(o) THEN buf[o] ELSE {})
    <3>1. CASE o = p
      BY <1>1, <1>2, <3>1 DEF Held
    <3>2. CASE o # p
      BY <1>2, <1>3, <3>2 DEF Held
    <3> QED BY <3>1, <3>2
  <2> QED BY <1>3, <2>1 DEF Kept
<1>8. Placed(list', Kept, queue', fresh, DOMAIN done)
  <2>1. Taken(Procs, queue, queue', p, V)
    BY <1>1, <1>4, <1>5 DEF Taken
  <2> HIDE DEF V
  <2>2. Placed(list, Kept, queue, fresh, DOMAIN done)
    BY DEF Delivery
  <2>3. ASSUME NEW s \in Sims
        PROVE  DOMAIN list'[s] = DOMAIN list[s] \cup {x.m : x \in {y \in V : y.to = s}}
    <3>1. {y \in V : home[y.to] \in {p} /\ y.to = s} = {y \in V : y.to = s}
      BY <1>6
    <3> QED BY <1>2, <3>1
  <2> QED BY <2>1, <2>2, <2>3, IncomingPlaced
<1>9. Placed(list, Kept, queue, fresh, DOMAIN done)'
  <2>1. fresh' = fresh /\ done' = done
    BY <1>2
  <2> QED BY <1>7, <1>8, <2>1 DEF Placed, Gone, Once
<1>10. Homed'
  <2>1. \A o \in Procs : queue'[o] = queue[o] \/ (queue[o] # <<>> /\ queue'[o] = Tail(queue[o]))
    BY <1>1, <1>5
  <2> QED BY <1>2, <2>1, HomedStep DEF Delivery
<1>11. Unborn'
  BY <1>2, <1>3 DEF Delivery, Unborn
<1> QED BY <1>9, <1>10, <1>11 DEF Delivery

\* User code schedules an event, sends a message, or does neither.
LEMMA UserPlaced ==
  ASSUME TypeOK, TypeOK', UNCHANGED <<setup, queue, pc>>, NEW p \in Procs, Held(p),
         NEW l \in [Sims -> Lists], NEW D, NEW s \in Sims, NEW t,
         Placed(l, Kept, queue, fresh, D),
         Sched(l, s, t) \/ Send(l, p, s, t) \/ (list' = l /\ UNCHANGED <<fresh, bufs, late>>)
  PROVE  /\ Placed(list', Kept', queue', fresh', D)
         /\ \A o \in Procs : o # p => buf'[o] = buf[o]
<1>1. Procs' = Procs /\ Leads' = Leads /\ queue' = queue /\ pc' = pc
  BY Frame
<1>2. \A o \in Procs : Held(o)' <=> Held(o)
  BY <1>1 DEF Held
<1>3. ASSUME buf' = buf PROVE Kept' = Kept
  BY <1>1, <1>2, <1>3 DEF Kept
<1>4. ASSUME NEW d \in Sims, NEW i, NEW at, list' = Add(l, d, i, at)
      PROVE  Added(l, list', d, i)
  BY <1>4 DEF Add, Added
<1>5. CASE Sched(l, s, t)
  <2>1. PICK i \in fresh \cap Evs, at \in t..MaxTime :
          list' = Add(l, s, i, at) /\ fresh' = fresh \ {i} /\ UNCHANGED <<bufs, late>>
    BY <1>5 DEF Sched
  <2>2. buf' = buf
    BY <2>1 DEF bufs
  <2>3. Placed(list', Kept, queue, fresh \ {i}, D)
    <3>1. Added(l, list', s, i) /\ i \in fresh
      BY <1>4, <2>1
    <3> QED BY <3>1, AddPlaced
  <2> QED BY <1>1, <1>3, <2>1, <2>2, <2>3
<1>6. CASE Send(l, p, s, t)
  <2> DEFINE m == NextMsg
  <2>1. PICK d \in Boxes : \E at \in t + MinDelay[d]..MaxTime :
        /\ fresh' = fresh \ {m}
        /\ IF (~smp /\ Rank(d) = Rank(s)) \/ d = s
           THEN list' = Add(l, d, m, at) /\ UNCHANGED bufs
           ELSE /\ buf' = [buf EXCEPT ![p] = @ \cup {[m |-> m, to |-> d, at |-> at]}]
                /\ list' = l
    BY <1>6 DEF Send
  <2>2. PICK at \in t + MinDelay[d]..MaxTime :
        /\ fresh' = fresh \ {m}
        /\ IF (~smp /\ Rank(d) = Rank(s)) \/ d = s
           THEN list' = Add(l, d, m, at) /\ UNCHANGED bufs
           ELSE /\ buf' = [buf EXCEPT ![p] = @ \cup {[m |-> m, to |-> d, at |-> at]}]
                /\ list' = l
    BY <2>1
  <2>3. m \in fresh /\ m \in Msgs /\ d \in Sims
    <3>1. fresh \cap Msgs # {}
      BY <1>6 DEF Send
    <3> QED BY <3>1, SyncAssumption DEF NextMsg
  <2> HIDE DEF m
  <2>4. CASE (~smp /\ Rank(d) = Rank(s)) \/ d = s
    <3>1. list' = Add(l, d, m, at) /\ buf' = buf
      BY <2>2, <2>4 DEF bufs
    <3>2. Placed(list', Kept, queue, fresh \ {m}, D)
      <4>1. Added(l, list', d, m)
        BY <1>4, <2>3, <3>1
      <4> QED BY <2>3, <4>1, AddPlaced
    <3> QED BY <1>1, <1>3, <2>2, <3>1, <3>2
  <2>5. CASE ~((~smp /\ Rank(d) = Rank(s)) \/ d = s)
    <3> DEFINE x == [m |-> m, to |-> d, at |-> at]
    <3>1. buf' = [buf EXCEPT ![p] = @ \cup {x}] /\ list' = l
      BY <2>2, <2>5
    <3>2. x \in Mails
      <4>1. buf' \in [Procs' -> SUBSET Mails]
        BY DEF TypeOK, BufsTyped
      <4>2. buf \in [Procs -> SUBSET Mails]
        BY DEF TypeOK, BufsTyped
      <4>3. x \in buf'[p]
        BY <3>1, <4>2
      <4>4. buf'[p] \subseteq Mails
        BY <1>1, <4>1
      <4> QED BY <4>3, <4>4
    <3>3. x \in Mails /\ x.m = m
      BY <3>2
    <3> HIDE DEF x
    <3>4. buf \in [Procs -> SUBSET Mails] /\ Kept \in [Procs -> SUBSET Mails]
      BY KeptProps DEF TypeOK, BufsTyped
    <3>5. Kept' = [Kept EXCEPT ![p] = @ \cup {x}]
      <4>1. ASSUME NEW o \in Procs PROVE Kept'[o] = IF o = p THEN Kept[o] \cup {x} ELSE Kept[o]
        BY <1>1, <1>2, <3>1, <3>4 DEF Kept
      <4>2. DOMAIN Kept' = Procs /\ Kept' = [o \in Procs |-> Kept'[o]]
        BY <1>1 DEF Kept
      <4> QED BY <3>4, <4>1, <4>2
    <3>6. Placed(l, Kept', queue, fresh \ {x.m}, D)
      BY <2>3, <3>3, <3>4, <3>5, PutPlaced
    <3>7. \A o \in Procs : o # p => buf'[o] = buf[o]
      BY <3>1, <3>4
    <3> QED BY <1>1, <2>2, <3>1, <3>3, <3>6, <3>7
  <2> QED BY <2>4, <2>5
<1>7. CASE list' = l /\ UNCHANGED <<fresh, bufs, late>>
  <2>1. buf' = buf /\ fresh' = fresh
    BY <1>7 DEF bufs
  <2> QED BY <1>1, <1>3, <1>7, <2>1
<1> QED BY <1>5, <1>6, <1>7

\* The program of a rank calls a simulator.
LEMMA CallKeeps ==
  ASSUME TypeOK, Control, Delivery, TypeOK', NEW s \in Sims, MainCall(s)
  PROVE  Delivery'
<1> DEFINE p == Lead(Rank(s))
<1>1. /\ Sched(list, s, now[s]) \/ Send(list, p, s, now[s])
      /\ UNCHANGED <<setup, queue, pc>> /\ done' = done /\ pc[p] = "main"
  BY DEF MainCall, chans
<1>2. p \in Procs /\ p \in Leads /\ list \in [Sims -> Lists] /\ Procs' = Procs
  <2>1. home[s] \in Procs /\ list \in [Sims -> Lists]
    BY DEF TypeOK, SetupOK, SimsTyped
  <2>2. p \in Procs /\ p \in Leads
    BY <2>1, LeadFacts DEF TypeOK, Rank
  <2>3. Procs' = Procs
    BY <1>1, Frame
  <2> QED BY <2>1, <2>2, <2>3
<1> HIDE DEF p
<1>3. Held(p)
  BY <1>2, LeadHeld
<1>4. PICK D : D = DOMAIN done
  OBVIOUS
<1>5. /\ Placed(list', Kept', queue', fresh', D)
      /\ \A o \in Procs : o # p => buf'[o] = buf[o]
  <2>1. Placed(list, Kept, queue, fresh, D)
    BY <1>4 DEF Delivery
  <2> QED BY <1>1, <1>2, <1>3, <2>1, UserPlaced
<1>6. Placed(list, Kept, queue, fresh, DOMAIN done)'
  BY <1>1, <1>4, <1>5 DEF Placed, Gone, Once
<1>7. Homed'
  <2>1. \A o \in Procs : queue'[o] = queue[o]
    BY <1>1
  <2> QED BY <1>1, <2>1, HomedStep DEF Delivery
<1>8. Unborn'
  BY <1>1, <1>2, <1>5 DEF Delivery, Unborn
<1> QED BY <1>6, <1>7, <1>8 DEF Delivery

\* A simulator processes an event, or a message that has arrived.
LEMMA ExecuteKeeps ==
  ASSUME TypeOK, Control, Delivery, TypeOK', NEW p \in Procs, Execute(p)
  PROVE  Delivery'
<1> DEFINE s == Head(todo[p])
           l(i) == [list EXCEPT ![s] = [j \in DOMAIN @ \ {i} |-> @[j]]]
<1>1. PICK i \in DOMAIN list[s] :
        /\ done' = [j \in DOMAIN done \cup {i} |-> IF j = i THEN s ELSE done[j]]
        /\ \/ Sched(l(i), s, list[s][i])
           \/ pc[p] = "run" /\ Send(l(i), p, s, list[s][i])
           \/ list' = l(i) /\ UNCHANGED <<fresh, bufs, late>>
  BY DEF Execute
<1>2. UNCHANGED <<setup, queue, pc>> /\ pc[p] \in {"create", "run"}
  BY DEF Execute, chans
<1>3. s \in Sims
  BY DEF Execute, TypeOK, WindowTyped
<1>4. Procs' = Procs /\ list \in [Sims -> Lists] /\ Held(p)
  BY <1>2, Frame DEF TypeOK, SimsTyped, Held
<1>5. l(i) \in [Sims -> Lists]
  BY <1>3, TakeProps DEF TypeOK
<1>6. \A r \in Sims : DOMAIN l(i)[r] = IF r = s THEN DOMAIN list[r] \ {i} ELSE DOMAIN list[r]
  BY <1>3, <1>4
<1>7. PICK D : D = DOMAIN done \cup {i}
  OBVIOUS
<1>8. DOMAIN done' = D
  BY <1>1, <1>7
<1> HIDE DEF s, l
<1>9. Placed(l(i), Kept, queue, fresh, D)
  <2>1. i \in DOMAIN list[s] /\ Placed(list, Kept, queue, fresh, DOMAIN done)
    BY DEF Delivery
  <2>2. Placed(l(i), Kept, queue, fresh, DOMAIN done \cup {i})
    BY <1>3, <1>6, <2>1, TakePlaced
  <2> QED BY <1>7, <2>2
<1>10. /\ Placed(list', Kept', queue', fresh', D)
       /\ \A o \in Procs : o # p => buf'[o] = buf[o]
  BY <1>1, <1>2, <1>3, <1>4, <1>5, <1>9, UserPlaced
<1>11. Placed(list, Kept, queue, fresh, DOMAIN done)'
  BY <1>8, <1>10 DEF Placed, Gone, Once
<1>12. Homed'
  <2>1. \A o \in Procs : queue'[o] = queue[o]
    BY <1>2
  <2> QED BY <1>2, <2>1, HomedStep DEF Delivery
<1>13. Unborn'
  BY <1>2, <1>4, <1>10 DEF Delivery, Unborn
<1> QED BY <1>11, <1>12, <1>13 DEF Delivery

\* No message is sent yet.
LEMMA InitDelivery == Init => Delivery
<1> SUFFICES ASSUME Init PROVE Delivery
  OBVIOUS
<1>1. /\ queue = [p \in Procs |-> <<>>] /\ buf = [p \in Procs |-> {}] /\ DOMAIN done = {}
  BY DEF Init
<1>2. ASSUME NEW m \in Msgs PROVE NoBuf(Kept, m) /\ NoWay(queue, m)
  <2>1. \A p \in Procs : Kept[p] = {}
    BY <1>1 DEF Kept
  <2>2. DOMAIN Kept = Procs
    BY DEF Kept
  <2>3. \A p \in Procs : queue[p] = <<>>
    BY <1>1
  <2>4. DOMAIN queue = Procs /\ \A k, x : ~Carries(<<>>, k, x)
    BY <1>1 DEF Carries
  <2> QED BY <2>1, <2>2, <2>3, <2>4 DEF NoBuf, NoWay
<1>3. ASSUME NEW m \in Msgs
      PROVE  IF m \in fresh THEN NoList(list, m) ELSE OneList(list, m)
  <2>1. CASE list = [s \in Sims |-> [i \in {} |-> 0]] /\ fresh = Evs \cup Msgs
    BY <2>1 DEF NoList
  <2>2. CASE \E s \in Sims, i \in Evs, t \in Times :
                /\ t >= now[s]
                /\ list = [r \in Sims |-> IF r = s THEN [j \in {i} |-> t] ELSE [j \in {} |-> 0]]
                /\ fresh = (Evs \cup Msgs) \ {i}
    <3>1. PICK s \in Sims, i \in Evs, t \in Times :
                /\ list = [r \in Sims |-> IF r = s THEN [j \in {i} |-> t] ELSE [j \in {} |-> 0]]
                /\ fresh = (Evs \cup Msgs) \ {i}
      BY <2>2
    <3>2. \A r \in Sims : DOMAIN list[r] = IF r = s THEN {i} ELSE {}
      BY <3>1
    <3>3. m \in fresh <=> m # i
      BY <3>1
    <3> QED BY <3>2, <3>3 DEF NoList, OneList
  <2> QED BY <2>1, <2>2 DEF Init
<1>4. Placed(list, Kept, queue, fresh, DOMAIN done)
  BY <1>1, <1>2, <1>3 DEF Placed, Gone, Once
<1>5. Homed /\ Unborn
  BY <1>1 DEF Homed, Unborn
<1> QED BY <1>4, <1>5 DEF Delivery

LEMMA DeliveryStep ==
  ASSUME TypeOK, Control, TypeOK', Control', Delivery, [Next]_vars
  PROVE  Delivery'
<1>1. CASE UNCHANGED vars
  <2>1. UNCHANGED setup /\ UNCHANGED <<list, fresh, done, buf, queue, pc>>
    BY <1>1 DEF vars, sims, bufs, chans
  <2>2. \A p \in Procs : Quiet(queue[p], queue'[p]) /\ pc'[p] = pc[p]
    BY <2>1 DEF Quiet
  <2> QED BY <2>1, <2>2, QuietStep
<1>2. CASE Main
  <2>1. 0 \in Ranks
    BY LeadFacts DEF TypeOK
  <2> QED BY <1>2, <2>1, CallKeeps, MainQuiet DEF Main
<1>3. CASE Together
  <2>1. 0 \in Ranks
    BY LeadFacts DEF TypeOK
  <2> QED BY <1>3, <2>1, AgreePlaced, AnnounceQuiet, DistributeKeeps, MainQuiet DEF Together
<1>4. ASSUME NEW p \in Procs, Step(p) PROVE Delivery'
  <2>1. CASE \/ ChildStart(p) \/ ChildCommand(p) \/ Peek(p) \/ ChildWindow(p)
             \/ Execute(p) \/ Finish(p) \/ HandOver(p) \/ ChildIncoming(p) \/ Tell(p)
    BY <2>1, StartPlaced, ProcQuiet, ExecuteKeeps, HandKeeps, IncomingKeeps
  <2>2. CASE /\ p \in Leads
             /\ LET r == p[1]
                IN \/ Created(r) \/ Command(r) \/ Gather(r) \/ Collect(r) \/ Sum(r)
                   \/ RunFinish(r) \/ Join(r)
    <3> DEFINE r == p[1]
    <3>1. r \in Ranks
      BY <2>2, LeadFacts DEF TypeOK
    <3>2. \/ Created(r) \/ Command(r) \/ Gather(r) \/ Collect(r) \/ Sum(r)
          \/ RunFinish(r) \/ Join(r)
      BY <2>2
    <3> HIDE DEF r
    <3> QED BY <3>1, <3>2, MainQuiet, GatherQuiet, CollectKeeps
  <2> QED BY <1>4, <2>1, <2>2 DEF Step
<1>5. CASE Ended
  BY <1>1, <1>5 DEF Ended
<1> QED BY <1>1, <1>2, <1>3, <1>4, <1>5 DEF Next

\* A message that is in one place is there once, and one that is nowhere is not.
LEMMA CopiesProps ==
  ASSUME TypeOK, NEW m \in Msgs
  PROVE  /\ Gone(m, list, Kept, queue) => Copies(m) = 0
         /\ Once(m, list, Kept, queue) => Copies(m) = 1
<1> DEFINE A == {s \in Sims : m \in DOMAIN list[s]}
           B == {p \in Procs : /\ pc[p] # "start"
                               /\ p \in Leads \/ pc[p] # "exchange"
                               /\ \E x \in buf[p] : x.m = m}
           C == UNION {{<<p, k>> : k \in InQueue(m, p)} : p \in Procs}
<1>1. Copies(m) = Cardinality(A) + Cardinality(B) + Cardinality(C)
  BY DEF Copies
<1>2. NoList(list, m) => A = {}
  BY DEF NoList
<1>3. OneList(list, m) => \E s : A = {s}
  BY DEF OneList
<1>4. B = {p \in Procs : \E x \in Kept[p] : x.m = m}
  BY DEF Kept, Held
<1>5. NoBuf(Kept, m) => B = {}
  BY <1>4, KeptProps DEF NoBuf
<1>6. ASSUME OneBuf(Kept, m) PROVE \E p : B = {p}
  <2>1. DOMAIN Kept = Procs
    BY KeptProps
  <2>2. PICK p \in Procs : \E x \in Kept[p] :
          x.m = m /\ \A o \in Procs : \A y \in Kept[o] : y.m = m => o = p /\ y = x
    BY <1>6, <2>1 DEF OneBuf
  <2>3. p \in B
    BY <1>4, <2>2
  <2>4. \A o \in B : o = p
    BY <1>4, <2>2
  <2> QED BY <2>3, <2>4
<1>7. ASSUME NEW p \in Procs
      PROVE  \A k : k \in InQueue(m, p) <=> k \in Nat /\ \E x \in Mails : Carries(queue[p], k, x) /\ x.m = m
  <2>1. queue[p] \in Seq(Entries)
    BY DEF TypeOK, ChansTyped
  <2>2. DOMAIN queue[p] \subseteq Nat /\ \A k \in DOMAIN queue[p] : queue[p][k] \in Entries
    BY <2>1
  <2>3. \A k \in DOMAIN queue[p] : queue[p][k].kind \in MailKinds => queue[p][k].val \subseteq Mails
    BY <2>2, EntryProps DEF MailKinds
  <2> QED BY <2>2, <2>3 DEF InQueue, Carries, MailKinds
<1>8. DOMAIN queue = Procs
  BY DEF TypeOK, ChansTyped
<1>9. \A z : z \in C <=> \E p \in Procs : \E k \in InQueue(m, p) : z = <<p, k>>
  OBVIOUS
<1> HIDE DEF A, B, C
<1>10. NoWay(queue, m) => C = {}
  <2>1. NoWay(queue, m) => \A p \in Procs : \A k : k \notin InQueue(m, p)
    BY <1>7, <1>8 DEF NoWay
  <2> QED BY <1>9, <2>1
<1>11. ASSUME OneWay(queue, m) PROVE \E z : C = {z}
  <2>1. PICK p \in Procs, k \in Nat, x \in Mails :
          /\ Carries(queue[p], k, x) /\ x.m = m
          /\ \A o \in Procs, j \in Nat, y \in Mails :
               Carries(queue[o], j, y) /\ y.m = m => o = p /\ j = k /\ y = x
    BY <1>8, <1>11 DEF OneWay
  <2>2. k \in InQueue(m, p)
    BY <1>7, <2>1
  <2>3. \A o \in Procs : \A j \in InQueue(m, o) : o = p /\ j = k
    BY <1>7, <2>1
  <2>4. C = {<<p, k>>}
    BY <1>9, <2>2, <2>3
  <2> QED BY <2>4
<1>12. Cardinality({}) = 0 /\ \A z : Cardinality({z}) = 1
  BY FS_EmptySet, FS_Singleton
<1>13. Gone(m, list, Kept, queue) => Copies(m) = 0
  BY <1>1, <1>2, <1>5, <1>10, <1>12 DEF Gone
<1>14. ASSUME Once(m, list, Kept, queue) PROVE Copies(m) = 1
  <2>1. \/ Cardinality(A) = 1 /\ Cardinality(B) = 0 /\ Cardinality(C) = 0
        \/ Cardinality(A) = 0 /\ Cardinality(B) = 1 /\ Cardinality(C) = 0
        \/ Cardinality(A) = 0 /\ Cardinality(B) = 0 /\ Cardinality(C) = 1
    BY <1>2, <1>3, <1>5, <1>6, <1>10, <1>11, <1>12, <1>14 DEF Once
  <2> QED BY <1>1, <2>1
<1> QED BY <1>13, <1>14

\* A message is in one place from when it is sent until it is delivered, for any
\* division of any simulators among any processes of any ranks: no fork, exchange
\* or repeated run loses it or copies it.
THEOREM DeliveredExactlyOnce == Spec => []ExactlyOnce
<1>1. Init => Delivery
  BY InitDelivery
<1>2. TypeOK /\ Control /\ TypeOK' /\ Control' /\ Delivery /\ [Next]_vars => Delivery'
  BY DeliveryStep
<1>3. TypeOK /\ Delivery => ExactlyOnce
  BY CopiesProps DEF Delivery, Placed, ExactlyOnce
<1> QED BY <1>1, <1>2, <1>3, GroupControlled, PTL DEF Spec
=============================================================================
