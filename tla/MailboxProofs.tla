----------------------------- MODULE MailboxProofs -----------------------------
(***************************************************************************)
(* Theorems about Mailbox, for every set of processes, partitions and      *)
(* messages.                                                               *)
(***************************************************************************)
EXTENDS Mailbox, FiniteSetTheorems, SequenceTheorems, TLAPS

\* What is proved about the process scheduler.
SP == INSTANCE SchedProofs

\* The blocking calls a process can be in.
Calls == {Idle}
           \cup {Receiving(r, isall) : r \in Parts, isall \in BOOLEAN}
           \cup {Waiting(parts, got, every, isall, timed) :
                   parts \in SUBSET Parts, got \in SUBSET Parts,
                   every \in BOOLEAN, isall \in BOOLEAN, timed \in BOOLEAN}

TypeOK == /\ call \in [Procs -> Calls]
          /\ mail \in [Msgs -> Parts \cup {"new", "gone"}]
          /\ msgbuf \in [Parts -> Seq(Msgs)]
          /\ blocked \in [Parts -> Seq(Procs)]
          /\ acting \in [Procs -> SUBSET Parts]
          /\ delivered \in [Parts -> Seq(Msgs)]
          /\ taken \in [Parts -> Seq(Msgs)]

\* The partitions that the call of p has not been told of.
Open(p) == IF call[p].op = "wait" THEN call[p].parts \ call[p].got ELSE call[p].parts

\* What a process was released by, and has not looked at, is what it waits for.
CallsAgree == \A p \in Procs : acting[p] \subseteq Open(p)

\* A trap holds the processes that still wait for the partition, each once,
\* dead or alive.
TrapsAgree ==
  \A r \in Parts : /\ IsInjective(blocked[r])
                   /\ \A p \in Procs : p \in ToSet(blocked[r]) <=> r \in Open(p) \ acting[p]

\* Nobody is blocked on a partition with a message.
EmptyWhileBlocked == \A r \in Parts : blocked[r] # <<>> => msgbuf[r] = <<>>

\* Messages, traps and calls agree, whatever the scheduler does.
BoxInv == TypeOK /\ CallsAgree /\ TrapsAgree /\ EmptyWhileBlocked /\ TakenInOrder

\* The state of a process agrees with its call: only a wait with a limit has an
\* event pending, so that recv() is resumed by a delivery only; and a process is
\* suspended only for what has not come.
StateAgrees(p) ==
  /\ p \in timer => \/ st[p] \in {"started", "terminated"}
                    \/ call[p].op = "wait" /\ call[p].timed
  /\ call[p] # Idle => st[p] \in {"running", "suspended", "terminated"}
  /\ call[p] # Idle /\ cur = p => st[p] = "running"
  /\ call[p].op = "recv" /\ st[p] = "running" => acting[p] = call[p].parts
  /\ acting[p] # {} => st[p] \in {"running", "terminated"}
  /\ st[p] = "suspended" =>
       \/ call[p].op = "recv" /\ acting[p] = {}
       \/ call[p].op = "wait" /\ ~Met(call[p].every, call[p].parts, Got(p))

StatesAgree == \A p \in Procs : StateAgrees(p)

\* The inductive invariant.
IInv == SP!IInv /\ BoxInv /\ StatesAgree

-----------------------------------------------------------------------------
(* Messages *)

\* What is assumed of the processes, in the words of the scheduler's proofs.
LEMMA SameProcs == SP!ProcsOK /\ Procs \cap SP!NoProc = {}
<1>1. S!IsFiniteSet(Procs) <=> IsFiniteSet(Procs)
  BY DEF S!IsFiniteSet, IsFiniteSet
<1>2. SP!IsFiniteSet(Procs) <=> IsFiniteSet(Procs)
  BY DEF SP!IsFiniteSet, IsFiniteSet
<1> QED BY <1>1, <1>2, MailboxAssumption DEF S!ProcsOK, SP!ProcsOK, S!NoProc, SP!NoProc

\* The operators on sequences are those of the scheduler's proofs.
LEMMA SameSequences ==
  /\ \A s : SP!ToSet(s) = ToSet(s) /\ (SP!IsInjective(s) <=> IsInjective(s))
  /\ \A s, x : SP!RemoveFirst(s, x) = RemoveFirst(s, x)
<1>1. \A s : SP!ToSet(s) = ToSet(s) /\ (SP!IsInjective(s) <=> IsInjective(s))
  BY DEF SP!ToSet, ToSet, SP!IsInjective, IsInjective
<1>2. \A s, x : SP!RemoveFirst(s, x) = RemoveFirst(s, x)
  BY DEF SP!RemoveFirst, RemoveFirst, SP!RemoveAt, RemoveAt, SP!SelectInSeq, SelectInSeq,
         SP!Min, Min
<1> QED BY <1>1, <1>2

\* The first messages of a sequence and those after them are all of it.
LEMMA SplitProps ==
  ASSUME NEW M, NEW t \in Seq(M), NEW s \in Seq(M), NEW n \in 0..Len(s)
  PROVE  LET a == SubSeq(s, 1, n)
             b == SubSeq(s, n + 1, Len(s))
         IN /\ a \in Seq(M) /\ b \in Seq(M)
            /\ t \o a \in Seq(M)
            /\ (t \o a) \o b = t \o s
            /\ s = <<>> => b = <<>>
<1> DEFINE a == SubSeq(s, 1, n)
           b == SubSeq(s, n + 1, Len(s))
<1>1. Len(s) \in Nat /\ n \in Nat /\ n <= Len(s)
  OBVIOUS
<1>2. a \in Seq(M) /\ Len(a) = n /\ \A k \in 1..n : a[k] = s[k]
  BY <1>1
<1>3. b \in Seq(M) /\ Len(b) = Len(s) - n /\ \A k \in 1..(Len(s) - n) : b[k] = s[n + k]
  BY <1>1
<1> HIDE DEF a, b
<1>4. t \o a \in Seq(M)
  BY <1>2
<1>5. (t \o a) \o b = t \o (a \o b)
  BY <1>2, <1>3, ConcatAssociative
<1>6. a \o b = s
  <2>1. a \o b = SubSeq(s, 1, Len(s))
    <3>1. 1 \in 1..(Len(s) + 1) /\ n \in (1 - 1)..Len(s) /\ Len(s) \in n..Len(s)
      BY <1>1
    <3> QED BY <3>1, ConcatAdjacentSubSeq DEF a, b
  <2> QED BY <2>1, SubSeqFull
<1>7. s = <<>> => b = <<>>
  BY <1>1, <1>3
<1> QED BY <1>2, <1>3, <1>4, <1>5, <1>6, <1>7 DEF a, b

\* What a retrieval does to the messages, be it of one or of all: it moves some
\* from the partition to the messages that were taken from it.
LEMMA CollectProps ==
  ASSUME TypeOK, NEW parts, NEW isall, Collect(parts, isall)
  PROVE  /\ msgbuf' \in [Parts -> Seq(Msgs)]
         /\ taken' \in [Parts -> Seq(Msgs)]
         /\ \A r \in Parts : /\ taken'[r] \o msgbuf'[r] = taken[r] \o msgbuf[r]
                             /\ msgbuf[r] = <<>> => msgbuf'[r] = <<>>
<1> DEFINE count == [r \in Parts |-> IF r \notin parts \/ msgbuf[r] = <<>> THEN 0
                                     ELSE IF isall THEN Len(msgbuf[r]) ELSE 1]
<1>1. /\ taken' = [r \in Parts |-> taken[r] \o SubSeq(msgbuf[r], 1, count[r])]
      /\ msgbuf' = [r \in Parts |-> SubSeq(msgbuf[r], count[r] + 1, Len(msgbuf[r]))]
  BY DEF Collect
<1>2. ASSUME NEW r \in Parts
      PROVE  count[r] \in 0..Len(msgbuf[r]) /\ msgbuf[r] \in Seq(Msgs) /\ taken[r] \in Seq(Msgs)
  <2>1. msgbuf[r] \in Seq(Msgs) /\ taken[r] \in Seq(Msgs)
    BY DEF TypeOK
  <2>2. msgbuf[r] # <<>> => Len(msgbuf[r]) >= 1
    BY <2>1, EmptySeq
  <2>3. Len(msgbuf[r]) \in Nat
    BY <2>1
  <2> QED BY <2>1, <2>2, <2>3
<1> HIDE DEF count
<1>3. ASSUME NEW r \in Parts
      PROVE  /\ msgbuf'[r] \in Seq(Msgs) /\ taken'[r] \in Seq(Msgs)
             /\ taken'[r] \o msgbuf'[r] = taken[r] \o msgbuf[r]
             /\ msgbuf[r] = <<>> => msgbuf'[r] = <<>>
  <2>1. LET a == SubSeq(msgbuf[r], 1, count[r])
            b == SubSeq(msgbuf[r], count[r] + 1, Len(msgbuf[r]))
        IN /\ a \in Seq(Msgs) /\ b \in Seq(Msgs)
           /\ taken[r] \o a \in Seq(Msgs)
           /\ (taken[r] \o a) \o b = taken[r] \o msgbuf[r]
           /\ msgbuf[r] = <<>> => b = <<>>
    BY <1>2, SplitProps
  <2> QED BY <1>1, <2>1
<1> QED BY <1>1, <1>3

\* A message arrives behind all others.
LEMMA ArriveProps ==
  ASSUME NEW t \in Seq(Msgs), NEW s \in Seq(Msgs), NEW m \in Msgs
  PROVE  t \o Append(s, m) = Append(t \o s, m)
<1>1. t \o Append(s, m) \in Seq(Msgs) /\ Append(t \o s, m) \in Seq(Msgs)
  OBVIOUS
<1>2. Len(t \o Append(s, m)) = Len(Append(t \o s, m))
  OBVIOUS
<1>3. ASSUME NEW k \in 1..Len(Append(t \o s, m))
      PROVE  (t \o Append(s, m))[k] = Append(t \o s, m)[k]
  OBVIOUS
<1> QED BY <1>1, <1>2, <1>3

-----------------------------------------------------------------------------
(* Calls *)

\* The fields of the calls.
LEMMA CallProps ==
  /\ Idle \in Calls /\ Idle.op = "none" /\ Idle.parts = {}
  /\ \A r \in Parts, isall \in BOOLEAN :
       LET c == Receiving(r, isall)
       IN c \in Calls /\ c # Idle /\ c.op = "recv" /\ c.parts = {r} /\ c.isall = isall
  /\ \A parts \in SUBSET Parts, got \in SUBSET Parts,
        every \in BOOLEAN, isall \in BOOLEAN, timed \in BOOLEAN :
       LET c == Waiting(parts, got, every, isall, timed)
       IN /\ c \in Calls /\ c # Idle /\ c.op = "wait" /\ c.parts = parts /\ c.got = got
          /\ c.every = every /\ c.isall = isall /\ c.timed = timed
<1>1. Idle \in Calls /\ Idle.op = "none" /\ Idle.parts = {}
  BY DEF Calls, Idle
<1>2. ASSUME NEW r \in Parts, NEW isall \in BOOLEAN
      PROVE  LET c == Receiving(r, isall)
             IN c \in Calls /\ c # Idle /\ c.op = "recv" /\ c.parts = {r} /\ c.isall = isall
  <2>1. Receiving(r, isall) \in Calls
    BY DEF Calls
  <2>2. Receiving(r, isall).op = "recv"
    BY DEF Receiving
  <2> QED BY <1>1, <2>1, <2>2 DEF Receiving
<1>3. ASSUME NEW parts \in SUBSET Parts, NEW got \in SUBSET Parts,
             NEW every \in BOOLEAN, NEW isall \in BOOLEAN, NEW timed \in BOOLEAN
      PROVE  LET c == Waiting(parts, got, every, isall, timed)
             IN /\ c \in Calls /\ c # Idle /\ c.op = "wait" /\ c.parts = parts /\ c.got = got
                /\ c.every = every /\ c.isall = isall /\ c.timed = timed
  <2>1. Waiting(parts, got, every, isall, timed) \in Calls
    BY DEF Calls
  <2>2. Waiting(parts, got, every, isall, timed).op = "wait"
    BY DEF Waiting
  <2> QED BY <1>1, <2>1, <2>2 DEF Waiting
<1> QED BY <1>1, <1>2, <1>3

\* A wait, and the same one that knows of other partitions.
LEMMA WaitProps ==
  ASSUME NEW c \in Calls, c.op = "wait", NEW g \in SUBSET Parts
  PROVE  /\ c.parts \in SUBSET Parts /\ c.got \in SUBSET Parts
         /\ c.every \in BOOLEAN /\ c.isall \in BOOLEAN /\ c.timed \in BOOLEAN
         /\ [c EXCEPT !.got = g] = Waiting(c.parts, g, c.every, c.isall, c.timed)
<1>1. PICK parts \in SUBSET Parts, got \in SUBSET Parts,
           every \in BOOLEAN, isall \in BOOLEAN, timed \in BOOLEAN :
        c = Waiting(parts, got, every, isall, timed)
  <2>1. c # Idle
    BY CallProps
  <2>2. \A r \in Parts, isall \in BOOLEAN : c # Receiving(r, isall)
    BY CallProps
  <2> QED BY <2>1, <2>2 DEF Calls
<1> QED BY <1>1 DEF Waiting

\* The kinds of calls; all are for partitions.
LEMMA CallKinds ==
  ASSUME NEW c \in Calls
  PROVE  /\ c.op \in {"none", "recv", "wait"} /\ c.parts \in SUBSET Parts
         /\ (c = Idle <=> c.op = "none")
         /\ c.op = "recv" => \E r \in Parts : c.parts = {r}
<1>1. CASE c = Idle
  BY <1>1, CallProps
<1>2. ASSUME NEW r \in Parts, NEW isall \in BOOLEAN, c = Receiving(r, isall)
      PROVE  c.op = "recv" /\ c.parts = {r} /\ c # Idle
  BY <1>2, CallProps
<1>3. ASSUME NEW parts \in SUBSET Parts, NEW got \in SUBSET Parts,
             NEW every \in BOOLEAN, NEW isall \in BOOLEAN, NEW timed \in BOOLEAN,
             c = Waiting(parts, got, every, isall, timed)
      PROVE  c.op = "wait" /\ c.parts = parts /\ c # Idle
  BY <1>3, CallProps
<1> QED BY <1>1, <1>2, <1>3 DEF Calls

-----------------------------------------------------------------------------
(* Each step keeps what is said of messages, traps and calls *)

\* Messages are taken from partitions, or none is, and none arrives or is sent.
Moved == /\ msgbuf' \in [Parts -> Seq(Msgs)]
         /\ taken' \in [Parts -> Seq(Msgs)]
         /\ \A r \in Parts : /\ taken'[r] \o msgbuf'[r] = taken[r] \o msgbuf[r]
                             /\ msgbuf[r] = <<>> => msgbuf'[r] = <<>>
         /\ UNCHANGED <<mail, delivered>>

\* What has to be shown after a step in which messages are moved, if the calls
\* keep their types.
LEMMA MovedGoal ==
  ASSUME BoxInv, Moved,
         call' \in [Procs -> Calls],
         blocked' \in [Parts -> Seq(Procs)],
         acting' \in [Procs -> SUBSET Parts],
         \A p \in Procs : acting'[p] \subseteq Open(p)',
         \A r \in Parts : /\ IsInjective(blocked'[r])
                          /\ \A p \in Procs : p \in ToSet(blocked'[r]) <=> r \in Open(p)' \ acting'[p],
         \A r \in Parts : blocked'[r] # <<>> => msgbuf[r] = <<>>
  PROVE  BoxInv'
<1>1. TypeOK'
  BY DEF Moved, BoxInv, TypeOK
<1>2. CallsAgree'
  BY DEF CallsAgree
<1>3. TrapsAgree'
  BY DEF TrapsAgree
<1>4. EmptyWhileBlocked'
  BY DEF EmptyWhileBlocked, Moved
<1>5. TakenInOrder'
  BY DEF TakenInOrder, Moved, BoxInv
<1> QED BY <1>1, <1>2, <1>3, <1>4, <1>5 DEF BoxInv

\* Steps that leave calls and traps alone.
LEMMA MovedOnly ==
  ASSUME BoxInv, Moved, UNCHANGED <<call, blocked, acting>>
  PROVE  BoxInv'
<1>1. \A p \in Procs : Open(p)' = Open(p)
  BY DEF Open
<1>2. /\ call \in [Procs -> Calls]
      /\ blocked \in [Parts -> Seq(Procs)]
      /\ acting \in [Procs -> SUBSET Parts]
      /\ \A p \in Procs : acting[p] \subseteq Open(p)
      /\ \A r \in Parts : /\ IsInjective(blocked[r])
                          /\ \A p \in Procs : p \in ToSet(blocked[r]) <=> r \in Open(p) \ acting[p]
      /\ \A r \in Parts : blocked[r] # <<>> => msgbuf[r] = <<>>
  BY DEF BoxInv, TypeOK, CallsAgree, TrapsAgree, EmptyWhileBlocked
<1> QED BY <1>1, <1>2, MovedGoal

\* Steps that leave the messages alone, too, except those on their way.
LEMMA QuietStep ==
  ASSUME BoxInv, UNCHANGED <<call, msgbuf, blocked, acting, history>>,
         mail' \in [Msgs -> Parts \cup {"new", "gone"}]
  PROVE  BoxInv'
<1>1. UNCHANGED <<call, msgbuf, blocked, acting, delivered, taken>>
  BY DEF history
<1>2. TypeOK'
  BY <1>1 DEF BoxInv, TypeOK
<1>3. CallsAgree' /\ TrapsAgree'
  BY <1>1 DEF BoxInv, CallsAgree, TrapsAgree, Open
<1>4. EmptyWhileBlocked' /\ TakenInOrder'
  BY <1>1 DEF BoxInv, EmptyWhileBlocked, TakenInOrder
<1> QED BY <1>2, <1>3, <1>4 DEF BoxInv

\* A process that is in no call makes one, and is put on the traps of empty
\* partitions that it waits for.
LEMMA BlocksStep ==
  ASSUME BoxInv, Moved, NEW p \in Procs, call[p] = Idle,
         NEW c \in Calls, NEW new \in SUBSET Parts,
         new = IF c.op = "wait" THEN c.parts \ c.got ELSE c.parts,
         call' = [call EXCEPT ![p] = c],
         blocked' = [r \in Parts |-> IF r \in new THEN Append(blocked[r], p) ELSE blocked[r]],
         acting' = acting,
         \A r \in new : msgbuf[r] = <<>>
  PROVE  BoxInv'
<1>1. /\ call \in [Procs -> Calls]
      /\ blocked \in [Parts -> Seq(Procs)]
      /\ acting \in [Procs -> SUBSET Parts]
      /\ \A q \in Procs : acting[q] \subseteq Open(q)
      /\ \A r \in Parts : /\ IsInjective(blocked[r])
                          /\ \A q \in Procs : q \in ToSet(blocked[r]) <=> r \in Open(q) \ acting[q]
      /\ \A r \in Parts : blocked[r] # <<>> => msgbuf[r] = <<>>
  BY DEF BoxInv, TypeOK, CallsAgree, TrapsAgree, EmptyWhileBlocked
<1>2. Open(p) = {} /\ Open(p)' = new /\ \A q \in Procs \ {p} : Open(q)' = Open(q)
  BY <1>1, CallProps DEF Open
<1>3. call' \in [Procs -> Calls] /\ acting' \in [Procs -> SUBSET Parts]
  BY <1>1
<1>4. ASSUME NEW r \in Parts
      PROVE  /\ blocked'[r] \in Seq(Procs) /\ IsInjective(blocked'[r])
             /\ ToSet(blocked'[r]) = IF r \in new THEN ToSet(blocked[r]) \cup {p} ELSE ToSet(blocked[r])
  <2>1. blocked[r] \in Seq(Procs) /\ IsInjective(blocked[r]) /\ p \notin ToSet(blocked[r])
    BY <1>1, <1>2
  <2>2. /\ Append(blocked[r], p) \in Seq(Procs) /\ IsInjective(Append(blocked[r], p))
        /\ ToSet(Append(blocked[r], p)) = ToSet(blocked[r]) \cup {p}
    BY <2>1, SP!AppendProps, SameProcs, SameSequences
  <2>3. blocked'[r] = IF r \in new THEN Append(blocked[r], p) ELSE blocked[r]
    OBVIOUS
  <2> QED BY <2>1, <2>2, <2>3
<1>5. blocked' \in [Parts -> Seq(Procs)]
  BY <1>4
<1>6. \A q \in Procs : acting'[q] \subseteq Open(q)'
  BY <1>1, <1>2
<1>7. \A r \in Parts, q \in Procs : q \in ToSet(blocked'[r]) <=> r \in Open(q)' \ acting'[q]
  <2>1. ASSUME NEW r \in Parts, NEW q \in Procs \ {p}
        PROVE  q \in ToSet(blocked'[r]) <=> r \in Open(q)' \ acting'[q]
    BY <1>1, <1>2, <1>4
  <2>2. ASSUME NEW r \in Parts PROVE p \in ToSet(blocked'[r]) <=> r \in Open(p)' \ acting'[p]
    <3>1. p \notin ToSet(blocked[r]) /\ acting'[p] = {}
      BY <1>1, <1>2
    <3> QED BY <1>2, <1>4, <3>1
  <2> QED BY <2>1, <2>2
<1>8. \A r \in Parts : blocked'[r] # <<>> => msgbuf[r] = <<>>
  BY <1>1
<1> QED BY <1>3, <1>4, <1>5, <1>6, <1>7, <1>8, MovedGoal

\* A call ends: its process is on no trap any more.
LEMMA ReturnStep ==
  ASSUME BoxInv, Moved, NEW p \in Procs,
         call' = [call EXCEPT ![p] = Idle],
         acting' = [acting EXCEPT ![p] = @ \ call[p].parts],
         blocked' \in [Parts -> Seq(Procs)],
         \A r \in Parts : /\ IsInjective(blocked'[r])
                          /\ ToSet(blocked'[r]) = ToSet(blocked[r]) \ {p}
  PROVE  BoxInv'
<1>1. /\ call \in [Procs -> Calls]
      /\ acting \in [Procs -> SUBSET Parts]
      /\ \A q \in Procs : acting[q] \subseteq Open(q)
      /\ \A r \in Parts, q \in Procs : q \in ToSet(blocked[r]) <=> r \in Open(q) \ acting[q]
      /\ \A r \in Parts : blocked[r] # <<>> => msgbuf[r] = <<>>
  BY DEF BoxInv, TypeOK, CallsAgree, TrapsAgree, EmptyWhileBlocked
<1>2. Open(p)' = {} /\ \A q \in Procs \ {p} : Open(q)' = Open(q)
  BY <1>1, CallProps DEF Open
<1>3. acting'[p] = {} /\ \A q \in Procs \ {p} : acting'[q] = acting[q]
  BY <1>1 DEF Open
<1>4. call' \in [Procs -> Calls] /\ acting' \in [Procs -> SUBSET Parts]
  BY <1>1, CallProps
<1>5. \A q \in Procs : acting'[q] \subseteq Open(q)'
  BY <1>1, <1>2, <1>3
<1>6. \A r \in Parts, q \in Procs : q \in ToSet(blocked'[r]) <=> r \in Open(q)' \ acting'[q]
  BY <1>1, <1>2, <1>3
<1>7. \A r \in Parts : blocked'[r] # <<>> => blocked[r] # <<>>
  <2> SUFFICES ASSUME NEW r \in Parts, blocked'[r] # <<>> PROVE blocked[r] # <<>>
    OBVIOUS
  <2>1. blocked'[r] \in Seq(Procs)
    OBVIOUS
  <2>2. Len(blocked'[r]) # 0
    BY <2>1, EmptySeq
  <2>3. blocked'[r][1] \in ToSet(blocked'[r])
    BY <2>1, <2>2 DEF ToSet
  <2>4. ToSet(<<>>) = {}
    BY DEF ToSet
  <2> QED BY <2>3, <2>4
<1>8. \A r \in Parts : blocked'[r] # <<>> => msgbuf[r] = <<>>
  BY <1>1, <1>7
<1> QED BY <1>4, <1>5, <1>6, <1>8, MovedGoal

\* A wait for all goes on with the partitions that are missing.
LEMMA AgainStep ==
  ASSUME BoxInv, Moved, NEW p \in Procs, call[p].op = "wait",
         call' = [call EXCEPT ![p].got = Got(p)],
         acting' = [acting EXCEPT ![p] = @ \ call[p].parts],
         blocked' = blocked
  PROVE  /\ BoxInv'
         /\ \E c \in Calls :
              /\ call' = [call EXCEPT ![p] = c]
              /\ c.op = "wait" /\ c.parts = call[p].parts /\ c.got = Got(p)
              /\ c.every = call[p].every /\ c.isall = call[p].isall /\ c.timed = call[p].timed
         /\ acting' = [acting EXCEPT ![p] = {}]
<1>1. /\ call \in [Procs -> Calls]
      /\ blocked \in [Parts -> Seq(Procs)]
      /\ acting \in [Procs -> SUBSET Parts]
      /\ \A q \in Procs : acting[q] \subseteq Open(q)
      /\ \A r \in Parts : IsInjective(blocked[r])
      /\ \A r \in Parts, q \in Procs : q \in ToSet(blocked[r]) <=> r \in Open(q) \ acting[q]
      /\ \A r \in Parts : blocked[r] # <<>> => msgbuf[r] = <<>>
  BY DEF BoxInv, TypeOK, CallsAgree, TrapsAgree, EmptyWhileBlocked
<1> DEFINE c == [call[p] EXCEPT !.got = Got(p)]
<1>2. call[p] \in Calls /\ call[p].got \in SUBSET Parts
  BY <1>1, WaitProps
<1>3. Got(p) \in SUBSET Parts
  BY <1>1, <1>2 DEF Got
<1>4. /\ c \in Calls /\ c.op = "wait" /\ c.parts = call[p].parts /\ c.got = Got(p)
      /\ c.every = call[p].every /\ c.isall = call[p].isall /\ c.timed = call[p].timed
  <2>1. /\ c = Waiting(call[p].parts, Got(p), call[p].every, call[p].isall, call[p].timed)
        /\ call[p].parts \in SUBSET Parts /\ call[p].every \in BOOLEAN
        /\ call[p].isall \in BOOLEAN /\ call[p].timed \in BOOLEAN
    BY <1>2, <1>3, WaitProps
  <2> HIDE DEF c
  <2> QED BY <1>3, <2>1, CallProps
<1>5. call' = [call EXCEPT ![p] = c]
  BY <1>1
<1> HIDE DEF c
<1>6. acting' = [acting EXCEPT ![p] = {}]
  BY <1>1 DEF Open
<1>a. call'[p] = c /\ \A q \in Procs \ {p} : call'[q] = call[q] /\ acting'[q] = acting[q]
  BY <1>1, <1>5, <1>6
<1>b. Open(p)' = Open(p) \ acting[p]
  <2>1. Open(p)' = call[p].parts \ Got(p) /\ Open(p) = call[p].parts \ call[p].got
    BY <1>4, <1>a DEF Open
  <2> QED BY <2>1 DEF Got
<1>7. ASSUME NEW q \in Procs \ {p} PROVE Open(q)' = Open(q) /\ acting'[q] = acting[q]
  BY <1>a DEF Open
<1>8. BoxInv'
  <2>1. call' \in [Procs -> Calls] /\ acting' \in [Procs -> SUBSET Parts]
    <3>1. call \in [Procs -> Calls] /\ acting \in [Procs -> SUBSET Parts]
      BY <1>1
    <3>2. c \in Calls
      BY <1>4
    <3> QED BY <1>5, <1>6, <3>1, <3>2
  <2>2. acting'[p] = {}
    BY <1>1, <1>6
  <2>3. \A q \in Procs : acting'[q] \subseteq Open(q)'
    <3>1. acting'[p] \subseteq Open(p)'
      BY <2>2
    <3>2. ASSUME NEW q \in Procs \ {p} PROVE acting'[q] \subseteq Open(q)'
      <4>1. Open(q)' = Open(q) /\ acting'[q] = acting[q] /\ acting[q] \subseteq Open(q)
        BY <1>1, <1>7
      <4> QED BY <4>1
    <3> QED BY <3>1, <3>2
  <2>4. \A q \in Procs : Open(q)' \ acting'[q] = Open(q) \ acting[q]
    <3>1. Open(p)' \ acting'[p] = Open(p) \ acting[p]
      BY <1>b, <2>2
    <3>2. \A q \in Procs \ {p} : Open(q)' \ acting'[q] = Open(q) \ acting[q]
      BY <1>7
    <3> QED BY <3>1, <3>2
  <2> QED BY <1>1, <2>1, <2>3, <2>4, MovedGoal
<1> QED BY <1>4, <1>5, <1>6, <1>8

\* A message is delivered: nobody is left on the trap.
LEMMA DeliverStep ==
  ASSUME BoxInv, NEW m \in Msgs, Deliver(m)
  PROVE  BoxInv'
<1> DEFINE r == mail[m]
<1>1. /\ r \in Parts
      /\ mail' = [mail EXCEPT ![m] = "gone"]
      /\ msgbuf' = [msgbuf EXCEPT ![r] = Append(@, m)]
      /\ delivered' = [delivered EXCEPT ![r] = Append(@, m)]
      /\ acting' = [p \in Procs |-> acting[p] \cup {s \in {r} : p \in ToSet(blocked[r])}]
      /\ blocked' = [blocked EXCEPT ![r] = <<>>]
      /\ UNCHANGED <<call, taken>>
  BY DEF Deliver
<1> HIDE DEF r
<1>2. /\ call \in [Procs -> Calls]
      /\ mail \in [Msgs -> Parts \cup {"new", "gone"}]
      /\ blocked \in [Parts -> Seq(Procs)]
      /\ acting \in [Procs -> SUBSET Parts]
      /\ msgbuf \in [Parts -> Seq(Msgs)] /\ delivered \in [Parts -> Seq(Msgs)]
      /\ taken \in [Parts -> Seq(Msgs)]
      /\ \A q \in Procs : acting[q] \subseteq Open(q)
      /\ \A s \in Parts : IsInjective(blocked[s])
      /\ \A s \in Parts, q \in Procs : q \in ToSet(blocked[s]) <=> s \in Open(q) \ acting[q]
      /\ \A s \in Parts : blocked[s] # <<>> => msgbuf[s] = <<>>
      /\ \A s \in Parts : delivered[s] = taken[s] \o msgbuf[s]
  BY DEF BoxInv, TypeOK, CallsAgree, TrapsAgree, EmptyWhileBlocked, TakenInOrder
<1>3. \A p \in Procs : Open(p)' = Open(p)
  BY <1>1 DEF Open
<1>4. /\ blocked'[r] = <<>> /\ ToSet(<<>>) = {} /\ IsInjective(<<>>) /\ <<>> \in Seq(Procs)
      /\ \A s \in Parts \ {r} : blocked'[s] = blocked[s]
  BY <1>1, <1>2 DEF ToSet, IsInjective
<1>5. \A p \in Procs : acting'[p] = IF r \in Open(p) THEN acting[p] \cup {r} ELSE acting[p]
  <2> SUFFICES ASSUME NEW p \in Procs
               PROVE  acting'[p] = IF r \in Open(p) THEN acting[p] \cup {r} ELSE acting[p]
    OBVIOUS
  <2>1. acting'[p] = acting[p] \cup {s \in {r} : p \in ToSet(blocked[r])}
    BY <1>1
  <2>2. p \in ToSet(blocked[r]) <=> r \in Open(p) \ acting[p]
    BY <1>1, <1>2
  <2> QED BY <1>2, <2>1, <2>2
<1>6. TypeOK'
  <2>1. mail' \in [Msgs -> Parts \cup {"new", "gone"}]
    BY <1>1, <1>2
  <2>2. msgbuf' \in [Parts -> Seq(Msgs)] /\ delivered' \in [Parts -> Seq(Msgs)]
    <3>1. Append(msgbuf[r], m) \in Seq(Msgs) /\ Append(delivered[r], m) \in Seq(Msgs)
      BY <1>1, <1>2
    <3> QED BY <1>1, <1>2, <3>1
  <2>3. acting' \in [Procs -> SUBSET Parts]
    BY <1>1, <1>2
  <2>4. blocked' \in [Parts -> Seq(Procs)]
    BY <1>1, <1>2, <1>4
  <2> QED BY <1>1, <1>2, <2>1, <2>2, <2>3, <2>4 DEF TypeOK
<1>7. CallsAgree'
  <2>1. ASSUME NEW q \in Procs PROVE acting'[q] \subseteq Open(q)'
    <3>1. Open(q)' = Open(q)
      BY <1>3
    <3>2. acting'[q] = IF r \in Open(q) THEN acting[q] \cup {r} ELSE acting[q]
      BY <1>5
    <3>3. acting[q] \subseteq Open(q)
      BY <1>2
    <3> QED BY <3>1, <3>2, <3>3
  <2> QED BY <2>1 DEF CallsAgree
<1>8. TrapsAgree'
  <2> SUFFICES ASSUME NEW s \in Parts
               PROVE  /\ IsInjective(blocked'[s])
                      /\ \A q \in Procs : q \in ToSet(blocked'[s]) <=> s \in Open(q)' \ acting'[q]
    BY DEF TrapsAgree
  <2>1. CASE s = r
    BY <1>3, <1>4, <1>5, <2>1
  <2>2. CASE s # r
    <3>1. blocked'[s] = blocked[s]
      BY <1>4, <2>2
    <3>2. ASSUME NEW q \in Procs PROVE s \in Open(q)' \ acting'[q] <=> s \in Open(q) \ acting[q]
      BY <1>3, <1>5, <2>2
    <3> QED BY <1>2, <3>1, <3>2
  <2> QED BY <2>1, <2>2
<1>9. EmptyWhileBlocked'
  BY <1>1, <1>2, <1>4 DEF EmptyWhileBlocked
<1>10. TakenInOrder'
  <2>1. \A s \in Parts \ {r} : delivered'[s] = taken'[s] \o msgbuf'[s]
    BY <1>1, <1>2
  <2>2. taken[r] \o Append(msgbuf[r], m) = Append(delivered[r], m)
    <3>1. taken[r] \in Seq(Msgs) /\ msgbuf[r] \in Seq(Msgs) /\ delivered[r] = taken[r] \o msgbuf[r]
      BY <1>1, <1>2
    <3>2. taken[r] \o Append(msgbuf[r], m) = Append(taken[r] \o msgbuf[r], m)
      BY <3>1, ArriveProps
    <3> QED BY <3>1, <3>2
  <2>3. delivered'[r] = taken'[r] \o msgbuf'[r]
    BY <1>1, <1>2, <2>2
  <2> QED BY <1>1, <2>1, <2>3 DEF TakenInOrder
<1> QED BY <1>6, <1>7, <1>8, <1>9, <1>10 DEF BoxInv

-----------------------------------------------------------------------------
(* The scheduler *)

\* Those that a delivery wakes up, in the words of the scheduler's proofs.
LEMMA SameWoken ==
  ASSUME NEW q \in Seq(Procs) PROVE S!Woken(st, q) = SP!Woken(st, q)
<1>1. \A X : S!Cardinality(X) = SP!Cardinality(X)
  BY DEF S!Cardinality, SP!Cardinality
<1>2. \A I, k : S!Nth(I, k) = SP!Nth(I, k)
  BY <1>1 DEF S!Nth, SP!Nth
<1>3. \A s, I : S!AtPlaces(s, I) = SP!AtPlaces(s, I)
  BY <1>1, <1>2 DEF S!AtPlaces, SP!AtPlaces
<1>4. S!Wakeable = SP!Wakeable
  BY DEF S!Wakeable, SP!Wakeable
<1> QED BY <1>3, <1>4 DEF S!Woken, SP!Woken

\* Every step is one of the scheduler, or leaves the scheduler alone.
LEMMA SchedStep ==
  ASSUME st \in [Procs -> SP!States], blocked \in [Parts -> Seq(Procs)], [Next]_vars
  PROVE  [SP!Next]_SP!vars
<1>0. /\ <<>> \in SP!Batches(Procs)
      /\ \A states : SP!CanWake(states, <<>>)
  BY SameProcs, SP!WokenNone
<1>w. ASSUME NEW q PROVE S!Wake(st, q) => SP!Wake(st, q)
  BY DEF S!Wake, SP!Wake, S!ToSet, SP!ToSet
<1>u. S!User => SP!User
  BY DEF S!User, SP!User
<1>s. ASSUME NEW p \in Procs, SP!Suspend(p) PROVE SP!Next
  BY <1>s DEF SP!Next, SP!Yield
<1>1. ASSUME NEW parts, NEW every, NEW isall, NEW timed, WaitBlocks(parts, every, isall, timed)
      PROVE  SP!Next
  BY <1>1, <1>s DEF WaitBlocks, InProcess, S!Suspend, SP!Suspend
<1>2. ASSUME NEW r, NEW isall, RecvBlocks(r, isall) PROVE SP!Next
  BY <1>2, <1>s DEF RecvBlocks, InProcess, S!Suspend, SP!Suspend
<1>3. ASSUME NEW p \in Procs, WaitAgain(p) PROVE SP!Next
  BY <1>3, <1>s DEF WaitAgain, S!Suspend, SP!Suspend
<1>4. ASSUME NEW p, RecvReturn(p) \/ WaitReturn(p) PROVE UNCHANGED SP!vars
  BY <1>4 DEF RecvReturn, WaitReturn, schedVars, SP!vars
<1>5. ASSUME NEW parts, NEW every, NEW isall, WaitAtOnce(parts, every, isall)
      PROVE  UNCHANGED SP!vars
  BY <1>5 DEF WaitAtOnce, schedVars, SP!vars
<1>6. ASSUME NEW r, NEW isall, Retrieve(r, isall) PROVE UNCHANGED SP!vars
  BY <1>6 DEF Retrieve, schedVars, SP!vars
<1>7. ASSUME NEW p \in Procs, Fire(p) PROVE SP!Next
  <2>1. S!Wakeable = SP!Wakeable
    BY DEF S!Wakeable, SP!Wakeable
  <2>2. SP!Fire(p)
    BY <1>7, <1>w, <2>1 DEF Fire, S!Fire, SP!Fire
  <2> QED BY <2>2 DEF SP!Next
<1>8. ASSUME NEW p \in Procs, Kill(p) \/ Terminate(p) PROVE SP!Next
  <2>1. S!Wake([st EXCEPT ![p] = "terminated"], <<>>) =>
        SP!Wake([st EXCEPT ![p] = "terminated"], <<>>)
    BY DEF S!Wake, SP!Wake, S!ToSet, SP!ToSet
  <2>2. CASE Kill(p)
    <3>1. SP!Kill(p, <<>>)
      BY <1>u, <2>1, <2>2 DEF Kill, S!Kill, SP!Kill, S!Live, SP!Live
    <3> QED BY <1>0, <3>1 DEF SP!Next
  <2>3. CASE Terminate(p)
    <3>1. SP!Terminate(p, <<>>)
      BY <2>1, <2>3 DEF Terminate, S!Terminate, SP!Terminate
    <3> QED BY <1>0, <3>1 DEF SP!Next, SP!Yield
  <2> QED BY <1>8, <2>2, <2>3
<1>9. ASSUME NEW m \in Msgs, \/ Cancel(m) \/ \E r \in Parts : Send(m, r)
      PROVE  UNCHANGED SP!vars
  BY <1>9 DEF Cancel, Send, schedVars, SP!vars
<1>10. ASSUME NEW m \in Msgs, Deliver(m) PROVE SP!Next
  <2>1. blocked[mail[m]] \in Seq(Procs) /\ S!Handle(S!Woken(st, blocked[mail[m]]))
    BY <1>10 DEF Deliver
  <2>2. PICK q \in Seq(Procs) : q = blocked[mail[m]]
    BY <2>1
  <2>3. SP!Woken(st, q) \in SP!Batches(Procs) /\ SP!CanWake(st, SP!Woken(st, q))
    BY SameProcs, SP!WokenProps
  <2>4. S!Handle(SP!Woken(st, q))
    BY <2>1, <2>2, SameWoken
  <2>5. SP!Handle(SP!Woken(st, q))
    BY <1>w, <2>4 DEF S!Handle, SP!Handle
  <2> QED BY <2>3, <2>5 DEF SP!Next
<1>11. ASSUME LoopStep PROVE SP!Next
  <2>1. S!Handle(<<>>) => SP!Handle(<<>>)
    BY <1>w DEF S!Handle, SP!Handle
  <2>2. /\ S!RunBegin => SP!RunBegin
        /\ S!RunEnd => SP!RunEnd
        /\ S!HandlerReturn => SP!HandlerReturn
        /\ S!Dispatch => SP!Dispatch
        /\ S!DrainEnd("pick") => SP!DrainEnd("pick")
    BY DEF S!RunBegin, SP!RunBegin, S!RunEnd, SP!RunEnd, S!HandlerReturn, SP!HandlerReturn,
           S!Dispatch, SP!Dispatch, S!DrainEnd, SP!DrainEnd, S!Last, SP!Last
  <2> QED BY <1>0, <1>11, <2>1, <2>2 DEF LoopStep, SP!LoopStep, SP!Next
<1>12. CASE UNCHANGED vars
  BY <1>12 DEF vars, schedVars, SP!vars
<1> QED BY <1>1, <1>2, <1>3, <1>4, <1>5, <1>6, <1>7, <1>8, <1>9, <1>10, <1>11, <1>12 DEF Next

-----------------------------------------------------------------------------
(* Each step keeps what is said of the states of the processes *)

\* A step that does not concern a process: it may be given the control where
\* it is running.
LEMMA Unmoved ==
  ASSUME NEW p \in Procs, StateAgrees(p),
         st'[p] = st[p], call'[p] = call[p], acting'[p] = acting[p],
         p \in timer' <=> p \in timer,
         cur' = p => cur = p \/ st[p] = "running"
  PROVE  StateAgrees(p)'
BY DEF StateAgrees, Got, Met

\* One process changes, and the step does not concern the others.
LEMMA Others ==
  ASSUME StatesAgree, NEW p \in Procs, StateAgrees(p)',
         \A q \in Procs \ {p} :
           /\ st'[q] = st[q] /\ call'[q] = call[q] /\ acting'[q] = acting[q]
           /\ q \in timer' <=> q \in timer
           /\ cur' = q => cur = q \/ st[q] = "running"
  PROVE  StatesAgree'
<1>1. ASSUME NEW q \in Procs, q # p PROVE StateAgrees(q)'
  BY <1>1, Unmoved DEF StatesAgree
<1> QED BY <1>1 DEF StatesAgree

\* Steps that concern nobody, except that the control may be handed on.
LEMMA Handed ==
  ASSUME StatesAgree, UNCHANGED <<st, call, acting, timer>>,
         \A q \in Procs : cur' = q => cur = q \/ st[q] = "running"
  PROVE  StatesAgree'
<1>1. ASSUME NEW q \in Procs PROVE StateAgrees(q)'
  BY <1>1, Unmoved DEF StatesAgree
<1> QED BY <1>1 DEF StatesAgree

\* The states after a batch is woken up.
LEMMA WakeStates ==
  ASSUME NEW states, NEW q, S!Wake(states, q)
  PROVE  \A p \in Procs : st'[p] = IF p \in ToSet(q) THEN "running" ELSE states[p]
BY DEF S!Wake, S!ToSet, ToSet

\* The main program, the event loop and the handlers are no processes.
LEMMA NotProcs == {"main", "pick", "handler", "drain"} \cap Procs = {}
BY SameProcs DEF SP!NoProc

\* What the invariants say of a process, and of the one that has the control.
LEMMA ProcFacts ==
  ASSUME SP!IInv, BoxInv, NEW p \in Procs
  PROVE  /\ st \in [Procs -> SP!States]
         /\ cur = p => st[p] \in {"running", "terminated"}
         /\ call \in [Procs -> Calls] /\ call[p] \in Calls
         /\ acting \in [Procs -> SUBSET Parts] /\ acting[p] \subseteq Open(p)
         /\ call[p] = Idle => acting[p] = {}
<1>1. /\ st \in [Procs -> SP!States]
      /\ cur = p => st[p] \in {"running", "terminated"}
  BY DEF SP!IInv, SP!TypeOK, SP!RunningIsReady
<1>2. /\ call \in [Procs -> Calls] /\ acting \in [Procs -> SUBSET Parts]
      /\ acting[p] \subseteq Open(p)
  BY DEF BoxInv, TypeOK, CallsAgree
<1>3. call[p] = Idle => Open(p) = {}
  BY CallProps DEF Open
<1> QED BY <1>1, <1>2, <1>3

\* A call that blocks.
LEMMA BlocksStates ==
  ASSUME SP!IInv, BoxInv, StatesAgree, NEW p \in Procs, NEW c \in Calls,
         call[p] = Idle, S!Suspend(p), call' = [call EXCEPT ![p] = c], acting' = acting,
         \/ c.op = "recv" /\ timer' = timer
         \/ /\ c.op = "wait" /\ ~Met(c.every, c.parts, c.got)
            /\ timer' = IF c.timed THEN timer \cup {p} ELSE timer
  PROVE  StatesAgree'
<1>1. /\ cur = p /\ st[p] = "running" /\ st' = [st EXCEPT ![p] = "suspended"] /\ cur' = "drain"
  BY DEF S!Suspend
<1>2. call'[p] = c /\ st'[p] = "suspended" /\ acting'[p] = {} /\ cur' # p
  BY <1>1, ProcFacts, NotProcs
<1>3. p \notin timer
  BY <1>1, CallProps DEF StatesAgree, StateAgrees
<1>4. c.op = "wait" => Got(p)' = c.got
  BY <1>2 DEF Got
<1>5. StateAgrees(p)'
  BY <1>2, <1>3, <1>4 DEF StateAgrees, Met
<1>6. \A q \in Procs \ {p} : /\ st'[q] = st[q] /\ call'[q] = call[q] /\ acting'[q] = acting[q]
                             /\ q \in timer' <=> q \in timer
                             /\ cur' # q
  BY <1>1, NotProcs
<1> QED BY <1>5, <1>6, Others

\* A call that returns, whatever the answer.
LEMMA ReturnStates ==
  ASSUME SP!IInv, BoxInv, StatesAgree, NEW p \in Procs, cur = p, st' = st, cur' = cur,
         call' = [call EXCEPT ![p] = Idle],
         acting' = [acting EXCEPT ![p] = @ \ call[p].parts],
         \/ call[p].op = "recv" /\ timer' = timer
         \/ call[p].op = "wait" /\ timer' = timer \ {p}
  PROVE  StatesAgree'
<1>1. /\ call'[p] = Idle /\ acting'[p] = {}
      /\ \A q \in Procs \ {p} : call'[q] = call[q] /\ acting'[q] = acting[q]
  BY ProcFacts DEF Open
<1>2. st[p] \in {"running", "terminated"}
  BY ProcFacts
<1>3. p \in timer' => st[p] = "terminated"
  BY <1>2 DEF StatesAgree, StateAgrees
<1>4. StateAgrees(p)'
  BY <1>1, <1>2, <1>3, CallProps DEF StateAgrees
<1> QED BY <1>1, <1>4, Others

\* A wait that goes on.
LEMMA AgainStates ==
  ASSUME SP!IInv, BoxInv, StatesAgree, NEW p \in Procs, NEW c \in Calls,
         S!Suspend(p), call[p].op = "wait", timer' = timer,
         ~(TimedOut(p) \/ Met(call[p].every, call[p].parts, Got(p))),
         call' = [call EXCEPT ![p] = c],
         c.op = "wait", c.parts = call[p].parts, c.got = Got(p),
         c.every = call[p].every, c.timed = call[p].timed,
         acting' = [acting EXCEPT ![p] = {}]
  PROVE  StatesAgree'
<1>1. /\ cur = p /\ st[p] = "running" /\ st' = [st EXCEPT ![p] = "suspended"] /\ cur' = "drain"
  BY DEF S!Suspend
<1>2. call'[p] = c /\ st'[p] = "suspended" /\ acting'[p] = {} /\ cur' # p
  BY <1>1, ProcFacts, NotProcs
<1>3. p \in timer => c.timed
  BY <1>1 DEF StatesAgree, StateAgrees
<1>4. Got(p)' = c.got
  BY <1>2 DEF Got
<1>5. StateAgrees(p)'
  BY <1>2, <1>3, <1>4 DEF StateAgrees, Met
<1>6. \A q \in Procs \ {p} : /\ st'[q] = st[q] /\ call'[q] = call[q] /\ acting'[q] = acting[q]
                             /\ cur' # q
  BY <1>1, NotProcs
<1> QED BY <1>5, <1>6, Others

\* A process is killed or ends: the one that has the control is in no call.
LEMMA DeathStates ==
  ASSUME SP!IInv, BoxInv, StatesAgree, NEW p \in Procs, Kill(p) \/ Terminate(p)
  PROVE  StatesAgree'
<1>1. /\ UNCHANGED <<call, acting, timer>>
      /\ cur = p => call[p] = Idle
      /\ cur' = cur \/ cur' = "drain"
  BY DEF Kill, Terminate, User, boxVars, S!Kill, S!Terminate
<1>2. /\ st'[p] = "terminated"
      /\ \A q \in Procs \ {p} : st'[q] = st[q]
  <2> DEFINE dead == [st EXCEPT ![p] = "terminated"]
  <2>1. /\ dead[p] = "terminated" /\ \A q \in Procs \ {p} : dead[q] = st[q]
    BY ProcFacts
  <2>2. S!Wake(dead, <<>>) \/ (st[p] = "terminated" /\ st' = st)
    BY DEF Kill, Terminate, S!Kill, S!Terminate
  <2>3. ToSet(<<>>) = {}
    BY DEF ToSet
  <2> HIDE DEF dead
  <2>4. CASE S!Wake(dead, <<>>)
    BY <2>1, <2>3, <2>4, WakeStates
  <2> QED BY <2>2, <2>4
<1>3. StateAgrees(p)'
  BY <1>1, <1>2, NotProcs DEF StateAgrees
<1> QED BY <1>1, <1>2, <1>3, NotProcs, Others

\* The event of a process fires.
LEMMA FireStates ==
  ASSUME StatesAgree, NEW p \in Procs, Fire(p)
  PROVE  StatesAgree'
<1>1. /\ UNCHANGED <<call, acting>> /\ timer' = timer \ {p} /\ p \in timer
      /\ cur' = "drain"
  BY DEF Fire, S!Fire, boxVars
<1>2. /\ st'[p] = IF st[p] \in {"started", "suspended"} THEN "running" ELSE st[p]
      /\ \A q \in Procs \ {p} : st'[q] = st[q]
  <2>1. S!Wake(st, IF st[p] \in {"started", "suspended"} THEN <<p>> ELSE <<>>)
    BY DEF Fire, S!Fire, S!Wakeable
  <2>2. ToSet(<<>>) = {} /\ ToSet(<<p>>) = {p}
    BY DEF ToSet
  <2> QED BY <2>1, <2>2, WakeStates
<1>3. StateAgrees(p)
  BY DEF StatesAgree
<1>4. StateAgrees(p)'
  BY <1>1, <1>2, <1>3, NotProcs, CallProps DEF StateAgrees
<1> QED BY <1>1, <1>2, <1>4, NotProcs, Others

\* A delivery wakes up those who wait for nothing else.
LEMMA DeliverStates ==
  ASSUME SP!IInv, BoxInv, StatesAgree, NEW m \in Msgs, Deliver(m)
  PROVE  StatesAgree'
<1> DEFINE r == mail[m]
<1>1. /\ r \in Parts /\ UNCHANGED <<call, timer>> /\ cur' = "handler" /\ cur = "pick"
      /\ S!Wake(st, S!Woken(st, blocked[r]))
      /\ \A p \in Procs : acting'[p] = acting[p] \cup {s \in {r} : p \in ToSet(blocked[r])}
  BY DEF Deliver, S!Handle
<1> HIDE DEF r
<1>2. blocked[r] \in Seq(Procs)
      /\ \A p \in Procs : p \in ToSet(blocked[r]) <=> r \in Open(p) \ acting[p]
  BY <1>1 DEF BoxInv, TypeOK, TrapsAgree
<1>3. ToSet(S!Woken(st, blocked[r])) = {p \in ToSet(blocked[r]) : st[p] \in {"started", "suspended"}}
  <2>1. PICK q \in Seq(Procs) : q = blocked[r]
    BY <1>2
  <2>2. SP!ToSet(SP!Woken(st, q)) = {p \in SP!ToSet(q) : st[p] \in {"started", "suspended"}}
    BY SameProcs, SP!WokenProps DEF SP!Wakeable, SP!IInv, SP!TypeOK
  <2> QED BY <2>1, <2>2, SameWoken DEF SP!ToSet, ToSet
<1>4. \A p \in Procs : st'[p] = IF p \in ToSet(blocked[r]) /\ st[p] \in {"started", "suspended"}
                               THEN "running" ELSE st[p]
  BY <1>1, <1>3, WakeStates
<1>5. ASSUME NEW p \in Procs PROVE StateAgrees(p)'
  <2>1. StateAgrees(p) /\ cur' # p /\ cur # p
    BY <1>1, NotProcs DEF StatesAgree
  <2>2. CASE p \notin ToSet(blocked[r])
    <3>1. acting'[p] = acting[p] /\ st'[p] = st[p]
      BY <1>1, <1>4, <2>2
    <3> QED BY <1>1, <2>1, <3>1, Unmoved
  <2>3. CASE p \in ToSet(blocked[r])
    <3>1. r \in Open(p) /\ acting'[p] = acting[p] \cup {r} /\ acting[p] \subseteq Open(p)
      BY <1>1, <1>2, <2>3, ProcFacts
    <3>2. call[p] # Idle /\ call[p] \in Calls
      BY <3>1, CallProps, ProcFacts DEF Open
    <3>3. st'[p] \in {"running", "terminated"} /\ (st'[p] = "terminated" <=> st[p] = "terminated")
      BY <1>4, <2>1, <2>3, <3>2 DEF StateAgrees
    <3>4. call[p].op = "recv" => acting'[p] = call[p].parts
      <4>1. call[p].op = "recv" => \E s \in Parts : call[p].parts = {s}
        BY <3>2, CallKinds
      <4> QED BY <3>1, <4>1 DEF Open
    <3>5. p \in timer => st'[p] = "terminated" \/ (call[p].op = "wait" /\ call[p].timed)
      BY <2>1, <3>2, <3>3 DEF StateAgrees
    <3> QED BY <1>1, <2>1, <3>3, <3>4, <3>5 DEF StateAgrees
  <2> QED BY <2>2, <2>3
<1> QED BY <1>5 DEF StatesAgree

\* The loop hands the control on, to nobody but a running process.
LEMMA LoopStates ==
  ASSUME StatesAgree, LoopStep
  PROVE  StatesAgree'
<1>1. UNCHANGED <<call, acting, timer>>
  BY DEF LoopStep, boxVars
<1>2. CASE S!Dispatch
  BY <1>1, <1>2, NotProcs, Handed DEF S!Dispatch
<1>3. CASE S!Handle(<<>>)
  <2>1. S!Wake(st, <<>>) /\ cur' = "handler" /\ ToSet(<<>>) = {}
    BY <1>3 DEF S!Handle, ToSet
  <2>2. \A q \in Procs : st'[q] = st[q]
    BY <2>1, WakeStates
  <2>3. ASSUME NEW q \in Procs PROVE StateAgrees(q)'
    BY <1>1, <2>1, <2>2, NotProcs, Unmoved DEF StatesAgree
  <2> QED BY <2>3 DEF StatesAgree
<1>4. CASE S!RunBegin \/ S!RunEnd \/ S!HandlerReturn \/ S!DrainEnd("pick")
  <2>1. st' = st /\ cur' \in {"main", "pick", "drain"}
    BY <1>4 DEF S!RunBegin, S!RunEnd, S!HandlerReturn, S!DrainEnd
  <2> QED BY <1>1, <2>1, NotProcs, Handed
<1> QED BY <1>2, <1>3, <1>4 DEF LoopStep

-----------------------------------------------------------------------------

\* It holds at first.
LEMMA InitIInv == Init => IInv
<1> SUFFICES ASSUME Init PROVE IInv
  OBVIOUS
<1>1. SP!IInv
  BY SameProcs
     DEF Init, SP!IInv, SP!TypeOK, SP!QueuedOnce, SP!RunningIsReady, SP!States, SP!NoProc, SP!ToSet
<1>2. \A p \in Procs : Open(p) = {} /\ acting[p] = {} /\ call[p] = Idle /\ call[p].op = "none"
  BY CallProps DEF Init, Open
<1>3. TypeOK
  BY CallProps DEF Init, TypeOK
<1>4. CallsAgree
  BY <1>2 DEF CallsAgree
<1>5. TrapsAgree
  <2>1. ToSet(<<>>) = {} /\ IsInjective(<<>>)
    BY DEF ToSet, IsInjective
  <2>2. \A r \in Parts : blocked[r] = <<>>
    BY DEF Init
  <2> QED BY <1>2, <2>1, <2>2 DEF TrapsAgree
<1>6. EmptyWhileBlocked
  BY DEF Init, EmptyWhileBlocked
<1>7. TakenInOrder
  <2>1. <<>> \o <<>> = <<>>
    OBVIOUS
  <2> QED BY <2>1 DEF Init, TakenInOrder
<1>8. StatesAgree
  BY <1>2 DEF Init, StatesAgree, StateAgrees
<1> QED BY <1>1, <1>3, <1>4, <1>5, <1>6, <1>7, <1>8 DEF IInv, BoxInv

\* Every step keeps the invariant.
LEMMA NextIInv == IInv /\ [Next]_vars => IInv'
<1> SUFFICES ASSUME IInv, [Next]_vars PROVE IInv'
  OBVIOUS
<1>1. SP!IInv /\ BoxInv /\ StatesAgree
  BY DEF IInv
<1>2. SP!IInv'
  BY <1>1, SameProcs, SchedStep, SP!NextIInv DEF SP!IInv, SP!TypeOK, BoxInv, TypeOK
<1>t. TypeOK
  BY <1>1 DEF BoxInv
<1>m. ASSUME NEW parts, NEW isall, Collect(parts, isall), UNCHANGED <<mail, delivered>>
      PROVE  Moved
  BY <1>t, <1>m, CollectProps DEF Moved
<1>n. ASSUME UNCHANGED <<mail, msgbuf, history>> PROVE Moved
  BY <1>t, <1>n DEF TypeOK, Moved, history
<1>q. ASSUME UNCHANGED <<call, boxVars, history>> PROVE BoxInv'
  BY <1>1, <1>t, <1>q, QuietStep DEF boxVars, TypeOK
<1>u. ASSUME UNCHANGED <<schedVars, timer, call, acting>> PROVE StatesAgree'
  <2>1. UNCHANGED <<st, cur, call, acting, timer>>
    BY <1>u DEF schedVars
  <2> QED BY <1>1, <2>1, Handed
<1>3. ASSUME NEW m \in Msgs, Cancel(m) \/ \E r \in Parts : Send(m, r)
      PROVE  BoxInv' /\ StatesAgree'
  <2>1. /\ UNCHANGED <<schedVars, timer, call, msgbuf, blocked, acting, history>>
        /\ \E r \in Parts \cup {"gone"} : mail' = [mail EXCEPT ![m] = r]
    BY <1>3 DEF Cancel, Send
  <2>2. mail' \in [Msgs -> Parts \cup {"new", "gone"}]
    BY <1>t, <2>1 DEF TypeOK
  <2> QED BY <1>1, <1>u, <2>1, <2>2, QuietStep
<1>4. ASSUME NEW m \in Msgs, Deliver(m) PROVE BoxInv' /\ StatesAgree'
  BY <1>1, <1>4, DeliverStep, DeliverStates
<1>5. ASSUME NEW r, NEW isall, Retrieve(r, isall) PROVE BoxInv' /\ StatesAgree'
  <2>1. Collect({r}, isall) /\ UNCHANGED <<schedVars, timer, call, mail, blocked, acting, delivered>>
    BY <1>5 DEF Retrieve
  <2> QED BY <1>1, <1>m, <1>u, <2>1, MovedOnly
<1>6. ASSUME NEW parts, NEW every, NEW isall, WaitAtOnce(parts, every, isall)
      PROVE  BoxInv' /\ StatesAgree'
  <2>1. /\ Collect(Filled(parts), isall)
        /\ UNCHANGED <<schedVars, timer, call, mail, blocked, acting, delivered>>
    BY <1>6 DEF WaitAtOnce
  <2> QED BY <1>1, <1>m, <1>u, <2>1, MovedOnly
<1>7. ASSUME NEW r \in Parts, NEW isall \in BOOLEAN, RecvBlocks(r, isall)
      PROVE  BoxInv' /\ StatesAgree'
  <2>0. PICK p \in Procs : p = cur
    BY <1>7 DEF RecvBlocks, InProcess
  <2> DEFINE c == Receiving(r, isall)
  <2>1. /\ call[p] = Idle /\ msgbuf[r] = <<>> /\ S!Suspend(p)
        /\ blocked' = [blocked EXCEPT ![r] = Append(@, p)]
        /\ call' = [call EXCEPT ![p] = c]
        /\ UNCHANGED <<timer, mail, msgbuf, acting, history>>
    BY <1>7, <2>0 DEF RecvBlocks, InProcess, User
  <2>2. c \in Calls /\ c.op = "recv" /\ c.parts = {r}
    BY CallProps
  <2> HIDE DEF c
  <2>3. blocked' = [s \in Parts |-> IF s \in {r} THEN Append(blocked[s], p) ELSE blocked[s]]
    BY <1>t, <2>1 DEF TypeOK
  <2>4. {r} \in SUBSET Parts /\ ({r} = IF c.op = "wait" THEN c.parts \ c.got ELSE c.parts)
    BY <2>2
  <2>5. \A s \in {r} : msgbuf[s] = <<>>
    BY <2>1
  <2>6. Moved
    BY <1>n, <2>1
  <2>7. BoxInv'
    BY <1>1, <2>1, <2>2, <2>3, <2>4, <2>5, <2>6, BlocksStep
  <2>8. StatesAgree'
    BY <1>1, <2>1, <2>2, BlocksStates
  <2> QED BY <2>7, <2>8
<1>8. ASSUME NEW parts \in SUBSET Parts, NEW every \in BOOLEAN, NEW isall \in BOOLEAN,
             NEW timed \in BOOLEAN, WaitBlocks(parts, every, isall, timed)
      PROVE  BoxInv' /\ StatesAgree'
  <2>0. PICK p \in Procs : p = cur
    BY <1>8 DEF WaitBlocks, InProcess
  <2> DEFINE full == Filled(parts)
             c == Waiting(parts, full, every, isall, timed)
             new == parts \ full
  <2>1. /\ call[p] = Idle /\ ~Met(every, parts, full) /\ S!Suspend(p)
        /\ Collect(full, isall)
        /\ blocked' = [r \in Parts |-> IF r \in new THEN Append(blocked[r], p) ELSE blocked[r]]
        /\ timer' = IF timed THEN timer \cup {p} ELSE timer
        /\ call' = [call EXCEPT ![p] = c]
        /\ UNCHANGED <<mail, acting, delivered>>
    BY <1>8, <2>0 DEF WaitBlocks, InProcess, User
  <2>2. full \in SUBSET Parts /\ new \in SUBSET Parts /\ \A r \in new : msgbuf[r] = <<>>
    BY DEF Filled
  <2> HIDE DEF full
  <2>3. /\ c \in Calls /\ c.op = "wait" /\ c.parts = parts /\ c.got = full
        /\ c.every = every /\ c.timed = timed
    BY <2>2, CallProps
  <2> HIDE DEF c
  <2>4. new = IF c.op = "wait" THEN c.parts \ c.got ELSE c.parts
    BY <2>3
  <2> HIDE DEF new
  <2>5. Moved
    BY <1>m, <2>1
  <2>6. BoxInv'
    BY <1>1, <2>1, <2>2, <2>3, <2>4, <2>5, BlocksStep
  <2>7. StatesAgree'
    BY <1>1, <2>1, <2>3, BlocksStates
  <2> QED BY <2>6, <2>7
<1>f. ASSUME NEW p \in Procs
      PROVE  /\ blocked \in [Parts -> Seq(Procs)]
             /\ \A r \in Parts : /\ blocked[r] \in Seq(Procs) /\ IsInjective(blocked[r])
                                 /\ p \in ToSet(blocked[r]) <=> r \in Open(p) \ acting[p]
  BY <1>1, <1>t DEF TypeOK, BoxInv, TrapsAgree
<1>9. ASSUME NEW p \in Procs, RecvReturn(p) PROVE BoxInv' /\ StatesAgree'
  <2>1. /\ cur = p /\ call[p].op = "recv"
        /\ Collect(call[p].parts, call[p].isall)
        /\ acting' = [acting EXCEPT ![p] = @ \ call[p].parts]
        /\ call' = [call EXCEPT ![p] = Idle]
        /\ UNCHANGED <<schedVars, timer, mail, blocked, delivered>>
    BY <1>9 DEF RecvReturn
  <2>2. acting[p] = call[p].parts
    BY <1>1, <2>1, CallProps, ProcFacts DEF StatesAgree, StateAgrees
  <2>3. ASSUME NEW r \in Parts
        PROVE  IsInjective(blocked'[r]) /\ ToSet(blocked'[r]) = ToSet(blocked[r]) \ {p}
    <3>1. p \notin ToSet(blocked[r]) /\ IsInjective(blocked[r])
      BY <1>f, <2>1, <2>2 DEF Open
    <3> QED BY <2>1, <3>1
  <2>4. BoxInv'
    BY <1>1, <1>f, <1>m, <2>1, <2>3, ReturnStep
  <2>5. StatesAgree'
    BY <1>1, <2>1, ReturnStates DEF schedVars
  <2> QED BY <2>4, <2>5
<1>10. ASSUME NEW p \in Procs, WaitReturn(p) PROVE BoxInv' /\ StatesAgree'
  <2>1. /\ cur = p /\ call[p].op = "wait"
        /\ Collect(acting[p] \cap call[p].parts, call[p].isall)
        /\ acting' = [acting EXCEPT ![p] = @ \ call[p].parts]
        /\ blocked' = [r \in Parts |-> IF r \in call[p].parts \ Got(p)
                                       THEN RemoveFirst(blocked[r], p) ELSE blocked[r]]
        /\ timer' = timer \ {p}
        /\ call' = [call EXCEPT ![p] = Idle]
        /\ UNCHANGED <<schedVars, mail, delivered>>
    BY <1>10 DEF WaitReturn
  <2>2. ASSUME NEW r \in Parts
        PROVE  /\ blocked'[r] \in Seq(Procs) /\ IsInjective(blocked'[r])
               /\ ToSet(blocked'[r]) = ToSet(blocked[r]) \ {p}
    <3>1. r \in call[p].parts \ Got(p) <=> p \in ToSet(blocked[r])
      BY <1>f, <2>1 DEF Open, Got
    <3>2. blocked[r] \in Seq(Procs) /\ IsInjective(blocked[r])
      BY <1>f
    <3>3. /\ RemoveFirst(blocked[r], p) \in Seq(Procs) /\ IsInjective(RemoveFirst(blocked[r], p))
          /\ ToSet(RemoveFirst(blocked[r], p)) = ToSet(blocked[r]) \ {p}
      BY <3>2, SP!RemoveFirstProps, SameProcs, SameSequences
    <3>4. blocked'[r] = IF p \in ToSet(blocked[r]) THEN RemoveFirst(blocked[r], p) ELSE blocked[r]
      BY <2>1, <3>1
    <3> QED BY <3>2, <3>3, <3>4
  <2>3. blocked' \in [Parts -> Seq(Procs)]
    BY <2>1, <2>2
  <2>4. BoxInv'
    BY <1>1, <1>m, <2>1, <2>2, <2>3, ReturnStep
  <2>5. StatesAgree'
    BY <1>1, <2>1, ReturnStates DEF schedVars
  <2> QED BY <2>4, <2>5
<1>11. ASSUME NEW p \in Procs, WaitAgain(p) PROVE BoxInv' /\ StatesAgree'
  <2>1. /\ cur = p /\ call[p].op = "wait" /\ S!Suspend(p)
        /\ ~(TimedOut(p) \/ Met(call[p].every, call[p].parts, Got(p)))
        /\ Collect(acting[p] \cap call[p].parts, call[p].isall)
        /\ acting' = [acting EXCEPT ![p] = @ \ call[p].parts]
        /\ call' = [call EXCEPT ![p].got = Got(p)]
        /\ UNCHANGED <<timer, mail, blocked, delivered>>
    BY <1>11 DEF WaitAgain
  <2>2. Moved
    BY <1>m, <2>1
  <2>3. BoxInv'
    BY <1>1, <2>1, <2>2, AgainStep
  <2>4. PICK c \in Calls :
          /\ call' = [call EXCEPT ![p] = c]
          /\ c.op = "wait" /\ c.parts = call[p].parts /\ c.got = Got(p)
          /\ c.every = call[p].every /\ c.isall = call[p].isall /\ c.timed = call[p].timed
    BY <1>1, <2>1, <2>2, AgainStep
  <2>5. acting' = [acting EXCEPT ![p] = {}]
    BY <1>1, <2>1, <2>2, AgainStep
  <2>6. StatesAgree'
    BY <1>1, <2>1, <2>4, <2>5, AgainStates
  <2> QED BY <2>3, <2>6
<1>12. ASSUME NEW p \in Procs, Kill(p) \/ Terminate(p) PROVE BoxInv' /\ StatesAgree'
  <2>1. UNCHANGED <<call, boxVars, history>>
    BY <1>12 DEF Kill, Terminate
  <2> QED BY <1>1, <1>12, <1>q, <2>1, DeathStates
<1>13. ASSUME NEW p \in Procs, Fire(p) PROVE BoxInv' /\ StatesAgree'
  <2>1. UNCHANGED <<call, boxVars, history>>
    BY <1>13 DEF Fire
  <2> QED BY <1>1, <1>13, <1>q, <2>1, FireStates
<1>14. ASSUME LoopStep PROVE BoxInv' /\ StatesAgree'
  <2>1. UNCHANGED <<call, boxVars, history>>
    BY <1>14 DEF LoopStep
  <2> QED BY <1>1, <1>14, <1>q, <2>1, LoopStates
<1>15. ASSUME UNCHANGED vars PROVE BoxInv' /\ StatesAgree'
  BY <1>15, <1>q, <1>u DEF vars, boxVars
<1>16. BoxInv' /\ StatesAgree'
  BY <1>3, <1>4, <1>5, <1>6, <1>7, <1>8, <1>9, <1>10, <1>11, <1>12, <1>13, <1>14, <1>15 DEF Next
<1> QED BY <1>2, <1>16 DEF IInv

-----------------------------------------------------------------------------
(* The theorems *)

\* The invariant holds in every behaviour.
LEMMA AlwaysIInv == Spec => []IInv
BY InitIInv, NextIInv, PTL DEF Spec

\* However many receivers, callbacks and others retrieve, a message is taken
\* from its partition at most once and in the order of delivery (retrieve(),
\* recv(), and the loops of wait()).
THEOREM InOrder == Spec => []TakenInOrder
<1>1. IInv => TakenInOrder
  BY DEF IInv, BoxInv
<1> QED BY <1>1, AlwaysIInv, PTL

\* No receiver is left blocked where a message is, or suspended while those it
\* was told of are enough: all that wait are released, and the wait loop of the
\* mailbox looks at every one of them.
THEOREM NobodyLeftBlocked == Spec => []NoneLeftBlocked
<1>1. IInv => NoneLeftBlocked
  <2> SUFFICES ASSUME IInv PROVE NoneLeftBlocked
    OBVIOUS
  <2>1. \A r \in Parts : blocked[r] # <<>> => msgbuf[r] = <<>>
    BY DEF IInv, BoxInv, EmptyWhileBlocked
  <2>2. ASSUME NEW p \in Procs, st[p] = "suspended"
        PROVE  CASE call[p].op = "recv" -> acting[p] = {}
                 [] call[p].op = "wait" -> ~Met(call[p].every, call[p].parts, Got(p))
    BY <2>2 DEF IInv, StatesAgree, StateAgrees
  <2> QED BY <2>1, <2>2 DEF NoneLeftBlocked
<1> QED BY <1>1, AlwaysIInv, PTL

\* A live process is on the trap of a partition exactly while it waits for it
\* and was not released, and there once, so that leaving a trap never fails.
THEOREM RegisteredExactly == Spec => []RegistrationsExact
<1>1. IInv => RegistrationsExact
  <2> SUFFICES ASSUME IInv, NEW p \in Procs, S!Live(p)
               PROVE  /\ \A r \in Parts :
                           Cardinality({i \in DOMAIN blocked[r] : blocked[r][i] = p}) =
                             IF /\ r \in call[p].parts \ acting[p]
                                /\ call[p].op = "wait" => r \notin call[p].got
                             THEN 1 ELSE 0
                      /\ acting[p] \subseteq call[p].parts
                      /\ acting[p] # {} => st[p] = "running"
    BY DEF RegistrationsExact
  <2>1. acting[p] \subseteq Open(p) /\ StateAgrees(p)
    BY DEF IInv, BoxInv, CallsAgree, StatesAgree
  <2>2. acting[p] \subseteq call[p].parts
    BY <2>1 DEF Open
  <2>3. acting[p] # {} => st[p] = "running"
    BY <2>1 DEF StateAgrees, S!Live
  <2>4. ASSUME NEW r \in Parts
        PROVE  Cardinality({i \in DOMAIN blocked[r] : blocked[r][i] = p}) =
                 IF /\ r \in call[p].parts \ acting[p]
                    /\ call[p].op = "wait" => r \notin call[p].got
                 THEN 1 ELSE 0
    <3> DEFINE at == {i \in DOMAIN blocked[r] : blocked[r][i] = p}
    <3>1. IsInjective(blocked[r]) /\ (p \in ToSet(blocked[r]) <=> r \in Open(p) \ acting[p])
      BY DEF IInv, BoxInv, TrapsAgree
    <3>2. r \in Open(p) \ acting[p] <=> /\ r \in call[p].parts \ acting[p]
                                        /\ call[p].op = "wait" => r \notin call[p].got
      BY DEF Open
    <3>3. CASE p \notin ToSet(blocked[r])
      <4>1. at = {}
        BY <3>3 DEF ToSet
      <4> QED BY <3>1, <3>2, <3>3, <4>1, FS_EmptySet
    <3>4. CASE p \in ToSet(blocked[r])
      <4>1. PICK i \in DOMAIN blocked[r] : blocked[r][i] = p
        BY <3>4 DEF ToSet
      <4>2. at = {i}
        BY <3>1, <4>1 DEF IsInjective
      <4>3. Cardinality(at) = 1
        BY <4>2, FS_Singleton
      <4> QED BY <3>1, <3>2, <3>4, <4>3
    <3> QED BY <3>3, <3>4
  <2> QED BY <2>2, <2>3, <2>4
<1> QED BY <1>1, AlwaysIInv, PTL

\* Every step is one of the process scheduler, or leaves it alone.
THEOREM StepsOfTheScheduler == Spec => [][SP!Next]_SP!vars
<1>1. IInv /\ [Next]_vars => [SP!Next]_SP!vars
  BY SchedStep DEF IInv, BoxInv, TypeOK, SP!IInv, SP!TypeOK
<1> QED BY <1>1, AlwaysIInv, PTL DEF Spec
=============================================================================
