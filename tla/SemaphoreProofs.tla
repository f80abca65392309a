---------------------------- MODULE SemaphoreProofs ---------------------------
(***************************************************************************)
(* Theorems about Semaphore, for every set of processes and semaphores,    *)
(* all initial values and queuing disciplines.                             *)
(***************************************************************************)
EXTENDS Semaphore, FiniteSetTheorems, SequenceTheorems, TLAPS

\* What is proved about the process scheduler.
SP == INSTANCE SchedProofs

\* The blocking calls a process can be in.
Calls == {Idle, Sleeping}
           \cup {Waiting(op, sems, got, every, timed) :
                   op \in {"direct", "cond"}, sems \in SUBSET Sems,
                   got \in SUBSET Sems, every \in BOOLEAN, timed \in BOOLEAN}

TypeOK == /\ call \in [Procs -> Calls]
          /\ val \in [Sems -> Int]
          /\ semq \in [Sems -> Seq(Procs)]
          /\ acting \in [Procs -> SUBSET Sems]
          /\ given \in [Sems -> Nat]
          /\ taken \in [Sems -> Nat]

\* p, dead or alive, is in a wait for s and has not been granted it.
InWait(p) == call[p].op \in {"direct", "cond"}
StillWaits(p, s) == InWait(p) /\ s \in call[p].sems \ (call[p].got \cup acting[p])

\* The wait of a process, what it was told of, and what it was granted since.
WaitsAgree ==
  \A p \in Procs :
    IF InWait(p)
    THEN /\ call[p].got \subseteq call[p].sems
         /\ acting[p] \subseteq call[p].sems \ call[p].got
         /\ call[p].op = "direct" => /\ call[p].got = {}
                                     /\ \E s \in Sems : call[p].sems = {s}
    ELSE acting[p] = {}

\* A queue holds the processes that still wait, each once.
QueuesAgree ==
  \A s \in Sems : /\ IsInjective(semq[s])
                  /\ \A p \in Procs : p \in ToSet(semq[s]) <=> StillWaits(p, s)

\* Values, queues, calls and signals agree, whatever the scheduler does.
WaitInv == /\ TypeOK
           /\ WaitsAgree
           /\ QueuesAgree
           /\ ValueCountsQueue
           /\ SignalsConserved

\* The state of a process agrees with its call: only a sleeping process and a
\* wait with a limit have an event pending, so that a direct wait is resumed
\* by nothing but its signal; and it is alive when it is resumed.
StateAgrees(p) ==
  /\ p \in timer => \/ st[p] \in {"started", "terminated"}
                    \/ st[p] = "suspended" /\ call[p].op = "sleep"
                    \/ call[p].op = "cond" /\ call[p].timed
  /\ InWait(p) => st[p] # "started"
  /\ InWait(p) /\ cur = p => st[p] = "running"
  /\ call[p].op = "direct" /\ st[p] = "running" => acting[p] = call[p].sems

StatesAgree == \A p \in Procs : StateAgrees(p)

\* The inductive invariant.
IInv == SP!IInv /\ WaitInv /\ StatesAgree /\ NoLostWakeup

-----------------------------------------------------------------------------
(* The scheduler *)

\* The operators on sequences are those of the scheduler's proofs.
LEMMA SameSequences ==
  /\ \A s : SP!ToSet(s) = ToSet(s) /\ (SP!IsInjective(s) <=> IsInjective(s))
  /\ \A s, i : SP!RemoveAt(s, i) = RemoveAt(s, i)
  /\ \A s : SP!Front(s) = Front(s) /\ SP!Last(s) = Last(s)
  /\ \A s, x : SP!RemoveFirst(s, x) = RemoveFirst(s, x)
  /\ \A X : SP!Cardinality(X) = Cardinality(X) /\ (SP!IsFiniteSet(X) <=> IsFiniteSet(X))
<1>1. \A s : SP!ToSet(s) = ToSet(s) /\ (SP!IsInjective(s) <=> IsInjective(s))
  BY DEF SP!ToSet, ToSet, SP!IsInjective, IsInjective
<1>2. \A s, i : SP!RemoveAt(s, i) = RemoveAt(s, i)
  BY DEF SP!RemoveAt, RemoveAt
<1>3. \A s : SP!Front(s) = Front(s) /\ SP!Last(s) = Last(s)
  BY DEF SP!Front, Front, SP!Last, Last
<1>4. \A s, x : SP!RemoveFirst(s, x) = RemoveFirst(s, x)
  BY DEF SP!RemoveFirst, RemoveFirst, SP!RemoveAt, RemoveAt, SP!SelectInSeq, SelectInSeq,
         SP!Min, Min
<1>5. \A X : SP!Cardinality(X) = Cardinality(X) /\ (SP!IsFiniteSet(X) <=> IsFiniteSet(X))
  BY DEF SP!Cardinality, Cardinality, SP!IsFiniteSet, IsFiniteSet
<1> QED BY <1>1, <1>2, <1>3, <1>4, <1>5

\* What is assumed of the processes, in the words of the scheduler's proofs.
LEMMA SameProcs == SP!ProcsOK /\ IsFiniteSet(Procs) /\ Procs \cap SP!NoProc = {}
<1>1. S!IsFiniteSet(Procs) <=> IsFiniteSet(Procs)
  BY DEF S!IsFiniteSet, IsFiniteSet
<1>2. SP!IsFiniteSet(Procs) <=> IsFiniteSet(Procs)
  BY DEF SP!IsFiniteSet, IsFiniteSet
<1> QED BY <1>1, <1>2, SemAssumption DEF S!ProcsOK, SP!ProcsOK, S!NoProc, SP!NoProc

\* activate() on one process, in the words of the scheduler's proofs.
LEMMA SameWoken ==
  ASSUME NEW p \in Procs PROVE S!Woken(st, <<p>>) = SP!Woken(st, <<p>>)
<1>1. \A X : S!Cardinality(X) = SP!Cardinality(X)
  BY DEF S!Cardinality, SP!Cardinality
<1>2. \A I, k : S!Nth(I, k) = SP!Nth(I, k)
  BY <1>1 DEF S!Nth, SP!Nth
<1>3. \A s, I : S!AtPlaces(s, I) = SP!AtPlaces(s, I)
  BY <1>1, <1>2 DEF S!AtPlaces, SP!AtPlaces
<1>4. S!Wakeable = SP!Wakeable
  BY DEF S!Wakeable, SP!Wakeable
<1> QED BY <1>3, <1>4 DEF S!Woken, SP!Woken

\* A signal takes a place of the queue.
LEMMA CandidatesInQueue ==
  ASSUME NEW s \in Sems, semq[s] \in Seq(Procs), semq[s] # <<>>
  PROVE  Candidates(s) \subseteq 1..Len(semq[s])
<1>1. Qdis[s] \in {"FIFO", "LIFO", "SIRO", "PRIORITY"}
  BY SemAssumption DEF ValidSemaphore, Disciplines
<1>2. Len(semq[s]) \in Nat /\ Len(semq[s]) >= 1 /\ DOMAIN semq[s] = 1..Len(semq[s])
  BY EmptySeq
<1>3. CASE Qdis[s] = "FIFO"
  BY <1>2, <1>3 DEF Candidates
<1>4. CASE Qdis[s] = "LIFO"
  BY <1>2, <1>4 DEF Candidates
<1>5. CASE Qdis[s] = "SIRO"
  BY <1>2, <1>5 DEF Candidates
<1>6. CASE Qdis[s] = "PRIORITY"
  BY <1>2, <1>6 DEF Candidates
<1> QED BY <1>1, <1>3, <1>4, <1>5, <1>6

\* The queue without one of its places, whatever the discipline.
LEMMA LeftProps ==
  ASSUME NEW s \in Sems, semq[s] \in Seq(Procs), IsInjective(semq[s]),
         NEW i \in 1..Len(semq[s])
  PROVE  /\ Left(s, i) \in Seq(Procs) /\ IsInjective(Left(s, i))
         /\ Len(Left(s, i)) = Len(semq[s]) - 1
         /\ ToSet(Left(s, i)) = ToSet(semq[s]) \ {semq[s][i]}
<1>1. CASE Qdis[s] \in {"FIFO", "LIFO"}
  <2>1. Left(s, i) = RemoveAt(semq[s], i)
    BY <1>1 DEF Left
  <2> QED BY <2>1, SP!RemoveAtProps, SameProcs, SameSequences
<1>2. CASE Qdis[s] \notin {"FIFO", "LIFO"}
  <2>1. Left(s, i) = Front([semq[s] EXCEPT ![i] = Last(semq[s])])
    BY <1>2 DEF Left
  <2>2. /\ SP!Front([semq[s] EXCEPT ![i] = SP!Last(semq[s])]) \in Seq(Procs)
        /\ Len(SP!Front([semq[s] EXCEPT ![i] = SP!Last(semq[s])])) = Len(semq[s]) - 1
        /\ SP!IsInjective(SP!Front([semq[s] EXCEPT ![i] = SP!Last(semq[s])]))
        /\ SP!ToSet(SP!Front([semq[s] EXCEPT ![i] = SP!Last(semq[s])]))
             = SP!ToSet(semq[s]) \ {semq[s][i]}
    BY SP!SwapOutProps, SameProcs, SameSequences
  <2>3. SP!Front([semq[s] EXCEPT ![i] = SP!Last(semq[s])]) = Left(s, i)
    BY <2>1 DEF SP!Front, Front, SP!Last, Last
  <2> QED BY <2>2, <2>3, SameSequences
<1> QED BY <1>1, <1>2

\* A signal of a semaphore that processes are blocked on unblocks one of them.
LEMMA SignalProps ==
  ASSUME NEW s \in Sems, semq[s] \in Seq(Procs), IsInjective(semq[s]), semq[s] # <<>>,
         Signal(s)
  PROVE  \E p \in ToSet(semq[s]), q \in Seq(Procs) :
           /\ p \in Procs /\ IsInjective(q)
           /\ Len(q) = Len(semq[s]) - 1
           /\ ToSet(q) = ToSet(semq[s]) \ {p}
           /\ semq' = [semq EXCEPT ![s] = q]
           /\ acting' = [acting EXCEPT ![p] = @ \cup {s}]
           /\ S!Signal(SP!Woken(st, <<p>>))
<1>1. PICK i \in Candidates(s) :
        LET p == semq[s][i]
        IN /\ semq' = [semq EXCEPT ![s] = Left(s, i)]
           /\ acting' = [acting EXCEPT ![p] = @ \cup {s}]
           /\ S!Signal(S!Woken(st, <<p>>))
  BY DEF Signal
<1>2. i \in 1..Len(semq[s])
  BY CandidatesInQueue
<1> DEFINE p == semq[s][i]
<1>3. p \in ToSet(semq[s]) /\ p \in Procs
  BY <1>2 DEF ToSet
<1>4. /\ Left(s, i) \in Seq(Procs) /\ IsInjective(Left(s, i))
      /\ Len(Left(s, i)) = Len(semq[s]) - 1
      /\ ToSet(Left(s, i)) = ToSet(semq[s]) \ {p}
  BY <1>2, LeftProps
<1>5. /\ semq' = [semq EXCEPT ![s] = Left(s, i)]
      /\ acting' = [acting EXCEPT ![p] = @ \cup {s}]
      /\ S!Signal(S!Woken(st, <<p>>))
  BY <1>1
<1> HIDE DEF p
<1>6. S!Signal(SP!Woken(st, <<p>>))
  BY <1>3, <1>5, SameWoken
<1> QED BY <1>3, <1>4, <1>5, <1>6

\* Every step is one of the scheduler, or leaves the scheduler alone.
LEMMA SchedStep ==
  ASSUME st \in [Procs -> SP!States], semq \in [Sems -> Seq(Procs)],
         \A s \in Sems : IsInjective(semq[s]), [Next]_vars
  PROVE  [SP!Next]_SP!vars
<1>0. /\ <<>> \in SP!Batches(Procs)
      /\ \A states : SP!CanWake(states, <<>>)
  BY SameProcs, SP!WokenNone
<1>w. ASSUME NEW q PROVE S!Wake(st, q) => SP!Wake(st, q)
  BY DEF S!Wake, SP!Wake, S!ToSet, SP!ToSet
<1>u. S!User => SP!User
  BY DEF S!User, SP!User
<1>s. ASSUME NEW p \in Procs, SP!Suspend(p) PROVE SP!Next
  BY <1>s DEF SP!Next, SP!Yield
<1>1. ASSUME NEW sems, NEW op, NEW every, NEW timed, WaitBlocks(op, sems, every, timed)
      PROVE  SP!Next
  BY <1>1, <1>s DEF WaitBlocks, InProcess, S!Suspend, SP!Suspend
<1>2. ASSUME NEW p \in Procs, CondAgain(p) PROVE SP!Next
  BY <1>2, <1>s DEF CondAgain, S!Suspend, SP!Suspend
<1>3. ASSUME Sleep PROVE SP!Next
  BY <1>3, <1>s DEF Sleep, InProcess, S!Suspend, SP!Suspend
<1>4. ASSUME NEW sems, NEW every, WaitAtOnce(sems, every) PROVE UNCHANGED SP!vars
  BY <1>4 DEF WaitAtOnce, schedVars, SP!vars
<1>5. ASSUME NEW p \in Procs, DirectReturn(p) \/ CondReturn(p) \/ SleepReturn(p)
      PROVE  UNCHANGED SP!vars
  BY <1>5 DEF DirectReturn, CondReturn, SleepReturn, schedVars, SP!vars
<1>6. ASSUME NEW p \in Procs, NEW v, SetPriority(p, v) PROVE UNCHANGED SP!vars
  BY <1>6 DEF SetPriority, schedVars, SP!vars
<1>7. ASSUME NEW p \in Procs, Fire(p) PROVE SP!Next
  <2>1. S!Wakeable = SP!Wakeable
    BY DEF S!Wakeable, SP!Wakeable
  <2>2. SP!Fire(p)
    BY <1>7, <1>w, <2>1 DEF Fire, S!Fire, SP!Fire
  <2> QED BY <2>2 DEF SP!Next
<1>8. ASSUME NEW p \in Procs, Kill(p) PROVE SP!Next
  <2>1. S!Wake([st EXCEPT ![p] = "terminated"], <<>>) =>
        SP!Wake([st EXCEPT ![p] = "terminated"], <<>>)
    BY DEF S!Wake, SP!Wake, S!ToSet, SP!ToSet
  <2>2. SP!Kill(p, <<>>)
    BY <1>8, <1>u, <2>1 DEF Kill, S!Kill, SP!Kill, S!Live, SP!Live
  <2> QED BY <1>0, <2>2 DEF SP!Next
<1>9. ASSUME NEW p \in Procs, Terminate(p) PROVE SP!Next
  <2>1. S!Wake([st EXCEPT ![p] = "terminated"], <<>>) =>
        SP!Wake([st EXCEPT ![p] = "terminated"], <<>>)
    BY DEF S!Wake, SP!Wake, S!ToSet, SP!ToSet
  <2>2. SP!Terminate(p, <<>>)
    BY <1>9, <2>1 DEF Terminate, S!Terminate, SP!Terminate
  <2> QED BY <1>0, <2>2 DEF SP!Next, SP!Yield
<1>10. ASSUME NEW q, S!Signal(q) PROVE SP!Signal(q)
  BY <1>10, <1>u, <1>w DEF S!Signal, SP!Signal
<1>11. ASSUME NEW s \in Sems, Signal(s) PROVE SP!Next
  <2>1. CASE semq[s] = <<>>
    BY <1>0, <1>10, <1>11, <2>1 DEF Signal, SP!Next
  <2>2. CASE semq[s] # <<>>
    <3>1. PICK p \in Procs : S!Signal(SP!Woken(st, <<p>>))
      BY <1>11, <2>2, SignalProps
    <3>2. SP!Woken(st, <<p>>) \in SP!Batches(Procs) /\ SP!CanWake(st, SP!Woken(st, <<p>>))
      BY SameProcs, SP!WokenOne
    <3> QED BY <1>10, <3>1, <3>2 DEF SP!Next
  <2> QED BY <2>1, <2>2
<1>12. ASSUME LoopStep
       PROVE  \/ SP!RunBegin \/ SP!RunEnd \/ SP!LoopStep \/ SP!Handle(<<>>)
  <2>1. S!Handle(<<>>) => SP!Handle(<<>>)
    BY <1>w DEF S!Handle, SP!Handle
  <2>2. /\ S!RunBegin => SP!RunBegin
        /\ S!RunEnd => SP!RunEnd
        /\ S!HandlerReturn => SP!HandlerReturn
        /\ S!Dispatch => SP!Dispatch
        /\ S!DrainEnd("pick") => SP!DrainEnd("pick")
    BY DEF S!RunBegin, SP!RunBegin, S!RunEnd, SP!RunEnd, S!HandlerReturn, SP!HandlerReturn,
           S!Dispatch, SP!Dispatch, S!DrainEnd, SP!DrainEnd, S!Last, SP!Last
  <2> QED BY <1>12, <2>1, <2>2 DEF LoopStep, SP!LoopStep
<1>13. LoopStep => SP!Next
  BY <1>0, <1>12 DEF SP!Next
<1>14. CASE UNCHANGED vars
  BY <1>14 DEF vars, schedVars, SP!vars
<1>15. ASSUME NEW p \in Procs,
              \/ DirectReturn(p) \/ CondReturn(p) \/ CondAgain(p)
              \/ SleepReturn(p) \/ Kill(p) \/ Terminate(p) \/ Fire(p)
              \/ \E v \in Prios : SetPriority(p, v)
       PROVE  SP!Next \/ UNCHANGED SP!vars
  BY <1>2, <1>5, <1>6, <1>7, <1>8, <1>9, <1>15
<1> QED BY <1>1, <1>3, <1>4, <1>11, <1>13, <1>14, <1>15 DEF Next

-----------------------------------------------------------------------------
(* Calls, and the signals on their way *)

\* The fields of a wait.
LEMMA WaitingProps ==
  ASSUME NEW op \in {"direct", "cond"}, NEW sems \in SUBSET Sems, NEW got \in SUBSET Sems,
         NEW every \in BOOLEAN, NEW timed \in BOOLEAN
  PROVE  LET c == Waiting(op, sems, got, every, timed)
         IN /\ c \in Calls /\ c.op = op /\ c.sems = sems /\ c.got = got
            /\ c.every = every /\ c.timed = timed
<1>1. Waiting(op, sems, got, every, timed) \in Calls
  BY DEF Calls
<1> QED BY <1>1 DEF Waiting

\* The other calls are no waits.
LEMMA IdleProps ==
  /\ Idle \in Calls /\ Idle.op = "none"
  /\ Sleeping \in Calls /\ Sleeping.op = "sleep"
BY DEF Idle, Sleeping, Calls

\* A call that waits, and the same one with other semaphores granted.
LEMMA CallProps ==
  ASSUME NEW c \in Calls, c.op \in {"direct", "cond"}, NEW g \in SUBSET Sems
  PROVE  /\ c.sems \in SUBSET Sems /\ c.got \in SUBSET Sems
         /\ c.every \in BOOLEAN /\ c.timed \in BOOLEAN
         /\ [c EXCEPT !.got = g] = Waiting(c.op, c.sems, g, c.every, c.timed)
<1>1. c # Idle /\ c # Sleeping
  BY DEF Idle, Sleeping
<1>2. PICK op \in {"direct", "cond"}, sems \in SUBSET Sems, got \in SUBSET Sems,
           every \in BOOLEAN, timed \in BOOLEAN : c = Waiting(op, sems, got, every, timed)
  BY <1>1 DEF Calls
<1> QED BY <1>2 DEF Waiting

\* Whether a signal of s is on its way to p, or p has it already.
Granted(p, s) == (IF s \in acting[p] THEN 1 ELSE 0)
               + (IF InWait(p) /\ s \in call[p].got THEN 1 ELSE 0)

\* The signals on their way change with what one process has been granted.
LEMMA InFlightChanges ==
  ASSUME NEW s \in Sems, NEW p \in Procs,
         \A q \in Procs \ {p} : acting'[q] = acting[q] /\ call'[q] = call[q]
  PROVE  /\ InFlight(s) \in Nat /\ InFlight(s)' \in Nat
         /\ InFlight(s)' + Granted(p, s) = InFlight(s) + Granted(p, s)'
<1> DEFINE A == {q \in Procs : s \in acting[q]}
           B == {q \in Procs : InWait(q) /\ s \in call[q].got}
<1>1. InFlight(s) = Cardinality(A) + Cardinality(B)
  BY DEF InFlight, InWait
<1>2. InFlight(s)' = Cardinality(A') + Cardinality(B')
  BY DEF InFlight, InWait
<1>3. IsFiniteSet(A) /\ IsFiniteSet(B)
  BY SameProcs, FS_Subset
<1>4. A \ {p} = A' \ {p} /\ B \ {p} = B' \ {p}
  BY DEF InWait
<1>5. Granted(p, s) = (IF p \in A THEN 1 ELSE 0) + (IF p \in B THEN 1 ELSE 0)
  BY DEF Granted
<1>6. Granted(p, s)' = (IF p \in A' THEN 1 ELSE 0) + (IF p \in B' THEN 1 ELSE 0)
  BY DEF Granted
<1> HIDE DEF A, B
<1>7. /\ Cardinality(A) \in Nat /\ Cardinality(A') \in Nat
      /\ Cardinality(A') + (IF p \in A THEN 1 ELSE 0) = Cardinality(A) + (IF p \in A' THEN 1 ELSE 0)
  BY <1>3, <1>4, SP!CountChanges, SameProcs, SameSequences
<1>8. /\ Cardinality(B) \in Nat /\ Cardinality(B') \in Nat
      /\ Cardinality(B') + (IF p \in B THEN 1 ELSE 0) = Cardinality(B) + (IF p \in B' THEN 1 ELSE 0)
  BY <1>3, <1>4, SP!CountChanges, SameProcs, SameSequences
<1> QED BY <1>1, <1>2, <1>5, <1>6, <1>7, <1>8

-----------------------------------------------------------------------------
(* Each step keeps what is said of values, queues, calls and signals *)

\* Steps that leave them alone, or change a call that is no wait to another.
LEMMA QuietStep ==
  ASSUME WaitInv, UNCHANGED <<val, semq, acting, history>>,
         call' \in [Procs -> Calls],
         \A p \in Procs : call'[p] = call[p] \/ (~InWait(p) /\ ~InWait(p)')
  PROVE  WaitInv'
<1> USE DEF WaitInv, history
<1>1. TypeOK'
  BY DEF TypeOK
<1>2. WaitsAgree'
  BY DEF WaitsAgree, InWait
<1>3. QueuesAgree'
  BY DEF QueuesAgree, StillWaits, InWait
<1>4. ValueCountsQueue'
  BY DEF ValueCountsQueue
<1>5. \A s \in Sems : InFlight(s)' = InFlight(s)
  <2> SUFFICES ASSUME NEW s \in Sems PROVE InFlight(s)' = InFlight(s)
    OBVIOUS
  <2>1. {p \in Procs : s \in acting'[p]} = {p \in Procs : s \in acting[p]}
    OBVIOUS
  <2>2. {p \in Procs : InWait(p)' /\ s \in call'[p].got} = {p \in Procs : InWait(p) /\ s \in call[p].got}
    BY DEF InWait
  <2> QED BY <2>1, <2>2 DEF InFlight, InWait
<1>6. SignalsConserved'
  BY <1>5 DEF SignalsConserved
<1> QED BY <1>1, <1>2, <1>3, <1>4, <1>6

\* The value of s counts its queue, and no signal of s is lost or used twice.
Balanced(s) ==
  /\ val[s] < 0 => Len(semq[s]) = -val[s]
  /\ val[s] >= 0 => Len(semq[s]) = 0
  /\ val[s] > 0 => InitVal[s] + given[s] = taken[s] + InFlight(s) + val[s]
  /\ val[s] <= 0 => InitVal[s] + given[s] = taken[s] + InFlight(s)

\* What the invariant says of one semaphore.
LEMMA SemFacts ==
  ASSUME WaitInv, NEW s \in Sems
  PROVE  /\ InitVal[s] \in Nat /\ given[s] \in Nat /\ taken[s] \in Nat
         /\ val[s] \in Int /\ InFlight(s) \in Nat
         /\ semq[s] \in Seq(Procs) /\ Len(semq[s]) \in Nat /\ IsInjective(semq[s])
         /\ ToSet(semq[s]) \subseteq Procs
         /\ \A p \in Procs : p \in ToSet(semq[s]) <=> StillWaits(p, s)
         /\ Balanced(s)
<1> USE DEF WaitInv
<1>1. InitVal[s] \in Nat /\ given[s] \in Nat /\ taken[s] \in Nat /\ val[s] \in Int
  BY SemAssumption DEF ValidSemaphore, TypeOK
<1>2. InFlight(s) \in Nat
  <2>1. /\ IsFiniteSet({p \in Procs : s \in acting[p]})
        /\ IsFiniteSet({p \in Procs : call[p].op \in {"direct", "cond"} /\ s \in call[p].got})
    BY SameProcs, FS_Subset
  <2>2. /\ Cardinality({p \in Procs : s \in acting[p]}) \in Nat
        /\ Cardinality({p \in Procs : call[p].op \in {"direct", "cond"} /\ s \in call[p].got}) \in Nat
    BY <2>1, FS_CardinalityType
  <2> QED BY <2>2 DEF InFlight
<1>3. semq[s] \in Seq(Procs) /\ Len(semq[s]) \in Nat /\ ToSet(semq[s]) \subseteq Procs
  BY DEF TypeOK, ToSet
<1>4. /\ IsInjective(semq[s])
      /\ \A p \in Procs : p \in ToSet(semq[s]) <=> StillWaits(p, s)
  BY DEF QueuesAgree
<1>5. /\ val[s] < 0 => Len(semq[s]) = -val[s]
      /\ val[s] >= 0 => Len(semq[s]) = 0
  BY <1>1 DEF ValueCountsQueue
<1>6. /\ val[s] > 0 => InitVal[s] + given[s] = taken[s] + InFlight(s) + val[s]
      /\ val[s] <= 0 => InitVal[s] + given[s] = taken[s] + InFlight(s)
  BY <1>1, <1>2 DEF SignalsConserved
<1> QED BY <1>1, <1>2, <1>3, <1>4, <1>5, <1>6 DEF Balanced

\* What has to be shown of every semaphore after a step.
LEMMA SemGoal ==
  ASSUME TypeOK', WaitsAgree',
         \A s \in Sems : InFlight(s)' \in Nat,
         \A s \in Sems :
           /\ IsInjective(semq'[s])
           /\ \A p \in Procs : p \in ToSet(semq'[s]) <=> StillWaits(p, s)'
           /\ Balanced(s)'
  PROVE  WaitInv'
<1>1. QueuesAgree'
  BY DEF QueuesAgree
<1>t. ASSUME NEW s \in Sems
      PROVE  InitVal[s] \in Nat /\ given'[s] \in Nat /\ taken'[s] \in Nat /\ val'[s] \in Int
  BY SemAssumption DEF ValidSemaphore, TypeOK
<1>2. ValueCountsQueue'
  BY <1>t DEF ValueCountsQueue, Balanced
<1>3. SignalsConserved'
  <2> SUFFICES ASSUME NEW s \in Sems
               PROVE  InitVal[s] + given'[s] = taken'[s] + InFlight(s)' + (IF val'[s] > 0 THEN val'[s] ELSE 0)
    BY DEF SignalsConserved
  <2>1. CASE val'[s] > 0
    BY <1>t, <2>1 DEF Balanced
  <2>2. CASE ~(val'[s] > 0)
    <3>1. val'[s] <= 0
      BY <1>t, <2>2
    <3> QED BY <1>t, <2>2, <3>1 DEF Balanced
  <2> QED BY <2>1, <2>2
<1> QED BY <1>1, <1>2, <1>3 DEF WaitInv

\* A wait that does not block.
LEMMA AtOnceStep ==
  ASSUME WaitInv, NEW sems \in SUBSET Sems, NEW every, WaitAtOnce(sems, every)
  PROVE  WaitInv'
<1>1. /\ UNCHANGED <<call, semq, acting, given>>
      /\ \A s \in Sems : /\ val'[s] = IF s \in sems /\ val[s] > 0 THEN val[s] - 1 ELSE val[s]
                         /\ taken'[s] = IF s \in sems /\ val[s] > 0 THEN taken[s] + 1 ELSE taken[s]
      /\ val' \in [Sems -> Int] /\ taken' \in [Sems -> Nat]
  BY DEF WaitAtOnce, Minus, Plus, Free, TypeOK, WaitInv
<1>2. TypeOK'
  BY <1>1 DEF TypeOK, WaitInv
<1>3. WaitsAgree'
  BY <1>1 DEF WaitsAgree, InWait, WaitInv
<1>4. ASSUME NEW s \in Sems
      PROVE  /\ \A p \in Procs : StillWaits(p, s)' <=> StillWaits(p, s)
             /\ InFlight(s)' = InFlight(s)
  BY <1>1 DEF InFlight, StillWaits, InWait
<1>5. ASSUME NEW s \in Sems
      PROVE  /\ IsInjective(semq'[s]) /\ InFlight(s)' \in Nat
             /\ \A p \in Procs : p \in ToSet(semq'[s]) <=> StillWaits(p, s)'
             /\ Balanced(s)'
  <2>f. /\ InitVal[s] \in Nat /\ given[s] \in Nat /\ taken[s] \in Nat
        /\ val[s] \in Int /\ InFlight(s) \in Nat
        /\ Len(semq[s]) \in Nat /\ IsInjective(semq[s])
        /\ \A p \in Procs : p \in ToSet(semq[s]) <=> StillWaits(p, s)
        /\ Balanced(s)
    BY SemFacts
  <2>1. semq'[s] = semq[s] /\ given'[s] = given[s] /\ InFlight(s)' = InFlight(s)
    BY <1>1, <1>4
  <2>2. \A p \in Procs : p \in ToSet(semq'[s]) <=> StillWaits(p, s)'
    BY <1>4, <2>1, <2>f
  <2>3. \/ val[s] > 0 /\ val'[s] = val[s] - 1 /\ taken'[s] = taken[s] + 1
        \/ val'[s] = val[s] /\ taken'[s] = taken[s]
    BY <1>1
  <2>4. Balanced(s)'
    <3>1. CASE val[s] > 0 /\ val'[s] = val[s] - 1 /\ taken'[s] = taken[s] + 1
      <4>1. Len(semq'[s]) = 0
        BY <2>1, <2>f, <3>1 DEF Balanced
      <4>2. InitVal[s] + given'[s] = taken'[s] + InFlight(s)' + val'[s]
        BY <2>1, <2>f, <3>1 DEF Balanced
      <4>3. val'[s] \in Int /\ val'[s] >= 0
        BY <2>f, <3>1
      <4> QED BY <2>1, <2>f, <3>1, <4>1, <4>2, <4>3 DEF Balanced
    <3>2. CASE val'[s] = val[s] /\ taken'[s] = taken[s]
      BY <2>1, <2>f, <3>2 DEF Balanced
    <3> QED BY <2>3, <3>1, <3>2
  <2> QED BY <2>1, <2>2, <2>4, <2>f
<1> QED BY <1>2, <1>3, <1>5, SemGoal

\* A wait that blocks.
LEMMA BlocksStep ==
  ASSUME WaitInv, NEW op \in {"direct", "cond"}, NEW sems \in SUBSET Sems,
         NEW every \in BOOLEAN, NEW timed \in BOOLEAN, WaitBlocks(op, sems, every, timed),
         op = "direct" => every = TRUE /\ \E s \in Sems : sems = {s}
  PROVE  WaitInv'
<1> DEFINE free == Free(sems)
           c == Waiting(op, sems, free, every, timed)
<1>0. PICK p \in Procs : p = cur
  BY DEF WaitBlocks, InProcess
<1>1. /\ call[p] = Idle
      /\ UNCHANGED <<acting, given, taken>>
      /\ call' = [call EXCEPT ![p] = c]
      /\ ~Met(every, sems, free)
  BY <1>0 DEF WaitBlocks, InProcess, User, history
<1>2. /\ c \in Calls /\ c.op = op /\ c.sems = sems /\ c.got = free
      /\ free \subseteq sems
      /\ op = "direct" => free = {}
  <2>1. free \in SUBSET Sems /\ free \subseteq sems
    BY DEF Free
  <2>2. op = "direct" => free = {}
    BY <1>1, <2>1 DEF Met
  <2> QED BY <2>1, <2>2, WaitingProps
<1>3. \A s \in Sems : s \in free <=> s \in sems /\ val[s] > 0
  BY DEF Free
<1> HIDE DEF c, free
<1>4. /\ \A q \in Procs \ {p} : call'[q] = call[q]
      /\ call'[p] = c /\ call' \in [Procs -> Calls]
      /\ ~InWait(p) /\ acting[p] = {}
  BY <1>1, <1>2, IdleProps DEF WaitInv, TypeOK, WaitsAgree, InWait
<1>5. \A s \in Sems : /\ val'[s] = IF s \in sems THEN val[s] - 1 ELSE val[s]
                      /\ semq'[s] = IF s \in sems \ free THEN Append(semq[s], p) ELSE semq[s]
  BY <1>0 DEF WaitBlocks, Minus, Enqueued, free
<1>6. TypeOK'
  <2>1. val' \in [Sems -> Int]
    BY DEF WaitBlocks, Minus, WaitInv, TypeOK
  <2>2. semq' \in [Sems -> Seq(Procs)]
    BY <1>0 DEF WaitBlocks, Enqueued, WaitInv, TypeOK
  <2> QED BY <1>1, <1>4, <2>1, <2>2 DEF WaitInv, TypeOK
<1>7. WaitsAgree'
  BY <1>1, <1>2, <1>4 DEF WaitInv, WaitsAgree, InWait
<1>8. ASSUME NEW s \in Sems
      PROVE  /\ IsInjective(semq'[s]) /\ InFlight(s)' \in Nat
             /\ \A q \in Procs : q \in ToSet(semq'[s]) <=> StillWaits(q, s)'
             /\ Balanced(s)'
  <2>f. /\ InitVal[s] \in Nat /\ given[s] \in Nat /\ taken[s] \in Nat
        /\ val[s] \in Int /\ InFlight(s) \in Nat
        /\ semq[s] \in Seq(Procs) /\ Len(semq[s]) \in Nat /\ IsInjective(semq[s])
        /\ \A q \in Procs : q \in ToSet(semq[s]) <=> StillWaits(q, s)
        /\ Balanced(s)
    BY SemFacts
  <2>1. /\ \A q \in Procs \ {p} : StillWaits(q, s)' <=> StillWaits(q, s)
        /\ StillWaits(p, s)' <=> s \in sems \ free
        /\ ~StillWaits(p, s)
    BY <1>1, <1>2, <1>4 DEF StillWaits, InWait
  <2>2. InFlight(s)' = InFlight(s) + (IF s \in free THEN 1 ELSE 0) /\ InFlight(s)' \in Nat
    <3>1. Granted(p, s) = 0 /\ Granted(p, s)' = IF s \in free THEN 1 ELSE 0
      BY <1>1, <1>2, <1>4 DEF Granted, InWait
    <3>2. InFlight(s)' + Granted(p, s) = InFlight(s) + Granted(p, s)' /\ InFlight(s)' \in Nat
      BY <1>1, <1>4, InFlightChanges
    <3> QED BY <2>f, <3>1, <3>2
  <2>3. given'[s] = given[s] /\ taken'[s] = taken[s]
    BY <1>1
  <2>4. CASE s \in sems \ free
    <3>1. p \notin ToSet(semq[s]) /\ semq'[s] = Append(semq[s], p)
      BY <1>5, <2>1, <2>4, <2>f
    <3>2. /\ Len(semq'[s]) = Len(semq[s]) + 1 /\ IsInjective(semq'[s])
          /\ ToSet(semq'[s]) = ToSet(semq[s]) \cup {p}
      BY <2>f, <3>1, SP!AppendProps, SameProcs, SameSequences
    <3>3. val[s] <= 0 /\ val'[s] = val[s] - 1 /\ InFlight(s)' = InFlight(s)
      BY <1>3, <1>5, <2>2, <2>4, <2>f
    <3>4. \A q \in Procs : q \in ToSet(semq'[s]) <=> StillWaits(q, s)'
      BY <2>1, <2>4, <2>f, <3>2
    <3>5. Balanced(s)'
      BY <2>3, <2>f, <3>2, <3>3 DEF Balanced
    <3> QED BY <2>2, <3>2, <3>4, <3>5
  <2>5. CASE s \notin sems \ free
    <3>1. semq'[s] = semq[s]
      BY <1>5, <2>5
    <3>2. \A q \in Procs : q \in ToSet(semq'[s]) <=> StillWaits(q, s)'
      BY <2>1, <2>5, <2>f, <3>1
    <3>3. \/ val[s] > 0 /\ val'[s] = val[s] - 1 /\ InFlight(s)' = InFlight(s) + 1
          \/ val'[s] = val[s] /\ InFlight(s)' = InFlight(s)
      BY <1>2, <1>3, <1>5, <2>2, <2>5, <2>f
    <3>4. Balanced(s)'
      <4>1. CASE val[s] > 0 /\ val'[s] = val[s] - 1 /\ InFlight(s)' = InFlight(s) + 1
        <5>1. Len(semq'[s]) = 0
          BY <2>f, <3>1, <4>1 DEF Balanced
        <5>2. InitVal[s] + given[s] = taken[s] + InFlight(s) + val[s]
          BY <2>f, <4>1 DEF Balanced
        <5>3. val'[s] \in Int /\ val'[s] >= 0
          BY <2>f, <4>1
        <5>4. InitVal[s] + given[s] = taken[s] + (InFlight(s) + 1) + (val[s] - 1)
          <6>1. /\ InitVal[s] \in Int /\ given[s] \in Int /\ taken[s] \in Int
                /\ val[s] \in Int /\ InFlight(s) \in Int
            BY <2>f
          <6> QED BY <5>2, <6>1
        <5>5. InitVal[s] + given'[s] = taken'[s] + InFlight(s)' + val'[s]
          BY <2>3, <4>1, <5>4
        <5>6. InitVal[s] + given'[s] = taken'[s] + InFlight(s)' \/ val'[s] # 0
          <6>1. InitVal[s] \in Int /\ given'[s] \in Int /\ taken'[s] \in Int /\ InFlight(s)' \in Int
            BY <2>2, <2>3, <2>f
          <6> QED BY <5>3, <5>5, <6>1
        <5> QED BY <5>1, <5>3, <5>5, <5>6 DEF Balanced
      <4>2. CASE val'[s] = val[s] /\ InFlight(s)' = InFlight(s)
        BY <2>3, <2>f, <3>1, <4>2 DEF Balanced
      <4> QED BY <3>3, <4>1, <4>2
    <3> QED BY <2>2, <2>f, <3>1, <3>2, <3>4
  <2> QED BY <2>4, <2>5
<1> QED BY <1>6, <1>7, <1>8, SemGoal

\* What the invariant says of a process that waits.
LEMMA WaitFacts ==
  ASSUME WaitInv, NEW p \in Procs, InWait(p)
  PROVE  /\ call[p] \in Calls /\ call[p].op \in {"direct", "cond"}
         /\ call[p].sems \in SUBSET Sems /\ call[p].got \subseteq call[p].sems
         /\ acting[p] \subseteq call[p].sems \ call[p].got
         /\ Got(p) = call[p].got \cup acting[p]
         /\ \A s \in Sems : StillWaits(p, s) <=> s \in call[p].sems \ Got(p)
         /\ \A s \in Sems : Granted(p, s) = IF s \in Got(p) THEN 1 ELSE 0
<1>1. call[p] \in Calls /\ call[p].op \in {"direct", "cond"}
  BY DEF WaitInv, TypeOK, InWait
<1>2. call[p].sems \in SUBSET Sems
  BY <1>1, CallProps
<1>3. /\ call[p].got \subseteq call[p].sems
      /\ acting[p] \subseteq call[p].sems \ call[p].got
  BY DEF WaitInv, WaitsAgree
<1>4. Got(p) = call[p].got \cup acting[p]
  BY <1>3 DEF Got
<1>5. \A s \in Sems : StillWaits(p, s) <=> s \in call[p].sems \ Got(p)
  BY <1>4 DEF StillWaits
<1>6. ASSUME NEW s \in Sems PROVE Granted(p, s) = IF s \in Got(p) THEN 1 ELSE 0
  <2>1. CASE s \in acting[p]
    BY <1>3, <1>4, <2>1 DEF Granted
  <2>2. CASE s \notin acting[p]
    BY <1>4, <2>2 DEF Granted
  <2> QED BY <2>1, <2>2
<1> QED BY <1>1, <1>2, <1>3, <1>4, <1>5, <1>6

\* A wait that returns: what the process was granted is reported to its caller,
\* and it leaves the other queues.
LEMMA ReturnStep ==
  ASSUME WaitInv, NEW p \in Procs, InWait(p),
         call' = [call EXCEPT ![p] = Idle],
         acting' = [acting EXCEPT ![p] = @ \ call[p].sems],
         taken' = Plus(taken, Got(p)), given' = given,
         val' = Plus(val, call[p].sems \ Got(p)),
         semq' = Dequeued(p, call[p].sems \ Got(p))
  PROVE  WaitInv'
<1> DEFINE open == call[p].sems \ Got(p)
<1>f. /\ call[p].sems \in SUBSET Sems
      /\ acting[p] \subseteq call[p].sems \ call[p].got
      /\ Got(p) = call[p].got \cup acting[p] /\ call[p].got \subseteq call[p].sems
      /\ \A s \in Sems : StillWaits(p, s) <=> s \in open
      /\ \A s \in Sems : Granted(p, s) = IF s \in Got(p) THEN 1 ELSE 0
  BY WaitFacts
<1>1. /\ \A q \in Procs \ {p} : call'[q] = call[q] /\ acting'[q] = acting[q]
      /\ call'[p] = Idle /\ call' \in [Procs -> Calls]
      /\ acting'[p] = {} /\ acting' \in [Procs -> SUBSET Sems]
  BY <1>f, IdleProps DEF WaitInv, TypeOK
<1>2. \A s \in Sems : /\ val'[s] = IF s \in open THEN val[s] + 1 ELSE val[s]
                      /\ semq'[s] = IF s \in open THEN RemoveFirst(semq[s], p) ELSE semq[s]
                      /\ taken'[s] = IF s \in Got(p) THEN taken[s] + 1 ELSE taken[s]
  <2>1. \A s \in Sems : val'[s] = IF s \in open THEN val[s] + 1 ELSE val[s]
    BY DEF Plus
  <2>2. \A s \in Sems : semq'[s] = IF s \in open THEN RemoveFirst(semq[s], p) ELSE semq[s]
    BY DEF Dequeued
  <2>3. \A s \in Sems : taken'[s] = IF s \in Got(p) THEN taken[s] + 1 ELSE taken[s]
    BY DEF Plus
  <2> QED BY <2>1, <2>2, <2>3
<1> HIDE DEF open
<1>3. TypeOK'
  <2>1. val' \in [Sems -> Int] /\ taken' \in [Sems -> Nat]
    BY DEF Plus, WaitInv, TypeOK
  <2>2. ASSUME NEW s \in Sems PROVE semq'[s] \in Seq(Procs)
    <3>1. semq[s] \in Seq(Procs) /\ IsInjective(semq[s])
      BY SemFacts
    <3>2. RemoveFirst(semq[s], p) \in Seq(Procs)
      BY <3>1, SP!RemoveFirstProps, SameProcs, SameSequences
    <3> QED BY <1>2, <3>1, <3>2
  <2>3. semq' \in [Sems -> Seq(Procs)]
    BY <2>2 DEF Dequeued
  <2> QED BY <1>1, <2>1, <2>3 DEF WaitInv, TypeOK
<1>4. WaitsAgree'
  BY <1>1, IdleProps DEF WaitInv, WaitsAgree, InWait
<1>5. ASSUME NEW s \in Sems
      PROVE  /\ IsInjective(semq'[s]) /\ InFlight(s)' \in Nat
             /\ \A q \in Procs : q \in ToSet(semq'[s]) <=> StillWaits(q, s)'
             /\ Balanced(s)'
  <2>f. /\ InitVal[s] \in Nat /\ given[s] \in Nat /\ taken[s] \in Nat
        /\ val[s] \in Int /\ InFlight(s) \in Nat
        /\ semq[s] \in Seq(Procs) /\ Len(semq[s]) \in Nat /\ IsInjective(semq[s])
        /\ \A q \in Procs : q \in ToSet(semq[s]) <=> StillWaits(q, s)
        /\ Balanced(s)
    BY SemFacts
  <2>1. /\ \A q \in Procs \ {p} : StillWaits(q, s)' <=> StillWaits(q, s)
        /\ ~StillWaits(p, s)'
        /\ StillWaits(p, s) <=> s \in open
    BY <1>f, <1>1, IdleProps DEF StillWaits, InWait
  <2>2. InFlight(s)' + (IF s \in Got(p) THEN 1 ELSE 0) = InFlight(s) /\ InFlight(s)' \in Nat
    <3>1. Granted(p, s) = (IF s \in Got(p) THEN 1 ELSE 0) /\ Granted(p, s)' = 0
      BY <1>f, <1>1, IdleProps DEF Granted, InWait
    <3>2. InFlight(s)' + Granted(p, s) = InFlight(s) + Granted(p, s)' /\ InFlight(s)' \in Nat
      BY <1>1, InFlightChanges
    <3> QED BY <2>f, <3>1, <3>2
  <2>3. given'[s] = given[s] /\ taken'[s] + InFlight(s)' = taken[s] + InFlight(s)
    <3>1. CASE s \in Got(p)
      <4>1. taken'[s] = taken[s] + 1 /\ InFlight(s)' + 1 = InFlight(s)
        BY <1>2, <2>2, <3>1
      <4>2. taken[s] \in Int /\ InFlight(s)' \in Int
        BY <2>2, <2>f
      <4> QED BY <4>1, <4>2
    <3>2. CASE s \notin Got(p)
      <4>1. taken'[s] = taken[s] /\ InFlight(s)' + 0 = InFlight(s)
        BY <1>2, <2>2, <3>2
      <4>2. taken[s] \in Int /\ InFlight(s)' \in Int
        BY <2>2, <2>f
      <4> QED BY <4>1, <4>2
    <3> QED BY <3>1, <3>2
  <2>4. CASE s \in open
    <3>1. p \in ToSet(semq[s]) /\ semq'[s] = RemoveFirst(semq[s], p) /\ val'[s] = val[s] + 1
      BY <1>2, <2>1, <2>4, <2>f
    <3>2. /\ Len(semq'[s]) = Len(semq[s]) - 1 /\ IsInjective(semq'[s])
          /\ ToSet(semq'[s]) = ToSet(semq[s]) \ {p}
      BY <2>f, <3>1, SP!RemoveFirstProps, SameProcs, SameSequences
    <3>3. \A q \in Procs : q \in ToSet(semq'[s]) <=> StillWaits(q, s)'
      BY <2>1, <2>f, <3>2
    <3>4. Balanced(s)'
      <4>1. Len(semq[s]) > 0
        BY <2>f, <3>1, EmptySeq DEF ToSet
      <4>2. val[s] < 0 /\ Len(semq[s]) = -val[s]
        BY <2>f, <4>1 DEF Balanced
      <4>3. InitVal[s] + given[s] = taken'[s] + InFlight(s)'
        BY <2>3, <2>f, <4>2 DEF Balanced
      <4>4. val'[s] <= 0 /\ Len(semq'[s]) = -val'[s] /\ val'[s] \in Int
        BY <2>f, <3>1, <3>2, <4>2
      <4> QED BY <2>3, <4>3, <4>4 DEF Balanced
    <3> QED BY <2>2, <3>2, <3>3, <3>4
  <2>5. CASE s \notin open
    <3>1. semq'[s] = semq[s] /\ val'[s] = val[s]
      BY <1>2, <2>5
    <3>2. \A q \in Procs : q \in ToSet(semq'[s]) <=> StillWaits(q, s)'
      BY <2>1, <2>5, <2>f, <3>1
    <3>3. Balanced(s)'
      BY <2>3, <2>f, <3>1 DEF Balanced
    <3> QED BY <2>2, <2>f, <3>1, <3>2, <3>3
  <2> QED BY <2>4, <2>5
<1> QED BY <1>3, <1>4, <1>5, SemGoal

\* A direct wait that returns: it was resumed by its signal.
LEMMA DirectReturnStep ==
  ASSUME WaitInv, StatesAgree, NEW p \in Procs, DirectReturn(p)
  PROVE  WaitInv'
<1>1. InWait(p) /\ cur = p
  BY DEF DirectReturn, InWait
<1>2. acting[p] = call[p].sems
  BY <1>1 DEF DirectReturn, StatesAgree, StateAgrees
<1>f. /\ call[p].sems \in SUBSET Sems
      /\ Got(p) = call[p].got \cup acting[p] /\ call[p].got \subseteq call[p].sems
  BY <1>1, WaitFacts
<1>3. Got(p) = call[p].sems /\ acting[p] \cap call[p].sems = Got(p)
  BY <1>2, <1>f
<1>4. val' = Plus(val, call[p].sems \ Got(p)) /\ semq' = Dequeued(p, call[p].sems \ Got(p))
  <2>1. call[p].sems \ Got(p) = {}
    BY <1>3
  <2>2. Plus(val, {}) = val /\ Dequeued(p, {}) = semq
    BY DEF Plus, Dequeued, WaitInv, TypeOK
  <2> QED BY <2>1, <2>2 DEF DirectReturn
<1> QED BY <1>1, <1>3, <1>4, ReturnStep DEF DirectReturn

\* A conditional wait that returns, with its condition met or too late.
LEMMA CondReturnStep ==
  ASSUME WaitInv, NEW p \in Procs, CondReturn(p)
  PROVE  WaitInv'
<1>1. InWait(p)
  BY DEF CondReturn, InWait
<1> QED BY <1>1, ReturnStep DEF CondReturn

\* A conditional wait that goes on, with what was granted noted in the call.
LEMMA AgainProps ==
  ASSUME WaitInv, NEW p \in Procs, CondAgain(p)
  PROVE  \E c \in Calls :
           /\ c.op = "cond" /\ c.sems = call[p].sems /\ c.got = Got(p)
           /\ c.every = call[p].every /\ c.timed = call[p].timed
           /\ call' = [call EXCEPT ![p] = c]
           /\ acting' = [acting EXCEPT ![p] = {}]
<1>0. InWait(p) /\ call[p].op = "cond"
  BY DEF CondAgain, InWait
<1>f. /\ call[p] \in Calls /\ call[p].sems \in SUBSET Sems
      /\ acting[p] \subseteq call[p].sems \ call[p].got
      /\ Got(p) = call[p].got \cup acting[p] /\ call[p].got \subseteq call[p].sems
  BY <1>0, WaitFacts
<1> DEFINE c == [call[p] EXCEPT !.got = Got(p)]
<1>1. Got(p) \in SUBSET Sems
  BY <1>f
<1>2. /\ call[p].every \in BOOLEAN /\ call[p].timed \in BOOLEAN
      /\ c = Waiting("cond", call[p].sems, Got(p), call[p].every, call[p].timed)
  BY <1>f, <1>0, <1>1, CallProps
<1>3. call' = [call EXCEPT ![p] = c]
  BY DEF CondAgain
<1> HIDE DEF c
<1>4. acting' = [acting EXCEPT ![p] = {}]
  <2>1. acting[p] \ call[p].sems = {}
    BY <1>f
  <2> QED BY <2>1 DEF CondAgain
<1>5. /\ c \in Calls /\ c.op = "cond" /\ c.sems = call[p].sems /\ c.got = Got(p)
      /\ c.every = call[p].every /\ c.timed = call[p].timed
  BY <1>f, <1>1, <1>2, WaitingProps
<1> QED BY <1>3, <1>4, <1>5

\* A conditional wait that goes on: what was granted is noted in the call.
LEMMA AgainStep ==
  ASSUME WaitInv, NEW p \in Procs, CondAgain(p)
  PROVE  WaitInv'
<1>0. InWait(p)
  BY DEF CondAgain, InWait
<1>f. /\ call[p] \in Calls /\ call[p].op \in {"direct", "cond"}
      /\ call[p].sems \in SUBSET Sems /\ call[p].got \subseteq call[p].sems
      /\ acting[p] \subseteq call[p].sems \ call[p].got
      /\ Got(p) = call[p].got \cup acting[p]
      /\ \A s \in Sems : StillWaits(p, s) <=> s \in call[p].sems \ Got(p)
      /\ \A s \in Sems : Granted(p, s) = IF s \in Got(p) THEN 1 ELSE 0
  BY <1>0, WaitFacts
<1>1. PICK c \in Calls :
        /\ c.op = "cond" /\ c.sems = call[p].sems /\ c.got = Got(p)
        /\ call' = [call EXCEPT ![p] = c]
        /\ acting' = [acting EXCEPT ![p] = {}]
  BY AgainProps
<1>2. call[p].op = "cond" /\ UNCHANGED <<val, semq, given, taken>>
  BY DEF CondAgain, history
<1>3. /\ \A q \in Procs \ {p} : call'[q] = call[q] /\ acting'[q] = acting[q]
      /\ call'[p] = c /\ call' \in [Procs -> Calls]
      /\ acting'[p] = {} /\ acting' \in [Procs -> SUBSET Sems]
  BY <1>1 DEF WaitInv, TypeOK
<1>4. TypeOK'
  BY <1>2, <1>3 DEF WaitInv, TypeOK
<1>5. WaitsAgree'
  <2>1. Got(p) \subseteq call[p].sems
    BY <1>f
  <2> QED BY <1>1, <1>3, <2>1 DEF WaitInv, WaitsAgree, InWait
<1>6. ASSUME NEW s \in Sems
      PROVE  /\ IsInjective(semq'[s]) /\ InFlight(s)' \in Nat
             /\ \A q \in Procs : q \in ToSet(semq'[s]) <=> StillWaits(q, s)'
             /\ Balanced(s)'
  <2>f. /\ InFlight(s) \in Nat /\ IsInjective(semq[s]) /\ Balanced(s)
        /\ \A q \in Procs : q \in ToSet(semq[s]) <=> StillWaits(q, s)
    BY SemFacts
  <2>1. \A q \in Procs : StillWaits(q, s)' <=> StillWaits(q, s)
    BY <1>f, <1>0, <1>1, <1>2, <1>3 DEF StillWaits, InWait
  <2>2. InFlight(s)' = InFlight(s)
    <3>1. Granted(p, s)' = IF s \in Got(p) THEN 1 ELSE 0
      BY <1>f, <1>1, <1>3 DEF Granted, InWait
    <3>2. InFlight(s)' + Granted(p, s) = InFlight(s) + Granted(p, s)' /\ InFlight(s)' \in Nat
      BY <1>3, InFlightChanges
    <3>3. Granted(p, s)' = Granted(p, s) /\ Granted(p, s) \in {0, 1}
      BY <1>f, <3>1
    <3> QED BY <2>f, <3>2, <3>3
  <2>3. semq'[s] = semq[s] /\ val'[s] = val[s] /\ given'[s] = given[s] /\ taken'[s] = taken[s]
    BY <1>2
  <2>4. Balanced(s)'
    BY <2>2, <2>3, <2>f DEF Balanced
  <2> QED BY <2>1, <2>2, <2>3, <2>4, <2>f
<1> QED BY <1>4, <1>5, <1>6, SemGoal

\* A signal.
LEMMA SignalStep ==
  ASSUME WaitInv, NEW z \in Sems, Signal(z)
  PROVE  WaitInv'
<1>1. /\ val' = [val EXCEPT ![z] = @ + 1]
      /\ given' = [given EXCEPT ![z] = @ + 1]
      /\ UNCHANGED <<call, taken>>
  BY DEF Signal
<1>2. semq[z] \in Seq(Procs) /\ IsInjective(semq[z]) /\ val[z] \in Int /\ given[z] \in Nat
  BY SemFacts
<1>t. /\ val' \in [Sems -> Int] /\ given' \in [Sems -> Nat]
      /\ \A s \in Sems : /\ val'[s] = IF s = z THEN val[z] + 1 ELSE val[s]
                         /\ given'[s] = IF s = z THEN given[z] + 1 ELSE given[s]
  BY <1>1, <1>2 DEF WaitInv, TypeOK
<1>3. CASE semq[z] = <<>>
  <2>1. UNCHANGED <<semq, acting>>
    BY <1>3 DEF Signal
  <2>2. TypeOK' /\ WaitsAgree'
    BY <1>1, <1>t, <2>1 DEF WaitInv, TypeOK, WaitsAgree, InWait
  <2>3. ASSUME NEW s \in Sems
        PROVE  /\ IsInjective(semq'[s]) /\ InFlight(s)' \in Nat
               /\ \A q \in Procs : q \in ToSet(semq'[s]) <=> StillWaits(q, s)'
               /\ Balanced(s)'
    <3>f. /\ InitVal[s] \in Nat /\ given[s] \in Nat /\ taken[s] \in Nat
          /\ val[s] \in Int /\ InFlight(s) \in Nat /\ IsInjective(semq[s])
          /\ \A q \in Procs : q \in ToSet(semq[s]) <=> StillWaits(q, s)
          /\ Balanced(s)
      BY SemFacts
    <3>1. InFlight(s)' = InFlight(s) /\ \A q \in Procs : StillWaits(q, s)' <=> StillWaits(q, s)
      BY <1>1, <2>1 DEF InFlight, StillWaits, InWait
    <3>2. semq'[s] = semq[s] /\ taken'[s] = taken[s]
      BY <1>1, <2>1
    <3>3. Balanced(s)'
      <4>1. CASE s # z
        <5>1. val'[s] = val[s] /\ given'[s] = given[s]
          BY <1>t, <4>1
        <5> QED BY <3>1, <3>2, <3>f, <5>1 DEF Balanced
      <4>2. CASE s = z
        <5>1. val'[s] = val[s] + 1 /\ given'[s] = given[s] + 1
          BY <1>t, <4>2
        <5>2. val[s] >= 0 /\ Len(semq[s]) = 0
          BY <1>3, <3>f, <4>2 DEF Balanced
        <5>3. InitVal[s] + given[s] = taken[s] + InFlight(s) + val[s]
          BY <3>f, <5>2 DEF Balanced
        <5>4. InitVal[s] + (given[s] + 1) = taken[s] + InFlight(s) + (val[s] + 1)
          BY <3>f, <5>3
        <5>5. val'[s] > 0
          BY <3>f, <5>1, <5>2
        <5> QED BY <3>1, <3>2, <3>f, <5>1, <5>2, <5>4, <5>5 DEF Balanced
      <4> QED BY <4>1, <4>2
    <3> QED BY <3>1, <3>2, <3>3, <3>f
  <2> QED BY <2>2, <2>3, SemGoal
<1>4. CASE semq[z] # <<>>
  <2>1. PICK p \in ToSet(semq[z]), new \in Seq(Procs) :
          /\ p \in Procs /\ IsInjective(new)
          /\ Len(new) = Len(semq[z]) - 1
          /\ ToSet(new) = ToSet(semq[z]) \ {p}
          /\ semq' = [semq EXCEPT ![z] = new]
          /\ acting' = [acting EXCEPT ![p] = @ \cup {z}]
    BY <1>2, <1>4, SignalProps
  <2>2. /\ StillWaits(p, z) /\ InWait(p)
        /\ z \in call[p].sems /\ z \notin call[p].got /\ z \notin acting[p]
    BY <2>1, SemFacts DEF StillWaits
  <2>3. /\ \A q \in Procs \ {p} : acting'[q] = acting[q]
        /\ acting'[p] = acting[p] \cup {z} /\ acting' \in [Procs -> SUBSET Sems]
        /\ semq'[z] = new /\ semq' \in [Sems -> Seq(Procs)]
        /\ \A s \in Sems \ {z} : semq'[s] = semq[s]
    BY <2>1 DEF WaitInv, TypeOK
  <2>4. TypeOK'
    BY <1>1, <1>t, <2>3 DEF WaitInv, TypeOK
  <2>5. WaitsAgree'
    BY <1>1, <2>2, <2>3 DEF WaitInv, WaitsAgree, InWait
  <2>6. ASSUME NEW s \in Sems
        PROVE  /\ IsInjective(semq'[s]) /\ InFlight(s)' \in Nat
               /\ \A q \in Procs : q \in ToSet(semq'[s]) <=> StillWaits(q, s)'
               /\ Balanced(s)'
    <3>f. /\ InitVal[s] \in Nat /\ given[s] \in Nat /\ taken[s] \in Nat
          /\ val[s] \in Int /\ InFlight(s) \in Nat /\ IsInjective(semq[s])
          /\ Len(semq[s]) \in Nat
          /\ \A q \in Procs : q \in ToSet(semq[s]) <=> StillWaits(q, s)
          /\ Balanced(s)
      BY SemFacts
    <3>1. \A q \in Procs : StillWaits(q, s)' <=> StillWaits(q, s) /\ ~(q = p /\ s = z)
      BY <1>1, <2>2, <2>3 DEF StillWaits, InWait
    <3>2. /\ InFlight(s)' \in Nat
          /\ InFlight(s)' = IF s = z THEN InFlight(s) + 1 ELSE InFlight(s)
      <4>1. InFlight(s)' + Granted(p, s) = InFlight(s) + Granted(p, s)' /\ InFlight(s)' \in Nat
        <5>1. p \in Procs /\ \A q \in Procs \ {p} : acting'[q] = acting[q] /\ call'[q] = call[q]
          BY <1>1, <2>1, <2>3
        <5> QED BY <5>1, InFlightChanges
      <4>2. CASE s = z
        <5>1. Granted(p, s) = 0 /\ Granted(p, s)' = 1
          BY <1>1, <2>2, <2>3, <4>2 DEF Granted, InWait
        <5> QED BY <3>f, <4>1, <4>2, <5>1
      <4>3. CASE s # z
        <5>1. Granted(p, s)' = Granted(p, s)
          BY <1>1, <2>3, <4>3 DEF Granted, InWait
        <5>2. Granted(p, s) \in Int
          BY DEF Granted
        <5> QED BY <3>f, <4>1, <4>3, <5>1, <5>2
      <4> QED BY <4>2, <4>3
    <3>3. taken'[s] = taken[s]
      BY <1>1
    <3>4. CASE s = z
      <4>1. val'[s] = val[s] + 1 /\ given'[s] = given[s] + 1 /\ InFlight(s)' = InFlight(s) + 1
        BY <1>t, <3>2, <3>4
      <4>2. Len(semq'[s]) = Len(semq[s]) - 1 /\ Len(semq[s]) > 0
        <5>1. Len(semq[s]) # 0
          BY <1>2, <1>4, <3>4, EmptySeq
        <5> QED BY <2>1, <2>3, <3>4, <3>f, <5>1
      <4>3. val[s] < 0 /\ Len(semq[s]) = -val[s]
        BY <3>f, <4>2 DEF Balanced
      <4>4. InitVal[s] + given[s] = taken[s] + InFlight(s)
        BY <3>f, <4>3 DEF Balanced
      <4>5. InitVal[s] + (given[s] + 1) = taken[s] + (InFlight(s) + 1)
        <5>1. InitVal[s] \in Int /\ given[s] \in Int /\ taken[s] \in Int /\ InFlight(s) \in Int
          BY <3>f
        <5> QED BY <4>4, <5>1
      <4>6. val'[s] \in Int /\ val'[s] <= 0 /\ Len(semq'[s]) = -val'[s]
        <5>1. val[s] \in Int /\ Len(semq[s]) \in Int
          BY <3>f
        <5> QED BY <4>1, <4>2, <4>3, <5>1
      <4>7. Balanced(s)'
        BY <3>3, <4>1, <4>5, <4>6 DEF Balanced
      <4>8. IsInjective(semq'[s]) /\ \A q \in Procs : q \in ToSet(semq'[s]) <=> StillWaits(q, s)'
        BY <2>1, <2>3, <3>1, <3>4, <3>f
      <4> QED BY <3>2, <4>7, <4>8
    <3>5. CASE s # z
      <4>1. val'[s] = val[s] /\ given'[s] = given[s] /\ InFlight(s)' = InFlight(s) /\ semq'[s] = semq[s]
        BY <1>t, <2>3, <3>2, <3>5
      <4>2. Balanced(s)'
        BY <3>3, <3>f, <4>1 DEF Balanced
      <4> QED BY <3>1, <3>5, <3>f, <4>1, <4>2
    <3> QED BY <3>4, <3>5
  <2> QED BY <2>4, <2>5, <2>6, SemGoal
<1> QED BY <1>3, <1>4

-----------------------------------------------------------------------------
(* Each step keeps what is said of the states of the processes *)

\* NoLostWakeup, for one process.
NotLost(p) ==
  st[p] = "suspended" =>
    /\ call[p].op = "direct" => acting[p] = {}
    /\ call[p].op = "cond" => /\ ~Met(call[p].every, call[p].sems, Got(p))
                              /\ call[p].timed => p \in timer
    /\ call[p].op = "sleep" => p \in timer

StateInv == \A p \in Procs : StateAgrees(p) /\ NotLost(p)

\* The two, process by process.
LEMMA StateInvIs == StateInv <=> StatesAgree /\ NoLostWakeup
BY DEF StateInv, StatesAgree, NoLostWakeup, NotLost

\* A step that does not concern a process: it may be given the control where
\* it is running.
LEMMA Unmoved ==
  ASSUME NEW p \in Procs, StateAgrees(p), NotLost(p),
         st'[p] = st[p], call'[p] = call[p], acting'[p] = acting[p],
         p \in timer' <=> p \in timer,
         cur' = p => cur = p \/ st[p] = "running"
  PROVE  StateAgrees(p)' /\ NotLost(p)'
<1>1. StateAgrees(p)'
  BY DEF StateAgrees, InWait
<1>2. NotLost(p)'
  BY DEF NotLost, Got, Met
<1> QED BY <1>1, <1>2

\* The states after a batch is woken up.
LEMMA WakeStates ==
  ASSUME NEW states, NEW q, S!Wake(states, q)
  PROVE  \A p \in Procs : st'[p] = IF p \in ToSet(q) THEN "running" ELSE states[p]
BY DEF S!Wake, S!ToSet, ToSet

\* The main program, the event loop and the handlers are no processes.
LEMMA NotProcs == {"main", "pick", "handler", "drain"} \cap Procs = {}
BY SameProcs DEF SP!NoProc

\* What the invariants say of the process that has the control.
LEMMA CurFacts ==
  ASSUME SP!IInv, NEW p \in Procs, cur = p
  PROVE  st[p] \in {"running", "terminated"} /\ st \in [Procs -> SP!States]
BY DEF SP!IInv, SP!TypeOK, SP!RunningIsReady

\* A wait that blocks.
LEMMA BlocksStates ==
  ASSUME WaitInv, StateInv, NEW op \in {"direct", "cond"}, NEW sems \in SUBSET Sems,
         NEW every \in BOOLEAN, NEW timed \in BOOLEAN, WaitBlocks(op, sems, every, timed),
         timed => op = "cond", SP!IInv
  PROVE  StateInv'
<1>0. PICK p \in Procs : p = cur
  BY DEF WaitBlocks, InProcess
<1> DEFINE free == Free(sems)
           c == Waiting(op, sems, free, every, timed)
<1>1. /\ call[p] = Idle /\ st[p] = "running" /\ ~Met(every, sems, free)
      /\ UNCHANGED acting
      /\ call' = [call EXCEPT ![p] = c]
      /\ st' = [st EXCEPT ![p] = "suspended"] /\ cur' = "drain"
      /\ timer' = IF timed THEN timer \cup {p} ELSE timer
  BY <1>0 DEF WaitBlocks, InProcess, User, S!Suspend
<1>2. /\ c.op = op /\ c.sems = sems /\ c.got = free /\ c.every = every /\ c.timed = timed
  <2>1. free \in SUBSET Sems
    BY DEF Free
  <2> QED BY <2>1, WaitingProps
<1> HIDE DEF c, free
<1>3. call'[p] = c /\ st'[p] = "suspended" /\ acting'[p] = {} /\ p \notin timer /\ cur' # p
  BY <1>0, <1>1, CurFacts, NotProcs, IdleProps
     DEF WaitInv, TypeOK, WaitsAgree, InWait, StateInv, StateAgrees
<1>4. StateAgrees(p)'
  BY <1>1, <1>2, <1>3 DEF StateAgrees, InWait
<1>5. NotLost(p)'
  <2>1. Got(p)' = free
    BY <1>2, <1>3 DEF Got
  <2> QED BY <1>1, <1>2, <1>3, <2>1 DEF NotLost, Met
<1>6. ASSUME NEW q \in Procs \ {p} PROVE StateAgrees(q)' /\ NotLost(q)'
  <2>1. /\ st'[q] = st[q] /\ call'[q] = call[q] /\ acting'[q] = acting[q]
        /\ q \in timer' <=> q \in timer
        /\ cur' # q
    BY <1>1, NotProcs
  <2> QED BY <2>1, Unmoved DEF StateInv
<1> QED BY <1>4, <1>5, <1>6 DEF StateInv

\* Several processes at most change: what has to be shown of the others is
\* that the step does not concern them.
LEMMA Others ==
  ASSUME StateInv, NEW p \in Procs, StateAgrees(p)', NotLost(p)',
         \A q \in Procs \ {p} :
           /\ st'[q] = st[q] /\ call'[q] = call[q] /\ acting'[q] = acting[q]
           /\ q \in timer' <=> q \in timer
           /\ cur' = q => cur = q \/ st[q] = "running"
  PROVE  StateInv'
<1>1. ASSUME NEW q \in Procs, q # p PROVE StateAgrees(q)' /\ NotLost(q)'
  BY <1>1, Unmoved DEF StateInv
<1> QED BY <1>1 DEF StateInv

\* Steps that concern nobody, except that the control may be handed on.
LEMMA Handed ==
  ASSUME StateInv, UNCHANGED <<st, call, acting, timer>>,
         \A q \in Procs : cur' = q => cur = q \/ st[q] = "running"
  PROVE  StateInv'
<1>1. ASSUME NEW q \in Procs PROVE StateAgrees(q)' /\ NotLost(q)'
  BY <1>1, Unmoved DEF StateInv
<1> QED BY <1>1 DEF StateInv

\* A wait that returns, whatever the answer.
LEMMA ReturnStates ==
  ASSUME WaitInv, StateInv, NEW p \in Procs,
         DirectReturn(p) \/ CondReturn(p) \/ SleepReturn(p), SP!IInv
  PROVE  StateInv'
<1>1. /\ call[p] \in Calls /\ cur = p
      /\ call' = [call EXCEPT ![p] = Idle] /\ st' = st /\ cur' = cur
      /\ \A q \in Procs \ {p} : acting'[q] = acting[q]
  BY DEF DirectReturn, CondReturn, SleepReturn, schedVars, semVars, WaitInv, TypeOK
<1>2. call'[p] = Idle /\ \A q \in Procs \ {p} : call'[q] = call[q]
  BY <1>1 DEF WaitInv, TypeOK
<1>3. st[p] \in {"running", "terminated"}
  BY <1>1, CurFacts
<1>4. \/ p \notin timer'
      \/ st[p] = "terminated"
  <2>1. CASE CondReturn(p)
    BY <2>1 DEF CondReturn
  <2>2. CASE DirectReturn(p) \/ SleepReturn(p)
    <3>1. timer' = timer /\ call[p].op \in {"direct", "sleep"}
      BY <2>2 DEF DirectReturn, SleepReturn
    <3> QED BY <1>3, <3>1 DEF StateInv, StateAgrees
  <2> QED BY <2>1, <2>2
<1>5. StateAgrees(p)' /\ NotLost(p)'
  BY <1>1, <1>2, <1>3, <1>4, IdleProps DEF StateAgrees, NotLost, InWait
<1>6. \A q \in Procs \ {p} : q \in timer' <=> q \in timer
  BY DEF DirectReturn, CondReturn, SleepReturn
<1> QED BY <1>1, <1>2, <1>5, <1>6, Others

\* A wait that goes on.
LEMMA AgainStates ==
  ASSUME WaitInv, StateInv, NEW p \in Procs, CondAgain(p), SP!IInv
  PROVE  StateInv'
<1>1. PICK c \in Calls :
        /\ c.op = "cond" /\ c.sems = call[p].sems /\ c.got = Got(p)
        /\ c.every = call[p].every /\ c.timed = call[p].timed
        /\ call' = [call EXCEPT ![p] = c]
        /\ acting' = [acting EXCEPT ![p] = {}]
  BY AgainProps
<1>2. /\ timer' = timer /\ call[p].op = "cond"
      /\ st[p] = "running" /\ cur = p
      /\ st' = [st EXCEPT ![p] = "suspended"] /\ cur' = "drain"
      /\ ~TimedOut(p) /\ ~Met(call[p].every, call[p].sems, Got(p))
  BY DEF CondAgain, S!Suspend
<1>3. call'[p] = c /\ acting'[p] = {} /\ st'[p] = "suspended"
  BY <1>1, <1>2, CurFacts DEF WaitInv, TypeOK
<1>4. call[p].timed => p \in timer
  BY <1>2 DEF TimedOut
<1>5. StateAgrees(p)'
  BY <1>1, <1>2, <1>3, NotProcs DEF StateInv, StateAgrees, InWait
<1>6. NotLost(p)'
  <2>1. Got(p)' = Got(p)
    BY <1>1, <1>3 DEF Got
  <2> QED BY <1>1, <1>2, <1>3, <1>4, <2>1 DEF NotLost, Met
<1>7. \A q \in Procs \ {p} : /\ st'[q] = st[q] /\ call'[q] = call[q] /\ acting'[q] = acting[q]
                             /\ q \in timer' <=> q \in timer
                             /\ cur' # q
  BY <1>1, <1>2, NotProcs
<1> QED BY <1>5, <1>6, <1>7, Others

\* A process goes to sleep.
LEMMA SleepStates ==
  ASSUME WaitInv, StateInv, Sleep, SP!IInv
  PROVE  StateInv'
<1>0. PICK p \in Procs : p = cur
  BY DEF Sleep, InProcess
<1>1. /\ call' = [call EXCEPT ![p] = Sleeping] /\ timer' = timer \cup {p}
      /\ st[p] = "running" /\ cur = p /\ UNCHANGED acting
      /\ st' = [st EXCEPT ![p] = "suspended"] /\ cur' = "drain"
  BY <1>0 DEF Sleep, S!Suspend, semVars
<1>2. call'[p] = Sleeping /\ st'[p] = "suspended"
  BY <1>1, CurFacts DEF WaitInv, TypeOK
<1>3. StateAgrees(p)' /\ NotLost(p)'
  BY <1>1, <1>2, IdleProps DEF StateAgrees, NotLost, InWait
<1>4. \A q \in Procs \ {p} : /\ st'[q] = st[q] /\ call'[q] = call[q] /\ acting'[q] = acting[q]
                             /\ q \in timer' <=> q \in timer
                             /\ cur' # q
  BY <1>1, NotProcs
<1> QED BY <1>3, <1>4, Others

\* A process is killed or ends: the one that has the control is in no call.
LEMMA DeathStates ==
  ASSUME WaitInv, StateInv, NEW p \in Procs, Kill(p) \/ Terminate(p), SP!IInv
  PROVE  StateInv'
<1>1. /\ UNCHANGED <<call, acting, timer>>
      /\ cur = p => ~InWait(p)
      /\ cur' = cur \/ cur' = "drain"
  BY IdleProps DEF Kill, Terminate, User, InWait, semVars, S!Kill, S!Terminate
<1>2. /\ st'[p] = "terminated"
      /\ \A q \in Procs \ {p} : st'[q] = st[q]
  <2> DEFINE dead == [st EXCEPT ![p] = "terminated"]
  <2>1. /\ dead[p] = "terminated" /\ \A q \in Procs \ {p} : dead[q] = st[q]
    BY DEF SP!IInv, SP!TypeOK
  <2>2. S!Wake(dead, <<>>) \/ (st[p] = "terminated" /\ st' = st)
    BY DEF Kill, Terminate, S!Kill, S!Terminate
  <2>3. ToSet(<<>>) = {}
    BY DEF ToSet
  <2> HIDE DEF dead
  <2>4. CASE S!Wake(dead, <<>>)
    BY <2>1, <2>3, <2>4, WakeStates
  <2> QED BY <2>2, <2>4
<1>3. StateAgrees(p)' /\ NotLost(p)'
  BY <1>1, <1>2, NotProcs DEF StateAgrees, NotLost, InWait
<1> QED BY <1>1, <1>2, <1>3, NotProcs, Others

\* The event of a process fires.
LEMMA FireStates ==
  ASSUME WaitInv, StateInv, NEW p \in Procs, Fire(p)
  PROVE  StateInv'
<1>1. /\ UNCHANGED <<call, acting>> /\ timer' = timer \ {p} /\ p \in timer
      /\ cur' = "drain"
  BY DEF Fire, S!Fire, semVars
<1>2. /\ st'[p] = IF st[p] \in {"started", "suspended"} THEN "running" ELSE st[p]
      /\ \A q \in Procs \ {p} : st'[q] = st[q]
  <2>1. S!Wake(st, IF st[p] \in {"started", "suspended"} THEN <<p>> ELSE <<>>)
    BY DEF Fire, S!Fire, S!Wakeable
  <2>2. ToSet(<<>>) = {} /\ ToSet(<<p>>) = {p}
    BY DEF ToSet
  <2> QED BY <2>1, <2>2, WakeStates
<1>3. StateAgrees(p) /\ NotLost(p)
  BY DEF StateInv
<1>4. StateAgrees(p)' /\ NotLost(p)'
  BY <1>1, <1>2, <1>3, NotProcs DEF StateAgrees, NotLost, InWait
<1> QED BY <1>1, <1>2, <1>4, NotProcs, Others

\* A signal.
LEMMA SignalStates ==
  ASSUME WaitInv, StateInv, NEW s \in Sems, Signal(s), SP!IInv
  PROVE  StateInv'
<1>1. /\ UNCHANGED <<call, timer, cur>>
      /\ \A p \in Procs : cur = p => ~InWait(p)
  BY IdleProps DEF Signal, User, InWait, S!Signal
<1>2. semq[s] \in Seq(Procs) /\ IsInjective(semq[s])
  BY SemFacts
<1>3. CASE semq[s] = <<>>
  <2>1. S!Wake(st, <<>>) /\ acting' = acting /\ ToSet(<<>>) = {}
    BY <1>3 DEF Signal, S!Signal, ToSet
  <2>2. \A q \in Procs : st'[q] = st[q]
    BY <2>1, WakeStates
  <2>3. ASSUME NEW q \in Procs PROVE StateAgrees(q)' /\ NotLost(q)'
    BY <1>1, <2>1, <2>2, Unmoved DEF StateInv
  <2> QED BY <2>3 DEF StateInv
<1>4. CASE semq[s] # <<>>
  <2>1. PICK p \in ToSet(semq[s]) :
          /\ p \in Procs
          /\ acting' = [acting EXCEPT ![p] = @ \cup {s}]
          /\ S!Signal(SP!Woken(st, <<p>>))
    BY <1>2, <1>4, SignalProps
  <2>2. /\ InWait(p) /\ s \in call[p].sems /\ s \notin acting[p]
    BY <2>1, SemFacts DEF StillWaits
  <2>3. ToSet(SP!Woken(st, <<p>>)) = {q \in {p} : st[q] \in {"started", "suspended"}}
    <3>1. st \in [Procs -> SP!States]
      BY DEF SP!IInv, SP!TypeOK
    <3>2. SP!ToSet(SP!Woken(st, <<p>>)) = {q \in {p} : st[q] \in {"started", "suspended"}}
      BY <2>1, <3>1, SameProcs, SP!WokenOne DEF SP!Wakeable
    <3> QED BY <3>2 DEF SP!ToSet, ToSet
  <2>4. /\ st'[p] = IF st[p] \in {"started", "suspended"} THEN "running" ELSE st[p]
        /\ \A q \in Procs \ {p} : st'[q] = st[q]
    <3>1. S!Wake(st, SP!Woken(st, <<p>>))
      BY <2>1 DEF S!Signal
    <3> QED BY <2>1, <2>3, <3>1, WakeStates
  <2>5. acting'[p] = acting[p] \cup {s} /\ \A q \in Procs \ {p} : acting'[q] = acting[q]
    BY <2>1 DEF WaitInv, TypeOK
  <2>6. StateAgrees(p) /\ NotLost(p) /\ cur # p
    BY <1>1, <2>1, <2>2 DEF StateInv
  <2>7. call[p].op = "direct" => call[p].sems = {s} /\ acting[p] \subseteq call[p].sems
    BY <2>1, <2>2 DEF WaitInv, WaitsAgree
  <2>8. StateAgrees(p)'
    BY <1>1, <2>2, <2>4, <2>5, <2>6, <2>7 DEF StateAgrees, InWait
  <2>9. NotLost(p)'
    BY <2>4 DEF NotLost
  <2> QED BY <1>1, <2>1, <2>4, <2>5, <2>8, <2>9, Others
<1> QED BY <1>3, <1>4

\* The loop hands the control on, to nobody but a running process.
LEMMA LoopStates ==
  ASSUME StateInv, LoopStep, SP!IInv
  PROVE  StateInv'
<1>1. UNCHANGED <<call, acting, timer>>
  BY DEF LoopStep, semVars
<1>2. CASE S!Dispatch
  BY <1>1, <1>2, NotProcs, Handed DEF S!Dispatch
<1>3. CASE S!Handle(<<>>)
  <2>1. S!Wake(st, <<>>) /\ cur' = "handler" /\ ToSet(<<>>) = {}
    BY <1>3 DEF S!Handle, ToSet
  <2>2. \A q \in Procs : st'[q] = st[q]
    BY <2>1, WakeStates
  <2>3. ASSUME NEW q \in Procs PROVE StateAgrees(q)' /\ NotLost(q)'
    BY <1>1, <2>1, <2>2, NotProcs, Unmoved DEF StateInv
  <2> QED BY <2>3 DEF StateInv
<1>4. CASE S!RunBegin \/ S!RunEnd \/ S!HandlerReturn \/ S!DrainEnd("pick")
  <2>1. st' = st /\ cur' \in {"main", "pick", "drain"}
    BY <1>4 DEF S!RunBegin, S!RunEnd, S!HandlerReturn, S!DrainEnd
  <2> QED BY <1>1, <2>1, NotProcs, Handed
<1> QED BY <1>2, <1>3, <1>4 DEF LoopStep

-----------------------------------------------------------------------------

\* It holds at first.
LEMMA InitIInv == Init => IInv
<1> SUFFICES ASSUME Init PROVE IInv
  OBVIOUS
<1>1. SP!IInv
  BY SameProcs
     DEF Init, SP!IInv, SP!TypeOK, SP!QueuedOnce, SP!RunningIsReady, SP!States, SP!NoProc, SP!ToSet
<1>i. \A s \in Sems : InitVal[s] \in Nat
  BY SemAssumption DEF ValidSemaphore
<1>2. WaitInv
  <2>1. TypeOK
    <3>1. val \in [Sems -> Int] /\ call \in [Procs -> Calls]
      BY SemAssumption, <1>i, IdleProps DEF Init
    <3> QED BY <3>1 DEF Init, TypeOK
  <2>2. WaitsAgree
    BY IdleProps DEF Init, WaitsAgree, InWait
  <2>3. QueuesAgree
    BY IdleProps DEF Init, QueuesAgree, StillWaits, InWait, IsInjective, ToSet
  <2>4. ValueCountsQueue
    BY <1>i DEF Init, ValueCountsQueue
  <2>5. ASSUME NEW s \in Sems PROVE InFlight(s) = 0
    <3>1. {p \in Procs : s \in acting[p]} = {}
      BY DEF Init
    <3>2. {p \in Procs : call[p].op \in {"direct", "cond"} /\ s \in call[p].got} = {}
      BY IdleProps DEF Init
    <3>3. InFlight(s) = Cardinality({}) + Cardinality({})
      BY <3>1, <3>2 DEF InFlight
    <3>4. Cardinality({}) = 0
      BY FS_EmptySet
    <3> QED BY <3>3, <3>4
  <2>6. SignalsConserved
    BY <1>i, <2>5 DEF Init, SignalsConserved
  <2> QED BY <2>1, <2>2, <2>3, <2>4, <2>6 DEF WaitInv
<1>3. StateInv
  BY IdleProps DEF Init, StateInv, StateAgrees, NotLost, InWait
<1> QED BY <1>1, <1>2, <1>3, StateInvIs DEF IInv

\* Every step keeps the invariant.
LEMMA NextIInv == IInv /\ [Next]_vars => IInv'
<1> SUFFICES ASSUME IInv, [Next]_vars PROVE IInv'
  OBVIOUS
<1>f. SP!IInv /\ WaitInv /\ StateInv /\ StatesAgree
  BY StateInvIs DEF IInv
<1>1. SP!IInv'
  <2>1. /\ st \in [Procs -> SP!States] /\ semq \in [Sems -> Seq(Procs)]
        /\ \A s \in Sems : IsInjective(semq[s])
    BY <1>f DEF SP!IInv, SP!TypeOK, WaitInv, TypeOK, QueuesAgree
  <2>2. [SP!Next]_SP!vars
    BY <2>1, SchedStep
  <2> QED BY <1>f, <2>2, SameProcs, SP!NextIInv
<1>2. ASSUME NEW sems \in SUBSET Sems, NEW every \in BOOLEAN, WaitAtOnce(sems, every)
      PROVE  WaitInv' /\ StateInv'
  BY <1>2, <1>f, AtOnceStep, Handed DEF WaitAtOnce, schedVars
<1>3. ASSUME NEW sems \in SUBSET Sems, NEW every \in BOOLEAN, NEW timed \in BOOLEAN,
             WaitBlocks("cond", sems, every, timed)
      PROVE  WaitInv' /\ StateInv'
  BY <1>3, <1>f, BlocksStep, BlocksStates
<1>4. ASSUME NEW s \in Sems, WaitBlocks("direct", {s}, TRUE, FALSE)
      PROVE  WaitInv' /\ StateInv'
  BY <1>4, <1>f, BlocksStep, BlocksStates
<1>5. ASSUME NEW s \in Sems, Signal(s) PROVE WaitInv' /\ StateInv'
  BY <1>5, <1>f, SignalStep, SignalStates
<1>6. ASSUME NEW p \in Procs, DirectReturn(p) \/ CondReturn(p) PROVE WaitInv' /\ StateInv'
  BY <1>6, <1>f, DirectReturnStep, CondReturnStep, ReturnStates
<1>7. ASSUME NEW p \in Procs, CondAgain(p) PROVE WaitInv' /\ StateInv'
  BY <1>7, <1>f, AgainStep, AgainStates
<1>q. ASSUME UNCHANGED <<call, val, semq, acting, history>> PROVE WaitInv'
  BY <1>q, <1>f, QuietStep DEF WaitInv, TypeOK
<1>8. ASSUME NEW p \in Procs, Kill(p) \/ Terminate(p) PROVE WaitInv' /\ StateInv'
  BY <1>8, <1>f, <1>q, DeathStates DEF Kill, Terminate, semVars
<1>9. ASSUME NEW p \in Procs, Fire(p) PROVE WaitInv' /\ StateInv'
  BY <1>9, <1>f, <1>q, FireStates DEF Fire, semVars
<1>10. ASSUME NEW p \in Procs, NEW v \in Prios, SetPriority(p, v) PROVE WaitInv' /\ StateInv'
  BY <1>10, <1>f, <1>q, Handed DEF SetPriority, schedVars
<1>11. ASSUME NEW p \in Procs, SleepReturn(p) PROVE WaitInv' /\ StateInv'
  BY <1>11, <1>f, IdleProps, QuietStep, ReturnStates
     DEF SleepReturn, semVars, InWait, WaitInv, TypeOK
<1>12. ASSUME Sleep PROVE WaitInv' /\ StateInv'
  <2>1. PICK p \in Procs : /\ call[p] = Idle
                           /\ call' = [call EXCEPT ![p] = Sleeping]
    BY <1>12 DEF Sleep, InProcess, User
  <2>2. UNCHANGED <<val, semq, acting, history>>
    BY <1>12 DEF Sleep, semVars
  <2>3. call' \in [Procs -> Calls]
    BY <1>f, <2>1, IdleProps DEF WaitInv, TypeOK
  <2>4. \A q \in Procs : call'[q] = call[q] \/ (~InWait(q) /\ ~InWait(q)')
    BY <1>f, <2>1, IdleProps DEF WaitInv, TypeOK, InWait
  <2>5. WaitInv'
    BY <1>f, <2>2, <2>3, <2>4, QuietStep
  <2> QED BY <1>12, <1>f, <2>5, SleepStates
<1>13. ASSUME LoopStep PROVE WaitInv' /\ StateInv'
  <2>1. UNCHANGED <<call, val, semq, acting, history>>
    BY <1>13 DEF LoopStep, semVars
  <2> QED BY <1>13, <1>f, <1>q, <2>1, LoopStates
<1>14. ASSUME UNCHANGED vars PROVE WaitInv' /\ StateInv'
  <2>1. UNCHANGED <<call, val, semq, acting, history>> /\ UNCHANGED <<st, call, acting, timer>>
        /\ UNCHANGED cur
    BY <1>14 DEF vars, schedVars, semVars
  <2> QED BY <1>f, <1>q, <2>1, Handed
<1>c. ASSUME NEW p \in Procs,
             \/ DirectReturn(p) \/ CondReturn(p) \/ CondAgain(p)
             \/ SleepReturn(p) \/ Kill(p) \/ Terminate(p) \/ Fire(p)
             \/ \E v \in Prios : SetPriority(p, v)
      PROVE  WaitInv' /\ StateInv'
  BY <1>6, <1>7, <1>8, <1>9, <1>10, <1>11, <1>c
<1>15. WaitInv' /\ StateInv'
  BY <1>2, <1>3, <1>4, <1>5, <1>12, <1>13, <1>14, <1>c DEF Next
<1>16. NoLostWakeup' /\ StatesAgree'
  BY <1>15 DEF StateInv, NoLostWakeup, StatesAgree, NotLost
<1> QED BY <1>1, <1>15, <1>16 DEF IInv

-----------------------------------------------------------------------------

\* The value of a semaphore always counts the processes blocked on it.
THEOREM ValuesCountQueues == Spec => []ValueCountsQueue
<1>1. IInv => ValueCountsQueue
  BY DEF IInv, WaitInv
<1> QED BY <1>1, InitIInv, NextIInv, PTL DEF Spec

\* No signal is ever lost or used twice.
THEOREM NoSignalLost == Spec => []SignalsConserved
<1>1. IInv => SignalsConserved
  BY DEF IInv, WaitInv
<1> QED BY <1>1, InitIInv, NextIInv, PTL DEF Spec

\* A process that stays suspended in a wait has not been granted enough.
THEOREM NoWakeupLost == Spec => []NoLostWakeup
<1>1. IInv => NoLostWakeup
  BY DEF IInv
<1> QED BY <1>1, InitIInv, NextIInv, PTL DEF Spec

\* A live process is in the queue of what it waits for, once, and in no other.
THEOREM QueuedExactly == Spec => []QueuedWhileWaiting
<1>1. IInv => QueuedWhileWaiting
  <2> SUFFICES ASSUME IInv, NEW p \in Procs, NEW s \in Sems
               PROVE  Cardinality({i \in DOMAIN semq[s] : semq[s][i] = p})
                        = IF StillWaits(p, s) THEN 1 ELSE 0
    BY DEF QueuedWhileWaiting, StillWaits, InWait
  <2>1. IsInjective(semq[s]) /\ (p \in ToSet(semq[s]) <=> StillWaits(p, s))
    BY DEF IInv, WaitInv, QueuesAgree
  <2>2. CASE StillWaits(p, s)
    <3>1. PICK i \in DOMAIN semq[s] : semq[s][i] = p
      BY <2>1, <2>2 DEF ToSet
    <3>2. {j \in DOMAIN semq[s] : semq[s][j] = p} = {i}
      BY <2>1, <3>1 DEF IsInjective
    <3> QED BY <2>2, <3>2, FS_Singleton
  <2>3. CASE ~StillWaits(p, s)
    <3>1. {j \in DOMAIN semq[s] : semq[s][j] = p} = {}
      BY <2>1, <2>3 DEF ToSet
    <3> QED BY <2>3, <3>1, FS_EmptySet
  <2> QED BY <2>2, <2>3
<1> QED BY <1>1, InitIInv, NextIInv, PTL DEF Spec

\* However the processes wait and are signalled, each step is one that the
\* scheduler allows.
THEOREM StepsOfTheScheduler == Spec => [][SP!Next]_SP!vars
<1>1. IInv /\ [Next]_vars => [SP!Next]_SP!vars
  BY SchedStep DEF IInv, SP!IInv, SP!TypeOK, WaitInv, TypeOK, QueuesAgree
<1> QED BY <1>1, InitIInv, NextIInv, PTL DEF Spec

\* So death is final, too: no signal or time limit revives a process.
THEOREM DeadStayDead == Spec => SP!DeathIsFinal
<1>1. IInv /\ [Next]_vars =>
        [\A p \in Procs : st[p] = "terminated" => /\ st'[p] = "terminated"
                                                  /\ cur' = p => cur = p]_<<st, readyq, cur>>
  <2> SUFFICES ASSUME IInv, [Next]_vars, NEW p \in Procs, st[p] = "terminated"
               PROVE  \/ st'[p] = "terminated" /\ (cur' = p => cur = p)
                      \/ UNCHANGED <<st, readyq, cur>>
    OBVIOUS
  <2>1. [SP!Next]_SP!vars
    BY SchedStep DEF IInv, SP!IInv, SP!TypeOK, WaitInv, TypeOK, QueuesAgree
  <2>2. CASE SP!Next
    BY <2>2, SameProcs, SP!NextDeath DEF IInv
  <2> QED BY <2>1, <2>2 DEF SP!vars
<1> QED BY <1>1, InitIInv, NextIInv, PTL DEF Spec, SP!DeathIsFinal, SP!vars

-----------------------------------------------------------------------------

\* Where no process is killed, none dies in a wait.
NoDeadWaiter == \A p \in Procs : InWait(p) => S!Live(p)

\* Waking processes up kills none of them.
LEMMA WakeSpares ==
  ASSUME NEW q, S!Wake(st, q), NEW p \in Procs, S!Live(p)
  PROVE  S!Live(p)'
BY WakeStates DEF S!Live

\* Every step keeps it.
LEMMA NextNoDeadWaiter ==
  ASSUME ~Kills, IInv, NoDeadWaiter, [Next]_vars
  PROVE  NoDeadWaiter'
<1>t. call \in [Procs -> Calls] /\ st \in [Procs -> SP!States]
  BY DEF IInv, WaitInv, TypeOK, SP!IInv, SP!TypeOK
<1>q. ASSUME NEW q, S!Wake(st, q), call' = call PROVE NoDeadWaiter'
  BY <1>q, WakeSpares DEF NoDeadWaiter, InWait
<1>s. ASSUME NEW r \in Procs, \A p \in Procs \ {r} : call'[p] = call[p],
             st' = [st EXCEPT ![r] = "suspended"]
      PROVE  NoDeadWaiter'
  BY <1>s, <1>t DEF NoDeadWaiter, InWait, S!Live
<1>1. ASSUME NEW sems, NEW every, WaitAtOnce(sems, every) PROVE NoDeadWaiter'
  BY <1>1 DEF WaitAtOnce, schedVars, NoDeadWaiter, InWait, S!Live
<1>2. ASSUME NEW sems, NEW op, NEW every, NEW timed, WaitBlocks(op, sems, every, timed)
      PROVE  NoDeadWaiter'
  BY <1>2, <1>s, <1>t DEF WaitBlocks, InProcess, S!Suspend
<1>3. CASE Sleep
  BY <1>3, <1>s, <1>t DEF Sleep, InProcess, S!Suspend
<1>4. ASSUME NEW s \in Sems, Signal(s) PROVE NoDeadWaiter'
  <2>1. PICK q : S!Wake(st, q)
    BY <1>4 DEF Signal, S!Signal
  <2> QED BY <1>4, <1>q, <2>1 DEF Signal
<1>5. ASSUME NEW p \in Procs, DirectReturn(p) \/ CondReturn(p) \/ SleepReturn(p)
      PROVE  NoDeadWaiter'
  <2>1. st' = st /\ call' = [call EXCEPT ![p] = Idle]
    BY <1>5 DEF DirectReturn, CondReturn, SleepReturn, schedVars
  <2> QED BY <1>t, <2>1, IdleProps DEF NoDeadWaiter, InWait, S!Live
<1>6. ASSUME NEW p \in Procs, CondAgain(p) PROVE NoDeadWaiter'
  BY <1>6, <1>s, <1>t DEF CondAgain, S!Suspend
<1>7. ASSUME NEW p \in Procs, Terminate(p) PROVE NoDeadWaiter'
  <2>1. ~InWait(p) /\ call' = call
    BY <1>7, IdleProps DEF Terminate, User, S!Terminate, InWait
  <2> DEFINE dead == [st EXCEPT ![p] = "terminated"]
  <2>2. S!Wake(dead, <<>>) \/ st' = st
    BY <1>7 DEF Terminate, S!Terminate
  <2>3. \A r \in Procs \ {p} : dead[r] = st[r]
    BY <1>t
  <2>4. ToSet(<<>>) = {}
    BY DEF ToSet
  <2> HIDE DEF dead
  <2>5. \A r \in Procs \ {p} : st'[r] = st[r]
    BY <2>2, <2>3, <2>4, WakeStates
  <2> QED BY <2>1, <2>5 DEF NoDeadWaiter, InWait, S!Live
<1>8. ASSUME NEW p \in Procs, Kill(p) PROVE FALSE
  BY <1>8 DEF Kill
<1>9. ASSUME NEW p \in Procs, Fire(p) PROVE NoDeadWaiter'
  BY <1>9, <1>q DEF Fire, S!Fire
<1>10. ASSUME NEW p \in Procs, NEW v, SetPriority(p, v) PROVE NoDeadWaiter'
  BY <1>10 DEF SetPriority, schedVars, NoDeadWaiter, InWait, S!Live
<1>11. CASE LoopStep
  <2>1. S!Handle(<<>>) => S!Wake(st, <<>>)
    BY DEF S!Handle
  <2>2. st' = st \/ S!Wake(st, <<>>)
    BY <1>11, <2>1 DEF LoopStep, S!RunBegin, S!RunEnd, S!HandlerReturn, S!Dispatch, S!DrainEnd
  <2>3. call' = call
    BY <1>11 DEF LoopStep
  <2> QED BY <1>q, <2>2, <2>3 DEF NoDeadWaiter, InWait, S!Live
<1>12. CASE UNCHANGED vars
  BY <1>12 DEF vars, schedVars, NoDeadWaiter, InWait, S!Live
<1>13. ASSUME NEW p \in Procs,
             \/ DirectReturn(p) \/ CondReturn(p) \/ CondAgain(p)
             \/ SleepReturn(p) \/ Kill(p) \/ Terminate(p) \/ Fire(p)
             \/ \E v \in Prios : SetPriority(p, v)
      PROVE  NoDeadWaiter'
  BY <1>5, <1>6, <1>7, <1>8, <1>9, <1>10, <1>13
<1> QED BY <1>1, <1>2, <1>3, <1>4, <1>11, <1>12, <1>13 DEF Next

\* Only a signal is counted as one.
LEMMA SignalsAreCounted ==
  ASSUME Next, NEW s \in Sems, given'[s] > given[s], given[s] \in Nat
  PROVE  \E z \in Sems : Signal(z)
<1> SUFFICES ASSUME \A z \in Sems : ~Signal(z) PROVE given' = given
  OBVIOUS
<1>1. ASSUME NEW sems, NEW op, NEW every, NEW timed,
             WaitAtOnce(sems, every) \/ WaitBlocks(op, sems, every, timed)
      PROVE  given' = given
  BY <1>1 DEF WaitAtOnce, WaitBlocks, history
<1>2. ASSUME NEW q \in Procs, DirectReturn(q) \/ CondReturn(q) \/ CondAgain(q)
      PROVE  given' = given
  BY <1>2 DEF DirectReturn, CondReturn, CondAgain, history
<1>3. ASSUME NEW q \in Procs, SleepReturn(q) \/ Kill(q) \/ Terminate(q) \/ Fire(q)
      PROVE  given' = given
  BY <1>3 DEF SleepReturn, Kill, Terminate, Fire, history
<1>4. ASSUME NEW q \in Procs, NEW v, SetPriority(q, v) PROVE given' = given
  BY <1>4 DEF SetPriority, history
<1>5. ASSUME Sleep \/ LoopStep PROVE given' = given
  BY <1>5 DEF Sleep, LoopStep, history
<1>6. ASSUME NEW q \in Procs,
             \/ DirectReturn(q) \/ CondReturn(q) \/ CondAgain(q)
             \/ SleepReturn(q) \/ Kill(q) \/ Terminate(q) \/ Fire(q)
             \/ \E v \in Prios : SetPriority(q, v)
      PROVE  given' = given
  BY <1>2, <1>3, <1>4, <1>6
<1> QED BY <1>1, <1>5, <1>6 DEF Next

\* Killing is all that can waste a signal: where nobody is killed, a signal
\* unblocks a live process if one is blocked.
THEOREM SignalsReachTheLiving == ~Kills /\ Spec => SignalWakesLive
<1> SUFFICES ASSUME ~Kills PROVE Spec => SignalWakesLive
  OBVIOUS
<1>1. Init => NoDeadWaiter
  BY IdleProps DEF Init, NoDeadWaiter, InWait
<1>2. IInv /\ NoDeadWaiter /\ [Next]_vars => NoDeadWaiter'
  BY NextNoDeadWaiter
<1>3. IInv /\ NoDeadWaiter /\ [Next]_vars =>
        [\A s \in Sems :
           given'[s] > given[s] /\ (\E p \in ToSet(semq[s]) : S!Live(p))
             => \E p \in ToSet(semq[s]) : S!Live(p) /\ s \in acting'[p]]_vars
  <2> SUFFICES ASSUME IInv, NoDeadWaiter, Next, NEW s \in Sems, given'[s] > given[s],
                      NEW r \in ToSet(semq[s])
               PROVE  \E p \in ToSet(semq[s]) : S!Live(p) /\ s \in acting'[p]
    OBVIOUS
  <2>t. /\ semq[s] \in Seq(Procs) /\ IsInjective(semq[s]) /\ ToSet(semq[s]) \subseteq Procs
        /\ acting \in [Procs -> SUBSET Sems] /\ given \in [Sems -> Nat]
        /\ \A p \in Procs : p \in ToSet(semq[s]) => InWait(p)
    BY SemFacts DEF IInv, WaitInv, TypeOK, StillWaits
  <2>1. Signal(s)
    <3>1. PICK z \in Sems : Signal(z)
      BY <2>t, SignalsAreCounted
    <3>2. given' = [given EXCEPT ![z] = @ + 1]
      BY <3>1 DEF Signal
    <3>3. given[s] \in Nat /\ given'[s] # given[s]
      BY <2>t
    <3> QED BY <2>t, <3>1, <3>2, <3>3
  <2>2. semq[s] # <<>>
    BY DEF ToSet
  <2>3. PICK p \in ToSet(semq[s]) : acting' = [acting EXCEPT ![p] = @ \cup {s}]
    BY <2>t, <2>1, <2>2, SignalProps
  <2>4. s \in acting'[p] /\ S!Live(p)
    BY <2>t, <2>3 DEF NoDeadWaiter
  <2> QED BY <2>4
<1> QED BY <1>1, <1>2, <1>3, InitIInv, NextIInv, PTL DEF Spec, SignalWakesLive
=============================================================================
