---------------------------- MODULE ResourceProofs ----------------------------
(***************************************************************************)
(* Theorems about Resource, for every set of processes, all capacities and *)
(* queuing disciplines.                                                    *)
(***************************************************************************)
EXTENDS Resource, FiniteSetTheorems, SequenceTheorems, TLAPS

\* What is proved about the semaphore.
SemP == INSTANCE SemaphoreProofs WITH InitVal <- [s \in Sems |-> Capacity],
                                      Qdis <- [s \in Sems |-> Disc]

\* What is assumed of a resource, in the words of the semaphore's proofs.
LEMMA SemHolds ==
  /\ SemP!S!ProcsOK
  /\ [s \in Sems |-> Capacity] \in [Sems -> Int]
  /\ \A s \in Sems : SemP!ValidSemaphore([t \in Sems |-> Capacity][s], [t \in Sems |-> Disc][s])
  /\ Prios \subseteq Int
  /\ MaxSignals \in Nat
  /\ Kills \in BOOLEAN
<1>1. Sem!S!IsFiniteSet(Procs) <=> SemP!S!IsFiniteSet(Procs)
  BY DEF Sem!S!IsFiniteSet, SemP!S!IsFiniteSet
<1>2. SemP!S!ProcsOK
  BY <1>1, ResAssumption DEF Sem!S!ProcsOK, SemP!S!ProcsOK, Sem!S!NoProc, SemP!S!NoProc
<1>3. Capacity \in Nat /\ Disc \in {"FIFO", "LIFO", "SIRO", "PRIORITY"}
  BY ResAssumption DEF ValidResource
<1>4. \A s \in Sems : SemP!ValidSemaphore([t \in Sems |-> Capacity][s], [t \in Sems |-> Disc][s])
  BY <1>3 DEF SemP!ValidSemaphore, SemP!Disciplines
<1> QED BY <1>2, <1>3, <1>4, ResAssumption

\* Every step of the semaphore keeps its invariant.
LEMMA SemNext == SemP!IInv /\ [SemP!Next]_SemP!vars => SemP!IInv'
<1> QED BY SemHolds, SemP!NextIInv

-----------------------------------------------------------------------------
(* The steps of the semaphore, in the words of its proofs *)

\* The operators that several steps use are those the proofs speak of.
LEMMA SameBasics ==
  /\ Sem!User <=> SemP!User
  /\ Sem!InProcess <=> SemP!InProcess
  /\ Sem!Idle = SemP!Idle
  /\ \A X : Sem!Free(X) = SemP!Free(X)
  /\ \A f, X : Sem!Plus(f, X) = SemP!Plus(f, X) /\ Sem!Minus(f, X) = SemP!Minus(f, X)
  /\ \A every, X, Y : Sem!Met(every, X, Y) <=> SemP!Met(every, X, Y)
  /\ \A p : Sem!Got(p) = SemP!Got(p) /\ (Sem!TimedOut(p) <=> SemP!TimedOut(p))
  /\ \A p : Sem!S!Suspend(p) <=> SemP!S!Suspend(p)
  /\ \A p : Sem!S!Live(p) <=> SemP!S!Live(p)
  /\ \A q : Sem!S!Signal(q) <=> SemP!S!Signal(q)
<1>1. (Sem!User <=> SemP!User) /\ (Sem!InProcess <=> SemP!InProcess) /\ Sem!Idle = SemP!Idle
  BY DEF Sem!User, SemP!User, Sem!InProcess, SemP!InProcess, Sem!Idle, SemP!Idle,
         Sem!S!User, SemP!S!User
<1>2. /\ \A X : Sem!Free(X) = SemP!Free(X)
      /\ \A f, X : Sem!Plus(f, X) = SemP!Plus(f, X) /\ Sem!Minus(f, X) = SemP!Minus(f, X)
  BY DEF Sem!Free, SemP!Free, Sem!Plus, SemP!Plus, Sem!Minus, SemP!Minus
<1>3. \A every, X, Y : Sem!Met(every, X, Y) <=> SemP!Met(every, X, Y)
  BY DEF Sem!Met, SemP!Met
<1>4. \A p : Sem!Got(p) = SemP!Got(p) /\ (Sem!TimedOut(p) <=> SemP!TimedOut(p))
  BY DEF Sem!Got, SemP!Got, Sem!TimedOut, SemP!TimedOut
<1>5. \A p : Sem!S!Suspend(p) <=> SemP!S!Suspend(p)
  BY DEF Sem!S!Suspend, SemP!S!Suspend
<1>6. \A p : Sem!S!Live(p) <=> SemP!S!Live(p)
  BY DEF Sem!S!Live, SemP!S!Live
<1>7. \A q : Sem!S!Signal(q) <=> SemP!S!Signal(q)
  BY DEF Sem!S!Signal, SemP!S!Signal, Sem!S!User, SemP!S!User, Sem!S!Wake, SemP!S!Wake,
         Sem!S!ToSet, SemP!S!ToSet
<1> QED BY <1>1, <1>2, <1>3, <1>4, <1>5, <1>6, <1>7

\* So are waits that do not block, waits that block, and their ends,
LEMMA SameWaits ==
  /\ Sem!WaitAtOnce(Sems, TRUE) => SemP!WaitAtOnce(Sems, TRUE)
  /\ \A op, timed : Sem!WaitBlocks(op, Sems, TRUE, timed) => SemP!WaitBlocks(op, Sems, TRUE, timed)
  /\ \A p : Sem!DirectReturn(p) => SemP!DirectReturn(p)
  /\ \A p : Sem!CondReturn(p) => SemP!CondReturn(p)
<1>1. Sem!WaitAtOnce(Sems, TRUE) => SemP!WaitAtOnce(Sems, TRUE)
  BY SameBasics DEF Sem!WaitAtOnce, SemP!WaitAtOnce, Sem!schedVars, SemP!schedVars
<1>2. ASSUME NEW op, NEW timed, Sem!WaitBlocks(op, Sems, TRUE, timed)
      PROVE  SemP!WaitBlocks(op, Sems, TRUE, timed)
  <2>1. \A p, X : Sem!Enqueued(p, X) = SemP!Enqueued(p, X)
    BY DEF Sem!Enqueued, SemP!Enqueued
  <2>2. \A X, Y : Sem!Waiting(op, X, Y, TRUE, timed) = SemP!Waiting(op, X, Y, TRUE, timed)
    BY DEF Sem!Waiting, SemP!Waiting
  <2> QED BY <1>2, <2>1, <2>2, SameBasics
          DEF Sem!WaitBlocks, SemP!WaitBlocks, Sem!history, SemP!history
<1>3. ASSUME NEW p, Sem!DirectReturn(p) PROVE SemP!DirectReturn(p)
  BY <1>3, SameBasics DEF Sem!DirectReturn, SemP!DirectReturn, Sem!schedVars, SemP!schedVars
<1>4. ASSUME NEW p, Sem!CondReturn(p) PROVE SemP!CondReturn(p)
  <2>1. \A s : Sem!SelectInSeq(s, LAMBDA v : v = p) = SemP!SelectInSeq(s, LAMBDA v : v = p)
    BY DEF Sem!SelectInSeq, SemP!SelectInSeq, Sem!Min, SemP!Min
  <2>2. \A s : Sem!RemoveFirst(s, p) = SemP!RemoveFirst(s, p)
    BY <2>1 DEF Sem!RemoveFirst, SemP!RemoveFirst, Sem!RemoveAt, SemP!RemoveAt
  <2>3. \A X : Sem!Dequeued(p, X) = SemP!Dequeued(p, X)
    BY <2>2 DEF Sem!Dequeued, SemP!Dequeued
  <2> QED BY <1>4, <2>3, SameBasics
          DEF Sem!CondReturn, SemP!CondReturn, Sem!schedVars, SemP!schedVars
<1> QED BY <1>1, <1>2, <1>3, <1>4

\* signals,
LEMMA SameSignal == Sem!Signal(server) => SemP!Signal(server)
<1>1. Sem!Candidates(server) = SemP!Candidates(server)
  BY DEF Sem!Candidates, SemP!Candidates
<1>2. \A i : Sem!Left(server, i) = SemP!Left(server, i)
  BY DEF Sem!Left, SemP!Left, Sem!RemoveAt, SemP!RemoveAt, Sem!Front, SemP!Front, Sem!Last, SemP!Last
<1>3. \A q : Sem!S!Woken(st, q) = SemP!S!Woken(st, q)
  BY DEF Sem!S!Woken, SemP!S!Woken, Sem!S!AtPlaces, SemP!S!AtPlaces, Sem!S!Nth, SemP!S!Nth,
         Sem!S!Cardinality, SemP!S!Cardinality, Sem!S!Wakeable, SemP!S!Wakeable
<1> QED BY <1>1, <1>2, <1>3, SameBasics DEF Sem!Signal, SemP!Signal

\* and the steps that leave the records alone.
LEMMA SameOthers ==
  /\ Sem!Sleep => SemP!Sleep
  /\ Sem!LoopStep => SemP!LoopStep
  /\ \A p : /\ Sem!SleepReturn(p) => SemP!SleepReturn(p)
            /\ Sem!Fire(p) => SemP!Fire(p)
            /\ Sem!Kill(p) => SemP!Kill(p)
            /\ Sem!Terminate(p) => SemP!Terminate(p)
            /\ \A v : Sem!SetPriority(p, v) => SemP!SetPriority(p, v)
<1>1. Sem!Sleep => SemP!Sleep
  BY SameBasics DEF Sem!Sleep, SemP!Sleep, Sem!Sleeping, SemP!Sleeping, Sem!semVars, SemP!semVars,
                    Sem!history, SemP!history
<1>w. \A s, q : Sem!S!Wake(s, q) <=> SemP!S!Wake(s, q)
  BY DEF Sem!S!Wake, SemP!S!Wake, Sem!S!ToSet, SemP!S!ToSet
<1>2. ASSUME Sem!LoopStep PROVE SemP!LoopStep
  <2>1. /\ Sem!S!RunBegin <=> SemP!S!RunBegin
        /\ Sem!S!RunEnd <=> SemP!S!RunEnd
        /\ Sem!S!HandlerReturn <=> SemP!S!HandlerReturn
        /\ Sem!S!Dispatch <=> SemP!S!Dispatch
        /\ Sem!S!DrainEnd("pick") <=> SemP!S!DrainEnd("pick")
    BY DEF Sem!S!RunBegin, SemP!S!RunBegin, Sem!S!RunEnd, SemP!S!RunEnd, Sem!S!HandlerReturn,
           SemP!S!HandlerReturn, Sem!S!Dispatch, SemP!S!Dispatch, Sem!S!DrainEnd, SemP!S!DrainEnd,
           Sem!S!Last, SemP!S!Last
  <2>2. Sem!S!Handle(<<>>) <=> SemP!S!Handle(<<>>)
    BY <1>w DEF Sem!S!Handle, SemP!S!Handle
  <2> QED BY <1>2, <2>1, <2>2 DEF Sem!LoopStep, SemP!LoopStep, Sem!semVars, SemP!semVars,
                                  Sem!history, SemP!history
<1>3. ASSUME NEW p
      PROVE  /\ Sem!SleepReturn(p) => SemP!SleepReturn(p)
             /\ \A v : Sem!SetPriority(p, v) => SemP!SetPriority(p, v)
  BY SameBasics DEF Sem!SleepReturn, SemP!SleepReturn, Sem!SetPriority, SemP!SetPriority,
         Sem!schedVars, SemP!schedVars, Sem!semVars, SemP!semVars, Sem!history, SemP!history
<1>4. ASSUME NEW p PROVE Sem!Fire(p) => SemP!Fire(p)
  <2>1. Sem!S!Fire(p) <=> SemP!S!Fire(p)
    BY <1>w DEF Sem!S!Fire, SemP!S!Fire, Sem!S!Wakeable, SemP!S!Wakeable
  <2> QED BY <2>1 DEF Sem!Fire, SemP!Fire, Sem!semVars, SemP!semVars, Sem!history, SemP!history
<1>5. ASSUME NEW p PROVE Sem!Kill(p) => SemP!Kill(p)
  <2>1. Sem!S!Kill(p, <<>>) <=> SemP!S!Kill(p, <<>>)
    BY <1>w DEF Sem!S!Kill, SemP!S!Kill, Sem!S!User, SemP!S!User, Sem!S!Live, SemP!S!Live
  <2> QED BY <2>1, SameBasics DEF Sem!Kill, SemP!Kill, Sem!semVars, SemP!semVars, Sem!history, SemP!history
<1>6. ASSUME NEW p PROVE Sem!Terminate(p) => SemP!Terminate(p)
  <2>1. Sem!S!Terminate(p, <<>>) <=> SemP!S!Terminate(p, <<>>)
    BY <1>w DEF Sem!S!Terminate, SemP!S!Terminate
  <2> QED BY <2>1, SameBasics
          DEF Sem!Terminate, SemP!Terminate, Sem!semVars, SemP!semVars, Sem!history, SemP!history
<1> QED BY <1>1, <1>2, <1>3, <1>4, <1>5, <1>6

-----------------------------------------------------------------------------
(* The records *)

\* The records of a process agree with the semaphore and with its call, dead or
\* alive: who waits has arrived; who is in service holds a server; and unless it
\* has acquired twice it has arrived just if it waits or is served, and holds a
\* server just if it is in service.
RecordsOf(p) ==
  /\ SemP!InWait(p) => /\ call[p].sems = Sems /\ call[p].got = {}
                       /\ p \in arrivals
                       /\ p \in services => p \in again
  /\ p \in services => held[p] > 0
  /\ p \notin again => /\ p \in arrivals <=> p \in services \/ SemP!InWait(p)
                      /\ held[p] = IF p \in services THEN 1 ELSE 0

\* A signal that was taken is a server that a process holds, or a release.
UnitsAgree == /\ held \in [Procs -> Nat]
              /\ IsFiniteSet(Units)
              /\ taken[server] = given[server] + Cardinality(Units)

RecordsAgree == UnitsAgree /\ \A p \in Procs : RecordsOf(p)

\* The inductive invariant.
IInv == SemP!IInv /\ RecordsAgree

\* What the invariant of the semaphore says of one process.
LEMMA CallFacts ==
  ASSUME IInv, NEW p \in Procs
  PROVE  /\ SemP!InWait(p) => acting[p] = {} \/ acting[p] = Sems
         /\ ~SemP!InWait(p) => acting[p] = {}
         /\ call[p].op = "direct" /\ cur = p => acting[p] = Sems
<1>1. SemP!WaitsAgree /\ acting[p] \subseteq Sems
  BY DEF IInv, SemP!IInv, SemP!WaitInv, SemP!TypeOK
<1>2. /\ SemP!InWait(p) => acting[p] = {} \/ acting[p] = Sems
      /\ ~SemP!InWait(p) => acting[p] = {}
  BY <1>1 DEF SemP!WaitsAgree, Sems
<1>3. call[p].op = "direct" /\ cur = p => acting[p] = Sems
  <2>1. SemP!StateAgrees(p)
    BY DEF IInv, SemP!IInv, SemP!StatesAgree
  <2> QED BY <2>1 DEF SemP!StateAgrees, SemP!InWait, IInv, RecordsAgree, RecordsOf
<1> QED BY <1>2, <1>3

\* One server more or less with a process.
LEMMA UnitsCount ==
  ASSUME held \in [Procs -> Nat], IsFiniteSet(Units), NEW p \in Procs
  PROVE  /\ Cardinality(Units) \in Nat
         /\ held' = [held EXCEPT ![p] = @ + 1] =>
              /\ held' \in [Procs -> Nat] /\ IsFiniteSet(Units')
              /\ Cardinality(Units') = Cardinality(Units) + 1
         /\ held' = [held EXCEPT ![p] = @ - 1] /\ held[p] > 0 =>
              /\ held' \in [Procs -> Nat] /\ IsFiniteSet(Units')
              /\ Cardinality(Units') = Cardinality(Units) - 1
<1>1. Cardinality(Units) \in Nat
  BY FS_CardinalityType
<1>u. \A u : u \in Units <=> \E q \in Procs : \E n \in 1..held[q] : u = <<q, n>>
  BY DEF Units
<1>2. ASSUME held' = [held EXCEPT ![p] = @ + 1]
      PROVE  /\ held' \in [Procs -> Nat] /\ IsFiniteSet(Units')
             /\ Cardinality(Units') = Cardinality(Units) + 1
  <2>1. /\ held' \in [Procs -> Nat] /\ held'[p] = held[p] + 1 /\ held[p] \in Nat
        /\ \A q \in Procs \ {p} : held'[q] = held[q]
    BY <1>2
  <2>2. 1..held'[p] = (1..held[p]) \cup {held'[p]} /\ held'[p] \notin 1..held[p]
    BY <2>1
  <2>3. <<p, held'[p]>> \notin Units
    BY <1>u, <2>2
  <2>4. Units' = Units \cup {<<p, held'[p]>>}
    <3>1. \A u : u \in Units' <=> \E q \in Procs : \E n \in 1..held'[q] : u = <<q, n>>
      BY DEF Units
    <3>2. ASSUME NEW u PROVE u \in Units' <=> u \in Units \/ u = <<p, held'[p]>>
      BY <1>u, <2>1, <2>2, <3>1
    <3> QED BY <3>2
  <2> QED BY <2>1, <2>3, <2>4, FS_AddElement
<1>3. ASSUME held' = [held EXCEPT ![p] = @ - 1], held[p] > 0
      PROVE  /\ held' \in [Procs -> Nat] /\ IsFiniteSet(Units')
             /\ Cardinality(Units') = Cardinality(Units) - 1
  <2>1. /\ held' \in [Procs -> Nat] /\ held'[p] = held[p] - 1 /\ held[p] \in Nat
        /\ \A q \in Procs \ {p} : held'[q] = held[q]
    BY <1>3
  <2>2. 1..held[p] = (1..held'[p]) \cup {held[p]} /\ held[p] \notin 1..held'[p]
    BY <1>3, <2>1
  <2>3. <<p, held[p]>> \in Units
    BY <1>u, <2>2
  <2>4. Units' = Units \ {<<p, held[p]>>}
    <3>1. \A u : u \in Units' <=> \E q \in Procs : \E n \in 1..held'[q] : u = <<q, n>>
      BY DEF Units
    <3>2. ASSUME NEW u PROVE u \in Units' <=> u \in Units /\ u # <<p, held[p]>>
      BY <1>u, <2>1, <2>2, <3>1
    <3> QED BY <3>2
  <2> QED BY <2>1, <2>3, <2>4, FS_RemoveElement
<1> QED BY <1>1, <1>2, <1>3

\* What happens to the records of one process leaves those of the others.
LEMMA OneProcess ==
  ASSUME RecordsAgree, NEW p \in Procs,
         arrivals' \ {p} = arrivals \ {p}, services' \ {p} = services \ {p},
         again' \ {p} = again \ {p},
         \A q \in Procs \ {p} : held'[q] = held[q] /\ call'[q] = call[q],
         RecordsOf(p)', UnitsAgree'
  PROVE  RecordsAgree'
<1>1. ASSUME NEW q \in Procs \ {p} PROVE RecordsOf(q)'
  <2>1. /\ q \in arrivals' <=> q \in arrivals
        /\ q \in services' <=> q \in services
        /\ q \in again' <=> q \in again
        /\ held'[q] = held[q] /\ call'[q] = call[q]
    OBVIOUS
  <2>2. RecordsOf(q)
    BY DEF RecordsAgree
  <2> QED BY <2>1, <2>2 DEF RecordsOf, SemP!InWait
<1> QED BY <1>1 DEF RecordsAgree

\* A process comes to be served: a call that does not block, or one that ends.
LEMMA ServedStep ==
  ASSUME RecordsAgree, SemP!TypeOK, NEW p \in Procs, Served(p),
         taken'[server] = taken[server] + 1, given' = given,
         ~SemP!InWait(p)', \A q \in Procs \ {p} : call'[q] = call[q],
         arrivals' = arrivals \cup {p},
         \/ again' = again \cup ({p} \cap services)
         \/ again' = again /\ SemP!InWait(p)
  PROVE  RecordsAgree'
<1>1. services' = services \cup {p} /\ held' = [held EXCEPT ![p] = @ + 1]
  BY DEF Served
<1>2. RecordsOf(p) /\ UnitsAgree /\ held[p] \in Nat
  BY DEF RecordsAgree, UnitsAgree
<1>3. /\ again \subseteq again' /\ again' \ {p} = again \ {p}
      /\ p \in services => p \in again'
  BY <1>2 DEF RecordsOf
<1>4. /\ held'[p] = held[p] + 1
      /\ \A q \in Procs \ {p} : held'[q] = held[q]
  BY <1>1, <1>2 DEF UnitsAgree
<1>5. RecordsOf(p)'
  <2>1. p \in arrivals' /\ p \in services' /\ held'[p] > 0
    BY <1>1, <1>2, <1>4
  <2>2. p \notin again' => held'[p] = 1
    BY <1>2, <1>3, <1>4 DEF RecordsOf
  <2> QED BY <2>1, <2>2 DEF RecordsOf
<1>6. UnitsAgree'
  <2>1. given[server] \in Nat
    BY DEF SemP!TypeOK, Sems
  <2>2. /\ Cardinality(Units) \in Nat /\ held' \in [Procs -> Nat] /\ IsFiniteSet(Units')
        /\ Cardinality(Units') = Cardinality(Units) + 1
    BY <1>1, <1>2, UnitsCount DEF UnitsAgree
  <2>3. taken[server] = given[server] + Cardinality(Units)
    BY <1>2 DEF UnitsAgree
  <2> QED BY <2>1, <2>2, <2>3 DEF UnitsAgree
<1>7. arrivals' \ {p} = arrivals \ {p} /\ services' \ {p} = services \ {p}
  BY <1>1
<1> QED BY <1>3, <1>4, <1>5, <1>6, <1>7, OneProcess

\* Nothing changes but calls that are no waits.
LEMMA NoRecords ==
  ASSUME RecordsAgree, UNCHANGED <<arrivals, services, held, again, taken, given>>,
         \A p \in Procs : call'[p] = call[p] \/ (~SemP!InWait(p) /\ ~SemP!InWait(p)')
  PROVE  RecordsAgree'
<1>1. UnitsAgree'
  BY DEF RecordsAgree, UnitsAgree, Units
<1>2. ASSUME NEW p \in Procs PROVE RecordsOf(p)'
  <2>1. RecordsOf(p)
    BY DEF RecordsAgree
  <2> QED BY <2>1 DEF RecordsOf, SemP!InWait
<1> QED BY <1>1, <1>2 DEF RecordsAgree

\* The records of the resource follow every step, and every step is one of
\* the semaphore.
LEMMA NextRecords ==
  ASSUME SemP!IInv, RecordsAgree, [Next]_vars
  PROVE  [SemP!Next]_SemP!vars /\ (SemP!IInv' => RecordsAgree')
<1>i. IInv
  BY DEF IInv
<1>r. UnitsAgree /\ \A p \in Procs : RecordsOf(p)
  BY DEF RecordsAgree
<1>t. SemP!TypeOK /\ (SemP!IInv' => SemP!TypeOK')
  BY DEF SemP!IInv, SemP!WaitInv
<1>s. Sems = {server} /\ Sems \in (SUBSET Sems) \ {{}} /\ server \in Sems
  BY DEF Sems
<1>u. Sem!InProcess => cur \in Procs /\ ~SemP!InWait(cur)
  BY DEF Sem!InProcess, Sem!User, Sem!Idle, SemP!InWait
<1>1. ASSUME AcquireAtOnce PROVE SemP!Next /\ (SemP!IInv' => RecordsAgree')
  <2>1. SemP!Next
    BY <1>1, <1>s, SameWaits DEF AcquireAtOnce, SemP!Next
  <2>2. cur \in Procs /\ ~SemP!InWait(cur)
    BY <1>1, <1>u DEF AcquireAtOnce, Sem!WaitAtOnce
  <2>3. Sem!Free(Sems) = Sems
    BY <1>1 DEF AcquireAtOnce, Sem!WaitAtOnce, Sem!Met
  <2>4. taken'[server] = taken[server] + 1 /\ given' = given /\ call' = call
    BY <1>1, <1>s, <2>3 DEF AcquireAtOnce, Sem!WaitAtOnce, Sem!Plus
  <2>5. SemP!IInv' => RecordsAgree'
    <3>1. \A q \in Procs \ {cur} : call'[q] = call[q]
      BY <2>4
    <3>2. PICK p \in Procs : p = cur
      BY <2>2
    <3>3. ~SemP!InWait(p)'
      BY <2>2, <2>4, <3>2 DEF SemP!InWait
    <3>4. Served(p) /\ arrivals' = arrivals \cup {p} /\ again' = again \cup ({p} \cap services)
      BY <1>1, <3>2 DEF AcquireAtOnce, Arrived
    <3> QED BY <1>t, <2>4, <3>1, <3>2, <3>3, <3>4, ServedStep
  <2> QED BY <2>1, <2>5
<1>2. ASSUME NEW op \in {"direct", "cond"}, NEW timed \in BOOLEAN, op = "direct" => timed = FALSE,
             AcquireBlocks(op, timed)
      PROVE  SemP!Next /\ (SemP!IInv' => RecordsAgree')
  <2>1. SemP!WaitBlocks(op, Sems, TRUE, timed)
    BY <1>2, SameWaits DEF AcquireBlocks
  <2>2. SemP!Next
    <3>1. CASE op = "cond"
      BY <1>s, <2>1, <3>1 DEF SemP!Next
    <3>2. CASE op = "direct"
      BY <1>2, <1>s, <2>1, <3>2 DEF SemP!Next
    <3> QED BY <3>1, <3>2
  <2>3. cur \in Procs /\ ~SemP!InWait(cur)
    BY <1>2, <1>u DEF AcquireBlocks, Sem!WaitBlocks
  <2>4. SemP!Free(Sems) = {}
    BY <1>s, <2>1 DEF SemP!WaitBlocks, SemP!Met, SemP!Free
  <2>5. PICK p \in Procs : p = cur
    BY <2>3
  <2>6. /\ call' = [call EXCEPT ![p] = [op |-> op, sems |-> Sems, got |-> {}, every |-> TRUE, timed |-> timed]]
        /\ taken' = taken /\ given' = given
    BY <2>1, <2>4, <2>5 DEF SemP!WaitBlocks, SemP!Waiting, SemP!history
  <2>7. call'[p] = [op |-> op, sems |-> Sems, got |-> {}, every |-> TRUE, timed |-> timed]
        /\ \A q \in Procs \ {p} : call'[q] = call[q]
    BY <1>t, <2>6 DEF SemP!TypeOK
  <2>8. /\ arrivals' = arrivals \cup {p} /\ again' = again \cup ({p} \cap services)
        /\ UNCHANGED <<services, held>>
    BY <1>2, <2>5 DEF AcquireBlocks, Arrived
  <2>9. SemP!InWait(p)' /\ call'[p].sems = Sems /\ call'[p].got = {} /\ ~SemP!InWait(p)
    BY <1>2, <2>3, <2>5, <2>7 DEF SemP!InWait
  <2>10. RecordsOf(p)'
    BY <1>r, <2>8, <2>9 DEF RecordsOf
  <2>11. UnitsAgree'
    BY <1>r, <2>6, <2>8 DEF UnitsAgree, Units
  <2>12. arrivals' \ {p} = arrivals \ {p} /\ services' \ {p} = services \ {p}
         /\ again' \ {p} = again \ {p} /\ held' = held
    BY <2>8
  <2>13. RecordsAgree'
    BY <2>7, <2>10, <2>11, <2>12, OneProcess
  <2> QED BY <2>2, <2>13
<1>3. ASSUME NEW p \in Procs, AcquireReturn(p) PROVE SemP!Next /\ (SemP!IInv' => RecordsAgree')
  <2>1. SemP!DirectReturn(p) /\ SemP!Next
    BY <1>3, SameWaits DEF AcquireReturn, SemP!Next
  <2>2. SemP!InWait(p) /\ call[p].sems = Sems /\ acting[p] = Sems /\ p \in arrivals
    BY <1>i, <1>r, <2>1, CallFacts DEF SemP!DirectReturn, SemP!InWait, RecordsOf
  <2>3. taken'[server] = taken[server] + 1 /\ given' = given
    BY <1>s, <2>1, <2>2 DEF SemP!DirectReturn, SemP!Plus
  <2>4. ~SemP!InWait(p)' /\ \A q \in Procs \ {p} : call'[q] = call[q]
    BY <1>t, <2>1 DEF SemP!DirectReturn, SemP!Idle, SemP!InWait, SemP!TypeOK
  <2>5. Served(p) /\ arrivals' = arrivals \cup {p} /\ again' = again
    BY <1>3, <2>2 DEF AcquireReturn
  <2> QED BY <1>t, <2>1, <2>2, <2>3, <2>4, <2>5, ServedStep
<1>4. ASSUME NEW p \in Procs, CondReturn(p) PROVE SemP!Next /\ (SemP!IInv' => RecordsAgree')
  <2>1. SemP!CondReturn(p) /\ SemP!Next
    BY <1>4, SameWaits DEF CondReturn, SemP!Next
  <2>2. SemP!InWait(p) /\ p \in arrivals /\ call[p].sems = Sems /\ call[p].got = {}
        /\ (p \in services => p \in again)
    BY <1>r, <2>1 DEF SemP!CondReturn, SemP!InWait, RecordsOf
  <2>3. SemP!Got(p) = Sem!Got(p) /\ (SemP!Got(p) = {} \/ SemP!Got(p) = Sems)
    BY <1>i, <2>2, CallFacts, SameBasics DEF SemP!Got
  <2>4. ~SemP!InWait(p)' /\ \A q \in Procs \ {p} : call'[q] = call[q]
    BY <1>t, <2>1 DEF SemP!CondReturn, SemP!Idle, SemP!InWait, SemP!TypeOK
  <2>5. given' = given /\ taken' = SemP!Plus(taken, SemP!Got(p))
    BY <2>1 DEF SemP!CondReturn
  <2>6. CASE SemP!Got(p) = Sems
    <3>1. taken'[server] = taken[server] + 1
      BY <1>s, <2>5, <2>6 DEF SemP!Plus
    <3>2. Served(p) /\ arrivals' = arrivals \cup {p} /\ again' = again
      BY <1>4, <2>2, <2>3, <2>6 DEF CondReturn
    <3> QED BY <1>t, <2>1, <2>2, <2>4, <2>5, <3>1, <3>2, ServedStep
  <2>7. CASE SemP!Got(p) = {}
    <3>1. taken'[server] = taken[server]
      BY <1>s, <2>5, <2>7 DEF SemP!Plus
    <3>2. arrivals' = arrivals \ {p} /\ UNCHANGED <<services, held, again>>
      BY <1>4, <1>s, <2>3, <2>7 DEF CondReturn
    <3>3. RecordsOf(p)'
      BY <1>r, <2>2, <2>4, <3>2 DEF RecordsOf
    <3>4. UnitsAgree'
      BY <1>r, <2>5, <3>1, <3>2 DEF UnitsAgree, Units
    <3>5. RecordsAgree'
      BY <2>4, <3>2, <3>3, <3>4, OneProcess
    <3> QED BY <2>1, <3>5
  <2> QED BY <2>3, <2>6, <2>7
<1>5. ASSUME Release PROVE SemP!Next /\ (SemP!IInv' => RecordsAgree')
  <2>1. SemP!Signal(server) /\ SemP!Next
    BY <1>5, <1>s, SameSignal DEF Release, SemP!Next
  <2>2. cur \in Procs /\ cur \in services /\ ~SemP!InWait(cur)
    BY <1>5, <1>u DEF Release
  <2>3. call' = call /\ taken' = taken /\ given'[server] = given[server] + 1
    BY <1>t, <1>s, <2>1 DEF SemP!Signal, SemP!TypeOK
  <2>4. PICK p \in Procs : p = cur
    BY <2>2
  <2>5. /\ arrivals' = arrivals \ {p} /\ services' = services \ {p} /\ again' = again
        /\ held' = [held EXCEPT ![p] = @ - 1]
    BY <1>5, <2>4 DEF Release
  <2>6. SemP!InWait(p)' <=> SemP!InWait(p)
    BY <2>3 DEF SemP!InWait
  <2>7. held[p] \in Nat /\ held[p] > 0 /\ (p \notin again => held[p] = 1)
    BY <1>r, <2>2, <2>4 DEF RecordsOf, UnitsAgree
  <2>8. held'[p] = held[p] - 1 /\ \A q \in Procs \ {p} : held'[q] = held[q]
    BY <1>r, <2>5 DEF UnitsAgree
  <2>9. RecordsOf(p)'
    BY <2>2, <2>4, <2>5, <2>6, <2>7, <2>8 DEF RecordsOf
  <2>10. UnitsAgree'
    <3>1. given[server] \in Nat
      BY <1>s, <1>t DEF SemP!TypeOK
    <3>2. /\ Cardinality(Units) \in Nat /\ held' \in [Procs -> Nat] /\ IsFiniteSet(Units')
          /\ Cardinality(Units') = Cardinality(Units) - 1
      BY <1>r, <2>5, <2>7, UnitsCount DEF UnitsAgree
    <3>3. taken[server] = given[server] + Cardinality(Units)
      BY <1>r DEF UnitsAgree
    <3> QED BY <2>3, <3>1, <3>2, <3>3 DEF UnitsAgree
  <2>11. RecordsAgree'
    BY <2>3, <2>5, <2>8, <2>9, <2>10, OneProcess
  <2> QED BY <2>1, <2>11
<1>6. ASSUME Other PROVE SemP!Next /\ (SemP!IInv' => RecordsAgree')
  <2>1. UNCHANGED <<arrivals, services, held, again>>
    BY <1>6 DEF Other, records
  <2>2. ASSUME Sem!Sleep PROVE SemP!Next /\ RecordsAgree'
    <3>1. SemP!Sleep /\ SemP!Next
      BY <2>2, SameOthers DEF SemP!Next
    <3>2. cur \in Procs /\ ~SemP!InWait(cur)
      BY <2>2, <1>u DEF Sem!Sleep
    <3>3. /\ call' = [call EXCEPT ![cur] = [op |-> "sleep"]]
          /\ UNCHANGED <<taken, given>>
      BY <3>1 DEF SemP!Sleep, SemP!Sleeping, SemP!history
    <3>4. \A p \in Procs : call'[p] = call[p] \/ (~SemP!InWait(p) /\ ~SemP!InWait(p)')
      BY <1>t, <3>2, <3>3 DEF SemP!TypeOK, SemP!InWait
    <3> QED BY NoRecords, <2>1, <3>1, <3>3, <3>4
  <2>3. ASSUME Sem!LoopStep PROVE SemP!Next /\ RecordsAgree'
    <3>1. SemP!LoopStep /\ SemP!Next
      BY <2>3, SameOthers DEF SemP!Next
    <3>2. UNCHANGED <<call, taken, given>>
      BY <3>1 DEF SemP!LoopStep, SemP!history
    <3> QED BY NoRecords, <2>1, <3>1, <3>2
  <2>4. ASSUME NEW p \in Procs, Sem!SleepReturn(p) PROVE SemP!Next /\ RecordsAgree'
    <3>1. SemP!SleepReturn(p) /\ SemP!Next
      BY <2>4, SameOthers DEF SemP!Next
    <3>2. UNCHANGED <<taken, given>> /\ call' = [call EXCEPT ![p] = [op |-> "none"]] /\ call[p].op = "sleep"
      BY <3>1 DEF SemP!SleepReturn, SemP!Idle, SemP!history
    <3>3. \A q \in Procs : call'[q] = call[q] \/ (~SemP!InWait(q) /\ ~SemP!InWait(q)')
      BY <1>t, <3>2 DEF SemP!TypeOK, SemP!InWait
    <3> QED BY NoRecords, <2>1, <3>1, <3>2, <3>3
  <2>5. ASSUME NEW p \in Procs, Sem!Fire(p) \/ Sem!Kill(p) \/ Sem!Terminate(p)
        PROVE  SemP!Next /\ RecordsAgree'
    <3>1. (SemP!Fire(p) \/ SemP!Kill(p) \/ SemP!Terminate(p)) /\ SemP!Next
      BY <2>5, SameOthers DEF SemP!Next
    <3>2. UNCHANGED <<call, taken, given>>
      BY <3>1 DEF SemP!Fire, SemP!Kill, SemP!Terminate, SemP!history
    <3> QED BY NoRecords, <2>1, <3>1, <3>2
  <2>6. ASSUME NEW p \in Procs, NEW v \in Prios, Sem!SetPriority(p, v) PROVE SemP!Next /\ RecordsAgree'
    <3>1. SemP!SetPriority(p, v) /\ SemP!Next
      BY <2>6, SameOthers DEF SemP!Next
    <3>2. UNCHANGED <<call, taken, given>>
      BY <3>1 DEF SemP!SetPriority, SemP!history
    <3> QED BY NoRecords, <2>1, <3>1, <3>2
  <2> QED BY <1>6, <2>2, <2>3, <2>4, <2>5, <2>6 DEF Other
<1>7. ASSUME UNCHANGED vars PROVE UNCHANGED SemP!vars /\ RecordsAgree'
  <2>1. UNCHANGED <<st, readyq, cur, timer, call, val, semq, prio, acting, given, taken>>
    BY <1>7 DEF vars, semVars
  <2>2. UNCHANGED <<arrivals, services, held, again>>
    BY <1>7 DEF vars, records
  <2> QED BY NoRecords, <2>1, <2>2 DEF SemP!vars, SemP!schedVars, SemP!semVars, SemP!history
<1> QED BY <1>1, <1>2, <1>3, <1>4, <1>5, <1>6, <1>7 DEF Next

-----------------------------------------------------------------------------

\* The records are empty at first.
LEMMA InitIInv == Init => SemP!Init /\ RecordsAgree
<1> SUFFICES ASSUME Init PROVE SemP!Init /\ RecordsAgree
  OBVIOUS
<1>1. SemP!Init
  BY DEF Init, Sem!Init, SemP!Init, Sem!Idle, SemP!Idle
<1>2. \A p \in Procs : ~SemP!InWait(p)
  BY DEF Init, Sem!Init, Sem!Idle, SemP!InWait
<1>3. taken[server] = 0 /\ given[server] = 0
  BY DEF Init, Sem!Init, Sems
<1>4. Units = {}
  BY DEF Init, Units
<1>5. UnitsAgree
  BY <1>3, <1>4, FS_EmptySet DEF Init, UnitsAgree
<1> QED BY <1>1, <1>2, <1>5 DEF Init, RecordsAgree, RecordsOf

\* A resource only does what a semaphore does.
LEMMA ImplementsSemaphore == Spec => []IInv /\ SemP!Spec
<1>1. SemP!Init => SemP!IInv
  BY SemHolds, SemP!InitIInv
<1>2. IInv /\ [Next]_vars => IInv' /\ [SemP!Next]_SemP!vars
  BY NextRecords, SemNext DEF IInv
<1>3. Init => SemP!Init /\ IInv
  BY <1>1, InitIInv DEF IInv
<1> QED BY <1>2, <1>3, PTL DEF Spec, SemP!Spec

-----------------------------------------------------------------------------

\* The answers of num_in_service() and num_in_queue() are those of the
\* semaphore: every server is free, on its way, or with a process in service.
THEOREM CountsAreExact == Spec => []CountsExact
<1>1. IInv => CountsExact
  <2> SUFFICES ASSUME IInv PROVE CountsExact
    OBVIOUS
  <2>s. Sems = {server} /\ server \in Sems
    BY DEF Sems
  <2>1. ServersAccounted
    <3>1. /\ SemP!SignalsConserved /\ UnitsAgree
          /\ \A p \in Procs : RecordsOf(p)
          /\ given[server] \in Nat /\ taken[server] \in Nat /\ val[server] \in Int
      BY <2>s DEF IInv, RecordsAgree, SemP!IInv, SemP!WaitInv, SemP!TypeOK
    <3>2. Capacity + given[server] = taken[server] + SemP!InFlight(server)
                                       + (IF val[server] > 0 THEN val[server] ELSE 0)
      BY <2>s, <3>1 DEF SemP!SignalsConserved
    <3>3. {p \in Procs : server \in acting[p]} = Granted
      BY <2>s, CallFacts DEF Granted
    <3>4. {p \in Procs : call[p].op \in {"direct", "cond"} /\ server \in call[p].got} = {}
      BY <3>1 DEF RecordsOf, SemP!InWait
    <3>5. SemP!Cardinality(Granted) = Cardinality(Granted) /\ SemP!Cardinality({}) = 0
      BY FS_EmptySet DEF SemP!Cardinality, Cardinality
    <3>6. SemP!InFlight(server) = Cardinality(Granted) + 0
      BY <3>3, <3>4, <3>5 DEF SemP!InFlight
    <3>7. Cardinality(Units) \in Nat /\ Cardinality(Granted) \in Nat /\ Capacity \in Nat
      <4>1. IsFiniteSet(Procs)
        BY ResAssumption DEF Sem!S!ProcsOK, Sem!S!IsFiniteSet, IsFiniteSet
      <4>2. IsFiniteSet(Granted)
        BY <4>1, FS_Subset DEF Granted
      <4> QED BY <3>1, <4>2, FS_CardinalityType, ResAssumption DEF UnitsAgree, ValidResource
    <3>8. taken[server] = given[server] + Cardinality(Units)
      BY <3>1 DEF UnitsAgree
    <3> DEFINE c == Cardinality(Units)
               g == Cardinality(Granted)
    <3> HIDE DEF c, g
    <3>9. (IF val[server] > 0 THEN val[server] ELSE 0) + c + g = Capacity
      <4>1. CASE val[server] > 0
        BY <3>1, <3>2, <3>6, <3>7, <3>8, <4>1 DEF c, g
      <4>2. CASE ~(val[server] > 0)
        BY <3>1, <3>2, <3>6, <3>7, <3>8, <4>2 DEF c, g
      <4> QED BY <4>1, <4>2
    <3> QED BY <3>9 DEF ServersAccounted, c, g
  <2>2. QueueAccounted
    <3>1. \A p \in Procs \ again : p \in services => p \in arrivals
      BY DEF IInv, RecordsAgree, RecordsOf
    <3>2. ASSUME NEW p \in Procs \ again, Sem!S!Live(p)
          PROVE  p \in arrivals \ services <=> p \in Queued \cup Granted
      <4>1. p \in arrivals \ services <=> SemP!InWait(p)
        BY DEF IInv, RecordsAgree, RecordsOf
      <4>2. p \in SemP!ToSet(semq[server]) <=> SemP!StillWaits(p, server)
        BY <2>s DEF IInv, SemP!IInv, SemP!WaitInv, SemP!QueuesAgree
      <4>3. p \in Queued <=> SemP!StillWaits(p, server)
        BY <3>2, <4>2, SameBasics DEF Queued, SemP!ToSet, ToSet, SemP!TypeOK
      <4>4. SemP!InWait(p) => call[p].sems = Sems /\ call[p].got = {}
        BY DEF IInv, RecordsAgree, RecordsOf
      <4>5. p \in Granted <=> acting[p] # {}
        BY DEF Granted
      <4> QED BY <2>s, <4>1, <4>3, <4>4, <4>5, CallFacts DEF SemP!StillWaits
    <3> QED BY <3>1, <3>2 DEF QueueAccounted
  <2>3. ServicesAccounted
    BY DEF IInv, RecordsAgree, RecordsOf, ServicesAccounted
  <2> QED BY <2>1, <2>2, <2>3 DEF CountsExact
<1> QED BY <1>1, ImplementsSemaphore, PTL
=============================================================================
