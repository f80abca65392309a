---------------------------- MODULE SimulatorProofs ----------------------------
(***************************************************************************)
(* Theorems about Simulator.  The first part: the clock and the event list *)
(* agree, for every set of processes, traps and events, every repeat       *)
(* interval, every list of trappables and every bound on the time; and     *)
(* every step is one of the process scheduler.  For the latter each step   *)
(* is reduced to what it does to the processes, the traps and the event    *)
(* list, which the second part uses.  The second part: the events of every *)
(* process and the traps agree with the blocking call it is in, whatever   *)
(* wakes it up, kills it, or happens first.                                *)
(***************************************************************************)
EXTENDS Simulator, FiniteSetTheorems, SequenceTheorems, TLAPS

\* What is proved about the process scheduler.
SP == INSTANCE SchedProofs

\* The inductive invariant: causality, and a run that is in progress has a
\* limit that is not in the past, so that the end of the run, which moves the
\* clock to its limit, does not move it back, and that lies in the future of
\* all it executes.
IInv == /\ now \in Times
        /\ run.upper \in Times \cup {Inf}
        /\ last \in Int /\ last <= now
        /\ \A e \in DOMAIN evlist : evlist[e] \in Int /\ now <= evlist[e]
        /\ intv \in [Evts -> Nat]
        /\ cur # "main" => now <= run.upper
        /\ cur \notin {"main", "pick"} => now < run.upper

\* The values of the times, and what is assumed of the constants.
LEMMA TimeFacts ==
  /\ MaxTime \in Nat /\ Inf \in Nat /\ Inf = MaxTime + 1
  /\ \A t : t \in Times <=> t \in Int /\ 0 <= t /\ t <= MaxTime
  /\ "main" \notin Procs /\ "pick" \notin Procs
BY SimAssumption DEF Inf, Times, S!ProcsOK, S!NoProc

\* Steps that leave the clock and the event list alone.
LEMMA Untimed ==
  ASSUME IInv, UNCHANGED <<timeVars, elVars>>,
         cur = "main" => cur' = "main", cur' \in {"main", "pick"} \/ cur \notin {"main", "pick"}
  PROVE  IInv'
BY DEF IInv, timeVars, elVars

\* Steps that put an event on the list, at a time that is not in the past.
LEMMA Inserted ==
  ASSUME IInv, NEW e, NEW t \in Int, now <= t, evlist' = EL!With(e, t),
         UNCHANGED <<now, run, last>>, intv' \in [Evts -> Nat],
         cur = "main" => cur' = "main", cur' \in {"main", "pick"} \/ cur \notin {"main", "pick"}
  PROVE  IInv'
BY DEF IInv, EL!With, EL!Pending

\* Steps that take an event off the list.
LEMMA Removed ==
  ASSUME IInv, NEW e, evlist' = EL!Without({e}),
         UNCHANGED <<now, run, last>>, intv' \in [Evts -> Nat],
         cur = "main" => cur' = "main", cur' \in {"main", "pick"} \/ cur \notin {"main", "pick"}
  PROVE  IInv'
BY DEF IInv, EL!Without, EL!Pending

\* Steps of the loop that take the next event, and may put it back later.
LEMMA Delivered ==
  ASSUME IInv, NEW e, EL!IsMin(e), evlist[e] < run.upper, cur # "main",
         now' = evlist[e], last' = evlist[e], run' = run, intv' = intv,
         \/ evlist' = EL!Without({e})
         \/ \E t \in Int : evlist[e] <= t /\ evlist' = EL!With(e, t)
  PROVE  IInv' /\ now <= now'
<1>1. /\ e \in DOMAIN evlist
      /\ \A f \in DOMAIN evlist : evlist[e] <= evlist[f] /\ evlist[f] \in Int
      /\ now <= evlist[e]
  BY DEF EL!IsMin, EL!Pending, IInv
<1>2. now' \in Times
  BY <1>1, TimeFacts DEF IInv
<1>3. \A f \in DOMAIN evlist' : evlist'[f] \in Int /\ now' <= evlist'[f]
  <2>1. CASE evlist' = EL!Without({e})
    BY <1>1, <2>1 DEF EL!Without, EL!Pending
  <2>2. ASSUME NEW t \in Int, evlist[e] <= t, evlist' = EL!With(e, t)
        PROVE  \A f \in DOMAIN evlist' : evlist'[f] \in Int /\ now' <= evlist'[f]
    BY <1>1, <2>2 DEF EL!With, EL!Pending
  <2> QED BY <2>1, <2>2
<1>4. now' <= run'.upper
  BY TimeFacts, <1>1 DEF IInv
<1> QED BY <1>1, <1>2, <1>3, <1>4 DEF IInv

\* It holds at first.
LEMMA InitIInv == Init => IInv
BY TimeFacts, SimAssumption DEF Init, IInv, EL!Init, S!Init

-----------------------------------------------------------------------------

\* What user code does keeps the invariant, and the clock.
LEMMA UserIInv == IInv /\ UserCall => IInv' /\ now' = now
<1> SUFFICES ASSUME IInv, UserCall PROVE IInv' /\ now' = now
  OBVIOUS
<1>t. \A t \in Times : t \in Int
  BY TimeFacts
<1>1. ASSUME NEW x \in Traps, Trigger(x) \/ TrapWait(x) PROVE IInv' /\ now' = now
  <2>1. UNCHANGED <<timeVars, elVars>> /\ (cur = "main" => cur' = "main")
      /\ (cur' \in {"main", "pick"} \/ cur \notin {"main", "pick"})
    BY <1>1, TimeFacts DEF Trigger, TrapWait, InProcess, S!Signal
  <2> QED BY <2>1, Untimed DEF timeVars
<1>2. ASSUME NEW e \in Evts, Cancel(e) PROVE IInv' /\ now' = now
  <2>1. /\ evlist' = EL!Without({e}) /\ UNCHANGED <<now, run, last, intv>>
        /\ cur' = cur
    BY <1>2 DEF Cancel, EL!Cancel, timeVars, schedVars
  <2> QED BY <2>1, Removed DEF IInv
<1>3. ASSUME NEW e \in Evts, NEW t \in Times,
             Resched(e, t) \/ \E r \in Intvs : Sched(e, t, r)
      PROVE  IInv' /\ now' = now
  <2>1. /\ now <= t /\ evlist' = EL!With(e, t) /\ UNCHANGED <<now, run, last>>
        /\ cur' = cur
    BY <1>3 DEF Sched, Resched, EL!Insert, EL!Update, timeVars, schedVars
  <2>2. intv' \in [Evts -> Nat]
    BY <1>3, SimAssumption DEF Sched, Resched, IInv
  <2> QED BY <2>1, <2>2, <1>t, Inserted
<1>4. ASSUME NEW p \in Procs, Kill(p) \/ Terminate(p) PROVE IInv' /\ now' = now
  <2>1. UNCHANGED <<timeVars, elVars>> /\ (cur = "main" => cur' = "main")
      /\ (cur' \in {"main", "pick"} \/ cur \notin {"main", "pick"})
    BY <1>4, TimeFacts DEF Kill, Terminate, S!Kill, S!Terminate
  <2> QED BY <2>1, Untimed DEF timeVars
<1>5. ASSUME NEW p \in Procs, NEW t \in Times, Process(p, t)
      PROVE  IInv' /\ now' = now
  <2>1. /\ now <= t /\ evlist' = EL!With(<<p, "start">>, t)
        /\ UNCHANGED <<now, run, last, intv>> /\ cur' = cur
    BY <1>5 DEF Process, EL!Insert, S!Create, timeVars
  <2> QED BY <2>1, <1>t, Inserted DEF IInv
<1>6. ASSUME NEW t \in Times, Sleep(t) PROVE IInv' /\ now' = now
  <2>1. /\ now <= t /\ evlist' = EL!With(<<cur, "sleep">>, t)
        /\ UNCHANGED <<now, run, last, intv>> /\ cur \notin {"main", "pick"}
    BY <1>6, TimeFacts DEF Sleep, InProcess, EL!Insert, timeVars
  <2> QED BY <2>1, <1>t, Inserted DEF IInv
<1>7. ASSUME NEW ts \in WaitLists, NEW every \in BOOLEAN, WaitAtOnce(ts, every)
      PROVE  IInv' /\ now' = now
  BY <1>7, Untimed DEF WaitAtOnce, timeVars, schedVars
<1>8. ASSUME NEW ts \in WaitLists, NEW every \in BOOLEAN,
             NEW limit \in Times \cup {Inf}, WaitBlocks(ts, every, limit)
      PROVE  IInv' /\ now' = now
  <2>1. /\ UNCHANGED <<now, run, intv>> /\ cur \notin {"main", "pick"}
        /\ now <= limit /\ limit \in Int
    BY <1>8, TimeFacts DEF WaitBlocks, InProcess, timeVars
  <2>2. CASE limit < Inf
    <3>1. evlist' = EL!With(<<cur, "timeout">>, limit) /\ last' = last
      BY <1>8, <2>2 DEF WaitBlocks, EL!Insert
    <3> QED BY <2>1, <3>1, Inserted DEF IInv
  <2>3. CASE ~(limit < Inf)
    <3>1. UNCHANGED <<timeVars, elVars>>
      BY <1>8, <2>3 DEF WaitBlocks, timeVars, elVars
    <3> QED BY <2>1, <3>1, Untimed
  <2> QED BY <2>2, <2>3
<1> QED BY <1>1, <1>2, <1>3, <1>4, <1>5, <1>6, <1>7, <1>8 DEF UserCall

\* So does what a process does when it is resumed in a blocking call.
LEMMA ResumeIInv ==
  ASSUME IInv, NEW p \in Procs, Resume(p) PROVE IInv' /\ now' = now
<1>1. CASE SleepReturn(p) \/ TrapWaitReturn(p) \/ WaitAgain(p)
  <2>1. UNCHANGED <<timeVars, elVars>> /\ (cur = "main" => cur' = "main")
      /\ (cur' \in {"main", "pick"} \/ cur \notin {"main", "pick"})
    BY <1>1, TimeFacts DEF SleepReturn, TrapWaitReturn, WaitAgain, schedVars
  <2> QED BY <2>1, Untimed DEF timeVars
<1>2. CASE WaitReturn(p)
  <2>1. UNCHANGED <<now, run, intv>> /\ cur' = cur
    BY <1>2 DEF WaitReturn, timeVars, schedVars
  <2>2. \/ UNCHANGED elVars
        \/ evlist' = EL!Without({<<p, "timeout">>}) /\ last' = last
    BY <1>2 DEF WaitReturn, EL!Cancel, timeVars, elVars
  <2> QED BY <2>1, <2>2, Untimed, Removed DEF timeVars, IInv
<1> QED BY <1>1, <1>2 DEF Resume

\* The event loop keeps the invariant and never moves the clock back.
LEMMA LoopIInv == IInv /\ Loop => IInv' /\ now <= now'
<1> SUFFICES ASSUME IInv, Loop PROVE IInv' /\ now <= now'
  OBVIOUS
<1>t. now \in Int
  BY TimeFacts DEF IInv
<1>1. ASSUME NEW e \in Evts, ProcessDirectEvent(e) PROVE IInv' /\ now <= now'
  <2>1. /\ EL!IsMin(e) /\ evlist[e] < run.upper /\ cur # "main"
        /\ now' = evlist[e] /\ run' = run /\ intv' = intv /\ intv[e] \in Nat
    BY <1>1 DEF ProcessDirectEvent, S!Handle, IInv
  <2>2. CASE intv[e] = 0
    BY <1>1, <2>1, <2>2, Delivered DEF ProcessDirectEvent, EL!DeleteMin
  <2>3. CASE intv[e] # 0
    <3> DEFINE t == AtMost(evlist[e] + intv[e])
    <3>1. /\ last' = evlist[e] /\ evlist' = EL!With(e, t)
          /\ evlist[e] <= t
      BY <1>1, <2>3 DEF ProcessDirectEvent, EL!DeleteMinAndRenew
    <3>2. t \in Int
      BY <2>1, TimeFacts, SimAssumption DEF AtMost, IInv, EL!IsMin, EL!Pending
    <3> HIDE DEF t
    <3> QED BY <2>1, <3>1, <3>2, Delivered
  <2> QED BY <2>2, <2>3
<1>2. ASSUME NEW e \in ProcEvents, ProcessProcessEvent(e) PROVE IInv' /\ now <= now'
  <2>1. /\ EL!IsMin(e) /\ evlist[e] < run.upper /\ cur # "main"
        /\ now' = evlist[e] /\ last' = evlist[e] /\ run' = run
        /\ intv' = intv
        /\ evlist' = EL!Without({e})
    BY <1>2 DEF ProcessProcessEvent, S!Fire, EL!DeleteMin
  <2> QED BY <2>1, Delivered
<1>3. CASE HandlerReturn \/ Dispatch \/ DrainEnd
  <2>1. UNCHANGED <<timeVars, elVars>> /\ cur \notin {"main", "pick"}
    BY <1>3 DEF HandlerReturn, Dispatch, DrainEnd,
                S!HandlerReturn, S!Dispatch, S!DrainEnd
  <2> QED BY <1>t, <2>1, Untimed DEF timeVars
<1>4. CASE RunEnd
  <2>1. /\ cur = "pick" /\ cur' = "main" /\ evlist' = evlist /\ run' = run
        /\ intv' = intv
        /\ \A e \in DOMAIN evlist : run.upper <= evlist[e]
        /\ now <= run.upper
    BY <1>4 DEF RunEnd, S!RunEnd, EL!Pending, IInv
  <2>2. CASE run.upper < Inf
    <3>1. now' = run.upper /\ last' = run.upper
      BY <1>4, <2>2 DEF RunEnd
    <3>2. run.upper \in Times
      BY <2>2, TimeFacts DEF IInv
    <3> QED BY <2>1, <3>1, <3>2, TimeFacts DEF IInv
  <2>3. CASE ~(run.upper < Inf)
    <3>1. UNCHANGED <<now, last>>
      BY <1>4, <2>3 DEF RunEnd
    <3> QED BY <1>t, <2>1, <3>1 DEF IInv
  <2> QED BY <2>2, <2>3
<1>5. ASSUME NEW p \in Procs, Resume(p) PROVE IInv' /\ now <= now'
  BY <1>t, <1>5, ResumeIInv
<1> QED BY <1>1, <1>2, <1>3, <1>4, <1>5 DEF Loop

\* So does a step of the program, whoever takes it.
LEMMA NextIInv == IInv /\ [Next]_vars => IInv' /\ now <= now'
<1> SUFFICES ASSUME IInv, [Next]_vars PROVE IInv' /\ now <= now'
  OBVIOUS
<1>t. now \in Int
  BY TimeFacts DEF IInv
<1>1. CASE Loop
  BY <1>1, LoopIInv
<1>2. CASE UserCall
  BY <1>t, <1>2, UserIInv
<1>3. ASSUME NEW u \in Times \cup {Inf}, Run(u) PROVE IInv' /\ now <= now'
  <2>1. /\ now <= u /\ run'.upper = u /\ UNCHANGED <<now, elVars>>
        /\ cur' = "pick"
    BY <1>3 DEF Run, S!RunBegin
  <2> QED BY <1>t, <2>1 DEF IInv, elVars
<1>4. CASE Step
  <2>1. run'.upper = Inf /\ UNCHANGED <<now, elVars>> /\ cur' = "pick"
    BY <1>4 DEF Step, S!RunBegin
  <2> QED BY <1>t, <2>1, TimeFacts DEF IInv, elVars
<1>5. CASE UNCHANGED vars
  BY <1>t, <1>5 DEF vars, timeVars, elVars, schedVars, IInv
<1> QED BY <1>1, <1>2, <1>3, <1>4, <1>5 DEF Next, MainCall

-----------------------------------------------------------------------------

\* No event on the list is earlier than the clock, and the clock is never
\* behind what was delivered.
THEOREM CausalityHolds == Spec => []Causality
<1>1. IInv => Causality
  BY DEF IInv, Causality, EL!Pending
<1> QED BY <1>1, InitIInv, NextIInv, PTL DEF Spec

\* The clock never goes back.
THEOREM ClockMonotone == Spec => ClockNeverBack
<1>1. IInv /\ [Next]_vars => [now <= now']_vars
  BY NextIInv
<1>2. IInv /\ [Next]_vars => IInv'
  BY NextIInv
<1> QED BY <1>1, <1>2, InitIInv, PTL DEF Spec, ClockNeverBack

-----------------------------------------------------------------------------
(* The processes are scheduled as the scheduler promises *)

\* The blocking calls a process can be in.
TrapWaits == {TrapWaiting(x) : x \in Traps}
Sleeps == {Sleeping(t) : t \in Times}
Waits == UNION {{Waiting(ts, trig, every, limit) :
                   trig \in [DOMAIN ts -> BOOLEAN], every \in BOOLEAN,
                   limit \in Times \cup {Inf}} : ts \in WaitLists}
Calls == {Idle} \cup Sleeps \cup TrapWaits \cup Waits

TypeOK == /\ DOMAIN evlist \subseteq Evts \cup ProcEvents
          /\ tstate \in [Trappables -> {"unborn", "none", "unset", "set", "sprung"}]
          /\ blocked \in [Trappables -> Seq(Procs)]
          /\ acting \in [Procs -> SUBSET Trappables]
          /\ call \in [Procs -> Calls]

\* The fields of the calls.
LEMMA CallKinds ==
  /\ Idle \in Calls /\ Idle.op = "none"
  /\ \A t \in Times : /\ Sleeping(t) \in Calls
                      /\ Sleeping(t).op = "sleep" /\ Sleeping(t).limit = t
  /\ \A x \in Traps : /\ TrapWaiting(x) \in Calls
                      /\ TrapWaiting(x).op = "trapwait" /\ TrapWaiting(x).ts = <<x>>
<1>1. \A t \in Times : Sleeping(t) \in Sleeps
  BY DEF Sleeps
<1>2. \A x \in Traps : TrapWaiting(x) \in TrapWaits
  BY DEF TrapWaits
<1> QED BY <1>1, <1>2 DEF Idle, Sleeping, TrapWaiting, Calls

\* The fields of a conditional wait.
LEMMA WaitingProps ==
  ASSUME NEW ts \in WaitLists, NEW trig \in [DOMAIN ts -> BOOLEAN], NEW every \in BOOLEAN,
         NEW limit \in Times \cup {Inf}
  PROVE  LET c == Waiting(ts, trig, every, limit)
         IN /\ c \in Calls /\ c.op = "wait" /\ c.ts = ts /\ c.trig = trig
            /\ c.every = every /\ c.limit = limit
<1>1. Waiting(ts, trig, every, limit) \in Waits
  BY DEF Waits
<1> QED BY <1>1 DEF Waiting, Calls

\* A call is of the kind its operation says.
LEMMA CallFields ==
  ASSUME NEW c \in Calls
  PROVE  /\ c.op \in {"none", "sleep", "trapwait", "wait"}
         /\ c.op = "none" <=> c = Idle
         /\ c.op = "sleep" => c.limit \in Times
         /\ c.op = "trapwait" => \E x \in Traps : c.ts = <<x>>
         /\ c.op = "wait" => /\ c.ts \in WaitLists /\ c.every \in BOOLEAN
                             /\ c.trig \in [DOMAIN c.ts -> BOOLEAN]
                             /\ c.limit \in Times \cup {Inf}
                             /\ \A m : [c EXCEPT !.trig = m] = Waiting(c.ts, m, c.every, c.limit)
<1>1. CASE c = Idle
  BY <1>1 DEF Idle
<1>2. CASE c \in Sleeps
  BY <1>2 DEF Sleeps, Sleeping, Idle
<1>3. CASE c \in TrapWaits
  BY <1>3 DEF TrapWaits, TrapWaiting, Idle
<1>4. CASE c \in Waits
  <2>1. PICK ts \in WaitLists, every \in BOOLEAN, limit \in Times \cup {Inf} :
          \E trig \in [DOMAIN ts -> BOOLEAN] : c = Waiting(ts, trig, every, limit)
    BY <1>4 DEF Waits
  <2>2. PICK trig \in [DOMAIN ts -> BOOLEAN] : c = Waiting(ts, trig, every, limit)
    BY <2>1
  <2> QED BY <2>2 DEF Waiting, Idle
<1> QED BY <1>1, <1>2, <1>3, <1>4 DEF Calls

-----------------------------------------------------------------------------
(* What the steps do to the processes, the traps and the calls *)

\* The states of the processes are those of the scheduler, and TypeOK.
Typed == TypeOK /\ st \in [Procs -> SP!States]

\* What is assumed of the processes, in the words of the scheduler's proofs.
LEMMA SameProcs == SP!ProcsOK /\ Procs \cap SP!NoProc = {}
<1>1. S!IsFiniteSet(Procs) <=> SP!IsFiniteSet(Procs)
  BY DEF S!IsFiniteSet, SP!IsFiniteSet
<1> QED BY <1>1, SimAssumption DEF S!ProcsOK, SP!ProcsOK, S!NoProc, SP!NoProc

\* The operators of the scheduler are those its proofs are about.
LEMMA SameOperators ==
  /\ \A s, I : S!AtPlaces(s, I) = SP!AtPlaces(s, I)
  /\ \A states, s : S!Woken(states, s) = SP!Woken(states, s)
  /\ \A s : SP!ToSet(s) = ToSet(s) /\ S!ToSet(s) = ToSet(s)
<1>1. \A X : S!Cardinality(X) = SP!Cardinality(X)
  BY DEF S!Cardinality, SP!Cardinality
<1>2. \A I, k : S!Nth(I, k) = SP!Nth(I, k)
  BY <1>1 DEF S!Nth, SP!Nth
<1>3. \A s, I : S!AtPlaces(s, I) = SP!AtPlaces(s, I)
  BY <1>1, <1>2 DEF S!AtPlaces, SP!AtPlaces
<1>4. S!Wakeable = SP!Wakeable
  BY DEF S!Wakeable, SP!Wakeable
<1>5. \A states, s : S!Woken(states, s) = SP!Woken(states, s)
  BY <1>3, <1>4 DEF S!Woken, SP!Woken
<1>6. \A s : SP!ToSet(s) = ToSet(s) /\ S!ToSet(s) = ToSet(s)
  BY DEF SP!ToSet, S!ToSet, ToSet
<1> QED BY <1>3, <1>5, <1>6

\* The states after the waiters of x are woken up.
LEMMA WaitersProps ==
  ASSUME TypeOK, NEW x \in Trappables, NEW states \in [Procs -> SP!States]
  PROVE  /\ Waiters(states, x) \in SP!Batches(Procs)
         /\ SP!CanWake(states, Waiters(states, x))
         /\ S!Wake(states, Waiters(states, x)) =>
              /\ st' \in [Procs -> SP!States]
              /\ \A p \in Procs :
                   st'[p] = IF p \in ToSet(blocked[x]) /\ states[p] \in {"started", "suspended"}
                            THEN "running" ELSE states[p]
<1>1. blocked[x] \in Seq(Procs)
  BY DEF TypeOK
<1>2. /\ Waiters(states, x) \in SP!Batches(Procs)
      /\ SP!CanWake(states, Waiters(states, x))
      /\ SP!ToSet(Waiters(states, x)) = {p \in SP!ToSet(blocked[x]) : states[p] \in SP!Wakeable}
  BY <1>1, SameProcs, SameOperators, SP!WokenProps DEF Waiters
<1>3. ToSet(Waiters(states, x)) = {p \in ToSet(blocked[x]) : states[p] \in {"started", "suspended"}}
  BY <1>2, SameOperators DEF SP!Wakeable
<1>4. ASSUME S!Wake(states, Waiters(states, x))
      PROVE  st' = [p \in Procs |-> IF p \in ToSet(Waiters(states, x)) THEN "running" ELSE states[p]]
  BY <1>4, SameOperators DEF S!Wake
<1> QED BY <1>2, <1>3, <1>4 DEF SP!States

\* The traps and the calls after x is sprung.
LEMMA SpringProps ==
  ASSUME TypeOK, NEW x \in Trappables, NEW after \in {"none", "sprung"}, Spring(x, after)
  PROVE  /\ blocked' \in [Trappables -> Seq(Procs)]
         /\ tstate' \in [Trappables -> {"unborn", "none", "unset", "set", "sprung"}]
         /\ acting' \in [Procs -> SUBSET Trappables]
         /\ tstate'[x] = after /\ blocked'[x] = <<>>
         /\ \A y \in Trappables \ {x} : tstate'[y] = tstate[y] /\ blocked'[y] = blocked[y]
         /\ \A p \in Procs : acting'[p] = IF p \in ToSet(blocked[x])
                                          THEN acting[p] \cup {x} ELSE acting[p]
BY DEF Spring, TypeOK

\* The blocked processes without one of them.
LEMMA DropProps ==
  ASSUME NEW p \in Procs, NEW s \in Seq(Procs)
  PROVE  /\ Drop(p, s) \in Seq(Procs)
         /\ ToSet(Drop(p, s)) = ToSet(s) \ {p}
         /\ IsInjective(s) => IsInjective(Drop(p, s))
<1> DEFINE I == {i \in DOMAIN s : s[i] # p}
<1>1. I \in SUBSET DOMAIN s
  OBVIOUS
<1>2. Drop(p, s) = SP!AtPlaces(s, I)
  BY SameOperators DEF Drop
<1>3. IsInjective(s) => (\A i, j \in I : s[i] = s[j] => i = j)
  BY DEF IsInjective
<1>4. {s[i] : i \in I} = ToSet(s) \ {p}
  BY DEF ToSet
<1> HIDE DEF I
<1>5. /\ SP!AtPlaces(s, I) \in Seq(Procs)
      /\ SP!ToSet(SP!AtPlaces(s, I)) = {s[i] : i \in I}
      /\ (\A i, j \in I : s[i] = s[j] => i = j) => SP!IsInjective(SP!AtPlaces(s, I))
  BY <1>1, SameProcs, SP!AtPlacesProps
<1>6. SP!IsInjective(Drop(p, s)) <=> IsInjective(Drop(p, s))
  BY DEF SP!IsInjective, IsInjective
<1> QED BY <1>2, <1>3, <1>4, <1>5, <1>6, SameOperators

\* A process that registers n times with a trap.
LEMMA CopiesProps ==
  ASSUME NEW p \in Procs, NEW s \in Seq(Procs), NEW n \in Nat, n >= 1
  PROVE  /\ s \o Copies(p, n) \in Seq(Procs)
         /\ ToSet(s \o Copies(p, n)) = ToSet(s) \cup {p}
         /\ n = 1 => s \o Copies(p, n) = Append(s, p)
<1>1. Copies(p, n) \in Seq(Procs) /\ ToSet(Copies(p, n)) = {p}
  BY DEF Copies, ToSet
<1>2. SP!ToSet(s \o Copies(p, n)) = SP!ToSet(s) \cup SP!ToSet(Copies(p, n))
  BY <1>1, SameProcs, SP!AppendSet
<1>3. ASSUME n = 1 PROVE s \o Copies(p, n) = Append(s, p)
  <2>1. Copies(p, n) = <<p>>
    BY <1>3 DEF Copies
  <2> QED BY <2>1
<1> QED BY <1>1, <1>2, <1>3, SameOperators

\* The number of places a trappable has in a list.
LEMMA OccurrencesProps ==
  ASSUME NEW X, NEW s \in Seq(X), NEW x \in ToSet(s)
  PROVE  /\ Occurrences(x, s) \in Nat /\ Occurrences(x, s) >= 1
         /\ IsInjective(s) => Occurrences(x, s) = 1
<1> DEFINE I == {i \in DOMAIN s : s[i] = x}
<1>1. PICK i \in DOMAIN s : s[i] = x
  BY DEF ToSet
<1>2. IsFiniteSet(I)
  <2>1. IsFiniteSet(1..Len(s)) /\ DOMAIN s = 1..Len(s)
    BY FS_Interval
  <2> QED BY <2>1, FS_Subset
<1>3. i \in I
  BY <1>1
<1>4. Occurrences(x, s) = Cardinality(I)
  BY DEF Occurrences
<1>5. ASSUME IsInjective(s) PROVE I = {i}
  BY <1>1, <1>5 DEF IsInjective
<1> HIDE DEF I
<1>6. Cardinality(I) \in Nat /\ Cardinality(I) # 0
  BY <1>2, <1>3, FS_CardinalityType, FS_EmptySet
<1>7. Cardinality({i}) = 1
  BY FS_Singleton
<1>8. Occurrences(x, s) >= 1
  BY <1>4, <1>6
<1>9. IsInjective(s) => Occurrences(x, s) = 1
  BY <1>4, <1>5, <1>7
<1> QED BY <1>4, <1>6, <1>8, <1>9

\* The events of a process on the list.
Kinds == {"start", "sleep", "timeout"}
HasEvent(p, k) == <<p, k>> \in DOMAIN evlist

\* A step does not touch the events of p.
SameEvents(p) ==
  \A k \in Kinds : /\ HasEvent(p, k)' <=> HasEvent(p, k)
                   /\ HasEvent(p, k) => evlist'[<<p, k>>] = evlist[<<p, k>>]

\* A step does not touch p, except that it may hand it the control.
Kept(p) ==
  /\ st'[p] = st[p] /\ call'[p] = call[p] /\ acting'[p] = acting[p]
  /\ SameEvents(p)
  /\ \A x \in Trappables : p \in ToSet(blocked'[x]) <=> p \in ToSet(blocked[x])
  /\ cur' = p => cur = p \/ st[p] = "running"

\* Events with a handler are no events of processes.
LEMMA DirectEvents ==
  ASSUME NEW e \in Evts, NEW t, evlist' = EL!With(e, t) \/ evlist' = EL!Without({e})
  PROVE  /\ \A p \in Procs : SameEvents(p)
         /\ DOMAIN evlist' \subseteq DOMAIN evlist \cup Evts
<1>0. /\ DOMAIN EL!With(e, t) = DOMAIN evlist \cup {e}
      /\ \A f \in DOMAIN evlist \ {e} : EL!With(e, t)[f] = evlist[f]
      /\ DOMAIN EL!Without({e}) = DOMAIN evlist \ {e}
      /\ \A f \in DOMAIN evlist \ {e} : EL!Without({e})[f] = evlist[f]
  BY DEF EL!With, EL!Without, EL!Pending
<1>1. /\ DOMAIN evlist' \ {e} = DOMAIN evlist \ {e}
      /\ \A f \in DOMAIN evlist \ {e} : evlist'[f] = evlist[f]
  BY <1>0
<1>2. \A p \in Procs, k \in Kinds : <<p, k>> # e
  BY SimAssumption DEF ProcEvents, Kinds
<1> QED BY <1>1, <1>2 DEF SameEvents, HasEvent

\* An event of a process is put on the list, or taken off.
LEMMA OwnEvents ==
  ASSUME NEW p \in Procs, NEW k \in Kinds, NEW t,
         evlist' = EL!With(<<p, k>>, t) \/ evlist' = EL!Without({<<p, k>>})
  PROVE  /\ \A q \in Procs \ {p} : SameEvents(q)
         /\ \A j \in Kinds \ {k} : /\ HasEvent(p, j)' <=> HasEvent(p, j)
                                   /\ HasEvent(p, j) => evlist'[<<p, j>>] = evlist[<<p, j>>]
         /\ evlist' = EL!With(<<p, k>>, t) => HasEvent(p, k)' /\ evlist'[<<p, k>>] = t
         /\ evlist' = EL!Without({<<p, k>>}) => ~HasEvent(p, k)'
         /\ DOMAIN evlist' \subseteq DOMAIN evlist \cup ProcEvents
<1> DEFINE e == <<p, k>>
<1>0. /\ DOMAIN EL!With(e, t) = DOMAIN evlist \cup {e} /\ EL!With(e, t)[e] = t
      /\ \A f \in DOMAIN evlist \ {e} : EL!With(e, t)[f] = evlist[f]
      /\ DOMAIN EL!Without({e}) = DOMAIN evlist \ {e}
      /\ \A f \in DOMAIN evlist \ {e} : EL!Without({e})[f] = evlist[f]
  BY DEF EL!With, EL!Without, EL!Pending
<1>1. /\ DOMAIN evlist' \ {e} = DOMAIN evlist \ {e}
      /\ \A f \in DOMAIN evlist \ {e} : evlist'[f] = evlist[f]
  BY <1>0
<1>2. /\ evlist' = EL!With(e, t) => e \in DOMAIN evlist' /\ evlist'[e] = t
      /\ evlist' = EL!Without({e}) => e \notin DOMAIN evlist'
  BY <1>0
<1>3. <<p, k>> \in ProcEvents
  BY DEF ProcEvents, Kinds
<1>4. \A q, j : <<q, j>> = <<p, k>> => q = p /\ j = k
  OBVIOUS
<1> QED BY <1>1, <1>2, <1>3, <1>4 DEF SameEvents, HasEvent

\* Steps that leave a process and its events alone.
LEMMA SameKept ==
  ASSUME UNCHANGED <<st, call, acting, blocked>>, NEW p \in Procs, SameEvents(p),
         cur' = p => cur = p \/ st[p] = "running"
  PROVE  Kept(p)
BY DEF Kept

\* The steps that spring a trap, and put the processes that are blocked on it
\* in the ready queue: states are the states before that.
Springs(x, after, states) ==
  /\ call' = call
  /\ blocked' \in [Trappables -> Seq(Procs)] /\ acting' \in [Procs -> SUBSET Trappables]
  /\ tstate' \in [Trappables -> {"unborn", "none", "unset", "set", "sprung"}]
  /\ tstate[x] # "sprung" /\ tstate'[x] = after /\ blocked'[x] = <<>>
  /\ \A y \in Trappables \ {x} : tstate'[y] = tstate[y] /\ blocked'[y] = blocked[y]
  /\ \A p \in Procs :
       /\ acting'[p] = IF p \in ToSet(blocked[x]) THEN acting[p] \cup {x} ELSE acting[p]
       /\ st'[p] = IF p \in ToSet(blocked[x]) /\ states[p] \in {"started", "suspended"}
                   THEN "running" ELSE states[p]
       /\ SameEvents(p)
  /\ DOMAIN evlist' \subseteq DOMAIN evlist \cup Evts

\* Which steps these are.
LEMMA SpringsIf ==
  ASSUME TypeOK, NEW x \in Trappables, NEW after \in {"none", "sprung"}, Spring(x, after),
         NEW states \in [Procs -> SP!States], S!Wake(states, Waiters(states, x)),
         call' = call, \A p \in Procs : SameEvents(p),
         DOMAIN evlist' \subseteq DOMAIN evlist \cup Evts
  PROVE  Springs(x, after, states)
<1>1. \A p \in Procs :
        st'[p] = IF p \in ToSet(blocked[x]) /\ states[p] \in {"started", "suspended"}
                 THEN "running" ELSE states[p]
  BY WaitersProps
<1>2. tstate[x] # "sprung"
  BY DEF Spring
<1>3. /\ blocked' \in [Trappables -> Seq(Procs)]
      /\ tstate' \in [Trappables -> {"unborn", "none", "unset", "set", "sprung"}]
      /\ acting' \in [Procs -> SUBSET Trappables]
      /\ tstate'[x] = after /\ blocked'[x] = <<>>
      /\ \A y \in Trappables \ {x} : tstate'[y] = tstate[y] /\ blocked'[y] = blocked[y]
      /\ \A p \in Procs : acting'[p] = IF p \in ToSet(blocked[x])
                                       THEN acting[p] \cup {x} ELSE acting[p]
  BY SpringProps
<1> QED BY <1>1, <1>2, <1>3 DEF Springs

\* trap.trigger() springs the trap and touches no event.
LEMMA TriggerSprings ==
  ASSUME Typed, NEW x \in Traps, Trigger(x)
  PROVE  Springs(x, "sprung", st) /\ UNCHANGED evlist /\ cur' = cur
<1>1. x \in Trappables /\ S!Wake(st, Waiters(st, x)) /\ cur' = cur
      /\ call' = call /\ evlist' = evlist /\ Spring(x, "sprung")
  BY DEF Trigger, S!Signal, Trappables, elVars
<1>2. \A p \in Procs : SameEvents(p)
  BY <1>1 DEF SameEvents, HasEvent
<1> QED BY <1>1, <1>2, SpringsIf DEF Typed

\* A process that is killed or returns springs its own trap, on which those
\* that join it wait.
LEMMA DeathSprings ==
  ASSUME Typed, NEW p \in Procs, Kill(p) \/ (Terminate(p) /\ st[p] = "running")
  PROVE  /\ Springs(p, "sprung", [st EXCEPT ![p] = "terminated"])
         /\ [st EXCEPT ![p] = "terminated"] \in [Procs -> SP!States]
         /\ UNCHANGED evlist /\ User /\ S!Live(p)
         /\ Kill(p) => cur' = cur
         /\ Terminate(p) => cur = p /\ cur' = "drain"
<1> DEFINE dead == [st EXCEPT ![p] = "terminated"]
<1>1. /\ p \in Trappables /\ S!Wake(dead, Waiters(dead, p))
      /\ call' = call /\ evlist' = evlist /\ Spring(p, "sprung") /\ User /\ S!Live(p)
      /\ Kill(p) => cur' = cur
      /\ Terminate(p) => cur = p /\ cur' = "drain"
  BY DEF Kill, Terminate, S!Kill, S!Terminate, Trappables, elVars, S!Live
<1>2. \A q \in Procs : SameEvents(q)
  BY <1>1 DEF SameEvents, HasEvent
<1>3. dead \in [Procs -> SP!States]
  BY DEF Typed, SP!States
<1> HIDE DEF dead
<1>4. Springs(p, "sprung", dead)
  BY <1>1, <1>2, <1>3, SpringsIf DEF Typed
<1> QED BY <1>1, <1>3, <1>4 DEF dead

\* An event that comes due springs, and is as good as new if it repeats.
LEMMA EventSprings ==
  ASSUME Typed, NEW e \in Evts, ProcessDirectEvent(e)
  PROVE  /\ Springs(e, IF tstate[e] = "none" \/ intv[e] > 0 THEN "none" ELSE "sprung", st)
         /\ EL!IsMin(e) /\ now' = evlist[e] /\ cur = "pick" /\ cur' = "handler"
<1> DEFINE after == IF tstate[e] = "none" \/ intv[e] > 0 THEN "none" ELSE "sprung"
<1>1. /\ e \in Trappables /\ S!Wake(st, Waiters(st, e)) /\ after \in {"none", "sprung"}
      /\ call' = call /\ Spring(e, after)
      /\ EL!IsMin(e) /\ now' = evlist[e] /\ cur = "pick" /\ cur' = "handler"
  BY DEF ProcessDirectEvent, S!Handle, Trappables
<1>2. PICK t : evlist' = EL!With(e, t) \/ evlist' = EL!Without({e})
  BY DEF ProcessDirectEvent, EL!DeleteMin, EL!DeleteMinAndRenew
<1>3. (\A q \in Procs : SameEvents(q)) /\ DOMAIN evlist' \subseteq DOMAIN evlist \cup Evts
  BY <1>2, DirectEvents
<1> HIDE DEF after
<1>4. Springs(e, after, st)
  BY <1>1, <1>3, SpringsIf DEF Typed
<1> QED BY <1>1, <1>4 DEF after

\* The other steps that change the call of a process, or wake it up: what they
\* do to it, and that they leave the others alone.
LEMMA NotProcs == {"main", "pick", "handler", "drain"} \cap Procs = {}
BY SameProcs DEF SP!NoProc

\* trap.wait() puts the caller on the trap and suspends it.
LEMMA TrapWaitDoes ==
  ASSUME Typed, NEW x \in Traps, TrapWait(x)
  PROVE  \E p \in Procs :
           /\ cur = p /\ st[p] = "running" /\ call[p] = Idle /\ tstate[x] # "sprung"
           /\ call' = [call EXCEPT ![p] = TrapWaiting(x)]
           /\ st' = [st EXCEPT ![p] = "suspended"] /\ cur' = "drain"
           /\ UNCHANGED <<acting, evlist>>
           /\ tstate' = [tstate EXCEPT ![x] = "set"]
           /\ blocked' = [blocked EXCEPT ![x] = Append(@, p)]
           /\ ToSet(blocked'[x]) = ToSet(blocked[x]) \cup {p}
           /\ TypeOK' /\ \A q \in Procs \ {p} : Kept(q)
<1>0. PICK p \in Procs : p = cur
  BY DEF TrapWait, InProcess
<1>1. /\ cur = p /\ st[p] = "running" /\ call[p] = Idle /\ tstate[x] # "sprung"
      /\ call' = [call EXCEPT ![p] = TrapWaiting(x)]
      /\ st' = [st EXCEPT ![p] = "suspended"] /\ cur' = "drain"
      /\ UNCHANGED <<acting, evlist>>
      /\ tstate' = [tstate EXCEPT ![x] = "set"]
      /\ blocked' = [blocked EXCEPT ![x] = Append(@, p)]
  BY <1>0 DEF TrapWait, InProcess, User, S!Suspend, elVars
<1>2. x \in Trappables /\ blocked[x] \in Seq(Procs)
  BY DEF Typed, TypeOK, Trappables
<1>3. Append(blocked[x], p) \in Seq(Procs) /\ ToSet(Append(blocked[x], p)) = ToSet(blocked[x]) \cup {p}
  <2>1. /\ Append(blocked[x], p) \in Seq(Procs)
        /\ SP!ToSet(Append(blocked[x], p)) = SP!ToSet(blocked[x]) \cup {p}
    BY <1>2, SameProcs, SP!AppendProps
  <2>2. \A s : SP!ToSet(s) = ToSet(s)
    BY DEF SP!ToSet, ToSet
  <2> QED BY <2>1, <2>2
<1>4. TypeOK'
  BY <1>1, <1>2, <1>3, CallKinds DEF Typed, TypeOK
<1>5. blocked'[x] = Append(blocked[x], p) /\ \A y \in Trappables \ {x} : blocked'[y] = blocked[y]
  BY <1>1, <1>2 DEF Typed, TypeOK
<1>6. \A q \in Procs \ {p} : Kept(q)
  BY <1>1, <1>2, <1>3, <1>5, NotProcs DEF Kept, SameEvents, HasEvent, Typed, TypeOK
<1> QED BY <1>1, <1>3, <1>4, <1>5, <1>6

\* sleep() gives the caller one event, and suspends it.
LEMMA SleepDoes ==
  ASSUME Typed, NEW t \in Times, Sleep(t)
  PROVE  \E p \in Procs :
           /\ cur = p /\ st[p] = "running" /\ call[p] = Idle
           /\ call' = [call EXCEPT ![p] = Sleeping(t)]
           /\ st' = [st EXCEPT ![p] = "suspended"] /\ cur' = "drain"
           /\ UNCHANGED <<acting, tstate, blocked>>
           /\ evlist' = EL!With(<<p, "sleep">>, t)
           /\ TypeOK' /\ \A q \in Procs \ {p} : Kept(q)
<1>0. PICK p \in Procs : p = cur
  BY DEF Sleep, InProcess
<1>1. /\ cur = p /\ st[p] = "running" /\ call[p] = Idle
      /\ call' = [call EXCEPT ![p] = Sleeping(t)]
      /\ st' = [st EXCEPT ![p] = "suspended"] /\ cur' = "drain"
      /\ UNCHANGED <<acting, tstate, blocked>>
      /\ evlist' = EL!With(<<p, "sleep">>, t)
  BY <1>0 DEF Sleep, InProcess, User, S!Suspend, trapVars, EL!Insert
<1>2. /\ \A q \in Procs \ {p} : SameEvents(q)
      /\ DOMAIN evlist' \subseteq DOMAIN evlist \cup ProcEvents
  BY <1>1, OwnEvents DEF Kinds
<1>3. TypeOK'
  BY <1>1, <1>2, CallKinds DEF Typed, TypeOK
<1>4. \A q \in Procs \ {p} : Kept(q)
  BY <1>1, <1>2, NotProcs DEF Kept, Typed, TypeOK
<1> QED BY <1>1, <1>3, <1>4

\* process() gives a new process the event of its start.
LEMMA CreateDoes ==
  ASSUME Typed, NEW p \in Procs, NEW t \in Times, Process(p, t)
  PROVE  /\ st[p] = "unborn" /\ cur' = cur /\ (cur # p \/ call[p] = Idle)
         /\ UNCHANGED <<call, acting, tstate, blocked>>
         /\ st' = [st EXCEPT ![p] = "started"]
         /\ evlist' = EL!With(<<p, "start">>, t)
         /\ TypeOK' /\ \A q \in Procs \ {p} : Kept(q)
<1>1. /\ st[p] = "unborn" /\ cur' = cur /\ (cur # p \/ call[p] = Idle)
      /\ UNCHANGED <<call, acting, tstate, blocked>>
      /\ st' = [st EXCEPT ![p] = "started"]
      /\ evlist' = EL!With(<<p, "start">>, t)
  BY DEF Process, S!Create, User, trapVars, EL!Insert
<1>2. /\ \A q \in Procs \ {p} : SameEvents(q)
      /\ DOMAIN evlist' \subseteq DOMAIN evlist \cup ProcEvents
  BY <1>1, OwnEvents DEF Kinds
<1>3. TypeOK'
  BY <1>1, <1>2 DEF Typed, TypeOK
<1>4. \A q \in Procs \ {p} : Kept(q)
  BY <1>1, <1>2, NotProcs DEF Kept, Typed, TypeOK
<1> QED BY <1>1, <1>3, <1>4

\* The event of a process wakes it up, if it can be woken, and is gone.
LEMMA FireDoes ==
  ASSUME Typed, NEW p \in Procs, NEW k \in Kinds, ProcessProcessEvent(<<p, k>>)
  PROVE  /\ EL!IsMin(<<p, k>>) /\ now' = evlist[<<p, k>>]
         /\ st[p] # "unborn" /\ cur = "pick" /\ cur' = "drain"
         /\ UNCHANGED <<call, acting, tstate, blocked>>
         /\ st' \in [Procs -> SP!States]
         /\ st'[p] = IF st[p] \in {"started", "suspended"} THEN "running" ELSE st[p]
         /\ evlist' = EL!Without({<<p, k>>})
         /\ TypeOK' /\ \A q \in Procs \ {p} : Kept(q)
<1>1. /\ EL!IsMin(<<p, k>>) /\ now' = evlist[<<p, k>>]
      /\ st[p] # "unborn" /\ cur = "pick" /\ cur' = "drain"
      /\ UNCHANGED <<call, acting, tstate, blocked>>
      /\ evlist' = EL!Without({<<p, k>>})
      /\ S!Wake(st, IF st[p] \in {"started", "suspended"} THEN <<p>> ELSE <<>>)
  BY DEF ProcessProcessEvent, S!Fire, S!Wakeable, EL!DeleteMin, trapVars
<1>2. /\ \A q \in Procs \ {p} : SameEvents(q)
      /\ DOMAIN evlist' \subseteq DOMAIN evlist \cup ProcEvents
  BY <1>1, OwnEvents
<1>3. ToSet(<<>>) = {} /\ ToSet(<<p>>) = {p}
  BY DEF ToSet
<1>4. st' = [q \in Procs |-> IF q = p /\ st[p] \in {"started", "suspended"} THEN "running" ELSE st[q]]
  BY <1>1, <1>3, SameOperators DEF S!Wake
<1>5. TypeOK'
  BY <1>1, <1>2 DEF Typed, TypeOK
<1>6. \A q \in Procs \ {p} : Kept(q)
  BY <1>1, <1>2, <1>4, NotProcs DEF Kept, Typed, TypeOK
<1> QED BY <1>1, <1>4, <1>5, <1>6 DEF Typed, SP!States

\* sleep() and trap.wait() go back to their caller.
LEMMA ReturnDoes ==
  ASSUME Typed, NEW p \in Procs, SleepReturn(p) \/ TrapWaitReturn(p)
  PROVE  /\ cur = p /\ call[p].op \in {"sleep", "trapwait"}
         /\ call' = [call EXCEPT ![p] = Idle]
         /\ UNCHANGED <<st, cur, tstate, blocked, evlist>>
         /\ acting' = IF call[p].op = "sleep" THEN acting
                      ELSE [acting EXCEPT ![p] = @ \ ToSet(call[p].ts)]
         /\ TypeOK' /\ \A q \in Procs \ {p} : Kept(q)
<1>1. /\ cur = p /\ call[p].op \in {"sleep", "trapwait"}
      /\ call' = [call EXCEPT ![p] = Idle]
      /\ UNCHANGED <<st, cur, tstate, blocked, evlist>>
      /\ acting' = IF call[p].op = "sleep" THEN acting
                   ELSE [acting EXCEPT ![p] = @ \ ToSet(call[p].ts)]
  BY DEF SleepReturn, TrapWaitReturn, schedVars, elVars, trapVars
<1>2. TypeOK'
  BY <1>1, CallKinds DEF Typed, TypeOK
<1>3. \A q \in Procs \ {p} : Kept(q)
  BY <1>1 DEF Kept, Typed, TypeOK, SameEvents, HasEvent
<1> QED BY <1>1, <1>2, <1>3

\* A list of trappables.
LEMMA ListTypes ==
  ASSUME NEW ts \in WaitLists
  PROVE  /\ ts \in Seq(Trappables) /\ DOMAIN ts = 1..Len(ts) /\ Len(ts) \in Nat
         /\ \A i \in DOMAIN ts : ts[i] \in Trappables /\ ts[i] \in ToSet(ts)
<1>1. ts \in Seq(Trappables)
  BY SimAssumption
<1>2. DOMAIN ts = 1..Len(ts) /\ Len(ts) \in Nat /\ \A i \in DOMAIN ts : ts[i] \in Trappables
  BY <1>1
<1> QED BY <1>1, <1>2 DEF ToSet

\* Process p blocks in a wait for what is not triggered in ts.
Blocks(p, ts, trig, every, limit) ==
  /\ cur = p /\ st[p] = "running" /\ call[p] = Idle /\ now <= limit
  /\ \A i \in DOMAIN ts : trig[i] <=> Triggered(ts[i])
  /\ ~Met(every, trig)
  /\ call' = [call EXCEPT ![p] = Waiting(ts, trig, every, limit)]
  /\ st' = [st EXCEPT ![p] = "suspended"] /\ cur' = "drain"
  /\ acting' = acting
  /\ limit < Inf => evlist' = EL!With(<<p, "timeout">>, limit)
  /\ ~(limit < Inf) => evlist' = evlist
  /\ \A x \in Trappables :
       IF \E i \in DOMAIN ts : ts[i] = x /\ ~trig[i]
       THEN /\ tstate'[x] = "set"
            /\ ToSet(blocked'[x]) = ToSet(blocked[x]) \cup {p}
            /\ IsInjective(ts) => blocked'[x] = Append(blocked[x], p)
       ELSE tstate'[x] = tstate[x] /\ blocked'[x] = blocked[x]
  /\ TypeOK' /\ \A q \in Procs \ {p} : Kept(q)

\* It does, when it waits for what has not happened yet.
LEMMA WaitBlocksDoes ==
  ASSUME Typed, NEW ts \in WaitLists, NEW every \in BOOLEAN,
         NEW limit \in Times \cup {Inf}, WaitBlocks(ts, every, limit)
  PROVE  \E p \in Procs, trig \in [DOMAIN ts -> BOOLEAN] : Blocks(p, ts, trig, every, limit)
<1>0. PICK p \in Procs : p = cur
  BY DEF WaitBlocks, InProcess
<1> DEFINE trig == [i \in DOMAIN ts |-> Triggered(ts[i])]
           open == {ts[i] : i \in {j \in DOMAIN ts : ~trig[j]}}
<1>1. /\ cur = p /\ st[p] = "running" /\ call[p] = Idle /\ now <= limit
      /\ ~Met(every, trig)
      /\ call' = [call EXCEPT ![p] = Waiting(ts, trig, every, limit)]
      /\ st' = [st EXCEPT ![p] = "suspended"] /\ cur' = "drain"
      /\ acting' = acting
      /\ limit < Inf => evlist' = EL!With(<<p, "timeout">>, limit)
      /\ ~(limit < Inf) => evlist' = evlist
      /\ tstate' = [x \in Trappables |-> IF x \in open THEN "set" ELSE tstate[x]]
      /\ blocked' = [x \in Trappables |->
                       IF x \in open THEN blocked[x] \o Copies(p, Occurrences(x, ts))
                                     ELSE blocked[x]]
  BY <1>0 DEF WaitBlocks, InProcess, User, S!Suspend, EL!Insert
<1>2. \A i \in DOMAIN ts : Triggered(ts[i]) \in BOOLEAN
  BY DEF Triggered, EL!Current
<1>3. trig \in [DOMAIN ts -> BOOLEAN] /\ \A i \in DOMAIN ts : trig[i] <=> Triggered(ts[i])
  BY <1>2
<1>4. \A x : x \in open <=> \E i \in DOMAIN ts : ts[i] = x /\ ~trig[i]
  OBVIOUS
<1> HIDE DEF trig, open
<1>5. ts \in Seq(Trappables) /\ \A i \in DOMAIN ts : ts[i] \in Trappables /\ ts[i] \in ToSet(ts)
  BY ListTypes
<1>6. ASSUME NEW x \in Trappables
      PROVE  /\ blocked'[x] \in Seq(Procs)
             /\ x \in open => /\ ToSet(blocked'[x]) = ToSet(blocked[x]) \cup {p}
                              /\ IsInjective(ts) => blocked'[x] = Append(blocked[x], p)
             /\ x \notin open => blocked'[x] = blocked[x]
  <2>1. blocked[x] \in Seq(Procs)
    BY DEF Typed, TypeOK
  <2>2. CASE x \in open
    <3>1. x \in ToSet(ts)
      BY <1>4, <1>5, <2>2
    <3>2. /\ Occurrences(x, ts) \in Nat /\ Occurrences(x, ts) >= 1
          /\ IsInjective(ts) => Occurrences(x, ts) = 1
      BY <1>5, <3>1, OccurrencesProps
    <3>3. blocked'[x] = blocked[x] \o Copies(p, Occurrences(x, ts))
      BY <1>1, <2>2
    <3>4. PICK n \in Nat : n = Occurrences(x, ts)
      BY <3>2
    <3>5. /\ blocked[x] \o Copies(p, n) \in Seq(Procs)
          /\ ToSet(blocked[x] \o Copies(p, n)) = ToSet(blocked[x]) \cup {p}
          /\ n = 1 => blocked[x] \o Copies(p, n) = Append(blocked[x], p)
      BY <2>1, <3>2, <3>4, CopiesProps
    <3> QED BY <2>2, <3>2, <3>3, <3>4, <3>5
  <2>3. CASE x \notin open
    BY <1>1, <2>1, <2>3
  <2> QED BY <2>2, <2>3
<1>7. \A x \in Trappables : /\ x \in open => tstate'[x] = "set"
                            /\ x \notin open => tstate'[x] = tstate[x]
  BY <1>1
<1>8. /\ \A q \in Procs \ {p} : SameEvents(q)
      /\ DOMAIN evlist' \subseteq DOMAIN evlist \cup ProcEvents
  <2>1. CASE limit < Inf
    BY <1>1, <2>1, OwnEvents DEF Kinds
  <2>2. CASE ~(limit < Inf)
    BY <1>1, <2>2 DEF SameEvents, HasEvent
  <2> QED BY <2>1, <2>2
<1>9. TypeOK'
  <2>1. Waiting(ts, trig, every, limit) \in Calls
    BY <1>3, WaitingProps
  <2>2. call' \in [Procs -> Calls]
    BY <1>1, <2>1 DEF Typed, TypeOK
  <2>3. blocked' \in [Trappables -> Seq(Procs)]
    BY <1>1, <1>6
  <2>4. tstate' \in [Trappables -> {"unborn", "none", "unset", "set", "sprung"}]
    BY <1>1 DEF Typed, TypeOK
  <2> QED BY <1>1, <1>8, <2>2, <2>3, <2>4 DEF Typed, TypeOK
<1>10. \A q \in Procs \ {p} : Kept(q)
  BY <1>1, <1>6, <1>8, NotProcs DEF Kept, Typed, TypeOK
<1>11. \A x \in Trappables :
         IF \E i \in DOMAIN ts : ts[i] = x /\ ~trig[i]
         THEN /\ tstate'[x] = "set"
              /\ ToSet(blocked'[x]) = ToSet(blocked[x]) \cup {p}
              /\ IsInjective(ts) => blocked'[x] = Append(blocked[x], p)
         ELSE tstate'[x] = tstate[x] /\ blocked'[x] = blocked[x]
  BY <1>4, <1>6, <1>7
<1>12. Blocks(p, ts, trig, every, limit)
  BY <1>1, <1>3, <1>9, <1>10, <1>11 DEF Blocks
<1> QED BY <1>3, <1>12

\* The mask of a wait, and what is withdrawn when it returns.
LEMMA MaskProps ==
  ASSUME Typed, NEW p \in Procs, call[p].op = "wait"
  PROVE  LET ts == call[p].ts
         IN /\ ts \in WaitLists /\ Mask(p) \in [DOMAIN ts -> BOOLEAN]
            /\ \A i \in DOMAIN ts : call[p].trig[i] => Mask(p)[i]
            /\ \A i \in DOMAIN ts : Mask(p)[i] => call[p].trig[i] \/ ts[i] \in acting[p]
            /\ IsInjective(ts) => \A i \in DOMAIN ts :
                                    Mask(p)[i] <=> call[p].trig[i] \/ ts[i] \in acting[p]
            /\ \A x : x \in Withdrawn(p) <=> \E i \in DOMAIN ts : ts[i] = x /\ ~Mask(p)[i]
<1> DEFINE ts == call[p].ts
<1>1. ts \in WaitLists /\ call[p].trig \in [DOMAIN ts -> BOOLEAN]
  BY CallFields DEF Typed, TypeOK
<1>2. \A i \in DOMAIN ts : Mask(p)[i] <=> \/ call[p].trig[i]
                                          \/ /\ ts[i] \in acting[p]
                                             /\ \A j \in 1..(i - 1) : ts[j] # ts[i]
  BY <1>1 DEF Mask
<1>3. Mask(p) \in [DOMAIN ts -> BOOLEAN]
  BY <1>1 DEF Mask
<1>4. IsInjective(ts) => \A i \in DOMAIN ts : \A j \in 1..(i - 1) : ts[j] # ts[i]
  BY <1>1, ListTypes DEF IsInjective
<1>5. \A x : x \in Withdrawn(p) <=> \E i \in DOMAIN ts : ts[i] = x /\ ~Mask(p)[i]
  BY DEF Withdrawn
<1> HIDE DEF ts
<1> QED BY <1>1, <1>2, <1>3, <1>4, <1>5 DEF ts

\* wait() that need not block registers its caller nowhere.
LEMMA WaitAtOnceDoes ==
  ASSUME Typed, NEW ts \in WaitLists, NEW every \in BOOLEAN, WaitAtOnce(ts, every)
  PROVE  /\ UNCHANGED <<st, call, acting, blocked, evlist, cur>>
         /\ \A x \in Trappables : \/ tstate'[x] = tstate[x]
                                  \/ tstate[x] = "none" /\ tstate'[x] = "unset"
         /\ TypeOK' /\ \A q \in Procs : Kept(q)
<1>1. /\ UNCHANGED <<st, call, acting, blocked, evlist, cur>>
      /\ tstate' = [x \in Trappables |->
                      IF x \in ToSet(ts) /\ ~Triggered(x) /\ tstate[x] = "none"
                      THEN "unset" ELSE tstate[x]]
  BY DEF WaitAtOnce, schedVars, elVars
<1>2. TypeOK'
  BY <1>1 DEF Typed, TypeOK
<1>3. \A q \in Procs : Kept(q)
  BY <1>1 DEF Kept, SameEvents, HasEvent
<1> QED BY <1>1, <1>2, <1>3

\* wait() that is over takes the caller off the traps that did not spring, and
\* its timer off the event list.
LEMMA WaitReturnDoes ==
  ASSUME Typed, NEW p \in Procs, WaitReturn(p)
  PROVE  /\ cur = p /\ call[p].op = "wait" /\ cur' = cur /\ st' = st
         /\ TimedOut(p) \/ Met(call[p].every, Mask(p))
         /\ call' = [call EXCEPT ![p] = Idle]
         /\ acting' = [acting EXCEPT ![p] = @ \ ToSet(call[p].ts)]
         /\ \A x \in Trappables :
              /\ x \in Withdrawn(p) =>
                   /\ ToSet(blocked'[x]) = ToSet(blocked[x]) \ {p}
                   /\ IsInjective(blocked[x]) => IsInjective(blocked'[x])
                   /\ tstate'[x] = IF blocked'[x] = <<>> THEN "unset" ELSE tstate[x]
              /\ x \notin Withdrawn(p) => blocked'[x] = blocked[x] /\ tstate'[x] = tstate[x]
         /\ \/ evlist' = EL!Without({<<p, "timeout">>})
            \/ evlist' = evlist /\ (call[p].limit < Inf => ~HasEvent(p, "timeout"))
         /\ TypeOK' /\ \A q \in Procs \ {p} : Kept(q)
<1>1. /\ cur = p /\ call[p].op = "wait" /\ cur' = cur /\ st' = st
      /\ TimedOut(p) \/ Met(call[p].every, Mask(p))
      /\ call' = [call EXCEPT ![p] = Idle]
      /\ acting' = [acting EXCEPT ![p] = @ \ ToSet(call[p].ts)]
      /\ blocked' = [x \in Trappables |-> IF x \in Withdrawn(p)
                                          THEN Drop(p, blocked[x]) ELSE blocked[x]]
      /\ tstate' = [x \in Trappables |->
                      IF x \in Withdrawn(p) /\ Drop(p, blocked[x]) = <<>>
                      THEN "unset" ELSE tstate[x]]
      /\ \/ evlist' = EL!Without({<<p, "timeout">>})
         \/ evlist' = evlist /\ (call[p].limit < Inf => ~HasEvent(p, "timeout"))
  BY DEF WaitReturn, schedVars, EL!Cancel, TimedOut, HasEvent, EL!Current, EL!Pending
<1>2. \A x \in Trappables : /\ Drop(p, blocked[x]) \in Seq(Procs)
                            /\ ToSet(Drop(p, blocked[x])) = ToSet(blocked[x]) \ {p}
                            /\ IsInjective(blocked[x]) => IsInjective(Drop(p, blocked[x]))
  BY DropProps DEF Typed, TypeOK
<1>3. \A x \in Trappables :
        /\ x \in Withdrawn(p) =>
             /\ ToSet(blocked'[x]) = ToSet(blocked[x]) \ {p}
             /\ IsInjective(blocked[x]) => IsInjective(blocked'[x])
             /\ tstate'[x] = IF blocked'[x] = <<>> THEN "unset" ELSE tstate[x]
        /\ x \notin Withdrawn(p) => blocked'[x] = blocked[x] /\ tstate'[x] = tstate[x]
  BY <1>1, <1>2
<1>4. /\ \A q \in Procs \ {p} : SameEvents(q)
      /\ DOMAIN evlist' \subseteq DOMAIN evlist \cup ProcEvents
  <2>1. CASE evlist' = evlist
    BY <2>1 DEF SameEvents, HasEvent
  <2>2. CASE evlist' = EL!Without({<<p, "timeout">>})
    BY <2>2, OwnEvents DEF Kinds
  <2> QED BY <1>1, <2>1, <2>2
<1>5. TypeOK'
  <2>1. blocked' \in [Trappables -> Seq(Procs)]
    BY <1>1, <1>2 DEF Typed, TypeOK
  <2>2. tstate' \in [Trappables -> {"unborn", "none", "unset", "set", "sprung"}]
    BY <1>1 DEF Typed, TypeOK
  <2>3. acting' \in [Procs -> SUBSET Trappables] /\ call' \in [Procs -> Calls]
    BY <1>1, CallKinds DEF Typed, TypeOK
  <2> QED BY <1>4, <2>1, <2>2, <2>3 DEF Typed, TypeOK
<1>6. \A q \in Procs \ {p} : Kept(q)
  BY <1>1, <1>3, <1>4 DEF Kept, Typed, TypeOK
<1> QED BY <1>1, <1>3, <1>5, <1>6

\* wait() for all goes on with what is missing.
LEMMA WaitAgainDoes ==
  ASSUME Typed, NEW p \in Procs, WaitAgain(p)
  PROVE  /\ cur = p /\ call[p].op = "wait" /\ st[p] = "running" /\ cur' = "drain"
         /\ ~TimedOut(p) /\ ~Met(call[p].every, Mask(p))
         /\ st' = [st EXCEPT ![p] = "suspended"]
         /\ call' = [call EXCEPT ![p] = Waiting(call[p].ts, Mask(p), call[p].every, call[p].limit)]
         /\ acting' = [acting EXCEPT ![p] = @ \ ToSet(call[p].ts)]
         /\ UNCHANGED <<evlist, tstate, blocked>>
         /\ TypeOK' /\ \A q \in Procs \ {p} : Kept(q)
<1>1. /\ cur = p /\ call[p].op = "wait" /\ st[p] = "running" /\ cur' = "drain"
      /\ ~TimedOut(p) /\ ~Met(call[p].every, Mask(p))
      /\ st' = [st EXCEPT ![p] = "suspended"]
      /\ call' = [call EXCEPT ![p].trig = Mask(p)]
      /\ acting' = [acting EXCEPT ![p] = @ \ ToSet(call[p].ts)]
      /\ UNCHANGED <<evlist, tstate, blocked>>
  BY DEF WaitAgain, S!Suspend, elVars
<1>2. /\ call[p] \in Calls
      /\ call[p].ts \in WaitLists /\ call[p].every \in BOOLEAN /\ call[p].limit \in Times \cup {Inf}
      /\ \A m : [call[p] EXCEPT !.trig = m] = Waiting(call[p].ts, m, call[p].every, call[p].limit)
  BY <1>1, CallFields DEF Typed, TypeOK
<1>3. Mask(p) \in [DOMAIN call[p].ts -> BOOLEAN]
  BY <1>1, MaskProps
<1> DEFINE c == Waiting(call[p].ts, Mask(p), call[p].every, call[p].limit)
<1>4. call' = [call EXCEPT ![p] = c]
  BY <1>1, <1>2
<1>5. c \in Calls
  BY <1>2, <1>3, WaitingProps
<1> HIDE DEF c
<1>6. TypeOK'
  BY <1>1, <1>4, <1>5 DEF Typed, TypeOK
<1>7. \A q \in Procs \ {p} : Kept(q)
  BY <1>1, <1>4, NotProcs DEF Kept, Typed, TypeOK, SameEvents, HasEvent
<1> QED BY <1>1, <1>4, <1>6, <1>7 DEF c

\* Calls that concern events with a handler.
LEMMA EventCallDoes ==
  ASSUME Typed, NEW e \in Evts,
         \/ Cancel(e)
         \/ \E t \in Times : Resched(e, t) \/ \E r \in Intvs : Sched(e, t, r)
  PROVE  /\ UNCHANGED <<st, call, acting, blocked, cur>>
         /\ \A x \in Trappables :
              \/ tstate'[x] = tstate[x]
              \/ x = e /\ tstate[x] = "unborn" /\ tstate'[x] = "none"
         /\ e \in DOMAIN evlist' => e \in DOMAIN evlist \/ tstate'[e] = "none"
         /\ DOMAIN evlist' \cap Evts \subseteq (DOMAIN evlist \cap Evts) \cup {e}
         /\ TypeOK' /\ \A q \in Procs : Kept(q)
<1>0. e \in Trappables
  BY DEF Trappables
<1>1. /\ UNCHANGED <<st, call, acting, blocked, cur>>
      /\ \/ tstate' = tstate
         \/ tstate[e] = "unborn" /\ tstate' = [tstate EXCEPT ![e] = "none"]
      /\ \/ evlist' = EL!Without({e})
         \/ \E t \in Times : evlist' = EL!With(e, t)
      /\ e \in DOMAIN evlist \/ tstate' = [tstate EXCEPT ![e] = "none"]
  BY DEF Cancel, Resched, Sched, EL!Cancel, EL!Update, EL!Insert, EL!Current, EL!Pending,
         schedVars, trapVars
<1>2. PICK t : evlist' = EL!With(e, t) \/ evlist' = EL!Without({e})
  BY <1>1
<1>3. /\ \A q \in Procs : SameEvents(q)
      /\ DOMAIN evlist' \subseteq DOMAIN evlist \cup Evts
  BY <1>2, DirectEvents
<1>4. DOMAIN evlist' \subseteq DOMAIN evlist \cup {e}
  BY <1>2 DEF EL!With, EL!Without, EL!Pending
<1>5. TypeOK'
  BY <1>0, <1>1, <1>3 DEF Typed, TypeOK
<1>6. \A q \in Procs : Kept(q)
  BY <1>1, <1>3 DEF Kept
<1> QED BY <1>0, <1>1, <1>4, <1>5, <1>6 DEF Typed, TypeOK

\* Steps of the loop and the main program that only hand on the control, and
\* of a process that ends after it killed itself.
Hands == \/ HandlerReturn \/ Dispatch \/ DrainEnd \/ RunEnd \/ MainCall
         \/ \E p \in Procs : Terminate(p) /\ st[p] # "running"

\* They leave everything the proofs follow alone.
LEMMA HandsDoes ==
  ASSUME Typed, Hands
  PROVE  /\ UNCHANGED <<st, call, acting, tstate, blocked, evlist>>
         /\ TypeOK' /\ \A q \in Procs : Kept(q)
<1>1. /\ UNCHANGED <<st, call, acting, tstate, blocked, evlist>>
      /\ \A q \in Procs : cur' = q => cur = q \/ st[q] = "running"
  <2>1. CASE HandlerReturn
    BY <2>1, NotProcs DEF HandlerReturn, S!HandlerReturn, elVars, trapVars
  <2>2. CASE Dispatch
    BY <2>2, NotProcs DEF Dispatch, S!Dispatch, elVars, trapVars
  <2>3. CASE DrainEnd
    BY <2>3, NotProcs DEF DrainEnd, S!DrainEnd, elVars, trapVars
  <2>4. CASE RunEnd
    BY <2>4, NotProcs DEF RunEnd, S!RunEnd, trapVars
  <2>5. CASE MainCall
    BY <2>5, NotProcs DEF MainCall, Run, Step, S!RunBegin, elVars, trapVars
  <2>6. ASSUME NEW p \in Procs, Terminate(p) /\ st[p] # "running"
        PROVE  /\ UNCHANGED <<st, call, acting, tstate, blocked, evlist>>
               /\ \A q \in Procs : cur' = q => cur = q \/ st[q] = "running"
    BY <2>6, NotProcs DEF Terminate, S!Terminate, elVars, trapVars
  <2> QED BY <2>1, <2>2, <2>3, <2>4, <2>5, <2>6 DEF Hands
<1>2. TypeOK'
  BY <1>1 DEF Typed, TypeOK
<1>3. \A q \in Procs : Kept(q)
  BY <1>1 DEF Kept, SameEvents, HasEvent
<1> QED BY <1>1, <1>2, <1>3

\* A step of the scheduler is one that its proofs are about.
LEMMA SameSched == S!Next => SP!Next
<1> SUFFICES ASSUME S!Next PROVE SP!Next
  OBVIOUS
<1>b. S!Batches(Procs) = SP!Batches(Procs)
  BY DEF S!Batches, SP!Batches, S!Cardinality, SP!Cardinality
<1>c. \A states, q : S!CanWake(states, q) <=> SP!CanWake(states, q)
  BY SameOperators DEF S!CanWake, SP!CanWake, S!Wakeable, SP!Wakeable
<1>w. ASSUME NEW states, NEW q, S!Wake(states, q) PROVE SP!Wake(states, q)
  BY <1>w, SameOperators DEF S!Wake, SP!Wake
<1>u. S!User => SP!User
  BY DEF S!User, SP!User
<1>1. CASE S!RunBegin \/ S!RunEnd
  BY <1>1 DEF S!RunBegin, SP!RunBegin, S!RunEnd, SP!RunEnd, SP!Next
<1>2. CASE S!LoopStep
  BY <1>2 DEF S!LoopStep, SP!LoopStep, S!HandlerReturn, SP!HandlerReturn, S!Dispatch,
              SP!Dispatch, S!DrainEnd, SP!DrainEnd, SP!Next
<1>3. ASSUME NEW p \in Procs, S!Fire(p) PROVE SP!Next
  <2>1. SP!Fire(p)
    BY <1>3, <1>w DEF S!Fire, SP!Fire, S!Wakeable, SP!Wakeable
  <2> QED BY <2>1 DEF SP!Next
<1>4. ASSUME NEW p \in Procs, S!Create(p) \/ S!Suspend(p) PROVE SP!Next
  BY <1>4, <1>u DEF S!Create, SP!Create, S!Suspend, SP!Suspend, SP!Yield, SP!Next
<1>5. ASSUME NEW p \in Procs, NEW q \in S!Batches(Procs),
             S!CanWake([st EXCEPT ![p] = "terminated"], q), S!Kill(p, q) \/ S!Terminate(p, q)
      PROVE  SP!Next
  <2>1. SP!CanWake([st EXCEPT ![p] = "terminated"], q) /\ q \in SP!Batches(Procs)
    BY <1>5, <1>b, <1>c
  <2>2. SP!Kill(p, q) \/ SP!Terminate(p, q)
    BY <1>5, <1>u, <1>w DEF S!Kill, SP!Kill, S!Terminate, SP!Terminate, S!Live, SP!Live
  <2> QED BY <2>1, <2>2 DEF SP!Next, SP!Yield
<1>6. ASSUME NEW q \in S!Batches(Procs), S!CanWake(st, q), S!Handle(q) \/ S!Signal(q)
      PROVE  SP!Next
  <2>1. SP!CanWake(st, q) /\ q \in SP!Batches(Procs)
    BY <1>6, <1>b, <1>c
  <2>2. SP!Handle(q) \/ SP!Signal(q)
    BY <1>6, <1>u, <1>w DEF S!Handle, SP!Handle, S!Signal, SP!Signal
  <2> QED BY <2>1, <2>2 DEF SP!Next
<1> QED BY <1>1, <1>2, <1>3, <1>4, <1>5, <1>6 DEF S!Next, S!Yield

\* Every step of the simulator is one of the scheduler, or leaves it alone.
LEMMA SchedStep == Typed /\ [Next]_vars => [S!Next]_S!vars
<1> SUFFICES ASSUME Typed, [Next]_vars PROVE S!Next \/ UNCHANGED S!vars
  OBVIOUS
<1>b. S!Batches(Procs) = SP!Batches(Procs)
  BY DEF S!Batches, SP!Batches, S!Cardinality, SP!Cardinality
<1>c. \A states, q : S!CanWake(states, q) <=> SP!CanWake(states, q)
  BY SameOperators DEF S!CanWake, SP!CanWake, S!Wakeable, SP!Wakeable
<1>w. ASSUME NEW x \in Trappables, NEW states \in [Procs -> SP!States]
      PROVE  /\ Waiters(states, x) \in S!Batches(Procs)
             /\ S!CanWake(states, Waiters(states, x))
  BY <1>b, <1>c, WaitersProps DEF Typed
<1>1. ASSUME NEW p \in Procs, S!Suspend(p) PROVE S!Next
  BY <1>1 DEF S!Next, S!Yield
<1>2. ASSUME NEW x \in Traps, Trigger(x) PROVE S!Next
  <2>1. S!Signal(Waiters(st, x)) /\ x \in Trappables
    BY <1>2 DEF Trigger, Trappables
  <2> QED BY <2>1, <1>w DEF S!Next, Typed
<1>3. ASSUME NEW e \in Evts, ProcessDirectEvent(e) PROVE S!Next
  <2>1. S!Handle(Waiters(st, e)) /\ e \in Trappables
    BY <1>3 DEF ProcessDirectEvent, Trappables
  <2> QED BY <2>1, <1>w DEF S!Next, Typed
<1>4. ASSUME NEW p \in Procs, Kill(p) \/ Terminate(p) PROVE S!Next
  <2> DEFINE dead == [st EXCEPT ![p] = "terminated"]
  <2>1. S!Kill(p, Waiters(dead, p)) \/ S!Terminate(p, Waiters(dead, p))
    BY <1>4 DEF Kill, Terminate
  <2>2. dead \in [Procs -> SP!States] /\ p \in Trappables
    BY DEF Typed, SP!States, Trappables
  <2>3. Waiters(dead, p) \in S!Batches(Procs) /\ S!CanWake(dead, Waiters(dead, p))
    BY <2>2, <1>w
  <2> QED BY <2>1, <2>3 DEF S!Next, S!Yield
<1>5. ASSUME NEW p \in Procs, NEW t, Process(p, t) PROVE S!Next
  BY <1>5 DEF Process, S!Next
<1>6. ASSUME NEW x, TrapWait(x) PROVE S!Next
  BY <1>6, <1>1 DEF TrapWait, InProcess
<1>7. ASSUME NEW t, Sleep(t) PROVE S!Next
  BY <1>7, <1>1 DEF Sleep, InProcess
<1>8. ASSUME NEW ts, NEW every, NEW limit, WaitBlocks(ts, every, limit) PROVE S!Next
  BY <1>8, <1>1 DEF WaitBlocks, InProcess
<1>9. ASSUME NEW ts, NEW every, WaitAtOnce(ts, every) PROVE UNCHANGED S!vars
  BY <1>9 DEF WaitAtOnce, schedVars, S!vars
<1>10. ASSUME NEW e \in Evts,
              Cancel(e) \/ \E t \in Times : Resched(e, t) \/ \E r \in Intvs : Sched(e, t, r)
       PROVE  UNCHANGED S!vars
  BY <1>10 DEF Cancel, Resched, Sched, schedVars, S!vars
<1>11. ASSUME NEW p \in Procs, Resume(p) PROVE S!Next \/ UNCHANGED S!vars
  BY <1>11, <1>1 DEF Resume, SleepReturn, TrapWaitReturn, WaitReturn, WaitAgain, schedVars, S!vars
<1>12. ASSUME NEW e \in ProcEvents, ProcessProcessEvent(e) PROVE S!Next
  BY <1>12 DEF ProcessProcessEvent, ProcEvents, S!Next
<1>13. CASE HandlerReturn \/ Dispatch \/ DrainEnd \/ RunEnd
  <2>1. DrainEnd => S!DrainEnd("main") \/ S!DrainEnd("pick")
    BY DEF DrainEnd
  <2> QED BY <1>13, <2>1 DEF HandlerReturn, Dispatch, RunEnd, S!Next, S!LoopStep
<1>14. CASE MainCall
  BY <1>14 DEF MainCall, Run, Step, S!Next
<1>15. CASE UNCHANGED vars
  BY <1>15 DEF vars, schedVars, S!vars
<1>16. CASE UserCall
  BY <1>2, <1>4, <1>5, <1>6, <1>7, <1>8, <1>9, <1>10, <1>16 DEF UserCall
<1>17. CASE Loop
  BY <1>3, <1>11, <1>12, <1>13, <1>17 DEF Loop
<1> QED BY <1>14, <1>15, <1>16, <1>17 DEF Next

\* Every step is of one of these kinds.
LEMMA StepKinds ==
  ASSUME Next
  PROVE  \/ \E x \in Traps : Trigger(x) \/ TrapWait(x)
         \/ \E p \in Procs : Kill(p) \/ (Terminate(p) /\ st[p] = "running")
         \/ \E e \in Evts : ProcessDirectEvent(e)
         \/ \E e \in Evts :
              \/ Cancel(e)
              \/ \E t \in Times : Resched(e, t) \/ \E r \in Intvs : Sched(e, t, r)
         \/ \E p \in Procs, t \in Times : Process(p, t)
         \/ \E p \in Procs, k \in Kinds : ProcessProcessEvent(<<p, k>>)
         \/ \E t \in Times : Sleep(t)
         \/ \E p \in Procs : SleepReturn(p) \/ TrapWaitReturn(p)
         \/ \E ts \in WaitLists, every \in BOOLEAN : WaitAtOnce(ts, every)
         \/ \E ts \in WaitLists, every \in BOOLEAN, limit \in Times \cup {Inf} :
              WaitBlocks(ts, every, limit)
         \/ \E p \in Procs : WaitReturn(p) \/ WaitAgain(p)
         \/ Hands
<1>1. ASSUME NEW e \in ProcEvents, ProcessProcessEvent(e)
      PROVE  \E p \in Procs, k \in Kinds : ProcessProcessEvent(<<p, k>>)
  <2>1. PICK p \in Procs, k \in Kinds : e = <<p, k>>
    BY DEF ProcEvents, Kinds
  <2> QED BY <1>1, <2>1
<1>2. CASE Loop
  BY <1>1, <1>2 DEF Loop, Resume, Hands
<1>3. CASE UserCall
  BY <1>3 DEF UserCall, Hands
<1>4. CASE MainCall
  BY <1>4 DEF Hands
<1> QED BY <1>2, <1>3, <1>4 DEF Next

\* Every step keeps the types.
LEMMA TypeStep == Typed /\ [Next]_vars => TypeOK'
<1> SUFFICES ASSUME Typed, [Next]_vars PROVE TypeOK'
  OBVIOUS
<1>s. ASSUME NEW x, NEW after, NEW states, Springs(x, after, states) PROVE TypeOK'
  BY <1>s DEF Springs, Typed, TypeOK
<1>1. ASSUME NEW x \in Traps, Trigger(x) PROVE TypeOK'
  BY <1>1, <1>s, TriggerSprings
<1>2. ASSUME NEW p \in Procs, Kill(p) \/ (Terminate(p) /\ st[p] = "running") PROVE TypeOK'
  BY <1>2, <1>s, DeathSprings
<1>3. ASSUME NEW e \in Evts, ProcessDirectEvent(e) PROVE TypeOK'
  BY <1>3, <1>s, EventSprings
<1>4. ASSUME NEW x \in Traps, TrapWait(x) PROVE TypeOK'
  BY <1>4, TrapWaitDoes
<1>5. ASSUME NEW e \in Evts,
             \/ Cancel(e)
             \/ \E t \in Times : Resched(e, t) \/ \E r \in Intvs : Sched(e, t, r)
      PROVE  TypeOK'
  BY <1>5, EventCallDoes
<1>6. ASSUME NEW p \in Procs, NEW t \in Times, Process(p, t) PROVE TypeOK'
  BY <1>6, CreateDoes
<1>7. ASSUME NEW p \in Procs, NEW k \in Kinds, ProcessProcessEvent(<<p, k>>) PROVE TypeOK'
  BY <1>7, FireDoes
<1>8. ASSUME NEW t \in Times, Sleep(t) PROVE TypeOK'
  BY <1>8, SleepDoes
<1>9. ASSUME NEW p \in Procs, SleepReturn(p) \/ TrapWaitReturn(p) PROVE TypeOK'
  BY <1>9, ReturnDoes
<1>10. ASSUME NEW ts \in WaitLists, NEW every \in BOOLEAN, WaitAtOnce(ts, every) PROVE TypeOK'
  BY <1>10, WaitAtOnceDoes
<1>11. ASSUME NEW ts \in WaitLists, NEW every \in BOOLEAN, NEW limit \in Times \cup {Inf},
              WaitBlocks(ts, every, limit)
       PROVE  TypeOK'
  <2>1. PICK p \in Procs, trig \in [DOMAIN ts -> BOOLEAN] : Blocks(p, ts, trig, every, limit)
    BY <1>11, WaitBlocksDoes
  <2> QED BY <2>1 DEF Blocks
<1>12. ASSUME NEW p \in Procs, WaitReturn(p) \/ WaitAgain(p) PROVE TypeOK'
  BY <1>12, WaitReturnDoes, WaitAgainDoes
<1>13. CASE Hands
  BY <1>13, HandsDoes
<1>14. CASE UNCHANGED vars
  BY <1>14 DEF vars, elVars, trapVars, Typed, TypeOK
<1>15. CASE Next
  BY <1>1, <1>2, <1>3, <1>4, <1>5, <1>6, <1>7, <1>8, <1>9, <1>10, <1>11, <1>12, <1>13, <1>15,
     StepKinds
<1> QED BY <1>14, <1>15

\* The types, and what the scheduler keeps.
SchedInv == TypeOK /\ SP!IInv

\* The invariant holds the types that the lemmas above ask for.
LEMMA SchedTyped == SchedInv => Typed
BY DEF SchedInv, Typed, SP!IInv, SP!TypeOK

\* Initially no process exists.
LEMMA InitSchedInv == Init => SchedInv
<1> SUFFICES ASSUME Init PROVE SchedInv
  OBVIOUS
<1>1. S!Init => SP!Init
  BY DEF S!Init, SP!Init
<1>2. SP!IInv
  BY <1>1, SameProcs, SP!InitIInv DEF Init
<1>3. DOMAIN evlist \subseteq Evts \cup ProcEvents
  BY DEF Init, EL!Init
<1>4. call \in [Procs -> Calls]
  BY CallKinds DEF Init
<1>5. TypeOK
  BY <1>3, <1>4 DEF Init, TypeOK
<1> QED BY <1>2, <1>5 DEF SchedInv

\* Every step is one of the scheduler, and keeps the types.
LEMMA NextSchedInv == SchedInv /\ [Next]_vars => SchedInv'
<1> SUFFICES ASSUME SchedInv, [Next]_vars PROVE SchedInv'
  OBVIOUS
<1>1. Typed
  BY SchedTyped
<1>2. S!Next \/ UNCHANGED <<st, readyq, cur>>
  BY <1>1, SchedStep DEF S!vars
<1>3. [SP!Next]_SP!vars
  BY <1>2, SameSched DEF SP!vars
<1>4. SP!IInv'
  BY <1>3, SameProcs, SP!NextIInv DEF SchedInv
<1> QED BY <1>1, <1>4, TypeStep DEF SchedInv

\* The simulator schedules its processes as the scheduler promises.
THEOREM ImplementsSched == Spec => SchedSpec
<1>1. SchedInv /\ [Next]_vars => [S!Next]_S!vars
  BY SchedTyped, SchedStep
<1>2. Init => S!Init
  BY DEF Init
<1> QED BY <1>1, <1>2, InitSchedInv, NextSchedInv, PTL DEF Spec, SchedSpec, S!Spec

------------------------------------------------------------------------------
(* The blocking calls *)

\* What a process does and the event of its start agree; a process that has
\* the control inside of a blocking call is running.
StartAgrees(p) ==
  /\ st[p] = "unborn" => \A k \in Kinds : ~HasEvent(p, k)
  /\ S!Live(p) => (HasEvent(p, "start") <=> st[p] = "started")
  /\ st[p] \in {"unborn", "started"} => call[p] = Idle
  /\ cur = p /\ call[p] # Idle => st[p] = "running"

\* Only the end of its sleep wakes a sleeping process.
SleepAgrees(p) ==
  /\ S!Live(p) /\ HasEvent(p, "sleep") =>
       /\ call[p].op = "sleep" /\ st[p] = "suspended"
       /\ evlist[<<p, "sleep">>] = call[p].limit
  /\ st[p] = "suspended" /\ call[p].op = "sleep" => HasEvent(p, "sleep")

\* The timer of a wait is on the list while the wait is blocked.
TimerAgrees(p) ==
  /\ S!Live(p) /\ HasEvent(p, "timeout") =>
       /\ call[p].op = "wait" /\ call[p].limit < Inf
       /\ evlist[<<p, "timeout">>] = call[p].limit
  /\ st[p] = "suspended" /\ call[p].op = "wait" =>
       call[p].limit = Inf \/ HasEvent(p, "timeout")

\* A process is blocked on what it waits for only, and as long as it has not
\* been told of it.
BlockedWaits(p) ==
  \A x \in Trappables : p \in ToSet(blocked[x]) =>
    /\ WaitsFor(p, x) /\ x \notin acting[p]
    /\ call[p].op = "trapwait" => st[p] # "running"

\* What a process was told and has not looked at is what it waits for.
ActingWaits(p) == /\ \A x \in acting[p] : WaitsFor(p, x)
                  /\ S!Live(p) /\ acting[p] # {} => st[p] = "running"

ProcOK(p) == /\ StartAgrees(p) /\ SleepAgrees(p) /\ TimerAgrees(p)
             /\ BlockedWaits(p) /\ ActingWaits(p)

\* An event that is still to happen has not been triggered, and a trap is set
\* exactly while someone is blocked on it.
TrapsOK == /\ \A e \in DOMAIN evlist \cap Evts : tstate[e] \in {"none", "unset", "set"}
           /\ \A x \in Trappables : tstate[x] = "set" <=> blocked[x] # <<>>

WaitInv == IInv /\ SchedInv /\ TrapsOK /\ \A p \in Procs : ProcOK(p)

\* What a process waits for, by the kind of its call.
LEMMA WaitsForKinds ==
  ASSUME Typed, NEW p \in Procs, NEW x
  PROVE  /\ call[p] = Idle \/ call[p].op = "sleep" => ~WaitsFor(p, x)
         /\ call[p].op = "trapwait" => (WaitsFor(p, x) <=> call[p].ts = <<x>>)
         /\ call[p].op = "wait" =>
              (WaitsFor(p, x) <=> \E i \in DOMAIN call[p].ts : call[p].ts[i] = x /\ ~call[p].trig[i])
         /\ call[p] = Idle <=> call[p].op = "none"
         /\ call[p].op \in {"none", "sleep", "trapwait", "wait"}
         /\ WaitsFor(p, x) => x \in ToSet(call[p].ts)
<1>1. /\ call[p].op \in {"none", "sleep", "trapwait", "wait"}
      /\ call[p].op = "none" <=> call[p] = Idle
      /\ call[p].op = "trapwait" => \E y \in Traps : call[p].ts = <<y>>
  BY CallFields DEF Typed, TypeOK
<1>2. WaitsFor(p, x) => x \in ToSet(call[p].ts)
  BY DEF WaitsFor, ToSet
<1> QED BY <1>1, <1>2 DEF WaitsFor

\* What a step does not touch stays right.
LEMMA KeptOK ==
  ASSUME Typed, TypeOK', NEW p \in Procs, ProcOK(p), Kept(p)
  PROVE  ProcOK(p)'
<1>1. \A x : WaitsFor(p, x)' <=> WaitsFor(p, x)
  BY DEF Kept, WaitsFor
<1>2. S!Live(p)' <=> S!Live(p)
  BY DEF Kept, S!Live
<1>3. \A k \in Kinds : /\ HasEvent(p, k)' <=> HasEvent(p, k)
                       /\ HasEvent(p, k) => evlist'[<<p, k>>] = evlist[<<p, k>>]
  BY DEF Kept, SameEvents
<1>4. /\ HasEvent(p, "start")' <=> HasEvent(p, "start")
      /\ HasEvent(p, "sleep")' <=> HasEvent(p, "sleep")
      /\ HasEvent(p, "timeout")' <=> HasEvent(p, "timeout")
      /\ HasEvent(p, "sleep") => evlist'[<<p, "sleep">>] = evlist[<<p, "sleep">>]
      /\ HasEvent(p, "timeout") => evlist'[<<p, "timeout">>] = evlist[<<p, "timeout">>]
  BY <1>3 DEF Kinds
<1>5. st'[p] = st[p] /\ call'[p] = call[p] /\ acting'[p] = acting[p]
  BY DEF Kept
<1>6. StartAgrees(p)'
  BY <1>2, <1>3, <1>4, <1>5 DEF StartAgrees, ProcOK, Kept
<1>7. SleepAgrees(p)' /\ TimerAgrees(p)'
  BY <1>2, <1>4, <1>5 DEF SleepAgrees, TimerAgrees, ProcOK
<1>8. BlockedWaits(p)'
  BY <1>1, <1>5 DEF BlockedWaits, ProcOK, Kept
<1>9. ActingWaits(p)'
  BY <1>1, <1>2, <1>5 DEF ActingWaits, ProcOK
<1> QED BY <1>6, <1>7, <1>8, <1>9 DEF ProcOK

\* A trap is sprung: who waits for it goes on, and one process may die.
LEMMA SpringOK ==
  ASSUME Typed, NEW p \in Procs, ProcOK(p),
         NEW x \in Trappables, NEW after, NEW states, Springs(x, after, states),
         \/ states[p] = st[p]
         \/ S!Live(p) /\ states[p] = "terminated" /\ (cur = p => call[p] = Idle),
         cur' = p => cur = p
  PROVE  ProcOK(p)'
<1>c. call'[p] = call[p]
  BY DEF Springs
<1>1. \A y : WaitsFor(p, y)' <=> WaitsFor(p, y)
  BY <1>c DEF WaitsFor
<1>2. /\ st'[p] = IF p \in ToSet(blocked[x]) /\ states[p] \in {"started", "suspended"}
                  THEN "running" ELSE states[p]
      /\ acting'[p] = IF p \in ToSet(blocked[x]) THEN acting[p] \cup {x} ELSE acting[p]
      /\ SameEvents(p)
  BY DEF Springs
<1>b. \A y \in Trappables : p \in ToSet(blocked'[y]) => y # x /\ p \in ToSet(blocked[y])
  <2>1. ToSet(<<>>) = {}
    BY DEF ToSet
  <2> QED BY <2>1 DEF Springs
<1>w. p \in ToSet(blocked[x]) => WaitsFor(p, x) /\ call[p].op \in {"trapwait", "wait"} /\ call[p] # Idle
  BY WaitsForKinds DEF ProcOK, BlockedWaits
<1>3. /\ HasEvent(p, "start")' <=> HasEvent(p, "start")
      /\ HasEvent(p, "sleep")' <=> HasEvent(p, "sleep")
      /\ HasEvent(p, "timeout")' <=> HasEvent(p, "timeout")
      /\ HasEvent(p, "sleep") => evlist'[<<p, "sleep">>] = evlist[<<p, "sleep">>]
      /\ HasEvent(p, "timeout") => evlist'[<<p, "timeout">>] = evlist[<<p, "timeout">>]
  BY <1>2 DEF Kinds, SameEvents
<1>s. \/ st'[p] = st[p]
      \/ st'[p] = "terminated" /\ S!Live(p) /\ (cur = p => call[p] = Idle)
      \/ st'[p] = "running" /\ st[p] = "suspended" /\ p \in ToSet(blocked[x])
  BY <1>2, <1>w DEF ProcOK, StartAgrees
<1>l. S!Live(p)' => S!Live(p)
  BY <1>s DEF S!Live
<1>4. StartAgrees(p)'
  <2>1. st'[p] = "unborn" => \A k \in Kinds : ~HasEvent(p, k)'
    BY <1>s, <1>2 DEF StartAgrees, ProcOK, SameEvents, S!Live
  <2>2. S!Live(p)' => (HasEvent(p, "start")' <=> st'[p] = "started")
    BY <1>s, <1>l, <1>3 DEF StartAgrees, ProcOK, S!Live
  <2>3. st'[p] \in {"unborn", "started"} => call'[p] = Idle
    BY <1>s, <1>c DEF StartAgrees, ProcOK
  <2>4. cur' = p /\ call'[p] # Idle => st'[p] = "running"
    BY <1>s, <1>c DEF StartAgrees, ProcOK
  <2> QED BY <2>1, <2>2, <2>3, <2>4 DEF StartAgrees
<1>5. SleepAgrees(p)' /\ TimerAgrees(p)'
  BY <1>s, <1>l, <1>3, <1>c, <1>w DEF SleepAgrees, TimerAgrees, ProcOK, S!Live
<1>6. BlockedWaits(p)'
  <2> SUFFICES ASSUME NEW y \in Trappables, p \in ToSet(blocked'[y])
               PROVE  /\ WaitsFor(p, y)' /\ y \notin acting'[p]
                      /\ call'[p].op = "trapwait" => st'[p] # "running"
    BY DEF BlockedWaits
  <2>1. /\ WaitsFor(p, y) /\ y \notin acting[p] /\ y # x
        /\ call[p].op = "trapwait" => st[p] # "running"
    BY <1>b DEF ProcOK, BlockedWaits
  <2>2. ASSUME call[p].op = "trapwait" PROVE p \notin ToSet(blocked[x])
    <3>1. WaitsFor(p, x) <=> call[p].ts = <<x>>
      BY <2>2, WaitsForKinds
    <3>2. WaitsFor(p, y) <=> call[p].ts = <<y>>
      BY <2>2, WaitsForKinds
    <3> QED BY <1>w, <2>1, <3>1, <3>2
  <2> QED BY <1>1, <1>2, <1>c, <1>s, <2>1, <2>2
<1>7. ActingWaits(p)'
  <2>1. \A y \in acting'[p] : WaitsFor(p, y)'
    BY <1>1, <1>2, <1>w DEF ProcOK, ActingWaits
  <2>2. ASSUME S!Live(p)', acting'[p] # {} PROVE st'[p] = "running"
    <3>1. CASE p \in ToSet(blocked[x])
      <4>1. S!Live(p) /\ st[p] # "started"
        BY <1>l, <1>w, <2>2, <3>1 DEF ProcOK, StartAgrees
      <4>2. st[p] \in SP!States
        BY DEF Typed
      <4> QED BY <1>2, <2>2, <3>1, <4>1, <4>2 DEF S!Live, SP!States
    <3>2. CASE p \notin ToSet(blocked[x])
      BY <1>2, <1>l, <1>s, <2>2, <3>2 DEF ProcOK, ActingWaits, S!Live
    <3> QED BY <3>1, <3>2
  <2> QED BY <2>1, <2>2 DEF ActingWaits
<1> QED BY <1>4, <1>5, <1>6, <1>7 DEF ProcOK

-----------------------------------------------------------------------------
(* What a process does keeps its events, its registrations and its call right *)

\* It blocks on a trap.
LEMMA TrapWaitOK ==
  ASSUME Typed, \A p \in Procs : ProcOK(p), NEW x \in Traps, TrapWait(x)
  PROVE  \A p \in Procs : ProcOK(p)'
<1>1. PICK p \in Procs :
        /\ cur = p /\ st[p] = "running" /\ call[p] = Idle
        /\ call' = [call EXCEPT ![p] = TrapWaiting(x)]
        /\ st' = [st EXCEPT ![p] = "suspended"] /\ cur' = "drain"
        /\ UNCHANGED <<acting, evlist>>
        /\ blocked' = [blocked EXCEPT ![x] = Append(@, p)]
        /\ ToSet(blocked'[x]) = ToSet(blocked[x]) \cup {p}
        /\ TypeOK' /\ \A q \in Procs \ {p} : Kept(q)
  BY TrapWaitDoes
<1>2. \A q \in Procs \ {p} : ProcOK(q)'
  BY <1>1, KeptOK
<1>3. /\ st'[p] = "suspended" /\ call'[p] = TrapWaiting(x)
      /\ call'[p].op = "trapwait" /\ call'[p].ts = <<x>> /\ call[p].op = "none"
      /\ \A y \in Trappables : p \in ToSet(blocked'[y]) => y = x \/ p \in ToSet(blocked[y])
  BY <1>1, CallKinds DEF Typed, TypeOK
<1>4. /\ \A y : ~WaitsFor(p, y)
      /\ \A y : WaitsFor(p, y)' <=> y = x
  BY <1>1, <1>3 DEF WaitsFor
<1>5. /\ \A k \in Kinds : HasEvent(p, k)' <=> HasEvent(p, k)
      /\ acting'[p] = acting[p] /\ acting[p] = {}
      /\ S!Live(p) /\ cur' # p
  BY <1>1, <1>4, NotProcs DEF HasEvent, S!Live, ProcOK, ActingWaits
<1>6. ~HasEvent(p, "start") /\ ~HasEvent(p, "sleep") /\ ~HasEvent(p, "timeout")
  BY <1>1, <1>3, <1>5 DEF ProcOK, StartAgrees, SleepAgrees, TimerAgrees
<1>7. StartAgrees(p)' /\ SleepAgrees(p)' /\ TimerAgrees(p)'
  BY <1>3, <1>5, <1>6 DEF StartAgrees, SleepAgrees, TimerAgrees, Kinds
<1>8. BlockedWaits(p)'
  BY <1>3, <1>4, <1>5 DEF BlockedWaits, ProcOK
<1>9. ActingWaits(p)'
  BY <1>5 DEF ActingWaits
<1> QED BY <1>2, <1>7, <1>8, <1>9 DEF ProcOK

\* It sleeps.
LEMMA SleepOK ==
  ASSUME Typed, \A p \in Procs : ProcOK(p), NEW t \in Times, Sleep(t)
  PROVE  \A p \in Procs : ProcOK(p)'
<1>1. PICK p \in Procs :
        /\ cur = p /\ st[p] = "running" /\ call[p] = Idle
        /\ call' = [call EXCEPT ![p] = Sleeping(t)]
        /\ st' = [st EXCEPT ![p] = "suspended"] /\ cur' = "drain"
        /\ UNCHANGED <<acting, tstate, blocked>>
        /\ evlist' = EL!With(<<p, "sleep">>, t)
        /\ TypeOK' /\ \A q \in Procs \ {p} : Kept(q)
  BY SleepDoes
<1>2. \A q \in Procs \ {p} : ProcOK(q)'
  BY <1>1, KeptOK
<1>3. /\ st'[p] = "suspended" /\ call'[p] = Sleeping(t)
      /\ call'[p].op = "sleep" /\ call'[p].limit = t /\ call[p].op = "none"
  BY <1>1, CallKinds DEF Typed, TypeOK
<1>4. \A y : ~WaitsFor(p, y)
  BY <1>3 DEF WaitsFor
<1>5. /\ \A k \in Kinds \ {"sleep"} : HasEvent(p, k)' <=> HasEvent(p, k)
      /\ HasEvent(p, "sleep")' /\ evlist'[<<p, "sleep">>] = t
  BY <1>1, OwnEvents DEF Kinds
<1>6. /\ acting'[p] = acting[p] /\ acting[p] = {}
      /\ S!Live(p) /\ cur' # p
  BY <1>1, <1>4, NotProcs DEF S!Live, ProcOK, ActingWaits
<1>7. ~HasEvent(p, "start")' /\ ~HasEvent(p, "timeout")'
  BY <1>1, <1>3, <1>5, <1>6 DEF Kinds, ProcOK, StartAgrees, TimerAgrees
<1>8. StartAgrees(p)' /\ SleepAgrees(p)' /\ TimerAgrees(p)'
  BY <1>3, <1>5, <1>6, <1>7 DEF StartAgrees, SleepAgrees, TimerAgrees
<1>9. BlockedWaits(p)' /\ ActingWaits(p)'
  BY <1>1, <1>4, <1>6 DEF BlockedWaits, ActingWaits, ProcOK
<1> QED BY <1>2, <1>8, <1>9 DEF ProcOK

\* It is created.
LEMMA CreateOK ==
  ASSUME Typed, \A p \in Procs : ProcOK(p), NEW p \in Procs, NEW t \in Times, Process(p, t)
  PROVE  \A q \in Procs : ProcOK(q)'
<1>1. /\ st[p] = "unborn" /\ cur' = cur
      /\ UNCHANGED <<call, acting, tstate, blocked>>
      /\ st' = [st EXCEPT ![p] = "started"]
      /\ evlist' = EL!With(<<p, "start">>, t)
      /\ TypeOK' /\ \A q \in Procs \ {p} : Kept(q)
  BY CreateDoes
<1>2. \A q \in Procs \ {p} : ProcOK(q)'
  BY <1>1, KeptOK
<1>3. /\ st'[p] = "started" /\ call'[p] = Idle /\ call[p] = Idle
      /\ Idle.op = "none"
      /\ ~HasEvent(p, "start") /\ ~HasEvent(p, "sleep") /\ ~HasEvent(p, "timeout")
  BY <1>1, CallKinds DEF Typed, Kinds, ProcOK, StartAgrees
<1>4. \A y : ~WaitsFor(p, y)
  BY <1>3 DEF WaitsFor
<1>5. HasEvent(p, "start")' /\ ~HasEvent(p, "sleep")' /\ ~HasEvent(p, "timeout")'
  BY <1>1, <1>3, OwnEvents DEF Kinds
<1>6. acting[p] = {} /\ \A y \in Trappables : p \notin ToSet(blocked[y])
  BY <1>4 DEF ProcOK, ActingWaits, BlockedWaits
<1>8. StartAgrees(p)' /\ SleepAgrees(p)' /\ TimerAgrees(p)'
  BY <1>3, <1>5 DEF StartAgrees, SleepAgrees, TimerAgrees, S!Live
<1>9. BlockedWaits(p)' /\ ActingWaits(p)'
  BY <1>1, <1>6 DEF BlockedWaits, ActingWaits
<1> QED BY <1>2, <1>8, <1>9 DEF ProcOK

\* Its start comes, the end of its sleep, or the limit of its wait.
LEMMA FireOK ==
  ASSUME Typed, \A p \in Procs : ProcOK(p), NEW p \in Procs, NEW k \in Kinds,
         ProcessProcessEvent(<<p, k>>)
  PROVE  \A q \in Procs : ProcOK(q)'
<1>1. /\ st[p] # "unborn" /\ cur = "pick" /\ cur' = "drain"
      /\ UNCHANGED <<call, acting, tstate, blocked>>
      /\ st'[p] = IF st[p] \in {"started", "suspended"} THEN "running" ELSE st[p]
      /\ evlist' = EL!Without({<<p, k>>})
      /\ TypeOK' /\ \A q \in Procs \ {p} : Kept(q)
      /\ EL!IsMin(<<p, k>>)
  BY FireDoes
<1>2. \A q \in Procs \ {p} : ProcOK(q)'
  BY <1>1, KeptOK
<1>3. HasEvent(p, k) /\ ~HasEvent(p, k)'
  BY <1>1, OwnEvents DEF EL!IsMin, EL!Pending, HasEvent
<1>4. \A j \in Kinds \ {k} : /\ HasEvent(p, j)' <=> HasEvent(p, j)
                             /\ HasEvent(p, j) => evlist'[<<p, j>>] = evlist[<<p, j>>]
  BY <1>1, OwnEvents
<1>5. \A y : WaitsFor(p, y)' <=> WaitsFor(p, y)
  BY <1>1 DEF WaitsFor
<1>6. /\ S!Live(p)' <=> S!Live(p)
      /\ cur' # p
      /\ call'[p] = call[p] /\ acting'[p] = acting[p]
  BY <1>1, NotProcs DEF S!Live
<1>i. Idle.op = "none" /\ st[p] \in SP!States
  BY CallKinds DEF Typed
<1>7. /\ k = "start" /\ S!Live(p) => st[p] = "started" /\ call[p].op = "none"
      /\ k = "sleep" /\ S!Live(p) => st[p] = "suspended" /\ call[p].op = "sleep"
      /\ k = "timeout" /\ S!Live(p) => /\ call[p].op = "wait"
                                       /\ st[p] # "started"
  BY <1>3, <1>i DEF ProcOK, StartAgrees, SleepAgrees, TimerAgrees
<1>8. StartAgrees(p)'
  <2>1. S!Live(p)' => (HasEvent(p, "start")' <=> st'[p] = "started")
    <3>1. CASE k = "start"
      BY <1>1, <1>3, <3>1
    <3>2. CASE k # "start"
      BY <1>1, <1>4, <1>6, <1>7, <3>2 DEF Kinds, ProcOK, StartAgrees
    <3> QED BY <3>1, <3>2
  <2> QED BY <2>1, <1>1, <1>6 DEF StartAgrees, ProcOK
<1>9. SleepAgrees(p)'
  <2>1. CASE k = "sleep"
    BY <1>1, <1>3, <1>6, <1>7, <2>1 DEF SleepAgrees, ProcOK
  <2>2. CASE k # "sleep"
    BY <1>1, <1>4, <1>6, <1>7, <2>2 DEF Kinds, SleepAgrees, ProcOK, StartAgrees
  <2> QED BY <2>1, <2>2
<1>10. TimerAgrees(p)'
  <2>1. CASE k = "timeout"
    BY <1>1, <1>3, <1>6, <1>7, <2>1 DEF TimerAgrees, ProcOK
  <2>2. CASE k # "timeout"
    BY <1>1, <1>4, <1>6, <1>7, <2>2 DEF Kinds, TimerAgrees, ProcOK
  <2> QED BY <2>1, <2>2
<1>11. BlockedWaits(p)'
  <2> SUFFICES ASSUME NEW y \in Trappables, p \in ToSet(blocked[y])
               PROVE  call[p].op = "trapwait" => st'[p] # "running"
    BY <1>1, <1>5, <1>6 DEF BlockedWaits, ProcOK
  <2>1. call[p].op = "trapwait" => ~S!Live(p)
    BY <1>7 DEF Kinds
  <2> QED BY <1>1, <2>1 DEF S!Live
<1>12. ActingWaits(p)'
  BY <1>1, <1>5, <1>6 DEF ActingWaits, ProcOK
<1> QED BY <1>2, <1>8, <1>9, <1>10, <1>11, <1>12 DEF ProcOK

\* Its sleep ends, or the trap it waited for was triggered.
LEMMA ReturnOK ==
  ASSUME Typed, \A p \in Procs : ProcOK(p), NEW p \in Procs,
         SleepReturn(p) \/ TrapWaitReturn(p)
  PROVE  \A q \in Procs : ProcOK(q)'
<1>1. /\ cur = p /\ call[p].op \in {"sleep", "trapwait"}
      /\ call' = [call EXCEPT ![p] = Idle]
      /\ UNCHANGED <<st, cur, tstate, blocked, evlist>>
      /\ acting' = IF call[p].op = "sleep" THEN acting
                   ELSE [acting EXCEPT ![p] = @ \ ToSet(call[p].ts)]
      /\ TypeOK' /\ \A q \in Procs \ {p} : Kept(q)
  BY ReturnDoes
<1>2. \A q \in Procs \ {p} : ProcOK(q)'
  BY <1>1, KeptOK
<1>3. call[p] # Idle /\ call'[p] = Idle /\ st[p] = "running" /\ st'[p] = "running"
  BY <1>1, CallKinds DEF Typed, TypeOK, ProcOK, StartAgrees
<1>4. \A k \in Kinds : /\ HasEvent(p, k)' <=> HasEvent(p, k)
                       /\ ~HasEvent(p, k)
  BY <1>1, <1>3 DEF Kinds, HasEvent, ProcOK, StartAgrees, SleepAgrees, TimerAgrees, S!Live
<1>5. StartAgrees(p)' /\ SleepAgrees(p)' /\ TimerAgrees(p)'
  BY <1>3, <1>4, CallKinds DEF Kinds, StartAgrees, SleepAgrees, TimerAgrees
<1>6. \A y \in Trappables : p \notin ToSet(blocked[y])
  BY <1>1, <1>3 DEF ProcOK, BlockedWaits, WaitsFor
<1>7. acting'[p] = {}
  <2>1. \A y \in acting[p] : WaitsFor(p, y) /\ y \in ToSet(call[p].ts)
    BY WaitsForKinds DEF ProcOK, ActingWaits
  <2>2. CASE call[p].op = "sleep"
    BY <1>1, <2>1, <2>2 DEF WaitsFor
  <2>3. CASE call[p].op # "sleep"
    BY <1>1, <2>1, <2>3 DEF Typed, TypeOK
  <2> QED BY <2>2, <2>3
<1>8. BlockedWaits(p)' /\ ActingWaits(p)'
  BY <1>1, <1>6, <1>7 DEF BlockedWaits, ActingWaits
<1> QED BY <1>2, <1>5, <1>8 DEF ProcOK

\* It blocks in a conditional wait.
LEMMA WaitBlocksOK ==
  ASSUME Typed, \A p \in Procs : ProcOK(p), NEW ts \in WaitLists, NEW every \in BOOLEAN,
         NEW limit \in Times \cup {Inf}, WaitBlocks(ts, every, limit)
  PROVE  \A q \in Procs : ProcOK(q)'
<1>0. PICK p \in Procs, trig \in [DOMAIN ts -> BOOLEAN] : Blocks(p, ts, trig, every, limit)
  BY WaitBlocksDoes
<1>1. /\ cur = p /\ st[p] = "running" /\ call[p] = Idle
      /\ call' = [call EXCEPT ![p] = Waiting(ts, trig, every, limit)]
      /\ st' = [st EXCEPT ![p] = "suspended"] /\ cur' = "drain"
      /\ acting' = acting
      /\ limit < Inf => evlist' = EL!With(<<p, "timeout">>, limit)
      /\ ~(limit < Inf) => evlist' = evlist
      /\ \A x \in Trappables : IF \E i \in DOMAIN ts : ts[i] = x /\ ~trig[i]
                               THEN ToSet(blocked'[x]) = ToSet(blocked[x]) \cup {p}
                               ELSE blocked'[x] = blocked[x]
      /\ TypeOK' /\ \A q \in Procs \ {p} : Kept(q)
  BY <1>0 DEF Blocks
<1>2. \A q \in Procs \ {p} : ProcOK(q)'
  BY <1>1, KeptOK
<1> DEFINE c == Waiting(ts, trig, every, limit)
<1>3. /\ c.op = "wait" /\ c.ts = ts /\ c.trig = trig /\ c.limit = limit /\ c # Idle
  BY WaitingProps, CallKinds
<1> HIDE DEF c
<1>4. st'[p] = "suspended" /\ call'[p] = c /\ call[p].op = "none" /\ acting'[p] = acting[p]
  BY <1>1, CallKinds DEF Typed, TypeOK, c
<1>5. /\ \A y : ~WaitsFor(p, y)
      /\ \A y : WaitsFor(p, y)' <=> \E i \in DOMAIN ts : ts[i] = y /\ ~trig[i]
  BY <1>3, <1>4 DEF WaitsFor
<1>6. acting[p] = {} /\ \A y \in Trappables : p \notin ToSet(blocked[y])
  BY <1>5 DEF ProcOK, ActingWaits, BlockedWaits
<1>7. \A k \in Kinds : ~HasEvent(p, k)
  BY <1>1, <1>4 DEF Kinds, ProcOK, StartAgrees, SleepAgrees, TimerAgrees, S!Live
<1>8. /\ ~HasEvent(p, "start")' /\ ~HasEvent(p, "sleep")'
      /\ limit < Inf => HasEvent(p, "timeout")' /\ evlist'[<<p, "timeout">>] = limit
      /\ ~(limit < Inf) => ~HasEvent(p, "timeout")'
  <2>1. CASE limit < Inf
    BY <1>1, <1>7, <2>1, OwnEvents DEF Kinds
  <2>2. CASE ~(limit < Inf)
    BY <1>1, <1>7, <2>2 DEF Kinds, HasEvent
  <2> QED BY <2>1, <2>2
<1>9. limit < Inf \/ limit = Inf
  BY TimeFacts
<1>10. StartAgrees(p)' /\ SleepAgrees(p)' /\ TimerAgrees(p)'
  BY <1>1, <1>3, <1>4, <1>8, <1>9, NotProcs DEF StartAgrees, SleepAgrees, TimerAgrees
<1>11. BlockedWaits(p)' /\ ActingWaits(p)'
  <2>1. \A y \in Trappables : p \in ToSet(blocked'[y]) => WaitsFor(p, y)'
    BY <1>1, <1>5, <1>6
  <2> QED BY <1>3, <1>4, <1>6, <2>1 DEF BlockedWaits, ActingWaits
<1> QED BY <1>2, <1>10, <1>11 DEF ProcOK

\* Its wait returns.
LEMMA WaitReturnOK ==
  ASSUME Typed, \A p \in Procs : ProcOK(p), NEW p \in Procs, WaitReturn(p)
  PROVE  \A q \in Procs : ProcOK(q)'
<1>1. /\ cur = p /\ call[p].op = "wait" /\ cur' = cur /\ st' = st
      /\ call' = [call EXCEPT ![p] = Idle]
      /\ acting' = [acting EXCEPT ![p] = @ \ ToSet(call[p].ts)]
      /\ \A x \in Trappables :
           /\ x \in Withdrawn(p) => ToSet(blocked'[x]) = ToSet(blocked[x]) \ {p}
           /\ x \notin Withdrawn(p) => blocked'[x] = blocked[x]
      /\ \/ evlist' = EL!Without({<<p, "timeout">>})
         \/ evlist' = evlist /\ (call[p].limit < Inf => ~HasEvent(p, "timeout"))
      /\ TypeOK' /\ \A q \in Procs \ {p} : Kept(q)
  BY WaitReturnDoes
<1>2. \A q \in Procs \ {p} : ProcOK(q)'
  BY <1>1, KeptOK
<1>3. call[p] # Idle /\ call'[p] = Idle /\ st[p] = "running" /\ st'[p] = "running"
  BY <1>1, CallKinds DEF Typed, TypeOK, ProcOK, StartAgrees
<1>4. ~HasEvent(p, "start") /\ ~HasEvent(p, "sleep")
  BY <1>3 DEF ProcOK, StartAgrees, SleepAgrees, S!Live
<1>5. ~HasEvent(p, "start")' /\ ~HasEvent(p, "sleep")' /\ ~HasEvent(p, "timeout")'
  <2>1. CASE evlist' = EL!Without({<<p, "timeout">>})
    BY <1>4, <2>1, OwnEvents DEF Kinds
  <2>2. CASE evlist' = evlist /\ (call[p].limit < Inf => ~HasEvent(p, "timeout"))
    BY <1>3, <1>4, <2>2 DEF ProcOK, TimerAgrees, HasEvent, S!Live
  <2> QED BY <1>1, <2>1, <2>2
<1>6. StartAgrees(p)' /\ SleepAgrees(p)' /\ TimerAgrees(p)'
  BY <1>3, <1>5 DEF StartAgrees, SleepAgrees, TimerAgrees
<1>7. \A y \in Trappables : p \notin ToSet(blocked'[y])
  <2> SUFFICES ASSUME NEW y \in Trappables, p \in ToSet(blocked[y]) PROVE y \in Withdrawn(p)
    BY <1>1
  <2>1. WaitsFor(p, y) /\ y \notin acting[p]
    BY DEF ProcOK, BlockedWaits
  <2>2. PICK i \in DOMAIN call[p].ts : call[p].ts[i] = y /\ ~call[p].trig[i]
    BY <1>1, <2>1, WaitsForKinds
  <2> QED BY <1>1, <2>1, <2>2, MaskProps
<1>8. acting'[p] = {}
  <2>1. \A y \in acting[p] : y \in ToSet(call[p].ts)
    BY WaitsForKinds DEF ProcOK, ActingWaits
  <2> QED BY <1>1, <2>1 DEF Typed, TypeOK
<1>9. BlockedWaits(p)' /\ ActingWaits(p)'
  BY <1>7, <1>8 DEF BlockedWaits, ActingWaits
<1> QED BY <1>2, <1>6, <1>9 DEF ProcOK

\* Its wait goes on.
LEMMA WaitAgainOK ==
  ASSUME Typed, \A p \in Procs : ProcOK(p), NEW p \in Procs, WaitAgain(p)
  PROVE  \A q \in Procs : ProcOK(q)'
<1>1. /\ cur = p /\ call[p].op = "wait" /\ st[p] = "running" /\ cur' = "drain"
      /\ ~TimedOut(p)
      /\ st' = [st EXCEPT ![p] = "suspended"]
      /\ call' = [call EXCEPT ![p] = Waiting(call[p].ts, Mask(p), call[p].every, call[p].limit)]
      /\ acting' = [acting EXCEPT ![p] = @ \ ToSet(call[p].ts)]
      /\ UNCHANGED <<evlist, tstate, blocked>>
      /\ TypeOK' /\ \A q \in Procs \ {p} : Kept(q)
  BY WaitAgainDoes
<1>2. \A q \in Procs \ {p} : ProcOK(q)'
  BY <1>1, KeptOK
<1> DEFINE c == Waiting(call[p].ts, Mask(p), call[p].every, call[p].limit)
<1>f. /\ call[p].ts \in WaitLists /\ call[p].every \in BOOLEAN /\ call[p].limit \in Times \cup {Inf}
  BY <1>1, CallFields DEF Typed, TypeOK
<1>m. /\ Mask(p) \in [DOMAIN call[p].ts -> BOOLEAN]
      /\ \A i \in DOMAIN call[p].ts : Mask(p)[i] => call[p].trig[i] \/ call[p].ts[i] \in acting[p]
  BY <1>1, MaskProps
<1>3. /\ c.op = "wait" /\ c.ts = call[p].ts /\ c.trig = Mask(p) /\ c.limit = call[p].limit
  BY <1>f, <1>m, WaitingProps
<1> HIDE DEF c
<1>4. st'[p] = "suspended" /\ call'[p] = c /\ c # Idle
  BY <1>1, <1>3, CallKinds DEF Typed, TypeOK, c
<1>5. \A y : WaitsFor(p, y)' <=> \E i \in DOMAIN call[p].ts : call[p].ts[i] = y /\ ~Mask(p)[i]
  BY <1>3, <1>4 DEF WaitsFor
<1>6. \A y : WaitsFor(p, y) /\ y \notin acting[p] => WaitsFor(p, y)'
  BY <1>1, <1>5, <1>m, WaitsForKinds
<1>7. acting'[p] = {}
  <2>1. \A y \in acting[p] : y \in ToSet(call[p].ts)
    BY WaitsForKinds DEF ProcOK, ActingWaits
  <2> QED BY <1>1, <2>1 DEF Typed, TypeOK
<1>8. /\ \A k \in Kinds : HasEvent(p, k)' <=> HasEvent(p, k)
      /\ evlist' = evlist /\ S!Live(p) /\ cur' # p
      /\ ~HasEvent(p, "start") /\ ~HasEvent(p, "sleep")
      /\ HasEvent(p, "timeout") => call[p].limit < Inf /\ evlist[<<p, "timeout">>] = call[p].limit
      /\ call[p].limit = Inf \/ HasEvent(p, "timeout")
  <2>1. call[p].limit = Inf \/ HasEvent(p, "timeout")
    BY <1>1, <1>f, TimeFacts DEF TimedOut, HasEvent, EL!Current, EL!Pending
  <2> QED BY <1>1, <2>1, NotProcs
          DEF S!Live, HasEvent, ProcOK, StartAgrees, SleepAgrees, TimerAgrees
<1>9. StartAgrees(p)' /\ SleepAgrees(p)' /\ TimerAgrees(p)'
  BY <1>3, <1>4, <1>8 DEF Kinds, StartAgrees, SleepAgrees, TimerAgrees
<1>10. BlockedWaits(p)' /\ ActingWaits(p)'
  BY <1>1, <1>3, <1>4, <1>6, <1>7 DEF BlockedWaits, ActingWaits, ProcOK
<1> QED BY <1>2, <1>9, <1>10 DEF ProcOK

\* Every step keeps them right.
LEMMA ProcStep ==
  ASSUME Typed, \A p \in Procs : ProcOK(p), [Next]_vars
  PROVE  \A p \in Procs : ProcOK(p)'
<1>t. TypeOK'
  BY TypeStep
<1>k. ASSUME \A q \in Procs : Kept(q) PROVE \A p \in Procs : ProcOK(p)'
  BY <1>k, <1>t, KeptOK
<1>1. ASSUME NEW x \in Traps, Trigger(x) PROVE \A p \in Procs : ProcOK(p)'
  <2>1. x \in Trappables /\ Springs(x, "sprung", st) /\ cur' = cur
    BY <1>1, TriggerSprings DEF Trappables
  <2> QED BY <2>1, SpringOK
<1>2. ASSUME NEW p \in Procs, Kill(p) \/ (Terminate(p) /\ st[p] = "running")
      PROVE  \A q \in Procs : ProcOK(q)'
  <2> DEFINE dead == [st EXCEPT ![p] = "terminated"]
  <2>1. /\ Springs(p, "sprung", dead) /\ p \in Trappables
        /\ User /\ S!Live(p) /\ cur' \in {cur, "drain"}
    BY <1>2, DeathSprings DEF Trappables
  <2> SUFFICES ASSUME NEW q \in Procs PROVE ProcOK(q)'
    OBVIOUS
  <2>2. cur' = q => cur = q
    BY <2>1, NotProcs
  <2>3. \/ dead[q] = st[q]
        \/ S!Live(q) /\ dead[q] = "terminated" /\ (cur = q => call[q] = Idle)
    BY <2>1 DEF User, Typed
  <2> HIDE DEF dead
  <2> QED BY <2>1, <2>2, <2>3, SpringOK
<1>3. ASSUME NEW e \in Evts, ProcessDirectEvent(e) PROVE \A p \in Procs : ProcOK(p)'
  <2>1. PICK after : after = IF tstate[e] = "none" \/ intv[e] > 0 THEN "none" ELSE "sprung"
    OBVIOUS
  <2>2. e \in Trappables /\ Springs(e, after, st) /\ cur' = "handler"
    BY <1>3, <2>1, EventSprings DEF Trappables
  <2> QED BY <2>2, SpringOK, NotProcs
<1>4. ASSUME NEW x \in Traps, TrapWait(x) PROVE \A p \in Procs : ProcOK(p)'
  BY <1>4, TrapWaitOK
<1>5. ASSUME NEW e \in Evts,
             \/ Cancel(e)
             \/ \E t \in Times : Resched(e, t) \/ \E r \in Intvs : Sched(e, t, r)
      PROVE  \A p \in Procs : ProcOK(p)'
  BY <1>5, <1>k, EventCallDoes
<1>6. ASSUME NEW p \in Procs, NEW t \in Times, Process(p, t) PROVE \A q \in Procs : ProcOK(q)'
  BY <1>6, CreateOK
<1>7. ASSUME NEW p \in Procs, NEW k \in Kinds, ProcessProcessEvent(<<p, k>>)
      PROVE  \A q \in Procs : ProcOK(q)'
  BY <1>7, FireOK
<1>8. ASSUME NEW t \in Times, Sleep(t) PROVE \A p \in Procs : ProcOK(p)'
  BY <1>8, SleepOK
<1>9. ASSUME NEW p \in Procs, SleepReturn(p) \/ TrapWaitReturn(p)
      PROVE  \A q \in Procs : ProcOK(q)'
  BY <1>9, ReturnOK
<1>10. ASSUME NEW ts \in WaitLists, NEW every \in BOOLEAN, WaitAtOnce(ts, every)
       PROVE  \A p \in Procs : ProcOK(p)'
  BY <1>10, <1>k, WaitAtOnceDoes
<1>11. ASSUME NEW ts \in WaitLists, NEW every \in BOOLEAN, NEW limit \in Times \cup {Inf},
              WaitBlocks(ts, every, limit)
       PROVE  \A p \in Procs : ProcOK(p)'
  BY <1>11, WaitBlocksOK
<1>12. ASSUME NEW p \in Procs, WaitReturn(p) \/ WaitAgain(p) PROVE \A q \in Procs : ProcOK(q)'
  BY <1>12, WaitReturnOK, WaitAgainOK
<1>13. CASE Hands
  BY <1>13, <1>k, HandsDoes
<1>14. CASE UNCHANGED vars
  BY <1>14, <1>k DEF vars, elVars, schedVars, trapVars, Kept, SameEvents, HasEvent
<1>15. CASE Next
  BY <1>1, <1>2, <1>3, <1>4, <1>5, <1>6, <1>7, <1>8, <1>9, <1>10, <1>11, <1>12, <1>13, <1>15,
     StepKinds
<1> QED BY <1>14, <1>15

\* A sequence without members is empty.
LEMMA EmptyTrap == /\ ToSet(<<>>) = {}
                   /\ \A s, p : p \in ToSet(s) => s # <<>>
BY DEF ToSet

\* Every step keeps the traps right.
LEMMA TrapsStep ==
  ASSUME IInv, Typed, TrapsOK, [Next]_vars
  PROVE  TrapsOK'
<1>t. tstate \in [Trappables -> {"unborn", "none", "unset", "set", "sprung"}]
  BY DEF Typed, TypeOK
<1>n. \A e \in Evts : e \in Trappables /\ e \notin ProcEvents
  BY SimAssumption DEF Trappables
<1> USE <1>t, <1>n
\* The first conjunct follows from what happens to each event on its own.
<1>e. ASSUME \A e \in Evts : e \in DOMAIN evlist' =>
               \/ e \in DOMAIN evlist /\ (tstate'[e] = tstate[e] \/ tstate'[e] # "sprung")
               \/ tstate'[e] \in {"none", "unset", "set"},
             \A e \in Evts : tstate'[e] = "unborn" => tstate[e] = "unborn",
             tstate' \in [Trappables -> {"unborn", "none", "unset", "set", "sprung"}],
             \A x \in Trappables : tstate'[x] = "set" <=> blocked'[x] # <<>>
      PROVE  TrapsOK'
  BY <1>e DEF TrapsOK
<1>ty. tstate' \in [Trappables -> {"unborn", "none", "unset", "set", "sprung"}]
  BY TypeStep DEF TypeOK
<1>s. ASSUME NEW x \in Trappables, NEW after \in {"none", "sprung"}, NEW states,
             Springs(x, after, states),
             x \in Evts \cap DOMAIN evlist' => after = "none",
             DOMAIN evlist' \cap Evts \subseteq DOMAIN evlist
      PROVE  TrapsOK'
  <2>1. \A e \in Evts : e \in DOMAIN evlist' =>
               \/ e \in DOMAIN evlist /\ (tstate'[e] = tstate[e] \/ tstate'[e] # "sprung")
               \/ tstate'[e] \in {"none", "unset", "set"}
    BY <1>s DEF Springs
  <2>2. \A e \in Evts : tstate'[e] = "unborn" => tstate[e] = "unborn"
    BY <1>s DEF Springs
  <2>3. \A y \in Trappables : tstate'[y] = "set" <=> blocked'[y] # <<>>
    BY <1>s DEF Springs, TrapsOK
  <2> QED BY <1>e, <1>ty, <2>1, <2>2, <2>3
<1>same. ASSUME UNCHANGED <<tstate, blocked>>, DOMAIN evlist' \cap Evts \subseteq DOMAIN evlist
         PROVE  TrapsOK'
  BY <1>same DEF TrapsOK
<1>p. \A p \in Procs, k \in Kinds : \A t :
        /\ DOMAIN EL!With(<<p, k>>, t) \cap Evts \subseteq DOMAIN evlist
        /\ DOMAIN EL!Without({<<p, k>>}) \cap Evts \subseteq DOMAIN evlist
  BY DEF EL!With, EL!Without, EL!Pending, Kinds, ProcEvents
<1>1. ASSUME NEW x \in Traps, Trigger(x) PROVE TrapsOK'
  <2>1. x \in Trappables /\ Springs(x, "sprung", st) /\ evlist' = evlist /\ x \notin Evts
    BY <1>1, TriggerSprings, SimAssumption DEF Trappables
  <2> QED BY <2>1, <1>s
<1>2. ASSUME NEW p \in Procs, Kill(p) \/ (Terminate(p) /\ st[p] = "running") PROVE TrapsOK'
  <2> DEFINE dead == [st EXCEPT ![p] = "terminated"]
  <2>1. Springs(p, "sprung", dead) /\ p \in Trappables /\ p \notin Evts /\ evlist' = evlist
    BY <1>2, DeathSprings, SimAssumption DEF Trappables
  <2> HIDE DEF dead
  <2> QED BY <2>1, <1>s
<1>3. ASSUME NEW e \in Evts, ProcessDirectEvent(e) PROVE TrapsOK'
  <2>1. PICK after \in {"none", "sprung"} :
          after = IF tstate[e] = "none" \/ intv[e] > 0 THEN "none" ELSE "sprung"
    OBVIOUS
  <2>2. e \in Trappables /\ Springs(e, after, st) /\ e \in DOMAIN evlist
    BY <1>3, <2>1, EventSprings DEF EL!IsMin, EL!Pending
  <2>3. DOMAIN evlist' \subseteq DOMAIN evlist
    BY <1>3, <2>2 DEF ProcessDirectEvent, EL!DeleteMin, EL!DeleteMinAndRenew,
                      EL!With, EL!Without, EL!Pending
  <2>4. e \in DOMAIN evlist' => after = "none"
    <3>1. CASE intv[e] = 0
      BY <1>3, <3>1 DEF ProcessDirectEvent, EL!DeleteMin, EL!Without, EL!Pending
    <3>2. CASE intv[e] # 0
      <4>1. intv[e] \in Nat
        BY <1>3 DEF IInv
      <4> QED BY <2>1, <3>2, <4>1
    <3> QED BY <3>1, <3>2
  <2> QED BY <2>2, <2>3, <2>4, <1>s
<1>4. ASSUME NEW x \in Traps, TrapWait(x) PROVE TrapsOK'
  <2>1. /\ evlist' = evlist /\ x \in Trappables /\ x \notin Evts
        /\ tstate' = [tstate EXCEPT ![x] = "set"]
        /\ \A y \in Trappables \ {x} : blocked'[y] = blocked[y]
        /\ blocked'[x] # <<>>
    <3>1. x \in Trappables /\ x \notin Evts
      BY SimAssumption DEF Trappables
    <3>2. PICK p \in Procs : /\ evlist' = evlist
                             /\ tstate' = [tstate EXCEPT ![x] = "set"]
                             /\ blocked' = [blocked EXCEPT ![x] = Append(@, p)]
                             /\ ToSet(blocked'[x]) = ToSet(blocked[x]) \cup {p}
      BY <1>4, TrapWaitDoes
    <3> QED BY <3>1, <3>2, EmptyTrap DEF Typed, TypeOK
  <2> QED BY <2>1 DEF TrapsOK
<1>5. ASSUME NEW e \in Evts,
             \/ Cancel(e)
             \/ \E t \in Times : Resched(e, t) \/ \E r \in Intvs : Sched(e, t, r)
      PROVE  TrapsOK'
  <2>1. /\ UNCHANGED blocked
        /\ \A x \in Trappables :
              \/ tstate'[x] = tstate[x]
              \/ x = e /\ tstate[x] = "unborn" /\ tstate'[x] = "none"
        /\ e \in DOMAIN evlist' => e \in DOMAIN evlist \/ tstate'[e] = "none"
        /\ DOMAIN evlist' \cap Evts \subseteq (DOMAIN evlist \cap Evts) \cup {e}
    BY <1>5, EventCallDoes
  <2> QED BY <2>1 DEF TrapsOK
<1>6. ASSUME NEW p \in Procs, NEW t \in Times, Process(p, t) PROVE TrapsOK'
  BY <1>6, <1>p, <1>same, CreateDoes DEF Kinds
<1>7. ASSUME NEW p \in Procs, NEW k \in Kinds, ProcessProcessEvent(<<p, k>>) PROVE TrapsOK'
  BY <1>7, <1>p, <1>same, FireDoes
<1>8. ASSUME NEW t \in Times, Sleep(t) PROVE TrapsOK'
  BY <1>8, <1>p, <1>same, SleepDoes DEF Kinds
<1>9. ASSUME NEW p \in Procs, SleepReturn(p) \/ TrapWaitReturn(p) PROVE TrapsOK'
  BY <1>9, <1>same, ReturnDoes
<1>10. ASSUME NEW ts \in WaitLists, NEW every \in BOOLEAN, WaitAtOnce(ts, every) PROVE TrapsOK'
  <2>1. /\ UNCHANGED <<blocked, evlist>>
        /\ \A x \in Trappables : \/ tstate'[x] = tstate[x]
                                 \/ tstate[x] = "none" /\ tstate'[x] = "unset"
    BY <1>10, WaitAtOnceDoes
  <2> QED BY <2>1 DEF TrapsOK
<1>11. ASSUME NEW ts \in WaitLists, NEW every \in BOOLEAN, NEW limit \in Times \cup {Inf},
              WaitBlocks(ts, every, limit)
       PROVE  TrapsOK'
  <2>1. PICK p \in Procs, trig \in [DOMAIN ts -> BOOLEAN] : Blocks(p, ts, trig, every, limit)
    BY <1>11, WaitBlocksDoes
  <2>2. DOMAIN evlist' \cap Evts \subseteq DOMAIN evlist
    BY <2>1, <1>p DEF Blocks, Kinds
  <2>3. \A x \in Trappables : \/ tstate'[x] = tstate[x] /\ blocked'[x] = blocked[x]
                              \/ tstate'[x] = "set" /\ blocked'[x] # <<>>
    BY <2>1, EmptyTrap DEF Blocks
  <2> QED BY <2>2, <2>3 DEF TrapsOK
<1>12. ASSUME NEW p \in Procs, WaitReturn(p) PROVE TrapsOK'
  <2>1. \A x \in Trappables :
          \/ tstate'[x] = tstate[x] /\ blocked'[x] = blocked[x]
          \/ tstate'[x] = "unset" /\ blocked'[x] = <<>>
          \/ tstate'[x] = tstate[x] /\ blocked'[x] # <<>> /\ blocked[x] # <<>>
    <3> SUFFICES ASSUME NEW x \in Trappables
                 PROVE  \/ tstate'[x] = tstate[x] /\ blocked'[x] = blocked[x]
                        \/ tstate'[x] = "unset" /\ blocked'[x] = <<>>
                        \/ tstate'[x] = tstate[x] /\ blocked'[x] # <<>> /\ blocked[x] # <<>>
      OBVIOUS
    <3>1. /\ x \in Withdrawn(p) =>
                   /\ ToSet(blocked'[x]) = ToSet(blocked[x]) \ {p}
                   /\ tstate'[x] = IF blocked'[x] = <<>> THEN "unset" ELSE tstate[x]
          /\ x \notin Withdrawn(p) => blocked'[x] = blocked[x] /\ tstate'[x] = tstate[x]
          /\ blocked'[x] \in Seq(Procs)
      BY <1>12, WaitReturnDoes DEF TypeOK
    <3>2. blocked'[x] # <<>> => ToSet(blocked'[x]) # {}
      <4>1. blocked'[x] # <<>> => blocked'[x][1] \in ToSet(blocked'[x])
        BY <3>1 DEF ToSet
      <4> QED BY <4>1
    <3> QED BY <3>1, <3>2, EmptyTrap
  <2>2. DOMAIN evlist' \cap Evts \subseteq DOMAIN evlist
    BY <1>12, WaitReturnDoes, <1>p DEF Kinds
  <2> QED BY <2>1, <2>2 DEF TrapsOK
<1>13. ASSUME NEW p \in Procs, WaitAgain(p) PROVE TrapsOK'
  BY <1>13, <1>same, WaitAgainDoes
<1>14. CASE Hands
  BY <1>14, <1>same, HandsDoes
<1>15. CASE UNCHANGED vars
  BY <1>15, <1>same DEF vars, elVars, trapVars
<1>16. CASE Next
  BY <1>1, <1>2, <1>3, <1>4, <1>5, <1>6, <1>7, <1>8, <1>9, <1>10, <1>11, <1>12, <1>13, <1>14,
     <1>16, StepKinds
<1> QED BY <1>15, <1>16

-----------------------------------------------------------------------------

\* Initially no process, event or registration exists.
LEMMA InitWaitInv == Init => WaitInv
<1> SUFFICES ASSUME Init PROVE WaitInv
  OBVIOUS
<1>1. TrapsOK
  BY DEF Init, EL!Init, TrapsOK
<1>2. ASSUME NEW p \in Procs PROVE ProcOK(p)
  <2>1. /\ st[p] = "unborn" /\ call[p] = Idle /\ call[p].op = "none" /\ acting[p] = {}
        /\ \A k : ~HasEvent(p, k)
        /\ \A x \in Trappables : p \notin ToSet(blocked[x])
    BY EmptyTrap, CallKinds DEF Init, EL!Init, S!Init, HasEvent
  <2> QED BY <2>1 DEF ProcOK, StartAgrees, SleepAgrees, TimerAgrees, BlockedWaits,
                      ActingWaits, S!Live
<1> QED BY <1>1, <1>2, InitIInv, InitSchedInv DEF WaitInv

\* Whatever happens, all processes and traps stay in agreement.
LEMMA NextWaitInv == WaitInv /\ [Next]_vars => WaitInv'
<1> SUFFICES ASSUME WaitInv, [Next]_vars PROVE WaitInv'
  OBVIOUS
<1>1. IInv' /\ SchedInv' /\ Typed
  BY NextIInv, NextSchedInv, SchedTyped DEF WaitInv
<1>2. TrapsOK'
  BY <1>1, TrapsStep DEF WaitInv
<1>3. \A p \in Procs : ProcOK(p)'
  BY <1>1, ProcStep DEF WaitInv
<1> QED BY <1>1, <1>2, <1>3 DEF WaitInv

\* The pending events of a live process are those its state and its call
\* account for, with the times they ask for.
THEOREM TimersAreExact == Spec => []TimersMatchCalls
<1>1. WaitInv => TimersMatchCalls
  <2> SUFFICES ASSUME WaitInv PROVE TimersMatchCalls
    OBVIOUS
  <2>1. ASSUME NEW p \in Procs, S!Live(p)
        PROVE  /\ EL!Current(<<p, "start">>) <=> st[p] = "started"
               /\ EL!Current(<<p, "sleep">>) =>
                    call[p].op = "sleep" /\ evlist[<<p, "sleep">>] = call[p].limit
               /\ EL!Current(<<p, "timeout">>) =>
                    call[p].op = "wait" /\ evlist[<<p, "timeout">>] = call[p].limit
               /\ st[p] = "suspended" /\ call[p].op = "sleep" => EL!Current(<<p, "sleep">>)
               /\ st[p] = "suspended" /\ call[p].op = "wait" =>
                    call[p].limit = Inf \/ EL!Current(<<p, "timeout">>)
    BY <2>1 DEF WaitInv, ProcOK, StartAgrees, SleepAgrees, TimerAgrees, HasEvent,
                EL!Current, EL!Pending
  <2> QED BY <2>1 DEF TimersMatchCalls
<1> QED BY <1>1, InitWaitInv, NextWaitInv, PTL DEF Spec

\* Every step of the simulator is one of the event list, or leaves it alone.
LEMMA ListStep == WaitInv /\ [Next]_vars => [EL!Next]_EL!vars
<1> SUFFICES ASSUME WaitInv, [Next]_vars PROVE EL!Next \/ UNCHANGED <<evlist, last>>
  BY DEF EL!vars
<1> DEFINE Events == Evts \cup ProcEvents
<1>v. Typed /\ IInv
  BY SchedTyped DEF WaitInv
<1>t. /\ \A t \in Times \cup {Inf} : t \in EL!Times
      /\ \A p \in Procs, k \in Kinds : <<p, k>> \in Events
  BY TimeFacts DEF EL!Times, ProcEvents, Kinds
<1>i. ASSUME NEW e \in Events, NEW t \in EL!Times, EL!Insert(e, t), e \notin EL!Pending
      PROVE  EL!Next
  BY <1>i DEF EL!Next
<1>c. ASSUME NEW e \in Events, EL!Cancel(e) \/ EL!DeleteMin(e) PROVE EL!Next
  BY <1>c DEF EL!Next
<1>u. ASSUME NEW e \in Events, NEW t \in EL!Times, EL!Update(e, t) \/ EL!DeleteMinAndRenew(e, t)
      PROVE  EL!Next
  BY <1>u DEF EL!Next
<1>1. ASSUME NEW x \in Traps, Trigger(x) \/ TrapWait(x) PROVE UNCHANGED <<evlist, last>>
  BY <1>1 DEF Trigger, TrapWait, elVars
<1>2. ASSUME NEW p \in Procs, Kill(p) \/ Terminate(p) PROVE UNCHANGED <<evlist, last>>
  BY <1>2 DEF Kill, Terminate, elVars
<1>3. ASSUME NEW e \in Evts, ProcessDirectEvent(e) PROVE EL!Next
  <2>1. CASE intv[e] = 0
    BY <1>3, <2>1, <1>c DEF ProcessDirectEvent
  <2>2. CASE intv[e] # 0
    <3> DEFINE t == AtMost(evlist[e] + intv[e])
    <3>1. EL!DeleteMinAndRenew(e, t)
      BY <1>3, <2>2 DEF ProcessDirectEvent
    <3>2. /\ evlist[e] \in Int /\ 0 <= evlist[e] /\ intv[e] \in Nat
      BY <1>3, <1>v, TimeFacts DEF ProcessDirectEvent, EL!IsMin, EL!Pending, IInv
    <3>3. t \in EL!Times
      BY <3>2, TimeFacts DEF AtMost, EL!Times
    <3> HIDE DEF t
    <3> QED BY <3>1, <3>3, <1>u
  <2> QED BY <2>1, <2>2
<1>4. ASSUME NEW e \in Evts, Cancel(e) PROVE EL!Next
  BY <1>4, <1>c DEF Cancel
<1>5. ASSUME NEW e \in Evts, NEW t \in Times, NEW r, Resched(e, t) \/ Sched(e, t, r) PROVE EL!Next
  <2>1. CASE Resched(e, t)
    BY <2>1, <1>t, <1>u DEF Resched
  <2>2. CASE Sched(e, t, r)
    <3>1. EL!Insert(e, t) /\ e \notin EL!Pending
      BY <2>2 DEF Sched, WaitInv, TrapsOK, EL!Pending
    <3> QED BY <3>1, <1>t, <1>i
  <2> QED BY <1>5, <2>1, <2>2
<1>6. ASSUME NEW p \in Procs, NEW t \in Times, Process(p, t) PROVE EL!Next
  <2>1. EL!Insert(<<p, "start">>, t) /\ st[p] = "unborn"
    BY <1>6 DEF Process, S!Create
  <2>2. <<p, "start">> \notin EL!Pending
    BY <2>1 DEF WaitInv, ProcOK, StartAgrees, HasEvent, EL!Pending, Kinds
  <2> QED BY <2>1, <2>2, <1>t, <1>i DEF Kinds
<1>7. ASSUME NEW p \in Procs, NEW k \in Kinds, ProcessProcessEvent(<<p, k>>) PROVE EL!Next
  BY <1>7, <1>t, <1>c DEF ProcessProcessEvent
<1>o. ASSUME NEW p \in Procs, st[p] = "running", call[p] = Idle, NEW k \in {"sleep", "timeout"}
      PROVE  <<p, k>> \notin EL!Pending
  <2>1. S!Live(p) /\ call[p].op = "none"
    BY <1>o, CallKinds DEF S!Live
  <2> QED BY <2>1 DEF WaitInv, ProcOK, SleepAgrees, TimerAgrees, HasEvent, EL!Pending
<1>8. ASSUME NEW t \in Times, Sleep(t) PROVE EL!Next
  <2>1. PICK p \in Procs : p = cur
    BY <1>8 DEF Sleep, InProcess
  <2>2. EL!Insert(<<p, "sleep">>, t) /\ st[p] = "running" /\ call[p] = Idle
    BY <1>8, <2>1 DEF Sleep, InProcess, User
  <2>3. <<p, "sleep">> \notin EL!Pending
    BY <2>2, <1>o
  <2> QED BY <2>2, <2>3, <1>t, <1>i DEF Kinds
<1>9. ASSUME NEW p \in Procs, SleepReturn(p) \/ TrapWaitReturn(p) \/ WaitAgain(p)
      PROVE  UNCHANGED <<evlist, last>>
  BY <1>9 DEF SleepReturn, TrapWaitReturn, WaitAgain, elVars
<1>10. ASSUME NEW ts \in WaitLists, NEW every \in BOOLEAN, WaitAtOnce(ts, every)
       PROVE  UNCHANGED <<evlist, last>>
  BY <1>10 DEF WaitAtOnce, elVars
<1>11. ASSUME NEW ts \in WaitLists, NEW every \in BOOLEAN, NEW limit \in Times \cup {Inf},
              WaitBlocks(ts, every, limit)
       PROVE  EL!Next \/ UNCHANGED <<evlist, last>>
  <2>1. CASE limit < Inf
    <3>1. PICK p \in Procs : p = cur
      BY <1>11 DEF WaitBlocks, InProcess
    <3>2. EL!Insert(<<p, "timeout">>, limit) /\ st[p] = "running" /\ call[p] = Idle
      BY <1>11, <2>1, <3>1 DEF WaitBlocks, InProcess, User
    <3>3. <<p, "timeout">> \notin EL!Pending
      BY <3>2, <1>o
    <3> QED BY <3>2, <3>3, <1>t, <1>i DEF Kinds
  <2>2. CASE ~(limit < Inf)
    BY <1>11, <2>2 DEF WaitBlocks
  <2> QED BY <2>1, <2>2
<1>12. ASSUME NEW p \in Procs, WaitReturn(p) PROVE EL!Next \/ UNCHANGED <<evlist, last>>
  <2>1. EL!Cancel(<<p, "timeout">>) \/ UNCHANGED <<evlist, last>>
    BY <1>12 DEF WaitReturn
  <2> QED BY <2>1, <1>t, <1>c DEF Kinds
<1>13. CASE HandlerReturn \/ Dispatch \/ DrainEnd \/ MainCall
  BY <1>13 DEF HandlerReturn, Dispatch, DrainEnd, MainCall, Step, Run, elVars
<1>14. CASE RunEnd
  <2>1. CASE run.upper < Inf
    <3>1. /\ run.upper \in EL!Times /\ last <= run.upper
      BY <1>14, <1>v, <1>t, TimeFacts DEF RunEnd, S!RunEnd, IInv
    <3>2. EL!AdvanceTo(run.upper)
      BY <1>14, <2>1, <3>1 DEF RunEnd, EL!AdvanceTo
    <3> QED BY <3>1, <3>2 DEF EL!Next
  <2>2. CASE ~(run.upper < Inf)
    BY <1>14, <2>2 DEF RunEnd
  <2> QED BY <2>1, <2>2
<1>15. CASE UNCHANGED vars
  BY <1>15 DEF vars, elVars
<1>16. CASE Hands
  BY <1>2, <1>13, <1>14, <1>16 DEF Hands
<1>17. CASE Next
  BY <1>1, <1>2, <1>3, <1>4, <1>5, <1>6, <1>7, <1>8, <1>9, <1>10, <1>11, <1>12, <1>16, <1>17,
     StepKinds
<1> QED BY <1>15, <1>17

\* The simulator uses its event list as the list promises to be used.
THEOREM ImplementsEventList == Spec => EventListSpec
<1>1. Init => EL!Init
  BY DEF Init
<1> QED BY <1>1, InitWaitInv, NextWaitInv, ListStep, PTL DEF Spec, EventListSpec, EL!Spec

-----------------------------------------------------------------------------
(* Waits and sleeps that end end in time *)

\* A process that its sleep or its timer has woken up runs at that very time.
OnTime(p) ==
  st[p] = "running" =>
    /\ call[p].op = "sleep" => now = call[p].limit /\ cur \notin {"main", "pick"}
    /\ call[p].op = "wait" /\ call[p].limit < Inf /\ ~HasEvent(p, "timeout") =>
         now = call[p].limit /\ cur \notin {"main", "pick"}

\* While a process is ready the clock stands still.
LEMMA ClockStands ==
  ASSUME WaitInv, Next, NEW p \in Procs, st[p] = "running", cur \notin {"main", "pick"}
  PROVE  now' = now /\ cur' \notin {"main", "pick"}
<1>1. ~ \E e \in Evts : ProcessDirectEvent(e)
  BY DEF ProcessDirectEvent, S!Handle
<1>2. ~ \E e \in ProcEvents : ProcessProcessEvent(e)
  BY DEF ProcessProcessEvent, S!Fire
<1>3. ~RunEnd /\ ~MainCall
  BY DEF RunEnd, S!RunEnd, MainCall, Run, Step, S!RunBegin
<1>4. ~DrainEnd
  <2> SUFFICES ASSUME DrainEnd PROVE FALSE
    OBVIOUS
  <2>1. cur = "drain" /\ readyq = <<>>
    BY DEF DrainEnd, S!DrainEnd
  <2>2. p \in SP!ToSet(readyq) \/ p = cur
    BY DEF WaitInv, SchedInv, SP!IInv, SP!RunningIsReady
  <2> QED BY <2>1, <2>2, NotProcs, SameOperators, EmptyTrap
<1>5. CASE HandlerReturn \/ Dispatch
  BY <1>5, NotProcs DEF HandlerReturn, Dispatch, S!HandlerReturn, S!Dispatch, timeVars,
     WaitInv, SchedInv, SP!IInv, SP!TypeOK
<1>6. ASSUME NEW q \in Procs, Resume(q) PROVE now' = now /\ cur' \notin {"main", "pick"}
  BY <1>6 DEF Resume, SleepReturn, TrapWaitReturn, WaitReturn, WaitAgain, S!Suspend,
              schedVars, timeVars
<1>7. CASE UserCall
  <2>1. now' = now
    BY <1>7, UserIInv DEF WaitInv
  <2>2. \/ cur' = cur \/ cur' = "drain"
    BY <1>7 DEF UserCall, Trigger, TrapWait, Cancel, Resched, Sched, Kill, Terminate, Process,
       Sleep, WaitAtOnce, WaitBlocks, S!Suspend, S!Signal, S!Kill, S!Terminate, S!Create, schedVars
  <2> QED BY <2>1, <2>2
<1> QED BY <1>1, <1>2, <1>3, <1>4, <1>5, <1>6, <1>7 DEF Next, Loop

\* What a step does not touch stays in time.
LEMMA KeptOnTime ==
  ASSUME WaitInv, Next, NEW p \in Procs, OnTime(p), Kept(p)
  PROVE  OnTime(p)'
<1> SUFFICES ASSUME st[p] = "running" PROVE OnTime(p)'
  BY DEF OnTime, Kept
<1>1. cur \notin {"main", "pick"} => now' = now /\ cur' \notin {"main", "pick"}
  BY ClockStands
<1>2. /\ call'[p] = call[p] /\ st'[p] = st[p]
      /\ HasEvent(p, "timeout")' <=> HasEvent(p, "timeout")
  BY DEF Kept, SameEvents, Kinds
<1> QED BY <1>1, <1>2 DEF OnTime

\* Every step keeps the processes in time.
LEMMA OnTimeStep ==
  ASSUME WaitInv, WaitInv', \A p \in Procs : OnTime(p), Next
  PROVE  \A p \in Procs : OnTime(p)'
<1>v. Typed
  BY SchedTyped DEF WaitInv
<1>k. ASSUME NEW p \in Procs, \A q \in Procs \ {p} : Kept(q), OnTime(p)'
      PROVE  \A q \in Procs : OnTime(q)'
  BY <1>k, KeptOnTime
<1>a. ASSUME \A q \in Procs : Kept(q) PROVE \A p \in Procs : OnTime(p)'
  BY <1>a, KeptOnTime
<1>s. ASSUME NEW x \in Trappables, NEW after, NEW states, Springs(x, after, states),
             \A q \in Procs : states[q] = st[q] \/ states[q] = "terminated"
      PROVE  \A q \in Procs : OnTime(q)'
  <2> SUFFICES ASSUME NEW q \in Procs, st'[q] = "running" PROVE OnTime(q)'
    BY DEF OnTime
  <2>1. /\ call'[q] = call[q]
        /\ HasEvent(q, "timeout")' <=> HasEvent(q, "timeout")
        /\ \/ st[q] = "running"
           \/ q \in ToSet(blocked[x]) /\ st[q] \in {"started", "suspended"}
    BY <1>s DEF Springs, SameEvents, Kinds
  <2>2. CASE st[q] = "running"
    <3>1. cur \notin {"main", "pick"} => now' = now /\ cur' \notin {"main", "pick"}
      BY <2>2, ClockStands
    <3> QED BY <2>1, <2>2, <3>1 DEF OnTime
  <2>3. CASE q \in ToSet(blocked[x]) /\ st[q] \in {"started", "suspended"}
    <3>1. WaitsFor(q, x) /\ call[q] # Idle /\ call[q].op # "sleep"
      BY <1>v, <2>3, WaitsForKinds DEF WaitInv, ProcOK, BlockedWaits
    <3>2. call[q].op = "wait" => call[q].limit = Inf \/ HasEvent(q, "timeout")
      BY <2>3, <3>1 DEF WaitInv, ProcOK, StartAgrees, TimerAgrees
    <3>3. ~(Inf < Inf)
      BY TimeFacts
    <3> QED BY <2>1, <3>1, <3>2, <3>3 DEF OnTime
  <2> QED BY <2>1, <2>2, <2>3
<1>1. ASSUME NEW x \in Traps, Trigger(x) PROVE \A p \in Procs : OnTime(p)'
  <2>1. x \in Trappables /\ Springs(x, "sprung", st)
    BY <1>1, <1>v, TriggerSprings DEF Trappables
  <2> QED BY <2>1, <1>s
<1>2. ASSUME NEW p \in Procs, Kill(p) \/ (Terminate(p) /\ st[p] = "running")
      PROVE  \A q \in Procs : OnTime(q)'
  <2> DEFINE dead == [st EXCEPT ![p] = "terminated"]
  <2>1. Springs(p, "sprung", dead) /\ p \in Trappables
    BY <1>2, <1>v, DeathSprings DEF Trappables
  <2>2. \A q \in Procs : dead[q] = st[q] \/ dead[q] = "terminated"
    BY <1>v DEF Typed
  <2> HIDE DEF dead
  <2> QED BY <2>1, <2>2, <1>s
<1>3. ASSUME NEW e \in Evts, ProcessDirectEvent(e) PROVE \A p \in Procs : OnTime(p)'
  <2>1. PICK after : after = IF tstate[e] = "none" \/ intv[e] > 0 THEN "none" ELSE "sprung"
    OBVIOUS
  <2>2. e \in Trappables /\ Springs(e, after, st)
    BY <1>3, <1>v, <2>1, EventSprings DEF Trappables
  <2> QED BY <2>2, <1>s
<1>4. ASSUME NEW x \in Traps, TrapWait(x) PROVE \A p \in Procs : OnTime(p)'
  <2>1. PICK p \in Procs : /\ st' = [st EXCEPT ![p] = "suspended"]
                           /\ \A q \in Procs \ {p} : Kept(q)
    BY <1>4, <1>v, TrapWaitDoes
  <2> QED BY <1>k, <1>v, <2>1 DEF OnTime, Typed
<1>5. ASSUME NEW e \in Evts,
             \/ Cancel(e)
             \/ \E t \in Times : Resched(e, t) \/ \E r \in Intvs : Sched(e, t, r)
      PROVE  \A p \in Procs : OnTime(p)'
  BY <1>5, <1>a, <1>v, EventCallDoes
<1>6. ASSUME NEW p \in Procs, NEW t \in Times, Process(p, t) PROVE \A q \in Procs : OnTime(q)'
  <2>1. st' = [st EXCEPT ![p] = "started"] /\ \A q \in Procs \ {p} : Kept(q)
    BY <1>6, <1>v, CreateDoes
  <2> QED BY <1>k, <1>v, <2>1 DEF OnTime, Typed
<1>7. ASSUME NEW p \in Procs, NEW k \in Kinds, ProcessProcessEvent(<<p, k>>)
      PROVE  \A q \in Procs : OnTime(q)'
  <2>1. /\ EL!IsMin(<<p, k>>) /\ now' = evlist[<<p, k>>]
        /\ cur = "pick" /\ cur' = "drain" /\ call' = call
        /\ st'[p] = IF st[p] \in {"started", "suspended"} THEN "running" ELSE st[p]
        /\ evlist' = EL!Without({<<p, k>>})
        /\ \A q \in Procs \ {p} : Kept(q)
    BY <1>7, <1>v, FireDoes
  <2>2. HasEvent(p, k) /\ \A j \in Kinds \ {k} : HasEvent(p, j)' <=> HasEvent(p, j)
    BY <2>1, OwnEvents DEF EL!IsMin, EL!Pending, HasEvent
  <2>3. ASSUME st'[p] = "running" PROVE OnTime(p)'
    <3>1. S!Live(p)
      BY <2>1, <2>3 DEF S!Live
    <3>2. ASSUME call[p].op = "sleep" PROVE now' = call[p].limit
      <4>1. st[p] = "running" => FALSE
        BY <2>1, <3>2 DEF OnTime
      <4>2. k = "sleep"
        <5>1. k # "timeout"
          BY <2>2, <3>1, <3>2 DEF WaitInv, ProcOK, TimerAgrees
        <5>2. k # "start"
          BY <2>2, <3>1, <3>2, CallKinds DEF WaitInv, ProcOK, StartAgrees
        <5> QED BY <5>1, <5>2 DEF Kinds
      <4> QED BY <2>1, <2>2, <3>1, <4>2 DEF WaitInv, ProcOK, SleepAgrees
    <3>3. ASSUME call[p].op = "wait", call[p].limit < Inf, ~HasEvent(p, "timeout")'
          PROVE  now' = call[p].limit
      <4>1. HasEvent(p, "timeout")
        <5>1. CASE st[p] = "running"
          BY <2>1, <3>3, <5>1 DEF OnTime
        <5>0. ~(Inf < Inf)
          BY TimeFacts
        <5>2. CASE st[p] = "suspended"
          BY <3>3, <5>0, <5>2 DEF WaitInv, ProcOK, TimerAgrees
        <5>3. CASE st[p] = "started"
          BY <3>3, <5>3, CallKinds DEF WaitInv, ProcOK, StartAgrees
        <5> QED BY <2>1, <2>3, <5>1, <5>2, <5>3
      <4>2. k = "timeout"
        BY <2>2, <3>3, <4>1 DEF Kinds
      <4> QED BY <2>1, <3>1, <4>1, <4>2 DEF WaitInv, ProcOK, TimerAgrees
    <3> QED BY <2>1, <3>2, <3>3 DEF OnTime
  <2>4. OnTime(p)'
    BY <2>3 DEF OnTime
  <2> QED BY <1>k, <2>1, <2>4
<1>8. ASSUME NEW t \in Times, Sleep(t) PROVE \A p \in Procs : OnTime(p)'
  <2>1. PICK p \in Procs : /\ st' = [st EXCEPT ![p] = "suspended"]
                           /\ \A q \in Procs \ {p} : Kept(q)
    BY <1>8, <1>v, SleepDoes
  <2> QED BY <1>k, <1>v, <2>1 DEF OnTime, Typed
<1>9. ASSUME NEW p \in Procs, SleepReturn(p) \/ TrapWaitReturn(p) \/ WaitReturn(p)
      PROVE  \A q \in Procs : OnTime(q)'
  <2>1. call' = [call EXCEPT ![p] = Idle] /\ \A q \in Procs \ {p} : Kept(q)
    BY <1>9, <1>v, ReturnDoes, WaitReturnDoes
  <2>2. call'[p].op = "none"
    BY <1>v, <2>1, CallKinds DEF Typed, TypeOK
  <2> QED BY <1>k, <2>1, <2>2 DEF OnTime
<1>10. ASSUME NEW ts \in WaitLists, NEW every \in BOOLEAN, WaitAtOnce(ts, every)
       PROVE  \A p \in Procs : OnTime(p)'
  BY <1>10, <1>a, <1>v, WaitAtOnceDoes
<1>11. ASSUME NEW ts \in WaitLists, NEW every \in BOOLEAN, NEW limit \in Times \cup {Inf},
              WaitBlocks(ts, every, limit)
       PROVE  \A p \in Procs : OnTime(p)'
  <2>1. PICK p \in Procs, trig \in [DOMAIN ts -> BOOLEAN] : Blocks(p, ts, trig, every, limit)
    BY <1>11, <1>v, WaitBlocksDoes
  <2>2. st' = [st EXCEPT ![p] = "suspended"] /\ \A q \in Procs \ {p} : Kept(q)
    BY <2>1 DEF Blocks
  <2> QED BY <1>k, <1>v, <2>2 DEF OnTime, Typed
<1>12. ASSUME NEW p \in Procs, WaitAgain(p) PROVE \A q \in Procs : OnTime(q)'
  <2>1. st' = [st EXCEPT ![p] = "suspended"] /\ \A q \in Procs \ {p} : Kept(q)
    BY <1>12, <1>v, WaitAgainDoes
  <2> QED BY <1>k, <1>v, <2>1 DEF OnTime, Typed
<1>13. CASE Hands
  BY <1>13, <1>a, <1>v, HandsDoes
<1> QED BY <1>1, <1>2, <1>3, <1>4, <1>5, <1>6, <1>7, <1>8, <1>9, <1>10, <1>11, <1>12, <1>13,
        StepKinds

-----------------------------------------------------------------------------
(* Waits for distinct trappables are exact *)

\* No list of trappables has one twice.  In a list that has, a trappable is
\* credited to its first place only, and the process may wait for the second.
Distinct == \A ts \in WaitLists : IsInjective(ts)

\* A process is blocked on whatever it waits for and was not told of.
BlockedExact(p) ==
  \A x \in Trappables : WaitsFor(p, x) /\ x \notin acting[p] => p \in ToSet(blocked[x])

\* What it was told is so.
ToldRight(p) ==
  /\ \A x \in acting[p] \ Evts : tstate[x] = "sprung"
  /\ call[p].op = "wait" =>
       \A i \in DOMAIN call[p].ts :
         call[p].trig[i] /\ call[p].ts[i] \notin Evts => tstate[call[p].ts[i]] = "sprung"

\* It does not stay in a wait whose condition is met.
NotMet(p) == st[p] = "suspended" /\ call[p].op = "wait" => ~Met(call[p].every, call[p].trig)

ExactOK(p) == BlockedExact(p) /\ ToldRight(p) /\ NotMet(p)

ExactInv == /\ WaitInv
            /\ \A p \in Procs : OnTime(p) /\ ExactOK(p)
            /\ \A x \in Trappables : IsInjective(blocked[x])
            /\ \A p \in Procs : tstate[p] = "sprung" <=> st[p] = "terminated"

\* What a process withdraws from has not been triggered.
LEMMA WithdrawnUnsprung ==
  ASSUME Distinct, ExactInv, NEW p \in Procs, call[p].op = "wait",
         NEW x \in Trappables, x \in Withdrawn(p)
  PROVE  p \in ToSet(blocked[x]) /\ tstate[x] = "set"
<1>1. Typed
  BY SchedTyped DEF ExactInv, WaitInv
<1>2. call[p].ts \in WaitLists /\ IsInjective(call[p].ts)
  BY <1>1, MaskProps DEF Distinct
<1>3. PICK i \in DOMAIN call[p].ts : call[p].ts[i] = x /\ ~Mask(p)[i]
  BY <1>1, MaskProps
<1>4. ~call[p].trig[i] /\ x \notin acting[p]
  BY <1>1, <1>2, <1>3, MaskProps
<1>5. WaitsFor(p, x)
  BY <1>1, <1>3, <1>4, WaitsForKinds
<1>6. p \in ToSet(blocked[x])
  BY <1>4, <1>5 DEF ExactInv, ExactOK, BlockedExact
<1> QED BY <1>6, EmptyTrap DEF ExactInv, WaitInv, TrapsOK

\* A trap that is sprung stays so, unless an event renews it.
LEMMA SprungStays ==
  ASSUME Distinct, ExactInv, Next, NEW x \in Trappables \ Evts, tstate[x] = "sprung"
  PROVE  tstate'[x] = "sprung"
<1>v. Typed
  BY SchedTyped DEF ExactInv, WaitInv
<1>s. ASSUME NEW y \in Trappables, NEW after, NEW states, Springs(y, after, states)
      PROVE  tstate'[x] = "sprung"
  BY <1>s DEF Springs
<1>1. ASSUME NEW y \in Traps, Trigger(y) PROVE tstate'[x] = "sprung"
  BY <1>1, <1>s, <1>v, TriggerSprings DEF Trappables
<1>2. ASSUME NEW p \in Procs, Kill(p) \/ (Terminate(p) /\ st[p] = "running")
      PROVE  tstate'[x] = "sprung"
  BY <1>2, <1>s, <1>v, DeathSprings DEF Trappables
<1>3. ASSUME NEW e \in Evts, ProcessDirectEvent(e) PROVE tstate'[x] = "sprung"
  BY <1>3, <1>s, <1>v, EventSprings DEF Trappables
<1>4. ASSUME NEW y \in Traps, TrapWait(y) PROVE tstate'[x] = "sprung"
  <2>1. tstate' = [tstate EXCEPT ![y] = "set"] /\ tstate[y] # "sprung"
    BY <1>4, <1>v, TrapWaitDoes
  <2> QED BY <1>v, <2>1 DEF Typed, TypeOK
<1>5. ASSUME NEW e \in Evts,
             \/ Cancel(e)
             \/ \E t \in Times : Resched(e, t) \/ \E r \in Intvs : Sched(e, t, r)
      PROVE  tstate'[x] = "sprung"
  BY <1>5, <1>v, EventCallDoes
<1>6. ASSUME NEW p \in Procs, NEW t \in Times, Process(p, t) PROVE tstate'[x] = "sprung"
  BY <1>6, <1>v, CreateDoes
<1>7. ASSUME NEW p \in Procs, NEW k \in Kinds, ProcessProcessEvent(<<p, k>>)
      PROVE  tstate'[x] = "sprung"
  BY <1>7, <1>v, FireDoes
<1>8. ASSUME NEW t \in Times, Sleep(t) PROVE tstate'[x] = "sprung"
  BY <1>8, <1>v, SleepDoes
<1>9. ASSUME NEW p \in Procs, SleepReturn(p) \/ TrapWaitReturn(p) PROVE tstate'[x] = "sprung"
  BY <1>9, <1>v, ReturnDoes
<1>10. ASSUME NEW ts \in WaitLists, NEW every \in BOOLEAN, WaitAtOnce(ts, every)
       PROVE  tstate'[x] = "sprung"
  BY <1>10, <1>v, WaitAtOnceDoes
<1>11. ASSUME NEW ts \in WaitLists, NEW every \in BOOLEAN, NEW limit \in Times \cup {Inf},
              WaitBlocks(ts, every, limit)
       PROVE  tstate'[x] = "sprung"
  <2>1. PICK p \in Procs, trig \in [DOMAIN ts -> BOOLEAN] : Blocks(p, ts, trig, every, limit)
    BY <1>11, <1>v, WaitBlocksDoes
  <2>2. \A i \in DOMAIN ts : ts[i] = x => trig[i]
    BY <2>1 DEF Blocks, Triggered
  <2>3. ~ \E i \in DOMAIN ts : ts[i] = x /\ ~trig[i]
    BY <2>2
  <2>4. tstate'[x] = tstate[x]
    BY <2>1, <2>3 DEF Blocks
  <2> QED BY <2>4
<1>12. ASSUME NEW p \in Procs, WaitReturn(p) PROVE tstate'[x] = "sprung"
  <2>1. call[p].op = "wait" /\ (x \notin Withdrawn(p) => tstate'[x] = tstate[x])
    BY <1>12, <1>v, WaitReturnDoes
  <2>2. x \notin Withdrawn(p)
    BY <2>1, WithdrawnUnsprung
  <2> QED BY <2>1, <2>2
<1>13. ASSUME NEW p \in Procs, WaitAgain(p) PROVE tstate'[x] = "sprung"
  BY <1>13, <1>v, WaitAgainDoes
<1>14. CASE Hands
  BY <1>14, <1>v, HandsDoes
<1> QED BY <1>1, <1>2, <1>3, <1>4, <1>5, <1>6, <1>7, <1>8, <1>9, <1>10, <1>11, <1>12, <1>13,
        <1>14, StepKinds

\* The trap of a process is sprung when it dies.
LEMMA DeadMarked ==
  ASSUME Distinct, ExactInv, Next
  PROVE  \A p \in Procs : tstate'[p] = "sprung" <=> st'[p] = "terminated"
<1>v. Typed
  BY SchedTyped DEF ExactInv, WaitInv
<1>p. \A p \in Procs : p \in Trappables /\ p \notin Evts /\ p \notin Traps
  BY SimAssumption DEF Trappables
<1>m. \A p \in Procs : /\ tstate[p] = "sprung" <=> st[p] = "terminated"
                       /\ tstate[p] = "sprung" => tstate'[p] = "sprung"
  BY <1>p, SprungStays DEF ExactInv
<1>k. ASSUME \A p \in Procs : /\ tstate'[p] = "sprung" => tstate[p] = "sprung"
                              /\ st'[p] = "terminated" <=> st[p] = "terminated"
      PROVE  \A p \in Procs : tstate'[p] = "sprung" <=> st'[p] = "terminated"
  BY <1>k, <1>m
<1>1. ASSUME NEW x \in Traps, Trigger(x)
      PROVE  \A p \in Procs : tstate'[p] = "sprung" <=> st'[p] = "terminated"
  <2>1. x \in Trappables /\ Springs(x, "sprung", st)
    BY <1>1, <1>v, TriggerSprings DEF Trappables
  <2> QED BY <2>1, <1>k, <1>p DEF Springs
<1>2. ASSUME NEW p \in Procs, Kill(p) \/ (Terminate(p) /\ st[p] = "running")
      PROVE  \A q \in Procs : tstate'[q] = "sprung" <=> st'[q] = "terminated"
  <2> DEFINE dead == [st EXCEPT ![p] = "terminated"]
  <2>1. Springs(p, "sprung", dead)
    BY <1>2, <1>v, DeathSprings
  <2>2. /\ dead[p] = "terminated"
        /\ \A q \in Procs \ {p} : dead[q] = st[q]
    BY <1>v DEF Typed
  <2> HIDE DEF dead
  <2> QED BY <2>1, <2>2, <1>m, <1>p DEF Springs
<1>3. ASSUME NEW e \in Evts, ProcessDirectEvent(e)
      PROVE  \A p \in Procs : tstate'[p] = "sprung" <=> st'[p] = "terminated"
  <2>1. PICK after : after = IF tstate[e] = "none" \/ intv[e] > 0 THEN "none" ELSE "sprung"
    OBVIOUS
  <2>2. e \in Trappables /\ Springs(e, after, st)
    BY <1>3, <1>v, <2>1, EventSprings DEF Trappables
  <2> QED BY <2>2, <1>k, <1>p DEF Springs
<1>4. ASSUME NEW x \in Traps, TrapWait(x)
      PROVE  \A p \in Procs : tstate'[p] = "sprung" <=> st'[p] = "terminated"
  <2>1. PICK p \in Procs : /\ st[p] = "running" /\ st' = [st EXCEPT ![p] = "suspended"]
                           /\ tstate' = [tstate EXCEPT ![x] = "set"]
    BY <1>4, <1>v, TrapWaitDoes
  <2> QED BY <2>1, <1>k, <1>p, <1>v DEF Typed, TypeOK
<1>5. ASSUME NEW e \in Evts,
             \/ Cancel(e)
             \/ \E t \in Times : Resched(e, t) \/ \E r \in Intvs : Sched(e, t, r)
      PROVE  \A p \in Procs : tstate'[p] = "sprung" <=> st'[p] = "terminated"
  <2>1. /\ st' = st
        /\ \A x \in Trappables : tstate'[x] = tstate[x] \/ tstate'[x] = "none"
    BY <1>5, <1>v, EventCallDoes
  <2> QED BY <2>1, <1>k, <1>p
<1>6. ASSUME NEW p \in Procs, NEW t \in Times, Process(p, t)
      PROVE  \A q \in Procs : tstate'[q] = "sprung" <=> st'[q] = "terminated"
  <2>1. st[p] = "unborn" /\ st' = [st EXCEPT ![p] = "started"] /\ tstate' = tstate
    BY <1>6, <1>v, CreateDoes
  <2> QED BY <2>1, <1>k, <1>v DEF Typed
<1>7. ASSUME NEW p \in Procs, NEW k \in Kinds, ProcessProcessEvent(<<p, k>>)
      PROVE  \A q \in Procs : tstate'[q] = "sprung" <=> st'[q] = "terminated"
  <2>1. /\ st'[p] = IF st[p] \in {"started", "suspended"} THEN "running" ELSE st[p]
        /\ tstate' = tstate /\ \A q \in Procs \ {p} : Kept(q)
    BY <1>7, <1>v, FireDoes
  <2> QED BY <2>1, <1>k DEF Kept
<1>8. ASSUME NEW t \in Times, Sleep(t)
      PROVE  \A p \in Procs : tstate'[p] = "sprung" <=> st'[p] = "terminated"
  <2>1. PICK p \in Procs : /\ st[p] = "running" /\ st' = [st EXCEPT ![p] = "suspended"]
                           /\ tstate' = tstate
    BY <1>8, <1>v, SleepDoes
  <2> QED BY <2>1, <1>k, <1>v DEF Typed
<1>9. ASSUME NEW p \in Procs, SleepReturn(p) \/ TrapWaitReturn(p)
      PROVE  \A q \in Procs : tstate'[q] = "sprung" <=> st'[q] = "terminated"
  BY <1>9, <1>k, <1>v, ReturnDoes
<1>10. ASSUME NEW ts \in WaitLists, NEW every \in BOOLEAN, WaitAtOnce(ts, every)
       PROVE  \A p \in Procs : tstate'[p] = "sprung" <=> st'[p] = "terminated"
  <2>1. /\ st' = st
        /\ \A x \in Trappables : tstate'[x] = tstate[x] \/ tstate'[x] = "unset"
    BY <1>10, <1>v, WaitAtOnceDoes
  <2> QED BY <2>1, <1>k, <1>p
<1>11. ASSUME NEW ts \in WaitLists, NEW every \in BOOLEAN, NEW limit \in Times \cup {Inf},
              WaitBlocks(ts, every, limit)
       PROVE  \A p \in Procs : tstate'[p] = "sprung" <=> st'[p] = "terminated"
  <2>1. PICK p \in Procs, trig \in [DOMAIN ts -> BOOLEAN] : Blocks(p, ts, trig, every, limit)
    BY <1>11, <1>v, WaitBlocksDoes
  <2>2. /\ st[p] = "running" /\ st' = [st EXCEPT ![p] = "suspended"]
        /\ \A x \in Trappables : tstate'[x] = tstate[x] \/ tstate'[x] = "set"
    BY <2>1 DEF Blocks
  <2> QED BY <2>2, <1>k, <1>p, <1>v DEF Typed
<1>12. ASSUME NEW p \in Procs, WaitReturn(p)
       PROVE  \A q \in Procs : tstate'[q] = "sprung" <=> st'[q] = "terminated"
  <2>1. /\ st' = st
        /\ \A x \in Trappables : tstate'[x] = tstate[x] \/ tstate'[x] = "unset"
    BY <1>12, <1>v, WaitReturnDoes
  <2> QED BY <2>1, <1>k, <1>p
<1>13. ASSUME NEW p \in Procs, WaitAgain(p)
       PROVE  \A q \in Procs : tstate'[q] = "sprung" <=> st'[q] = "terminated"
  <2>1. st[p] = "running" /\ st' = [st EXCEPT ![p] = "suspended"] /\ tstate' = tstate
    BY <1>13, <1>v, WaitAgainDoes
  <2> QED BY <2>1, <1>k, <1>v DEF Typed
<1>14. CASE Hands
  BY <1>14, <1>k, <1>v, HandsDoes
<1> QED BY <1>1, <1>2, <1>3, <1>4, <1>5, <1>6, <1>7, <1>8, <1>9, <1>10, <1>11, <1>12, <1>13,
        <1>14, StepKinds

\* What a step does not touch stays exact.
LEMMA KeptExact ==
  ASSUME NEW p \in Procs, ExactOK(p), Kept(p), acting[p] \subseteq Trappables,
         call[p].op = "wait" => \A i \in DOMAIN call[p].ts : call[p].ts[i] \in Trappables,
         \A x \in Trappables \ Evts : tstate[x] = "sprung" => tstate'[x] = "sprung"
  PROVE  ExactOK(p)'
<1>1. /\ st'[p] = st[p] /\ call'[p] = call[p] /\ acting'[p] = acting[p]
      /\ \A x \in Trappables : p \in ToSet(blocked'[x]) <=> p \in ToSet(blocked[x])
      /\ \A x : WaitsFor(p, x)' <=> WaitsFor(p, x)
  BY DEF Kept, WaitsFor
<1>2. BlockedExact(p)'
  BY <1>1 DEF BlockedExact, ExactOK
<1>3. ToldRight(p)'
  BY <1>1 DEF ToldRight, ExactOK
<1>4. NotMet(p)'
  BY <1>1 DEF NotMet, ExactOK
<1> QED BY <1>2, <1>3, <1>4 DEF ExactOK

\* So does what a trigger tells a process.
LEMMA SpringExact ==
  ASSUME NEW p \in Procs, ExactOK(p), acting[p] \subseteq Trappables,
         call[p].op = "wait" => \A i \in DOMAIN call[p].ts : call[p].ts[i] \in Trappables,
         \A y \in Trappables \ Evts : tstate[y] = "sprung" => tstate'[y] = "sprung",
         NEW x \in Trappables, NEW after, NEW states, Springs(x, after, states),
         x \in Evts \/ after = "sprung",
         states[p] = st[p] \/ states[p] = "terminated"
  PROVE  ExactOK(p)'
<1>1. /\ call'[p] = call[p]
      /\ acting'[p] = IF p \in ToSet(blocked[x]) THEN acting[p] \cup {x} ELSE acting[p]
      /\ \A y \in Trappables \ {x} : blocked'[y] = blocked[y]
      /\ tstate'[x] = after
      /\ st'[p] = "suspended" => st[p] = "suspended"
  BY DEF Springs
<1>w. \A y : WaitsFor(p, y)' <=> WaitsFor(p, y)
  BY <1>1 DEF WaitsFor
<1>2. BlockedExact(p)'
  BY <1>1, <1>w DEF BlockedExact, ExactOK
<1>3. ToldRight(p)'
  BY <1>1 DEF ToldRight, ExactOK
<1>4. NotMet(p)'
  BY <1>1 DEF NotMet, ExactOK
<1> QED BY <1>2, <1>3, <1>4 DEF ExactOK

\* A process without a call has been told nothing and waits for nothing.
LEMMA IdleExact ==
  ASSUME Typed, NEW p \in Procs, ProcOK(p), call[p] = Idle \/ call[p].op = "sleep"
  PROVE  acting[p] = {} /\ ExactOK(p)
<1>1. /\ \A x : ~WaitsFor(p, x)
      /\ call[p].op # "wait"
  BY WaitsForKinds
<1>2. acting[p] = {}
  BY <1>1 DEF ProcOK, ActingWaits
<1> QED BY <1>1, <1>2 DEF ExactOK, BlockedExact, ToldRight, NotMet

\* Every step keeps the waits exact.
LEMMA ExactStep ==
  ASSUME Distinct, ExactInv, WaitInv', Next
  PROVE  \A p \in Procs : ExactOK(p)'
<1>v. Typed /\ Typed'
  BY SchedTyped DEF ExactInv, WaitInv, SchedInv, Typed, SP!IInv, SP!TypeOK
<1>s. \A x \in Trappables \ Evts : tstate[x] = "sprung" => tstate'[x] = "sprung"
  BY SprungStays
<1>y. ASSUME NEW p \in Procs
      PROVE  /\ ExactOK(p) /\ acting[p] \subseteq Trappables
             /\ call[p].op = "wait" => \A i \in DOMAIN call[p].ts : call[p].ts[i] \in Trappables
  <2>1. call[p].op = "wait" => call[p].ts \in WaitLists
    BY <1>v, CallFields DEF Typed, TypeOK
  <2> QED BY <1>v, <2>1, ListTypes DEF ExactInv, Typed, TypeOK
<1>k. ASSUME NEW p \in Procs, \A q \in Procs \ {p} : Kept(q), ExactOK(p)'
      PROVE  \A q \in Procs : ExactOK(q)'
  <2>1. ASSUME NEW q \in Procs \ {p} PROVE ExactOK(q)'
    BY <1>k, <1>s, <1>y, KeptExact
  <2> QED BY <1>k, <2>1
<1>a. ASSUME \A q \in Procs : Kept(q) PROVE \A p \in Procs : ExactOK(p)'
  BY <1>a, <1>s, <1>y, KeptExact
<1>i. ASSUME NEW p \in Procs, call'[p] = Idle \/ call'[p].op = "sleep" PROVE ExactOK(p)'
  <2>1. call'[p].op \notin {"trapwait", "wait"}
    BY <1>i, CallKinds
  <2>2. \A x : ~WaitsFor(p, x)'
    BY <2>1 DEF WaitsFor
  <2>3. acting'[p] = {}
    BY <2>2 DEF WaitInv, ProcOK, ActingWaits
  <2> QED BY <2>1, <2>2, <2>3 DEF ExactOK, BlockedExact, ToldRight, NotMet
<1>1. ASSUME NEW x \in Traps, Trigger(x) PROVE \A p \in Procs : ExactOK(p)'
  <2>1. x \in Trappables /\ Springs(x, "sprung", st)
    BY <1>1, <1>v, TriggerSprings DEF Trappables
  <2> QED BY <2>1, <1>s, <1>y, SpringExact
<1>2. ASSUME NEW p \in Procs, Kill(p) \/ (Terminate(p) /\ st[p] = "running")
      PROVE  \A q \in Procs : ExactOK(q)'
  <2> DEFINE dead == [st EXCEPT ![p] = "terminated"]
  <2>1. Springs(p, "sprung", dead) /\ p \in Trappables
    BY <1>2, <1>v, DeathSprings DEF Trappables
  <2>2. \A q \in Procs : dead[q] = st[q] \/ dead[q] = "terminated"
    BY <1>v DEF Typed
  <2> HIDE DEF dead
  <2> QED BY <2>1, <2>2, <1>s, <1>y, SpringExact
<1>3. ASSUME NEW e \in Evts, ProcessDirectEvent(e) PROVE \A p \in Procs : ExactOK(p)'
  <2>1. PICK after : after = IF tstate[e] = "none" \/ intv[e] > 0 THEN "none" ELSE "sprung"
    OBVIOUS
  <2>2. e \in Trappables /\ Springs(e, after, st)
    BY <1>3, <1>v, <2>1, EventSprings DEF Trappables
  <2> QED BY <2>2, <1>s, <1>y, SpringExact
<1>4. ASSUME NEW x \in Traps, TrapWait(x) PROVE \A p \in Procs : ExactOK(p)'
  <2>1. PICK p \in Procs : /\ call[p] = Idle /\ acting' = acting
                           /\ call' = [call EXCEPT ![p] = TrapWaiting(x)]
                           /\ ToSet(blocked'[x]) = ToSet(blocked[x]) \cup {p}
                           /\ \A q \in Procs \ {p} : Kept(q)
    BY <1>4, <1>v, TrapWaitDoes
  <2>2. call'[p].op = "trapwait" /\ call'[p].ts = <<x>> /\ acting'[p] = {}
    BY <1>v, <2>1, CallKinds, IdleExact DEF Typed, TypeOK, ExactInv, WaitInv
  <2>3. \A y : WaitsFor(p, y)' <=> y = x
    BY <2>2 DEF WaitsFor
  <2>4. ExactOK(p)'
    BY <2>1, <2>2, <2>3 DEF ExactOK, BlockedExact, ToldRight, NotMet
  <2> QED BY <2>1, <2>4, <1>k
<1>5. ASSUME NEW e \in Evts,
             \/ Cancel(e)
             \/ \E t \in Times : Resched(e, t) \/ \E r \in Intvs : Sched(e, t, r)
      PROVE  \A p \in Procs : ExactOK(p)'
  BY <1>5, <1>a, <1>v, EventCallDoes
<1>6. ASSUME NEW p \in Procs, NEW t \in Times, Process(p, t) PROVE \A q \in Procs : ExactOK(q)'
  <2>1. st[p] = "unborn" /\ call' = call /\ \A q \in Procs \ {p} : Kept(q)
    BY <1>6, <1>v, CreateDoes
  <2>2. call'[p] = Idle
    BY <2>1 DEF ExactInv, WaitInv, ProcOK, StartAgrees
  <2> QED BY <2>1, <2>2, <1>i, <1>k
<1>7. ASSUME NEW p \in Procs, NEW k \in Kinds, ProcessProcessEvent(<<p, k>>)
      PROVE  \A q \in Procs : ExactOK(q)'
  <2>1. /\ UNCHANGED <<call, acting, tstate, blocked>>
        /\ st'[p] = IF st[p] \in {"started", "suspended"} THEN "running" ELSE st[p]
        /\ \A q \in Procs \ {p} : Kept(q)
    BY <1>7, <1>v, FireDoes
  <2>2. \A x : WaitsFor(p, x)' <=> WaitsFor(p, x)
    BY <2>1 DEF WaitsFor
  <2>3. ExactOK(p)'
    BY <2>1, <2>2, <1>y DEF ExactOK, BlockedExact, ToldRight, NotMet
  <2> QED BY <2>1, <2>3, <1>k
<1>8. ASSUME NEW t \in Times, Sleep(t) PROVE \A p \in Procs : ExactOK(p)'
  <2>1. PICK p \in Procs : /\ call' = [call EXCEPT ![p] = Sleeping(t)]
                           /\ \A q \in Procs \ {p} : Kept(q)
    BY <1>8, <1>v, SleepDoes
  <2>2. call'[p].op = "sleep"
    BY <1>v, <2>1, CallKinds DEF Typed, TypeOK
  <2> QED BY <2>1, <2>2, <1>i, <1>k
<1>9. ASSUME NEW p \in Procs, SleepReturn(p) \/ TrapWaitReturn(p) \/ WaitReturn(p)
      PROVE  \A q \in Procs : ExactOK(q)'
  <2>1. call' = [call EXCEPT ![p] = Idle] /\ \A q \in Procs \ {p} : Kept(q)
    BY <1>9, <1>v, ReturnDoes, WaitReturnDoes
  <2>2. call'[p] = Idle
    BY <1>v, <2>1 DEF Typed, TypeOK
  <2> QED BY <2>1, <2>2, <1>i, <1>k
<1>10. ASSUME NEW ts \in WaitLists, NEW every \in BOOLEAN, WaitAtOnce(ts, every)
       PROVE  \A p \in Procs : ExactOK(p)'
  BY <1>10, <1>a, <1>v, WaitAtOnceDoes
<1>11. ASSUME NEW ts \in WaitLists, NEW every \in BOOLEAN, NEW limit \in Times \cup {Inf},
              WaitBlocks(ts, every, limit)
       PROVE  \A p \in Procs : ExactOK(p)'
  <2>1. PICK p \in Procs, trig \in [DOMAIN ts -> BOOLEAN] : Blocks(p, ts, trig, every, limit)
    BY <1>11, <1>v, WaitBlocksDoes
  <2> DEFINE c == Waiting(ts, trig, every, limit)
  <2>2. c.op = "wait" /\ c.ts = ts /\ c.trig = trig /\ c.every = every
    BY WaitingProps
  <2> HIDE DEF c
  <2>3. call'[p] = c /\ call[p] = Idle /\ acting'[p] = acting[p] /\ ~Met(every, trig)
    BY <1>v, <2>1 DEF Blocks, Typed, TypeOK, c
  <2>4. acting'[p] = {}
    BY <1>v, <2>3, IdleExact DEF ExactInv, WaitInv
  <2>5. \A y : WaitsFor(p, y)' <=> \E i \in DOMAIN ts : ts[i] = y /\ ~trig[i]
    BY <2>2, <2>3 DEF WaitsFor
  <2>6. BlockedExact(p)'
    <3> SUFFICES ASSUME NEW y \in Trappables, \E i \in DOMAIN ts : ts[i] = y /\ ~trig[i]
                 PROVE  p \in ToSet(blocked'[y])
      BY <2>5 DEF BlockedExact
    <3>1. ToSet(blocked'[y]) = ToSet(blocked[y]) \cup {p}
      BY <2>1 DEF Blocks
    <3> QED BY <3>1
  <2>7. ToldRight(p)'
    <3>1. ASSUME NEW i \in DOMAIN ts, trig[i], ts[i] \notin Evts
          PROVE  tstate'[ts[i]] = "sprung"
      <4>1. tstate[ts[i]] = "sprung"
        BY <2>1, <3>1 DEF Blocks, Triggered
      <4>2. ts[i] \in Trappables
        BY ListTypes
      <4> QED BY <4>1, <4>2, <3>1, <1>s
    <3> QED BY <2>2, <2>3, <2>4, <3>1 DEF ToldRight
  <2>8. NotMet(p)'
    BY <2>2, <2>3 DEF NotMet
  <2>9. \A q \in Procs \ {p} : Kept(q)
    BY <2>1 DEF Blocks
  <2> QED BY <2>6, <2>7, <2>8, <2>9, <1>k DEF ExactOK
<1>12. ASSUME NEW p \in Procs, WaitAgain(p) PROVE \A q \in Procs : ExactOK(q)'
  <2>1. /\ call[p].op = "wait" /\ ~Met(call[p].every, Mask(p))
        /\ call' = [call EXCEPT ![p] = Waiting(call[p].ts, Mask(p), call[p].every, call[p].limit)]
        /\ acting' = [acting EXCEPT ![p] = @ \ ToSet(call[p].ts)]
        /\ UNCHANGED <<tstate, blocked>>
        /\ \A q \in Procs \ {p} : Kept(q)
    BY <1>12, <1>v, WaitAgainDoes
  <2> DEFINE c == Waiting(call[p].ts, Mask(p), call[p].every, call[p].limit)
  <2>f. /\ call[p].ts \in WaitLists /\ call[p].every \in BOOLEAN /\ call[p].limit \in Times \cup {Inf}
    BY <1>v, <2>1, CallFields DEF Typed, TypeOK
  <2>m. /\ Mask(p) \in [DOMAIN call[p].ts -> BOOLEAN]
        /\ \A i \in DOMAIN call[p].ts : Mask(p)[i] <=> call[p].trig[i] \/ call[p].ts[i] \in acting[p]
    BY <1>v, <2>1, <2>f, MaskProps DEF Distinct
  <2>2. c.op = "wait" /\ c.ts = call[p].ts /\ c.trig = Mask(p) /\ c.every = call[p].every
    BY <2>f, <2>m, WaitingProps
  <2> HIDE DEF c
  <2>3. call'[p] = c
    BY <1>v, <2>1 DEF Typed, TypeOK, c
  <2>4. acting'[p] \subseteq acting[p]
    BY <1>v, <2>1 DEF Typed, TypeOK
  <2>5. acting'[p] = {}
    <3>1. \A y \in acting[p] : y \in ToSet(call[p].ts)
      BY <1>v, WaitsForKinds DEF ExactInv, WaitInv, ProcOK, ActingWaits
    <3> QED BY <1>v, <2>1, <3>1 DEF Typed, TypeOK
  <2>6. BlockedExact(p)'
    <3> SUFFICES ASSUME NEW y \in Trappables, WaitsFor(p, y)' PROVE p \in ToSet(blocked[y])
      BY <2>1 DEF BlockedExact
    <3>1. PICK i \in DOMAIN call[p].ts : call[p].ts[i] = y /\ ~Mask(p)[i]
      BY <2>2, <2>3 DEF WaitsFor
    <3>2. ~call[p].trig[i] /\ y \notin acting[p]
      BY <2>m, <3>1
    <3>3. WaitsFor(p, y)
      BY <1>v, <2>1, <3>1, <3>2, WaitsForKinds
    <3> QED BY <1>y, <3>2, <3>3 DEF ExactOK, BlockedExact
  <2>7. ToldRight(p)'
    <3>1. ASSUME NEW i \in DOMAIN call[p].ts, Mask(p)[i], call[p].ts[i] \notin Evts
          PROVE  tstate'[call[p].ts[i]] = "sprung"
      BY <1>y, <2>1, <2>m, <3>1 DEF ExactOK, ToldRight
    <3> QED BY <2>2, <2>3, <2>5, <3>1 DEF ToldRight
  <2>8. NotMet(p)'
    BY <2>1, <2>2, <2>3 DEF NotMet
  <2> QED BY <2>1, <2>6, <2>7, <2>8, <1>k DEF ExactOK
<1>13. CASE Hands
  BY <1>13, <1>a, <1>v, HandsDoes
<1> QED BY <1>1, <1>2, <1>3, <1>4, <1>5, <1>6, <1>7, <1>8, <1>9, <1>10, <1>11, <1>12, <1>13,
        StepKinds

\* No process is twice among the processes that are blocked on a trappable.
LEMMA OnceStep ==
  ASSUME Distinct, ExactInv, Next
  PROVE  \A x \in Trappables : IsInjective(blocked'[x])
<1>v. Typed /\ \A x \in Trappables : IsInjective(blocked[x])
  BY SchedTyped DEF ExactInv, WaitInv
<1>e. IsInjective(<<>>)
  BY DEF IsInjective
<1>s. ASSUME NEW x \in Trappables, NEW after, NEW states, Springs(x, after, states)
      PROVE  \A y \in Trappables : IsInjective(blocked'[y])
  BY <1>s, <1>v, <1>e DEF Springs
<1>i. ASSUME NEW p \in Procs, call[p] = Idle, NEW x \in Trappables
      PROVE  IsInjective(Append(blocked[x], p))
  <2>1. ~WaitsFor(p, x)
    BY <1>i, <1>v, WaitsForKinds
  <2>2. p \notin ToSet(blocked[x]) /\ blocked[x] \in Seq(Procs)
    BY <2>1, <1>v DEF ExactInv, WaitInv, ProcOK, BlockedWaits, Typed, TypeOK
  <2> QED BY <2>2, <1>v, SameProcs, SP!AppendProps DEF SP!ToSet, ToSet, SP!IsInjective, IsInjective
<1>1. ASSUME NEW x \in Traps, Trigger(x) PROVE \A y \in Trappables : IsInjective(blocked'[y])
  BY <1>1, <1>s, <1>v, TriggerSprings DEF Trappables
<1>2. ASSUME NEW p \in Procs, Kill(p) \/ (Terminate(p) /\ st[p] = "running")
      PROVE  \A y \in Trappables : IsInjective(blocked'[y])
  BY <1>2, <1>s, <1>v, DeathSprings DEF Trappables
<1>3. ASSUME NEW e \in Evts, ProcessDirectEvent(e)
      PROVE  \A y \in Trappables : IsInjective(blocked'[y])
  BY <1>3, <1>s, <1>v, EventSprings DEF Trappables
<1>4. ASSUME NEW x \in Traps, TrapWait(x) PROVE \A y \in Trappables : IsInjective(blocked'[y])
  <2>1. PICK p \in Procs : /\ call[p] = Idle
                           /\ blocked' = [blocked EXCEPT ![x] = Append(@, p)]
    BY <1>4, <1>v, TrapWaitDoes
  <2>2. x \in Trappables
    BY DEF Trappables
  <2> QED BY <2>1, <2>2, <1>i, <1>v DEF Typed, TypeOK
<1>5. ASSUME NEW ts \in WaitLists, NEW every \in BOOLEAN, NEW limit \in Times \cup {Inf},
             WaitBlocks(ts, every, limit)
      PROVE  \A y \in Trappables : IsInjective(blocked'[y])
  <2>1. PICK p \in Procs, trig \in [DOMAIN ts -> BOOLEAN] : Blocks(p, ts, trig, every, limit)
    BY <1>5, <1>v, WaitBlocksDoes
  <2>2. \A y \in Trappables : blocked'[y] = blocked[y] \/ blocked'[y] = Append(blocked[y], p)
    BY <2>1 DEF Blocks, Distinct
  <2>3. call[p] = Idle
    BY <2>1 DEF Blocks
  <2> QED BY <2>2, <2>3, <1>i, <1>v
<1>6. ASSUME NEW p \in Procs, WaitReturn(p)
      PROVE  \A y \in Trappables : IsInjective(blocked'[y])
  BY <1>6, <1>v, WaitReturnDoes
<1>7. ASSUME blocked' = blocked PROVE \A y \in Trappables : IsInjective(blocked'[y])
  BY <1>7, <1>v
<1>8. ASSUME NEW p \in Procs, WaitAgain(p) PROVE blocked' = blocked
  BY <1>8, <1>v, WaitAgainDoes
<1>9. ASSUME NEW p \in Procs, NEW t \in Times, Process(p, t) PROVE blocked' = blocked
  BY <1>9, <1>v, CreateDoes
<1>10. ASSUME NEW p \in Procs, NEW k \in Kinds, ProcessProcessEvent(<<p, k>>)
       PROVE  blocked' = blocked
  BY <1>10, <1>v, FireDoes
<1>11. ASSUME NEW t \in Times, Sleep(t) PROVE blocked' = blocked
  BY <1>11, <1>v, SleepDoes
<1>12. ASSUME NEW p \in Procs, SleepReturn(p) \/ TrapWaitReturn(p) PROVE blocked' = blocked
  BY <1>12, <1>v, ReturnDoes
<1>13. ASSUME NEW ts \in WaitLists, NEW every \in BOOLEAN, WaitAtOnce(ts, every)
       PROVE  blocked' = blocked
  BY <1>13, <1>v, WaitAtOnceDoes
<1>14. ASSUME NEW e \in Evts,
              \/ Cancel(e)
              \/ \E t \in Times : Resched(e, t) \/ \E r \in Intvs : Sched(e, t, r)
       PROVE  blocked' = blocked
  BY <1>14, <1>v, EventCallDoes
<1>15. CASE Hands
  BY <1>15, <1>7, <1>v, HandsDoes
<1> QED BY <1>1, <1>2, <1>3, <1>4, <1>5, <1>6, <1>7, <1>8, <1>9, <1>10, <1>11, <1>12, <1>13,
        <1>14, <1>15, StepKinds

\* Initially nobody is registered and nobody waits.
LEMMA InitExactInv == Init => ExactInv
<1> SUFFICES ASSUME Init PROVE ExactInv
  OBVIOUS
<1>1. WaitInv /\ Typed
  BY InitWaitInv, SchedTyped DEF WaitInv
<1>2. \A p \in Procs : /\ call[p] = Idle /\ st[p] = "unborn" /\ tstate[p] = "unset"
                       /\ OnTime(p)
  BY SimAssumption DEF Init, S!Init, Trappables, OnTime
<1>3. \A p \in Procs : ExactOK(p)
  BY <1>1, <1>2, IdleExact DEF WaitInv
<1>4. \A x \in Trappables : IsInjective(blocked[x])
  BY DEF Init, IsInjective
<1> QED BY <1>1, <1>2, <1>3, <1>4 DEF ExactInv

\* If no wait lists a trappable twice, all registrations stay exact.
LEMMA NextExactInv == Distinct /\ ExactInv /\ [Next]_vars => ExactInv'
<1> SUFFICES ASSUME Distinct, ExactInv, [Next]_vars PROVE ExactInv'
  OBVIOUS
<1>1. WaitInv'
  BY NextWaitInv DEF ExactInv
<1>2. CASE Next
  <2>1. \A p \in Procs : OnTime(p)'
    BY <1>1, <1>2, OnTimeStep DEF ExactInv
  <2>2. \A p \in Procs : ExactOK(p)'
    BY <1>1, <1>2, ExactStep
  <2> QED BY <1>1, <1>2, <2>1, <2>2, OnceStep, DeadMarked DEF ExactInv
<1>3. CASE UNCHANGED vars
  <2>1. UNCHANGED <<now, evlist, st, cur, tstate, blocked, acting, call>>
    BY <1>3 DEF vars, timeVars, elVars, schedVars, trapVars
  <2>2. \A p \in Procs : OnTime(p)' /\ ExactOK(p)'
    <3> SUFFICES ASSUME NEW p \in Procs PROVE OnTime(p)' /\ ExactOK(p)'
      OBVIOUS
    <3>1. OnTime(p) /\ ExactOK(p)
      BY DEF ExactInv
    <3>2. OnTime(p)'
      BY <2>1, <3>1 DEF OnTime, HasEvent
    <3>3. BlockedExact(p)'
      BY <2>1, <3>1 DEF ExactOK, BlockedExact, WaitsFor
    <3>4. ToldRight(p)' /\ NotMet(p)'
      BY <2>1, <3>1 DEF ExactOK, ToldRight, NotMet
    <3> QED BY <3>2, <3>3, <3>4 DEF ExactOK
  <2> QED BY <1>1, <2>1, <2>2 DEF ExactInv
<1> QED BY <1>2, <1>3

-----------------------------------------------------------------------------

\* No trap is triggered twice by what the simulator does, and a trap is set
\* exactly while someone is blocked on it.
THEOREM TriggersAreSafe == ASSUME Distinct PROVE Spec => []InternalTriggersSafe
<1>1. ExactInv => InternalTriggersSafe
  BY DEF ExactInv, WaitInv, TrapsOK, InternalTriggersSafe, EL!Pending
<1>2. ExactInv /\ [Next]_vars => ExactInv'
  BY NextExactInv
<1> QED BY <1>1, <1>2, InitExactInv, PTL DEF Spec

\* A live process is registered once with each trappable it waits for and was
\* not told of, and with no other.
THEOREM RegisteredExactly == ASSUME Distinct PROVE Spec => []RegistrationsExact
<1>1. ExactInv => RegistrationsExact
  <2> SUFFICES ASSUME ExactInv, NEW p \in Procs, S!Live(p)
               PROVE  /\ \A x \in Trappables :
                           Occurrences(p, blocked[x]) =
                             IF WaitsFor(p, x) /\ x \notin acting[p] THEN 1 ELSE 0
                      /\ \A x \in acting[p] : WaitsFor(p, x) /\ st[p] = "running"
    BY DEF RegistrationsExact
  <2>1. Typed /\ ProcOK(p) /\ BlockedExact(p) /\ \A x \in Trappables : IsInjective(blocked[x])
    BY SchedTyped DEF ExactInv, WaitInv, ExactOK
  <2>2. ASSUME NEW x \in Trappables
        PROVE  Occurrences(p, blocked[x]) =
                 IF WaitsFor(p, x) /\ x \notin acting[p] THEN 1 ELSE 0
    <3>1. p \in ToSet(blocked[x]) <=> WaitsFor(p, x) /\ x \notin acting[p]
      BY <2>1 DEF ProcOK, BlockedWaits, BlockedExact
    <3>2. blocked[x] \in Seq(Procs)
      BY <2>1 DEF Typed, TypeOK
    <3>3. CASE p \in ToSet(blocked[x])
      BY <2>1, <3>1, <3>2, <3>3, OccurrencesProps
    <3>4. CASE p \notin ToSet(blocked[x])
      <4>1. {i \in DOMAIN blocked[x] : blocked[x][i] = p} = {}
        BY <3>4 DEF ToSet
      <4>2. Occurrences(p, blocked[x]) = 0
        BY <4>1, FS_EmptySet DEF Occurrences
      <4> QED BY <3>1, <3>4, <4>2
    <3> QED BY <3>3, <3>4
  <2>3. \A x \in acting[p] : WaitsFor(p, x) /\ st[p] = "running"
    BY <2>1 DEF ProcOK, ActingWaits
  <2> QED BY <2>2, <2>3
<1>2. ExactInv /\ [Next]_vars => ExactInv'
  BY NextExactInv
<1> QED BY <1>1, <1>2, InitExactInv, PTL DEF Spec

\* What a process was told is what has happened, in every kind of trappable.
LEMMA HappenedWhenTold ==
  ASSUME Distinct, ExactInv, NEW p \in Procs, call[p].op \in {"trapwait", "wait"},
         NEW i \in DOMAIN call[p].ts
  PROVE  LET x == call[p].ts[i]
         IN Happened(p, x) <=> \/ call[p].op = "wait" /\ call[p].trig[i]
                               \/ x \in acting[p]
<1> DEFINE x == call[p].ts[i]
<1>1. Typed /\ ProcOK(p) /\ ExactOK(p)
  BY SchedTyped DEF ExactInv, WaitInv
<1>2. /\ call[p].op = "wait" => call[p].ts \in WaitLists
      /\ call[p].op = "trapwait" => \E y \in Traps : call[p].ts = <<y>>
  BY <1>1, CallFields DEF Typed, TypeOK
<1>3. x \in Trappables /\ IsInjective(call[p].ts) /\ (call[p].op = "trapwait" => x \in Traps)
  <2>1. CASE call[p].op = "wait"
    BY <1>2, <2>1, ListTypes DEF Distinct
  <2>2. CASE call[p].op = "trapwait"
    BY <1>2, <2>2 DEF Trappables, IsInjective
  <2> QED BY <2>1, <2>2
<1>4. WaitsFor(p, x) <=> ~(call[p].op = "wait" /\ call[p].trig[i])
  BY <1>3 DEF WaitsFor, IsInjective
<1>5. p \in ToSet(blocked[x]) <=> WaitsFor(p, x) /\ x \notin acting[p]
  BY <1>1, <1>3 DEF ProcOK, BlockedWaits, ExactOK, BlockedExact
<1>6. p \in ToSet(blocked[x]) => tstate[x] = "set"
  BY <1>3, EmptyTrap DEF ExactInv, WaitInv, TrapsOK
<1>7. x \notin Evts /\ ((call[p].op = "wait" /\ call[p].trig[i]) \/ x \in acting[p])
         => tstate[x] = "sprung"
  BY <1>1 DEF ExactOK, ToldRight
<1>8. Happened(p, x) <=> IF x \in Evts THEN p \notin ToSet(blocked[x]) ELSE tstate[x] = "sprung"
  BY <1>3 DEF Happened, ExactInv
<1> HIDE DEF x
<1>9. Happened(p, x) <=> \/ call[p].op = "wait" /\ call[p].trig[i]
                         \/ x \in acting[p]
  BY <1>4, <1>5, <1>6, <1>7, <1>8
<1> QED BY <1>9 DEF x

\* No process stays suspended in a wait whose condition is met, or on a trap
\* that is sprung.
THEOREM NoWakeupLost == ASSUME Distinct PROVE Spec => []NoLostWakeup
<1>1. ExactInv => NoLostWakeup
  <2> SUFFICES ASSUME ExactInv, NEW p \in Procs, st[p] = "suspended"
               PROVE  CASE call[p].op = "trapwait" -> ~Happened(p, call[p].ts[1])
                        [] call[p].op = "wait" ->
                             ~Met(call[p].every,
                                  [i \in DOMAIN call[p].ts |-> Happened(p, call[p].ts[i])])
                        [] OTHER -> TRUE
    BY DEF NoLostWakeup
  <2>1. Typed /\ ProcOK(p) /\ ExactOK(p)
    BY SchedTyped DEF ExactInv, WaitInv
  <2>2. acting[p] = {}
    BY <2>1 DEF ProcOK, ActingWaits, S!Live
  <2>3. ASSUME call[p].op = "trapwait" PROVE ~Happened(p, call[p].ts[1])
    <3>1. 1 \in DOMAIN call[p].ts
      BY <2>1, <2>3, CallFields DEF Typed, TypeOK
    <3> QED BY <2>2, <2>3, <3>1, HappenedWhenTold
  <2>4. ASSUME call[p].op = "wait"
        PROVE  ~Met(call[p].every, [i \in DOMAIN call[p].ts |-> Happened(p, call[p].ts[i])])
    <3> DEFINE m == [i \in DOMAIN call[p].ts |-> Happened(p, call[p].ts[i])]
    <3>1. \A i \in DOMAIN call[p].ts : m[i] <=> call[p].trig[i]
      BY <2>2, <2>4, HappenedWhenTold
    <3>2. DOMAIN m = DOMAIN call[p].ts
      OBVIOUS
    <3>3. DOMAIN call[p].trig = DOMAIN call[p].ts /\ call[p].every \in BOOLEAN
      BY <2>1, <2>4, CallFields DEF Typed, TypeOK
    <3>4. ~Met(call[p].every, call[p].trig)
      BY <2>1, <2>4 DEF ExactOK, NotMet
    <3> HIDE DEF m
    <3>5. ~Met(call[p].every, m)
      BY <3>1, <3>2, <3>3, <3>4 DEF Met
    <3> QED BY <3>5 DEF m
  <2> QED BY <2>3, <2>4
<1>2. ExactInv /\ [Next]_vars => ExactInv'
  BY NextExactInv
<1> QED BY <1>1, <1>2, InitExactInv, PTL DEF Spec

\* The steps that end a blocking call.
LEMMA CallEnds ==
  ASSUME Typed, [Next]_vars, NEW p \in Procs, call[p] # Idle, call'[p] = Idle
  PROVE  SleepReturn(p) \/ TrapWaitReturn(p) \/ WaitReturn(p)
<1>0. Next
  BY DEF vars
<1>k. ASSUME NEW q \in Procs, \A r \in Procs \ {q} : Kept(r) PROVE q = p
  BY <1>k DEF Kept
<1>s. ASSUME NEW x, NEW after, NEW states, Springs(x, after, states) PROVE FALSE
  BY <1>s DEF Springs
<1>1. ASSUME NEW x \in Traps, Trigger(x) PROVE FALSE
  BY <1>1, <1>s, TriggerSprings
<1>2. ASSUME NEW q \in Procs, Kill(q) \/ (Terminate(q) /\ st[q] = "running") PROVE FALSE
  BY <1>2, <1>s, DeathSprings
<1>3. ASSUME NEW e \in Evts, ProcessDirectEvent(e) PROVE FALSE
  BY <1>3, <1>s, EventSprings
<1>4. ASSUME NEW x \in Traps, TrapWait(x) PROVE FALSE
  <2>1. PICK q \in Procs : call[q] = Idle /\ \A r \in Procs \ {q} : Kept(r)
    BY <1>4, TrapWaitDoes
  <2> QED BY <2>1, <1>k
<1>5. ASSUME NEW e \in Evts,
             \/ Cancel(e)
             \/ \E t \in Times : Resched(e, t) \/ \E r \in Intvs : Sched(e, t, r)
      PROVE  FALSE
  BY <1>5, EventCallDoes
<1>6. ASSUME NEW q \in Procs, NEW t \in Times, Process(q, t) PROVE FALSE
  BY <1>6, CreateDoes
<1>7. ASSUME NEW q \in Procs, NEW k \in Kinds, ProcessProcessEvent(<<q, k>>) PROVE FALSE
  BY <1>7, FireDoes
<1>8. ASSUME NEW t \in Times, Sleep(t) PROVE FALSE
  <2>1. PICK q \in Procs : call[q] = Idle /\ \A r \in Procs \ {q} : Kept(r)
    BY <1>8, SleepDoes
  <2> QED BY <2>1, <1>k
<1>9. ASSUME NEW q \in Procs, SleepReturn(q) \/ TrapWaitReturn(q)
      PROVE  SleepReturn(p) \/ TrapWaitReturn(p)
  BY <1>9, <1>k, ReturnDoes
<1>10. ASSUME NEW ts \in WaitLists, NEW every \in BOOLEAN, WaitAtOnce(ts, every) PROVE FALSE
  BY <1>10, WaitAtOnceDoes
<1>11. ASSUME NEW ts \in WaitLists, NEW every \in BOOLEAN, NEW limit \in Times \cup {Inf},
              WaitBlocks(ts, every, limit)
       PROVE  FALSE
  <2>1. PICK q \in Procs, trig \in [DOMAIN ts -> BOOLEAN] : Blocks(q, ts, trig, every, limit)
    BY <1>11, WaitBlocksDoes
  <2>2. call[q] = Idle /\ \A r \in Procs \ {q} : Kept(r)
    BY <2>1 DEF Blocks
  <2> QED BY <2>2, <1>k
<1>12. ASSUME NEW q \in Procs, WaitReturn(q) PROVE WaitReturn(p)
  BY <1>12, <1>k, WaitReturnDoes
<1>13. ASSUME NEW q \in Procs, WaitAgain(q) PROVE FALSE
  <2>1. /\ \A r \in Procs \ {q} : Kept(r)
        /\ call' = [call EXCEPT ![q] = Waiting(call[q].ts, Mask(q), call[q].every, call[q].limit)]
    BY <1>13, WaitAgainDoes
  <2>2. Waiting(call[q].ts, Mask(q), call[q].every, call[q].limit) = Idle
    BY <2>1, <1>k DEF Typed, TypeOK
  <2> QED BY <2>2 DEF Waiting, Idle
<1>14. CASE Hands
  BY <1>14, HandsDoes
<1> QED BY <1>0, <1>1, <1>2, <1>3, <1>4, <1>5, <1>6, <1>7, <1>8, <1>9, <1>10, <1>11, <1>12,
        <1>13, <1>14, StepKinds

\* A blocking call returns when what it promises holds: a sleep on time, a
\* wait on time or when its condition is met, with the right answer.
THEOREM CallsAnswerRight == ASSUME Distinct PROVE Spec => CallsReturnRight
<1>1. ASSUME ExactInv, [Next]_vars, NEW p \in Procs, cur = p, call[p] # Idle, call'[p] = Idle
      PROVE  CASE call[p].op = "sleep"    -> now = call[p].limit
               [] call[p].op = "trapwait" -> Happened(p, call[p].ts[1])
               [] call[p].op = "wait" ->
                    LET mask == [i \in DOMAIN call[p].ts |-> Happened(p, call[p].ts[i])]
                    IN /\ Mask(p) = mask
                       /\ now <= call[p].limit
                       /\ now = call[p].limit \/ Met(call[p].every, mask)
  <2>1. Typed /\ ProcOK(p) /\ ExactOK(p) /\ OnTime(p) /\ IInv
    BY <1>1, SchedTyped DEF ExactInv, WaitInv
  <2>2. /\ st[p] = "running" /\ S!Live(p)
        /\ call[p].op \in {"sleep", "trapwait", "wait"}
    BY <1>1, <2>1, CallFields DEF ProcOK, StartAgrees, S!Live, Typed, TypeOK
  <2>3. call[p].op = "sleep" => now = call[p].limit
    BY <2>1, <2>2 DEF OnTime
  <2>4. ASSUME call[p].op = "trapwait" PROVE Happened(p, call[p].ts[1])
    <3>1. PICK x \in Traps : call[p].ts = <<x>>
      BY <2>1, <2>4, CallFields DEF Typed, TypeOK
    <3>2. WaitsFor(p, x) /\ x \in Trappables
      BY <2>1, <2>4, <3>1, WaitsForKinds DEF Trappables
    <3>3. x \in acting[p]
      BY <2>1, <2>2, <2>4, <3>2 DEF ProcOK, BlockedWaits, ExactOK, BlockedExact
    <3>4. 1 \in DOMAIN call[p].ts /\ call[p].ts[1] = x
      BY <3>1
    <3> QED BY <1>1, <2>4, <3>3, <3>4, HappenedWhenTold
  <2>5. ASSUME call[p].op = "wait"
        PROVE  LET mask == [i \in DOMAIN call[p].ts |-> Happened(p, call[p].ts[i])]
               IN /\ Mask(p) = mask
                  /\ now <= call[p].limit
                  /\ now = call[p].limit \/ Met(call[p].every, mask)
    <3> DEFINE mask == [i \in DOMAIN call[p].ts |-> Happened(p, call[p].ts[i])]
    <3>1. WaitReturn(p)
      BY <1>1, <2>1, <2>5, CallEnds DEF SleepReturn, TrapWaitReturn
    <3>2. /\ IsInjective(call[p].ts) /\ Mask(p) \in [DOMAIN call[p].ts -> BOOLEAN]
          /\ \A i \in DOMAIN call[p].ts :
               Mask(p)[i] <=> call[p].trig[i] \/ call[p].ts[i] \in acting[p]
      BY <2>1, <2>5, MaskProps DEF Distinct
    <3>3. \A i \in DOMAIN call[p].ts : Mask(p)[i] <=> Happened(p, call[p].ts[i])
      BY <1>1, <2>5, <3>2, HappenedWhenTold
    <3>4. \A i \in DOMAIN call[p].ts : Happened(p, call[p].ts[i]) \in BOOLEAN
      BY DEF Happened
    <3>5. Mask(p) = mask
      BY <3>2, <3>3, <3>4
    <3>6. call[p].limit \in Times \cup {Inf}
      BY <2>1, <2>5, CallFields DEF Typed, TypeOK
    <3>7. now \in Int /\ now <= MaxTime
      BY <2>1, TimeFacts DEF IInv
    <3>8. call[p].limit < Inf /\ ~HasEvent(p, "timeout") => now = call[p].limit
      BY <2>1, <2>2, <2>5 DEF OnTime
    <3>9. now <= call[p].limit
      <4>1. CASE call[p].limit = Inf
        BY <3>7, <4>1, TimeFacts
      <4>2. CASE call[p].limit # Inf /\ HasEvent(p, "timeout")
        BY <2>1, <2>2, <4>2 DEF ProcOK, TimerAgrees, HasEvent, IInv
      <4>3. CASE call[p].limit # Inf /\ ~HasEvent(p, "timeout")
        BY <3>6, <3>7, <3>8, <4>3, TimeFacts
      <4> QED BY <4>1, <4>2, <4>3
    <3>10. now = call[p].limit \/ Met(call[p].every, Mask(p))
      BY <3>1, <3>8 DEF WaitReturn, TimedOut, HasEvent, EL!Current, EL!Pending
    <3> QED BY <3>5, <3>9, <3>10
  <2> QED BY <2>2, <2>3, <2>4, <2>5
<1>2. ExactInv /\ [Next]_vars =>
        [\A p \in Procs : cur = p /\ call[p] # Idle /\ call'[p] = Idle =>
           CASE call[p].op = "sleep"    -> now = call[p].limit
             [] call[p].op = "trapwait" -> Happened(p, call[p].ts[1])
             [] call[p].op = "wait" ->
                  LET mask == [i \in DOMAIN call[p].ts |-> Happened(p, call[p].ts[i])]
                  IN /\ Mask(p) = mask
                     /\ now <= call[p].limit
                     /\ now = call[p].limit \/ Met(call[p].every, mask)]_vars
  BY <1>1
<1>3. ExactInv /\ [Next]_vars => ExactInv'
  BY NextExactInv
<1> QED BY <1>2, <1>3, InitExactInv, PTL DEF Spec, CallsReturnRight
=============================================================================
