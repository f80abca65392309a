------------------------------ MODULE Simulator ------------------------------
(***************************************************************************)
(* One simulator (src/simulus/simulator.py, process.py, trap.py and the    *)
(* events of event.py): the event list, the clock, the event loop, the     *)
(* processes, and what user code can do to them from the main program,     *)
(* from an event handler or from a process.  It composes EventList and     *)
(* Sched, adds the traps, and models the conditional wait.                 *)
(*                                                                         *)
(* User code is arbitrary: at every point it may make any call.  What a    *)
(* call does is one step; a blocking call is one step up to the point      *)
(* where it gives control away and another from where it gets it back.     *)
(* A call that raises an exception has no step, as it changes nothing.     *)
(***************************************************************************)
EXTENDS Integers, Sequences, FiniteSets, SequencesExt

CONSTANTS Procs,      \* processes, each created at most once
          Traps,      \* traps made by user code
          Evts,       \* events with a handler, each scheduled at most once
          Intvs,      \* the repeat intervals user code asks for, 0 for none
          WaitLists,  \* the lists of trappables user code waits for
          MaxTime     \* bound: the latest time at which anything happens

\* infinite_time; it also stands for every time beyond the bound.
Inf == MaxTime + 1
Times == 0..MaxTime
AtMost(t) == IF t > Inf THEN Inf ELSE t

Trappables == Traps \cup Procs \cup Evts
ProcEvents == Procs \X {"start", "sleep", "timeout"}

VARIABLES now,        \* the clock
          run,        \* the arguments of the run() or step() in progress
          evlist, last,       \* the event list
          intv,       \* the repeat interval of every event
          st, readyq, cur,    \* the process scheduler
          tstate,     \* the state of the trap of every trappable
          blocked,    \* the processes blocked on it, in order
          acting,     \* acting_trappables of every process, as a set
          call        \* the blocking call every process is in

timeVars  == <<now, run>>
elVars    == <<evlist, last, intv>>
schedVars == <<st, readyq, cur>>
trapVars  == <<tstate, blocked, acting>>
vars == <<timeVars, elVars, schedVars, trapVars, call>>

EL == INSTANCE EventList WITH Events   <- Evts \cup ProcEvents,
                              InitLast <- -1,
                              MaxTime  <- Inf
S == INSTANCE Sched

ASSUME SimAssumption == /\ MaxTime \in Nat
                        /\ Intvs \subseteq Nat
                        /\ WaitLists \subseteq Seq(Trappables)
                        /\ S!ProcsOK
                        /\ Traps \cap Procs = {} /\ Evts \cap (Traps \cup Procs) = {}
                        /\ Evts \cap ProcEvents = {}

Idle == [op |-> "none"]
Sleeping(t) == [op |-> "sleep", limit |-> t]
TrapWaiting(x) == [op |-> "trapwait", ts |-> <<x>>]
Waiting(ts, trig, every, limit) ==
  [op |-> "wait", ts |-> ts, trig |-> trig, every |-> every, limit |-> limit]

Init == /\ now = 0
        /\ run = [once |-> FALSE, upper |-> Inf]
        /\ EL!Init
        /\ intv = [e \in Evts |-> 0]
        /\ S!Init
        /\ tstate = [x \in Trappables |-> IF x \in Evts THEN "unborn" ELSE "unset"]
        /\ blocked = [x \in Trappables |-> <<>>]
        /\ acting = [p \in Procs |-> {}]
        /\ call = [p \in Procs |-> Idle]

\* User code has the control; a process has it once its call has returned.
User == S!User /\ (cur \in Procs => call[cur] = Idle)

\* cur_process() returns a process: it asserts that it is running.
InProcess == User /\ cur \in Procs /\ st[cur] = "running"

-----------------------------------------------------------------------------
(* Traps *)

\* A seeded mistake: a trigger wakes the first process only.
FirstWaiter(states, x) ==
  S!Woken(states, SubSeq(blocked[x], 1, IF blocked[x] = <<>> THEN 0 ELSE 1))

\* The processes a trigger of x moves into the ready queue.
Waiters(states, x) == S!Woken(states, blocked[x])

\* trigger(): the trap is sprung, and every blocked process has it among its
\* acting trappables, also one that is dead.
Spring(x, after) ==
  /\ tstate[x] # "sprung"
  /\ tstate' = [tstate EXCEPT ![x] = after]
  /\ blocked' = [blocked EXCEPT ![x] = <<>>]
  /\ acting' = [p \in Procs |-> IF p \in ToSet(blocked[x])
                                THEN acting[p] \cup {x} ELSE acting[p]]

\* trap.trigger() by user code.
Trigger(x) == /\ User
              /\ Spring(x, "sprung")
              /\ S!Signal(Waiters(st, x))
              /\ UNCHANGED <<timeVars, elVars, call>>

\* trap.wait() on a trap that is not sprung (on a sprung one it returns).
TrapWait(x) == /\ InProcess
               /\ tstate[x] # "sprung"
               /\ tstate' = [tstate EXCEPT ![x] = "set"]
               /\ blocked' = [blocked EXCEPT ![x] = Append(@, cur)]
               /\ S!Suspend(cur)
               /\ call' = [call EXCEPT ![cur] = TrapWaiting(x)]
               /\ UNCHANGED <<timeVars, elVars, acting>>

TrapWaitReturn(p) == /\ cur = p /\ call[p].op = "trapwait"
                     /\ acting' = [acting EXCEPT ![p] = @ \ ToSet(call[p].ts)]
                     /\ call' = [call EXCEPT ![p] = Idle]
                     /\ UNCHANGED <<timeVars, elVars, schedVars, tstate, blocked>>

-----------------------------------------------------------------------------
(* Events and processes *)

\* sched() of an event for time t, to be repeated every r units if r > 0.
Sched(e, t, r) == /\ User
                  /\ tstate[e] = "unborn"
                  /\ now <= t
                  /\ EL!Insert(e, t)
                  /\ intv' = [intv EXCEPT ![e] = r]
                  /\ tstate' = [tstate EXCEPT ![e] = "none"]
                  /\ UNCHANGED <<timeVars, schedVars, blocked, acting, call>>

Cancel(e) == /\ User
             /\ EL!Cancel(e)
             /\ UNCHANGED <<timeVars, intv, schedVars, trapVars, call>>

Resched(e, t) == /\ User
                 /\ now <= t
                 /\ EL!Update(e, t)
                 /\ UNCHANGED <<timeVars, intv, schedVars, trapVars, call>>

Process(p, t) == /\ S!Create(p)
                 /\ User
                 /\ now <= t
                 /\ EL!Insert(<<p, "start">>, t)
                 /\ UNCHANGED <<timeVars, intv, trapVars, call>>

\* kill(p) of a live process, the current one included.
Kill(p) == /\ User
           /\ Spring(p, "sprung")
           /\ S!Kill(p, Waiters([st EXCEPT ![p] = "terminated"], p))
           /\ UNCHANGED <<timeVars, elVars, call>>

\* The current process calls kill() or returns from its start function.
Terminate(p) ==
  /\ User
  /\ S!Terminate(p, Waiters([st EXCEPT ![p] = "terminated"], p))
  /\ IF st[p] = "running" THEN Spring(p, "sprung") ELSE UNCHANGED trapVars
  /\ UNCHANGED <<timeVars, elVars, call>>

Sleep(t) == /\ InProcess
            /\ now <= t
            /\ EL!Insert(<<cur, "sleep">>, t)
            /\ S!Suspend(cur)
            /\ call' = [call EXCEPT ![cur] = Sleeping(t)]
            /\ UNCHANGED <<timeVars, intv, trapVars>>

SleepReturn(p) == /\ cur = p /\ call[p].op = "sleep"
                  /\ call' = [call EXCEPT ![p] = Idle]
                  /\ UNCHANGED <<timeVars, elVars, schedVars, trapVars>>

-----------------------------------------------------------------------------
(* The conditional wait *)

\* _try_wait() answers that x has been triggered: an event that is not on
\* the list counts as triggered, whatever took it off.
Triggered(x) == IF x \in Evts THEN ~EL!Current(x) ELSE tstate[x] = "sprung"

Met(every, trig) == IF every THEN \A i \in DOMAIN trig : trig[i]
                             ELSE \E i \in DOMAIN trig : trig[i]

Copies(p, n) == [i \in 1..n |-> p]
Occurrences(x, s) == Cardinality({i \in DOMAIN s : s[i] = x})

\* The wait condition holds at once.  The registrations made by _try_wait()
\* are cancelled; what stays is a trap for every event that had none.
WaitAtOnce(ts, every) ==
  /\ InProcess
  /\ Met(every, [i \in DOMAIN ts |-> Triggered(ts[i])])
  /\ tstate' = [x \in Trappables |->
                  IF x \in ToSet(ts) /\ ~Triggered(x) /\ tstate[x] = "none"
                  THEN "unset" ELSE tstate[x]]
  /\ UNCHANGED <<timeVars, elVars, schedVars, blocked, acting, call>>

\* The process registers with every trappable that is not triggered, sets
\* its timer, if the wait has a limit, and suspends.
WaitBlocks(ts, every, limit) ==
  LET p == cur
      trig == [i \in DOMAIN ts |-> Triggered(ts[i])]
      open == {ts[i] : i \in {j \in DOMAIN ts : ~trig[j]}}
  IN /\ InProcess
     /\ ~Met(every, trig)
     /\ now <= limit
     /\ tstate' = [x \in Trappables |-> IF x \in open THEN "set" ELSE tstate[x]]
     /\ blocked' = [x \in Trappables |->
                      IF x \in open
                      THEN blocked[x] \o Copies(p, Occurrences(x, ts))
                      ELSE blocked[x]]
     /\ IF limit < Inf THEN EL!Insert(<<p, "timeout">>, limit)
                       ELSE UNCHANGED <<evlist, last>>
     /\ S!Suspend(p)
     /\ call' = [call EXCEPT ![p] = Waiting(ts, trig, every, limit)]
     /\ UNCHANGED <<timeVars, intv, acting>>

\* A seeded mistake: the mask starts afresh after every resume.
FreshMask(p) == [i \in DOMAIN call[p].ts |-> call[p].ts[i] \in acting[p]]

\* The mask after p resumes: an acting trappable is credited to the first
\* place it has in the list.
Mask(p) ==
  LET ts == call[p].ts
  IN [i \in DOMAIN ts |-> \/ call[p].trig[i]
                          \/ /\ ts[i] \in acting[p]
                             /\ \A j \in 1..(i - 1) : ts[j] # ts[i]]

\* The timer is gone from the event list: nothing else takes it off there.
TimedOut(p) == call[p].limit < Inf /\ ~EL!Current(<<p, "timeout">>)

\* _cancel_wait() on what is still untriggered.
Withdrawn(p) == {call[p].ts[i] : i \in {j \in DOMAIN call[p].ts : ~Mask(p)[j]}}
Drop(p, s) == S!AtPlaces(s, {i \in DOMAIN s : s[i] # p})

\* Seeded mistakes: a wait that returns leaves its timer on the
\* event list, or its registrations in the traps.
WaitReturnKeeps(p, timer, registered) ==
  /\ cur = p /\ call[p].op = "wait"
  /\ TimedOut(p) \/ Met(call[p].every, Mask(p))
  /\ acting' = [acting EXCEPT ![p] = @ \ ToSet(call[p].ts)]
  /\ blocked' = [x \in Trappables |-> IF x \in Withdrawn(p) /\ ~registered
                                      THEN Drop(p, blocked[x]) ELSE blocked[x]]
  /\ tstate' = [x \in Trappables |->
                  IF x \in Withdrawn(p) /\ blocked'[x] = <<>>
                  THEN "unset" ELSE tstate[x]]
  /\ IF call[p].limit < Inf /\ ~TimedOut(p) /\ ~timer
     THEN EL!Cancel(<<p, "timeout">>) ELSE UNCHANGED <<evlist, last>>
  /\ call' = [call EXCEPT ![p] = Idle]
  /\ UNCHANGED <<timeVars, intv, schedVars>>
WaitReturnTimerKept(p) == WaitReturnKeeps(p, TRUE, FALSE)
WaitReturnStillBlocked(p) == WaitReturnKeeps(p, FALSE, TRUE)

WaitReturn(p) ==
  /\ cur = p /\ call[p].op = "wait"
  /\ TimedOut(p) \/ Met(call[p].every, Mask(p))
  /\ acting' = [acting EXCEPT ![p] = @ \ ToSet(call[p].ts)]
  /\ blocked' = [x \in Trappables |-> IF x \in Withdrawn(p)
                                      THEN Drop(p, blocked[x]) ELSE blocked[x]]
  /\ tstate' = [x \in Trappables |->
                  IF x \in Withdrawn(p) /\ Drop(p, blocked[x]) = <<>>
                  THEN "unset" ELSE tstate[x]]
  /\ IF call[p].limit < Inf /\ ~TimedOut(p) THEN EL!Cancel(<<p, "timeout">>)
                                            ELSE UNCHANGED <<evlist, last>>
  /\ call' = [call EXCEPT ![p] = Idle]
  /\ UNCHANGED <<timeVars, intv, schedVars>>

\* Not all that the process waits for has happened: it suspends again.
WaitAgain(p) ==
  /\ cur = p /\ call[p].op = "wait"
  /\ ~(TimedOut(p) \/ Met(call[p].every, Mask(p)))
  /\ S!Suspend(p)
  /\ call' = [call EXCEPT ![p].trig = Mask(p)]
  /\ acting' = [acting EXCEPT ![p] = @ \ ToSet(call[p].ts)]
  /\ UNCHANGED <<timeVars, elVars, tstate, blocked>>

-----------------------------------------------------------------------------
(* The event loop *)

\* A seeded mistake: the limit is not compared with the clock.
RunUnchecked(u) == /\ S!RunBegin
                   /\ run' = [once |-> FALSE, upper |-> u]
                   /\ UNCHANGED <<now, elVars, trapVars, call>>

\* run() until a time that is not in the past, or without a limit.
Run(u) == /\ now <= u
          /\ S!RunBegin
          /\ run' = [once |-> FALSE, upper |-> u]
          /\ UNCHANGED <<now, elVars, trapVars, call>>

\* step() processes one event, if there is one.
Step == /\ \E e \in EL!Pending : evlist[e] < Inf
        /\ S!RunBegin
        /\ run' = [once |-> TRUE, upper |-> Inf]
        /\ UNCHANGED <<now, elVars, trapVars, call>>

\* A seeded mistake: a renewed event keeps its sprung trap.
ProcessDirectEventKeepTrap(e) ==
  /\ EL!IsMin(e) /\ evlist[e] < run.upper
  /\ now' = evlist[e]
  /\ S!Handle(Waiters(st, e))
  /\ Spring(e, IF tstate[e] = "none" THEN "none" ELSE "sprung")
  /\ IF intv[e] = 0 THEN EL!DeleteMin(e)
     ELSE EL!DeleteMinAndRenew(e, AtMost(evlist[e] + intv[e]))
  /\ UNCHANGED <<run, intv, call>>

\* A seeded mistake: an event at the end of the run is still processed.
ProcessDirectEventAtEnd(e) ==
  /\ EL!IsMin(e) /\ evlist[e] <= run.upper
  /\ now' = evlist[e]
  /\ S!Handle(Waiters(st, e))
  /\ Spring(e, IF tstate[e] = "none" \/ intv[e] > 0 THEN "none" ELSE "sprung")
  /\ IF intv[e] = 0 THEN EL!DeleteMin(e)
     ELSE EL!DeleteMinAndRenew(e, AtMost(evlist[e] + intv[e]))
  /\ UNCHANGED <<run, intv, call>>

\* The next event is an event with a handler: its trap, if it has one, is
\* triggered; a repeating event goes back on the list without a trap, before
\* the handler runs.
ProcessDirectEvent(e) ==
  /\ EL!IsMin(e) /\ evlist[e] < run.upper
  /\ now' = evlist[e]
  /\ S!Handle(Waiters(st, e))
  /\ Spring(e, IF tstate[e] = "none" \/ intv[e] > 0 THEN "none" ELSE "sprung")
  /\ IF intv[e] = 0 THEN EL!DeleteMin(e)
     ELSE EL!DeleteMinAndRenew(e, AtMost(evlist[e] + intv[e]))
  /\ UNCHANGED <<run, intv, call>>

\* The next event is the start of a process, the end of its sleep or its timer.
ProcessProcessEvent(e) ==
  /\ EL!IsMin(e) /\ evlist[e] < run.upper
  /\ now' = evlist[e]
  /\ S!Fire(e[1])
  /\ EL!DeleteMin(e)
  /\ UNCHANGED <<run, intv, trapVars, call>>

HandlerReturn == S!HandlerReturn /\ UNCHANGED <<timeVars, elVars, trapVars, call>>

Dispatch == S!Dispatch /\ UNCHANGED <<timeVars, elVars, trapVars, call>>

\* A seeded mistake: one process is run for every event.
DrainEndEarly == /\ cur = "drain"
                 /\ cur' = IF run.once THEN "main" ELSE "pick"
                 /\ UNCHANGED <<st, readyq, timeVars, elVars, trapVars, call>>

DrainEnd == /\ S!DrainEnd(IF run.once THEN "main" ELSE "pick")
            /\ UNCHANGED <<timeVars, elVars, trapVars, call>>

\* A seeded mistake: the clock is moved past events that are still to be processed.
RunEndEarly == /\ S!RunEnd
               /\ IF run.upper < Inf THEN now' = run.upper /\ last' = run.upper
                                     ELSE UNCHANGED <<now, last>>
               /\ UNCHANGED <<evlist, intv, run, trapVars, call>>

\* No event before the limit is left; a limit the user gave is the new time.
RunEnd == /\ S!RunEnd
          /\ \A e \in EL!Pending : run.upper <= evlist[e]
          /\ IF run.upper < Inf THEN now' = run.upper /\ last' = run.upper
                                ELSE UNCHANGED <<now, last>>
          /\ UNCHANGED <<evlist, intv, run, trapVars, call>>

-----------------------------------------------------------------------------

Resume(p) == SleepReturn(p) \/ TrapWaitReturn(p) \/ WaitReturn(p) \/ WaitAgain(p)

Loop == \/ \E e \in Evts : ProcessDirectEvent(e)
        \/ \E e \in ProcEvents : ProcessProcessEvent(e)
        \/ HandlerReturn \/ Dispatch \/ DrainEnd \/ RunEnd
        \/ \E p \in Procs : Resume(p)

UserCall ==
  \/ \E x \in Traps : Trigger(x) \/ TrapWait(x)
  \/ \E e \in Evts : \/ Cancel(e)
                     \/ \E t \in Times : \/ Resched(e, t)
                                         \/ \E r \in Intvs : Sched(e, t, r)
  \/ \E p \in Procs : \/ Kill(p)
                      \/ Terminate(p)
                      \/ \E t \in Times : Process(p, t)
  \/ \E t \in Times : Sleep(t)
  \/ \E ts \in WaitLists, every \in BOOLEAN :
       /\ every \/ IsInjective(ts)  \* otherwise _cancel_wait() may fail its assertion
       /\ every \/ Len(ts) # 1  \* of one trappable, any is all
       /\ \/ WaitAtOnce(ts, every)
          \/ \E limit \in Times \cup {Inf} : WaitBlocks(ts, every, limit)

MainCall == Step \/ \E u \in Times \cup {Inf} : Run(u)

Next == Loop \/ UserCall \/ MainCall

Spec == Init /\ [][Next]_vars

-----------------------------------------------------------------------------

\* x has happened, as far as p can be concerned: for an event that means that
\* p is no longer blocked on it.
Happened(p, x) == IF x \in Evts THEN p \notin ToSet(blocked[x])
                  ELSE IF x \in Procs THEN st[x] = "terminated"
                  ELSE tstate[x] = "sprung"

\* The call of p is one that waits for x and has not yet been told of it.
WaitsFor(p, x) ==
  /\ call[p].op \in {"trapwait", "wait"}
  /\ \E i \in DOMAIN call[p].ts :
       call[p].ts[i] = x /\ (call[p].op = "wait" => ~call[p].trig[i])

\* Causality: no pending event lies in the past of the clock, and what a run
\* executes, handlers and processes made ready over several turns included,
\* sees a time before the end of the run: events at exactly the end are left
\* to the next run.
Causality == /\ \A e \in EL!Pending : now <= evlist[e]
             /\ last <= now
             /\ cur \notin {"main", "pick"} => now < run.upper

\* The clock never goes back, whatever the handlers and the runs do.
ClockNeverBack == [][now <= now']_vars

\* Wherever an event, a kill or a termination triggers a trap, the trap has
\* not been triggered before (which would raise an error in the event loop),
\* and a trap is set exactly while someone is blocked on it.
InternalTriggersSafe ==
  /\ \A e \in EL!Pending \cap Evts : tstate[e] \in {"none", "unset", "set"}
  /\ \A p \in Procs : tstate[p] = "sprung" <=> st[p] = "terminated"
  /\ \A x \in Trappables : tstate[x] = "set" <=> blocked[x] # <<>>

\* A live process has exactly the pending events that its state and its call
\* account for: its start, the end of its sleep, or the limit of its wait.  A
\* timer that outlives its wait would end a later call of the process.
TimersMatchCalls ==
  \A p \in Procs : S!Live(p) =>
    /\ EL!Current(<<p, "start">>) <=> st[p] = "started"
    /\ EL!Current(<<p, "sleep">>) =>
         call[p].op = "sleep" /\ evlist[<<p, "sleep">>] = call[p].limit
    /\ EL!Current(<<p, "timeout">>) =>
         call[p].op = "wait" /\ evlist[<<p, "timeout">>] = call[p].limit
    /\ st[p] = "suspended" =>
         CASE call[p].op = "sleep" -> EL!Current(<<p, "sleep">>)
           [] call[p].op = "wait"  -> call[p].limit = Inf \/ EL!Current(<<p, "timeout">>)
           [] OTHER -> TRUE

\* A live process is registered once with every trappable it waits for, and
\* with nothing else: no wakeup can reach a process that has moved on, and no
\* acting trappable is left behind for a later wait.
RegistrationsExact ==
  \A p \in Procs : S!Live(p) =>
    /\ \A x \in Trappables :
         Occurrences(p, blocked[x]) =
           IF WaitsFor(p, x) /\ x \notin acting[p] THEN 1 ELSE 0
    /\ \A x \in acting[p] : WaitsFor(p, x) /\ st[p] = "running"

\* No lost wakeup: a process stays suspended in a wait only while what it
\* waits for has not happened.
NoLostWakeup ==
  \A p \in Procs : st[p] = "suspended" =>
    CASE call[p].op = "trapwait" -> ~Happened(p, call[p].ts[1])
      [] call[p].op = "wait" ->
           ~Met(call[p].every, [i \in DOMAIN call[p].ts |-> Happened(p, call[p].ts[i])])
      [] OTHER -> TRUE

\* What a blocking call promises when it returns: a sleep ends exactly on
\* time; a wait ends when its condition is met, or exactly at its limit and
\* never later; and the answer says of every trappable whether it happened.
CallsReturnRight ==
  [][\A p \in Procs : cur = p /\ call[p] # Idle /\ call'[p] = Idle =>
       CASE call[p].op = "sleep"    -> now = call[p].limit
         [] call[p].op = "trapwait" -> Happened(p, call[p].ts[1])
         [] call[p].op = "wait" ->
              LET mask == [i \in DOMAIN call[p].ts |-> Happened(p, call[p].ts[i])]
              IN /\ Mask(p) = mask
                 /\ now <= call[p].limit
                 /\ now = call[p].limit \/ Met(call[p].every, mask)]_vars

\* The simulator implements the event list and the process scheduler.
EventListSpec == EL!Spec
SchedSpec == S!Spec

=============================================================================
