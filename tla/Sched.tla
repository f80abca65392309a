-------------------------------- MODULE Sched --------------------------------
(***************************************************************************)
(* The process scheduler of a simulator, without time: the states of the   *)
(* processes (process.py), the ready queue, and who holds the control.     *)
(* Processes are greenlets: the main program, the event loop, the event    *)
(* handlers and the processes are coroutines of one thread, and control    *)
(* moves only where a process suspends, sleeps, terminates or is run by    *)
(* the loop.  The other modules build on the operators of this one; its    *)
(* specification says what a process may rely on, whatever wakes it up.    *)
(***************************************************************************)
EXTENDS Integers, Sequences, FiniteSets, SequencesExt

CONSTANT Procs        \* the processes

\* Who holds the control, when it is not a process: the main program, the
\* event loop about to take an event, the handler of a scheduled event, or
\* the event loop emptying the ready queue.
NoProc == {"main", "pick", "handler", "drain"}

\* What the processes have to be; those who use the module assume it.
ProcsOK == Procs \cap NoProc = {} /\ IsFiniteSet(Procs)

ASSUME ProcsAssumption == ProcsOK

VARIABLES st,         \* the state of every process
          readyq,     \* the ready queue of the simulator
          cur         \* a process, or a member of NoProc

vars == <<st, readyq, cur>>

States == {"unborn", "started", "running", "suspended", "terminated"}

\* The states of a process that activate() moves into the ready queue.
Wakeable == {"started", "suspended"}

\* A process that exists and is not finished.
Live(p) == st[p] \notin {"unborn", "terminated"}

\* User code runs: the main program, a handler or a process.
User == cur \in {"main", "handler"} \cup Procs

Init == /\ st = [p \in Procs |-> "unborn"]
        /\ readyq = <<>>
        /\ cur = "main"

-----------------------------------------------------------------------------
(* Activation *)

\* The queues of distinct processes of S.
Batches(S) == {q \in UNION {[1..n -> S] : n \in 0..Cardinality(S)} :
                 \A i, j \in DOMAIN q : q[i] = q[j] => i = j}

\* The members of s at the places I, in order.
Nth(I, k) == CHOOSE i \in I : Cardinality({j \in I : j < i}) = k - 1
AtPlaces(s, I) == [k \in 1..Cardinality(I) |-> s[Nth(I, k)]]

\* The processes that calling activate() on each member of s in turn moves
\* into the ready queue: one that is terminated, or running already, is left
\* alone, so none is moved twice.
Woken(states, s) == AtPlaces(s, {i \in DOMAIN s : /\ states[s[i]] \in Wakeable
                                                  /\ \A j \in 1..(i - 1) : s[j] # s[i]})

\* A seeded mistake: the state changes, the queue does not.
WakeUnqueued(states, q) ==
  /\ st' = [p \in Procs |-> IF p \in ToSet(q) THEN "running" ELSE states[p]]
  /\ UNCHANGED readyq

\* The processes of q enter the ready queue; states are the states before.
Wake(states, q) ==
  /\ st' = [p \in Procs |-> IF p \in ToSet(q) THEN "running" ELSE states[p]]
  /\ readyq' = readyq \o q

\* A seeded mistake: a process may be moved a second time.
CanWakeAny(states, q) == \A p \in ToSet(q) : states[p] # "terminated"

\* The members of q may be woken up in the given states.
CanWake(states, q) == \A p \in ToSet(q) : states[p] \in Wakeable

-----------------------------------------------------------------------------
(* The main program and the event loop *)

RunBegin == /\ cur = "main"
            /\ cur' = "pick"
            /\ UNCHANGED <<st, readyq>>

\* An event with a handler: its trap may wake processes up, then it is called.
Handle(q) == /\ cur = "pick"
             /\ cur' = "handler"
             /\ Wake(st, q)

HandlerReturn == /\ cur = "handler"
                 /\ cur' = "drain"
                 /\ UNCHANGED <<st, readyq>>

\* A seeded mistake: the state of the process is not looked at.
FireUnchecked(p) == /\ cur = "pick"
                    /\ st[p] # "unborn"
                    /\ cur' = "drain"
                    /\ Wake(st, <<p>>)

\* The event of a process: it starts, or its sleep or its wait times out.
Fire(p) == /\ cur = "pick"
           /\ st[p] # "unborn"
           /\ cur' = "drain"
           /\ Wake(st, IF st[p] \in Wakeable THEN <<p>> ELSE <<>>)

\* A seeded mistake: the process that came last runs first.
DispatchLast == /\ cur = "drain"
                /\ readyq # <<>>
                /\ readyq' = Front(readyq)
                /\ cur' = IF st[Last(readyq)] = "running" THEN Last(readyq) ELSE "drain"
                /\ UNCHANGED st

\* The loop runs the process at the head of the ready queue, or drops it if
\* it was killed there.
Dispatch == /\ cur = "drain"
            /\ readyq # <<>>
            /\ readyq' = Tail(readyq)
            /\ cur' = IF st[Head(readyq)] = "running" THEN Head(readyq) ELSE "drain"
            /\ UNCHANGED st

\* The ready queue is empty: the next event, or the end of step().
DrainEnd(next) == /\ cur = "drain"
                  /\ readyq = <<>>
                  /\ cur' = next
                  /\ UNCHANGED <<st, readyq>>

RunEnd == /\ cur = "pick"
          /\ cur' = "main"
          /\ UNCHANGED <<st, readyq>>

-----------------------------------------------------------------------------
(* What user code can do to processes *)

Create(p) == /\ User
             /\ st[p] = "unborn"
             /\ st' = [st EXCEPT ![p] = "started"]
             /\ UNCHANGED <<readyq, cur>>

\* A trap is triggered or a facility is released.
Signal(q) == /\ User
             /\ Wake(st, q)
             /\ UNCHANGED cur

\* kill(p): p is terminated and its trap triggered.  Nothing sets p apart
\* when it is the process that runs: it goes on running.
Kill(p, q) == /\ User
              /\ Live(p)
              /\ Wake([st EXCEPT ![p] = "terminated"], q)
              /\ UNCHANGED cur

\* suspend() or sleep() of the current process.
Suspend(p) == /\ cur = p
              /\ st[p] = "running"
              /\ st' = [st EXCEPT ![p] = "suspended"]
              /\ cur' = "drain"
              /\ UNCHANGED readyq

\* terminate() of the current process: its trap is triggered, unless it was
\* killed while it was running.
Terminate(p, q) == /\ cur = p
                   /\ cur' = "drain"
                   /\ \/ /\ st[p] = "running"
                         /\ Wake([st EXCEPT ![p] = "terminated"], q)
                      \/ /\ st[p] = "terminated"
                         /\ UNCHANGED <<st, readyq>>

-----------------------------------------------------------------------------

LoopStep == HandlerReturn \/ Dispatch \/ DrainEnd("pick") \/ DrainEnd("main")

Yield(p) == Suspend(p) \/ \E q \in Batches(Procs) :
                            /\ CanWake([st EXCEPT ![p] = "terminated"], q)
                            /\ Terminate(p, q)

Next == \/ RunBegin \/ RunEnd \/ LoopStep
        \/ \E p \in Procs : Fire(p) \/ Create(p) \/ Yield(p)
        \/ \E q \in Batches(Procs) : CanWake(st, q) /\ (Handle(q) \/ Signal(q))
        \/ \E p \in Procs, q \in Batches(Procs) :
             CanWake([st EXCEPT ![p] = "terminated"], q) /\ Kill(p, q)

Spec == Init /\ [][Next]_vars

\* The loop keeps going, and handlers and processes give the control back:
\* nothing preempts them, so the program stops where one does not.
FairSpec == /\ Spec
            /\ WF_vars(LoopStep)
            /\ \A p \in Procs : WF_vars(Yield(p))

-----------------------------------------------------------------------------

TypeOK == /\ st \in [Procs -> States]
          /\ readyq \in Seq(Procs)
          /\ cur \in Procs \cup NoProc

\* A process waits for the processor in one place: it is at most once in the
\* ready queue, and not while it has the control.
QueuedOnce == /\ \A i, j \in DOMAIN readyq : readyq[i] = readyq[j] => i = j
              /\ cur \notin ToSet(readyq)

\* The state of a process and its place agree: a running process is ready or
\* has the control, so no wakeup is lost; and whatever the loop takes from
\* the ready queue is running, or was killed there, which run() and the loop
\* assert.
RunningIsReady ==
  /\ \A p \in Procs : st[p] = "running" => p = cur \/ p \in ToSet(readyq)
  /\ \A p \in ToSet(readyq) \cup ({cur} \cap Procs) :
       st[p] \in {"running", "terminated"}

\* Death is final: no wakeup, sleep or late termination revives a process,
\* and a process that died in the ready queue is never run again.
DeathIsFinal ==
  [][\A p \in Procs : st[p] = "terminated" => /\ st'[p] = "terminated"
                                              /\ cur' = p => cur = p]_vars

\* No starvation: a process that is ready while the loop empties the queue is
\* run, or dropped if it was killed, however often the others wake each other.
ReadyRuns ==
  \A p \in Procs : (cur \notin {"main", "pick"} /\ p \in ToSet(readyq))
                     ~> (p \notin ToSet(readyq))
=============================================================================
