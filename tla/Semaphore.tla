------------------------------ MODULE Semaphore ------------------------------
(***************************************************************************)
(* Counting semaphores (src/simulus/semaphore.py), waited for directly or  *)
(* by the conditional wait of the simulator, alone or several together,    *)
(* with or without a time limit.  Time is left out: an event of a process  *)
(* (its start, the end of a sleep, the limit of a wait) fires whenever the *)
(* event loop takes one, so every order of the events is covered.          *)
(***************************************************************************)
EXTENDS Integers, Sequences, FiniteSets, SequencesExt, FiniteSetsExt

CONSTANTS Procs,      \* the processes
          Sems,       \* the semaphores
          InitVal,    \* their initial values
          Qdis,       \* their queuing disciplines
          Prios,      \* the priorities a process may have
          MaxSignals, \* bound: signals of each semaphore
          Kills       \* whether processes are killed

Disciplines == {"FIFO", "LIFO", "SIRO", "PRIORITY"}

\* The arguments that simulator.semaphore() accepts.
ValidSemaphore(initval, qdis) == initval \in Nat /\ qdis \in Disciplines

VARIABLES st, readyq, cur,  \* the process scheduler
          timer,      \* the processes with an event on the event list
          call,       \* the blocking call every process is in
          val, semq,  \* the value and the blocked processes of a semaphore
          prio,       \* the priority of every process
          acting,     \* acting_trappables of every process, as a set
          given,      \* history: the signals of a semaphore
          taken       \* history: the waits for it that were told of a signal

schedVars == <<st, readyq, cur>>
semVars == <<val, semq, prio, acting>>
history == <<given, taken>>
vars == <<schedVars, timer, call, semVars, history>>

S == INSTANCE Sched

ASSUME SemAssumption == /\ S!ProcsOK
                        /\ InitVal \in [Sems -> Int]
                        /\ \A s \in Sems : ValidSemaphore(InitVal[s], Qdis[s])
                        /\ Prios \subseteq Int
                        /\ MaxSignals \in Nat
                        /\ Kills \in BOOLEAN

Idle == [op |-> "none"]
Sleeping == [op |-> "sleep"]
Waiting(op, sems, got, every, timed) ==
  [op |-> op, sems |-> sems, got |-> got, every |-> every, timed |-> timed]

Init == /\ st = [p \in Procs |-> "started"]
        /\ readyq = <<>>
        /\ cur = "main"
        /\ timer = Procs
        /\ call = [p \in Procs |-> Idle]
        /\ val = InitVal
        /\ semq = [s \in Sems |-> <<>>]
        /\ prio \in [Procs -> Prios]
        /\ acting = [p \in Procs |-> {}]
        /\ given = [s \in Sems |-> 0]
        /\ taken = [s \in Sems |-> 0]

User == S!User /\ (cur \in Procs => call[cur] = Idle)
InProcess == User /\ cur \in Procs /\ st[cur] = "running"

-----------------------------------------------------------------------------
(* Waiting *)

\* The number of times a semaphore of set S is counted down or up.
Minus(f, set) == [s \in Sems |-> IF s \in set THEN f[s] - 1 ELSE f[s]]
Plus(f, set) == [s \in Sems |-> IF s \in set THEN f[s] + 1 ELSE f[s]]

\* The semaphores of a set whose wait does not block.
Free(sems) == {s \in sems : val[s] > 0}

Enqueued(p, sems) == [s \in Sems |-> IF s \in sems THEN Append(semq[s], p) ELSE semq[s]]
Dequeued(p, sems) == [s \in Sems |-> IF s \in sems THEN RemoveFirst(semq[s], p) ELSE semq[s]]

Met(every, sems, got) == IF every THEN got = sems ELSE got # {}

\* A wait that does not block: what it counted down on the semaphores that
\* were not free, _cancel_wait() has counted up again.
WaitAtOnce(sems, every) ==
  /\ InProcess
  /\ Met(every, sems, Free(sems))
  /\ val' = Minus(val, Free(sems))
  /\ taken' = Plus(taken, Free(sems))
  /\ UNCHANGED <<schedVars, timer, call, semq, prio, acting, given>>

\* A seeded mistake: the wait counts down only what it gets.
WaitBlocksNotCounted(op, sems, every, timed) ==
  /\ InProcess
  /\ ~Met(every, sems, Free(sems))
  /\ val' = Minus(val, Free(sems))
  /\ semq' = Enqueued(cur, sems \ Free(sems))
  /\ timer' = IF timed THEN timer \cup {cur} ELSE timer
  /\ call' = [call EXCEPT ![cur] = Waiting(op, sems, Free(sems), every, timed)]
  /\ S!Suspend(cur)
  /\ UNCHANGED <<prio, acting, history>>

\* A wait that blocks: every semaphore is counted down, and the process is
\* in the queue of each one that was not free.
WaitBlocks(op, sems, every, timed) ==
  /\ InProcess
  /\ ~Met(every, sems, Free(sems))
  /\ val' = Minus(val, sems)
  /\ semq' = Enqueued(cur, sems \ Free(sems))
  /\ timer' = IF timed THEN timer \cup {cur} ELSE timer
  /\ call' = [call EXCEPT ![cur] = Waiting(op, sems, Free(sems), every, timed)]
  /\ S!Suspend(cur)
  /\ UNCHANGED <<prio, acting, history>>

\* semaphore.wait() returns when the process is resumed, whatever for.
DirectReturn(p) ==
  /\ cur = p /\ call[p].op = "direct"
  /\ acting' = [acting EXCEPT ![p] = @ \ call[p].sems]
  /\ taken' = Plus(taken, acting[p] \cap call[p].sems)
  /\ call' = [call EXCEPT ![p] = Idle]
  /\ UNCHANGED <<schedVars, timer, val, semq, prio, given>>

\* A seeded mistake: a wait that timed out looks at its timer
\* before it looks at what was triggered meanwhile.
GotUnlessLate(p) ==
  call[p].got \cup (IF call[p].timed /\ p \notin timer THEN {}
                    ELSE acting[p] \cap call[p].sems)

\* What the conditional wait of p knows to be triggered when it is resumed.
Got(p) == call[p].got \cup (acting[p] \cap call[p].sems)
TimedOut(p) == call[p].timed /\ p \notin timer

\* A seeded mistake: the registrations are not cancelled.
CondReturnStillQueued(p) ==
  /\ cur = p /\ call[p].op = "cond"
  /\ TimedOut(p) \/ Met(call[p].every, call[p].sems, Got(p))
  /\ acting' = [acting EXCEPT ![p] = @ \ call[p].sems]
  /\ taken' = Plus(taken, Got(p))
  /\ timer' = timer \ {p}
  /\ call' = [call EXCEPT ![p] = Idle]
  /\ UNCHANGED <<schedVars, val, semq, prio, given>>

CondReturn(p) ==
  /\ cur = p /\ call[p].op = "cond"
  /\ TimedOut(p) \/ Met(call[p].every, call[p].sems, Got(p))
  /\ acting' = [acting EXCEPT ![p] = @ \ call[p].sems]
  /\ taken' = Plus(taken, Got(p))
  /\ timer' = timer \ {p}
  /\ val' = Plus(val, call[p].sems \ Got(p))
  /\ semq' = Dequeued(p, call[p].sems \ Got(p))
  /\ call' = [call EXCEPT ![p] = Idle]
  /\ UNCHANGED <<schedVars, prio, given>>

CondAgain(p) ==
  /\ cur = p /\ call[p].op = "cond"
  /\ ~(TimedOut(p) \/ Met(call[p].every, call[p].sems, Got(p)))
  /\ acting' = [acting EXCEPT ![p] = @ \ call[p].sems]
  /\ call' = [call EXCEPT ![p].got = Got(p)]
  /\ S!Suspend(p)
  /\ UNCHANGED <<timer, val, semq, prio, history>>

-----------------------------------------------------------------------------
(* Signalling *)

\* The places in the queue of s that signal() may unblock.
Candidates(s) ==
  LET q == semq[s]
  IN CASE Qdis[s] = "FIFO" -> {1}
       [] Qdis[s] = "LIFO" -> {Len(q)}
       [] Qdis[s] = "SIRO" -> DOMAIN q
       [] Qdis[s] = "PRIORITY" ->
            {i \in DOMAIN q : /\ \A j \in DOMAIN q : prio[q[i]] <= prio[q[j]]
                              /\ \A j \in 1..(i - 1) : prio[q[j]] > prio[q[i]]}

\* The queue without its place i.  In a list the last process is swapped
\* into that place, which changes the order of the others.
Left(s, i) ==
  LET q == semq[s]
  IN IF Qdis[s] \in {"FIFO", "LIFO"} THEN RemoveAt(q, i)
     ELSE Front([q EXCEPT ![i] = Last(q)])

\* A seeded mistake: a signal does not activate the process.
SignalAsleep(s) ==
  /\ User
  /\ given[s] < MaxSignals
  /\ val' = [val EXCEPT ![s] = @ + 1]
  /\ given' = [given EXCEPT ![s] = @ + 1]
  /\ IF semq[s] = <<>>
     THEN UNCHANGED <<semq, acting>>
     ELSE \E i \in Candidates(s) :
            LET p == semq[s][i]
            IN /\ semq' = [semq EXCEPT ![s] = Left(s, i)]
               /\ acting' = [acting EXCEPT ![p] = @ \cup {s}]
  /\ S!Signal(<<>>)
  /\ UNCHANGED <<timer, call, prio, taken>>

\* signal(): the semaphore is counted up and, if processes are blocked, one of
\* them is unblocked; activate() leaves it alone if it is dead.
Signal(s) ==
  /\ User
  /\ given[s] < MaxSignals
  /\ val' = [val EXCEPT ![s] = @ + 1]
  /\ given' = [given EXCEPT ![s] = @ + 1]
  /\ IF semq[s] = <<>>
     THEN S!Signal(<<>>) /\ UNCHANGED <<semq, acting>>
     ELSE \E i \in Candidates(s) :
            LET p == semq[s][i]
            IN /\ semq' = [semq EXCEPT ![s] = Left(s, i)]
               /\ acting' = [acting EXCEPT ![p] = @ \cup {s}]
               /\ S!Signal(S!Woken(st, <<p>>))
  /\ UNCHANGED <<timer, call, prio, taken>>

SetPriority(p, v) == /\ User
                     /\ prio' = [prio EXCEPT ![p] = v]
                     /\ UNCHANGED <<schedVars, timer, call, val, semq, acting, history>>

-----------------------------------------------------------------------------
(* Processes and the event loop *)

Sleep == /\ InProcess
         /\ timer' = timer \cup {cur}
         /\ call' = [call EXCEPT ![cur] = Sleeping]
         /\ S!Suspend(cur)
         /\ UNCHANGED <<semVars, history>>

SleepReturn(p) == /\ cur = p /\ call[p].op = "sleep"
                  /\ call' = [call EXCEPT ![p] = Idle]
                  /\ UNCHANGED <<schedVars, timer, semVars, history>>

Kill(p) == /\ Kills /\ User
           /\ S!Kill(p, <<>>)
           /\ UNCHANGED <<timer, call, semVars, history>>

Terminate(p) == /\ User
                /\ S!Terminate(p, <<>>)
                /\ UNCHANGED <<timer, call, semVars, history>>

Fire(p) == /\ p \in timer
           /\ S!Fire(p)
           /\ timer' = timer \ {p}
           /\ UNCHANGED <<call, semVars, history>>

LoopStep == /\ \/ S!RunBegin \/ S!RunEnd \/ S!Handle(<<>>)
               \/ S!HandlerReturn \/ S!Dispatch \/ S!DrainEnd("pick")
            /\ UNCHANGED <<timer, call, semVars, history>>

Next == \/ \E sems \in (SUBSET Sems) \ {{}}, every \in BOOLEAN :
             \/ WaitAtOnce(sems, every)
             \/ \E timed \in BOOLEAN : WaitBlocks("cond", sems, every, timed)
        \/ \E s \in Sems : Signal(s) \/ WaitBlocks("direct", {s}, TRUE, FALSE)
        \/ \E p \in Procs : \/ DirectReturn(p) \/ CondReturn(p) \/ CondAgain(p)
                            \/ SleepReturn(p) \/ Kill(p) \/ Terminate(p) \/ Fire(p)
                            \/ \E v \in Prios : SetPriority(p, v)
        \/ Sleep
        \/ LoopStep

Spec == Init /\ [][Next]_vars

-----------------------------------------------------------------------------

\* A negative value counts the processes in the queue, which wait() asserts:
\* a count that drifts would block a process on a free semaphore or let one
\* pass that should be queued.
ValueCountsQueue ==
  \A s \in Sems : Len(semq[s]) = IF val[s] < 0 THEN -val[s] ELSE 0

\* The signals of s that a process has been granted, but not been told of yet.
InFlight(s) == Cardinality({p \in Procs : s \in acting[p]})
             + Cardinality({p \in Procs : /\ call[p].op \in {"direct", "cond"}
                                          /\ s \in call[p].got})

\* No signal is lost or used twice, however waits on several semaphores, time
\* limits and signals cross: what was there and what was signalled is still
\* free, on its way to a process, or was reported to the caller of a wait.
SignalsConserved ==
  \A s \in Sems :
    InitVal[s] + given[s] = taken[s] + InFlight(s) + (IF val[s] > 0 THEN val[s] ELSE 0)

\* A live process is in the queue of a semaphore, once, exactly while it waits
\* for it and has not been granted it: one that gave up is not signalled.
QueuedWhileWaiting ==
  \A p \in Procs, s \in Sems : S!Live(p) =>
    Cardinality({i \in DOMAIN semq[s] : semq[s][i] = p}) =
      IF /\ call[p].op \in {"direct", "cond"}
         /\ s \in call[p].sems \ (call[p].got \cup acting[p])
      THEN 1 ELSE 0

\* A process stays suspended only while what it was granted is not enough:
\* a signal that completes its wait, or its time limit, makes it ready.
NoLostWakeup ==
  \A p \in Procs : st[p] = "suspended" =>
    /\ call[p].op = "direct" => acting[p] = {}
    /\ call[p].op = "cond" => /\ ~Met(call[p].every, call[p].sems, Got(p))
                              /\ call[p].timed => p \in timer
    /\ call[p].op = "sleep" => p \in timer

\* Each signal unblocks one of the processes that are blocked, if there are
\* any: a live one, as a dead one cannot use it.
SignalWakesLive ==
  [][\A s \in Sems :
       given'[s] > given[s] /\ (\E p \in ToSet(semq[s]) : S!Live(p))
         => \E p \in ToSet(semq[s]) : S!Live(p) /\ s \in acting'[p]]_vars
=============================================================================
