---------------------------------- MODULE Sync ----------------------------------
(***************************************************************************)
(* A synchronized group of simulators (src/simulus/sync.py): conservative  *)
(* parallel simulation in windows.  The simulators are divided among       *)
(* processes, which agree on the end of the next window, run their         *)
(* simulators up to it, and exchange the messages sent in it.              *)
(*                                                                         *)
(* A process is a pair of an MPI rank and a number: on each rank process 0 *)
(* runs the user's program and, with enable_smp, forks the others when it  *)
(* runs the group first.  Inside a rank processes talk through one         *)
(* multiprocessing queue each; across ranks the processes 0 use collective *)
(* operations of MPI.  A broadcast of rank 0 can be under way while rank 0 *)
(* goes on; in the other operations the ranks meet, and here they take one *)
(* step together.  Without MPI there is one rank, which meets itself.      *)
(*                                                                         *)
(* A simulator is its clock and its event list; its events are events of   *)
(* the user and deliveries of messages to its mailbox.  Each may do one    *)
(* thing more: schedule an event or send a message.                        *)
(***************************************************************************)
EXTENDS Integers, Sequences, FiniteSets, FiniteSetsExt, SequencesExt

CONSTANTS Sims,       \* the simulators
          Groups,     \* the settings of the group: enable_smp, the simulators of
                      \* every rank, and its smp_ways
          Clocks,     \* the clocks of the simulators before the group is created
          MinDelay,   \* min_delay of the mailbox of every simulator that has one
          UserLook,   \* the lookahead given by the user
          Evs, Msgs,  \* events and messages, each used at most once
          MaxTime,    \* bound: the latest time of an event or a message
          MaxRuns     \* bound: the runs of the group

\* infinite_time, which no clock or window of the model reaches.
Inf == 2 * MaxTime + 1
Times == 0..MaxTime
Boxes == DOMAIN MinDelay

\* The smallest of the given lookahead and the minimum delays.
Lookahead == Min({UserLook} \cup {MinDelay[s] : s \in Boxes})

\* A group: every simulator is on one rank, and no rank is without.
GroupOK(g) ==
  /\ g.smp \in BOOLEAN
  /\ 0 \in DOMAIN g.sims /\ DOMAIN g.sims \subseteq Nat /\ IsFiniteSet(DOMAIN g.sims)
  /\ \A r \in DOMAIN g.sims : /\ g.sims[r] \in Seq(Sims) /\ g.sims[r] # <<>>
                              /\ IsInjective(g.sims[r])
                              /\ g.ways[r] \in Nat \ {0}
  /\ \A s \in Sims : \E r \in DOMAIN g.sims : s \in ToSet(g.sims[r])
  /\ \A q, r \in DOMAIN g.sims : q # r => ToSet(g.sims[q]) \cap ToSet(g.sims[r]) = {}

ASSUME SyncAssumption ==
  /\ MaxTime \in Nat /\ MaxRuns \in Nat
  /\ IsFiniteSet(Sims) /\ Boxes \subseteq Sims
  /\ MinDelay \in [Boxes -> Nat] /\ UserLook \in Nat
  /\ Lookahead \in 1..MaxTime \cup {Inf}
  /\ Clocks \subseteq [Sims -> Times]
  /\ \A g \in Groups : GroupOK(g)

\* _local_partitions: as even a division as there can be.  Those at the end that
\* would get no simulator are left out.
Split(sims, ways) ==
  LET k == Len(sims) \div ways
      m == Len(sims) % ways
      from(i) == i * k + Min({i, m})
  IN [i \in 1..Min({ways, Len(sims)}) |-> SubSeq(sims, from(i - 1) + 1, from(i))]

\* The simulators of every process.
Partition(g) ==
  LET pieces(r) == Split(g.sims[r], IF g.smp THEN g.ways[r] ELSE 1)
      procs == UNION {{<<r, k - 1>> : k \in DOMAIN pieces(r)} : r \in DOMAIN g.sims}
  IN [p \in procs |-> pieces(p[1])[p[2] + 1]]

VARIABLES smp,        \* enable_smp
          parts,      \* the simulators of every process
          home,       \* _all_sims, _local_pids: the process of every simulator
          now,        \* the clock of every simulator
          list,       \* its event list: the time of every pending event
          fresh,      \* the events and messages not used yet
          buf,        \* _remote_msgbuf of every process
          future,     \* _remote_future of every process
          queue,      \* _local_queues
          cmds,       \* the broadcasts every rank is still to receive
          pc,         \* where every process is
          got,        \* how many answers process 0 of a rank has from its children
          upper, spec,   \* the end of the run, and whether the user gave it
          horizon,    \* the end of the window
          todo,       \* the simulators still to run in the window
          exits,      \* how often _run_finish is registered in every rank
          count,      \* executed_events in a report, forgotten with the next run
          done,       \* history: the simulator that processed an event or message
          late        \* history: a message was scheduled in the past

setup == <<smp, parts, home>>
sims == <<now, list, fresh, done, late>>
bufs == <<buf, future>>
chans == <<queue, cmds>>
args == <<upper, spec>>
window == <<horizon, todo>>
reports == <<exits, count>>
vars == <<setup, sims, bufs, chans, pc, got, args, window, reports>>

Procs == DOMAIN parts
Ranks == {p[1] : p \in Procs}
Lead(r) == <<r, 0>>
Leads == {Lead(r) : r \in Ranks}
Children(r) == {p \in Procs : p[1] = r} \ {Lead(r)}
Rank(s) == home[s][1]

\* The constructor has learnt the latest clock of all simulators, and is about
\* to bring those of its rank to it.  There may be an event already.
Init == /\ \E g \in Groups :
             /\ smp = g.smp
             /\ parts = Partition(g)
             /\ home = [s \in Sims |-> CHOOSE p \in Procs : s \in ToSet(parts[p])]
             /\ todo = [p \in Procs |-> IF p \in Leads THEN g.sims[p[1]] ELSE <<>>]
        /\ now \in Clocks
        /\ \/ list = [s \in Sims |-> [i \in {} |-> 0]] /\ fresh = Evs \cup Msgs
           \/ \E s \in Sims, i \in Evs, t \in Times :
                /\ t >= now[s]
                /\ list = [r \in Sims |-> IF r = s THEN [j \in {i} |-> t] ELSE [j \in {} |-> 0]]
                /\ fresh = (Evs \cup Msgs) \ {i}
        /\ buf = [p \in Procs |-> {}]
        /\ future = [p \in Procs |-> Inf]
        /\ queue = [p \in Procs |-> <<>>]
        /\ cmds = [r \in Ranks |-> <<>>]
        /\ pc = [p \in Procs |-> IF p \in Leads THEN "create" ELSE "unborn"]
        /\ got = [r \in Ranks |-> 0]
        /\ upper = [p \in Procs |-> Inf]
        /\ spec = [p \in Procs |-> FALSE]
        /\ horizon = [p \in Procs |-> Max({now[s] : s \in Sims})]
        /\ exits = [r \in Ranks |-> 0]
        /\ count = [r \in Ranks |-> 0]
        /\ done = [i \in {} |-> 0]
        /\ late = FALSE

\* The constructor is through.
Created(r) == /\ pc[Lead(r)] = "create" /\ todo[Lead(r)] = <<>>
              /\ pc' = [pc EXCEPT ![Lead(r)] = "main"]
              /\ UNCHANGED <<setup, sims, bufs, chans, got, args, window, reports>>

-----------------------------------------------------------------------------
(* What user code does, at the clock of a simulator of process p *)

Add(l, s, i, t) == [l EXCEPT ![s] = [j \in DOMAIN @ \cup {i} |-> IF j = i THEN t ELSE @[j]]]

\* sched() of an event by the simulator itself.
Sched(l, s, t) ==
  \E i \in fresh \cap Evs, at \in t..MaxTime :
    /\ list' = Add(l, s, i, at)
    /\ fresh' = fresh \ {i}
    /\ UNCHANGED <<bufs, late>>

\* The message that is sent next: they differ by name only.
NextMsg == CHOOSE m \in fresh \cap Msgs : TRUE

\* send(): straight to the event list of the mailbox if that is in the same
\* process, for sure; otherwise into the message buffer.
Send(l, p, s, t) ==
  /\ fresh \cap Msgs # {}
  /\ \E d \in Boxes : \E at \in t + MinDelay[d]..MaxTime : LET m == NextMsg IN
    /\ fresh' = fresh \ {m}
    /\ IF (~smp /\ Rank(d) = Rank(s)) \/ d = s
       THEN /\ list' = Add(l, d, m, at)
            /\ late' = (late \/ at < now'[d])
            /\ UNCHANGED bufs
       ELSE /\ buf' = [buf EXCEPT ![p] = @ \cup {[m |-> m, to |-> d, at |-> at]}]
            /\ future' = [future EXCEPT ![p] = Min({@, at})]
            /\ list' = l
            /\ UNCHANGED late

\* The program of a rank, before a run.  Once there are other processes, it has
\* only its own copies of the simulators that run in them, and leaves them alone.
MainCall(s) ==
  LET p == Lead(Rank(s))
  IN /\ pc[p] = "main"
     /\ home[s] = p \/ \A q \in Children(Rank(s)) : pc[q] = "unborn"
     /\ UNCHANGED <<now, done>>
     /\ Sched(list, s, now[s]) \/ Send(list, p, s, now[s])
     /\ UNCHANGED <<setup, chans, pc, got, args, window, reports>>

-----------------------------------------------------------------------------
(* Runs *)

Entry(kind, val) == [kind |-> kind, val |-> val]

\* Something is put in the queue of process 0 by another process of its rank.
Report(p, kind, val) ==
  [queue EXCEPT ![Lead(p[1])] = IF p \in Leads THEN @ ELSE Append(@, Entry(kind, val))]

\* Processes 0 of the ranks in R put something in the queue of every other
\* process of their rank.
Instruct(R, kind, vals) ==
  [p \in Procs |-> IF p[1] \in R /\ p \notin Leads
                   THEN Append(queue[p], Entry(kind, vals[p])) ELSE queue[p]]

\* Rank 0 broadcasts a command.
Bcast(cmd) == [r \in Ranks |-> IF r = 0 THEN cmds[r] ELSE Append(cmds[r], cmd)]

\* run() of the program of rank 0.
Run(u, given) ==
  /\ pc[Lead(0)] = "main" /\ exits[0] < MaxRuns
  /\ \A s \in Sims : home[s] = Lead(0) => now[s] <= u
  /\ cmds' = Bcast("run")
  /\ pc' = [pc EXCEPT ![Lead(0)] = "agree"]
  /\ upper' = [upper EXCEPT ![Lead(0)] = u]
  /\ spec' = [spec EXCEPT ![Lead(0)] = given]
  /\ exits' = [exits EXCEPT ![0] = @ + 1]
  /\ count' = [count EXCEPT ![0] = 0]
  /\ UNCHANGED <<setup, sims, bufs, queue, got, window>>

\* run() of the program of another rank, which has no say in the limit, and its
\* loop for the commands of rank 0.  What run() itself receives it ignores.
Command(r) ==
  /\ r # 0 /\ pc[Lead(r)] \in {"main", "listen"} /\ cmds[r] # <<>>
  /\ pc[Lead(r)] = "main" => exits[r] = 0
  /\ LET cmd == IF pc[Lead(r)] = "main" THEN "run" ELSE Head(cmds[r])
     IN /\ pc' = [pc EXCEPT ![Lead(r)] = CASE cmd = "run" -> "agree"
                                           [] cmd = "report" -> "tell"
                                           [] cmd = "stop" -> "main"]
        /\ IF cmd = "run"
           THEN /\ upper' = [upper EXCEPT ![Lead(r)] = Inf]
                /\ spec' = [spec EXCEPT ![Lead(r)] = FALSE]
           ELSE UNCHANGED args
  /\ exits' = [exits EXCEPT ![r] = 1]
  /\ cmds' = [cmds EXCEPT ![r] = Tail(@)]
  /\ UNCHANGED <<setup, sims, bufs, queue, got, window, count>>

\* All ranks agree on the limit, and tell their processes; the first time these
\* are started, each with a copy of what process 0 has in memory.
Agree ==
  LET u == Min({upper[p] : p \in Leads})
      given == \E p \in Leads : spec[p]
      born == {p \in Procs : pc[p] = "unborn"}
  IN /\ \A p \in Leads : pc[p] = "agree"
     /\ upper' = [p \in Procs |-> IF p \in Leads THEN u ELSE upper[p]]
     /\ spec' = [p \in Procs |-> IF p \in Leads THEN given ELSE spec[p]]
     /\ queue' = Instruct(Ranks, "run", [p \in Procs |-> <<u, given>>])
     /\ pc' = [p \in Procs |-> CASE p \in Leads -> "peek"
                                 [] p \in born -> "start"
                                 [] OTHER -> pc[p]]
     /\ buf' = [p \in Procs |-> IF p \in born THEN buf[Lead(p[1])] ELSE buf[p]]
     /\ future' = [p \in Procs |-> IF p \in born THEN future[Lead(p[1])] ELSE future[p]]
     /\ UNCHANGED <<setup, sims, cmds, got, window, reports>>

\* A seeded mistake: a child keeps the messages it has a copy of.
ChildStartKeep(p) ==
  /\ pc[p] = "start"
  /\ pc' = [pc EXCEPT ![p] = "cmd"]
  /\ UNCHANGED <<setup, sims, bufs, chans, got, args, window, reports>>

\* _child_run(): the copies of the messages are dropped.
ChildStart(p) ==
  /\ pc[p] = "start"
  /\ pc' = [pc EXCEPT ![p] = "cmd"]
  /\ buf' = [buf EXCEPT ![p] = {}]
  /\ future' = [future EXCEPT ![p] = Inf]
  /\ UNCHANGED <<setup, sims, chans, got, args, window, reports>>

\* It takes a command.
ChildCommand(p) ==
  /\ pc[p] = "cmd" /\ queue[p] # <<>>
  /\ LET cmd == Head(queue[p])
     IN /\ pc' = [pc EXCEPT ![p] = CASE cmd.kind = "run" -> "peek"
                                     [] cmd.kind = "report" -> "tell"
                                     [] cmd.kind = "stop" -> "ended"]
        /\ IF cmd.kind = "run"
           THEN /\ upper' = [upper EXCEPT ![p] = cmd.val[1]]
                /\ spec' = [spec EXCEPT ![p] = cmd.val[2]]
           ELSE UNCHANGED args
  /\ queue' = [queue EXCEPT ![p] = Tail(@)]
  /\ UNCHANGED <<setup, sims, bufs, cmds, got, window, reports>>

\* Where a process is once a run or a report is over.
Over(p) == IF p \notin Leads THEN "cmd" ELSE IF p = Lead(0) THEN "main" ELSE "listen"

-----------------------------------------------------------------------------
(* The next window *)

\* The times of the events of the simulators of p.
Pending(p) == UNION {{list[s][i] : i \in DOMAIN list[s]} : s \in ToSet(parts[p])}

\* A seeded mistake: messages not sent yet are not looked at.
WindowNoFuture(p) ==
  LET ends == {IF Lookahead = Inf THEN Inf ELSE t + Lookahead : t \in Pending(p)}
  IN Min(ends \cup {upper[p]})

\* The end of the window as far as p can tell.
Window(p) ==
  LET ends == {IF Lookahead = Inf THEN Inf ELSE t + Lookahead : t \in Pending(p)}
  IN Min(ends \cup {future[p], upper[p]})

Peek(p) == /\ pc[p] = "peek"
           /\ horizon' = [horizon EXCEPT ![p] = Window(p)]
           /\ pc' = [pc EXCEPT ![p] = "window"]
           /\ queue' = Report(p, "horizon", Window(p))
           /\ todo' = [todo EXCEPT ![p] = parts[p]]
           /\ got' = IF p \in Leads THEN [got EXCEPT ![p[1]] = 0] ELSE got
           /\ UNCHANGED <<setup, sims, bufs, cmds, args, reports>>

\* Where a process is once it knows the window: no event is left anywhere, or it
\* runs.
Opened(p, h) == IF h = Inf /\ ~spec[p] THEN Over(p) ELSE "run"

\* Process 0 takes the answer of a child.
Gather(r) == /\ pc[Lead(r)] = "window" /\ got[r] < Cardinality(Children(r))
             /\ queue[Lead(r)] # <<>>
             /\ horizon' = [horizon EXCEPT ![Lead(r)] = Min({@, Head(queue[Lead(r)]).val})]
             /\ queue' = [queue EXCEPT ![Lead(r)] = Tail(@)]
             /\ got' = [got EXCEPT ![r] = @ + 1]
             /\ UNCHANGED <<setup, sims, bufs, cmds, pc, args, todo, reports>>

\* The processes 0 of all ranks are at a place, with all answers.
Complete(where) == \A r \in Ranks : pc[Lead(r)] = where /\ got[r] = Cardinality(Children(r))

\* A seeded mistake: every rank has a window of its own.
AnnounceOwn ==
  /\ Complete("window")
  /\ pc' = [p \in Procs |-> IF p \in Leads THEN Opened(p, horizon[p]) ELSE pc[p]]
  /\ queue' = Instruct(Ranks, "horizon", [p \in Procs |-> horizon[Lead(p[1])]])
  /\ UNCHANGED <<setup, sims, bufs, cmds, got, args, window, reports>>

\* All ranks agree on the window, and tell their processes.
Announce ==
  LET h == Min({horizon[p] : p \in Leads})
  IN /\ Complete("window")
     /\ horizon' = [p \in Procs |-> IF p \in Leads THEN h ELSE horizon[p]]
     /\ pc' = [p \in Procs |-> IF p \in Leads THEN Opened(p, h) ELSE pc[p]]
     /\ queue' = Instruct(Ranks, "horizon", [p \in Procs |-> h])
     /\ UNCHANGED <<setup, sims, bufs, cmds, got, args, todo, reports>>

\* A seeded mistake: a child trusts its own window.
ChildWindowOwn(p) ==
  /\ p \notin Leads /\ pc[p] = "window" /\ queue[p] # <<>>
  /\ pc' = [pc EXCEPT ![p] = Opened(p, horizon[p])]
  /\ queue' = [queue EXCEPT ![p] = Tail(@)]
  /\ UNCHANGED <<setup, sims, bufs, cmds, got, args, window, reports>>

ChildWindow(p) ==
  /\ p \notin Leads /\ pc[p] = "window" /\ queue[p] # <<>>
  /\ horizon' = [horizon EXCEPT ![p] = Head(queue[p]).val]
  /\ pc' = [pc EXCEPT ![p] = Opened(p, Head(queue[p]).val)]
  /\ queue' = [queue EXCEPT ![p] = Tail(@)]
  /\ UNCHANGED <<setup, sims, bufs, cmds, got, args, todo, reports>>

-----------------------------------------------------------------------------
(* Inside the window *)

\* The simulator at the head of todo processes its earliest event.  Nothing can
\* be sent before the group is created.
Execute(p) ==
  /\ pc[p] \in {"create", "run"} /\ todo[p] # <<>>
  /\ LET s == Head(todo[p])
     IN \E i \in DOMAIN list[s] :
          LET t == list[s][i]
              l == [list EXCEPT ![s] = [j \in DOMAIN @ \ {i} |-> @[j]]]
          IN /\ \A j \in DOMAIN list[s] : t <= list[s][j]
             /\ t < horizon[p]
             /\ now' = [now EXCEPT ![s] = t]
             /\ done' = [j \in DOMAIN done \cup {i} |-> IF j = i THEN s ELSE done[j]]
             /\ \/ Sched(l, s, t)
                \/ pc[p] = "run" /\ Send(l, p, s, t)
                \/ list' = l /\ UNCHANGED <<fresh, bufs, late>>
  /\ UNCHANGED <<setup, chans, pc, got, args, window, reports>>

\* It has none left before the end of the window, and its clock goes there.
Finish(p) ==
  /\ pc[p] \in {"create", "run"} /\ todo[p] # <<>>
  /\ LET s == Head(todo[p])
     IN /\ \A i \in DOMAIN list[s] : list[s][i] >= horizon[p]
        /\ now' = [now EXCEPT ![s] = horizon[p]]
  /\ todo' = [todo EXCEPT ![p] = Tail(@)]
  /\ UNCHANGED <<setup, list, fresh, done, late, bufs, chans, pc, got, args, horizon, reports>>

-----------------------------------------------------------------------------
(* The messages sent in the window *)

HandOver(p) ==
  /\ pc[p] = "run" /\ todo[p] = <<>>
  /\ pc' = [pc EXCEPT ![p] = "exchange"]
  /\ queue' = Report(p, "sent", buf[p])
  /\ got' = IF p \in Leads THEN [got EXCEPT ![p[1]] = 0] ELSE got
  /\ UNCHANGED <<setup, sims, bufs, cmds, args, window, reports>>

Collect(r) ==
  LET p == Lead(r)
  IN /\ pc[p] = "exchange" /\ got[r] < Cardinality(Children(r))
     /\ queue[p] # <<>>
     /\ buf' = [buf EXCEPT ![p] = @ \cup Head(queue[p]).val]
     /\ queue' = [queue EXCEPT ![p] = Tail(@)]
     /\ got' = [got EXCEPT ![r] = @ + 1]
     /\ UNCHANGED <<setup, sims, future, cmds, pc, args, window, reports>>

\* The processes of P schedule the messages in that are for their simulators, and
\* drop those they have sent; the run is over when the window has reached its
\* end.
Deliver(P, in) ==
  LET mine == {x \in in : home[x.to] \in P}
  IN /\ list' = [s \in Sims |->
                   [i \in DOMAIN list[s] \cup {x.m : x \in {y \in mine : y.to = s}} |->
                      IF \E x \in mine : x.m = i /\ x.to = s
                      THEN (CHOOSE x \in mine : x.m = i).at ELSE list[s][i]]]
     /\ late' = (late \/ \E x \in mine : x.at < now[x.to])
     /\ buf' = [p \in Procs |-> IF p \in P THEN {} ELSE buf[p]]
     /\ future' = [p \in Procs |-> IF p \in P THEN Inf ELSE future[p]]
     /\ pc' = [p \in Procs |-> IF p \notin P THEN pc[p]
                               ELSE IF horizon[p] >= upper[p] THEN Over(p) ELSE "peek"]
     /\ UNCHANGED <<setup, now, fresh, done, cmds, got, args, window, reports>>

\* The messages of all ranks that are for process p.
For(p) == {x \in UNION {buf[q] : q \in Leads} : home[x.to] = p}

\* A seeded mistake: a rank does not wait for its other processes.
DistributeEarly ==
  /\ \A p \in Leads : pc[p] = "exchange"
  /\ queue' = Instruct(Ranks, "incoming", [p \in Procs |-> For(p)])
  /\ Deliver(Leads, UNION {buf[q] : q \in Leads})

\* The ranks swap their messages, and hand them out to their processes.
Distribute ==
  /\ Complete("exchange")
  /\ queue' = Instruct(Ranks, "incoming", [p \in Procs |-> For(p)])
  /\ Deliver(Leads, UNION {buf[q] : q \in Leads})

ChildIncoming(p) ==
  /\ p \notin Leads /\ pc[p] = "exchange" /\ queue[p] # <<>>
  /\ queue' = [queue EXCEPT ![p] = Tail(@)]
  /\ Deliver({p}, Head(queue[p]).val)

-----------------------------------------------------------------------------
(* Reports, and the end *)

\* show_runtime_report(), once the group has run.
ShowReport ==
  /\ pc[Lead(0)] = "main" /\ exits[0] > 0
  /\ cmds' = Bcast("report")
  /\ pc' = [pc EXCEPT ![Lead(0)] = "tell"]
  /\ UNCHANGED <<setup, sims, bufs, queue, got, args, window, reports>>

\* The events that the simulators of p have executed.
Executed(p) == Cardinality({i \in DOMAIN done : done[i] \in ToSet(parts[p])})

\* _smp_report(): process 0 asks the others; they answer.
Tell(p) ==
  /\ pc[p] = "tell"
  /\ IF p \in Leads
     THEN /\ queue' = Instruct({p[1]}, "report", [q \in Procs |-> 0])
          /\ pc' = [pc EXCEPT ![p] = "report"]
          /\ count' = [count EXCEPT ![p[1]] = Executed(p)]
          /\ got' = [got EXCEPT ![p[1]] = 0]
     ELSE /\ queue' = Report(p, "figures", Executed(p))
          /\ pc' = [pc EXCEPT ![p] = "cmd"]
          /\ UNCHANGED <<count, got>>
  /\ UNCHANGED <<setup, sims, bufs, cmds, args, window, exits>>

Sum(r) == /\ pc[Lead(r)] = "report" /\ got[r] < Cardinality(Children(r))
          /\ queue[Lead(r)] # <<>>
          /\ count' = [count EXCEPT ![r] = @ + Head(queue[Lead(r)]).val]
          /\ queue' = [queue EXCEPT ![Lead(r)] = Tail(@)]
          /\ got' = [got EXCEPT ![r] = @ + 1]
          /\ UNCHANGED <<setup, sims, bufs, cmds, pc, args, window, exits>>

\* A seeded mistake: the figures of the other ranks are not added.
ReportedOwn ==
  /\ Complete("report")
  /\ pc' = [p \in Procs |-> IF p \in Leads THEN Over(p) ELSE pc[p]]
  /\ UNCHANGED <<setup, sims, bufs, chans, got, args, window, reports>>

\* Rank 0 has the figures of all ranks.
Reported ==
  /\ Complete("report")
  /\ count' = [r \in Ranks |-> IF r = 0 THEN MapThenSumSet(LAMBDA q : count[q], Ranks) ELSE 0]
  /\ pc' = [p \in Procs |-> IF p \in Leads THEN Over(p) ELSE pc[p]]
  /\ UNCHANGED <<setup, sims, bufs, chans, got, args, window, exits>>

\* A seeded mistake: rank 0 does not tell the other ranks to stop.
RunFinishAlone(r) ==
  /\ pc[Lead(r)] \in {"main", "exit"} /\ exits[r] > 0
  /\ queue' = Instruct({r}, "stop", [p \in Procs |-> 0])
  /\ pc' = [pc EXCEPT ![Lead(r)] = "join"]
  /\ exits' = [exits EXCEPT ![r] = @ - 1]
  /\ UNCHANGED <<setup, sims, bufs, cmds, got, args, window, count>>

\* The program of a rank comes to its end, and _run_finish() is called, as often
\* as there were runs.
RunFinish(r) ==
  /\ pc[Lead(r)] \in {"main", "exit"} /\ exits[r] > 0
  /\ cmds' = IF r = 0 THEN Bcast("stop") ELSE cmds
  /\ queue' = Instruct({r}, "stop", [p \in Procs |-> 0])
  /\ pc' = [pc EXCEPT ![Lead(r)] = "join"]
  /\ exits' = [exits EXCEPT ![r] = @ - 1]
  /\ UNCHANGED <<setup, sims, bufs, got, args, window, count>>

\* All processes of the rank have ended.
Join(r) ==
  /\ pc[Lead(r)] = "join" /\ \A p \in Children(r) : pc[p] = "ended"
  /\ pc' = [pc EXCEPT ![Lead(r)] = IF exits[r] > 0 THEN "exit" ELSE "ended"]
  /\ UNCHANGED <<setup, sims, bufs, chans, got, args, window, reports>>

Ended == (\A p \in Leads : pc[p] = "ended") /\ UNCHANGED vars

-----------------------------------------------------------------------------

\* The steps that the processes 0 of all ranks take together.
Together == Agree \/ Announce \/ Distribute \/ Reported

Step(p) ==
  \/ ChildStart(p) \/ ChildCommand(p) \/ Peek(p) \/ ChildWindow(p)
  \/ Execute(p) \/ Finish(p) \/ HandOver(p) \/ ChildIncoming(p) \/ Tell(p)
  \/ /\ p \in Leads
     /\ LET r == p[1]
        IN \/ Created(r) \/ Command(r) \/ Gather(r) \/ Collect(r) \/ Sum(r)
           \/ RunFinish(r) \/ Join(r)

\* What the programs do of their own accord.
Main == \/ \E s \in Sims : MainCall(s)
        \/ \E u \in Times : Run(u, TRUE)
        \/ Run(Inf, FALSE)
        \/ ShowReport

Next == Main \/ Together \/ (\E p \in Procs : Step(p)) \/ Ended

Spec == Init /\ [][Next]_vars

\* Some process that can go on does: the operating system does not let all of
\* them rest, no event handler and no program runs forever, and the program of
\* every rank runs the group.
FairSpec == Spec /\ WF_vars(Together \/ \E p \in Procs : Step(p))

-----------------------------------------------------------------------------

\* Local causality: no simulator receives a message in its past, however the
\* processes interleave, and all its pending events are in its future.
LocalCausality == /\ ~late
                  /\ \A s \in Sims : \A i \in DOMAIN list[s] : now[s] <= list[s][i]

\* The processes are between two runs.
AtRest == \A p \in Procs : pc[p] \in IF p \in Leads THEN {"main", "listen"} ELSE {"cmd", "unborn"}

\* The clocks advance together: all processes of all ranks run the same window,
\* and when the group is created and after a run the clocks are equal, and at the
\* limit of the run if it has one.
ClocksTogether ==
  /\ \A p, q \in Procs : pc[p] = "run" /\ pc[q] = "run" => horizon[p] = horizon[q]
  /\ AtRest => \A r, s \in Sims : now[r] = now[s]
  /\ AtRest /\ spec[Lead(0)] => \A s \in Sims : now[s] = upper[Lead(0)]

\* The queues and broadcasts carry bare values, and the program counts on their
\* order: what a process takes is always what it expects.
Expected(p) ==
  CASE pc[p] \in {"cmd", "start"} -> {"run", "report", "stop"}
    [] pc[p] = "window" -> {"horizon"}
    [] pc[p] = "peek" -> IF p \in Leads THEN {"horizon"} ELSE {}
    [] pc[p] \in {"run", "exchange"} -> IF p \in Leads THEN {"sent"} ELSE {"incoming"}
    [] pc[p] = "report" -> {"figures"}
    [] pc[p] = "ended" -> {"stop"}
    [] OTHER -> {}
QueuesInStep ==
  /\ \A p \in Procs : queue[p] # <<>> => Head(queue[p]).kind \in Expected(p)
  /\ \A r \in Ranks : /\ cmds[r] # <<>> /\ pc[Lead(r)] = "main" /\ exits[r] = 0
                       => Head(cmds[r]) = "run"

\* Where a message is: the number of copies of it that can still be delivered.
InQueue(m, p) == {k \in DOMAIN queue[p] : /\ queue[p][k].kind \in {"sent", "incoming"}
                                          /\ \E x \in queue[p][k].val : x.m = m}
Copies(m) ==
  Cardinality({s \in Sims : m \in DOMAIN list[s]})
  + Cardinality({p \in Procs : /\ pc[p] # "start"
                               /\ p \in Leads \/ pc[p] # "exchange"
                               /\ \E x \in buf[p] : x.m = m})
  + Cardinality(UNION {{<<p, k>> : k \in InQueue(m, p)} : p \in Procs})

\* A message is in one place from when it is sent until it is delivered: it is
\* neither lost nor copied by a fork, an exchange or a repeated run.
ExactlyOnce ==
  \A m \in Msgs : Copies(m) = IF m \in fresh \cup DOMAIN done THEN 0 ELSE 1

\* A report adds up the figures of all processes of all ranks, each at another
\* time: they are those of the runs so far, nothing missing or counted twice.
ReportExact ==
  [][pc[Lead(0)] = "report" /\ pc'[Lead(0)] = "main"
       => count'[0] = Cardinality(DOMAIN done)]_vars

\* A run comes to its end: no process waits for one that waits for it.
RunReturns == pc[Lead(0)] = "agree" ~> pc[Lead(0)] = "main"

\* When the program of rank 0 ends, all processes of all ranks do, whatever
\* commands and stops the runs before have left.
AllEnd == pc[Lead(0)] = "join" ~> \A p \in Procs : pc[p] = "ended"

-----------------------------------------------------------------------------
(* What the documents of the code say and the code does not do.            *)

Returns == pc[Lead(0)] # "create" /\ pc[Lead(0)] # "main" /\ pc'[Lead(0)] = "main"

\* run() without a limit runs as long as there are events on the event lists.
RunsOutOfEvents ==
  [][Returns /\ ~spec[Lead(0)] => \A s \in Sims : DOMAIN list'[s] = {}]_vars
=============================================================================
