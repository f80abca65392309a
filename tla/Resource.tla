------------------------------- MODULE Resource -------------------------------
(***************************************************************************)
(* A resource (src/simulus/resource.py): servers that processes acquire    *)
(* and release, a semaphore that counts the free ones, and the records of  *)
(* who has arrived and who is in service, from which the resource answers  *)
(* how many processes it serves and how many wait.  It composes Semaphore: *)
(* each of its steps is a step of the semaphore and one of the records.    *)
(***************************************************************************)
EXTENDS Integers, Sequences, FiniteSets, SequencesExt

CONSTANTS Procs,      \* the processes
          Capacity,   \* the number of servers
          Disc,       \* the queuing discipline
          Prios,      \* the priorities a process may have
          MaxSignals, \* bound: the number of releases
          Kills       \* whether processes are killed

server == "server"
Sems == {server}

\* The arguments that simulator.resource() accepts.
ValidResource(capacity, qdis) ==
  capacity \in Nat \ {0} /\ qdis \in {"FIFO", "LIFO", "SIRO", "PRIORITY"}

VARIABLES st, readyq, cur, timer, call,  \* processes, see Semaphore
          val, semq, prio, acting, given, taken,
          arrivals,   \* the processes with an arrival time
          services,   \* the processes with a time of entering service
          held,       \* history: the servers every process was given and
                      \* has not released
          again       \* history: who has acquired while it was in service

semVars == <<st, readyq, cur, timer, call, val, semq, prio, acting, given, taken>>
records == <<arrivals, services, held, again>>
vars == <<semVars, records>>

Sem == INSTANCE Semaphore WITH InitVal <- [s \in Sems |-> Capacity],
                               Qdis <- [s \in Sems |-> Disc]

ASSUME ResAssumption == /\ Sem!S!ProcsOK
                        /\ ValidResource(Capacity, Disc)
                        /\ Prios \subseteq Int
                        /\ MaxSignals \in Nat
                        /\ Kills \in BOOLEAN

Init == /\ Sem!Init
        /\ arrivals = {} /\ services = {} /\ again = {}
        /\ held = [p \in Procs |-> 0]

\* _make_arrival() and _make_service().  The records are kept by process: one
\* that acquires again has a single record for all its servers.
Arrived(p) == /\ arrivals' = arrivals \cup {p}
              /\ again' = again \cup ({p} \cap services)
Served(p) == /\ services' = services \cup {p}
             /\ held' = [held EXCEPT ![p] = @ + 1]

\* acquire(), or the conditional wait, with a server free.
AcquireAtOnce == /\ Sem!WaitAtOnce(Sems, TRUE)
                 /\ Arrived(cur)
                 /\ Served(cur)

\* acquire() ("direct") or the conditional wait ("cond") with no server free.
AcquireBlocks(op, timed) == /\ Sem!WaitBlocks(op, Sems, TRUE, timed)
                            /\ Arrived(cur)
                            /\ UNCHANGED <<services, held>>

\* acquire() goes on after its wait on the semaphore.
AcquireReturn(p) == /\ Sem!DirectReturn(p)
                    /\ Served(p)
                    /\ UNCHANGED <<arrivals, again>>

\* A seeded mistake: a process that reneges keeps its arrival.
CondReturnKeepArrival(p) ==
  /\ Sem!CondReturn(p)
  /\ IF Sem!Got(p) = Sems THEN Served(p) ELSE UNCHANGED <<services, held>>
  /\ UNCHANGED <<arrivals, again>>

\* The conditional wait ends: it commits, or it is too late and reneges.
CondReturn(p) == /\ Sem!CondReturn(p)
                 /\ IF Sem!Got(p) = Sems
                    THEN Served(p) /\ UNCHANGED arrivals
                    ELSE arrivals' = arrivals \ {p} /\ UNCHANGED <<services, held>>
                 /\ UNCHANGED again

\* A seeded mistake: the server is given back before the records are found to
\* have nothing to remove.
ReleaseSignalFirst ==
  /\ Sem!InProcess
  /\ arrivals' = arrivals \ {cur}
  /\ services' = services \ {cur}
  /\ held' = [held EXCEPT ![cur] = IF @ > 0 THEN @ - 1 ELSE 0]
  /\ Sem!Signal(server)
  /\ UNCHANGED again

\* release() by a process with both records, which removes both, however many
\* servers it has.  Any other process gets a KeyError, and gives nothing back:
\* a process that is in no wait and has an arrival is in service.
Release == /\ Sem!InProcess
           /\ cur \in arrivals \cap services
           /\ arrivals' = arrivals \ {cur}
           /\ services' = services \ {cur}
           /\ held' = [held EXCEPT ![cur] = @ - 1]
           /\ Sem!Signal(server)
           /\ UNCHANGED again

\* Everything else leaves the records alone: a process that dies in service, by
\* whatever way, keeps its server.
Other == /\ \/ Sem!Sleep \/ Sem!LoopStep
            \/ \E p \in Procs : \/ Sem!SleepReturn(p) \/ Sem!Fire(p)
                                \/ Sem!Kill(p) \/ Sem!Terminate(p)
                                \/ \E v \in Prios : Sem!SetPriority(p, v)
         /\ UNCHANGED records

Next == \/ AcquireAtOnce \/ Release \/ Other
        \/ AcquireBlocks("direct", FALSE)
        \/ \E timed \in BOOLEAN : AcquireBlocks("cond", timed)
        \/ \E p \in Procs : AcquireReturn(p) \/ CondReturn(p)

Spec == Init /\ [][Next]_vars

-----------------------------------------------------------------------------

\* Processes that were granted a server and have not resumed since.
Granted == {p \in Procs : acting[p] # {}}
Queued == {p \in ToSet(semq[server]) : Sem!S!Live(p)}

\* The servers that processes hold, one by one.
Units == UNION {{p} \X (1..held[p]) : p \in Procs}

\* A server is free, on its way to a process, or held by one, whatever is
\* acquired twice and whichever releases fail: a release that finds no record
\* gives nothing back, and one that does gives one server back.
ServersAccounted ==
  (IF val[server] > 0 THEN val[server] ELSE 0)
    + Cardinality(Units) + Cardinality(Granted) = Capacity

\* Who is in service holds a server, and the processes in service are all that
\* hold one, unless they acquired twice.
ServicesAccounted ==
  \A p \in Procs : /\ p \in services => held[p] > 0
                   /\ p \notin again => held[p] = IF p \in services THEN 1 ELSE 0

\* The processes that have arrived and are not in service are those that wait in
\* the queue or are about to be served; one whose wait timed out is gone.
QueueAccounted ==
  \A p \in Procs \ again :
    /\ p \in services => p \in arrivals
    /\ Sem!S!Live(p) => (p \in arrivals \ services <=> p \in Queued \cup Granted)

\* num_in_service() and num_in_queue(), which are computed from the records,
\* agree with the semaphore and with what the processes were given, whatever
\* waits were given up; for a process that acquires twice the records are
\* short of a server, never in excess, and no server is made or lost but with
\* its holder.
CountsExact == ServersAccounted /\ ServicesAccounted /\ QueueAccounted
=============================================================================
