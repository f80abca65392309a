----------------------------- MODULE ResourceStats -----------------------------
(***************************************************************************)
(* A resource with its data collector (src/simulus/resource.py, utils.py): *)
(* Resource with a clock, the times kept of every process, and the samples *)
(* taken at every arrival, service, renege and departure, all of them kept.*)
(*                                                                         *)
(* The clock moves when the event loop takes an event or ends a run.  The  *)
(* delays are whatever they have to be for that: as in Semaphore, events   *)
(* fire in any order, here at any time.  Time starts at 0.                 *)
(***************************************************************************)
EXTENDS Resource, Statistics

CONSTANTS MaxTime,      \* bound: the time at which a model stops
          MaxArrivals   \* bound: the arrivals at the resource

ASSUME StatsAssumption == MaxTime \in Nat /\ MaxArrivals \in Nat

VARIABLES now,        \* the clock
          arrived,    \* _arrivals: the time of arrival of every process in it
          entered,    \* _services: the time at which they entered service
          lastArrival,
          collected,  \* what the data collector has of every attribute
          sums        \* history: the sums of the samples and of their squares

statVars == <<arrived, entered, lastArrival, collected, sums>>
allVars == <<vars, now, statVars>>

Marks == {"arrivals", "services", "reneges", "departs"}
Series == {"inter_arrivals", "queue_times", "renege_times",
           "service_times", "system_times"}
Levels == {"in_systems", "in_services", "in_queues"}

StatsInit == /\ Init
             /\ now = 0 /\ lastArrival = 0
             /\ arrived = [p \in {} |-> 0]
             /\ entered = [p \in {} |-> 0]
             /\ collected = [k \in Marks \cup Series \cup Levels |->
                               CASE k \in Marks  -> NoMarks
                                 [] k \in Series -> NoData
                                 [] k \in Levels -> NoLevels]
             /\ sums = [k \in Series |-> [total |-> 0, squares |-> 0]]

-----------------------------------------------------------------------------
(* Samples *)

\* _sample() of a pair of an attribute and a value.
Sample(c, s) ==
  [c EXCEPT ![s[1]] = CASE s[1] \in Marks  -> Mark(@, s[2])
                        [] s[1] \in Series -> Push(@, s[2])
                        [] s[1] \in Levels -> Record(@, now, s[2])]
Summed(c, s) ==
  IF s[1] \in Series THEN [c EXCEPT ![s[1]].total = @ + s[2],
                                    ![s[1]].squares = @ + s[2] * s[2]] ELSE c

Collect(samples) == /\ collected' = FoldLeft(Sample, collected, samples)
                    /\ sums' = FoldLeft(Summed, sums, samples)

Size(f) == Cardinality(DOMAIN f)
Forget(f, p) == [q \in DOMAIN f \ {p} |-> f[q]]
Stamp(f, p) == [q \in DOMAIN f \cup {p} |-> IF q = p THEN now ELSE f[q]]

\* The samples of _make_arrival(), which come with every arrival, and of
\* _make_service(), for processes in the system and in service after it.
ArrivalSamples(a, s) == <<<<"arrivals", now>>,
                          <<"inter_arrivals", now - lastArrival>>,
                          <<"in_systems", Size(a)>>,
                          <<"in_queues", Size(a) - Size(s)>>>>
ServiceSamples(p, a, s) == <<<<"services", now>>,
                             <<"queue_times", now - a[p]>>,
                             <<"in_queues", Size(a) - Size(s)>>,
                             <<"in_services", Size(s)>>>>

MayArrive == collected["arrivals"].n < MaxArrivals

\* _make_arrival(), with _make_service() at once or not.
MakeArrival(p, served) ==
  LET a == Stamp(arrived, p)
      s == IF served THEN Stamp(entered, p) ELSE entered
  IN /\ MayArrive
     /\ arrived' = a /\ entered' = s /\ lastArrival' = now
     /\ Collect(ArrivalSamples(a, entered)
                  \o IF served THEN ServiceSamples(p, a, s) ELSE <<>>)

\* _make_service() of a process that has waited.
MakeService(p) == /\ entered' = Stamp(entered, p)
                  /\ Collect(ServiceSamples(p, arrived, Stamp(entered, p)))
                  /\ UNCHANGED <<arrived, lastArrival>>

\* A seeded mistake: the queue is sampled before the process has left it.
MakeRenegeBefore(p) ==
  /\ arrived' = Forget(arrived, p)
  /\ Collect(<<<<"reneges", now>>,
               <<"renege_times", now - arrived[p]>>,
               <<"in_queues", Size(arrived) - Size(entered)>>,
               <<"in_systems", Size(arrived) - 1>>>>)
  /\ UNCHANGED <<entered, lastArrival>>

MakeRenege(p) ==
  /\ arrived' = Forget(arrived, p)
  /\ Collect(<<<<"reneges", now>>,
               <<"renege_times", now - arrived[p]>>,
               <<"in_queues", Size(arrived) - 1 - Size(entered)>>,
               <<"in_systems", Size(arrived) - 1>>>>)
  /\ UNCHANGED <<entered, lastArrival>>

MakeDeparture(p) ==
  /\ arrived' = Forget(arrived, p)
  /\ entered' = Forget(entered, p)
  /\ Collect(<<<<"departs", now>>,
               <<"service_times", now - entered[p]>>,
               <<"system_times", now - arrived[p]>>,
               <<"in_systems", Size(arrived) - 1>>,
               <<"in_services", Size(entered) - 1>>>>)
  /\ UNCHANGED lastArrival

-----------------------------------------------------------------------------
(* The steps of the resource, with their samples *)

\* The event loop takes an event, or ends a run, at this time or a later one.
Clock == now' \in IF cur = "pick" THEN {now, now + 1} \cap (0..MaxTime) ELSE {now}

\* A process in service does not acquire again: the time of its first arrival
\* would be lost with the record, and no figure could tell.
Once == cur \notin services

StatsNext ==
  \/ Once /\ AcquireAtOnce /\ MakeArrival(cur, TRUE) /\ UNCHANGED now
  \/ \E op \in {"direct", "cond"}, timed \in BOOLEAN :
       /\ op = "cond" \/ ~timed
       /\ Once /\ AcquireBlocks(op, timed) /\ MakeArrival(cur, FALSE) /\ UNCHANGED now
  \/ \E p \in Procs : /\ AcquireReturn(p) \/ CondReturn(p)
                      /\ IF p \in services' THEN MakeService(p) ELSE MakeRenege(p)
                      /\ UNCHANGED now
  \/ Release /\ MakeDeparture(cur) /\ UNCHANGED now
  \/ Other /\ Clock /\ UNCHANGED statVars

StatsSpec == StatsInit /\ [][StatsNext]_allVars

-----------------------------------------------------------------------------

\* The times that processes have spent in a set of records until now.
Spent(f) == MapThenSumSet(LAMBDA p : now - f[p], DOMAIN f)

Waited == [p \in DOMAIN arrived \ DOMAIN entered |-> arrived[p]]

\* The time average of a level, taken over all of the time, is the sum of the
\* given times of processes, divided by that time.
Averages(k, times, f) ==
  now > 0 => AvgOverTime(collected[k], now) =
    Ratio(MapThenSumSet(LAMBDA j : sums[j].total, times) + Spent(f), now)

\* Little's law, as an identity of what the collector has at every moment:
\* the number of processes in the system, in the queue and in service,
\* averaged over time, is the time the processes have spent there, those who
\* are still there included, per unit of time.  Each figure comes from samples
\* of its own, taken at different places.
LittlesLaw ==
  /\ Averages("in_systems", {"system_times", "renege_times"}, arrived)
  /\ Averages("in_queues", {"queue_times", "renege_times"}, Waited)
  /\ Averages("in_services", {"service_times"}, entered)

\* Every arrival is accounted for, and the one-pass figures of every series
\* are the mean and the variance of its samples.
FiguresExact ==
  /\ collected["arrivals"].n
       = collected["reneges"].n + collected["departs"].n + Size(arrived)
  /\ \A k \in Series :
       LET w == collected[k]
       IN w.n > 0 => /\ w.mean = Ratio(sums[k].total, w.n)
                     /\ w.varsum = Minus(Whole(sums[k].squares),
                                         Ratio(sums[k].total * sums[k].total, w.n))
=============================================================================
