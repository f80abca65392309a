------------------------------ MODULE EventList ------------------------------
(***************************************************************************)
(* The event list of a simulator (src/simulus/event.py, _EventList_): a    *)
(* priority queue of pending events ordered by timestamp.  What the list   *)
(* promises is stated over its contents only, a function from the pending  *)
(* events to their times; events with equal times come out in any order,   *)
(* as the order among them is an accident of the heap that PQDict models.  *)
(***************************************************************************)
EXTENDS Integers, FiniteSets

CONSTANTS Events,     \* identities of the event objects, id(evt) in the code
          InitLast,   \* what minus_infinite_time stands for
          MaxTime     \* bound: the latest time a model gives to an event

\* What the constants have to be; those who use the module assume it.
TimeAssumption == /\ MaxTime \in Int
                  /\ InitLast \in Int
                  /\ InitLast <= MaxTime

VARIABLES evlist,     \* the time of every event on the list
          last        \* the time up to which events have been delivered

vars == <<evlist, last>>

Times == InitLast..MaxTime

Pending == DOMAIN evlist

\* current_event(): the event is on the list.
Current(e) == e \in Pending

Init == /\ evlist = [e \in {} |-> InitLast]
        /\ last = InitLast

\* get_min(): e is one of the earliest events.
IsMin(e) == /\ e \in Pending
            /\ \A f \in Pending : evlist[e] <= evlist[f]

\* The list with event e at time t, and the list without the events of S.
With(e, t) == [f \in Pending \cup {e} |-> IF f = e THEN t ELSE evlist[f]]
Without(S) == [f \in Pending \ S |-> evlist[f]]

\* insert(): a past event is refused with a ValueError.
Insert(e, t) == /\ last <= t
                /\ evlist' = With(e, t)
                /\ UNCHANGED last

\* update(): only an event of the list, and not into the past.
Update(e, t) == /\ Current(e)
                /\ last <= t
                /\ evlist' = With(e, t)
                /\ UNCHANGED last

\* cancel(): only an event of the list.
Cancel(e) == /\ Current(e)
             /\ evlist' = Without({e})
             /\ UNCHANGED last

\* delete_min(): take one of the earliest events; its time is the new last.
DeleteMin(e) == /\ IsMin(e)
                /\ last' = evlist[e]
                /\ evlist' = Without({e})

\* delete_min() of a repeating event followed by its insert() at the next
\* time, with nothing in between (simulator.py, _process_one_event).
DeleteMinAndRenew(e, t) == /\ IsMin(e)
                           /\ evlist[e] <= t
                           /\ last' = evlist[e]
                           /\ evlist' = With(e, t)

\* _run() of the simulator moves last up to the end of a run, once no event
\* before that time is left.
AdvanceTo(t) == /\ last <= t
                /\ \A e \in Pending : t <= evlist[e]
                /\ last' = t
                /\ UNCHANGED evlist

Next == \/ \E e \in Events, t \in Times : \/ Insert(e, t) /\ e \notin Pending
                                          \/ Update(e, t)
                                          \/ DeleteMinAndRenew(e, t)
        \/ \E e \in Events : Cancel(e) \/ DeleteMin(e)
        \/ \E t \in Times : AdvanceTo(t)

Spec == Init /\ [][Next]_vars

-----------------------------------------------------------------------------

\* The pending events are events of the model, each with a time.
TypeOK == /\ Pending \subseteq Events
          /\ evlist \in [Pending -> Times]
          /\ last \in Times

\* No event is left behind: nothing on the list is earlier than what was
\* already delivered, which is the assertion last <= e.time of delete_min().
NothingInThePast == \A e \in Pending : last <= evlist[e]

\* Delivery is in timestamp order: the time of the last delivered event, and
\* with it the clock of the simulator, never goes back.
DeliveryInOrder == [][last <= last']_vars
=============================================================================
